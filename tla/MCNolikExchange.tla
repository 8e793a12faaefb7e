--------------------------- MODULE MCNolikExchange ---------------------------
(***************************************************************************)
(* Three users and two messages.  A message goes to one recipient, to two, *)
(* or twice to ann, who may be the sender; it may be empty, and the     *)
(* messages differ in the order of their entries or only in their keys.    *)
(***************************************************************************)
EXTENDS NolikExchange

CONSTANTS ann, ben, cat, k1, k2, sn1, sn2, pn, x, y

MCUsers == {ann, ben, cat}
MCBrokerKeys == <<k1, k2>>
MCSecretNonces == <<sn1, sn2>>
MCRecipientLists == {<<ben>>, <<cat, ben>>, <<ann, ann>>}

Entry(key, value, kind) == [key |-> key, value |-> value, kind |-> kind]
MCMessages ==
  {<< >>,
   <<Entry(x, y, "RawData")>>,
   <<Entry(x, x, "RawData"), Entry(y, y, "File")>>,
   <<Entry(y, y, "File"), Entry(x, x, "RawData")>>,
   <<Entry(y, x, "RawData"), Entry(x, y, "File")>>}

\* Two messages that differ only in their kind.
MCKinds == {<<Entry(x, y, kind)>> : kind \in Kinds}

=============================================================================
