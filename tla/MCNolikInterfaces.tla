-------------------------- MODULE MCNolikInterfaces --------------------------
(***************************************************************************)
(* Three users; a message for one recipient or for two, with entries of    *)
(* both kinds, of one kind, or without entries.                            *)
(***************************************************************************)
EXTENDS NolikInterfaces

CONSTANTS ann, ben, cat, broker, sn, pn, x, y

MCUsers == {ann, ben, cat}
MCRecipientLists == {<<ben>>, <<cat, ben>>}

Entry(key, value, kind) == [key |-> key, value |-> value, kind |-> kind]
MCMessages ==
  {<< >>, <<Entry(x, y, "RawData")>>, <<Entry(x, x, "RawData"), Entry(y, y, "File")>>}

=============================================================================
