------------------------------ MODULE NolikUsers ------------------------------
(***************************************************************************)
(* The users of the client crates and the messages that they send: what    *)
(* NolikExchange and NolikInterfaces have in common.                       *)
(***************************************************************************)
EXTENDS NolikMetadata

CONSTANTS
  Users,           \* the key pairs of the users
  RecipientLists,  \* the recipients that senders name
  Messages,        \* the messages they send: sequences of entries
  Nothing          \* not there yet

ASSUME UsersAssumption == Users \subseteq KeyPairs

ASSUME RecipientsAssumption ==
  \A r \in RecipientLists : r \in Seq(Users) /\ r # << >>

ASSUME MessagesAssumption ==
  \A m \in Messages : m \in Seq([key : Contents, value : Contents, kind : Kinds])

\* Result: Err(DecryptionFailed) is none of the metadata of an Ok, encrypted
\* or decrypted.
ASSUME ResultAssumption ==
  \A sender, user \in Users, broker \in KeyPairs \ Users, nonce, secret_nonce \in Nonces,
     recipients \in RecipientLists, message \in Messages :
    LET metadata == new_encrypted(sender, nonce, sender, recipients, message,
                                  broker, secret_nonce)
    IN Failed \notin {metadata, [metadata EXCEPT !.channels = OpenChannels(metadata, user)]}

=============================================================================
