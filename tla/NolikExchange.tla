---------------------------- MODULE NolikExchange ----------------------------
(***************************************************************************)
(* Users who exchange messages with the client crates, in the way of       *)
(* client/src/main.rs: a sender builds metadata for its recipients and     *)
(* encrypts the message for one of them; both are published.  A reader     *)
(* decrypts the metadata, and with the nonce of its first channel it       *)
(* decrypts the data it is handed.                                         *)
(*                                                                         *)
(* Events and off-chain data travel apart, and after a fork the data at a  *)
(* key may be those of another message (NolikChain), so the data a reader  *)
(* gets are those of any published message.                                *)
(***************************************************************************)
EXTENDS NolikUsers

CONSTANTS
  BrokerKeys,      \* BrokerKeys[i]: the broker key pair drawn for message i
  SecretNonces,    \* SecretNonces[i]: the secret nonce drawn for message i
  PublicNonces,    \* the nonces callers choose, reused by some
  NoChannel        \* the reader finds no channel of its own

MaxPackets == Len(BrokerKeys)

\* Fresh keys and nonces are never drawn twice nor chosen by a user.
ASSUME FreshAssumption ==
  /\ PublicNonces \subseteq Nonces
  /\ BrokerKeys \in Seq(KeyPairs \ Users) /\ IsInjective(BrokerKeys)
  /\ SecretNonces \in Seq(Nonces \ PublicNonces) /\ IsInjective(SecretNonces)
  /\ Len(SecretNonces) = Len(BrokerKeys)

\* A box is never an empty vector, for it ends in an authentication tag.
ASSUME BoxAssumption ==
  \A data \in Plain, nonce \in Nonces, pk, sk \in KeyPairs :
    Encrypt(data, nonce, pk, sk) # Nothing

VARIABLES
  packets,   \* the messages published, in order
  reading    \* what a reader got (bound: one reading, readers are independent)

vars == <<packets, reading>>

Packet_OldNonce(i, origin, public_nonce, sender, recipients, to, message) ==  \* mutant
  [metadata   |-> new_encrypted(origin, public_nonce, sender, recipients, message,
                                BrokerKeys[i], SecretNonces[1]),
   data       |-> EncryptMessage(message, SecretNonces[1], to, sender),
   origin     |-> origin,
   sender     |-> sender,
   recipients |-> recipients,
   to         |-> to,
   message    |-> message]

Packet_PublicNonce(i, origin, public_nonce, sender, recipients, to, message) ==  \* mutant
  [metadata   |-> new_encrypted(origin, public_nonce, sender, recipients, message,
                                BrokerKeys[i], SecretNonces[i]),
   data       |-> EncryptMessage(message, public_nonce, to, sender),
   origin     |-> origin,
   sender     |-> sender,
   recipients |-> recipients,
   to         |-> to,
   message    |-> message]

\* A packet is what is published (metadata and data) and what went into it.
Packet(i, origin, public_nonce, sender, recipients, to, message) ==
  [metadata   |-> new_encrypted(origin, public_nonce, sender, recipients, message,
                                BrokerKeys[i], SecretNonces[i]),
   data       |-> EncryptMessage(message, SecretNonces[i], to, sender),
   origin     |-> origin,
   sender     |-> sender,
   recipients |-> recipients,
   to         |-> to,
   message    |-> message]

PartiesOf(i) == Parties(packets[i].sender, packets[i].recipients)

Init == packets = << >> /\ reading = Nothing

Send(sender) ==
  /\ Len(packets) < MaxPackets
  /\ \E nonce \in PublicNonces, recipients \in RecipientLists, message \in Messages :
       \E to \in Range(recipients) :
         packets' = Append(packets, Packet(Len(packets) + 1, sender, nonce, sender,
                                           recipients, to, message))
  /\ UNCHANGED reading

\* `channels.first().expect("Couldn't decrypt any channel")` panics.
FindNoChannel(user) ==
  /\ reading = Nothing
  /\ \E i \in DOMAIN packets :
       /\ decrypt(packets[i].metadata, user) # Failed
       /\ decrypt(packets[i].metadata, user).channels = << >>
       /\ reading' = [user |-> user, event |-> i, data |-> i, peer |-> user,
                      result |-> NoChannel]
  /\ UNCHANGED packets

\* The peer is one of the parties that the channel names.
Read(user) ==
  /\ reading = Nothing
  /\ \E i, j \in DOMAIN packets :
       LET opened == decrypt(packets[i].metadata, user) IN
       /\ opened # Failed
       /\ opened.channels # << >>
       /\ \E peer \in Range(opened.channels[1].parties) :
            reading' = [user |-> user, event |-> i, data |-> j, peer |-> peer,
                        result |-> DecryptMessage(packets[j].data,
                                                  opened.channels[1].nonce, peer, user)]
  /\ UNCHANGED packets

Next == \E user \in Users : Send(user) \/ FindNoChannel(user) \/ Read(user)

Spec == Init /\ [][Next]_vars

-----------------------------------------------------------------------------
(* Safety *)

\* The published metadata open for the parties and for nobody else: decrypt
\* never fails on them, and shows a party one channel for each time it was
\* named, with the secret nonce and everyone the message is between.
ChannelsOpenForParties ==
  \A i \in DOMAIN packets, user \in Users :
    LET opened == decrypt(packets[i].metadata, user) IN
    /\ opened # Failed
    /\ Len(opened.channels) = Cardinality({p \in DOMAIN PartiesOf(i) : PartiesOf(i)[p] = user})
    /\ \A c \in DOMAIN opened.channels :
         opened.channels[c] = [nonce |-> SecretNonces[i], parties |-> PartiesOf(i)]

\* A reader that gets entries has the data that belong to its event and is one
\* of the two users the sender encrypted them for; then they are the message
\* as it was sent.  Data of another message, or a reader or a peer that is only
\* a party, give an error: only a message without entries opens for everyone.
NoMisreading ==
  reading # Nothing /\ reading.result \notin {Failed, NoChannel, << >>} =>
    LET packet == packets[reading.event] IN
    /\ reading.data = reading.event
    /\ {reading.user, reading.peer} = {packet.sender, packet.to}
    /\ reading.result = packet.message

\* The recipient that the message is encrypted for reads it, with the sender as
\* peer (the round trip of client/src/main.rs:112-124).
RecipientReads ==
  \A i \in DOMAIN packets :
    LET opened == decrypt(packets[i].metadata, packets[i].to) IN
    DecryptMessage(packets[i].data, opened.channels[1].nonce,
                   packets[i].sender, packets[i].to) = packets[i].message

\* The pallet accepts whatever new_encrypted builds: MetadataFormed with boxes
\* for bytes, none of which is empty.
Pallet == INSTANCE NolikCall WITH
            Accounts <- Users, Root <- NoChannel, Unsigned <- Nothing,
            Bytes <- {}, EmptyBytes <- Nothing, Metadata <- {}, MaxCounter <- 0
PalletAccepts ==
  \A i \in DOMAIN packets : Pallet!MetadataFormed(packets[i].metadata)

\* Everything a reader knows after decrypting the metadata and the message.
RootHash(i, message) ==
  LET opened == decrypt(packets[i].metadata, packets[i].to)
      channel == opened.channels[1]
  IN compute_root_hash(packets[i].origin, opened.nonce, Head(channel.parties),
                       opened.broker, channel.nonce, Tail(channel.parties), message)

Unkinded(message) == [e \in DOMAIN message |-> <<message[e].key, message[e].value>>]

\* A recipient can recompute the root hash, and it matches for no message with
\* other keys, other values, fewer entries or another order of them.
HashTellsContents ==
  \A i \in DOMAIN packets, message \in Messages :
    RootHash(i, message) = packets[i].metadata.hash
      <=> Unkinded(message) = Unkinded(packets[i].message)

\* "The root hash of all metadata and message entries" (meta.rs:29): the hash
\* tells any two messages apart.
HashCoversEntries ==
  \A i \in DOMAIN packets, message \in Messages :
    RootHash(i, message) = packets[i].metadata.hash => message = packets[i].message

=============================================================================
