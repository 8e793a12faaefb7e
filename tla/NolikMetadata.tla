---------------------------- MODULE NolikMetadata ----------------------------
(***************************************************************************)
(* What the client crates compute: client/cypher (encryption of bytes and  *)
(* of messages) and client/metadata (channels and the root hash).          *)
(*                                                                         *)
(* Cryptography is symbolic.  A key pair is one name, which stands for the *)
(* public key where a public key is expected and for the secret key where  *)
(* a secret one is; a box opens only with the same nonce and the same      *)
(* Diffie-Hellman secret, the unordered pair of the keys; hashes and boxes *)
(* collide only when all their inputs are equal.                           *)
(***************************************************************************)
EXTENDS Naturals, SequencesExt

CONSTANTS
  KeyPairs,      \* crypto_box key pairs: of users and of brokers
  Nonces,        \* SalsaNonce values, public and secret
  Contents,      \* the bytes of entry keys and values
  Failed         \* CypherError::DecryptionFailed

Plain == KeyPairs \cup Nonces \cup Contents

ASSUME FailedAssumption == Failed \notin Plain

Kinds == {"RawData", "File"}

-----------------------------------------------------------------------------
(* client/cypher/src/lib.rs: BytesCypher for [u8] *)

Encrypt(data, nonce, pk, sk) ==
  [secret |-> {pk, sk}, nonce |-> nonce, data |-> data]

Decrypt(bytes, nonce, pk, sk) ==
  IF \E data \in Plain : bytes = Encrypt(data, nonce, pk, sk)
  THEN CHOOSE data \in Plain : bytes = Encrypt(data, nonce, pk, sk)
  ELSE Failed

(* The derived Cypher for Message and MessageEntry: every field of every      *)
(* entry under the same nonce, the kind left as it is, the first error of a   *)
(* field returned for the whole message.                                      *)

EncryptMessage(message, nonce, pk, sk) ==
  [i \in DOMAIN message |->
     [key   |-> Encrypt(message[i].key, nonce, pk, sk),
      value |-> Encrypt(message[i].value, nonce, pk, sk),
      kind  |-> message[i].kind]]

DecryptMessage(message, nonce, pk, sk) ==
  LET Open(bytes) == Decrypt(bytes, nonce, pk, sk) IN
  IF \E i \in DOMAIN message : Failed \in {Open(message[i].key), Open(message[i].value)}
  THEN Failed
  ELSE [i \in DOMAIN message |->
          [key   |-> Open(message[i].key),
           value |-> Open(message[i].value),
           kind  |-> message[i].kind]]

-----------------------------------------------------------------------------
(* client/metadata/src/meta.rs: the root hash *)

\* Blake2s over the concatenation of its arguments.  All but the first one of
\* hash_with_nonce have a fixed length, so the concatenation is injective.
Hash(parts) == [hash |-> parts]
hash_with_nonce(data, nonce) == Hash(<<data, nonce>>)

EntriesHash_Values(message, secret_nonce) ==             \* mutant
  Hash(Append([i \in DOMAIN message |->
                 hash_with_nonce(message[i].value, secret_nonce)],
              secret_nonce))

EntriesHash_Kinds(message, secret_nonce) ==              \* mutant
  Hash(Append([i \in DOMAIN message |->
                 Hash(<<message[i].key, message[i].value, message[i].kind>>)],
              secret_nonce))

\* The entries are hashed without their kind.
EntriesHash(message, secret_nonce) ==
  Hash(Append(FlattenSeq([i \in DOMAIN message |->
                            <<hash_with_nonce(message[i].key, secret_nonce),
                              hash_with_nonce(message[i].value, secret_nonce)>>]),
              secret_nonce))

RecipientsHash(recipients, secret_nonce) ==
  Hash(Append([i \in DOMAIN recipients |-> hash_with_nonce(recipients[i], secret_nonce)],
              secret_nonce))

compute_root_hash(origin, public_nonce, sender, broker, secret_nonce, recipients, message) ==
  Hash(<<hash_with_nonce(origin, secret_nonce),
         hash_with_nonce(public_nonce, secret_nonce),
         hash_with_nonce(secret_nonce, secret_nonce),
         hash_with_nonce(broker, secret_nonce),
         hash_with_nonce(sender, secret_nonce),
         RecipientsHash(recipients, secret_nonce),
         EntriesHash(message, secret_nonce)>>)

-----------------------------------------------------------------------------
(* client/metadata/src/meta.rs: MessageMetadata *)

Parties(sender, recipients) == <<sender>> \o recipients

ChannelFor_Recipients(party, parties, public_nonce, secret_nonce, broker) ==  \* mutant
  [nonce   |-> Encrypt(secret_nonce, public_nonce, party, broker),
   parties |-> [i \in DOMAIN Tail(parties) |->
                  Encrypt(Tail(parties)[i], secret_nonce, party, broker)]]

\* One channel for each party: the secret nonce under the public nonce, and
\* every party under the secret nonce, all between the broker and that party.
ChannelFor(party, parties, public_nonce, secret_nonce, broker) ==
  [nonce   |-> Encrypt(secret_nonce, public_nonce, party, broker),
   parties |-> [i \in DOMAIN parties |-> Encrypt(parties[i], secret_nonce, party, broker)]]

\* The broker key pair and the secret nonce are drawn by the function itself.
new_encrypted(origin, public_nonce, sender, recipients, message, broker, secret_nonce) ==
  LET parties == Parties(sender, recipients) IN
  [nonce    |-> public_nonce,
   broker   |-> broker,
   hash     |-> compute_root_hash(origin, public_nonce, sender, broker,
                                  secret_nonce, recipients, message),
   channels |-> [c \in DOMAIN parties |->
                   ChannelFor(parties[c], parties, public_nonce, secret_nonce, broker)]]

\* The loop of decrypt: the channels that are open after the first n of them.
\* One whose nonce does not open is another party's; one that opens must open
\* whole, see decrypt.
OpenChannels(metadata, receiver) ==
  LET Open(bytes, nonce) == Decrypt(bytes, nonce, metadata.broker, receiver)
      opened[n \in 0 .. Len(metadata.channels)] ==
        IF n = 0 THEN << >>
        ELSE LET channel == metadata.channels[n]
                 secret_nonce == Open(channel.nonce, metadata.nonce)
             IN IF secret_nonce = Failed THEN opened[n - 1]
                ELSE Append(opened[n - 1],
                       [nonce   |-> secret_nonce,
                        parties |-> [p \in DOMAIN channel.parties |->
                                       Open(channel.parties[p], secret_nonce)]])
  IN opened[Len(metadata.channels)]

decrypt_FirstError(metadata, receiver) ==                \* mutant
  LET channels == OpenChannels(metadata, receiver) IN
  IF Len(channels) # Len(metadata.channels)
  THEN Failed
  ELSE [metadata EXCEPT !.channels = channels]

decrypt(metadata, receiver) ==
  LET channels == OpenChannels(metadata, receiver) IN
  IF \E c \in DOMAIN channels : Failed \in Range(channels[c].parties)
  THEN Failed
  ELSE [metadata EXCEPT !.channels = channels]

=============================================================================
