---------------------------- MODULE NolikInterfaces ----------------------------
(***************************************************************************)
(* One message between users of different interfaces to the metadata       *)
(* crate: Rust callers (client/src/main.rs), hosts of the C interface      *)
(* (client/metadata/src/lib.rs, mod ffi) and JavaScript (client/js-wasm).  *)
(* The C interface takes and returns JSON, in which every field has its    *)
(* type; JavaScript takes and returns Maps and arrays of bytes, in which a *)
(* key and a nonce differ by their length only and entries have no kind.   *)
(***************************************************************************)
EXTENDS NolikUsers

CONSTANTS
  Broker,       \* the broker key pair that is drawn
  DrawnNonce,   \* the secret nonce that is drawn
  PublicNonce,  \* the nonce that the sender chose
  Zeros,        \* the default of an array of bytes
  Trap          \* the wasm instance panics

ASSUME InterfacesAssumption ==
  /\ Broker \in KeyPairs \ Users
  /\ {DrawnNonce, PublicNonce} \subseteq Nonces /\ DrawnNonce # PublicNonce
  /\ Zeros \notin Plain

\* A root hash is longer than a nonce.
ASSUME HashAssumption ==
  \A sender \in Users, recipients \in RecipientLists, message \in Messages :
    compute_root_hash(sender, PublicNonce, sender, Broker, DrawnNonce, recipients, message)
      \notin Nonces

\* An error is none of the messages of an Ok, with kinds or in a Map, encrypted
\* or not.
Fields ==
  Contents \cup {Encrypt(data, nonce, pk, sk) :
                   data \in Contents, nonce \in Nonces, pk \in KeyPairs, sk \in KeyPairs}
ASSUME ErrorsAssumption ==
  \A error \in {Failed, Trap} :
    /\ error \notin Seq([key : Fields, value : Fields, kind : Kinds])
    /\ error \notin Seq([key : Fields, value : Fields])

Interfaces == {"rust", "c", "js"}

KeySized(bytes) == bytes \in KeyPairs         \* KEY_SIZE bytes
NonceSized(bytes) == bytes \in Nonces         \* NONCE_SIZE bytes
HashSized(bytes) == bytes \notin Nonces       \* KEY_SIZE bytes, not NONCE_SIZE

\* What on_message does, by the MessageAction that it is given.
Act(action, message, nonce, pk, sk) ==
  IF action = "Encrypt" THEN EncryptMessage(message, nonce, pk, sk)
  ELSE DecryptMessage(message, nonce, pk, sk)

-----------------------------------------------------------------------------
(* C: a returned struct has either an error or contents; the other is the   *)
(* default, and so are the contents of an error.                            *)

DefaultMetadata == [nonce |-> Zeros, broker |-> Zeros, hash |-> Zeros, channels |-> << >>]

CMetadata(metadata) ==
  IF metadata = Failed THEN [metadata |-> DefaultMetadata, error |-> TRUE]
  ELSE [metadata |-> metadata, error |-> FALSE]

CMessage_Silent(message) ==                              \* mutant
  IF message = Failed THEN [message |-> << >>, error |-> FALSE]
  ELSE [message |-> message, error |-> FALSE]
CMessage(message) ==
  IF message = Failed THEN [message |-> << >>, error |-> TRUE]
  ELSE [message |-> message, error |-> FALSE]

\* serde refuses an array of the wrong length.
CDecryptMetadata(metadata, receiver_sk) ==
  CMetadata(IF KeySized(receiver_sk) THEN decrypt(metadata, receiver_sk) ELSE Failed)

COnMessage(action, message, nonce, pk, sk) ==
  CMessage(IF NonceSized(nonce) /\ KeySized(pk) /\ KeySized(sk)
           THEN Act(action, message, nonce, pk, sk) ELSE Failed)

-----------------------------------------------------------------------------
(* JavaScript *)

message_to_js(message) ==
  [i \in DOMAIN message |-> [key |-> message[i].key, value |-> message[i].value]]

message_from_js_Swapped(map) ==                          \* mutant
  [i \in DOMAIN map |-> [key |-> map[i].value, value |-> map[i].key, kind |-> "RawData"]]
message_from_js(map) ==
  [i \in DOMAIN map |-> [key |-> map[i].key, value |-> map[i].value, kind |-> "RawData"]]

metadata_to_js_map(meta) ==
  [nonce |-> meta.nonce, broker |-> meta.broker, hash |-> meta.hash,
   channels |-> meta.channels]

js_map_to_metadata(map) ==
  IF NonceSized(map.nonce) /\ KeySized(map.broker) /\ HashSized(map.hash)
  THEN [nonce |-> map.nonce, broker |-> map.broker, hash |-> map.hash,
        channels |-> map.channels]
  ELSE Failed

JsDecryptMetadata(map, secret_key) ==
  LET meta == js_map_to_metadata(map)
      opened == decrypt(meta, secret_key)
  IN IF meta = Failed \/ ~KeySized(secret_key) \/ opened = Failed THEN Failed
     ELSE metadata_to_js_map(opened)

\* from_slice panics on a nonce of the wrong length, before the keys are
\* looked at.
JsOnMessage(action, map, nonce, pk, sk) ==
  LET done == Act(action, message_from_js(map), nonce, pk, sk) IN
  CASE ~NonceSized(nonce)                                  -> Trap
    [] NonceSized(nonce) /\ ~(KeySized(pk) /\ KeySized(sk)) -> Failed
    [] NonceSized(nonce) /\ KeySized(pk) /\ KeySized(sk)    ->
         IF done = Failed THEN Failed ELSE message_to_js(done)

-----------------------------------------------------------------------------
(* The same calls through any interface.  An error is Failed or Trap. *)

\* Entries in a Map have no kind: whoever takes them for a message of the
\* crate has raw data.
AsRawData(map) ==
  [i \in DOMAIN map |-> [key |-> map[i].key, value |-> map[i].value, kind |-> "RawData"]]

\* What a caller of the interface means by a message: JavaScript has no kinds.
Given(via, message) == IF via = "js" THEN message_from_js(message_to_js(message)) ELSE message

NewMetadata(via, sender, recipients, message) ==
  LET meta == new_encrypted(sender, PublicNonce, sender, recipients, Given(via, message),
                            Broker, DrawnNonce)
  IN CASE via = "rust" -> meta
       [] via = "c"    -> CMetadata(meta).metadata
       [] via = "js"   -> metadata_to_js_map(meta)

OpenMetadata(via, metadata, user) ==
  LET c == CDecryptMetadata(metadata, user) IN
  CASE via = "rust" -> decrypt(metadata, user)
    [] via = "c"    -> IF c.error THEN Failed ELSE c.metadata
    [] via = "js"   -> JsDecryptMetadata(metadata_to_js_map(metadata), user)

OnMessage(via, action, message, nonce, pk, sk) ==
  LET c == COnMessage(action, message, nonce, pk, sk)
      js == JsOnMessage(action, message_to_js(message), nonce, pk, sk)
  IN CASE via = "rust" -> Act(action, message, nonce, pk, sk)
       [] via = "c"    -> IF c.error THEN Failed ELSE c.message
       [] via = "js"   -> IF js \in {Failed, Trap} THEN js ELSE AsRawData(js)

-----------------------------------------------------------------------------

VARIABLES
  posted,  \* what the sender published, and what went into it
  seen,    \* what one reader sees of the metadata
  got      \* what it got from the data

interfaces_vars == <<posted, seen, got>>

InterfacesInit == posted = Nothing /\ seen = Nothing /\ got = Nothing

PublishVia(via, sender) ==
  /\ posted = Nothing
  /\ \E recipients \in RecipientLists, message \in Messages : \E to \in Range(recipients) :
       posted' = [via |-> via, sender |-> sender, to |-> to, message |-> message,
                  recipients |-> recipients,
                  metadata |-> NewMetadata(via, sender, recipients, message),
                  data |-> OnMessage(via, "Encrypt", message, DrawnNonce, to, sender)]
  /\ UNCHANGED <<seen, got>>

OpenVia(via, user) ==
  /\ posted # Nothing /\ seen = Nothing
  /\ seen' = [via |-> via, user |-> user,
              metadata |-> OpenMetadata(via, posted.metadata, user)]
  /\ UNCHANGED <<posted, got>>

\* The nonces that a reader has at hand; the last one is the box of the secret
\* nonce, which is longer than a nonce.
NoncesSeen ==
  {PublicNonce, posted.metadata.channels[1].nonce}
    \cup {channel.nonce : channel \in Range(seen.metadata.channels)}

\* The reader may take any of the nonces and any user for the peer.  In Rust
\* a nonce of another length has another type.
ReadVia(peer) ==
  /\ seen # Nothing /\ got = Nothing
  /\ seen.metadata # Failed
  /\ \E nonce \in NoncesSeen :
       /\ seen.via = "rust" => NonceSized(nonce)
       /\ got' = [nonce |-> nonce, peer |-> peer,
                  result |-> OnMessage(seen.via, "Decrypt", posted.data,
                                       nonce, peer, seen.user)]
  /\ UNCHANGED <<posted, seen>>

InterfacesNext ==
  \/ \E via \in Interfaces, user \in Users : PublishVia(via, user) \/ OpenVia(via, user)
  \/ \E peer \in Users : ReadVia(peer)

InterfacesSpec == InterfacesInit /\ [][InterfacesNext]_interfaces_vars

-----------------------------------------------------------------------------
(* Safety *)

Party(user) == user \in Range(Parties(posted.sender, posted.recipients))

\* Whoever made the metadata, every interface opens them alike: a party sees
\* the secret nonce and the parties, and nobody else sees a channel.
MetadataOpenAlike ==
  seen # Nothing =>
    /\ seen.metadata = decrypt(posted.metadata, seen.user)
    /\ Party(seen.user) =>
         seen.metadata.channels[1] =
           [nonce |-> DrawnNonce, parties |-> Parties(posted.sender, posted.recipients)]
    /\ ~Party(seen.user) => seen.metadata.channels = << >>

Kindless(message) == message_to_js(message)
RightPair == {seen.user, got.peer} = {posted.sender, posted.to}

\* With the nonce of its channel the reader gets the entries that were sent,
\* through whatever interfaces.  Kinds survive unless JavaScript is on the way:
\* it takes a file for raw data.  The root hash fits all the same, because it
\* leaves the kinds out.
EntriesSurvive ==
  got # Nothing /\ RightPair /\ got.nonce = DrawnNonce =>
    /\ got.result \notin {Failed, Trap}
    /\ Kindless(got.result) = Kindless(posted.message)
    /\ "js" \notin {posted.via, seen.via} => got.result = posted.message
    /\ "js" \in {posted.via, seen.via} =>
         \A e \in DOMAIN got.result : got.result[e].kind = "RawData"
    /\ posted.metadata.hash =
         compute_root_hash(posted.sender, posted.metadata.nonce, posted.sender,
                           posted.metadata.broker, DrawnNonce, posted.recipients,
                           got.result)

\* With another nonce or peer a reader is told so: no interface makes a
\* message of it, not even the empty one that the C interface fills in.
NoFalseMessage ==
  got # Nothing /\ posted.message # << >>
    /\ ~(RightPair /\ got.nonce = DrawnNonce)
  => got.result \in {Failed, Trap}

=============================================================================
