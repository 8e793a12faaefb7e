------------------------------ MODULE NolikCall ------------------------------
(***************************************************************************)
(* The `send_message` call of pallets/nolik/src/lib.rs as pure operators:  *)
(* the format check, the counter arithmetic, the off-chain key and the     *)
(* error the call returns.  NolikPallet uses them on the storage of one    *)
(* runtime, NolikChain on the state of every block of a forking chain.     *)
(*                                                                         *)
(* Byte vectors are opaque: the pallet only asks whether one is empty.     *)
(*                                                                         *)
(* Here and in the other modules, an operator Name_Change before Name is a *)
(* mutant: Name with a plausible bug, which a property of some run catches *)
(* when it takes the place of Name.  No specification uses it.             *)
(***************************************************************************)
EXTENDS Naturals, Sequences

CONSTANTS
  Accounts,      \* T::AccountId, the accounts that may sign
  Root,          \* RawOrigin::Root, the origin pallet_sudo dispatches with
  Unsigned,      \* RawOrigin::None
  Bytes,         \* values a Vec<u8> may take
  EmptyBytes,    \* the empty Vec<u8>
  Metadata,      \* MessageMetadata values that callers submit
  MaxCounter     \* u128::MAX

Channel == [nonce : Bytes, parties : Seq(Bytes)]

ASSUME OriginAssumption == Root \notin Accounts /\ Unsigned \notin Accounts
ASSUME BytesAssumption == EmptyBytes \in Bytes
ASSUME MetadataAssumption == \A md \in Metadata : md.channels \in Seq(Channel)
ASSUME CounterAssumption == MaxCounter \in Nat

Origins == Accounts \cup {Root, Unsigned}

-----------------------------------------------------------------------------
(* check_message *)

MessageFormed(message) == message # EmptyBytes

\* Every channel has a nonce and holds one non-empty part for each channel.
\* `parties.is_empty()` is implied: there are as many parties as channels.
MetadataFormed(metadata) ==
  LET channels == metadata.channels IN
  /\ channels # << >>
  /\ \A c \in DOMAIN channels :
       /\ channels[c].nonce # EmptyBytes
       /\ Len(channels[c].parties) = Len(channels)
       /\ \A p \in DOMAIN channels[c].parties :
            channels[c].parties[p] # EmptyBytes

-----------------------------------------------------------------------------
(* Counter arithmetic and the off-chain key *)

\* counter.overflowing_add(1) on u128
WrappingSucc(counter) == IF counter = MaxCounter THEN 0 ELSE counter + 1
Overflowed_TooLate(counter) == counter > MaxCounter      \* mutant
Overflowed(counter) == counter = MaxCounter

\* MessageKey { account, counter }.encode(): both fields have a fixed width
\* under SCALE, so the encoding is injective and the pair stands for it.
DerivedKey_NoCounter(account, counter) ==                \* mutant
  [account |-> account, counter |-> 0]
DerivedKey_NoAccount(account, counter) ==                \* mutant
  [account |-> CHOOSE a \in Accounts : TRUE, counter |-> counter]
DerivedKey(account, counter) == [account |-> account, counter |-> counter]

\* The counter of the last message is never used as a key: at u128::MAX the
\* call is refused.
Keys == [account : Accounts, counter : 0 .. MaxCounter]

\* The key of the message being sent when the storage holds `counter`:
\* derived_key(&account, counter - 1) with the incremented counter.
KeyOfNext(account, counter) == DerivedKey(account, WrappingSucc(counter) - 1)

-----------------------------------------------------------------------------
(* The DispatchResult of send_message *)

Results == {"Ok", "BadOrigin", "MessageMalformed", "MetadataMalformed",
            "MessageCounterOverflow"}

CheckMessage_AnyMetadata(message, metadata) ==           \* mutant
  IF MessageFormed(message) THEN "Ok" ELSE "MessageMalformed"

CheckMessage(message, metadata) ==
  CASE ~MessageFormed(message)                             -> "MessageMalformed"
    [] MessageFormed(message) /\ ~MetadataFormed(metadata) -> "MetadataMalformed"
    [] OTHER                                               -> "Ok"

\* ensure_signed, then check_message, then the overflow test.
DispatchResult(origin, metadata, message, counter) ==
  LET checked == CheckMessage(message, metadata) IN
  CASE origin \notin Accounts                     -> "BadOrigin"
    [] origin \in Accounts /\ checked # "Ok"      -> checked
    [] /\ origin \in Accounts /\ checked = "Ok"
       /\ Overflowed(counter)                     -> "MessageCounterOverflow"
    [] OTHER                                      -> "Ok"

=============================================================================
