----------------------------- MODULE NolikPallet -----------------------------
(***************************************************************************)
(* pallets/nolik: the storage of the pallet in one runtime and its only    *)
(* call, `send_message`, executed as extrinsics arrive one after another.  *)
(* Forks and the off-chain databases of several nodes are in NolikChain.   *)
(***************************************************************************)
EXTENDS NolikCall

CONSTANT NoData    \* local_storage_get returns None

ASSUME NoDataAssumption == NoData \notin Bytes

VARIABLES
  message_counter,  \* MessageCounter<T>: u128, ValueQuery
  offchain,         \* what offchain_index::set has written, key by key
  events,           \* the MessageSent events deposited so far, in order
  result            \* the DispatchResult of the last call

vars == <<message_counter, offchain, events, result>>

Event == [key : Keys, metadata : Metadata]

TypeOK ==
  /\ message_counter \in 0 .. MaxCounter
  /\ offchain \in [Keys -> Bytes \cup {NoData}]
  /\ events \in Seq(Event)
  /\ result \in Results

Init ==
  /\ message_counter = 0
  /\ offchain = [k \in Keys |-> NoData]
  /\ events = << >>
  /\ result = "Ok"

Accept_NoWrite(origin, metadata, message) ==             \* mutant
  LET key == KeyOfNext(origin, message_counter) IN
  /\ DispatchResult(origin, metadata, message, message_counter) = "Ok"
  /\ message_counter' = WrappingSucc(message_counter)
  /\ events' = Append(events, [key |-> key, metadata |-> metadata])
  /\ result' = "Ok"
  /\ UNCHANGED offchain

\* The call passes every check: the message goes to the off-chain storage,
\* the counter is put back incremented, the event carries key and metadata.
Accept(origin, metadata, message) ==
  LET key == KeyOfNext(origin, message_counter) IN
  /\ DispatchResult(origin, metadata, message, message_counter) = "Ok"
  /\ offchain' = [offchain EXCEPT ![key] = message]
  /\ message_counter' = WrappingSucc(message_counter)
  /\ events' = Append(events, [key |-> key, metadata |-> metadata])
  /\ result' = "Ok"

Refuse_Counted(origin, metadata, message) ==             \* mutant
  /\ result' = DispatchResult(origin, metadata, message, message_counter)
  /\ result' # "Ok"
  /\ message_counter' = WrappingSucc(message_counter)
  /\ UNCHANGED <<offchain, events>>

\* One of the early returns: nothing has been written yet.
Refuse(origin, metadata, message) ==
  /\ result' = DispatchResult(origin, metadata, message, message_counter)
  /\ result' # "Ok"
  /\ UNCHANGED <<message_counter, offchain, events>>

send_message(origin, metadata, message) ==
  \/ Accept(origin, metadata, message)
  \/ Refuse(origin, metadata, message)

Next ==
  \E origin \in Origins, metadata \in Metadata, message \in Bytes :
    send_message(origin, metadata, message)

Spec == Init /\ [][Next]_vars

-----------------------------------------------------------------------------
(* Safety *)

\* Two messages never share an off-chain key, whoever sent them and however
\* many calls were refused in between (derived_key, "to make it unique").
KeysUnique ==
  \A i, j \in 1 .. Len(events) : events[i].key = events[j].key => i = j

\* The off-chain storage and the events tell the same story: a key holds data
\* exactly when an event announced it (the write at lib.rs:92 and the event
\* at lib.rs:96 go together).
DataIffAnnounced ==
  \A k \in Keys :
    offchain[k] # NoData <=> \E i \in 1 .. Len(events) : events[i].key = k

\* The position of an event in the history is the counter in its key, and
\* the counter in storage is the number of messages sent: the counter can
\* never be moved by a call that was refused, nor wrap at u128::MAX.
CounterIsHistory ==
  /\ message_counter = Len(events)
  /\ \A i \in 1 .. Len(events) : events[i].key.counter = i - 1

\* Only checked messages are announced, and the data at an announced key is
\* one of them.
OnlyChecked ==
  \A i \in 1 .. Len(events) :
    /\ MetadataFormed(events[i].metadata)
    /\ offchain[events[i].key] \in {m \in Bytes : MessageFormed(m)}

\* The pallet implements the log: entry i is the account and metadata of the
\* i-th event together with what the off-chain storage now holds at its key.
LogEntry ==
  [account  : Accounts,
   metadata : {md \in Metadata : MetadataFormed(md)},
   message  : {m \in Bytes : MessageFormed(m)}]

PublishedLog ==
  [i \in 1 .. Len(events) |->
     [account  |-> events[i].key.account,
      metadata |-> events[i].metadata,
      message  |-> offchain[events[i].key]]]

Log == INSTANCE MessageLog WITH
         Entry <- LogEntry, Capacity <- MaxCounter, log <- PublishedLog

\* Every published message stays as it was sent: no later call of any account
\* changes or removes an entry, and only checked messages are entries.
ImplementsLog == Log!Spec

=============================================================================
