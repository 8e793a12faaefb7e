-------------------------- MODULE NolikPalletProofs --------------------------
(***************************************************************************)
(* Proofs about NolikPallet, for any set of accounts, any metadata and any *)
(* width of the counter.                                                   *)
(***************************************************************************)
EXTENDS NolikPallet, SequenceTheorems, TLAPS

USE OriginAssumption, BytesAssumption, MetadataAssumption, CounterAssumption,
    NoDataAssumption

\* The key of the next message, when the call is not refused, carries the
\* counter as it is in storage: `counter - 1` undoes the increment.
LEMMA KeyOfNextIsCurrent ==
  ASSUME NEW account \in Accounts, NEW counter \in 0 .. MaxCounter,
         ~Overflowed(counter)
  PROVE  /\ KeyOfNext(account, counter) = [account |-> account, counter |-> counter]
         /\ KeyOfNext(account, counter) \in Keys
         /\ WrappingSucc(counter) = counter + 1
         /\ WrappingSucc(counter) \in 0 .. MaxCounter
  BY DEF KeyOfNext, DerivedKey, WrappingSucc, Overflowed, Keys

\* What an accepted call has been checked for.
LEMMA AcceptedCall ==
  ASSUME NEW origin, NEW metadata, NEW message, NEW counter,
         DispatchResult(origin, metadata, message, counter) = "Ok"
  PROVE  /\ origin \in Accounts
         /\ MessageFormed(message)
         /\ MetadataFormed(metadata)
         /\ ~Overflowed(counter)
  BY DEF DispatchResult, CheckMessage

LEMMA ResultType ==
  ASSUME NEW origin, NEW metadata, NEW message, NEW counter
  PROVE  DispatchResult(origin, metadata, message, counter) \in Results
  BY DEF DispatchResult, CheckMessage, Results

-----------------------------------------------------------------------------

\* Every call keeps the counter within u128, the storage and the events typed.
THEOREM TypeCorrect == Spec => []TypeOK
<1>1. Init => TypeOK
  BY DEF Init, TypeOK, Results
<1>2. TypeOK /\ [Next]_vars => TypeOK'
  <2> SUFFICES ASSUME TypeOK, [Next]_vars PROVE TypeOK'
    OBVIOUS
  <2>1. ASSUME NEW origin \in Origins, NEW metadata \in Metadata,
               NEW message \in Bytes, Accept(origin, metadata, message)
        PROVE  TypeOK'
    <3>1. origin \in Accounts /\ ~Overflowed(message_counter)
      BY <2>1, AcceptedCall DEF Accept
    <3>2. /\ KeyOfNext(origin, message_counter) \in Keys
          /\ WrappingSucc(message_counter) \in 0 .. MaxCounter
      BY <3>1, KeyOfNextIsCurrent DEF TypeOK
    <3>3. message_counter' \in 0 .. MaxCounter /\ result' \in Results
      BY <2>1, <3>2 DEF Accept, Results
    <3>4. offchain' \in [Keys -> Bytes \cup {NoData}]
      BY <2>1, <3>2 DEF Accept, TypeOK
    <3>5. events' \in Seq(Event)
      BY <2>1, <3>2 DEF Accept, TypeOK, Event
    <3>6. QED
      BY <3>3, <3>4, <3>5 DEF TypeOK
  <2>2. ASSUME NEW origin \in Origins, NEW metadata \in Metadata,
               NEW message \in Bytes, Refuse(origin, metadata, message)
        PROVE  TypeOK'
    BY <2>2, ResultType DEF Refuse, TypeOK
  <2>3. CASE UNCHANGED vars
    BY <2>3 DEF vars, TypeOK
  <2>4. QED
    BY <2>1, <2>2, <2>3 DEF Next, send_message
<1>3. QED
  BY <1>1, <1>2, PTL DEF Spec

-----------------------------------------------------------------------------
(* The inductive invariant: the counter is the length of the history, so   *)
(* the key of the next message is fresh; hence the write of an accepted    *)
(* call cannot hit a key announced before.                                 *)

IndInv == TypeOK /\ CounterIsHistory /\ DataIffAnnounced /\ OnlyChecked

\* What an accepted call does to the history, stated once for all invariants.
LEMMA AcceptedStep ==
  ASSUME IndInv, NEW origin \in Origins, NEW metadata \in Metadata,
         NEW message \in Bytes, Accept(origin, metadata, message)
  PROVE  /\ origin \in Accounts /\ MessageFormed(message) /\ MetadataFormed(metadata)
         /\ message # NoData
         /\ Len(events) < MaxCounter
         /\ Len(events') = Len(events) + 1
         /\ \A i \in 1 .. Len(events) : events'[i] = events[i]
         /\ events'[Len(events) + 1] =
              [key |-> [account |-> origin, counter |-> Len(events)],
               metadata |-> metadata]
         /\ message_counter' = message_counter + 1
         /\ [account |-> origin, counter |-> Len(events)] \in Keys
         /\ offchain' = [offchain EXCEPT
              ![[account |-> origin, counter |-> Len(events)]] = message]
<1>1. /\ origin \in Accounts /\ MessageFormed(message) /\ MetadataFormed(metadata)
      /\ ~Overflowed(message_counter)
  BY AcceptedCall DEF Accept
<1>2. /\ message_counter = Len(events) /\ message_counter \in 0 .. MaxCounter
      /\ events \in Seq(Event)
  BY DEF IndInv, TypeOK, CounterIsHistory
<1>3. /\ KeyOfNext(origin, message_counter) =
           [account |-> origin, counter |-> Len(events)]
      /\ KeyOfNext(origin, message_counter) \in Keys
      /\ WrappingSucc(message_counter) = message_counter + 1
  BY <1>1, <1>2, KeyOfNextIsCurrent
<1>4. /\ events' = Append(events, [key |-> KeyOfNext(origin, message_counter),
                                   metadata |-> metadata])
      /\ message_counter' = WrappingSucc(message_counter)
      /\ offchain' = [offchain EXCEPT ![KeyOfNext(origin, message_counter)] = message]
  BY DEF Accept
<1>5. /\ Len(events') = Len(events) + 1
      /\ \A i \in 1 .. Len(events) : events'[i] = events[i]
      /\ events'[Len(events) + 1] =
           [key |-> KeyOfNext(origin, message_counter), metadata |-> metadata]
  BY <1>2, <1>4
<1>6. Len(events) < MaxCounter
  BY <1>1, <1>2 DEF Overflowed
<1>7. QED
  BY <1>1, <1>3, <1>4, <1>5, <1>6

LEMMA Induction == Spec => []IndInv
<1>1. Init => IndInv
  BY DEF Init, IndInv, TypeOK, Results, CounterIsHistory, DataIffAnnounced, OnlyChecked
<1>2. TypeOK /\ TypeOK' /\ IndInv /\ [Next]_vars => IndInv'
  <2> SUFFICES ASSUME TypeOK', IndInv, [Next]_vars PROVE IndInv'
    OBVIOUS
  <2>0. /\ TypeOK /\ CounterIsHistory /\ DataIffAnnounced /\ OnlyChecked
        /\ Len(events) \in Nat /\ DOMAIN offchain = Keys
    BY DEF IndInv, TypeOK
  <2>1. ASSUME NEW origin \in Origins, NEW metadata \in Metadata,
               NEW message \in Bytes, Accept(origin, metadata, message)
        PROVE  IndInv'
    <3> DEFINE key == [account |-> origin, counter |-> Len(events)]
    <3>1. /\ MessageFormed(message) /\ MetadataFormed(metadata) /\ message # NoData
          /\ Len(events') = Len(events) + 1
          /\ \A i \in 1 .. Len(events) : events'[i] = events[i]
          /\ events'[Len(events) + 1] = [key |-> key, metadata |-> metadata]
          /\ message_counter' = message_counter + 1
          /\ key \in Keys
          /\ offchain' = [offchain EXCEPT ![key] = message]
      BY <2>1, AcceptedStep
    <3>2. CounterIsHistory'
      BY <2>0, <3>1 DEF CounterIsHistory
    <3>3. \A i \in 1 .. Len(events) : events[i].key # key
      BY <2>0 DEF CounterIsHistory
    <3>4. DataIffAnnounced'
      <4> SUFFICES ASSUME NEW k \in Keys
                   PROVE  offchain'[k] # NoData <=>
                          \E i \in 1 .. Len(events') : events'[i].key = k
        BY DEF DataIffAnnounced
      <4>1. CASE k = key
        <5>1. offchain'[k] # NoData
          BY <4>1, <2>0, <3>1
        <5>2. Len(events) + 1 \in 1 .. Len(events') /\ events'[Len(events) + 1].key = k
          BY <4>1, <2>0, <3>1
        <5>3. QED
          BY <5>1, <5>2
      <4>2. CASE k # key
        <5>1. offchain'[k] = offchain[k]
          BY <4>2, <2>0, <3>1
        <5>2. (\E i \in 1 .. Len(events') : events'[i].key = k)
                <=> (\E i \in 1 .. Len(events) : events[i].key = k)
          BY <4>2, <2>0, <3>1
        <5>3. QED
          BY <5>1, <5>2, <2>0 DEF DataIffAnnounced
      <4>3. QED
        BY <4>1, <4>2
    <3>5. OnlyChecked'
      <4> SUFFICES ASSUME NEW i \in 1 .. Len(events')
                   PROVE  /\ MetadataFormed(events'[i].metadata)
                          /\ offchain'[events'[i].key] \in {m \in Bytes : MessageFormed(m)}
        BY DEF OnlyChecked
      <4>1. CASE i = Len(events) + 1
        BY <4>1, <2>0, <3>1
      <4>2. CASE i # Len(events) + 1
        <5>1. i \in 1 .. Len(events) /\ events'[i] = events[i] /\ events[i].key # key
          BY <4>2, <2>0, <3>1, <3>3
        <5>2. events[i].key \in Keys
          <6>1. events \in Seq(Event) /\ i \in 1 .. Len(events)
            BY <5>1, <2>0 DEF TypeOK
          <6>2. events[i] \in Event
            BY <6>1, ElementOfSeq
          <6>3. QED
            BY <6>2 DEF Event
        <5>3. offchain'[events[i].key] = offchain[events[i].key]
          BY <5>1, <5>2, <2>0, <3>1
        <5>4. QED
          BY <5>1, <5>3, <2>0 DEF OnlyChecked
      <4>3. QED
        BY <4>1, <4>2
    <3>6. QED
      BY <3>2, <3>4, <3>5 DEF IndInv
  <2>2. ASSUME UNCHANGED <<message_counter, offchain, events>>
        PROVE  IndInv'
    BY <2>0, <2>2 DEF IndInv, CounterIsHistory, DataIffAnnounced, OnlyChecked
  <2>3. QED
    BY <2>1, <2>2 DEF Next, send_message, Refuse, vars
<1>3. QED
  BY <1>1, <1>2, TypeCorrect, PTL DEF Spec

-----------------------------------------------------------------------------

\* Off-chain keys are unique over the whole life of the runtime, for every
\* number of accounts and every width of the counter.
THEOREM KeysAreUnique == Spec => []KeysUnique
<1>1. IndInv => KeysUnique
  BY DEF IndInv, TypeOK, CounterIsHistory, KeysUnique
<1>2. QED
  BY <1>1, Induction, PTL

\* The storage holds data exactly at the announced keys.
THEOREM DataIsAnnounced == Spec => []DataIffAnnounced
BY Induction, PTL DEF IndInv

\* The counter in storage is the number of messages sent.
THEOREM CounterCounts == Spec => []CounterIsHistory
BY Induction, PTL DEF IndInv

\* Every entry of the published log passed the format check.
PublishedLogOK ==
  /\ PublishedLog \in Seq(LogEntry)
  /\ Len(PublishedLog) = Len(events)
  /\ Len(events) \in 0 .. MaxCounter

LEMMA PublishedLogType == IndInv => PublishedLogOK
<1> SUFFICES ASSUME IndInv PROVE PublishedLogOK
  OBVIOUS
<1>1. /\ Len(events) \in 0 .. MaxCounter
      /\ events \in Seq(Event)
  BY DEF IndInv, TypeOK, CounterIsHistory
<1>2. ASSUME NEW i \in 1 .. Len(events)
      PROVE  [account  |-> events[i].key.account,
              metadata |-> events[i].metadata,
              message  |-> offchain[events[i].key]] \in LogEntry
  <2>1. events[i] \in Event
    BY <1>1, ElementOfSeq
  <2>2. events[i].key.account \in Accounts /\ events[i].metadata \in Metadata
    BY <2>1 DEF Event, Keys
  <2>3. /\ MetadataFormed(events[i].metadata)
        /\ offchain[events[i].key] \in {m \in Bytes : MessageFormed(m)}
    BY DEF IndInv, OnlyChecked
  <2>4. QED
    BY <2>2, <2>3 DEF LogEntry
<1>3. PublishedLog \in [1 .. Len(events) -> LogEntry]
  BY <1>2 DEF PublishedLog
<1>4. QED
  BY <1>1, <1>3 DEF PublishedLogOK

\* The pallet implements the append-only log: an accepted call appends one
\* entry and disturbs none, everything else stutters.
THEOREM Refinement == Spec => ImplementsLog
<1>1. Init => Log!Init
  BY DEF Init, Log!Init, PublishedLog
<1>2. /\ IndInv /\ PublishedLogOK /\ PublishedLogOK' /\ [Next]_vars
      => [Log!Publish]_PublishedLog
  <2> SUFFICES ASSUME IndInv, PublishedLogOK, PublishedLogOK', [Next]_vars
               PROVE  Log!Publish \/ PublishedLog' = PublishedLog
    OBVIOUS
  <2>1. ASSUME NEW origin \in Origins, NEW metadata \in Metadata,
               NEW message \in Bytes, Accept(origin, metadata, message)
        PROVE  Log!Publish
    <3> DEFINE key == [account |-> origin, counter |-> Len(events)]
    <3>1. /\ Len(events) < MaxCounter
          /\ Len(events') = Len(events) + 1
          /\ \A i \in 1 .. Len(events) : events'[i] = events[i]
          /\ offchain' = [offchain EXCEPT ![key] = message]
      BY <2>1, AcceptedStep
    <3>2. /\ PublishedLog \in Seq(LogEntry) /\ PublishedLog' \in Seq(LogEntry)
          /\ Len(PublishedLog) = Len(events) /\ Len(PublishedLog') = Len(events')
          /\ Len(events) \in Nat
      BY DEF PublishedLogOK
    <3>3. ASSUME NEW i \in 1 .. Len(events)
          PROVE  PublishedLog'[i] = PublishedLog[i]
      <4>1. events[i].key \in Keys /\ events[i].key # key
        <5>1. events[i] \in Event /\ events[i].key.counter = i - 1
          BY <3>2, ElementOfSeq DEF IndInv, TypeOK, CounterIsHistory
        <5>2. QED
          BY <5>1, <3>2 DEF Event
      <4>2. offchain'[events[i].key] = offchain[events[i].key]
        BY <4>1, <3>1 DEF IndInv, TypeOK
      <4>3. i \in 1 .. Len(events') /\ events'[i] = events[i]
        BY <3>1, <3>2
      <4>4. QED
        BY <4>2, <4>3 DEF PublishedLog
    <3>4. QED
      BY <3>1, <3>2, <3>3 DEF Log!Publish, Log!Extends
  <2>2. ASSUME UNCHANGED <<message_counter, offchain, events>>
        PROVE  PublishedLog' = PublishedLog
    BY <2>2 DEF PublishedLog
  <2>3. QED
    BY <2>1, <2>2 DEF Next, send_message, Refuse, vars
<1>3. QED
  BY <1>1, <1>2, Induction, PublishedLogType, PTL DEF ImplementsLog, Log!Spec, Spec

=============================================================================
