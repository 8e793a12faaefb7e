-------------------------- MODULE NolikServiceProofs --------------------------
(***************************************************************************)
(* Proofs about what service.rs starts on the nodes: NolikClock, for any   *)
(* slot duration and any time, and the safety of NolikService, for any     *)
(* authorities, through any crashes.                                       *)
(***************************************************************************)
EXTENDS NolikClock, NolikService, FiniteSetTheorems, SequenceTheorems, TLAPS

(* Time on the chain *)

USE ClockAssumption

\* A product that is less than the next multiple of d.
LEMMA LessByFactor ==
  ASSUME NEW a \in Nat, NEW b \in Nat, NEW d \in Nat \ {0}, a * d < b * d + d
  PROVE  a <= b
<1>1. SUFFICES ASSUME a > b PROVE FALSE
  OBVIOUS
<1>2. PICK k \in Nat : a = b + 1 + k
  <2>1. a - b - 1 \in Nat /\ a = b + 1 + (a - b - 1)
    BY <1>1
  <2>2. QED
    BY <2>1
<1>3. a * d = b * d + d + k * d
  BY <1>2
<1>4. b * d \in Nat /\ k * d \in Nat
  OBVIOUS
<1>5. QED
  BY <1>3, <1>4

\* Division in the naturals, with the remainder left out.
LEMMA DivisionBounds ==
  ASSUME NEW t \in Nat, NEW d \in Nat \ {0}
  PROVE  /\ t \div d \in Nat
         /\ d * (t \div d) <= t
         /\ t < d * (t \div d) + d
OBVIOUS

-----------------------------------------------------------------------------

\* A slot is two minimum periods long, and not longer than SLOT_DURATION.
LEMMA SlotLasts ==
  /\ MinimumPeriod \in Nat \ {0}
  /\ AuraSlotDuration = MinimumPeriod + MinimumPeriod
  /\ AuraSlotDuration \in Nat \ {0}
  /\ AuraSlotDuration <= SLOT_DURATION
  /\ MaxSkew \in 0 .. AuraSlotDuration
<1>1. /\ SLOT_DURATION \div 2 \in Nat
      /\ 2 * (SLOT_DURATION \div 2) <= SLOT_DURATION
      /\ SLOT_DURATION < 2 * (SLOT_DURATION \div 2) + 2
  BY DivisionBounds
<1>2. QED
  BY <1>1 DEF MinimumPeriod, AuraSlotDuration

\* The slot of a time is the one that it lies in.
LEMMA SlotBounds ==
  ASSUME NEW t \in Nat
  PROVE  /\ SlotAt(t) \in Nat
         /\ SlotAt(t) * AuraSlotDuration <= t
         /\ t < SlotAt(t) * AuraSlotDuration + AuraSlotDuration
<1>1. AuraSlotDuration \in Nat \ {0}
  BY SlotLasts
<1>2. /\ SlotAt(t) \in Nat
      /\ AuraSlotDuration * SlotAt(t) <= t
      /\ t < AuraSlotDuration * SlotAt(t) + AuraSlotDuration
  BY <1>1, DivisionBounds DEF SlotAt
<1>3. AuraSlotDuration * SlotAt(t) = SlotAt(t) * AuraSlotDuration
  BY <1>1, <1>2
<1>4. QED
  BY <1>2, <1>3

\* A time at or after the start of a slot is in that slot or in a later one.
LEMMA SlotReached ==
  ASSUME NEW s \in Nat, NEW t \in Nat, s * AuraSlotDuration <= t
  PROVE  s <= SlotAt(t)
<1>1. AuraSlotDuration \in Nat \ {0}
  BY SlotLasts
<1>2. SlotAt(t) \in Nat /\ t < SlotAt(t) * AuraSlotDuration + AuraSlotDuration
  BY SlotBounds
<1>3. s * AuraSlotDuration \in Nat /\ SlotAt(t) * AuraSlotDuration \in Nat
  BY <1>1, <1>2
<1>4. s * AuraSlotDuration < SlotAt(t) * AuraSlotDuration + AuraSlotDuration
  BY <1>1, <1>2, <1>3
<1>5. QED
  BY <1>1, <1>2, <1>4, LessByFactor

\* A time before the end of a slot is in that slot or in an earlier one.
LEMMA SlotNotPassed ==
  ASSUME NEW s \in Nat, NEW t \in Nat, t < s * AuraSlotDuration + AuraSlotDuration
  PROVE  SlotAt(t) <= s
<1>1. AuraSlotDuration \in Nat \ {0}
  BY SlotLasts
<1>2. SlotAt(t) \in Nat /\ SlotAt(t) * AuraSlotDuration <= t
  BY SlotBounds
<1>3. s * AuraSlotDuration \in Nat /\ SlotAt(t) * AuraSlotDuration \in Nat
  BY <1>1, <1>2
<1>4. SlotAt(t) * AuraSlotDuration < s * AuraSlotDuration + AuraSlotDuration
  BY <1>1, <1>2, <1>3
<1>5. QED
  BY <1>1, <1>2, <1>4, LessByFactor

-----------------------------------------------------------------------------
(* The inductive invariant: the best block is never further ahead of the    *)
(* slowest clock than the clocks are apart, and its timestamp by at most a  *)
(* minimum period more.  AcceptedAtOnce does not follow from itself, since  *)
(* a late clock says nothing about the clock of the author.                 *)

Clocks == time \in 0 .. MaxTime /\ skew \in [Machines -> 0 .. MaxSkew]
Ahead ==
  /\ now \in Nat /\ slot \in Nat
  /\ slot * AuraSlotDuration <= time + MaxSkew
  /\ now <= time + MaxSkew + MinimumPeriod

IndInv == Clocks /\ Ahead /\ TimestampInSlot

\* A timestamp that is moved to a minimum period after the parent stays in the
\* slot of the author's clock, because that slot is later than the parent's.
LEMMA AuthorStep ==
  ASSUME IndInv, NEW n \in Machines, Author(n)
  PROVE  IndInv' /\ now' >= now + MinimumPeriod
<1> DEFINE local == LocalTime(n)
           D == AuraSlotDuration
           P == MinimumPeriod
<1>1. /\ P \in Nat \ {0} /\ D = P + P /\ D \in Nat \ {0}
  BY SlotLasts
<1>2. /\ time \in Nat /\ local \in Nat /\ local <= time + MaxSkew
      /\ now \in Nat /\ slot \in Nat /\ MaxSkew \in Nat
  BY DEF IndInv, Clocks, Ahead, LocalTime
<1>3. /\ SlotAt(local) > slot
      /\ slot' = SlotAt(local)
      /\ now' = IF local >= now + P THEN local ELSE now + P
      /\ time' = time /\ skew' = skew
  BY DEF Author, Timestamp
<1>4. /\ SlotAt(local) \in Nat /\ SlotAt(local) * D <= local
      /\ local < SlotAt(local) * D + D /\ SlotAt(local) * D \in Nat
  <2>1. /\ SlotAt(local) \in Nat /\ SlotAt(local) * D <= local
        /\ local < SlotAt(local) * D + D
    BY <1>2, SlotBounds
  <2>2. SlotAt(local) * D \in Nat
    BY <1>1, <2>1
  <2>3. QED
    BY <2>1, <2>2
<1>5. now < slot * D + D /\ slot * D \in Nat
  <2>1. now < slot * D + D
    BY <1>2, SlotBounds DEF IndInv, TimestampInSlot
  <2>2. slot * D \in Nat
    BY <1>1, <1>2
  <2>3. QED
    BY <2>1, <2>2
<1>6. slot * D + D <= SlotAt(local) * D
  <2>1. PICK k \in Nat : SlotAt(local) = slot + 1 + k
    <3>1. /\ SlotAt(local) - slot - 1 \in Nat
          /\ SlotAt(local) = slot + 1 + (SlotAt(local) - slot - 1)
      BY <1>2, <1>3, <1>4
    <3>2. QED
      BY <3>1
  <2>2. (slot + 1 + k) * D = slot * D + D + k * D /\ k * D \in Nat
    BY <1>1, <1>2
  <2>3. QED
    BY <1>1, <1>5, <2>1, <2>2
<1>7. /\ now' \in Nat /\ now' >= now + P
      /\ now' <= time + MaxSkew + P
      /\ now' >= local
      /\ now' < SlotAt(local) * D + D
  BY <1>1, <1>2, <1>3, <1>4, <1>5, <1>6
<1>8. SlotAt(now') = SlotAt(local)
  <2>1. SlotAt(now') <= SlotAt(local)
    BY <1>4, <1>7, SlotNotPassed
  <2>2. SlotAt(local) * D <= now'
    BY <1>2, <1>4, <1>7
  <2>3. SlotAt(local) <= SlotAt(now')
    BY <1>4, <1>7, <2>2, SlotReached
  <2>4. SlotAt(now') \in Nat
    BY <1>7, SlotBounds
  <2>5. QED
    BY <1>4, <2>1, <2>3, <2>4
<1>9. TimestampInSlot'
  BY <1>3, <1>8 DEF TimestampInSlot, SlotAt
<1>10. Clocks'
  BY <1>3 DEF IndInv, Clocks
<1>11. slot' * D <= time + MaxSkew
  BY <1>2, <1>3, <1>4
<1>12. Ahead'
  BY <1>3, <1>4, <1>7, <1>11 DEF Ahead, AuraSlotDuration, MinimumPeriod
<1>13. QED
  BY <1>7, <1>9, <1>10, <1>12 DEF IndInv

LEMMA Induction == Spec => []IndInv
<1>1. Init => IndInv
  <2> SUFFICES ASSUME Init PROVE IndInv
    OBVIOUS
  <2>1. MaxSkew \in Nat /\ 0 * AuraSlotDuration = 0 /\ MinimumPeriod \in Nat
    BY SlotLasts
  <2>2. SlotAt(0) = 0
    <3>1. SlotAt(0) \in Nat
      BY SlotBounds
    <3>2. SlotAt(0) <= 0
      BY <2>1, SlotLasts, SlotNotPassed
    <3>3. QED
      BY <3>1, <3>2
  <2>3. QED
    BY <2>1, <2>2 DEF Init, IndInv, Clocks, Ahead, TimestampInSlot
<1>2. IndInv /\ [Next]_vars => IndInv'
  <2> SUFFICES ASSUME IndInv, [Next]_vars PROVE IndInv'
    OBVIOUS
  <2>1. CASE Tick
    <3>1. /\ time' \in 0 .. MaxTime /\ time' = time + 1 /\ time \in Nat
          /\ skew' = skew /\ now' = now /\ slot' = slot
      BY <2>1 DEF Tick, IndInv, Clocks
    <3>2. Clocks' /\ TimestampInSlot'
      BY <3>1 DEF IndInv, Clocks, TimestampInSlot, SlotAt, AuraSlotDuration, MinimumPeriod
    <3>3. /\ MaxSkew \in Nat /\ MinimumPeriod \in Nat /\ now \in Nat /\ slot \in Nat
          /\ slot * AuraSlotDuration \in Nat
      BY SlotLasts DEF IndInv, Ahead
    <3>4. /\ slot * AuraSlotDuration <= time' + MaxSkew
          /\ now <= time' + MaxSkew + MinimumPeriod
      BY <3>1, <3>3 DEF IndInv, Ahead
    <3>5. Ahead'
      BY <3>1, <3>3, <3>4 DEF Ahead, AuraSlotDuration, MinimumPeriod
    <3>6. QED
      BY <3>2, <3>5 DEF IndInv
  <2>2. ASSUME NEW n \in Machines, Author(n) PROVE IndInv'
    BY <2>2, AuthorStep
  <2>3. CASE UNCHANGED vars
    BY <2>3 DEF vars, IndInv, Clocks, Ahead, TimestampInSlot, SlotAt,
                AuraSlotDuration, MinimumPeriod
  <2>4. QED
    BY <2>1, <2>2, <2>3 DEF Next
<1>3. QED
  BY <1>1, <1>2, PTL DEF Spec

-----------------------------------------------------------------------------

\* Times and slots have their types and stay within the bounds of the clocks.
THEOREM TypeCorrect == Spec => []ClockTypeOK
<1>1. IndInv => ClockTypeOK
  <2> SUFFICES ASSUME IndInv PROVE ClockTypeOK
    OBVIOUS
  <2>1. /\ time \in 0 .. MaxTime /\ MaxTime \in Nat /\ MaxSkew \in Nat
        /\ now \in Nat /\ slot \in Nat
        /\ MinimumPeriod \in Nat /\ AuraSlotDuration = MinimumPeriod + MinimumPeriod
    BY SlotLasts DEF IndInv, Clocks, Ahead
  <2>2. now <= MaxTime + MaxSkew + AuraSlotDuration
    BY <2>1 DEF IndInv, Ahead
  <2>3. slot * AuraSlotDuration <= MaxTime + MaxSkew
    <3>1. slot * AuraSlotDuration \in Nat
      BY <2>1
    <3>2. slot * AuraSlotDuration <= time + MaxSkew
      BY DEF IndInv, Ahead
    <3>3. QED
      BY <2>1, <3>1, <3>2
  <2>4. slot <= SlotAt(MaxTime + MaxSkew) /\ SlotAt(MaxTime + MaxSkew) \in Nat
    BY <2>1, <2>3, SlotReached, SlotBounds
  <2>5. QED
    BY <2>1, <2>2, <2>4 DEF IndInv, Clocks, ClockTypeOK
<1>2. QED
  BY <1>1, Induction, PTL

\* Aura's assertion on the timestamp of a block never fails, so an author that
\* is late or whose clock is behind does not panic.
THEOREM TimestampsFitSlots == Spec => []TimestampInSlot
<1>1. IndInv => TimestampInSlot
  BY DEF IndInv
<1>2. QED
  BY <1>1, Induction, PTL

\* No block is turned down for its time by a node that gets it at once.
THEOREM BlocksAcceptedAtOnce == Spec => []AcceptedAtOnce
<1>1. IndInv => AcceptedAtOnce
  <2> SUFFICES ASSUME IndInv, NEW n \in Machines
               PROVE  slot <= SlotAt(LocalTime(n)) + 1 /\ now <= LocalTime(n) + MaxDrift
    BY DEF AcceptedAtOnce
  <2> DEFINE local == LocalTime(n)
  <2>1. /\ time \in Nat /\ local \in Nat /\ time <= local
        /\ now \in Nat /\ slot \in Nat /\ MaxSkew \in Nat
    BY DEF IndInv, Clocks, Ahead, LocalTime
  <2>2. /\ MinimumPeriod \in Nat \ {0} /\ AuraSlotDuration \in Nat \ {0}
        /\ MinimumPeriod <= AuraSlotDuration /\ AuraSlotDuration <= SLOT_DURATION
        /\ MaxSkew <= AuraSlotDuration
    BY SlotLasts
  <2>3. now <= local + MaxDrift
    BY <2>1, <2>2 DEF IndInv, Ahead
  <2>4. /\ SlotAt(local) \in Nat
        /\ local < SlotAt(local) * AuraSlotDuration + AuraSlotDuration
        /\ SlotAt(local) * AuraSlotDuration \in Nat
    <3>1. /\ SlotAt(local) \in Nat
          /\ local < SlotAt(local) * AuraSlotDuration + AuraSlotDuration
      BY <2>1, SlotBounds
    <3>2. SlotAt(local) * AuraSlotDuration \in Nat
      BY <2>2, <3>1
    <3>3. QED
      BY <3>1, <3>2
  <2>5. (SlotAt(local) + 1) * AuraSlotDuration =
          SlotAt(local) * AuraSlotDuration + AuraSlotDuration
    BY <2>2, <2>4
  <2>6. slot * AuraSlotDuration <
          (SlotAt(local) + 1) * AuraSlotDuration + AuraSlotDuration
    <3>1. slot * AuraSlotDuration \in Nat
      BY <2>1, <2>2
    <3>2. slot * AuraSlotDuration <= time + MaxSkew
      BY DEF IndInv, Ahead
    <3>3. QED
      BY <2>1, <2>2, <2>4, <2>5, <3>1, <3>2
  <2>7. slot <= SlotAt(local) + 1
    BY <2>1, <2>2, <2>4, <2>6, LessByFactor
  <2>8. QED
    BY <2>3, <2>7
<1>2. QED
  BY <1>1, Induction, PTL

-----------------------------------------------------------------------------
(* Finality through crashes and restarts *)

\* What a client was told is final is final, and the nodes can get it: any
\* quorum of voters that runs has a node among it that stores the block, which
\* the others import it from.  So no round of voters that lack it goes through.
FinalizedStaysInReach ==
  /\ client = "finalized" => justified
  /\ justified /\ Quorum(up) => up \cap synced # {}

\* The inductive invariant.
ServiceInv ==
  /\ authorities \in GenesisAuthorities
  /\ up \subseteq Nodes /\ synced \subseteq Nodes /\ pool \subseteq up
  /\ depth \in Nat
  /\ WatchedStaysPending
  /\ client = "finalized" => justified
  /\ justified => Quorum(synced)

\* Two quorums of n voters have one in common, since f is less than n / 3.
LEMMA ThresholdIsMajority ==
  ASSUME NEW n \in Nat \ {0}
  PROVE  Threshold(n) \in Nat /\ 2 * Threshold(n) > n
<1>1. (n - 1) \div 3 \in Nat /\ 3 * ((n - 1) \div 3) <= n - 1
  OBVIOUS
<1>2. QED
  BY <1>1 DEF Threshold

LEMMA VotersAreFinite ==
  ASSUME authorities \in GenesisAuthorities
  PROVE  IsFiniteSet(Voters) /\ Cardinality(Voters) \in Nat \ {0}
<1>1. authorities \in Seq(Nodes) /\ authorities # << >>
  BY ServiceAssumption
<1>2. Len(authorities) \in Nat /\ Len(authorities) >= 1 /\ DOMAIN authorities = 1 .. Len(authorities)
  BY <1>1, LenProperties, EmptySeq
<1>3. IsFiniteSet(1 .. Len(authorities))
  BY <1>2, FS_Interval
<1>4. Voters = {authorities[i] : i \in 1 .. Len(authorities)}
  BY <1>2 DEF Voters, Range
<1>5. IsFiniteSet(Voters)
  <2>1. authorities \in [1 .. Len(authorities) -> Voters]
    BY <1>1, <1>2, <1>4, SeqDef
  <2>2. authorities \in Surjection(1 .. Len(authorities), Voters)
    BY <1>4, <2>1 DEF Surjection
  <2>3. QED
    BY <1>3, <2>2, FS_Surjection
<1>6. Voters # {}
  <2>1. 1 \in 1 .. Len(authorities)
    BY <1>2
  <2>2. authorities[1] \in Voters
    BY <1>4, <2>1
  <2>3. QED
    BY <2>2
<1>7. QED
  BY <1>5, <1>6, FS_CardinalityType, FS_EmptySet

LEMMA QuorumsIntersect ==
  ASSUME authorities \in GenesisAuthorities, NEW A, NEW B, Quorum(A), Quorum(B)
  PROVE  A \cap B # {}
<1> DEFINE a == A \cap Voters
           b == B \cap Voters
           n == Cardinality(Voters)
<1>1. SUFFICES ASSUME A \cap B = {} PROVE FALSE
  OBVIOUS
<1>2. IsFiniteSet(Voters) /\ n \in Nat \ {0}
  BY VotersAreFinite
<1>3. IsFiniteSet(a) /\ IsFiniteSet(b) /\ a \cap b = {} /\ a \cup b \subseteq Voters
  BY <1>1, <1>2, FS_Subset
<1>4. Cardinality(a \cup b) = Cardinality(a) + Cardinality(b)
  <2> HIDE DEF a, b
  <2>1. Cardinality(a \cup b) = Cardinality(a) + Cardinality(b) - Cardinality({})
    BY <1>3, FS_Union
  <2>2. QED
    BY <1>3, <2>1, FS_EmptySet, FS_CardinalityType
<1>5. Cardinality(a \cup b) <= n
  BY <1>2, <1>3, FS_Subset
<1>6. Cardinality(a) >= Threshold(n) /\ Cardinality(b) >= Threshold(n)
  BY DEF Quorum
<1>7. Cardinality(a) \in Nat /\ Cardinality(b) \in Nat
  BY <1>3, FS_CardinalityType
<1>8. Threshold(n) \in Nat /\ 2 * Threshold(n) > n
  BY <1>2, ThresholdIsMajority
<1> HIDE DEF a, b, n
<1>9. QED
  BY <1>2, <1>4, <1>5, <1>6, <1>7, <1>8

\* Nodes that store a block are only added once it is final.
LEMMA QuorumGrows ==
  ASSUME authorities \in GenesisAuthorities, NEW A, NEW B, A \subseteq B, Quorum(A)
  PROVE  Quorum(B)
<1>1. IsFiniteSet(Voters) /\ Threshold(Cardinality(Voters)) \in Nat
  BY VotersAreFinite, ThresholdIsMajority
<1>2. IsFiniteSet(B \cap Voters) /\ A \cap Voters \subseteq B \cap Voters
  BY <1>1, FS_Subset
<1>3. Cardinality(A \cap Voters) <= Cardinality(B \cap Voters)
  BY <1>2, FS_Subset
<1>4. IsFiniteSet(A \cap Voters)
  BY <1>2, FS_Subset
<1>5. Cardinality(A \cap Voters) \in Nat /\ Cardinality(B \cap Voters) \in Nat
  BY <1>2, <1>4, FS_CardinalityType
<1>6. QED
  BY <1>1, <1>3, <1>5 DEF Quorum

LEMMA ServiceInvariant == ServiceSpec => []ServiceInv
<1>1. ServiceInit => ServiceInv
  BY DEF ServiceInit, ServiceInv, WatchedStaysPending
<1>2. ServiceInv /\ [ServiceNext]_service_vars => ServiceInv'
  <2> SUFFICES ASSUME ServiceInv, [ServiceNext]_service_vars PROVE ServiceInv'
    OBVIOUS
  <2> USE DEF WatchedStaysPending
  <2>1. ASSUME NEW n \in Nodes, Start(n) PROVE ServiceInv'
    BY <2>1 DEF Start, ServiceInv, network, Quorum, Voters
  <2>2. ASSUME NEW n \in Nodes, Crash(n) PROVE ServiceInv'
    BY <2>2 DEF Crash, ServiceInv, network, Quorum, Voters
  <2>3. ASSUME NEW n \in Nodes, Sync(n) PROVE ServiceInv'
    <3>1. authorities' = authorities /\ synced' = synced \cup {n}
      BY <2>3 DEF Sync, network
    <3>2. Quorum(synced) => Quorum(synced')
      BY <3>1, QuorumGrows DEF ServiceInv
    <3>3. WatchedStaysPending' /\ pool' \subseteq pool
      BY <2>3 DEF Sync, Pruned, ServiceInv, network
    <3>4. QED
      BY <2>3, <3>1, <3>2, <3>3 DEF Sync, ServiceInv, network, Quorum, Voters
  <2>4. ASSUME NEW n \in Nodes, Gossip(n) PROVE ServiceInv'
    BY <2>4 DEF Gossip, ServiceInv, network, Quorum, Voters
  <2>5. CASE Slot
    <3> DEFINE n == authorities[turn]
    <3>1. UNCHANGED <<authorities, client_node, up, justified, client>>
      BY <2>5 DEF Slot, network
    <3>2. CASE UNCHANGED <<depth, synced, pool>>
      BY <3>1, <3>2 DEF ServiceInv, Quorum, Voters
    <3>3. CASE MayAuthor(n) /\ ~justified /\ Extend(n)
      <4>1. depth' \in Nat /\ (depth > 0 => depth' > 0)
        BY <3>3, ServiceAssumption DEF Extend, Deeper, ServiceInv
      <4>2. WatchedStaysPending' /\ pool' \subseteq pool
        BY <3>1, <3>3, <4>1 DEF Extend, Pruned, ServiceInv
      <4>3. QED
        BY <3>1, <3>3, <4>1, <4>2 DEF Extend, ServiceInv
    <3>4. CASE MayAuthor(n) /\ ~justified /\ Fork(n)
      <4>1. n \in Nodes /\ depth' \in Nat /\ synced' = {n}
        BY <3>4 DEF Fork, MayAuthor, Online, ServiceInv
      <4>2. WatchedStaysPending' /\ pool' \subseteq pool
        BY <3>1, <3>4 DEF Fork, Pruned, ServiceInv
      <4>3. QED
        BY <3>1, <3>4, <4>1, <4>2 DEF ServiceInv
    <3>5. QED
      BY <2>5, <3>2, <3>3, <3>4 DEF Slot
  <2>6. CASE Round
    <3>1. Quorum(synced)
      BY <2>6, QuorumGrows DEF Round, ServiceInv
    <3>2. QED
      BY <2>6, <3>1 DEF Round, ServiceInv, network, Quorum, Voters
  <2>7. CASE Submit
    BY <2>7 DEF Submit, ServiceInv, network
  <2>8. CASE Learn
    BY <2>8 DEF Learn, ServiceInv, network, Quorum, Voters
  <2>9. CASE UNCHANGED service_vars
    BY <2>9 DEF service_vars, ServiceInv, network, Quorum, Voters
  <2>10. QED
    BY <2>1, <2>2, <2>3, <2>4, <2>5, <2>6, <2>7, <2>8, <2>9 DEF ServiceNext
<1>3. QED
  BY <1>1, <1>2, PTL DEF ServiceSpec

\* A finalized message is not lost through crashes: service.rs keeps GRANDPA's
\* voter essential and its database on disk, and two quorums have a voter in
\* common.
THEOREM FinalizedIsInReach == ServiceSpec => []FinalizedStaysInReach
<1>1. ServiceInv => FinalizedStaysInReach
  BY QuorumsIntersect DEF ServiceInv, FinalizedStaysInReach
<1>2. QED
  BY <1>1, ServiceInvariant, PTL

\* sign_and_submit_then_watch: as long as the client waits, its extrinsic is in
\* its node's pool or in the chain that its node stores, whatever the crashes
\* and forks of the other nodes.
THEOREM WatchedIsPending == ServiceSpec => []WatchedStaysPending
<1>1. ServiceInv => WatchedStaysPending
  BY DEF ServiceInv
<1>2. QED
  BY <1>1, ServiceInvariant, PTL

=============================================================================
