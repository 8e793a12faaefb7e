------------------------------ MODULE NolikClock ------------------------------
(***************************************************************************)
(* Time on the chain: the timestamp that the author of a block puts into   *)
(* it (service.rs, create_inherent_data_providers), the slot that the      *)
(* runtime finds it to be in (pallet_timestamp with OnTimestampSet = Aura) *)
(* and the checks of the nodes that import the block by their own clocks.  *)
(*                                                                         *)
(* An author wakes up late in its slot, or its clock differs from that of  *)
(* the author before it: then its timestamp is moved, and must not be      *)
(* moved out of the slot, since the runtime panics on such a block.        *)
(***************************************************************************)
EXTENDS Naturals

CONSTANTS
  Machines,         \* those of the nodes, each with a clock of its own
  SLOT_DURATION,    \* MILLISECS_PER_BLOCK, in some unit of time
  MaxDrift,         \* MAX_TIMESTAMP_DRIFT_MILLIS of pallet_timestamp
  MaxSkew,          \* bound: how far the clocks of two nodes are apart
  MaxTime           \* bound: the time that passes

ASSUME ClockAssumption ==
  /\ SLOT_DURATION \in Nat /\ SLOT_DURATION >= 2
  /\ MaxDrift \in Nat /\ MaxDrift >= 2 * SLOT_DURATION
  /\ MaxSkew \in 0 .. 2 * (SLOT_DURATION \div 2)
  /\ MaxTime \in Nat

VARIABLES
  time,     \* what the slowest clock may show
  skew,     \* how much further the clock of each node is
  now,      \* Timestamp::Now: the timestamp of the best block
  slot      \* CurrentSlot: the slot of the best block

vars == <<time, skew, now, slot>>

\* pallet_timestamp::Config
MinimumPeriod == SLOT_DURATION \div 2

AuraSlotDuration_Half == MinimumPeriod                   \* mutant

\* Aura::slot_duration, which new_partial and new_full ask the runtime for.
AuraSlotDuration == MinimumPeriod * 2

SlotAt(t) == t \div AuraSlotDuration
LocalTime(n) == time + skew[n]

ClockTypeOK ==
  /\ time \in 0 .. MaxTime
  /\ skew \in [Machines -> 0 .. MaxSkew]
  /\ now \in 0 .. MaxTime + MaxSkew + AuraSlotDuration
  /\ slot \in 0 .. SlotAt(MaxTime + MaxSkew)

Init ==
  /\ time = 0
  /\ skew \in [Machines -> 0 .. MaxSkew]
  /\ now = 0 /\ slot = 0

Tick ==
  /\ time < MaxTime
  /\ time' = time + 1
  /\ UNCHANGED <<skew, now, slot>>

Timestamp_Moved(local) ==                                \* mutant
  IF local >= now THEN local + MinimumPeriod ELSE now + MinimumPeriod

\* pallet_timestamp::create_inherent
Timestamp(local) == IF local >= now + MinimumPeriod THEN local ELSE now + MinimumPeriod

\* Node n authors a block at some time of a slot that has no block yet.
Author(n) ==
  /\ SlotAt(LocalTime(n)) > slot
  /\ slot' = SlotAt(LocalTime(n))
  /\ now' = Timestamp(LocalTime(n))
  /\ UNCHANGED <<time, skew>>

Next == Tick \/ \E n \in Machines : Author(n)

Spec == Init /\ [][Next]_vars

-----------------------------------------------------------------------------
(* Safety *)

\* The assertion of Aura's on_timestamp_set: the timestamp of a block, though
\* moved to MinimumPeriod after its parent, is in the slot of its header, so
\* authoring never panics (runtime/src/lib.rs:235).
TimestampInSlot == SlotAt(now) = slot

\* check_inherents and the Aura verifier of a node that gets the block at once:
\* with clocks up to a slot apart nobody turns it down for its time.
AcceptedAtOnce ==
  \A n \in Machines :
    /\ slot <= SlotAt(LocalTime(n)) + 1
    /\ now <= LocalTime(n) + MaxDrift

=============================================================================
