SPECIFICATION Spec
CONSTANTS
  Machines = {alice, bob}
  SLOT_DURATION = 4
  MaxDrift = 8
  MaxSkew = 4
  MaxTime = 26
CHECK_DEADLOCK FALSE
INVARIANTS
  TimestampInSlot
  AcceptedAtOnce
