SPECIFICATION Spec
CONSTANTS
  Addresses = {a1, a2, a3}
  MaxLength = 2
  MaxBoxes = 3
  Free = Free
INVARIANTS
  BoxesIntact
  FreedAsAllocated
