SPECIFICATION Spec
CONSTANTS
  a1 = a1
  a2 = a2
  b1 = b1
  b2 = b2
  empty = empty
  Accounts <- MCAccounts
  Root = Root
  Unsigned = Unsigned
  Bytes <- MCBytes
  EmptyBytes = empty
  Metadata <- MCMetadata
  MaxCounter = 3
  NoData = NoData
INVARIANTS
  TypeOK
  KeysUnique
  DataIffAnnounced
  CounterIsHistory
PROPERTIES
  ImplementsLog
