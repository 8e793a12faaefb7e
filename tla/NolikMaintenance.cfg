SPECIFICATION MaintenanceSpec
CONSTANTS
  u1 = u1
  m1 = m1
  m2 = m2
  empty = empty
  alice = alice
  bob = bob
  Accounts <- MCAccounts
  Root = Root
  Unsigned = Unsigned
  Bytes <- MCBytes
  EmptyBytes = empty
  Metadata <- MCMetadata
  MaxCounter = 2
  NoData = NoData
  Nodes = {alice, bob}
  GenesisAuthorities <- MCGenesisAuthorities
  Indexing = {alice, bob}
  WarpNodes = {}
  Signed <- MCSigned
  VoteLag = 0
  MaxSlot = 3
  MaxBlockTxs = 1
  MaxCommands = 2
CHECK_DEADLOCK FALSE
INVARIANTS
  BestExtendsFinalized
  SplitOnlyByReset
  WrittenByExecuted
  LostHasCause
