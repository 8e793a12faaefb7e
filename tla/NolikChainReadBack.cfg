SPECIFICATION Spec
CONSTANTS
  u1 = u1
  u2 = u2
  m1 = m1
  m2 = m2
  m3 = m3
  empty = empty
  alice = alice
  bob = bob
  Accounts <- MCAccounts
  Root = Root
  Unsigned = Unsigned
  Bytes <- MCBytes
  EmptyBytes = empty
  Metadata <- MCMetadata
  MaxCounter = 4
  NoData = NoData
  Nodes = {alice, bob}
  GenesisAuthorities <- MCLocalTestnet
  Indexing = {alice, bob}
  WarpNodes = {}
  Signed <- MCSigned
  VoteLag = 2
  MaxSlot = 4
  MaxBlockTxs = 2
CHECK_DEADLOCK FALSE
INVARIANTS
  ReadBack
