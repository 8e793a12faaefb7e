SPECIFICATION ClientSpec
CONSTANTS
  u1 = u1
  u2 = u2
  d1 = d1
  d2 = d2
  empty = empty
  alice = alice
  bob = bob
  c1 = c1
  c2 = c2
  Accounts <- MCAccounts
  Root = Root
  Unsigned = Unsigned
  Bytes <- MCBytes
  EmptyBytes = empty
  Metadata <- MCMetadata
  MaxCounter = 3
  NoData = NoData
  Nodes = {alice, bob}
  GenesisAuthorities <- MCGenesisAuthorities
  Indexing = {alice, bob}
  WarpNodes = {bob}
  Signed <- MCSigned
  VoteLag = 2
  MaxSlot = 4
  MaxBlockTxs = 2
  Clients = {c1, c2}
  NodeOf <- MCNodeOf
  AccountOf <- MCAccountOf
  DataOf <- MCDataOf
  MetaOf <- MCMetaOf
  NoKey = NoKey
CHECK_DEADLOCK FALSE
INVARIANTS
  NoReplay
  FinalizedIsDelivered
  OneWinner
  FailureHasCause
