SPECIFICATION Spec
CONSTANTS
  alice = alice
  bob = bob
  carol = carol
  m1 = m1
  m2 = m2
  empty = empty
  Accounts <- MCAccounts
  Root = Root
  Unsigned = Unsigned
  Bytes <- MCBytes
  EmptyBytes = empty
  Metadata <- MCMetadata
  MaxCounter = 3
  Endowed = {alice, bob}
  Endowment = 6
  SudoKey = alice
  ExistentialDeposit = 2
  Fee = 1
  BlockHashCount = 5
  Immortal = Immortal
  Bob = bob
  Signed <- MCSigned
  MaxBlock = 8
CHECK_DEADLOCK FALSE
INVARIANTS
  RuntimeTypeOK
  ReplayNeedsRemoval
  MortalExactly
  MessageKeysUnique
  SentByOwnerOrSudo
  EveryCallIsPaid
