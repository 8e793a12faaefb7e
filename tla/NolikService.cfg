SPECIFICATION ServiceSpec
CONSTANTS
  alice = alice
  bob = bob
  carol = carol
  dave = dave
  Nodes = {alice, bob, carol, dave}
  GenesisAuthorities <- MCGenesisAuthorities
  ForceAuthoring = {}
  ClientNodes = {alice, dave}
  VoteLag = 2
INVARIANT
  WatchedStaysPending
PROPERTIES
  WatchEnds
  IncludedAnyway
