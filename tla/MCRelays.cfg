CONSTANTS
  Relays = {"r1", "r2"}
  Ids = {"dm"}
  Filters = {"f", "g"}
  Budget = 1
  MaxDrops = 1
  MaxCalls = 2
  Capacity = 2
  MaxMoves = 4
  Callers = {"c1", "c2", "c3"}
  MaxPasses = 3
  Urls = {"d", "x", "y"}
  Default = "d"
  Announced <- MCAnnounced
  ListMaxCalls = 3
  MaxSyncs = 3
  MaxRestarts = 1
  Nodes = {"A", "B"}
  Trusted = {"A"}
  Promoted = {"B"}
  RegistryDefault = "A"
  RegistryCallers = {"c1", "c2"}
  Submits = {"s1", "s2"}
  Reads = {"r1"}
  HasKey = {TRUE, FALSE}
  MaxFaults = 2
SPECIFICATION MCSpec
CHECK_DEADLOCK FALSE
INVARIANTS SubsSound PoolSound NodesSound
PROPERTIES RelaySteps
