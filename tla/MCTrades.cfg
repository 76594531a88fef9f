CONSTANTS
  Nodes = {"A", "B"}
  Orders = {"a1", "b1"}
  Versions = {"pending", "over"}
  NodeOf <- MCNodeOf
  Ours = {"a1"}
  Tasks = {"t1"}
  Capacity = 2
  RevisionLimit = 3
  MaxChanges = 3
  MaxFeeds = 1
  MaxGen = 3
  MaxEnds = 3
  MaxSwitches = 1
  Callers = {c1, c2}
  MaxIndex = 6
  MaxFailures = 2
  MaxRestarts = 1
  MaxElsewhere = 1
  MaxTakes = 3
  MaxSends = 2
  MaxFaults = 2
  Channels = {"peer", "dispute"}
  ChannelOf <- MCChannelOf
  MaxTasks = 2
  RoomMaxFailures = 1
  MaxRefusals = 1
  MaxStops = 1
  Solvers = {"s1", "s2"}
  DisputeMaxRestarts = 2
  Mine = {TRUE, FALSE}
  Unwritten = {TRUE, FALSE}
  Paths = {"book", "dtag"}
  RowMaxGen = 2
  MaxEvents = 6
  RowMaxRestarts = 1
  MaxSweeps = 1
SPECIFICATION MCSpec
CONSTRAINT Bounds
CHECK_DEADLOCK FALSE
INVARIANTS BookSound WatchSound KeysSound TalkSound RowSound RowKept RowRecovered
PROPERTIES TradeSteps
