CONSTANTS
  MaxTakes = 2
  Window = 1
  MaxTime = 3
  MaxSends = 2
  MaxStops = 1
  Clients = {1, 2}
  Wallets = {"A"}
  NoWallet = "none"
  Calls = {"c1", "c2"}
  Invoices = {"i1", "i2"}
  Nodes = {"A", "B"}
  First = "A"
  Infos <- MCInfos
  Tasks = {"t1", "t2"}
  Wraps = {"w1"}
  Quotes = {"q1", "q2"}
  MaxMoves = 3
  CapsMaxTime = 1
  Lifetime = 1
  Says = {"unknown", "cashu", "cashu@mint"}
  Setters = {"s1", "s2"}
  Mine = {TRUE, FALSE}
  Unwritten = {FALSE}
  Interleaved = TRUE
  Paths = {"book", "dtag"}
  MaxGen = 2
  MaxEvents = 5
  MaxRestarts = 1
  MaxSweeps = 1
SPECIFICATION MCSpec
CONSTRAINT Bounds
CHECK_DEADLOCK FALSE
INVARIANTS BondSound WalletSound
PROPERTIES BondSteps RaceSteps
