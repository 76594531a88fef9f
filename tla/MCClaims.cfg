CONSTANTS
  Submits = {s1, s2}
  NoSubmit = NoSubmit
  Slashes = {0, 1}
  Windows = {0, 1}
  MaxAsks = 1
  MaxRounds = 1
  MaxTime = 1
  MaxRestarts = 1
  Sends = {1, 2}
  Funds = 2
  Proofs = {"p1", "p2"}
  MinLocktime = 2
  MintMaxTime = 2
  m1 = m1
  m2 = m2
  MaxRows = 2
  Orders = {"o", "p"}
  Fields = {"status", "peer"}
  Calls = {1, 2}
  Second = {2}
  Msgs = {m1, m2}
  MaxFaults = 2
SYMMETRY SubmitSymmetry
SPECIFICATION MCSpec
CONSTRAINT Bounds
CHECK_DEADLOCK FALSE
INVARIANTS ClaimSound EscrowSound StoreSound
PROPERTIES DeadlineFrozen 
