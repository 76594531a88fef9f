CONSTANTS
  Nodes = {"A", "B"}
  FirstNode = "A"
  Switchers = {"s1", "s2"}
  Runs = {"r1", "r2"}
  Onlines = {"o1"}
  Keys = {"k0", "k1", "k2"}
  FirstKeys = {"k0"}
  PushKeys = {k1}
  PushNodes = {A, B}
  Tokens = {t1, t2}
  PushNone = None
  Grace = 2
  Refusal = 2
  MaxTime = 4
  MaxMoves = 3
  MaxFaults = 2
  Orders = {"o1"}
  MaxIdentity = 2
  MaxIndex = 2
SPECIFICATION MCSpec
CHECK_DEADLOCK FALSE
INVARIANTS SwitchSound PushSound IdentitySound
PROPERTIES NodeSteps
