CONSTANTS
  k1 = k1
  k2 = k2
  k3 = k3
  Keys = {k1, k2, k3}
  NoAttempt = NoAttempt
  Zero = Zero
  Creates = {c1}
  Takes = {}
  Invoices = {i1, i2}
  Claims = {}
  Restores = {}
  OpenDisputes = {}
  Attempts <- MCAttempts
  KeyOf <- MCKeyOf
  KindOf <- MCKindOf
  History <- MCHistory
  BoundKeys = {k3}
  WatchedKeys = {k1, k2}
  Preemptive = TRUE
  RESTORE_REPLY_SKEW_SECS = 0
  MaxTime = 0
  MaxRestarts = 0
SPECIFICATION FairSpec
CHECK_DEADLOCK FALSE
INVARIANTS NoStrandedCall LateOnlyAfterTimeout
PROPERTY CallsReturn
