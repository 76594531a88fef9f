CONSTANTS
  k1 = k1
  k2 = k2
  k3 = k3
  Keys = {k1, k2, k3}
  NoAttempt = NoAttempt
  Zero = Zero
  Creates = {}
  Takes = {t1}
  Invoices = {i1}
  Claims = {b1}
  Restores = {r1, r2}
  OpenDisputes = {d1, d2, d3}
  Attempts <- MCAttempts
  KeyOf <- MCKeyOf
  KindOf <- MCKindOf
  History <- MCHistory
  BoundKeys = {k3}
  WatchedKeys = {k1, k2}
  Preemptive = FALSE
  RESTORE_REPLY_SKEW_SECS = 1
  MaxTime = 2
  MaxRestarts = 1
SPECIFICATION Spec
CONSTRAINT OneKey
CHECK_DEADLOCK FALSE
INVARIANTS OnlyOwnReply AnswerableUnlessRefused AcceptedDisputeRecorded
