CONSTANTS
  Msgs = {m1, m2}
  Flushers = {f1, f2}
  MAX_RETRIES = 2
  BaseDelay = 1
  MaxDelay = 3
  FailedTtl = 3
  MaxTime = 4
  CardsMsgs = {1, 2}
  Capacity = 1
  MaxFailures = 1
  MaxRestarts = 1
  MaxReads = 1
SPECIFICATION MCSpec
CHECK_DEADLOCK FALSE
INVARIANTS OutboxSound CardsSound
PROPERTIES MessagesHandled
