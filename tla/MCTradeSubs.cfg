CONSTANTS
  Callers = {c1, c2, c3}
  Requesters = {c1}
  NoCaller = NoCaller
  Orders = {"o1", "o2"}
  MaxIndex = 3
  MaxRestores = 1
  MaxFaults = 1
SPECIFICATION MCSpec
CHECK_DEADLOCK FALSE
INVARIANTS SingleOwner PromisedCoverage WaitingRecordKept HistorySound
PROPERTIES ClaimsResolve HistorySteps
