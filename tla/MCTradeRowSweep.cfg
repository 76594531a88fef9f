CONSTANTS
  Mine = {FALSE}
  Unwritten = {FALSE}
  Interleaved = TRUE
  Paths = {"book"}
  MaxGen = 2
  MaxEvents = 6
  MaxRestarts = 0
  MaxSweeps = 1
SPECIFICATION Spec
CHECK_DEADLOCK FALSE
PROPERTY SweepRemovesWhatItJudged
