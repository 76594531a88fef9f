CONSTANTS MaxTakes = 2
          Window = 1
          MaxTime = 3
          MaxStops = 0
SPECIFICATION Spec
INVARIANT SlashOfThisTake
CHECK_DEADLOCK FALSE
CONSTANT MaxSends = 2
