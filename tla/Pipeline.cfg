\* A pipe that holds less than a program writes.
CONSTANTS
  NStages = 5
  NFds = 8
  Capacity = 1
  Items = 2
  Lines <- MCLines
SPECIFICATION FairSpec
CHECK_DEADLOCK FALSE
INVARIANTS StagesWired ShellTableRestored
PROPERTIES LineEnds ImplementsChain
