\* Lists of three nodes of four kinds, with every arrangement of "|", "&&" and
\* "||", and children that end with a code, by a signal or with a core dump;
\* fair scheduling.
CONSTANTS
  NNodes = 3
  Kinds = {"echo", "cd", "exit", "external"}
  ExitCodes = {0, 1}
  Signals = {"other"}
SPECIFICATION FairSpec
CHECK_DEADLOCK FALSE
INVARIANTS ChildrenAccounted FailureVisible
PROPERTIES ExitLeavesNoChild ImplementsAndOr LineEnds
