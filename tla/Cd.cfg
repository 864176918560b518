\* Two directories: the one the shell is in and the one it goes to; one of
\* them has a "=" in its path.
CONSTANTS
  d1 = d1
  d2 = d2
  Dirs = {d1, d2}
  Cut <- CutAtEquals
  Here = Here
  NotSet = NotSet
  NULL = NULL
SPECIFICATION CdSpec
INVARIANTS Arrived Refused BackAgain
