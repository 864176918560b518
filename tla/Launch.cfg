\* Three directories, and up to two changes at any moment.
CONSTANTS
  MaxDirs = 3
  MaxChanges = 2
SPECIFICATION Spec
INVARIANTS StartedFirst CodeTells AsPosix
