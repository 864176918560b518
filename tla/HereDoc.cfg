\* Two documents, longer than the pipe; fair scheduling, a user who ends the
\* documents.
CONSTANTS
  MaxDocs = 2
  MaxLines = 3
  Capacity = 2
SPECIFICATION FairSpec
INVARIANTS DocumentIntact FlagStaysInDocument
PROPERTIES HangsOnlySo
