\* The longest number has three digits, the longest int one; eight shells pass
\* the level that is not shown.
CONSTANTS
  LongBits = 8
  IntBits = 4
  ByteBits = 3
  Cap = 6
  Characters <- MCCharacters
  Letters <- MCLetters
  Levels <- MCLevels
  ExitWords <- MCExitWords
  ExportWords <- MCExportWords
  Statuses <- MCStatuses
  MaxShells = 8
  MaxNames = 2
  MaxText = 2
SPECIFICATION Spec
CHECK_DEADLOCK FALSE
INVARIANTS ExitRight ExportRight LevelRight
