SPECIFICATION Spec
CONSTANTS
  Length = 5
  Texts <- MCTexts
  Lines <- MCLines
  Limitator <- MCLimitator
  Values <- MCValues
  Dirs <- MCDirs
  Cwd <- MCCwd
  Home <- MCHome
  Users <- MCUsers
  Status <- MCStatus
INVARIANTS FilesCorrect WordsCorrect SameCommand InText StartsFresh DocumentCorrect
