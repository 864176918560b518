\* Two continuations and three Ctrl-C: an old flag, a new one, and both.  Fair
\* scheduling of the shell and of its child.
CONSTANTS
  MaxMore = 2
  MaxCtrlC = 3
SPECIFICATION FairSpec
CHECK_DEADLOCK FALSE
INVARIANTS SurvivesKeyboard ProgramsInterruptible EachCtrlCTakesOneLine
PROPERTIES WaitUndisturbed PromptReturns
