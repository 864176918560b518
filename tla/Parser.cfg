\* All lines of six tokens, and lines of seven of three smaller sets: a subshell
\* and, behind it, a quoted operator; escaped and quoted brackets in and around a
\* subshell.  Spaces come in between the parts of a line that is continued.
CONSTANTS
  Tokens = {"w", "3", "|", "&&", "<", "(", ")", "dq", "sq"}
  MaxTokens = 6
  FewTokens = {{"w", "&&", "<", "(", ")", "dq"},
               {"w", "|", "(", ")", "esc)"}, {"w", "(", ")", "esc(", "esc)"}}
SPECIFICATION ParserSpec
CHECK_DEADLOCK FALSE
INVARIANTS SyntaxTypeOK VerdictCorrect ParseCorrect ScansEndAtNul
