\* The doc of env_unset_node() against the code.
CONSTANTS
  Names = {A, B, C}
  NoName = NoName
  Values = {v}
  NoValue = NoValue
  Cells = {c1, c2, c3, c4}
  NULL = NULL
SPECIFICATION Spec
CHECK_DEADLOCK FALSE
PROPERTIES UnsetTakesOne
