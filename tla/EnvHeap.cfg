\* Four names in four cells: a freed cell is used again by any later variable,
\* while the pointers of two others may still lead to it.
CONSTANTS
  Names = {A, B, C, D}
  NoName = NoName
  Values = {v}
  NoValue = NoValue
  Cells = {c1, c2, c3, c4}
  NULL = NULL
SPECIFICATION Spec
SYMMETRY Symmetry
CHECK_DEADLOCK FALSE
INVARIANTS NamesDistinct
PROPERTIES ImplementsEnvList
