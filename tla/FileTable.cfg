SPECIFICATION FileSpec
CONSTANTS
  SIZE = 4
  Names = {a, b}
  NULL = NULL
  MaxLen = 2
  a = a
  b = b
INVARIANTS OpenExists PositionExact
