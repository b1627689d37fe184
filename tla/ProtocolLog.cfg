SPECIFICATION LogSpec
CONSTANTS
  NL = NL
  Char = {a, b}
  MaxLines = 3
  MaxPiece = 3
  MaxText = 7
INVARIANTS LogTypeOK KeepsNewest
CHECK_DEADLOCK FALSE
