CONSTANTS
  MaxInt = 10
  Character = {"/", "~", "0", "1", ".", "e", "-", "+", "x"}
  MaxPath = 5
  MaxFrom = 2
  MaxBoth = 6
  Piece <- Pieces
  MaxPieces = 4
SPECIFICATION Spec
CHECK_DEADLOCK FALSE
INVARIANTS PointersRoundTrip BelowIsAncestor NumbersValid NumbersCompareByValue StringsUnquoted QuotedReadBack
