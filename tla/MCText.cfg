SPECIFICATION Spec
CONSTANTS
  Bytes = {0, 37, 62, 251, 255}
  MaxBytes = 5
  Pieces <- MCPieces
  MaxPieces = 6
  Parts <- MCParts
  MaxParts = 6
  Roots <- MCRoots
  Paths <- MCPaths
CHECK_DEADLOCK FALSE
INVARIANTS
  RoundTrip
  SegmentIsPlain
  ReadsInside
  OnlyOwnText
  UrlRoundTrip
  StaysInside
  TypeByName
