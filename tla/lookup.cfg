SPECIFICATION Spec
CONSTANTS
  CONTEXT = 2
  MAX_MATCHES = 3
  FRAG_MIN = 2
  FRAG_MAX_NAMES = 1
  FRAG_CLIP = 2
  PAGE = 2
  MaxNext = 9
  Paths <- MCPaths
  Hidden <- MCHidden
  Below <- MCBelow
  Outside = {"/w"}
  Starts <- MCStarts
INVARIANTS
  TypeOK
  ContextIsWindow
  CapIsTold
  MissMeansAbsent
  PiecesAreLongest
  FullMeansSeen
  QuotedPageIsFound
CHECK_DEADLOCK FALSE
