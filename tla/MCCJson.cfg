SPECIFICATION Spec
CONSTANTS
  NULL = NULL
  Items <- MCItems
  Alphabet <- MCAlphabet
  Lower <- MCLower
  Digits <- MCDigits
  Width <- MCWidth
  CJSON_NESTING_LIMIT = 2
  One = 8
  INT_MAX = 60
  Infinity = 1000
  Grain = 4
  default_buffer_size = 4
  Texts <- MCTexts
  Values <- MCValues
  Keys = {"a"}
  Credits = {0, 1, 2, 4, 99}
  Plenty = 99
  MaxItems = 12
  MaxSize = 7
  MaxCalls = 3
INVARIANTS
  DocumentsAreWhole
  ReadsAreExact
  PatchesReachTarget
  MergePatchWorks
  PrintFits
  TextRoundTrip
CHECK_DEADLOCK FALSE
