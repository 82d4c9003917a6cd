CONSTANTS
  Nodes = {1, 2, 3, 4, 5, 6, 7, 8, 9, 10, 11}
  key <- MCKey
  NULL = NULL
SPECIFICATION Spec
INVARIANTS LookupsAreSafe RedBlack WalksAreExact
