SPECIFICATION Spec
CONSTANTS
  Doc = Doc
  Nodes = {n1, n2, n3, n4}
  Null = Null
  Names = {"a", "b"}
  AttrNames = {"k", ""}
  LeafKinds = {"comment", "declaration"}
  MaxTokens = 5
  AttrValues = {"v", ""}
  MaxSize = 4
  TextBytes <- MCTextBytes
  MaxText = 4
  Characters <- MCCharacters
  MaxFile = 4
SYMMETRY Symmetry
INVARIANTS
  TreeLinked
  WalksMeetAll
  NothingLost
  SavedIsLoaded
  TextReadBack
  PlacesRight
PROPERTIES
  ImplementsForest
CHECK_DEADLOCK FALSE
