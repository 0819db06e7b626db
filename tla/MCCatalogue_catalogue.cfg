SPECIFICATION EditorSpec
CONSTANTS
  Images = {i1, i2}
  Categories = {g1}
  Calls = {c1, c2}
  None = None
  MayFail = TRUE
SYMMETRY Symmetry
CONSTRAINTS
  UntilOutdated
  PageOrCategory
CHECK_DEADLOCK FALSE
INVARIANTS
  ImagesSound
  UploaderAgrees
PROPERTY LotKept
