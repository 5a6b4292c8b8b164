CONSTANTS
  old = old
  new = new
  Jobs = {p, q}
  Versions = {old, new}
  Pieces <- Sizes
  Gap = Gap
  None = None
SPECIFICATION Spec
INVARIANTS
  TypeOK
  OverlapEndsWhole
PROPERTIES
  AnswersTrue
  NoNeedlessDownload
