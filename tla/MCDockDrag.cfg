CONSTANTS
  Views = {v1, v2}
  AppDocks = {d1, d2}
  Floats = {w1, w2}
  Position = {left, fill}
  Fill = fill
  None = None
  Disciplined = TRUE
SPECIFICATION DragSpec
INVARIANTS
  PreviewBelongsToDragged
PROPERTIES
  DropsWherePreviewed
