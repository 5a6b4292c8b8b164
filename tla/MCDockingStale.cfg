CONSTANTS
  Views = {v1, v2}
  AppDocks = {d1, d2}
  Floats = {w1, w2}
  Position = {fill}
  Fill = fill
  None = None
  Disciplined = FALSE
SPECIFICATION Spec
PROPERTY RedockKeepsTheView
