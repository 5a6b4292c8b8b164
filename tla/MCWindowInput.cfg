CONSTANTS
  Buttons = {b}
  Edits = {e}
  Pads = {p}
  Content = Content
  None = None
SPECIFICATION Spec
INVARIANTS
  CaptureHeld
  UnderPointer
  DisabledIsIdle
  FocusMatches
PROPERTIES
  ClickIsOwnPress
