CONSTANTS
  e = e
  f = f
  Edits = {e, f}
  Windows = {v, w}
  Letters = {x, nl}
  Newline = nl
  None = None
  MaxText <- Longest
  MaxTimer = 2
SPECIFICATION FairSpec
CHECK_DEADLOCK FALSE
INVARIANTS
  TypeOK
  CaretTimers
  CaretOnItsLine
PROPERTIES
  EditsAsPromised
  Blinks
