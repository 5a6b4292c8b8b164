CONSTANTS
  Delegates = {a, b}
  Windows = {w1, w2}
  None = None
  Openers = {a}
SPECIFICATION FairSpec
INVARIANTS
  InitComesFirst
  ActiveInForeground
  EndsOnce
  DelegateUpToDate
PROPERTIES
  ExitEndsTheLoop
  DelegateHearsTheEnd
CHECK_DEADLOCK FALSE
