CONSTANTS
  Procs = {p1, p2}
  None = None
  MaxOutput = 2
SPECIFICATION FairSpec
INVARIANTS
  TypeOK
  OneOperation
  OutputComplete
PROPERTIES
  EndedIsHandedOut
  InterruptArrives
  WorksAsPromised
CHECK_DEADLOCK FALSE
