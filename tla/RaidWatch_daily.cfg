SPECIFICATION Spec
CONSTANTS
  k1 = k1
  Nobody = Nobody
  NoKey = NoKey
  Keys = {k1}
  Day = 3
  Post = 1
  Zones <- AllZones
  WorkingDays = {0, 1}
  Age = 1
  MaxTime = 5
  MaxRuns = 2
  MaxPending = 2
  MaxEdits = 1
INVARIANTS
  OncePerDay
  QuietOnlyAfterSuccess
  OneRowPerBlocker
CHECK_DEADLOCK FALSE
