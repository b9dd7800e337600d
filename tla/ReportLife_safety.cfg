SPECIFICATION Spec
CONSTANTS
  r1 = r1
  r2 = r2
  r3 = r3
  job = job
  thisWeek = thisWeek
  lastWeek = lastWeek
  NoRow = NoRow
  Requests = {r1, r2, r3}
  Scheduler = job
  Periods = {thisWeek, lastWeek}
  ThisWeek = thisWeek
  Ops <- AllOps
  MaxFaults = 1

  
PROPERTIES
  JobNeverOverwrites
  LateChangesBeganEarlier
  DraftedOnItsDay
CHECK_DEADLOCK FALSE
