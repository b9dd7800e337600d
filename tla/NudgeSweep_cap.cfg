SPECIFICATION Spec
CONSTANTS
  i1 = i1
  i2 = i2
  p = p
  q = q
  sched = sched
  api = api
  Gone = Gone
  Items = {i1, i2}
  People = {p, q}
  Reachable = {p}
  Sweepers = {sched, api}
  Scheduler = sched
  Dues = {3, 30}
  Owner <- OneOwner
  Due <- OneDue
  Lead = 3
  Cooldown = 2
  Window = 3
  Cap = 2
  MaxTime = 4
  MaxFaults = 1
  MaxEdits = 1
INVARIANTS
  RecordedIsSent
  RemindersAreSpaced
  CapPerPerson
PROPERTY OverdueIsEscalated
CHECK_DEADLOCK FALSE
