SPECIFICATION Spec
CONSTANTS
  r1 = r1
  Nobody = Nobody
  Runs = {r1}
  Offered <- AllTasks
  Bindings = {"workbook"}
  Outages = {{}}
  Answers = {}
  Num = 1
  Den = 2
  Ceilings = {1, 2, 3, 4}
  MaxChanges = 0
  MaxFaults = 0
INVARIANT NothingLeavesBelowL3
CHECK_DEADLOCK FALSE
