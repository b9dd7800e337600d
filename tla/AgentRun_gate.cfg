SPECIFICATION Spec
CONSTANTS
  r1 = r1
  Nobody = Nobody
  Runs = {r1}
  Offered <- AllTasks
  Bindings = {"workbook"}
  Outages = {{}, {"jira"}, {"github"}, {"workbook"}}
  Answers <- SomeAnswers
  Num = 1
  Den = 2
  Ceilings = {1, 2, 3, 4}
  MaxChanges = 2
  MaxFaults = 1
INVARIANTS
  CardsRespectCeiling
  PublishedIsGrounded
  ApprovalsHaveTheirRun
CHECK_DEADLOCK FALSE
