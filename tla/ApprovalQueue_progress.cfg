SPECIFICATION FairSpec
CONSTANTS
  jira1 = jira1
  raid1 = raid1
  rep1 = rep1
  rep2 = rep2
  ref1 = ref1
  report1 = report1
  r1 = r1
  r2 = r2
  comment = comment
  repaired = repaired
  stripped = stripped
  garbled = garbled
  Sweep = Sweep
  Nobody = Nobody
  NoRef = NoRef
  NoEdit = NoEdit
  EmptyEdit = EmptyEdit
  Approvals = {rep1, rep2}
  Requests = {r1, r2}
  Kind <- TwoReports
  Payloads = {comment}
  Proposed <- ProposedByAgent
  Refs = {report1}
  Ref <- SameReport
  Malformed = {}
  NoOps = {}
  Workbook = FALSE
  Singles = {}
  Batches <- BothReportOrders
  Edits = {NoEdit}
  Roles = {TRUE}
  SweepLimit = 2
  MayCrash = FALSE
  HandRefs = {}
CHECK_DEADLOCK FALSE
PROPERTIES
  EveryRequestEnds
  StaleIsSettled
