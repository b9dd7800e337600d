SPECIFICATION Spec
CONSTANTS
  jira1 = jira1
  raid1 = raid1
  rep1 = rep1
  rep2 = rep2
  ref1 = ref1
  report1 = report1
  r1 = r1
  r2 = r2
  comment = comment
  repaired = repaired
  stripped = stripped
  garbled = garbled
  Sweep = Sweep
  Nobody = Nobody
  NoRef = NoRef
  NoEdit = NoEdit
  EmptyEdit = EmptyEdit
  Approvals = {jira1, raid1}
  Requests = {r1, r2}
  Kind <- JiraAndRaid
  Payloads = {comment, garbled, repaired, stripped}
  Proposed <- ProposedByAgent
  Refs = {ref1}
  Ref <- RaidRefs
  Malformed = {garbled}
  NoOps = {stripped}
  Workbook = TRUE
  Singles = {jira1, raid1}
  Batches <- BothOrders
  Edits = {NoEdit, EmptyEdit, repaired, stripped}
  Roles = {TRUE, FALSE}
  SweepLimit = 1
  MayCrash = TRUE
  HandRefs = {ref1}
SYMMETRY RequestSymmetry
INVARIANTS
  ExecutionExclusive
  WritesAuthorised
  OnlyDoneDecides
  NoHalfDecision
  ExecutedIsBacked
  OneRaidRowPerApproval
PROPERTY ImplementsGate
