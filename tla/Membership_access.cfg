CONSTANTS
  People = {ann, bob}
  Engagements = {workspace, pod}
  Workspace = workspace
  Default = pod
  Nowhere = Nowhere
  AutoJoin = TRUE
  Slots = {s1, s2}
  NoRow = NoRow
  Idle = Idle
  MaxRequests = 4
SPECIFICATION Spec
INVARIANTS SomeoneCanGrant InAWorkspace
PROPERTY BootstrapIsFirst
CHECK_DEADLOCK FALSE
