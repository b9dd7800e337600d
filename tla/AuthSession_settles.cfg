SPECIFICATION Spec
CONSTANTS
  ann = ann
  bob = bob
  bobs = bobs
  Sessions = {anns, bobs}
  People = {ann, bob}
  Owner <- Owners
  Developer = Developer
  None = None
  MaxFaults = 1
PROPERTIES SettlesOnOwnProfile RefusedIsSignedOut NeverStuckLoading
CHECK_DEADLOCK FALSE
