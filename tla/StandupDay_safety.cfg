SPECIFICATION Spec
CONSTANTS
  pod1 = pod1
  pod2 = pod2
  r1 = r1
  r2 = r2
  Tick = Tick
  Nobody = Nobody
  NoRow = NoRow
  PodList <- OnePod
  Requests = {r1, r2}
  Jobs = {"generate", "regenerate", "manual", "delete"}
  Broken <- NoSlots
  Asked <- EndOfDay
  MaxFaults = 1
SYMMETRY RequestSymmetry
INVARIANTS
  AuditIsTrue
  EachGenerationInserts
PROPERTY OnlyForcedOverwrites
