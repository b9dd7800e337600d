SPECIFICATION FairSpec
CONSTANTS
  pod1 = pod1
  pod2 = pod2
  r1 = r1
  r2 = r2
  Tick = Tick
  Nobody = Nobody
  NoRow = NoRow
  PodList <- TwoPods
  Requests = {}
  Jobs = {"manual"}
  Broken <- MorningBroken
  Asked <- EndOfDay
  MaxFaults = 1
PROPERTY HealthyPodsGetTheirs
