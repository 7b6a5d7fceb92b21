SPECIFICATION Spec
CONSTANTS
  Shards <- MCShards
  HeadShard = "first"
  SideShards <- MCSideShards
  HardLinks = {TRUE, FALSE}
  Releases = 2
  ByHand = {"head", "fp8", "strip"}
  MaxCrashes = 2
INVARIANTS FinishedMeansServable BackupsAreOriginals
PROPERTIES SourceUntouchedByVariant InterruptedRunIsFinished
