SPECIFICATION Spec
CONSTANTS
  Shards <- MCShards
  HeadShard = "first"
  SideShards <- MCSideShards
  HardLinks = {FALSE}
  Releases = 1
  ByHand = {}
  MaxCrashes = 1
INVARIANT VariantServable
