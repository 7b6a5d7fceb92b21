SPECIFICATION Spec
CONSTANTS
  BlockSize <- MCBlockSize
  NumSpec <- MCNumSpec
  MaxTokens <- MCMaxTokens
INVARIANTS
  StartsFromComputed
  CacheExact
  GuardNeverHit
