SPECIFICATION SchedSpec
CONSTANTS
  r1 = r1
  r2 = r2
  r3 = r3
  Requests <- MCRequests
  Blocks <- MCBlocks
  Hashes <- MCHashes
  MarkedPrompts <- MCMarkedPrompts
  Groups <- MCGroups
  Prompt <- MCPrompt
  Marked <- MCMarked
  MarkerIds <- MCMarkerIds
  HashSize = 1
  MaxRunning = 2
  NoHash = NoHash
  NoBlock = NoBlock
  NoRequest = NoRequest
  FracNum = 2
  FracDen = 8
INVARIANTS MarkedPromptIsPinned
PROPERTIES RequestsKeepFinishing
