SPECIFICATION StepSpec
CONSTANTS
  BlockTopk = 2
  MaxColumns = 3
  Scores = {1, 2}
  NegInf = 0
  Bits = 2
  WordBits = 4
  GroupSize = 2
  NoFile = NoFile
  NotBuilt = NotBuilt
  Masked = Masked
  Tokens = 4
  Vocab = 3
  OutRows = 4
  ByteIds = 1
  Chunk = 2
  Align = 2
  Int4Half = 2
  Int4Group = 4
  Weights <- MCHeads
  Specials <- MCSpecials
  Sizes = {2, 3}
INVARIANTS
  AttendsBestBlocks
  VocabularyByRank
  DraftScoresAreHeads
  DraftNeverRaises
