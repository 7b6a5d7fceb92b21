SPECIFICATION GatherSpec
CONSTANTS
  Vocab = 7
  Parts = 2
  FastRows = 2
  Chunk = 2
  Batches <- MCBatches
  Files <- MCFiles
  ScaleFile = 2
  Streams <- MCStreams
INVARIANTS FinishedTableIsServed ScaleFollowsStream AnswerExact RaisesOnlyForAbsentRows
