SPECIFICATION Spec
CONSTANTS
  a = a
  b = b
  huge = huge
  Ids = {a, b, huge}
  Size <- MCSize
  SlotRows = 1
  LookupPooled = {huge}
  WorkerPooled = {b, huge}
  MayStall = {b}
  ItemSizes = {1, 2}
  JobIds = {1, 2, 3}
  NoIds = NoIds
  Torn = Torn
  None = None
INVARIANTS CopiesIntact OneJobPerSlot PendingIsThisSteps
PROPERTIES ImplementsRowLookup EveryLookupReturns
