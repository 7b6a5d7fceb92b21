SPECIFICATION PSpec
CONSTANTS
  Period = 3
  MaxAhead = 4
  MaxHits = 3
  Steps = 2
  MaxTouches = 2
  MaxErrors = 1
INVARIANTS
  TraceCoversWindow
  OneFailurePerTrigger
PROPERTIES
  CapturesComeAndEnd
  EveryHitReported
