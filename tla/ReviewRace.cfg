CONSTANTS
  Runs = {r1}
  Requests = {s1, s2}
  Keys = {}
  NoKey = NoKey
  None = None
  Faults <- FaultKinds
  MaxFaults = 2
SPECIFICATION FairSpec
INVARIANTS TypeOK FinalNeedsReview ReviewNeedsValidReport
PROPERTIES AnalysisEnds ProcessingEnds
CHECK_DEADLOCK FALSE
