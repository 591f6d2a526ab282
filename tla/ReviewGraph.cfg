CONSTANTS
  Runs = {r1}
  Requests = {s1}
  Keys = {}
  NoKey = NoKey
  None = None
  Faults <- EarlyFaults
  MaxFaults = 2
  Packages <- ReviewPackages
  Answers <- LiveAnswers
SPECIFICATION GraphSpec
INVARIANTS ReviewDecidesStatus StoresAgree OfferedReportsRestOnData DeterministicOutcome
PROPERTIES AnalysisImplemented FailedIsFinal
CHECK_DEADLOCK FALSE
