CONSTANTS
  Runs = {r1, r2}
  Workers = {w1, w2, w3}
  NoRun = NoRun
  MaxRetries = 1
  MaxFaults = 2
  Cancellable = {r1, r2}
  CrashPoints <- ForgettingPoints
  RaisePoints <- NoPoints
  ApiFaults <- RefusedPush
  ClaimsOverrun = FALSE
SPECIFICATION FairSpec
INVARIANTS SingleCustody OutcomeMatchesDecisions
PROPERTIES EveryRunSettles ImplementsLifecycle
CHECK_DEADLOCK FALSE
