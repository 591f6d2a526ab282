CONSTANTS
  Runs = {r1, r2}
  Requests = {s1}
  Keys = {k1}
  NoKey = NoKey
  None = None
  Faults = {}
  MaxFaults = 0
SPECIFICATION Spec
INVARIANTS RejectionDoesNotComplete
CHECK_DEADLOCK FALSE
