CONSTANTS
  Organizations = {o1, o2}
  Keys = {k1}
  Values = {v1, v2}
  Requests = {q1, q2, q3}
  Tables <- TwoTables
  Creatable = {"campaigns", "reports"}
  PoolSize = 2
  RowLimit = 1
  None = None
SPECIFICATION FairSpec
INVARIANTS AnswersAreKept OverviewCountsAreOwn
PROPERTIES TimeoutNeedsOverviews RequestsEnd
CHECK_DEADLOCK FALSE
