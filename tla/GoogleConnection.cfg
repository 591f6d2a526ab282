CONSTANTS
  Organizations = {org1, org2}
  Users = {u1, u2}
  Accounts = {a1, a2}
  Flows = {f1, f2}
  Handlers = {h1, h2}
  None = None
SPECIFICATION FairSpec
INVARIANTS TypeOK StateUsedOnce TokensOfTheirUser EveryAccountListed ReadyNeedsAccount
PROPERTIES NothingIsTakenAway CallbacksAnswered
CHECK_DEADLOCK FALSE
