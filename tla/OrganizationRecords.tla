------------------------- MODULE OrganizationRecords ------------------------
(***************************************************************************)
(* The routes of app/api/organization.py and what they share: the rows of  *)
(* an organization and the connections of the engine's pool.  FastAPI runs *)
(* each request in a thread of its own; a session takes a connection at    *)
(* its first statement and gives it back when it commits or closes.        *)
(***************************************************************************)
EXTENDS Integers, Sequences, FiniteSets

CONSTANTS
  Organizations, Keys, Values,
  Tables,      \* those overview counts, in its order; five in the code
  Creatable,   \* those a route inserts into: all but agent_decisions
  Requests,    \* each is served once
  PoolSize,    \* pool_size and max_overflow of the engine, 15 by default
  RowLimit,    \* of _rows, 100
  None

ASSUME PoolAssumption == PoolSize \in Nat \ {0} /\ IsFiniteSet(Requests)
ASSUME TablesAssumption ==
  Tables \in Seq(STRING) /\ Tables # <<>> /\ Creatable \subseteq STRING
ASSUME LimitAssumption == RowLimit \in Nat
ASSUME AbsentAssumption == None \notin Values

TableNames == {Tables[i] : i \in DOMAIN Tables}

\* What a request asks for; every one asks for something of one organization.
Jobs ==
  [handler : {"overview", "list"}, org : Organizations]
    \cup [handler : {"create"}, org : Organizations, table : Creatable]
    \cup [handler : {"put"}, org : Organizations, key : Keys, value : Values]

VARIABLES
  records,    \* the number of rows of each table and organization
  settings,   \* organization_settings: a set of rows
  held,       \* the requests whose session has a connection
  at,         \* where each request is
  job,        \* what it asks for
  seen,       \* put_setting: the value of the row it found
  counts,     \* overview: the counts it has read
  before,     \* history: the rows of each table when an overview came
  witnessed   \* history: the puts whose value their setting has had since

dbVars == <<records, settings>>
vars == <<dbVars, held, at, job, seen, counts, before, witnessed>>

Init ==
  /\ records = [t \in TableNames \cup Creatable |-> [o \in Organizations |-> 0]]
  /\ settings = {}
  /\ held = {}
  /\ at = [q \in Requests |-> "idle"]
  /\ job = [q \in Requests |-> None]
  /\ seen = [q \in Requests |-> None]
  /\ counts = [q \in Requests |-> <<>>]
  /\ before = [q \in Requests |-> <<>>]
  /\ witnessed = {}

Goto(q, point) == at' = [at EXCEPT ![q] = point]

-----------------------------------------------------------------------------
(* The pool                                                                *)

Free == Cardinality(held) < PoolSize

\* Points at which a statement comes that needs a connection.
NeedsConnection == {"authorize", "rows", "get_org", "count", "find", "insert", "refresh"}

\* _rows opens a session of its own, whatever its caller holds.
Waiting(q) ==
  /\ at[q] \in NeedsConnection
  /\ at[q] = "count" \/ q \notin held
  /\ ~Free

\* The session takes a connection, and keeps it for its next statement.
Keeps(q) == Free /\ held' = held \cup {q}

\* It takes one, or has one, and gives it back in the same step.
Returns(q) == (q \in held \/ Free) /\ held' = held \ {q}

-----------------------------------------------------------------------------
(* Reading                                                                 *)

Receive(q) ==
  /\ at[q] = "idle"
  /\ \E j \in Jobs :
       /\ job' = [job EXCEPT ![q] = j]
       /\ before' = [before EXCEPT ![q] =
            IF j.handler = "overview"
            THEN [i \in DOMAIN Tables |-> records[Tables[i]][j.org]] ELSE <<>>]
  /\ Goto(q, "authorize")
  /\ UNCHANGED <<dbVars, held, seen, counts>>

\* require_organization_context, for a user who is a member.
Authorize(q) ==
  /\ at[q] = "authorize"
  /\ Returns(q)
  /\ Goto(q, CASE job[q].handler = "list" -> "rows"
               [] job[q].handler = "overview" -> "get_org"
               [] job[q].handler = "put" -> "find"
               [] OTHER -> IF job[q].table = "campaigns" THEN "get_org" ELSE "insert")
  /\ UNCHANGED <<dbVars, job, seen, counts, before>>

\* campaigns, decisions, experiments, creatives, reports, settings
ListRows(q) ==
  /\ at[q] = "rows"
  /\ Returns(q)
  /\ Goto(q, "ok")
  /\ UNCHANGED <<dbVars, job, seen, counts, before>>

GetOrganization(q) ==
  /\ at[q] = "get_org"
  /\ Keeps(q)
  /\ Goto(q, IF job[q].handler = "overview" THEN "count" ELSE "insert")
  /\ UNCHANGED <<dbVars, job, seen, counts, before>>

AtMost(limit, n) == IF n > limit THEN limit ELSE n

\* Mutant: the query is not scoped to the organization.
RowsOfAnyone(table, org) ==
  AtMost(RowLimit, records[table][CHOOSE o \in Organizations : TRUE])

Rows(table, org) == AtMost(RowLimit, records[table][org])

\* One of the five _rows of overview, on a second connection; the first one goes
\* back when its session closes, with the answer.
CountRows(q) ==
  /\ at[q] = "count"
  /\ Free
  /\ counts' = [counts EXCEPT ![q] =
       Append(@, Rows(Tables[Len(@) + 1], job[q].org))]
  /\ IF Len(counts[q]) + 1 = Len(Tables)
     THEN held' = held \ {q} /\ Goto(q, "ok")
     ELSE UNCHANGED <<held, at>>
  /\ UNCHANGED <<dbVars, job, seen, before>>

-----------------------------------------------------------------------------
(* Writing                                                                 *)

\* create_campaign, create_experiment, create_creative, create_report: the insert
\* and its commit, after which the session has no connection.
Insert(q) ==
  /\ at[q] = "insert"
  /\ Returns(q)
  /\ records' = [records EXCEPT ![job[q].table][job[q].org] = @ + 1]
  /\ Goto(q, "refresh")
  /\ UNCHANGED <<settings, job, seen, counts, before>>

\* Mutant: the session is not closed.
RefreshLeaks(q) ==
  /\ at[q] = "refresh"
  /\ Keeps(q)
  /\ Goto(q, "ok")
  /\ UNCHANGED <<dbVars, job, seen, counts, before>>

Refresh(q) ==
  /\ at[q] = "refresh"
  /\ Returns(q)
  /\ Goto(q, "ok")
  /\ UNCHANGED <<dbVars, job, seen, counts, before>>

RowsOf(q) == {s \in settings : s.org = job[q].org /\ s.key = job[q].key}
RowWith(q, value) == [org |-> job[q].org, key |-> job[q].key, value |-> value]

\* one_or_none: the unique index leaves at most one row.
FindSetting(q) ==
  /\ at[q] = "find"
  /\ Keeps(q)
  /\ Goto(q, "commit")
  /\ seen' = [seen EXCEPT ![q] =
       IF RowsOf(q) = {} THEN None ELSE (CHOOSE s \in RowsOf(q) : TRUE).value]
  /\ UNCHANGED <<dbVars, job, counts, before>>

\* Mutant: the unique index makes the insert a no-op, not an error.
CommitIgnored(q) ==
  /\ at[q] = "commit"
  /\ Returns(q)
  /\ settings' = CASE seen[q] = None /\ RowsOf(q) # {} -> settings
                   [] seen[q] # None /\ seen[q] = job[q].value -> settings
                   [] OTHER -> (settings \ RowsOf(q)) \cup {RowWith(q, job[q].value)}
  /\ Goto(q, "ok")
  /\ seen' = [seen EXCEPT ![q] = None]
  /\ UNCHANGED <<records, job, counts, before>>

\* It inserts a row, unless the unique index refuses it, or updates the one it has
\* found, unless that had the value.
CommitSetting(q) ==
  /\ at[q] = "commit"
  /\ Returns(q)
  /\ \/ seen[q] = None /\ RowsOf(q) # {} /\ Goto(q, "error") /\ UNCHANGED settings
     \/ /\ seen[q] = None /\ RowsOf(q) = {}
        /\ settings' = settings \cup {RowWith(q, job[q].value)}
        /\ Goto(q, "ok")
     \/ /\ seen[q] # None
        /\ settings' = IF seen[q] = job[q].value
                       THEN settings
                       ELSE (settings \ RowsOf(q)) \cup {RowWith(q, job[q].value)}
        /\ Goto(q, "ok")
  /\ seen' = [seen EXCEPT ![q] = None]
  /\ UNCHANGED <<records, job, counts, before>>

-----------------------------------------------------------------------------
(* Failing                                                                 *)

GivesUp(q) ==
  /\ held' = held \ {q}
  /\ Goto(q, "error")
  /\ seen' = [seen EXCEPT ![q] = None]
  /\ counts' = [counts EXCEPT ![q] = <<>>]
  /\ UNCHANGED <<dbVars, job, before>>

\* A statement raises; the with block of the session closes it.
StatementRaises(q) ==
  /\ at[q] \in NeedsConnection \cup {"commit"}
  /\ ~Waiting(q)
  /\ GivesUp(q)

\* Those who have a connection wait, or will never give it back.
Stuck == ~Free /\ \A p \in held : Waiting(p) \/ at[p] \in {"ok", "error"}

\* Mutant: no time limit for the second connection of a request.
PoolTimesOutFirst(q) == Waiting(q) /\ Stuck /\ q \notin held /\ GivesUp(q)

\* pool_timeout: statements are short beside its 30 seconds, so that only requests
\* which wait for one another wait for so long.
PoolTimesOut(q) == Waiting(q) /\ Stuck /\ GivesUp(q)

-----------------------------------------------------------------------------
Serve(q) ==
  \/ Receive(q) \/ Authorize(q)
  \/ ListRows(q) \/ GetOrganization(q) \/ CountRows(q)
  \/ Insert(q) \/ Refresh(q)
  \/ FindSetting(q) \/ CommitSetting(q)
  \/ StatementRaises(q) \/ PoolTimesOut(q)

Witness ==
  witnessed' = witnessed \cup
    {q \in Requests :
       /\ at'[q] \notin {"idle", "authorize"}
       /\ job'[q].handler = "put"
       /\ \E s \in settings' : /\ s.org = job'[q].org /\ s.key = job'[q].key
                               /\ s.value = job'[q].value}

Next == (\E q \in Requests : Serve(q)) /\ Witness

Spec == Init /\ [][Next]_vars

\* A request that has come is served or given up.
FairSpec ==
  Spec /\ \A q \in Requests : WF_vars(Serve(q) /\ at[q] # "idle" /\ Witness)

-----------------------------------------------------------------------------
TypeOK ==
  /\ records \in [TableNames \cup Creatable -> [Organizations -> Nat]]
  /\ settings \subseteq [org : Organizations, key : Keys, value : Values]
  /\ held \subseteq Requests
  /\ at \in [Requests -> NeedsConnection \cup {"idle", "commit", "ok", "error"}]
  /\ job \in [Requests -> Jobs \cup {None}]
  /\ seen \in [Requests -> Values \cup {None}]
  /\ counts \in [Requests -> Seq(Nat)]
  /\ before \in [Requests -> Seq(Nat)]
  /\ witnessed \subseteq Requests

Asks(q, handler) == at[q] # "idle" /\ job[q].handler = handler

PutsAreKept ==
  \A q \in Requests : Asks(q, "put") /\ at[q] = "ok" => q \in witnessed

Creates(t, o, points) ==
  {q \in Requests : /\ Asks(q, "create") /\ at[q] \in points
                    /\ job[q].table = t /\ job[q].org = o}

CreatesAreKept ==
  \A t \in Creatable, o \in Organizations :
    /\ Cardinality(Creates(t, o, {"ok"})) <= records[t][o]
    /\ records[t][o] <= Cardinality(Creates(t, o, {"refresh", "ok", "error"}))

\* A put that is answered with its value was the setting's value at some time since
\* its request, however puts of the setting overlap; and one record was stored for
\* each create that is answered, and by these routes none without a create
\* (put_setting reads, then inserts or updates; create_* commit before they refresh
\* and answer).  The campaign drafts that a worker stores in the same table are
\* CommandRuns' results.
AnswersAreKept == PutsAreKept /\ CreatesAreKept

\* Each count of an overview, up to the limit, is one its own organization had
\* between the request and now, although five sessions read them.
OverviewCountsAreOwn ==
  \A q \in Requests :
    \A i \in 1..Len(counts[q]) :
      /\ AtMost(RowLimit, before[q][i]) <= counts[q][i]
      /\ counts[q][i] <= AtMost(RowLimit, records[Tables[i]][job[q].org])

\* The only requests that can wait for one another are overviews, which hold a
\* connection while they ask for another, and it takes as many as the pool has
\* connections: nobody else ever holds one while waiting.
TimeoutNeedsOverviews ==
  [][(\E q \in Requests : PoolTimesOut(q)) =>
       Cardinality({q \in Requests : Asks(q, "overview") /\ at[q] = "count"})
         >= PoolSize]_vars

\* Every request is answered, also when all connections are held by overviews
\* that wait for another one.
RequestsEnd ==
  \A q \in Requests : at[q] = "authorize" ~> at[q] \in {"ok", "error"}
=============================================================================
