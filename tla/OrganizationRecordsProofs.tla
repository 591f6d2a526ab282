---------------------- MODULE OrganizationRecordsProofs ---------------------
(***************************************************************************)
(* Theorems about the routes of an organization's records, for any number  *)
(* of requests, organizations, tables and connections.                     *)
(***************************************************************************)
EXTENDS OrganizationRecords, FiniteSetTheorems, TLAPS

Points == NeedsConnection \cup {"idle", "commit", "ok", "error"}

-----------------------------------------------------------------------------
(* Where a request can be, and what it holds there                         *)

HandlersOf(point) ==
  CASE point = "rows" -> {"list"}
    [] point = "count" -> {"overview"}
    [] point = "get_org" -> {"overview", "create"}
    [] point \in {"insert", "refresh"} -> {"create"}
    [] point \in {"find", "commit"} -> {"put"}
    [] OTHER -> {"overview", "list", "create", "put"}

Served(q) ==
  /\ at[q] # "idle" => job[q] \in Jobs /\ job[q].handler \in HandlersOf(at[q])
  /\ q \in held => at[q] \in {"count", "insert", "commit"}

PoolInv ==
  /\ held \subseteq Requests
  /\ at \in [Requests -> Points] /\ DOMAIN job = Requests
  /\ \A q \in Requests : Served(q)

LEMMA PoolStep ==
  ASSUME PoolInv, NEW q \in Requests, Serve(q)
  PROVE  PoolInv'
<1> USE DEF PoolInv, Served, Goto, Points, NeedsConnection, HandlersOf
<1>1. CASE Receive(q)
  <2>1. PICK j \in Jobs : job' = [job EXCEPT ![q] = j]
    BY <1>1 DEF Receive
  <2>2. j.handler \in {"overview", "list", "create", "put"}
    BY DEF Jobs
  <2> QED BY <1>1, <2>1, <2>2 DEF Receive
<1>2. CASE Authorize(q)
  <2>1. job[q].handler \in {"overview", "list", "create", "put"} /\ job[q] \in Jobs
    BY <1>2 DEF Authorize, Jobs
  <2> QED BY <1>2, <2>1 DEF Authorize, Returns
<1>3. CASE ListRows(q)
  BY <1>3 DEF ListRows, Returns
<1>4. CASE GetOrganization(q)
  BY <1>4 DEF GetOrganization, Keeps
<1>5. CASE CountRows(q)
  BY <1>5 DEF CountRows
<1>6. CASE Insert(q)
  BY <1>6 DEF Insert, Returns
<1>7. CASE Refresh(q)
  BY <1>7 DEF Refresh, Returns
<1>8. CASE FindSetting(q)
  BY <1>8 DEF FindSetting, Keeps
<1>9. CASE CommitSetting(q)
  BY <1>9 DEF CommitSetting, Returns
<1>10. CASE StatementRaises(q) \/ PoolTimesOut(q)
  BY <1>10 DEF StatementRaises, PoolTimesOut, GivesUp, Waiting
<1> QED BY <1>1, <1>2, <1>3, <1>4, <1>5, <1>6, <1>7, <1>8, <1>9, <1>10 DEF Serve

LEMMA PoolUnchanged == PoolInv /\ UNCHANGED vars => PoolInv'
BY DEF PoolInv, Served, vars

LEMMA PoolInit == Init => PoolInv
BY DEF Init, PoolInv, Served, Points

LEMMA PoolInvariant == Spec => []PoolInv
<1>1. PoolInv /\ [Next]_vars => PoolInv'
  BY PoolStep, PoolUnchanged DEF Next
<1> QED BY <1>1, PoolInit, PTL DEF Spec

\* Only overviews wait while they hold a connection, whatever the number of
\* requests and connections: it takes a pool full of them to time out.
THEOREM OverviewsFillThePool == Spec => TimeoutNeedsOverviews
<1> DEFINE Overviews == {q \in Requests : Asks(q, "overview") /\ at[q] = "count"}
<1>1. ASSUME PoolInv, NEW q \in Requests, PoolTimesOut(q)
      PROVE  Cardinality(Overviews) >= PoolSize
  <2>1. held \subseteq Overviews
    <3> SUFFICES ASSUME NEW p \in held PROVE p \in Overviews
      OBVIOUS
    <3>1. at[p] = "count"
      BY <1>1 DEF PoolInv, Served, PoolTimesOut, Stuck, Waiting
    <3> QED BY <1>1, <3>1 DEF PoolInv, Served, HandlersOf, Asks
  <2>2. IsFiniteSet(Overviews)
    BY PoolAssumption, FS_Subset
  <2>3. IsFiniteSet(held) /\ Cardinality(held) <= Cardinality(Overviews)
    BY <2>1, <2>2, FS_Subset
  <2>4. Cardinality(held) >= PoolSize
    BY <1>1, <2>3, PoolAssumption, FS_CardinalityType DEF PoolTimesOut, Stuck, Free
  <2> QED BY <2>2, <2>3, <2>4, PoolAssumption, FS_CardinalityType
<1>2. PoolInv /\ [Next]_vars
        => [(\E q \in Requests : PoolTimesOut(q)) => Cardinality(Overviews) >= PoolSize]_vars
  BY <1>1
<1> QED BY <1>2, PoolInvariant, PTL DEF Spec, TimeoutNeedsOverviews

-----------------------------------------------------------------------------
(* Answered puts                                                           *)

\* A put whose value is the one it has found, or has written, has been witnessed.
Witnessed(q) ==
  /\ at[q] = "commit" /\ seen[q] = job[q].value => q \in witnessed
  /\ Asks(q, "put") /\ at[q] = "ok" => q \in witnessed

PutInv == DOMAIN seen = Requests /\ \A q \in Requests : Witnessed(q)

LEMMA PutStep ==
  ASSUME PoolInv, PutInv, NEW q \in Requests, Serve(q), Witness
  PROVE  PutInv'
<1> USE DEF PoolInv, Served, PutInv, Witnessed, Goto, Asks
<1>1. witnessed \subseteq witnessed'
  BY DEF Witness
<1>2. CASE Receive(q)
  <2>1. \A k \in Requests \ {q} : at'[k] = at[k] /\ job'[k] = job[k]
    BY <1>2 DEF Receive
  <2>2. at'[q] = "authorize" /\ UNCHANGED seen
    BY <1>2 DEF Receive
  <2> QED BY <1>1, <2>1, <2>2
<1>3. CASE Authorize(q) \/ GetOrganization(q) \/ Insert(q)
  <2>1. UNCHANGED <<job, seen>> /\ (\A k \in Requests \ {q} : at'[k] = at[k])
        /\ at'[q] \notin {"commit", "ok"}
    BY <1>3 DEF Authorize, GetOrganization, Insert
  <2> QED BY <1>1, <2>1
<1>4. CASE ListRows(q) \/ CountRows(q) \/ Refresh(q)
  <2>1. UNCHANGED <<job, seen>> /\ (\A k \in Requests \ {q} : at'[k] = at[k])
        /\ at'[q] # "commit" /\ job[q].handler # "put"
    BY <1>4 DEF ListRows, CountRows, Refresh, HandlersOf
  <2> QED BY <1>1, <2>1
<1>5. CASE FindSetting(q)
  <2>1. UNCHANGED <<job, settings>> /\ at'[q] = "commit" /\ DOMAIN seen' = Requests
        /\ \A k \in Requests \ {q} : at'[k] = at[k] /\ seen'[k] = seen[k]
    BY <1>5 DEF FindSetting, dbVars
  <2>2. job[q] \in Jobs /\ job[q].handler = "put"
    BY <1>5 DEF FindSetting, HandlersOf
  <2>3. ASSUME seen'[q] = job[q].value PROVE q \in witnessed'
    <3>1. RowsOf(q) # {}
      <4>1. job[q].value \in Values
        BY <2>2 DEF Jobs
      <4> QED BY <1>5, <2>3, <4>1, AbsentAssumption DEF FindSetting
    <3>2. PICK s \in RowsOf(q) : s.value = job[q].value
      BY <1>5, <2>3, <3>1 DEF FindSetting
    <3> QED BY <2>1, <2>2, <3>2 DEF RowsOf, Witness
  <2> QED BY <1>1, <2>1, <2>3
<1>6. CASE CommitSetting(q)
  <2>1. UNCHANGED job /\ at'[q] \in {"ok", "error"}
        /\ \A k \in Requests \ {q} : at'[k] = at[k] /\ seen'[k] = seen[k]
    BY <1>6 DEF CommitSetting
  <2>2. job[q].handler = "put"
    BY <1>6 DEF CommitSetting, HandlersOf
  <2>3. ASSUME at'[q] = "ok" PROVE q \in witnessed'
    <3>1. CASE seen[q] = job[q].value
      BY <1>1, <1>6, <3>1 DEF CommitSetting
    <3>2. CASE seen[q] # job[q].value
      <4>1. RowWith(q, job[q].value) \in settings'
        BY <1>6, <2>3, <3>2 DEF CommitSetting
      <4> QED BY <2>1, <2>2, <2>3, <4>1 DEF RowWith, Witness
    <3> QED BY <3>1, <3>2
  <2> QED BY <1>1, <1>6, <2>1, <2>3 DEF CommitSetting
<1>7. CASE StatementRaises(q) \/ PoolTimesOut(q)
  BY <1>1, <1>7 DEF StatementRaises, PoolTimesOut, GivesUp
<1> QED BY <1>2, <1>3, <1>4, <1>5, <1>6, <1>7 DEF Serve

-----------------------------------------------------------------------------
(* Answered creates                                                        *)

StoredPoints == {"refresh", "ok"}
EndedPoints == {"refresh", "ok", "error"}

\* A table has a row for each create that is past its commit.
CreateInv ==
  /\ records \in [TableNames \cup Creatable -> [Organizations -> Nat]]
  /\ \A t \in Creatable, o \in Organizations :
       /\ Cardinality(Creates(t, o, StoredPoints)) <= records[t][o]
       /\ records[t][o] <= Cardinality(Creates(t, o, EndedPoints))

LEMMA CreatesFinite ==
  ASSUME NEW t, NEW o, NEW points
  PROVE  IsFiniteSet(Creates(t, o, points)) /\ Cardinality(Creates(t, o, points)) \in Nat
<1>1. Creates(t, o, points) \subseteq Requests
  BY DEF Creates
<1> QED BY <1>1, PoolAssumption, FS_Subset, FS_CardinalityType

\* A step that stores nothing takes no create past its commit.
LEMMA NothingStored ==
  ASSUME CreateInv, UNCHANGED records, NEW t \in Creatable, NEW o \in Organizations,
         Creates(t, o, StoredPoints)' \subseteq Creates(t, o, StoredPoints),
         Creates(t, o, EndedPoints) \subseteq Creates(t, o, EndedPoints)'
  PROVE  /\ Cardinality(Creates(t, o, StoredPoints))' <= records[t][o]
         /\ records[t][o] <= Cardinality(Creates(t, o, EndedPoints))'
<1>1. Creates(t, o, EndedPoints)' \subseteq Requests
  BY DEF Creates
<1>2. IsFiniteSet(Creates(t, o, EndedPoints)')
  BY <1>1, PoolAssumption, FS_Subset
<1>3. Cardinality(Creates(t, o, StoredPoints)') <= Cardinality(Creates(t, o, StoredPoints))
      /\ Cardinality(Creates(t, o, StoredPoints)') \in Nat
  BY CreatesFinite, FS_Subset, FS_CardinalityType
<1>4. Cardinality(Creates(t, o, EndedPoints)) <= Cardinality(Creates(t, o, EndedPoints)')
      /\ Cardinality(Creates(t, o, EndedPoints)') \in Nat
  BY <1>2, FS_Subset, FS_CardinalityType
<1>5. records[t][o] \in Nat
  BY DEF CreateInv
<1>6. /\ Cardinality(Creates(t, o, StoredPoints)) <= records[t][o]
      /\ records[t][o] <= Cardinality(Creates(t, o, EndedPoints))
  BY DEF CreateInv
<1> QED BY <1>3, <1>4, <1>5, <1>6, CreatesFinite

LEMMA InsertStep ==
  ASSUME PoolInv, CreateInv, NEW q \in Requests, Insert(q)
  PROVE  CreateInv'
<1> DEFINE table == job[q].table
           org == job[q].org
<1>1. /\ at[q] = "insert" /\ at' = [at EXCEPT ![q] = "refresh"] /\ UNCHANGED job
      /\ records' = [records EXCEPT ![table][org] = @ + 1]
  BY DEF Insert, Goto
<1>2. /\ job[q].handler = "create" /\ table \in Creatable /\ org \in Organizations
  BY <1>1 DEF PoolInv, Served, HandlersOf, Jobs
<1>3. records' \in [TableNames \cup Creatable -> [Organizations -> Nat]]
  BY <1>1, <1>2 DEF CreateInv
<1>4. ASSUME NEW t \in Creatable, NEW o \in Organizations
      PROVE  /\ Cardinality(Creates(t, o, StoredPoints))' <= records'[t][o]
             /\ records'[t][o] <= Cardinality(Creates(t, o, EndedPoints))'
  <2>1. CASE t = table /\ o = org
    <3>1. records'[t][o] = records[t][o] + 1 /\ records[t][o] \in Nat
      BY <1>1, <1>2, <2>1 DEF CreateInv
    <3>2. /\ Creates(t, o, StoredPoints)' = Creates(t, o, StoredPoints) \cup {q}
          /\ Creates(t, o, EndedPoints)' = Creates(t, o, EndedPoints) \cup {q}
          /\ q \notin Creates(t, o, StoredPoints) /\ q \notin Creates(t, o, EndedPoints)
      BY <1>1, <1>2, <2>1
         DEF Creates, Asks, StoredPoints, EndedPoints, PoolInv
    <3>3. /\ Cardinality(Creates(t, o, StoredPoints)')
               = Cardinality(Creates(t, o, StoredPoints)) + 1
          /\ Cardinality(Creates(t, o, EndedPoints)')
               = Cardinality(Creates(t, o, EndedPoints)) + 1
      BY <3>2, CreatesFinite, FS_AddElement
    <3>4. /\ Cardinality(Creates(t, o, StoredPoints)) <= records[t][o]
          /\ records[t][o] <= Cardinality(Creates(t, o, EndedPoints))
      BY DEF CreateInv
    <3> QED BY <3>1, <3>3, <3>4, CreatesFinite
  <2>2. CASE ~(t = table /\ o = org)
    <3>1. records'[t][o] = records[t][o]
      BY <1>1, <2>2 DEF CreateInv
    <3>2. /\ Creates(t, o, StoredPoints)' = Creates(t, o, StoredPoints)
          /\ Creates(t, o, EndedPoints)' = Creates(t, o, EndedPoints)
      BY <1>1, <2>2 DEF Creates, Asks, StoredPoints, EndedPoints, PoolInv
    <3> QED BY <3>1, <3>2 DEF CreateInv
  <2> QED BY <2>1, <2>2
<1> QED BY <1>3, <1>4 DEF CreateInv

LEMMA CreateStep ==
  ASSUME PoolInv, CreateInv, NEW q \in Requests, Serve(q)
  PROVE  CreateInv'
<1>1. CASE Insert(q)
  BY <1>1, InsertStep
<1>2. CASE ~Insert(q)
  <2>1. UNCHANGED records
    BY <1>2 DEF Serve, Receive, Authorize, ListRows, GetOrganization, CountRows, Refresh,
       FindSetting, CommitSetting, StatementRaises, PoolTimesOut, GivesUp, dbVars
  <2>2. \A k \in Requests \ {q} : at'[k] = at[k] /\ job'[k] = job[k]
    BY <1>2 DEF Serve, Receive, Authorize, ListRows, GetOrganization, CountRows, Refresh,
       FindSetting, CommitSetting, StatementRaises, PoolTimesOut, GivesUp, Goto, PoolInv
  <2>3. /\ at[q] # "idle" => job'[q] = job[q]
        /\ at'[q] \in StoredPoints /\ Asks(q, "create")' => at[q] \in StoredPoints
        /\ at[q] \in EndedPoints => at'[q] \in EndedPoints
    <3> USE DEF PoolInv, Served, Goto, Asks, StoredPoints, EndedPoints, Points, NeedsConnection
    <3>1. CASE Receive(q)
      BY <3>1 DEF Receive
    <3>2. CASE Authorize(q) \/ GetOrganization(q)
      BY <3>2 DEF Authorize, GetOrganization
    <3>3. CASE ListRows(q) \/ CountRows(q) \/ FindSetting(q) \/ CommitSetting(q)
      <4>1. job[q].handler # "create" /\ at[q] \notin EndedPoints /\ job' = job
        BY <3>3 DEF ListRows, CountRows, FindSetting, CommitSetting, HandlersOf
      <4> QED BY <4>1
    <3>4. CASE Refresh(q)
      BY <3>4 DEF Refresh
    <3>5. CASE StatementRaises(q) \/ PoolTimesOut(q)
      BY <3>5 DEF StatementRaises, PoolTimesOut, GivesUp
    <3> QED BY <1>2, <3>1, <3>2, <3>3, <3>4, <3>5 DEF Serve
  <2>4. \A t \in Creatable, o \in Organizations :
          /\ Creates(t, o, StoredPoints)' \subseteq Creates(t, o, StoredPoints)
          /\ Creates(t, o, EndedPoints) \subseteq Creates(t, o, EndedPoints)'
    <3>1. \A k \in Requests :
            /\ at[k] # "idle" => job'[k] = job[k]
            /\ at'[k] \in StoredPoints /\ Asks(k, "create")' => at[k] \in StoredPoints
            /\ at[k] \in EndedPoints => at'[k] \in EndedPoints
      BY <2>2, <2>3 DEF Asks
    <3> QED BY <3>1 DEF Creates, Asks, StoredPoints, EndedPoints
  <2> QED BY <2>1, <2>4, NothingStored DEF CreateInv
<1> QED BY <1>1, <1>2

\* Every write that is answered was made, whatever fails and however many requests
\* of a setting overlap.
THEOREM AnswersKept == Spec => []AnswersAreKept
<1> DEFINE Inv == PoolInv /\ PutInv /\ CreateInv
<1>1. Init => Inv
  <2> SUFFICES ASSUME Init PROVE PutInv /\ CreateInv
    BY PoolInit
  <2>1. PutInv
    BY DEF Init, PutInv, Witnessed, Asks
  <2>2. \A t, o, points : "idle" \notin points => Creates(t, o, points) = {}
    BY DEF Init, Creates, Asks
  <2>3. \A t \in Creatable, o \in Organizations : records[t][o] = 0
    BY DEF Init
  <2>4. records \in [TableNames \cup Creatable -> [Organizations -> Nat]]
    BY DEF Init
  <2>5. ASSUME NEW t \in Creatable, NEW o \in Organizations
        PROVE  /\ Cardinality(Creates(t, o, StoredPoints)) = 0
               /\ Cardinality(Creates(t, o, EndedPoints)) = 0
    <3>1. Creates(t, o, StoredPoints) = {} /\ Creates(t, o, EndedPoints) = {}
      BY <2>2 DEF StoredPoints, EndedPoints
    <3> QED BY <3>1, FS_EmptySet
  <2>6. CreateInv
    BY <2>3, <2>4, <2>5 DEF CreateInv
  <2> QED BY <2>1, <2>6
<1>2. Inv /\ [Next]_vars => Inv'
  <2> SUFFICES ASSUME Inv, [Next]_vars PROVE PutInv' /\ CreateInv'
    BY PoolStep, PoolUnchanged DEF Next
  <2>1. CASE UNCHANGED vars
    BY <2>1 DEF vars, dbVars, PutInv, CreateInv, Witnessed, Asks, Creates
  <2>2. ASSUME NEW q \in Requests, Serve(q), Witness PROVE PutInv' /\ CreateInv'
    BY <2>2, PutStep, CreateStep
  <2> QED BY <2>1, <2>2 DEF Next
<1>3. Inv => AnswersAreKept
  <2> SUFFICES ASSUME Inv PROVE PutsAreKept /\ CreatesAreKept
    BY DEF AnswersAreKept
  <2>1. PutsAreKept
    BY DEF PutInv, Witnessed, PutsAreKept
  <2>2. ASSUME NEW t \in Creatable, NEW o \in Organizations
        PROVE  /\ Cardinality(Creates(t, o, {"ok"})) <= records[t][o]
               /\ records[t][o] <= Cardinality(Creates(t, o, EndedPoints))
    <3>1. Creates(t, o, {"ok"}) \subseteq Creates(t, o, StoredPoints)
      BY DEF Creates, StoredPoints
    <3>2. Cardinality(Creates(t, o, {"ok"})) <= Cardinality(Creates(t, o, StoredPoints))
      BY <3>1, CreatesFinite, FS_Subset
    <3>3. records[t][o] \in Nat
      BY DEF CreateInv
    <3> QED BY <3>2, <3>3, CreatesFinite DEF CreateInv
  <2> QED BY <2>1, <2>2 DEF CreatesAreKept, EndedPoints
<1> QED BY <1>1, <1>2, <1>3, PTL DEF Spec

-----------------------------------------------------------------------------
(* The counts of an overview                                               *)

\* While an overview counts, no table of its organization has had fewer rows than
\* when it came, or has fewer than it has counted.
Counted(q) ==
  /\ counts[q] \in Seq(Nat) /\ Len(counts[q]) <= Len(Tables)
  /\ at[q] = "count" => Len(counts[q]) < Len(Tables)
  /\ at[q] \notin {"count", "ok"} => counts[q] = <<>>
  /\ Asks(q, "overview") =>
       /\ before[q] \in [DOMAIN Tables -> Nat]
       /\ \A i \in DOMAIN Tables : before[q][i] <= records[Tables[i]][job[q].org]
  /\ counts[q] # <<>> => Asks(q, "overview")
  /\ \A i \in 1..Len(counts[q]) :
       /\ AtMost(RowLimit, before[q][i]) <= counts[q][i]
       /\ counts[q][i] <= AtMost(RowLimit, records[Tables[i]][job[q].org])

CountInv ==
  /\ records \in [TableNames \cup Creatable -> [Organizations -> Nat]]
  /\ DOMAIN counts = Requests /\ DOMAIN before = Requests
  /\ \A q \in Requests : Counted(q)

LEMMA AtMostGrows ==
  ASSUME NEW m \in Nat, NEW n \in Nat, m <= n
  PROVE  AtMost(RowLimit, m) <= AtMost(RowLimit, n) /\ AtMost(RowLimit, m) \in Nat
BY LimitAssumption DEF AtMost

LEMMA TablesIndexed == DOMAIN Tables = 1..Len(Tables) /\ Len(Tables) \in Nat \ {0}
BY TablesAssumption

\* Rows are only added, to a table that exists.
LEMMA RecordsGrow ==
  ASSUME PoolInv, CountInv, NEW q \in Requests, Serve(q)
  PROVE  /\ records' \in [TableNames \cup Creatable -> [Organizations -> Nat]]
         /\ \A t \in TableNames \cup Creatable, o \in Organizations :
              records[t][o] <= records'[t][o]
<1>1. CASE Insert(q)
  <2>1. job[q].table \in Creatable /\ job[q].org \in Organizations
    BY <1>1 DEF Insert, PoolInv, Served, HandlersOf, Jobs
  <2>2. records' = [records EXCEPT ![job[q].table][job[q].org] = @ + 1]
    BY <1>1 DEF Insert
  <2> QED BY <2>1, <2>2 DEF CountInv
<1>2. CASE ~Insert(q)
  <2>1. UNCHANGED records
    BY <1>2 DEF Serve, Receive, Authorize, ListRows, GetOrganization, CountRows, Refresh,
       FindSetting, CommitSetting, StatementRaises, PoolTimesOut, GivesUp, dbVars
  <2> QED BY <2>1 DEF CountInv
<1> QED BY <1>1, <1>2

\* A request whose locals a step leaves alone keeps what it has counted.
LEMMA CountedStays ==
  ASSUME PoolInv, CountInv, NEW k \in Requests, Served(k)',
         counts'[k] = counts[k], before'[k] = before[k], job'[k] = job[k],
         at'[k] # at[k] => counts[k] = <<>> /\ at'[k] # "idle" /\ at[k] # "idle",
         records' \in [TableNames \cup Creatable -> [Organizations -> Nat]],
         \A t \in TableNames \cup Creatable, o \in Organizations :
           records[t][o] <= records'[t][o]
  PROVE  Counted(k)'
<1> USE DEF CountInv, Counted, Asks
<1>1. Counted(k)
  OBVIOUS
<1>2. /\ counts'[k] \in Seq(Nat) /\ Len(counts'[k]) <= Len(Tables)
      /\ at'[k] = "count" => Len(counts'[k]) < Len(Tables)
      /\ at'[k] \notin {"count", "ok"} => counts'[k] = <<>>
  BY <1>1, TablesIndexed
<1>3. Asks(k, "overview")' => Asks(k, "overview")
  OBVIOUS
<1>4. ASSUME Asks(k, "overview"), NEW i \in DOMAIN Tables
      PROVE  /\ records[Tables[i]][job[k].org] \in Nat
             /\ records'[Tables[i]][job[k].org] \in Nat
             /\ records[Tables[i]][job[k].org] <= records'[Tables[i]][job[k].org]
  <2>1. Tables[i] \in TableNames /\ job[k].org \in Organizations
    BY <1>4 DEF TableNames, PoolInv, Served, Jobs
  <2> QED BY <2>1
<1>5. Asks(k, "overview")' =>
        /\ before'[k] \in [DOMAIN Tables -> Nat]
        /\ \A i \in DOMAIN Tables : before'[k][i] <= records'[Tables[i]][job'[k].org]
  BY <1>1, <1>3, <1>4
<1>6. counts'[k] # <<>> => Asks(k, "overview")'
  BY <1>1
<1>7. ASSUME NEW i \in 1..Len(counts[k])
      PROVE  /\ AtMost(RowLimit, before'[k][i]) <= counts'[k][i]
             /\ counts'[k][i] <= AtMost(RowLimit, records'[Tables[i]][job'[k].org])
  <2>1. Asks(k, "overview") /\ i \in DOMAIN Tables /\ counts[k][i] \in Nat
    BY <1>1, TablesIndexed
  <2>2. /\ records[Tables[i]][job[k].org] \in Nat
        /\ records'[Tables[i]][job[k].org] \in Nat
        /\ records[Tables[i]][job[k].org] <= records'[Tables[i]][job[k].org]
    BY <1>4, <2>1
  <2>3. AtMost(RowLimit, records[Tables[i]][job[k].org])
          <= AtMost(RowLimit, records'[Tables[i]][job[k].org])
        /\ AtMost(RowLimit, records[Tables[i]][job[k].org]) \in Nat
        /\ AtMost(RowLimit, records'[Tables[i]][job[k].org]) \in Nat
    BY ONLY <2>2, LimitAssumption DEF AtMost
  <2>4. counts[k][i] <= AtMost(RowLimit, records[Tables[i]][job[k].org])
    BY <1>1
  <2>5. counts'[k][i] <= AtMost(RowLimit, records'[Tables[i]][job'[k].org])
    BY ONLY <2>1, <2>3, <2>4, counts'[k] = counts[k], job'[k] = job[k]
  <2> QED BY <1>1, <2>5
<1> QED BY <1>2, <1>5, <1>6, <1>7

LEMMA CountRowsStep ==
  ASSUME PoolInv, CountInv, NEW q \in Requests, CountRows(q)
  PROVE  Counted(q)'
<1> USE DEF CountInv, Counted, Asks
<1> DEFINE n == Len(counts[q]) + 1
           row == Rows(Tables[n], job[q].org)
<1>1. /\ at[q] = "count" /\ UNCHANGED <<records, job, before>>
      /\ counts'[q] = Append(counts[q], row)
  BY DEF CountRows, dbVars
<1>10. at'[q] = IF n = Len(Tables) THEN "ok" ELSE "count"
  <2>1. CASE n = Len(Tables)
    BY <2>1 DEF CountRows, Goto, PoolInv
  <2>2. CASE n # Len(Tables)
    BY <1>1, <2>2 DEF CountRows
  <2> QED BY <2>1, <2>2
<1>2. /\ Asks(q, "overview") /\ job[q].org \in Organizations
      /\ n \in DOMAIN Tables /\ Tables[n] \in TableNames
  BY <1>1, TablesIndexed DEF PoolInv, Served, HandlersOf, Jobs, TableNames
<1>3. /\ before[q][n] \in Nat /\ records[Tables[n]][job[q].org] \in Nat
      /\ before[q][n] <= records[Tables[n]][job[q].org]
  BY <1>2
<1>4. /\ row = AtMost(RowLimit, records[Tables[n]][job[q].org]) /\ row \in Nat
      /\ AtMost(RowLimit, before[q][n]) <= row
  BY ONLY <1>3, AtMostGrows, LimitAssumption DEF Rows, AtMost
<1>5. /\ counts'[q] \in Seq(Nat) /\ Len(counts'[q]) = n /\ counts'[q] # <<>>
      /\ counts'[q][n] = row
      /\ \A i \in 1..Len(counts[q]) : counts'[q][i] = counts[q][i]
  <2>1. counts[q] \in Seq(Nat)
    OBVIOUS
  <2> HIDE DEF row
  <2> QED BY ONLY <1>1, <1>4, <2>1
<1>6. \A i \in 1..n : i = n \/ i \in 1..Len(counts[q])
  OBVIOUS
<1>7. \A i \in 1..Len(counts'[q]) :
        /\ AtMost(RowLimit, before'[q][i]) <= counts'[q][i]
        /\ counts'[q][i] <= AtMost(RowLimit, records'[Tables[i]][job'[q].org])
  BY <1>1, <1>4, <1>5, <1>6
<1> HIDE DEF row
<1>8. /\ Asks(q, "overview")'
      /\ before'[q] \in [DOMAIN Tables -> Nat]
      /\ \A i \in DOMAIN Tables : before'[q][i] <= records'[Tables[i]][job'[q].org]
  BY <1>1, <1>10, <1>2
<1>9. /\ Len(counts'[q]) <= Len(Tables)
      /\ at'[q] = "count" => Len(counts'[q]) < Len(Tables)
  <2>1. Len(counts[q]) \in Nat /\ Len(counts[q]) < Len(Tables)
    BY <1>1
  <2>2. n \in Nat /\ n <= Len(Tables)
    BY ONLY <2>1, TablesIndexed
  <2>3. at'[q] = "count" => n # Len(Tables)
    BY ONLY <1>10
  <2>4. Len(counts'[q]) = n
    BY <1>5
  <2> HIDE DEF n
  <2>5. n <= Len(Tables) /\ (at'[q] = "count" => n < Len(Tables))
    <3>1. Len(Tables) \in Nat
      BY ONLY TablesIndexed
    <3>2. n # Len(Tables) => n < Len(Tables)
      BY ONLY <2>2, <3>1
    <3> QED BY ONLY <2>2, <2>3, <3>2
  <2> QED BY ONLY <2>4, <2>5
<1> QED BY <1>10, <1>5, <1>7, <1>8, <1>9

LEMMA CountStep ==
  ASSUME PoolInv, CountInv, NEW q \in Requests, Serve(q)
  PROVE  CountInv'
<1>1. /\ records' \in [TableNames \cup Creatable -> [Organizations -> Nat]]
      /\ \A t \in TableNames \cup Creatable, o \in Organizations :
           records[t][o] <= records'[t][o]
  BY RecordsGrow
<1>2. DOMAIN counts' = Requests /\ DOMAIN before' = Requests
  BY DEF CountInv, Serve, Receive, Authorize, ListRows, GetOrganization, CountRows, Insert,
     Refresh, FindSetting, CommitSetting, StatementRaises, PoolTimesOut, GivesUp
<1>3. PoolInv'
  BY PoolStep
<1>4. ASSUME NEW k \in Requests \ {q} PROVE Counted(k)'
  <2>1. counts'[k] = counts[k] /\ before'[k] = before[k] /\ job'[k] = job[k] /\ at'[k] = at[k]
    BY DEF PoolInv, CountInv, Serve, Receive, Authorize, ListRows, GetOrganization, CountRows,
       Insert, Refresh, FindSetting, CommitSetting, StatementRaises, PoolTimesOut, GivesUp, Goto
  <2> QED BY <1>1, <1>3, <2>1, CountedStays DEF PoolInv
<1>5. Counted(q)'
  <2>1. CASE Receive(q)
    <3>1. PICK j \in Jobs :
            /\ job' = [job EXCEPT ![q] = j]
            /\ before' = [before EXCEPT ![q] =
                 IF j.handler = "overview"
                 THEN [i \in DOMAIN Tables |-> records[Tables[i]][j.org]] ELSE <<>>]
      BY <2>1 DEF Receive
    <3>2. /\ at[q] = "idle" /\ at'[q] = "authorize" /\ job'[q] = j
          /\ UNCHANGED <<records, counts>>
      BY <2>1, <3>1 DEF Receive, Goto, PoolInv, dbVars
    <3>3. counts'[q] = <<>>
      BY <3>2 DEF CountInv, Counted
    <3>4. ASSUME Asks(q, "overview")'
          PROVE  /\ before'[q] \in [DOMAIN Tables -> Nat]
                 /\ \A i \in DOMAIN Tables : before'[q][i] <= records'[Tables[i]][j.org]
      <4>1. /\ before'[q] = [i \in DOMAIN Tables |-> records[Tables[i]][j.org]]
            /\ j.org \in Organizations
        BY <3>1, <3>2, <3>4 DEF Asks, CountInv, Jobs
      <4>2. \A i \in DOMAIN Tables : records[Tables[i]][j.org] \in Nat
        BY <4>1 DEF CountInv, TableNames
      <4> QED BY <3>2, <4>1, <4>2
    <3>5. Len(<<>>) = 0 /\ <<>> \in Seq(Nat)
      OBVIOUS
    <3> QED BY <3>2, <3>3, <3>4, <3>5, TablesIndexed DEF Counted
  <2>2. CASE CountRows(q)
    BY <2>2, CountRowsStep
  <2>3. CASE StatementRaises(q) \/ PoolTimesOut(q)
    <3>1. /\ at[q] # "idle" /\ at'[q] = "error" /\ counts'[q] = <<>>
          /\ UNCHANGED <<records, before, job>>
      BY <2>3 DEF StatementRaises, PoolTimesOut, GivesUp, Goto, Waiting, NeedsConnection,
         PoolInv, CountInv, dbVars
    <3>2. Len(<<>>) = 0 /\ <<>> \in Seq(Nat)
      OBVIOUS
    <3> QED BY <3>1, <3>2, TablesIndexed DEF CountInv, Counted, Asks
  <2>4. CASE Authorize(q) \/ ListRows(q) \/ GetOrganization(q) \/ Insert(q) \/ Refresh(q)
             \/ FindSetting(q) \/ CommitSetting(q)
    <3>1. /\ at[q] \notin {"idle", "count", "ok"} /\ at'[q] # "idle"
          /\ UNCHANGED <<counts, before, job>>
      BY <2>4, <1>3 DEF Authorize, ListRows, GetOrganization, Insert, Refresh, FindSetting,
         CommitSetting, Goto, PoolInv
    <3>2. counts[q] = <<>>
      BY <3>1 DEF CountInv, Counted
    <3> QED BY <1>1, <1>3, <3>1, <3>2, CountedStays DEF PoolInv
  <2> QED BY <2>1, <2>2, <2>3, <2>4 DEF Serve
<1> QED BY <1>1, <1>2, <1>4, <1>5 DEF CountInv

\* Whatever other requests insert meanwhile, an overview shows the counts of its
\* organization, each from a time between the request and the answer.
THEOREM OverviewsCountTheirOwn == Spec => []OverviewCountsAreOwn
<1> DEFINE Inv == PoolInv /\ CountInv
<1>1. Init => Inv
  <2> SUFFICES ASSUME Init PROVE CountInv
    BY PoolInit
  <2>1. Len(<<>>) = 0 /\ <<>> \in Seq(Nat)
    OBVIOUS
  <2> QED BY <2>1, TablesIndexed DEF Init, CountInv, Counted, Asks
<1>2. Inv /\ [Next]_vars => Inv'
  <2> SUFFICES ASSUME Inv, [Next]_vars PROVE CountInv'
    BY PoolStep, PoolUnchanged DEF Next
  <2>1. CASE UNCHANGED vars
    BY <2>1 DEF vars, dbVars, CountInv, Counted, Asks
  <2>2. ASSUME NEW q \in Requests, Serve(q) PROVE CountInv'
    BY <2>2, CountStep
  <2> QED BY <2>1, <2>2 DEF Next
<1>3. Inv => OverviewCountsAreOwn
  BY DEF CountInv, Counted, OverviewCountsAreOwn
<1> QED BY <1>1, <1>2, <1>3, PTL DEF Spec
=============================================================================
