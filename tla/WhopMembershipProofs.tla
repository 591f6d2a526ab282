------------------------ MODULE WhopMembershipProofs -----------------------
(***************************************************************************)
(* Theorems about the synchronization of memberships, for any number of    *)
(* memberships, events and replicas.                                       *)
(***************************************************************************)
EXTENDS WhopMembership, TLAPS

\* An event in hand is one that was emitted.
LEMMA InHand ==
  ASSUME TypeOK, NEW p \in Replicas, at[p] # "idle"
  PROVE  /\ event[p] \in Events
         /\ MembershipOf(p) \in Memberships
         /\ event[p] = <<MembershipOf(p), event[p][2]>>
         /\ event[p][2] \in 1..MaxEvents
         /\ PayloadOf(p) \in Payloads
<1>1. event[p] \in Events /\ event[p][2] <= Len(emitted[event[p][1]])
  BY DEF TypeOK
<1>2. /\ event[p][1] \in Memberships /\ event[p][2] \in 1..MaxEvents
      /\ event[p] = <<event[p][1], event[p][2]>>
  BY <1>1 DEF Events
<1>3. emitted[event[p][1]] \in Seq(Payloads)
  BY <1>2 DEF TypeOK
<1>4. event[p][2] \in 1..Len(emitted[event[p][1]])
  BY <1>1, <1>2, <1>3, BoundsAssumption
<1>5. emitted[event[p][1]][event[p][2]] \in Payloads
  BY <1>3, <1>4
<1> QED BY <1>1, <1>2, <1>5 DEF MembershipOf, PayloadOf

\* What a commit writes is a membership.
LEMMA NewRowType ==
  ASSUME TypeOK, NEW p \in Replicas, at[p] # "idle",
         loaded[p] # None => row[MembershipOf(p)] # None
  PROVE  NewRow(p) \in Payloads
<1>1. MembershipOf(p) \in Memberships /\ PayloadOf(p) \in Payloads
  BY InHand
<1>2. CASE loaded[p] = None
  BY <1>1, <1>2 DEF NewRow
<1>3. CASE loaded[p] # None
  <2>1. row[MembershipOf(p)] \in Payloads
    BY <1>1, <1>3 DEF TypeOK
  <2> QED BY <1>1, <1>3, <2>1 DEF NewRow, Assigned, Payloads
<1> QED BY <1>2, <1>3

-----------------------------------------------------------------------------
(* Rows are never removed, so what a transaction loaded stays there.       *)

LoadedStays ==
  \A p \in Replicas :
    at[p] # "idle" /\ loaded[p] # None => row[MembershipOf(p)] # None

\* Every step keeps the types and the rows.
LEMMA TypeOKStep == TypeOK /\ LoadedStays /\ [Next]_vars => TypeOK'
<1> SUFFICES ASSUME TypeOK, LoadedStays, [Next]_vars PROVE TypeOK'
  OBVIOUS
<1> USE NoneAssumption, BoundsAssumption
<1> USE DEF TypeOK, whopVars, dbVars, replicaVars, historyVars, Points, Goto, ToIdle
<1>1. ASSUME NEW m \in Memberships, NEW payload \in Payloads, Emit(m, payload)
      PROVE  TypeOK'
  <2>1. emitted' \in [Memberships -> Seq(Payloads)]
    BY <1>1 DEF Emit
  <2>2. \A k \in Memberships : Len(emitted[k]) <= Len(emitted'[k])
    BY <1>1 DEF Emit
  <2>3. \A p \in Replicas : at[p] # "idle" =>
           event[p] \in Events /\ event[p][2] <= Len(emitted'[event[p][1]])
    <3> SUFFICES ASSUME NEW p \in Replicas, at[p] # "idle"
                 PROVE  event[p][2] <= Len(emitted'[event[p][1]])
      OBVIOUS
    <3>1. event[p][1] \in Memberships /\ event[p][2] \in 1..MaxEvents
      BY InHand DEF MembershipOf
    <3>2. event[p][2] <= Len(emitted[event[p][1]])
      OBVIOUS
    <3>3. /\ Len(emitted[event[p][1]]) \in Nat
          /\ Len(emitted'[event[p][1]]) \in Nat
      BY <2>1, <3>1
    <3> QED BY <2>2, <3>1, <3>2, <3>3
  <2> QED BY <1>1, <2>1, <2>3 DEF Emit
<1>2. ASSUME NEW p \in Replicas, NEW m \in Memberships, NEW n \in 1..MaxEvents,
             Deliver(p, m, n)
      PROVE  TypeOK'
  <2>1. <<m, n>> \in Events /\ <<m, n>>[2] <= Len(emitted[<<m, n>>[1]])
    BY <1>2 DEF Deliver, Pending, Events
  <2> QED BY <1>2, <2>1 DEF Deliver
<1>3. ASSUME NEW p \in Replicas, process_whop_event(p) PROVE TypeOK'
  <2> USE DEF MembershipOf, Account, User
  <2>1. CASE FindEvent(p) BY <2>1 DEF FindEvent
  <2>2. CASE FindOrganization(p) BY <2>2 DEF FindOrganization
  <2>3. CASE InsertOrganization(p)
    <3>1. inserted[p] \cup {"organization"} \in SUBSET {"organization", "user"}
      OBVIOUS
    <3>2. CASE ToIdle(p)
      BY <2>3, <3>2 DEF InsertOrganization
    <3>3. CASE inserted' = [inserted EXCEPT ![p] = @ \cup {"organization"}]
      <4>1. inserted' \in [Replicas -> SUBSET {"organization", "user"}]
        BY <3>1, <3>3
      <4> QED BY <2>3, <3>3, <4>1 DEF InsertOrganization
    <3> QED BY <2>3, <3>2, <3>3 DEF InsertOrganization
  <2>4. CASE FindUser(p) BY <2>4 DEF FindUser
  <2>5. CASE InsertUser(p)
    <3>1. inserted[p] \cup {"user"} \in SUBSET {"organization", "user"}
      OBVIOUS
    <3>2. CASE ToIdle(p)
      BY <2>5, <3>2 DEF InsertUser
    <3>3. CASE inserted' = [inserted EXCEPT ![p] = @ \cup {"user"}]
      <4>1. inserted' \in [Replicas -> SUBSET {"organization", "user"}]
        BY <3>1, <3>3
      <4> QED BY <2>5, <3>3, <4>1 DEF InsertUser
    <3> QED BY <2>5, <3>2, <3>3 DEF InsertUser
  <2>6. CASE FindMembership(p)
    <3>1. event[p][1] \in Memberships
      BY <2>6, InHand DEF FindMembership
    <3> QED BY <2>6, <3>1 DEF FindMembership
  <2>7. CASE Commit(p)
    <3>1. /\ event[p] \in Events /\ event[p][1] \in Memberships
          /\ event[p][2] \in 1..MaxEvents
      BY <2>7, InHand DEF Commit
    <3>2. NewRow(p) \in Payloads
      BY <2>7, NewRowType DEF Commit, LoadedStays
    <3>3. AccountOf[event[p][1]] \in Accounts /\ UserOf[event[p][1]] \in Users
      BY <3>1 DEF Accounts, Users
    <3>4. CASE CommitEvent(p) /\ Goto(p, "answer_true")
      <4>1. /\ organizations' \subseteq Accounts /\ users' \subseteq Users
            /\ row' \in [Memberships -> Payloads \cup {None}]
            /\ recorded' \subseteq Events
        BY <3>1, <3>2, <3>3, <3>4 DEF CommitEvent, Apply
      <4>2. /\ applied' \in [Events -> Nat]
            /\ source' \in [Memberships -> 0..MaxEvents]
        BY <3>1, <3>4 DEF CommitEvent, Apply
      <4>3. /\ at' \in [Replicas -> Points]
            /\ inserted' \in [Replicas -> SUBSET {"organization", "user"}]
        BY <2>7, <3>4 DEF Commit
      <4> QED BY <2>7, <3>1, <3>4, <4>1, <4>2, <4>3 DEF Commit
    <3>5. CASE Goto(p, "answer_false") /\ UNCHANGED <<dbVars, applied, source>>
      <4>1. /\ at' \in [Replicas -> Points]
            /\ inserted' \in [Replicas -> SUBSET {"organization", "user"}]
        BY <2>7, <3>5 DEF Commit
      <4> QED BY <2>7, <3>1, <3>5, <4>1 DEF Commit
    <3> QED BY <2>7, <3>4, <3>5 DEF Commit
  <2>8. CASE Answer(p)
    <3>1. event[p] \in Events
      BY <2>8 DEF Answer
    <3> QED BY <2>8, <3>1 DEF Answer
  <2> QED BY <1>3, <2>1, <2>2, <2>3, <2>4, <2>5, <2>6, <2>7, <2>8
          DEF process_whop_event
<1>4. ASSUME NEW p \in Replicas, Crash(p) PROVE TypeOK'
  BY <1>4 DEF Crash
<1>5. CASE UNCHANGED vars BY <1>5 DEF vars
<1> QED BY <1>1, <1>2, <1>3, <1>4, <1>5 DEF Next

\* A commit writes its membership's row and no other, and only a row whose
\* organization and user have no other membership.
LEMMA CommitEffect ==
  ASSUME TypeOK, LoadedStays, NEW p \in Replicas, at[p] = "commit", CommitEvent(p)
  PROVE  /\ MembershipOf(p) \in Memberships
         /\ row'[MembershipOf(p)] # None
         /\ \A m \in Memberships \ {MembershipOf(p)} : row'[m] = row[m]
         /\ row[MembershipOf(p)] = None =>
              \A m \in Memberships :
                row[m] # None => AccountOf[m] # Account(p) \/ UserOf[m] # User(p)
<1>1. MembershipOf(p) \in Memberships
  BY InHand
<1>2. NewRow(p) \in Payloads
  BY NewRowType DEF LoadedStays
<1>3. row' = [row EXCEPT ![MembershipOf(p)] = NewRow(p)]
  BY DEF CommitEvent, Apply
<1>4. row \in [Memberships -> Payloads \cup {None}]
  BY DEF TypeOK
<1>5. row[MembershipOf(p)] = None => loaded[p] = None
  BY DEF LoadedStays
<1> QED
  BY <1>1, <1>2, <1>3, <1>4, <1>5, NoneAssumption DEF CommitEvent, Conflict

SeatInv ==
  /\ LoadedStays
  /\ OneSeat
  /\ \A e \in Events : applied[e] = IF e \in recorded THEN 1 ELSE 0

\* Every step keeps SeatInv: the commit alone writes rows and records, and it
\* raises for a recorded event and for a taken seat.
LEMMA SeatStep == TypeOK /\ SeatInv /\ [Next]_vars => SeatInv'
<1> SUFFICES ASSUME TypeOK, SeatInv, [Next]_vars PROVE SeatInv'
  OBVIOUS
<1>t. TypeOK'
  BY TypeOKStep DEF SeatInv
<1>1. ASSUME NEW p \in Replicas, Commit(p), CommitEvent(p) PROVE SeatInv'
  <2>1. at[p] = "commit"
    BY <1>1 DEF Commit
  <2>2. /\ MembershipOf(p) \in Memberships
        /\ row'[MembershipOf(p)] # None
        /\ \A m \in Memberships \ {MembershipOf(p)} : row'[m] = row[m]
        /\ row[MembershipOf(p)] = None =>
             \A m \in Memberships :
               row[m] # None => AccountOf[m] # Account(p) \/ UserOf[m] # User(p)
    BY <1>1, <2>1, CommitEffect DEF SeatInv
  <2>3. LoadedStays'
    <3> SUFFICES ASSUME NEW q \in Replicas, at'[q] # "idle", loaded'[q] # None
                 PROVE  row'[event'[q][1]] # None
      BY DEF LoadedStays, MembershipOf
    <3>1. event' = event /\ loaded' = loaded
      BY <1>1 DEF Commit
    <3>2. at[q] # "idle"
      BY <1>1, <2>1 DEF Commit, Goto, TypeOK
    <3>3. row[event[q][1]] # None /\ event[q][1] \in Memberships
      BY <3>1, <3>2, InHand DEF SeatInv, LoadedStays, MembershipOf
    <3> QED BY <2>2, <3>1, <3>3
  <2>4. OneSeat'
    BY <2>2 DEF SeatInv, OneSeat, Account, User
  <2>5. \A e \in Events : applied'[e] = IF e \in recorded' THEN 1 ELSE 0
    <3>1. /\ event[p] \in Events /\ event[p] \notin recorded
          /\ recorded' = recorded \cup {event[p]}
          /\ applied' = [applied EXCEPT ![event[p]] = @ + 1]
      BY <1>1, <2>1, InHand DEF CommitEvent, Apply
    <3>2. applied \in [Events -> Nat]
      BY DEF TypeOK
    <3> QED BY <3>1, <3>2 DEF SeatInv
  <2> QED BY <2>3, <2>4, <2>5 DEF SeatInv
<1>2. ASSUME UNCHANGED <<row, recorded, applied>>, LoadedStays' PROVE SeatInv'
  BY <1>2 DEF SeatInv, OneSeat
<1>3. ASSUME NEW p \in Replicas, Commit(p), UNCHANGED <<dbVars, applied, source>>
      PROVE  SeatInv'
  <2>1. LoadedStays'
    BY <1>3 DEF Commit, Goto, SeatInv, LoadedStays, MembershipOf, TypeOK, dbVars
  <2> QED BY <1>2, <1>3, <2>1 DEF dbVars
<1>4. ASSUME NEW p \in Replicas, FindMembership(p) PROVE SeatInv'
  <2>1. LoadedStays'
    BY <1>4 DEF FindMembership, Goto, SeatInv, LoadedStays, MembershipOf, TypeOK,
       dbVars
  <2> QED BY <1>2, <1>4, <2>1 DEF FindMembership, dbVars, historyVars
<1>5. ASSUME NEW p \in Replicas,
             \/ FindEvent(p) \/ FindOrganization(p) \/ InsertOrganization(p)
             \/ FindUser(p) \/ InsertUser(p) \/ Answer(p) \/ Crash(p)
      PROVE  SeatInv'
  <2>1. LoadedStays'
    BY <1>5 DEF FindEvent, FindOrganization, InsertOrganization, FindUser,
       InsertUser, Answer, Crash, Goto, ToIdle, SeatInv, LoadedStays,
       MembershipOf, TypeOK, dbVars
  <2> QED
    BY <1>2, <1>5, <2>1 DEF FindEvent, FindOrganization, InsertOrganization,
       FindUser, InsertUser, Answer, Crash, dbVars, historyVars
<1>6. ASSUME NEW p \in Replicas, NEW m \in Memberships, NEW n \in 1..MaxEvents,
             Deliver(p, m, n)
      PROVE  SeatInv'
  <2>1. LoadedStays'
    BY <1>6 DEF Deliver, SeatInv, LoadedStays, MembershipOf, TypeOK, dbVars
  <2> QED BY <1>2, <1>6, <2>1 DEF Deliver, dbVars, historyVars
<1>7. ASSUME NEW m \in Memberships, NEW payload \in Payloads, Emit(m, payload)
      PROVE  SeatInv'
  <2>1. LoadedStays'
    BY <1>7 DEF Emit, SeatInv, LoadedStays, MembershipOf, dbVars, replicaVars
  <2> QED BY <1>2, <1>7, <2>1 DEF Emit, dbVars, historyVars
<1>8. CASE UNCHANGED vars
  <2>1. LoadedStays'
    BY <1>8 DEF vars, SeatInv, LoadedStays, MembershipOf
  <2> QED BY <1>2, <1>8, <2>1 DEF vars
<1>9. ASSUME NEW p \in Replicas, Commit(p) PROVE SeatInv'
  BY <1>1, <1>3, <1>9 DEF Commit
<1> QED BY <1>4, <1>5, <1>6, <1>7, <1>8, <1>9 DEF Next, process_whop_event

\* Both invariants hold of every behaviour.
THEOREM SeatInvariant == Spec => [](TypeOK /\ SeatInv)
<1>1. ASSUME Init PROVE TypeOK /\ SeatInv
  <2>1. SeatInv
    BY <1>1 DEF Init, SeatInv, LoadedStays, OneSeat
  <2>2. emitted \in [Memberships -> Seq(Payloads)]
    BY <1>1 DEF Init
  <2>3. /\ applied \in [Events -> Nat]
        /\ source \in [Memberships -> 0..MaxEvents]
    BY <1>1, BoundsAssumption DEF Init
  <2> QED BY <1>1, <2>1, <2>2, <2>3 DEF Init, TypeOK, Points
<1>2. TypeOK /\ SeatInv /\ [Next]_vars => TypeOK' /\ SeatInv'
  BY TypeOKStep, SeatStep DEF SeatInv
<1>3. QED BY <1>1, <1>2, PTL DEF Spec

\* The variables of WhopMembership always have their types, and an idle replica
\* holds no transaction.
THEOREM TypeCorrect == Spec => []TypeOK
BY SeatInvariant, PTL

\* No event is applied twice, in whatever order and however often Whop delivers.
THEOREM EventAppliedOnce == Spec => []AppliedOnce
<1>1. ASSUME SeatInv PROVE AppliedOnce
  <2> SUFFICES ASSUME NEW e \in Events PROVE applied[e] <= 1
    BY DEF AppliedOnce
  <2>1. applied[e] = 1 \/ applied[e] = 0
    BY <1>1 DEF SeatInv
  <2> QED BY <2>1
<1>2. QED BY <1>1, SeatInvariant, PTL

\* An organization and a user never have two memberships.
THEOREM SeatUnique == Spec => []OneSeat
<1>1. SeatInv => OneSeat
  BY DEF SeatInv
<1>2. QED BY <1>1, SeatInvariant, PTL

-----------------------------------------------------------------------------
(* In-order delivery: the events recorded of a membership are a prefix of  *)
(* its events.  An answered event is recorded, unless another membership   *)
(* has the seat of its own, which then never gets a row.                   *)

Blocked(m) ==
  /\ row[m] = None
  /\ \E k \in Memberships :
       row[k] # None /\ AccountOf[k] = AccountOf[m] /\ UserOf[k] = UserOf[m]

Prefix ==
  \A m \in Memberships :
    /\ \A n \in 1..MaxEvents : <<m, n>> \in recorded <=> n <= source[m]
    /\ row[m] = None <=> source[m] = 0

Handled(m, n) == <<m, n>> \in recorded \/ Blocked(m)

AnsweredHandled ==
  \A m \in Memberships, n \in 1..MaxEvents :
    <<m, n>> \in answered => Handled(m, n)

InTurn(p) ==
  LET m == MembershipOf(p) n == event[p][2] IN
  /\ at[p] # "idle" => \A k \in 1..(n - 1) : <<m, k>> \in answered
  /\ at[p] = "commit" /\ loaded[p] = None => n = 1 \/ Blocked(m)
  /\ at[p] \in {"answer_true", "answer_false"} => Handled(m, n)

OrderInv == Prefix /\ AnsweredHandled /\ \A p \in Replicas : InTurn(p)

\* In order, an event that is not recorded yet is the one that follows the last one
\* applied, unless its membership has no seat.
LEMMA TurnOfUnrecorded ==
  ASSUME TypeOK, OrderInv, NEW p \in Replicas, at[p] # "idle",
         event[p] \notin recorded, ~Blocked(MembershipOf(p))
  PROVE  event[p][2] = source[MembershipOf(p)] + 1
<1> DEFINE m == MembershipOf(p)
           n == event[p][2]
<1>1. /\ m \in Memberships /\ n \in 1..MaxEvents /\ event[p] = <<m, n>>
  BY InHand
<1>3. source[m] \in 0..MaxEvents
  BY <1>1 DEF TypeOK
<1>4. ~(n <= source[m])
  BY <1>1 DEF OrderInv, Prefix
<1>5. n - 1 <= source[m]
  <2>1. CASE n = 1
    BY <1>3, <2>1
  <2>2. CASE n # 1
    <3>1. n - 1 \in 1..(n - 1) /\ n - 1 \in 1..MaxEvents
      BY <1>1, <2>2, BoundsAssumption
    <3>2. <<m, n - 1>> \in answered
      BY <3>1 DEF OrderInv, InTurn
    <3>3. <<m, n - 1>> \in recorded
      BY <1>1, <3>1, <3>2 DEF OrderInv, AnsweredHandled, Handled
    <3> QED BY <1>1, <3>1, <3>3 DEF OrderInv, Prefix
  <2> QED BY <2>1, <2>2
<1> QED BY <1>1, <1>3, <1>4, <1>5, BoundsAssumption

\* In order, a commit is of that event.
LEMMA NextInTurn ==
  ASSUME TypeOK, SeatInv, OrderInv, NEW p \in Replicas, at[p] = "commit",
         CommitEvent(p)
  PROVE  /\ ~Blocked(MembershipOf(p))
         /\ event[p][2] = source[MembershipOf(p)] + 1
<1>1. ~Blocked(MembershipOf(p))
  BY DEF Blocked, CommitEvent, Conflict, SeatInv, LoadedStays, Account, User
<1> QED BY <1>1, TurnOfUnrecorded DEF CommitEvent

\* A blocked membership stays blocked, and a handled event stays handled.
LEMMA HandledStays ==
  ASSUME TypeOK, SeatInv, OrderInv, NEW p \in Replicas, at[p] = "commit",
         CommitEvent(p)
  PROVE  /\ \A m \in Memberships : Blocked(m) => Blocked(m)'
         /\ \A m \in Memberships, n \in 1..MaxEvents :
              Handled(m, n) => Handled(m, n)'
<1>1. /\ MembershipOf(p) \in Memberships
      /\ row'[MembershipOf(p)] # None
      /\ \A m \in Memberships \ {MembershipOf(p)} : row'[m] = row[m]
  BY CommitEffect DEF SeatInv
<1>2. ~Blocked(MembershipOf(p))
  BY NextInTurn
<1>3. \A m \in Memberships : Blocked(m) => Blocked(m)'
  BY <1>1, <1>2 DEF Blocked
<1>4. recorded \subseteq recorded'
  BY DEF CommitEvent, Apply
<1> QED BY <1>3, <1>4 DEF Handled

\* Every step keeps OrderInv when Whop delivers in order.
LEMMA OrderStep ==
  ASSUME InOrder
  PROVE  TypeOK /\ SeatInv /\ OrderInv /\ [Next]_vars => OrderInv'
<1> SUFFICES ASSUME TypeOK, SeatInv, OrderInv, [Next]_vars PROVE OrderInv'
  OBVIOUS
<1>1. ASSUME NEW p \in Replicas, Commit(p), CommitEvent(p) PROVE OrderInv'
  <2>1. at[p] = "commit" /\ at' = [at EXCEPT ![p] = "answer_true"]
    BY <1>1 DEF Commit, Goto, CommitEvent
  <2> DEFINE m == MembershipOf(p)
             n == event[p][2]
  <2>2. /\ m \in Memberships /\ n \in 1..MaxEvents /\ event[p] = <<m, n>>
        /\ n = source[m] + 1
    BY <1>1, <2>1, InHand, NextInTurn
  <2>3. /\ row'[m] # None
        /\ \A k \in Memberships \ {m} : row'[k] = row[k]
    BY <1>1, <2>1, CommitEffect DEF SeatInv
  <2>4. /\ \A k \in Memberships : Blocked(k) => Blocked(k)'
        /\ \A k \in Memberships, i \in 1..MaxEvents :
             Handled(k, i) => Handled(k, i)'
    BY <1>1, <2>1, HandledStays
  <2>5. /\ recorded' = recorded \cup {<<m, n>>}
        /\ source' = [source EXCEPT ![m] = n]
        /\ answered' = answered /\ event' = event /\ loaded' = loaded
    BY <1>1, <2>2 DEF Commit, CommitEvent, Apply, whopVars
  <2>6. source \in [Memberships -> 0..MaxEvents]
    BY DEF TypeOK
  <2>7. Prefix'
    <3> SUFFICES ASSUME NEW k \in Memberships
                 PROVE  /\ \A i \in 1..MaxEvents :
                              <<k, i>> \in recorded' <=> i <= source'[k]
                        /\ row'[k] = None <=> source'[k] = 0
      BY DEF Prefix
    <3>1. CASE k = m
      BY <2>2, <2>3, <2>5, <2>6, <3>1, BoundsAssumption DEF OrderInv, Prefix
    <3>2. CASE k # m
      BY <2>2, <2>3, <2>5, <2>6, <3>2 DEF OrderInv, Prefix
    <3> QED BY <3>1, <3>2
  <2>8. AnsweredHandled'
    BY <2>4, <2>5 DEF OrderInv, AnsweredHandled
  <2>9. ASSUME NEW q \in Replicas PROVE InTurn(q)'
    <3>1. /\ at'[q] # "idle" => at[q] # "idle"
          /\ at'[q] = "commit" => at[q] = "commit"
          /\ q # p => at'[q] = at[q]
      BY <2>1 DEF TypeOK
    <3>2. at[q] # "idle" => /\ MembershipOf(q) \in Memberships
                            /\ event[q][2] \in 1..MaxEvents
      BY InHand
    <3>3. MembershipOf(q)' = MembershipOf(q)
      BY <2>5 DEF MembershipOf
    <3>4. Handled(m, n)'
      BY <2>5 DEF Handled, MembershipOf
    <3> QED BY <2>1, <2>4, <2>5, <3>1, <3>2, <3>3, <3>4 DEF OrderInv, InTurn
  <2> QED BY <2>7, <2>8, <2>9 DEF OrderInv
<1>2. ASSUME NEW p \in Replicas, Commit(p), UNCHANGED <<dbVars, applied, source>>,
             Goto(p, "answer_false"), event[p] \in recorded \/ Conflict(p)
      PROVE  OrderInv'
  <2> DEFINE m == MembershipOf(p)
             n == event[p][2]
  <2>1. at[p] = "commit" /\ at' = [at EXCEPT ![p] = "answer_false"]
    BY <1>2 DEF Commit, Goto
  <2>2. /\ m \in Memberships /\ n \in 1..MaxEvents /\ event[p] = <<m, n>>
    BY <2>1, InHand
  <2>3. UNCHANGED <<row, recorded, source, answered, event, loaded>>
    BY <1>2 DEF Commit, whopVars, dbVars
  <2>4. Handled(m, n)
    <3>1. CASE event[p] \in recorded
      BY <2>2, <3>1 DEF Handled
    <3>2. CASE Conflict(p)
      <4>1. loaded[p] = None /\ (n = 1 \/ Blocked(m))
        BY <2>1, <3>2 DEF Conflict, OrderInv, InTurn
      <4>2. CASE n = 1 /\ ~Blocked(m)
        <5>1. row[m] # None
          BY <3>2, <4>2 DEF Conflict, Blocked, Account, User
        <5>2. source[m] \in 0..MaxEvents /\ source[m] # 0
          BY <2>2, <5>1 DEF OrderInv, Prefix, TypeOK
        <5>3. n <= source[m]
          BY <4>2, <5>2, BoundsAssumption
        <5> QED BY <2>2, <5>3 DEF OrderInv, Prefix, Handled
      <4> QED BY <4>1, <4>2 DEF Handled
    <3> QED BY <1>2, <3>1, <3>2
  <2>5. ASSUME NEW q \in Replicas PROVE InTurn(q)'
    <3>1. /\ at'[q] # "idle" => at[q] # "idle"
          /\ at'[q] = "commit" => at[q] = "commit"
          /\ q # p => at'[q] = at[q]
      BY <2>1 DEF TypeOK
    <3> QED BY <2>1, <2>3, <2>4, <3>1
            DEF OrderInv, InTurn, MembershipOf, Handled, Blocked
  <2> QED BY <2>3, <2>5
          DEF OrderInv, Prefix, AnsweredHandled, Handled, Blocked
<1>3. ASSUME NEW p \in Replicas, FindMembership(p) PROVE OrderInv'
  <2> DEFINE m == MembershipOf(p)
             n == event[p][2]
  <2>1. /\ at[p] = "find_membership" /\ at' = [at EXCEPT ![p] = "commit"]
        /\ loaded' = [loaded EXCEPT ![p] = row[m]]
        /\ UNCHANGED <<row, recorded, source, answered, event>>
    BY <1>3 DEF FindMembership, Goto, whopVars, dbVars, historyVars
  <2>2. m \in Memberships /\ n \in 1..MaxEvents
    BY <2>1, InHand
  <2>3. row[m] = None => n = 1 \/ Blocked(m)
    <3> SUFFICES ASSUME row[m] = None, n # 1 PROVE Blocked(m)
      OBVIOUS
    <3>1. 1 \in 1..(n - 1) /\ 1 \in 1..MaxEvents
      BY <2>2, BoundsAssumption
    <3>2. Handled(m, 1)
      BY <2>1, <2>2, <3>1 DEF OrderInv, InTurn, AnsweredHandled
    <3>3. <<m, 1>> \notin recorded
      BY <2>2, <3>1 DEF OrderInv, Prefix
    <3> QED BY <3>2, <3>3 DEF Handled
  <2>4. ASSUME NEW q \in Replicas PROVE InTurn(q)'
    <3>1. CASE q = p
      BY <2>1, <2>3, <3>1
      DEF OrderInv, InTurn, MembershipOf, Handled, Blocked, TypeOK
    <3>2. CASE q # p
      BY <2>1, <3>2
      DEF OrderInv, InTurn, MembershipOf, Handled, Blocked, TypeOK
    <3> QED BY <3>1, <3>2
  <2> QED BY <2>1, <2>4
          DEF OrderInv, Prefix, AnsweredHandled, Handled, Blocked
<1>4. ASSUME NEW p \in Replicas, Answer(p) PROVE OrderInv'
  <2>1. /\ at[p] \in {"answer_true", "answer_false"}
        /\ at' = [at EXCEPT ![p] = "idle"]
        /\ answered' = answered \cup {event[p]}
        /\ event' = [event EXCEPT ![p] = None]
        /\ loaded' = [loaded EXCEPT ![p] = None]
        /\ UNCHANGED <<row, recorded, source>>
    BY <1>4 DEF Answer, ToIdle, Goto, dbVars
  <2>2. event[p] = <<MembershipOf(p), event[p][2]>>
    BY <2>1, InHand
  <2>3. AnsweredHandled'
    BY <2>1, <2>2 DEF OrderInv, AnsweredHandled, InTurn, Handled, Blocked
  <2>4. ASSUME NEW q \in Replicas PROVE InTurn(q)'
    <3>1. CASE q = p
      BY <2>1, <3>1 DEF InTurn, TypeOK
    <3>2. CASE q # p
      BY <2>1, <3>2
      DEF OrderInv, InTurn, MembershipOf, Handled, Blocked, TypeOK
    <3> QED BY <3>1, <3>2
  <2> QED BY <2>1, <2>3, <2>4 DEF OrderInv, Prefix
<1>5. ASSUME NEW p \in Replicas, NEW m \in Memberships, NEW n \in 1..MaxEvents,
             Deliver(p, m, n)
      PROVE  OrderInv'
  <2>1. /\ at' = [at EXCEPT ![p] = "find_event"]
        /\ event' = [event EXCEPT ![p] = <<m, n>>]
        /\ \A k \in 1..(n - 1) : <<m, k>> \in answered
        /\ UNCHANGED <<row, recorded, source, answered, loaded>>
    BY <1>5 DEF Deliver, whopVars, dbVars, historyVars
  <2>2. ASSUME NEW q \in Replicas PROVE InTurn(q)'
    <3>1. CASE q = p
      BY <2>1, <3>1 DEF InTurn, MembershipOf, TypeOK
    <3>2. CASE q # p
      BY <2>1, <3>2
      DEF OrderInv, InTurn, MembershipOf, Handled, Blocked, TypeOK
    <3> QED BY <3>1, <3>2
  <2> QED BY <2>1, <2>2
          DEF OrderInv, Prefix, AnsweredHandled, Handled, Blocked
<1>6. ASSUME NEW p \in Replicas,
             \/ FindEvent(p) \/ FindOrganization(p) \/ InsertOrganization(p)
             \/ FindUser(p) \/ InsertUser(p) \/ Crash(p)
      PROVE  OrderInv'
  <2>1. UNCHANGED <<row, recorded, source, answered>>
    BY <1>6 DEF FindEvent, FindOrganization, InsertOrganization, FindUser,
       InsertUser, Crash, whopVars, dbVars, historyVars
  <2>2. ASSUME NEW q \in Replicas PROVE InTurn(q)'
    <3>1. CASE at'[q] = at[q] /\ event'[q] = event[q] /\ loaded'[q] = loaded[q]
      BY <2>1, <3>1 DEF OrderInv, InTurn, MembershipOf, Handled, Blocked
    <3>2. CASE at'[q] = "idle"
      BY <3>2 DEF InTurn
    <3>3. CASE /\ at[q] # "idle" /\ event'[q] = event[q]
               /\ at'[q] \notin {"idle", "commit", "answer_true", "answer_false"}
      BY <2>1, <3>3 DEF OrderInv, InTurn, MembershipOf
    <3>4. CASE /\ at[q] = "find_event" /\ event'[q] = event[q]
               /\ at'[q] = "answer_false" /\ event[q] \in recorded
      <4>1. event[q] = <<MembershipOf(q), event[q][2]>>
        BY <3>4, InHand
      <4> QED BY <2>1, <3>4, <4>1 DEF OrderInv, InTurn, MembershipOf, Handled
    <3> QED
      BY <1>6, <3>1, <3>2, <3>3, <3>4 DEF FindEvent, FindOrganization,
         InsertOrganization, FindUser, InsertUser, Crash, Goto, ToIdle, TypeOK
  <2> QED BY <2>1, <2>2
          DEF OrderInv, Prefix, AnsweredHandled, Handled, Blocked
<1>7. ASSUME NEW m \in Memberships, NEW payload \in Payloads, Emit(m, payload)
      PROVE  OrderInv'
  BY <1>7 DEF Emit, dbVars, replicaVars, historyVars, OrderInv, Prefix,
     AnsweredHandled, InTurn, MembershipOf, Handled, Blocked
<1>8. CASE UNCHANGED vars
  BY <1>8 DEF vars, OrderInv, Prefix, AnsweredHandled, InTurn, MembershipOf,
     Handled, Blocked
<1>9. ASSUME NEW p \in Replicas, Commit(p) PROVE OrderInv'
  BY <1>1, <1>2, <1>9 DEF Commit
<1> QED BY <1>3, <1>4, <1>5, <1>6, <1>7, <1>8, <1>9 DEF Next, process_whop_event

\* Nothing is recorded, answered or in hand at first.
LEMMA OrderInit == Init => OrderInv
<1> SUFFICES ASSUME Init PROVE OrderInv
  OBVIOUS
<1>1. Prefix
  <2> SUFFICES ASSUME NEW m \in Memberships
               PROVE  /\ \A n \in 1..MaxEvents :
                            <<m, n>> \in recorded <=> n <= source[m]
                      /\ row[m] = None <=> source[m] = 0
    BY DEF Prefix
  <2>1. source[m] = 0 /\ row[m] = None /\ recorded = {}
    BY DEF Init
  <2>2. \A n \in 1..MaxEvents : ~(n <= 0)
    BY BoundsAssumption
  <2> QED BY <2>1, <2>2
<1> QED BY <1>1 DEF Init, OrderInv, AnsweredHandled, InTurn

\* When Whop delivers in order, no step applies an earlier event of a membership
\* after a later one, although abandoned deliveries are still handled.
THEOREM NoWayBack == ASSUME InOrder PROVE Spec => NeverGoesBack
<1>1. Init => OrderInv
  BY OrderInit
<1>2. TypeOK /\ SeatInv /\ OrderInv /\ [Next]_vars
        => [\A m \in Memberships : source'[m] >= source[m]]_vars
  <2> SUFFICES ASSUME TypeOK, SeatInv, OrderInv, [Next]_vars,
                      NEW m \in Memberships
               PROVE  source'[m] >= source[m]
    OBVIOUS
  <2>1. source \in [Memberships -> 0..MaxEvents]
    BY DEF TypeOK
  <2>2. CASE source' = source
    BY <2>1, <2>2, BoundsAssumption
  <2>3. ASSUME NEW p \in Replicas, Commit(p), CommitEvent(p)
        PROVE  source'[m] >= source[m]
    <3>1. event[p][2] = source[MembershipOf(p)] + 1
      BY <2>3, NextInTurn DEF Commit
    <3>2. source' = [source EXCEPT ![MembershipOf(p)] = event[p][2]]
      BY <2>3 DEF CommitEvent, Apply
    <3> QED BY <2>1, <3>1, <3>2, BoundsAssumption
  <2> QED
    BY <2>2, <2>3 DEF Next, vars, process_whop_event, Emit, Deliver, FindEvent,
       FindOrganization, InsertOrganization, FindUser, InsertUser,
       FindMembership, Commit, Answer, Crash, dbVars, historyVars
<1>3. QED
  BY <1>1, <1>2, OrderStep, SeatInvariant, PTL DEF Spec, NeverGoesBack

-----------------------------------------------------------------------------
(* What a row holds: the status of the last event applied, and the last    *)
(* product that the events applied so far name.                            *)

LastNamed(m, k, product) ==
  \/ product = None /\ \A n \in 1..k : emitted[m][n].product = None
  \/ /\ product # None
     /\ \E n \in 1..k :
          /\ emitted[m][n].product = product
          /\ \A j \in 1..k : emitted[m][j].product # None => j <= n

Follows(m) ==
  row[m] # None =>
    /\ source[m] \in 1..Len(emitted[m])
    /\ row[m].status = emitted[m][source[m]].status
    /\ LastNamed(m, source[m], row[m].product)

\* What a replica has loaded is still the row, unless its event is recorded by now.
Current(p) ==
  at[p] = "commit" /\ event[p] \notin recorded => loaded[p] = row[MembershipOf(p)]

ContentInv ==
  /\ \A m \in Memberships : Follows(m)
  /\ \A p \in Replicas : Current(p)

\* One event more names its own product, or leaves the one named before it.
LEMMA LastNamedNext ==
  ASSUME NEW m \in Memberships, NEW k \in Nat, NEW product,
         LastNamed(m, k, product)
  PROVE  LastNamed(m, k + 1, IF emitted[m][k + 1].product = None THEN product
                                ELSE emitted[m][k + 1].product)
<1>1. 1..(k + 1) = 1..k \cup {k + 1}
  OBVIOUS
<1>2. CASE emitted[m][k + 1].product = None
  BY <1>1, <1>2 DEF LastNamed
<1>3. CASE emitted[m][k + 1].product # None
  <2>1. \A j \in 1..(k + 1) : j <= k + 1
    OBVIOUS
  <2> QED BY <1>1, <1>3, <2>1 DEF LastNamed
<1> QED BY <1>2, <1>3

\* An event more in Whop's list changes nothing about the earlier ones.
LEMMA FollowsEmit ==
  ASSUME TypeOK, NEW m \in Memberships, NEW payload \in Payloads,
         Emit(m, payload), NEW k \in Memberships, Follows(k)
  PROVE  Follows(k)'
<1>1. /\ emitted \in [Memberships -> Seq(Payloads)]
      /\ emitted' = [emitted EXCEPT ![m] = Append(@, payload)]
      /\ row' = row /\ source' = source
  BY DEF TypeOK, Emit, dbVars, historyVars
<1>2. /\ Len(emitted[k]) \in Nat /\ Len(emitted'[k]) \in Nat
      /\ Len(emitted[k]) <= Len(emitted'[k])
      /\ \A n \in 1..Len(emitted[k]) : emitted'[k][n] = emitted[k][n]
  BY <1>1
<1>3. CASE row[k] # None
  <2>1. /\ source[k] \in 1..Len(emitted'[k]) /\ source[k] \in 1..Len(emitted[k])
        /\ \A n \in 1..source[k] : emitted'[k][n] = emitted[k][n]
    BY <1>2, <1>3 DEF Follows
  <2>2. LastNamed(k, source[k], row[k].product)'
    BY <1>1, <1>3, <2>1 DEF Follows, LastNamed
  <2> QED BY <1>1, <1>3, <2>1, <2>2 DEF Follows
<1> QED BY <1>1, <1>3 DEF Follows

\* Every step keeps ContentInv when Whop delivers in order: between the load and
\* the commit of the event whose turn it is, no other event of its membership is
\* committed, so an assignment that is left out would have written what is there.
LEMMA ContentStep ==
  ASSUME TypeOK, SeatInv, OrderInv, ContentInv, [Next]_vars
  PROVE  ContentInv'
<1>1. ASSUME NEW p \in Replicas, Commit(p), CommitEvent(p) PROVE ContentInv'
  <2>1. at[p] = "commit" /\ at' = [at EXCEPT ![p] = "answer_true"]
    BY <1>1 DEF Commit, Goto, CommitEvent
  <2>2. PICK m \in Memberships, n \in 1..MaxEvents :
          /\ MembershipOf(p) = m /\ event[p][2] = n /\ event[p] = <<m, n>>
          /\ PayloadOf(p) = emitted[m][n] /\ PayloadOf(p) \in Payloads
    BY <2>1, InHand DEF PayloadOf, MembershipOf
  <2>3. ~Blocked(m) /\ n = source[m] + 1
    BY <1>1, <2>1, <2>2, NextInTurn
  <2>4. /\ row' = [row EXCEPT ![m] = NewRow(p)]
        /\ recorded' = recorded \cup {<<m, n>>}
        /\ source' = [source EXCEPT ![m] = n]
        /\ UNCHANGED <<emitted, event, loaded>>
    BY <1>1, <2>2 DEF Commit, CommitEvent, Apply, whopVars
  <2>5. /\ row \in [Memberships -> Payloads \cup {None}]
        /\ source \in [Memberships -> 0..MaxEvents]
        /\ emitted[m] \in Seq(Payloads)
    BY <2>2 DEF TypeOK
  <2>6. n \in 1..Len(emitted[m])
    <3>1. event[p][1] = m /\ n <= Len(emitted[m])
      BY <2>1, <2>2 DEF TypeOK, MembershipOf
    <3> QED BY <2>5, <3>1, BoundsAssumption
  <2>7. loaded[p] = row[m]
    BY <1>1, <2>1, <2>2 DEF ContentInv, Current, CommitEvent
  <2>8. Follows(m)'
    <3>1. CASE row[m] = None
      <4>1. source[m] = 0
        BY <2>2, <3>1 DEF OrderInv, Prefix
      <4>2. n = 1 /\ NewRow(p) = emitted[m][n]
        BY <2>2, <2>3, <2>7, <3>1, <4>1 DEF NewRow
      <4>3. row'[m] = emitted[m][1] /\ source'[m] = 1
        BY <2>2, <2>4, <2>5, <4>2
      <4>4. LastNamed(m, 0, None)
        BY DEF LastNamed
      <4>5. LastNamed(m, 0 + 1, IF emitted[m][0 + 1].product = None THEN None
                                   ELSE emitted[m][0 + 1].product)
        BY <2>2, <4>4, LastNamedNext
      <4>6. LastNamed(m, 1, emitted[m][1].product)
        BY <4>5
      <4> QED BY <2>4, <2>6, <4>2, <4>3, <4>6 DEF Follows, LastNamed
    <3>2. CASE row[m] # None
      <4>1. /\ row[m] \in Payloads /\ source[m] \in Nat
            /\ LastNamed(m, source[m], row[m].product)
        BY <2>2, <2>5, <3>2, BoundsAssumption DEF ContentInv, Follows
      <4>2. /\ NewRow(p).status = emitted[m][n].status
            /\ NewRow(p).product = IF emitted[m][n].product = None
                                   THEN row[m].product ELSE emitted[m][n].product
        BY <2>2, <2>7, <3>2, <4>1 DEF NewRow, Assigned, Payloads
      <4>3. row'[m] = NewRow(p) /\ source'[m] = n
        BY <2>2, <2>4, <2>5
      <4>4. LastNamed(m, n, NewRow(p).product)
        BY <2>2, <2>3, <4>1, <4>2, LastNamedNext
      <4> QED BY <2>4, <2>6, <4>2, <4>3, <4>4 DEF Follows, LastNamed
    <3> QED BY <3>1, <3>2
  <2>9. ASSUME NEW k \in Memberships, k # m PROVE Follows(k)'
    BY <2>2, <2>4, <2>5, <2>9 DEF ContentInv, Follows, LastNamed
  <2>10. ASSUME NEW q \in Replicas PROVE Current(q)'
    <3> SUFFICES ASSUME at'[q] = "commit", event[q] \notin recorded'
                 PROVE  loaded[q] = row'[MembershipOf(q)]
      BY <2>4 DEF Current, MembershipOf
    <3>1. at[q] = "commit" /\ event[q] \notin recorded
      BY <2>1, <2>4 DEF TypeOK
    <3>2. MembershipOf(q) \in Memberships /\ event[q] = <<MembershipOf(q), event[q][2]>>
      BY <3>1, InHand
    <3>3. MembershipOf(q) # m
      <4> SUFFICES ASSUME MembershipOf(q) = m PROVE FALSE
        OBVIOUS
      <4>1. event[q][2] = source[m] + 1
        BY <2>3, <3>1, TurnOfUnrecorded
      <4> QED BY <2>3, <2>4, <3>2, <4>1
    <3> QED BY <2>2, <2>4, <2>5, <3>1, <3>2, <3>3 DEF ContentInv, Current
  <2> QED BY <2>8, <2>9, <2>10 DEF ContentInv
<1>2. ASSUME UNCHANGED <<emitted, row, source>>, \A p \in Replicas : Current(p)'
      PROVE  ContentInv'
  BY <1>2 DEF ContentInv, Follows, LastNamed
<1>3. ASSUME NEW p \in Replicas, Commit(p), UNCHANGED <<dbVars, applied, source>>
      PROVE  ContentInv'
  <2>1. at' = [at EXCEPT ![p] = "answer_false"] \/ at' = [at EXCEPT ![p] = "answer_true"]
    BY <1>3 DEF Commit, Goto
  <2>2. UNCHANGED <<emitted, row, source, recorded, event, loaded>>
    BY <1>3 DEF Commit, dbVars, whopVars
  <2>3. \A q \in Replicas : Current(q)'
    BY <2>1, <2>2 DEF ContentInv, Current, MembershipOf, TypeOK
  <2> QED BY <1>2, <2>2, <2>3
<1>4. ASSUME NEW p \in Replicas, FindMembership(p) PROVE ContentInv'
  <2>1. /\ at' = [at EXCEPT ![p] = "commit"]
        /\ loaded' = [loaded EXCEPT ![p] = row[MembershipOf(p)]]
        /\ UNCHANGED <<emitted, row, source, recorded, event>>
    BY <1>4 DEF FindMembership, Goto, whopVars, dbVars, historyVars
  <2>2. \A q \in Replicas : Current(q)'
    BY <2>1 DEF ContentInv, Current, MembershipOf, TypeOK
  <2> QED BY <1>2, <2>1, <2>2
<1>5. ASSUME NEW p \in Replicas,
             \/ FindEvent(p) \/ FindOrganization(p) \/ InsertOrganization(p)
             \/ FindUser(p) \/ InsertUser(p) \/ Answer(p) \/ Crash(p)
      PROVE  ContentInv'
  <2>1. UNCHANGED <<emitted, row, source, recorded>>
    BY <1>5 DEF FindEvent, FindOrganization, InsertOrganization, FindUser,
       InsertUser, Answer, Crash, whopVars, dbVars, historyVars
  <2>2. ASSUME NEW q \in Replicas PROVE Current(q)'
    <3>1. CASE at'[q] = at[q] /\ event'[q] = event[q] /\ loaded'[q] = loaded[q]
      BY <2>1, <3>1 DEF ContentInv, Current, MembershipOf
    <3>2. CASE at'[q] # "commit"
      BY <3>2 DEF Current
    <3> QED
      BY <1>5, <3>1, <3>2 DEF FindEvent, FindOrganization, InsertOrganization,
         FindUser, InsertUser, Answer, Crash, Goto, ToIdle, TypeOK
  <2> QED BY <1>2, <2>1, <2>2
<1>6. ASSUME NEW p \in Replicas, NEW m \in Memberships, NEW n \in 1..MaxEvents,
             Deliver(p, m, n)
      PROVE  ContentInv'
  <2>1. /\ at' = [at EXCEPT ![p] = "find_event"]
        /\ event' = [event EXCEPT ![p] = <<m, n>>]
        /\ UNCHANGED <<emitted, row, source, recorded, loaded>>
    BY <1>6 DEF Deliver, whopVars, dbVars, historyVars
  <2>2. \A q \in Replicas : Current(q)'
    BY <2>1 DEF ContentInv, Current, MembershipOf, TypeOK
  <2> QED BY <1>2, <2>1, <2>2
<1>7. ASSUME NEW m \in Memberships, NEW payload \in Payloads, Emit(m, payload)
      PROVE  ContentInv'
  <2>1. \A k \in Memberships : Follows(k)'
    BY <1>7, FollowsEmit DEF ContentInv
  <2>2. \A q \in Replicas : Current(q)'
    BY <1>7 DEF Emit, dbVars, replicaVars, ContentInv, Current, MembershipOf
  <2> QED BY <2>1, <2>2 DEF ContentInv
<1>8. CASE UNCHANGED vars
  BY <1>2, <1>8 DEF vars, ContentInv, Current, MembershipOf
<1>9. ASSUME NEW p \in Replicas, Commit(p) PROVE ContentInv'
  BY <1>1, <1>3, <1>9 DEF Commit
<1> QED BY <1>4, <1>5, <1>6, <1>7, <1>8, <1>9 DEF Next, process_whop_event

\* The seats of different memberships differ, and access needs a product.
SeatsDiffer ==
  \A m, n \in Memberships :
    m # n => AccountOf[m] # AccountOf[n] \/ UserOf[m] # UserOf[n]

\* A membership whose events are all answered holds what its last event says.
LEMMA SettledRow ==
  ASSUME TypeOK, OrderInv, ContentInv, SeatsDiffer, RequiredProduct # None,
         NEW m \in Memberships, Settled(m)
  PROVE  row[m] = [status |-> "active", product |-> RequiredProduct] <=> Entitled(m)
<1> DEFINE last == Len(emitted[m])
<1>1. /\ emitted[m] \in Seq(Payloads) /\ last \in Nat
      /\ row[m] \in Payloads \cup {None} /\ source[m] \in Nat
  BY BoundsAssumption DEF TypeOK
<1>2. \A n \in 1..last : n \in 1..MaxEvents /\ n <= source[m]
  <2> SUFFICES ASSUME NEW n \in 1..last PROVE n \in 1..MaxEvents /\ n <= source[m]
    OBVIOUS
  <2>1. <<m, n>> \in answered
    BY DEF Settled
  <2>2. n \in 1..MaxEvents
    BY <2>1 DEF TypeOK, Events
  <2>3. ~Blocked(m)
    BY DEF Blocked, SeatsDiffer
  <2> QED BY <2>1, <2>2, <2>3 DEF OrderInv, AnsweredHandled, Handled, Prefix
<1>3. CASE emitted[m] = <<>>
  <2>1. row[m] = None
    BY <1>3 DEF ContentInv, Follows
  <2> QED BY <1>3, <2>1, NoneAssumption DEF Entitled
<1>4. CASE emitted[m] # <<>>
  <2>1. last \in 1..last
    BY <1>1, <1>4
  <2>2. row[m] # None
    BY <1>1, <1>2, <2>1 DEF OrderInv, Prefix
  <2>3. /\ source[m] = last
        /\ row[m].status = emitted[m][last].status
        /\ LastNamed(m, last, row[m].product)
    BY <1>1, <1>2, <2>1, <2>2 DEF ContentInv, Follows
  <2>4. row[m] = [status |-> "active", product |-> RequiredProduct]
          <=> row[m].status = "active" /\ row[m].product = RequiredProduct
    BY <1>1, <2>2 DEF Payloads
  <2>5. row[m].product = RequiredProduct <=> LastNamed(m, last, RequiredProduct)
    <3> SUFFICES ASSUME LastNamed(m, last, RequiredProduct)
                 PROVE  row[m].product = RequiredProduct
      BY <2>3
    <3>1. PICK n \in 1..last :
            /\ emitted[m][n].product = RequiredProduct
            /\ \A j \in 1..last : emitted[m][j].product # None => j <= n
      BY DEF LastNamed
    <3>2. row[m].product # None
      BY <2>3, <3>1 DEF LastNamed
    <3>3. PICK i \in 1..last :
            /\ emitted[m][i].product = row[m].product
            /\ \A j \in 1..last : emitted[m][j].product # None => j <= i
      BY <2>3, <3>2 DEF LastNamed
    <3>4. n = i
      BY <3>1, <3>2, <3>3
    <3> QED BY <3>1, <3>3, <3>4
  <2>6. LastNamed(m, last, RequiredProduct) <=>
          \E n \in {k \in 1..last : emitted[m][k].product # None} :
            /\ emitted[m][n].product = RequiredProduct
            /\ \A k \in {j \in 1..last : emitted[m][j].product # None} : k <= n
    BY DEF LastNamed
  <2> QED BY <1>4, <2>3, <2>4, <2>5, <2>6 DEF Entitled
<1> QED BY <1>3, <1>4

\* When Whop delivers in order and no two memberships compete for a seat, a user
\* acts for exactly the organizations whose memberships Whop has active for the
\* required product, once their events are answered.
THEOREM AccessFollows ==
  ASSUME InOrder, SeatsDiffer, RequiredProduct # None
  PROVE  Spec => []AccessFollowsWhop
<1>1. Init => ContentInv
  BY DEF Init, ContentInv, Follows, Current
<1>2. TypeOK /\ SeatInv /\ OrderInv /\ ContentInv /\ [Next]_vars => ContentInv'
  BY ContentStep
<1>3. TypeOK /\ OrderInv /\ ContentInv => AccessFollowsWhop
  BY SettledRow DEF AccessFollowsWhop, Contexts
<1> QED
  BY <1>1, <1>2, <1>3, OrderInit, OrderStep, SeatInvariant, PTL DEF Spec
-----------------------------------------------------------------------------
(* The events that are answered as not processed.                          *)

SkipInv ==
  /\ skipped \subseteq recorded
  /\ \A p \in Replicas : at[p] = "answer_false" => event[p] \in recorded

\* Where no two memberships compete for a seat, a commit that is refused is one
\* of an event that was recorded meanwhile.
LEMMA RefusedIsRecorded ==
  ASSUME SeatsDiffer, TypeOK, ContentInv, NEW p \in Replicas,
         at[p] = "commit", Conflict(p)
  PROVE  event[p] \in recorded
<1> SUFFICES ASSUME event[p] \notin recorded PROVE FALSE
  OBVIOUS
<1>1. MembershipOf(p) \in Memberships
  BY InHand
<1>2. loaded[p] = None /\ loaded[p] = row[MembershipOf(p)]
  BY DEF Conflict, ContentInv, Current
<1>3. PICK m \in Memberships :
        /\ row[m] # None
        /\ AccountOf[m] = AccountOf[MembershipOf(p)]
        /\ UserOf[m] = UserOf[MembershipOf(p)]
  BY DEF Conflict, Account, User
<1> QED BY <1>1, <1>2, <1>3 DEF SeatsDiffer

LEMMA SkipStep ==
  ASSUME SeatsDiffer, TypeOK, ContentInv, SkipInv, [Next]_vars
  PROVE  SkipInv'
<1> USE DEF SkipInv, TypeOK, whopVars, dbVars, replicaVars, historyVars, Goto, ToIdle
<1>1. ASSUME NEW p \in Replicas, process_whop_event(p) PROVE SkipInv'
  <2>1. CASE FindEvent(p) BY <2>1 DEF FindEvent
  <2>2. CASE FindOrganization(p) BY <2>2 DEF FindOrganization
  <2>3. CASE InsertOrganization(p) BY <2>3 DEF InsertOrganization
  <2>4. CASE FindUser(p) BY <2>4 DEF FindUser
  <2>5. CASE InsertUser(p) BY <2>5 DEF InsertUser
  <2>6. CASE FindMembership(p) BY <2>6 DEF FindMembership
  <2>7. CASE Commit(p)
    <3>1. CASE CommitEvent(p) /\ Goto(p, "answer_true")
      BY <2>7, <3>1 DEF Commit, CommitEvent, Apply
    <3>2. CASE ~(CommitEvent(p) /\ Goto(p, "answer_true"))
      <4>1. event[p] \in recorded
        BY <2>7, <3>2, RefusedIsRecorded DEF Commit
      <4> QED BY <2>7, <3>2, <4>1 DEF Commit
    <3> QED BY <3>1, <3>2
  <2>8. CASE Answer(p) BY <2>8 DEF Answer
  <2> QED BY <1>1, <2>1, <2>2, <2>3, <2>4, <2>5, <2>6, <2>7, <2>8
          DEF process_whop_event
<1>2. ASSUME NEW p \in Replicas, Crash(p) PROVE SkipInv'
  BY <1>2 DEF Crash
<1>3. ASSUME NEW p \in Replicas, NEW m \in Memberships, NEW n \in 1..MaxEvents,
             Deliver(p, m, n)
      PROVE  SkipInv'
  BY <1>3 DEF Deliver
<1>4. ASSUME NEW m \in Memberships, NEW payload \in Payloads, Emit(m, payload)
      PROVE  SkipInv'
  BY <1>4 DEF Emit
<1>5. CASE UNCHANGED vars
  BY <1>5 DEF vars
<1> QED BY <1>1, <1>2, <1>3, <1>4, <1>5 DEF Next

\* Then False is returned for duplicates only, as process_whop_event's docstring
\* says: what whop_resubscribe finds takes a second membership of one seat.
THEOREM SkipsAreDuplicates ==
  ASSUME InOrder, SeatsDiffer PROVE Spec => []FalseForDuplicates
<1>1. Init => ContentInv /\ SkipInv
  BY DEF Init, ContentInv, Follows, Current, SkipInv
<1>2. TypeOK /\ SeatInv /\ OrderInv /\ ContentInv /\ [Next]_vars => ContentInv'
  BY ContentStep
<1>3. TypeOK /\ ContentInv /\ SkipInv /\ [Next]_vars => SkipInv'
  BY SkipStep
<1>4. SkipInv => FalseForDuplicates
  BY DEF SkipInv, FalseForDuplicates
<1> QED
  BY <1>1, <1>2, <1>3, <1>4, OrderInit, OrderStep, SeatInvariant, PTL DEF Spec
-----------------------------------------------------------------------------
(* What EventsAnswered rests on: the transactions of the replicas do not   *)
(* wait for each other in a circle.                                        *)

\* The insert of replica p waits for the transaction of replica q.
WaitsFor(p, q) ==
  /\ p # q
  /\ \/ at[p] = "insert_org" /\ "organization" \in inserted[q] /\ Account(q) = Account(p)
     \/ at[p] = "insert_user" /\ "user" \in inserted[q] /\ User(q) = User(p)

\* How many of its two possible inserts a replica has behind it.
InsertsBehind(p) ==
  IF at[p] \in {"find_membership", "commit"} THEN 2
  ELSE IF at[p] \in {"find_user", "insert_user"} THEN 1 ELSE 0

\* The organization is inserted before the user is looked for, and both before
\* the membership is.
InsertedInOrder ==
  \A p \in Replicas :
    /\ "organization" \in inserted[p]
         => at[p] \in {"find_user", "insert_user", "find_membership", "commit"}
    /\ "user" \in inserted[p] => at[p] \in {"find_membership", "commit"}

\* A replica waits only for one that is further.
WaitsForward ==
  \A p, q \in Replicas : WaitsFor(p, q) => InsertsBehind(p) < InsertsBehind(q)

\* Every step keeps InsertedInOrder.
LEMMA InsertedStep == TypeOK /\ InsertedInOrder /\ [Next]_vars => InsertedInOrder'
<1> SUFFICES ASSUME TypeOK, InsertedInOrder, [Next]_vars PROVE InsertedInOrder'
  OBVIOUS
<1> USE DEF TypeOK, InsertedInOrder, Points, whopVars, replicaVars,
            Goto, ToIdle
<1>1. ASSUME NEW m \in Memberships, NEW payload \in Payloads, Emit(m, payload)
      PROVE  InsertedInOrder'
  BY <1>1 DEF Emit
<1>2. ASSUME NEW p \in Replicas, NEW m \in Memberships, NEW n \in 1..MaxEvents,
             Deliver(p, m, n)
      PROVE  InsertedInOrder'
  BY <1>2 DEF Deliver
<1>3. ASSUME NEW p \in Replicas, process_whop_event(p) PROVE InsertedInOrder'
  <2>1. CASE FindEvent(p) BY <2>1 DEF FindEvent
  <2>2. CASE FindOrganization(p) BY <2>2 DEF FindOrganization
  <2>3. CASE InsertOrganization(p)
    <3>1. CASE ToIdle(p)
      BY <3>1
    <3>2. CASE /\ inserted' = [inserted EXCEPT ![p] = @ \cup {"organization"}]
               /\ Goto(p, "find_user")
      <4>1. at[p] = "insert_org"
        BY <2>3 DEF InsertOrganization
      <4>2. "user" \notin inserted'[p]
        BY <3>2, <4>1
      <4>3. \A q \in Replicas : q # p => at'[q] = at[q] /\ inserted'[q] = inserted[q]
        BY <3>2
      <4> QED BY <3>2, <4>2, <4>3
    <3> QED BY <2>3, <3>1, <3>2 DEF InsertOrganization
  <2>4. CASE FindUser(p) BY <2>4 DEF FindUser
  <2>5. CASE InsertUser(p) BY <2>5 DEF InsertUser
  <2>6. CASE FindMembership(p) BY <2>6 DEF FindMembership
  <2>7. CASE Commit(p) BY <2>7 DEF Commit
  <2>8. CASE Answer(p) BY <2>8 DEF Answer
  <2> QED BY <1>3, <2>1, <2>2, <2>3, <2>4, <2>5, <2>6, <2>7, <2>8
          DEF process_whop_event
<1>4. ASSUME NEW p \in Replicas, Crash(p) PROVE InsertedInOrder'
  BY <1>4 DEF Crash
<1>5. CASE UNCHANGED vars BY <1>5 DEF vars
<1> QED BY <1>1, <1>2, <1>3, <1>4, <1>5 DEF Next

\* Replicas whose inserts wait for each other's transactions never wait in a
\* circle: each waits for one that is further in process_whop_event, and one that
\* has both inserts behind it does not wait.
THEOREM NoCircularWait == Spec => []WaitsForward
<1>1. Init => InsertedInOrder
  BY DEF Init, InsertedInOrder
<1>2. TypeOK /\ InsertedInOrder => WaitsForward
  BY DEF TypeOK, InsertedInOrder, WaitsForward, WaitsFor, InsertsBehind, Points
<1> QED BY <1>1, <1>2, TypeCorrect, InsertedStep, PTL DEF Spec
=============================================================================
