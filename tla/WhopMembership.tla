--------------------------- MODULE WhopMembership --------------------------
(***************************************************************************)
(* Membership synchronization: whop_webhook and process_whop_event apply   *)
(* Whop's membership events (app/api/whop.py), and                         *)
(* require_organization_context reads the memberships they leave behind    *)
(* (app/core/auth.py).                                                     *)
(*                                                                         *)
(* Whop is the environment: it delivers an event until it is answered,     *)
(* also while an earlier delivery of it is still being handled.  A replica *)
(* of the API handles one event at a time, in one READ COMMITTED           *)
(* transaction; replicas overlap while a deployment replaces one.          *)
(***************************************************************************)
EXTENDS Naturals, Sequences

CONSTANTS
  Memberships,     \* Whop's memberships
  AccountOf,       \* the account (company) of each
  UserOf,          \* the user of each
  EventTypes,      \* the supported types of events that Whop emits
  Products,        \* the products payloads name, None for one that names none
  RequiredProduct, \* settings.whop_required_product_id
  Replicas,        \* processes of the API
  InOrder,         \* Whop delivers an event once the earlier ones are answered
  MaxEvents,       \* bound on the events of one membership
  MaxFaults,       \* bound on crashes and lost answers
  None             \* no row, no event

ASSUME BoundsAssumption == MaxEvents \in Nat /\ MaxFaults \in Nat
ASSUME OrderAssumption == InOrder \in BOOLEAN

EVENT_STATUS ==
  [type \in {"membership.activated", "membership.deactivated",
             "membership.went_valid", "membership.went_invalid"} |->
    CASE type \in {"membership.activated", "membership.went_valid"} -> "active"
      [] type = "membership.deactivated" -> "cancelled"
      [] type = "membership.went_invalid" -> "expired"]

ASSUME TypesAssumption == EventTypes \subseteq DOMAIN EVENT_STATUS

\* What process_whop_event takes from an event.
Payloads == [status : {EVENT_STATUS[type] : type \in EventTypes},
             product : Products]
Accounts == {AccountOf[m] : m \in Memberships}
Users == {UserOf[m] : m \in Memberships}
Events == Memberships \X (1..MaxEvents)

ASSUME NoneAssumption ==
  /\ None \notin Payloads /\ None \notin Events
  /\ None # [status |-> "active", product |-> RequiredProduct]

VARIABLES
  emitted,        \* Whop: the events of each membership, in order
  answered,       \* Whop: the events whose delivery was answered with success
  organizations,  \* organizations, by whop_company_id
  users,          \* users, by whop_user_id
  row,            \* memberships: status and product of each, or None
  recorded,       \* webhook_events, by event_id
  at,             \* where each replica is in process_whop_event
  event,          \* the event it handles
  loaded,         \* the membership it found
  inserted,       \* the parent rows its transaction has inserted
  faults,         \* history: crashes and lost answers
  applied,        \* history: how often each event was committed
  source,         \* history: the event each membership's status comes from
  skipped         \* history: the events answered as not processed

whopVars == <<emitted, answered>>
dbVars == <<organizations, users, row, recorded>>
replicaVars == <<at, event, loaded, inserted>>
historyVars == <<applied, source, skipped>>
vars == <<emitted, answered, organizations, users, row, recorded, at, event,
          loaded, inserted, faults, applied, source, skipped>>

Points == {"idle", "find_event", "find_org", "insert_org", "find_user",
           "insert_user", "find_membership", "commit", "answer_true",
           "answer_false"}

Init ==
  /\ emitted = [m \in Memberships |-> <<>>]
  /\ answered = {}
  /\ organizations = {}
  /\ users = {}
  /\ row = [m \in Memberships |-> None]
  /\ recorded = {}
  /\ at = [p \in Replicas |-> "idle"]
  /\ event = [p \in Replicas |-> None]
  /\ loaded = [p \in Replicas |-> None]
  /\ inserted = [p \in Replicas |-> {}]
  /\ faults = 0
  /\ applied = [e \in Events |-> 0]
  /\ source = [m \in Memberships |-> 0]
  /\ skipped = {}

-----------------------------------------------------------------------------
(* Whop                                                                    *)

Emit(m, payload) ==
  /\ Len(emitted[m]) < MaxEvents
  /\ emitted' = [emitted EXCEPT ![m] = Append(@, payload)]
  /\ UNCHANGED <<answered, dbVars, replicaVars, faults, historyVars>>

Pending(m, n) == n \in 1..Len(emitted[m]) /\ <<m, n>> \notin answered

\* The request reaches process_whop_event: signed, of a supported type, with
\* its identifiers.  Any other request changes nothing.
Deliver(p, m, n) ==
  /\ at[p] = "idle"
  /\ Pending(m, n)
  /\ InOrder => \A k \in 1..(n - 1) : <<m, k>> \in answered
  /\ at' = [at EXCEPT ![p] = "find_event"]
  /\ event' = [event EXCEPT ![p] = <<m, n>>]
  /\ UNCHANGED <<whopVars, dbVars, loaded, inserted, faults, historyVars>>

-----------------------------------------------------------------------------
(* process_whop_event                                                      *)

MembershipOf(p) == event[p][1]
PayloadOf(p) == emitted[event[p][1]][event[p][2]]
Account(p) == AccountOf[MembershipOf(p)]
User(p) == UserOf[MembershipOf(p)]

Goto(p, point) == at' = [at EXCEPT ![p] = point]

\* Mutant: an error leaves the session open.
ToIdleOpen(p) ==
  /\ Goto(p, "idle")
  /\ event' = [event EXCEPT ![p] = None]
  /\ loaded' = [loaded EXCEPT ![p] = None]
  /\ UNCHANGED inserted

\* The transaction ends; what it inserted before its commit is gone.
ToIdle(p) ==
  /\ Goto(p, "idle")
  /\ event' = [event EXCEPT ![p] = None]
  /\ loaded' = [loaded EXCEPT ![p] = None]
  /\ inserted' = [inserted EXCEPT ![p] = {}]

\* Mutant: a redelivered event raises.
FindEventRaises(p) ==
  /\ at[p] = "find_event"
  /\ \/ event[p] \in recorded /\ ToIdle(p)
     \/ /\ event[p] \notin recorded
        /\ Goto(p, "find_org")
        /\ UNCHANGED <<event, loaded, inserted>>
  /\ UNCHANGED <<whopVars, dbVars, faults, historyVars>>

FindEvent(p) ==
  /\ at[p] = "find_event"
  /\ \/ event[p] \in recorded /\ Goto(p, "answer_false")
     \/ event[p] \notin recorded /\ Goto(p, "find_org")
  /\ UNCHANGED <<whopVars, dbVars, event, loaded, inserted, faults, historyVars>>

FindOrganization(p) ==
  /\ at[p] = "find_org"
  /\ \/ Account(p) \in organizations /\ Goto(p, "find_user")
     \/ Account(p) \notin organizations /\ Goto(p, "insert_org")
  /\ UNCHANGED <<whopVars, dbVars, event, loaded, inserted, faults, historyVars>>

\* flush: the INSERT waits for a transaction that has inserted the same key,
\* and raises if the key is committed by then; whop_webhook answers an error.
InsertOrganization(p) ==
  /\ at[p] = "insert_org"
  /\ \A q \in Replicas \ {p} :
       "organization" \in inserted[q] => Account(q) # Account(p)
  /\ \/ Account(p) \in organizations /\ ToIdle(p)
     \/ /\ Account(p) \notin organizations
        /\ inserted' = [inserted EXCEPT ![p] = @ \cup {"organization"}]
        /\ Goto(p, "find_user")
        /\ UNCHANGED <<event, loaded>>
  /\ UNCHANGED <<whopVars, dbVars, faults, historyVars>>

FindUser(p) ==
  /\ at[p] = "find_user"
  /\ \/ User(p) \in users /\ Goto(p, "find_membership")
     \/ User(p) \notin users /\ Goto(p, "insert_user")
  /\ UNCHANGED <<whopVars, dbVars, event, loaded, inserted, faults, historyVars>>

InsertUser(p) ==
  /\ at[p] = "insert_user"
  /\ \A q \in Replicas \ {p} : "user" \in inserted[q] => User(q) # User(p)
  /\ \/ User(p) \in users /\ ToIdle(p)
     \/ /\ User(p) \notin users
        /\ inserted' = [inserted EXCEPT ![p] = @ \cup {"user"}]
        /\ Goto(p, "find_membership")
        /\ UNCHANGED <<event, loaded>>
  /\ UNCHANGED <<whopVars, dbVars, faults, historyVars>>

FindMembership(p) ==
  /\ at[p] = "find_membership"
  /\ loaded' = [loaded EXCEPT ![p] = row[MembershipOf(p)]]
  /\ Goto(p, "commit")
  /\ UNCHANGED <<whopVars, dbVars, event, inserted, faults, historyVars>>

\* An assignment of the value that was loaded is no UPDATE of the column.
Assigned(stored, old, new) == IF new = old THEN stored ELSE new

\* Mutant: an existing membership keeps its product.
RowKeepsProduct(p) ==
  IF loaded[p] = None THEN PayloadOf(p)
  ELSE [row[MembershipOf(p)] EXCEPT !.status =
          Assigned(@, loaded[p].status, PayloadOf(p).status)]

NewRow(p) ==
  LET new == PayloadOf(p) IN
  IF loaded[p] = None THEN new
  ELSE [row[MembershipOf(p)] EXCEPT
          !.status = Assigned(@, loaded[p].status, new.status),
          !.product = IF new.product = None THEN @
                      ELSE Assigned(@, loaded[p].product, new.product)]

\* A membership is inserted although one of its organization and user is there.
Conflict(p) ==
  /\ loaded[p] = None
  /\ \E m \in Memberships :
       row[m] # None /\ AccountOf[m] = Account(p) /\ UserOf[m] = User(p)

Apply(p) ==
  /\ organizations' = organizations \cup {Account(p)}
  /\ users' = users \cup {User(p)}
  /\ row' = [row EXCEPT ![MembershipOf(p)] = NewRow(p)]
  /\ recorded' = recorded \cup {event[p]}
  /\ applied' = [applied EXCEPT ![event[p]] = @ + 1]
  /\ source' = [source EXCEPT ![MembershipOf(p)] = event[p][2]]

\* Mutant: event_id is not unique.
CommitUnchecked(p) == ~Conflict(p) /\ Apply(p)

\* The membership and the event's record, or nothing.
CommitEvent(p) == event[p] \notin recorded /\ ~Conflict(p) /\ Apply(p)

\* The commit, whose IntegrityError is taken for a duplicate.
Commit(p) ==
  /\ at[p] = "commit"
  /\ \/ CommitEvent(p) /\ Goto(p, "answer_true")
     \/ /\ event[p] \in recorded \/ Conflict(p)
        /\ Goto(p, "answer_false")
        /\ UNCHANGED <<dbVars, applied, source>>
  /\ inserted' = [inserted EXCEPT ![p] = {}]
  /\ UNCHANGED <<whopVars, event, loaded, faults, skipped>>

Answer(p) ==
  /\ at[p] \in {"answer_true", "answer_false"}
  /\ answered' = answered \cup {event[p]}
  /\ skipped' = IF at[p] = "answer_false" THEN skipped \cup {event[p]} ELSE skipped
  /\ ToIdle(p)
  /\ UNCHANGED <<emitted, dbVars, faults, applied, source>>

\* The replica dies, the database fails, or the answer is lost.
Crash(p) ==
  /\ at[p] # "idle"
  /\ faults < MaxFaults
  /\ faults' = faults + 1
  /\ ToIdle(p)
  /\ UNCHANGED <<whopVars, dbVars, historyVars>>

-----------------------------------------------------------------------------
process_whop_event(p) ==
  \/ FindEvent(p) \/ FindOrganization(p) \/ InsertOrganization(p)
  \/ FindUser(p) \/ InsertUser(p) \/ FindMembership(p) \/ Commit(p) \/ Answer(p)

Next ==
  \/ \E m \in Memberships, payload \in Payloads : Emit(m, payload)
  \/ \E p \in Replicas :
       \/ \E m \in Memberships, n \in 1..MaxEvents : Deliver(p, m, n)
       \/ process_whop_event(p)
       \/ Crash(p)

Spec == Init /\ [][Next]_vars

\* A handler runs; Whop delivers an unanswered event again and again, and a
\* replica that becomes idle again and again takes it at last.
FairSpec ==
  /\ Spec
  /\ \A p \in Replicas : WF_vars(process_whop_event(p))
  /\ \A m \in Memberships, n \in 1..MaxEvents :
       SF_vars(\E p \in Replicas : Deliver(p, m, n))

-----------------------------------------------------------------------------
(* require_organization_context                                            *)

\* Users.check_access answers from Whop's own memberships, as its events say.
Entitled(m) ==
  LET named == {n \in 1..Len(emitted[m]) : emitted[m][n].product # None} IN
  /\ emitted[m] # <<>>
  /\ emitted[m][Len(emitted[m])].status = "active"
  /\ \E n \in named :
       /\ emitted[m][n].product = RequiredProduct
       /\ \A k \in named : k <= n

\* The organizations it may answer with: the memberships are read in no order.
Contexts(u) ==
  {AccountOf[m] : m \in {n \in Memberships :
     UserOf[n] = u /\ row[n] = [status |-> "active", product |-> RequiredProduct]}}

-----------------------------------------------------------------------------
TypeOK ==
  /\ emitted \in [Memberships -> Seq(Payloads)]
  /\ answered \subseteq Events
  /\ organizations \subseteq Accounts
  /\ users \subseteq Users
  /\ row \in [Memberships -> Payloads \cup {None}]
  /\ recorded \subseteq Events
  /\ at \in [Replicas -> Points]
  /\ event \in [Replicas -> Events \cup {None}]
  /\ loaded \in [Replicas -> Payloads \cup {None}]
  /\ inserted \in [Replicas -> SUBSET {"organization", "user"}]
  /\ faults \in Nat
  /\ applied \in [Events -> Nat]
  /\ source \in [Memberships -> 0..MaxEvents]
  /\ skipped \subseteq Events
  /\ \A p \in Replicas :
       IF at[p] = "idle"
       THEN event[p] = None /\ loaded[p] = None /\ inserted[p] = {}
       ELSE event[p] \in Events /\ event[p][2] <= Len(emitted[event[p][1]])

\* However often and in whatever order an event is delivered, it is applied once
\* (process_whop_event against redeliveries that overlap it).
AppliedOnce == \A e \in Events : applied[e] <= 1

\* An organization and a user have one membership, also when the first events of
\* two memberships are handled at once.
OneSeat ==
  \A m, n \in Memberships :
    /\ m # n /\ row[m] # None /\ row[n] # None
    => AccountOf[m] # AccountOf[n] \/ UserOf[m] # UserOf[n]

\* When Whop delivers in order, a membership never goes back to an earlier event,
\* although deliveries Whop has given up waiting for are still handled.
NeverGoesBack == [][\A m \in Memberships : source'[m] >= source[m]]_vars

Settled(m) ==
  /\ \A n \in 1..Len(emitted[m]) : <<m, n>> \in answered
  /\ \A p \in Replicas : at[p] # "idle" => MembershipOf(p) # m

\* Once Whop's events are answered, the organizations a user may act for are
\* those of the memberships Whop has active for the required product
\* (process_whop_event and require_organization_context).
AccessFollowsWhop ==
  \A u \in Users :
    LET own == {m \in Memberships : UserOf[m] = u} IN
    (\A m \in own : Settled(m))
      => Contexts(u) = {AccountOf[m] : m \in {n \in own : Entitled(n)}}

\* Every event is answered, whatever the crashes and the waiting for each other's
\* inserts.
EventsAnswered ==
  \A m \in Memberships, n \in 1..MaxEvents : []<>~Pending(m, n)

\* app/api/whop.py:53: False is returned for duplicates (and unknown types).
FalseForDuplicates == skipped \subseteq recorded
=============================================================================
