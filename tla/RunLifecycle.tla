---------------------------- MODULE RunLifecycle ---------------------------
(***************************************************************************)
(* What the command centre promises about one run, with no queue and no    *)
(* worker in it: a run is queued, started, and settled once; a started run *)
(* may be put back; the only step that stores a result is the one that     *)
(* completes the run, and nothing leaves a settled status.                 *)
(***************************************************************************)
EXTENDS Naturals

CONSTANT Runs

VARIABLES
  status,   \* the status a reader of the run sees
  results   \* how many results were stored for it

lifecycleVars == <<status, results>>

Settled == {"completed", "failed", "cancelled"}

LifecycleInit ==
  /\ status = [r \in Runs |-> "absent"]
  /\ results = [r \in Runs |-> 0]

Move(r, from, to) ==
  /\ status[r] \in from
  /\ status' = [status EXCEPT ![r] = to]

Submit(r) == Move(r, {"absent"}, "queued") /\ UNCHANGED results

Begin(r) == Move(r, {"queued"}, "running") /\ UNCHANGED results

Complete(r) ==
  /\ results[r] = 0
  /\ Move(r, {"running"}, "completed")
  /\ results' = [results EXCEPT ![r] = 1]

Fail(r) == Move(r, {"queued", "running"}, "failed") /\ UNCHANGED results

Withdraw(r) == Move(r, {"queued"}, "cancelled") /\ UNCHANGED results

\* A recovery returns several runs in one transaction.
PutBack(rs) ==
  /\ \A r \in rs : status[r] = "running"
  /\ status' = [r \in Runs |-> IF r \in rs THEN "queued" ELSE status[r]]
  /\ UNCHANGED results

LifecycleNext ==
  \/ \E r \in Runs :
       Submit(r) \/ Begin(r) \/ Complete(r) \/ Fail(r) \/ Withdraw(r)
  \/ \E rs \in SUBSET Runs : PutBack(rs)

LifecycleSpec == LifecycleInit /\ [][LifecycleNext]_lifecycleVars
=============================================================================
