----------------------- MODULE CommandRunsProperties -----------------------
(***************************************************************************)
(* What must be true of the command runs.  None of these holds under every *)
(* fault CommandRuns can model: each states which deployments it is        *)
(* checked in, and the README lists what breaks it in the others.          *)
(***************************************************************************)
EXTENDS CommandRuns

\* One worker process is deployed.
SingleWorker == \A v, w \in Workers : v = w

\* Any number of workers, none of which dies or loses a connection while the run
\* it executes has its entry in Redis, sees process_run raise, or works for longer
\* than a claim stays fresh.
CalmFleet ==
  CrashPoints \subseteq {"ack_zrem", "ack_hdel"} /\ RaisePoints = {} /\ ~ClaimsOverrun

-----------------------------------------------------------------------------
(* Custody                                                                 *)

\* The run's entry is in the processing list on behalf of this worker.
ClaimedPoints ==
  {"claim_zadd", "start", "decide", "persist_read", "persist_commit",
   "fail_read", "fail_commit", "retry_hincrby", "requeue_lrem",
   "exhaust_lrem", "ack_lrem"}

\* This worker took the entry out and is about to push it back.
ReturningPoints ==
  {"recover_zrem_hit", "recover_lpush", "requeue_zrem", "requeue_lpush"}

Handling(w, r) == job[w] = r /\ pc[w] \in ClaimedPoints \cup ReturningPoints

NoCopy(r) ==
  /\ queued[r] = 0
  /\ processing[r] = 0
  /\ \A w \in Workers : ~Handling(w, r)

OneCopy(r) == queued[r] + processing[r] <= 1

\* Where the worker's pc says the entry is, it is.
HolderAgrees(r) ==
  \A w \in Workers :
    job[w] = r =>
      /\ pc[w] \in ClaimedPoints => processing[r] = 1
      /\ pc[w] \in ReturningPoints => queued[r] = 0 /\ processing[r] = 0

OneHolder(r) ==
  \A v, w \in Workers : Handling(v, r) /\ Handling(w, r) => v = w

Unpushed(r) == creating[r] \in {"none", "enq_lrem", "enq_lpush"}

\* There is at most one copy of a run's job: in the queue, in the processing
\* list, or in the hands of the one worker that moves it from one to the other,
\* and none before create_command_run has pushed it (enqueue_run, claim_run,
\* retry_run, recover_stale_jobs and cancel_queued_run together).
SingleCustody ==
  \A r \in Runs :
    /\ OneCopy(r)
    /\ HolderAgrees(r)
    /\ OneHolder(r)
    /\ Unpushed(r) => NoCopy(r)

-----------------------------------------------------------------------------
(* Safety                                                                  *)

\* However often a job is delivered, crashes and is recovered, at most one
\* CommandResult is committed for a run: decisions and campaign drafts are
\* never duplicated (process_run and _persist_result).
AtMostOneResult == \A r \in Runs : decisions[r] <= 1

\* Once the user has been told that a run is cancelled no copy of its job is
\* left that a worker could claim, return to the queue or be executing: the
\* LREM of cancel_queued_run decides the race with claim_run.
Withdrawn(r) == status[r] = "cancelled" \/ cancelling[r] = "cancel_commit"

CancelledHasNoJob == \A r \in Runs : Withdrawn(r) => NoCopy(r)

\* A cancelled run has stored no decisions, and a completed one has.
OutcomeMatchesDecisions ==
  \A r \in Runs :
    /\ status[r] = "cancelled" => decisions[r] = 0
    /\ status[r] = "completed" <=> decisions[r] = 1

\* The worker that will finish, requeue, fail or reset run r.
Carries(w, r) ==
  \/ job[w] = r /\ pc[w] \in ClaimedPoints \cup ReturningPoints
                     \cup {"exhaust_zrem", "exhaust_hdel", "mark_read",
                           "mark_commit"}
  \/ pc[w] = "reset" /\ r \in todo[w] \cup done[w]
  \/ pc[w] \in {"recover_lrem", "recover_zrem_hit", "recover_zrem_miss",
                    "recover_lpush"}
       /\ r \in done[w]

\* An abandoned claim that recover_stale_jobs will find.
Recoverable(r) == processing[r] > 0 /\ claimed_at[r] # "none"

\* The database never shows an open run that nobody is going to move: a queued
\* run has its job or a request that settles it, a running one a worker or a
\* claim that recovery finds and resets.
NoStrandedRun ==
  \A r \in Runs :
    /\ status[r] = "queued" =>
         \/ queued[r] > 0 \/ Recoverable(r)
         \/ creating[r] \notin {"none", "answered"}
         \/ cancelling[r] = "cancel_commit"
         \/ \E w \in Workers : Carries(w, r)
    /\ status[r] = "running" =>
         Recoverable(r) \/ \E w \in Workers : Carries(w, r)

\* README.md:291: "The bounded retry counter prevents an infinite failure loop."
\* The list it ends is about a worker that crashes.
RetriesBoundStarts == \A r \in Runs : starts[r] <= 1 + MaxRetries

\* What the counter of retry_run does bound: as long as no process has died, no
\* Redis command has failed and no claim was overrun, a run is started once and
\* once more per retry of its budget, wherever process_run raises.
ExceptionsAreBounded == faults = 0 => RetriesBoundStarts

\* Every start beyond these has a fault of its own.  recover_stale_jobs counts
\* nothing, so that nothing bounds the starts of a run that crashes its worker.
StartsAreAccountedFor ==
  \A r \in Runs : starts[r] <= 1 + MaxRetries + faults

-----------------------------------------------------------------------------
(* The inductive invariant behind SingleCustody, CancelledHasNoJob and     *)
(* AtMostOneResult                                                         *)

\* The deployments in which a job has one custodian.
Exclusive == SingleWorker \/ CalmFleet

\* Where the workers of a calm fleet are with a fresh claim behind them, and
\* where else they are.
CalmClaimPoints ==
  {"start", "decide", "persist_read", "persist_commit", "fail_read",
   "fail_commit", "ack_lrem"}

CalmPoints ==
  CalmClaimPoints \cup
  {"idle", "claim_zadd", "ack_zrem", "ack_hdel", "recover_lrem",
   "recover_zrem_miss", "reset"}

\* The run's last entry was taken out for good.
Gone(r) == NoCopy(r) /\ ~Unpushed(r)

\* In a calm fleet a claim without a worker is one whose entry is gone, so what
\* recovery finds is never returned or reset.
CalmWorker(w) ==
  /\ pc[w] \in CalmPoints
  /\ done[w] = {}
  /\ pc[w] = "reset" => todo[w] = {}

CalmClaim(r) ==
  /\ claimed_at[r] = "fresh" =>
       Gone(r) \/ \E w \in Workers : job[w] = r /\ pc[w] \in CalmClaimPoints
  /\ claimed_at[r] = "stale" => Gone(r)
  /\ \A w \in Workers :
       \/ r \in todo[w]
       \/ job[w] = r /\ pc[w] \in {"recover_zrem_miss", "ack_zrem", "ack_hdel"}
       => Gone(r)

CalmInv ==
  CalmFleet =>
    (\A w \in Workers : CalmWorker(w)) /\ (\A r \in Runs : CalmClaim(r))

CustodyInv ==
  /\ SingleCustody
  /\ CancelledHasNoJob
  /\ \A r \in Runs :
       /\ status[r] = "absent" => creating[r] = "none"
       /\ Unpushed(r) => ~Withdrawn(r)

\* Whoever may still write queued, running or completed to the row has not seen
\* a result stored.
Stored(r) ==
  /\ decisions[r] <= 1
  /\ status[r] \in {"absent", "queued", "running"} => decisions[r] = 0
  /\ \A w \in Workers :
       /\ job[w] = r /\ pc[w] \in {"decide", "persist_read", "persist_commit"}
            => decisions[r] = 0
       /\ pc[w] = "reset" /\ r \in done[w] => decisions[r] = 0

ResultInv == \A r \in Runs : Stored(r)

IInv == TypeOK /\ CalmInv /\ CustodyInv /\ ResultInv

-----------------------------------------------------------------------------
(* The further invariant behind ExceptionsAreBounded                       *)

\* Where a worker has started the run, or has found that it may not.
StartedPoints ==
  {"decide", "persist_read", "persist_commit", "fail_read", "fail_commit",
   "retry_hincrby", "exhaust_lrem", "ack_lrem"}

\* Where a worker has taken the run's last entry out for good.
ReleasedPoints ==
  {"exhaust_zrem", "exhaust_hdel", "mark_read", "mark_commit",
   "ack_zrem", "ack_hdel"}

\* The starts of a run that its retries and the faults explain.
Granted(r) == (IF retries[r] <= MaxRetries THEN retries[r] ELSE MaxRetries) + faults

\* Is there a job of the run, or will there be one?
Deliverable(r) == Unpushed(r) \/ ~NoCopy(r)

\* While a job is left its retry count says how often it was started, and there
\* is a start to spare until a worker has used it.
Accounted(r) ==
  /\ starts[r] <= 1 + MaxRetries + faults
  /\ Deliverable(r) => starts[r] <= 1 + Granted(r)
  /\ Deliverable(r)
       /\ (\A w \in Workers : ~(job[w] = r /\ pc[w] \in StartedPoints))
     => starts[r] <= Granted(r)
  /\ \A w \in Workers :
       job[w] = r /\ pc[w] \in ReleasedPoints => ~Deliverable(r)

AccountInv == \A r \in Runs : Accounted(r)

-----------------------------------------------------------------------------
(* The further invariant behind OutcomeMatchesDecisions and the refinement *)

\* Exclusive deployments whose users do not cancel, or whose jobs are returned
\* to the queue after crashes only, and in which a refused push is a push that
\* did not happen.
Settling ==
  /\ Exclusive
  /\ "reply_lost" \notin ApiFaults
  /\ Cancellable = {} \/ (RaisePoints = {} /\ ~ClaimsOverrun)

RecoveringPoints == {"recover_zrem_hit", "recover_zrem_miss", "recover_lpush"}

RetryPoints ==
  {"retry_hincrby", "requeue_lrem", "requeue_zrem", "requeue_lpush",
   "exhaust_lrem", "exhaust_zrem", "exhaust_hdel", "mark_read", "mark_commit"}

Recovering(w, r) ==
  \/ pc[w] \in RecoveringPoints /\ job[w] = r
  \/ pc[w] \in RecoveringPoints \cup {"recover_lrem", "reset"}
       /\ r \in todo[w] \cup done[w]

\* Neither Redis nor a worker knows a run whose push has not happened.
UnpushedIsUnknown(r) ==
  creating[r] # "answered" =>
    /\ NoCopy(r)
    /\ claimed_at[r] = "none"
    /\ status[r] \in {"absent", "queued"}
    /\ cancelling[r] # "cancel_commit"
    /\ \A w \in Workers : job[w] # r /\ r \notin todo[w] \cup done[w]

\* What a process read of the row before it writes it is still true.
ReadStillTrue(w, r) ==
  /\ job[w] = r =>
       /\ pc[w] \in {"decide", "persist_read", "persist_commit", "fail_commit"}
            => status[r] = "running"
       /\ pc[w] = "fail_read" => status[r] \in {"running", "completed"}
       /\ pc[w] = "mark_commit" => status[r] \in {"queued", "running"}
  /\ pc[w] = "reset" /\ r \in done[w] => status[r] = "running"

RowAsRead(r) ==
  /\ cancelling[r] = "cancel_commit" => status[r] = "queued"
  /\ \A w \in Workers : ReadStillTrue(w, r)

\* While a user waits for the cancellation of a run that has been started since,
\* its job does not come back to the queue.
StartedStaysOut(r) ==
  /\ Cancellable = {} => cancelling[r] = "none"
  /\ status[r] = "absent" => cancelling[r] = "none"
  /\ cancelling[r] # "none" /\ status[r] # "queued" =>
       /\ queued[r] = 0
       /\ claimed_at[r] # "stale"
       /\ \A w \in Workers : ~Recovering(w, r)

\* Where exceptions do not leave process_run nothing is retried, and where no
\* claim is overrun a run is started on a fresh one.
StartsFresh(r) ==
  \A w \in Workers :
    /\ RaisePoints = {} => pc[w] \notin RetryPoints
    /\ ~ClaimsOverrun /\ job[w] = r /\ pc[w] = "start"
         => claimed_at[r] # "stale"

RowInv ==
  \A r \in Runs :
    UnpushedIsUnknown(r) /\ RowAsRead(r) /\ StartedStaysOut(r) /\ StartsFresh(r)

LifeInv == IInv /\ RowInv /\ OutcomeMatchesDecisions

-----------------------------------------------------------------------------
(* The further invariant behind NoStrandedRun                              *)

\* Of these the deployments in which no queue command is cut off between two
\* others: a worker dies only with a stamped claim or after its last entry is
\* out, and the API neither dies nor loses a reply.
Delivering ==
  /\ Settling
  /\ CrashPoints \subseteq
       (ClaimedPoints \ {"claim_zadd"}) \cup {"ack_zrem", "ack_hdel"}
  /\ ApiFaults \subseteq {"enqueue_error"}

\* The worker that moves the job of a queued run, or fails the run.
Moves(w, r) ==
  job[w] = r /\ pc[w] \in ClaimedPoints \cup ReturningPoints
                  \cup {"exhaust_zrem", "exhaust_hdel", "mark_read", "mark_commit"}

\* A claim without a score is one that is just being stamped, and a recovery
\* that removed nothing had nothing to remove.
Stamped(r) ==
  /\ processing[r] > 0 =>
       \/ claimed_at[r] # "none"
       \/ \E w \in Workers : job[w] = r /\ pc[w] = "claim_zadd"
  /\ \A w \in Workers :
       job[w] = r /\ pc[w] = "recover_zrem_miss" => processing[r] = 0

\* No worker takes a running run for a delivered one, and none acknowledges an
\* open run.
OpensAndCloses(r) ==
  \A w \in Workers :
    job[w] = r =>
      /\ pc[w] \in {"claim_zadd", "start"} => status[r] # "running"
      /\ pc[w] = "ack_lrem" => status[r] \in Terminal

\* A run is reset to queued only while its job is in the queue.
ResetHasJob(r) ==
  \A w \in Workers :
    /\ pc[w] = "reset" /\ r \in done[w] => queued[r] > 0
    /\ status[r] = "running" =>
         /\ pc[w] = "reset" /\ r \in todo[w] => queued[r] > 0
         /\ pc[w] \in RecoveringPoints \cup {"recover_lrem"} /\ r \in done[w]
              => queued[r] > 0

Attended(r) ==
  /\ status[r] = "queued" =>
       \/ queued[r] > 0 \/ Recoverable(r)
       \/ creating[r] \notin {"none", "answered"}
       \/ cancelling[r] = "cancel_commit"
       \/ \E w \in Workers : Moves(w, r)
  /\ status[r] = "running" =>
       Recoverable(r) \/ \E w \in Workers : Carries(w, r)

DeliveryInv ==
  \A r \in Runs :
    Stamped(r) /\ OpensAndCloses(r) /\ ResetHasJob(r) /\ Attended(r)

-----------------------------------------------------------------------------
(* Refinement                                                              *)

Lifecycle == INSTANCE RunLifecycle WITH results <- decisions

\* Readers of the database see the lifecycle RunLifecycle describes, although
\* rows are written by the API and the workers from values they read earlier.
ImplementsLifecycle == Lifecycle!LifecycleSpec

-----------------------------------------------------------------------------
(* Liveness (under FairSpec)                                               *)

\* Every run that was created is completed, failed or cancelled some day.
EveryRunSettles ==
  \A r \in Runs : status[r] # "absent" ~> status[r] \in Terminal

\* Redis forgets a settled run: no entry and no claim of it remains, even when
\* the worker died in the middle of acknowledge_run (a retry count may remain).
QueueForgetsSettledRuns ==
  \A r \in Runs :
    status[r] \in Terminal ~>
      queued[r] = 0 /\ processing[r] = 0 /\ claimed_at[r] = "none"

=============================================================================
