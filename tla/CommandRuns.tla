---------------------------- MODULE CommandRuns ----------------------------
(***************************************************************************)
(* The life of the command runs: the API that creates, enqueues and        *)
(* cancels them (app/api/command_center.py), the crash-safe Redis queue    *)
(* (app/workflows/queue.py), and the workers that execute, retry and       *)
(* recover them (app/worker.py).  The API processes, the workers and the   *)
(* recovery share nothing but two stores, so every Redis command and every *)
(* database read or commit is a step of its own: that is the granularity   *)
(* at which these processes interleave.                                    *)
(*                                                                         *)
(* A Redis list is a function from runs to the number of their entries in  *)
(* it: LREM, LPUSH and BRPOPLPUSH are addressed to one run, and the order  *)
(* of the list matters only to fairness (see Fairness below).              *)
(***************************************************************************)
EXTENDS Integers, FiniteSets

CONSTANTS
  Runs,           \* the AgentRun rows that may be created
  Workers,        \* the worker processes
  NoRun,          \* what a worker that holds no run holds
  MaxRetries,     \* queue.MAX_RETRIES
  MaxFaults,      \* bound: crashes, lost connections and overrun claims
  Cancellable,    \* the runs whose cancellation a user may ask for
  CrashPoints,    \* where a worker may die, or drop what it does on an error
  RaisePoints,    \* where process_run may raise an exception
  ApiFaults,      \* what may happen to the API: see ApiFaultKinds
  ClaimsOverrun   \* may a claim get stale while somebody still works on it?

ApiFaultKinds == {"enqueue_error", "reply_lost", "create_crash", "cancel_crash"}

\* The places of process_run whose exception leaves it; every other one is
\* turned into a failed run by its own except clause.
ProcessPoints == {"start", "decide", "fail_read", "fail_commit"}

WorkerPoints ==
  {"idle", "recover_lrem", "recover_zrem_hit", "recover_zrem_miss",
   "recover_lpush", "reset", "claim_zadd",
   "start", "decide", "persist_read", "persist_commit", "fail_read",
   "fail_commit",
   "retry_hincrby", "requeue_lrem", "requeue_zrem", "requeue_lpush",
   "exhaust_lrem", "exhaust_zrem", "exhaust_hdel", "mark_read", "mark_commit",
   "ack_lrem", "ack_zrem", "ack_hdel"}

ASSUME MaxRetriesAssumption == MaxRetries \in Nat
ASSUME MaxFaultsAssumption == MaxFaults \in Nat
ASSUME NoRunAssumption == NoRun \notin Runs
ASSUME CancellableAssumption == Cancellable \subseteq Runs
ASSUME FaultAssumption ==
  /\ CrashPoints \subseteq WorkerPoints \ {"idle"}
  /\ RaisePoints \subseteq ProcessPoints
  /\ ApiFaults \subseteq ApiFaultKinds
  /\ ClaimsOverrun \in BOOLEAN

VARIABLES
  status,      \* agent_runs.status of each run
  decisions,   \* how many times a result of the run was committed
  queued,      \* COMMAND_QUEUE: entries of each run
  processing,  \* PROCESSING_QUEUE: entries of each run
  claimed_at,  \* CLAIMED_AT: no score, a recent one or one past the cutoff
  retries,     \* RETRY_COUNTS
  pc,          \* where each worker is
  job,         \* run_id of the worker (in recovery: the loop's value)
  todo,        \* runs a recovery or a reset has still to visit
  done,        \* recovery: the runs returned; reset: the rows it changed
  creating,    \* where create_command_run is for each run
  cancelling,  \* where cancel_command_run is for each run
  starts,      \* history: how often each run was started
  faults       \* history: crashes, errors and overruns so far

dbVars == <<status, decisions>>
queueVars == <<queued, processing, claimed_at, retries>>
workerVars == <<pc, job, todo, done>>
apiVars == <<creating, cancelling>>
historyVars == <<starts, faults>>
vars == <<status, decisions, queued, processing, claimed_at, retries, pc, job,
          todo, done, creating, cancelling, starts, faults>>

Terminal == {"completed", "failed", "cancelled"}
Statuses == {"absent", "queued", "running"} \cup Terminal
CreatePoints == {"none", "enq_lrem", "enq_lpush", "fail_read", "fail_commit",
                 "answered"}
CancelPoints == {"none", "cancel_lrem", "cancel_commit"}

TypeOK ==
  /\ status \in [Runs -> Statuses]
  /\ decisions \in [Runs -> Nat]
  /\ queued \in [Runs -> Nat]
  /\ processing \in [Runs -> Nat]
  /\ claimed_at \in [Runs -> {"none", "fresh", "stale"}]
  /\ retries \in [Runs -> Nat]
  /\ pc \in [Workers -> WorkerPoints]
  /\ job \in [Workers -> Runs \cup {NoRun}]
  /\ todo \in [Workers -> SUBSET Runs]
  /\ done \in [Workers -> SUBSET Runs]
  /\ creating \in [Runs -> CreatePoints]
  /\ cancelling \in [Runs -> CancelPoints]
  /\ starts \in [Runs -> Nat]
  /\ faults \in Nat
  /\ \A w \in Workers : pc[w] \notin {"idle", "recover_lrem", "reset"}
                          => job[w] \in Runs

Init ==
  /\ status = [r \in Runs |-> "absent"]
  /\ decisions = [r \in Runs |-> 0]
  /\ queued = [r \in Runs |-> 0]
  /\ processing = [r \in Runs |-> 0]
  /\ claimed_at = [r \in Runs |-> "none"]
  /\ retries = [r \in Runs |-> 0]
  /\ pc = [w \in Workers |-> "idle"]
  /\ job = [w \in Workers |-> NoRun]
  /\ todo = [w \in Workers |-> {}]
  /\ done = [w \in Workers |-> {}]
  /\ creating = [r \in Runs |-> "none"]
  /\ cancelling = [r \in Runs |-> "none"]
  /\ starts = [r \in Runs |-> 0]
  /\ faults = 0

-----------------------------------------------------------------------------
(* Steps common to several functions                                       *)

Goto(w, point) == pc' = [pc EXCEPT ![w] = point]

\* Back to the top of main's loop.
ToIdle(w) ==
  /\ Goto(w, "idle")
  /\ job' = [job EXCEPT ![w] = NoRun]
  /\ todo' = [todo EXCEPT ![w] = {}]
  /\ done' = [done EXCEPT ![w] = {}]

\* A worker that moves on with its run and keeps the rest of its locals.
Continue(w, point) == Goto(w, point) /\ UNCHANGED <<job, todo, done>>

\* The worker's conditional write: go to `yes` when the row read satisfies the
\* code's test, to `no` when it does not.
Branch(w, test, yes, no) ==
  \/ test /\ Continue(w, yes)
  \/ ~test /\ Continue(w, no)

SetStatus(r, value) == status' = [status EXCEPT ![r] = value]

Fault == faults < MaxFaults /\ faults' = faults + 1

-----------------------------------------------------------------------------
(* Recovery: recover_stale_jobs, then _reset_recovered_runs                *)

\* ZRANGEBYSCORE reads the overdue claims once; the list is used as it was.
\* A scan that finds nothing changes nothing.
RecoverScan(w) ==
  /\ pc[w] = "idle"
  /\ \E r \in Runs : claimed_at[r] = "stale"
  /\ todo' = [todo EXCEPT ![w] = {r \in Runs : claimed_at[r] = "stale"}]
  /\ done' = [done EXCEPT ![w] = {}]
  /\ Goto(w, "recover_lrem")
  /\ UNCHANGED <<job, dbVars, queueVars, apiVars, historyVars>>

\* LREM of one entry, whoever put it there.
RecoverRemove(w, r) ==
  /\ pc[w] = "recover_lrem"
  /\ r \in todo[w]
  /\ processing' = [processing EXCEPT ![r] = IF @ > 0 THEN @ - 1 ELSE 0]
  /\ todo' = [todo EXCEPT ![w] = @ \ {r}]
  /\ job' = [job EXCEPT ![w] = r]
  /\ \/ processing[r] > 0 /\ Goto(w, "recover_zrem_hit")
     \/ processing[r] = 0 /\ Goto(w, "recover_zrem_miss")
  /\ UNCHANGED <<done, dbVars, queued, claimed_at, retries, apiVars, historyVars>>

\* Mutant: ZREM moved under `if removed`.
RecoverUnstampRemoved(w) ==
  /\ pc[w] \in {"recover_zrem_hit", "recover_zrem_miss"}
  /\ claimed_at' = IF pc[w] = "recover_zrem_hit"
                     THEN [claimed_at EXCEPT ![job[w]] = "none"] ELSE claimed_at
  /\ Branch(w, pc[w] = "recover_zrem_hit", "recover_lpush", "recover_lrem")
  /\ UNCHANGED <<dbVars, queued, processing, retries, apiVars, historyVars>>

RecoverUnstamp(w) ==
  /\ pc[w] \in {"recover_zrem_hit", "recover_zrem_miss"}
  /\ claimed_at' = [claimed_at EXCEPT ![job[w]] = "none"]
  /\ Branch(w, pc[w] = "recover_zrem_hit", "recover_lpush", "recover_lrem")
  /\ UNCHANGED <<dbVars, queued, processing, retries, apiVars, historyVars>>

RecoverPush(w) ==
  /\ pc[w] = "recover_lpush"
  /\ queued' = [queued EXCEPT ![job[w]] = @ + 1]
  /\ done' = [done EXCEPT ![w] = @ \cup {job[w]}]
  /\ Goto(w, "recover_lrem")
  /\ UNCHANGED <<job, todo, dbVars, processing, claimed_at, retries, apiVars,
                 historyVars>>

\* The runs pushed are handed to _reset_recovered_runs.
RecoverReturn(w) ==
  /\ pc[w] = "recover_lrem"
  /\ todo[w] = {}
  /\ todo' = [todo EXCEPT ![w] = done[w]]
  /\ done' = [done EXCEPT ![w] = {}]
  /\ Goto(w, "reset")
  /\ UNCHANGED <<job, dbVars, queueVars, apiVars, historyVars>>

\* Mutant: the row is looked for under the status it is about to get.
ResetReadQueued(w, r) ==
  /\ pc[w] = "reset"
  /\ r \in todo[w]
  /\ todo' = [todo EXCEPT ![w] = @ \ {r}]
  /\ \/ status[r] = "queued" /\ done' = [done EXCEPT ![w] = @ \cup {r}]
     \/ status[r] # "queued" /\ UNCHANGED done
  /\ UNCHANGED <<pc, job, dbVars, queueVars, apiVars, historyVars>>

\* One database.get; a row that is running is changed in the session.
ResetRead(w, r) ==
  /\ pc[w] = "reset"
  /\ r \in todo[w]
  /\ todo' = [todo EXCEPT ![w] = @ \ {r}]
  /\ \/ status[r] = "running" /\ done' = [done EXCEPT ![w] = @ \cup {r}]
     \/ status[r] # "running" /\ UNCHANGED done
  /\ UNCHANGED <<pc, job, dbVars, queueVars, apiVars, historyVars>>

\* The one commit of the loop: UPDATE ... WHERE id, whatever the row is now.
ResetCommit(w) ==
  /\ pc[w] = "reset"
  /\ todo[w] = {}
  /\ status' = [r \in Runs |-> IF r \in done[w] THEN "queued" ELSE status[r]]
  /\ ToIdle(w)
  /\ UNCHANGED <<decisions, queueVars, apiVars, historyVars>>

-----------------------------------------------------------------------------
(* claim_run: BRPOPLPUSH, then ZADD                                        *)

\* Mutant: the entry is copied to the processing list, not moved.
ClaimCopies(w, r) ==
  /\ pc[w] = "idle"
  /\ queued[r] > 0
  /\ processing' = [processing EXCEPT ![r] = @ + 1]
  /\ job' = [job EXCEPT ![w] = r]
  /\ Goto(w, "claim_zadd")
  /\ UNCHANGED <<todo, done, dbVars, queued, claimed_at, retries, apiVars,
                 historyVars>>

Claim(w, r) ==
  /\ pc[w] = "idle"
  /\ queued[r] > 0
  /\ queued' = [queued EXCEPT ![r] = @ - 1]
  /\ processing' = [processing EXCEPT ![r] = @ + 1]
  /\ job' = [job EXCEPT ![w] = r]
  /\ Goto(w, "claim_zadd")
  /\ UNCHANGED <<todo, done, dbVars, claimed_at, retries, apiVars, historyVars>>

ClaimStamp(w) ==
  /\ pc[w] = "claim_zadd"
  /\ claimed_at' = [claimed_at EXCEPT ![job[w]] = "fresh"]
  /\ Continue(w, "start")
  /\ UNCHANGED <<dbVars, queued, processing, retries, apiVars, historyVars>>

-----------------------------------------------------------------------------
(* process_run                                                             *)

\* Mutant: UPDATE without its condition on the status.
StartRunAnyStatus(w) ==
  /\ pc[w] = "start"
  /\ SetStatus(job[w], "running")
  /\ starts' = [starts EXCEPT ![job[w]] = @ + 1]
  /\ Continue(w, "decide")
  /\ UNCHANGED <<decisions, queueVars, apiVars, faults>>

\* UPDATE ... WHERE status = 'queued', committed at once.
StartRun(w) ==
  /\ pc[w] = "start"
  /\ \/ /\ status[job[w]] = "queued"
        /\ SetStatus(job[w], "running")
        /\ starts' = [starts EXCEPT ![job[w]] = @ + 1]
        /\ Continue(w, "decide")
     \/ /\ status[job[w]] # "queued"
        /\ Continue(w, "ack_lrem")
        /\ UNCHANGED <<status, starts>>
  /\ UNCHANGED <<decisions, queueVars, apiVars, faults>>

\* run_llm returns a CommandResult, or it (or the organization's lookup) fails.
Decide(w) ==
  /\ pc[w] = "decide"
  /\ \/ Continue(w, "persist_read")
     \/ Continue(w, "fail_read")
  /\ UNCHANGED <<dbVars, queueVars, apiVars, historyVars>>

\* _persist_result reads the row without a lock ...
PersistRead(w) ==
  /\ pc[w] = "persist_read"
  /\ Branch(w, status[job[w]] = "running", "persist_commit", "ack_lrem")
  /\ UNCHANGED <<dbVars, queueVars, apiVars, historyVars>>

\* ... and commits the decisions with the status; the commit's reply may be lost.
PersistCommit(w) ==
  /\ pc[w] = "persist_commit"
  /\ SetStatus(job[w], "completed")
  /\ decisions' = [decisions EXCEPT ![job[w]] = @ + 1]
  /\ \/ Continue(w, "ack_lrem")
     \/ Continue(w, "fail_read")
  /\ UNCHANGED <<queueVars, apiVars, historyVars>>

\* An exception inside process_run's try.
PersistRaises(w) ==
  /\ pc[w] \in {"persist_read", "persist_commit"}
  /\ Continue(w, "fail_read")
  /\ UNCHANGED <<dbVars, queueVars, apiVars, historyVars>>

\* Mutant: a completed run is failed like any other.
FailReadAnyStatus(w) ==
  /\ pc[w] = "fail_read"
  /\ Continue(w, "fail_commit")
  /\ UNCHANGED <<dbVars, queueVars, apiVars, historyVars>>

FailRead(w) ==
  /\ pc[w] = "fail_read"
  /\ Branch(w, status[job[w]] \notin {"completed", "failed"},
            "fail_commit", "ack_lrem")
  /\ UNCHANGED <<dbVars, queueVars, apiVars, historyVars>>

\* Mutant: the session closes without a commit.
FailUncommitted(w) ==
  /\ pc[w] = "fail_commit"
  /\ Continue(w, "ack_lrem")
  /\ UNCHANGED <<dbVars, queueVars, apiVars, historyVars>>

\* A commit that raises although it was executed is left out: the retry finds
\* the run failed, as MarkRead and the next start do.
FailCommit(w) ==
  /\ pc[w] = "fail_commit"
  /\ SetStatus(job[w], "failed")
  /\ Continue(w, "ack_lrem")
  /\ UNCHANGED <<decisions, queueVars, apiVars, historyVars>>

\* An exception that leaves process_run.
ProcessRaises(w) ==
  /\ pc[w] \in RaisePoints
  /\ Continue(w, "retry_hincrby")
  /\ UNCHANGED <<dbVars, queueVars, apiVars, historyVars>>

-----------------------------------------------------------------------------
(* retry_run, then _reset_recovered_runs or _mark_permanently_failed       *)

\* Mutant: the attempt is read, not counted.
RetryNotCounted(w) ==
  /\ pc[w] = "retry_hincrby"
  /\ Branch(w, retries[job[w]] + 1 <= MaxRetries, "requeue_lrem", "exhaust_lrem")
  /\ UNCHANGED <<dbVars, queueVars, apiVars, historyVars>>

RetryCount(w) ==
  /\ pc[w] = "retry_hincrby"
  /\ retries' = [retries EXCEPT ![job[w]] = @ + 1]
  /\ Branch(w, retries[job[w]] + 1 <= MaxRetries, "requeue_lrem", "exhaust_lrem")
  /\ UNCHANGED <<dbVars, queued, processing, claimed_at, apiVars, historyVars>>

\* Mutant: the entry stays in the processing list.
RetryKeepsEntry(w) ==
  /\ pc[w] \in {"requeue_lrem", "exhaust_lrem"}
  /\ Branch(w, pc[w] = "requeue_lrem", "requeue_zrem", "exhaust_zrem")
  /\ UNCHANGED <<dbVars, queueVars, apiVars, historyVars>>

RetryRemove(w) ==
  /\ pc[w] \in {"requeue_lrem", "exhaust_lrem"}
  /\ processing' = [processing EXCEPT ![job[w]] = 0]
  /\ Branch(w, pc[w] = "requeue_lrem", "requeue_zrem", "exhaust_zrem")
  /\ UNCHANGED <<dbVars, queued, claimed_at, retries, apiVars, historyVars>>

RetryUnstamp(w) ==
  /\ pc[w] \in {"requeue_zrem", "exhaust_zrem"}
  /\ claimed_at' = [claimed_at EXCEPT ![job[w]] = "none"]
  /\ Branch(w, pc[w] = "requeue_zrem", "requeue_lpush", "exhaust_hdel")
  /\ UNCHANGED <<dbVars, queued, processing, retries, apiVars, historyVars>>

\* Mutant: main does not reset the run it has put back.
RetryPushOnly(w) ==
  /\ pc[w] = "requeue_lpush"
  /\ queued' = [queued EXCEPT ![job[w]] = @ + 1]
  /\ ToIdle(w)
  /\ UNCHANGED <<dbVars, processing, claimed_at, retries, apiVars, historyVars>>

\* The run is back in the queue before its row says so.
RetryPush(w) ==
  /\ pc[w] = "requeue_lpush"
  /\ queued' = [queued EXCEPT ![job[w]] = @ + 1]
  /\ todo' = [todo EXCEPT ![w] = {job[w]}]
  /\ done' = [done EXCEPT ![w] = {}]
  /\ Goto(w, "reset")
  /\ UNCHANGED <<job, dbVars, processing, claimed_at, retries, apiVars,
                 historyVars>>

RetryExhausted(w) ==
  /\ pc[w] = "exhaust_hdel"
  /\ retries' = [retries EXCEPT ![job[w]] = 0]
  /\ Continue(w, "mark_read")
  /\ UNCHANGED <<dbVars, queued, processing, claimed_at, apiVars, historyVars>>

MarkRead(w) ==
  /\ pc[w] = "mark_read"
  /\ \/ status[job[w]] \notin Terminal /\ Continue(w, "mark_commit")
     \/ status[job[w]] \in Terminal /\ ToIdle(w)
  /\ UNCHANGED <<dbVars, queueVars, apiVars, historyVars>>

\* Mutant: a run whose budget is spent gets a status of its own.
MarkCommitExhausted(w) ==
  /\ pc[w] = "mark_commit"
  /\ SetStatus(job[w], "exhausted")
  /\ ToIdle(w)
  /\ UNCHANGED <<decisions, queueVars, apiVars, historyVars>>

MarkCommit(w) ==
  /\ pc[w] = "mark_commit"
  /\ SetStatus(job[w], "failed")
  /\ ToIdle(w)
  /\ UNCHANGED <<decisions, queueVars, apiVars, historyVars>>

-----------------------------------------------------------------------------
(* acknowledge_run                                                         *)

AckRemove(w) ==
  /\ pc[w] = "ack_lrem"
  /\ processing' = [processing EXCEPT ![job[w]] = 0]
  /\ Continue(w, "ack_zrem")
  /\ UNCHANGED <<dbVars, queued, claimed_at, retries, apiVars, historyVars>>

AckUnstamp(w) ==
  /\ pc[w] = "ack_zrem"
  /\ claimed_at' = [claimed_at EXCEPT ![job[w]] = "none"]
  /\ Continue(w, "ack_hdel")
  /\ UNCHANGED <<dbVars, queued, processing, retries, apiVars, historyVars>>

AckForget(w) ==
  /\ pc[w] = "ack_hdel"
  /\ retries' = [retries EXCEPT ![job[w]] = 0]
  /\ ToIdle(w)
  /\ UNCHANGED <<dbVars, queued, processing, claimed_at, apiVars, historyVars>>

-----------------------------------------------------------------------------
(* Faults of a worker, and time                                            *)

\* The process dies, or main's outer except drops what it was doing.  Locals
\* are lost, both stores keep what was written.
Crash(w) ==
  /\ pc[w] \in CrashPoints
  /\ Fault
  /\ ToIdle(w)
  /\ UNCHANGED <<dbVars, queueVars, apiVars, starts>>

\* A worker whose job is r, or that is about to recover or reset it.
Busy(w, r) == pc[w] # "idle" /\ (job[w] = r \/ r \in todo[w] \cup done[w])

InFlight(r) ==
  \/ \E w \in Workers : Busy(w, r)
  \/ creating[r] \notin {"none", "answered"}
  \/ cancelling[r] # "none"

\* STALE_AFTER_SECONDS pass.  Unless ClaimsOverrun, whatever was in flight when
\* the claim was stamped has ended by then.
ClaimGoesStale(r) ==
  /\ claimed_at[r] = "fresh"
  /\ \/ ~InFlight(r) /\ UNCHANGED faults
     \/ ClaimsOverrun /\ InFlight(r) /\ Fault
  /\ claimed_at' = [claimed_at EXCEPT ![r] = "stale"]
  /\ UNCHANGED <<dbVars, queued, processing, retries, workerVars, apiVars, starts>>

-----------------------------------------------------------------------------
(* create_command_run                                                      *)

CreateGoto(r, point) ==
  /\ creating' = [creating EXCEPT ![r] = point]
  /\ UNCHANGED <<workerVars, cancelling>>

\* The row is committed before the job is queued.
CreateRun(r) ==
  /\ status[r] = "absent"
  /\ SetStatus(r, "queued")
  /\ CreateGoto(r, "enq_lrem")
  /\ UNCHANGED <<decisions, queueVars, historyVars>>

EnqueueRemove(r) ==
  /\ creating[r] = "enq_lrem"
  /\ queued' = [queued EXCEPT ![r] = 0]
  /\ CreateGoto(r, "enq_lpush")
  /\ UNCHANGED <<dbVars, processing, claimed_at, retries, historyVars>>

EnqueuePush(r) ==
  /\ creating[r] = "enq_lpush"
  /\ queued' = [queued EXCEPT ![r] = @ + 1]
  /\ CreateGoto(r, "answered")
  /\ UNCHANGED <<dbVars, processing, claimed_at, retries, historyVars>>

\* RedisError: the command was not executed, or only its reply was lost.
EnqueueFails(r) ==
  /\ creating[r] \in {"enq_lrem", "enq_lpush"}
  /\ Fault
  /\ \/ "enqueue_error" \in ApiFaults /\ UNCHANGED queued
     \/ /\ "reply_lost" \in ApiFaults
        /\ creating[r] = "enq_lpush"
        /\ queued' = [queued EXCEPT ![r] = @ + 1]
  /\ CreateGoto(r, "fail_read")
  /\ UNCHANGED <<dbVars, processing, claimed_at, retries, starts>>

CreateFailRead(r) ==
  /\ creating[r] = "fail_read"
  /\ \/ status[r] \notin {"completed", "failed"} /\ CreateGoto(r, "fail_commit")
     \/ status[r] \in {"completed", "failed"} /\ CreateGoto(r, "answered")
  /\ UNCHANGED <<dbVars, queueVars, historyVars>>

CreateFailCommit(r) ==
  /\ creating[r] = "fail_commit"
  /\ SetStatus(r, "failed")
  /\ CreateGoto(r, "answered")
  /\ UNCHANGED <<decisions, queueVars, historyVars>>

CreateCrash(r) ==
  /\ "create_crash" \in ApiFaults
  /\ creating[r] \notin {"none", "answered"}
  /\ Fault
  /\ CreateGoto(r, "answered")
  /\ UNCHANGED <<dbVars, queueVars, starts>>

-----------------------------------------------------------------------------
(* cancel_command_run: read the status, LREM, write the status             *)

CancelGoto(r, point) ==
  /\ cancelling' = [cancelling EXCEPT ![r] = point]
  /\ UNCHANGED <<workerVars, creating>>

\* Any other status is answered with 409.
CancelRead(r) ==
  /\ r \in Cancellable
  /\ cancelling[r] = "none"
  /\ status[r] = "queued"
  /\ CancelGoto(r, "cancel_lrem")
  /\ UNCHANGED <<dbVars, queueVars, historyVars>>

\* Mutant: the number of entries removed is not looked at.
CancelRemoveUnchecked(r) ==
  /\ cancelling[r] = "cancel_lrem"
  /\ queued' = [queued EXCEPT ![r] = 0]
  /\ CancelGoto(r, "cancel_commit")
  /\ UNCHANGED <<dbVars, processing, claimed_at, retries, historyVars>>

\* Nothing removed: 409, the run was already claimed.
CancelRemove(r) ==
  /\ cancelling[r] = "cancel_lrem"
  /\ queued' = [queued EXCEPT ![r] = 0]
  /\ \/ queued[r] > 0 /\ CancelGoto(r, "cancel_commit")
     \/ queued[r] = 0 /\ CancelGoto(r, "none")
  /\ UNCHANGED <<dbVars, processing, claimed_at, retries, historyVars>>

CancelCommit(r) ==
  /\ cancelling[r] = "cancel_commit"
  /\ SetStatus(r, "cancelled")
  /\ CancelGoto(r, "none")
  /\ UNCHANGED <<decisions, queueVars, historyVars>>

\* The request dies, or the reply to LREM is lost and 503 is answered.
CancelCrash(r) ==
  /\ "cancel_crash" \in ApiFaults
  /\ cancelling[r] # "none"
  /\ Fault
  /\ CancelGoto(r, "none")
  /\ UNCHANGED <<dbVars, queueVars, starts>>

-----------------------------------------------------------------------------
Recovery(w) ==
  \/ RecoverScan(w)
  \/ \E r \in Runs : RecoverRemove(w, r) \/ ResetRead(w, r)
  \/ RecoverUnstamp(w) \/ RecoverPush(w) \/ RecoverReturn(w) \/ ResetCommit(w)

Execution(w) ==
  \/ ClaimStamp(w) \/ StartRun(w) \/ Decide(w) \/ PersistRead(w)
  \/ PersistCommit(w) \/ PersistRaises(w) \/ FailRead(w) \/ FailCommit(w)
  \/ AckRemove(w) \/ AckUnstamp(w) \/ AckForget(w)

Retry(w) ==
  \/ ProcessRaises(w) \/ RetryCount(w) \/ RetryRemove(w) \/ RetryUnstamp(w)
  \/ RetryPush(w) \/ RetryExhausted(w) \/ MarkRead(w) \/ MarkCommit(w)

Creation(r) ==
  \/ EnqueueRemove(r) \/ EnqueuePush(r)
  \/ CreateFailRead(r) \/ CreateFailCommit(r)

Cancellation(r) == CancelRemove(r) \/ CancelCommit(r)

ApiFaulty(r) == EnqueueFails(r) \/ CreateCrash(r) \/ CancelCrash(r)

WorkerStep(w) ==
  \/ Recovery(w) \/ Execution(w) \/ Retry(w)
  \/ \E r \in Runs : Claim(w, r)

ApiStep(r) ==
  CreateRun(r) \/ Creation(r) \/ CancelRead(r) \/ Cancellation(r) \/ ApiFaulty(r)


Next ==
  \/ \E w \in Workers : WorkerStep(w) \/ Crash(w)
  \/ \E r \in Runs : ApiStep(r) \/ ClaimGoesStale(r)

Spec == Init /\ [][Next]_vars

\* A worker never stops in the middle of a job, the API finishes its requests,
\* time passes; BRPOPLPUSH takes the oldest entry and main looks for stale
\* claims every minute, so neither passes over a run forever.
Fairness ==
  /\ \A w \in Workers :
       /\ WF_vars((pc[w] # "idle") /\ WorkerStep(w))
       /\ SF_vars(RecoverScan(w))
  /\ \A r \in Runs :
       /\ WF_vars(Creation(r))
       /\ WF_vars(Cancellation(r))
       /\ SF_vars(ClaimGoesStale(r))
       /\ SF_vars(\E w \in Workers : Claim(w, r))

FairSpec == Spec /\ Fairness
=============================================================================
