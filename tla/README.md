# TLA+ model of Autonomous Ads OS

Specifications, model-checking runs and machine-checked proofs about the parts of
Autonomous Ads OS that several processes, requests or stores touch at once: command runs and
their Redis queue; expert-review runs, the graph that analyses their evidence and its
checkpoints; the memberships that Whop's webhooks keep up to date; Google Ads connections;
and the records of an organization with the pool of connections its requests share. Paths below are relative to the repository.

1. [The system](#1-the-system)
2. [Modules](#2-modules)
3. [How state and actions correspond to the code](#3-how-state-and-actions-correspond-to-the-code)
4. [Runs](#4-runs)
5. [Fairness](#5-fairness)
6. [Theorems](#6-theorems)
7. [What is assumed about the environment](#7-what-is-assumed-about-the-environment)
8. [Known gaps in the program](#8-known-gaps-in-the-program)
9. [What is not modelled](#9-what-is-not-modelled)
10. [Plan](#10-plan)
11. [Running it](#11-running-it)

## 1. The system

A FastAPI process (one uvicorn process per deployment; two overlap while a deployment
replaces one) serves its synchronous routes on threads, from a pool of 15 database connections
(`pool_size` 5 and `max_overflow` 10), and its `async` ones on the event loop. It serves the dashboard; one or more worker processes execute command runs.
They share PostgreSQL and Redis and nothing else.

| Component | State | Operations | Talks to | What is hard | What makes it correct |
|---|---|---|---|---|---|
| **Command runs** `app/api/command_center.py`, `app/workflows/queue.py`, `app/worker.py` | `agent_runs.status` and results (PostgreSQL); `COMMAND_QUEUE`, `PROCESSING_QUEUE`, `CLAIMED_AT`, `RETRY_COUNTS` (Redis) | create, cancel; enqueue, claim, acknowledge, retry, recover, remove; process, reset, mark failed | Redis, PostgreSQL, LLM | Every Redis command and every commit is separate; workers crash, claims time out, users cancel meanwhile | One custodian per job, at most one stored result, a cancelled run is never executed, every run settles |
| **Expert-review runs** `app/services/expert_review_runs.py`, `app/api/expert_reviews.py` | `expert_review_runs`, `expert_human_reviews`; LangGraph's checkpoints | create and analyse, submit a human review | PostgreSQL, checkpointer, LLM | Two stores without a common transaction; the request is the only executor; submissions overlap | No final status without a human review, only validated reports are reviewed, both stores agree, no run stuck in processing |
| **Review graph** `app/agents/expert_review/graph.py`, `nodes.py` | the checkpointed state | validate, calculate, four specialists in parallel, synthesize, validate, interrupt, finalize | specialist runners | Rules in one node rely on rules in another; the graph stops between any two | A report that reaches a reviewer has every specialist's view and rests on the evidence |
| **Evidence and validation** `evidence.py`, `validators.py`, `schemas.py` | none | ratios, evidence rules, report rules | - | Missing values, zero denominators, duplicate ids | A report cites only ids of the package or ratios the package supports |
| **Specialist runners** `specialists.py`, `groq_runner.py` | none | one assessment per agent | LLM | A live answer may cite anything; a deterministic one may have nothing to cite | Agent and approval are the runner's own; which packages get a report is decided |
| **Whop memberships** `app/api/whop.py`, `models/saas.py` | `organizations`, `users`, `memberships`, `webhook_events` | one handler of events | Whop | Redelivery, overlap, reordering; `IntegrityError` means several things | Each event applied once, one membership per seat, access follows Whop |
| **Organization access** `app/core/auth.py` | none (reads memberships) | `require_organization_context` | Whop, PostgreSQL | Two sources of truth | Access exactly for active members |
| **Google Ads connection** `app/api/oauth.py`, `app/core/token_vault.py` | single-use states (Redis); `platform_connections`, `oauth_credentials`, `advertising_accounts` | start, callback, status | Google, Redis, PostgreSQL | State consumed before the exchange; callbacks overlap | A state is used once; tokens and accounts belong to the organization of their connection; refresh tokens are kept |
| **Organization records** `app/api/organization.py` | campaigns, experiments, creatives, reports, settings | create, list, put setting, overview | PostgreSQL | Read-then-insert of a setting; overview holds a connection and asks for another | Answered writes are kept, counts are the organization's own, every request is answered |
| **Automation readiness** `app/api/automation.py` | none | one query | PostgreSQL | The status it reads and the accounts are different rows | Ready only when an account is stored |
| **Agents, LLM client, kernel, settings, health** `app/agents/*`, `app/llm`, `app/core/settings.py`, `app/main.py` | none | profiles, prompts, one HTTP request, probes | LLM | - | - |
| **Dashboard** `dashboard/src` | React state, local storage | polling, submission, local drafts | API | Late answers to polls | Shows the run the user submitted |

Interactions. The dashboard creates a command run; the API commits the row and pushes its
id; a worker claims the id, moves the row to running, calls the model, stores the result and
acknowledges the id. A worker that finds overdue claims pushes their ids back and resets their rows.
An expert review is analysed inside the request that creates it; LangGraph stops the thread before
`human_review`, and the request that submits the decision resumes it. Whop's events write
the memberships that decide which organization every other request acts for. A callback of Google
stores the accounts that automation waits for. The routes of the organization read what
the workers and the callbacks write, through the same pool.

## 2. Modules

| Module | What it is |
|---|---|
| `CommandRuns` | The API, the queue and the workers, one action per Redis command, database read or commit. |
| `RunLifecycle` | What a reader of `agent_runs` is promised: the lifecycle of `README.md:263-276`, with no queue and no worker. |
| `CommandRunsProperties` | The properties of `CommandRuns`, its inductive invariant, and the refinement to `RunLifecycle`. |
| `CommandRunsProofs` | Theorems about `CommandRuns`. |
| `RunLifecycleProofs` | The theorem that `CommandRuns` implements `RunLifecycle`. |
| `RunDeliveryProofs` | The theorem that no open run is left without somebody to move it. |
| `ExpertReview` | Runs, checkpoints, the request that analyses and the requests that review; with its properties. |
| `ExpertReviewProofs` | Theorems about `ExpertReview`. |
| `ReviewGraph` | The analysis node by node, with the evidence, the rules and the specialists; extends `ExpertReview`, whose one-step analysis it implements. |
| `ReviewGraphProofs` | Theorems about `ReviewGraph`, among them that refinement. |
| `WhopMembership` | Whop, the handler of its events on several replicas, and the access query; with its properties. |
| `WhopMembershipProofs` | Theorems about `WhopMembership`. |
| `GoogleConnection` | Start, callback and status of Google's authorization, on several replicas; with its properties. |
| `GoogleConnectionProofs` | Theorems about `GoogleConnection`. |
| `OrganizationRecords` | The routes of an organization's records and the pool of connections; with its properties. |
| `OrganizationRecordsProofs` | Theorems about `OrganizationRecords`. |
| `MCCommandRuns`, `MCReviewGraph`, `MCWhopMembership`, `MCOrganizationRecords` | Values of constants and symmetry for TLC. |

Definitions commented `Mutant:` stand before the action they change. No specification uses
them: each is a bug the code could have had, which the property it is paired with detects.

## 3. How state and actions correspond to the code

### CommandRuns

`status` is `agent_runs.status` (`absent` before the insert), `decisions` counts committed
results. A Redis list is a function from runs to the number of their entries (`queued`,
`processing`): every command the code uses is addressed to one run, except BRPOPLPUSH, whose
order matters only to fairness. `claimed_at` knows whether a score exists and whether it is older
than `STALE_AFTER_SECONDS`; `retries` is the hash. `pc[w]`, `job[w]`, `todo[w]`, `done[w]` are the program
counter and locals of worker `w`; `creating[r]`, `cancelling[r]` those of the two API handlers.
`starts` and `faults` are history.

* `RecoverScan`, `RecoverRemove`, `RecoverUnstamp`, `RecoverPush`, `RecoverReturn`:
  `recover_stale_jobs`, one step per command; the list of overdue claims is read once.
* `ResetRead`, `ResetCommit`: `_reset_recovered_runs`, after a recovery or a retry.
* `Claim`, `ClaimStamp`: `claim_run`.
* `StartRun`, `Decide`, `PersistRead`, `PersistCommit`, `PersistRaises`, `FailRead`, `FailCommit`:
  `process_run` with `_persist_result` and `_fail_run`; `Decide` chooses whether the model's answer can be used.
* `ProcessRaises`, `RetryCount`, `RetryRemove`, `RetryUnstamp`, `RetryPush`, `RetryExhausted`,
  `MarkRead`, `MarkCommit`: the except clause of `main`, `retry_run` and `_mark_permanently_failed`.
* `AckRemove`, `AckUnstamp`, `AckForget`: `acknowledge_run`.
* `CreateRun`, `EnqueueRemove`, `EnqueuePush`, `EnqueueFails`, `CreateFailRead`, `CreateFailCommit`:
  `create_command_run` with `enqueue_run`; `CancelRead`, `CancelRemove`, `CancelCommit`: `cancel_command_run`.
* `Crash`, `CreateCrash`, `CancelCrash`: a process dies, or an exception of Redis or the database
  drops what it did. `ClaimGoesStale`: 900 seconds pass; only if `ClaimsOverrun` can that happen to
  work in progress (`llm_timeout_seconds` is 300 by default, so it takes a stalled process).

### ExpertReview

`status`, `report`, `review`, `reviewKey` are the rows of the two tables; `thread` and `verdict`
are the last checkpoint: the node the graph stands before and the decision in its state. A report
is abstracted to whether its validation passed. `exec[r]` and `result[r]` belong to the request that
created `r`; `at`, `target`, `choice`, `key`, `seen`, `answer` to a submission.
`faults` is history: how many failures there were, and the runs that a request which ended at once has left in running
or review_processing (`left`).

* `CreateRun`, `ExecuteStart`, `AnalyseEvidence`, `StoreResult`, `ExecuteFailed`: `create_run_record` and
  `execute_run`. Its failures: `ExecuteRaises` is an exception that the except clause stores; `StoreResultRaises` the
  refresh after the result's commit; `CreateDies` the death of the process; `CreateAborts` a commit that raises, executed or
  not: the first one is outside the try, and after one inside it the except clause, which does not roll back, raises at its own.
* `LoadRun`, `FindReview`, `MarkProcessing`, `ResumeThread`, `RecordDecision`, `FinalizeDecision`,
  `StoreReview`, `RollbackRead`, `RollbackCommit`: `submit_expert_review` and `resume_with_review`, one
  step per read, commit or checkpoint. Its failures: `GraphRaises` and `StoreFails` reach the except clause,
  `SubmitDies` is the death of the process, `SubmitAborts` an exception of the commit before the try, or of the except clause's read or commit.

The status read by `LoadRun` is the one later tests use: the session returns the same
object until it commits. `MarkProcessing` writes by id, without looking again.

### ReviewGraph

`package[r]` is the evidence of a run: the metrics it gives with their values and ids, the ids of its
items, whether it names a currency and whether its dates are in order. `engine` is the runner the
settings select. `node[r]` is the superstep the graph is in, `assessments` and `draft` its state; an assessment is
the provenance and the references of its findings and the references of its recommendations.

* `ValidateEvidence`, `CalculateMetrics`, `Specialist`, `SynthesizeReport`, `ValidateReport`: the nodes and the
  edges between them (`graph.py`, `nodes.py`). The specialists are one superstep: they run in any
  order and the edge to the synthesizer waits for all four.
* `EvidencePasses`, `Available`, `ReportPasses`: the rules of `evidence.py` and `validators.py`.
  `MetricsOf`, `References`, `Assess`: `specialists.py`. A live answer (`groq_runner.py`) is any member of `Answers`.
* A node that raises, and a process that dies between two nodes, are `ExecuteRaises` and
  `CreateDies` of `ExpertReview`, whose other actions are taken over as they are (`Outside`).

The routes out of `validate_evidence` and `validate_report` end in `GraphReturns`, which is also the
only thing `AnalyseEvidence` does; the rest of the graph's steps change nothing `ExpertReview` knows. `AnalysisImplemented`
is therefore its `Spec` on the same variables.

### WhopMembership

`emitted[m]` is what has happened to membership `m` at Whop; an event is a pair of a membership and its place
there. `row[m]` is the membership's row (status and product), `recorded` is
`webhook_events`, `organizations` and `users` are the parents' keys. A replica handles one event at a
time, because the handler runs synchronously on the event loop; its transaction is the steps
`FindEvent`, `FindOrganization`, `InsertOrganization`, `FindUser`, `InsertUser`, `FindMembership`,
`Commit`, `Answer`. `inserted[p]` are the rows its transaction has flushed: another insert
of the same key waits for it and raises once it is committed. `NewRow` keeps what SQLAlchemy does not
write: a column assigned the value it was loaded with is not part of the UPDATE.
`Crash` also stands for an answer that is lost: Whop sends the event again, possibly while
the first delivery is still handled. `Contexts` is the query of
`require_organization_context`, `Entitled` what Whop answers to `check_access`.
`applied`, `source` and `skipped` are history.

### GoogleConnection

`nonce` is the key in Redis, `owner` the organization in the signed state, `connection`, `credential` and `account` the
rows of three tables. A token is the flow and the user it was issued for. `at`, `flow`, `grant`, `loaded`,
`held`, `todo` and `seen` are the program counter and the locals of a callback.

* `StartOAuth`: `start_google_oauth`; `Expire`: the key's time to live. `Callback`: a browser brings a signed state, any
  number of times. `ConsumeState`: GETDEL. `AskGoogle`: the exchange, the identity and the accounts.
* `FindConnection`, `InsertConnection`, `FindCredential`, `FindAccount`, `Commit`: `save_google_connection`, one step per
  query, flush and commit; `Conflict` is what the unique indexes refuse, `Assigned` the
  UPDATE that SQLAlchemy leaves out.
* `Fail`: anything in the callback raises, or its process dies. `Ready`: `start_automation`.
* `StatusFindsConnections`, `StatusAnswers`: the two queries of `google_connection_status`; `reader` is a request between
  them. It writes nothing, so one at a time stands for any number.

`redeemed` is history, and so is what `reader` knows of the accounts attached at the first query.

### OrganizationRecords

`records` counts the rows of each table and organization, `settings` is the table of settings, `held` the
requests whose session has a connection. The code counts five tables and inserts into four; the constants
`Tables` and `Creatable` name them.

* `Receive`, `Authorize`: a request comes and `require_organization_context` lets it pass.
* `ListRows`: the six listing routes. `GetOrganization`, `CountRows`: `overview`, whose `_rows` open a second session
  while the first one keeps its connection.
* `Insert`, `Refresh`: the `create_*` routes; the commit gives the connection back and the refresh takes one again.
  `FindSetting`, `CommitSetting`: `put_setting`.
* `StatementRaises`: the database raises. `PoolTimesOut`: `pool_timeout`. A statement takes milliseconds and the limit is 30
  seconds, so that only requests that wait for each other are given up (`Stuck`).

A connection is held between statements of one session, never across an answer. The decisions and the campaign
drafts that workers add are not counted: they are what `CommandRuns` stores as a result. `before` and `witnessed` are history.

## 4. Runs

| Run | Instance | Checks |
|---|---|---|
| `single_worker` | 2 runs, 1 worker, every fault, at most 2 of them, 1 retry, claims may overrun | `TypeOK`, `SingleCustody`, `AtMostOneResult`, `CancelledHasNoJob`, `ExceptionsAreBounded` |
| `fleet` | 2 runs, 3 workers, 2 crashes while forgetting a finished job or refused pushes, users cancel; fair | `SingleCustody`, `OutcomeMatchesDecisions`, `EveryRunSettles`, `ImplementsLifecycle` |
| `settle_retry` | 2 runs, 1 worker, 2 crashes, exceptions or refused pushes, 1 retry; fair | `NoStrandedRun`, `EveryRunSettles`, `QueueForgetsSettledRuns` |
| `fleet_recovery` | 1 run, 2 workers, 1 crash | **violates** `AtMostOneResult` |
| `crash_loop` | 1 run, 1 worker, 1 retry, 2 crashes while it executes | **violates** `RetriesBoundStarts` |
| `review_race` | 1 run, 2 overlapping submissions, no key, 2 failures of any kind; fair | `TypeOK`, `FinalNeedsReview`, `ReviewNeedsValidReport`, `AnalysisEnds`, `ProcessingEnds` |
| `review_graph` | 1 run of any of 30 packages, both engines, 3 live answers, 1 submission at a time, 2 failures outside the stretch from the checkpoint to the commit | `ReviewDecidesStatus`, `StoresAgree`, `OfferedReportsRestOnData`, `DeterministicOutcome`, `AnalysisImplemented`, `FailedIsFinal` |
| `review_key` | 2 runs, 1 submission at a time, 1 key, no failure | **violates** `RejectionDoesNotComplete` |
| `whop_ordered` | 1 membership, 2 events of 2 types naming 1 of 2 products or none, 2 replicas, 2 crashes, delivered in order; fair | `TypeOK`, `AppliedOnce`, `AccessFollowsWhop`, `NeverGoesBack`, `EventsAnswered` |
| `whop_resubscribe` | 2 memberships of one organization and user, 1 replica, no failure | **violates** `FalseForDuplicates` |
| `google_connection` | 2 organizations, 2 Google users, 2 accounts, 2 flows, 2 callbacks and 1 status request at a time; fair | `TypeOK`, `StateUsedOnce`, `TokensOfTheirUser`, `EveryAccountListed`, `ReadyNeedsAccount`, `NothingIsTakenAway`, `CallbacksAnswered` |
| `organization_records` | 2 organizations, 3 requests of any route, 2 tables, 1 setting of 2 values, a pool of 2 connections; fair | `AnswersAreKept`, `OverviewCountsAreOwn`, `TimeoutNeedsOverviews`, `RequestsEnd` |

What they show:

* `single_worker`: however a single worker, the two handlers and time interleave, there is
  never a second copy of a job, a second result, or a job left for a cancelled run; and as long as there is no fault but
  exceptions, a run is started at most once plus once per retry of its budget.
* `fleet`: workers that are not interrupted in the middle of a run share the queue correctly;
  what readers of the database see is the documented lifecycle, and every run settles.
* `settle_retry`: a run always settles, and Redis forgets it, when the worker crashes while executing or
  acknowledging it - the crashes recovery was written for - or raises until the retries run out. Together with
  cancellations such exceptions break the lifecycle (section 8).
* `fleet_recovery`: the docstring of `process_run` (`command_center.py:177`) says that re-delivery is
  safe. Two workers that read the same overdue claim each return it; the second takes the entry out from under the first one's
  new claim, its reset puts the running row back, and the run is executed and stored twice.
* `crash_loop`: `README.md:291` says that the retry counter prevents an infinite failure loop after a worker crash. Recovery
  returns the job of a crashed worker without counting: with a budget of one retry the run is started a third time after two crashes,
  and nothing ends the repetition. `ExceptionsAreBounded` is the part of the promise that holds.
* `review_race`: overlapping submissions and two failures never fabricate a decision, and the run does not
  stay in running or in review_processing unless a request that died or aborted left it there (`faults.left`).
* `review_graph`: as long as submissions do not overlap and nothing fails between the graph's last
  checkpoint and the commit, the row, the review and the checkpoint tell one story. The report a
  reviewer is offered cites nothing but the evidence and the ratios it supports, whatever the live model answers;
  without it, which packages get a reviewer is a condition on the package. The graph refines the analysis.
* `review_key`: an approval whose idempotency key belongs to another run fails at the insert, after the graph is final. The next
  reviewer rejects: the rejection is recorded, the finished graph answers with its first outcome,
  and the run is completed - what `tests/test_expert_review_graph.py:147` rules out.
* `whop_ordered`: with in-order delivery, overlap, redelivery and crashes are harmless,
  the access query answers what Whop would, and every event is answered, also when replicas race to insert the same parents.
* `whop_resubscribe`: `process_whop_event` (`whop.py:53`) returns False for duplicates and unknown types, and also, by its handler
  of `IntegrityError`, for the first event of a second membership of the same organization and user,
  which is rolled back and never sent again.
* `google_connection`: callbacks that overlap, repeat each other and fail anywhere redeem a state once, keep each
  token and account with its owner, lose no refresh token, and all end, also those that wait for another's insert. A status request lists every
  account that keeps its connection while it looks (section 8 has the one that moves).
* `organization_records`: a put and a create that were answered are stored; an overview's five reads are each a
  count its organization had meanwhile; only overviews can fill the pool with requests that wait for it, and then
  `pool_timeout` ends the standstill.

Bounds, and why they are enough. Runs interact only through the loops of recovery and reset, which
two runs exercise (an entry before and after the one at hand); the third worker of `fleet` is there for
two that race while a third acknowledges. Two faults allow a crash during the recovery from a crash.
One retry has both a retry that is allowed and one that is exhausted. Two submissions are
enough to overlap; a third one meets a state that two can leave. Two replicas overlap; two events
give one with a predecessor and one with a successor, a delivery that a later event overtakes, and each change of product.
More events, and memberships of one seat that race, are covered by the theorems. `review_race` uses no keys, which `review_key` and the proofs do. The packages of `review_graph` are those the rules tell apart: each set of metrics that
changes some specialist's references, with and without items, zeros, and each error on its own. Two flows are two
callbacks of different organizations or users, or of the same; the third that could follow finds what two leave
(section 8 has what only three show). Three requests on two connections are two overviews that block each other and one that
suffers; a limit of one row is reached. Symmetry is used in `single_worker` only, which checks no liveness property. Deadlock is not
checked: every system modelled comes to rest when its bounded input is used up.

## 5. Fairness

* `CommandRuns`: weak fairness of every worker's and every handler's next step: a process that is not
  dead goes on. Strong fairness of `Claim` per run, because BRPOPLPUSH takes the oldest entry;
  of `RecoverScan`, because `main` looks for overdue claims every 60 seconds; of
  `ClaimGoesStale`, because time passes. None of `Crash`, `ProcessRaises`, `CreateRun` or `CancelRead`.
  After a crash the process is restarted (`railway.worker.toml`), which is `pc = "idle"`.
* `ExpertReview`: weak fairness of each request's next step. Nothing is fair about users.
* `WhopMembership`: weak fairness of the handler, strong fairness of the delivery of each event:
  Whop sends an unanswered event again, and some replica is idle again and again.
* `GoogleConnection`: weak fairness of each callback's next step, not of its failures, nor of starts,
  expiry and browsers. An insert that waits goes on when the transaction it waits for ends, which is that one's step.
* `OrganizationRecords`: weak fairness of each request that has come. A request that waits for a connection has no
  step until one is free or the waiting is mutual; then its `PoolTimesOut` is enabled.

## 6. Theorems

All are proved for every value of the constants that satisfies the modules' named
assumptions: any number of runs, workers, submissions, memberships and replicas.

**Command runs** (`CommandRunsProofs`). `TypeCorrect` needs no hypothesis. The others assume `Exclusive`: one worker, with any faults, or any number of workers
that die only while they forget a job whose entry is out (`CalmFleet`), which both kinds of passing run satisfy.
`CustodySafe`, `CancelSafe` and `ResultStoredOnce` follow from the inductive invariant
`IInv == TypeOK /\ CalmInv /\ CustodyInv /\ ResultInv`, proved by one lemma per part.
`SingleCustody` alone is inductive only together with where each worker's program counter says the entry is
(`HolderAgrees`) and with `CancelledHasNoJob`, because a cancellation decides by the number its LREM
removed. At most one result needs `Stored`: whoever may still write queued, running or completed has not
seen one. With several workers the step that breaks custody is a recovery. `CalmInv` shows that in a calm fleet a
claim with no worker behind it is one whose entry is gone (`Gone`), so that a recovery that finds it overdue returns nothing
and resets nothing. `fleet_recovery` shows that the hypothesis cannot be dropped.
`RetriesBounded`, that exceptions alone never exceed the budget, follows from `StartsAccounted`, by which every start beyond the budget
has a fault of its own (and nothing bounds these: `crash_loop`). The bound alone is not inductive;
`AccountInv` says where each start was paid for: while a job is left, its retry counter tells how often it was started, there is
one to spare until a worker has used it (`Accounted`), and a worker that has taken the last entry out leaves nothing to start.

**The lifecycle** (`RunLifecycleProofs`). `OutcomeSafe` and `LifecycleImplemented` assume `Settling`: `Exclusive`, no push
whose reply alone is lost, and either nobody cancels or jobs come back only after crashes (no exception leaves
`process_run` and no claim is overrun). `fleet` is an instance. The difficulty is that each writer decides from a row it read steps
earlier. `RowAsRead` says that what it read is still true, and needs two more facts: nothing but the creating request knows a run
before its push (`UnpushedIsUnknown`), and the job of a run that was started while a cancellation is under way is not
returned to the queue until that request has ended (`StartedStaysOut`), so that an LREM that finds an entry finds a queued row. The
hypotheses are the cases in which these fail; section 8 says how.

**Delivery** (`RunDeliveryProofs`). `NothingStranded` assumes `Delivering`: `Settling`, workers die only with a stamped claim or
after their last entry is out, and the API neither dies nor loses a reply. It is the half of `EveryRunSettles` that needs no fairness: for every
open run somebody or something is at work. `NoStrandedRun` is not inductive, because it says nothing of what the next
step finds. `DeliveryInv` adds that an entry in the processing list is stamped or about to be (`Stamped`); that a worker which starts a job does not find its run running, and
acknowledges none that is open (`OpensAndCloses`); that recovery resets a row only while its job is in the queue (`ResetHasJob`); and that a
worker which has taken a queued run's last entry out will push it or fail the run (`Attended`). The deaths that `Delivering` excludes strand a run,
as section 8 says.

**Expert reviews** (`ExpertReviewProofs`). `TypeCorrect`, `FinalReviewed` and `OnlyValidReviewed` hold whatever fails
and however submissions overlap. The invariant `ReviewInv` relates the row to the requests at work:
a submission that is past its tests has a validated report, and a final status is written
only in the commit that inserts the review. `FailureFinal` assumes that `create_lost` is not among
the faults: after such a failure a run whose result is stored is also marked failed, and a submission that loaded
it in between brings it back. `review_graph` checks that property, which its faults leave true.
`ReviewDecides`, `StoresAgreeing` and `RejectionStands` assume `OnlyEarlyFaults`, that no exception is raised from the checkpoint of the
decision to the commit of the review (processes may die, and requests abort, anywhere), and `Undisturbed`, that at no time two submissions of one run are in progress and none brings
the key of another run's review. The latter is a formula about behaviours, because users decide it: `Spec /\ []Undisturbed => []...`.
`DecisionInv` says where the checkpoint stands while the one submission of a run goes on, and that it
ends with the decision that is recorded. `OneReviewer` is the case in which the hypothesis holds by itself: one request at a time, no keys.
`RejectionStands` says that what `review_key` finds needs a key of another run or an overlap.
`WorkIsAttended` has no hypothesis on the failures: a run in running or review_processing has a request that has yet to write its
status, or was left there by one that died or aborted (`faults.left`); these are the only exceptions, and section 8 names their lines. A rollback that read `awaiting_human_review` writes nothing, so it does not count (`WillWrite`); whoever
marked the run after that read does.

**The review graph** (`ReviewGraphProofs`). For every package, every set of live answers and any faults:
`GraphImplements` is the refinement; by it `GraphFinalReviewed` carries `FinalNeedsReview` over to the
detailed graph. `OfferedRestOnData` needs `NodesInOrder`, which says what each node finds: every node
after the first has evidence that passes, the draft is the assessments of all four specialists, and the
outcome is the one their report deserves. `GraphDecides`, `GraphStoresAgree` and `GraphFailureFinal` are `ReviewDecides`, `StoresAgreeing` and `FailureFinal` for the
detailed graph, under the same hypotheses; `review_graph` is an instance. `DeterministicDecided` is the argument that `evidence_ids` leaves
no specialist without a reference exactly under the stated condition.

**Memberships** (`WhopMembershipProofs`). `TypeCorrect`, `EventAppliedOnce` and `SeatUnique` hold for any order of
delivery. `SeatInv` ties `applied` to `recorded`. `NoWayBack` assumes `InOrder` and is the
longest argument: the recorded events of a membership are a prefix of those emitted (`Prefix`), an answered event
is recorded unless another membership has the seat for good (`Blocked`), and a replica that commits has in hand an event
whose predecessors are answered (`InTurn`); so an event it can commit is the next one.
`AccessFollows` and `SkipsAreDuplicates` assume in addition that no two memberships compete for a seat (`SeatsDiffer`), the first also that a
product is required at all. `ContentInv` says that a row has the status of the last event applied and the last product the
events up to it name (`Follows`, `LastNamed`), and that what a replica has loaded is still the row when it commits, unless its event was
recorded meanwhile (`Current`): that is what makes an UPDATE of the changed columns write the whole new row. `whop_resubscribe` shows what
happens without `SeatsDiffer`, section 8 without `InOrder`. `NoCircularWait` assumes nothing: an insert that waits for another
replica's transaction waits for one that is further in the handler, so some replica can always go on.

**Google connections** (`GoogleConnectionProofs`). All six safety properties, for any number of organizations, users,
accounts, flows and callbacks. `AtMostOneBuyer` says that of the callbacks of a flow at most one is past its GETDEL, and
none before the state is gone. `ReadStays` says what a row read earlier still tells when it is used: a connection, credential or account
that was found is there, and the account with its organization. With it `TokensIssued`
and `AccountsAttached` are inductive: a commit writes rows of the flow its callback came with. `AccountsListed` needs them at the first query of a
status request, and that no later step takes a connection away (`ReaderKnows`).

**Organization records** (`OrganizationRecordsProofs`). `OverviewsFillThePool` needs `PoolInv`: a session keeps a
connection only up to an insert or a commit, which use it, or to an overview's count, which asks for another; so when
the pool is full of requests that wait, all of them count. `AnswersKept` counts the create requests past their commit
(`CreateInv`), and follows a put from the row it found to the row it leaves (`PutInv`). `OverviewsCountTheirOwn` uses that rows are
only added. They hold for any number of tables, requests and connections.

Every safety property of the passing runs is a theorem whose hypotheses the run satisfies. What is only model-checked
are the liveness properties: `EveryRunSettles`, `QueueForgetsSettledRuns`, `AnalysisEnds`, `ProcessingEnds`,
`EventsAnswered`, `CallbacksAnswered` and `RequestsEnd`. Fairness and ENABLED are out of the prover's reach; `NothingStranded`,
`WorkIsAttended`, `NoCircularWait` and `OverviewsFillThePool` are the facts about states that they rest on.

## 7. What is assumed about the environment

* Redis executes a command atomically; a command whose connection fails was executed or not.
  It does not lose acknowledged writes.
* PostgreSQL runs at READ COMMITTED. A unique constraint makes an insert wait for an uncommitted one of the
  same key, and fail if that commits. Sessions have `autoflush=False` and `expire_on_commit=False`
  (`app/database/session.py`); an UPDATE names only the columns that changed.
* LangGraph saves a checkpoint after each node. `Command(resume=...)` answers the interrupt of a thread that
  stands before `human_review`; a thread that is past it continues from its checkpoint and ignores
  the new answer; a finished one returns its state.
* A checkpoint of the graph's first part is never resumed: a request that is interrupted before
  `human_review` starts nothing again.
* A session of SQLAlchemy takes a connection at its first statement and gives it back at commit, rollback or close; a request
  that finds none free waits at most `pool_timeout`, 30 seconds. FastAPI runs a synchronous route on a thread
  of its own and an `async` one on the event loop.
* SET NX and GETDEL are atomic. Google issues tokens for the user who consents, and may leave out the refresh token.
* Whop delivers an event until it is answered with success, and gives its events ids of their own.

These are modelled from how the code uses the services.

## 8. Known gaps in the program

The four violations of section 4 are kept as runs. The following were found with the same modules, by other
values of the constants, and are excluded from the passing runs by the hypotheses stated there:

* A worker that dies between BRPOPLPUSH and ZADD (`queue.py:52`) leaves an entry without a claim time, which
  recovery never returns, although `README.md:287-288` says the timestamp becomes stale. One that dies between
  the LREM and the LPUSH of `recover_stale_jobs` or `retry_run` loses the entry.
* With several workers, a job that recovery or a retry pushed back can be claimed before its row is reset
  (`worker.py:61-64`, `:76-77`): the second worker finds a running row, does nothing and acknowledges.
* `_reset_recovered_runs` and `_fail_run` write what they decided from an earlier read: a run cancelled in between
  becomes queued (after a retry) or failed (after an enqueue whose reply was lost), although
  `README.md:275` draws cancelled as final.
* With two workers, one of which outlives its claim, `retry_run` pushes a job that recovery has pushed already (`queue.py:91`).
* A process that dies in `create_command_run` before the push leaves a queued run without a job; one that dies in
  `cancel_command_run` after the LREM does the same.
* A worker that dies before the HDEL of `acknowledge_run` leaves the retry counter of a settled run.
* A request that dies in `create_expert_review` leaves a run running; one that dies in
  `submit_expert_review` after its first commit leaves it in review_processing. So do exceptions: the commits at
  `expert_review_runs.py:169` and `:307`, outside the try, that are executed but raise; a failed commit at `:175` or `:201`, after
  which the one at `:211` raises as well because nothing rolls back; and a failed read or commit in the except clause at `:379-386`. Nothing picks these runs up.
* When the refresh at `expert_review_runs.py:202` raises, a stored result becomes failed, also one a reviewer has loaded.
* Of two submissions that overlap, the one that loses at the unique constraint puts the reviewed run back to
  `awaiting_human_review` (`expert_review_runs.py:382`), for good.
* Whop's events carry no order the handler looks at: an activation delivered again after the
  deactivation leaves the membership active.
* A connection becomes "connected" when Google names any account (`oauth.py:446`), also when all of them belong to another
  organization and none is stored; `start_automation` then counts it as ready for everybody, because its query
  names no organization. The property that holds is the weaker `ReadyNeedsAccount`.
* Three callbacks for one connection, two of which overlap, can leave its older status: an UPDATE leaves out a
  column that is assigned the value it was loaded with. Tokens and accounts are not affected.
* `google_connection_status` reads connections and accounts in two queries (`oauth.py:699`, `:716`); an account that moves between
  them to a connection saved meanwhile is missing from that answer. What `EveryAccountListed` says is the rest: no other one is.
* In development, two first requests of `get_development_organization` (`oauth.py:128`) both insert.
* Two first writes of one setting both insert (`organization.py:293`); the unique index makes the second an
  unhandled error, after which a repetition succeeds. Likewise two creations with one idempotency key
  (`expert_review_runs.py:149`, `command_center.py:288`).
* A `create_*` route that fails at the refresh after its commit (`organization.py`) answers an error for a row that is
  stored; the repetition stores a second one.
* Fifteen overviews at once hold all connections and wait for a sixteenth; every request of the process waits with them
  until `pool_timeout`. Lists and counts stop at 100 rows.
* An item of evidence whose id begins with `calculated:` is not told from a ratio (`validators.py:45`); a
  report may then cite an unavailable ratio by that id.
* `quantize` raises for a ratio of more than 24 integer digits (`evidence.py:18`), which fails the run.
* `validate_agents` expects a `KeyError` for an unknown agent (`command_center.py:83`), and the registry turns it into a
  `ValueError` (`registry.py:766`): the client sees an internal error in place of a rejected request.

## 9. What is not modelled

Presentation, prompts and text; the content of results and drafts (a result is one that can be used or not); the value
and the rounding of a ratio, the quality score, the digest and the label of a report, the lengths the schemas allow;
signatures and the encryption of tokens; health probes; migrations; the development bypass of authentication.
Answers to clients are modelled only where something depends on them (Whop's, and those of the organization's
records). Idempotent creation is modelled as the creation that wins.

* The agent registry and the LLM client are static profiles, text and one HTTP request. The modules take
  the outcome of that request as a choice.
* The dashboard shows what the API answers. What it shows is never sent back, so that a late answer to a poll affects a screen and no
  row; its requests are the inputs of the modules.
* Settings, wiring and health have no state of their own.

## 10. Plan

Written, in this order because the first is what the product is built around and each next one is the most
concurrent of the rest: `CommandRuns` with `RunLifecycle`, `ExpertReview`, `WhopMembership`, `GoogleConnection`,
`ReviewGraph`, `OrganizationRecords`, each with its theorems.

What is left:

1. `DashboardRun`: polling and submission against late answers, composed with `RunLifecycle`.
2. The queue as a FIFO in place of the strong fairness of `Claim`.
3. What remains true of a fleet whose workers die while they execute: a weaker custody that counts the copies a
   recovery can make, in place of the hypothesis `CalmFleet`.

## 11. Running it

`tlc -workers 2 -config SingleWorker.cfg MCCommandRuns`, and likewise for the other configurations:

| Configurations | Module |
|---|---|
| `SingleWorker`, `Fleet`, `SettleRetry`, `FleetRecovery`, `CrashLoop` | `MCCommandRuns` |
| `ReviewRace`, `ReviewKey` | `ExpertReview` |
| `ReviewGraph` | `MCReviewGraph` |
| `WhopOrdered`, `WhopResubscribe` | `MCWhopMembership` |
| `GoogleConnection` | `GoogleConnection` |
| `OrganizationRecords` | `MCOrganizationRecords` |

The longest, `OrganizationRecords` and `GoogleConnection`, take about two minutes each.
`tlapm M.tla` checks a module of proofs: `CommandRunsProofs` has 1085 obligations, `RunLifecycleProofs` 947,
`RunDeliveryProofs` 605, `ExpertReviewProofs` 465, `ReviewGraphProofs` 262, `WhopMembershipProofs` 1021,
`GoogleConnectionProofs` 715 and `OrganizationRecordsProofs` 516.
