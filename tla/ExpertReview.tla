---------------------------- MODULE ExpertReview ---------------------------
(***************************************************************************)
(* Expert-review runs: create_expert_review and execute_run analyse the    *)
(* evidence inside the request that creates the run; submit_expert_review  *)
(* and resume_with_review record the human decision and resume the         *)
(* LangGraph thread that waits for it (app/api/expert_reviews.py,          *)
(* app/services/expert_review_runs.py, app/agents/expert_review).          *)
(*                                                                         *)
(* Two stores hold the state, the application's database and LangGraph's   *)
(* checkpoints, and no transaction spans both.  Every read, every commit   *)
(* and every checkpoint is a step; any number of submissions may overlap.  *)
(***************************************************************************)
EXTENDS Naturals

CONSTANTS
  Runs,        \* the ExpertReviewRun rows that may be created
  Requests,    \* the handlers of submissions in flight
  Keys,        \* the values of the Idempotency-Key header of a submission
  NoKey,       \* a submission without that header
  None,        \* no decision, no run
  Faults,      \* what may fail: see FaultKinds
  MaxFaults    \* bound on the failures of one behaviour

Decisions == {"approved", "rejected", "revision_required"}

FaultKinds ==
  {"create_crash",   \* the process dies during create_expert_review
   "create_error",   \* the graph raises, or what execute_run makes of its result
   "create_lost",    \* the refresh after the commit of the result raises
   "create_abort",   \* a commit raises that execute_run does not recover from
   "invoke_error",   \* the resumed graph raises before human_review is saved
   "finalize_error", \* ... or after it
   "commit_error",   \* the commit of the review raises, not executed
   "commit_lost",    \* ... or executed
   "submit_crash",   \* the process dies during submit_expert_review
   "submit_abort"}   \* the first commit raises, or the except clause itself does

ASSUME NoneAssumption == None \notin Runs \cup Decisions
ASSUME NoKeyAssumption == NoKey \notin Keys
ASSUME FaultsAssumption == Faults \subseteq FaultKinds /\ MaxFaults \in Nat

VARIABLES
  status,     \* expert_review_runs.status
  report,     \* the run's report: none, or whether its validation passed
  review,     \* expert_human_reviews: the decision recorded for the run
  reviewKey,  \* its idempotency_key
  thread,     \* the checkpoint: the node the graph stands before
  verdict,    \* the decision in the checkpoint's human_review
  exec,       \* where create_expert_review is, for each run
  result,     \* the status its graph returned
  at,         \* where each submission is
  target,     \* its run
  choice,     \* the decision it submits
  key,        \* its idempotency key
  seen,       \* the status it read
  answer,     \* the decision in the state the graph returned to it
  faults      \* history: how many failures, and the runs that a request which
              \* died or aborted has left in running or review_processing

runVars == <<status, report, review, reviewKey>>
threadVars == <<thread, verdict>>
execVars == <<exec, result>>
requestVars == <<at, target, choice, key, seen, answer>>
vars == <<status, report, review, reviewKey, thread, verdict, exec, result, at,
          target, choice, key, seen, answer, faults>>

\* finalize_node.
StatusOf(decision) ==
  IF decision = "approved" THEN "completed" ELSE decision

Final == {"completed", "rejected", "revision_required"}
Failed == {"failed", "failed_evidence_validation", "failed_report_validation"}
Statuses == {"absent", "queued", "running", "awaiting_human_review",
             "review_processing"} \cup Final \cup Failed
GraphResults == {"awaiting_human_review", "failed_evidence_validation",
                 "failed_report_validation"}
ExecPoints == {"none", "created", "invoke", "store", "fail", "answered"}
SubmitPoints == {"idle", "find_review", "mark", "invoke", "record", "finalize",
                 "store", "rollback_read", "rollback_commit"}

Init ==
  /\ status = [r \in Runs |-> "absent"]
  /\ report = [r \in Runs |-> "none"]
  /\ review = [r \in Runs |-> None]
  /\ reviewKey = [r \in Runs |-> NoKey]
  /\ thread = [r \in Runs |-> "none"]
  /\ verdict = [r \in Runs |-> None]
  /\ exec = [r \in Runs |-> "none"]
  /\ result = [r \in Runs |-> "failed_report_validation"]
  /\ at = [s \in Requests |-> "idle"]
  /\ target = [s \in Requests |-> None]
  /\ choice = [s \in Requests |-> "approved"]
  /\ key = [s \in Requests |-> NoKey]
  /\ seen = [s \in Requests |-> "absent"]
  /\ answer = [s \in Requests |-> None]
  /\ faults = [number |-> 0, left |-> {}]

FaultOf(kind, runs) ==
  /\ kind \in Faults
  /\ faults.number < MaxFaults
  /\ faults' = [number |-> faults.number + 1, left |-> faults.left \cup runs]

Fault(kind) == FaultOf(kind, {})

\* The request ends at once: nobody writes the row of r on its behalf any more.
Abandon(kind, r) ==
  FaultOf(kind, {q \in {r} : status'[q] \in {"running", "review_processing"}})

SetStatus(r, value) == status' = [status EXCEPT ![r] = value]

-----------------------------------------------------------------------------
(* create_run_record and execute_run, in the request that creates the run  *)

ExecGoto(r, point) == exec' = [exec EXCEPT ![r] = point]

CreateRun(r) ==
  /\ status[r] = "absent"
  /\ SetStatus(r, "queued")
  /\ ExecGoto(r, "created")
  /\ UNCHANGED <<report, review, reviewKey, threadVars, result, requestVars, faults>>

ExecuteStart(r) ==
  /\ exec[r] = "created"
  /\ SetStatus(r, "running")
  /\ ExecGoto(r, "invoke")
  /\ UNCHANGED <<report, review, reviewKey, threadVars, result, requestVars, faults>>

\* graph.invoke returns: at its end, or interrupted before human_review.
GraphReturns(r, outcome) ==
  /\ exec[r] = "invoke"
  /\ result' = [result EXCEPT ![r] = outcome]
  /\ thread' = [thread EXCEPT ![r] =
       IF outcome = "awaiting_human_review" THEN "human_review" ELSE "end"]
  /\ ExecGoto(r, "store")
  /\ UNCHANGED <<runVars, verdict, requestVars, faults>>

\* Mutant: the graph also ends after report_synthesizer, at its status.
AnalysisStopsAtReport(r) ==
  \E outcome \in GraphResults \cup {"report_synthesized"} : GraphReturns(r, outcome)

\* The evidence does not pass, the report does not, or a reviewer is needed;
\* ReviewGraph says which.
AnalyseEvidence(r) == \E outcome \in GraphResults : GraphReturns(r, outcome)

ReportOf(outcome) ==
  CASE outcome = "awaiting_human_review" -> "valid"
    [] outcome = "failed_report_validation" -> "invalid"
    [] OTHER -> "none"

WriteResult(r) ==
  /\ SetStatus(r, result[r])
  /\ report' = [report EXCEPT ![r] = ReportOf(result[r])]

StoreResult(r) ==
  /\ exec[r] = "store"
  /\ WriteResult(r)
  /\ ExecGoto(r, "answered")
  /\ UNCHANGED <<review, reviewKey, threadVars, result, requestVars, faults>>

\* The model, the graph or the checkpointer raises, or what reads the result.
ExecuteRaises(r) ==
  /\ exec[r] \in {"invoke", "store"}
  /\ Fault("create_error")
  /\ ExecGoto(r, "fail")
  /\ UNCHANGED <<runVars, threadVars, result, requestVars>>

\* The result is stored, and the refresh that follows the commit gets no
\* connection from the pool: the session is intact, and the except clause goes on.
StoreResultRaises(r) ==
  /\ exec[r] = "store"
  /\ Fault("create_lost")
  /\ WriteResult(r)
  /\ ExecGoto(r, "fail")
  /\ UNCHANGED <<review, reviewKey, threadVars, result, requestVars>>

\* Mutant: a failed analysis is left for another attempt.
ExecuteFailedRetried(r) ==
  /\ exec[r] = "fail"
  /\ SetStatus(r, "failed")
  /\ ExecGoto(r, "created")
  /\ UNCHANGED <<report, review, reviewKey, threadVars, result, requestVars, faults>>

\* Mutant: the failure is answered but not stored.
ExecuteFailedUnsaved(r) ==
  /\ exec[r] = "fail"
  /\ ExecGoto(r, "answered")
  /\ UNCHANGED <<runVars, threadVars, result, requestVars, faults>>

ExecuteFailed(r) ==
  /\ exec[r] = "fail"
  /\ SetStatus(r, "failed")
  /\ ExecGoto(r, "answered")
  /\ UNCHANGED <<report, review, reviewKey, threadVars, result, requestVars, faults>>

CreateDies(r) ==
  /\ exec[r] \notin {"none", "answered"}
  /\ UNCHANGED <<runVars, threadVars, result, requestVars>>
  /\ Abandon("create_crash", r)
  /\ ExecGoto(r, "answered")

\* A commit raises, executed or not.  The first one of execute_run is outside its
\* try; after one inside it, the except clause commits without a rollback, which
\* raises again; and its own commit is in no try.
CreateAborts(r) ==
  /\ exec[r] \notin {"none", "answered"}
  /\ \/ UNCHANGED <<status, report>>
     \/ exec[r] = "created" /\ SetStatus(r, "running") /\ UNCHANGED report
     \/ exec[r] = "store" /\ WriteResult(r)
     \/ exec[r] = "fail" /\ SetStatus(r, "failed") /\ UNCHANGED report
  /\ Abandon("create_abort", r)
  /\ ExecGoto(r, "answered")
  /\ UNCHANGED <<review, reviewKey, threadVars, result, requestVars>>

-----------------------------------------------------------------------------
(* submit_expert_review and resume_with_review                             *)

Goto(s, point) == at' = [at EXCEPT ![s] = point]

Continue(s, point) ==
  /\ Goto(s, point)
  /\ UNCHANGED <<target, choice, key, seen, answer>>

ToIdle(s) ==
  /\ Goto(s, "idle")
  /\ target' = [target EXCEPT ![s] = None]
  /\ choice' = [choice EXCEPT ![s] = "approved"]
  /\ key' = [key EXCEPT ![s] = NoKey]
  /\ seen' = [seen EXCEPT ![s] = "absent"]
  /\ answer' = [answer EXCEPT ![s] = None]

\* load_scoped_run; an owner or administrator submits the hash of the report
\* shown to them (another role or another hash is refused and changes nothing).
LoadRun(s, r, d, k) ==
  /\ at[s] = "idle"
  /\ status[r] # "absent"
  /\ Goto(s, "find_review")
  /\ target' = [target EXCEPT ![s] = r]
  /\ choice' = [choice EXCEPT ![s] = d]
  /\ key' = [key EXCEPT ![s] = k]
  /\ seen' = [seen EXCEPT ![s] = status[r]]
  /\ UNCHANGED <<runVars, threadVars, execVars, answer, faults>>

\* Mutant: the status of the run is not looked at.
FindReviewOnly(s) ==
  /\ at[s] = "find_review"
  /\ \/ review[target[s]] = None /\ Continue(s, "mark")
     \/ review[target[s]] # None /\ ToIdle(s)
  /\ UNCHANGED <<runVars, threadVars, execVars, faults>>

\* An existing review is answered (or refused) as it is; a run not awaiting
\* review when it was loaded is refused.
FindReview(s) ==
  /\ at[s] = "find_review"
  /\ \/ /\ review[target[s]] = None
        /\ seen[s] = "awaiting_human_review"
        /\ Continue(s, "mark")
     \/ /\ review[target[s]] # None \/ seen[s] # "awaiting_human_review"
        /\ ToIdle(s)
  /\ UNCHANGED <<runVars, threadVars, execVars, faults>>

\* UPDATE ... WHERE id: whatever the status has become since it was loaded.
MarkProcessing(s) ==
  /\ at[s] = "mark"
  /\ SetStatus(target[s], "review_processing")
  /\ Continue(s, "invoke")
  /\ UNCHANGED <<report, review, reviewKey, threadVars, execVars, faults>>

\* graph.invoke(Command(resume=...)): only a thread that stands before
\* human_review takes the submitted decision; one that is further returns the
\* decision it has.
ResumeThread(s) ==
  /\ at[s] = "invoke"
  /\ \/ /\ thread[target[s]] = "human_review"
        /\ answer' = [answer EXCEPT ![s] = choice[s]]
        /\ Goto(s, "record")
     \/ /\ thread[target[s]] # "human_review"
        /\ answer' = [answer EXCEPT ![s] = verdict[target[s]]]
        /\ \/ thread[target[s]] = "finalize" /\ Goto(s, "finalize")
           \/ thread[target[s]] # "finalize" /\ Goto(s, "store")
  /\ UNCHANGED <<runVars, threadVars, execVars, target, choice, key, seen, faults>>

\* Mutant: human_review_node returns no human_review.
CheckpointNode(s, node) ==
  /\ thread' = [thread EXCEPT ![target[s]] = node]
  /\ UNCHANGED verdict

Checkpoint(s, node) ==
  /\ thread' = [thread EXCEPT ![target[s]] = node]
  /\ verdict' = [verdict EXCEPT ![target[s]] = answer[s]]

RecordDecision(s) ==
  /\ at[s] = "record"
  /\ Checkpoint(s, "finalize")
  /\ Continue(s, "finalize")
  /\ UNCHANGED <<runVars, execVars, faults>>

FinalizeDecision(s) ==
  /\ at[s] = "finalize"
  /\ Checkpoint(s, "end")
  /\ Continue(s, "store")
  /\ UNCHANGED <<runVars, execVars, faults>>

GraphRaises(s) ==
  /\ \/ at[s] \in {"invoke", "record"} /\ Fault("invoke_error")
     \/ at[s] = "finalize" /\ Fault("finalize_error")
  /\ Continue(s, "rollback_read")
  /\ UNCHANGED <<runVars, threadVars, execVars>>

\* One review per run, one per idempotency key of the organization.
Insertable(s) ==
  /\ review[target[s]] = None
  /\ key[s] = NoKey \/ \A r \in Runs : reviewKey[r] # key[s]

\* Mutant: the status without the review.
StatusOnly(s) ==
  /\ answer[s] # None
  /\ Insertable(s)
  /\ SetStatus(target[s], StatusOf(answer[s]))
  /\ UNCHANGED <<report, review, reviewKey>>

\* Mutant: the review without the status.
ReviewOnly(s) ==
  /\ answer[s] # None
  /\ Insertable(s)
  /\ review' = [review EXCEPT ![target[s]] = choice[s]]
  /\ reviewKey' = [reviewKey EXCEPT ![target[s]] = key[s]]
  /\ UNCHANGED <<report, status>>

InsertReview(s) ==
  /\ answer[s] # None
  /\ Insertable(s)
  /\ review' = [review EXCEPT ![target[s]] = choice[s]]
  /\ reviewKey' = [reviewKey EXCEPT ![target[s]] = key[s]]
  /\ SetStatus(target[s], StatusOf(answer[s]))
  /\ UNCHANGED report

\* The review and the status the graph returned, in one commit.
StoreReview(s) ==
  /\ at[s] = "store"
  /\ \/ InsertReview(s) /\ ToIdle(s)
     \/ /\ answer[s] = None \/ ~Insertable(s)
        /\ Continue(s, "rollback_read")
        /\ UNCHANGED runVars
  /\ UNCHANGED <<threadVars, execVars, faults>>

StoreFails(s) ==
  /\ at[s] = "store"
  /\ \/ Fault("commit_error") /\ UNCHANGED runVars
     \/ Fault("commit_lost") /\ InsertReview(s)
  /\ Continue(s, "rollback_read")
  /\ UNCHANGED <<threadVars, execVars>>

\* The except clause: read the row again ...
RollbackRead(s) ==
  /\ at[s] = "rollback_read"
  /\ seen' = [seen EXCEPT ![s] = status[target[s]]]
  /\ Goto(s, "rollback_commit")
  /\ UNCHANGED <<runVars, threadVars, execVars, target, choice, key, answer, faults>>

\* Mutant: the row is only read again.
RollbackUnsaved(s) ==
  /\ at[s] = "rollback_commit"
  /\ ToIdle(s)
  /\ UNCHANGED <<runVars, threadVars, execVars, faults>>

\* ... and make it await review again; an assignment of the value read is no
\* UPDATE.
RollbackCommit(s) ==
  /\ at[s] = "rollback_commit"
  /\ \/ /\ seen[s] # "awaiting_human_review"
        /\ SetStatus(target[s], "awaiting_human_review")
     \/ seen[s] = "awaiting_human_review" /\ UNCHANGED status
  /\ ToIdle(s)
  /\ UNCHANGED <<report, review, reviewKey, threadVars, execVars, faults>>

SubmitDies(s) ==
  /\ at[s] # "idle"
  /\ UNCHANGED <<runVars, threadVars, execVars>>
  /\ Abandon("submit_crash", target[s])
  /\ ToIdle(s)

\* The commit before the try, the read of the except clause or its commit raises,
\* the commits executed or not.
SubmitAborts(s) ==
  /\ at[s] \in {"mark", "rollback_read", "rollback_commit"}
  /\ \/ UNCHANGED status
     \/ at[s] = "mark" /\ SetStatus(target[s], "review_processing")
     \/ /\ at[s] = "rollback_commit" /\ seen[s] # "awaiting_human_review"
        /\ SetStatus(target[s], "awaiting_human_review")
  /\ Abandon("submit_abort", target[s])
  /\ ToIdle(s)
  /\ UNCHANGED <<report, review, reviewKey, threadVars, execVars>>

-----------------------------------------------------------------------------
Execution(r) ==
  \/ ExecuteStart(r) \/ AnalyseEvidence(r) \/ StoreResult(r) \/ ExecuteFailed(r)

Submission(s) ==
  \/ FindReview(s) \/ MarkProcessing(s) \/ ResumeThread(s) \/ RecordDecision(s)
  \/ FinalizeDecision(s) \/ StoreReview(s) \/ RollbackRead(s)
  \/ RollbackCommit(s)

Failure ==
  \/ \E r \in Runs :
       ExecuteRaises(r) \/ StoreResultRaises(r) \/ CreateDies(r) \/ CreateAborts(r)
  \/ \E s \in Requests :
       GraphRaises(s) \/ StoreFails(s) \/ SubmitDies(s) \/ SubmitAborts(s)

Submit(s) ==
  \E r \in Runs, d \in Decisions, k \in Keys \cup {NoKey} : LoadRun(s, r, d, k)

Next ==
  \/ \E r \in Runs : CreateRun(r) \/ Execution(r)
  \/ \E s \in Requests : Submit(s) \/ Submission(s)
  \/ Failure

Spec == Init /\ [][Next]_vars

\* A request that was started is worked on until it is answered or dies.
FairSpec ==
  /\ Spec
  /\ \A r \in Runs : WF_vars(Execution(r))
  /\ \A s \in Requests : WF_vars(Submission(s))

-----------------------------------------------------------------------------
TypeOK ==
  /\ status \in [Runs -> Statuses]
  /\ report \in [Runs -> {"none", "invalid", "valid"}]
  /\ review \in [Runs -> Decisions \cup {None}]
  /\ reviewKey \in [Runs -> Keys \cup {NoKey}]
  /\ thread \in [Runs -> {"none", "human_review", "finalize", "end"}]
  /\ verdict \in [Runs -> Decisions \cup {None}]
  /\ exec \in [Runs -> ExecPoints]
  /\ result \in [Runs -> GraphResults]
  /\ at \in [Requests -> SubmitPoints]
  /\ target \in [Requests -> Runs \cup {None}]
  /\ choice \in [Requests -> Decisions]
  /\ key \in [Requests -> Keys \cup {NoKey}]
  /\ seen \in [Requests -> Statuses]
  /\ answer \in [Requests -> Decisions \cup {None}]
  /\ faults \in [number : Nat, left : SUBSET Runs]
  /\ \A s \in Requests : at[s] # "idle" => target[s] \in Runs

\* No run gets a final status without a recorded human review, whatever fails
\* and however submissions overlap (resume_with_review).
FinalNeedsReview == \A r \in Runs : status[r] \in Final => review[r] # None

\* Only a report that passed the automated validation is ever offered for review,
\* reviewed or given a final status (execute_run and resume_with_review).
ReviewNeedsValidReport ==
  \A r \in Runs :
    \/ review[r] # None
    \/ status[r] \in Final \cup {"awaiting_human_review", "review_processing"}
    => report[r] = "valid"

\* A run that failed stays failed: no submission that read it earlier brings it
\* back (the blind writes of resume_with_review), as long as execute_run does not
\* take a stored result for a failure ("create_lost").
FailedIsFinal ==
  [][\A r \in Runs : status[r] \in Failed => status'[r] = status[r]]_vars

\* A recorded review is the run's status, for good: approved runs are completed,
\* the others rejected or sent back (StoreReview against every other writer).
ReviewDecidesStatus ==
  \A r \in Runs : review[r] # None => status[r] = StatusOf(review[r])

\* The graph's checkpoint and the database agree on what the human decided.
StoresAgree == \A r \in Runs : review[r] # None => review[r] = verdict[r]

\* Errors of the provider, the graph and the checkpointer end an analysis
\* (expert_review_runs.py:205-206): a run is running for good only if a request
\* left it so, by its death or by a commit that execute_run does not recover from.
AnalysisEnds ==
  \A r \in Runs : status[r] = "running" ~> status[r] # "running" \/ r \in faults.left

\* However submissions overlap, and whatever raises once the try of
\* resume_with_review is entered, a run is in review_processing for good only if a
\* request left it so: it died, its commit before the try raised, or its except
\* clause did.
ProcessingEnds ==
  \A r \in Runs :
    status[r] = "review_processing"
      ~> status[r] # "review_processing" \/ r \in faults.left

\* tests/test_expert_review_graph.py:147: a run a human rejected is not completed.
RejectionDoesNotComplete ==
  \A r \in Runs : review[r] = "rejected" => status[r] # "completed"
=============================================================================
