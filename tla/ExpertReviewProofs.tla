------------------------ MODULE ExpertReviewProofs -------------------------
(***************************************************************************)
(* Theorems about expert reviews, for any number of runs and of overlapping *)
(* submissions, whatever fails.                                            *)
(***************************************************************************)
EXTENDS ExpertReview, TLAPS

\* Every step keeps each variable in its type.
LEMMA TypeOKStep == TypeOK /\ [Next]_vars => TypeOK'
<1> SUFFICES ASSUME TypeOK, [Next]_vars PROVE TypeOK'
  OBVIOUS
<1> USE NoneAssumption, FaultsAssumption
<1> USE DEF TypeOK, runVars, threadVars, execVars, requestVars, Statuses,
            Final, Failed, GraphResults, ExecPoints, SubmitPoints, Decisions,
            StatusOf,
            ReportOf, WriteResult, Fault, Abandon, FaultOf, SetStatus, ExecGoto, Goto,
            Continue, ToIdle
<1>1. ASSUME NEW r \in Runs,
             \/ CreateRun(r) \/ Execution(r)
             \/ ExecuteRaises(r) \/ StoreResultRaises(r)
             \/ CreateDies(r) \/ CreateAborts(r)
      PROVE  TypeOK'
  <2>1. CASE CreateRun(r) BY <2>1 DEF CreateRun
  <2>2. CASE ExecuteStart(r) BY <2>2 DEF ExecuteStart
  <2>3. CASE AnalyseEvidence(r) BY <2>3 DEF AnalyseEvidence, GraphReturns
  <2>4. CASE StoreResult(r) BY <2>4 DEF StoreResult
  <2>5. CASE ExecuteFailed(r) BY <2>5 DEF ExecuteFailed
  <2>6. CASE ExecuteRaises(r) BY <2>6 DEF ExecuteRaises
  <2>7. CASE CreateDies(r) BY <2>7 DEF CreateDies
  <2>8. CASE StoreResultRaises(r) BY <2>8 DEF StoreResultRaises
  <2>9. CASE CreateAborts(r) BY <2>9 DEF CreateAborts
  <2> QED BY <1>1, <2>1, <2>2, <2>3, <2>4, <2>5, <2>6, <2>7, <2>8, <2>9
          DEF Execution
<1>2. ASSUME NEW s \in Requests,
             \/ Submit(s) \/ Submission(s)
             \/ GraphRaises(s) \/ StoreFails(s)
             \/ SubmitDies(s) \/ SubmitAborts(s)
      PROVE  TypeOK'
  <2>1. CASE Submit(s) BY <2>1 DEF Submit, LoadRun
  <2>2. CASE FindReview(s) BY <2>2 DEF FindReview
  <2>3. CASE MarkProcessing(s) BY <2>3 DEF MarkProcessing
  <2>4. CASE ResumeThread(s) BY <2>4 DEF ResumeThread
  <2>5. CASE RecordDecision(s) BY <2>5 DEF RecordDecision, Checkpoint
  <2>6. CASE FinalizeDecision(s) BY <2>6 DEF FinalizeDecision, Checkpoint
  <2>7. CASE StoreReview(s)
    <3>1. at[s] = "store" /\ target[s] \in Runs
      BY <2>7 DEF StoreReview
    <3>2. CASE InsertReview(s) /\ ToIdle(s)
      <4>1. StatusOf(answer[s]) \in Statuses
        BY <3>2 DEF InsertReview
      <4>2. status' \in [Runs -> Statuses]
        BY <3>1, <3>2, <4>1 DEF InsertReview
      <4> QED BY <2>7, <3>1, <3>2, <4>2 DEF StoreReview, InsertReview
    <3>3. CASE Continue(s, "rollback_read") /\ UNCHANGED runVars
      BY <2>7, <3>1, <3>3 DEF StoreReview
    <3> QED BY <2>7, <3>2, <3>3 DEF StoreReview
  <2>8. CASE RollbackRead(s) BY <2>8 DEF RollbackRead
  <2>9. CASE RollbackCommit(s) BY <2>9 DEF RollbackCommit
  <2>10. CASE GraphRaises(s) BY <2>10 DEF GraphRaises
  <2>11. CASE StoreFails(s) BY <2>11 DEF StoreFails, InsertReview
  <2>12. CASE SubmitDies(s) BY <2>12 DEF SubmitDies
  <2>13. CASE SubmitAborts(s) BY <2>13 DEF SubmitAborts
  <2> QED BY <1>2, <2>1, <2>2, <2>3, <2>4, <2>5, <2>6, <2>7, <2>8, <2>9,
             <2>10, <2>11, <2>12, <2>13 DEF Submission
<1>3. CASE UNCHANGED vars BY <1>3 DEF vars
<1> QED BY <1>1, <1>2, <1>3 DEF Next, Failure

\* The variables of ExpertReview always have their types.
THEOREM TypeCorrect == Spec => []TypeOK
<1>1. Init => TypeOK
  BY DEF Init, TypeOK, Statuses, Final, Failed, GraphResults, ExecPoints,
         SubmitPoints, Decisions
<1>2. QED BY <1>1, TypeOKStep, PTL DEF Spec

-----------------------------------------------------------------------------
(* The report is stored once, by the analysis, before any submission can   *)
(* write the row: a submission that may still write has seen the run       *)
(* awaiting review.                                                        *)

\* Where the analysis of a run may still write its row.
Analysing == {"created", "invoke", "store"}

\* A failure may be written over a stored result.
LosesResults == "create_lost" \in Faults

Reviewable(r) ==
  /\ status[r] = "absent" => exec[r] = "none"
  /\ exec[r] = "none" => status[r] = "absent"
  /\ exec[r] = "created" => status[r] = "queued"
  /\ exec[r] \in {"invoke", "store"} => status[r] = "running"
  /\ exec[r] \in Analysing \cup {"none"} => report[r] = "none"
  /\ exec[r] = "fail" /\ ~LosesResults
       => status[r] = "running" /\ report[r] = "none"
  /\ report[r] = "valid" => exec[r] \in {"fail", "answered"}
  /\ report[r] = "valid" /\ status[r] \in Failed => LosesResults
  /\ status[r] \in Final => review[r] # None
  /\ review[r] # None => report[r] = "valid"
  /\ status[r] \in Final \cup {"awaiting_human_review", "review_processing"}
       => report[r] = "valid"

Entitled(s) ==
  /\ at[s] = "find_review" /\ seen[s] = "awaiting_human_review"
       => report[target[s]] = "valid"
  /\ at[s] \notin {"idle", "find_review"} => report[target[s]] = "valid"

ReviewInv ==
  /\ \A r \in Runs : Reviewable(r)
  /\ \A s \in Requests : Entitled(s)

\* Every step keeps ReviewInv: the analysis stores a valid report as its last
\* write, and a submission writes only rows whose report is valid.
LEMMA ReviewStep == TypeOK /\ ReviewInv /\ [Next]_vars => ReviewInv'
<1> SUFFICES ASSUME TypeOK, ReviewInv, [Next]_vars PROVE ReviewInv'
  OBVIOUS
<1> USE NoneAssumption
<1> USE DEF TypeOK, ReviewInv, Reviewable, Entitled, Analysing, LosesResults,
            runVars, threadVars, execVars, requestVars, Statuses, Final, Failed,
            GraphResults, ExecPoints, SubmitPoints, Decisions, StatusOf,
            ReportOf, WriteResult, Fault, Abandon, FaultOf, SetStatus, ExecGoto, Goto,
            Continue, ToIdle
<1>1. ASSUME NEW r \in Runs,
             \/ CreateRun(r) \/ Execution(r)
             \/ ExecuteRaises(r) \/ StoreResultRaises(r)
             \/ CreateDies(r) \/ CreateAborts(r)
      PROVE  ReviewInv'
  <2>1. CASE CreateRun(r) BY <2>1 DEF CreateRun
  <2>2. CASE ExecuteStart(r) BY <2>2 DEF ExecuteStart
  <2>3. CASE AnalyseEvidence(r) BY <2>3 DEF AnalyseEvidence, GraphReturns
  <2>4. CASE StoreResult(r) BY <2>4 DEF StoreResult
  <2>5. CASE ExecuteFailed(r) BY <2>5 DEF ExecuteFailed
  <2>6. CASE ExecuteRaises(r) BY <2>6 DEF ExecuteRaises
  <2>7. CASE CreateDies(r) BY <2>7 DEF CreateDies
  <2>8. CASE StoreResultRaises(r) BY <2>8 DEF StoreResultRaises
  <2>9. CASE CreateAborts(r) BY <2>9 DEF CreateAborts
  <2> QED BY <1>1, <2>1, <2>2, <2>3, <2>4, <2>5, <2>6, <2>7, <2>8, <2>9
          DEF Execution
<1>2. ASSUME NEW s \in Requests,
             \/ Submit(s) \/ Submission(s)
             \/ GraphRaises(s) \/ StoreFails(s)
             \/ SubmitDies(s) \/ SubmitAborts(s)
      PROVE  ReviewInv'
  <2>1. CASE Submit(s) BY <2>1 DEF Submit, LoadRun
  <2>2. CASE FindReview(s) BY <2>2 DEF FindReview
  <2>3. CASE MarkProcessing(s) BY <2>3 DEF MarkProcessing
  <2>4. CASE ResumeThread(s) BY <2>4 DEF ResumeThread
  <2>5. CASE RecordDecision(s) BY <2>5 DEF RecordDecision, Checkpoint
  <2>6. CASE FinalizeDecision(s) BY <2>6 DEF FinalizeDecision, Checkpoint
  <2>7. CASE StoreReview(s) BY <2>7 DEF StoreReview, InsertReview
  <2>8. CASE RollbackRead(s) BY <2>8 DEF RollbackRead
  <2>9. CASE RollbackCommit(s) BY <2>9 DEF RollbackCommit
  <2>10. CASE GraphRaises(s) BY <2>10 DEF GraphRaises
  <2>11. CASE StoreFails(s) BY <2>11 DEF StoreFails, InsertReview
  <2>12. CASE SubmitDies(s) BY <2>12 DEF SubmitDies
  <2>13. CASE SubmitAborts(s) BY <2>13 DEF SubmitAborts
  <2> QED BY <1>2, <2>1, <2>2, <2>3, <2>4, <2>5, <2>6, <2>7, <2>8, <2>9,
             <2>10, <2>11, <2>12, <2>13 DEF Submission
<1>3. CASE UNCHANGED vars BY <1>3 DEF vars
<1> QED BY <1>1, <1>2, <1>3 DEF Next, Failure

\* The invariant holds of every behaviour.
THEOREM ReviewInvariant == Spec => [](TypeOK /\ ReviewInv)
<1>1. Init => TypeOK /\ ReviewInv
  BY DEF Init, TypeOK, ReviewInv, Reviewable, Entitled, Analysing,
         LosesResults, Statuses, Final, Failed, GraphResults, ExecPoints,
         SubmitPoints, Decisions
<1>2. QED BY <1>1, TypeOKStep, ReviewStep, PTL DEF Spec

\* No run is completed, rejected or sent back without a recorded human review.
THEOREM FinalReviewed == Spec => []FinalNeedsReview
<1>1. ReviewInv => FinalNeedsReview
  BY DEF ReviewInv, Reviewable, FinalNeedsReview
<1>2. QED BY <1>1, ReviewInvariant, PTL

\* Only a report that passed its validation is offered for review or reviewed.
THEOREM OnlyValidReviewed == Spec => []ReviewNeedsValidReport
<1>1. ReviewInv => ReviewNeedsValidReport
  BY DEF ReviewInv, Reviewable, ReviewNeedsValidReport
<1>2. QED BY <1>1, ReviewInvariant, PTL

\* No step brings a failed run back, if no failure is written over a stored
\* result: the writers of a row are its analysis, which has ended, and
\* submissions, which only write rows with a valid report.
THEOREM FailureFinal == ASSUME "create_lost" \notin Faults
                        PROVE  Spec => FailedIsFinal
<1>1. TypeOK /\ ReviewInv /\ [Next]_vars
        => [\A r \in Runs : status[r] \in Failed => status'[r] = status[r]]_vars
  <2> SUFFICES ASSUME TypeOK, ReviewInv, [Next]_vars,
                      NEW r \in Runs, status[r] \in Failed
               PROVE  status'[r] = status[r]
    OBVIOUS
  <2>1. /\ status[r] # "absent" /\ report[r] # "valid"
        /\ exec[r] \notin Analysing \cup {"fail"}
    BY DEF TypeOK, ReviewInv, Reviewable, LosesResults, Failed, Analysing
  <2>2. \A s \in Requests : at[s] \notin {"idle", "find_review"}
                             => target[s] # r
    BY <2>1 DEF ReviewInv, Entitled
  <2> QED
    BY <2>1, <2>2 DEF TypeOK, Next, Failure, Execution, Submission, vars,
       runVars, SetStatus, CreateRun, ExecuteStart, AnalyseEvidence,
       GraphReturns, WriteResult, StoreResult, StoreResultRaises, ExecuteFailed,
       ExecuteRaises, CreateDies, CreateAborts, Analysing, Submit, LoadRun, FindReview, MarkProcessing, ResumeThread,
       RecordDecision, FinalizeDecision, StoreReview, InsertReview, StoreFails,
       GraphRaises, RollbackRead, RollbackCommit, SubmitDies, SubmitAborts
<1>2. QED BY <1>1, ReviewInvariant, PTL DEF Spec, FailedIsFinal
-----------------------------------------------------------------------------
(* Submissions of a run that do not overlap: what the reviewer decided is  *)
(* what both stores hold.                                                  *)

\* The analysis may fail, abort and die, and so may a submission, anywhere; but the
\* except clause is not entered once the graph has saved the decision.
OnlyEarlyFaults ==
  Faults \subseteq {"create_crash", "create_error", "create_abort", "invoke_error",
                    "submit_crash", "submit_abort"}

\* No two submissions of one run are in progress, and none brings the idempotency
\* key of another run's review; repeating a submission with its own key is allowed.
Undisturbed ==
  \A s \in Requests : at[s] # "idle" =>
    /\ \A t \in Requests : at[t] # "idle" /\ target[t] = target[s] => t = s
    /\ key[s] = NoKey \/ \A r \in Runs : r # target[s] => reviewKey[r] # key[s]

\* A run that is offered for review has its graph before human_review, and a run
\* with a review has it at the end, with the decision.
Settled(r) ==
  /\ exec[r] = "store" /\ result[r] = "awaiting_human_review"
       => thread[r] = "human_review"
  /\ status[r] = "awaiting_human_review"
       => thread[r] = "human_review" /\ review[r] = None
  /\ review[r] # None => status[r] = StatusOf(review[r]) /\ review[r] = verdict[r]
  /\ review[r] = None => reviewKey[r] = NoKey

\* What a submission relies on still holds, at each of its steps.
Undisturbing(s) ==
  /\ at[s] = "find_review" /\ seen[s] = "awaiting_human_review"
       => status[target[s]] = "awaiting_human_review"
  /\ at[s] = "mark" => status[target[s]] = "awaiting_human_review"
  /\ at[s] \notin {"idle", "find_review", "mark"} =>
       /\ status[target[s]] = "review_processing"
       /\ review[target[s]] = None
  /\ at[s] \in {"invoke", "record", "rollback_read", "rollback_commit"}
       => thread[target[s]] = "human_review"
  /\ at[s] = "finalize" => thread[target[s]] = "finalize"
  /\ at[s] \in {"record", "finalize", "store"} => answer[s] = choice[s]
  /\ at[s] \in {"finalize", "store"} => verdict[target[s]] = choice[s]

DecisionInv ==
  /\ \A r \in Runs : Settled(r)
  /\ \A s \in Requests : Undisturbing(s)

\* Every step keeps DecisionInv: the one submission of a run finds its graph and
\* its row as it left them, and the analysis of the run has ended.
LEMMA DecisionStep ==
  ASSUME OnlyEarlyFaults, Undisturbed, TypeOK, ReviewInv, DecisionInv,
         [Next]_vars
  PROVE  DecisionInv'
<1>0. /\ "commit_error" \notin Faults /\ "commit_lost" \notin Faults
      /\ ~LosesResults
  BY DEF OnlyEarlyFaults, LosesResults
<1> USE NoneAssumption, NoKeyAssumption
<1> USE DEF OnlyEarlyFaults, Undisturbed, DecisionInv, Settled, Undisturbing,
            TypeOK, ReviewInv, Reviewable, Entitled, Analysing, LosesResults,
            runVars, threadVars, execVars, requestVars, Statuses, Final, Failed,
            GraphResults, ExecPoints, SubmitPoints, Decisions, StatusOf,
            ReportOf, WriteResult, Fault, Abandon, FaultOf, SetStatus, ExecGoto, Goto, Continue,
            ToIdle
<1>1. ASSUME NEW r \in Runs,
             \/ CreateRun(r) \/ Execution(r)
             \/ ExecuteRaises(r) \/ StoreResultRaises(r)
             \/ CreateDies(r) \/ CreateAborts(r)
      PROVE  DecisionInv'
  <2>1. CASE CreateRun(r) BY <2>1 DEF CreateRun
  <2>2. CASE ExecuteStart(r) BY <2>2 DEF ExecuteStart
  <2>3. CASE AnalyseEvidence(r) BY <2>3 DEF AnalyseEvidence, GraphReturns
  <2>4. CASE StoreResult(r)
    <3>1. \A s \in Requests : at[s] \notin {"idle", "find_review"} => target[s] # r
      BY <2>4 DEF StoreResult
    <3>2. \A s \in Requests : Undisturbing(s)'
      BY <2>4, <3>1 DEF StoreResult
    <3>3. \A q \in Runs : Settled(q)'
      BY <2>4 DEF StoreResult
    <3> QED BY <3>2, <3>3
  <2>5. CASE ExecuteFailed(r)
    <3>0. /\ status[r] = "running"
          /\ \A s \in Requests : at[s] \notin {"idle", "find_review"} => target[s] # r
      BY <1>0, <2>5 DEF ExecuteFailed
    <3>1. \A s \in Requests : Undisturbing(s)'
      BY <2>5, <3>0 DEF ExecuteFailed
    <3>2. review[r] = None
      BY <1>0, <2>5 DEF ExecuteFailed
    <3>3. \A q \in Runs : Settled(q)'
      BY <2>5, <3>2 DEF ExecuteFailed
    <3> QED BY <3>1, <3>3
  <2>6. CASE ExecuteRaises(r) BY <2>6 DEF ExecuteRaises
  <2>7. CASE CreateDies(r) BY <2>7 DEF CreateDies
  <2>8. CASE StoreResultRaises(r) BY <2>8 DEF StoreResultRaises
  <2>9. CASE CreateAborts(r) BY <2>9 DEF CreateAborts
  <2> QED BY <1>1, <2>1, <2>2, <2>3, <2>4, <2>5, <2>6, <2>7, <2>8, <2>9
          DEF Execution
<1>2. ASSUME NEW s \in Requests,
             \/ Submit(s) \/ Submission(s)
             \/ GraphRaises(s) \/ StoreFails(s)
             \/ SubmitDies(s) \/ SubmitAborts(s)
      PROVE  DecisionInv'
  <2>1. CASE Submit(s) BY <2>1 DEF Submit, LoadRun
  <2>2. CASE FindReview(s) BY <2>2 DEF FindReview
  <2>3. CASE MarkProcessing(s) BY <2>3 DEF MarkProcessing
  <2>4. CASE ResumeThread(s) BY <2>4 DEF ResumeThread
  <2>5. CASE RecordDecision(s) BY <2>5 DEF RecordDecision, Checkpoint
  <2>6. CASE FinalizeDecision(s) BY <2>6 DEF FinalizeDecision, Checkpoint
  <2>7. CASE StoreReview(s)
    <3>1. InsertReview(s) /\ ToIdle(s)
      <4>1. at[s] = "store" /\ target[s] \in Runs
        BY <2>7 DEF StoreReview
      <4>2. answer[s] # None /\ review[target[s]] = None
        BY <4>1
      <4>3. Insertable(s)
        BY <4>1, <4>2 DEF Insertable
      <4> QED BY <2>7, <4>2, <4>3 DEF StoreReview
    <3>2. /\ at[s] = "store" /\ target[s] \in Runs
          /\ answer[s] = choice[s] /\ verdict[target[s]] = choice[s]
      BY <2>7 DEF StoreReview
    <3>3. \A r \in Runs : Settled(r)'
      BY <2>7, <3>1, <3>2 DEF StoreReview, InsertReview
    <3>4. ASSUME NEW t \in Requests PROVE Undisturbing(t)'
      <4>1. CASE t = s BY <2>7, <3>1, <3>2, <4>1 DEF StoreReview, InsertReview
      <4>2. CASE t # s
        <5>1. at[t] # "idle" => target[t] # target[s] /\ target[t] \in Runs
          BY <3>2, <4>2
        <5> QED BY <2>7, <3>1, <3>2, <4>2, <5>1 DEF StoreReview, InsertReview
      <4> QED BY <4>1, <4>2
    <3> QED BY <3>3, <3>4
  <2>8. CASE RollbackRead(s) BY <2>8 DEF RollbackRead
  <2>9. CASE RollbackCommit(s) BY <2>9 DEF RollbackCommit
  <2>10. CASE GraphRaises(s)
    <3>1. at[s] \in {"invoke", "record"} /\ Continue(s, "rollback_read")
      BY <2>10 DEF GraphRaises
    <3> QED BY <2>10, <3>1 DEF GraphRaises
  <2>11. CASE StoreFails(s)
    <3>1. Fault("commit_error") \/ Fault("commit_lost")
      BY <2>11 DEF StoreFails
    <3> QED BY <1>0, <3>1 DEF Fault, FaultOf
  <2>12. CASE SubmitDies(s) BY <2>12 DEF SubmitDies
  <2>13. CASE SubmitAborts(s) BY <2>13 DEF SubmitAborts
  <2> QED BY <1>2, <2>1, <2>2, <2>3, <2>4, <2>5, <2>6, <2>7, <2>8, <2>9,
             <2>10, <2>11, <2>12, <2>13 DEF Submission
<1>3. CASE UNCHANGED vars BY <1>3 DEF vars
<1> QED BY <1>1, <1>2, <1>3 DEF Next, Failure

\* The invariant holds of every behaviour whose submissions do not overlap.
THEOREM DecisionInvariant ==
  ASSUME OnlyEarlyFaults PROVE Spec /\ []Undisturbed => []DecisionInv
<1>1. Init => DecisionInv
  BY DEF Init, DecisionInv, Settled, Undisturbing
<1>2. Undisturbed /\ TypeOK /\ ReviewInv /\ DecisionInv /\ [Next]_vars
        => DecisionInv'
  BY DecisionStep
<1> QED BY <1>1, <1>2, ReviewInvariant, PTL DEF Spec

\* A recorded review is the run's status, for good, however many runs are
\* reviewed at once, if the submissions of one run do not overlap.
THEOREM ReviewDecides ==
  ASSUME OnlyEarlyFaults PROVE Spec /\ []Undisturbed => []ReviewDecidesStatus
<1>1. DecisionInv => ReviewDecidesStatus
  BY DEF DecisionInv, Settled, ReviewDecidesStatus
<1> QED BY <1>1, DecisionInvariant, PTL

\* The checkpoint and the database then agree on what the human decided, whatever
\* dies between the commits of the two stores.
THEOREM StoresAgreeing ==
  ASSUME OnlyEarlyFaults PROVE Spec /\ []Undisturbed => []StoresAgree
<1>1. DecisionInv => StoresAgree
  BY DEF DecisionInv, Settled, StoresAgree
<1> QED BY <1>1, DecisionInvariant, PTL

\* Then a rejection never completes its run: what review_key finds takes a second
\* submission of the run, or the key of another run's review.
THEOREM RejectionStands ==
  ASSUME OnlyEarlyFaults PROVE Spec /\ []Undisturbed => []RejectionDoesNotComplete
<1>1. TypeOK /\ DecisionInv => RejectionDoesNotComplete
  BY NoneAssumption
     DEF TypeOK, DecisionInv, Settled, StatusOf, Decisions, RejectionDoesNotComplete
<1> QED BY <1>1, DecisionInvariant, TypeCorrect, PTL

\* One reviewer who submits one decision at a time, without a key, is never
\* disturbed.
THEOREM OneReviewer ==
  ASSUME OnlyEarlyFaults, Keys = {}, \A s, t \in Requests : s = t
  PROVE  Spec => [](ReviewDecidesStatus /\ StoresAgree)
<1>1. TypeOK => Undisturbed
  BY DEF TypeOK, Undisturbed
<1> QED BY <1>1, TypeCorrect, ReviewDecides, StoresAgreeing, PTL
-----------------------------------------------------------------------------
(* What AnalysisEnds and ProcessingEnds rest on: a run that is being       *)
(* analysed or reviewed has a request that will write its status.          *)

\* The submission will store a final status or give the run back: a rollback
\* that read awaiting_human_review writes nothing.
WillWrite(s) ==
  \/ at[s] \in {"invoke", "record", "finalize", "store", "rollback_read"}
  \/ at[s] = "rollback_commit" /\ seen[s] # "awaiting_human_review"

AnalysisAttended ==
  \A r \in Runs :
    status[r] = "running" => exec[r] \in {"invoke", "store", "fail"} \/ r \in faults.left

ReviewAttended ==
  \A r \in Runs :
    status[r] = "review_processing"
      => r \in faults.left \/ \E s \in Requests : target[s] = r /\ WillWrite(s)

\* Every step keeps ReviewAttended: a submission leaves its run with another
\* status, or to a submission that marked it later.
LEMMA AttendedStep ==
  TypeOK /\ AnalysisAttended /\ ReviewAttended /\ [Next]_vars
    => AnalysisAttended' /\ ReviewAttended'
<1> SUFFICES ASSUME TypeOK, AnalysisAttended, ReviewAttended, [Next]_vars,
                    NEW q \in Runs
             PROVE  /\ status'[q] = "running"
                         => exec'[q] \in {"invoke", "store", "fail"} \/ q \in faults'.left
                    /\ status'[q] = "review_processing"
                         => \/ q \in faults'.left
                            \/ \E s \in Requests : target'[s] = q /\ WillWrite(s)'
  BY DEF AnalysisAttended, ReviewAttended
<1> USE NoneAssumption
<1> USE DEF TypeOK, AnalysisAttended, ReviewAttended, WillWrite,
            runVars, threadVars, execVars, requestVars, Statuses, Final, Failed,
            GraphResults, ExecPoints, SubmitPoints, Decisions, StatusOf,
            ReportOf, WriteResult, Fault, Abandon, FaultOf, SetStatus, ExecGoto, Goto,
            Continue, ToIdle
<1>1. ASSUME NEW r \in Runs,
             \/ CreateRun(r) \/ Execution(r)
             \/ ExecuteRaises(r) \/ StoreResultRaises(r)
             \/ CreateDies(r) \/ CreateAborts(r)
      PROVE  /\ status'[q] = "running"
                  => exec'[q] \in {"invoke", "store", "fail"} \/ q \in faults'.left
             /\ status'[q] = "review_processing"
                  => \/ q \in faults'.left
                     \/ \E s \in Requests : target'[s] = q /\ WillWrite(s)'
  <2>1. CASE CreateRun(r) BY <2>1 DEF CreateRun
  <2>2. CASE ExecuteStart(r) BY <2>2 DEF ExecuteStart
  <2>3. CASE AnalyseEvidence(r) BY <2>3 DEF AnalyseEvidence, GraphReturns
  <2>4. CASE StoreResult(r) BY <2>4 DEF StoreResult
  <2>5. CASE ExecuteFailed(r) BY <2>5 DEF ExecuteFailed
  <2>6. CASE ExecuteRaises(r) BY <2>6 DEF ExecuteRaises
  <2>7. CASE CreateDies(r) BY <2>7 DEF CreateDies
  <2>8. CASE StoreResultRaises(r) BY <2>8 DEF StoreResultRaises
  <2>9. CASE CreateAborts(r) BY <2>9 DEF CreateAborts
  <2> QED BY <1>1, <2>1, <2>2, <2>3, <2>4, <2>5, <2>6, <2>7, <2>8, <2>9
          DEF Execution
<1>2. ASSUME NEW s \in Requests,
             \/ Submit(s) \/ Submission(s)
             \/ GraphRaises(s) \/ StoreFails(s)
             \/ SubmitDies(s) \/ SubmitAborts(s)
      PROVE  /\ status'[q] = "running"
                  => exec'[q] \in {"invoke", "store", "fail"} \/ q \in faults'.left
             /\ status'[q] = "review_processing"
                  => \/ q \in faults'.left
                     \/ \E t \in Requests : target'[t] = q /\ WillWrite(t)'
  <2>1. CASE Submit(s) BY <2>1 DEF Submit, LoadRun
  <2>2. CASE FindReview(s) BY <2>2 DEF FindReview
  <2>3. CASE MarkProcessing(s) BY <2>3 DEF MarkProcessing
  <2>4. CASE ResumeThread(s) BY <2>4 DEF ResumeThread
  <2>5. CASE RecordDecision(s) BY <2>5 DEF RecordDecision, Checkpoint
  <2>6. CASE FinalizeDecision(s) BY <2>6 DEF FinalizeDecision, Checkpoint
  <2>7. CASE StoreReview(s) BY <2>7 DEF StoreReview, InsertReview
  <2>8. CASE RollbackRead(s) BY <2>8 DEF RollbackRead
  <2>9. CASE RollbackCommit(s) BY <2>9 DEF RollbackCommit
  <2>10. CASE GraphRaises(s) BY <2>10 DEF GraphRaises
  <2>11. CASE StoreFails(s) BY <2>11 DEF StoreFails, InsertReview
  <2>12. CASE SubmitDies(s) BY <2>12 DEF SubmitDies
  <2>13. CASE SubmitAborts(s) BY <2>13 DEF SubmitAborts
  <2> QED BY <1>2, <2>1, <2>2, <2>3, <2>4, <2>5, <2>6, <2>7, <2>8, <2>9,
             <2>10, <2>11, <2>12, <2>13 DEF Submission
<1>3. CASE UNCHANGED vars BY <1>3 DEF vars
<1> QED BY <1>1, <1>2, <1>3 DEF Next, Failure

\* However submissions overlap, a run in running or in review_processing has a
\* request that will write its status (the except clauses of execute_run and
\* resume_with_review), unless a request has left it so: by its death, or by an
\* exception that these clauses do not cover or raise themselves.
THEOREM WorkIsAttended == Spec => [](AnalysisAttended /\ ReviewAttended)
<1>1. Init => AnalysisAttended /\ ReviewAttended
  BY DEF Init, AnalysisAttended, ReviewAttended
<1> QED BY <1>1, TypeCorrect, AttendedStep, PTL DEF Spec
=============================================================================
