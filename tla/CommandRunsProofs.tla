------------------------- MODULE CommandRunsProofs -------------------------
(***************************************************************************)
(* Theorems about the command runs, for any number of runs and workers.    *)
(***************************************************************************)
EXTENDS CommandRunsProperties, TLAPS

USE MaxRetriesAssumption, MaxFaultsAssumption, NoRunAssumption,
    CancellableAssumption, FaultAssumption

\* Every step of the API, of a worker and of time keeps each variable in its
\* type.
LEMMA TypeOKStep == TypeOK /\ [Next]_vars => TypeOK'
<1> SUFFICES ASSUME TypeOK, [Next]_vars PROVE TypeOK'
  OBVIOUS
<1> USE DEF TypeOK, dbVars, queueVars, workerVars, apiVars, historyVars,
            Goto, ToIdle, Continue, Branch, SetStatus, Fault, WorkerPoints,
            Statuses, Terminal, CreatePoints, CancelPoints, CreateGoto,
            CancelGoto, ProcessPoints
<1>1. ASSUME NEW w \in Workers, Recovery(w) PROVE TypeOK'
  <2>1. CASE RecoverScan(w) BY <2>1 DEF RecoverScan
  <2>2. CASE \E r \in Runs : RecoverRemove(w, r) BY <2>2 DEF RecoverRemove
  <2>3. CASE \E r \in Runs : ResetRead(w, r) BY <2>3 DEF ResetRead
  <2>4. CASE RecoverUnstamp(w) BY <2>4 DEF RecoverUnstamp
  <2>5. CASE RecoverPush(w) BY <2>5 DEF RecoverPush
  <2>6. CASE RecoverReturn(w) BY <2>6 DEF RecoverReturn
  <2>7. CASE ResetCommit(w) BY <2>7 DEF ResetCommit
  <2> QED BY <1>1, <2>1, <2>2, <2>3, <2>4, <2>5, <2>6, <2>7 DEF Recovery
<1>2. ASSUME NEW w \in Workers, NEW r \in Runs, Claim(w, r) PROVE TypeOK'
  BY <1>2 DEF Claim
<1>3. ASSUME NEW w \in Workers, Execution(w) PROVE TypeOK'
  <2>1. CASE ClaimStamp(w) BY <2>1 DEF ClaimStamp
  <2>2. CASE StartRun(w) BY <2>2 DEF StartRun
  <2>3. CASE Decide(w) BY <2>3 DEF Decide
  <2>4. CASE PersistRead(w) BY <2>4 DEF PersistRead
  <2>5. CASE PersistCommit(w) BY <2>5 DEF PersistCommit
  <2>6. CASE PersistRaises(w) BY <2>6 DEF PersistRaises
  <2>7. CASE FailRead(w) BY <2>7 DEF FailRead
  <2>8. CASE FailCommit(w) BY <2>8 DEF FailCommit
  <2>9. CASE AckRemove(w) BY <2>9 DEF AckRemove
  <2>10. CASE AckUnstamp(w) BY <2>10 DEF AckUnstamp
  <2>11. CASE AckForget(w) BY <2>11 DEF AckForget
  <2> QED BY <1>3, <2>1, <2>2, <2>3, <2>4, <2>5, <2>6, <2>7, <2>8, <2>9,
             <2>10, <2>11 DEF Execution
<1>4. ASSUME NEW w \in Workers, Retry(w) PROVE TypeOK'
  <2>1. CASE ProcessRaises(w) BY <2>1 DEF ProcessRaises
  <2>2. CASE RetryCount(w) BY <2>2 DEF RetryCount
  <2>3. CASE RetryRemove(w) BY <2>3 DEF RetryRemove
  <2>4. CASE RetryUnstamp(w) BY <2>4 DEF RetryUnstamp
  <2>5. CASE RetryPush(w) BY <2>5 DEF RetryPush
  <2>6. CASE RetryExhausted(w) BY <2>6 DEF RetryExhausted
  <2>7. CASE MarkRead(w) BY <2>7 DEF MarkRead
  <2>8. CASE MarkCommit(w) BY <2>8 DEF MarkCommit
  <2> QED BY <1>4, <2>1, <2>2, <2>3, <2>4, <2>5, <2>6, <2>7, <2>8 DEF Retry
<1>5. ASSUME NEW w \in Workers, Crash(w) PROVE TypeOK'
  BY <1>5 DEF Crash
<1>6. ASSUME NEW r \in Runs, ClaimGoesStale(r) PROVE TypeOK'
  BY <1>6 DEF ClaimGoesStale
<1>7. ASSUME NEW r \in Runs, ApiStep(r) PROVE TypeOK'
  <2>1. CASE CreateRun(r) BY <2>1 DEF CreateRun
  <2>2. CASE EnqueueRemove(r) BY <2>2 DEF EnqueueRemove
  <2>3. CASE EnqueuePush(r) BY <2>3 DEF EnqueuePush
  <2>4. CASE CreateFailRead(r) BY <2>4 DEF CreateFailRead
  <2>5. CASE CreateFailCommit(r) BY <2>5 DEF CreateFailCommit
  <2>6. CASE CancelRead(r) BY <2>6 DEF CancelRead
  <2>7. CASE CancelRemove(r) BY <2>7 DEF CancelRemove
  <2>8. CASE CancelCommit(r) BY <2>8 DEF CancelCommit
  <2>9. CASE EnqueueFails(r) BY <2>9 DEF EnqueueFails
  <2>10. CASE CreateCrash(r) BY <2>10 DEF CreateCrash
  <2>11. CASE CancelCrash(r) BY <2>11 DEF CancelCrash
  <2> QED BY <1>7, <2>1, <2>2, <2>3, <2>4, <2>5, <2>6, <2>7, <2>8, <2>9,
             <2>10, <2>11 DEF ApiStep, Creation, Cancellation, ApiFaulty
<1>8. CASE UNCHANGED vars BY <1>8 DEF vars
<1> QED BY <1>1, <1>2, <1>3, <1>4, <1>5, <1>6, <1>7, <1>8 DEF Next, WorkerStep

\* The variables of CommandRuns always have their types.
THEOREM TypeCorrect == Spec => []TypeOK
<1>1. Init => TypeOK
  BY DEF Init, TypeOK, WorkerPoints, Statuses, Terminal, CreatePoints,
         CancelPoints
<1>2. QED BY <1>1, TypeOKStep, PTL DEF Spec

-----------------------------------------------------------------------------
(* Custody, and at most one result, in the deployments of Exclusive        *)

\* In a calm fleet recovery never finds an entry to return.
LEMMA CalmWorkerStep ==
  ASSUME TypeOK, CalmInv, CustodyInv, [Next]_vars, CalmFleet, NEW v \in Workers
  PROVE  CalmWorker(v)'
<1>0. /\ \A w \in Workers : CalmWorker(w)
      /\ \A r \in Runs : CalmClaim(r)
  BY DEF CalmInv
<1> USE <1>0 DEF CalmWorker, CalmClaim, Gone, NoCopy
<1> USE DEF TypeOK, CalmFleet, CalmPoints, CalmClaimPoints,
            dbVars, queueVars, workerVars, apiVars, historyVars,
            Goto, ToIdle, Continue, Branch, SetStatus, CreateGoto, CancelGoto
<1>1. ASSUME NEW w \in Workers, Recovery(w) PROVE CalmWorker(v)'
  <2>1. CASE RecoverScan(w) BY <2>1 DEF RecoverScan
  <2>2. CASE \E r \in Runs : RecoverRemove(w, r) BY <2>2 DEF RecoverRemove
  <2>3. CASE \E r \in Runs : ResetRead(w, r) BY <2>3 DEF ResetRead
  <2>4. CASE RecoverUnstamp(w) BY <2>4 DEF RecoverUnstamp
  <2>5. CASE RecoverPush(w) BY <2>5 DEF RecoverPush
  <2>6. CASE RecoverReturn(w) BY <2>6 DEF RecoverReturn
  <2>7. CASE ResetCommit(w) BY <2>7 DEF ResetCommit
  <2> QED BY <1>1, <2>1, <2>2, <2>3, <2>4, <2>5, <2>6, <2>7 DEF Recovery
<1>2. ASSUME NEW w \in Workers, NEW r \in Runs, Claim(w, r) PROVE CalmWorker(v)'
  BY <1>2 DEF Claim
<1>3. ASSUME NEW w \in Workers, Execution(w) PROVE CalmWorker(v)'
  <2>1. CASE ClaimStamp(w) BY <2>1 DEF ClaimStamp
  <2>2. CASE StartRun(w) BY <2>2 DEF StartRun
  <2>3. CASE Decide(w) BY <2>3 DEF Decide
  <2>4. CASE PersistRead(w) BY <2>4 DEF PersistRead
  <2>5. CASE PersistCommit(w) BY <2>5 DEF PersistCommit
  <2>6. CASE PersistRaises(w) BY <2>6 DEF PersistRaises
  <2>7. CASE FailRead(w) BY <2>7 DEF FailRead
  <2>8. CASE FailCommit(w) BY <2>8 DEF FailCommit
  <2>9. CASE AckRemove(w) BY <2>9 DEF AckRemove
  <2>10. CASE AckUnstamp(w) BY <2>10 DEF AckUnstamp
  <2>11. CASE AckForget(w) BY <2>11 DEF AckForget
  <2> QED BY <1>3, <2>1, <2>2, <2>3, <2>4, <2>5, <2>6, <2>7, <2>8, <2>9,
             <2>10, <2>11 DEF Execution
<1>4. ASSUME NEW w \in Workers, Retry(w) PROVE CalmWorker(v)'
  <2>1. CASE ProcessRaises(w) BY <2>1 DEF ProcessRaises
  <2>2. CASE RetryCount(w) BY <2>2 DEF RetryCount
  <2>3. CASE RetryRemove(w) BY <2>3 DEF RetryRemove
  <2>4. CASE RetryUnstamp(w) BY <2>4 DEF RetryUnstamp
  <2>5. CASE RetryPush(w) BY <2>5 DEF RetryPush
  <2>6. CASE RetryExhausted(w) BY <2>6 DEF RetryExhausted
  <2>7. CASE MarkRead(w) BY <2>7 DEF MarkRead
  <2>8. CASE MarkCommit(w) BY <2>8 DEF MarkCommit
  <2> QED BY <1>4, <2>1, <2>2, <2>3, <2>4, <2>5, <2>6, <2>7, <2>8 DEF Retry
<1>5. ASSUME NEW w \in Workers, Crash(w) PROVE CalmWorker(v)'
  BY <1>5 DEF Crash
<1>6. ASSUME NEW r \in Runs, ClaimGoesStale(r) PROVE CalmWorker(v)'
  BY <1>6 DEF ClaimGoesStale
<1>7. ASSUME NEW r \in Runs, ApiStep(r) PROVE CalmWorker(v)'
  <2>1. CASE CreateRun(r) BY <2>1 DEF CreateRun
  <2>2. CASE EnqueueRemove(r) BY <2>2 DEF EnqueueRemove
  <2>3. CASE EnqueuePush(r) BY <2>3 DEF EnqueuePush
  <2>4. CASE CreateFailRead(r) BY <2>4 DEF CreateFailRead
  <2>5. CASE CreateFailCommit(r) BY <2>5 DEF CreateFailCommit
  <2>6. CASE CancelRead(r) BY <2>6 DEF CancelRead
  <2>7. CASE CancelRemove(r) BY <2>7 DEF CancelRemove
  <2>8. CASE CancelCommit(r) BY <2>8 DEF CancelCommit
  <2>9. CASE EnqueueFails(r) BY <2>9 DEF EnqueueFails
  <2>10. CASE CreateCrash(r) BY <2>10 DEF CreateCrash
  <2>11. CASE CancelCrash(r) BY <2>11 DEF CancelCrash
  <2> QED BY <1>7, <2>1, <2>2, <2>3, <2>4, <2>5, <2>6, <2>7, <2>8, <2>9,
             <2>10, <2>11 DEF ApiStep, Creation, Cancellation, ApiFaulty
<1>8. CASE UNCHANGED vars BY <1>8 DEF vars
<1> QED BY <1>1, <1>2, <1>3, <1>4, <1>5, <1>6, <1>7, <1>8 DEF Next, WorkerStep

\* In a calm fleet a claim that no worker stands behind is one whose entry is gone,
\* and so is every claim that time makes stale.
LEMMA CalmClaimStep ==
  ASSUME TypeOK, CalmInv, CustodyInv, [Next]_vars, CalmFleet, NEW q \in Runs
  PROVE  CalmClaim(q)'
<1>0. /\ \A w \in Workers : CalmWorker(w)
      /\ \A r \in Runs : CalmClaim(r) /\ HolderAgrees(r)
      /\ OneCopy(q) /\ OneHolder(q)
      /\ Unpushed(q) => NoCopy(q)
      /\ status[q] = "absent" => creating[q] = "none"
  BY DEF CalmInv, CustodyInv, SingleCustody
<1> USE <1>0 DEF CalmWorker, CalmClaim, HolderAgrees, OneCopy, OneHolder, Gone,
            NoCopy, Unpushed, Handling
<1> USE DEF TypeOK, CalmFleet, CalmPoints, CalmClaimPoints, ClaimedPoints,
            ReturningPoints, InFlight, Busy, CreatePoints,
            dbVars, queueVars, workerVars, apiVars, historyVars,
            Goto, ToIdle, Continue, Branch, SetStatus, CreateGoto, CancelGoto
<1>1. ASSUME NEW w \in Workers, Recovery(w) PROVE CalmClaim(q)'
  <2>1. CASE RecoverScan(w) BY <2>1 DEF RecoverScan
  <2>2. CASE \E r \in Runs : RecoverRemove(w, r)
    <3> PICK r \in Runs : RecoverRemove(w, r)
      BY <2>2
    <3>1. Gone(r)
      BY DEF RecoverRemove
    <3>2. pc' = [pc EXCEPT ![w] = "recover_zrem_miss"] /\ processing'[q] = processing[q]
      BY <3>1 DEF RecoverRemove
    <3> QED BY <3>1, <3>2 DEF RecoverRemove
  <2>3. CASE \E r \in Runs : ResetRead(w, r) BY <2>3 DEF ResetRead
  <2>4. CASE RecoverUnstamp(w)
    <3>1. pc[w] = "recover_zrem_miss" /\ pc' = [pc EXCEPT ![w] = "recover_lrem"]
      BY <2>4 DEF RecoverUnstamp
    <3>2. NoCopy(q) => NoCopy(q)'
      BY <2>4, <3>1 DEF RecoverUnstamp
    <3> QED BY <2>4, <3>1, <3>2 DEF RecoverUnstamp
  <2>5. CASE RecoverPush(w) BY <2>5 DEF RecoverPush
  <2>6. CASE RecoverReturn(w) BY <2>6 DEF RecoverReturn
  <2>7. CASE ResetCommit(w) BY <2>7 DEF ResetCommit
  <2> QED BY <1>1, <2>1, <2>2, <2>3, <2>4, <2>5, <2>6, <2>7 DEF Recovery
<1>2. ASSUME NEW w \in Workers, NEW r \in Runs, Claim(w, r) PROVE CalmClaim(q)'
  BY <1>2 DEF Claim
<1>3. ASSUME NEW w \in Workers, Execution(w) PROVE CalmClaim(q)'
  <2>1. CASE ClaimStamp(w) BY <2>1 DEF ClaimStamp
  <2>2. CASE StartRun(w) BY <2>2 DEF StartRun
  <2>3. CASE Decide(w) BY <2>3 DEF Decide
  <2>4. CASE PersistRead(w) BY <2>4 DEF PersistRead
  <2>5. CASE PersistCommit(w) BY <2>5 DEF PersistCommit
  <2>6. CASE PersistRaises(w) BY <2>6 DEF PersistRaises
  <2>7. CASE FailRead(w) BY <2>7 DEF FailRead
  <2>8. CASE FailCommit(w) BY <2>8 DEF FailCommit
  <2>9. CASE AckRemove(w)
    <3>1. CASE job[w] = q
      <4>3. queued'[q] = 0 /\ processing'[q] = 0
        BY <2>9, <3>1 DEF AckRemove
      <4>4. ASSUME NEW u \in Workers, Handling(u, q)' PROVE FALSE
        <5>1. u # w
          BY <2>9, <4>4 DEF AckRemove
        <5>2. Handling(u, q) /\ Handling(w, q)
          BY <2>9, <3>1, <4>4, <5>1 DEF AckRemove
        <5> QED BY <5>1, <5>2
      <4>1. NoCopy(q)'
        BY <4>3, <4>4
      <4>2. ~Unpushed(q)'
        BY <2>9, <3>1 DEF AckRemove
      <4> QED BY <2>9, <3>1, <4>1, <4>2 DEF AckRemove
    <3>2. CASE job[w] # q
      BY <2>9, <3>2 DEF AckRemove
    <3> QED BY <3>1, <3>2
  <2>10. CASE AckUnstamp(w) BY <2>10 DEF AckUnstamp
  <2>11. CASE AckForget(w) BY <2>11 DEF AckForget
  <2> QED BY <1>3, <2>1, <2>2, <2>3, <2>4, <2>5, <2>6, <2>7, <2>8, <2>9,
             <2>10, <2>11 DEF Execution
<1>4. ASSUME NEW w \in Workers, Retry(w) PROVE CalmClaim(q)'
  <2>1. CASE ProcessRaises(w) BY <2>1 DEF ProcessRaises
  <2>2. CASE RetryCount(w) BY <2>2 DEF RetryCount
  <2>3. CASE RetryRemove(w) BY <2>3 DEF RetryRemove
  <2>4. CASE RetryUnstamp(w) BY <2>4 DEF RetryUnstamp
  <2>5. CASE RetryPush(w) BY <2>5 DEF RetryPush
  <2>6. CASE RetryExhausted(w) BY <2>6 DEF RetryExhausted
  <2>7. CASE MarkRead(w)
    BY <2>7 DEF MarkRead
  <2>8. CASE MarkCommit(w) BY <2>8 DEF MarkCommit
  <2> QED BY <1>4, <2>1, <2>2, <2>3, <2>4, <2>5, <2>6, <2>7, <2>8 DEF Retry
<1>5. ASSUME NEW w \in Workers, Crash(w) PROVE CalmClaim(q)'
  BY <1>5 DEF Crash
<1>6. ASSUME NEW r \in Runs, ClaimGoesStale(r) PROVE CalmClaim(q)'
  BY <1>6 DEF ClaimGoesStale
<1>7. ASSUME NEW r \in Runs, ApiStep(r) PROVE CalmClaim(q)'
  <2>1. CASE CreateRun(r) BY <2>1 DEF CreateRun
  <2>2. CASE EnqueueRemove(r) BY <2>2 DEF EnqueueRemove
  <2>3. CASE EnqueuePush(r) BY <2>3 DEF EnqueuePush
  <2>4. CASE CreateFailRead(r)
    <3>1. Unpushed(q)' => Unpushed(q)
      BY <2>4 DEF CreateFailRead
    <3>2. NoCopy(q) => NoCopy(q)'
      BY <2>4 DEF CreateFailRead
    <3>3. Gone(q) => Gone(q)'
      BY <3>1, <3>2
    <3> HIDE DEF Gone
    <3> QED BY <2>4, <3>3 DEF CreateFailRead
  <2>5. CASE CreateFailCommit(r) BY <2>5 DEF CreateFailCommit
  <2>6. CASE CancelRead(r) BY <2>6 DEF CancelRead
  <2>7. CASE CancelRemove(r) BY <2>7 DEF CancelRemove
  <2>8. CASE CancelCommit(r) BY <2>8 DEF CancelCommit
  <2>9. CASE EnqueueFails(r) BY <2>9 DEF EnqueueFails
  <2>10. CASE CreateCrash(r) BY <2>10 DEF CreateCrash
  <2>11. CASE CancelCrash(r) BY <2>11 DEF CancelCrash
  <2> QED BY <1>7, <2>1, <2>2, <2>3, <2>4, <2>5, <2>6, <2>7, <2>8, <2>9,
             <2>10, <2>11 DEF ApiStep, Creation, Cancellation, ApiFaulty
<1>8. CASE UNCHANGED vars BY <1>8 DEF vars
<1> QED BY <1>1, <1>2, <1>3, <1>4, <1>5, <1>6, <1>7, <1>8 DEF Next, WorkerStep

\* What a calm fleet's recovery finds stays what it is.
LEMMA CalmStep == TypeOK /\ CalmInv /\ CustodyInv /\ [Next]_vars => CalmInv'
  BY CalmWorkerStep, CalmClaimStep DEF CalmInv, CalmFleet

\* Every step keeps the one custodian of a job: each action is checked for the
\* one run q it may disturb.
LEMMA CustodyStep ==
  Exclusive /\ TypeOK /\ CalmInv /\ CustodyInv /\ [Next]_vars => CustodyInv'
<1> SUFFICES ASSUME Exclusive, TypeOK, CalmInv, CustodyInv, [Next]_vars,
                    NEW q \in Runs
             PROVE  /\ OneCopy(q)' /\ HolderAgrees(q)' /\ OneHolder(q)'
                    /\ (Unpushed(q) => NoCopy(q) /\ ~Withdrawn(q))'
                    /\ (Withdrawn(q) => NoCopy(q))'
                    /\ (status[q] = "absent" => creating[q] = "none")'
  BY DEF CustodyInv, SingleCustody, CancelledHasNoJob
<1> DEFINE Kept ==
      /\ OneCopy(q) /\ HolderAgrees(q) /\ OneHolder(q)
      /\ Unpushed(q) => NoCopy(q) /\ ~Withdrawn(q)
      /\ Withdrawn(q) => NoCopy(q)
      /\ status[q] = "absent" => creating[q] = "none"
<1>0. Kept
  BY DEF CustodyInv, SingleCustody, CancelledHasNoJob
<1> USE <1>0 DEF OneCopy, HolderAgrees, OneHolder, Unpushed, Withdrawn, NoCopy,
            Handling
<1> USE DEF Exclusive, SingleWorker, TypeOK, CalmInv, CalmWorker, CalmPoints,
            ClaimedPoints, ReturningPoints, CalmClaimPoints, Statuses, Terminal, CreatePoints,
            CancelPoints, ProcessPoints,
            dbVars, queueVars, workerVars, apiVars, historyVars,
            Goto, ToIdle, Continue, Branch, SetStatus, CreateGoto, CancelGoto
<1>1. ASSUME NEW w \in Workers, Recovery(w) PROVE Kept'
  <2>1. CASE RecoverScan(w) BY <2>1 DEF RecoverScan
  <2>2. CASE \E r \in Runs : RecoverRemove(w, r)
    <3>0. PICK r \in Runs : RecoverRemove(w, r) BY <2>2
    <3>1. SingleWorker \/ (processing[r] = 0 /\ pc' = [pc EXCEPT ![w] = "recover_zrem_miss"])
      BY <3>0 DEF Exclusive, CalmInv, CalmClaim, Gone, RecoverRemove
    <3>2. OneCopy(q)' BY <3>0, <3>1 DEF RecoverRemove
    <3>3. HolderAgrees(q)' BY <3>0, <3>1 DEF RecoverRemove
    <3>4. OneHolder(q)' BY <3>0, <3>1 DEF RecoverRemove
    <3>5. (Unpushed(q) => NoCopy(q) /\ ~Withdrawn(q))'
      BY <3>0, <3>1 DEF RecoverRemove
    <3>6. (Withdrawn(q) => NoCopy(q))' BY <3>0, <3>1 DEF RecoverRemove
    <3>7. (status[q] = "absent" => creating[q] = "none")'
      BY <3>0, <3>1 DEF RecoverRemove
    <3> QED BY <3>2, <3>3, <3>4, <3>5, <3>6, <3>7
  <2>3. CASE \E r \in Runs : ResetRead(w, r) BY <2>3 DEF ResetRead
  <2>4. CASE RecoverUnstamp(w)
    <3>1. SingleWorker \/ pc[w] = "recover_zrem_miss"
      BY <2>4 DEF Exclusive, CalmInv, CalmWorker, CalmPoints, RecoverUnstamp
    <3>2. OneCopy(q)' BY <2>4, <3>1 DEF RecoverUnstamp
    <3>3. HolderAgrees(q)' BY <2>4, <3>1 DEF RecoverUnstamp
    <3>4. OneHolder(q)' BY <2>4, <3>1 DEF RecoverUnstamp
    <3>5. (Unpushed(q) => NoCopy(q) /\ ~Withdrawn(q))'
      BY <2>4, <3>1 DEF RecoverUnstamp
    <3>6. (Withdrawn(q) => NoCopy(q))' BY <2>4, <3>1 DEF RecoverUnstamp
    <3>7. (status[q] = "absent" => creating[q] = "none")'
      BY <2>4, <3>1 DEF RecoverUnstamp
    <3> QED BY <3>2, <3>3, <3>4, <3>5, <3>6, <3>7
  <2>5. CASE RecoverPush(w) BY <2>5 DEF RecoverPush
  <2>6. CASE RecoverReturn(w) BY <2>6 DEF RecoverReturn
  <2>7. CASE ResetCommit(w) BY <2>7 DEF ResetCommit
  <2> QED BY <1>1, <2>1, <2>2, <2>3, <2>4, <2>5, <2>6, <2>7 DEF Recovery
<1>2. ASSUME NEW w \in Workers, NEW r \in Runs, Claim(w, r) PROVE Kept'
  BY <1>2 DEF Claim
<1>3. ASSUME NEW w \in Workers, Execution(w) PROVE Kept'
  <2>1. CASE ClaimStamp(w) BY <2>1 DEF ClaimStamp
  <2>2. CASE StartRun(w) BY <2>2 DEF StartRun
  <2>3. CASE Decide(w) BY <2>3 DEF Decide
  <2>4. CASE PersistRead(w) BY <2>4 DEF PersistRead
  <2>5. CASE PersistCommit(w) BY <2>5 DEF PersistCommit
  <2>6. CASE PersistRaises(w) BY <2>6 DEF PersistRaises
  <2>7. CASE FailRead(w) BY <2>7 DEF FailRead
  <2>8. CASE FailCommit(w) BY <2>8 DEF FailCommit
  <2>9. CASE AckRemove(w) BY <2>9 DEF AckRemove
  <2>10. CASE AckUnstamp(w) BY <2>10 DEF AckUnstamp
  <2>11. CASE AckForget(w) BY <2>11 DEF AckForget
  <2> QED BY <1>3, <2>1, <2>2, <2>3, <2>4, <2>5, <2>6, <2>7, <2>8, <2>9,
             <2>10, <2>11 DEF Execution
<1>4. ASSUME NEW w \in Workers, Retry(w) PROVE Kept'
  <2>1. CASE ProcessRaises(w)
    <3>1. pc[w] \in ProcessPoints
      BY <2>1, FaultAssumption DEF ProcessRaises
    <3>2. OneCopy(q)' BY <2>1, <3>1 DEF ProcessRaises
    <3>3. HolderAgrees(q)' BY <2>1, <3>1 DEF ProcessRaises
    <3>4. OneHolder(q)' BY <2>1, <3>1 DEF ProcessRaises
    <3>5. (Unpushed(q) => NoCopy(q) /\ ~Withdrawn(q))'
      BY <2>1, <3>1 DEF ProcessRaises
    <3>6. (Withdrawn(q) => NoCopy(q))' BY <2>1, <3>1 DEF ProcessRaises
    <3>7. (status[q] = "absent" => creating[q] = "none")'
      BY <2>1, <3>1 DEF ProcessRaises
    <3> QED BY <3>2, <3>3, <3>4, <3>5, <3>6, <3>7
  <2>2. CASE RetryCount(w) BY <2>2 DEF RetryCount
  <2>3. CASE RetryRemove(w) BY <2>3 DEF RetryRemove
  <2>4. CASE RetryUnstamp(w)
    <3>2. OneCopy(q)' BY <2>4 DEF RetryUnstamp
    <3>3. HolderAgrees(q)' BY <2>4 DEF RetryUnstamp
    <3>4. OneHolder(q)' BY <2>4 DEF RetryUnstamp
    <3>5. (Unpushed(q) => NoCopy(q) /\ ~Withdrawn(q))'
      BY <2>4 DEF RetryUnstamp
    <3>6. (Withdrawn(q) => NoCopy(q))' BY <2>4 DEF RetryUnstamp
    <3>7. (status[q] = "absent" => creating[q] = "none")'
      BY <2>4 DEF RetryUnstamp
    <3> QED BY <3>2, <3>3, <3>4, <3>5, <3>6, <3>7
  <2>5. CASE RetryPush(w) BY <2>5 DEF RetryPush
  <2>6. CASE RetryExhausted(w) BY <2>6 DEF RetryExhausted
  <2>7. CASE MarkRead(w) BY <2>7 DEF MarkRead
  <2>8. CASE MarkCommit(w) BY <2>8 DEF MarkCommit
  <2> QED BY <1>4, <2>1, <2>2, <2>3, <2>4, <2>5, <2>6, <2>7, <2>8 DEF Retry
<1>5. ASSUME NEW w \in Workers, Crash(w) PROVE Kept'
  BY <1>5 DEF Crash
<1>6. ASSUME NEW r \in Runs, ClaimGoesStale(r) PROVE Kept'
  BY <1>6 DEF ClaimGoesStale
<1>7. ASSUME NEW r \in Runs, ApiStep(r) PROVE Kept'
  <2>1. CASE CreateRun(r) BY <2>1 DEF CreateRun
  <2>2. CASE EnqueueRemove(r) BY <2>2 DEF EnqueueRemove
  <2>3. CASE EnqueuePush(r)
    <3>1. CASE r = q
      <4>1. NoCopy(q) /\ ~Withdrawn(q)
        BY <2>3, <3>1 DEF EnqueuePush
      <4> QED BY <2>3, <3>1, <4>1 DEF EnqueuePush
    <3>2. CASE r # q
      BY <2>3, <3>2 DEF EnqueuePush
    <3> QED BY <3>1, <3>2
  <2>4. CASE CreateFailRead(r)
    <3>1. (NoCopy(q) <=> NoCopy(q)') /\ (Unpushed(q)' => Unpushed(q))
      BY <2>4 DEF CreateFailRead
    <3>2. Withdrawn(q)' <=> Withdrawn(q)
      BY <2>4 DEF CreateFailRead
    <3>3. OneCopy(q)' /\ HolderAgrees(q)' /\ OneHolder(q)'
      BY <2>4 DEF CreateFailRead
    <3>4. (status[q] = "absent" => creating[q] = "none")'
      BY <2>4 DEF CreateFailRead
    <3> QED BY <3>1, <3>2, <3>3, <3>4
  <2>5. CASE CreateFailCommit(r) BY <2>5 DEF CreateFailCommit
  <2>6. CASE CancelRead(r) BY <2>6 DEF CancelRead
  <2>7. CASE CancelRemove(r) BY <2>7 DEF CancelRemove
  <2>8. CASE CancelCommit(r) BY <2>8 DEF CancelCommit
  <2>9. CASE EnqueueFails(r) BY <2>9 DEF EnqueueFails
  <2>10. CASE CreateCrash(r) BY <2>10 DEF CreateCrash
  <2>11. CASE CancelCrash(r) BY <2>11 DEF CancelCrash
  <2> QED BY <1>7, <2>1, <2>2, <2>3, <2>4, <2>5, <2>6, <2>7, <2>8, <2>9,
             <2>10, <2>11 DEF ApiStep, Creation, Cancellation, ApiFaulty
<1>8. CASE UNCHANGED vars BY <1>8 DEF vars
<1> QED BY <1>1, <1>2, <1>3, <1>4, <1>5, <1>6, <1>7, <1>8 DEF Next, WorkerStep

\* No step stores a second result: whoever may still complete, start or reset a
\* run holds its only copy, or is the only worker.
LEMMA ResultStep ==
  Exclusive /\ TypeOK /\ CalmInv /\ CustodyInv /\ ResultInv /\ [Next]_vars
    => ResultInv'
<1> SUFFICES ASSUME Exclusive, TypeOK, CalmInv, CustodyInv, ResultInv,
                    [Next]_vars, NEW q \in Runs
             PROVE  Stored(q)'
  BY DEF ResultInv
<1>0. Stored(q) /\ OneHolder(q)
  BY DEF ResultInv, CustodyInv, SingleCustody
<1> USE <1>0 DEF Stored, OneHolder, Handling, ClaimedPoints
<1> USE DEF Exclusive, SingleWorker, TypeOK, CalmInv, CalmWorker, CalmPoints,
            CalmClaimPoints,
            ProcessPoints, Statuses, Terminal,
            dbVars, queueVars, workerVars, apiVars, historyVars,
            Goto, ToIdle, Continue, Branch, SetStatus, CreateGoto, CancelGoto
<1>1. ASSUME NEW w \in Workers, Recovery(w) PROVE Stored(q)'
  <2>1. CASE RecoverScan(w) BY <2>1 DEF RecoverScan
  <2>2. CASE \E r \in Runs : RecoverRemove(w, r) BY <2>2 DEF RecoverRemove
  <2>3. CASE \E r \in Runs : ResetRead(w, r) BY <2>3 DEF ResetRead
  <2>4. CASE RecoverUnstamp(w) BY <2>4 DEF RecoverUnstamp
  <2>5. CASE RecoverPush(w) BY <2>5 DEF RecoverPush
  <2>6. CASE RecoverReturn(w) BY <2>6 DEF RecoverReturn
  <2>7. CASE ResetCommit(w) BY <2>7 DEF ResetCommit
  <2> QED BY <1>1, <2>1, <2>2, <2>3, <2>4, <2>5, <2>6, <2>7 DEF Recovery
<1>2. ASSUME NEW w \in Workers, NEW r \in Runs, Claim(w, r) PROVE Stored(q)'
  BY <1>2 DEF Claim
<1>3. ASSUME NEW w \in Workers, Execution(w) PROVE Stored(q)'
  <2>1. CASE ClaimStamp(w) BY <2>1 DEF ClaimStamp
  <2>2. CASE StartRun(w) BY <2>2 DEF StartRun
  <2>3. CASE Decide(w) BY <2>3 DEF Decide
  <2>4. CASE PersistRead(w) BY <2>4 DEF PersistRead
  <2>5. CASE PersistCommit(w) BY <2>5 DEF PersistCommit
  <2>6. CASE PersistRaises(w) BY <2>6 DEF PersistRaises
  <2>7. CASE FailRead(w) BY <2>7 DEF FailRead
  <2>8. CASE FailCommit(w) BY <2>8 DEF FailCommit
  <2>9. CASE AckRemove(w) BY <2>9 DEF AckRemove
  <2>10. CASE AckUnstamp(w) BY <2>10 DEF AckUnstamp
  <2>11. CASE AckForget(w) BY <2>11 DEF AckForget
  <2> QED BY <1>3, <2>1, <2>2, <2>3, <2>4, <2>5, <2>6, <2>7, <2>8, <2>9,
             <2>10, <2>11 DEF Execution
<1>4. ASSUME NEW w \in Workers, Retry(w) PROVE Stored(q)'
  <2>1. CASE ProcessRaises(w) BY <2>1 DEF ProcessRaises
  <2>2. CASE RetryCount(w) BY <2>2 DEF RetryCount
  <2>3. CASE RetryRemove(w) BY <2>3 DEF RetryRemove
  <2>4. CASE RetryUnstamp(w) BY <2>4 DEF RetryUnstamp
  <2>5. CASE RetryPush(w) BY <2>5 DEF RetryPush
  <2>6. CASE RetryExhausted(w) BY <2>6 DEF RetryExhausted
  <2>7. CASE MarkRead(w) BY <2>7 DEF MarkRead
  <2>8. CASE MarkCommit(w) BY <2>8 DEF MarkCommit
  <2> QED BY <1>4, <2>1, <2>2, <2>3, <2>4, <2>5, <2>6, <2>7, <2>8 DEF Retry
<1>5. ASSUME NEW w \in Workers, Crash(w) PROVE Stored(q)'
  BY <1>5 DEF Crash
<1>6. ASSUME NEW r \in Runs, ClaimGoesStale(r) PROVE Stored(q)'
  BY <1>6 DEF ClaimGoesStale
<1>7. ASSUME NEW r \in Runs, ApiStep(r) PROVE Stored(q)'
  <2>1. CASE CreateRun(r) BY <2>1 DEF CreateRun
  <2>2. CASE EnqueueRemove(r) BY <2>2 DEF EnqueueRemove
  <2>3. CASE EnqueuePush(r) BY <2>3 DEF EnqueuePush
  <2>4. CASE CreateFailRead(r) BY <2>4 DEF CreateFailRead
  <2>5. CASE CreateFailCommit(r) BY <2>5 DEF CreateFailCommit
  <2>6. CASE CancelRead(r) BY <2>6 DEF CancelRead
  <2>7. CASE CancelRemove(r) BY <2>7 DEF CancelRemove
  <2>8. CASE CancelCommit(r) BY <2>8 DEF CancelCommit
  <2>9. CASE EnqueueFails(r) BY <2>9 DEF EnqueueFails
  <2>10. CASE CreateCrash(r) BY <2>10 DEF CreateCrash
  <2>11. CASE CancelCrash(r) BY <2>11 DEF CancelCrash
  <2> QED BY <1>7, <2>1, <2>2, <2>3, <2>4, <2>5, <2>6, <2>7, <2>8, <2>9,
             <2>10, <2>11 DEF ApiStep, Creation, Cancellation, ApiFaulty
<1>8. CASE UNCHANGED vars BY <1>8 DEF vars
<1> QED BY <1>1, <1>2, <1>3, <1>4, <1>5, <1>6, <1>7, <1>8 DEF Next, WorkerStep

\* Initially there is nothing to hold, and nothing stored.
LEMMA InitInv == Init => IInv
<1> SUFFICES ASSUME Init PROVE IInv
  OBVIOUS
<1> USE DEF Init
<1>1. TypeOK
  BY DEF TypeOK, WorkerPoints, Statuses, Terminal, CreatePoints, CancelPoints
<1>2. CalmInv
  BY DEF CalmInv, CalmWorker, CalmClaim, CalmPoints
<1>3. CustodyInv
  BY DEF CustodyInv, SingleCustody, CancelledHasNoJob, Withdrawn, Unpushed,
         NoCopy, OneCopy, HolderAgrees, OneHolder, Handling, ClaimedPoints,
         ReturningPoints
<1>4. ResultInv
  BY DEF ResultInv, Stored
<1> QED BY <1>1, <1>2, <1>3, <1>4 DEF IInv

\* The inductive invariant holds of every behaviour of such a deployment.
THEOREM Inductive == ASSUME Exclusive PROVE Spec => []IInv
<1>1. Init => IInv
  BY InitInv
<1>2. IInv /\ [Next]_vars => IInv'
  BY TypeOKStep, CalmStep, CustodyStep, ResultStep DEF IInv
<1> QED BY <1>1, <1>2, PTL DEF Spec

\* With one worker, whatever fails, and with any number of calm workers there is
\* never a second copy of a job.
THEOREM CustodySafe == ASSUME Exclusive PROVE Spec => []SingleCustody
<1>1. IInv => SingleCustody
  BY DEF IInv, CustodyInv
<1> QED BY <1>1, Inductive, PTL

\* In these deployments a cancelled run has no job that could still be executed.
THEOREM CancelSafe == ASSUME Exclusive PROVE Spec => []CancelledHasNoJob
<1>1. IInv => CancelledHasNoJob
  BY DEF IInv, CustodyInv
<1> QED BY <1>1, Inductive, PTL

\* In these deployments at most one result is stored for a run, however often its
\* job is delivered.
THEOREM ResultStoredOnce == ASSUME Exclusive PROVE Spec => []AtMostOneResult
<1>1. IInv => AtMostOneResult
  BY DEF IInv, ResultInv, Stored, AtMostOneResult
<1> QED BY <1>1, Inductive, PTL
-----------------------------------------------------------------------------
(* The starts of a run, in the deployments of Exclusive                    *)

\* Every step keeps the account of the starts of a run q: a start is spent by
\* the one holder of the job, and the count is forgotten with the last job.
LEMMA AccountStep == Exclusive /\ IInv /\ AccountInv /\ [Next]_vars => AccountInv'
<1> SUFFICES ASSUME Exclusive, IInv, AccountInv, [Next]_vars, NEW q \in Runs
             PROVE  Accounted(q)'
  BY DEF AccountInv
<1>0. /\ TypeOK /\ CalmInv /\ Accounted(q)
      /\ OneCopy(q) /\ HolderAgrees(q) /\ OneHolder(q)
      /\ Unpushed(q) => NoCopy(q)
      /\ status[q] = "absent" => creating[q] = "none"
  BY DEF IInv, CustodyInv, SingleCustody, AccountInv
<1> USE <1>0 DEF Accounted, Deliverable, Granted, StartedPoints, ReleasedPoints,
            OneCopy, HolderAgrees, OneHolder, Handling, Unpushed, NoCopy
<1> USE DEF Exclusive, SingleWorker, TypeOK, CalmInv, CalmWorker, CalmPoints,
            ClaimedPoints, ReturningPoints, CalmClaimPoints, Terminal, CreatePoints,
            ProcessPoints,
            dbVars, queueVars, workerVars, apiVars, historyVars,
            Goto, ToIdle, Continue, Branch, SetStatus, CreateGoto, CancelGoto,
            Fault
<1>1. ASSUME NEW w \in Workers, Recovery(w) PROVE Accounted(q)'
  <2>1. CASE RecoverScan(w) BY <2>1 DEF RecoverScan
  <2>2. CASE \E r \in Runs : RecoverRemove(w, r) BY <2>2 DEF RecoverRemove
  <2>3. CASE \E r \in Runs : ResetRead(w, r) BY <2>3 DEF ResetRead
  <2>4. CASE RecoverUnstamp(w) BY <2>4 DEF RecoverUnstamp
  <2>5. CASE RecoverPush(w) BY <2>5 DEF RecoverPush
  <2>6. CASE RecoverReturn(w) BY <2>6 DEF RecoverReturn
  <2>7. CASE ResetCommit(w) BY <2>7 DEF ResetCommit
  <2> QED BY <1>1, <2>1, <2>2, <2>3, <2>4, <2>5, <2>6, <2>7 DEF Recovery
<1>2. ASSUME NEW w \in Workers, NEW r \in Runs, Claim(w, r) PROVE Accounted(q)'
  BY <1>2 DEF Claim
<1>3. ASSUME NEW w \in Workers, Execution(w) PROVE Accounted(q)'
  <2>1. CASE ClaimStamp(w) BY <2>1 DEF ClaimStamp
  <2>2. CASE StartRun(w)
    <3>1. CASE job[w] = q /\ status[q] = "queued"
      <4>1. \A v \in Workers : ~(job[v] = q /\ pc[v] \in StartedPoints)
        BY <2>2, <3>1 DEF StartRun
      <4>2. starts[q] <= Granted(q)
        BY <2>2, <3>1, <4>1 DEF StartRun
      <4>3. starts'[q] <= 1 + Granted(q)' /\ Granted(q) <= MaxRetries + faults
        BY <2>2, <3>1, <4>2 DEF StartRun
      <4> QED BY <2>2, <3>1, <4>2, <4>3 DEF StartRun
    <3>2. CASE ~(job[w] = q /\ status[q] = "queued")
      BY <2>2, <3>2 DEF StartRun
    <3> QED BY <3>1, <3>2
  <2>3. CASE Decide(w) BY <2>3 DEF Decide
  <2>4. CASE PersistRead(w) BY <2>4 DEF PersistRead
  <2>5. CASE PersistCommit(w) BY <2>5 DEF PersistCommit
  <2>6. CASE PersistRaises(w) BY <2>6 DEF PersistRaises
  <2>7. CASE FailRead(w) BY <2>7 DEF FailRead
  <2>8. CASE FailCommit(w) BY <2>8 DEF FailCommit
  <2>9. CASE AckRemove(w) BY <2>9 DEF AckRemove
  <2>10. CASE AckUnstamp(w) BY <2>10 DEF AckUnstamp
  <2>11. CASE AckForget(w) BY <2>11 DEF AckForget
  <2> QED BY <1>3, <2>1, <2>2, <2>3, <2>4, <2>5, <2>6, <2>7, <2>8, <2>9,
             <2>10, <2>11 DEF Execution
<1>4. ASSUME NEW w \in Workers, Retry(w) PROVE Accounted(q)'
  <2>1. CASE ProcessRaises(w)
    <3>1. pc[w] \in ProcessPoints
      BY <2>1 DEF ProcessRaises
    <3> QED BY <2>1, <3>1 DEF ProcessRaises
  <2>2. CASE RetryCount(w) BY <2>2 DEF RetryCount
  <2>3. CASE RetryRemove(w) BY <2>3 DEF RetryRemove
  <2>4. CASE RetryUnstamp(w) BY <2>4 DEF RetryUnstamp
  <2>5. CASE RetryPush(w) BY <2>5 DEF RetryPush
  <2>6. CASE RetryExhausted(w) BY <2>6 DEF RetryExhausted
  <2>7. CASE MarkRead(w) BY <2>7 DEF MarkRead
  <2>8. CASE MarkCommit(w) BY <2>8 DEF MarkCommit
  <2> QED BY <1>4, <2>1, <2>2, <2>3, <2>4, <2>5, <2>6, <2>7, <2>8 DEF Retry
<1>5. ASSUME NEW w \in Workers, Crash(w) PROVE Accounted(q)'
  BY <1>5 DEF Crash
<1>6. ASSUME NEW r \in Runs, ClaimGoesStale(r) PROVE Accounted(q)'
  BY <1>6 DEF ClaimGoesStale
<1>7. ASSUME NEW r \in Runs, ApiStep(r) PROVE Accounted(q)'
  <2>1. CASE CreateRun(r) BY <2>1 DEF CreateRun
  <2>2. CASE EnqueueRemove(r) BY <2>2 DEF EnqueueRemove
  <2>3. CASE EnqueuePush(r) BY <2>3 DEF EnqueuePush
  <2>4. CASE CreateFailRead(r) BY <2>4 DEF CreateFailRead
  <2>5. CASE CreateFailCommit(r) BY <2>5 DEF CreateFailCommit
  <2>6. CASE CancelRead(r) BY <2>6 DEF CancelRead
  <2>7. CASE CancelRemove(r) BY <2>7 DEF CancelRemove
  <2>8. CASE CancelCommit(r) BY <2>8 DEF CancelCommit
  <2>9. CASE EnqueueFails(r) BY <2>9 DEF EnqueueFails
  <2>10. CASE CreateCrash(r) BY <2>10 DEF CreateCrash
  <2>11. CASE CancelCrash(r) BY <2>11 DEF CancelCrash
  <2> QED BY <1>7, <2>1, <2>2, <2>3, <2>4, <2>5, <2>6, <2>7, <2>8, <2>9,
             <2>10, <2>11 DEF ApiStep, Creation, Cancellation, ApiFaulty
<1>8. CASE UNCHANGED vars BY <1>8 DEF vars
<1> QED BY <1>1, <1>2, <1>3, <1>4, <1>5, <1>6, <1>7, <1>8 DEF Next, WorkerStep

\* The account holds of every behaviour of such a deployment.
THEOREM AccountInductive == ASSUME Exclusive PROVE Spec => []AccountInv
<1>1. Init => AccountInv
  BY DEF Init, AccountInv, Accounted, Deliverable, Granted, ReleasedPoints
<1>2. IInv /\ AccountInv /\ [Next]_vars => AccountInv'
  BY AccountStep
<1> QED BY <1>1, <1>2, Inductive, PTL DEF Spec

\* However often a run is retried, crashes and is recovered, each of its starts
\* beyond the retry budget has a fault of its own.
THEOREM StartsAccounted == ASSUME Exclusive PROVE Spec => []StartsAreAccountedFor
<1>1. AccountInv => StartsAreAccountedFor
  BY DEF AccountInv, Accounted, StartsAreAccountedFor
<1> QED BY <1>1, AccountInductive, PTL

\* Exceptions alone never start a run more often than the retry budget allows:
\* retry_run counts them, and only an acknowledged run gets its budget back.
THEOREM RetriesBounded == ASSUME Exclusive PROVE Spec => []ExceptionsAreBounded
<1>1. TypeOK /\ StartsAreAccountedFor => ExceptionsAreBounded
  BY DEF TypeOK, StartsAreAccountedFor, ExceptionsAreBounded, RetriesBoundStarts
<1>2. Spec => []TypeOK
  BY TypeCorrect
<1> QED BY <1>1, <1>2, StartsAccounted, PTL
=============================================================================
