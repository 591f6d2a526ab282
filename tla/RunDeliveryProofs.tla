------------------------- MODULE RunDeliveryProofs -------------------------
(***************************************************************************)
(* No command run is stranded, for any number of runs and workers, in the  *)
(* deployments of Delivering.                                              *)
(***************************************************************************)
EXTENDS RunLifecycleProofs

USE MaxRetriesAssumption, MaxFaultsAssumption, NoRunAssumption,
    CancellableAssumption, FaultAssumption

\* A claim in the processing list stays stamped until its entry is taken out.
LEMMA StampedStep ==
  ASSUME Delivering, LifeInv, AccountInv, DeliveryInv, [Next]_vars,
         NEW q \in Runs
  PROVE  Stamped(q)'
<1>known. /\ TypeOK /\ Accounted(q)
          /\ CalmFleet => (\A v \in Workers : CalmWorker(v)) /\ CalmClaim(q)
          /\ OneCopy(q) /\ HolderAgrees(q) /\ OneHolder(q)
          /\ UnpushedIsUnknown(q) /\ RowAsRead(q) /\ StartedStaysOut(q)
          /\ Stamped(q) /\ OpensAndCloses(q) /\ ResetHasJob(q) /\ Attended(q)
          /\ status[q] = "absent" => creating[q] = "none"
  BY DEF LifeInv, RowInv, IInv, CalmInv, CustodyInv, SingleCustody, AccountInv,
         DeliveryInv
<1> USE <1>known
        DEF Stamped, HolderAgrees, Accounted, Deliverable, NoCopy, Handling
<1> USE DEF Delivering, Settling, Exclusive, SingleWorker, CalmFleet, TypeOK,
            CalmWorker, CalmClaim, CalmPoints, CalmClaimPoints, Gone,
            ClaimedPoints, ReturningPoints, RecoveringPoints, ReleasedPoints,
            Terminal, CreatePoints, CancelPoints, ProcessPoints,
            dbVars, queueVars, workerVars, apiVars, historyVars,
            Goto, ToIdle, Continue, Branch, SetStatus, CreateGoto, CancelGoto
<1>1. ASSUME NEW w \in Workers, Recovery(w) PROVE Stamped(q)'
  <2>1. CASE RecoverScan(w) BY <2>1 DEF RecoverScan
  <2>2. CASE \E r \in Runs : RecoverRemove(w, r) BY <2>2 DEF RecoverRemove
  <2>3. CASE \E r \in Runs : ResetRead(w, r) BY <2>3 DEF ResetRead
  <2>4. CASE RecoverUnstamp(w) BY <2>4 DEF RecoverUnstamp
  <2>5. CASE RecoverPush(w) BY <2>5 DEF RecoverPush
  <2>6. CASE RecoverReturn(w) BY <2>6 DEF RecoverReturn
  <2>7. CASE ResetCommit(w) BY <2>7 DEF ResetCommit
  <2> QED BY <1>1, <2>1, <2>2, <2>3, <2>4, <2>5, <2>6, <2>7 DEF Recovery
<1>2. ASSUME NEW w \in Workers, NEW r \in Runs, Claim(w, r) PROVE Stamped(q)'
  BY <1>2 DEF Claim
<1>3. ASSUME NEW w \in Workers, Execution(w) PROVE Stamped(q)'
  <2>1. CASE ClaimStamp(w) BY <2>1 DEF ClaimStamp
  <2>2. CASE StartRun(w) BY <2>2 DEF StartRun
  <2>3. CASE Decide(w) BY <2>3 DEF Decide
  <2>4. CASE PersistRead(w) BY <2>4 DEF PersistRead
  <2>5. CASE PersistCommit(w) BY <2>5 DEF PersistCommit
  <2>6. CASE PersistRaises(w) BY <2>6 DEF PersistRaises
  <2>7. CASE FailRead(w) BY <2>7 DEF FailRead
  <2>8. CASE FailCommit(w) BY <2>8 DEF FailCommit
  <2>9. CASE AckRemove(w) BY <2>9 DEF AckRemove
  <2>10. CASE AckUnstamp(w) BY <2>10 DEF AckUnstamp
  <2>11. CASE AckForget(w) BY <2>11 DEF AckForget
  <2> QED BY <1>3, <2>1, <2>2, <2>3, <2>4, <2>5, <2>6, <2>7, <2>8, <2>9,
             <2>10, <2>11 DEF Execution
<1>4. ASSUME NEW w \in Workers, Retry(w) PROVE Stamped(q)'
  <2>1. CASE ProcessRaises(w) BY <2>1 DEF ProcessRaises
  <2>2. CASE RetryCount(w) BY <2>2 DEF RetryCount
  <2>3. CASE RetryRemove(w) BY <2>3 DEF RetryRemove
  <2>4. CASE RetryUnstamp(w) BY <2>4 DEF RetryUnstamp
  <2>5. CASE RetryPush(w) BY <2>5 DEF RetryPush
  <2>6. CASE RetryExhausted(w) BY <2>6 DEF RetryExhausted
  <2>7. CASE MarkRead(w) BY <2>7 DEF MarkRead
  <2>8. CASE MarkCommit(w) BY <2>8 DEF MarkCommit
  <2> QED BY <1>4, <2>1, <2>2, <2>3, <2>4, <2>5, <2>6, <2>7, <2>8 DEF Retry
<1>5. ASSUME NEW w \in Workers, Crash(w) PROVE Stamped(q)'
  BY <1>5 DEF Crash
<1>6. ASSUME NEW r \in Runs, ClaimGoesStale(r) PROVE Stamped(q)'
  BY <1>6 DEF ClaimGoesStale
<1>7. ASSUME NEW r \in Runs, ApiStep(r) PROVE Stamped(q)'
  <2>1. CASE CreateRun(r) BY <2>1 DEF CreateRun
  <2>2. CASE EnqueueRemove(r) BY <2>2 DEF EnqueueRemove
  <2>3. CASE EnqueuePush(r) BY <2>3 DEF EnqueuePush
  <2>4. CASE CreateFailRead(r) BY <2>4 DEF CreateFailRead
  <2>5. CASE CreateFailCommit(r) BY <2>5 DEF CreateFailCommit
  <2>6. CASE CancelRead(r) BY <2>6 DEF CancelRead
  <2>7. CASE CancelRemove(r) BY <2>7 DEF CancelRemove
  <2>8. CASE CancelCommit(r) BY <2>8 DEF CancelCommit
  <2>9. CASE EnqueueFails(r) BY <2>9 DEF EnqueueFails
  <2>10. CASE CreateCrash(r) BY <2>10 DEF CreateCrash
  <2>11. CASE CancelCrash(r) BY <2>11 DEF CancelCrash
  <2> QED BY <1>7, <2>1, <2>2, <2>3, <2>4, <2>5, <2>6, <2>7, <2>8, <2>9,
             <2>10, <2>11 DEF ApiStep, Creation, Cancellation, ApiFaulty
<1>8. CASE UNCHANGED vars BY <1>8 DEF vars
<1> QED BY <1>1, <1>2, <1>3, <1>4, <1>5, <1>6, <1>7, <1>8 DEF Next, WorkerStep

\* A job that is delivered belongs to a run that is queued or settled, and only
\* the job of a settled run is acknowledged.
LEMMA OpensAndClosesStep ==
  ASSUME Delivering, LifeInv, AccountInv, DeliveryInv, [Next]_vars,
         NEW q \in Runs
  PROVE  OpensAndCloses(q)'
<1>known. /\ TypeOK /\ Accounted(q)
          /\ CalmFleet => (\A v \in Workers : CalmWorker(v)) /\ CalmClaim(q)
          /\ OneCopy(q) /\ HolderAgrees(q) /\ OneHolder(q)
          /\ UnpushedIsUnknown(q) /\ RowAsRead(q) /\ StartedStaysOut(q)
          /\ Stamped(q) /\ OpensAndCloses(q) /\ ResetHasJob(q) /\ Attended(q)
          /\ status[q] = "absent" => creating[q] = "none"
  BY DEF LifeInv, RowInv, IInv, CalmInv, CustodyInv, SingleCustody, AccountInv,
         DeliveryInv
<1> USE <1>known
        DEF OpensAndCloses, OneCopy, HolderAgrees, OneHolder, Handling, Attended,
            Recoverable, Carries, Accounted, Deliverable, NoCopy, RowAsRead,
            ReadStillTrue, UnpushedIsUnknown, Statuses
<1> USE DEF Delivering, Settling, Exclusive, SingleWorker, CalmFleet, TypeOK,
            CalmWorker, CalmClaim, CalmPoints, CalmClaimPoints, Gone,
            ClaimedPoints, ReturningPoints, RecoveringPoints, ReleasedPoints,
            Terminal, CreatePoints, CancelPoints, ProcessPoints,
            dbVars, queueVars, workerVars, apiVars, historyVars,
            Goto, ToIdle, Continue, Branch, SetStatus, CreateGoto, CancelGoto
<1>1. ASSUME NEW w \in Workers, Recovery(w) PROVE OpensAndCloses(q)'
  <2>1. CASE RecoverScan(w) BY <2>1 DEF RecoverScan
  <2>2. CASE \E r \in Runs : RecoverRemove(w, r) BY <2>2 DEF RecoverRemove
  <2>3. CASE \E r \in Runs : ResetRead(w, r) BY <2>3 DEF ResetRead
  <2>4. CASE RecoverUnstamp(w) BY <2>4 DEF RecoverUnstamp
  <2>5. CASE RecoverPush(w) BY <2>5 DEF RecoverPush
  <2>6. CASE RecoverReturn(w) BY <2>6 DEF RecoverReturn
  <2>7. CASE ResetCommit(w) BY <2>7 DEF ResetCommit
  <2> QED BY <1>1, <2>1, <2>2, <2>3, <2>4, <2>5, <2>6, <2>7 DEF Recovery
<1>2. ASSUME NEW w \in Workers, NEW r \in Runs, Claim(w, r) PROVE OpensAndCloses(q)'
  BY <1>2 DEF Claim
<1>3. ASSUME NEW w \in Workers, Execution(w) PROVE OpensAndCloses(q)'
  <2>1. CASE ClaimStamp(w) BY <2>1 DEF ClaimStamp
  <2>2. CASE StartRun(w)
    <3>1. CASE job[w] = q
      <4>1. status[q] # "absent"
        BY <2>2, <3>1 DEF StartRun
      <4> QED BY <2>2, <3>1, <4>1 DEF StartRun
    <3>2. CASE job[w] # q BY <2>2, <3>2 DEF StartRun
    <3> QED BY <3>1, <3>2
  <2>3. CASE Decide(w) BY <2>3 DEF Decide
  <2>4. CASE PersistRead(w) BY <2>4 DEF PersistRead
  <2>5. CASE PersistCommit(w) BY <2>5 DEF PersistCommit
  <2>6. CASE PersistRaises(w) BY <2>6 DEF PersistRaises
  <2>7. CASE FailRead(w) BY <2>7 DEF FailRead
  <2>8. CASE FailCommit(w) BY <2>8 DEF FailCommit
  <2>9. CASE AckRemove(w) BY <2>9 DEF AckRemove
  <2>10. CASE AckUnstamp(w) BY <2>10 DEF AckUnstamp
  <2>11. CASE AckForget(w) BY <2>11 DEF AckForget
  <2> QED BY <1>3, <2>1, <2>2, <2>3, <2>4, <2>5, <2>6, <2>7, <2>8, <2>9,
             <2>10, <2>11 DEF Execution
<1>4. ASSUME NEW w \in Workers, Retry(w) PROVE OpensAndCloses(q)'
  <2>1. CASE ProcessRaises(w) BY <2>1 DEF ProcessRaises
  <2>2. CASE RetryCount(w) BY <2>2 DEF RetryCount
  <2>3. CASE RetryRemove(w) BY <2>3 DEF RetryRemove
  <2>4. CASE RetryUnstamp(w) BY <2>4 DEF RetryUnstamp
  <2>5. CASE RetryPush(w) BY <2>5 DEF RetryPush
  <2>6. CASE RetryExhausted(w) BY <2>6 DEF RetryExhausted
  <2>7. CASE MarkRead(w) BY <2>7 DEF MarkRead
  <2>8. CASE MarkCommit(w) BY <2>8 DEF MarkCommit
  <2> QED BY <1>4, <2>1, <2>2, <2>3, <2>4, <2>5, <2>6, <2>7, <2>8 DEF Retry
<1>5. ASSUME NEW w \in Workers, Crash(w) PROVE OpensAndCloses(q)'
  BY <1>5 DEF Crash
<1>6. ASSUME NEW r \in Runs, ClaimGoesStale(r) PROVE OpensAndCloses(q)'
  BY <1>6 DEF ClaimGoesStale
<1>7. ASSUME NEW r \in Runs, ApiStep(r) PROVE OpensAndCloses(q)'
  <2>1. CASE CreateRun(r) BY <2>1 DEF CreateRun
  <2>2. CASE EnqueueRemove(r) BY <2>2 DEF EnqueueRemove
  <2>3. CASE EnqueuePush(r) BY <2>3 DEF EnqueuePush
  <2>4. CASE CreateFailRead(r) BY <2>4 DEF CreateFailRead
  <2>5. CASE CreateFailCommit(r) BY <2>5 DEF CreateFailCommit
  <2>6. CASE CancelRead(r) BY <2>6 DEF CancelRead
  <2>7. CASE CancelRemove(r) BY <2>7 DEF CancelRemove
  <2>8. CASE CancelCommit(r) BY <2>8 DEF CancelCommit
  <2>9. CASE EnqueueFails(r) BY <2>9 DEF EnqueueFails
  <2>10. CASE CreateCrash(r) BY <2>10 DEF CreateCrash
  <2>11. CASE CancelCrash(r) BY <2>11 DEF CancelCrash
  <2> QED BY <1>7, <2>1, <2>2, <2>3, <2>4, <2>5, <2>6, <2>7, <2>8, <2>9,
             <2>10, <2>11 DEF ApiStep, Creation, Cancellation, ApiFaulty
<1>8. CASE UNCHANGED vars BY <1>8 DEF vars
<1> QED BY <1>1, <1>2, <1>3, <1>4, <1>5, <1>6, <1>7, <1>8 DEF Next, WorkerStep

\* The job that a recovery or a retry has put back stays in the queue until the
\* row has been reset.
LEMMA ResetHasJobStep ==
  ASSUME Delivering, LifeInv, AccountInv, DeliveryInv, [Next]_vars,
         NEW q \in Runs
  PROVE  ResetHasJob(q)'
<1>known. /\ TypeOK /\ Accounted(q)
          /\ CalmFleet => (\A v \in Workers : CalmWorker(v)) /\ CalmClaim(q)
          /\ OneCopy(q) /\ HolderAgrees(q) /\ OneHolder(q)
          /\ UnpushedIsUnknown(q) /\ RowAsRead(q) /\ StartedStaysOut(q)
          /\ Stamped(q) /\ OpensAndCloses(q) /\ ResetHasJob(q) /\ Attended(q)
          /\ status[q] = "absent" => creating[q] = "none"
  BY DEF LifeInv, RowInv, IInv, CalmInv, CustodyInv, SingleCustody, AccountInv,
         DeliveryInv
<1> USE <1>known
        DEF ResetHasJob, RowAsRead, ReadStillTrue, UnpushedIsUnknown,
            StartedStaysOut, Recovering
<1> USE DEF Delivering, Settling, Exclusive, SingleWorker, CalmFleet, TypeOK,
            CalmWorker, CalmClaim, CalmPoints, CalmClaimPoints, Gone,
            ClaimedPoints, ReturningPoints, RecoveringPoints, ReleasedPoints,
            Terminal, CreatePoints, CancelPoints, ProcessPoints,
            dbVars, queueVars, workerVars, apiVars, historyVars,
            Goto, ToIdle, Continue, Branch, SetStatus, CreateGoto, CancelGoto
<1>1. ASSUME NEW w \in Workers, Recovery(w) PROVE ResetHasJob(q)'
  <2>1. CASE RecoverScan(w) BY <2>1 DEF RecoverScan
  <2>2. CASE \E r \in Runs : RecoverRemove(w, r) BY <2>2 DEF RecoverRemove
  <2>3. CASE \E r \in Runs : ResetRead(w, r) BY <2>3 DEF ResetRead
  <2>4. CASE RecoverUnstamp(w) BY <2>4 DEF RecoverUnstamp
  <2>5. CASE RecoverPush(w) BY <2>5 DEF RecoverPush
  <2>6. CASE RecoverReturn(w) BY <2>6 DEF RecoverReturn
  <2>7. CASE ResetCommit(w) BY <2>7 DEF ResetCommit
  <2> QED BY <1>1, <2>1, <2>2, <2>3, <2>4, <2>5, <2>6, <2>7 DEF Recovery
<1>2. ASSUME NEW w \in Workers, NEW r \in Runs, Claim(w, r) PROVE ResetHasJob(q)'
  BY <1>2 DEF Claim
<1>3. ASSUME NEW w \in Workers, Execution(w) PROVE ResetHasJob(q)'
  <2>1. CASE ClaimStamp(w) BY <2>1 DEF ClaimStamp
  <2>2. CASE StartRun(w) BY <2>2 DEF StartRun
  <2>3. CASE Decide(w) BY <2>3 DEF Decide
  <2>4. CASE PersistRead(w) BY <2>4 DEF PersistRead
  <2>5. CASE PersistCommit(w) BY <2>5 DEF PersistCommit
  <2>6. CASE PersistRaises(w) BY <2>6 DEF PersistRaises
  <2>7. CASE FailRead(w) BY <2>7 DEF FailRead
  <2>8. CASE FailCommit(w) BY <2>8 DEF FailCommit
  <2>9. CASE AckRemove(w) BY <2>9 DEF AckRemove
  <2>10. CASE AckUnstamp(w) BY <2>10 DEF AckUnstamp
  <2>11. CASE AckForget(w) BY <2>11 DEF AckForget
  <2> QED BY <1>3, <2>1, <2>2, <2>3, <2>4, <2>5, <2>6, <2>7, <2>8, <2>9,
             <2>10, <2>11 DEF Execution
<1>4. ASSUME NEW w \in Workers, Retry(w) PROVE ResetHasJob(q)'
  <2>1. CASE ProcessRaises(w) BY <2>1 DEF ProcessRaises
  <2>2. CASE RetryCount(w) BY <2>2 DEF RetryCount
  <2>3. CASE RetryRemove(w) BY <2>3 DEF RetryRemove
  <2>4. CASE RetryUnstamp(w) BY <2>4 DEF RetryUnstamp
  <2>5. CASE RetryPush(w) BY <2>5 DEF RetryPush
  <2>6. CASE RetryExhausted(w) BY <2>6 DEF RetryExhausted
  <2>7. CASE MarkRead(w) BY <2>7 DEF MarkRead
  <2>8. CASE MarkCommit(w) BY <2>8 DEF MarkCommit
  <2> QED BY <1>4, <2>1, <2>2, <2>3, <2>4, <2>5, <2>6, <2>7, <2>8 DEF Retry
<1>5. ASSUME NEW w \in Workers, Crash(w) PROVE ResetHasJob(q)'
  BY <1>5 DEF Crash
<1>6. ASSUME NEW r \in Runs, ClaimGoesStale(r) PROVE ResetHasJob(q)'
  BY <1>6 DEF ClaimGoesStale
<1>7. ASSUME NEW r \in Runs, ApiStep(r) PROVE ResetHasJob(q)'
  <2>1. CASE CreateRun(r) BY <2>1 DEF CreateRun
  <2>2. CASE EnqueueRemove(r) BY <2>2 DEF EnqueueRemove
  <2>3. CASE EnqueuePush(r) BY <2>3 DEF EnqueuePush
  <2>4. CASE CreateFailRead(r) BY <2>4 DEF CreateFailRead
  <2>5. CASE CreateFailCommit(r) BY <2>5 DEF CreateFailCommit
  <2>6. CASE CancelRead(r) BY <2>6 DEF CancelRead
  <2>7. CASE CancelRemove(r) BY <2>7 DEF CancelRemove
  <2>8. CASE CancelCommit(r) BY <2>8 DEF CancelCommit
  <2>9. CASE EnqueueFails(r) BY <2>9 DEF EnqueueFails
  <2>10. CASE CreateCrash(r) BY <2>10 DEF CreateCrash
  <2>11. CASE CancelCrash(r) BY <2>11 DEF CancelCrash
  <2> QED BY <1>7, <2>1, <2>2, <2>3, <2>4, <2>5, <2>6, <2>7, <2>8, <2>9,
             <2>10, <2>11 DEF ApiStep, Creation, Cancellation, ApiFaulty
<1>8. CASE UNCHANGED vars BY <1>8 DEF vars
<1> QED BY <1>1, <1>2, <1>3, <1>4, <1>5, <1>6, <1>7, <1>8 DEF Next, WorkerStep

\* Every step leaves an open run to somebody.
LEMMA AttendedStep ==
  ASSUME Delivering, LifeInv, AccountInv, DeliveryInv, [Next]_vars,
         NEW q \in Runs
  PROVE  Attended(q)'
<1>known. /\ TypeOK /\ Accounted(q)
          /\ CalmFleet => (\A v \in Workers : CalmWorker(v)) /\ CalmClaim(q)
          /\ OneCopy(q) /\ HolderAgrees(q) /\ OneHolder(q)
          /\ UnpushedIsUnknown(q) /\ RowAsRead(q) /\ StartedStaysOut(q)
          /\ Stamped(q) /\ OpensAndCloses(q) /\ ResetHasJob(q) /\ Attended(q)
          /\ status[q] = "absent" => creating[q] = "none"
  BY DEF LifeInv, RowInv, IInv, CalmInv, CustodyInv, SingleCustody, AccountInv,
         DeliveryInv
<1> USE <1>known
        DEF Attended, Recoverable, Carries, Moves, Stamped, OpensAndCloses,
            ResetHasJob, HolderAgrees, Accounted, Deliverable, NoCopy, Handling
<1> USE DEF Delivering, Settling, Exclusive, SingleWorker, CalmFleet, TypeOK,
            CalmWorker, CalmClaim, CalmPoints, CalmClaimPoints, Gone,
            ClaimedPoints, ReturningPoints, RecoveringPoints, ReleasedPoints,
            Terminal, CreatePoints, CancelPoints, ProcessPoints,
            dbVars, queueVars, workerVars, apiVars, historyVars,
            Goto, ToIdle, Continue, Branch, SetStatus, CreateGoto, CancelGoto
<1>1. ASSUME NEW w \in Workers, Recovery(w) PROVE Attended(q)'
  <2>1. CASE RecoverScan(w) BY <2>1 DEF RecoverScan
  <2>2. CASE \E r \in Runs : RecoverRemove(w, r) BY <2>2 DEF RecoverRemove
  <2>3. CASE \E r \in Runs : ResetRead(w, r) BY <2>3 DEF ResetRead
  <2>4. CASE RecoverUnstamp(w) BY <2>4 DEF RecoverUnstamp
  <2>5. CASE RecoverPush(w) BY <2>5 DEF RecoverPush
  <2>6. CASE RecoverReturn(w) BY <2>6 DEF RecoverReturn
  <2>7. CASE ResetCommit(w) BY <2>7 DEF ResetCommit
  <2> QED BY <1>1, <2>1, <2>2, <2>3, <2>4, <2>5, <2>6, <2>7 DEF Recovery
<1>2. ASSUME NEW w \in Workers, NEW r \in Runs, Claim(w, r) PROVE Attended(q)'
  BY <1>2 DEF Claim
<1>3. ASSUME NEW w \in Workers, Execution(w) PROVE Attended(q)'
  <2>1. CASE ClaimStamp(w) BY <2>1 DEF ClaimStamp
  <2>2. CASE StartRun(w) BY <2>2 DEF StartRun
  <2>3. CASE Decide(w) BY <2>3 DEF Decide
  <2>4. CASE PersistRead(w) BY <2>4 DEF PersistRead
  <2>5. CASE PersistCommit(w) BY <2>5 DEF PersistCommit
  <2>6. CASE PersistRaises(w) BY <2>6 DEF PersistRaises
  <2>7. CASE FailRead(w) BY <2>7 DEF FailRead
  <2>8. CASE FailCommit(w) BY <2>8 DEF FailCommit
  <2>9. CASE AckRemove(w) BY <2>9 DEF AckRemove
  <2>10. CASE AckUnstamp(w) BY <2>10 DEF AckUnstamp
  <2>11. CASE AckForget(w) BY <2>11 DEF AckForget
  <2> QED BY <1>3, <2>1, <2>2, <2>3, <2>4, <2>5, <2>6, <2>7, <2>8, <2>9,
             <2>10, <2>11 DEF Execution
<1>4. ASSUME NEW w \in Workers, Retry(w) PROVE Attended(q)'
  <2>1. CASE ProcessRaises(w) BY <2>1 DEF ProcessRaises
  <2>2. CASE RetryCount(w) BY <2>2 DEF RetryCount
  <2>3. CASE RetryRemove(w) BY <2>3 DEF RetryRemove
  <2>4. CASE RetryUnstamp(w) BY <2>4 DEF RetryUnstamp
  <2>5. CASE RetryPush(w) BY <2>5 DEF RetryPush
  <2>6. CASE RetryExhausted(w) BY <2>6 DEF RetryExhausted
  <2>7. CASE MarkRead(w) BY <2>7 DEF MarkRead
  <2>8. CASE MarkCommit(w) BY <2>8 DEF MarkCommit
  <2> QED BY <1>4, <2>1, <2>2, <2>3, <2>4, <2>5, <2>6, <2>7, <2>8 DEF Retry
<1>5. ASSUME NEW w \in Workers, Crash(w) PROVE Attended(q)'
  <2>1. pc[w] \in (ClaimedPoints \ {"claim_zadd"}) \cup {"ack_zrem", "ack_hdel"}
    BY <1>5 DEF Crash
  <2>2. CASE job[w] = q /\ pc[w] \in ClaimedPoints
    <3>1. processing[q] = 1
      BY <2>2
    <3>2. \A v \in Workers : ~(job[v] = q /\ pc[v] = "claim_zadd")
      BY <1>5, <2>1, <2>2 DEF OneHolder, Crash
    <3>3. claimed_at[q] # "none"
      BY <3>1, <3>2
    <3> QED BY <1>5, <3>1, <3>3 DEF Crash
  <2>3. CASE ~(job[w] = q /\ pc[w] \in ClaimedPoints)
    BY <1>5, <2>1, <2>3 DEF Crash
  <2> QED BY <2>2, <2>3
<1>6. ASSUME NEW r \in Runs, ClaimGoesStale(r) PROVE Attended(q)'
  BY <1>6 DEF ClaimGoesStale
<1>7. ASSUME NEW r \in Runs, ApiStep(r) PROVE Attended(q)'
  <2>1. CASE CreateRun(r) BY <2>1 DEF CreateRun
  <2>2. CASE EnqueueRemove(r) BY <2>2 DEF EnqueueRemove
  <2>3. CASE EnqueuePush(r) BY <2>3 DEF EnqueuePush
  <2>4. CASE CreateFailRead(r) BY <2>4 DEF CreateFailRead
  <2>5. CASE CreateFailCommit(r) BY <2>5 DEF CreateFailCommit
  <2>6. CASE CancelRead(r) BY <2>6 DEF CancelRead
  <2>7. CASE CancelRemove(r) BY <2>7 DEF CancelRemove
  <2>8. CASE CancelCommit(r) BY <2>8 DEF CancelCommit
  <2>9. CASE EnqueueFails(r) BY <2>9 DEF EnqueueFails
  <2>10. CASE CreateCrash(r) BY <2>10 DEF CreateCrash
  <2>11. CASE CancelCrash(r) BY <2>11 DEF CancelCrash
  <2> QED BY <1>7, <2>1, <2>2, <2>3, <2>4, <2>5, <2>6, <2>7, <2>8, <2>9,
             <2>10, <2>11 DEF ApiStep, Creation, Cancellation, ApiFaulty
<1>8. CASE UNCHANGED vars BY <1>8 DEF vars
<1> QED BY <1>1, <1>2, <1>3, <1>4, <1>5, <1>6, <1>7, <1>8 DEF Next, WorkerStep

-----------------------------------------------------------------------------
\* In the deployments of Delivering the invariant holds of every behaviour.
THEOREM DeliveryInductive ==
  ASSUME Delivering PROVE Spec => [](LifeInv /\ AccountInv /\ DeliveryInv)
<1>1. Init => DeliveryInv
  BY DEF Init, DeliveryInv, Stamped, OpensAndCloses, ResetHasJob, Attended,
         RecoveringPoints
<1>2. LifeInv /\ AccountInv /\ DeliveryInv /\ [Next]_vars => DeliveryInv'
  <2> SUFFICES ASSUME LifeInv, AccountInv, DeliveryInv, [Next]_vars
               PROVE  DeliveryInv'
    OBVIOUS
  <2> QED
    BY StampedStep, OpensAndClosesStep, ResetHasJobStep, AttendedStep
       DEF DeliveryInv
<1>3. Spec => []LifeInv
  BY LifeInductive DEF Delivering
<1>4. Spec => []AccountInv
  BY AccountInductive DEF Delivering, Settling
<1> QED BY <1>1, <1>2, <1>3, <1>4, PTL DEF Spec

\* The database never shows an open run that nobody is going to move, although
\* the worker may die at any point of an execution, and the run's job and row
\* live in two stores.
THEOREM NothingStranded == ASSUME Delivering PROVE Spec => []NoStrandedRun
<1>1. DeliveryInv => NoStrandedRun
  BY DEF DeliveryInv, Attended, NoStrandedRun, Moves, Carries
<1> QED BY <1>1, DeliveryInductive, PTL
=============================================================================
