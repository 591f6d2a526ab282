------------------------- MODULE RunLifecycleProofs ------------------------
(***************************************************************************)
(* The command runs implement RunLifecycle, for any number of runs and     *)
(* workers, in the deployments of Settling.                                *)
(***************************************************************************)
EXTENDS CommandRunsProofs

USE NoRunAssumption

\* A run becomes known to Redis and to the workers by its push alone.
LEMMA UnpushedStep ==
  ASSUME Settling, LifeInv, [Next]_vars, NEW q \in Runs
  PROVE  UnpushedIsUnknown(q)'
<1>0. /\ UnpushedIsUnknown(q) /\ RowAsRead(q) /\ StartedStaysOut(q)
      /\ status[q] = "absent" => creating[q] = "none"
  BY DEF LifeInv, RowInv, IInv, CustodyInv
<1>typed. TypeOK /\ CalmInv
  BY DEF LifeInv, IInv
<1> USE <1>0, <1>typed DEF UnpushedIsUnknown, NoCopy, Handling, ClaimedPoints,
            ReturningPoints, StartedStaysOut, RowAsRead, ReadStillTrue
<1> USE DEF Settling, TypeOK, Statuses, Terminal, CreatePoints, CancelPoints,
            ProcessPoints,
            dbVars, queueVars, workerVars, apiVars, historyVars,
            Goto, ToIdle, Continue, Branch, SetStatus, CreateGoto, CancelGoto
<1>1. ASSUME NEW w \in Workers, Recovery(w) PROVE UnpushedIsUnknown(q)'
  <2>1. CASE RecoverScan(w) BY <2>1 DEF RecoverScan
  <2>2. CASE \E r \in Runs : RecoverRemove(w, r) BY <2>2 DEF RecoverRemove
  <2>3. CASE \E r \in Runs : ResetRead(w, r) BY <2>3 DEF ResetRead
  <2>4. CASE RecoverUnstamp(w) BY <2>4 DEF RecoverUnstamp
  <2>5. CASE RecoverPush(w) BY <2>5 DEF RecoverPush
  <2>6. CASE RecoverReturn(w) BY <2>6 DEF RecoverReturn
  <2>7. CASE ResetCommit(w) BY <2>7 DEF ResetCommit
  <2> QED BY <1>1, <2>1, <2>2, <2>3, <2>4, <2>5, <2>6, <2>7 DEF Recovery
<1>2. ASSUME NEW w \in Workers, NEW r \in Runs, Claim(w, r)
     PROVE UnpushedIsUnknown(q)'
  BY <1>2 DEF Claim
<1>3. ASSUME NEW w \in Workers, Execution(w) PROVE UnpushedIsUnknown(q)'
  <2>1. CASE ClaimStamp(w) BY <2>1 DEF ClaimStamp
  <2>2. CASE StartRun(w) BY <2>2 DEF StartRun
  <2>3. CASE Decide(w) BY <2>3 DEF Decide
  <2>4. CASE PersistRead(w) BY <2>4 DEF PersistRead
  <2>5. CASE PersistCommit(w) BY <2>5 DEF PersistCommit
  <2>6. CASE PersistRaises(w) BY <2>6 DEF PersistRaises
  <2>7. CASE FailRead(w) BY <2>7 DEF FailRead
  <2>8. CASE FailCommit(w) BY <2>8 DEF FailCommit
  <2>9. CASE AckRemove(w) BY <2>9 DEF AckRemove
  <2>10. CASE AckUnstamp(w) BY <2>10 DEF AckUnstamp
  <2>11. CASE AckForget(w) BY <2>11 DEF AckForget
  <2> QED BY <1>3, <2>1, <2>2, <2>3, <2>4, <2>5, <2>6, <2>7, <2>8, <2>9,
             <2>10, <2>11 DEF Execution
<1>4. ASSUME NEW w \in Workers, Retry(w) PROVE UnpushedIsUnknown(q)'
  <2>1. CASE ProcessRaises(w) BY <2>1 DEF ProcessRaises
  <2>2. CASE RetryCount(w) BY <2>2 DEF RetryCount
  <2>3. CASE RetryRemove(w) BY <2>3 DEF RetryRemove
  <2>4. CASE RetryUnstamp(w) BY <2>4 DEF RetryUnstamp
  <2>5. CASE RetryPush(w) BY <2>5 DEF RetryPush
  <2>6. CASE RetryExhausted(w) BY <2>6 DEF RetryExhausted
  <2>7. CASE MarkRead(w) BY <2>7 DEF MarkRead
  <2>8. CASE MarkCommit(w) BY <2>8 DEF MarkCommit
  <2> QED BY <1>4, <2>1, <2>2, <2>3, <2>4, <2>5, <2>6, <2>7, <2>8 DEF Retry
<1>5. ASSUME NEW w \in Workers, Crash(w) PROVE UnpushedIsUnknown(q)'
  BY <1>5 DEF Crash
<1>6. ASSUME NEW r \in Runs, ClaimGoesStale(r) PROVE UnpushedIsUnknown(q)'
  BY <1>6 DEF ClaimGoesStale, InFlight, Busy
<1>7. ASSUME NEW r \in Runs, ApiStep(r) PROVE UnpushedIsUnknown(q)'
  <2>1. CASE CreateRun(r) BY <2>1 DEF CreateRun
  <2>2. CASE EnqueueRemove(r) BY <2>2 DEF EnqueueRemove
  <2>3. CASE EnqueuePush(r) BY <2>3 DEF EnqueuePush
  <2>4. CASE CreateFailRead(r) BY <2>4 DEF CreateFailRead
  <2>5. CASE CreateFailCommit(r) BY <2>5 DEF CreateFailCommit
  <2>6. CASE CancelRead(r) BY <2>6 DEF CancelRead
  <2>7. CASE CancelRemove(r) BY <2>7 DEF CancelRemove
  <2>8. CASE CancelCommit(r) BY <2>8 DEF CancelCommit
  <2>9. CASE EnqueueFails(r) BY <2>9 DEF EnqueueFails
  <2>10. CASE CreateCrash(r) BY <2>10 DEF CreateCrash
  <2>11. CASE CancelCrash(r) BY <2>11 DEF CancelCrash
  <2> QED BY <1>7, <2>1, <2>2, <2>3, <2>4, <2>5, <2>6, <2>7, <2>8, <2>9,
             <2>10, <2>11 DEF ApiStep, Creation, Cancellation, ApiFaulty
<1>8. CASE UNCHANGED vars BY <1>8 DEF vars
<1> QED BY <1>1, <1>2, <1>3, <1>4, <1>5, <1>6, <1>7, <1>8 DEF Next, WorkerStep

\* Nobody changes the row between a process's read of it and its write.
LEMMA RowAsReadStep ==
  ASSUME Settling, LifeInv, [Next]_vars, NEW q \in Runs
  PROVE  RowAsRead(q)'
<1>0. /\ UnpushedIsUnknown(q) /\ RowAsRead(q) /\ StartedStaysOut(q)
      /\ StartsFresh(q) /\ OneHolder(q)
      /\ status[q] = "absent" => creating[q] = "none"
  BY DEF LifeInv, RowInv, IInv, CustodyInv, SingleCustody
<1>typed. TypeOK /\ CalmInv
  BY DEF LifeInv, IInv
<1> USE <1>0, <1>typed DEF UnpushedIsUnknown, StartedStaysOut, StartsFresh,
            RowAsRead, ReadStillTrue, OneHolder, Handling, ClaimedPoints,
            RetryPoints
<1> USE DEF Settling, Exclusive, SingleWorker, CalmInv, CalmWorker, CalmPoints,
            CalmFleet, CalmClaimPoints, TypeOK, Statuses, Terminal, CreatePoints,
            CancelPoints, ProcessPoints,
            dbVars, queueVars, workerVars, apiVars, historyVars,
            Goto, ToIdle, Continue, Branch, SetStatus, CreateGoto, CancelGoto
<1>1. ASSUME NEW w \in Workers, Recovery(w) PROVE RowAsRead(q)'
  <2>1. CASE RecoverScan(w) BY <2>1 DEF RecoverScan
  <2>2. CASE \E r \in Runs : RecoverRemove(w, r) BY <2>2 DEF RecoverRemove
  <2>3. CASE \E r \in Runs : ResetRead(w, r) BY <2>3 DEF ResetRead
  <2>4. CASE RecoverUnstamp(w) BY <2>4 DEF RecoverUnstamp
  <2>5. CASE RecoverPush(w) BY <2>5 DEF RecoverPush
  <2>6. CASE RecoverReturn(w) BY <2>6 DEF RecoverReturn
  <2>7. CASE ResetCommit(w) BY <2>7 DEF ResetCommit
  <2> QED BY <1>1, <2>1, <2>2, <2>3, <2>4, <2>5, <2>6, <2>7 DEF Recovery
<1>2. ASSUME NEW w \in Workers, NEW r \in Runs, Claim(w, r) PROVE RowAsRead(q)'
  BY <1>2 DEF Claim
<1>3. ASSUME NEW w \in Workers, Execution(w) PROVE RowAsRead(q)'
  <2>1. CASE ClaimStamp(w) BY <2>1 DEF ClaimStamp
  <2>2. CASE StartRun(w)
    <3>1. CASE job[w] # q BY <2>2, <3>1 DEF StartRun
    <3>2. CASE job[w] = q
      <4>1. cancelling[q] # "cancel_commit"
        BY <2>2, <3>2 DEF StartRun, LifeInv, IInv, CustodyInv,
                       CancelledHasNoJob, Withdrawn, NoCopy
      <4>2. ASSUME NEW v \in Workers PROVE ReadStillTrue(v, q)'
        BY <2>2, <3>2 DEF StartRun
      <4> QED BY <2>2, <4>1, <4>2 DEF StartRun
    <3> QED BY <3>1, <3>2
  <2>3. CASE Decide(w) BY <2>3 DEF Decide
  <2>4. CASE PersistRead(w) BY <2>4 DEF PersistRead
  <2>5. CASE PersistCommit(w)
    <3>1. /\ job[w] = q => status[q] = "running"
          /\ job[w] \in Runs
      BY <2>5 DEF PersistCommit
    <3>2. (cancelling[q] = "cancel_commit" => status[q] = "queued")'
      BY <2>5, <3>1 DEF PersistCommit
    <3>3. ASSUME NEW v \in Workers PROVE ReadStillTrue(v, q)'
      <4>1. CASE v = w BY <2>5, <4>1 DEF PersistCommit
      <4>2. CASE v # w BY <2>5, <3>1, <4>2 DEF PersistCommit
      <4> QED BY <4>1, <4>2
    <3> QED BY <3>2, <3>3
  <2>6. CASE PersistRaises(w) BY <2>6 DEF PersistRaises
  <2>7. CASE FailRead(w) BY <2>7 DEF FailRead
  <2>8. CASE FailCommit(w) BY <2>8 DEF FailCommit
  <2>9. CASE AckRemove(w) BY <2>9 DEF AckRemove
  <2>10. CASE AckUnstamp(w) BY <2>10 DEF AckUnstamp
  <2>11. CASE AckForget(w) BY <2>11 DEF AckForget
  <2> QED BY <1>3, <2>1, <2>2, <2>3, <2>4, <2>5, <2>6, <2>7, <2>8, <2>9,
             <2>10, <2>11 DEF Execution
<1>4. ASSUME NEW w \in Workers, Retry(w) PROVE RowAsRead(q)'
  <2>1. CASE ProcessRaises(w) BY <2>1 DEF ProcessRaises
  <2>2. CASE RetryCount(w) BY <2>2 DEF RetryCount
  <2>3. CASE RetryRemove(w) BY <2>3 DEF RetryRemove
  <2>4. CASE RetryUnstamp(w) BY <2>4 DEF RetryUnstamp
  <2>5. CASE RetryPush(w) BY <2>5 DEF RetryPush
  <2>6. CASE RetryExhausted(w) BY <2>6 DEF RetryExhausted
  <2>7. CASE MarkRead(w) BY <2>7 DEF MarkRead
  <2>8. CASE MarkCommit(w) BY <2>8 DEF MarkCommit
  <2> QED BY <1>4, <2>1, <2>2, <2>3, <2>4, <2>5, <2>6, <2>7, <2>8 DEF Retry
<1>5. ASSUME NEW w \in Workers, Crash(w) PROVE RowAsRead(q)'
  BY <1>5 DEF Crash
<1>6. ASSUME NEW r \in Runs, ClaimGoesStale(r) PROVE RowAsRead(q)'
  BY <1>6 DEF ClaimGoesStale, InFlight, Busy
<1>7. ASSUME NEW r \in Runs, ApiStep(r) PROVE RowAsRead(q)'
  <2>1. CASE CreateRun(r) BY <2>1 DEF CreateRun
  <2>2. CASE EnqueueRemove(r) BY <2>2 DEF EnqueueRemove
  <2>3. CASE EnqueuePush(r) BY <2>3 DEF EnqueuePush
  <2>4. CASE CreateFailRead(r) BY <2>4 DEF CreateFailRead
  <2>5. CASE CreateFailCommit(r) BY <2>5 DEF CreateFailCommit
  <2>6. CASE CancelRead(r) BY <2>6 DEF CancelRead
  <2>7. CASE CancelRemove(r) BY <2>7 DEF CancelRemove
  <2>8. CASE CancelCommit(r) BY <2>8 DEF CancelCommit
  <2>9. CASE EnqueueFails(r) BY <2>9 DEF EnqueueFails
  <2>10. CASE CreateCrash(r) BY <2>10 DEF CreateCrash
  <2>11. CASE CancelCrash(r) BY <2>11 DEF CancelCrash
  <2> QED BY <1>7, <2>1, <2>2, <2>3, <2>4, <2>5, <2>6, <2>7, <2>8, <2>9,
             <2>10, <2>11 DEF ApiStep, Creation, Cancellation, ApiFaulty
<1>8. CASE UNCHANGED vars BY <1>8 DEF vars
<1> QED BY <1>1, <1>2, <1>3, <1>4, <1>5, <1>6, <1>7, <1>8 DEF Next, WorkerStep

\* Only ClaimStamp leads to the start, and only an exception to a retry.
LEMMA StartsFreshStep ==
  ASSUME Settling, LifeInv, [Next]_vars, NEW q \in Runs
  PROVE  StartsFresh(q)'
<1>0. StartsFresh(q)
  BY DEF LifeInv, RowInv
<1>typed. TypeOK
  BY DEF LifeInv, IInv
<1> USE <1>0, <1>typed DEF StartsFresh, RetryPoints
<1> USE DEF TypeOK, ProcessPoints,
            dbVars, queueVars, workerVars, apiVars, historyVars,
            Goto, ToIdle, Continue, Branch, SetStatus, CreateGoto, CancelGoto
<1>1. ASSUME NEW w \in Workers, Recovery(w) PROVE StartsFresh(q)'
  <2>1. CASE RecoverScan(w) BY <2>1 DEF RecoverScan
  <2>2. CASE \E r \in Runs : RecoverRemove(w, r) BY <2>2 DEF RecoverRemove
  <2>3. CASE \E r \in Runs : ResetRead(w, r) BY <2>3 DEF ResetRead
  <2>4. CASE RecoverUnstamp(w) BY <2>4 DEF RecoverUnstamp
  <2>5. CASE RecoverPush(w) BY <2>5 DEF RecoverPush
  <2>6. CASE RecoverReturn(w) BY <2>6 DEF RecoverReturn
  <2>7. CASE ResetCommit(w) BY <2>7 DEF ResetCommit
  <2> QED BY <1>1, <2>1, <2>2, <2>3, <2>4, <2>5, <2>6, <2>7 DEF Recovery
<1>2. ASSUME NEW w \in Workers, NEW r \in Runs, Claim(w, r)
     PROVE StartsFresh(q)'
  BY <1>2 DEF Claim
<1>3. ASSUME NEW w \in Workers, Execution(w) PROVE StartsFresh(q)'
  <2>1. CASE ClaimStamp(w) BY <2>1 DEF ClaimStamp
  <2>2. CASE StartRun(w) BY <2>2 DEF StartRun
  <2>3. CASE Decide(w) BY <2>3 DEF Decide
  <2>4. CASE PersistRead(w) BY <2>4 DEF PersistRead
  <2>5. CASE PersistCommit(w) BY <2>5 DEF PersistCommit
  <2>6. CASE PersistRaises(w) BY <2>6 DEF PersistRaises
  <2>7. CASE FailRead(w) BY <2>7 DEF FailRead
  <2>8. CASE FailCommit(w) BY <2>8 DEF FailCommit
  <2>9. CASE AckRemove(w) BY <2>9 DEF AckRemove
  <2>10. CASE AckUnstamp(w) BY <2>10 DEF AckUnstamp
  <2>11. CASE AckForget(w) BY <2>11 DEF AckForget
  <2> QED BY <1>3, <2>1, <2>2, <2>3, <2>4, <2>5, <2>6, <2>7, <2>8, <2>9,
             <2>10, <2>11 DEF Execution
<1>4. ASSUME NEW w \in Workers, Retry(w) PROVE StartsFresh(q)'
  <2>1. CASE ProcessRaises(w) BY <2>1 DEF ProcessRaises
  <2>2. CASE RetryCount(w) BY <2>2 DEF RetryCount
  <2>3. CASE RetryRemove(w) BY <2>3 DEF RetryRemove
  <2>4. CASE RetryUnstamp(w) BY <2>4 DEF RetryUnstamp
  <2>5. CASE RetryPush(w) BY <2>5 DEF RetryPush
  <2>6. CASE RetryExhausted(w) BY <2>6 DEF RetryExhausted
  <2>7. CASE MarkRead(w) BY <2>7 DEF MarkRead
  <2>8. CASE MarkCommit(w) BY <2>8 DEF MarkCommit
  <2> QED BY <1>4, <2>1, <2>2, <2>3, <2>4, <2>5, <2>6, <2>7, <2>8 DEF Retry
<1>5. ASSUME NEW w \in Workers, Crash(w) PROVE StartsFresh(q)'
  BY <1>5 DEF Crash
<1>6. ASSUME NEW r \in Runs, ClaimGoesStale(r) PROVE StartsFresh(q)'
  BY <1>6 DEF ClaimGoesStale, InFlight, Busy
<1>7. ASSUME NEW r \in Runs, ApiStep(r) PROVE StartsFresh(q)'
  <2>1. CASE CreateRun(r) BY <2>1 DEF CreateRun
  <2>2. CASE EnqueueRemove(r) BY <2>2 DEF EnqueueRemove
  <2>3. CASE EnqueuePush(r) BY <2>3 DEF EnqueuePush
  <2>4. CASE CreateFailRead(r) BY <2>4 DEF CreateFailRead
  <2>5. CASE CreateFailCommit(r) BY <2>5 DEF CreateFailCommit
  <2>6. CASE CancelRead(r) BY <2>6 DEF CancelRead
  <2>7. CASE CancelRemove(r) BY <2>7 DEF CancelRemove
  <2>8. CASE CancelCommit(r) BY <2>8 DEF CancelCommit
  <2>9. CASE EnqueueFails(r) BY <2>9 DEF EnqueueFails
  <2>10. CASE CreateCrash(r) BY <2>10 DEF CreateCrash
  <2>11. CASE CancelCrash(r) BY <2>11 DEF CancelCrash
  <2> QED BY <1>7, <2>1, <2>2, <2>3, <2>4, <2>5, <2>6, <2>7, <2>8, <2>9,
             <2>10, <2>11 DEF ApiStep, Creation, Cancellation, ApiFaulty
<1>8. CASE UNCHANGED vars BY <1>8 DEF vars
<1> QED BY <1>1, <1>2, <1>3, <1>4, <1>5, <1>6, <1>7, <1>8 DEF Next, WorkerStep

\* The job of a started run whose cancellation is under way is not returned.
LEMMA StartedStaysOutStep ==
  ASSUME Settling, LifeInv, [Next]_vars, NEW q \in Runs
  PROVE  StartedStaysOut(q)'
<1>0. /\ UnpushedIsUnknown(q) /\ RowAsRead(q) /\ StartedStaysOut(q)
      /\ StartsFresh(q) /\ OneCopy(q) /\ HolderAgrees(q)
      /\ status[q] = "absent" => creating[q] = "none"
  BY DEF LifeInv, RowInv, IInv, CustodyInv, SingleCustody
<1>typed. TypeOK /\ CalmInv
  BY DEF LifeInv, IInv
<1> USE <1>0, <1>typed DEF UnpushedIsUnknown, StartedStaysOut, StartsFresh,
            RowAsRead, ReadStillTrue, RetryPoints, RecoveringPoints, Recovering,
            NoCopy
<1> USE DEF Settling, TypeOK, Statuses, Terminal, CreatePoints,
            CancelPoints, ProcessPoints,
            dbVars, queueVars, workerVars, apiVars, historyVars,
            Goto, ToIdle, Continue, Branch, SetStatus, CreateGoto, CancelGoto
<1>1. ASSUME NEW w \in Workers, Recovery(w) PROVE StartedStaysOut(q)'
  <2>1. CASE RecoverScan(w) BY <2>1 DEF RecoverScan
  <2>2. CASE \E r \in Runs : RecoverRemove(w, r) BY <2>2 DEF RecoverRemove
  <2>3. CASE \E r \in Runs : ResetRead(w, r) BY <2>3 DEF ResetRead
  <2>4. CASE RecoverUnstamp(w) BY <2>4 DEF RecoverUnstamp
  <2>5. CASE RecoverPush(w) BY <2>5 DEF RecoverPush
  <2>6. CASE RecoverReturn(w) BY <2>6 DEF RecoverReturn
  <2>7. CASE ResetCommit(w) BY <2>7 DEF ResetCommit
  <2> QED BY <1>1, <2>1, <2>2, <2>3, <2>4, <2>5, <2>6, <2>7 DEF Recovery
<1>2. ASSUME NEW w \in Workers, NEW r \in Runs, Claim(w, r)
     PROVE StartedStaysOut(q)'
  BY <1>2 DEF Claim
<1>3. ASSUME NEW w \in Workers, Execution(w) PROVE StartedStaysOut(q)'
  <2>1. CASE ClaimStamp(w) BY <2>1 DEF ClaimStamp
  <2>2. CASE StartRun(w)
    <3>1. CASE job[w] # q BY <2>2, <3>1 DEF StartRun
    <3>2. CASE job[w] = q
      <4>1. queued[q] = 0
        BY <2>2, <3>2 DEF StartRun, OneCopy, HolderAgrees, ClaimedPoints
      <4>2. cancelling[q] # "none" => claimed_at[q] # "stale"
        BY <2>2, <3>2 DEF StartRun
      <4>3. ASSUME NEW v \in Workers PROVE ~Recovering(v, q)'
        <5>1. CASE SingleWorker
          BY <2>2, <5>1 DEF StartRun, SingleWorker
        <5>2. CASE CalmFleet
          <6>1. CalmWorker(v) /\ CalmClaim(q) /\ ~Gone(q)
            BY <2>2, <3>2, <5>2 DEF StartRun, CalmInv, Gone, Handling, ClaimedPoints
          <6> QED
            BY <2>2, <3>2, <6>1 DEF StartRun, CalmWorker, CalmClaim, CalmPoints,
               CalmClaimPoints
        <5> QED BY <5>1, <5>2 DEF Exclusive
      <4> QED BY <2>2, <3>2, <4>1, <4>2, <4>3 DEF StartRun
    <3> QED BY <3>1, <3>2
  <2>3. CASE Decide(w) BY <2>3 DEF Decide
  <2>4. CASE PersistRead(w) BY <2>4 DEF PersistRead
  <2>5. CASE PersistCommit(w) BY <2>5 DEF PersistCommit
  <2>6. CASE PersistRaises(w) BY <2>6 DEF PersistRaises
  <2>7. CASE FailRead(w) BY <2>7 DEF FailRead
  <2>8. CASE FailCommit(w) BY <2>8 DEF FailCommit
  <2>9. CASE AckRemove(w) BY <2>9 DEF AckRemove
  <2>10. CASE AckUnstamp(w) BY <2>10 DEF AckUnstamp
  <2>11. CASE AckForget(w) BY <2>11 DEF AckForget
  <2> QED BY <1>3, <2>1, <2>2, <2>3, <2>4, <2>5, <2>6, <2>7, <2>8, <2>9,
             <2>10, <2>11 DEF Execution
<1>4. ASSUME NEW w \in Workers, Retry(w) PROVE StartedStaysOut(q)'
  <2>1. CASE ProcessRaises(w) BY <2>1 DEF ProcessRaises
  <2>2. CASE RetryCount(w) BY <2>2 DEF RetryCount
  <2>3. CASE RetryRemove(w) BY <2>3 DEF RetryRemove
  <2>4. CASE RetryUnstamp(w) BY <2>4 DEF RetryUnstamp
  <2>5. CASE RetryPush(w) BY <2>5 DEF RetryPush
  <2>6. CASE RetryExhausted(w) BY <2>6 DEF RetryExhausted
  <2>7. CASE MarkRead(w) BY <2>7 DEF MarkRead
  <2>8. CASE MarkCommit(w) BY <2>8 DEF MarkCommit
  <2> QED BY <1>4, <2>1, <2>2, <2>3, <2>4, <2>5, <2>6, <2>7, <2>8 DEF Retry
<1>5. ASSUME NEW w \in Workers, Crash(w) PROVE StartedStaysOut(q)'
  BY <1>5 DEF Crash
<1>6. ASSUME NEW r \in Runs, ClaimGoesStale(r) PROVE StartedStaysOut(q)'
  BY <1>6 DEF ClaimGoesStale, InFlight, Busy
<1>7. ASSUME NEW r \in Runs, ApiStep(r) PROVE StartedStaysOut(q)'
  <2>1. CASE CreateRun(r) BY <2>1 DEF CreateRun
  <2>2. CASE EnqueueRemove(r) BY <2>2 DEF EnqueueRemove
  <2>3. CASE EnqueuePush(r) BY <2>3 DEF EnqueuePush
  <2>4. CASE CreateFailRead(r) BY <2>4 DEF CreateFailRead
  <2>5. CASE CreateFailCommit(r) BY <2>5 DEF CreateFailCommit
  <2>6. CASE CancelRead(r) BY <2>6 DEF CancelRead
  <2>7. CASE CancelRemove(r) BY <2>7 DEF CancelRemove
  <2>8. CASE CancelCommit(r) BY <2>8 DEF CancelCommit
  <2>9. CASE EnqueueFails(r) BY <2>9 DEF EnqueueFails
  <2>10. CASE CreateCrash(r) BY <2>10 DEF CreateCrash
  <2>11. CASE CancelCrash(r) BY <2>11 DEF CancelCrash
  <2> QED BY <1>7, <2>1, <2>2, <2>3, <2>4, <2>5, <2>6, <2>7, <2>8, <2>9,
             <2>10, <2>11 DEF ApiStep, Creation, Cancellation, ApiFaulty
<1>8. CASE UNCHANGED vars BY <1>8 DEF vars
<1> QED BY <1>1, <1>2, <1>3, <1>4, <1>5, <1>6, <1>7, <1>8 DEF Next, WorkerStep

\* A result is stored by the step that completes the run, and by no other.
LEMMA OutcomeStep ==
  ASSUME Settling, LifeInv, [Next]_vars
  PROVE  OutcomeMatchesDecisions'
<1>0. /\ OutcomeMatchesDecisions /\ RowInv /\ ResultInv
      /\ \A r \in Runs : status[r] = "absent" => creating[r] = "none"
  BY DEF LifeInv, RowInv, IInv, CustodyInv
<1>typed. TypeOK
  BY DEF LifeInv, IInv
<1> USE <1>0, <1>typed DEF OutcomeMatchesDecisions, RowInv, RowAsRead,
            ReadStillTrue, UnpushedIsUnknown, ResultInv, Stored
<1> USE DEF Settling, TypeOK, Statuses, Terminal, CreatePoints, CancelPoints,
            ProcessPoints,
            dbVars, queueVars, workerVars, apiVars, historyVars,
            Goto, ToIdle, Continue, Branch, SetStatus, CreateGoto, CancelGoto
<1>1. ASSUME NEW w \in Workers, Recovery(w) PROVE OutcomeMatchesDecisions'
  <2>1. CASE RecoverScan(w) BY <2>1 DEF RecoverScan
  <2>2. CASE \E r \in Runs : RecoverRemove(w, r) BY <2>2 DEF RecoverRemove
  <2>3. CASE \E r \in Runs : ResetRead(w, r) BY <2>3 DEF ResetRead
  <2>4. CASE RecoverUnstamp(w) BY <2>4 DEF RecoverUnstamp
  <2>5. CASE RecoverPush(w) BY <2>5 DEF RecoverPush
  <2>6. CASE RecoverReturn(w) BY <2>6 DEF RecoverReturn
  <2>7. CASE ResetCommit(w) BY <2>7 DEF ResetCommit
  <2> QED BY <1>1, <2>1, <2>2, <2>3, <2>4, <2>5, <2>6, <2>7 DEF Recovery
<1>2. ASSUME NEW w \in Workers, NEW r \in Runs, Claim(w, r)
     PROVE OutcomeMatchesDecisions'
  BY <1>2 DEF Claim
<1>3. ASSUME NEW w \in Workers, Execution(w) PROVE OutcomeMatchesDecisions'
  <2>1. CASE ClaimStamp(w) BY <2>1 DEF ClaimStamp
  <2>2. CASE StartRun(w) BY <2>2 DEF StartRun
  <2>3. CASE Decide(w) BY <2>3 DEF Decide
  <2>4. CASE PersistRead(w) BY <2>4 DEF PersistRead
  <2>5. CASE PersistCommit(w) BY <2>5 DEF PersistCommit
  <2>6. CASE PersistRaises(w) BY <2>6 DEF PersistRaises
  <2>7. CASE FailRead(w) BY <2>7 DEF FailRead
  <2>8. CASE FailCommit(w) BY <2>8 DEF FailCommit
  <2>9. CASE AckRemove(w) BY <2>9 DEF AckRemove
  <2>10. CASE AckUnstamp(w) BY <2>10 DEF AckUnstamp
  <2>11. CASE AckForget(w) BY <2>11 DEF AckForget
  <2> QED BY <1>3, <2>1, <2>2, <2>3, <2>4, <2>5, <2>6, <2>7, <2>8, <2>9,
             <2>10, <2>11 DEF Execution
<1>4. ASSUME NEW w \in Workers, Retry(w) PROVE OutcomeMatchesDecisions'
  <2>1. CASE ProcessRaises(w) BY <2>1 DEF ProcessRaises
  <2>2. CASE RetryCount(w) BY <2>2 DEF RetryCount
  <2>3. CASE RetryRemove(w) BY <2>3 DEF RetryRemove
  <2>4. CASE RetryUnstamp(w) BY <2>4 DEF RetryUnstamp
  <2>5. CASE RetryPush(w) BY <2>5 DEF RetryPush
  <2>6. CASE RetryExhausted(w) BY <2>6 DEF RetryExhausted
  <2>7. CASE MarkRead(w) BY <2>7 DEF MarkRead
  <2>8. CASE MarkCommit(w) BY <2>8 DEF MarkCommit
  <2> QED BY <1>4, <2>1, <2>2, <2>3, <2>4, <2>5, <2>6, <2>7, <2>8 DEF Retry
<1>5. ASSUME NEW w \in Workers, Crash(w) PROVE OutcomeMatchesDecisions'
  BY <1>5 DEF Crash
<1>6. ASSUME NEW r \in Runs, ClaimGoesStale(r) PROVE OutcomeMatchesDecisions'
  BY <1>6 DEF ClaimGoesStale, InFlight, Busy
<1>7. ASSUME NEW r \in Runs, ApiStep(r) PROVE OutcomeMatchesDecisions'
  <2>1. CASE CreateRun(r) BY <2>1 DEF CreateRun
  <2>2. CASE EnqueueRemove(r) BY <2>2 DEF EnqueueRemove
  <2>3. CASE EnqueuePush(r) BY <2>3 DEF EnqueuePush
  <2>4. CASE CreateFailRead(r) BY <2>4 DEF CreateFailRead
  <2>5. CASE CreateFailCommit(r) BY <2>5 DEF CreateFailCommit
  <2>6. CASE CancelRead(r) BY <2>6 DEF CancelRead
  <2>7. CASE CancelRemove(r) BY <2>7 DEF CancelRemove
  <2>8. CASE CancelCommit(r) BY <2>8 DEF CancelCommit
  <2>9. CASE EnqueueFails(r) BY <2>9 DEF EnqueueFails
  <2>10. CASE CreateCrash(r) BY <2>10 DEF CreateCrash
  <2>11. CASE CancelCrash(r) BY <2>11 DEF CancelCrash
  <2> QED BY <1>7, <2>1, <2>2, <2>3, <2>4, <2>5, <2>6, <2>7, <2>8, <2>9,
             <2>10, <2>11 DEF ApiStep, Creation, Cancellation, ApiFaulty
<1>8. CASE UNCHANGED vars BY <1>8 DEF vars
<1> QED BY <1>1, <1>2, <1>3, <1>4, <1>5, <1>6, <1>7, <1>8 DEF Next, WorkerStep

\* Every step is one of the lifecycle's to a reader of the database, or changes
\* nothing a reader sees.
LEMMA LifecycleStep ==
  ASSUME Settling, LifeInv, [Next]_vars
  PROVE  [Lifecycle!LifecycleNext]_(Lifecycle!lifecycleVars)
<1> DEFINE Refines == [Lifecycle!LifecycleNext]_(Lifecycle!lifecycleVars)
<1>0. /\ RowInv /\ ResultInv
      /\ \A r \in Runs : status[r] = "absent" => creating[r] = "none"
  BY DEF LifeInv, IInv, CustodyInv
<1>typed. TypeOK
  BY DEF LifeInv, IInv
<1> USE <1>0, <1>typed DEF RowInv, RowAsRead, ReadStillTrue,
            UnpushedIsUnknown, ResultInv, Stored
<1> USE DEF TypeOK, Statuses, Terminal, CreatePoints, CancelPoints,
            ProcessPoints,
            dbVars, queueVars, workerVars, apiVars, historyVars,
            Goto, ToIdle, Continue, Branch, SetStatus, CreateGoto, CancelGoto,
            Lifecycle!LifecycleNext, Lifecycle!lifecycleVars, Lifecycle!Submit,
            Lifecycle!Begin, Lifecycle!Complete, Lifecycle!Fail,
            Lifecycle!Withdraw, Lifecycle!PutBack, Lifecycle!Move
<1>1. ASSUME NEW w \in Workers, Recovery(w) PROVE Refines
  <2>1. CASE RecoverScan(w) BY <2>1 DEF RecoverScan
  <2>2. CASE \E r \in Runs : RecoverRemove(w, r) BY <2>2 DEF RecoverRemove
  <2>3. CASE \E r \in Runs : ResetRead(w, r) BY <2>3 DEF ResetRead
  <2>4. CASE RecoverUnstamp(w) BY <2>4 DEF RecoverUnstamp
  <2>5. CASE RecoverPush(w) BY <2>5 DEF RecoverPush
  <2>6. CASE RecoverReturn(w) BY <2>6 DEF RecoverReturn
  <2>7. CASE ResetCommit(w) BY <2>7 DEF ResetCommit
  <2> QED BY <1>1, <2>1, <2>2, <2>3, <2>4, <2>5, <2>6, <2>7 DEF Recovery
<1>2. ASSUME NEW w \in Workers, NEW r \in Runs, Claim(w, r) PROVE Refines
  BY <1>2 DEF Claim
<1>3. ASSUME NEW w \in Workers, Execution(w) PROVE Refines
  <2>1. CASE ClaimStamp(w) BY <2>1 DEF ClaimStamp
  <2>2. CASE StartRun(w) BY <2>2 DEF StartRun
  <2>3. CASE Decide(w) BY <2>3 DEF Decide
  <2>4. CASE PersistRead(w) BY <2>4 DEF PersistRead
  <2>5. CASE PersistCommit(w)
    <3>1. /\ status[job[w]] = "running" /\ decisions[job[w]] = 0
          /\ job[w] \in Runs
      BY <2>5 DEF PersistCommit
    <3>2. Lifecycle!Complete(job[w])
      BY <2>5, <3>1 DEF PersistCommit
    <3> QED BY <3>1, <3>2
  <2>6. CASE PersistRaises(w) BY <2>6 DEF PersistRaises
  <2>7. CASE FailRead(w) BY <2>7 DEF FailRead
  <2>8. CASE FailCommit(w) BY <2>8 DEF FailCommit
  <2>9. CASE AckRemove(w) BY <2>9 DEF AckRemove
  <2>10. CASE AckUnstamp(w) BY <2>10 DEF AckUnstamp
  <2>11. CASE AckForget(w) BY <2>11 DEF AckForget
  <2> QED BY <1>3, <2>1, <2>2, <2>3, <2>4, <2>5, <2>6, <2>7, <2>8, <2>9,
             <2>10, <2>11 DEF Execution
<1>4. ASSUME NEW w \in Workers, Retry(w) PROVE Refines
  <2>1. CASE ProcessRaises(w) BY <2>1 DEF ProcessRaises
  <2>2. CASE RetryCount(w) BY <2>2 DEF RetryCount
  <2>3. CASE RetryRemove(w) BY <2>3 DEF RetryRemove
  <2>4. CASE RetryUnstamp(w) BY <2>4 DEF RetryUnstamp
  <2>5. CASE RetryPush(w) BY <2>5 DEF RetryPush
  <2>6. CASE RetryExhausted(w) BY <2>6 DEF RetryExhausted
  <2>7. CASE MarkRead(w) BY <2>7 DEF MarkRead
  <2>8. CASE MarkCommit(w) BY <2>8 DEF MarkCommit
  <2> QED BY <1>4, <2>1, <2>2, <2>3, <2>4, <2>5, <2>6, <2>7, <2>8 DEF Retry
<1>5. ASSUME NEW w \in Workers, Crash(w) PROVE Refines
  BY <1>5 DEF Crash
<1>6. ASSUME NEW r \in Runs, ClaimGoesStale(r) PROVE Refines
  BY <1>6 DEF ClaimGoesStale, InFlight, Busy
<1>7. ASSUME NEW r \in Runs, ApiStep(r) PROVE Refines
  <2>1. CASE CreateRun(r) BY <2>1 DEF CreateRun
  <2>2. CASE EnqueueRemove(r) BY <2>2 DEF EnqueueRemove
  <2>3. CASE EnqueuePush(r) BY <2>3 DEF EnqueuePush
  <2>4. CASE CreateFailRead(r) BY <2>4 DEF CreateFailRead
  <2>5. CASE CreateFailCommit(r) BY <2>5 DEF CreateFailCommit
  <2>6. CASE CancelRead(r) BY <2>6 DEF CancelRead
  <2>7. CASE CancelRemove(r) BY <2>7 DEF CancelRemove
  <2>8. CASE CancelCommit(r) BY <2>8 DEF CancelCommit
  <2>9. CASE EnqueueFails(r) BY <2>9 DEF EnqueueFails
  <2>10. CASE CreateCrash(r) BY <2>10 DEF CreateCrash
  <2>11. CASE CancelCrash(r) BY <2>11 DEF CancelCrash
  <2> QED BY <1>7, <2>1, <2>2, <2>3, <2>4, <2>5, <2>6, <2>7, <2>8, <2>9,
             <2>10, <2>11 DEF ApiStep, Creation, Cancellation, ApiFaulty
<1>8. CASE UNCHANGED vars BY <1>8 DEF vars
<1> QED BY <1>1, <1>2, <1>3, <1>4, <1>5, <1>6, <1>7, <1>8 DEF Next, WorkerStep

-----------------------------------------------------------------------------
\* In the deployments of Settling the invariant holds of every behaviour.
THEOREM LifeInductive == ASSUME Settling PROVE Spec => []LifeInv
<1>1. Init => LifeInv
  <2> SUFFICES ASSUME Init PROVE LifeInv
    OBVIOUS
  <2>2. IInv
    BY InitInv
  <2>3. RowInv
    BY DEF Init, RowInv, UnpushedIsUnknown, RowAsRead, ReadStillTrue,
           StartedStaysOut, StartsFresh, NoCopy,
           Handling, ClaimedPoints, ReturningPoints, Recovering, RecoveringPoints,
           RetryPoints
  <2>4. OutcomeMatchesDecisions
    BY DEF Init, OutcomeMatchesDecisions
  <2> QED BY <2>2, <2>3, <2>4 DEF LifeInv
<1>2. LifeInv /\ [Next]_vars => LifeInv'
  <2> SUFFICES ASSUME LifeInv, [Next]_vars PROVE LifeInv'
    OBVIOUS
  <2>1. IInv'
    BY TypeOKStep, CalmStep, CustodyStep, ResultStep DEF LifeInv, IInv, Settling
  <2>2. RowInv'
    BY UnpushedStep, RowAsReadStep, StartsFreshStep, StartedStaysOutStep
       DEF RowInv
  <2> QED BY <2>1, <2>2, OutcomeStep DEF LifeInv
<1> QED BY <1>1, <1>2, PTL DEF Spec

\* A cancelled run has stored no result and a completed one has stored one, when
\* no write of the API or a worker can rest on a status that has changed since.
THEOREM OutcomeSafe == ASSUME Settling PROVE Spec => []OutcomeMatchesDecisions
<1>1. LifeInv => OutcomeMatchesDecisions
  BY DEF LifeInv
<1> QED BY <1>1, LifeInductive, PTL

\* In these deployments a reader of the database sees the documented lifecycle.
THEOREM LifecycleImplemented ==
  ASSUME Settling PROVE Spec => ImplementsLifecycle
<1>1. Init => Lifecycle!LifecycleInit
  BY DEF Init, Lifecycle!LifecycleInit
<1>2. LifeInv /\ [Next]_vars
        => [Lifecycle!LifecycleNext]_(Lifecycle!lifecycleVars)
  BY LifecycleStep
<1> QED BY <1>1, <1>2, LifeInductive, PTL
        DEF Spec, ImplementsLifecycle, Lifecycle!LifecycleSpec
=============================================================================
