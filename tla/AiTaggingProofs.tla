-------------------------- MODULE AiTaggingProofs --------------------------
(* Proofs about AiTagging, for any number of requests, worker runs,         *)
(* enqueuers and crashes, and any loop bound.                               *)
EXTENDS AiTagging, TLAPS

LEMMA JobIdFacts ==
    /\ NoJobId \in JobIds
    /\ \A c \in Calls : Claim(c) \in JobIds /\ Job(c) \in JobIds
    /\ \A c \in Calls : Claim(c) # NoJobId /\ Job(c) # NoJobId
    /\ \A c, d \in Calls : Claim(c) # Job(d)
    /\ \A c, d \in Calls : Claim(c) = Claim(d) \/ Job(c) = Job(d) => c = d
BY DEF NoJobId, JobIds, Claim, Job

LEMMA JobIdShape ==
    ASSUME NEW j \in JobIds
    PROVE  /\ j.kind \in {"none", "claim", "job"}
           /\ j.kind = "none" => j = NoJobId
           /\ j.kind # "none" => j.call \in Calls
           /\ j.call \in Calls \cup {NoCall}
           /\ j.kind = "claim" => j = Claim(j.call)
           /\ j.kind = "job" => j = Job(j.call)
BY DEF NoJobId, JobIds, Claim, Job

(* The row's columns stay in their types under both kinds of update.        *)
LEMMA WriteRowTyped ==
    ASSUME NEW s \in Status, NEW j \in JobIds, TypeOK, WriteRow(s, j)
    PROVE  /\ rowStatus' \in Status \cup {"ABSENT"}
           /\ rowJobId' \in JobIds
BY DEF WriteRow, TypeOK

LEMMA SwapRowTyped ==
    ASSUME NEW e, NEW s \in Status, NEW j \in JobIds, TypeOK,
           SwapRow(e, s, j)
    PROVE  /\ rowStatus' \in Status \cup {"ABSENT"}
           /\ rowJobId' \in JobIds
BY DEF SwapRow, TypeOK

LEMMA GotoTyped ==
    ASSUME NEW c, NEW l \in CallPc \cup EnqueuerPc, TypeOK, Goto(c, l)
    PROVE  pc' \in [Calls \cup Enqueuers -> CallPc \cup EnqueuerPc]
BY DEF Goto, TypeOK

(* A step of Next keeps every variable in its type.                         *)
LEMMA NextTyped == TypeOK /\ AttemptInLoop /\ [Next]_vars => TypeOK'
<1> SUFFICES ASSUME TypeOK, AttemptInLoop, [Next]_vars PROVE TypeOK'
  OBVIOUS
<1> USE JobIdFacts, ActorsAssumption, BoundsAssumption, OptionsAssumption
<1>1. CASE UNCHANGED vars
  BY <1>1 DEF vars, TypeOK
<1>2. ASSUME NEW c \in Calls, CallStep(c) PROVE TypeOK'
  <2> USE DEF rowVars, remoteVars, callVars, queueVars
  <2>0. CASE RefuseType(c)
    BY <2>0, WriteRowTyped DEF RefuseType, Returns, Throws, Goto, TypeOK,
       CallPc, Status
  <2>1. CASE ReadRow(c)
    BY <2>1 DEF ReadRow, Throws, Goto, TypeOK, CallPc, AttemptLeft
  <2>2. CASE WaitForClaim(c)
    BY <2>2 DEF WaitForClaim, Joins, Goto, TypeOK, CallPc
  <2>3. CASE Inspect(c)
    BY <2>3 DEF Inspect, Joins, Goto, TypeOK, CallPc
  <2>4. CASE Release(c)
    <3>1. attempt[c] + 1 \in 0..MaxStartAttempts
      BY <2>4 DEF Release, AttemptInLoop, AttemptLeft, TypeOK
    <3> QED
      BY <2>4, <3>1, SwapRowTyped DEF Release, Goto, TypeOK, CallPc, Status
  <2>5. CASE TakeClaim(c)
    <3>1. attempt[c] + 1 \in 0..MaxStartAttempts
      BY <2>5 DEF TakeClaim, AttemptInLoop, AttemptLeft, TypeOK
    <3> QED
      BY <2>5, <3>1, SwapRowTyped DEF TakeClaim, Goto, TypeOK, CallPc, Status
  <2>6. CASE StartJob(c)
    BY <2>6 DEF StartJob, Goto, TypeOK, CallPc, RemoteState
  <2>7. CASE StoreJobId(c)
    BY <2>7, SwapRowTyped DEF StoreJobId, PublishJob, Joins, Goto, TypeOK,
       CallPc, Status
  <2>8. CASE StartFails(c)
    BY <2>8, SwapRowTyped DEF StartFails, WithdrawClaim, Throws, Goto, TypeOK,
       CallPc, Status
  <2>9. CASE PollJob(c)
    BY <2>9, SwapRowTyped DEF PollJob, PersistFailure, Returns, Goto, TypeOK,
       CallPc, Status
  <2>10. CASE PollTimesOut(c)
    BY <2>10, SwapRowTyped DEF PollTimesOut, PersistFailure, Returns, Goto,
       TypeOK, CallPc, Status
  <2>11. CASE ApplySuccess(c)
    <3>1. seen[c].call \in Calls \cup {NoCall}
      BY JobIdShape DEF TypeOK
    <3> QED
      BY <2>11, <3>1, WriteRowTyped DEF ApplySuccess, Returns, Goto, TypeOK,
         CallPc, Status
  <2> QED
    BY <1>2, <2>0, <2>1, <2>2, <2>3, <2>4, <2>5, <2>6, <2>7, <2>8, <2>9, <2>10,
       <2>11 DEF CallStep
<1>3. ASSUME NEW w \in Runs, RunStep(w) PROVE TypeOK'
  <2> USE DEF rowVars, remoteVars, callVars, queueVars
  <2>1. CASE TakeJob(w)
    BY <2>1 DEF TakeJob, Goto, TypeOK, CallPc, QueueState
  <2>2. CASE SkipTagged(w)
    BY <2>2, WriteRowTyped DEF SkipTagged, Goto, TypeOK, CallPc, Status
  <2>3. CASE RunFails(w)
    BY <2>3, WriteRowTyped DEF RunFails, Goto, TypeOK, CallPc, Status
  <2>4. CASE FinishJob(w)
    BY <2>4 DEF FinishJob, Goto, TypeOK, CallPc, QueueState
  <2> QED
    BY <1>3, <2>1, <2>2, <2>3, <2>4 DEF RunStep
<1>4. ASSUME NEW e \in Enqueuers, EnqueueStep(e) PROVE TypeOK'
  <2> USE DEF rowVars, remoteVars, callVars, queueVars
  <2>1. CASE EnqueueChecksWaiting(e)
    BY <2>1 DEF EnqueueChecksWaiting, Goto, TypeOK, EnqueuerPc
  <2>2. CASE EnqueueReuses(e)
    <3>1. rowJobId \in JobIds
      BY DEF TypeOK
    <3> QED
      BY <2>2, <3>1, WriteRowTyped DEF EnqueueReuses, Goto, TypeOK, EnqueuerPc,
         Status
  <2>3. CASE EnqueueRemoves(e)
    BY <2>3 DEF EnqueueRemoves, Goto, TypeOK, EnqueuerPc, QueueState
  <2>4. CASE EnqueueResetsRow(e)
    BY <2>4, WriteRowTyped DEF EnqueueResetsRow, Goto, TypeOK, EnqueuerPc,
       Status
  <2>5. CASE EnqueueAdds(e)
    BY <2>5 DEF EnqueueAdds, Goto, TypeOK, EnqueuerPc, QueueState
  <2> QED
    BY <1>4, <2>1, <2>2, <2>3, <2>4, <2>5 DEF EnqueueStep
<1>5. CASE QueueStalls
  BY <1>5 DEF QueueStalls, TypeOK, QueueState, rowVars, remoteVars, callVars
<1>6. CASE Environment
  <2> USE DEF rowVars, remoteVars, callVars, queueVars
  <2>1. ASSUME NEW c \in Calls, RouteRequest(c) PROVE TypeOK'
    BY <2>1 DEF RouteRequest, Goto, TypeOK, CallPc
  <2>2. ASSUME NEW c \in Calls, RemoteEnds(c) PROVE TypeOK'
    BY <2>2 DEF RemoteEnds, TypeOK, RemoteState
  <2>3. ASSUME NEW c \in Calls, RemoteExpires(c) PROVE TypeOK'
    BY <2>3 DEF RemoteExpires, TypeOK
  <2>4. ASSUME NEW e \in Enqueuers, EnqueueLooksUp(e) PROVE TypeOK'
    BY <2>4 DEF EnqueueLooksUp, Goto, TypeOK, EnqueuerPc
  <2>5. ASSUME NEW e \in Enqueuers, EnqueueErrs(e) PROVE TypeOK'
    BY <2>5, WriteRowTyped DEF EnqueueErrs, Goto, TypeOK, EnqueuerPc, Status
  <2>6. ASSUME NEW c \in Calls \cup Enqueuers, Crash(c) PROVE TypeOK'
    BY <2>6 DEF Crash, Goto, TypeOK, CallPc
  <2>7. CASE DeleteRow
    BY <2>7 DEF DeleteRow, TypeOK
  <2> QED
    BY <1>6, <2>1, <2>2, <2>3, <2>4, <2>5, <2>6, <2>7 DEF Environment
<1> QED
  BY <1>1, <1>2, <1>3, <1>4, <1>5, <1>6 DEF Next

(* Initially every part of the invariant holds.                             *)
LEMMA InitInv == Init => TaggingInv
<1> SUFFICES ASSUME Init PROVE TaggingInv
  OBVIOUS
<1>1. TypeOK
  <2>1. /\ rowStatus \in Status \cup {"ABSENT"}
        /\ rowResult \in Calls \cup {NoCall, Earlier}
    BY DEF Init, Status
  <2>2. /\ rowJobId \in JobIds
        /\ seen \in [Calls -> JobIds]
    BY JobIdFacts DEF Init
  <2>3. /\ remote \in [Calls -> RemoteState]
        /\ expired \in SUBSET Calls
    BY DEF Init, RemoteState
  <2>4. /\ pc \in [Calls \cup Enqueuers -> CallPc \cup EnqueuerPc]
        /\ attempt \in [Calls -> 0..MaxStartAttempts]
    BY BoundsAssumption DEF Init, CallPc
  <2>5. /\ queueState \in QueueState
        /\ queueOwner \in Runs \cup {NoCall}
        /\ queueForce \in BOOLEAN
    BY DEF Init, QueueState
  <2>6. /\ queueStalls \in 0..MaxStalledCount
        /\ crashes \in 0..MaxCrashes
    BY BoundsAssumption DEF BoundsAssumption, Init
  <2> QED
    BY <2>1, <2>2, <2>3, <2>4, <2>5, <2>6 DEF TypeOK
<1>2. AttemptInLoop /\ AwaitedJobExists /\ RemoteMatchesPc
  BY JobIdFacts DEF Init, AttemptInLoop, AwaitedJobExists, RemoteMatchesPc
<1>3. StatusMatchesJobId /\ ClaimHasHolder /\ JobHasFinalizer
  BY JobIdFacts DEF Init, StatusMatchesJobId, ClaimHasHolder, JobHasFinalizer
<1>4. SuccessIsBacked
  BY ActorsAssumption DEF Init, SuccessIsBacked
<1> QED
  BY <1>1, <1>2, <1>3, <1>4 DEF TaggingInv

(* The attempts left are looked at when an iteration begins.                *)
LEMMA AttemptInLoopNext ==
    ASSUME TypeOK, AttemptInLoop, [Next]_vars
    PROVE  AttemptInLoop'
<1> USE DEF rowVars, remoteVars, callVars, queueVars
<1>1. CASE UNCHANGED vars
  BY <1>1 DEF vars, AttemptInLoop, TypeOK, AttemptLeft, Calls
<1>2. ASSUME NEW c \in Calls, CallStep(c) PROVE AttemptInLoop'
  <2>0. CASE RefuseType(c)
    BY <2>0, JobIdFacts
       DEF RefuseType, WriteRow, Returns, Throws, Goto, AttemptInLoop,
           TypeOK, Calls, RowExists, AttemptLeft
  <2>1. CASE ReadRow(c)
    BY <2>1
       DEF ReadRow, Throws, Goto, AttemptInLoop, TypeOK, AttemptLeft, Calls
  <2>2. CASE TakeClaim(c)
    BY <2>2
       DEF TakeClaim, SwapRow, Goto, AttemptInLoop, TypeOK, AttemptLeft,
           Calls
  <2>3. CASE WaitForClaim(c) \/ Inspect(c) \/ Release(c) \/ StartJob(c) \/
             StoreJobId(c) \/ StartFails(c) \/ PollJob(c) \/ PollTimesOut(c) \/
             ApplySuccess(c)
    BY <2>3
       DEF WaitForClaim, Joins, Goto, Inspect, Release, SwapRow, StartJob,
           StoreJobId, PublishJob, StartFails, WithdrawClaim, Throws,
           PollJob, PersistFailure, Returns, PollTimesOut, ApplySuccess,
           WriteRow, AttemptInLoop, TypeOK, AttemptLeft, Calls
  <2> QED
    BY <1>2, <2>0, <2>1, <2>2, <2>3 DEF CallStep
<1>3. ASSUME NEW w \in Runs, RunStep(w) PROVE AttemptInLoop'
  <2>1. CASE TakeJob(w) \/ SkipTagged(w) \/ RunFails(w) \/ FinishJob(w)
    BY <2>1
       DEF TakeJob, Goto, SkipTagged, WriteRow, RunFails, FinishJob,
           AttemptInLoop, TypeOK, AttemptLeft, Calls
  <2> QED
    BY <1>3, <2>1 DEF RunStep
<1>4. ASSUME NEW e \in Enqueuers, EnqueueStep(e) PROVE AttemptInLoop'
  <2>1. CASE EnqueueChecksWaiting(e) \/ EnqueueReuses(e) \/ EnqueueRemoves(e) \/
             EnqueueResetsRow(e) \/ EnqueueAdds(e)
    BY <2>1
       DEF EnqueueChecksWaiting, Goto, EnqueueReuses, WriteRow,
           EnqueueRemoves, EnqueueResetsRow, EnqueueAdds, AttemptInLoop,
           TypeOK, AttemptLeft, Calls
  <2> QED
    BY <1>4, <2>1 DEF EnqueueStep
<1>5. CASE QueueStalls
  BY <1>5 DEF QueueStalls, AttemptInLoop, TypeOK, AttemptLeft, Calls
<1>6. CASE Environment
  <2>1. ASSUME NEW c \in Calls,
               RouteRequest(c) \/ RemoteEnds(c) \/ RemoteExpires(c)
        PROVE  AttemptInLoop'
    BY <2>1
       DEF RouteRequest, Goto, RemoteEnds, RemoteExpires, AttemptInLoop,
           TypeOK, AttemptLeft, Calls
  <2>2. ASSUME NEW e \in Enqueuers,
               EnqueueLooksUp(e) \/ EnqueueErrs(e)
        PROVE  AttemptInLoop'
    BY <2>2
       DEF EnqueueLooksUp, Goto, EnqueueErrs, WriteRow, AttemptInLoop,
           TypeOK, AttemptLeft, Calls
  <2>3. ASSUME NEW c \in Calls \cup Enqueuers,
               Crash(c)
        PROVE  AttemptInLoop'
    BY <2>3 DEF Crash, Goto, AttemptInLoop, TypeOK, AttemptLeft, Calls
  <2>4. CASE DeleteRow
    BY <2>4 DEF DeleteRow, AttemptInLoop, TypeOK, AttemptLeft, Calls
  <2> QED
    BY <1>6, <2>1, <2>2, <2>3, <2>4 DEF Environment
<1> QED
  BY <1>1, <1>2, <1>3, <1>4, <1>5, <1>6 DEF Next

(* The two columns are written together, and agree in every update.         *)
LEMMA StatusNext ==
    ASSUME TypeOK, StatusMatchesJobId, [Next]_vars
    PROVE  StatusMatchesJobId'
<1> USE DEF rowVars, remoteVars, callVars, queueVars
<1>1. CASE UNCHANGED vars
  BY <1>1 DEF vars, StatusMatchesJobId, TypeOK
<1>2. ASSUME NEW c \in Calls, CallStep(c) PROVE StatusMatchesJobId'
  <2>0. CASE RefuseType(c)
    BY <2>0, JobIdFacts
       DEF RefuseType, WriteRow, Returns, Throws, Goto, StatusMatchesJobId,
           TypeOK, Calls, RowExists
  <2>1. CASE Release(c)
    BY <2>1, JobIdFacts
       DEF Release, SwapRow, Goto, StatusMatchesJobId, TypeOK
  <2>2. CASE TakeClaim(c)
    BY <2>2, JobIdFacts
       DEF TakeClaim, SwapRow, Goto, StatusMatchesJobId, TypeOK
  <2>3. CASE StoreJobId(c)
    BY <2>3, JobIdFacts
       DEF StoreJobId, PublishJob, SwapRow, Joins, Goto, StatusMatchesJobId,
           TypeOK, Job
  <2>4. CASE StartFails(c)
    BY <2>4, JobIdFacts
       DEF StartFails, WithdrawClaim, SwapRow, Throws, Goto,
           StatusMatchesJobId, TypeOK
  <2>5. CASE PollJob(c)
    BY <2>5, JobIdFacts
       DEF PollJob, PersistFailure, SwapRow, Returns, Goto,
           StatusMatchesJobId, TypeOK
  <2>6. CASE PollTimesOut(c)
    BY <2>6, JobIdFacts
       DEF PollTimesOut, PersistFailure, SwapRow, Returns, Goto,
           StatusMatchesJobId, TypeOK
  <2>7. CASE ApplySuccess(c)
    BY <2>7, JobIdFacts
       DEF ApplySuccess, WriteRow, Returns, Goto, StatusMatchesJobId, TypeOK
  <2>8. CASE ReadRow(c) \/ WaitForClaim(c) \/ Inspect(c) \/ StartJob(c)
    BY <2>8
       DEF ReadRow, Throws, Goto, WaitForClaim, Joins, Inspect, StartJob,
           StatusMatchesJobId, TypeOK
  <2> QED
    BY <1>2, <2>0, <2>1, <2>2, <2>3, <2>4, <2>5, <2>6, <2>7, <2>8 DEF CallStep
<1>3. ASSUME NEW w \in Runs, RunStep(w) PROVE StatusMatchesJobId'
  <2>1. CASE SkipTagged(w)
    BY <2>1, JobIdFacts
       DEF SkipTagged, WriteRow, Goto, StatusMatchesJobId, TypeOK
  <2>2. CASE RunFails(w)
    BY <2>2, JobIdFacts
       DEF RunFails, WriteRow, Goto, StatusMatchesJobId, TypeOK
  <2>3. CASE TakeJob(w) \/ FinishJob(w)
    BY <2>3 DEF TakeJob, Goto, FinishJob, StatusMatchesJobId, TypeOK
  <2> QED
    BY <1>3, <2>1, <2>2, <2>3 DEF RunStep
<1>4. ASSUME NEW e \in Enqueuers, EnqueueStep(e) PROVE StatusMatchesJobId'
  <2>1. CASE EnqueueReuses(e)
    BY <2>1, JobIdFacts
       DEF EnqueueReuses, WriteRow, Goto, StatusMatchesJobId, TypeOK
  <2>2. CASE EnqueueResetsRow(e)
    BY <2>2, JobIdFacts
       DEF EnqueueResetsRow, WriteRow, Goto, StatusMatchesJobId, TypeOK
  <2>3. CASE EnqueueChecksWaiting(e) \/ EnqueueRemoves(e) \/ EnqueueAdds(e)
    BY <2>3
       DEF EnqueueChecksWaiting, Goto, EnqueueRemoves, EnqueueAdds,
           StatusMatchesJobId, TypeOK
  <2> QED
    BY <1>4, <2>1, <2>2, <2>3 DEF EnqueueStep
<1>5. CASE QueueStalls
  BY <1>5 DEF QueueStalls, StatusMatchesJobId, TypeOK
<1>6. CASE Environment
  <2>1. ASSUME NEW c \in Calls,
               RouteRequest(c) \/ RemoteEnds(c) \/ RemoteExpires(c)
        PROVE  StatusMatchesJobId'
    BY <2>1
       DEF RouteRequest, Goto, RemoteEnds, RemoteExpires,
           StatusMatchesJobId, TypeOK
  <2>2. ASSUME NEW e \in Enqueuers,
               EnqueueLooksUp(e) \/ EnqueueErrs(e)
        PROVE  StatusMatchesJobId'
    BY <2>2
       DEF EnqueueLooksUp, Goto, EnqueueErrs, WriteRow, StatusMatchesJobId,
           TypeOK
  <2>3. ASSUME NEW c \in Calls \cup Enqueuers,
               Crash(c)
        PROVE  StatusMatchesJobId'
    BY <2>3 DEF Crash, Goto, StatusMatchesJobId, TypeOK
  <2>4. CASE DeleteRow
    BY <2>4 DEF DeleteRow, StatusMatchesJobId, TypeOK
  <2> QED
    BY <1>6, <2>1, <2>2, <2>3, <2>4 DEF Environment
<1> QED
  BY <1>1, <1>2, <1>3, <1>4, <1>5, <1>6 DEF Next

(* A claim goes into the row with its holder's step to "start", and the     *)
(* holder leaves "start" ... "startFailed" with an update that replaces it. *)
LEMMA ClaimNext ==
    ASSUME TypeOK, StatusMatchesJobId, ClaimHasHolder, [Next]_vars
    PROVE  ClaimHasHolder'
<1> USE DEF rowVars, remoteVars, callVars, queueVars
<1>1. CASE UNCHANGED vars
  BY <1>1 DEF vars, ClaimHasHolder, TypeOK, Calls
<1>2. ASSUME NEW c \in Calls, CallStep(c) PROVE ClaimHasHolder'
  <2>0. CASE RefuseType(c)
    BY <2>0, JobIdFacts
       DEF RefuseType, WriteRow, Returns, Throws, Goto, ClaimHasHolder,
           TypeOK, Calls, RowExists
  <2>1. CASE Release(c)
    BY <2>1, JobIdFacts
       DEF Release, SwapRow, Goto, ClaimHasHolder, TypeOK, Calls
  <2>2. CASE TakeClaim(c)
    BY <2>2, JobIdFacts
       DEF TakeClaim, SwapRow, Goto, ClaimHasHolder, TypeOK, Calls
  <2>3. CASE StoreJobId(c)
    BY <2>3, JobIdFacts
       DEF StoreJobId, PublishJob, SwapRow, Joins, Goto, ClaimHasHolder,
           TypeOK, Calls
  <2>4. CASE StartFails(c)
    BY <2>4, JobIdFacts
       DEF StartFails, WithdrawClaim, SwapRow, Throws, Goto, ClaimHasHolder,
           TypeOK, Calls, StatusMatchesJobId, RowExists
  <2>5. CASE PollJob(c)
    BY <2>5, JobIdFacts
       DEF PollJob, PersistFailure, SwapRow, Returns, Goto, ClaimHasHolder,
           TypeOK, Calls
  <2>6. CASE PollTimesOut(c)
    BY <2>6, JobIdFacts
       DEF PollTimesOut, PersistFailure, SwapRow, Returns, Goto,
           ClaimHasHolder, TypeOK, Calls
  <2>7. CASE ApplySuccess(c)
    BY <2>7, JobIdFacts
       DEF ApplySuccess, WriteRow, Returns, Goto, ClaimHasHolder, TypeOK,
           Calls
  <2>8. CASE ReadRow(c) \/ WaitForClaim(c) \/ Inspect(c) \/ StartJob(c)
    BY <2>8
       DEF ReadRow, Throws, Goto, WaitForClaim, Joins, Inspect, StartJob,
           ClaimHasHolder, TypeOK, Calls
  <2> QED
    BY <1>2, <2>0, <2>1, <2>2, <2>3, <2>4, <2>5, <2>6, <2>7, <2>8 DEF CallStep
<1>3. ASSUME NEW w \in Runs, RunStep(w) PROVE ClaimHasHolder'
  <2>1. CASE SkipTagged(w)
    BY <2>1, JobIdFacts
       DEF SkipTagged, WriteRow, Goto, ClaimHasHolder, TypeOK, Calls
  <2>2. CASE RunFails(w)
    BY <2>2, JobIdFacts
       DEF RunFails, WriteRow, Goto, ClaimHasHolder, TypeOK, Calls
  <2>3. CASE TakeJob(w) \/ FinishJob(w)
    BY <2>3 DEF TakeJob, Goto, FinishJob, ClaimHasHolder, TypeOK, Calls
  <2> QED
    BY <1>3, <2>1, <2>2, <2>3 DEF RunStep
<1>4. ASSUME NEW e \in Enqueuers, EnqueueStep(e) PROVE ClaimHasHolder'
  <2>1. CASE EnqueueResetsRow(e)
    BY <2>1, JobIdFacts
       DEF EnqueueResetsRow, WriteRow, Goto, ClaimHasHolder, TypeOK, Calls
  <2>2. CASE EnqueueChecksWaiting(e) \/ EnqueueReuses(e) \/ EnqueueRemoves(e) \/
             EnqueueAdds(e)
    BY <2>2
       DEF EnqueueChecksWaiting, Goto, EnqueueReuses, WriteRow,
           EnqueueRemoves, EnqueueAdds, ClaimHasHolder, TypeOK, Calls
  <2> QED
    BY <1>4, <2>1, <2>2 DEF EnqueueStep
<1>5. CASE QueueStalls
  BY <1>5 DEF QueueStalls, ClaimHasHolder, TypeOK, Calls
<1>6. CASE Environment
  <2>1. ASSUME NEW c \in Calls,
               RouteRequest(c) \/ RemoteEnds(c) \/ RemoteExpires(c)
        PROVE  ClaimHasHolder'
    BY <2>1, JobIdFacts, ActorsAssumption
       DEF RouteRequest, Goto, RemoteEnds, RemoteExpires, ClaimHasHolder,
           TypeOK, Calls
  <2>2. ASSUME NEW e \in Enqueuers,
               EnqueueLooksUp(e) \/ EnqueueErrs(e)
        PROVE  ClaimHasHolder'
    BY <2>2, JobIdFacts, ActorsAssumption
       DEF EnqueueLooksUp, Goto, EnqueueErrs, WriteRow, ClaimHasHolder,
           TypeOK, Calls
  <2>3. ASSUME NEW c \in Calls \cup Enqueuers,
               Crash(c)
        PROVE  ClaimHasHolder'
    BY <2>3 DEF Crash, Goto, ClaimHasHolder, TypeOK, Calls
  <2>4. CASE DeleteRow
    BY <2>4, JobIdFacts, ActorsAssumption
       DEF DeleteRow, ClaimHasHolder, TypeOK, Calls
  <2> QED
    BY <1>6, <2>1, <2>2, <2>3, <2>4 DEF Environment
<1> QED
  BY <1>1, <1>2, <1>3, <1>4, <1>5, <1>6 DEF Next

(* A job id goes into the row with its creator's step to "poll"; it leaves   *)
(* "poll" and "apply" with an update that clears that job id.                *)
LEMMA FinalizerNext ==
    ASSUME TypeOK, StatusMatchesJobId, JobHasFinalizer, [Next]_vars
    PROVE  JobHasFinalizer'
<1> USE DEF rowVars, remoteVars, callVars, queueVars
<1>1. CASE UNCHANGED vars
  BY <1>1 DEF vars, JobHasFinalizer, TypeOK, Calls
<1>2. ASSUME NEW c \in Calls, CallStep(c) PROVE JobHasFinalizer'
  <2>0. CASE RefuseType(c)
    BY <2>0, JobIdFacts
       DEF RefuseType, WriteRow, Returns, Throws, Goto, JobHasFinalizer,
           TypeOK, Calls, RowExists
  <2>1. CASE Release(c)
    BY <2>1, JobIdFacts
       DEF Release, SwapRow, Goto, JobHasFinalizer, TypeOK, Calls
  <2>2. CASE TakeClaim(c)
    BY <2>2, JobIdFacts
       DEF TakeClaim, SwapRow, Goto, JobHasFinalizer, TypeOK, Calls
  <2>3. CASE StoreJobId(c)
    BY <2>3, JobIdFacts
       DEF StoreJobId, PublishJob, SwapRow, Joins, Goto, JobHasFinalizer,
           TypeOK, Calls
  <2>4. CASE StartFails(c)
    BY <2>4, JobIdFacts
       DEF StartFails, WithdrawClaim, SwapRow, Throws, Goto,
           JobHasFinalizer, TypeOK, Calls
  <2>5. CASE PollJob(c)
    BY <2>5, JobIdFacts
       DEF PollJob, PersistFailure, SwapRow, Returns, Goto, JobHasFinalizer,
           TypeOK, Calls, StatusMatchesJobId, RowExists
  <2>6. CASE PollTimesOut(c)
    BY <2>6, JobIdFacts
       DEF PollTimesOut, PersistFailure, SwapRow, Returns, Goto,
           JobHasFinalizer, TypeOK, Calls, StatusMatchesJobId, RowExists
  <2>7. CASE ApplySuccess(c)
    BY <2>7, JobIdFacts
       DEF ApplySuccess, WriteRow, Returns, Goto, JobHasFinalizer, TypeOK,
           Calls, StatusMatchesJobId, RowExists
  <2>8. CASE ReadRow(c) \/ WaitForClaim(c) \/ Inspect(c) \/ StartJob(c)
    BY <2>8
       DEF ReadRow, Throws, Goto, WaitForClaim, Joins, Inspect, StartJob,
           JobHasFinalizer, TypeOK, Calls
  <2> QED
    BY <1>2, <2>0, <2>1, <2>2, <2>3, <2>4, <2>5, <2>6, <2>7, <2>8 DEF CallStep
<1>3. ASSUME NEW w \in Runs, RunStep(w) PROVE JobHasFinalizer'
  <2>1. CASE SkipTagged(w)
    BY <2>1, JobIdFacts
       DEF SkipTagged, WriteRow, Goto, JobHasFinalizer, TypeOK, Calls
  <2>2. CASE RunFails(w)
    BY <2>2, JobIdFacts
       DEF RunFails, WriteRow, Goto, JobHasFinalizer, TypeOK, Calls
  <2>3. CASE TakeJob(w) \/ FinishJob(w)
    BY <2>3 DEF TakeJob, Goto, FinishJob, JobHasFinalizer, TypeOK, Calls
  <2> QED
    BY <1>3, <2>1, <2>2, <2>3 DEF RunStep
<1>4. ASSUME NEW e \in Enqueuers, EnqueueStep(e) PROVE JobHasFinalizer'
  <2>1. CASE EnqueueResetsRow(e)
    BY <2>1, JobIdFacts
       DEF EnqueueResetsRow, WriteRow, Goto, JobHasFinalizer, TypeOK, Calls
  <2>2. CASE EnqueueChecksWaiting(e) \/ EnqueueReuses(e) \/ EnqueueRemoves(e) \/
             EnqueueAdds(e)
    BY <2>2
       DEF EnqueueChecksWaiting, Goto, EnqueueReuses, WriteRow,
           EnqueueRemoves, EnqueueAdds, JobHasFinalizer, TypeOK, Calls
  <2> QED
    BY <1>4, <2>1, <2>2 DEF EnqueueStep
<1>5. CASE QueueStalls
  BY <1>5 DEF QueueStalls, JobHasFinalizer, TypeOK, Calls
<1>6. CASE Environment
  <2>1. ASSUME NEW c \in Calls,
               RouteRequest(c) \/ RemoteEnds(c) \/ RemoteExpires(c)
        PROVE  JobHasFinalizer'
    BY <2>1, JobIdFacts, ActorsAssumption
       DEF RouteRequest, Goto, RemoteEnds, RemoteExpires, JobHasFinalizer,
           TypeOK, Calls
  <2>2. ASSUME NEW e \in Enqueuers,
               EnqueueLooksUp(e) \/ EnqueueErrs(e)
        PROVE  JobHasFinalizer'
    BY <2>2, JobIdFacts, ActorsAssumption
       DEF EnqueueLooksUp, Goto, EnqueueErrs, WriteRow, JobHasFinalizer,
           TypeOK, Calls
  <2>3. ASSUME NEW c \in Calls \cup Enqueuers,
               Crash(c)
        PROVE  JobHasFinalizer'
    BY <2>3 DEF Crash, Goto, JobHasFinalizer, TypeOK, Calls
  <2>4. CASE DeleteRow
    BY <2>4, JobIdFacts, ActorsAssumption
       DEF DeleteRow, JobHasFinalizer, TypeOK, Calls
  <2> QED
    BY <1>6, <2>1, <2>2, <2>3, <2>4 DEF Environment
<1> QED
  BY <1>1, <1>2, <1>3, <1>4, <1>5, <1>6 DEF Next

(* Tags are stored only from a job seen to have succeeded, and no call       *)
(* creates a job that has an outcome.                                        *)
LEMMA BackedNext ==
    ASSUME TypeOK, SuccessIsBacked, AwaitedJobExists, RemoteMatchesPc, [Next]_vars
    PROVE  SuccessIsBacked'
<1> USE DEF rowVars, remoteVars, callVars, queueVars
<1>1. CASE UNCHANGED vars
  BY <1>1 DEF vars, SuccessIsBacked, TypeOK, Calls
<1>2. ASSUME NEW c \in Calls, CallStep(c) PROVE SuccessIsBacked'
  <2>0. CASE RefuseType(c)
    BY <2>0, JobIdFacts
       DEF RefuseType, WriteRow, Returns, Throws, Goto, SuccessIsBacked,
           TypeOK, Calls, RowExists
  <2>1. CASE StartJob(c)
    BY <2>1, JobIdFacts
       DEF StartJob, Goto, SuccessIsBacked, TypeOK, Calls, RemoteMatchesPc
  <2>2. CASE ApplySuccess(c)
    <3>1. /\ remote[seen[c].call] = "SUCCESS"
          /\ seen[c].call \in Calls
      BY <2>2, JobIdShape DEF ApplySuccess, AwaitedJobExists, TypeOK
    <3>2. /\ remote' = remote
          /\ ~RowExists => rowStatus' = "ABSENT" /\ rowResult' = rowResult
          /\ RowExists => rowResult' = seen[c].call
      BY <2>2 DEF ApplySuccess, WriteRow, RowExists
    <3> QED
      BY <3>1, <3>2, ActorsAssumption DEF SuccessIsBacked
  <2>3. CASE ReadRow(c) \/ WaitForClaim(c) \/ Inspect(c) \/ Release(c) \/
             TakeClaim(c) \/ StoreJobId(c) \/ StartFails(c) \/ PollJob(c) \/
             PollTimesOut(c)
    BY <2>3
       DEF ReadRow, Throws, Goto, WaitForClaim, Joins, Inspect, Release,
           SwapRow, TakeClaim, StoreJobId, PublishJob, StartFails,
           WithdrawClaim, PollJob, PersistFailure, Returns, PollTimesOut,
           SuccessIsBacked, TypeOK, Calls
  <2> QED
    BY <1>2, <2>0, <2>1, <2>2, <2>3 DEF CallStep
<1>3. ASSUME NEW w \in Runs, RunStep(w) PROVE SuccessIsBacked'
  <2>1. CASE SkipTagged(w)
    BY <2>1, JobIdFacts
       DEF SkipTagged, WriteRow, Goto, SuccessIsBacked, TypeOK, Calls,
           RemoteMatchesPc, RowExists
  <2>2. CASE TakeJob(w) \/ RunFails(w) \/ FinishJob(w)
    BY <2>2
       DEF TakeJob, Goto, RunFails, WriteRow, FinishJob, SuccessIsBacked,
           TypeOK, Calls
  <2> QED
    BY <1>3, <2>1, <2>2 DEF RunStep
<1>4. ASSUME NEW e \in Enqueuers, EnqueueStep(e) PROVE SuccessIsBacked'
  <2>1. CASE EnqueueChecksWaiting(e) \/ EnqueueReuses(e) \/ EnqueueRemoves(e) \/
             EnqueueResetsRow(e) \/ EnqueueAdds(e)
    BY <2>1
       DEF EnqueueChecksWaiting, Goto, EnqueueReuses, WriteRow,
           EnqueueRemoves, EnqueueResetsRow, EnqueueAdds, SuccessIsBacked,
           TypeOK, Calls
  <2> QED
    BY <1>4, <2>1 DEF EnqueueStep
<1>5. CASE QueueStalls
  BY <1>5 DEF QueueStalls, SuccessIsBacked, TypeOK, Calls
<1>6. CASE Environment
  <2>1. ASSUME NEW c \in Calls,
               RouteRequest(c) \/ RemoteEnds(c) \/ RemoteExpires(c)
        PROVE  SuccessIsBacked'
    BY <2>1, ActorsAssumption
       DEF RouteRequest, Goto, RemoteEnds, RemoteExpires, SuccessIsBacked,
           TypeOK, Calls
  <2>2. ASSUME NEW e \in Enqueuers,
               EnqueueLooksUp(e) \/ EnqueueErrs(e)
        PROVE  SuccessIsBacked'
    BY <2>2, ActorsAssumption
       DEF EnqueueLooksUp, Goto, EnqueueErrs, WriteRow, SuccessIsBacked,
           TypeOK, Calls
  <2>3. ASSUME NEW c \in Calls \cup Enqueuers,
               Crash(c)
        PROVE  SuccessIsBacked'
    BY <2>3 DEF Crash, Goto, SuccessIsBacked, TypeOK, Calls
  <2>4. CASE DeleteRow
    BY <2>4, ActorsAssumption DEF DeleteRow, SuccessIsBacked, TypeOK, Calls
  <2> QED
    BY <1>6, <2>1, <2>2, <2>3, <2>4 DEF Environment
<1> QED
  BY <1>1, <1>2, <1>3, <1>4, <1>5, <1>6 DEF Next

(* A call awaits the job it created, or a job id it read in the row.        *)
LEMMA AwaitedNext ==
    ASSUME TypeOK, AwaitedJobExists, RemoteMatchesPc, [Next]_vars
    PROVE  AwaitedJobExists'
<1> USE DEF rowVars, remoteVars, callVars, queueVars
<1>1. CASE UNCHANGED vars
  BY <1>1 DEF vars, AwaitedJobExists, TypeOK, Calls
<1>2. ASSUME NEW c \in Calls, CallStep(c) PROVE AwaitedJobExists'
  <2>0. CASE RefuseType(c)
    BY <2>0, JobIdFacts
       DEF RefuseType, WriteRow, Returns, Throws, Goto, AwaitedJobExists,
           TypeOK, Calls, RowExists
  <2>1. CASE ReadRow(c)
    BY <2>1, JobIdFacts, JobIdShape
       DEF ReadRow, Throws, Goto, AwaitedJobExists, TypeOK, Calls,
           RemoteMatchesPc
  <2>2. CASE WaitForClaim(c)
    BY <2>2, JobIdFacts, JobIdShape
       DEF WaitForClaim, Joins, Goto, AwaitedJobExists, TypeOK, Calls,
           RemoteMatchesPc, IsResolved
  <2>3. CASE Inspect(c)
    BY <2>3, JobIdFacts, JobIdShape
       DEF Inspect, Joins, Goto, AwaitedJobExists, TypeOK, Calls
  <2>4. CASE StartJob(c)
    BY <2>4, JobIdFacts, JobIdShape
       DEF StartJob, Goto, AwaitedJobExists, TypeOK, Calls, RemoteMatchesPc
  <2>5. CASE StoreJobId(c)
    BY <2>5, JobIdFacts, JobIdShape
       DEF StoreJobId, PublishJob, SwapRow, Joins, Goto, AwaitedJobExists,
           TypeOK, Calls, RemoteMatchesPc, Job
  <2>6. CASE PollJob(c)
    BY <2>6, JobIdFacts, JobIdShape
       DEF PollJob, PersistFailure, SwapRow, Returns, Goto,
           AwaitedJobExists, TypeOK, Calls, EndsPolling, JobReply
  <2>7. CASE Release(c) \/ TakeClaim(c) \/ StartFails(c) \/ PollTimesOut(c) \/
             ApplySuccess(c)
    BY <2>7
       DEF Release, SwapRow, Goto, TakeClaim, StartFails, WithdrawClaim,
           Throws, PollTimesOut, PersistFailure, Returns, ApplySuccess,
           WriteRow, AwaitedJobExists, TypeOK, Calls
  <2> QED
    BY <1>2, <2>0, <2>1, <2>2, <2>3, <2>4, <2>5, <2>6, <2>7 DEF CallStep
<1>3. ASSUME NEW w \in Runs, RunStep(w) PROVE AwaitedJobExists'
  <2>1. CASE TakeJob(w) \/ SkipTagged(w) \/ RunFails(w) \/ FinishJob(w)
    BY <2>1
       DEF TakeJob, Goto, SkipTagged, WriteRow, RunFails, FinishJob,
           AwaitedJobExists, TypeOK, Calls
  <2> QED
    BY <1>3, <2>1 DEF RunStep
<1>4. ASSUME NEW e \in Enqueuers, EnqueueStep(e) PROVE AwaitedJobExists'
  <2>1. CASE EnqueueChecksWaiting(e) \/ EnqueueReuses(e) \/ EnqueueRemoves(e) \/
             EnqueueResetsRow(e) \/ EnqueueAdds(e)
    BY <2>1
       DEF EnqueueChecksWaiting, Goto, EnqueueReuses, WriteRow,
           EnqueueRemoves, EnqueueResetsRow, EnqueueAdds, AwaitedJobExists,
           TypeOK, Calls
  <2> QED
    BY <1>4, <2>1 DEF EnqueueStep
<1>5. CASE QueueStalls
  BY <1>5 DEF QueueStalls, AwaitedJobExists, TypeOK, Calls
<1>6. CASE Environment
  <2>1. ASSUME NEW c \in Calls,
               RouteRequest(c) \/ RemoteEnds(c) \/ RemoteExpires(c)
        PROVE  AwaitedJobExists'
    BY <2>1, JobIdShape
       DEF RouteRequest, Goto, RemoteEnds, RemoteExpires, AwaitedJobExists,
           TypeOK, Calls
  <2>2. ASSUME NEW e \in Enqueuers,
               EnqueueLooksUp(e) \/ EnqueueErrs(e)
        PROVE  AwaitedJobExists'
    BY <2>2, JobIdShape
       DEF EnqueueLooksUp, Goto, EnqueueErrs, WriteRow, AwaitedJobExists,
           TypeOK, Calls
  <2>3. ASSUME NEW c \in Calls \cup Enqueuers,
               Crash(c)
        PROVE  AwaitedJobExists'
    BY <2>3 DEF Crash, Goto, AwaitedJobExists, TypeOK, Calls
  <2>4. CASE DeleteRow
    BY <2>4, JobIdShape DEF DeleteRow, AwaitedJobExists, TypeOK, Calls
  <2> QED
    BY <1>6, <2>1, <2>2, <2>3, <2>4 DEF Environment
<1> QED
  BY <1>1, <1>2, <1>3, <1>4, <1>5, <1>6 DEF Next

(* A remote job is created in the step that leaves "start", and a run skips *)
(* a row after it saw its tags, which only the row's deletion takes away.     *)
LEMMA RemoteNext ==
    ASSUME TypeOK, AwaitedJobExists, RemoteMatchesPc, [Next]_vars
    PROVE  RemoteMatchesPc'
<1> USE DEF rowVars, remoteVars, callVars, queueVars
<1>1. CASE UNCHANGED vars
  BY <1>1 DEF vars, RemoteMatchesPc, TypeOK, Calls
<1>2. ASSUME NEW c \in Calls, CallStep(c) PROVE RemoteMatchesPc'
  <2>0. CASE RefuseType(c)
    BY <2>0, JobIdFacts
       DEF RefuseType, WriteRow, Returns, Throws, Goto, RemoteMatchesPc,
           TypeOK, Calls, RowExists
  <2>1. CASE TakeClaim(c)
    BY <2>1, JobIdFacts
       DEF TakeClaim, SwapRow, RowExists, Goto, RemoteMatchesPc, TypeOK,
           Calls
  <2>2. CASE StartJob(c)
    BY <2>2, JobIdFacts DEF StartJob, Goto, RemoteMatchesPc, TypeOK, Calls
  <2>3. CASE StoreJobId(c)
    BY <2>3, JobIdFacts
       DEF StoreJobId, PublishJob, SwapRow, Joins, RowExists, Goto,
           RemoteMatchesPc, TypeOK, Calls
  <2>4. CASE ApplySuccess(c)
    <3>1. seen[c].call # NoCall
      BY <2>4, JobIdShape, ActorsAssumption
         DEF ActorsAssumption, ApplySuccess, AwaitedJobExists, TypeOK
    <3> QED
      BY <2>4, <3>1, JobIdFacts
         DEF ApplySuccess, WriteRow, Returns, Goto, RemoteMatchesPc, TypeOK,
             Calls, RowExists
  <2>5. CASE ReadRow(c) \/ WaitForClaim(c) \/ Inspect(c) \/ Release(c) \/
             StartFails(c) \/ PollJob(c) \/ PollTimesOut(c)
    BY <2>5, JobIdFacts
       DEF ReadRow, Throws, Goto, WaitForClaim, Joins, Inspect, Release,
           SwapRow, RowExists, StartFails, WithdrawClaim, PollJob,
           PersistFailure, Returns, PollTimesOut, RemoteMatchesPc, TypeOK,
           Calls
  <2> QED
    BY <1>2, <2>0, <2>1, <2>2, <2>3, <2>4, <2>5 DEF CallStep
<1>3. ASSUME NEW w \in Runs, RunStep(w) PROVE RemoteMatchesPc'
  <2>1. CASE TakeJob(w)
    BY <2>1, JobIdFacts
       DEF TakeJob, Goto, RemoteMatchesPc, TypeOK, Calls, AlreadyTagged,
           RowExists
  <2>2. CASE SkipTagged(w)
    BY <2>2, JobIdFacts
       DEF SkipTagged, WriteRow, RowExists, Goto, RemoteMatchesPc, TypeOK,
           Calls
  <2>3. CASE RunFails(w) \/ FinishJob(w)
    BY <2>3, JobIdFacts
       DEF RunFails, WriteRow, RowExists, Goto, FinishJob, RemoteMatchesPc,
           TypeOK, Calls
  <2> QED
    BY <1>3, <2>1, <2>2, <2>3 DEF RunStep
<1>4. ASSUME NEW e \in Enqueuers, EnqueueStep(e) PROVE RemoteMatchesPc'
  <2>1. CASE EnqueueChecksWaiting(e) \/ EnqueueReuses(e) \/ EnqueueRemoves(e) \/
             EnqueueResetsRow(e) \/ EnqueueAdds(e)
    BY <2>1, JobIdFacts
       DEF EnqueueChecksWaiting, Goto, EnqueueReuses, WriteRow, RowExists,
           EnqueueRemoves, EnqueueResetsRow, EnqueueAdds, RemoteMatchesPc,
           TypeOK, Calls
  <2> QED
    BY <1>4, <2>1 DEF EnqueueStep
<1>5. CASE QueueStalls
  BY <1>5 DEF QueueStalls, RemoteMatchesPc, TypeOK, Calls
<1>6. CASE Environment
  <2>1. ASSUME NEW c \in Calls,
               RouteRequest(c) \/ RemoteEnds(c) \/ RemoteExpires(c)
        PROVE  RemoteMatchesPc'
    BY <2>1, JobIdFacts
       DEF RouteRequest, Goto, RemoteEnds, RemoteExpires, RemoteMatchesPc,
           TypeOK, Calls
  <2>2. ASSUME NEW e \in Enqueuers,
               EnqueueLooksUp(e) \/ EnqueueErrs(e)
        PROVE  RemoteMatchesPc'
    BY <2>2, JobIdFacts
       DEF EnqueueLooksUp, Goto, EnqueueErrs, WriteRow, RowExists,
           RemoteMatchesPc, TypeOK, Calls
  <2>3. ASSUME NEW c \in Calls \cup Enqueuers,
               Crash(c)
        PROVE  RemoteMatchesPc'
    BY <2>3, JobIdFacts DEF Crash, Goto, RemoteMatchesPc, TypeOK, Calls
  <2>4. CASE DeleteRow
    BY <2>4, JobIdFacts DEF DeleteRow, RemoteMatchesPc, TypeOK, Calls
  <2> QED
    BY <1>6, <2>1, <2>2, <2>3, <2>4 DEF Environment
<1> QED
  BY <1>1, <1>2, <1>3, <1>4, <1>5, <1>6 DEF Next

(* Together they make the invariant inductive.                              *)
LEMMA NextInv == TaggingInv /\ [Next]_vars => TaggingInv'
<1> SUFFICES ASSUME TaggingInv, [Next]_vars PROVE TaggingInv'
  OBVIOUS
<1> USE DEF TaggingInv
<1>1. TypeOK'
  BY NextTyped
<1>2. AttemptInLoop' /\ StatusMatchesJobId'
  BY AttemptInLoopNext, StatusNext
<1>3. ClaimHasHolder' /\ JobHasFinalizer'
  BY ClaimNext, FinalizerNext
<1>4. SuccessIsBacked' /\ AwaitedJobExists' /\ RemoteMatchesPc'
  BY BackedNext, AwaitedNext, RemoteNext
<1> QED
  BY <1>1, <1>2, <1>3, <1>4

(* TaggingInv holds in every reachable state, for any number of requests,   *)
(* worker runs, enqueuers, stalls and crashes.                              *)
THEOREM Invariance == Spec => []TaggingInv
BY InitInv, NextInv, PTL DEF Spec

(* The variables always have their types, and the attempts of               *)
(* startOrReuseAiTagJob stay within MAX_START_ATTEMPTS.                     *)
THEOREM TypeCorrect == Spec => []TypeOK
<1>1. TaggingInv => TypeOK
  BY DEF TaggingInv
<1> QED
  BY <1>1, Invariance, PTL

(* A row that waits on a claim is never abandoned by a live process: every  *)
(* claim token has a call that will turn it into a job or withdraw it.      *)
THEOREM ClaimIsHeld == Spec => []ClaimHasHolder
<1>1. TaggingInv => ClaimHasHolder
  BY DEF TaggingInv
<1> QED
  BY <1>1, Invariance, PTL

(* A row that waits on a job is not abandoned either: every stored job id   *)
(* has a finalizer, waiting for it or about to be started.                  *)
THEOREM JobIsAwaited == Spec => []JobHasFinalizer
<1>1. TaggingInv => JobHasFinalizer
  BY DEF TaggingInv
<1> QED
  BY <1>1, Invariance, PTL

(* taggingStatus SUCCESS is never claimed without tags, and stored tags come *)
(* from a job that succeeded; status and job id always agree.               *)
THEOREM OutcomeIsHonest == Spec => [](SuccessIsBacked /\ StatusMatchesJobId)
<1>1. TaggingInv => SuccessIsBacked /\ StatusMatchesJobId
  BY DEF TaggingInv
<1> QED
  BY <1>1, Invariance, PTL

(* Only StoreJobId makes a row RUNNING, and only out of its own claim.      *)
LEMMA RunningStep ==
    ASSUME TaggingInv, [Next]_vars, rowStatus' = "RUNNING",
           rowStatus # "RUNNING"
    PROVE  /\ rowStatus = "PENDING" /\ rowJobId.kind = "claim"
           /\ rowJobId'.call = rowJobId.call
<1> USE DEF rowVars, remoteVars, callVars, queueVars
<1>1. ~UNCHANGED vars
  BY DEF vars
<1>2. ASSUME NEW c \in Calls, CallStep(c) PROVE StoreJobId(c)
  <2>1. ~(ReadRow(c) \/ WaitForClaim(c) \/ Inspect(c) \/ StartJob(c))
    BY DEF ReadRow, WaitForClaim, Inspect, StartJob
  <2>2. ~(Release(c) \/ TakeClaim(c) \/ StartFails(c))
    BY DEF Release, TakeClaim, StartFails, WithdrawClaim, SwapRow
  <2>3. ~(RefuseType(c) \/ PollJob(c) \/ PollTimesOut(c) \/ ApplySuccess(c))
    BY DEF RefuseType, PollJob, PollTimesOut, ApplySuccess, PersistFailure,
           SwapRow, WriteRow
  <2> QED
    BY <1>2, <2>1, <2>2, <2>3 DEF CallStep
<1>3. \A w \in Runs : ~RunStep(w)
  BY DEF RunStep, TakeJob, SkipTagged, RunFails, FinishJob, WriteRow
<1>4. \A e \in Enqueuers : ~EnqueueStep(e)
  BY DEF EnqueueStep, EnqueueChecksWaiting, EnqueueReuses, EnqueueRemoves,
         EnqueueResetsRow, EnqueueAdds, WriteRow
<1>5. ~QueueStalls
  BY DEF QueueStalls
<1>6. ~Environment
  BY DEF Environment, RouteRequest, RemoteEnds, RemoteExpires,
         EnqueueLooksUp, EnqueueErrs, Crash, DeleteRow, WriteRow
<1>7. PICK c \in Calls : StoreJobId(c)
  BY <1>1, <1>2, <1>3, <1>4, <1>5, <1>6 DEF Next
<1>8. /\ RowExists /\ rowJobId = Claim(c)
      /\ rowJobId' = Job(c)
  BY <1>7 DEF StoreJobId, PublishJob, SwapRow
<1>9. rowStatus = "PENDING"
  BY <1>8, JobIdFacts
     DEF TaggingInv, TypeOK, StatusMatchesJobId, RowExists, Status
<1> QED
  BY <1>8, <1>9 DEF Claim, Job

(* A call that lost its claim never publishes the job it started: RUNNING   *)
(* comes only from the claim of the call whose job the row now names.       *)
THEOREM OnlyClaimHolderRuns == Spec => RunningOnlyFromPending
<1>1. /\ TaggingInv /\ [Next]_vars
      => [rowStatus' = "RUNNING" /\ rowStatus # "RUNNING" =>
            rowStatus = "PENDING" /\ rowJobId.kind = "claim"
            /\ rowJobId'.call = rowJobId.call]_vars
  BY RunningStep
<1> QED
  BY <1>1, Invariance, PTL DEF Spec, RunningOnlyFromPending

-----------------------------------------------------------------------------
(* AiTagging implements TaggingLifecycle: its initial states map to initial *)
(* states, and every step maps to a step of the lifecycle or to a stutter.  *)
Shown == [Lifecycle!Next]_(Lifecycle!vars)

(* A step that changes neither the row nor what the jobs came to.           *)
LEMMA HiddenStep ==
    ASSUME UNCHANGED <<rowVars, remote>>
    PROVE  Shown
BY DEF Shown, rowVars, Lifecycle!vars

(* The row is freed: a claim or a job is given up, an enqueuer resets it.   *)
LEMMA FreeingStep ==
    ASSUME NEW s \in {"PENDING", "FAILED"}, UNCHANGED <<rowResult, remote>>,
           WriteRow(s, NoJobId) \/ \E e \in JobIds : SwapRow(e, s, NoJobId)
    PROVE  Shown
<1>1. CASE UNCHANGED <<rowStatus, rowJobId>>
  BY <1>1, HiddenStep DEF rowVars
<1>2. CASE RowExists /\ rowStatus' = s /\ rowJobId' = NoJobId
  <2>1. rowJobId'.kind = "none"
    BY <1>2 DEF NoJobId
  <2>2. Lifecycle!GiveUp
    BY <1>2, <2>1 DEF Lifecycle!GiveUp, Lifecycle!Free, RowExists
  <2> QED
    BY <2>2 DEF Shown, Lifecycle!Next
<1> QED
  BY <1>1, <1>2 DEF WriteRow, SwapRow

(* Steps of startOrReuseAiTagJob and of finalizeAiTagJob.                   *)
LEMMA CallStepShown ==
    ASSUME TaggingInv, NEW c \in Calls, CallStep(c)
    PROVE  Shown
<1> USE DEF callVars, queueVars, remoteVars
<1>0. /\ TypeOK /\ seen[c] \in JobIds /\ Claim(c) \in JobIds
      /\ rowJobId \in JobIds
  BY JobIdFacts DEF TaggingInv, TypeOK
<1>1. CASE ReadRow(c) \/ WaitForClaim(c) \/ Inspect(c)
  BY <1>1, HiddenStep DEF ReadRow, WaitForClaim, Inspect
<1>10. CASE RefuseType(c)
  <2>1. CASE RowExists
    <3>1. /\ rowStatus' = "NONE" /\ rowJobId' = NoJobId
          /\ UNCHANGED <<rowResult, remote>>
      BY <1>10, <2>1 DEF RefuseType, WriteRow
    <3>2. rowJobId'.kind = "none"
      BY <3>1 DEF NoJobId
    <3>3. Lifecycle!Refuse
      BY <2>1, <3>1, <3>2 DEF Lifecycle!Refuse, Lifecycle!Free, RowExists
    <3> QED
      BY <3>3 DEF Shown, Lifecycle!Next
  <2>2. CASE ~RowExists
    BY <1>10, <2>2, HiddenStep DEF RefuseType, WriteRow, rowVars
  <2> QED
    BY <2>1, <2>2
<1>2. CASE Release(c)
  BY <1>2, <1>0, FreeingStep DEF Release
<1>3. CASE TakeClaim(c)
  <2>1. CASE RowExists /\ rowJobId = NoJobId
    <3>1. rowStatus' = "PENDING" /\ rowJobId' = Claim(c)
          /\ UNCHANGED <<rowResult, remote>>
      BY <1>3, <2>1 DEF TakeClaim, SwapRow
    <3>2. rowJobId.kind = "none" /\ rowJobId'.kind = "claim"
          /\ rowJobId'.call = c
      BY <2>1, <3>1 DEF NoJobId, Claim
    <3>3. Lifecycle!Reserve(c)
      BY <2>1, <3>1, <3>2 DEF Lifecycle!Reserve, RowExists
    <3> QED
      BY <3>3 DEF Shown, Lifecycle!Next
  <2>2. CASE ~(RowExists /\ rowJobId = NoJobId)
    BY <1>3, <2>2, HiddenStep DEF TakeClaim, SwapRow, rowVars
  <2> QED
    BY <2>1, <2>2
<1>4. CASE StartJob(c)
  <2>1. CASE remote' = remote
    BY <1>4, <2>1, HiddenStep DEF StartJob
  <2>2. CASE remote' = [remote EXCEPT ![c] = "live"]
    <3>1. remote[c] = "absent"
      BY <1>4 DEF StartJob, TaggingInv, RemoteMatchesPc
    <3>2. /\ remote'[c] = "live"
          /\ \A d \in Calls \ {c} : remote'[d] = remote[d]
      BY <2>2, <1>0 DEF TypeOK
    <3>3. UNCHANGED rowVars
      BY <1>4 DEF StartJob
    <3>4. Lifecycle!Start(c)
      BY <3>1, <3>2, <3>3 DEF Lifecycle!Start, rowVars
    <3> QED
      BY <3>4 DEF Shown, Lifecycle!Next
  <2> QED
    BY <1>4, <2>1, <2>2 DEF StartJob
<1>5. CASE StoreJobId(c)
  <2>1. CASE RowExists /\ rowJobId = Claim(c)
    <3>1. rowStatus' = "RUNNING" /\ rowJobId' = Job(c)
          /\ UNCHANGED <<rowResult, remote>>
      BY <1>5, <2>1 DEF StoreJobId, PublishJob, SwapRow
    <3>2. /\ rowJobId.kind = "claim" /\ rowJobId.call = c
          /\ rowJobId'.kind = "job" /\ rowJobId'.call = c
      BY <2>1, <3>1 DEF Claim, Job
    <3>3. remote[c] # "absent"
      BY <1>5 DEF StoreJobId, TaggingInv, RemoteMatchesPc
    <3>4. Lifecycle!Publish(c)
      BY <3>1, <3>2, <3>3 DEF Lifecycle!Publish
    <3> QED
      BY <3>4 DEF Shown, Lifecycle!Next
  <2>2. CASE ~(RowExists /\ rowJobId = Claim(c))
    BY <1>5, <2>2, HiddenStep DEF StoreJobId, PublishJob, SwapRow, rowVars
  <2> QED
    BY <2>1, <2>2
<1>6. CASE StartFails(c)
  BY <1>6, <1>0, FreeingStep DEF StartFails, WithdrawClaim
<1>7. CASE PollJob(c)
  <2>1. CASE JobReply(seen[c]) = "FAILURE"
    BY <1>7, <2>1, <1>0, FreeingStep DEF PollJob, PersistFailure
  <2>2. CASE JobReply(seen[c]) # "FAILURE"
    BY <1>7, <2>2, HiddenStep DEF PollJob, rowVars
  <2> QED
    BY <2>1, <2>2
<1>8. CASE PollTimesOut(c)
  BY <1>8, <1>0, FreeingStep DEF PollTimesOut, PersistFailure
<1>9. CASE ApplySuccess(c)
  <2>1. CASE RowExists
    <3>1. /\ rowStatus' = "SUCCESS" /\ rowJobId' = NoJobId
          /\ rowResult' = seen[c].call /\ UNCHANGED remote
      BY <1>9, <2>1 DEF ApplySuccess, WriteRow
    <3>2. rowJobId'.kind = "none"
      BY <3>1 DEF NoJobId
    <3>3. /\ seen[c].kind = "job"
          /\ remote[seen[c].call] = "SUCCESS"
      BY <1>9 DEF ApplySuccess, TaggingInv, AwaitedJobExists
    <3>4. seen[c].call \in Calls
      BY <1>0, <3>3, JobIdShape
    <3>5. Lifecycle!Tag(seen[c].call)
      BY <2>1, <3>1, <3>2, <3>3, <3>4
         DEF Lifecycle!Tag, Lifecycle!Free, RowExists
    <3> QED
      BY <3>4, <3>5 DEF Shown, Lifecycle!Next
  <2>2. CASE ~RowExists
    BY <1>9, <2>2, HiddenStep DEF ApplySuccess, WriteRow, rowVars
  <2> QED
    BY <2>1, <2>2
<1> QED
  BY <1>1, <1>2, <1>3, <1>4, <1>5, <1>6, <1>7, <1>8, <1>9, <1>10 DEF CallStep

(* Steps of a worker run that are not those of its call.                    *)
LEMMA RunStepShown ==
    ASSUME TaggingInv, NEW w \in Runs, RunStep(w)
    PROVE  Shown
<1> USE DEF callVars, queueVars, remoteVars
<1>1. CASE TakeJob(w) \/ FinishJob(w)
  BY <1>1, HiddenStep DEF TakeJob, FinishJob
<1>2. CASE SkipTagged(w)
  <2>1. CASE Kind = "url" /\ RowExists
    <3>1. /\ rowStatus' = "SUCCESS" /\ rowJobId' = NoJobId
          /\ UNCHANGED <<rowResult, remote>>
      BY <1>2, <2>1 DEF SkipTagged, WriteRow
    <3>2. rowJobId'.kind = "none"
      BY <3>1 DEF NoJobId
    <3>3. rowResult # NoCall
      BY <1>2, <2>1
         DEF SkipTagged, TaggingInv, RemoteMatchesPc, Calls, RowExists
    <3>4. Lifecycle!Confirm
      BY <2>1, <3>1, <3>2, <3>3
         DEF Lifecycle!Confirm, Lifecycle!Free, RowExists
    <3> QED
      BY <3>4 DEF Shown, Lifecycle!Next
  <2>2. CASE ~(Kind = "url" /\ RowExists)
    BY <1>2, <2>2, HiddenStep DEF SkipTagged, WriteRow, rowVars
  <2> QED
    BY <2>1, <2>2
<1>3. CASE RunFails(w)
  BY <1>3, FreeingStep DEF RunFails
<1> QED
  BY <1>1, <1>2, <1>3 DEF RunStep

(* Steps of enqueueAiTagUrl / enqueueAiTagFile.                             *)
LEMMA EnqueueStepShown ==
    ASSUME TaggingInv, NEW e \in Enqueuers,
           EnqueueStep(e) \/ EnqueueLooksUp(e) \/ EnqueueErrs(e)
    PROVE  Shown
<1> USE DEF callVars, queueVars, remoteVars
<1>1. CASE EnqueueChecksWaiting(e) \/ EnqueueRemoves(e) \/ EnqueueAdds(e)
           \/ EnqueueLooksUp(e)
  BY <1>1, HiddenStep DEF EnqueueChecksWaiting, EnqueueRemoves, EnqueueAdds,
                          EnqueueLooksUp
<1>2. CASE EnqueueReuses(e)
  <2>1. CASE RowExists
    <3>1. rowStatus' = "PENDING" /\ UNCHANGED <<rowJobId, rowResult, remote>>
      BY <1>2, <2>1 DEF EnqueueReuses, WriteRow
    <3>2. Lifecycle!AskAgain
      BY <2>1, <3>1 DEF Lifecycle!AskAgain, RowExists
    <3> QED
      BY <3>2 DEF Shown, Lifecycle!Next
  <2>2. CASE ~RowExists
    BY <1>2, <2>2, HiddenStep DEF EnqueueReuses, WriteRow, rowVars
  <2> QED
    BY <2>1, <2>2
<1>3. CASE EnqueueResetsRow(e)
  BY <1>3, FreeingStep DEF EnqueueResetsRow
<1>4. CASE EnqueueErrs(e)
  BY <1>4, FreeingStep DEF EnqueueErrs
<1> QED
  BY <1>1, <1>2, <1>3, <1>4 DEF EnqueueStep

(* Every step, also of the tagger, the queue, the user and a crash.         *)
LEMMA StepShown == TaggingInv /\ [Next]_vars => Shown
<1> SUFFICES ASSUME TaggingInv, [Next]_vars PROVE Shown
  OBVIOUS
<1> USE DEF callVars, queueVars, remoteVars
<1>0. TypeOK
  BY DEF TaggingInv
<1>1. CASE UNCHANGED vars
  BY <1>1, HiddenStep DEF vars, rowVars
<1>2. CASE QueueStalls
  BY <1>2, HiddenStep DEF QueueStalls
<1>3. ASSUME NEW c \in Calls, RouteRequest(c) \/ RemoteExpires(c) PROVE Shown
  BY <1>3, HiddenStep DEF RouteRequest, RemoteExpires
<1>4. ASSUME NEW c \in Calls, RemoteEnds(c) PROVE Shown
  <2>1. PICK s \in {"SUCCESS", "FAILURE"} :
           remote[c] = "live" /\ remote' = [remote EXCEPT ![c] = s]
    BY <1>4 DEF RemoteEnds
  <2>2. /\ remote'[c] = s
        /\ \A d \in Calls \ {c} : remote'[d] = remote[d]
    BY <2>1, <1>0 DEF TypeOK
  <2>3. UNCHANGED rowVars
    BY <1>4 DEF RemoteEnds
  <2>4. CASE s = "SUCCESS"
    <3>1. Lifecycle!Succeed(c)
      BY <2>1, <2>2, <2>3, <2>4 DEF Lifecycle!Succeed, rowVars
    <3> QED
      BY <3>1 DEF Shown, Lifecycle!Next
  <2>5. CASE s = "FAILURE"
    BY <2>1, <2>2, <2>3, <2>5 DEF Shown, Lifecycle!vars, rowVars
  <2> QED
    BY <2>4, <2>5
<1>5. ASSUME NEW c \in Calls \cup Enqueuers, Crash(c) PROVE Shown
  BY <1>5, HiddenStep DEF Crash
<1>6. CASE DeleteRow
  <2>1. rowJobId'.kind = "none"
    BY <1>6 DEF DeleteRow, NoJobId
  <2>2. Lifecycle!Delete
    BY <1>6, <2>1 DEF DeleteRow, Lifecycle!Delete, Lifecycle!Free
  <2> QED
    BY <2>2 DEF Shown, Lifecycle!Next
<1> QED
  BY <1>1, <1>2, <1>3, <1>4, <1>5, <1>6, CallStepShown, RunStepShown,
     EnqueueStepShown DEF Next, Environment

LEMMA InitShown == Init => Lifecycle!Init
<1> SUFFICES ASSUME Init PROVE Lifecycle!Init
  OBVIOUS
<1>1. /\ rowJobId.kind = "none"
      /\ \A c \in Calls : remote[c] = "absent"
  BY DEF Init, NoJobId
<1> QED
  BY <1>1 DEF Init, Lifecycle!Init

(* However calls, worker runs, enqueuers, stalls and crashes interleave,    *)
(* the row goes through the promised lifecycle: one reservation at a time,  *)
(* jobs published under it only, tags from jobs that succeeded.             *)
THEOREM TaggingImplementsLifecycle == Spec => ImplementsLifecycle
<1>1. Spec => Lifecycle!Init /\ [][Shown]_(Lifecycle!vars)
  BY InitShown, StepShown, Invariance, PTL DEF Spec
<1> QED
  BY <1>1, StepShown, InitShown, Invariance, PTL
     DEF Spec, Shown, ImplementsLifecycle, Lifecycle!Spec
=============================================================================
