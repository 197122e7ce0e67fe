----------------------------- MODULE AiTagging -----------------------------
(***************************************************************************)
(* The AI-tagging job of one library row (a saved Url or a StoredFile).    *)
(*                                                                         *)
(* The row is a database record that several actors update without a lock: *)
(* HTTP handlers (POST /urls|files/:id/auto-tags), runs of the BullMQ      *)
(* worker, and callers of enqueueAiTagUrl/File.  They agree on who starts  *)
(* the ai-tagger job through the column taggingJobId, which holds nothing, *)
(* a claim token or the id of a remote job, and is changed by              *)
(* compare-and-swap updates (updateMany with the expected value in where). *)
(* The remote jobs are Celery tasks seen through GET /jobs/:id.            *)
(*                                                                         *)
(* One action is one database statement, one queue command or one request  *)
(* to the tagger, so every interleaving of the awaits in the code is here. *)
(* A call creates at most one claim token and at most one stored job id,   *)
(* so both are named by the call.                                          *)
(***************************************************************************)
EXTENDS Naturals

CONSTANTS
    RouteCalls,        \* POST .../auto-tags requests
    Runs,              \* deliveries of the row's BullMQ job to a worker
    Enqueuers,         \* calls of enqueueAiTagUrl / enqueueAiTagFile
    Kind,              \* "url" or "file": only files have a type to refuse,
                       \* and only the url worker marks a tagged row
    ForceChoices,      \* values of the force option the enqueuers pass
    MaxStartAttempts,  \* MAX_START_ATTEMPTS
    MaxStalledCount,   \* BullMQ: redeliveries of a stalled job (default 1)
    MaxCrashes,        \* bound of the model: processes that die
    NoCall,            \* no call: an empty taggingJobId, no result
    Earlier            \* a result stored before the modelled history

Calls == RouteCalls \cup Runs

ASSUME ActorsAssumption ==
    /\ RouteCalls \cap Runs = {}
    /\ Calls \cap Enqueuers = {}
    /\ NoCall \notin Calls \cup Enqueuers
    /\ Earlier \notin Calls \cup Enqueuers \cup {NoCall}
ASSUME OptionsAssumption ==
    /\ Kind \in {"url", "file"}
    /\ ForceChoices \subseteq BOOLEAN
ASSUME BoundsAssumption ==
    /\ MaxStartAttempts \in Nat
    /\ MaxStalledCount \in Nat
    /\ MaxCrashes \in Nat

VARIABLES
    rowStatus,   \* taggingStatus, or "ABSENT" once the row is deleted
    rowJobId,    \* taggingJobId
    rowResult,   \* the call whose job wrote tags, contentHash, taggerVersion
    remote,      \* Celery state of the job each call created
    expired,     \* jobs whose result Celery has dropped (result_expires)
    pc,          \* control state of every call and enqueuer
    seen,        \* the taggingJobId a call read and acts on
    attempt,     \* the loop counter of startOrReuseAiTagJob
    queueState,  \* state of the BullMQ job "ai-tag-url__<id>" / "ai-tag-file__<id>"
    queueOwner,  \* the run that holds the job's lock
    queueForce,  \* the force option in the job's data
    queueStalls, \* how often the job stalled
    crashes      \* processes that died so far

rowVars == <<rowStatus, rowJobId, rowResult>>
remoteVars == <<remote, expired>>
callVars == <<seen, attempt>>
queueVars == <<queueState, queueOwner, queueForce, queueStalls>>
vars == <<rowStatus, rowJobId, rowResult, remote, expired, pc, seen, attempt,
          queueState, queueOwner, queueForce, queueStalls, crashes>>

Status == {"NONE", "PENDING", "RUNNING", "SUCCESS", "FAILED"}
RemoteState == {"absent", "live", "SUCCESS", "FAILURE"}
CallPc == {"idle", "refuse", "read", "wait", "inspect", "release", "claim",
           "start", "swap", "startFailed", "poll", "apply", "skipped",
           "runFailed", "finish", "done", "dead"}
EnqueuerPc == {"idle", "checkWaiting", "reuse", "remove", "reset", "add",
               "done", "dead"}
QueueState == {"absent", "waiting", "active", "finished"}

NoJobId == [kind |-> "none", call |-> NoCall]
Claim(c) == [kind |-> "claim", call |-> c]
Job(c) == [kind |-> "job", call |-> c]
JobIds == {NoJobId} \cup [kind : {"claim", "job"}, call : Calls]

TypeOK ==
    /\ rowStatus \in Status \cup {"ABSENT"}
    /\ rowJobId \in JobIds
    /\ rowResult \in Calls \cup {NoCall, Earlier}
    /\ remote \in [Calls -> RemoteState]
    /\ expired \in SUBSET Calls
    /\ pc \in [Calls \cup Enqueuers -> CallPc \cup EnqueuerPc]
    /\ seen \in [Calls -> JobIds]
    /\ attempt \in [Calls -> 0..MaxStartAttempts]
    /\ queueState \in QueueState
    /\ queueOwner \in Runs \cup {NoCall}
    /\ queueForce \in BOOLEAN
    /\ queueStalls \in 0..MaxStalledCount
    /\ crashes \in 0..MaxCrashes

(* A row is created untagged, or comes from an earlier run of the program.  *)
Init ==
    /\ \/ rowStatus \in {"NONE", "FAILED"} /\ rowResult = NoCall
       \/ rowStatus \in {"SUCCESS", "FAILED"} /\ rowResult = Earlier
    /\ rowJobId = NoJobId
    /\ remote = [c \in Calls |-> "absent"]
    /\ expired = {}
    /\ pc = [c \in Calls \cup Enqueuers |-> "idle"]
    /\ seen = [c \in Calls |-> NoJobId]
    /\ attempt = [c \in Calls |-> 0]
    /\ queueState = "absent" /\ queueOwner = NoCall
    /\ queueForce = FALSE /\ queueStalls = 0
    /\ crashes = 0

Goto(c, label) == pc' = [pc EXCEPT ![c] = label]

RowExists == rowStatus # "ABSENT"

(* updateMany({where: {id}, data}): a no-op on a deleted row.               *)
WriteRow(status, jobId) ==
    IF RowExists
    THEN /\ rowStatus' = status /\ rowJobId' = jobId
    ELSE UNCHANGED <<rowStatus, rowJobId>>

(* updateMany({where: {id, taggingJobId: expected}, data}).                 *)
SwapRow(expected, status, jobId) ==
    IF RowExists /\ rowJobId = expected
    THEN /\ rowStatus' = status /\ rowJobId' = jobId
    ELSE UNCHANGED <<rowStatus, rowJobId>>

-----------------------------------------------------------------------------
(* The remote tagger.                                                       *)

(* What a caller of getJob learns of a job.  GET /jobs/:id answers 500 for  *)
(* FAILURE, on which axios throws, and PENDING for an id it has forgotten.  *)
JobReply(j) ==
    IF j.call \in expired THEN "PENDING"
    ELSE IF remote[j.call] = "FAILURE" THEN "http-error"
    ELSE IF remote[j.call] = "SUCCESS" THEN "SUCCESS"
    ELSE "PENDING"

(* getJob can also fail with the network or its 25 s timeout.               *)
JobReplies(j) == {JobReply(j), "http-error"}

(* awaitTerminalJobState stops at these replies.                            *)
EndsPollingOnAnyReply(reply) == reply # "FAILURE"                  \* mutant
EndsPolling(reply) == reply \in {"SUCCESS", "FAILURE"}

ClassifyRemoteJobState(reply) ==
    IF reply \in {"SUCCESS", "FAILURE", "REVOKED"} THEN "terminal" ELSE "live"

InspectRemoteJob(reply) ==
    IF reply = "http-error" THEN "missing" ELSE ClassifyRemoteJobState(reply)

(* process_job ends, with its last retry if it fails.                       *)
RemoteEnds(c) ==
    /\ remote[c] = "live"
    /\ \E s \in {"SUCCESS", "FAILURE"} : remote' = [remote EXCEPT ![c] = s]
    /\ UNCHANGED <<rowVars, expired, pc, callVars, queueVars, crashes>>

(* The Celery result backend drops results a day after the task ended.      *)
RemoteExpires(c) ==
    /\ remote[c] \in {"SUCCESS", "FAILURE"}
    /\ expired' = expired \cup {c}
    /\ UNCHANGED <<rowVars, remote, pc, callVars, queueVars, crashes>>

-----------------------------------------------------------------------------
(* startOrReuseAiTagJobForUrl / ForFile.                                    *)

(* for (attempt = 0; attempt < MAX_START_ATTEMPTS; attempt++)               *)
AttemptLeft(c) == attempt[c] < MaxStartAttempts

(* !!jobId && !isClaimToken(jobId)                                          *)
IsResolvedAnyValue(jobId) == jobId.kind # "none"                   \* mutant
IsResolved(jobId) == jobId.kind = "job"

(* The updates of the claim's holder: to the real job id, or withdrawn.     *)
PublishJobUnguarded(c) == WriteRow("RUNNING", Job(c))              \* mutant
PublishJob(c) == SwapRow(Claim(c), "RUNNING", Job(c))

WithdrawClaimForgotten(c) == UNCHANGED <<rowStatus, rowJobId>>     \* mutant
WithdrawClaim(c) == SwapRow(Claim(c), "FAILED", NoJobId)

(* persistAiTagFailureForUrl / ForFile.                                     *)
PersistFailure(jobId) == SwapRow(jobId, "FAILED", NoJobId)

(* The call got a job: the worker always awaits it to its end, the route    *)
(* schedules finalization unless it joined a live job.                      *)
JoinsWithoutFinalizer(c, jobId, mode) ==                           \* mutant
    /\ seen' = [seen EXCEPT ![c] = jobId]
    /\ Goto(c, IF c \in RouteCalls THEN "done" ELSE "poll")
Joins(c, jobId, mode) ==
    /\ seen' = [seen EXCEPT ![c] = jobId]
    /\ Goto(c, IF c \in RouteCalls /\ mode = "reused_live"
               THEN "done" ELSE "poll")

(* The call throws: the route answers with an error, the worker's catch     *)
(* still has a database write to do.                                        *)
Throws(c) == Goto(c, IF c \in Runs THEN "runFailed" ELSE "done")

(* The call returns: the worker still reports the queue job's completion.   *)
Returns(c) == Goto(c, IF c \in Runs THEN "finish" ELSE "done")

(* getFileCapability(...).aiTagSupported, at each read of a file: a rename  *)
(* (PATCH /files/:id) changes the extension it looks at.                    *)
TypeVerdicts == IF Kind = "file" THEN BOOLEAN ELSE {TRUE}

(* POST .../auto-tags: 404 if the row does not exist.  storagePath is never *)
(* null in the schema nor written empty, so the 400 for it does not occur.  *)
RouteRequest(c) ==
    /\ c \in RouteCalls
    /\ pc[c] = "idle"
    /\ \E supported \in TypeVerdicts :
         Goto(c, IF ~RowExists THEN "done"
                 ELSE IF supported THEN "read" ELSE "refuse")
    /\ UNCHANGED <<rowVars, remoteVars, callVars, queueVars, crashes>>

(* The type is not supported: the row is marked whatever job id it now has. *)
(* update throws on a row that is gone.                                     *)
RefuseType(c) ==
    /\ pc[c] = "refuse"
    /\ WriteRow("NONE", NoJobId)
    /\ IF RowExists THEN Returns(c) ELSE Throws(c)
    /\ UNCHANGED <<rowResult, remoteVars, callVars, queueVars, crashes>>

(* Head of the attempt loop: read taggingJobId.                             *)
ReadRow(c) ==
    /\ pc[c] = "read"
    /\ IF ~AttemptLeft(c) \/ ~RowExists
       THEN Throws(c) /\ seen' = seen
       ELSE /\ seen' = [seen EXCEPT ![c] = rowJobId]
            /\ \/ rowJobId.kind = "none"  /\ Goto(c, "claim")
               \/ rowJobId.kind = "claim" /\ Goto(c, "wait")
               \/ rowJobId.kind = "job"   /\ Goto(c, "inspect")
    /\ UNCHANGED <<rowVars, remoteVars, attempt, queueVars, crashes>>

(* waitForResolvedClaim: one poll that ends the wait, or the deadline.      *)
WaitForClaim(c) ==
    /\ pc[c] = "wait"
    /\ \/ /\ IsResolved(rowJobId)
          /\ Joins(c, rowJobId, "reused_live")
       \/ Goto(c, "release") /\ seen' = seen
    /\ UNCHANGED <<rowVars, remoteVars, attempt, queueVars, crashes>>

Inspect(c) ==
    /\ pc[c] = "inspect"
    /\ \E reply \in JobReplies(seen[c]) :
         \/ /\ InspectRemoteJob(reply) = "live"
            /\ Joins(c, seen[c], "reused_live")
         \/ /\ InspectRemoteJob(reply) = "terminal"
            /\ Joins(c, seen[c], "reused_terminal")
         \/ /\ InspectRemoteJob(reply) = "missing"
            /\ Goto(c, "release") /\ seen' = seen
    /\ UNCHANGED <<rowVars, remoteVars, attempt, queueVars, crashes>>

(* Take away a claim that did not resolve or a job that seems gone, and     *)
(* start over.                                                              *)
Release(c) ==
    /\ pc[c] = "release"
    /\ SwapRow(seen[c], "PENDING", NoJobId)
    /\ attempt' = [attempt EXCEPT ![c] = @ + 1]
    /\ Goto(c, "read")
    /\ UNCHANGED <<rowResult, remoteVars, seen, queueVars, crashes>>

TakeClaim(c) ==
    /\ pc[c] = "claim"
    /\ SwapRow(NoJobId, "PENDING", Claim(c))
    /\ IF RowExists /\ rowJobId = NoJobId
       THEN Goto(c, "start") /\ attempt' = attempt
       ELSE Goto(c, "read") /\ attempt' = [attempt EXCEPT ![c] = @ + 1]
    /\ UNCHANGED <<rowResult, remoteVars, seen, queueVars, crashes>>

(* startJob(): the tagger accepts the job, refuses it, or accepts it and    *)
(* the answer is lost.                                                      *)
StartJob(c) ==
    /\ pc[c] = "start"
    /\ \/ remote' = [remote EXCEPT ![c] = "live"] /\ Goto(c, "swap")
       \/ remote' = [remote EXCEPT ![c] = "live"] /\ Goto(c, "startFailed")
       \/ remote' = remote /\ Goto(c, "startFailed")
    /\ UNCHANGED <<rowVars, expired, callVars, queueVars, crashes>>

(* Replace the claim by the job id; a lost claim makes the call throw.      *)
StoreJobId(c) ==
    /\ pc[c] = "swap"
    /\ PublishJob(c)
    /\ IF RowExists /\ rowJobId = Claim(c)
       THEN Joins(c, Job(c), "started_new")
       ELSE Goto(c, "startFailed") /\ seen' = seen
    /\ UNCHANGED <<rowResult, remoteVars, attempt, queueVars, crashes>>

StartFails(c) ==
    /\ pc[c] = "startFailed"
    /\ WithdrawClaim(c)
    /\ Throws(c)
    /\ UNCHANGED <<rowResult, remoteVars, callVars, queueVars, crashes>>

-----------------------------------------------------------------------------
(* finalizeAiTagJobForUrl / ForFile and the persistence of its outcome.     *)

(* A poll that sees a terminal state.  A failure is stored if the row still *)
(* names the job; for a success the row is first looked up by the job id    *)
(* (findFirst) and nothing is stored if it moved on.  The reply and the     *)
(* statement after it form one step: no other step can tell them apart.     *)
PollJob(c) ==
    /\ pc[c] = "poll"
    /\ EndsPolling(JobReply(seen[c]))
    /\ IF JobReply(seen[c]) = "FAILURE"
       THEN PersistFailure(seen[c]) /\ Returns(c)
       ELSE /\ UNCHANGED <<rowStatus, rowJobId>>
            /\ IF RowExists /\ rowJobId = seen[c]
               THEN Goto(c, "apply") ELSE Returns(c)
    /\ UNCHANGED <<rowResult, remoteVars, callVars, queueVars, crashes>>

(* MAX_WAIT_MS: awaitTerminalJobState throws, the failure is persisted.     *)
PollTimesOut(c) ==
    /\ pc[c] = "poll"
    /\ PersistFailure(seen[c])
    /\ Returns(c)
    /\ UNCHANGED <<rowResult, remoteVars, callVars, queueVars, crashes>>

(* The transaction of persistAiTagSuccess: its where clause has only the    *)
(* row's id.  It throws on a deleted row, and the failure path that         *)
(* follows matches no row.                                                  *)
ApplySuccess(c) ==
    /\ pc[c] = "apply"
    /\ WriteRow("SUCCESS", NoJobId)
    /\ rowResult' = IF RowExists THEN seen[c].call ELSE rowResult
    /\ Returns(c)
    /\ UNCHANGED <<remoteVars, callVars, queueVars, crashes>>

-----------------------------------------------------------------------------
(* The worker: new Worker("ai-tag-url" | "ai-tag-file").                    *)

AlreadyTagged == rowResult # NoCall

(* BullMQ delivers the job and the run decides whether there is work.  The  *)
(* row is read after the delivery, but nothing that can happen in between   *)
(* depends on which of the two came first.                                  *)
TakeJob(w) ==
    /\ w \in Runs
    /\ pc[w] = "idle"
    /\ queueState = "waiting"
    /\ queueState' = "active" /\ queueOwner' = w
    /\ \E supported \in TypeVerdicts :
         Goto(w, IF ~RowExists THEN "runFailed"
                 ELSE IF ~supported THEN "refuse"
                 ELSE IF ~queueForce /\ AlreadyTagged THEN "skipped"
                 ELSE "read")
    /\ UNCHANGED <<rowVars, remoteVars, callVars, queueForce, queueStalls,
                   crashes>>

(* result.skipped, tagged already: the url worker marks the row, the file   *)
(* worker does not.                                                         *)
SkipTagged(w) ==
    /\ pc[w] = "skipped"
    /\ IF Kind = "url" THEN WriteRow("SUCCESS", NoJobId)
                       ELSE UNCHANGED <<rowStatus, rowJobId>>
    /\ Goto(w, "finish")
    /\ UNCHANGED <<rowResult, remoteVars, callVars, queueVars, crashes>>

(* catch (e): mark the row whatever job id it now has, and rethrow.         *)
RunFails(w) ==
    /\ pc[w] = "runFailed"
    /\ WriteRow("FAILED", NoJobId)
    /\ Goto(w, "finish")
    /\ UNCHANGED <<rowResult, remoteVars, callVars, queueVars, crashes>>

(* The processor settles; BullMQ moves the job to completed or failed if    *)
(* this run still holds its lock.                                           *)
FinishJob(w) ==
    /\ pc[w] = "finish"
    /\ IF queueState = "active" /\ queueOwner = w
       THEN queueState' = "finished" /\ queueOwner' = NoCall
       ELSE UNCHANGED <<queueState, queueOwner>>
    /\ Goto(w, "done")
    /\ UNCHANGED <<rowVars, remoteVars, callVars, queueForce, queueStalls,
                   crashes>>

(* The lock of an active job runs out, because its process died or could    *)
(* not renew it: the job is delivered again, at most MaxStalledCount times. *)
QueueStalls ==
    /\ queueState = "active"
    /\ IF queueStalls < MaxStalledCount
       THEN queueState' = "waiting" /\ queueStalls' = queueStalls + 1
       ELSE queueState' = "finished" /\ queueStalls' = queueStalls
    /\ queueOwner' = NoCall
    /\ UNCHANGED <<rowVars, remoteVars, pc, callVars, queueForce, crashes>>

-----------------------------------------------------------------------------
(* enqueueAiTagUrl / enqueueAiTagFile.                                      *)

(* getJob and isActive.                                                     *)
EnqueueLooksUp(e) ==
    /\ pc[e] = "idle"
    /\ e \in Enqueuers
    /\ Goto(e, IF queueState = "absent" THEN "reset"
               ELSE IF queueState = "active" THEN "reuse"
               ELSE "checkWaiting")
    /\ UNCHANGED <<rowVars, remoteVars, callVars, queueVars, crashes>>

(* isWaiting, then isDelayed, which never holds: attempts is 1.             *)
EnqueueChecksWaiting(e) ==
    /\ pc[e] = "checkWaiting"
    /\ Goto(e, IF queueState = "waiting" THEN "reuse" ELSE "remove")
    /\ UNCHANGED <<rowVars, remoteVars, callVars, queueVars, crashes>>

EnqueueReuses(e) ==
    /\ pc[e] = "reuse"
    /\ WriteRow("PENDING", rowJobId)
    /\ Goto(e, "done")
    /\ UNCHANGED <<rowResult, remoteVars, callVars, queueVars, crashes>>

(* existing.remove(): refused for an active job, and the refusal ignored.   *)
EnqueueRemoves(e) ==
    /\ pc[e] = "remove"
    /\ queueState' = IF queueState = "active" THEN "active" ELSE "absent"
    /\ Goto(e, "reset")
    /\ UNCHANGED <<rowVars, remoteVars, callVars, queueOwner, queueForce,
                   queueStalls, crashes>>

EnqueueResetsRow(e) ==
    /\ pc[e] = "reset"
    /\ WriteRow("PENDING", NoJobId)
    /\ Goto(e, "add")
    /\ UNCHANGED <<rowResult, remoteVars, callVars, queueVars, crashes>>

(* queue.add: a job id that exists in any state makes it a no-op.           *)
EnqueueAdds(e) ==
    /\ pc[e] = "add"
    /\ IF queueState = "absent"
       THEN /\ queueState' = "waiting" /\ queueForce' \in ForceChoices
            /\ queueOwner' = NoCall /\ queueStalls' = 0
       ELSE UNCHANGED queueVars
    /\ Goto(e, "done")
    /\ UNCHANGED <<rowVars, remoteVars, callVars, crashes>>

(* scheduleAiTagFor...: any step threw; the row is marked FAILED.           *)
EnqueueErrs(e) ==
    /\ pc[e] \in EnqueuerPc \ {"idle", "done", "dead"}
    /\ e \in Enqueuers
    /\ WriteRow("FAILED", NoJobId)
    /\ Goto(e, "done")
    /\ UNCHANGED <<rowResult, remoteVars, callVars, queueVars, crashes>>

-----------------------------------------------------------------------------
(* The row is deleted for good.                                             *)
DeleteRow ==
    /\ RowExists
    /\ rowStatus' = "ABSENT"
    /\ rowJobId' = NoJobId
    /\ rowResult' = NoCall
    /\ UNCHANGED <<remoteVars, pc, callVars, queueVars, crashes>>

(* The process that runs a call or an enqueuer dies between two steps.      *)
Crash(c) ==
    /\ crashes < MaxCrashes
    /\ pc[c] \notin {"idle", "done", "dead"}
    /\ crashes' = crashes + 1
    /\ Goto(c, "dead")
    /\ UNCHANGED <<rowVars, remoteVars, callVars, queueVars>>

CallStep(c) ==
    \/ RefuseType(c)
    \/ ReadRow(c) \/ WaitForClaim(c) \/ Inspect(c) \/ Release(c)
    \/ TakeClaim(c) \/ StartJob(c) \/ StoreJobId(c) \/ StartFails(c)
    \/ PollJob(c) \/ PollTimesOut(c) \/ ApplySuccess(c)

RunStep(w) == TakeJob(w) \/ SkipTagged(w) \/ RunFails(w) \/ FinishJob(w)

EnqueueStep(e) ==
    \/ EnqueueChecksWaiting(e) \/ EnqueueReuses(e) \/ EnqueueRemoves(e)
    \/ EnqueueResetsRow(e) \/ EnqueueAdds(e)

Environment ==
    \/ \E c \in Calls : RouteRequest(c) \/ RemoteEnds(c) \/ RemoteExpires(c)
    \/ \E e \in Enqueuers : EnqueueLooksUp(e) \/ EnqueueErrs(e)
    \/ \E c \in Calls \cup Enqueuers : Crash(c)
    \/ DeleteRow

Next ==
    \/ \E c \in Calls : CallStep(c)
    \/ \E w \in Runs : RunStep(w)
    \/ \E e \in Enqueuers : EnqueueStep(e)
    \/ QueueStalls
    \/ Environment

Spec == Init /\ [][Next]_vars

(* What is started is carried on: Node.js runs its continuations and timers, *)
(* and BullMQ delivers waiting jobs to a live worker.                        *)
Fairness ==
    /\ \A c \in Calls : WF_vars(CallStep(c))
    /\ \A w \in Runs : WF_vars(RunStep(w))
    /\ \A e \in Enqueuers : WF_vars(EnqueueStep(e))

FairSpec == Spec /\ Fairness
-----------------------------------------------------------------------------
(* Properties.                                                              *)

(* The two columns agree: RUNNING rows name a real job, and a row with a    *)
(* final status names nothing, so that the next call may claim it.          *)
StatusMatchesJobId ==
    /\ rowStatus = "RUNNING" => rowJobId.kind = "job"
    /\ rowStatus \in {"NONE", "SUCCESS", "FAILED", "ABSENT"} =>
         rowJobId = NoJobId

(* A claim token in the row belongs to a call that is still going to        *)
(* replace or withdraw it, unless its process died: whatever takes claims   *)
(* away, a claim never outlives its holder.                                 *)
ClaimHasHolder ==
    \A c \in Calls :
        rowJobId = Claim(c) => pc[c] \in {"start", "swap", "startFailed", "dead"}

(* A job id in the row has a finalizer: the call that stored it is awaiting *)
(* that very job, unless its process died.                                  *)
JobHasFinalizer ==
    \A c \in Calls :
        rowJobId = Job(c) =>
            \/ pc[c] \in {"poll", "apply"} /\ seen[c] = Job(c)
            \/ pc[c] = "dead"

(* Stored tags were produced by a remote job that succeeded, and a row that *)
(* says SUCCESS has tags: neither a timeout, a lost claim nor a skipped run *)
(* can make it say so.                                                      *)
SuccessIsBacked ==
    /\ rowResult \in Calls => remote[rowResult] = "SUCCESS"
    /\ rowStatus = "SUCCESS" => rowResult # NoCall

(* What a call knows of the job it awaits: some call created it.            *)
AwaitedJobExists ==
    \A c \in Calls :
        /\ pc[c] \in {"poll", "apply", "inspect"} =>
             seen[c].kind = "job" /\ remote[seen[c].call] # "absent"
        /\ pc[c] = "apply" => remote[seen[c].call] = "SUCCESS"

(* What the others rest on: a call creates its remote job once, after all   *)
(* it does to get the claim; a stored job id is that of a created job; a    *)
(* run skips a row only if it is tagged.                                    *)
RemoteMatchesPc ==
    \A c \in Calls :
        /\ pc[c] \in {"idle", "read", "wait", "inspect", "release", "claim",
                      "start"} => remote[c] = "absent"
        /\ pc[c] = "swap" \/ rowJobId = Job(c) => remote[c] # "absent"
        /\ pc[c] = "skipped" => rowResult # NoCall \/ rowStatus = "ABSENT"

(* Inside an iteration of startOrReuseAiTagJob an attempt is left.          *)
AttemptInLoop ==
    \A c \in Calls :
        pc[c] \in {"wait", "inspect", "release", "claim"} => AttemptLeft(c)

(* The inductive invariant, what AiTaggingProofs proves of every step.      *)
TaggingInv ==
    /\ TypeOK
    /\ AttemptInLoop
    /\ StatusMatchesJobId
    /\ ClaimHasHolder
    /\ JobHasFinalizer
    /\ SuccessIsBacked
    /\ AwaitedJobExists
    /\ RemoteMatchesPc

(* A row is never sent from a final status to RUNNING directly: a call that *)
(* lost its claim to an enqueuer or a rival must not publish its job.       *)
RunningOnlyFromPending ==
    [][rowStatus' = "RUNNING" /\ rowStatus # "RUNNING" =>
         rowStatus = "PENDING" /\ rowJobId.kind = "claim"
         /\ rowJobId'.call = rowJobId.call]_vars

(* The row seen as TaggingLifecycle: claim tokens and job ids are the        *)
(* reservation of the call they belong to, before and after its job is      *)
(* published.                                                               *)
Lifecycle == INSTANCE TaggingLifecycle WITH
    shown <- rowStatus,
    holder <- IF rowJobId.kind = "none" THEN NoCall ELSE rowJobId.call,
    published <- rowJobId.kind = "job",
    started <- {c \in Calls : remote[c] # "absent"},
    succeeded <- {c \in Calls : remote[c] = "SUCCESS"},
    tags <- rowResult

(* Every step of handlers, worker runs, queue and crashes is a step of the  *)
(* lifecycle or changes nothing it shows: jobs are published only under     *)
(* one's own reservation, and tags come only from jobs that succeeded.      *)
ImplementsLifecycle == Lifecycle!Spec

(* Without crashes, every claim and every stored job id is given up: the    *)
(* row does not stay reserved.  Finalizers time out, claims are swapped or  *)
(* withdrawn.                                                               *)
ReservationEnds == (rowJobId # NoJobId) ~> (rowJobId = NoJobId)
=============================================================================
