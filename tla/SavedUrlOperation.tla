------------------------- MODULE SavedUrlOperation -------------------------
(***************************************************************************)
(* Bulk operations on saved URLs: an OperationRun row with one             *)
(* OperationRunItem row per target, executed by the BullMQ worker          *)
(* "saved-url-operations" while HTTP requests cancel, retry and clear runs.*)
(*                                                                         *)
(* One action is one database statement, transaction or queue command, or  *)
(* one call of the code that does an item's work (a capture, a tagging, a  *)
(* deletion), of which only success or failure is modelled.                *)
(*                                                                         *)
(* Items are created in one nested write and ordered by createdAt, which   *)
(* they share: their order is any order.                                   *)
(***************************************************************************)
EXTENDS Naturals, FiniteSets

CONSTANTS
    Runs,             \* OperationRun ids
    Targets,          \* what the items stand for: URLs or discovered PDFs
    Deliveries,       \* deliveries of a queue job to a worker process
    MaxAttempts,      \* attempts per item: DISCOVERED_PDF_MAX_ATTEMPTS, or 1
    MaxStalledCount,  \* BullMQ: redeliveries of a stalled job (default 1)
    LiveStalls,       \* may a process that is alive lose its job's lock?
    MaxCrashes,       \* bound of the model: worker processes that die
    None              \* no run, no target, no delivery

ASSUME OperationAssumption ==
    /\ None \notin Runs \cup Targets \cup Deliveries
    /\ IsFiniteSet(Targets)
    /\ MaxAttempts \in Nat \ {0}
    /\ MaxStalledCount \in Nat
    /\ LiveStalls \in BOOLEAN
    /\ MaxCrashes \in Nat

VARIABLES
    runStatus,     \* OperationRun.status; "none" before, "deleted" after
    runCompleted,  \* OperationRun.completed
    runFailed,     \* OperationRun.failed
    cancelling,    \* a cancel request has read a live status
    itemStatus,    \* OperationRunItem.status; "none" if there is no item
    attemptCount,  \* OperationRunItem.attemptCount
    calls,         \* history: how often an item's work was really called
    lateStarts,    \* history: items started in a run since it was canceled
    jobState,      \* the queue job "saved-url-operation__<id>"
    jobOwner,      \* the delivery that holds the job's lock
    jobStalls,     \* how often the job stalled
    pc, run, todo, item, attempt, outcome,  \* locals of a delivery: the run,
    tallyDone, tallyFailed, sawCanceled,    \* its unvisited queued items, ...
    crashes        \* worker processes that died so far

runVars == <<runStatus, runCompleted, runFailed, cancelling>>
itemVars == <<itemStatus, attemptCount, calls, lateStarts>>
jobVars == <<jobState, jobOwner, jobStalls>>
localVars == <<run, todo, item, attempt, outcome, tallyDone, tallyFailed,
               sawCanceled>>
vars == <<runVars, itemVars, jobVars, pc, localVars, crashes>>

Ended == {"success", "failed", "canceled"}
RunStatus == {"none", "queued", "running", "deleted"} \cup Ended
ItemStatus == {"none", "queued", "running"} \cup Ended
JobState == {"none", "adding", "lost", "waiting", "active", "finished"}
Pc == {"idle", "mark", "next", "begin", "count", "perform", "record",
       "tally", "store", "latest", "finalTally", "end", "finish", "done",
       "dead"}

TypeOK ==
    /\ runStatus \in [Runs -> RunStatus]
    /\ runCompleted \in [Runs -> Nat]
    /\ runFailed \in [Runs -> Nat]
    /\ cancelling \in [Runs -> BOOLEAN]
    /\ itemStatus \in [Runs \X Targets -> ItemStatus]
    /\ attemptCount \in [Runs \X Targets -> 0..MaxAttempts]
    /\ calls \in [Runs \X Targets -> Nat]
    /\ lateStarts \in [Runs -> Nat]
    /\ jobState \in [Runs -> JobState]
    /\ jobOwner \in [Runs -> Deliveries \cup {None}]
    /\ jobStalls \in [Runs -> 0..MaxStalledCount]
    /\ pc \in [Deliveries -> Pc]
    /\ run \in [Deliveries -> Runs \cup {None}]
    /\ todo \in [Deliveries -> SUBSET Targets]
    /\ item \in [Deliveries -> Targets \cup {None}]
    /\ attempt \in [Deliveries -> 1..MaxAttempts]
    /\ outcome \in [Deliveries -> {"success", "failed"}]
    /\ tallyDone \in [Deliveries -> Nat]
    /\ tallyFailed \in [Deliveries -> Nat]
    /\ sawCanceled \in [Deliveries -> BOOLEAN]
    /\ crashes \in 0..MaxCrashes

Init ==
    /\ runStatus = [r \in Runs |-> "none"]
    /\ runCompleted = [r \in Runs |-> 0]
    /\ runFailed = [r \in Runs |-> 0]
    /\ cancelling = [r \in Runs |-> FALSE]
    /\ itemStatus = [i \in Runs \X Targets |-> "none"]
    /\ attemptCount = [i \in Runs \X Targets |-> 0]
    /\ calls = [i \in Runs \X Targets |-> 0]
    /\ lateStarts = [r \in Runs |-> 0]
    /\ jobState = [r \in Runs |-> "none"]
    /\ jobOwner = [r \in Runs |-> None]
    /\ jobStalls = [r \in Runs |-> 0]
    /\ pc = [d \in Deliveries |-> "idle"]
    /\ run = [d \in Deliveries |-> None]
    /\ todo = [d \in Deliveries |-> {}]
    /\ item = [d \in Deliveries |-> None]
    /\ attempt = [d \in Deliveries |-> 1]
    /\ outcome = [d \in Deliveries |-> "success"]
    /\ tallyDone = [d \in Deliveries |-> 0]
    /\ tallyFailed = [d \in Deliveries |-> 0]
    /\ sawCanceled = [d \in Deliveries |-> FALSE]
    /\ crashes = 0

Goto(d, label) == pc' = [pc EXCEPT ![d] = label]

ItemsIn(r, statuses) == {t \in Targets : itemStatus[<<r, t>>] \in statuses}

(* update({where: {id}}) throws on a row that clear has deleted.            *)
RowGone(r) == runStatus[r] = "deleted"

-----------------------------------------------------------------------------
(* The requests.                                                            *)

(* prisma.operationRun.create with its items; the job is added next.        *)
InsertRun(r, T) ==
    /\ runStatus[r] = "none"
    /\ runStatus' = [runStatus EXCEPT ![r] = "queued"]
    /\ itemStatus' = [i \in Runs \X Targets |->
          IF i[1] = r /\ i[2] \in T THEN "queued" ELSE itemStatus[i]]
    /\ jobState' = [jobState EXCEPT ![r] = "adding"]
    /\ UNCHANGED <<runCompleted, runFailed, cancelling, attemptCount, calls,
                   lateStarts, jobOwner, jobStalls, pc, localVars, crashes>>

(* POST /saved-url-operations, and the discovered-PDF capture request.      *)
CreateRun(r) == \E T \in (SUBSET Targets) \ {{}} : InsertRun(r, T)

(* POST /saved-url-operations/:id/retry-failed: a new run for the items     *)
(* that have failed so far, whether or not the old run is over.             *)
RetryFailed(r, new) ==
    /\ runStatus[r] # "deleted"
    /\ ItemsIn(r, {"failed"}) # {}
    /\ InsertRun(new, ItemsIn(r, {"failed"}))

(* enqueueSavedUrlOperation.  The run's id is new, so no job has its id;    *)
(* the statement after it only notes the job's id in meta.                  *)
AddJob(r) ==
    /\ jobState[r] = "adding"
    /\ jobState' = [jobState EXCEPT ![r] = "waiting"]
    /\ UNCHANGED <<runVars, itemVars, jobOwner, jobStalls, pc, localVars,
                   crashes>>

(* Redis refuses the job, or the server dies first: the run stays queued.   *)
LoseJob(r) ==
    /\ jobState[r] = "adding"
    /\ jobState' = [jobState EXCEPT ![r] = "lost"]
    /\ UNCHANGED <<runVars, itemVars, jobOwner, jobStalls, pc, localVars,
                   crashes>>

(* POST /saved-url-operations/:id/cancel reads the status ...               *)
CancelReads(r) ==
    /\ runStatus[r] \in {"queued", "running"}
    /\ cancelling' = [cancelling EXCEPT ![r] = TRUE]
    /\ UNCHANGED <<runStatus, runCompleted, runFailed, itemVars, jobVars, pc,
                   localVars, crashes>>

(* ... and then, whatever it has become, cancels the run and the items that *)
(* are still queued, in one transaction.                                    *)
CancelCommits(r) ==
    /\ cancelling[r]
    /\ cancelling' = [cancelling EXCEPT ![r] = FALSE]
    /\ IF RowGone(r)
       THEN UNCHANGED <<runStatus, itemStatus, lateStarts>>
       ELSE /\ runStatus' = [runStatus EXCEPT ![r] = "canceled"]
            /\ lateStarts' = [lateStarts EXCEPT ![r] = 0]
            /\ itemStatus' = [i \in Runs \X Targets |->
                  IF i[1] = r /\ itemStatus[i] = "queued"
                  THEN "canceled" ELSE itemStatus[i]]
    /\ UNCHANGED <<runCompleted, runFailed, attemptCount, calls, jobVars, pc,
                   localVars, crashes>>

(* DELETE /saved-url-operations?scope=done|history; items cascade.          *)
ClearRuns ==
    \E statuses \in {{"success", "canceled"}, Ended} :
        LET gone == {r \in Runs : runStatus[r] \in statuses}
        IN  /\ gone # {}
            /\ runStatus' = [r \in Runs |->
                  IF r \in gone THEN "deleted" ELSE runStatus[r]]
            /\ itemStatus' = [i \in Runs \X Targets |->
                  IF i[1] \in gone THEN "none" ELSE itemStatus[i]]
            /\ UNCHANGED <<runCompleted, runFailed, cancelling, attemptCount,
                           calls, lateStarts, jobVars, pc, localVars, crashes>>

-----------------------------------------------------------------------------
(* The worker: processSavedUrlOperationRun.                                 *)

ReprocessesSuccess(status) == status \in {"canceled", "deleted"}   \* mutant
SkipsStartedRun(status) == status # "queued"                       \* mutant
NothingToDo(status) == status \in {"canceled", "success", "deleted"}

VisitsEveryItem(r) == ItemsIn(r, ItemStatus \ {"none"})            \* mutant
ItemsToVisit(r) == ItemsIn(r, {"queued"})

IgnoresCancel(d) == todo[d] = {}                                   \* mutant
StopsLoop(d) == todo[d] = {} \/ runStatus[run[d]] = "canceled"

CompletedStatuses == Ended

FinalStatusOptimistic(failures) == "success"                       \* mutant
FinalStatus(failures) == IF failures > 0 THEN "failed" ELSE "success"

AttemptsLeftOffByOne(d) == attempt[d] <= MaxAttempts               \* mutant
AttemptsLeft(d) == attempt[d] < MaxAttempts

(* The job is delivered and the run is read with its items; items that are  *)
(* not queued now will be skipped.  Only the run's status matters between   *)
(* the two, and a change of it may as well have come before.                *)
TakeJob(d, r) ==
    /\ pc[d] = "idle"
    /\ jobState[r] = "waiting"
    /\ jobState' = [jobState EXCEPT ![r] = "active"]
    /\ jobOwner' = [jobOwner EXCEPT ![r] = d]
    /\ run' = [run EXCEPT ![d] = r]
    /\ todo' = [todo EXCEPT ![d] = ItemsToVisit(r)]
    /\ Goto(d, IF NothingToDo(runStatus[r]) THEN "finish" ELSE "mark")
    /\ UNCHANGED <<runVars, itemVars, jobStalls, item, attempt, outcome,
                   tallyDone, tallyFailed, sawCanceled, crashes>>

MarkRunning(d) ==
    /\ pc[d] = "mark"
    /\ IF RowGone(run[d])
       THEN Goto(d, "finish") /\ runStatus' = runStatus
       ELSE /\ runStatus' = [runStatus EXCEPT ![run[d]] = "running"]
            /\ Goto(d, "next")
    /\ UNCHANGED <<runCompleted, runFailed, cancelling, itemVars, jobVars,
                   localVars, crashes>>

(* The head of the loop reads the run's status.                             *)
NextItem(d) ==
    /\ pc[d] = "next"
    /\ IF StopsLoop(d)
       THEN Goto(d, "latest") /\ UNCHANGED <<todo, item>>
       ELSE \E t \in todo[d] :
              /\ item' = [item EXCEPT ![d] = t]
              /\ todo' = [todo EXCEPT ![d] = @ \ {t}]
              /\ Goto(d, "begin")
    /\ UNCHANGED <<runVars, itemVars, jobVars, run, attempt, outcome,
                   tallyDone, tallyFailed, sawCanceled, crashes>>

BeginItem(d) ==
    /\ pc[d] = "begin"
    /\ attempt' = [attempt EXCEPT ![d] = 1]
    /\ IF RowGone(run[d])
       THEN Goto(d, "finish") /\ UNCHANGED <<itemStatus, lateStarts>>
       ELSE /\ itemStatus' = [itemStatus EXCEPT ![<<run[d], item[d]>>] = "running"]
            /\ lateStarts' = IF runStatus[run[d]] = "canceled"
                             THEN [lateStarts EXCEPT ![run[d]] = @ + 1]
                             ELSE lateStarts
            /\ Goto(d, "count")
    /\ UNCHANGED <<runVars, attemptCount, calls, jobVars, run, todo, item,
                   outcome, tallyDone, tallyFailed, sawCanceled, crashes>>

(* processOperationItemWithRetries: note the attempt, then make it.         *)
CountAttempt(d) ==
    /\ pc[d] = "count"
    /\ IF RowGone(run[d])
       THEN Goto(d, "finish") /\ attemptCount' = attemptCount
       ELSE /\ attemptCount' =
                 [attemptCount EXCEPT ![<<run[d], item[d]>>] = attempt[d]]
            /\ Goto(d, "perform")
    /\ UNCHANGED <<runVars, itemStatus, calls, lateStarts, jobVars, localVars,
                   crashes>>

(* processOperationItem: captures, tags, refreshes, assigns or deletes.     *)
Perform(d) ==
    /\ pc[d] = "perform"
    /\ calls' = [calls EXCEPT ![<<run[d], item[d]>>] = @ + 1]
    /\ \E result \in {"success", "failed"} :
         /\ outcome' = [outcome EXCEPT ![d] = result]
         /\ IF result = "failed" /\ AttemptsLeft(d)
            THEN /\ attempt' = [attempt EXCEPT ![d] = @ + 1]
                 /\ Goto(d, "count")
            ELSE attempt' = attempt /\ Goto(d, "record")
    /\ UNCHANGED <<runVars, itemStatus, attemptCount, lateStarts, jobVars, run,
                   todo, item, tallyDone, tallyFailed, sawCanceled, crashes>>

RecordItem(d) ==
    /\ pc[d] = "record"
    /\ IF RowGone(run[d])
       THEN Goto(d, "finish") /\ itemStatus' = itemStatus
       ELSE /\ itemStatus' =
                 [itemStatus EXCEPT ![<<run[d], item[d]>>] = outcome[d]]
            /\ Goto(d, "tally")
    /\ UNCHANGED <<runVars, attemptCount, calls, lateStarts, jobVars,
                   localVars, crashes>>

(* summarizeRun, after an item and at the end.                              *)
TallyItems(d) ==
    /\ pc[d] \in {"tally", "finalTally"}
    /\ tallyDone' = [tallyDone EXCEPT
          ![d] = Cardinality(ItemsIn(run[d], CompletedStatuses))]
    /\ tallyFailed' = [tallyFailed EXCEPT
          ![d] = Cardinality(ItemsIn(run[d], {"failed"}))]
    /\ Goto(d, IF pc[d] = "tally" THEN "store" ELSE "end")
    /\ UNCHANGED <<runVars, itemVars, jobVars, run, todo, item, attempt,
                   outcome, sawCanceled, crashes>>

StoreCounts(d) ==
    /\ runCompleted' = [runCompleted EXCEPT ![run[d]] = tallyDone[d]]
    /\ runFailed' = [runFailed EXCEPT ![run[d]] = tallyFailed[d]]

StoreTally(d) ==
    /\ pc[d] = "store"
    /\ IF RowGone(run[d])
       THEN Goto(d, "finish") /\ UNCHANGED <<runCompleted, runFailed>>
       ELSE Goto(d, "next") /\ StoreCounts(d)
    /\ UNCHANGED <<runStatus, cancelling, itemVars, jobVars, localVars,
                   crashes>>

ReadLatest(d) ==
    /\ pc[d] = "latest"
    /\ sawCanceled' =
         [sawCanceled EXCEPT ![d] = runStatus[run[d]] = "canceled"]
    /\ Goto(d, "finalTally")
    /\ UNCHANGED <<runVars, itemVars, jobVars, run, todo, item, attempt,
                   outcome, tallyDone, tallyFailed, crashes>>

(* A canceled run keeps its status, any other gets its final one.           *)
EndRun(d) ==
    /\ pc[d] = "end"
    /\ Goto(d, "finish")
    /\ IF RowGone(run[d])
       THEN UNCHANGED <<runStatus, runCompleted, runFailed>>
       ELSE /\ StoreCounts(d)
            /\ runStatus' = IF sawCanceled[d] THEN runStatus ELSE
                 [runStatus EXCEPT ![run[d]] = FinalStatus(tallyFailed[d])]
    /\ UNCHANGED <<cancelling, itemVars, jobVars, localVars, crashes>>

(* The processor settles; BullMQ closes the job if this delivery holds it.  *)
FinishJob(d) ==
    /\ pc[d] = "finish"
    /\ Goto(d, "done")
    /\ IF jobState[run[d]] = "active" /\ jobOwner[run[d]] = d
       THEN jobState' = [jobState EXCEPT ![run[d]] = "finished"]
       ELSE jobState' = jobState
    /\ UNCHANGED <<runVars, itemVars, jobOwner, jobStalls, localVars, crashes>>

(* The lock of an active job runs out: because its process is dead, or, if  *)
(* LiveStalls, because its event loop was busy for too long.                *)
StallJob(r) ==
    /\ jobState[r] = "active"
    /\ LiveStalls \/ pc[jobOwner[r]] = "dead"
    /\ IF jobStalls[r] < MaxStalledCount
       THEN /\ jobState' = [jobState EXCEPT ![r] = "waiting"]
            /\ jobStalls' = [jobStalls EXCEPT ![r] = @ + 1]
       ELSE /\ jobState' = [jobState EXCEPT ![r] = "finished"]
            /\ jobStalls' = jobStalls
    /\ jobOwner' = [jobOwner EXCEPT ![r] = None]
    /\ UNCHANGED <<runVars, itemVars, pc, localVars, crashes>>

(* A worker process dies between two steps.                                 *)
Crash(d) ==
    /\ crashes < MaxCrashes
    /\ pc[d] \notin {"idle", "done", "dead"}
    /\ crashes' = crashes + 1
    /\ Goto(d, "dead")
    /\ UNCHANGED <<runVars, itemVars, jobVars, localVars>>

WorkerStep(d) ==
    \/ \E r \in Runs : TakeJob(d, r)
    \/ MarkRunning(d) \/ NextItem(d) \/ BeginItem(d) \/ CountAttempt(d)
    \/ Perform(d) \/ RecordItem(d) \/ TallyItems(d) \/ StoreTally(d)
    \/ ReadLatest(d) \/ EndRun(d) \/ FinishJob(d)

Requests ==
    \/ \E r \in Runs : CreateRun(r) \/ AddJob(r) \/ LoseJob(r)
                       \/ CancelReads(r) \/ CancelCommits(r)
    \/ \E r, new \in Runs : RetryFailed(r, new)
    \/ ClearRuns

Next ==
    \/ \E d \in Deliveries : WorkerStep(d) \/ Crash(d)
    \/ \E r \in Runs : StallJob(r)
    \/ Requests

Spec == Init /\ [][Next]_vars

(* A live worker process carries on, BullMQ hands out waiting jobs and its  *)
(* stalled-job check runs every 30 seconds.                                 *)
Fairness ==
    /\ \A d \in Deliveries : WF_vars(WorkerStep(d))
    /\ \A r \in Runs : WF_vars(StallJob(r) /\ pc[jobOwner[r]] = "dead")

FairSpec == Spec /\ Fairness
-----------------------------------------------------------------------------
(* Properties.                                                              *)

(* An item's work is never called without being counted, and never more     *)
(* often than its attempts allow, across crashes and redeliveries.          *)
CallsAreCounted ==
    \A i \in Runs \X Targets :
        runStatus[i[1]] # "deleted" => calls[i] <= attemptCount[i]

(* The counters and the status of a run that ended by itself are those of   *)
(* its items: no failed item in a success, at least one in a failed run.    *)
OutcomeMatchesItems ==
    \A r \in Runs : runStatus[r] \in {"success", "failed"} =>
        /\ runCompleted[r] = Cardinality(ItemsIn(r, Ended))
        /\ runFailed[r] = Cardinality(ItemsIn(r, {"failed"}))
        /\ (runStatus[r] = "failed") = (runFailed[r] > 0)

(* What is counted is what happened: the attempts of an item, and the items *)
(* of a run that has ended.                                                 *)
CountersAreTrue == CallsAreCounted /\ OutcomeMatchesItems

(* The status and counters of a run and of a retry of its failures are those *)
(* of their items, as long as no delivery overlaps another of the same job. *)
RetriedOutcomeMatchesItems ==
    (\A r \in Runs : jobStalls[r] = 0) => OutcomeMatchesItems

(* Once a cancellation is stored, and as long as it is not overwritten, a   *)
(* delivery starts at most the one item it was about to start.              *)
CancelStopsRun ==
    \A r \in Runs :
        lateStarts[r] <= Cardinality({d \in Deliveries : run[d] = r})

(* Why: an item is started late by a delivery that had chosen it before the *)
(* cancellation, and none chooses another while the cancellation stands.    *)
CancelInv ==
    \A r \in Runs :
        /\ IsFiniteSet({d \in Deliveries : run[d] = r})
        /\ lateStarts[r] <=
             Cardinality({d \in Deliveries :
                 run[d] = r /\ (runStatus[r] = "canceled" => pc[d] # "begin")})

(* A run that has succeeded is not run again: its redelivery finds nothing  *)
(* to do.  A cancel request that read it earlier may still cancel it.       *)
SuccessStays ==
    [][\A r \in Runs : runStatus[r] = "success" =>
         runStatus'[r] \in {"success", "canceled", "deleted"}]_runStatus

(* A delivery at work on a run.                                             *)
Live(d) == pc[d] \notin {"idle", "done", "dead"}

(* No two deliveries of the run's job are at work at once.                  *)
Alone(r) == ~LiveStalls \/ jobStalls[r] = 0

(* A job that is delivered while an earlier delivery lives has stalled.     *)
DeliveryInv ==
    /\ \A d \in Deliveries : pc[d] = "idle" <=> run[d] = None
    /\ \A r \in Runs : runStatus[r] = "none" =>
         jobState[r] = "none" /\ \A d \in Deliveries : run[d] # r
    /\ \A d \in Deliveries : Live(d) /\ Alone(run[d]) =>
         /\ jobState[run[d]] \in {"active", "finished"}
         /\ ~LiveStalls => jobState[run[d]] = "active" /\ jobOwner[run[d]] = d
         /\ \A e \in Deliveries : Live(e) /\ run[e] = run[d] => e = d

(* What a delivery that is alone with its run r knows at each step.  What it *)
(* has not visited yet has not been started, and it visits all that is      *)
(* queued unless the run is canceled; until its last step the run is not    *)
(* over; the counters it writes last are those of the items.                *)
Looping == {"mark", "next", "begin", "count", "perform", "record", "tally",
            "store"}
WorksAlone(d, r) ==
    /\ pc[d] = "mark" => runStatus[r] # "success"
    /\ pc[d] \notin {"mark", "finish"} => runStatus[r] \notin {"success", "failed"}
    /\ pc[d] \in Looping =>
         /\ \A t \in todo[d] : itemStatus[<<r, t>>] \in {"queued", "canceled"}
         /\ \A t \in ItemsIn(r, {"queued"}) :
              t \in todo[d] \/ (pc[d] = "begin" /\ t = item[d])
    /\ pc[d] \in {"begin", "count", "perform", "record"} =>
         item[d] \in Targets \ todo[d]
    /\ pc[d] = "begin" => itemStatus[<<r, item[d]>>] \in {"queued", "canceled"}
    /\ pc[d] \in {"count", "perform", "record"} =>
         itemStatus[<<r, item[d]>>] = "running"
    /\ pc[d] \in {"count", "perform"} => calls[<<r, item[d]>>] + 1 = attempt[d]
    /\ pc[d] = "perform" => attemptCount[<<r, item[d]>>] = attempt[d]
    /\ pc[d] = "latest" =>
         runStatus[r] = "canceled" \/ ItemsIn(r, {"queued"}) = {}
    /\ pc[d] \in {"finalTally", "end"} /\ ~sawCanceled[d] =>
         ItemsIn(r, {"queued"}) = {}
    /\ pc[d] = "end" /\ ~sawCanceled[d] =>
         /\ tallyDone[d] = Cardinality(ItemsIn(r, Ended))
         /\ tallyFailed[d] = Cardinality(ItemsIn(r, {"failed"}))

WorkInv ==
    \A d \in Deliveries :
        Live(d) /\ Alone(run[d]) /\ ~RowGone(run[d]) => WorksAlone(d, run[d])

(* An item that waits or was canceled has never been worked on.             *)
ItemInv ==
    \A r \in Runs, t \in Targets :
        /\ runStatus[r] = "none" =>
             itemStatus[<<r, t>>] = "none" /\ calls[<<r, t>>] = 0
        /\ Alone(r) /\ ~RowGone(r) =>
             /\ calls[<<r, t>>] <= attemptCount[<<r, t>>]
             /\ itemStatus[<<r, t>>] \in {"queued", "canceled"} =>
                  calls[<<r, t>>] = 0

(* OutcomeMatchesItems, for the runs whose deliveries do not overlap.       *)
OutcomeInv ==
    \A r \in Runs : Alone(r) /\ runStatus[r] \in {"success", "failed"} =>
        /\ runCompleted[r] = Cardinality(ItemsIn(r, Ended))
        /\ runFailed[r] = Cardinality(ItemsIn(r, {"failed"}))
        /\ (runStatus[r] = "failed") = (runFailed[r] > 0)

(* All of it together is inductive, with and without overlaps.              *)
OperationInv ==
    TypeOK /\ DeliveryInv /\ WorkInv /\ ItemInv /\ OutcomeInv /\ CancelInv

(* A run whose job was queued ends, even if a worker dies, provided BullMQ  *)
(* delivers the job again.                                                  *)
RunEnds ==
    \A r \in Runs :
        (jobState[r] = "waiting" /\ runStatus[r] = "queued")
            ~> (runStatus[r] \in Ended \cup {"deleted"})

(* The panel calls the work "Durable": a run that is reported as success    *)
(* ("Done", "Operation completed") has no item left undone.                 *)
SuccessIsComplete ==
    \A r \in Runs : runStatus[r] = "success" =>
        ItemsIn(r, {"queued", "running"}) = {}
=============================================================================
