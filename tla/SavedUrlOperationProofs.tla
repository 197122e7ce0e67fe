---------------------- MODULE SavedUrlOperationProofs ----------------------
(* Proofs about SavedUrlOperation, for any number of runs, targets,         *)
(* deliveries, attempts, stalls and deaths of workers.                      *)
EXTENDS SavedUrlOperation, FiniteSetTheorems, TLAPS

(* Items are finitely many, so what summarizeRun counts is a number.        *)
LEMMA ItemsCounted ==
    \A r, statuses : /\ IsFiniteSet(ItemsIn(r, statuses))
                     /\ Cardinality(ItemsIn(r, statuses)) \in Nat
<1> SUFFICES ASSUME NEW r, NEW statuses
             PROVE  /\ IsFiniteSet(ItemsIn(r, statuses))
                    /\ Cardinality(ItemsIn(r, statuses)) \in Nat
  OBVIOUS
<1>1. ItemsIn(r, statuses) \in SUBSET Targets
  BY DEF ItemsIn
<1> QED
  BY <1>1, FS_Subset, FS_CardinalityType, OperationAssumption

(* An update of a function that keeps to its range, and a count.            *)
LEMMA UpdateTyped ==
    ASSUME NEW D, NEW S, NEW f \in [D -> S], NEW x, NEW v \in S
    PROVE  [f EXCEPT ![x] = v] \in [D -> S]
OBVIOUS

LEMMA CountTyped ==
    ASSUME NEW D, NEW f \in [D -> Nat], NEW x
    PROVE  [f EXCEPT ![x] = @ + 1] \in [D -> Nat]
<1>1. CASE x \in D
  <2>1. f[x] + 1 \in Nat
    BY <1>1
  <2> QED
    BY <2>1, UpdateTyped
<1>2. CASE x \notin D
  BY <1>2
<1> QED
  BY <1>1, <1>2

(* Every variable keeps its type.                                           *)
LEMMA NextTyped == TypeOK /\ [Next]_vars => TypeOK'
<1> SUFFICES ASSUME TypeOK, [Next]_vars PROVE TypeOK'
  OBVIOUS
<1> USE OperationAssumption
<1> USE DEF runVars, itemVars, jobVars, localVars
<1>1. CASE UNCHANGED vars
  BY <1>1 DEF vars, TypeOK, Pc, RunStatus, ItemStatus, JobState, Ended
<1>2. ASSUME NEW d \in Deliveries, WorkerStep(d) \/ Crash(d) PROVE TypeOK'
  <2>1. ASSUME NEW r \in Runs, TakeJob(d, r) PROVE TypeOK'
    BY <2>1 DEF TakeJob, NothingToDo, ItemsToVisit, Goto, ItemsIn, TypeOK,
       Pc, RunStatus, ItemStatus, JobState, Ended
  <2>2. CASE MarkRunning(d)
    <3>1. runStatus' \in [Runs -> RunStatus]
      BY <2>2 DEF MarkRunning, RunStatus, TypeOK
    <3>2. pc' \in [Deliveries -> Pc]
      BY <2>2 DEF MarkRunning, Goto, Pc, TypeOK
    <3> QED
      BY <2>2, <3>1, <3>2 DEF MarkRunning, TypeOK
  <2>3. CASE NextItem(d)
    BY <2>3 DEF NextItem, StopsLoop, Goto, TypeOK, Pc, RunStatus,
       ItemStatus, JobState, Ended
  <2>4. CASE BeginItem(d)
    <3>1. itemStatus' \in [Runs \X Targets -> ItemStatus]
      BY <2>4 DEF BeginItem, ItemStatus, TypeOK
    <3>2. lateStarts' \in [Runs -> Nat]
      BY <2>4 DEF BeginItem, TypeOK
    <3>3. pc' \in [Deliveries -> Pc]
      BY <2>4 DEF BeginItem, Goto, Pc, TypeOK
    <3>4. attempt' \in [Deliveries -> 1..MaxAttempts]
      BY <2>4 DEF BeginItem, TypeOK
    <3> QED
      BY <2>4, <3>1, <3>2, <3>3, <3>4 DEF BeginItem, TypeOK
  <2>5. CASE CountAttempt(d)
    <3>1. attempt[d] \in 0..MaxAttempts
      BY <2>5 DEF CountAttempt, TypeOK
    <3>2. attemptCount' \in [Runs \X Targets -> 0..MaxAttempts]
      BY <2>5, <3>1, UpdateTyped DEF CountAttempt, TypeOK
    <3>3. pc' \in [Deliveries -> Pc]
      BY <2>5 DEF CountAttempt, Goto, Pc, TypeOK
    <3> QED
      BY <2>5, <3>1, <3>2, <3>3 DEF CountAttempt, TypeOK
  <2>6. CASE Perform(d)
    <3>1. calls' \in [Runs \X Targets -> Nat]
      BY <2>6, CountTyped DEF Perform, TypeOK
    <3>2. pc' \in [Deliveries -> Pc]
      <4>1. Goto(d, "count") \/ Goto(d, "record")
        BY <2>6 DEF Perform
      <4> QED
        BY <4>1 DEF Goto, Pc, TypeOK
    <3>3. attempt' \in [Deliveries -> 1..MaxAttempts]
      BY <2>6 DEF Perform, AttemptsLeft, TypeOK
    <3>4. outcome' \in [Deliveries -> {"success", "failed"}]
      BY <2>6 DEF Perform, TypeOK
    <3> QED
      BY <2>6, <3>1, <3>2, <3>3, <3>4 DEF Perform, TypeOK
  <2>7. CASE RecordItem(d)
    <3>1. itemStatus' \in [Runs \X Targets -> ItemStatus]
      BY <2>7 DEF RecordItem, ItemStatus, Ended, TypeOK
    <3>2. pc' \in [Deliveries -> Pc]
      BY <2>7 DEF RecordItem, Goto, Pc, TypeOK
    <3> QED
      BY <2>7, <3>1, <3>2 DEF RecordItem, TypeOK
  <2>8. CASE TallyItems(d)
    BY <2>8, ItemsCounted DEF TallyItems, Goto, TypeOK, Pc, RunStatus,
       ItemStatus, JobState, Ended
  <2>9. CASE StoreTally(d)
    <3>1. runCompleted' \in [Runs -> Nat] /\ runFailed' \in [Runs -> Nat]
      BY <2>9, UpdateTyped DEF StoreTally, StoreCounts, TypeOK
    <3>2. pc' \in [Deliveries -> Pc]
      <4>1. Goto(d, "finish") \/ Goto(d, "next")
        BY <2>9 DEF StoreTally
      <4> QED
        BY <4>1 DEF Goto, Pc, TypeOK
    <3> QED
      BY <2>9, <3>1, <3>2 DEF StoreTally, TypeOK
  <2>10. CASE ReadLatest(d)
    BY <2>10 DEF ReadLatest, Goto, TypeOK, Pc, RunStatus, ItemStatus,
       JobState, Ended
  <2>11. CASE EndRun(d)
    <3>1. runStatus' \in [Runs -> RunStatus]
      BY <2>11, UpdateTyped DEF EndRun, FinalStatus, RunStatus, Ended,
         TypeOK
    <3>2. runCompleted' \in [Runs -> Nat] /\ runFailed' \in [Runs -> Nat]
      BY <2>11, UpdateTyped DEF EndRun, StoreCounts, TypeOK
    <3>3. pc' \in [Deliveries -> Pc]
      BY <2>11 DEF EndRun, Goto, Pc, TypeOK
    <3> QED
      BY <2>11, <3>1, <3>2, <3>3 DEF EndRun, TypeOK
  <2>12. CASE FinishJob(d)
    BY <2>12 DEF FinishJob, Goto, TypeOK, Pc, RunStatus, ItemStatus,
       JobState, Ended
  <2>13. CASE Crash(d)
    BY <2>13 DEF Crash, Goto, TypeOK, Pc, RunStatus, ItemStatus, JobState,
       Ended
  <2> QED
    BY <1>2, <2>1, <2>2, <2>3, <2>4, <2>5, <2>6, <2>7,
       <2>8, <2>9, <2>10, <2>11, <2>12, <2>13 DEF WorkerStep
<1>3. ASSUME NEW r \in Runs, StallJob(r) PROVE TypeOK'
  <2>1. jobState' \in [Runs -> JobState]
    BY <1>3, UpdateTyped DEF StallJob, JobState, TypeOK
  <2>2. jobStalls' \in [Runs -> 0..MaxStalledCount]
    <3>1. \/ jobStalls' = jobStalls
          \/ /\ jobStalls[r] < MaxStalledCount
             /\ jobStalls' = [jobStalls EXCEPT ![r] = jobStalls[r] + 1]
      BY <1>3 DEF StallJob
    <3>2. jobStalls[r] < MaxStalledCount =>
            jobStalls[r] + 1 \in 0..MaxStalledCount
      BY DEF TypeOK
    <3> QED
      BY <3>1, <3>2, UpdateTyped DEF TypeOK
  <2>3. jobOwner' \in [Runs -> Deliveries \cup {None}]
    BY <1>3 DEF StallJob, TypeOK
  <2> QED
    BY <1>3, <2>1, <2>2, <2>3 DEF StallJob, TypeOK
<1>4. ASSUME NEW r \in Runs, NEW T \in SUBSET Targets, InsertRun(r, T) PROVE TypeOK'
  BY <1>4 DEF InsertRun, TypeOK, Pc, RunStatus, ItemStatus, JobState, Ended
<1>5. ASSUME NEW r \in Runs,
             AddJob(r) \/ LoseJob(r) \/ CancelReads(r) \/ CancelCommits(r)
      PROVE  TypeOK'
  <2>1. CASE AddJob(r)
    BY <2>1 DEF AddJob, TypeOK, Pc, RunStatus, ItemStatus, JobState, Ended
  <2>2. CASE LoseJob(r)
    BY <2>2 DEF LoseJob, TypeOK, Pc, RunStatus, ItemStatus, JobState, Ended
  <2>3. CASE CancelReads(r)
    BY <2>3 DEF CancelReads, TypeOK, Pc, RunStatus, ItemStatus, JobState,
       Ended
  <2>4. CASE CancelCommits(r)
    <3>1. CASE RowGone(r)
      BY <2>4, <3>1 DEF CancelCommits, TypeOK
    <3>2. CASE ~RowGone(r)
      <4>1. runStatus' \in [Runs -> RunStatus]
        BY <2>4, <3>2, UpdateTyped DEF CancelCommits, RunStatus, TypeOK
      <4>2. ASSUME NEW i \in Runs \X Targets
            PROVE  (IF i[1] = r /\ itemStatus[i] = "queued"
                    THEN "canceled" ELSE itemStatus[i]) \in ItemStatus
        BY DEF Ended, ItemStatus, TypeOK
      <4>3. itemStatus' \in [Runs \X Targets -> ItemStatus]
        BY <2>4, <3>2, <4>2 DEF CancelCommits
      <4>4. lateStarts' \in [Runs -> Nat]
        BY <2>4, <3>2, UpdateTyped DEF CancelCommits, TypeOK
      <4>5. cancelling' \in [Runs -> BOOLEAN]
        BY <2>4, UpdateTyped DEF CancelCommits, TypeOK
      <4>6. UNCHANGED <<runCompleted, runFailed, attemptCount, calls, jobVars,
                        pc, localVars, crashes>>
        BY <2>4 DEF CancelCommits
      <4> QED
        BY <4>1, <4>3, <4>4, <4>5, <4>6 DEF jobVars, localVars, TypeOK
    <3> QED
      BY <3>1, <3>2
  <2> QED
    BY <1>5, <2>1, <2>2, <2>3, <2>4
<1>6. CASE ClearRuns
  BY <1>6 DEF ClearRuns, TypeOK, Pc, RunStatus, ItemStatus, JobState, Ended
<1>7. ASSUME Requests PROVE TypeOK'
  BY <1>4, <1>5, <1>6, <1>7 DEF Requests, CreateRun, RetryFailed, ItemsIn
<1> QED
  BY <1>1, <1>2, <1>3, <1>7 DEF Next

-----------------------------------------------------------------------------
(* Deliveries and the jobs they hold.                                       *)

(* DeliveryInv speaks of the jobs, of which deliveries are at work, and of  *)
(* which runs have been created.                                            *)
LEMMA DeliveryFrame ==
    ASSUME DeliveryInv, UNCHANGED <<run, jobState, jobOwner, jobStalls>>,
           \A r \in Runs : runStatus'[r] = "none" => runStatus[r] = "none",
           \A d \in Deliveries : /\ pc'[d] = "idle" <=> pc[d] = "idle"
                                 /\ Live(d)' => Live(d)
    PROVE  DeliveryInv'
BY DEF DeliveryInv, Alone

LEMMA NextDelivered ==
    TypeOK /\ DeliveryInv /\ [Next]_vars => DeliveryInv'
<1> SUFFICES ASSUME TypeOK, DeliveryInv, [Next]_vars PROVE DeliveryInv'
  OBVIOUS
<1> USE OperationAssumption
<1> USE DEF runVars, itemVars, jobVars, localVars
<1>1. CASE UNCHANGED vars
  BY <1>1, DeliveryFrame DEF vars, Live, TypeOK
<1>2. ASSUME NEW d \in Deliveries, WorkerStep(d) \/ Crash(d) PROVE DeliveryInv'
  <2>1. ASSUME NEW r \in Runs, TakeJob(d, r) PROVE DeliveryInv'
    BY <2>1 DEF TakeJob, Goto, DeliveryInv, Alone, Live, TypeOK
  <2>2. CASE MarkRunning(d)
    BY <2>2, DeliveryFrame DEF MarkRunning, RowGone, Goto, Live, TypeOK
  <2>3. CASE NextItem(d)
    BY <2>3, DeliveryFrame DEF NextItem, Goto, Live, TypeOK
  <2>4. CASE BeginItem(d)
    BY <2>4, DeliveryFrame DEF BeginItem, RowGone, Goto, Live, TypeOK
  <2>5. CASE CountAttempt(d)
    BY <2>5, DeliveryFrame DEF CountAttempt, RowGone, Goto, Live, TypeOK
  <2>6. CASE Perform(d)
    BY <2>6, DeliveryFrame DEF Perform, Goto, Live, TypeOK
  <2>7. CASE RecordItem(d)
    BY <2>7, DeliveryFrame DEF RecordItem, RowGone, Goto, Live, TypeOK
  <2>8. CASE TallyItems(d)
    BY <2>8, DeliveryFrame DEF TallyItems, Goto, Live, TypeOK
  <2>9. CASE StoreTally(d)
    BY <2>9, DeliveryFrame DEF StoreTally, RowGone, Goto, Live, TypeOK
  <2>10. CASE ReadLatest(d)
    BY <2>10, DeliveryFrame DEF ReadLatest, Goto, Live, TypeOK
  <2>11. CASE EndRun(d)
    BY <2>11, DeliveryFrame DEF EndRun, RowGone, FinalStatus, Goto, Live,
       TypeOK
  <2>12. CASE FinishJob(d)
    BY <2>12 DEF FinishJob, Goto, DeliveryInv, Alone, Live, TypeOK
  <2>13. CASE Crash(d)
    BY <2>13, DeliveryFrame DEF Crash, Goto, Live, TypeOK
  <2> QED
    BY <1>2, <2>1, <2>2, <2>3, <2>4, <2>5, <2>6, <2>7,
       <2>8, <2>9, <2>10, <2>11, <2>12, <2>13 DEF WorkerStep
<1>3. ASSUME NEW r \in Runs, StallJob(r) PROVE DeliveryInv'
  BY <1>3 DEF StallJob, DeliveryInv, Alone, Live, TypeOK
<1>4. ASSUME NEW r \in Runs, NEW T \in SUBSET Targets, InsertRun(r, T) PROVE DeliveryInv'
  BY <1>4 DEF InsertRun, DeliveryInv, Alone, Live, TypeOK
<1>5. ASSUME NEW r \in Runs,
             AddJob(r) \/ LoseJob(r) \/ CancelReads(r) \/ CancelCommits(r)
      PROVE  DeliveryInv'
  <2>1. CASE AddJob(r)
    BY <2>1 DEF AddJob, DeliveryInv, Alone, Live, TypeOK
  <2>2. CASE LoseJob(r)
    BY <2>2 DEF LoseJob, DeliveryInv, Alone, Live, TypeOK
  <2>3. CASE CancelReads(r)
    BY <2>3, DeliveryFrame DEF CancelReads, Live, TypeOK
  <2>4. CASE CancelCommits(r)
    BY <2>4, DeliveryFrame DEF CancelCommits, Live, TypeOK
  <2> QED
    BY <1>5, <2>1, <2>2, <2>3, <2>4
<1>6. CASE ClearRuns
  BY <1>6, DeliveryFrame DEF ClearRuns, Ended, Live, TypeOK
<1>7. ASSUME Requests PROVE DeliveryInv'
  BY <1>4, <1>5, <1>6, <1>7 DEF Requests, CreateRun, RetryFailed, ItemsIn
<1> QED
  BY <1>1, <1>2, <1>3, <1>7 DEF Next

-----------------------------------------------------------------------------
(* What a delivery that is alone with its run knows, and what is true of    *)
(* the rows of a run.                                                       *)

RunTrue(r) ==
    /\ \A t \in Targets :
        /\ runStatus[r] = "none" =>
             itemStatus[<<r, t>>] = "none" /\ calls[<<r, t>>] = 0
        /\ Alone(r) /\ ~RowGone(r) =>
             /\ calls[<<r, t>>] <= attemptCount[<<r, t>>]
             /\ itemStatus[<<r, t>>] \in {"queued", "canceled"} =>
                  calls[<<r, t>>] = 0
    /\ Alone(r) /\ runStatus[r] \in {"success", "failed"} =>
        /\ runCompleted[r] = Cardinality(ItemsIn(r, Ended))
        /\ runFailed[r] = Cardinality(ItemsIn(r, {"failed"}))
        /\ (runStatus[r] = "failed") = (runFailed[r] > 0)

Truth == WorkInv /\ \A r \in Runs : RunTrue(r)

LEMMA TruthMeans == Truth <=> WorkInv /\ ItemInv /\ OutcomeInv
BY DEF Truth, RunTrue, ItemInv, OutcomeInv

(* What a step leaves alone: rows of runs, locals of deliveries.            *)
SameRow(r) ==
    /\ runStatus'[r] = runStatus[r] /\ runCompleted'[r] = runCompleted[r]
    /\ runFailed'[r] = runFailed[r]
    /\ \A t \in Targets :
         /\ itemStatus'[<<r, t>>] = itemStatus[<<r, t>>]
         /\ attemptCount'[<<r, t>>] = attemptCount[<<r, t>>]
         /\ calls'[<<r, t>>] = calls[<<r, t>>]

SameLocals(d) ==
    /\ pc'[d] = pc[d] /\ run'[d] = run[d] /\ todo'[d] = todo[d]
    /\ item'[d] = item[d] /\ attempt'[d] = attempt[d]
    /\ tallyDone'[d] = tallyDone[d] /\ tallyFailed'[d] = tallyFailed[d]
    /\ sawCanceled'[d] = sawCanceled[d]

LEMMA SameItems ==
    ASSUME NEW r, SameRow(r)
    PROVE  \A statuses : ItemsIn(r, statuses)' = ItemsIn(r, statuses)
BY DEF ItemsIn, SameRow

LEMMA WorkFrame ==
    ASSUME TypeOK, NEW d \in Deliveries, NEW r, WorksAlone(d, r),
           SameRow(r), SameLocals(d)
    PROVE  WorksAlone(d, r)'
<1>1. /\ ItemsIn(r, {"queued"})' = ItemsIn(r, {"queued"})
      /\ ItemsIn(r, {"failed"})' = ItemsIn(r, {"failed"})
      /\ ItemsIn(r, Ended)' = ItemsIn(r, Ended)
  BY SameItems
<1>2. todo[d] \subseteq Targets
  BY DEF TypeOK
<1> QED
  BY <1>1, <1>2 DEF WorksAlone, Looping, SameRow, SameLocals

LEMMA RunFrame ==
    ASSUME NEW r, RunTrue(r), SameRow(r), Alone(r)' => Alone(r)
    PROVE  RunTrue(r)'
<1>1. /\ ItemsIn(r, {"failed"})' = ItemsIn(r, {"failed"})
      /\ ItemsIn(r, Ended)' = ItemsIn(r, Ended)
  BY SameItems
<1> QED
  BY <1>1 DEF RunTrue, SameRow, RowGone

(* It is enough to look at what a step changes.                             *)
LEMMA TruthFrame ==
    ASSUME TypeOK, Truth,
           \A r \in Runs : Alone(r)' => Alone(r),
           \A r \in Runs : RowGone(r) => RowGone(r)',
           \A r \in Runs : SameRow(r) \/ RunTrue(r)',
           \A d \in Deliveries, r \in Runs :
              run'[d] = r /\ Live(d)' /\ Alone(r)' /\ ~RowGone(r)' =>
                (SameLocals(d) /\ SameRow(r)) \/ WorksAlone(d, r)',
           \A d \in Deliveries : Live(d)' => run'[d] \in Runs
    PROVE  Truth'
<1>1. \A r \in Runs : RunTrue(r)'
  BY RunFrame DEF Truth
<1>2. ASSUME NEW d \in Deliveries, NEW r \in Runs, run'[d] = r, Live(d)',
             Alone(r)', ~RowGone(r)'
      PROVE  WorksAlone(d, r)'
  <2>1. CASE SameLocals(d) /\ SameRow(r)
    <3>1. run[d] = r /\ Live(d) /\ Alone(r) /\ ~RowGone(r)
      BY <1>2, <2>1 DEF SameLocals, Live
    <3>2. WorksAlone(d, r)
      BY <3>1 DEF Truth, WorkInv
    <3> QED
      BY <2>1, <3>2, WorkFrame
  <2> QED
    BY <1>2, <2>1
<1>3. WorkInv'
  BY <1>2 DEF WorkInv
<1> QED
  BY <1>1, <1>3 DEF Truth

(* A step of a delivery d changes its locals and the rows of its run r; no  *)
(* other delivery of r counts if r is to be worked on by one at a time.     *)
Works(d, r) ==
    /\ Live(d) /\ run[d] = r
    /\ UNCHANGED <<run, jobStalls>>
    /\ \A s \in Runs \ {r} : SameRow(s)
    /\ \A e \in Deliveries \ {d} : SameLocals(e)

LEMMA WorkStep ==
    ASSUME TypeOK, DeliveryInv, Truth, NEW d \in Deliveries, NEW r \in Runs,
           Works(d, r), RowGone(r) => RowGone(r)', RunTrue(r)',
           Alone(r) /\ ~RowGone(r)' /\ Live(d)' => WorksAlone(d, r)'
    PROVE  Truth'
<1>1. \A s \in Runs : Alone(s)' <=> Alone(s)
  BY DEF Works, Alone
<1>2. ASSUME NEW e \in Deliveries \ {d}, NEW s \in Runs, run'[e] = s,
             Live(e)', Alone(s)'
      PROVE  SameLocals(e) /\ SameRow(s)
  <2>1. Live(e) /\ run[e] = s /\ SameLocals(e)
    BY <1>2 DEF Works, SameLocals, Live
  <2>2. s # r
    BY <1>1, <1>2, <2>1 DEF DeliveryInv, Works
  <2> QED
    BY <2>1, <2>2 DEF Works
<1>3. \A s \in Runs : RowGone(s) => RowGone(s)'
  BY DEF Works, SameRow, RowGone
<1>4. \A e \in Deliveries : Live(e)' => run'[e] \in Runs
  BY DEF Works, SameLocals, Live, DeliveryInv, TypeOK
<1> QED
  BY <1>1, <1>2, <1>3, <1>4, TruthFrame DEF Works

(* A delivery at work on a run.                                             *)
LEMMA AtWork ==
    ASSUME TypeOK, DeliveryInv, Truth, NEW d \in Deliveries, Live(d)
    PROVE  /\ run[d] \in Runs /\ runStatus[run[d]] # "none"
           /\ Alone(run[d]) /\ ~RowGone(run[d]) => WorksAlone(d, run[d])
BY DEF TypeOK, DeliveryInv, Truth, WorkInv, Live

LEMMA MarkTruth ==
    ASSUME TypeOK, DeliveryInv, Truth, NEW d \in Deliveries, MarkRunning(d)
    PROVE  Truth'
<1> USE DEF runVars, itemVars, jobVars, localVars
<1> PICK r \in Runs : run[d] = r
  BY AtWork DEF MarkRunning, Live
<1>1. runStatus[r] # "none" /\ RunTrue(r)
  BY AtWork DEF MarkRunning, Live, Truth
<1>2. Works(d, r)
  BY DEF MarkRunning, Goto, Works, SameRow, SameLocals, Live, TypeOK
<1>3. RowGone(r) => RowGone(r)'
  BY DEF MarkRunning, RowGone
<1>4. RunTrue(r)'
  <2>1. CASE RowGone(r)
    BY <1>1, <2>1, RunFrame DEF MarkRunning, SameRow, Alone
  <2>2. CASE ~RowGone(r)
    BY <1>1, <2>2 DEF MarkRunning, RunTrue, RowGone, Alone, TypeOK
  <2> QED
    BY <2>1, <2>2
<1>5. ASSUME Alone(r), ~RowGone(r)', Live(d)' PROVE WorksAlone(d, r)'
  <2>1. WorksAlone(d, r) /\ ~RowGone(r)
    BY <1>3, <1>5, AtWork DEF MarkRunning, Live
  <2>2. /\ pc[d] = "mark" /\ pc'[d] = "next" /\ runStatus'[r] = "running"
        /\ UNCHANGED <<itemStatus, todo>>
    BY <2>1 DEF MarkRunning, Goto, TypeOK
  <2> QED
    BY <2>1, <2>2 DEF WorksAlone, Looping, ItemsIn
<1> QED
  BY <1>2, <1>3, <1>4, <1>5, WorkStep

LEMMA NextTruth ==
    ASSUME TypeOK, DeliveryInv, Truth, NEW d \in Deliveries, NextItem(d)
    PROVE  Truth'
<1> USE DEF runVars, itemVars, jobVars, localVars
<1> PICK r \in Runs : run[d] = r
  BY AtWork DEF NextItem, Live
<1>1. SameRow(r) /\ RunTrue(r)
  BY DEF NextItem, SameRow, Truth
<1>2. Works(d, r)
  BY DEF NextItem, Goto, Works, SameRow, SameLocals, Live, TypeOK
<1>3. RunTrue(r)'
  BY <1>1, RunFrame DEF NextItem, Alone
<1>4. ASSUME Alone(r), ~RowGone(r)' PROVE WorksAlone(d, r)'
  <2>1. WorksAlone(d, r) /\ pc[d] = "next"
    BY <1>4, AtWork DEF NextItem, RowGone, Live
  <2>2. UNCHANGED <<runStatus, itemStatus>>
    BY DEF NextItem
  <2>3. CASE StopsLoop(d)
    <3>1. pc'[d] = "latest"
      BY <2>3 DEF NextItem, Goto, TypeOK
    <3>2. runStatus[r] = "canceled" \/ ItemsIn(r, {"queued"}) = {}
      BY <2>1, <2>3 DEF StopsLoop, WorksAlone, Looping
    <3> QED
      BY <2>1, <2>2, <3>1, <3>2 DEF WorksAlone, Looping, ItemsIn
  <2>4. CASE ~StopsLoop(d)
    <3>1. PICK t \in todo[d] : /\ item' = [item EXCEPT ![d] = t]
                              /\ todo' = [todo EXCEPT ![d] = @ \ {t}]
                              /\ Goto(d, "begin")
      BY <2>4 DEF NextItem
    <3>2. /\ pc'[d] = "begin" /\ item'[d] = t /\ todo'[d] = todo[d] \ {t}
          /\ t \in Targets
      BY <3>1 DEF Goto, TypeOK
    <3> QED
      BY <2>1, <2>2, <3>2 DEF WorksAlone, Looping, ItemsIn
  <2> QED
    BY <2>3, <2>4
<1> QED
  BY <1>1, <1>2, <1>3, <1>4, WorkStep DEF SameRow, RowGone

LEMMA BeginTruth ==
    ASSUME TypeOK, DeliveryInv, Truth, NEW d \in Deliveries, BeginItem(d)
    PROVE  Truth'
<1> USE DEF runVars, itemVars, jobVars, localVars
<1> PICK r \in Runs : run[d] = r
  BY AtWork DEF BeginItem, Live
<1>1. runStatus[r] # "none" /\ RunTrue(r)
  BY AtWork DEF BeginItem, Live, Truth
<1>2. Works(d, r)
  BY DEF BeginItem, Goto, Works, SameRow, SameLocals, Live, TypeOK
<1>3. RowGone(r)' = RowGone(r)
  BY DEF BeginItem, RowGone
<1>4. ASSUME Alone(r), ~RowGone(r)
      PROVE  /\ WorksAlone(d, r) /\ pc[d] = "begin"
             /\ itemStatus' = [itemStatus EXCEPT ![<<r, item[d]>>] = "running"]
             /\ item[d] \in Targets \ todo[d]
             /\ calls[<<r, item[d]>>] = 0
             /\ runStatus[r] \notin {"success", "failed"}
  <2>1. WorksAlone(d, r) /\ pc[d] = "begin"
    BY <1>4, AtWork DEF BeginItem, Live
  <2>2. item[d] \in Targets /\ itemStatus[<<r, item[d]>>] \in {"queued", "canceled"}
    BY <2>1 DEF WorksAlone
  <2> QED
    BY <1>1, <1>4, <2>1, <2>2 DEF BeginItem, WorksAlone, RunTrue
<1>5. RunTrue(r)'
  <2>1. CASE RowGone(r)
    BY <1>1, <2>1, RunFrame DEF BeginItem, SameRow, Alone
  <2>2. CASE ~RowGone(r) /\ Alone(r)
    BY <1>1, <1>4, <2>2 DEF BeginItem, RunTrue, RowGone, Alone, TypeOK
  <2>3. CASE ~RowGone(r) /\ ~Alone(r)
    BY <1>1, <2>3 DEF BeginItem, RunTrue, RowGone, Alone
  <2> QED
    BY <2>1, <2>2, <2>3
<1>6. ASSUME Alone(r), ~RowGone(r)' PROVE WorksAlone(d, r)'
  <2>1. /\ WorksAlone(d, r) /\ pc[d] = "begin"
        /\ itemStatus' = [itemStatus EXCEPT ![<<r, item[d]>>] = "running"]
        /\ item[d] \in Targets \ todo[d]
        /\ calls[<<r, item[d]>>] = 0
        /\ runStatus[r] \notin {"success", "failed"}
    BY <1>3, <1>4, <1>6
  <2>2. /\ pc'[d] = "count" /\ attempt'[d] = 1
        /\ UNCHANGED <<runStatus, calls, todo, item>>
    BY <1>3, <1>6 DEF BeginItem, Goto, TypeOK
  <2>3. /\ itemStatus'[<<r, item[d]>>] = "running"
        /\ \A t \in Targets \ {item[d]} :
             itemStatus'[<<r, t>>] = itemStatus[<<r, t>>]
    BY <2>1 DEF TypeOK
  <2>4. todo[d] \subseteq Targets
    BY DEF TypeOK
  <2> QED
    BY <2>1, <2>2, <2>3, <2>4 DEF WorksAlone, Looping, ItemsIn
<1> QED
  BY <1>2, <1>3, <1>5, <1>6, WorkStep

LEMMA CountTruth ==
    ASSUME TypeOK, DeliveryInv, Truth, NEW d \in Deliveries, CountAttempt(d)
    PROVE  Truth'
<1> USE DEF runVars, itemVars, jobVars, localVars
<1> PICK r \in Runs : run[d] = r
  BY AtWork DEF CountAttempt, Live
<1>1. runStatus[r] # "none" /\ RunTrue(r)
  BY AtWork DEF CountAttempt, Live, Truth
<1>2. Works(d, r)
  BY DEF CountAttempt, Goto, Works, SameRow, SameLocals, Live, TypeOK
<1>3. RowGone(r)' = RowGone(r)
  BY DEF CountAttempt, RowGone
<1>4. ASSUME Alone(r), ~RowGone(r)
      PROVE  /\ WorksAlone(d, r) /\ pc[d] = "count" /\ item[d] \in Targets
             /\ attemptCount' =
                  [attemptCount EXCEPT ![<<r, item[d]>>] = attempt[d]]
             /\ calls[<<r, item[d]>>] + 1 = attempt[d]
             /\ calls[<<r, item[d]>>] \in Nat
             /\ runStatus[r] \notin {"success", "failed"}
  <2>1. WorksAlone(d, r) /\ pc[d] = "count"
    BY <1>4, AtWork DEF CountAttempt, Live
  <2> QED
    BY <1>4, <2>1 DEF CountAttempt, WorksAlone, TypeOK
<1>5. RunTrue(r)'
  <2>1. CASE RowGone(r)
    BY <1>1, <2>1, RunFrame DEF CountAttempt, SameRow, Alone
  <2>2. CASE ~RowGone(r) /\ Alone(r)
    <3>1. /\ UNCHANGED <<runStatus, itemStatus, calls, jobStalls>>
          /\ calls[<<r, item[d]>>] <= attemptCount'[<<r, item[d]>>]
          /\ \A t \in Targets \ {item[d]} :
               attemptCount'[<<r, t>>] = attemptCount[<<r, t>>]
      BY <1>4, <2>2 DEF CountAttempt, TypeOK
    <3> QED
      BY <1>1, <1>4, <2>2, <3>1 DEF RunTrue, RowGone, Alone
  <2>3. CASE ~RowGone(r) /\ ~Alone(r)
    BY <1>1, <2>3 DEF CountAttempt, RunTrue, RowGone, Alone
  <2> QED
    BY <2>1, <2>2, <2>3
<1>6. ASSUME Alone(r), ~RowGone(r)' PROVE WorksAlone(d, r)'
  <2>1. /\ WorksAlone(d, r) /\ pc[d] = "count" /\ item[d] \in Targets
        /\ attemptCount' =
             [attemptCount EXCEPT ![<<r, item[d]>>] = attempt[d]]
    BY <1>3, <1>4, <1>6
  <2>2. /\ pc'[d] = "perform" /\ attemptCount'[<<r, item[d]>>] = attempt[d]
        /\ UNCHANGED <<runStatus, itemStatus, calls, todo, item, attempt>>
    BY <1>3, <1>6, <2>1 DEF CountAttempt, Goto, TypeOK
  <2> QED
    BY <2>1, <2>2 DEF WorksAlone, Looping, ItemsIn
<1> QED
  BY <1>2, <1>3, <1>5, <1>6, WorkStep

LEMMA PerformTruth ==
    ASSUME TypeOK, DeliveryInv, Truth, NEW d \in Deliveries, Perform(d)
    PROVE  Truth'
<1> USE DEF runVars, itemVars, jobVars, localVars
<1> PICK r \in Runs : run[d] = r
  BY AtWork DEF Perform, Live
<1>1. runStatus[r] # "none" /\ RunTrue(r)
  BY AtWork DEF Perform, Live, Truth
<1>2. Works(d, r)
  BY DEF Perform, Goto, Works, SameRow, SameLocals, Live, TypeOK
<1>3. RowGone(r)' = RowGone(r)
  BY DEF Perform, RowGone
<1>4. ASSUME Alone(r), ~RowGone(r)
      PROVE  /\ WorksAlone(d, r) /\ pc[d] = "perform"
             /\ item[d] \in Targets \ todo[d]
             /\ itemStatus[<<r, item[d]>>] = "running"
             /\ calls[<<r, item[d]>>] + 1 = attempt[d]
             /\ attemptCount[<<r, item[d]>>] = attempt[d]
             /\ attempt[d] \in Nat
             /\ runStatus[r] \notin {"success", "failed"}
             /\ calls'[<<r, item[d]>>] = attempt[d]
             /\ \A t \in Targets \ {item[d]} :
                  calls'[<<r, t>>] = calls[<<r, t>>]
  <2>1. WorksAlone(d, r) /\ pc[d] = "perform"
    BY <1>4, AtWork DEF Perform, Live
  <2>2. calls' = [calls EXCEPT ![<<r, item[d]>>] = @ + 1]
    BY DEF Perform
  <2> QED
    BY <2>1, <2>2 DEF WorksAlone, TypeOK
<1>5. RunTrue(r)'
  <2>1. UNCHANGED <<runStatus, itemStatus, attemptCount, jobStalls>>
    BY DEF Perform
  <2>2. CASE ~RowGone(r) /\ Alone(r)
    BY <1>1, <1>4, <2>1, <2>2 DEF RunTrue, RowGone, Alone
  <2>3. CASE RowGone(r) /\ Alone(r)
    BY <1>1, <2>1, <2>3 DEF RunTrue, RowGone, Alone
  <2>4. CASE ~Alone(r)
    BY <1>1, <2>1, <2>4 DEF RunTrue, Alone
  <2> QED
    BY <2>2, <2>3, <2>4
<1>6. ASSUME Alone(r), ~RowGone(r)' PROVE WorksAlone(d, r)'
  <2>1. /\ WorksAlone(d, r) /\ pc[d] = "perform"
        /\ item[d] \in Targets \ todo[d]
        /\ itemStatus[<<r, item[d]>>] = "running"
        /\ calls'[<<r, item[d]>>] = attempt[d]
    BY <1>3, <1>4, <1>6
  <2>2. UNCHANGED <<runStatus, itemStatus, todo, item>>
    BY DEF Perform
  <2>3. \/ pc'[d] = "count" /\ attempt'[d] = attempt[d] + 1
        \/ pc'[d] = "record"
    BY DEF Perform, Goto, TypeOK
  <2> QED
    BY <2>1, <2>2, <2>3 DEF WorksAlone, Looping, ItemsIn
<1> QED
  BY <1>2, <1>3, <1>5, <1>6, WorkStep

LEMMA RecordTruth ==
    ASSUME TypeOK, DeliveryInv, Truth, NEW d \in Deliveries, RecordItem(d)
    PROVE  Truth'
<1> USE DEF runVars, itemVars, jobVars, localVars
<1> PICK r \in Runs : run[d] = r
  BY AtWork DEF RecordItem, Live
<1>1. runStatus[r] # "none" /\ RunTrue(r)
  BY AtWork DEF RecordItem, Live, Truth
<1>2. Works(d, r)
  BY DEF RecordItem, Goto, Works, SameRow, SameLocals, Live, TypeOK
<1>3. RowGone(r)' = RowGone(r)
  BY DEF RecordItem, RowGone
<1>4. ASSUME Alone(r), ~RowGone(r)
      PROVE  /\ WorksAlone(d, r) /\ pc[d] = "record" /\ pc'[d] = "tally"
             /\ item[d] \in Targets \ todo[d]
             /\ runStatus[r] \notin {"success", "failed"}
             /\ itemStatus'[<<r, item[d]>>] \in {"success", "failed"}
             /\ \A t \in Targets \ {item[d]} :
                  itemStatus'[<<r, t>>] = itemStatus[<<r, t>>]
  <2>1. WorksAlone(d, r) /\ pc[d] = "record"
    BY <1>4, AtWork DEF RecordItem, Live
  <2>2. pc'[d] = "tally"
    BY <1>4 DEF RecordItem, Goto, TypeOK
  <2>3. itemStatus' = [itemStatus EXCEPT ![<<r, item[d]>>] = outcome[d]]
    BY <1>4 DEF RecordItem
  <2>4. outcome[d] \in {"success", "failed"}
    BY DEF TypeOK
  <2> QED
    BY <2>1, <2>2, <2>3, <2>4 DEF WorksAlone, TypeOK
<1>5. UNCHANGED <<runStatus, calls, attemptCount, jobStalls>>
  BY DEF RecordItem
<1>6. RunTrue(r)'
  <2>1. CASE RowGone(r)
    BY <1>1, <2>1, RunFrame DEF RecordItem, SameRow, Alone
  <2>2. CASE ~RowGone(r) /\ Alone(r)
    BY <1>1, <1>4, <1>5, <2>2 DEF RunTrue, RowGone, Alone
  <2>3. CASE ~RowGone(r) /\ ~Alone(r)
    BY <1>1, <1>5, <2>3 DEF RunTrue, RowGone, Alone
  <2> QED
    BY <2>1, <2>2, <2>3
<1>7. ASSUME Alone(r), ~RowGone(r)' PROVE WorksAlone(d, r)'
  <2>1. UNCHANGED <<runStatus, todo, item>>
    BY DEF RecordItem
  <2>2. todo[d] \subseteq Targets
    BY DEF TypeOK
  <2> QED
    BY <1>3, <1>4, <1>7, <2>1, <2>2 DEF WorksAlone, Looping, ItemsIn
<1> QED
  BY <1>2, <1>3, <1>6, <1>7, WorkStep

(* A step that changes no row of any run.                                   *)
LEMMA QuietStep ==
    ASSUME TypeOK, DeliveryInv, Truth, NEW d \in Deliveries, NEW r \in Runs,
           Works(d, r), SameRow(r),
           Alone(r) /\ ~RowGone(r) /\ Live(d)' => WorksAlone(d, r)'
    PROVE  Truth'
<1>1. RunTrue(r)'
  BY RunFrame DEF Truth, Works, Alone
<1> QED
  BY <1>1, WorkStep DEF SameRow, RowGone

LEMMA TallyTruth ==
    ASSUME TypeOK, DeliveryInv, Truth, NEW d \in Deliveries, TallyItems(d)
    PROVE  Truth'
<1> USE DEF runVars, itemVars, jobVars, localVars
<1> PICK r \in Runs : run[d] = r
  BY AtWork DEF TallyItems, Live
<1>1. Works(d, r) /\ SameRow(r)
  BY DEF TallyItems, Goto, Works, SameRow, SameLocals, Live, TypeOK
<1>2. ASSUME Alone(r), ~RowGone(r) PROVE WorksAlone(d, r)'
  <2>1. WorksAlone(d, r)
    BY <1>2, AtWork DEF TallyItems, Live
  <2>2. /\ ItemsIn(r, {"queued"})' = ItemsIn(r, {"queued"})
        /\ ItemsIn(r, {"failed"})' = ItemsIn(r, {"failed"})
        /\ ItemsIn(r, Ended)' = ItemsIn(r, Ended)
    BY <1>1, SameItems
  <2>3. /\ tallyDone'[d] = Cardinality(ItemsIn(r, Ended))
        /\ tallyFailed'[d] = Cardinality(ItemsIn(r, {"failed"}))
    BY DEF TallyItems, CompletedStatuses, TypeOK
  <2>4. \/ pc[d] = "tally" /\ pc'[d] = "store"
        \/ pc[d] = "finalTally" /\ pc'[d] = "end"
    BY DEF TallyItems, Goto, TypeOK
  <2>5. UNCHANGED <<runStatus, itemStatus, calls, attemptCount, todo, item,
                    attempt, sawCanceled>>
    BY DEF TallyItems
  <2> QED
    BY <2>1, <2>2, <2>3, <2>4, <2>5 DEF WorksAlone, Looping
<1> QED
  BY <1>1, <1>2, QuietStep

LEMMA StoreTruth ==
    ASSUME TypeOK, DeliveryInv, Truth, NEW d \in Deliveries, StoreTally(d)
    PROVE  Truth'
<1> USE DEF runVars, itemVars, jobVars, localVars
<1> PICK r \in Runs : run[d] = r
  BY AtWork DEF StoreTally, Live
<1>1. Works(d, r)
  BY DEF StoreTally, StoreCounts, Goto, Works, SameRow, SameLocals, Live, TypeOK
<1>2. UNCHANGED <<runStatus, itemStatus, calls, attemptCount, todo, item,
                  jobStalls>>
  BY DEF StoreTally
<1>3. ASSUME Alone(r), ~RowGone(r)
      PROVE  WorksAlone(d, r) /\ pc[d] = "store" /\ pc'[d] = "next"
  BY <1>3, AtWork DEF StoreTally, Live, Goto, TypeOK
<1>4. RunTrue(r)'
  <2>1. RunTrue(r)
    BY DEF Truth
  <2>2. CASE RowGone(r)
    BY <1>2, <2>1, <2>2 DEF RunTrue, RowGone, Alone
  <2>3. CASE ~RowGone(r) /\ Alone(r)
    <3>1. runStatus[r] \notin {"success", "failed"}
      BY <1>3, <2>3 DEF WorksAlone
    <3> QED
      BY <1>2, <2>1, <2>3, <3>1 DEF RunTrue, RowGone, Alone
  <2>4. CASE ~Alone(r)
    BY <1>2, <2>1, <2>4 DEF RunTrue, RowGone, Alone
  <2> QED
    BY <2>2, <2>3, <2>4
<1>5. ASSUME Alone(r), ~RowGone(r)' PROVE WorksAlone(d, r)'
  BY <1>2, <1>3, <1>5 DEF WorksAlone, Looping, ItemsIn, RowGone
<1> QED
  BY <1>1, <1>2, <1>4, <1>5, WorkStep DEF RowGone

LEMMA LatestTruth ==
    ASSUME TypeOK, DeliveryInv, Truth, NEW d \in Deliveries, ReadLatest(d)
    PROVE  Truth'
<1> USE DEF runVars, itemVars, jobVars, localVars
<1> PICK r \in Runs : run[d] = r
  BY AtWork DEF ReadLatest, Live
<1>1. Works(d, r) /\ SameRow(r)
  BY DEF ReadLatest, Goto, Works, SameRow, SameLocals, Live, TypeOK
<1>2. ASSUME Alone(r), ~RowGone(r) PROVE WorksAlone(d, r)'
  <2>1. WorksAlone(d, r)
    BY <1>2, AtWork DEF ReadLatest, Live
  <2>2. /\ pc[d] = "latest" /\ pc'[d] = "finalTally"
        /\ sawCanceled'[d] <=> runStatus[r] = "canceled"
        /\ UNCHANGED <<runStatus, itemStatus>>
    BY DEF ReadLatest, Goto, TypeOK
  <2> QED
    BY <2>1, <2>2 DEF WorksAlone, Looping, ItemsIn
<1> QED
  BY <1>1, <1>2, QuietStep

LEMMA EndTruth ==
    ASSUME TypeOK, DeliveryInv, Truth, NEW d \in Deliveries, EndRun(d)
    PROVE  Truth'
<1> USE DEF runVars, itemVars, jobVars, localVars
<1> PICK r \in Runs : run[d] = r
  BY AtWork DEF EndRun, Live
<1>1. runStatus[r] # "none" /\ RunTrue(r)
  BY AtWork DEF EndRun, Live, Truth
<1>2. Works(d, r)
  BY DEF EndRun, StoreCounts, Goto, Works, SameRow, SameLocals, Live, TypeOK
<1>3. UNCHANGED <<itemStatus, calls, attemptCount, jobStalls>>
  BY DEF EndRun
<1>4. pc[d] = "end" /\ pc'[d] = "finish"
  BY DEF EndRun, Goto, TypeOK
<1>5. /\ ItemsIn(r, {"failed"})' = ItemsIn(r, {"failed"})
      /\ ItemsIn(r, Ended)' = ItemsIn(r, Ended)
  BY <1>3 DEF ItemsIn
<1>6. CASE RowGone(r)
  <2>1. SameRow(r)
    BY <1>6 DEF EndRun, SameRow
  <2> QED
    BY <1>2, <1>6, <2>1, QuietStep
<1>7. CASE ~RowGone(r)
  <2>1. /\ runCompleted'[r] = tallyDone[d] /\ runFailed'[r] = tallyFailed[d]
        /\ tallyFailed[d] \in Nat
        /\ runStatus'[r] = IF sawCanceled[d] THEN runStatus[r]
                           ELSE FinalStatus(tallyFailed[d])
    BY <1>7 DEF EndRun, StoreCounts, TypeOK
  <2>2. ~RowGone(r)' /\ runStatus'[r] # "none"
    BY <1>1, <1>7, <2>1 DEF RowGone, FinalStatus
  <2>3. ASSUME Alone(r)
        PROVE  /\ runStatus[r] \notin {"success", "failed"}
               /\ ~sawCanceled[d] =>
                    /\ tallyDone[d] = Cardinality(ItemsIn(r, Ended))
                    /\ tallyFailed[d] = Cardinality(ItemsIn(r, {"failed"}))
    <3>1. WorksAlone(d, r)
      BY <1>4, <1>7, <2>3, AtWork DEF Live
    <3> QED
      BY <1>4, <3>1 DEF WorksAlone
  <2>4. RunTrue(r)'
    <3>1. CASE Alone(r)
      BY <1>1, <1>3, <1>5, <1>7, <2>1, <2>2, <2>3, <3>1
         DEF RunTrue, RowGone, Alone, FinalStatus
    <3>2. CASE ~Alone(r)
      BY <1>1, <1>3, <2>2, <3>2 DEF RunTrue, Alone
    <3> QED
      BY <3>1, <3>2
  <2>5. WorksAlone(d, r)'
    BY <1>4 DEF WorksAlone, Looping
  <2> QED
    BY <1>2, <1>7, <2>2, <2>4, <2>5, WorkStep
<1> QED
  BY <1>6, <1>7

LEMMA LeaveTruth ==
    ASSUME TypeOK, DeliveryInv, Truth, NEW d \in Deliveries,
           FinishJob(d) \/ Crash(d)
    PROVE  Truth'
<1> USE DEF runVars, itemVars, jobVars, localVars
<1> PICK r \in Runs : run[d] = r
  BY AtWork DEF FinishJob, Crash, Live
<1>1. Works(d, r) /\ SameRow(r) /\ ~Live(d)'
  BY DEF FinishJob, Crash, Goto, Works, SameRow, SameLocals, Live, TypeOK
<1> QED
  BY <1>1, QuietStep

(* A job that is waiting is held by no delivery that counts.                *)
LEMMA TakeTruth ==
    ASSUME TypeOK, DeliveryInv, Truth, NEW d \in Deliveries, NEW r \in Runs,
           TakeJob(d, r)
    PROVE  Truth'
<1> USE DEF runVars, itemVars, jobVars, localVars
<1>1. \A s \in Runs : SameRow(s) /\ (Alone(s)' <=> Alone(s))
  BY DEF TakeJob, SameRow, Alone
<1>2. /\ \A e \in Deliveries \ {d} : SameLocals(e)
      /\ run'[d] = r /\ todo'[d] = ItemsToVisit(r)
      /\ pc'[d] = IF NothingToDo(runStatus[r]) THEN "finish" ELSE "mark"
  BY DEF TakeJob, Goto, SameLocals, TypeOK, ItemsToVisit, ItemsIn
<1>3. WorksAlone(d, r)'
  <2>1. UNCHANGED <<runStatus, itemStatus>>
    BY DEF TakeJob
  <2> QED
    BY <1>2, <2>1 DEF WorksAlone, Looping, NothingToDo, ItemsToVisit, ItemsIn
<1>4. \A e \in Deliveries : Live(e)' => run'[e] \in Runs
  BY <1>2 DEF SameLocals, Live, DeliveryInv, TypeOK
<1>5. \A s \in Runs : RowGone(s) => RowGone(s)'
  BY <1>1 DEF SameRow, RowGone
<1> QED
  BY <1>1, <1>2, <1>3, <1>4, <1>5, TruthFrame

(* A step that changes neither rows nor deliveries.                         *)
LEMMA OutsideStep ==
    ASSUME TypeOK, DeliveryInv, Truth, \A r \in Runs : Alone(r)' => Alone(r),
           \A r \in Runs : SameRow(r), \A d \in Deliveries : SameLocals(d)
    PROVE  Truth'
<1>1. \A d \in Deliveries : Live(d)' => run'[d] \in Runs
  BY DEF SameLocals, Live, DeliveryInv, TypeOK
<1>2. \A r \in Runs : RowGone(r) => RowGone(r)'
  BY DEF SameRow, RowGone
<1> QED
  BY <1>1, <1>2, TruthFrame

LEMMA QueueTruth ==
    ASSUME TypeOK, DeliveryInv, Truth, NEW r \in Runs,
           StallJob(r) \/ AddJob(r) \/ LoseJob(r) \/ CancelReads(r)
    PROVE  Truth'
<1> USE DEF runVars, itemVars, jobVars, localVars
<1>1. /\ \A s \in Runs : SameRow(s)
      /\ \A d \in Deliveries : SameLocals(d)
  BY DEF StallJob, AddJob, LoseJob, CancelReads, SameRow, SameLocals
<1>2. \A s \in Runs : Alone(s)' => Alone(s)
  BY OperationAssumption
     DEF StallJob, AddJob, LoseJob, CancelReads, Alone, TypeOK
<1> QED
  BY <1>1, <1>2, OutsideStep

(* The run is new: nothing works on it, and its items are untouched.        *)
LEMMA InsertTruth ==
    ASSUME TypeOK, DeliveryInv, Truth, NEW r \in Runs,
           NEW T \in SUBSET Targets, InsertRun(r, T)
    PROVE  Truth'
<1> USE DEF runVars, itemVars, jobVars, localVars
<1>1. /\ \A s \in Runs \ {r} : SameRow(s)
      /\ \A d \in Deliveries : SameLocals(d)
      /\ \A s \in Runs : Alone(s)' <=> Alone(s)
  BY DEF InsertRun, SameRow, SameLocals, Alone, TypeOK
<1>2. RunTrue(r)'
  <2>1. RunTrue(r) /\ runStatus[r] = "none" /\ runStatus'[r] = "queued"
    BY DEF Truth, InsertRun, TypeOK
  <2>2. \A t \in Targets : calls'[<<r, t>>] = 0 /\ attemptCount'[<<r, t>>] \in Nat
    BY <2>1, OperationAssumption DEF RunTrue, InsertRun, TypeOK
  <2> QED
    BY <2>1, <2>2 DEF RunTrue
<1>3. \A d \in Deliveries : run'[d] # r
  BY DEF InsertRun, DeliveryInv
<1>4. \A d \in Deliveries : Live(d)' => run'[d] \in Runs
  BY DEF InsertRun, Live, DeliveryInv, TypeOK
<1>5. \A s \in Runs : RowGone(s) => RowGone(s)'
  BY <1>1 DEF InsertRun, SameRow, RowGone
<1> QED
  BY <1>1, <1>2, <1>3, <1>4, <1>5, TruthFrame

(* Items that wait are canceled; none of them has been started.             *)
LEMMA CancelTruth ==
    ASSUME TypeOK, DeliveryInv, Truth, NEW r \in Runs, CancelCommits(r)
    PROVE  Truth'
<1> USE DEF runVars, itemVars, jobVars, localVars
<1>1. /\ \A d \in Deliveries : SameLocals(d)
      /\ \A s \in Runs : Alone(s)' <=> Alone(s)
  BY DEF CancelCommits, SameLocals, Alone
<1>2. CASE RowGone(r)
  BY <1>1, <1>2, OutsideStep DEF CancelCommits, SameRow
<1>3. CASE ~RowGone(r)
  <2>1. /\ \A s \in Runs \ {r} : SameRow(s)
        /\ runStatus'[r] = "canceled"
        /\ \A t \in Targets : itemStatus'[<<r, t>>] =
              IF itemStatus[<<r, t>>] = "queued" THEN "canceled"
              ELSE itemStatus[<<r, t>>]
        /\ UNCHANGED <<calls, attemptCount>>
    BY <1>3 DEF CancelCommits, SameRow, TypeOK
  <2>2. RunTrue(r)'
    BY <1>1, <1>3, <2>1 DEF Truth, RunTrue, RowGone
  <2>3. ASSUME NEW d \in Deliveries, run'[d] = r, Live(d)', Alone(r)'
        PROVE  WorksAlone(d, r)'
    <3>1. WorksAlone(d, r)
      BY <1>1, <1>3, <2>3 DEF Truth, WorkInv, SameLocals, Live
    <3>2. ItemsIn(r, {"queued"})' = {}
      BY <2>1 DEF ItemsIn
    <3>3. todo[d] \subseteq Targets
      BY DEF TypeOK
    <3>4. pc[d] = "end" => pc'[d] = "end" /\ sawCanceled'[d] = sawCanceled[d]
      BY <1>1 DEF SameLocals
    <3>5. ASSUME pc[d] = "end", ~sawCanceled[d]
          PROVE  /\ tallyDone'[d] = Cardinality(ItemsIn(r, Ended)')
                 /\ tallyFailed'[d] = Cardinality(ItemsIn(r, {"failed"})')
      <4>1. ItemsIn(r, {"queued"}) = {}
        BY <3>1, <3>5 DEF WorksAlone
      <4>2. /\ ItemsIn(r, Ended)' = ItemsIn(r, Ended)
            /\ ItemsIn(r, {"failed"})' = ItemsIn(r, {"failed"})
        BY <2>1, <4>1 DEF ItemsIn
      <4> QED
        BY <1>1, <3>1, <3>5, <4>2 DEF WorksAlone, SameLocals
    <3>6. SameLocals(d)
      BY <1>1
    <3> QED
      BY <2>1, <3>1, <3>2, <3>3, <3>5, <3>6 DEF WorksAlone, Looping, SameLocals
  <2>4. \A d \in Deliveries : Live(d)' => run'[d] \in Runs
    BY <1>1 DEF SameLocals, Live, DeliveryInv, TypeOK
  <2>5. \A s \in Runs : RowGone(s) => RowGone(s)'
    BY <1>3, <2>1 DEF SameRow, RowGone
  <2> QED
    BY <1>1, <2>1, <2>2, <2>3, <2>4, <2>5, TruthFrame
<1> QED
  BY <1>2, <1>3

LEMMA ClearTruth ==
    ASSUME TypeOK, DeliveryInv, Truth, ClearRuns PROVE Truth'
<1> USE DEF runVars, itemVars, jobVars, localVars
<1>1. PICK statuses \in {{"success", "canceled"}, Ended} :
        LET gone == {r \in Runs : runStatus[r] \in statuses}
        IN  /\ gone # {}
            /\ runStatus' = [r \in Runs |->
                  IF r \in gone THEN "deleted" ELSE runStatus[r]]
            /\ itemStatus' = [i \in Runs \X Targets |->
                  IF i[1] \in gone THEN "none" ELSE itemStatus[i]]
            /\ UNCHANGED <<runCompleted, runFailed, cancelling, attemptCount,
                           calls, lateStarts, jobVars, pc, localVars, crashes>>
  BY DEF ClearRuns
<1> DEFINE gone == {r \in Runs : runStatus[r] \in statuses}
<1>2. /\ \A d \in Deliveries : SameLocals(d)
      /\ \A s \in Runs : Alone(s)' <=> Alone(s)
      /\ \A s \in Runs \ gone : SameRow(s)
      /\ \A s \in gone : RowGone(s)'
  BY <1>1 DEF SameLocals, SameRow, Alone, RowGone, TypeOK
<1>3. \A s \in gone : RunTrue(s)'
  BY <1>2 DEF RunTrue, RowGone
<1>4. \A d \in Deliveries : Live(d)' => run'[d] \in Runs
  BY <1>2 DEF SameLocals, Live, DeliveryInv, TypeOK
<1>5. \A s \in Runs : RowGone(s) => RowGone(s)'
  BY <1>2 DEF SameRow, RowGone
<1> HIDE DEF gone
<1> QED
  BY <1>2, <1>3, <1>4, <1>5, TruthFrame

LEMMA NextTrue ==
    TypeOK /\ DeliveryInv /\ Truth /\ [Next]_vars => Truth'
<1> SUFFICES ASSUME TypeOK, DeliveryInv, Truth, [Next]_vars PROVE Truth'
  OBVIOUS
<1>1. CASE UNCHANGED vars
  BY <1>1, OutsideStep DEF vars, runVars, itemVars, jobVars, localVars,
     SameRow, SameLocals, Alone
<1>2. CASE Requests
  BY <1>2, InsertTruth, QueueTruth, CancelTruth, ClearTruth
     DEF Requests, CreateRun, RetryFailed, ItemsIn
<1> QED
  BY <1>1, <1>2, TakeTruth, MarkTruth, NextTruth, BeginTruth, CountTruth,
     PerformTruth, RecordTruth, TallyTruth, StoreTruth, LatestTruth, EndTruth,
     LeaveTruth, QueueTruth DEF Next, WorkerStep

-----------------------------------------------------------------------------
(* Items that are started after a cancellation.                             *)

Of(r) == {d \in Deliveries : run[d] = r}
Past(r) == {d \in Deliveries :
               run[d] = r /\ (runStatus[r] = "canceled" => pc[d] # "begin")}

LEMMA CancelFrame ==
    ASSUME TypeOK, CancelInv, UNCHANGED <<run, lateStarts>>,
           \A r \in Runs : runStatus'[r] = "canceled" => runStatus[r] = "canceled",
           \A d \in Deliveries : pc'[d] = "begin" =>
               pc[d] = "begin" \/ runStatus'[run[d]] # "canceled"
    PROVE  CancelInv'
<1> SUFFICES ASSUME NEW r \in Runs
             PROVE  /\ IsFiniteSet(Of(r)')
                    /\ lateStarts'[r] <= Cardinality(Past(r)')
  BY DEF CancelInv, Of, Past
<1>1. IsFiniteSet(Of(r)) /\ lateStarts[r] <= Cardinality(Past(r))
  BY DEF CancelInv, Of, Past
<1>2. Of(r)' = Of(r)
  BY DEF Of
<1>3. Past(r) \subseteq Past(r)' /\ Past(r)' \subseteq Of(r)
  BY DEF Of, Past
<1>4. IsFiniteSet(Past(r)')
  BY <1>1, <1>3, FS_Subset
<1>5. /\ IsFiniteSet(Past(r)) /\ Cardinality(Past(r)) <= Cardinality(Past(r)')
      /\ Cardinality(Past(r)) \in Nat /\ Cardinality(Past(r)') \in Nat
  BY <1>3, <1>4, FS_Subset, FS_CardinalityType
<1>6. lateStarts[r] \in Nat /\ lateStarts'[r] = lateStarts[r]
  BY DEF TypeOK
<1> QED
  BY <1>1, <1>2, <1>5, <1>6

(* A delivery that begins an item of a canceled run has passed.             *)
LEMMA BeginCancels ==
    ASSUME TypeOK, CancelInv, NEW d \in Deliveries, NEW r \in Runs,
           run[d] = r, BeginItem(d)
    PROVE  CancelInv'
<1> USE DEF runVars, itemVars, jobVars, localVars
<1>1. /\ UNCHANGED <<run, runStatus>>
      /\ pc[d] = "begin" /\ pc'[d] # "begin"
      /\ \A e \in Deliveries \ {d} : pc'[e] = pc[e]
      /\ \A s \in Runs \ {r} : lateStarts'[s] = lateStarts[s]
      /\ lateStarts'[r] =
           IF runStatus[r] = "canceled" THEN lateStarts[r] + 1
           ELSE lateStarts[r]
  BY DEF BeginItem, TypeOK, Goto, RowGone
<1> SUFFICES ASSUME NEW s \in Runs
             PROVE  /\ IsFiniteSet(Of(s)')
                    /\ lateStarts'[s] <= Cardinality(Past(s)')
  BY DEF CancelInv, Of, Past
<1>2. IsFiniteSet(Of(s)) /\ lateStarts[s] <= Cardinality(Past(s))
  BY DEF CancelInv, Of, Past
<1>3. Of(s)' = Of(s) /\ Past(s) \subseteq Of(s) /\ lateStarts[s] \in Nat
  BY <1>1 DEF Of, Past, TypeOK
<1>4. IsFiniteSet(Past(s)) /\ Cardinality(Past(s)) \in Nat
  BY <1>2, <1>3, FS_Subset, FS_CardinalityType
<1>5. CASE s = r /\ runStatus[r] = "canceled"
  <2>1. Past(s)' = Past(s) \cup {d} /\ d \notin Past(s)
    BY <1>1, <1>5 DEF Past
  <2>2. Cardinality(Past(s)') = Cardinality(Past(s)) + 1
    BY <1>4, <2>1, FS_AddElement
  <2> QED
    BY <1>1, <1>2, <1>3, <1>4, <1>5, <2>2
<1>6. CASE ~(s = r /\ runStatus[r] = "canceled")
  <2>1. Past(s)' = Past(s) /\ lateStarts'[s] = lateStarts[s]
    BY <1>1, <1>6 DEF Past
  <2> QED
    BY <1>2, <1>3, <2>1
<1> QED
  BY <1>5, <1>6

(* A cancellation starts the count anew, and a delivery that takes the job  *)
(* is one more that may begin an item.                                      *)
LEMMA CancelCounts ==
    ASSUME TypeOK, CancelInv, NEW r \in Runs, CancelCommits(r)
    PROVE  CancelInv'
<1> USE DEF runVars, itemVars, jobVars, localVars
<1>1. CASE RowGone(r)
  BY <1>1, CancelFrame DEF CancelCommits
<1>2. CASE ~RowGone(r)
  <2> SUFFICES ASSUME NEW s \in Runs
               PROVE  /\ IsFiniteSet(Of(s)')
                      /\ lateStarts'[s] <= Cardinality(Past(s)')
    BY DEF CancelInv, Of, Past
  <2>1. /\ UNCHANGED <<run, pc>>
        /\ s # r => runStatus'[s] = runStatus[s] /\ lateStarts'[s] = lateStarts[s]
        /\ s = r => lateStarts'[s] = 0
    BY <1>2 DEF CancelCommits, TypeOK
  <2>2. IsFiniteSet(Of(s)) /\ lateStarts[s] <= Cardinality(Past(s))
    BY DEF CancelInv, Of, Past
  <2>3. Of(s)' = Of(s) /\ Past(s)' \subseteq Of(s)
    BY <2>1 DEF Of, Past
  <2>4. Cardinality(Past(s)') \in Nat
    BY <2>2, <2>3, FS_Subset, FS_CardinalityType
  <2>5. s # r => Past(s)' = Past(s)
    BY <2>1 DEF Past
  <2> QED
    BY <2>1, <2>2, <2>3, <2>4, <2>5
<1> QED
  BY <1>1, <1>2

LEMMA TakeCounts ==
    ASSUME TypeOK, DeliveryInv, CancelInv, NEW d \in Deliveries,
           NEW r \in Runs, TakeJob(d, r)
    PROVE  CancelInv'
<1> USE DEF runVars, itemVars, jobVars, localVars
<1>1. /\ UNCHANGED <<runStatus, lateStarts>>
      /\ run[d] = None /\ run'[d] = r /\ pc'[d] # "begin"
      /\ \A e \in Deliveries \ {d} : run'[e] = run[e] /\ pc'[e] = pc[e]
  BY DEF TakeJob, TypeOK, Goto, DeliveryInv
<1> SUFFICES ASSUME NEW s \in Runs
             PROVE  /\ IsFiniteSet(Of(s)')
                    /\ lateStarts'[s] <= Cardinality(Past(s)')
  BY DEF CancelInv, Of, Past
<1>2. IsFiniteSet(Of(s)) /\ lateStarts[s] <= Cardinality(Past(s))
  BY DEF CancelInv, Of, Past
<1>3. Of(s)' \subseteq Of(s) \cup {d} /\ IsFiniteSet(Of(s) \cup {d})
  BY <1>1, <1>2, FS_AddElement DEF Of
<1>4. Past(s) \subseteq Past(s)' /\ Past(s)' \subseteq Of(s)'
  BY <1>1, OperationAssumption DEF Of, Past
<1>5. IsFiniteSet(Of(s)') /\ IsFiniteSet(Past(s)')
  BY <1>3, <1>4, FS_Subset
<1>6. /\ IsFiniteSet(Past(s)) /\ Cardinality(Past(s)) <= Cardinality(Past(s)')
      /\ Cardinality(Past(s)) \in Nat /\ Cardinality(Past(s)') \in Nat
  BY <1>4, <1>5, FS_Subset, FS_CardinalityType
<1>7. lateStarts[s] \in Nat /\ lateStarts'[s] = lateStarts[s]
  BY <1>1 DEF TypeOK
<1> QED
  BY <1>2, <1>5, <1>6, <1>7

LEMMA NextCanceled ==
    TypeOK /\ DeliveryInv /\ CancelInv /\ [Next]_vars => CancelInv'
<1> SUFFICES ASSUME TypeOK, DeliveryInv, CancelInv, [Next]_vars
             PROVE  CancelInv'
  OBVIOUS
<1> USE DEF runVars, itemVars, jobVars, localVars
<1>1. CASE UNCHANGED vars
  BY <1>1, CancelFrame DEF vars
<1>2. CASE \E d \in Deliveries : WorkerStep(d) \/ Crash(d)
  <2>1. PICK d \in Deliveries : WorkerStep(d) \/ Crash(d)
    BY <1>2
  <2>2. CASE pc[d] = "idle"
    <3>1. PICK r \in Runs : TakeJob(d, r)
      BY <2>1, <2>2 DEF WorkerStep, MarkRunning, NextItem, BeginItem,
         CountAttempt, Perform, RecordItem, TallyItems, StoreTally,
         ReadLatest, EndRun, FinishJob, Crash
    <3> QED
      BY <3>1, TakeCounts
  <2>3. CASE pc[d] # "idle"
    <3>1. PICK r \in Runs : run[d] = r
      BY <2>3 DEF DeliveryInv, TypeOK
    <3>2. CASE BeginItem(d)
      BY <3>1, <3>2, BeginCancels
    <3>3. CASE NextItem(d)
      <4>1. /\ UNCHANGED <<run, lateStarts, runStatus>>
            /\ \A e \in Deliveries \ {d} : pc'[e] = pc[e]
            /\ pc'[d] = "begin" => runStatus[run[d]] # "canceled"
        BY <3>3 DEF NextItem, Goto, TypeOK, StopsLoop
      <4> QED
        BY <4>1, CancelFrame
    <3>4. CASE ~BeginItem(d) /\ ~NextItem(d)
      <4>1. /\ UNCHANGED <<run, lateStarts>>
            /\ \A e \in Deliveries \ {d} : pc'[e] = pc[e]
            /\ pc'[d] # "begin"
        BY <2>1, <2>3, <3>4 DEF WorkerStep, TakeJob, MarkRunning,
           CountAttempt, Perform, RecordItem, TallyItems, StoreTally,
           ReadLatest, EndRun, FinishJob, Crash, Goto, TypeOK
      <4>2. \A s \in Runs : runStatus'[s] = "canceled" => runStatus[s] = "canceled"
        BY <2>1, <2>3, <3>1, <3>4 DEF WorkerStep, TakeJob, MarkRunning,
           CountAttempt, Perform, RecordItem, TallyItems, StoreTally,
           ReadLatest, EndRun, FinishJob, Crash, TypeOK, FinalStatus
      <4> QED
        BY <4>1, <4>2, CancelFrame
    <3> QED
      BY <3>2, <3>3, <3>4
  <2> QED
    BY <2>2, <2>3
<1>3. CASE \E r \in Runs : StallJob(r)
  BY <1>3, CancelFrame DEF StallJob
<1>4. CASE Requests
  <2>1. CASE \E r \in Runs, T \in SUBSET Targets : InsertRun(r, T)
    BY <2>1, CancelFrame DEF InsertRun, TypeOK
  <2>2. CASE \E r \in Runs : CancelCommits(r)
    BY <2>2, CancelCounts
  <2>3. CASE \E r \in Runs : AddJob(r) \/ LoseJob(r) \/ CancelReads(r)
    BY <2>3, CancelFrame DEF AddJob, LoseJob, CancelReads
  <2>4. CASE ClearRuns
    BY <2>4, CancelFrame DEF ClearRuns, TypeOK
  <2> QED
    BY <1>4, <2>1, <2>2, <2>3, <2>4
       DEF Requests, CreateRun, RetryFailed, ItemsIn
<1> QED
  BY <1>1, <1>2, <1>3, <1>4 DEF Next

-----------------------------------------------------------------------------
(* The theorems.                                                            *)

LEMMA InitInv == Init => OperationInv
<1> SUFFICES ASSUME Init PROVE OperationInv
  OBVIOUS
<1> USE OperationAssumption
<1>1. TypeOK
  BY DEF Init, TypeOK, RunStatus, ItemStatus, JobState, Pc
<1>2. DeliveryInv
  BY DEF Init, DeliveryInv, Live
<1>3. WorkInv /\ ItemInv /\ OutcomeInv
  BY DEF Init, WorkInv, ItemInv, OutcomeInv, Live, Alone
<1>4. ASSUME NEW r \in Runs PROVE Of(r) = {} /\ Past(r) = {} /\ lateStarts[r] = 0
  BY DEF Init, Of, Past
<1>5. ASSUME NEW r \in Runs
      PROVE  IsFiniteSet(Of(r)) /\ lateStarts[r] <= Cardinality(Past(r))
  <2>1. IsFiniteSet({}) /\ Cardinality({}) = 0
    BY FS_EmptySet
  <2> QED
    BY <1>4, <2>1
<1>6. CancelInv
  BY <1>5 DEF CancelInv, Of, Past
<1> QED
  BY <1>1, <1>2, <1>3, <1>6 DEF OperationInv

LEMMA NextInv == OperationInv /\ [Next]_vars => OperationInv'
<1> SUFFICES ASSUME OperationInv, [Next]_vars PROVE OperationInv'
  OBVIOUS
<1>1. TypeOK /\ DeliveryInv /\ Truth /\ CancelInv
  BY TruthMeans DEF OperationInv
<1>2. TypeOK' /\ DeliveryInv' /\ Truth' /\ CancelInv'
  BY <1>1, NextTyped, NextDelivered, NextTrue, NextCanceled
<1>3. WorkInv' /\ ItemInv' /\ OutcomeInv'
  BY <1>2 DEF Truth, RunTrue, ItemInv, OutcomeInv
<1> QED
  BY <1>2, <1>3 DEF OperationInv

(* The inductive invariant holds however deliveries of one job overlap and  *)
(* wherever worker processes die.                                           *)
THEOREM OperationInvariance == Spec => []OperationInv
BY InitInv, NextInv, PTL DEF Spec

(* The attempts of an item stay within those its kind allows, and the runs, *)
(* items, jobs and deliveries keep to their states.                         *)
THEOREM OperationTypes == Spec => []TypeOK
<1>1. OperationInv => TypeOK
  BY DEF OperationInv
<1> QED
  BY <1>1, OperationInvariance, PTL

(* Once a cancellation is stored, each delivery of the run starts at most   *)
(* the item it had already chosen, even when deliveries overlap.            *)
THEOREM CancellationStops == Spec => []CancelStopsRun
<1>1. OperationInv => CancelStopsRun
  <2> SUFFICES ASSUME OperationInv, NEW r \in Runs
               PROVE  lateStarts[r] <= Cardinality(Of(r))
    BY DEF CancelStopsRun, Of
  <2>1. IsFiniteSet(Of(r)) /\ lateStarts[r] <= Cardinality(Past(r))
    BY DEF OperationInv, CancelInv, Of, Past
  <2>2. Past(r) \subseteq Of(r)
    BY DEF Of, Past
  <2>3. /\ Cardinality(Past(r)) <= Cardinality(Of(r))
        /\ Cardinality(Past(r)) \in Nat /\ Cardinality(Of(r)) \in Nat
    BY <2>1, <2>2, FS_Subset, FS_CardinalityType
  <2>4. lateStarts[r] \in Nat
    BY DEF OperationInv, TypeOK
  <2> QED
    BY <2>1, <2>3, <2>4
<1> QED
  BY <1>1, OperationInvariance, PTL

(* The status and the counters of a run, and of the run that retries its    *)
(* failures, are those of their items as long as no job has stalled.        *)
THEOREM RetriesCountRight == Spec => []RetriedOutcomeMatchesItems
<1>1. OperationInv => RetriedOutcomeMatchesItems
  BY DEF OperationInv, OutcomeInv, RetriedOutcomeMatchesItems,
     OutcomeMatchesItems, Alone
<1> QED
  BY <1>1, OperationInvariance, PTL

(* If only a dead process loses its job, then through all deaths and        *)
(* redeliveries every call of an item's work is counted and within its      *)
(* attempts, and a run that ended reports what its items say.               *)
THEOREM CountersStayTrue ==
    ASSUME ~LiveStalls PROVE Spec => []CountersAreTrue
<1>1. OperationInv => CountersAreTrue
  BY DEF OperationInv, OutcomeInv, ItemInv, CountersAreTrue, CallsAreCounted,
     OutcomeMatchesItems, Alone, RowGone
<1> QED
  BY <1>1, OperationInvariance, PTL

(* If only a dead process loses its job, no redelivery runs a successful    *)
(* run again.                                                               *)
SuccessStep ==
    \A r \in Runs : runStatus[r] = "success" =>
        runStatus'[r] \in {"success", "canceled", "deleted"}

LEMMA SuccessKept ==
    ASSUME ~LiveStalls, OperationInv, [Next]_vars
    PROVE  SuccessStep
<1> USE DEF runVars, itemVars, jobVars, localVars
<1> SUFFICES ASSUME NEW r \in Runs, runStatus[r] = "success"
             PROVE  runStatus'[r] \in {"success", "canceled", "deleted"}
  BY DEF SuccessStep
<1>1. TypeOK
  BY DEF OperationInv
<1>2. ASSUME NEW d \in Deliveries, run[d] = r
      PROVE  pc[d] \notin {"mark", "end"}
  BY <1>2 DEF OperationInv, WorkInv, WorksAlone, Live, Alone, RowGone
<1>3. CASE UNCHANGED vars
  BY <1>3 DEF vars
<1>4. ASSUME NEW d \in Deliveries, WorkerStep(d) \/ Crash(d)
      PROVE  runStatus'[r] = "success"
  BY <1>1, <1>2, <1>4 DEF WorkerStep, TakeJob, MarkRunning, NextItem,
     BeginItem, CountAttempt, Perform, RecordItem, TallyItems, StoreTally,
     ReadLatest, EndRun, FinishJob, Crash, TypeOK
<1>5. CASE \E s \in Runs : StallJob(s)
  BY <1>5 DEF StallJob
<1>6. CASE Requests
  BY <1>1, <1>6 DEF Requests, CreateRun, RetryFailed, InsertRun, AddJob,
     LoseJob, CancelReads, CancelCommits, ClearRuns, TypeOK
<1> QED
  BY <1>3, <1>4, <1>5, <1>6 DEF Next

(* If only a dead process loses its job, a run that succeeded is not run     *)
(* again: only a cancellation or a clearing changes its status.              *)
THEOREM SuccessIsKept ==
    ASSUME ~LiveStalls PROVE Spec => SuccessStays
<1>1. OperationInv /\ [Next]_vars => [SuccessStep]_runStatus
  BY SuccessKept
<1> QED
  BY <1>1, OperationInvariance, PTL DEF Spec, SuccessStays, SuccessStep
=============================================================================
