---------------------- MODULE NotebookIngestionProofs ----------------------
(* Proofs about NotebookIngestion, for any number of requests, attempts,    *)
(* redeliveries and crashes, and any bound on the revisions.                *)
EXTENDS NotebookIngestion, Sequences, FiniteSetTheorems, TLAPS

(* The types of what a failing or continuing actor changes.                 *)
QueueTyped ==
    /\ queue \in [Jobs -> QueueState]
    /\ tries \in [Jobs -> 0..MaxTries]
    /\ stalls \in [Jobs -> 0..MaxStalledCount]
    /\ notice \in [Jobs -> {"none", "due", "lost"}]
    /\ pc \in [Actors -> Pc]

LEMMA ContinuesTyped ==
    ASSUME TypeOK, NEW a, NEW l \in Pc, Continues(a, l)
    PROVE  QueueTyped'
BY DEF Continues, Goto, queueVars, TypeOK, QueueTyped

LEMMA ThrowsTyped ==
    ASSUME TypeOK, QueueInv, NEW j \in Jobs, pc[j] # "idle", Throws(j)
    PROVE  QueueTyped'
<1>1. tries[j] + 1 \in 0..MaxTries
  BY IngestionAssumption DEF QueueInv, TypeOK
<1>2. tries' \in [Jobs -> 0..MaxTries]
  BY <1>1 DEF Throws, Counted, TypeOK
<1>3. queue' \in [Jobs -> QueueState]
  BY DEF Throws, TypeOK, QueueState
<1>4. pc' \in [Actors -> Pc]
  BY DEF Throws, Goto, TypeOK, Pc
<1>5. /\ stalls' \in [Jobs -> 0..MaxStalledCount]
      /\ notice' \in [Jobs -> {"none", "due", "lost"}]
  BY DEF Throws, TypeOK
<1> QED
  BY <1>2, <1>3, <1>4, <1>5 DEF QueueTyped

LEMMA UpsertTyped ==
    ASSUME TypeOK, QueueInv, NEW a \in Actors, pc[a] # "idle",
           NEW k \in Kinds, NEW s \in JobStatus, NEW l \in Pc,
           Upsert(a, k, s, l)
    PROVE  QueueTyped' /\ status' \in [Kinds -> JobStatus]
<1>1. status' \in [Kinds -> JobStatus]
  BY DEF Upsert, TypeOK
<1>2. CASE source = "present"
  BY <1>1, <1>2, ContinuesTyped DEF Upsert
<1>3. CASE source # "present" /\ a \in Jobs
  BY <1>1, <1>3, ThrowsTyped DEF Upsert, Fails
<1>4. CASE source # "present" /\ a \notin Jobs
  BY <1>1, <1>4 DEF Upsert, Fails, Goto, queueVars, TypeOK, QueueTyped, Pc
<1> QED
  BY <1>2, <1>3, <1>4

LEMMA OrdinalsTyped == Ordinals \subseteq 0..MaxRevisions
BY IngestionAssumption DEF Ordinals

LEMMA KindTyped == \A j \in Jobs \cup {None} : Kind(j) \in Kinds
BY DEF Kind, Kinds

(* Every variable keeps its type.                                           *)
LEMMA NextTyped == TypeOK /\ QueueInv /\ [Next]_vars => TypeOK'
<1> SUFFICES ASSUME TypeOK, QueueInv, [Next]_vars PROVE TypeOK'
  OBVIOUS
<1> USE IngestionAssumption
<1> USE DEF sourceVars, revisionVars, queueVars, localVars

<1>1. CASE UNCHANGED vars
  BY <1>1 DEF vars, TypeOK, Actors, Jobs, IngestJobs, Pc, QueueState,
     JobStatus, Kinds
<1>2. ASSUME NEW j \in Jobs, Pick(j) \/ MarkRunning(j) \/ MarkSucceeded(j) \/ Settle(j) PROVE TypeOK'
  <2>1. CASE Pick(j)
    BY <2>1 DEF Pick, Goto, TypeOK, Actors, Jobs, IngestJobs, Pc,
       QueueState, JobStatus, Kinds
  <2>2. CASE MarkRunning(j)
    <3>1. QueueTyped' /\ status' \in [Kinds -> JobStatus]
      BY <2>2, UpsertTyped, KindTyped DEF MarkRunning, Pc, JobStatus, Actors
    <3> QED
      BY <2>2, <3>1 DEF MarkRunning, TypeOK, QueueTyped
  <2>3. CASE MarkSucceeded(j)
    BY <2>3 DEF MarkSucceeded, Continues, Goto, Kind, TypeOK, Actors, Jobs,
       IngestJobs, Pc, QueueState, JobStatus, Kinds
  <2>4. CASE Settle(j)
    BY <2>4 DEF Settle, Goto, TypeOK, Actors, Jobs, IngestJobs, Pc,
       QueueState, JobStatus, Kinds
  <2> QED
    BY <1>2, <2>1, <2>2, <2>3, <2>4
       DEF Jobs
<1>3. ASSUME NEW j \in IngestJobs, IngestStep(j) PROVE TypeOK'
  <2>1. CASE Extract(j)
    <3>1. QueueTyped'
      BY <2>1, ContinuesTyped, ThrowsTyped DEF Extract, Pc, Jobs, IngestJobs
    <3> QED
      BY <2>1, <3>1 DEF Extract, TypeOK, QueueTyped, Actors, Jobs,
         IngestJobs
  <2>2. CASE ReadOrdinal(j)
    <3>1. QueueTyped'
      BY <2>2, ContinuesTyped DEF ReadOrdinal, Pc
    <3> QED
      BY <2>2, <3>1, OrdinalsTyped DEF ReadOrdinal, TypeOK, QueueTyped,
         Actors, Jobs, IngestJobs
  <2>3. CASE FindActive(j)
    <3>1. QueueTyped'
      BY <2>3, ContinuesTyped DEF FindActive, Pc
    <3> QED
      BY <2>3, <3>1, OrdinalsTyped DEF FindActive, Revisions, TypeOK,
         QueueTyped, Actors, Jobs, IngestJobs
  <2>4. CASE PinRevision(j)
    <3>1. QueueTyped'
      BY <2>4, ContinuesTyped, ThrowsTyped DEF PinRevision, Pc, Jobs,
         IngestJobs
    <3> QED
      BY <2>4, <3>1 DEF PinRevision, TypeOK, QueueTyped, Actors, Jobs,
         IngestJobs
  <2>5. CASE CountMissing(j)
    BY <2>5 DEF CountMissing, Continues, Goto, TypeOK, Actors, Jobs,
       IngestJobs, Pc, QueueState, JobStatus, Kinds
  <2>6. CASE Deactivate(j)
    BY <2>6 DEF Deactivate, NoneActive, Continues, Goto, TypeOK, Actors,
       Jobs, IngestJobs, Pc, QueueState, JobStatus, Kinds
  <2>7. CASE CreateRevision(j)
    <3>1. QueueTyped'
      BY <2>7, ContinuesTyped, ThrowsTyped DEF CreateRevision, Pc, Jobs,
         IngestJobs
    <3>2. CASE UNCHANGED <<content, active, rev>>
      BY <2>7, <3>1, <3>2 DEF CreateRevision, TypeOK, QueueTyped
    <3>3. CASE /\ content' = [content EXCEPT ![ordinal[j]] = text[j]]
               /\ active' = [active EXCEPT ![ordinal[j]] = TRUE]
               /\ rev' = [rev EXCEPT ![j] = ordinal[j]]
      <4>1. content' \in [Ordinals -> (IngestJobs \X Contents) \cup {None}]
        BY <3>3 DEF TypeOK
      <4>2. active' \in [Ordinals -> BOOLEAN]
        BY <3>3 DEF TypeOK
      <4>3. rev' \in [Actors -> 0..MaxRevisions]
        BY <3>3 DEF TypeOK
      <4> QED
        BY <2>7, <3>1, <4>1, <4>2, <4>3 DEF CreateRevision, TypeOK, QueueTyped
    <3> QED
      BY <2>7, <3>2, <3>3 DEF CreateRevision
  <2>8. CASE StoreChunks(j)
    <3>1. QueueTyped'
      BY <2>8, ContinuesTyped, ThrowsTyped DEF StoreChunks, Pc, Jobs,
         IngestJobs
    <3> QED
      BY <2>8, <3>1 DEF StoreChunks, TypeOK, QueueTyped, Actors, Jobs,
         IngestJobs
  <2> QED
    BY <1>3, <2>1, <2>2, <2>3, <2>4, <2>5, <2>6, <2>7, <2>8
       DEF IngestStep
<1>4. ASSUME NEW j \in {"embed"}, EmbedStep(j) PROVE TypeOK'
  <2>1. CASE LoadChunks(j)
    BY <2>1 DEF LoadChunks, Continues, Goto, TypeOK, Actors, Jobs,
       IngestJobs, Pc, QueueState, JobStatus, Kinds
  <2>2. CASE Embed(j)
    <3>1. QueueTyped'
      BY <2>2, ContinuesTyped, ThrowsTyped DEF Embed, Pc, Jobs, IngestJobs
    <3> QED
      BY <2>2, <3>1 DEF Embed, TypeOK, QueueTyped, Actors, Jobs, IngestJobs
  <2>3. CASE PersistEmbeddings(j)
    BY <2>3 DEF PersistEmbeddings, Continues, Goto, TypeOK, Actors, Jobs,
       IngestJobs, Pc, QueueState, JobStatus, Kinds
  <2> QED
    BY <1>4, <2>1, <2>2, <2>3
       DEF EmbedStep
<1>5. ASSUME NEW j \in Jobs, MarkFailed(j) \/ LoseNotice(j) \/ RecoverStalled(j)
      PROVE  TypeOK'
  <2>1. CASE MarkFailed(j)
    BY <2>1 DEF MarkFailed, StatusFailed, Kind, TypeOK, Actors, Jobs,
       IngestJobs, Pc, QueueState, JobStatus, Kinds
  <2>2. CASE RecoverStalled(j)
    <3>1. stalls' \in [Jobs -> 0..MaxStalledCount]
      BY <2>2 DEF RecoverStalled, TypeOK
    <3> QED
      BY <2>2, <3>1 DEF RecoverStalled, Goto, TypeOK, QueueState, Pc
  <2>3. CASE LoseNotice(j)
    <3>1. crashes' \in 0..MaxCrashes
      BY <2>3, IngestionAssumption DEF LoseNotice, TypeOK
    <3> QED
      BY <2>3, <3>1 DEF LoseNotice, TypeOK
  <2> QED
    BY <1>5, <2>1, <2>2, <2>3
       DEF Jobs
<1>6. ASSUME NEW a \in Actors, EnqueueStep(a) \/ Crash(a) PROVE TypeOK'
  <2>1. CASE Reset(a)
    <3>1. QueueTyped' /\ status' \in [Kinds -> JobStatus]
      BY <2>1, UpsertTyped, KindTyped DEF Reset, Pc, JobStatus, Actors,
         TypeOK
    <3> QED
      BY <2>1, <3>1 DEF Reset, TypeOK, QueueTyped
  <2>2. CASE LookUp(a)
    BY <2>2 DEF LookUp, AfterEnqueue, Continues, Goto, TypeOK, Actors, Jobs,
       IngestJobs, Pc, QueueState, JobStatus, Kinds
  <2>3. CASE LookAgain(a)
    BY <2>3 DEF LookAgain, AfterEnqueue, Continues, Goto, TypeOK, Actors,
       Jobs, IngestJobs, Pc, QueueState, JobStatus, Kinds
  <2>4. CASE Add(a)
    BY <2>4 DEF Add, Goto, TypeOK, Actors, Jobs, IngestJobs, Pc, QueueState,
       JobStatus, Kinds
  <2>5. CASE MarkQueued(a)
    <3>1. QueueTyped' /\ status' \in [Kinds -> JobStatus]
      BY <2>5, UpsertTyped, KindTyped DEF MarkQueued, Pc, JobStatus,
         AfterEnqueue, Actors, TypeOK
    <3> QED
      BY <2>5, <3>1 DEF MarkQueued, TypeOK, QueueTyped
  <2>6. CASE Crash(a)
    BY <2>6 DEF Crash, Goto, TypeOK, Actors, Jobs, IngestJobs, Pc,
       QueueState, JobStatus, Kinds
  <2> QED
    BY <1>6, <2>1, <2>2, <2>3, <2>4, <2>5, <2>6
       DEF EnqueueStep
<1>7. ASSUME NEW q \in Requests, RequestStep(q) PROVE TypeOK'
  <2>1. CASE ClearEmbeddings(q)
    BY <2>1 DEF ClearEmbeddings, Goto, TypeOK, Actors, Jobs, IngestJobs, Pc,
       QueueState, JobStatus, Kinds
  <2>2. CASE DeleteChunks(q)
    BY <2>2 DEF DeleteChunks, Goto, TypeOK, Actors, Jobs, IngestJobs, Pc,
       QueueState, JobStatus, Kinds
  <2>3. CASE DeleteRow(q)
    BY <2>3 DEF DeleteRow, Goto, TypeOK, Actors, Jobs, IngestJobs, Pc,
       QueueState, JobStatus, Kinds
  <2> QED
    BY <1>7, <2>1, <2>2, <2>3
       DEF RequestStep
<1>8. ASSUME NEW q \in Requests, RequestStarts(q) PROVE TypeOK'
  <2>1. CASE Attach(q)
    BY <2>1 DEF Attach, Begins, Goto, TypeOK, Actors, Jobs, IngestJobs, Pc,
       QueueState, JobStatus, Kinds
  <2>2. CASE RetryIngestion(q)
    BY <2>2 DEF RetryIngestion, Begins, Goto, TypeOK, Actors, Jobs,
       IngestJobs, Pc, QueueState, JobStatus, Kinds
  <2>3. CASE RetryEmbedding(q)
    BY <2>3 DEF RetryEmbedding, Begins, Goto, TypeOK, Actors, Jobs,
       IngestJobs, Pc, QueueState, JobStatus, Kinds
  <2>4. CASE RebuildEmbedding(q)
    BY <2>4 DEF RebuildEmbedding, Begins, Goto, TypeOK, Actors, Jobs,
       IngestJobs, Pc, QueueState, JobStatus, Kinds
  <2>5. CASE DeleteSource(q)
    BY <2>5 DEF DeleteSource, Begins, Goto, TypeOK, Actors, Jobs,
       IngestJobs, Pc, QueueState, JobStatus, Kinds
  <2> QED
    BY <1>8, <2>1, <2>2, <2>3, <2>4, <2>5
       DEF RequestStarts
<1>9. ASSUME NEW j \in Jobs, Evict(j) PROVE TypeOK'
  BY <1>9 DEF Evict, TypeOK, Actors, Jobs, IngestJobs, Pc, QueueState,
     JobStatus, Kinds
<1>10. CASE SweepStale
  BY <1>10 DEF SweepStale, TypeOK, Actors, Jobs, IngestJobs, Pc, QueueState,
     JobStatus, Kinds
<1> QED
  BY <1>1, <1>2, <1>3, <1>4, <1>5, <1>6, <1>7, <1>8, <1>9, <1>10 DEF Next, WorkerStep, Jobs

(* No step leaves an executed job without its place in the queue.           *)
LEMMA NextQueued == TypeOK /\ QueueInv /\ [Next]_vars => QueueInv'
<1> SUFFICES ASSUME TypeOK, QueueInv, [Next]_vars PROVE QueueInv'
  OBVIOUS
<1> USE IngestionAssumption
<1> USE DEF sourceVars, revisionVars, queueVars, localVars

<1>1. CASE UNCHANGED vars
  BY <1>1 DEF vars, QueueInv, TypeOK, Actors, Jobs, IngestJobs
<1>2. ASSUME NEW j \in Jobs, Pick(j) \/ MarkRunning(j) \/ MarkSucceeded(j) \/ Settle(j) PROVE QueueInv'
  <2>1. CASE Pick(j)
    BY <2>1 DEF Pick, Goto, QueueInv, TypeOK, Actors, Jobs, IngestJobs
  <2>2. CASE MarkRunning(j)
    BY <2>2 DEF MarkRunning, Upsert, Fails, Throws, Counted, HasTriesLeft,
       Continues, Goto, Kind, QueueInv, TypeOK, Actors, Jobs, IngestJobs
  <2>3. CASE MarkSucceeded(j)
    BY <2>3 DEF MarkSucceeded, Continues, Goto, Kind, QueueInv, TypeOK,
       Actors, Jobs, IngestJobs
  <2>4. CASE Settle(j)
    BY <2>4 DEF Settle, Goto, QueueInv, TypeOK, Actors, Jobs, IngestJobs
  <2> QED
    BY <1>2, <2>1, <2>2, <2>3, <2>4
       DEF Jobs
<1>3. ASSUME NEW j \in IngestJobs, IngestStep(j) PROVE QueueInv'
  <2>1. CASE Extract(j)
    BY <2>1 DEF Extract, Throws, Counted, HasTriesLeft, Continues, Goto,
       QueueInv, TypeOK, Actors, Jobs, IngestJobs
  <2>2. CASE ReadOrdinal(j)
    BY <2>2 DEF ReadOrdinal, IsNextOrdinal, Continues, Goto, QueueInv,
       TypeOK, Actors, Jobs, IngestJobs
  <2>3. CASE FindActive(j)
    BY <2>3 DEF FindActive, Revisions, Continues, Goto, QueueInv, TypeOK,
       Actors, Jobs, IngestJobs
  <2>4. CASE PinRevision(j)
    BY <2>4 DEF PinRevision, Throws, Counted, HasTriesLeft, Continues, Goto,
       QueueInv, TypeOK, Actors, Jobs, IngestJobs
  <2>5. CASE CountMissing(j)
    BY <2>5 DEF CountMissing, Continues, Goto, QueueInv, TypeOK, Actors,
       Jobs, IngestJobs
  <2>6. CASE Deactivate(j)
    BY <2>6 DEF Deactivate, NoneActive, Continues, Goto, QueueInv, TypeOK,
       Actors, Jobs, IngestJobs
  <2>7. CASE CreateRevision(j)
    BY <2>7 DEF CreateRevision, OrdinalTaken, Throws, Counted, HasTriesLeft,
       Continues, Goto, QueueInv, TypeOK, Actors, Jobs, IngestJobs
  <2>8. CASE StoreChunks(j)
    BY <2>8 DEF StoreChunks, Throws, Counted, HasTriesLeft, Continues, Goto,
       QueueInv, TypeOK, Actors, Jobs, IngestJobs
  <2> QED
    BY <1>3, <2>1, <2>2, <2>3, <2>4, <2>5, <2>6, <2>7, <2>8
       DEF IngestStep
<1>4. ASSUME NEW j \in {"embed"}, EmbedStep(j) PROVE QueueInv'
  <2>1. CASE LoadChunks(j)
    BY <2>1 DEF LoadChunks, Continues, Goto, QueueInv, TypeOK, Actors, Jobs,
       IngestJobs
  <2>2. CASE Embed(j)
    BY <2>2 DEF Embed, Throws, Counted, HasTriesLeft, Continues, Goto,
       QueueInv, TypeOK, Actors, Jobs, IngestJobs
  <2>3. CASE PersistEmbeddings(j)
    BY <2>3 DEF PersistEmbeddings, Continues, Goto, QueueInv, TypeOK,
       Actors, Jobs, IngestJobs
  <2> QED
    BY <1>4, <2>1, <2>2, <2>3
       DEF EmbedStep
<1>5. ASSUME NEW j \in Jobs, MarkFailed(j) \/ LoseNotice(j) \/ RecoverStalled(j)
      PROVE  QueueInv'
  <2>1. CASE MarkFailed(j)
    BY <2>1 DEF MarkFailed, StatusFailed, Kind, QueueInv, TypeOK, Actors,
       Jobs, IngestJobs
  <2>2. CASE RecoverStalled(j)
    BY <2>2 DEF RecoverStalled, Goto, QueueInv, TypeOK, Actors, Jobs,
       IngestJobs
  <2>3. CASE LoseNotice(j)
    BY <2>3 DEF LoseNotice, QueueInv, TypeOK, Actors, Jobs, IngestJobs
  <2> QED
    BY <1>5, <2>1, <2>2, <2>3
       DEF Jobs
<1>6. ASSUME NEW a \in Actors, EnqueueStep(a) \/ Crash(a) PROVE QueueInv'
  <2>1. CASE Reset(a)
    BY <2>1 DEF Reset, Upsert, AfterEnqueue, Fails, Throws, Counted,
       HasTriesLeft, Continues, Goto, Kind, QueueInv, TypeOK, Actors, Jobs,
       IngestJobs
  <2>2. CASE LookUp(a)
    BY <2>2 DEF LookUp, AfterEnqueue, Continues, Goto, QueueInv, TypeOK,
       Actors, Jobs, IngestJobs
  <2>3. CASE LookAgain(a)
    BY <2>3 DEF LookAgain, AfterEnqueue, Continues, Goto, QueueInv, TypeOK,
       Actors, Jobs, IngestJobs
  <2>4. CASE Add(a)
    BY <2>4 DEF Add, Goto, QueueInv, TypeOK, Actors, Jobs, IngestJobs
  <2>5. CASE MarkQueued(a)
    BY <2>5 DEF MarkQueued, Upsert, AfterEnqueue, Fails, Throws, Counted,
       HasTriesLeft, Continues, Goto, Kind, QueueInv, TypeOK, Actors, Jobs,
       IngestJobs
  <2>6. CASE Crash(a)
    BY <2>6 DEF Crash, Goto, QueueInv, TypeOK, Actors, Jobs, IngestJobs
  <2> QED
    BY <1>6, <2>1, <2>2, <2>3, <2>4, <2>5, <2>6
       DEF EnqueueStep
<1>7. ASSUME NEW q \in Requests, RequestStep(q) PROVE QueueInv'
  <2>1. CASE ClearEmbeddings(q)
    BY <2>1 DEF ClearEmbeddings, Goto, QueueInv, TypeOK, Actors, Jobs,
       IngestJobs
  <2>2. CASE DeleteChunks(q)
    BY <2>2 DEF DeleteChunks, Goto, QueueInv, TypeOK, Actors, Jobs,
       IngestJobs
  <2>3. CASE DeleteRow(q)
    BY <2>3 DEF DeleteRow, Goto, QueueInv, TypeOK, Actors, Jobs, IngestJobs
  <2> QED
    BY <1>7, <2>1, <2>2, <2>3
       DEF RequestStep
<1>8. ASSUME NEW q \in Requests, RequestStarts(q) PROVE QueueInv'
  <2>1. CASE Attach(q)
    BY <2>1 DEF Attach, Begins, Goto, QueueInv, TypeOK, Actors, Jobs,
       IngestJobs
  <2>2. CASE RetryIngestion(q)
    BY <2>2 DEF RetryIngestion, Begins, Goto, QueueInv, TypeOK, Actors,
       Jobs, IngestJobs
  <2>3. CASE RetryEmbedding(q)
    BY <2>3 DEF RetryEmbedding, Begins, Goto, QueueInv, TypeOK, Actors,
       Jobs, IngestJobs
  <2>4. CASE RebuildEmbedding(q)
    BY <2>4 DEF RebuildEmbedding, Begins, Goto, QueueInv, TypeOK, Actors,
       Jobs, IngestJobs
  <2>5. CASE DeleteSource(q)
    BY <2>5 DEF DeleteSource, Begins, Goto, QueueInv, TypeOK, Actors, Jobs,
       IngestJobs
  <2> QED
    BY <1>8, <2>1, <2>2, <2>3, <2>4, <2>5
       DEF RequestStarts
<1>9. ASSUME NEW j \in Jobs, Evict(j) PROVE QueueInv'
  BY <1>9 DEF Evict, QueueInv, TypeOK, Actors, Jobs, IngestJobs
<1>10. CASE SweepStale
  BY <1>10 DEF SweepStale, QueueInv, TypeOK, Actors, Jobs, IngestJobs
<1> QED
  BY <1>1, <1>2, <1>3, <1>4, <1>5, <1>6, <1>7, <1>8, <1>9, <1>10 DEF Next, WorkerStep, Jobs

(* RevisionInv speaks of the source, of the revisions, and of what an       *)
(* ingestion holds from its extraction until it has created a revision.     *)
Creating == {"ordinal", "findActive", "deactivate", "create"}

LEMMA RevisionFrame ==
    ASSUME RevisionInv, UNCHANGED <<source, content, active, text, ordinal>>,
           \A j \in IngestJobs : pc'[j] = pc[j] \/ pc'[j] \notin Creating
    PROVE  RevisionInv'
BY DEF RevisionInv, OneActiveRevision, Exists, Creating

(* Ordinals are numbers, in order.                                          *)
LEMMA OrdinalFacts ==
    \A n \in Ordinals :
        n \in Nat /\ n >= 1 /\ (n > 1 => n - 1 \in Ordinals)
BY IngestionAssumption DEF Ordinals

(* A revision is created under the next ordinal, at a moment when no other  *)
(* one is active.                                                           *)
LEMMA CreationFacts ==
    ASSUME TypeOK, RevisionInv, NEW j \in IngestJobs, pc[j] = "create",
           source = "present", ~Exists(ordinal[j]),
           content' = [content EXCEPT ![ordinal[j]] = text[j]],
           active' = [active EXCEPT ![ordinal[j]] = TRUE]
    PROVE  /\ ordinal[j] \in Ordinals /\ text[j] # None
           /\ ordinal[j] = 1 \/ Exists(ordinal[j] - 1)
           /\ \A o \in Ordinals :
                /\ Exists(o) <=> o < ordinal[j]
                /\ ~active[o]
                /\ active'[o] <=> o = ordinal[j]
                /\ Exists(o)' <=> o <= ordinal[j]
<1> DEFINE n == ordinal[j]
<1>1. n \in Ordinals /\ text[j] # None /\ (n = 1 \/ Exists(n - 1))
  BY DEF RevisionInv
<1>2. \A o \in Ordinals : Exists(o) <=> o < n
  BY <1>1, OrdinalFacts DEF RevisionInv
<1>3. \A o \in Ordinals : ~active[o]
  BY <1>1, <1>2, OrdinalFacts DEF RevisionInv
<1>4. \A o \in Ordinals : active'[o] <=> o = n
  BY <1>1, <1>3 DEF TypeOK
<1>5. \A o \in Ordinals : Exists(o)' <=> o <= n
  <2>1. \A o \in Ordinals : Exists(o)' <=> o = n \/ Exists(o)
    BY <1>1 DEF Exists, TypeOK
  <2> QED
    BY <1>1, <1>2, <2>1, OrdinalFacts
<1> QED
  BY <1>1, <1>2, <1>3, <1>4, <1>5

(* Whoever else is about to create a revision is turned away from now on.   *)
LEMMA CreationPreserves ==
    ASSUME TypeOK, RevisionInv, NEW j \in IngestJobs, pc[j] = "create",
           source = "present", source' = source, ~Exists(ordinal[j]),
           content' = [content EXCEPT ![ordinal[j]] = text[j]],
           active' = [active EXCEPT ![ordinal[j]] = TRUE],
           text' = text, ordinal' = ordinal, pc' = [pc EXCEPT ![j] = "pin"]
    PROVE  RevisionInv'
<1> DEFINE n == ordinal[j]
<1>1. n \in Ordinals /\ text[j] # None /\ (n = 1 \/ Exists(n - 1))
  BY CreationFacts
<1>2. \A o \in Ordinals : Exists(o) <=> o < n
  BY CreationFacts
<1>4. \A o \in Ordinals : active'[o] <=> o = n
  BY CreationFacts
<1>5. \A o \in Ordinals : Exists(o)' <=> o <= n
  BY CreationFacts
<1>6. ASSUME NEW k \in IngestJobs, pc[k] \in {"findActive", "deactivate", "create"}
      PROVE  ordinal[k] <= n /\ ordinal[k] \in Ordinals
  BY <1>1, <1>2, <1>6, OrdinalFacts DEF RevisionInv
<1>7. \A k \in IngestJobs : pc'[k] = pc[k] \/ pc'[k] = "pin"
  BY DEF TypeOK, Actors, Jobs
<1>8. OneActiveRevision'
  BY <1>4 DEF OneActiveRevision
<1>9. \A o \in Ordinals : active'[o] => Exists(o)'
  BY <1>1, <1>4, <1>5, OrdinalFacts
<1>10. \A o, p \in Ordinals : Exists(o)' /\ p <= o => Exists(p)'
  BY <1>1, <1>5, OrdinalFacts
<1>11. ASSUME NEW k \in IngestJobs,
              pc'[k] \in {"findActive", "deactivate", "create"}
       PROVE  /\ ordinal'[k] \in Ordinals
              /\ ordinal'[k] = 1 \/ Exists(ordinal[k] - 1)'
              /\ pc'[k] = "create" =>
                   \A o \in Ordinals : active'[o] => ordinal'[k] <= o
  <2>1. ordinal[k] \in Ordinals /\ ordinal[k] <= n
    BY <1>6, <1>7, <1>11
  <2>2. ordinal[k] = 1 \/ Exists(ordinal[k] - 1)'
    BY <1>1, <1>5, <2>1, OrdinalFacts
  <2> QED
    BY <1>4, <2>1, <2>2
<1> QED
  BY <1>7, <1>8, <1>9, <1>10, <1>11 DEF RevisionInv, Exists

LEMMA NextRevision ==
    TypeOK /\ QueueInv /\ RevisionInv /\ [Next]_vars => RevisionInv'
<1> SUFFICES ASSUME TypeOK, QueueInv, RevisionInv, [Next]_vars
             PROVE  RevisionInv'
  OBVIOUS
<1> USE DEF sourceVars, revisionVars, queueVars, localVars

<1>1. CASE UNCHANGED vars
  BY <1>1 DEF vars, RevisionInv, OneActiveRevision, Exists
<1>2. ASSUME NEW j \in Jobs, Pick(j) \/ MarkRunning(j) \/ MarkSucceeded(j) \/ Settle(j) PROVE RevisionInv'
  <2>1. CASE Pick(j)
    BY <2>1, RevisionFrame DEF Pick, Goto, Creating, TypeOK, Actors, Jobs,
       IngestJobs
  <2>2. CASE MarkRunning(j)
    BY <2>2, RevisionFrame DEF MarkRunning, Upsert, Fails, Throws,
       Continues, Goto, Creating, TypeOK, Actors, Jobs, IngestJobs
  <2>3. CASE MarkSucceeded(j)
    BY <2>3, RevisionFrame DEF MarkSucceeded, Continues, Goto, Creating,
       TypeOK, Actors, Jobs, IngestJobs
  <2>4. CASE Settle(j)
    BY <2>4, RevisionFrame DEF Settle, Goto, Creating, TypeOK, Actors, Jobs,
       IngestJobs
  <2> QED
    BY <1>2, <2>1, <2>2, <2>3, <2>4
       DEF Jobs
<1>3. ASSUME NEW j \in IngestJobs, IngestStep(j) PROVE RevisionInv'
  <2>1. CASE Extract(j)
    BY <2>1, IngestionAssumption DEF Extract, Throws, Continues, Goto,
       RevisionInv, OneActiveRevision, Exists, TypeOK, Actors, Jobs,
       IngestJobs
  <2>2. CASE ReadOrdinal(j)
    BY <2>2, OrdinalFacts DEF ReadOrdinal, IsNextOrdinal, Continues, Goto,
       RevisionInv, OneActiveRevision, Exists, TypeOK, Actors, Jobs,
       IngestJobs
  <2>3. CASE FindActive(j)
    BY <2>3 DEF FindActive, Continues, Goto, RevisionInv, OneActiveRevision,
       Exists, TypeOK, Actors, Jobs, IngestJobs
  <2>4. CASE PinRevision(j)
    BY <2>4, RevisionFrame DEF PinRevision, Throws, Continues, Goto,
       Creating, TypeOK, Actors, Jobs, IngestJobs
  <2>5. CASE CountMissing(j)
    BY <2>5, RevisionFrame DEF CountMissing, Continues, Goto, Creating,
       TypeOK, Actors, Jobs, IngestJobs
  <2>6. CASE Deactivate(j)
    BY <2>6 DEF Deactivate, NoneActive, Continues, Goto, RevisionInv,
       OneActiveRevision, Exists, TypeOK, Actors, Jobs, IngestJobs
  <2>7. CASE CreateRevision(j)
    <3>1. CASE ~(source = "present" /\ ~OrdinalTaken(ordinal[j]))
      BY <2>7, <3>1, RevisionFrame DEF CreateRevision, Throws, Goto, Creating,
         TypeOK, Actors, Jobs, IngestJobs
    <3>2. CASE source = "present" /\ ~OrdinalTaken(ordinal[j])
      BY <2>7, <3>2, CreationPreserves DEF CreateRevision, OrdinalTaken, Continues, Goto,
         TypeOK, Actors, Jobs, IngestJobs
    <3> QED
      BY <3>1, <3>2
  <2>8. CASE StoreChunks(j)
    BY <2>8, RevisionFrame DEF StoreChunks, Throws, Continues, Goto,
       Creating, TypeOK, Actors, Jobs, IngestJobs
  <2> QED
    BY <1>3, <2>1, <2>2, <2>3, <2>4, <2>5, <2>6, <2>7, <2>8
       DEF IngestStep
<1>4. ASSUME NEW j \in {"embed"}, EmbedStep(j) PROVE RevisionInv'
  <2>1. CASE LoadChunks(j)
    BY <2>1, RevisionFrame DEF LoadChunks, Continues, Goto, Creating,
       TypeOK, Actors, Jobs, IngestJobs
  <2>2. CASE Embed(j)
    BY <2>2, RevisionFrame DEF Embed, Throws, Continues, Goto, Creating,
       TypeOK, Actors, Jobs, IngestJobs
  <2>3. CASE PersistEmbeddings(j)
    BY <2>3, RevisionFrame DEF PersistEmbeddings, Continues, Goto, Creating,
       TypeOK, Actors, Jobs, IngestJobs
  <2> QED
    BY <1>4, <2>1, <2>2, <2>3
       DEF EmbedStep
<1>5. ASSUME NEW j \in Jobs, MarkFailed(j) \/ LoseNotice(j) \/ RecoverStalled(j)
      PROVE  RevisionInv'
  <2>1. CASE MarkFailed(j)
    BY <2>1, RevisionFrame DEF MarkFailed
  <2>2. CASE RecoverStalled(j)
    BY <2>2, RevisionFrame DEF RecoverStalled, Goto, Creating, TypeOK,
       Actors, Jobs, IngestJobs
  <2>3. CASE LoseNotice(j)
    BY <2>3, RevisionFrame DEF LoseNotice
  <2> QED
    BY <1>5, <2>1, <2>2, <2>3
       DEF Jobs
<1>6. ASSUME NEW a \in Actors, EnqueueStep(a) \/ Crash(a) PROVE RevisionInv'
  <2>1. CASE Reset(a)
    BY <2>1, RevisionFrame DEF Reset, Upsert, AfterEnqueue, Fails, Throws,
       Continues, Goto, Creating, TypeOK, Actors, Jobs, IngestJobs
  <2>2. CASE LookUp(a)
    BY <2>2, RevisionFrame DEF LookUp, AfterEnqueue, Continues, Goto,
       Creating, TypeOK, Actors, Jobs, IngestJobs
  <2>3. CASE LookAgain(a)
    BY <2>3, RevisionFrame DEF LookAgain, AfterEnqueue, Continues, Goto,
       Creating, TypeOK, Actors, Jobs, IngestJobs
  <2>4. CASE Add(a)
    BY <2>4, RevisionFrame DEF Add, Goto, Creating, TypeOK, Actors, Jobs,
       IngestJobs
  <2>5. CASE MarkQueued(a)
    BY <2>5, RevisionFrame DEF MarkQueued, Upsert, AfterEnqueue, Fails,
       Throws, Continues, Goto, Creating, TypeOK, Actors, Jobs, IngestJobs
  <2>6. CASE Crash(a)
    BY <2>6, RevisionFrame DEF Crash, Goto, Creating, TypeOK, Actors, Jobs,
       IngestJobs
  <2> QED
    BY <1>6, <2>1, <2>2, <2>3, <2>4, <2>5, <2>6
       DEF EnqueueStep
<1>7. ASSUME NEW q \in Requests, RequestStep(q) PROVE RevisionInv'
  <2>1. CASE ClearEmbeddings(q)
    BY <2>1, RevisionFrame DEF ClearEmbeddings, Goto, Creating, TypeOK,
       Actors, Jobs, IngestJobs
  <2>2. CASE DeleteChunks(q)
    BY <2>2, RevisionFrame DEF DeleteChunks, Goto, Creating, TypeOK, Actors,
       Jobs, IngestJobs
  <2>3. CASE DeleteRow(q)
    BY <2>3 DEF DeleteRow, Goto, RevisionInv, OneActiveRevision, Exists,
       TypeOK, Actors, Jobs, IngestJobs
  <2> QED
    BY <1>7, <2>1, <2>2, <2>3
       DEF RequestStep
<1>8. ASSUME NEW q \in Requests, RequestStarts(q) PROVE RevisionInv'
  <2>1. CASE Attach(q)
    BY <2>1 DEF Attach, Begins, Goto, QueueInv, RevisionInv,
       OneActiveRevision, Exists, TypeOK, Actors, Jobs, IngestJobs
  <2>2. CASE RetryIngestion(q)
    BY <2>2, RevisionFrame DEF RetryIngestion, Begins, Goto, Creating,
       TypeOK, Actors, Jobs, IngestJobs
  <2>3. CASE RetryEmbedding(q)
    BY <2>3, RevisionFrame DEF RetryEmbedding, Begins, Goto, Creating,
       TypeOK, Actors, Jobs, IngestJobs
  <2>4. CASE RebuildEmbedding(q)
    BY <2>4, RevisionFrame DEF RebuildEmbedding, Begins, Goto, Creating,
       TypeOK, Actors, Jobs, IngestJobs
  <2>5. CASE DeleteSource(q)
    BY <2>5, RevisionFrame DEF DeleteSource, Begins, Goto, Creating, TypeOK,
       Actors, Jobs, IngestJobs
  <2> QED
    BY <1>8, <2>1, <2>2, <2>3, <2>4, <2>5
       DEF RequestStarts
<1>9. ASSUME NEW j \in Jobs, Evict(j) PROVE RevisionInv'
  BY <1>9, RevisionFrame DEF Evict
<1>10. CASE SweepStale
  BY <1>10, RevisionFrame DEF SweepStale
<1> QED
  BY <1>1, <1>2, <1>3, <1>4, <1>5, <1>6, <1>7, <1>8, <1>9, <1>10 DEF Next, WorkerStep, Jobs

(* ReferenceInv speaks of the source, of which revisions exist, and of what *)
(* an ingestion holds when it makes the source refer to one.                *)
LEMMA ReferenceFrame ==
    ASSUME ReferenceInv, UNCHANGED <<source, pinned, content>>,
           \A j \in IngestJobs :
               \/ pc'[j] = pc[j] /\ rev'[j] = rev[j]
               \/ pc'[j] \notin {"pinReused", "pin"},
           \A q \in Requests :
               \/ pc'[q] = pc[q]
               \/ pc'[q] \notin {"deleteChunks", "deleteRow"}
    PROVE  ReferenceInv'
BY DEF ReferenceInv, Exists

LEMMA NextReference ==
    TypeOK /\ QueueInv /\ RevisionInv /\ ReferenceInv /\ [Next]_vars =>
        ReferenceInv'
<1> SUFFICES ASSUME TypeOK, QueueInv, RevisionInv, ReferenceInv, [Next]_vars
             PROVE  ReferenceInv'
  OBVIOUS
<1> USE IngestionAssumption
<1> USE DEF sourceVars, revisionVars, queueVars, localVars
<1>1. CASE UNCHANGED vars
  BY <1>1, ReferenceFrame DEF vars
<1>2. ASSUME NEW j \in Jobs, Pick(j) \/ MarkRunning(j) \/ MarkSucceeded(j) \/ Settle(j) PROVE ReferenceInv'
  <2>1. CASE Pick(j)
    BY <2>1, ReferenceFrame DEF Pick, Goto, TypeOK, Actors, Jobs, IngestJobs
  <2>2. CASE MarkRunning(j)
    BY <2>2, ReferenceFrame DEF MarkRunning, Upsert, Fails, Throws,
       Continues, Goto, TypeOK, Actors, Jobs, IngestJobs
  <2>3. CASE MarkSucceeded(j)
    BY <2>3, ReferenceFrame DEF MarkSucceeded, Continues, Goto, TypeOK,
       Actors, Jobs, IngestJobs
  <2>4. CASE Settle(j)
    BY <2>4, ReferenceFrame DEF Settle, Goto, TypeOK, Actors, Jobs,
       IngestJobs
  <2> QED
    BY <1>2, <2>1, <2>2, <2>3, <2>4 DEF Jobs
<1>3. ASSUME NEW j \in IngestJobs, IngestStep(j) PROVE ReferenceInv'
  <2>1. CASE Extract(j)
    BY <2>1, ReferenceFrame DEF Extract, Throws, Continues, Goto, TypeOK,
       Actors, Jobs, IngestJobs
  <2>2. CASE ReadOrdinal(j)
    BY <2>2, ReferenceFrame DEF ReadOrdinal, Continues, Goto, TypeOK,
       Actors, Jobs, IngestJobs
  <2>3. CASE FindActive(j)
    BY <2>3 DEF FindActive, Revisions, ReferenceInv, Exists, Continues,
       Goto, TypeOK, Actors, Jobs, IngestJobs
  <2>4. CASE PinRevision(j)
    BY <2>4 DEF PinRevision, ReferenceInv, Exists, Throws, Continues, Goto,
       TypeOK, Actors, Jobs, IngestJobs
  <2>5. CASE CountMissing(j)
    BY <2>5, ReferenceFrame DEF CountMissing, Continues, Goto, TypeOK,
       Actors, Jobs, IngestJobs
  <2>6. CASE Deactivate(j)
    BY <2>6, ReferenceFrame DEF Deactivate, Continues, Goto, TypeOK, Actors,
       Jobs, IngestJobs
  <2>7. CASE CreateRevision(j)
    <3>1. CASE ~(source = "present" /\ ~OrdinalTaken(ordinal[j]))
      BY <2>7, <3>1, ReferenceFrame DEF CreateRevision, Throws, Goto, TypeOK,
         Actors, Jobs, IngestJobs
    <3>2. CASE source = "present" /\ ~OrdinalTaken(ordinal[j])
      <4>1. ordinal[j] \in Ordinals /\ text[j] # None
        BY <2>7 DEF CreateRevision, RevisionInv
      <4>2. \A o \in Ordinals : Exists(o)' <=> o = ordinal[j] \/ Exists(o)
        BY <2>7, <3>2, <4>1 DEF CreateRevision, Exists, TypeOK
      <4> QED
        BY <2>7, <3>2, <4>1, <4>2 DEF CreateRevision, ReferenceInv, Continues,
           Goto, TypeOK, Actors, Jobs, IngestJobs
    <3> QED
      BY <3>1, <3>2
  <2>8. CASE StoreChunks(j)
    BY <2>8, ReferenceFrame DEF StoreChunks, Throws, Continues, Goto,
       TypeOK, Actors, Jobs, IngestJobs
  <2> QED
    BY <1>3, <2>1, <2>2, <2>3, <2>4, <2>5, <2>6, <2>7, <2>8 DEF IngestStep
<1>4. ASSUME NEW j \in {"embed"}, EmbedStep(j) PROVE ReferenceInv'
  <2>1. CASE LoadChunks(j)
    BY <2>1, ReferenceFrame DEF LoadChunks, Continues, Goto, TypeOK, Actors,
       Jobs, IngestJobs
  <2>2. CASE Embed(j)
    BY <2>2, ReferenceFrame DEF Embed, Throws, Continues, Goto, TypeOK,
       Actors, Jobs, IngestJobs
  <2>3. CASE PersistEmbeddings(j)
    BY <2>3, ReferenceFrame DEF PersistEmbeddings, Continues, Goto, TypeOK,
       Actors, Jobs, IngestJobs
  <2> QED
    BY <1>4, <2>1, <2>2, <2>3 DEF EmbedStep
<1>5. ASSUME NEW j \in Jobs, MarkFailed(j) \/ LoseNotice(j) \/ RecoverStalled(j)
      PROVE  ReferenceInv'
  <2>1. CASE MarkFailed(j)
    BY <2>1, ReferenceFrame DEF MarkFailed, TypeOK, Actors, Jobs, IngestJobs
  <2>2. CASE RecoverStalled(j)
    BY <2>2, ReferenceFrame DEF RecoverStalled, Goto, TypeOK, Actors, Jobs,
       IngestJobs
  <2>3. CASE LoseNotice(j)
    BY <2>3, ReferenceFrame DEF LoseNotice, TypeOK, Actors, Jobs, IngestJobs
  <2> QED
    BY <1>5, <2>1, <2>2, <2>3 DEF Jobs
<1>6. ASSUME NEW a \in Actors, EnqueueStep(a) \/ Crash(a) PROVE ReferenceInv'
  <2>1. CASE Reset(a)
    BY <2>1, ReferenceFrame DEF Reset, Upsert, Fails, Throws, Continues,
       Goto, TypeOK, Actors, Jobs, IngestJobs
  <2>2. CASE LookUp(a)
    BY <2>2, ReferenceFrame DEF LookUp, AfterEnqueue, Continues, Goto,
       TypeOK, Actors, Jobs, IngestJobs
  <2>3. CASE LookAgain(a)
    BY <2>3, ReferenceFrame DEF LookAgain, AfterEnqueue, Continues, Goto,
       TypeOK, Actors, Jobs, IngestJobs
  <2>4. CASE Add(a)
    BY <2>4, ReferenceFrame DEF Add, Goto, TypeOK, Actors, Jobs, IngestJobs
  <2>5. CASE MarkQueued(a)
    BY <2>5, ReferenceFrame DEF MarkQueued, Upsert, AfterEnqueue, Fails,
       Throws, Continues, Goto, TypeOK, Actors, Jobs, IngestJobs
  <2>6. CASE Crash(a)
    BY <2>6, ReferenceFrame DEF Crash, Goto, TypeOK, Actors, Jobs,
       IngestJobs
  <2> QED
    BY <1>6, <2>1, <2>2, <2>3, <2>4, <2>5, <2>6 DEF EnqueueStep
<1>7. ASSUME NEW q \in Requests, RequestStep(q) PROVE ReferenceInv'
  <2>1. CASE ClearEmbeddings(q)
    BY <2>1, ReferenceFrame DEF ClearEmbeddings, Goto, TypeOK, Actors, Jobs,
       IngestJobs
  <2>2. CASE DeleteChunks(q)
    BY <2>2 DEF DeleteChunks, ReferenceInv, Exists, Goto, TypeOK, Actors,
       Jobs, IngestJobs
  <2>3. CASE DeleteRow(q)
    BY <2>3 DEF DeleteRow, ReferenceInv, Goto, TypeOK, Actors, Jobs,
       IngestJobs
  <2> QED
    BY <1>7, <2>1, <2>2, <2>3 DEF RequestStep
<1>8. ASSUME NEW q \in Requests, RequestStarts(q) PROVE ReferenceInv'
  <2>1. CASE Attach(q)
    BY <2>1 DEF Attach, ReferenceInv, QueueInv, Begins, Goto, TypeOK,
       Actors, Jobs, IngestJobs
  <2>2. CASE RetryIngestion(q)
    BY <2>2, ReferenceFrame DEF RetryIngestion, Begins, Goto, TypeOK,
       Actors, Jobs, IngestJobs
  <2>3. CASE RetryEmbedding(q)
    BY <2>3, ReferenceFrame DEF RetryEmbedding, Begins, Goto, TypeOK,
       Actors, Jobs, IngestJobs
  <2>4. CASE RebuildEmbedding(q)
    BY <2>4, ReferenceFrame DEF RebuildEmbedding, Begins, Goto, TypeOK,
       Actors, Jobs, IngestJobs
  <2>5. CASE DeleteSource(q)
    BY <2>5 DEF DeleteSource, ReferenceInv, Exists, Begins, Goto, TypeOK,
       Actors, Jobs, IngestJobs
  <2> QED
    BY <1>8, <2>1, <2>2, <2>3, <2>4, <2>5 DEF RequestStarts
<1>9. ASSUME NEW j \in Jobs, Evict(j) PROVE ReferenceInv'
  BY <1>9, ReferenceFrame DEF Evict
<1>10. CASE SweepStale
  BY <1>10, ReferenceFrame DEF SweepStale
<1> QED
  BY <1>1, <1>2, <1>3, <1>4, <1>5, <1>6, <1>7, <1>8, <1>9, <1>10
     DEF Next, WorkerStep, Jobs

LEMMA InitInv == Init => IngestionInv
BY IngestionAssumption DEF Init, IngestionInv, TypeOK, QueueInv, RevisionInv,
   ReferenceInv, OneActiveRevision, Exists, Jobs, IngestJobs, Kinds, Actors, JobStatus,
   QueueState, Pc

LEMMA NextInv == IngestionInv /\ [Next]_vars => IngestionInv'
BY NextTyped, NextQueued, NextRevision, NextReference DEF IngestionInv

(* The invariant that carries the results below.                            *)
THEOREM Invariance == Spec => []IngestionInv
BY InitInv, NextInv, PTL DEF Spec

(* Every variable keeps its type.                                           *)
THEOREM TypeCorrect == Spec => []TypeOK
BY Invariance, PTL DEF IngestionInv

(* However attach, retry and OCR requests, failures and deaths of workers   *)
(* interleave, at most one revision of a source is active.                  *)
THEOREM AtMostOneActive == Spec => []OneActiveRevision
BY Invariance, PTL DEF IngestionInv, RevisionInv

(* One process executes a job, and a job to run has an attempt left.        *)
THEOREM JobsAreExclusive == Spec => []QueueInv
BY Invariance, PTL DEF IngestionInv

(* A step changes no revision's content as long as the source exists, and   *)
(* takes a revision's chunks away only for a deletion of the source.        *)
EvidenceStep ==
    \A o \in Ordinals : Exists(o) /\ source' = "present" =>
        /\ content'[o] = content[o]
        /\ chunks[o] # "none" =>
             chunks'[o] # "none" \/ \E q \in Requests : pc[q] = "deleteChunks"

LEMMA EvidencePreserved ==
    TypeOK /\ QueueInv /\ RevisionInv /\ [Next]_vars => EvidenceStep
<1> SUFFICES ASSUME TypeOK, QueueInv, RevisionInv, [Next]_vars
             PROVE  EvidenceStep
  OBVIOUS
<1> USE DEF sourceVars, revisionVars, queueVars, localVars

<1>1. CASE UNCHANGED vars
  BY <1>1 DEF vars, EvidenceStep
<1>2. ASSUME NEW j \in Jobs, Pick(j) \/ MarkRunning(j) \/ MarkSucceeded(j) \/ Settle(j) PROVE EvidenceStep
  <2>1. CASE Pick(j)
    BY <2>1 DEF Pick, EvidenceStep
  <2>2. CASE MarkRunning(j)
    BY <2>2 DEF MarkRunning, EvidenceStep
  <2>3. CASE MarkSucceeded(j)
    BY <2>3 DEF MarkSucceeded, EvidenceStep
  <2>4. CASE Settle(j)
    BY <2>4 DEF Settle, EvidenceStep
  <2> QED
    BY <1>2, <2>1, <2>2, <2>3, <2>4
       DEF Jobs
<1>3. ASSUME NEW j \in IngestJobs, IngestStep(j) PROVE EvidenceStep
  <2>1. CASE Extract(j)
    BY <2>1 DEF Extract, EvidenceStep
  <2>2. CASE ReadOrdinal(j)
    BY <2>2 DEF ReadOrdinal, EvidenceStep
  <2>3. CASE FindActive(j)
    BY <2>3 DEF FindActive, EvidenceStep
  <2>4. CASE PinRevision(j)
    BY <2>4 DEF PinRevision, EvidenceStep
  <2>5. CASE CountMissing(j)
    BY <2>5 DEF CountMissing, EvidenceStep
  <2>6. CASE Deactivate(j)
    BY <2>6 DEF Deactivate, EvidenceStep
  <2>7. CASE CreateRevision(j)
    BY <2>7 DEF CreateRevision, EvidenceStep, OrdinalTaken, Exists,
       TypeOK
  <2>8. CASE StoreChunks(j)
    BY <2>8 DEF StoreChunks, EvidenceStep, TypeOK
  <2> QED
    BY <1>3, <2>1, <2>2, <2>3, <2>4, <2>5, <2>6, <2>7, <2>8
       DEF IngestStep
<1>4. ASSUME NEW j \in {"embed"}, EmbedStep(j) PROVE EvidenceStep
  <2>1. CASE LoadChunks(j)
    BY <2>1 DEF LoadChunks, EvidenceStep
  <2>2. CASE Embed(j)
    BY <2>2 DEF Embed, EvidenceStep
  <2>3. CASE PersistEmbeddings(j)
    BY <2>3 DEF PersistEmbeddings, EvidenceStep, TypeOK
  <2> QED
    BY <1>4, <2>1, <2>2, <2>3
       DEF EmbedStep
<1>5. ASSUME NEW j \in Jobs, MarkFailed(j) \/ LoseNotice(j) \/ RecoverStalled(j)
      PROVE  EvidenceStep
  <2>1. CASE MarkFailed(j)
    BY <2>1 DEF MarkFailed, EvidenceStep
  <2>2. CASE RecoverStalled(j)
    BY <2>2 DEF RecoverStalled, EvidenceStep
  <2>3. CASE LoseNotice(j)
    BY <2>3 DEF LoseNotice, EvidenceStep
  <2> QED
    BY <1>5, <2>1, <2>2, <2>3
       DEF Jobs
<1>6. ASSUME NEW a \in Actors, EnqueueStep(a) \/ Crash(a) PROVE EvidenceStep
  <2>1. CASE Reset(a)
    BY <2>1 DEF Reset, EvidenceStep
  <2>2. CASE LookUp(a)
    BY <2>2 DEF LookUp, EvidenceStep
  <2>3. CASE LookAgain(a)
    BY <2>3 DEF LookAgain, EvidenceStep
  <2>4. CASE Add(a)
    BY <2>4 DEF Add, EvidenceStep
  <2>5. CASE MarkQueued(a)
    BY <2>5 DEF MarkQueued, EvidenceStep
  <2>6. CASE Crash(a)
    BY <2>6 DEF Crash, EvidenceStep
  <2> QED
    BY <1>6, <2>1, <2>2, <2>3, <2>4, <2>5, <2>6
       DEF EnqueueStep
<1>7. ASSUME NEW q \in Requests, RequestStep(q) PROVE EvidenceStep
  <2>1. CASE ClearEmbeddings(q)
    BY <2>1 DEF ClearEmbeddings, EvidenceStep, TypeOK
  <2>2. CASE DeleteChunks(q)
    BY <2>2 DEF DeleteChunks, EvidenceStep
  <2>3. CASE DeleteRow(q)
    BY <2>3 DEF DeleteRow, EvidenceStep
  <2> QED
    BY <1>7, <2>1, <2>2, <2>3
       DEF RequestStep
<1>8. ASSUME NEW q \in Requests, RequestStarts(q) PROVE EvidenceStep
  <2>1. CASE Attach(q)
    BY <2>1 DEF Attach, Begins, EvidenceStep
  <2>2. CASE RetryIngestion(q)
    BY <2>2 DEF RetryIngestion, Begins, EvidenceStep
  <2>3. CASE RetryEmbedding(q)
    BY <2>3 DEF RetryEmbedding, Begins, EvidenceStep
  <2>4. CASE RebuildEmbedding(q)
    BY <2>4 DEF RebuildEmbedding, Begins, EvidenceStep
  <2>5. CASE DeleteSource(q)
    BY <2>5 DEF DeleteSource, Begins, EvidenceStep
  <2> QED
    BY <1>8, <2>1, <2>2, <2>3, <2>4, <2>5
       DEF RequestStarts
<1>9. ASSUME NEW j \in Jobs, Evict(j) PROVE EvidenceStep
  BY <1>9 DEF Evict, EvidenceStep
<1>10. CASE SweepStale
  BY <1>10 DEF SweepStale, EvidenceStep
<1> QED
  BY <1>1, <1>2, <1>3, <1>4, <1>5, <1>6, <1>7, <1>8, <1>9, <1>10 DEF Next, WorkerStep, Jobs

(* "Old evidence remains immutable."                                        *)
THEOREM OldEvidenceKept == Spec => EvidenceIsImmutable
<1>1. IngestionInv /\ [Next]_vars => [EvidenceStep]_revisionVars
  BY EvidencePreserved DEF IngestionInv
<1> QED
  BY <1>1, Invariance, PTL DEF Spec, EvidenceIsImmutable, EvidenceStep

-----------------------------------------------------------------------------
(* The refinement of RevisionLog.                                           *)

Shown == [Log!Next]_(Log!vars)

(* Revisions numbered without a gap are the first so many ordinals.         *)
LEMMA RevisionsAreNumbered ==
    ASSUME RevisionInv
    PROVE  /\ Cardinality(Revisions) \in 0..MaxRevisions
           /\ Revisions = 1..Cardinality(Revisions)
<1> DEFINE n == Cardinality(Revisions)
<1> USE IngestionAssumption
<1>1. IsFiniteSet(Ordinals) /\ Cardinality(Ordinals) = MaxRevisions
  BY FS_Interval DEF Ordinals
<1>2. IsFiniteSet(Revisions) /\ n \in Nat /\ n <= MaxRevisions
  BY <1>1, FS_Subset, FS_CardinalityType DEF Revisions
<1>3. ASSUME NEW o \in Revisions PROVE o <= n
  <2>1. o \in Nat /\ 1..o \subseteq Revisions
    BY DEF RevisionInv, Revisions, Ordinals
  <2>2. Cardinality(1..o) = o
    BY <2>1, FS_Interval
  <2> QED
    BY <1>2, <2>1, <2>2, FS_Subset
<1>4. Revisions \subseteq 1..n
  BY <1>2, <1>3 DEF Revisions, Ordinals
<1>5. IsFiniteSet(1..n) /\ Cardinality(1..n) = n
  BY <1>2, FS_Interval
<1>6. Revisions = 1..n
  BY <1>4, <1>5, FS_Subset
<1> QED
  BY <1>2, <1>6

(* What the log shows are the source, the revisions and which is active.    *)
LEMMA HiddenStep ==
    ASSUME UNCHANGED <<source, pinned, content, active>> PROVE Shown
BY DEF Shown, Log!vars, Revisions, Exists

LEMMA ReferStep ==
    ASSUME IngestionInv, NEW j \in IngestJobs, PinRevision(j) PROVE Shown
<1> USE DEF sourceVars, revisionVars, localVars
<1>1. CASE source = "present"
  <2>1. rev[j] \in Revisions
    BY <1>1 DEF PinRevision, IngestionInv, ReferenceInv, Revisions
  <2>2. pinned' \in 1..Cardinality(Revisions)
    BY <1>1, <2>1, RevisionsAreNumbered DEF PinRevision, IngestionInv
  <2>3. Cardinality(Revisions) \in Nat
    BY RevisionsAreNumbered DEF IngestionInv
  <2>4. pinned' \in 1..Len([o \in 1..Cardinality(Revisions) |-> content[o]])
    BY <2>2, <2>3
  <2>5. UNCHANGED <<source, content, active>>
    BY DEF PinRevision
  <2>6. Log!Refer
    BY <1>1, <2>4, <2>5 DEF Log!Refer, Revisions, Exists
  <2> QED
    BY <2>6 DEF Shown, Log!Next
<1>2. CASE source # "present"
  BY <1>2, HiddenStep DEF PinRevision
<1> QED
  BY <1>1, <1>2

LEMMA RetireStep ==
    ASSUME IngestionInv, NEW j \in IngestJobs, Deactivate(j) PROVE Shown
<1> USE DEF sourceVars, revisionVars, localVars
<1>1. \A o \in Ordinals : ~active'[o]
  BY DEF Deactivate, NoneActive
<1>2. UNCHANGED <<source, pinned, content>>
  BY DEF Deactivate
<1>3. Log!Retire
  BY <1>1, <1>2 DEF Log!Retire, Revisions, Exists
<1> QED
  BY <1>3 DEF Shown, Log!Next

LEMMA WriteStep ==
    ASSUME IngestionInv, NEW j \in IngestJobs, CreateRevision(j) PROVE Shown
<1> USE DEF sourceVars, revisionVars, localVars
<1> DEFINE n == ordinal[j]
<1>1. CASE ~(source = "present" /\ ~OrdinalTaken(n))
  BY <1>1, HiddenStep DEF CreateRevision
<1>2. CASE source = "present" /\ ~OrdinalTaken(n)
  <2>1. /\ content' = [content EXCEPT ![n] = text[j]]
        /\ active' = [active EXCEPT ![n] = TRUE]
        /\ UNCHANGED <<source, pinned>>
    BY <1>2 DEF CreateRevision
  <2>2. /\ n \in Ordinals /\ text[j] # None
        /\ \A o \in Ordinals : /\ Exists(o) <=> o < n
                               /\ ~active[o]
                               /\ active'[o] <=> o = n
                               /\ Exists(o)' <=> o <= n
    BY <1>2, <2>1, CreationFacts
       DEF CreateRevision, IngestionInv, OrdinalTaken
  <2>3. n \in Nat /\ n >= 1
    BY <2>2, OrdinalFacts
  <2>4. Revisions = 1..(n - 1)
    BY <2>2, <2>3, IngestionAssumption DEF Revisions, Ordinals
  <2>5. Revisions' = 1..n
    BY <2>2, <2>3, IngestionAssumption DEF Revisions, Ordinals
  <2>6. Cardinality(Revisions) = n - 1 /\ Cardinality(Revisions') = n
    BY <2>3, <2>4, <2>5, FS_Interval
  <2> DEFINE old == [o \in 1..(n - 1) |-> content[o]]
             new == [o \in 1..n |-> content'[o]]
  <2>7. text[j] \in IngestJobs \X Contents
    BY <2>2 DEF IngestionInv, TypeOK
  <2>8. Len(old) = n - 1
    BY <2>3
  <2>9. new = Append(old, text[j])
    <3>1. \A o \in 1..(n - 1) : content'[o] = content[o]
      BY <2>1, <2>3 DEF IngestionInv, TypeOK
    <3>2. content'[n] = text[j]
      BY <2>1, <2>2 DEF IngestionInv, TypeOK
    <3> QED
      BY <2>3, <2>8, <3>1, <3>2
  <2>10. /\ \E o \in Ordinals : active'[o]
         /\ (CHOOSE o \in Ordinals : active'[o]) = n
    BY <2>2
  <2>11. ~\E o \in Ordinals : active[o]
    BY <2>2
  <2>12. [o \in 1..Cardinality(Revisions) |-> content[o]] = old
    BY <2>6
  <2>13. [o \in 1..Cardinality(Revisions') |-> content'[o]] = new
    BY <2>6
  <2>14. n = Len(old) + 1
    BY <2>3, <2>8
  <2> HIDE DEF old, new, n
  <2>15. Log!Write
    BY <1>2, <2>1, <2>7, <2>9, <2>10, <2>11, <2>12, <2>13, <2>14
       DEF Log!Write
  <2> QED
    BY <2>15 DEF Shown, Log!Next
<1> QED
  BY <1>1, <1>2

(* The second of two deletions finds a source that is gone.                 *)
LEMMA DeleteStep ==
    ASSUME IngestionInv, NEW q \in Requests, DeleteRow(q) PROVE Shown
<1> USE DEF sourceVars, revisionVars, localVars
<1>1. /\ source' = "deleted" /\ pinned' = 0
      /\ \A o \in Ordinals : content'[o] = None /\ ~active'[o]
  BY DEF DeleteRow
<1>2. Revisions' = {} /\ Cardinality(Revisions') = 0
  BY <1>1, FS_EmptySet DEF Revisions, Exists
<1>3. [o \in 1..Cardinality(Revisions') |-> content'[o]] = <<>>
  BY <1>2
<1>4. ~\E o \in Ordinals : active'[o]
  BY <1>1
<1>5. CASE source = "present"
  <2>1. Log!Delete
    BY <1>1, <1>3, <1>4, <1>5 DEF Log!Delete
  <2> QED
    BY <2>1 DEF Shown, Log!Next
<1>6. CASE source # "present"
  <2>1. source = "deleted" /\ pinned = 0
    BY <1>6 DEF DeleteRow, IngestionInv, ReferenceInv, TypeOK
  <2>2. \A o \in Ordinals : content[o] = None /\ ~active[o]
    BY <1>6 DEF IngestionInv, RevisionInv, Exists
  <2>3. Revisions = {} /\ Cardinality(Revisions) = 0
    BY <2>2, FS_EmptySet DEF Revisions, Exists
  <2>4. [o \in 1..Cardinality(Revisions) |-> content[o]] = <<>>
    BY <2>3
  <2> QED
    BY <1>1, <1>3, <1>4, <2>1, <2>2, <2>4 DEF Shown, Log!vars
<1> QED
  BY <1>5, <1>6

LEMMA AttachStep ==
    ASSUME NEW q \in Requests, Attach(q) PROVE Shown
<1>1. Log!Attach
  BY DEF Attach, Begins, Log!Attach, revisionVars, Revisions, Exists
<1> QED
  BY <1>1 DEF Shown, Log!Next

(* All other steps are hidden.                                              *)
LEMMA StepShown == IngestionInv /\ [Next]_vars => Shown
<1> SUFFICES ASSUME IngestionInv, [Next]_vars PROVE Shown
  OBVIOUS
<1> USE DEF sourceVars, revisionVars, queueVars, localVars
<1>1. CASE UNCHANGED vars
  BY <1>1, HiddenStep DEF vars
<1>2. ASSUME NEW j \in Jobs, Pick(j) \/ MarkRunning(j) \/ MarkSucceeded(j) \/ Settle(j) PROVE Shown
  BY <1>2, HiddenStep DEF Pick, MarkRunning, MarkSucceeded, Settle
<1>3. ASSUME NEW j \in IngestJobs, IngestStep(j) PROVE Shown
  <2>1. CASE Extract(j) \/ ReadOrdinal(j) \/ FindActive(j)
    BY <2>1, HiddenStep DEF Extract, ReadOrdinal, FindActive
  <2>2. CASE CountMissing(j) \/ StoreChunks(j)
    BY <2>2, HiddenStep DEF CountMissing, StoreChunks
  <2> QED
    BY <1>3, <2>1, <2>2, ReferStep, RetireStep, WriteStep DEF IngestStep
<1>4. ASSUME NEW j \in {"embed"}, EmbedStep(j) PROVE Shown
  BY <1>4, HiddenStep DEF EmbedStep, LoadChunks, Embed, PersistEmbeddings
<1>5. ASSUME NEW j \in Jobs, \/ MarkFailed(j) \/ LoseNotice(j)
                            \/ RecoverStalled(j) \/ Evict(j)
      PROVE  Shown
  BY <1>5, HiddenStep DEF MarkFailed, LoseNotice, RecoverStalled, Evict
<1>6. ASSUME NEW a \in Actors, EnqueueStep(a) \/ Crash(a) PROVE Shown
  BY <1>6, HiddenStep
     DEF EnqueueStep, Reset, LookUp, LookAgain, Add, MarkQueued, Crash
<1>7. ASSUME NEW q \in Requests, RequestStep(q) PROVE Shown
  BY <1>7, HiddenStep, DeleteStep DEF RequestStep, ClearEmbeddings, DeleteChunks
<1>8. ASSUME NEW q \in Requests, RequestStarts(q) PROVE Shown
  BY <1>8, HiddenStep, AttachStep
     DEF RequestStarts, Begins, RetryIngestion, RetryEmbedding,
         RebuildEmbedding, DeleteSource
<1>9. CASE SweepStale
  BY <1>9, HiddenStep DEF SweepStale
<1> QED
  BY <1>1, <1>2, <1>3, <1>4, <1>5, <1>6, <1>7, <1>8, <1>9
     DEF Next, WorkerStep, Jobs

LEMMA InitShown == Init => Log!Init
<1> SUFFICES ASSUME Init PROVE Log!Init
  OBVIOUS
<1>1. Revisions = {} /\ Cardinality(Revisions) = 0
  BY FS_EmptySet DEF Init, Revisions, Exists
<1>2. [o \in 1..Cardinality(Revisions) |-> content[o]] = <<>>
  BY <1>1
<1>3. ~\E o \in Ordinals : active[o]
  BY DEF Init
<1> QED
  BY <1>2, <1>3 DEF Init, Log!Init

(* However ingestion, OCR, retries, deletions, failures and deaths of       *)
(* workers interleave, the revisions of a source are a log that only grows  *)
(* while the source exists, the current one is retired before the next one  *)
(* is written, and the source refers to one that exists.                    *)
THEOREM IngestionImplementsLog == Spec => ImplementsLog
<1>1. Spec => Log!Init /\ [][Shown]_(Log!vars)
  BY InitShown, StepShown, Invariance, PTL DEF Spec
<1> QED
  BY <1>1, StepShown, InitShown, Invariance, PTL
     DEF Spec, Shown, ImplementsLog, Log!Spec
=============================================================================
