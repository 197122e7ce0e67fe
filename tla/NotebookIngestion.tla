------------------------- MODULE NotebookIngestion -------------------------
(***************************************************************************)
(* Ingestion of one notebook source: text is extracted, stored as a new    *)
(* SourceRevision with its chunks, and the chunks are embedded, by the     *)
(* workers of the queues "ingestion" (job ids <source>__ingest and         *)
(* <source>__ocr) and "embeddings" (job id <source>).  The rows            *)
(* IngestionJob and EmbeddingJob tell the user how far it has come; HTTP   *)
(* requests attach, retry, rebuild and delete the source meanwhile.        *)
(*                                                                         *)
(* One action is one database statement or transaction, one queue command, *)
(* or the extraction or embedding itself.  A revision is known by its      *)
(* ordinal, which the database keeps unique.  OPENAI_ENABLED is true.  A   *)
(* job is executed by one process at a time: its lock is lost only when    *)
(* the process dies.                                                       *)
(***************************************************************************)
EXTENDS Naturals, FiniteSets

CONSTANTS
    Requests,         \* HTTP requests about the source
    Contents,         \* what an extraction yields
    MaxRevisions,     \* bound of the model: revisions of the source
    MaxTries,         \* BullMQ attempts of a job (5)
    MaxStalledCount,  \* BullMQ: redeliveries of a stalled job (default 1)
    MaxCrashes,       \* bound of the model: worker processes that die
    SlowJobs,         \* may a job go 30 minutes without a heartbeat?
    None              \* no content, no job

IngestJobs == {"ingest", "ocr"}
Jobs == IngestJobs \cup {"embed"}
Actors == Requests \cup Jobs
Ordinals == 1..MaxRevisions
Kinds == {"ingestion", "embedding"}
Kind(j) == IF j = "embed" THEN "embedding" ELSE "ingestion"

ASSUME IngestionAssumption ==
    /\ Requests \cap Jobs = {}
    /\ None \notin Jobs \cup (IngestJobs \X Contents)
    /\ MaxRevisions \in Nat /\ MaxTries \in Nat \ {0}
    /\ MaxStalledCount \in Nat /\ MaxCrashes \in Nat
    /\ SlowJobs \in BOOLEAN

VARIABLES
    source,    \* the NotebookSource: "absent", "present" or "deleted"
    pinned,    \* NotebookSource.activeRevisionId, 0 if null
    content,   \* SourceRevision.contentHash and pipelineConfigId
    active,    \* SourceRevision.isActive
    chunks,    \* the revision's SourceChunks: none, plain or embedded
    status,    \* IngestionJob.status and EmbeddingJob.status
    queue,     \* state of each queue job; a delayed job is waiting
    tries,     \* attempts of each queue job that failed
    stalls,    \* how often each queue job stalled
    notice,    \* the "failed" event of the job: none, due or lost
    pc, target,           \* locals of an actor; the job it enqueues
    text, ordinal, rev,   \* locals of an ingestion
    loaded,               \* the revisions whose chunks an embedding loaded
    crashes

sourceVars == <<source, pinned>>
revisionVars == <<content, active, chunks>>
queueVars == <<queue, tries, stalls, notice>>
localVars == <<text, ordinal, rev, loaded>>
vars == <<sourceVars, revisionVars, status, queueVars, pc, target, localVars,
          crashes>>

JobStatus == {"absent", "PENDING", "RUNNING", "SUCCESS", "FAILED"}
QueueState == {"absent", "waiting", "active", "finished"}
Pc == {"idle", "mark", "extract", "ordinal", "findActive", "pinReused",
       "countMissing", "deactivate", "create", "pin", "chunks", "load",
       "embed", "persist", "clear", "reset", "lookup", "lookAgain", "add",
       "markQueued", "succeed", "settle", "deleteChunks", "deleteRow", "done", "dead"}

TypeOK ==
    /\ source \in {"absent", "present", "deleted"}
    /\ pinned \in 0..MaxRevisions
    /\ content \in [Ordinals -> (IngestJobs \X Contents) \cup {None}]
    /\ active \in [Ordinals -> BOOLEAN]
    /\ chunks \in [Ordinals -> {"none", "plain", "embedded"}]
    /\ status \in [Kinds -> JobStatus]
    /\ queue \in [Jobs -> QueueState]
    /\ tries \in [Jobs -> 0..MaxTries]
    /\ stalls \in [Jobs -> 0..MaxStalledCount]
    /\ notice \in [Jobs -> {"none", "due", "lost"}]
    /\ pc \in [Actors -> Pc]
    /\ target \in [Actors -> Jobs \cup {None}]
    /\ text \in [IngestJobs -> (IngestJobs \X Contents) \cup {None}]
    /\ ordinal \in [IngestJobs -> 0..MaxRevisions]
    /\ rev \in [Actors -> 0..MaxRevisions]
    /\ loaded \in SUBSET Ordinals
    /\ crashes \in 0..MaxCrashes

Init ==
    /\ source = "absent" /\ pinned = 0
    /\ content = [o \in Ordinals |-> None]
    /\ active = [o \in Ordinals |-> FALSE]
    /\ chunks = [o \in Ordinals |-> "none"]
    /\ status = [k \in Kinds |-> "absent"]
    /\ queue = [j \in Jobs |-> "absent"]
    /\ tries = [j \in Jobs |-> 0]
    /\ stalls = [j \in Jobs |-> 0]
    /\ notice = [j \in Jobs |-> "none"]
    /\ pc = [a \in Actors |-> "idle"]
    /\ target = [a \in Actors |-> IF a \in IngestJobs THEN "embed" ELSE None]
    /\ text = [j \in IngestJobs |-> None]
    /\ ordinal = [j \in IngestJobs |-> 0]
    /\ rev = [a \in Actors |-> 0]
    /\ loaded = {}
    /\ crashes = 0

Goto(a, label) == pc' = [pc EXCEPT ![a] = label]

Exists(o) == content[o] # None
Revisions == {o \in Ordinals : Exists(o)}

-----------------------------------------------------------------------------
(* BullMQ.                                                                  *)

HasTriesLeft(j) == tries[j] + 1 < MaxTries

NotCounted(j) == tries[j]                                          \* mutant
Counted(j) == tries[j] + 1

(* The processor threw: back to the queue with a backoff, or failed; either *)
(* way the worker is told, and will mark the row FAILED.                    *)
Throws(j) ==
    /\ tries' = [tries EXCEPT ![j] = Counted(j)]
    /\ queue' = [queue EXCEPT
          ![j] = IF HasTriesLeft(j) THEN "waiting" ELSE "finished"]
    /\ notice' = [notice EXCEPT ![j] = "due"]
    /\ Goto(j, "idle")
    /\ UNCHANGED stalls

(* An actor fails: a request answers with an error, a job throws.           *)
Fails(a) ==
    IF a \in Jobs THEN Throws(a)
    ELSE Goto(a, "done") /\ UNCHANGED queueVars

Continues(a, label) == Goto(a, label) /\ UNCHANGED queueVars

StatusKept(k) == status                                            \* mutant
StatusFailed(k) ==
    IF status[k] = "absent" THEN status
    ELSE [status EXCEPT ![k] = "FAILED"]

(* The worker's "failed" handler: updateMany, a no-op without the row.      *)
MarkFailed(j) ==
    /\ notice[j] = "due"
    /\ notice' = [notice EXCEPT ![j] = "none"]
    /\ status' = StatusFailed(Kind(j))
    /\ UNCHANGED <<sourceVars, revisionVars, queue, tries, stalls, pc, target,
                   localVars, crashes>>

(* The event is one of the worker's process: BullMQ has already moved the   *)
(* job, and nobody is told again when that process dies before its handler. *)
LoseNotice(j) ==
    /\ crashes < MaxCrashes
    /\ notice[j] = "due"
    /\ notice' = [notice EXCEPT ![j] = "lost"]
    /\ crashes' = crashes + 1
    /\ UNCHANGED <<sourceVars, revisionVars, status, queue, tries, stalls, pc,
                   target, localVars>>

(* A process dies: a request is cut off, a job is found by BullMQ's         *)
(* stalled-job check.                                                       *)
Crash(a) ==
    /\ crashes < MaxCrashes
    /\ pc[a] \notin {"idle", "done", "dead"}
    /\ crashes' = crashes + 1
    /\ Goto(a, IF a \in Jobs THEN "dead" ELSE "done")
    /\ UNCHANGED <<sourceVars, revisionVars, status, queueVars, target,
                   localVars>>

RecoverStalled(j) ==
    /\ pc[j] = "dead"
    /\ IF stalls[j] < MaxStalledCount
       THEN /\ queue' = [queue EXCEPT ![j] = "waiting"]
            /\ stalls' = [stalls EXCEPT ![j] = @ + 1]
            /\ notice' = notice
       ELSE /\ queue' = [queue EXCEPT ![j] = "finished"]
            /\ notice' = [notice EXCEPT ![j] = "due"]
            /\ stalls' = stalls
    /\ Goto(j, "idle")
    /\ UNCHANGED <<sourceVars, revisionVars, status, tries, target, localVars,
                   crashes>>

(* removeOnComplete, removeOnFail: only the latest finished jobs are kept.  *)
Evict(j) ==
    /\ queue[j] = "finished"
    /\ queue' = [queue EXCEPT ![j] = "absent"]
    /\ UNCHANGED <<sourceVars, revisionVars, status, tries, stalls, notice, pc,
                   target, localVars, crashes>>

-----------------------------------------------------------------------------
(* What workers and requests share.                                         *)

(* An upsert of the job row: a foreign key makes it throw without a source. *)
Upsert(a, kind, newStatus, label) ==
    IF source = "present"
    THEN status' = [status EXCEPT ![kind] = newStatus] /\ Continues(a, label)
    ELSE status' = status /\ Fails(a)

(* Before every enqueue but one: the row is PENDING.                        *)
Reset(a) ==
    /\ pc[a] = "reset"
    /\ Upsert(a, Kind(target[a]), "PENDING", "lookup")
    /\ UNCHANGED <<sourceVars, revisionVars, target, localVars, crashes>>

(* enqueueIngestionJob, enqueueEmbeddingJob: nothing to do for a job that   *)
(* is active, or else waiting; a job picked between the two looks is missed. *)
AfterEnqueue(a) == IF a \in Jobs THEN "succeed" ELSE "done"

LookUp(a) ==
    /\ pc[a] = "lookup"
    /\ \/ queue[target[a]] = "absent" /\ Continues(a, "add")
       \/ queue[target[a]] = "active" /\ Continues(a, AfterEnqueue(a))
       \/ /\ queue[target[a]] \in {"waiting", "finished"}
          /\ Continues(a, "lookAgain")
    /\ UNCHANGED <<sourceVars, revisionVars, status, target, localVars,
                   crashes>>

LookAgain(a) ==
    /\ pc[a] = "lookAgain"
    /\ Continues(a, IF queue[target[a]] = "waiting" THEN AfterEnqueue(a)
                                                    ELSE "add")
    /\ UNCHANGED <<sourceVars, revisionVars, status, target, localVars,
                   crashes>>

(* queue.add: a job id that exists in any state makes it a no-op.           *)
Add(a) ==
    /\ pc[a] = "add"
    /\ IF queue[target[a]] = "absent"
       THEN /\ queue' = [queue EXCEPT ![target[a]] = "waiting"]
            /\ tries' = [tries EXCEPT ![target[a]] = 0]
            /\ stalls' = [stalls EXCEPT ![target[a]] = 0]
       ELSE UNCHANGED <<queue, tries, stalls>>
    /\ Goto(a, "markQueued")
    /\ UNCHANGED <<sourceVars, revisionVars, status, notice, target, localVars,
                   crashes>>

MarkQueued(a) ==
    /\ pc[a] = "markQueued"
    /\ Upsert(a, Kind(target[a]), "PENDING", AfterEnqueue(a))
    /\ UNCHANGED <<sourceVars, revisionVars, target, localVars, crashes>>

-----------------------------------------------------------------------------
(* The workers.                                                             *)

(* A deleted source is skipped, which completes the job; the embedding      *)
(* worker reads here which revision is pinned.                              *)
Pick(j) ==
    /\ pc[j] = "idle"
    /\ queue[j] = "waiting"
    /\ rev' = [rev EXCEPT ![j] = pinned]
    /\ IF source = "present"
       THEN queue' = [queue EXCEPT ![j] = "active"] /\ Goto(j, "mark")
       ELSE queue' = [queue EXCEPT ![j] = "finished"] /\ pc' = pc
    /\ UNCHANGED <<sourceVars, revisionVars, status, tries, stalls, notice,
                   target, text, ordinal, loaded, crashes>>

MarkRunning(j) ==
    /\ pc[j] = "mark"
    /\ Upsert(j, Kind(j), "RUNNING", IF j = "embed" THEN "load" ELSE "extract")
    /\ UNCHANGED <<sourceVars, revisionVars, target, localVars, crashes>>

(* Extraction, OCR and the checks of the extracted text.  The pipeline      *)
(* config, which is part of what a revision is known by, says whether OCR   *)
(* was forced.                                                              *)
Extract(j) ==
    /\ pc[j] = "extract"
    /\ \/ \E c \in Contents : /\ text' = [text EXCEPT ![j] = <<j, c>>]
                              /\ Continues(j, "ordinal")
       \/ Throws(j) /\ text' = text
    /\ UNCHANGED <<sourceVars, revisionVars, status, target, ordinal, rev,
                   loaded, crashes>>

(* createChunksForSource.                                                   *)
IsNextOrdinal(n) ==
    /\ \A o \in Revisions : o < n
    /\ n > 1 => Exists(n - 1)

IgnoresUnique(o) == FALSE                                          \* mutant
OrdinalTaken(o) == Exists(o)

KeepsOldActive == active                                           \* mutant
NoneActive == [o \in Ordinals |-> FALSE]

ReadOrdinal(j) ==
    /\ pc[j] = "ordinal"
    /\ \E n \in Ordinals :
          IsNextOrdinal(n) /\ ordinal' = [ordinal EXCEPT ![j] = n]
    /\ Continues(j, "findActive")
    /\ UNCHANGED <<sourceVars, revisionVars, status, target, text, rev, loaded,
                   crashes>>

FindActive(j) ==
    /\ pc[j] = "findActive"
    /\ LET same == {o \in Revisions : active[o] /\ content[o] = text[j]}
       IN  IF same = {}
           THEN rev' = rev /\ Continues(j, "deactivate")
           ELSE /\ \E o \in same : rev' = [rev EXCEPT ![j] = o]
                /\ Continues(j, "pinReused")
    /\ UNCHANGED <<sourceVars, revisionVars, status, target, text, ordinal,
                   loaded, crashes>>

(* notebookSource.update, for a reused revision and for a new one.          *)
PinRevision(j) ==
    /\ pc[j] \in {"pinReused", "pin"}
    /\ IF source = "present"
       THEN /\ pinned' = rev[j]
            /\ Continues(j, IF pc[j] = "pin" THEN "chunks"
                                             ELSE "countMissing")
       ELSE pinned' = pinned /\ Throws(j)
    /\ UNCHANGED <<source, revisionVars, status, target, localVars, crashes>>

(* A reused revision is embedded if it has chunks without an embedding.     *)
CountMissing(j) ==
    /\ pc[j] = "countMissing"
    /\ Continues(j, IF chunks[rev[j]] = "plain" THEN "lookup" ELSE "succeed")
    /\ UNCHANGED <<sourceVars, revisionVars, status, target, localVars,
                   crashes>>

Deactivate(j) ==
    /\ pc[j] = "deactivate"
    /\ active' = NoneActive
    /\ Continues(j, "create")
    /\ UNCHANGED <<sourceVars, content, chunks, status, target, localVars,
                   crashes>>

CreateRevision(j) ==
    /\ pc[j] = "create"
    /\ IF source = "present" /\ ~OrdinalTaken(ordinal[j])
       THEN /\ content' = [content EXCEPT ![ordinal[j]] = text[j]]
            /\ active' = [active EXCEPT ![ordinal[j]] = TRUE]
            /\ rev' = [rev EXCEPT ![j] = ordinal[j]]
            /\ Continues(j, "pin")
       ELSE Throws(j) /\ UNCHANGED <<content, active, rev>>
    /\ UNCHANGED <<sourceVars, chunks, status, target, text, ordinal, loaded,
                   crashes>>

(* The transactions that store pages and chunks.                            *)
StoreChunks(j) ==
    /\ pc[j] = "chunks"
    /\ IF source = "present"
       THEN /\ chunks' = [chunks EXCEPT ![rev[j]] = "plain"]
            /\ Continues(j, "reset")
       ELSE chunks' = chunks /\ Throws(j)
    /\ UNCHANGED <<sourceVars, content, active, status, target, localVars,
                   crashes>>

(* The embedding worker: chunks of the revision it read that lack an        *)
(* embedding; a null revision id selects the chunks of every revision.      *)
LoadChunks(j) ==
    /\ pc[j] = "load"
    /\ LET found == {o \in Ordinals : /\ chunks[o] = "plain"
                                      /\ rev[j] \in {0, o}}
       IN  /\ loaded' = found
           /\ Continues(j, IF found = {} THEN "succeed" ELSE "embed")
    /\ UNCHANGED <<sourceVars, revisionVars, status, target, text, ordinal,
                   rev, crashes>>

Embed(j) ==
    /\ pc[j] = "embed"
    /\ Continues(j, "persist") \/ Throws(j)
    /\ UNCHANGED <<sourceVars, revisionVars, status, target, localVars,
                   crashes>>

(* UPDATE "SourceChunk" by id: deleted chunks are simply not found.         *)
PersistEmbeddings(j) ==
    /\ pc[j] = "persist"
    /\ chunks' = [o \in Ordinals |->
          IF o \in loaded /\ chunks[o] = "plain" THEN "embedded"
          ELSE chunks[o]]
    /\ Continues(j, "succeed")
    /\ UNCHANGED <<sourceVars, content, active, status, target, localVars,
                   crashes>>

MarkSucceeded(j) ==
    /\ pc[j] = "succeed"
    /\ status' = IF status[Kind(j)] = "absent" THEN status
                 ELSE [status EXCEPT ![Kind(j)] = "SUCCESS"]
    /\ Continues(j, "settle")
    /\ UNCHANGED <<sourceVars, revisionVars, target, localVars, crashes>>

Settle(j) ==
    /\ pc[j] = "settle"
    /\ queue' = [queue EXCEPT ![j] = "finished"]
    /\ Goto(j, "idle")
    /\ UNCHANGED <<sourceVars, revisionVars, status, tries, stalls, notice,
                   target, localVars, crashes>>

-----------------------------------------------------------------------------
(* The requests.                                                            *)

Begins(q, job, label) ==
    /\ pc[q] = "idle"
    /\ Goto(q, label)
    /\ target' = [target EXCEPT ![q] = job]
    /\ UNCHANGED <<pinned, revisionVars, status, queueVars, text, ordinal,
                   loaded, crashes>>

(* attachUrlSource, attachFileSource: create the source, ingest it.         *)
Attach(q) ==
    /\ source = "absent" /\ source' = "present"
    /\ Begins(q, "ingest", "reset") /\ rev' = rev

(* retrySourceIngestion, runSourceOcr.                                      *)
RetryIngestion(q) ==
    /\ source = "present" /\ source' = source
    /\ \E j \in IngestJobs : Begins(q, j, "reset") /\ rev' = rev

RetryEmbedding(q) ==
    /\ source = "present" /\ source' = source
    /\ pinned # 0 /\ status["ingestion"] = "SUCCESS"
    /\ Begins(q, "embed", "reset") /\ rev' = rev

(* rebuildSourceEmbedding drops the embeddings of the pinned revision first. *)
RebuildEmbedding(q) ==
    /\ source = "present" /\ source' = source
    /\ pinned # 0
    /\ rev' = [rev EXCEPT ![q] = pinned]
    /\ Begins(q, "embed", "clear")

ClearEmbeddings(q) ==
    /\ pc[q] = "clear"
    /\ chunks' = [chunks EXCEPT ![rev[q]] =
                     IF @ = "embedded" THEN "plain" ELSE @]
    /\ Goto(q, "reset")
    /\ UNCHANGED <<sourceVars, content, active, status, queueVars, target,
                   localVars, crashes>>

(* deleteSource: chunks and pages, then the row and all that depends on it. *)
DeleteSource(q) ==
    /\ source = "present" /\ source' = source
    /\ Begins(q, None, "deleteChunks") /\ rev' = rev

DeleteChunks(q) ==
    /\ pc[q] = "deleteChunks"
    /\ chunks' = [o \in Ordinals |-> "none"]
    /\ Goto(q, "deleteRow")
    /\ UNCHANGED <<sourceVars, content, active, status, queueVars, target,
                   localVars, crashes>>

DeleteRow(q) ==
    /\ pc[q] = "deleteRow"
    /\ Goto(q, "done")
    /\ source' = "deleted" /\ pinned' = 0
    /\ content' = [o \in Ordinals |-> None]
    /\ active' = [o \in Ordinals |-> FALSE]
    /\ chunks' = [o \in Ordinals |-> "none"]
    /\ status' = [k \in Kinds |-> "absent"]
    /\ UNCHANGED <<queueVars, target, localVars, crashes>>

(* GET /system/status: markStaleRunningJobsFailed.                          *)
SweepStale ==
    \E k \in Kinds :
        /\ status[k] = "RUNNING"
        /\ SlowJobs \/ \A j \in Jobs : Kind(j) = k => pc[j] \in {"idle", "dead"}
        /\ status' = [status EXCEPT ![k] = "FAILED"]
        /\ UNCHANGED <<sourceVars, revisionVars, queueVars, pc, target,
                       localVars, crashes>>

-----------------------------------------------------------------------------
IngestStep(j) ==
    \/ Extract(j) \/ ReadOrdinal(j) \/ FindActive(j) \/ PinRevision(j)
    \/ CountMissing(j) \/ Deactivate(j) \/ CreateRevision(j) \/ StoreChunks(j)

EmbedStep(j) == LoadChunks(j) \/ Embed(j) \/ PersistEmbeddings(j)

WorkerStep(j) ==
    \/ Pick(j) \/ MarkRunning(j) \/ MarkSucceeded(j) \/ Settle(j)
    \/ j \in IngestJobs /\ IngestStep(j)
    \/ j = "embed" /\ EmbedStep(j)

EnqueueStep(a) ==
    Reset(a) \/ LookUp(a) \/ LookAgain(a) \/ Add(a) \/ MarkQueued(a)

RequestStep(q) == ClearEmbeddings(q) \/ DeleteChunks(q) \/ DeleteRow(q)

RequestStarts(q) ==
    \/ Attach(q) \/ RetryIngestion(q) \/ RetryEmbedding(q)
    \/ RebuildEmbedding(q) \/ DeleteSource(q)

Next ==
    \/ \E j \in Jobs : \/ WorkerStep(j)
                       \/ MarkFailed(j) \/ LoseNotice(j) \/ RecoverStalled(j)
    \/ \E a \in Actors : EnqueueStep(a) \/ Crash(a)
    \/ \E q \in Requests : RequestStep(q) \/ RequestStarts(q)
    \/ \E j \in Jobs : Evict(j)
    \/ SweepStale

Spec == Init /\ [][Next]_vars

(* Processes that are alive carry on, BullMQ hands out waiting jobs and     *)
(* finds stalled jobs; a process that lives on handles its "failed" events. *)
(* Nothing is assumed of GET /system/status, which somebody has to ask for. *)
Fairness ==
    /\ \A j \in Jobs : /\ WF_vars(WorkerStep(j))
                       /\ WF_vars(MarkFailed(j))
                       /\ WF_vars(RecoverStalled(j))
    /\ \A a \in Actors : WF_vars(EnqueueStep(a))
    /\ \A q \in Requests : WF_vars(RequestStep(q))

FairSpec == Spec /\ Fairness
-----------------------------------------------------------------------------
(* Properties.                                                              *)

(* At most one revision is active, although it takes two statements and     *)
(* ingestion and OCR may run at once: the unique ordinal turns the second   *)
(* of two overlapping creations away.                                       *)
OneActiveRevision ==
    \A o, p \in Ordinals : active[o] /\ active[p] => o = p

(* What makes it so, whoever dies on the way: revisions are numbered        *)
(* without a gap, nobody has read an ordinal beyond the next one, and after *)
(* the old revisions are deactivated only one at or above one's own ordinal *)
(* can have become active: one whose existence forbids one's own creation.  *)
RevisionInv ==
    /\ OneActiveRevision
    /\ \A o \in Ordinals : active[o] => Exists(o)
    /\ \A o, p \in Ordinals : Exists(o) /\ p <= o => Exists(p)
    /\ source # "present" => \A o \in Ordinals : ~Exists(o)
    /\ \A j \in IngestJobs :
         /\ pc[j] \in {"ordinal", "findActive", "deactivate", "create"} =>
              text[j] # None
         /\ pc[j] \in {"findActive", "deactivate", "create"} =>
              /\ ordinal[j] \in Ordinals
              /\ \/ ordinal[j] = 1 \/ source # "present"
                 \/ Exists(ordinal[j] - 1)
         /\ pc[j] = "create" =>
              \A o \in Ordinals : active[o] => ordinal[j] <= o

(* One process executes a job, which is active as long as it does and works *)
(* on a source that has been attached; a job that is still to run has an    *)
(* attempt left, whoever died or failed before.                             *)
QueueInv ==
    \A j \in Jobs :
        /\ pc[j] # "idle" <=> queue[j] = "active"
        /\ pc[j] # "idle" => source # "absent"
        /\ queue[j] \in {"waiting", "active"} => tries[j] < MaxTries

(* An ingestion makes the source refer to a revision that exists, unless    *)
(* the source has been deleted meanwhile: it then refers to none, whatever  *)
(* a second deletion still has to do.                                       *)
ReferenceInv ==
    /\ source # "present" => pinned = 0
    /\ \A j \in IngestJobs :
         pc[j] \in {"pinReused", "pin"} /\ source = "present" =>
             rev[j] \in Ordinals /\ Exists(rev[j])
    /\ \A q \in Requests :
         pc[q] \in {"deleteChunks", "deleteRow"} => source # "absent"

(* All of it together is inductive.                                         *)
IngestionInv == TypeOK /\ QueueInv /\ RevisionInv /\ ReferenceInv

(* "Each ingestion produces a new SourceRevision. Old evidence remains      *)
(* immutable.": only the deletion of the source changes a revision's        *)
(* content or takes its chunks away.                                        *)
EvidenceIsImmutable ==
    [][\A o \in Ordinals : Exists(o) /\ source' = "present" =>
         /\ content'[o] = content[o]
         /\ chunks[o] # "none" =>
              chunks'[o] # "none" \/ \E q \in Requests : pc[q] = "deleteChunks"
      ]_revisionVars

(* The revisions as a log, whose entries are numbered by their ordinals.    *)
Log == INSTANCE RevisionLog WITH
    Texts <- IngestJobs \X Contents,
    owner <- source,
    log <- [o \in 1..Cardinality(Revisions) |-> content[o]],
    current <- IF \E o \in Ordinals : active[o]
               THEN CHOOSE o \in Ordinals : active[o] ELSE 0,
    refersTo <- pinned

(* Ingestion and OCR, retries and deletions only ever append to the log of  *)
(* revisions, and always retire the current revision before the next one.   *)
ImplementsLog == Log!Spec

(* A queue job ends, whatever dies or fails on the way.                     *)
JobsEnd ==
    \A j \in Jobs : (queue[j] = "waiting") ~> (queue[j] \in {"finished", "absent"})

(* No row stays RUNNING, whoever dies while the job is executed: what the   *)
(* dead process would have written is written by the next delivery or at    *)
(* the last failure.  There is one gap, which only GET /system/status       *)
(* closes: a process that dies between the last failure of a job and its    *)
(* handler takes the event with it.                                         *)
Unheard(k) ==
    \E j \in Jobs : /\ Kind(j) = k /\ notice[j] = "lost"
                    /\ queue[j] \in {"finished", "absent"}

RunningEnds ==
    \A k \in Kinds :
        (status[k] = "RUNNING") ~> (status[k] # "RUNNING" \/ Unheard(k))

(* "Retry queued. Extraction will restart shortly." (NotebookPage.tsx): a   *)
(* row that is PENDING is worked on.                                        *)
RetryRestarts ==
    \A k \in Kinds : (status[k] = "PENDING") ~> (status[k] # "PENDING")
=============================================================================
