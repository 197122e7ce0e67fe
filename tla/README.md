# AQlibrary+ in TLA+

Models of the concurrent core of AQlibrary+, the runs that check them with TLC,
and theorems about them that TLAPS proves for every size of the system.
All paths are relative to the repository; `services/`, `queues/`, `workers/` and
`routes/` are those of `src/backend/src/`.

## 1. The system

AQlibrary+ is a library of saved URLs and files. An Express server and a worker
process (`worker.ts`, five BullMQ workers) share a Postgres database (Prisma) and
a Redis (BullMQ queues). A Python service (FastAPI and Celery, `src/ai-tagger`)
computes tags; a React frontend polls the server; a browser service
(`src/icn`) opens institutional sites. Nothing holds a lock across an `await`:
processes meet in rows of the database, and what protects a row is a `where`
clause, a unique index, a foreign key, or nothing.

| component | state | operations | hard part | must hold |
|---|---|---|---|---|
| AI tagging (`aiTagJobStart`, `aiTagJobFinalize`, `aiTagUrlAuto`, `aiTagAuto`, queues and workers `aiTagUrl`, `aiTagFile`, `routes/aiTag.routes.ts`, `pyTaggerClient`) | `taggingStatus`, `taggingJobId`, stored tags of a row; the queue job; the Celery job | claim, start or reuse a job, poll, store success or failure, enqueue | many callers, one row, claims by compare-and-swap, 8 s against 120 s timeouts, results that expire | a claim has a holder, a stored job has a finalizer, status and job id agree, SUCCESS is real, a reservation ends |
| Tag merging and file edits (`aiTagPersistence`, `tag-transfer`, `PATCH /files/:id`, rename, tag rename) | name, path, tags and buckets, favorite mark of a file; its bytes | store result, edit, transfer, rename, delete | read, work on disk, write back, without a lock | bytes are at one path, columns agree |
| Saved URL operations (`savedUrlOperation` service, queue, worker, routes) | `OperationRun`, `OperationRunItem`, queue job | create, run item by item with retries, cancel, retry failed, clear | cancel against worker, redelivery after a crash | counters and status are those of the items, attempts are counted, cancel stops the loop, a run ends |
| Notebook ingestion (`notebook`, `jobTelemetry`, `systemStatus` services; `ingestion`, `embedding` queues and workers) | `NotebookSource`, `SourceRevision`, `SourceChunk`, `IngestionJob`, `EmbeddingJob`, two queues | attach, retry, OCR, rebuild index, delete, ingest, embed, sweep stale rows | two ingestions at once, crash between statements, retained job ids | one active revision, old evidence immutable, jobs end |
| Folder tree (`routes/file.routes.ts`) | `Folder.parentId`, `deletedAt` of folders and files | create, move, rename, trash, restore, delete | cycle check and walks are many statements | a forest, trash closed below, walks end |
| Chunked upload (`routes/file.routes.ts`, `AdvancedFileUpload.tsx`) | chunk directory, final file, `StoredFile`; the browser's loop | chunk, finalize, pause, resume, cancel, expiry | two finalizers, aborted requests that go on, cleanup against a slow upload | a file is all of its chunks, "completed" is stored |
| Documents, provenance (`document`, `provenance` services) | `Document`, `DocumentRevision`, `CaptureEvent` | ensure revision, repair a link, record a capture | ordinal from an aggregate, deletions meanwhile | no gaps, a snapshot in the document of its URL |
| Governance graph (`governanceGraphSync`) | traces and what hangs on them, agencies, issues | project a tagging result in one transaction | READ COMMITTED, row locks, deadlocks | traces of one result, status and traces together |
| URLs, collections, purposes (`url`, `collectorPurpose` services, `collection.routes.ts`) | `Url`, `CollectionUrl`, `CollectorPurposeUrl`, tagging queue | save many, find or create, add, remove, assign, select, delete | unique canonical address, transactions that fail part-way | nothing saved is left untagged, all or nothing |
| Collector page (`UrlCollectorPage.tsx`, `useCollectorJobs.ts`) | what is shown, spinners, job console, epoch and abort controllers | search, load more, recover, cancel, clear, reload | late answers | rows of the query shown, cancellations stay, every end is seen |
| Tagger service (`ai-tagger/app.py`, `tasks.py`) | Celery task, ingress file, cached result | create, tag, retry, time limits, stop of the worker | retry after the input was removed | an upload is used up, an empty result has a cause, jobs end |
| LLM map (`ai-tagger/structured_intelligence.py`, `structured_openai.py`) | units, windows, receipts of calls | cut, pack, map with retries and halving, judge | partial failure | a complete map has read and judged everything |
| Browser node (`src/icn`) | one browser context, its pages, the promise chain | capture, search, inspect, log in, status, shut down | turns, relaunches, a user at the window | one browser, no page left open, login survives, requests answered |
| Chunking (`notebook.service`) | none | split a text, map offsets to pages | offsets counted in one text, pages in another | nothing left out, evidence cited where it is |
| Notebook chat (`ChatPanel.tsx`, `notebookClient`, `notebook.controller`, `notebookChat`) | `NotebookChatRun`, messages, the stream and the panel | ask, stop, stream, fetch the history, delete the notebook | events and aborts arrive late | a conversation is that of its notebook, answers are stored |
| Search, discovery, crawling, governance reading and workspace, audit, auth, other views | rows of their own | single statements, read-only queries, outbound calls, rendering | - | - |

`PROJECT.json` lists every component with its status, and under "hazards" each
place that is hard to test, with the properties that watch it.

## 2. Modules

| module | models |
|---|---|
| `AiTagging` | one row, its callers, its queue job and the tagger's jobs as the backend sees them |
| `TaggingLifecycle` | the abstract specification it implements |
| `SavedUrlOperation` | runs, items, deliveries of queue jobs, cancel/retry/clear requests |
| `NotebookIngestion` | one source, two ingestion jobs, the embedding job, requests |
| `RevisionLog` | the abstract specification it implements |
| `FolderTree` | handlers that move, trash, restore and delete folders and files |
| `StoredFileEdits` | handlers and jobs that edit one file, and its bytes |
| `ChunkUpload` | one upload: the browser's loop, its requests, their handlers |
| `DocumentHistory` | revisions of captured and uploaded files |
| `GovernanceProjection` | transactions that replace the traces of a tagging result |
| `UrlLibrary` | saving, collecting, assigning and deleting `Url` rows |
| `CollectorSearch` | the searches of the collector page and its job console |
| `MapCoverage` | the LLM map of one document |
| `Chunking` | the splitter of a text and the pages of its chunks |
| `Texts` | `MapCoverage` and `Chunking` together: a text is covered |
| `NotebookChat` | the chat panel, the stream, the stored runs |
| `Views` | `CollectorSearch` and `NotebookChat` together: what is shown is current |
| `CaptureNode` | the browser node |
| `TaggerJob` | the jobs of the tagger service |
| `AiTaggingProofs`, `SavedUrlOperationProofs`, `NotebookIngestionProofs` | theorems about the module they are named after |
| `FileProofs` | theorems about `FolderTree`, `StoredFileEdits` and `ChunkUpload` |
| `RecordProofs` | theorems about `DocumentHistory`, `GovernanceProjection` and `UrlLibrary` |
| `ViewProofs` | theorems about `CollectorSearch` and `NotebookChat` |
| `TextProofs` | theorems about `MapCoverage` and `Chunking` |
| `ServiceProofs` | theorems about `CaptureNode` and `TaggerJob` |
| `MCAiTagging`, `MCSavedUrlOperation`, `MCNotebookIngestion` | one module for TLC: symmetry, views, constraints |
| `MCFiles`, `MCRecords`, `MCServices` | several modules for TLC, see below |

**Granularity.** One action is one database statement or transaction, one queue
command, or one call of the outside world (tagger, extraction, embedding, the
work of an item). Everything between two `await`s that only touches locals
belongs to the action before it. The program counter `pc` of an actor names the
statement it will execute next.

**Processes that die.** `Crash` stops an actor wherever it is; its rows stay as
they are. BullMQ's stalled-job check (`QueueStalls`, `StallJob`,
`RecoverStalled`) delivers its job again, once by default
(`maxStalledCount`), and then fails it. Request handlers are not resumed.

**BullMQ** (external) is modelled from how the code uses it: a job id that exists
in any state makes `add` a no-op, finished jobs stay under their id until they
are evicted (`removeOnComplete: 1000`, `removeOnFail: 5000`), attempts of a job
count what it threw, not what it stalled.

**Sums.** `MCFiles`, `MCRecords` and `MCServices` put modules side by side that
share no variable. `side` says which one is explored while the others keep idle
values, so a run explores the union of their state spaces, not the product. The
modules they explore are extended (`FolderTree`, `StoredFileEdits` and `ChunkUpload`;
`DocumentHistory`, `GovernanceProjection`, `UrlLibrary`, `CollectorSearch` and
`NotebookChat` through `Views`, `MapCoverage` and `Chunking` through `Texts`;
`CaptureNode` and `TaggerJob`), so that the runs check the very formulas that are
proved. In `MCRecords` they share their model values, so that one symmetry serves
them all.

**History variables.** Some properties are promised only as long as something
rare has not happened. A flag remembers that it did: `raced`, `uploadRaced` and `overlapped`
(another handler wrote meanwhile), `died`, `unlinked`, `retagged`, `expired`, `spoiled` (the
assembly of an upload failed), `deleted`, `urlDeleted`,
`fileDeleted`, `disturbed`, `missed`, `cutLate`, `old`. Each stands for a
behaviour the code really has; section 3 says what the property would be without
it. No action reads a flag, except
to do the rare thing once.

### AiTagging

`rowStatus` and `rowJobId` are the columns; a `taggingJobId` is a record: nothing, a claim
token (`makeClaimToken`) or a remote job id, each named by the call it comes
from. `startOrReuseAiTagJobFor*` is `ReadRow`, `WaitForClaim`, `Inspect`,
`Release`, `TakeClaim`, `StartJob`, `StoreJobId`, `StartFails`;
`awaitTerminalJobState` and the finalizers are `PollJob`, `PollTimesOut`,
`ApplySuccess`; the worker is `TakeJob`, `SkipTagged`, `RunFails`, `FinishJob`;
`enqueueAiTagUrl` is the `Enqueue*` actions, one per queue command or update.
`SwapRow` is `updateMany` with the expected job id in its `where`, `WriteRow` an
update without one: which of the two the code uses is what most of the
properties depend on. The reply of the tagger for each state of a job is
`JobReply` (from `app.py`), and how the client sees it `JobReplies`. `Kind`
selects the URL's code or the file's. A file's worker does not skip what is
tagged, and both its worker and its route refuse a type that cannot be tagged
(`RefuseType`): they write NONE and no job id over whatever claim or job the row
holds, which is the step `Refuse` of the lifecycle. A rename may change the type between
two looks (`TypeVerdicts`).

### SavedUrlOperation

`processSavedUrlOperationRun` is `TakeJob`, `MarkRunning`, `NextItem`,
`BeginItem`, `CountAttempt`, `Perform`, `RecordItem`, `TallyItems`,
`StoreTally`, `ReadLatest`, `EndRun`; the run's status is read in `TakeJob`,
`NextItem` and `ReadLatest` and written elsewhere, so a cancellation (read in
`CancelReads`, committed in `CancelCommits`) fits between any two. `calls` and
`lateStarts` are history variables: how often the work of an item was really
called, and how many items were started after the run was canceled.

### NotebookIngestion

A revision is known by its ordinal, `@@unique([sourceId, ordinal])`.
`createChunksForSource` is `ReadOrdinal`, `FindActive`, then either
`PinRevision`, `CountMissing` (a revision with the same content and pipeline is
reused) or `Deactivate`, `CreateRevision`, `PinRevision`, `StoreChunks`. The
enqueue functions are `LookUp` (`isActive`), `LookAgain` (`isWaiting`), `Add`,
`MarkQueued`. `Upsert` throws when the source is gone (a foreign key),
`updateMany` is a no-op then. A revision's chunks are "plain" until all of them
are embedded. The "failed" event of a queue job is one of the worker's process
(`notice`): its handler writes the row (`MarkFailed`), or the process dies first
and nobody hears of the failure again (`LoseNotice`). Not in the model: pages (stored and deleted with the chunks),
progress fields, the batches in which embeddings are stored, `isDelayed` as a
third look (a job that becomes due between the second and the third look is
treated as found), and the switch `OPENAI_ENABLED`, which is on.

### The files: FolderTree, StoredFileEdits, ChunkUpload

`FolderTree`: the cycle check of PATCH and `/move` is `WalkUp`, one query per
folder; trash, restore and delete walk a subtree down (`WalkDown`) before the
transaction that marks it (`MarkSubtree`). The two kinds of movers are told apart,
because a tree stays a forest with one of them and does not with two.

`StoredFileEdits`: an edit reads the row, renames the bytes with synchronous
calls, and writes some columns back; PATCH writes all tag columns from the row it
read. Results and transfers merge the two buckets of `tagsMeta`; renaming a tag
everywhere changes the flat column only. TLC explores names, tags and the
favorite mark one after the other, since no handler lets one depend on another;
the theorems are about all of them together.

`ChunkUpload`: the browser aborts requests but their handlers go on; a
directory is complete when every part is there, a handler stitches it part by
part (`pos`, `sum`), checks, hashes, stores the row and removes the directory.
The contents of a file are the set of parts in it.

### The records: DocumentHistory, GovernanceProjection, UrlLibrary

`DocumentHistory`: the ordinal of a new revision comes from an aggregate of an
earlier query, and the unique index refuses one of two that computed the same.
`GovernanceProjection`: statements of open transactions at READ COMMITTED; a
`deleteMany` removes what was committed when it began; an upsert waits for the row
lock (`locked`), and a cycle of waits is aborted (`BreakDeadlock`). The latest
snapshot of a URL is one that is not in the trash (`trashed`). A snapshot and its
revision appear in one step: one without a revision, whose traces would go to a
document of their own, is not in the model.
`UrlLibrary`: rows carry the transaction that wrote them until it commits; two
spellings of an address share a canonical one, and a row from before that column
has none. `createMany` of a batch, the repair of a row, P2002 and its fallback,
and the transaction of a purpose selection are steps of their own.

### The collector page, the map, the splitter, the chat

`CollectorSearch`: a row is shown as <<query, operation, page>>, which is all
that tells a wrong row from a right one. An operation captures epoch, controller
and rows in its closure when it starts. Empty pages are gone past, to the next page,
site or source; one row alone is not reranked; a suggested domain starts a
search while another is loading.

`MapCoverage`: a document is a sequence of paragraphs by length; units, windows,
the stack of halved windows, retries and the critic's batches are the code's.
What an answer contains is left out; how many items it has decides the batches.

`Chunking`: a text is a sequence of blocks by length and of gaps between them.
`FirstBlock`, `JoinBlock`, `SplitBefore`, `LongBlock` and `EndText` follow the
splitter block by block, `PushWindow` a long block window by window, and
`StorePage` stores where the pages begin, by lengths that count the NULs and CRs
which the splitter takes out first (`extra`). A character is its position, so an
offset is compared with the place the text of a chunk really has.

`NotebookChat`: a question travels from `send` through the handler, the run row
and the stream of events to the panel; the history is fetched when a notebook is
selected and after a stream that broke. An abort rejects inside `send` before the
browser handles anything else, so `SelectNotebook` and `Stop` are one action with it.
Messages and runs are sets of records, as no property is about their order. When
Node tells a handler that its request is closed depends on the version (when the
body was read, or when the connection goes): `Close` may come at any time. Whether
sources are ready (`canChat`), which the Stop button also waits for, texts and
citations are left out; while a history is loaded Stop is disabled, as in the code.

### The services: CaptureNode, TaggerJob

`CaptureNode`: `runExclusive` chains promises; a turn gets the context,
relaunches it when it is closed or of the other kind, opens a page, works and cleans
up. The user may close the window and the browser may die at any step. When
`context.close()` fails the context is forgotten and its browser may go on
(`BrowserStays`, `strays`). Calls that have no timeout may hang (`MayHang`).

`TaggerJob`: a task looks for a cached result, extracts, tags, removes its
upload, stores. What is cached depends on whether requests ask for the LLM
(`useLlm`, TAGS_USE_LLM): with it only complete maps, without it every result of a
file, the empty one too (`ShouldCache`). Its soft limit or an error make Celery retry it, its hard limit
or the end of the worker do not.

## 3. Runs

| run | question | bounds | states |
|---|---|---|---|
| `aitag_claims` | do rival requests and an enqueuer break claims and ids, is every reservation given up, and is the lifecycle implemented? (file; fairness, no deaths) | 2 requests, 1 enqueuer, 3 attempts | 156,870 |
| `aitag_worker` | do two overlapping deliveries of a file's job and two enqueuers keep status, id and result consistent? Checks the whole inductive invariant. | 2 runs, 2 enqueuers, 1 death, 2 attempts | 415,571 |
| `operation_crash` | counters, attempts, outcome and success across a death; does a queued run end? (fairness) Checks the inductive invariant `OperationInv`. | 1 run, 2 items, 2 attempts, 2 deliveries, 1 death | 80,991 |
| `operation_overlap` | how much starts after a cancellation when two live deliveries overlap? Or: a run and the retry of its failures, without a live stall (`RetryOrStall`) | 2 runs, 2 items, 2 deliveries | 2,071,067 |
| `operation_complete` | violated: success with an item left undone | 1 run, 2 items, 1 death | |
| `notebook_revisions` | one active revision, immutable evidence, and the revision log implemented, while requests interfere | 2 requests, 2 contents, 3 revisions | 650,554 |
| `notebook_ends` | does the inductive invariant survive a death at any step, do jobs end, do rows leave RUNNING unless a failure is never heard of? (fairness) | 1 request, 2 contents, 3 revisions, 2 tries, 1 death | 98,150 |
| `notebook_restart` | violated: a retried source may wait for a job that does not exist | 2 requests | |
| `files` | is the tree a forest and the trash closed, are bytes kept and columns right, is an upload whole? Checks the inductive invariants `FolderInv`, `EditInv` and `UploadInv`. | 2 requests of which 1 moves folders, 3 folders and no file or 2 and 1; 2 editors; 2 chunks, 2 requests under way; 3 hops | 1,204,133 |
| `folders_cycle` | violated: two moves close a cycle | the same, both move folders | |
| `records` | are revisions in order, traces of one result, savings complete, assignments exact, shown rows and messages current, texts covered? Checks the inductive invariants `HistoryInv`, `ProjectionInv`, `LibraryInv`, `SearchInv`, `MapInv`, `ChunkInv` and `ChatInv`. | 2 callers, 2 files, 2 `Url` ids; 2 results of 2 snapshots and 2 agencies, or 3 results; 2 requests, 2 pages, 2 collections, 4 rows, 1 deletion (`IsModest`: unlike requests ask for less); 3 searches of 2 pages, 3 epochs; texts of 3 characters in windows of 2, 2 batches, 2 attempts; 4 blocks of 4 lengths on regular pages, or 3 with wide gaps, blank pages and a stripped character; 2 notebooks, 2 questions, 2 histories under way | 1.58 million |
| `services` | has the node one browser, do logins survive, are requests answered unless a call hangs, are uploads used up, do jobs end? (fairness) Checks the inductive invariants `NodeInv` and `JobInv`. | 2 requests of 6 kinds, 2 pages each, 1 forgotten browser; 2 tasks, 1 retry, 1 stop of the worker | 444,178 |

*Why these bounds suffice.* Each hazard involves two actors of a kind plus one
that disturbs (an enqueuer, a death, a deletion, a request); one death and one
redelivery are BullMQ's default limit for a job. Two items make a loop with a
first and a last; three revisions a creation after a race; three folders a cycle
with a folder outside it, and a subtree of two levels under the root; two chunks a
file that can be half there; three searches one that is superseded, one that is
shown and one that adds to it; two agencies a deadlock, three results a third
transaction that meets what two have left; four blocks of four lengths every
pair of neighbours the splitter distinguishes, with something before and after.
Two requests and a death together are left to the theorems of section 4, which
have no bounds. `CHECK_DEADLOCK FALSE` allows that every request is answered
and every queue empty, ids are used up, or a process has exited.

Bounds that cut behaviour off: `MaxRevisions` (an ingestion that would need one
more does not go on; the liveness run has as many as it can use), `MaxCrashes`,
`MaxDeleted`, `MaxRow`, `MaxFavorites`, `MaxEpoch`, `MaxLoads`,
`MaxStops`, `MaxPages`, `MaxStrays`, `MaxText`, `MaxBlocks`, `MaxExtra`. `MaxHops` is one of the code, 200
or 100 there; three is as deep as three folders can be.

*Symmetry and views* are used in safety runs only; a view leaves out locals no
later step reads. `notebook_ends` and `notebook_restart` use the view without
symmetry, `aitag_claims` and `services` neither.

*Fairness.* Weak fairness of the steps of a live process (Node.js runs its
continuations and timers), of BullMQ handing out waiting jobs, of its
stalled-job check, and of the handler of a "failed" event while its process
lives (`LoseNotice` takes the event away, and `RunningEnds` excepts a row whose last
failure was lost so). At the browser node, of a step of a turn that cannot hang: a
launch and a navigation have timeouts, while `evaluate`, `content`, `pdf`, `body`,
`newPage` and the closing calls have none and end for certain only when the
browser they are made to is gone (`MayHang`). `RequestsAnswered` therefore
says: each request is answered, unless some turn hangs for ever or documents
embedded in each other never end. Of the steps of a
Celery task, which has time limits, and of the start of a worker that stopped
(containers restart). No fairness for requests, deaths, evictions, the
stale sweep (it runs when somebody asks for the system status), the user, nor
for the outcome of extractions, remote jobs or items: they may fail every time,
and a remote job may never end.

### What the violated runs show

1. `operation_complete`: after a death the interrupted item stays "running" and
   the run ends as success.
2. `notebook_restart`: `queue.add` under a kept id is a no-op; the row says
   PENDING, "Extraction will restart shortly.", and nothing happens.
3. `folders_cycle`: two requests move two folders under each other, both walks up find
   nothing, and the two updates close a cycle that no page shows and on which
   trash, restore and delete never end.

### Behaviours of the code the models show, without a run of their own

The models have these steps; a property that would forbid them is not
claimed, or claimed only for histories without them.

- Tagging: `enqueueAiTagUrl` writes PENDING when it finds the queue job active,
  also after that job stored its outcome. The tagger answers for a failed job
  with HTTP 500 (`ai-tagger/app.py`), on which the client throws: the code that
  handles FAILURE is never reached (`JobReplies`) and a failed job is polled
  until the time limit. `createJobFromFile` may create a second job when the
  answer of the pointer request is lost (`pyTaggerClient.ts:67`).
- Operations: an item canceled "before this item started" may be started.
- Notebook: new chunks are not embedded while an older embedding job is active, so
  that a source is ready for chat without an index. A process that dies between the
  last failure of a job and its "failed" handler leaves the row RUNNING until
  `GET /system/status` sweeps it.
- Files: `PATCH /files/:id/restore` and `PATCH /files/:id` with a folder do not
  look whether the folder is in the trash: they make or leave a live file that no page
  of the explorer shows (`HidesUnseen`). Requests that overlap with the walk over a
  subtree leave live folders below one in the trash (`raced`).
- Uploads: when parts expired or an assembly failed and its answer was lost, the
  browser, which remembers every chunk as uploaded, shows "completed" although no
  file is stored (`expired`, `spoiled`).
- Tags: a tag deleted everywhere returns with the next edit, which computes the
  column from the buckets.
- Revisions: when the first `ensureDocumentRevision` of `persistFile` fails the
  file stays without a revision (comment at `crawl.controller.ts:803`).
- Urls: `POST /collections/:id/urls` takes the P2002 of a racing `url.create` for
  "duplicate join" and answers 201 though nothing was added; two overlapping
  assignments leave the union of both; `createMany` looks at canonical addresses
  only, so a row from before that column gets a duplicate; rows created by
  collections are tagged only when saved elsewhere; a `createMany` that fails
  part-way leaves rows unscheduled.
- Collector page: a recovery canceled during its rerank ends as success; Retry
  of a failed recovery goes on with the rows of its old closure; the `finally`
  of a superseded search hides the spinner of the running one, so "Load more" can
  overlap it; "Load more" during a recovery loses rows; the answer of the assistant clears a
  search started meanwhile.
- Chat: reloading the history after a broken stream drops the unfinished
  question; a run whose process dies stays STARTED and out of the history; an
  answer shown in full but stopped before the end of its stream is replaced by
  "Stopped." until the history is fetched; the handler listens to the request's
  "close" (`notebook.controller.ts:489`), which recent versions of Node emit once
  the body was read, so that a stream may be taken for closed at once, and never
  end.
- Chunking: a blank page or any gap wider than the separator makes the offsets of
  a joined chunk drift; a blank first page is trimmed from the text but counted in
  the pages' offsets (`notebook.service.ts:840`, "MUST match how fullText is
  constructed"); so are NULs and CRs of a page, which shifts every later page
  (`extra`); an oversize flush pushes a chunk above `maxChars` and leaves its
  tail once more at the end; blocks below the minimum beside long ones are dropped; the
  branch for the separator `" "` is never taken.
- Node: a window closed by the user leaves a dead context that still matches;
  with a headless default a status poll closes the login window; a page that
  embeds itself makes the capture call itself for ever, and holds the chain; so
  does one call without a timeout that hangs; a close that fails is forgotten,
  and the next launch meets a browser that still has the profile.
- Tagger service: the ingress file of a job that failed for good or was lost
  stays; the cache never serves uploads (a fresh path is part of the
  fingerprint); a retry after the upload was removed, or a shared file renamed
  while its job waits, is tagged as empty with SUCCESS; without the LLM
  (TAGS_USE_LLM=false) such an empty result of a file that moved away after it was
  fingerprinted is cached under the file's contents, and served to a later
  task that missed nothing (`tasks.py:387`); the exception of the soft time
  limit can be swallowed by the error handling of a window, and the job runs on
  to the hard limit or ends with an incomplete map.

Seen while reading code outside the models: the effect of `NotesEditor.tsx`
(about line 283) resets the edit on every keystroke and overwrites the stored
draft; a discovered document in status FAILED without files is shown as
DISCOVERED with an error; Stop is disabled while `canChat` is false
(`ChatPanel.tsx:1653`).

## 4. Theorems

A theorem is about every number of actors, rows, values and attempts, where a run
is about two or three. In every module the argument is the same: an inductive
invariant, which holds initially and which each action preserves, and the
property from it. The invariants are defined beside the properties, under "Why",
and a run checks each of them before it is proved, which is what `TaggingInv`,
`IngestionInv`, `OperationInv` and `AllTypesOK` do in the table above.

A hypothesis is what the code supposes or what keeps values apart; each is named
where it is used, and the runs satisfy all of them:
`ValuesApart` and `DistinctPlaces` (`None` is not a name, a tag, a file; the shared file
is not an upload; files are finite in number), `WithinReach` (no more folders than
the cycle check visits), `OneMover` (one handler moves folders) and `~LiveStalls`
(BullMQ takes a job only from a process that is dead).

**AiTaggingProofs**, from the assumptions of the module.

- `Invariance`: `Spec => []TaggingInv`. `StatusMatchesJobId`, `ClaimHasHolder`,
  `JobHasFinalizer` and `SuccessIsBacked` are not inductive by themselves. A
  successful swap must know that what it replaces is its own claim, and a
  finalizer that the job it awaits exists: `AwaitedJobExists` and
  `RemoteMatchesPc` (a call creates its job once, after it has the claim) and
  `AttemptInLoop` (an iteration has an attempt left) make up the difference.
- `TypeCorrect`, `ClaimIsHeld` (`ClaimHasHolder`), `JobIsAwaited` (`JobHasFinalizer`),
  `OutcomeIsHonest` (`SuccessIsBacked /\ StatusMatchesJobId`) follow from it.
- `OnlyClaimHolderRuns`: `Spec => RunningOnlyFromPending`, a step property that
  needs the invariant for the claim the row holds before the step.
- `TaggingImplementsLifecycle`: `Spec => ImplementsLifecycle`. The mapping forgets the
  queue, the polling and the tokens: the holder of a row is the call its
  `taggingJobId` names. `InitShown` maps the initial states; `CallStepShown`,
  `RunStepShown` and `EnqueueStepShown` map each step to the lifecycle's step or a
  stutter, with `HiddenStep` and `FreeingStep` for the steps that show nothing or
  only free the row. A refusal of a file by its type is the lifecycle's `Refuse`, whoever
  holds the row. It needs that a swap replaces the call's own claim, and that
  a stored job exists.

**SavedUrlOperationProofs**, from the assumptions of the module.

- `OperationInvariance`: `Spec => []OperationInv`. A delivery works with what it read:
  the items it has still to visit (`WorkInv`), its tally, and the status it read
  last. The invariant says what of this is still true of the rows. That holds of
  a run whose job no second delivery works on (`Alone`); deliveries that do overlap
  are bounded by `CancelInv`, which holds with and without them, so that the invariant
  needs no hypothesis.
- `OperationTypes` (attempts stay within their bound), `CancellationStops`
  (`CancelStopsRun`, also when deliveries overlap) and `RetriesCountRight`
  (`RetriedOutcomeMatchesItems`: as long as no job has stalled) follow.
- `CountersStayTrue` (`CountersAreTrue`) and `SuccessIsKept` (the step property
  `SuccessStays`) suppose `~LiveStalls`. With live stalls two deliveries count each
  other's items, and both are false: the code has no guard against it.

**NotebookIngestionProofs**, from `IngestionAssumption`.

- `Invariance`: `Spec => []IngestionInv`.
- `AtMostOneActive`: `Spec => []OneActiveRevision`. Deactivating and creating are
  two statements, and the next ordinal was read before both; what saves the
  source is the unique index. `RevisionInv` says how: revisions are numbered
  without a gap, an ordinal in hand is at most the next one, and after an
  ingestion has deactivated the others, only revisions at or above its own
  ordinal can have become active; the existence of one forbids its creation.
- `JobsAreExclusive` (`QueueInv`): a job in execution is active in the queue; a
  job still to run has an attempt left. `TypeCorrect` needs it for the counter of attempts.
- `OldEvidenceKept`: `Spec => EvidenceIsImmutable`, from the same invariant.
- `IngestionImplementsLog`: `Spec => ImplementsLog`. The log is appended to by
  `CreateRevision`, referred to by the two pins, and closed by the deletion; every
  other step stutters. A pin needs `ReferenceInv`: the revision it is about to refer to
  exists, unless the source has been deleted, which then refers to none.

**FileProofs**, the folders.

- `FreshInvariance`, `FolderTypes`, and from them `TrashStaysClosed`
  (`TrashIsClosed`: no live folder lies below one in the trash, and no live file gets
  there but by the two requests that do not look at the folder). As long as
  requests do not overlap, what a handler has read is still so: the part of the
  subtree it has walked is closed below (`Walked`), and the place it will write to
  is open (`UpToDate`).
- `FolderInvariance`: under `WithinReach`, `Spec => []FolderInv`, and from it
  `FoldersStayForest` (`Forest`, with `OneMover`) and `WalksMeetOnce` (`NoRevisit`). A forest is
  stated without a path: among any folders there is one whose parent is not among
  them. The cycle check has
  seen as many different folders as its hops (`ClimbsFrom`), none of them the one
  to move, and the rest of the way up is still before it: so it reaches the top
  before its hops run out, which is where `WithinReach` is used. The folder
  to move is then not above the place it goes to (`IsAbove`), and remains so, since
  only this handler moves folders. With two movers the same property is violated
  (`folders_cycle`); beyond 200 folders in one line the code gives up its check.

**FileProofs**, the edits of a file under `ValuesApart`, the upload from
`UploadAssumption` (there is a chunk, and `Nothing` is not a request or a content).

- `EditInvariance`: `Spec => []EditInv`. The bytes are at one path, whoever moves
  them (`MovedOnDisk` moves only what is there); as long as edits do not overlap
  they are where the row says, or an edit is on its way that has moved them and
  has its write still to come (`OnTheWay`). A second such edit finds nothing to move.
- `BytesStay` (`BytesAreKept`) and `ColumnsStayTrue` (`ColumnsAgree`) follow.
- `UploadInvariance`: `UploadSpec => []UploadInv`, for any number of chunks and of
  requests that are still handled. What the browser remembers is what its loop
  has passed (`BrowserInv`); until an assembly starts all of that is in the
  directory, which lacks something (`KeptInv`); so a loop that ends has had an
  assembly started, and one that has not failed ends with the row. As long as no
  request comes upon an assembly there is one at a time, which reads every
  part (`AssembledBy`). A late request that does come upon one truncates the
  file the first is still writing: the code has no guard, and the theorem says so
  by `uploadRaced`.
- `UploadsAreWhole` (`UploadIsWhole`) follows.

**RecordProofs**, the revisions, under `ValuesApart`.

- `HistoryInvariance`: `Spec => []HistoryInv`. An ordinal that waits for its
  creation is at most one above those that are taken (`OrdinalInv`), so that the unique index
  leaves it either refused or the next; until a `Url` row is deleted there is one
  row for an address at most, and a caller that has passed the repair of a
  snapshot knows the row its file is linked to (`AddressInv`). That the aggregate
  has a value at all (`HasHighest`: a finite set of revisions has one with the
  highest ordinal) follows from the well-foundedness of the strict subsets of a
  finite set, with no induction.
- `RevisionsStayInOrder` (`RevisionsInOrder`) follows.

**RecordProofs**, the governance rows, from `ProjectionAssumption` (the URL's row is
no snapshot; `Nothing` and `Failed` are neither rows nor results; rows, agencies
and traces differ).

- `ProjectionInvariance`: `ProjectionSpec => []ProjectionInv`. The results of one
  row wait for each other, as each holds its row's lock from its first statement to
  its end (`RowsInv`). What is not committed is nowhere, and the transaction of a
  file is about the file's revision (`SubjectsInv`). At READ COMMITTED a `deleteMany`
  sees only what was committed when it began: who has found the traces of its subject
  finds no other later, unless the result of the URL, which has no lock on
  the file, has come in between (`FoundInv`); so it replaces them all (`ReplacedInv`).
- `TracesOfOne` (`TracesOfOneResult`) follows. Of transactions about one revision
  that did overlap, of a file and of its URL, the invariant says nothing:
  `overlapped` remembers them, and the code has no lock against them.

**RecordProofs**, the library, from `LibraryAssumption` (there are finitely many pages, `Url`
has room for a row for each, and `Nobody` is neither a request nor a row).

- `LibraryInvariance`: `LibrarySpec => []LibraryInv`. Each request keeps to the
  statements of its kind (`StatementsFit`). What is not committed belongs to an
  open transaction, and nobody else has collected, linked or found it
  (`OwnersInv`); the memberships an assignment has cleared are its own until it ends
  (`ClearedInv`). A save has made as many rows as `createMany` was short of, and
  every page it has passed is stored (`SavingInv`); the transaction of a selection
  has a row, a selection and a link for every page it has passed (`SelectionInv`).
  No step but the deletion of a page takes a stored row or a committed link
  away (`Kept`), so that what a request has found stays while others go on.
- `SavesAreComplete` (`SavingIsComplete`): what was saved is stored and scheduled
  for tagging, and a selection is there whole or not at all.
- `AssignmentsReplace`: `LibrarySpec => AssignmentReplaces`, a step property: who ends an
  assignment that no other overlapped leaves exactly its pages.

**ViewProofs**, the collector page from `SearchAssumption`, the chat from
`ChatAssumption` (`NoOne` and `Absent` are no operation, notebook or question;
there is a page).

- `SearchInvariance`: `SearchSpec => []SearchInv`. An abort reaches an operation
  that is under way, and unless the user canceled its job something newer has begun
  since, so that it is no longer current (`ControlInv`); an operation merges rows of the
  query it began with, and while it is current that is the query shown
  (`MergedInv`). Whatever an answer is, it ends its operation or lets it go on with
  more rows (`Works`, shown of each handler), which keeps all of this.
- `CancelingIsFinal`: `SearchSpec => CanceledStays`, a step property: an operation
  whose job is canceled is over, or aborted and not current, and its next step
  drops it or reports it as canceled once more.
- `ChatInvariance`: `ChatSpec => []ChatInv`. While a question is read no history is
  awaited, and while one is it is the selected notebook's (`PanelInv`); a question
  has one run, which ends with its handler (`RunsInv`); and who has an answer at hand,
  in the stream, in a history on its way or on the screen, has it from a run that
  succeeded (`AnswersInv`). A handler that fails marks only a run that has not.
- `ViewsAreCurrent` (`ShownIsCurrent`) follows from both.

**ServiceProofs**, the browser node.

- `NodeInvariance`: `Spec => []NodeInv`. A request is in the chain once and first while it
  works (`TurnInv`); a relaunch closes before it launches (`BrowserInv`), so that
  `ProfileIsExclusive` (`TurnsAreExclusive`) holds though the shutdown closes the
  context outside the chain: but for what failed closes have left running, one
  browser is on the profile.
- `LoginIsKept`: `Spec => LoginSurvives`, a step property: headed, the context of
  a login matches what every request wants.

**ServiceProofs**, the jobs of the tagger, under `DistinctPlaces`.

- `JobInvariance`: `Spec => []JobInv`. An upload is there until its task has removed it or
  was cut late, and a shared file that is away has been missed by every task that
  wants it. With the LLM only complete results are stored for others; without it, an
  empty one is stored only for a place that some task has missed (`CacheInv`,
  `EmptyStored`), so that an empty result of a shared file has a cause, though
  perhaps in another task (`MissedBy`).
- `UploadsAreUsed` (`UploadIsUsed`) follows.

**TextProofs**, the map from `MapAssumption` (units of a document have text; sizes
and limits are positive).

- `MapInvariance`: `MapSpec => []MapInv`. Cutting has read the text up to where it
  is (`CutInv`), packing leaves each character in one place (`PackInv`), and while
  no leaf has failed each character is, for every batch of categories, in exactly
  one window still to map, one call still to make or one leaf (`ReadInv`): a call
  that is halved passes its characters on to its halves, without loss or overlap
  (`CharsOfHalves`). What claims something is judged or still to be judged
  (`ClaimsInv`).

**TextProofs**, the splitter, from `ChunkAssumption` (blocks are not empty, with an
empty line between them; the tail kept is at least as long as the shortest chunk
and shorter than the longest, as 40, 220 and 1400 are in the code).

- `ChunkInvariance`: `ChunkSpec => []ChunkInv`. Blocks follow each other at two
  characters' distance at least (`BlocksApart`); every chunk, and what is being put
  together, comes from blocks and begins and ends in one (`Genuine`), so that the
  tail that is kept is not empty, and no chunk begins or ends behind where the next
  will (`OrderInv`). A block that is long enough is in the chunks, or in a piece that
  will be pushed (`Safe`, `CoverInv`): of a piece that is flushed, whatever was
  safe stays so. While windows of a long block are pushed, all of it up to the
  next window is in the chunks. A page begins with its first block (`PagesInv`): where
  pages are joined by two characters, none is blank and nothing is stripped, the sum of the lengths of the
  pages before it is the place where it is in the text (`NextPage`).
- `TextsAreCovered` (`TextIsCovered`) follows from both.

The texts need no induction over data: a text is a function from positions, not a
recursive list of words, and what grows step by step grows in the steps of the
specification, where the invariant does the induction.

Only model-checked: liveness (`ReservationEnds`, `RunEnds`, `JobsEnd`,
`RunningEnds`, `RequestsAnswered`; TLAPS has no rule for `ENABLED` here).
`AllTypesOK` gathers the inductive invariants above for the runs that explore
several modules; each of them has its own theorem.

## 5. What is left

No property of a run that the prover can state is left without a theorem. What
could follow: the search services, should their queries come to depend on each
other, and the claims, events and positions of a trace, should they be edited
apart from it.

### Not modelled

- Text extraction, OCR, capture and crawling, discovery of documents: calls of
  parsers, browsers and sites. Where their outcome matters to a protocol it is a
  nondeterministic choice (an extraction that fails or yields new text, a page
  that embeds a document).
- Search and ranking, reading and answering from the governance graph,
  notebook retrieval, prompts, citations, tags and taxonomy: functions from text to
  text whose quality no predicate on states expresses. Claims, events and
  positions hang on their trace and come and go with it.
- Authentication, audit, logging, favicons, probes, presets, registration of
  institutional nodes, editing of purposes: single statements without a protocol.
- The React views other than the collector page, the upload loop and the chat
  panel: they render what the backend answers. They, the text analysis and the
  ranking are by far the larger part of the code by lines.
