----------------------------- MODULE TaggerJob -----------------------------
(***************************************************************************)
(* The jobs of the tagger service (src/ai-tagger): POST /jobs keeps an     *)
(* uploaded file in the ingress directory and queues a Celery task;        *)
(* process_job looks for an earlier result of the same input, extracts and *)
(* tags, removes the uploaded file and stores the result for the next      *)
(* call.  A task may be cut at any step by its soft time limit or an       *)
(* error, which Celery retries, or by its hard limit or the end of the     *)
(* worker, which it does not.                                              *)
(***************************************************************************)
EXTENDS Naturals, FiniteSets

CONSTANTS
    Tasks,      \* requests to POST /jobs
    MaxRetries, \* JOB_MAX_RETRIES
    MaxStops,   \* bound of the model: how often the worker stops
    Library,    \* the shared file that pointer requests name
    Page        \* the page that url requests name

VARIABLES
    useLlm,   \* TAGS_USE_LLM: does every request ask for the LLM map?
    input,    \* what a task is about: "none", "url", "pointer" or "upload"
    present,  \* places with a file: the shared file, an upload by its task
    cache,    \* results stored in Redis: [key, result]
    state,    \* Celery's state of a task
    stage, retries,
    key,      \* fingerprint of the attempt
    result,   \* "none", "full", "partial" (map not complete) or "empty"
    worker, stops,
    missed,   \* history: tasks during which the shared file was away
    cutLate   \* history: tasks cut after their upload was read

requestVars == <<useLlm, input>>
fileVars == <<present, missed>>
workVars == <<state, stage, retries, key, result>>
jobVars == <<requestVars, fileVars, cache, workVars, worker, stops, cutLate>>

Inputs == {"url", "pointer", "upload"}
Outputs == {"full", "partial", "empty"}
Attempting == {"lookup", "extract", "cleanup", "store"}
Places == Tasks \cup {Library, Page}
Keys == Places \X BOOLEAN

JobTypeOK ==
    /\ useLlm \in BOOLEAN
    /\ input \in [Tasks -> Inputs \cup {"none"}]
    /\ present \subseteq Places
    /\ cache \subseteq [key : Keys, result : Outputs]
    /\ \A c, d \in cache : c.key = d.key => c = d
    /\ state \in [Tasks ->
           {"PENDING", "STARTED", "RETRY", "SUCCESS", "FAILURE"}]
    /\ stage \in [Tasks -> Attempting \cup
           {"new", "accepted", "queued", "failing", "done", "lost"}]
    /\ retries \in [Tasks -> 0..MaxRetries]
    /\ key \in [Tasks -> Keys]
    /\ result \in [Tasks -> Outputs \cup {"none"}]
    /\ worker \in BOOLEAN /\ stops \in 0..MaxStops
    /\ missed \subseteq Tasks /\ cutLate \subseteq Tasks

NoKey == <<Page, TRUE>>

JobInit ==
    /\ useLlm \in BOOLEAN
    /\ input = [t \in Tasks |-> "none"]
    /\ present = {Library} /\ cache = {}
    /\ state = [t \in Tasks |-> "PENDING"]
    /\ stage = [t \in Tasks |-> "new"]
    /\ retries = [t \in Tasks |-> 0]
    /\ key = [t \in Tasks |-> NoKey]
    /\ result = [t \in Tasks |-> "none"]
    /\ worker = TRUE /\ stops = 0 /\ missed = {} /\ cutLate = {}

MoveTo(t, label) == stage' = [stage EXCEPT ![t] = label]
Report(t, s) == state' = [state EXCEPT ![t] = s]

(* What an attempt holds ends with it.                                      *)
Forget(t) ==
    /\ key' = [key EXCEPT ![t] = NoKey]
    /\ result' = [result EXCEPT ![t] = "none"]

-----------------------------------------------------------------------------
(* POST /jobs: refused without a worker; a path must exist; an upload is    *)
(* written to the ingress directory before the task is queued.              *)
CreateJob(t) ==
    /\ stage[t] = "new" /\ worker
    /\ \E i \in Inputs :
        /\ i = "pointer" => Library \in present
        /\ input' = [input EXCEPT ![t] = i]
        /\ present' = IF i = "upload" THEN present \cup {t} ELSE present
    /\ MoveTo(t, "accepted")
    /\ UNCHANGED <<useLlm, cache, state, retries, key, result, worker, stops,
                   missed, cutLate>>

Delay(t) ==
    /\ stage[t] = "accepted"
    /\ MoveTo(t, "queued")
    /\ UNCHANGED <<requestVars, fileVars, cache, state, retries, key, result, worker,
                   stops, cutLate>>

-----------------------------------------------------------------------------
(* process_job.                                                             *)
Begin(t) ==
    /\ stage[t] = "queued" /\ worker
    /\ Report(t, "STARTED") /\ MoveTo(t, "lookup")
    /\ UNCHANGED <<requestVars, fileVars, cache, retries, key, result, worker, stops,
                   cutLate>>

Place(t) == CASE input[t] = "url" -> Page
              [] input[t] = "pointer" -> Library
              [] OTHER -> t

(* A file that is gone is identified by its path alone.                     *)
Fingerprint(t) == <<Place(t), Place(t) \in present \cup {Page}>>

Unlink(t) ==
    present' = IF input[t] = "upload" THEN present \ {t} ELSE present

Lookup(t) ==
    /\ stage[t] = "lookup"
    /\ key' = [key EXCEPT ![t] = Fingerprint(t)]
    /\ LET hit == {c \in cache : c.key = Fingerprint(t)}
           stale == {c \in hit : input[t] = "url" /\ c.result = "empty"}
       IN  /\ cache' = cache \ stale
           /\ \/ \E c \in hit \ stale :
                  /\ result' = [result EXCEPT ![t] = c.result]
                  /\ Unlink(t) /\ MoveTo(t, "done") /\ Report(t, "SUCCESS")
              \/ /\ hit \ stale = {}
                 /\ MoveTo(t, "extract")
                 /\ UNCHANGED <<present, state, result>>
    /\ UNCHANGED <<requestVars, missed, retries, worker, stops, cutLate>>

(* extract_and_tag_sync: a missing file is read as an empty document, a     *)
(* page may not answer.  The error of the soft time limit is one of those   *)
(* that a window of the LLM map survives as a failed one.                   *)
Readable(t) == input[t] = "url" \/ Place(t) \in present

Extract(t) ==
    /\ stage[t] = "extract"
    /\ \E out \in Outputs :
        /\ out = "partial" => useLlm
        /\ IF Readable(t) THEN out = "empty" => input[t] = "url"
                          ELSE out = "empty"
        /\ result' = [result EXCEPT ![t] = out]
    /\ MoveTo(t, "cleanup")
    /\ UNCHANGED <<requestVars, fileVars, cache, state, retries, key, worker, stops,
                   cutLate>>

Cleanup(t) ==
    /\ stage[t] = "cleanup"
    /\ Unlink(t) /\ MoveTo(t, "store")
    /\ UNCHANGED <<requestVars, missed, cache, state, retries, key, result, worker,
                   stops, cutLate>>

StoresAll(t) == TRUE                                               \* mutant
ShouldCache(t) ==
    /\ ~(input[t] = "url" /\ result[t] = "empty")
    /\ useLlm => result[t] = "full"

Store(t) ==
    /\ stage[t] = "store"
    /\ cache' = IF ShouldCache(t)
                THEN {c \in cache : c.key # key[t]}
                         \cup {[key |-> key[t], result |-> result[t]]}
                ELSE cache
    /\ key' = [key EXCEPT ![t] = NoKey]
    /\ MoveTo(t, "done") /\ Report(t, "SUCCESS")
    /\ UNCHANGED <<requestVars, fileVars, retries, result, worker, stops, cutLate>>

-----------------------------------------------------------------------------
(* An error, or the soft time limit, at any step: FAILURE is reported, then *)
(* autoretry_for queues the task again while retries are left.              *)
FileAfterError(t) == present' = present

Cut(t) ==
    /\ stage[t] \in Attempting
    /\ Report(t, "FAILURE") /\ MoveTo(t, "failing")
    /\ FileAfterError(t)
    /\ Forget(t)
    /\ cutLate' = IF stage[t] = "store" THEN cutLate \cup {t} ELSE cutLate
    /\ UNCHANGED <<requestVars, missed, cache, retries, worker, stops>>

MayAlways(t) == TRUE                                               \* mutant
MayRetry(t) == retries[t] < MaxRetries

Retry(t) ==
    /\ stage[t] = "failing"
    /\ IF MayRetry(t)
       THEN /\ Report(t, "RETRY") /\ MoveTo(t, "queued")
            /\ retries' = [retries EXCEPT ![t] = IF @ > MaxRetries
                                                 THEN @ ELSE @ + 1]
       ELSE MoveTo(t, "done") /\ UNCHANGED <<state, retries>>
    /\ UNCHANGED <<requestVars, fileVars, cache, key, result, worker, stops, cutLate>>

(* The hard time limit: Celery reports the failure and does not retry.      *)
HardLimit(t) ==
    /\ stage[t] \in Attempting
    /\ Report(t, "FAILURE") /\ MoveTo(t, "done")
    /\ Forget(t)
    /\ UNCHANGED <<requestVars, fileVars, cache, retries, worker, stops, cutLate>>

-----------------------------------------------------------------------------
(* Tasks are acknowledged when they begin: the worker's end loses those     *)
(* that run, and their state stays.                                         *)
WorkerStops ==
    /\ worker /\ stops < MaxStops
    /\ worker' = FALSE /\ stops' = stops + 1
    /\ stage' = [t \in Tasks |->
                 IF stage[t] \in Attempting \cup {"failing"} THEN "lost"
                 ELSE stage[t]]
    /\ key' = [t \in Tasks |-> NoKey]
    /\ result' = [t \in Tasks |->
                  IF stage'[t] = "lost" THEN "none" ELSE result[t]]
    /\ UNCHANGED <<requestVars, fileVars, cache, state, retries, cutLate>>

WorkerStarts ==
    /\ ~worker /\ worker' = TRUE
    /\ UNCHANGED <<requestVars, fileVars, cache, workVars, stops, cutLate>>

(* The user trashes or renames the shared file, or puts it back.            *)
FileMoves ==
    /\ present' = IF Library \in present THEN present \ {Library}
                                         ELSE present \cup {Library}
    /\ missed' = IF Library \in present
                 THEN missed \cup {t \in Tasks : input[t] = "pointer"
                                              /\ stage[t] \notin {"done", "lost"}}
                 ELSE missed
    /\ UNCHANGED <<requestVars, cache, workVars, worker, stops, cutLate>>

(* TAGGER_CACHE_TTL.                                                        *)
Expire ==
    /\ \E c \in cache : cache' = cache \ {c}
    /\ UNCHANGED <<requestVars, fileVars, workVars, worker, stops, cutLate>>

TaskStep(t) ==
    \/ Delay(t) \/ Begin(t) \/ Lookup(t) \/ Extract(t) \/ Cleanup(t)
    \/ Store(t) \/ Retry(t)

JobNext ==
    \/ \E t \in Tasks : CreateJob(t) \/ TaskStep(t) \/ Cut(t) \/ HardLimit(t)
    \/ WorkerStops \/ WorkerStarts \/ FileMoves \/ Expire

JobSpec == JobInit /\ [][JobNext]_jobVars

(* Every step has a time limit, and the containers restart the worker.      *)
JobFairness ==
    (\A t \in Tasks : WF_jobVars(TaskStep(t))) /\ WF_jobVars(WorkerStarts)

FairJobSpec == JobSpec /\ JobFairness
-----------------------------------------------------------------------------
(* Properties.                                                              *)

(* No upload stays in the ingress directory once its task has succeeded, in *)
(* whichever attempt and from whichever source its result came.             *)
UploadsAreRemoved ==
    \A t \in Tasks : state[t] = "SUCCESS" => t \notin present

(* A document is tagged as empty only for a reason outside the service, or  *)
(* since an earlier attempt was cut after it had removed the upload: no     *)
(* retry loses the text of a file, and with the LLM, whose incomplete maps  *)
(* are not stored, no result of another task does.  Without it, what a task *)
(* made of a file that had just been moved away is stored under the file's  *)
(* contents, and tasks find it there after the file is back: so for a       *)
(* shared file some task has missed it, perhaps not this one.               *)
MissedBy(t) == IF useLlm THEN t \in missed ELSE missed # {}

EmptyHasCause ==
    \A t \in Tasks :
        state[t] = "SUCCESS" /\ result[t] = "empty" =>
            \/ input[t] = "url"
            \/ input[t] = "upload" /\ t \in cutLate
            \/ input[t] = "pointer" /\ MissedBy(t)

UploadIsUsed == UploadsAreRemoved /\ EmptyHasCause

(* Why: an upload is there until its task has removed it or was cut late;   *)
(* a shared file that is away has been missed by every task that wants it;  *)
(* with the LLM, what is stored for other tasks is complete, and without    *)
(* it, what is stored as empty is so for the same reasons.                  *)
BeforeCleanup == {"accepted", "queued", "lookup", "extract", "cleanup", "failing"}

EmptyStored(place) ==
    \/ place = Library /\ missed # {}
    \/ place \in cutLate

CacheInv ==
    \A c \in cache :
        /\ useLlm => c.result = "full"
        /\ c.result = "empty" => EmptyStored(c.key[1])

JobInv ==
    /\ JobTypeOK
    /\ CacheInv
    /\ \A t \in Tasks :
        /\ t \in present => input[t] = "upload" /\ stage[t] # "store"
        /\ stage[t] = "new" <=> input[t] = "none"
        /\ state[t] = "SUCCESS" => stage[t] = "done" /\ t \notin present
        /\ input[t] = "upload" /\ stage[t] \in BeforeCleanup =>
             t \in present \cup cutLate
        /\ input[t] = "pointer" /\ stage[t] \notin {"done", "lost"} =>
             Library \in present \/ t \in missed
        /\ stage[t] \in {"extract", "cleanup", "store"} =>
             input[t] # "none" /\ key[t][1] = Place(t)
        /\ stage[t] \in {"cleanup", "store"} => result[t] \in Outputs
        /\ result[t] = "empty" =>
             \/ input[t] = "url"
             \/ input[t] = "upload" /\ t \in cutLate
             \/ input[t] = "pointer" /\ MissedBy(t)

(* Every accepted job ends, unless the worker takes it along.               *)
JobsEnd ==
    \A t \in Tasks :
        (stage[t] = "accepted") ~> (stage[t] \in {"done", "lost"})
=============================================================================
