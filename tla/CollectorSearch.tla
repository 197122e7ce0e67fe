--------------------------- MODULE CollectorSearch ---------------------------
(***************************************************************************)
(* The searches of the URL Collector page (UrlCollectorPage.tsx) and the   *)
(* job console that reports them (useCollectorJobs.ts).  A search loads    *)
(* page after page and reranks; "load more" and the recovery of official   *)
(* sources add to what is shown.  They overlap, as an answer arrives long  *)
(* after the user has searched anew, cleared the page or canceled the job; *)
(* an epoch, abort controllers and disabled buttons are to keep them apart.*)
(*                                                                         *)
(* An answer stands for the rows it holds: <<query, operation, page>>.     *)
(***************************************************************************)
EXTENDS Naturals, FiniteSets

CONSTANTS
    Operations, \* calls of handleSearch, handleLoadMore, recoverMissing...
    NoOne,
    MaxPages,   \* bound of the model: pages of one search
    MaxEpoch    \* bound of the model: how often the page is cleared or searched

VARIABLES
    epoch,      \* resultsRequestEpochRef
    controller, \* fetchAbortRef: whose requests the next search aborts
    shown,      \* searchResults
    query,      \* lastQuery: the search it belongs to
    nextPage,   \* is there a next page?
    loading, loadingMore, recovering, \* spinners, which disable buttons
    cooling,    \* the cooldown after HTTP 429
    kind, pc,   \* of an operation
    born,       \* its epoch
    aborted,    \* its controller's signal
    merged,     \* rows it has merged so far, in its closure
    root,       \* the query it adds to
    page,
    job,        \* status of its job in the console
    old         \* history: recoveries started by an old job's Retry

resultVars == <<shown, query, nextPage>>
flagVars == <<loading, loadingMore, recovering>>
opVars == <<kind, pc, born, aborted, merged, root, page>>
searchVars ==
    <<epoch, controller, resultVars, flagVars, cooling, opVars, job, old>>

ASSUME SearchAssumption ==
    NoOne \notin Operations /\ MaxPages \in Nat \ {0} /\ MaxEpoch \in Nat

Hits == Operations \X Operations \X (1..MaxPages)
Statuses == {"none", "running", "success", "failed", "interrupted", "canceled"}

SearchTypeOK ==
    /\ epoch \in 0..MaxEpoch
    /\ controller \in {NoOne} \cup Operations
    /\ shown \subseteq Hits
    /\ query \in {NoOne} \cup Operations
    /\ {nextPage, loading, loadingMore, recovering, cooling} \subseteq BOOLEAN
    /\ kind \in [Operations -> {"none", "search", "more", "recover"}]
    /\ pc \in [Operations -> {"idle", "fetch", "rerank", "done"}]
    /\ born \in [Operations -> 0..MaxEpoch]
    /\ aborted \in [Operations -> BOOLEAN]
    /\ merged \in [Operations -> SUBSET Hits]
    /\ root \in [Operations -> {NoOne} \cup Operations]
    /\ page \in [Operations -> 0..MaxPages]
    /\ job \in [Operations -> Statuses]
    /\ old \subseteq Operations

SearchInit ==
    /\ epoch = 0 /\ controller = NoOne
    /\ shown = {} /\ query = NoOne /\ nextPage = FALSE
    /\ loading = FALSE /\ loadingMore = FALSE /\ recovering = FALSE
    /\ cooling = FALSE
    /\ kind = [o \in Operations |-> "none"]
    /\ pc = [o \in Operations |-> "idle"]
    /\ born = [o \in Operations |-> 0]
    /\ aborted = [o \in Operations |-> FALSE]
    /\ merged = [o \in Operations |-> {}]
    /\ root = [o \in Operations |-> NoOne]
    /\ page = [o \in Operations |-> 0]
    /\ job = [o \in Operations |-> "none"]
    /\ old = {}

InFlight(o) == pc[o] \in {"fetch", "rerank"}

(* An abort rejects what is awaited, and the operation goes on before the   *)
(* browser handles anything else.                                           *)
Settled == \A o \in Operations : InFlight(o) => ~aborted[o]

AbortCurrent ==
    aborted' = IF controller = NoOne THEN aborted
               ELSE [aborted EXCEPT ![controller] = TRUE]

-----------------------------------------------------------------------------
(* The user starts an operation by its button or by Retry on a failed job;  *)
(* a suggested domain starts a search whatever is loading.                  *)
Retried(k) == {p \in Operations : kind[p] = k /\ job[p] = "failed"}

BeginJob(o, k, base, q, e) ==
    /\ kind' = [kind EXCEPT ![o] = k]
    /\ pc' = [pc EXCEPT ![o] = "fetch"]
    /\ born' = [born EXCEPT ![o] = e]
    /\ merged' = [merged EXCEPT ![o] = base]
    /\ root' = [root EXCEPT ![o] = q]
    /\ page' = [page EXCEPT ![o] = 1]
    /\ job' = [job EXCEPT ![o] = "running"]

HandleSearch(o) ==
    /\ Settled /\ pc[o] = "idle" /\ ~cooling /\ epoch < MaxEpoch
    /\ epoch' = epoch + 1
    /\ AbortCurrent /\ controller' = o
    /\ BeginJob(o, "search", {}, o, epoch + 1)
    /\ loading' = TRUE
    /\ shown' = {} /\ query' = o /\ nextPage' = FALSE
    /\ UNCHANGED <<loadingMore, recovering, cooling, old>>

HandleLoadMore(o) ==
    /\ Settled /\ pc[o] = "idle" /\ nextPage /\ query # NoOne
    /\ (~loading /\ ~loadingMore) \/ Retried("more") # {}
    /\ BeginJob(o, "more", shown, query, epoch)
    /\ loadingMore' = TRUE
    /\ UNCHANGED <<epoch, controller, resultVars, loading, recovering, cooling,
                   aborted, old>>

(* Retry calls the function of the render that started the failed recovery, *)
(* with the rows and the query of then.                                     *)
Recover(o) ==
    /\ Settled /\ pc[o] = "idle" /\ ~cooling /\ epoch < MaxEpoch
    /\ epoch' = epoch + 1
    /\ AbortCurrent /\ controller' = o
    /\ \/ /\ ~loading /\ ~recovering /\ query # NoOne
          /\ BeginJob(o, "recover", shown, query, epoch + 1)
          /\ old' = old
       \/ \E p \in Retried("recover") :
          /\ BeginJob(o, "recover",
                   {r \in merged[p] : r[2] # p}, root[p], epoch + 1)
          /\ old' = old \cup {o}
    /\ recovering' = TRUE
    /\ UNCHANGED <<resultVars, loading, loadingMore, cooling>>

-----------------------------------------------------------------------------
(* What an operation does when an answer arrives.                           *)
NeverChecks(o) == TRUE                                             \* mutant
Current(o) == born[o] = epoch

Report(o, status) == job' = [job EXCEPT ![o] = status]

(* catch and finally: the spinner of the operation's kind stops, also when  *)
(* another one of its kind has begun.  What the operation held is gone, but *)
(* for the rows and the query of a recovery that may be retried.            *)
Leave(o) ==
    /\ pc' = [pc EXCEPT ![o] = "done"]
    /\ born' = [born EXCEPT ![o] = 0]
    /\ aborted' = [aborted EXCEPT ![o] = FALSE]
    /\ page' = [page EXCEPT ![o] = 0]
    /\ IF kind[o] = "more"
       THEN loadingMore' = FALSE /\ UNCHANGED <<loading, recovering, controller>>
       ELSE /\ controller' = IF controller = o THEN NoOne ELSE controller
            /\ loadingMore' = loadingMore
            /\ IF kind[o] = "search"
               THEN loading' = FALSE /\ recovering' = recovering
               ELSE recovering' = FALSE /\ loading' = loading

Forget(o) ==
    /\ merged' = [merged EXCEPT ![o] = {}]
    /\ root' = [root EXCEPT ![o] = NoOne]

KeepForRetry(o) ==
    IF kind[o] = "recover" THEN UNCHANGED <<merged, root>> ELSE Forget(o)

(* Not current: the answer is dropped, as if its request had been aborted.  *)
Drop(o) ==
    Report(o, "canceled") /\ Leave(o) /\ Forget(o) /\ UNCHANGED resultVars

(* The end of an operation.  Only "load more" and the search look at the    *)
(* signal after the rerank, which an abort only makes return early.         *)
NeverLooks(o) == FALSE                                             \* mutant
SeesAbort(o) == aborted[o] /\ kind[o] # "recover"

Conclude(o) ==
    IF ~Current(o) THEN Drop(o)
    ELSE IF SeesAbort(o)
    THEN /\ IF kind[o] = "more" THEN Report(o, "canceled") ELSE job' = job
         /\ Leave(o) /\ Forget(o) /\ UNCHANGED resultVars
    ELSE /\ shown' = merged[o]
         /\ nextPage' \in IF kind[o] = "more" THEN BOOLEAN
                          ELSE IF kind[o] = "recover" THEN {FALSE}
                          ELSE {nextPage}
         /\ query' = query
         /\ Report(o, "success") /\ Leave(o) /\ Forget(o)

Rerank(o) ==
    /\ pc' = [pc EXCEPT ![o] = "rerank"]
    /\ page' = [page EXCEPT ![o] = 0]
    /\ UNCHANGED <<flagVars, controller, job, born, aborted, root>>

(* A page of a search, the page of "load more", or a source's results; it   *)
(* may be empty.  A search and a recovery go on with the next page, site or *)
(* source, if there is one.  One row is not reranked.                       *)
PageArrives(o) ==
    /\ Settled /\ pc[o] = "fetch"
    /\ IF ~Current(o) THEN Drop(o)
       ELSE \E empty \in BOOLEAN :
            LET all == IF empty THEN merged[o]
                       ELSE merged[o] \cup {<<root[o], o, page[o]>>}
                hold == merged' = [merged EXCEPT ![o] = all]
                further == IF kind[o] = "search" /\ ~empty THEN BOOLEAN
                                                           ELSE {nextPage}
            IN  /\ shown' = IF empty /\ kind[o] = "search" THEN shown ELSE all
                /\ query' = query
                /\ \/ /\ kind[o] # "more" /\ page[o] < MaxPages
                      /\ hold /\ page' = [page EXCEPT ![o] = @ + 1]
                      /\ nextPage' \in further
                      /\ UNCHANGED <<pc, flagVars, controller, job, born,
                                     aborted, root>>
                   \/ all # {} /\ hold /\ Rerank(o) /\ nextPage' \in further
                   \/ /\ Cardinality(all) <= 1
                      /\ nextPage' \in
                            IF kind[o] = "search" THEN further
                            ELSE IF kind[o] = "more" /\ ~empty THEN BOOLEAN
                            ELSE {FALSE}
                      /\ Report(o, "success") /\ Leave(o) /\ Forget(o)
    /\ UNCHANGED <<epoch, cooling, kind, old>>

(* A search keeps what it has when the limit is hit after some pages.       *)
RateLimited(o) ==
    /\ Settled /\ pc[o] = "fetch"
    /\ cooling' = TRUE
    /\ \/ /\ kind[o] = "search" /\ merged[o] # {}
          /\ Rerank(o) /\ UNCHANGED merged
       \/ /\ kind[o] = "search" /\ merged[o] = {}
          /\ Report(o, "success") /\ Leave(o) /\ Forget(o)
       \/ /\ kind[o] # "search"
          /\ Report(o, "failed") /\ Leave(o) /\ KeepForRetry(o)
    /\ UNCHANGED <<epoch, resultVars, kind, old>>

FetchFails(o) ==
    /\ Settled /\ pc[o] = "fetch"
    /\ Report(o, "failed") /\ Leave(o) /\ KeepForRetry(o)
    /\ UNCHANGED <<epoch, resultVars, cooling, kind, old>>

CoolsDown ==
    /\ Settled /\ cooling /\ cooling' = FALSE
    /\ UNCHANGED <<epoch, controller, resultVars, flagVars, opVars, job, old>>

(* applyMergedRerank returns.                                               *)
RerankReturns(o) ==
    /\ Settled /\ pc[o] = "rerank"
    /\ Conclude(o)
    /\ UNCHANGED <<epoch, cooling, kind, old>>

(* What an abort does to the operation that awaits an answer.               *)
Settle(o) ==
    /\ InFlight(o) /\ aborted[o]
    /\ IF pc[o] = "fetch" THEN Drop(o) ELSE Conclude(o)
    /\ UNCHANGED <<epoch, cooling, kind, old>>

-----------------------------------------------------------------------------
(* cancelRunningJob: onCancel aborts, then the job is shown as canceled.    *)
CancelJob(o) ==
    /\ Settled /\ job[o] = "running"
    /\ aborted' = [aborted EXCEPT ![o] = TRUE]
    /\ Report(o, "canceled")
    /\ UNCHANGED <<epoch, controller, resultVars, flagVars, cooling, kind, pc,
                   born, merged, root, page, old>>

(* clearSearchOutcome and selectPurpose stop the spinner of the search,     *)
(* handleClearResults and handleReset leave that to its end.                *)
ClearPage ==
    /\ Settled /\ epoch < MaxEpoch
    /\ epoch' = epoch + 1 /\ AbortCurrent
    /\ shown' = {} /\ query' = NoOne /\ nextPage' = FALSE
    /\ loading' \in {loading, FALSE} /\ loadingMore' = FALSE
    /\ UNCHANGED <<controller, recovering, cooling, kind, pc, born, merged,
                   root, page, job, old>>

(* The page is reloaded or left and opened again: restoreJobs, where Retry  *)
(* of an older job has no handler any more, and the rows of the last search *)
(* if they fitted into the storage.                                         *)
Reload ==
    /\ Settled
    /\ \/ shown' \in {shown, {}} /\ UNCHANGED <<query, nextPage>>
       \/ shown' = {} /\ query' = NoOne /\ nextPage' = FALSE
    /\ pc' = [o \in Operations |-> IF InFlight(o) THEN "done" ELSE pc[o]]
    /\ job' = [o \in Operations |->
                  IF job[o] \in {"running", "failed"} THEN "interrupted"
                                                      ELSE job[o]]
    /\ loading' = FALSE /\ loadingMore' = FALSE /\ recovering' = FALSE
    /\ controller' = NoOne /\ cooling' = FALSE
    /\ born' = [o \in Operations |-> 0]
    /\ aborted' = [o \in Operations |-> FALSE]
    /\ merged' = [o \in Operations |-> {}]
    /\ root' = [o \in Operations |-> NoOne]
    /\ page' = [o \in Operations |-> 0]
    /\ UNCHANGED <<epoch, kind, old>>

SearchNext ==
    \/ \E o \in Operations :
        \/ HandleSearch(o) \/ HandleLoadMore(o) \/ Recover(o)
        \/ PageArrives(o) \/ RateLimited(o) \/ FetchFails(o)
        \/ RerankReturns(o) \/ Settle(o) \/ CancelJob(o)
    \/ CoolsDown \/ ClearPage \/ Reload

SearchSpec == SearchInit /\ [][SearchNext]_searchVars
-----------------------------------------------------------------------------
(* Properties.                                                              *)

(* What is shown belongs to the query it is shown under, however late the   *)
(* answers to earlier ones are; save for a recovery that an old job's Retry *)
(* started with the rows of its own time.                                   *)
RowsOfTheQuery ==
    old = {} => \A r \in shown : r[1] = query

(* A job the user canceled, or that a newer search replaced, is not shown   *)
(* as done later, whatever its last request answered; save for recoveries,  *)
(* which do not look at the signal after the rerank.                        *)
CanceledStays ==
    [][\A o \in Operations :
          job[o] = "canceled" /\ kind[o] # "recover"
              => job'[o] = "canceled"]_searchVars

(* Whatever happened to an operation, its job says so when it is over, and  *)
(* no spinner keeps a button disabled without an operation that will stop   *)
(* it.                                                                      *)
EndsAreSeen ==
    /\ \A o \in Operations : job[o] = "running" => InFlight(o)
    /\ loading => \E o \in Operations : InFlight(o) /\ kind[o] = "search"
    /\ loadingMore => \E o \in Operations : InFlight(o) /\ kind[o] = "more"
    /\ recovering => \E o \in Operations : InFlight(o) /\ kind[o] = "recover"
-----------------------------------------------------------------------------
(* Why: an abort reaches an operation under way; unless its job has been    *)
(* canceled, something has been begun since;                                *)
ControlInv ==
    /\ controller # NoOne => InFlight(controller) /\ kind[controller] # "more"
    /\ \A o \in Operations :
         /\ aborted[o] => InFlight(o)
         /\ aborted[o] /\ Current(o) => job[o] = "canceled"
         /\ InFlight(o) =>
              /\ born[o] <= epoch /\ kind[o] # "none"
              /\ job[o] = "running" \/ (job[o] = "canceled" /\ aborted[o])
         /\ pc[o] = "idle" => job[o] = "none"
         /\ pc[o] = "fetch" => page[o] # 0

(* an operation merges rows of the query it has begun with, and as long as  *)
(* it is current that is the one shown.                                     *)
MergedInv ==
    /\ \A o \in Operations :
         InFlight(o) \/ (kind[o] = "recover" /\ job[o] = "failed") => root[o] # NoOne
    /\ old = {} =>
         /\ \A o \in Operations : InFlight(o) /\ Current(o) => root[o] = query
         /\ \A o \in Operations : \A r \in merged[o] : r[1] = root[o]

SearchInv ==
    /\ SearchTypeOK
    /\ ControlInv
    /\ MergedInv
    /\ RowsOfTheQuery
    /\ EndsAreSeen
=============================================================================
