------------------------------ MODULE ViewProofs ------------------------------
(* Proofs about the collector page and the chat, for any operations, pages   *)
(* and epochs, and for any notebooks, questions and histories on their way.  *)
EXTENDS Views, SequenceTheorems, TLAPS

-----------------------------------------------------------------------------
(* The collector page.  What a step of an operation does to the flags, to    *)
(* the rows and to the job is typed first.                                   *)
LEMMA BeginTyped ==
    ASSUME SearchTypeOK, NEW o \in Operations,
           NEW k \in {"search", "more", "recover"}, NEW base \in SUBSET Hits,
           NEW q \in Operations \cup {NoOne}, NEW e \in 0..MaxEpoch,
           BeginJob(o, k, base, q, e)
    PROVE  /\ kind' \in [Operations -> {"none", "search", "more", "recover"}]
           /\ pc' \in [Operations -> {"idle", "fetch", "rerank", "done"}]
           /\ born' \in [Operations -> 0..MaxEpoch]
           /\ merged' \in [Operations -> SUBSET Hits]
           /\ root' \in [Operations -> {NoOne} \cup Operations]
           /\ page' \in [Operations -> 0..MaxPages]
           /\ job' \in [Operations -> Statuses]
<1>1. 1 \in 0..MaxPages
  BY SearchAssumption
<1> QED
  BY <1>1 DEF SearchTypeOK, BeginJob, Statuses

LEMMA AbortTyped ==
    ASSUME SearchTypeOK, AbortCurrent
    PROVE  aborted' \in [Operations -> BOOLEAN]
BY DEF SearchTypeOK, AbortCurrent

LEMMA LeaveTyped ==
    ASSUME SearchTypeOK, NEW o \in Operations, Leave(o)
    PROVE  /\ pc' \in [Operations -> {"idle", "fetch", "rerank", "done"}]
           /\ born' \in [Operations -> 0..MaxEpoch]
           /\ aborted' \in [Operations -> BOOLEAN]
           /\ page' \in [Operations -> 0..MaxPages]
           /\ controller' \in {NoOne} \cup Operations
           /\ loading' \in BOOLEAN /\ loadingMore' \in BOOLEAN
           /\ recovering' \in BOOLEAN
<1>1. 0 \in 0..MaxPages /\ 0 \in 0..MaxEpoch
  BY SearchAssumption
<1>2. loading \in BOOLEAN /\ loadingMore \in BOOLEAN /\ recovering \in BOOLEAN
  BY DEF SearchTypeOK
<1>3. loading' \in BOOLEAN /\ loadingMore' \in BOOLEAN /\ recovering' \in BOOLEAN
  BY <1>2 DEF Leave
<1> QED
  BY <1>1, <1>3 DEF SearchTypeOK, Leave

LEMMA ForgetTyped ==
    ASSUME SearchTypeOK, NEW o \in Operations, Forget(o) \/ KeepForRetry(o)
    PROVE  /\ merged' \in [Operations -> SUBSET Hits]
           /\ root' \in [Operations -> {NoOne} \cup Operations]
BY DEF SearchTypeOK, Forget, KeepForRetry

LEMMA ReportTyped ==
    ASSUME SearchTypeOK, NEW o \in Operations, NEW s \in Statuses, Report(o, s)
    PROVE  job' \in [Operations -> Statuses]
BY DEF SearchTypeOK, Report

(* How an operation ends, told at once: it is done and holds nothing, and    *)
(* its job says something else than that it is running.                      *)
Ends(o) ==
    /\ Leave(o)
    /\ \E s \in Statuses \ {"running"} :
         \/ Report(o, s) /\ s # "failed" /\ Forget(o)
         \/ Report(o, s) /\ KeepForRetry(o)
         \/ job' = job /\ job[o] = s /\ kind[o] # "recover" /\ Forget(o)

LEMMA EndsTyped ==
    ASSUME SearchTypeOK, NEW o \in Operations, Ends(o)
    PROVE  /\ pc' \in [Operations -> {"idle", "fetch", "rerank", "done"}]
           /\ born' \in [Operations -> 0..MaxEpoch]
           /\ aborted' \in [Operations -> BOOLEAN]
           /\ page' \in [Operations -> 0..MaxPages]
           /\ controller' \in {NoOne} \cup Operations
           /\ loading' \in BOOLEAN /\ loadingMore' \in BOOLEAN
           /\ recovering' \in BOOLEAN
           /\ merged' \in [Operations -> SUBSET Hits]
           /\ root' \in [Operations -> {NoOne} \cup Operations]
           /\ job' \in [Operations -> Statuses]
<1>1. Leave(o) /\ (Forget(o) \/ KeepForRetry(o))
  BY DEF Ends
<1>2. job' \in [Operations -> Statuses]
  BY ReportTyped DEF Ends, SearchTypeOK
<1> QED
  BY <1>1, <1>2, LeaveTyped, ForgetTyped

LEMMA DropEnds ==
    ASSUME NEW o \in Operations, Drop(o)
    PROVE  Ends(o) /\ UNCHANGED resultVars /\ job' = [job EXCEPT ![o] = "canceled"]
BY DEF Drop, Ends, Report, Statuses

(* The three ways the rerank's answer is taken.                              *)
LEMMA ConcludeEnds ==
    ASSUME SearchTypeOK, ControlInv, NEW o \in Operations, InFlight(o), Conclude(o)
    PROVE  /\ Ends(o)
           /\ \/ UNCHANGED resultVars
              \/ /\ Current(o) /\ ~SeesAbort(o) /\ shown' = merged[o]
                 /\ nextPage' \in BOOLEAN /\ query' = query
           /\ \/ ~aborted[o] \/ kind[o] = "recover"
              \/ job[o] = "canceled" => job'[o] = "canceled"
<1>1. job \in [Operations -> Statuses] /\ nextPage \in BOOLEAN
  BY DEF SearchTypeOK
<1>2. CASE ~Current(o)
  <2>1. Drop(o)
    BY <1>2 DEF Conclude
  <2> QED
    BY <1>1, <2>1, DropEnds
<1>3. CASE Current(o) /\ SeesAbort(o)
  <2>1. job[o] = "canceled" /\ kind[o] # "recover"
    BY <1>3 DEF ControlInv, SeesAbort
  <2>2. Leave(o) /\ Forget(o) /\ UNCHANGED resultVars
    BY <1>3 DEF Conclude
  <2>3. Report(o, "canceled") \/ job' = job
    BY <1>3 DEF Conclude
  <2>4. "canceled" \in Statuses \ {"running"} /\ "canceled" # "failed"
    BY DEF Statuses
  <2>5. Ends(o)
    BY <2>1, <2>2, <2>3, <2>4 DEF Ends
  <2> QED
    BY <1>1, <2>1, <2>2, <2>3, <2>5 DEF Report
<1>4. CASE Current(o) /\ ~SeesAbort(o)
  <2>1. Report(o, "success") /\ Leave(o) /\ Forget(o)
    BY <1>4 DEF Conclude
  <2>2. "success" \in Statuses \ {"running"} /\ "success" # "failed"
    BY DEF Statuses
  <2>3. shown' = merged[o] /\ query' = query
    BY <1>4 DEF Conclude
  <2>4. nextPage' \in BOOLEAN
    BY <1>1, <1>4 DEF Conclude
  <2>5. ~aborted[o] \/ kind[o] = "recover"
    BY <1>4 DEF SeesAbort
  <2> QED
    BY <1>4, <2>1, <2>2, <2>3, <2>4, <2>5 DEF Ends
<1> QED
  BY <1>2, <1>3, <1>4

-----------------------------------------------------------------------------
(* Every answer either ends the operation or lets it go on with more rows.   *)
Results(o) ==
    \/ UNCHANGED resultVars
    \/ /\ Current(o) /\ nextPage' \in BOOLEAN /\ query' = query
       /\ \E all \in SUBSET Hits :
            /\ \A r \in all : r \in merged[o] \/ r[1] = root[o]
            /\ shown' \in {shown, all}

GoesOn(o) ==
    /\ \E all \in SUBSET Hits :
         /\ \A r \in all : r \in merged[o] \/ r[1] = root[o]
         /\ merged' = [merged EXCEPT ![o] = all]
         /\ shown' = shown \/ (Current(o) /\ shown' = all)
    /\ nextPage' \in BOOLEAN /\ query' = query
    /\ UNCHANGED <<flagVars, controller, job, born, aborted, root>>
    /\ \/ pc' = pc /\ \E n \in 1..MaxPages : page' = [page EXCEPT ![o] = n]
       \/ pc' = [pc EXCEPT ![o] = "rerank"] /\ page' = [page EXCEPT ![o] = 0]

(* What a step of an operation under way is.                                 *)
Works(o) ==
    /\ InFlight(o) /\ UNCHANGED <<epoch, kind, old>> /\ cooling' \in BOOLEAN
    /\ (Ends(o) /\ Results(o)) \/ GoesOn(o)

LEMMA PageWorks ==
    ASSUME SearchInv, NEW o \in Operations, PageArrives(o)
    PROVE  Works(o)
<1> USE DEF SearchInv
<1>1. pc[o] = "fetch" /\ InFlight(o) /\ UNCHANGED <<epoch, kind, old, cooling>>
  BY DEF PageArrives, InFlight
<1>2. cooling' \in BOOLEAN /\ nextPage \in BOOLEAN
  BY <1>1 DEF SearchTypeOK
<1>3. CASE ~Current(o)
  <2>1. Drop(o)
    BY <1>3 DEF PageArrives
  <2> QED
    BY <1>1, <1>2, <2>1, DropEnds DEF Works, Results
<1>4. CASE Current(o)
  <2>1. PICK empty \in BOOLEAN :
          LET all == IF empty THEN merged[o]
                     ELSE merged[o] \cup {<<root[o], o, page[o]>>}
              hold == merged' = [merged EXCEPT ![o] = all]
              further == IF kind[o] = "search" /\ ~empty THEN BOOLEAN
                                                         ELSE {nextPage}
          IN  /\ shown' = IF empty /\ kind[o] = "search" THEN shown ELSE all
              /\ query' = query
              /\ \/ /\ kind[o] # "more" /\ page[o] < MaxPages
                    /\ hold /\ page' = [page EXCEPT ![o] = @ + 1]
                    /\ nextPage' \in further
                    /\ UNCHANGED <<pc, flagVars, controller, job, born,
                                   aborted, root>>
                 \/ all # {} /\ hold /\ Rerank(o) /\ nextPage' \in further
                 \/ /\ Cardinality(all) <= 1
                    /\ nextPage' \in
                          IF kind[o] = "search" THEN further
                          ELSE IF kind[o] = "more" /\ ~empty THEN BOOLEAN
                          ELSE {FALSE}
                    /\ Report(o, "success") /\ Leave(o) /\ Forget(o)
    BY <1>4 DEF PageArrives
  <2> DEFINE all == IF empty THEN merged[o]
                    ELSE merged[o] \cup {<<root[o], o, page[o]>>}
  <2>2. root[o] \in Operations /\ page[o] \in 1..MaxPages
    BY <1>1, SearchAssumption DEF SearchTypeOK, ControlInv, MergedInv
  <2>3. all \in SUBSET Hits /\ \A r \in all : r \in merged[o] \/ r[1] = root[o]
    BY <2>2 DEF SearchTypeOK, Hits
  <2>4. /\ shown' = shown \/ shown' = all
        /\ nextPage' \in BOOLEAN /\ query' = query
    <3>1. {nextPage} \subseteq BOOLEAN /\ {FALSE} \subseteq BOOLEAN
      BY <1>2
    <3> QED
      BY <2>1, <3>1
  <2>5. \/ /\ page[o] < MaxPages /\ merged' = [merged EXCEPT ![o] = all]
           /\ page' = [page EXCEPT ![o] = @ + 1]
           /\ UNCHANGED <<pc, flagVars, controller, job, born, aborted, root>>
        \/ merged' = [merged EXCEPT ![o] = all] /\ Rerank(o)
        \/ Report(o, "success") /\ Leave(o) /\ Forget(o)
    BY <2>1
  <2> HIDE DEF all
  <2>7. CASE /\ page[o] < MaxPages /\ merged' = [merged EXCEPT ![o] = all]
             /\ page' = [page EXCEPT ![o] = @ + 1]
             /\ UNCHANGED <<pc, flagVars, controller, job, born, aborted, root>>
    <3>1. page[o] + 1 \in 1..MaxPages /\ page' = [page EXCEPT ![o] = page[o] + 1]
      BY <2>2, <2>7, SearchAssumption
    <3> QED
      BY <1>1, <1>2, <1>4, <2>3, <2>4, <2>7, <3>1 DEF Works, GoesOn
  <2>8. CASE merged' = [merged EXCEPT ![o] = all] /\ Rerank(o)
    BY <1>1, <1>2, <1>4, <2>3, <2>4, <2>8 DEF Works, GoesOn, Rerank
  <2>9. CASE Report(o, "success") /\ Leave(o) /\ Forget(o)
    <3>1. "success" \in Statuses \ {"running"} /\ "success" # "failed"
      BY DEF Statuses
    <3>2. Ends(o)
      BY <2>9, <3>1 DEF Ends
    <3>3. Results(o)
      BY <1>4, <2>3, <2>4 DEF Results
    <3> QED
      BY <1>1, <1>2, <3>2, <3>3 DEF Works
  <2> QED
    BY <2>5, <2>7, <2>8, <2>9
<1> QED
  BY <1>3, <1>4

LEMMA LimitWorks ==
    ASSUME SearchInv, NEW o \in Operations, RateLimited(o)
    PROVE  Works(o)
<1>1. InFlight(o) /\ UNCHANGED <<epoch, resultVars, kind, old>> /\ cooling'
  BY DEF RateLimited, InFlight
<1>2. cooling' \in BOOLEAN /\ nextPage' \in BOOLEAN
  BY <1>1 DEF SearchInv, SearchTypeOK, RateLimited, resultVars
<1>3. CASE Rerank(o) /\ UNCHANGED merged
  <2>1. merged' = [merged EXCEPT ![o] = merged[o]] /\ merged[o] \in SUBSET Hits
    BY <1>3 DEF SearchInv, SearchTypeOK
  <2> QED
    BY <1>1, <1>2, <1>3, <2>1 DEF Works, GoesOn, Rerank, resultVars
<1>4. CASE /\ Leave(o)
           /\ \/ Report(o, "success") /\ Forget(o)
              \/ Report(o, "failed") /\ KeepForRetry(o)
  <2>1. {"success", "failed"} \subseteq Statuses \ {"running"}
    BY DEF Statuses
  <2>2. Ends(o)
    BY <1>4, <2>1 DEF Ends
  <2> QED
    BY <1>1, <1>2, <2>2 DEF Works, Results
<1> QED
  BY <1>3, <1>4 DEF RateLimited

LEMMA FailureWorks ==
    ASSUME SearchInv, NEW o \in Operations, FetchFails(o)
    PROVE  Works(o)
<1>1. Ends(o)
  BY DEF FetchFails, Ends, Statuses
<1> QED
  BY <1>1 DEF FetchFails, Works, Results, InFlight, SearchInv, SearchTypeOK

LEMMA RerankWorks ==
    ASSUME SearchInv, NEW o \in Operations, RerankReturns(o) \/ Settle(o)
    PROVE  Works(o)
<1>1. InFlight(o) /\ (Drop(o) \/ Conclude(o))
  BY DEF RerankReturns, Settle, InFlight
<1>2. UNCHANGED <<epoch, cooling, kind, old>> /\ cooling' \in BOOLEAN
  BY DEF RerankReturns, Settle, SearchInv, SearchTypeOK
<1>3. Ends(o) /\ Results(o)
  <2>1. merged[o] \in SUBSET Hits
    BY DEF SearchInv, SearchTypeOK
  <2> QED
    BY <1>1, <2>1, DropEnds, ConcludeEnds DEF Results, SearchInv
<1> QED
  BY <1>1, <1>2, <1>3 DEF Works

-----------------------------------------------------------------------------
(* A step of an operation under way keeps the invariant.                     *)
LEMMA WorksTyped ==
    ASSUME SearchInv, NEW o \in Operations, Works(o)
    PROVE  SearchTypeOK'
<1> USE DEF SearchInv
<1>1. UNCHANGED <<epoch, kind, old>> /\ cooling' \in BOOLEAN
  BY DEF Works
<1>2. CASE Ends(o) /\ Results(o)
  <2>1. shown' \subseteq Hits /\ nextPage' \in BOOLEAN /\ query' = query
    BY <1>2 DEF Results, SearchTypeOK, resultVars
  <2>2. {nextPage', loading', loadingMore', recovering', cooling'} \subseteq BOOLEAN
    BY <1>1, <1>2, <2>1, EndsTyped
  <2> QED
    BY <1>1, <1>2, <2>1, <2>2, EndsTyped DEF SearchTypeOK
<1>3. CASE GoesOn(o)
  <2>1. shown' \subseteq Hits /\ nextPage' \in BOOLEAN /\ query' = query
    BY <1>3 DEF GoesOn, SearchTypeOK
  <2>2. UNCHANGED <<loading, loadingMore, recovering, controller, job, born, aborted, root>>
    BY <1>3 DEF GoesOn, flagVars
  <2>3. {nextPage', loading', loadingMore', recovering', cooling'} \subseteq BOOLEAN
    BY <1>1, <2>1, <2>2 DEF SearchTypeOK
  <2>4. page' \in [Operations -> 0..MaxPages]
    <3>1. 0 \in 0..MaxPages /\ 1..MaxPages \subseteq 0..MaxPages
      BY SearchAssumption
    <3> QED
      BY <1>3, <3>1 DEF GoesOn, SearchTypeOK
  <2>5. /\ pc' \in [Operations -> {"idle", "fetch", "rerank", "done"}]
        /\ merged' \in [Operations -> SUBSET Hits]
    BY <1>3 DEF GoesOn, SearchTypeOK
  <2> QED
    BY <1>1, <2>1, <2>2, <2>3, <2>4, <2>5 DEF SearchTypeOK
<1> QED
  BY <1>2, <1>3 DEF Works

LEMMA WorksInv ==
    ASSUME SearchInv, NEW o \in Operations, Works(o)
    PROVE  SearchInv'
<1>1. SearchTypeOK /\ SearchTypeOK' /\ ControlInv /\ MergedInv /\ RowsOfTheQuery
      /\ EndsAreSeen
  BY WorksTyped DEF SearchInv
<1>2. /\ InFlight(o) /\ UNCHANGED <<epoch, kind, old>> /\ query' = query
  BY DEF Works, Results, GoesOn, resultVars
<1>3. CASE Ends(o) /\ Results(o)
  <2>1. /\ pc' = [pc EXCEPT ![o] = "done"]
        /\ born' = [born EXCEPT ![o] = 0]
        /\ aborted' = [aborted EXCEPT ![o] = FALSE]
        /\ page' = [page EXCEPT ![o] = 0]
    BY <1>3 DEF Ends, Leave
  <2>2. /\ ~InFlight(o)' /\ ~aborted'[o] /\ pc'[o] = "done"
        /\ \A p \in Operations \ {o} :
             /\ InFlight(p)' <=> InFlight(p)
             /\ pc'[p] = pc[p] /\ born'[p] = born[p] /\ page'[p] = page[p]
             /\ aborted'[p] = aborted[p]
    BY <1>1, <2>1 DEF SearchTypeOK, InFlight
  <2>3. /\ job'[o] # "running"
        /\ \A p \in Operations \ {o} :
             job'[p] = job[p] /\ merged'[p] = merged[p] /\ root'[p] = root[p]
    BY <1>1, <1>3 DEF Ends, SearchTypeOK, Report, Forget, KeepForRetry
  <2>4. /\ merged'[o] = {} \/ (merged'[o] = merged[o] /\ root'[o] = root[o])
        /\ kind[o] = "recover" /\ job'[o] = "failed" => root'[o] = root[o]
    BY <1>1, <1>3 DEF Ends, SearchTypeOK, Report, Forget, KeepForRetry
  <2>5. controller' = NoOne \/ (controller' = controller /\ controller # o)
    <3>1. kind[o] = "more" => controller # o
      BY SearchAssumption DEF ControlInv, SearchInv
    <3> QED
      BY <1>3, <3>1 DEF Ends, Leave
  <2>6. ControlInv'
    <3>1. controller' # NoOne => InFlight(controller)' /\ kind'[controller'] # "more"
      BY <1>1, <1>2, <2>1, <2>5 DEF ControlInv, SearchTypeOK, InFlight
    <3>2. ASSUME NEW p \in Operations
          PROVE  /\ (aborted[p] => InFlight(p))'
                 /\ (aborted[p] /\ Current(p) => job[p] = "canceled")'
                 /\ (InFlight(p) =>
                      /\ born[p] <= epoch /\ kind[p] # "none"
                      /\ job[p] = "running" \/ (job[p] = "canceled" /\ aborted[p]))'
                 /\ (pc[p] = "idle" => job[p] = "none")'
                 /\ (pc[p] = "fetch" => page[p] # 0)'
      BY <1>1, <1>2, <2>2, <2>3 DEF ControlInv, Current
    <3> QED
      BY <3>1, <3>2 DEF ControlInv
  <2>7. \/ shown' = shown
        \/ Current(o) /\ \A r \in shown' : r \in merged[o] \/ r[1] = root[o]
    BY <1>3 DEF Results, resultVars
  <2>8. MergedInv'
    <3>1. ASSUME NEW p \in Operations
          PROVE  (InFlight(p) \/ (kind[p] = "recover" /\ job[p] = "failed")
                    => root[p] # NoOne)'
      BY <1>1, <1>2, <2>2, <2>3, <2>4 DEF MergedInv
    <3>2. ASSUME NEW p \in Operations, old = {}
          PROVE  /\ (InFlight(p) /\ Current(p) => root[p] = query)'
                 /\ \A r \in merged'[p] : r[1] = root'[p]
      BY <1>1, <1>2, <2>2, <2>3, <2>4, <3>2 DEF MergedInv, Current
    <3> QED
      BY <1>2, <3>1, <3>2 DEF MergedInv
  <2>9. RowsOfTheQuery'
    BY <1>1, <1>2, <2>7 DEF RowsOfTheQuery, MergedInv
  <2>10. EndsAreSeen'
    <3>1. /\ kind[o] = "search" => ~loading' /\ loadingMore' = loadingMore
                                   /\ recovering' = recovering
          /\ kind[o] = "more" => ~loadingMore' /\ loading' = loading
                                 /\ recovering' = recovering
          /\ kind[o] = "recover" => ~recovering' /\ loading' = loading
                                    /\ loadingMore' = loadingMore
          /\ kind[o] \in {"search", "more", "recover"}
      BY <1>1, <1>2, <1>3 DEF Ends, Leave, ControlInv, SearchTypeOK
    <3>2. \A p \in Operations : job'[p] = "running" => InFlight(p)'
      BY <1>1, <2>2, <2>3 DEF EndsAreSeen
    <3>3. loading' => \E p \in Operations : InFlight(p)' /\ kind'[p] = "search"
      BY <1>1, <1>2, <2>2, <3>1 DEF EndsAreSeen
    <3>4. loadingMore' => \E p \in Operations : InFlight(p)' /\ kind'[p] = "more"
      BY <1>1, <1>2, <2>2, <3>1 DEF EndsAreSeen
    <3>5. recovering' => \E p \in Operations : InFlight(p)' /\ kind'[p] = "recover"
      BY <1>1, <1>2, <2>2, <3>1 DEF EndsAreSeen
    <3> QED
      BY <3>2, <3>3, <3>4, <3>5 DEF EndsAreSeen
  <2> QED
    BY <1>1, <2>6, <2>8, <2>9, <2>10 DEF SearchInv
<1>4. CASE GoesOn(o)
  <2>1. UNCHANGED <<loading, loadingMore, recovering, controller, job, born, aborted, root>>
    BY <1>4 DEF GoesOn, flagVars
  <2>2. PICK all \in SUBSET Hits :
          /\ \A r \in all : r \in merged[o] \/ r[1] = root[o]
          /\ merged' = [merged EXCEPT ![o] = all]
          /\ shown' = shown \/ (Current(o) /\ shown' = all)
    BY <1>4 DEF GoesOn
  <2>3. /\ \A p \in Operations : InFlight(p)' <=> InFlight(p)
        /\ \A p \in Operations : pc'[p] = "idle" <=> pc[p] = "idle"
        /\ \A p \in Operations : pc'[p] = "fetch" => pc[p] = "fetch"
    BY <1>1, <1>2, <1>4 DEF GoesOn, SearchTypeOK, InFlight
  <2>4. \A p \in Operations : pc'[p] = "fetch" => page'[p] # 0
    BY <1>1, <1>4 DEF GoesOn, SearchTypeOK, ControlInv
  <2>5. ControlInv'
    <3>1. controller' # NoOne => InFlight(controller)' /\ kind'[controller'] # "more"
      BY <1>1, <1>2, <2>1, <2>3 DEF ControlInv, SearchTypeOK
    <3> QED
      BY <1>1, <1>2, <2>1, <2>3, <2>4, <3>1 DEF ControlInv, Current
  <2>6. \A p \in Operations \ {o} : merged'[p] = merged[p]
    BY <1>1, <2>2 DEF SearchTypeOK
  <2>7. merged'[o] = all
    BY <1>1, <2>2 DEF SearchTypeOK
  <2>8. MergedInv'
    <3>1. ASSUME NEW p \in Operations
          PROVE  (InFlight(p) \/ (kind[p] = "recover" /\ job[p] = "failed")
                    => root[p] # NoOne)'
      BY <1>1, <1>2, <2>1, <2>3 DEF MergedInv
    <3>2. ASSUME NEW p \in Operations, old = {}
          PROVE  /\ (InFlight(p) /\ Current(p) => root[p] = query)'
                 /\ \A r \in merged'[p] : r[1] = root'[p]
      BY <1>1, <1>2, <2>1, <2>2, <2>3, <2>6, <2>7, <3>2 DEF MergedInv, Current
    <3> QED
      BY <1>2, <3>1, <3>2 DEF MergedInv
  <2>9. RowsOfTheQuery'
    BY <1>1, <1>2, <2>2 DEF RowsOfTheQuery, MergedInv
  <2>10. EndsAreSeen'
    BY <1>1, <1>2, <2>1, <2>3 DEF EndsAreSeen
  <2> QED
    BY <1>1, <2>5, <2>8, <2>9, <2>10 DEF SearchInv
<1> QED
  BY <1>3, <1>4 DEF Works

-----------------------------------------------------------------------------
(* What begins an operation finds its caller idle; an epoch that goes up     *)
(* leaves no operation current but the new one.                              *)
LEMMA BeginsWith ==
    ASSUME SearchInv, NEW o, NEW k, NEW base, NEW q, NEW e,
           o \in Operations, pc[o] = "idle", BeginJob(o, k, base, q, e)
    PROVE  /\ pc'[o] = "fetch" /\ kind'[o] = k /\ born'[o] = e /\ job'[o] = "running"
           /\ merged'[o] = base /\ root'[o] = q /\ page'[o] = 1
           /\ InFlight(o)' /\ ~InFlight(o) /\ ~aborted[o] /\ controller # o
           /\ \A p \in Operations \ {o} :
                /\ pc'[p] = pc[p] /\ kind'[p] = kind[p] /\ born'[p] = born[p]
                /\ job'[p] = job[p] /\ merged'[p] = merged[p]
                /\ root'[p] = root[p] /\ page'[p] = page[p]
                /\ InFlight(p)' <=> InFlight(p)
<1>1. /\ pc'[o] = "fetch" /\ kind'[o] = k /\ born'[o] = e /\ job'[o] = "running"
      /\ merged'[o] = base /\ root'[o] = q /\ page'[o] = 1
      /\ \A p \in Operations \ {o} :
                /\ pc'[p] = pc[p] /\ kind'[p] = kind[p] /\ born'[p] = born[p]
                /\ job'[p] = job[p] /\ merged'[p] = merged[p]
                /\ root'[p] = root[p] /\ page'[p] = page[p]
  BY DEF BeginJob, SearchInv, SearchTypeOK
<1>2. ~InFlight(o) /\ ~aborted[o] /\ controller # o
  BY SearchAssumption DEF SearchInv, ControlInv, InFlight
<1> QED
  BY <1>1, <1>2 DEF InFlight

LEMMA AbortTouches ==
    ASSUME SearchInv, AbortCurrent
    PROVE  /\ aborted' \in [Operations -> BOOLEAN]
           /\ \A p \in Operations : aborted'[p] <=> (aborted[p] \/ p = controller)
BY SearchAssumption DEF AbortCurrent, SearchInv, SearchTypeOK

LEMMA BeginInv ==
    ASSUME SearchInv, NEW o \in Operations, pc[o] = "idle",
           NEW k \in {"search", "recover"}, NEW base \in SUBSET Hits,
           NEW q \in Operations, epoch < MaxEpoch, epoch' = epoch + 1,
           BeginJob(o, k, base, q, epoch + 1), AbortCurrent, controller' = o,
           old' \subseteq Operations,
           old' = {} => old = {} /\ query' = q /\ \A r \in base : r[1] = q,
           shown' \subseteq Hits, query' \in {NoOne} \cup Operations,
           nextPage' \in BOOLEAN, cooling' = cooling,
           old' = {} => \A r \in shown' : r[1] = query',
           k = "search" => loading' = TRUE /\ recovering' = recovering,
           k = "recover" => recovering' = TRUE /\ loading' = loading,
           loadingMore' = loadingMore
    PROVE  SearchInv'
<1>1. SearchTypeOK /\ ControlInv /\ MergedInv /\ RowsOfTheQuery /\ EndsAreSeen
  BY DEF SearchInv
<1>2. epoch + 1 \in 0..MaxEpoch /\ epoch \in Nat
  BY <1>1, SearchAssumption DEF SearchTypeOK
<1> PICK e \in 0..MaxEpoch : e = epoch + 1
  BY <1>2
<1>b. BeginJob(o, k, base, q, e)
  OBVIOUS
<1>k. k \in {"search", "more", "recover"} /\ q \in Operations \cup {NoOne}
  OBVIOUS
<1>3. SearchTypeOK'
  <2>1. {nextPage, loading, loadingMore, recovering, cooling} \subseteq BOOLEAN
    BY <1>1 DEF SearchTypeOK
  <2>2. {nextPage', loading', loadingMore', recovering', cooling'} \subseteq BOOLEAN
    BY <2>1
  <2>3. /\ kind' \in [Operations -> {"none", "search", "more", "recover"}]
        /\ pc' \in [Operations -> {"idle", "fetch", "rerank", "done"}]
        /\ born' \in [Operations -> 0..MaxEpoch]
        /\ merged' \in [Operations -> SUBSET Hits]
        /\ root' \in [Operations -> {NoOne} \cup Operations]
        /\ page' \in [Operations -> 0..MaxPages]
        /\ job' \in [Operations -> Statuses]
    BY <1>1, <1>b, <1>k, BeginTyped
  <2>4. aborted' \in [Operations -> BOOLEAN]
    BY <1>1, AbortTyped
  <2> QED
    BY <1>1, <1>2, <2>2, <2>3, <2>4 DEF SearchTypeOK
<1>4. /\ pc'[o] = "fetch" /\ kind'[o] = k /\ born'[o] = e
      /\ job'[o] = "running" /\ merged'[o] = base /\ root'[o] = q /\ page'[o] = 1
      /\ InFlight(o)' /\ ~InFlight(o) /\ ~aborted[o] /\ controller # o
      /\ \A p \in Operations \ {o} :
           /\ pc'[p] = pc[p] /\ kind'[p] = kind[p] /\ born'[p] = born[p]
           /\ job'[p] = job[p] /\ merged'[p] = merged[p]
           /\ root'[p] = root[p] /\ page'[p] = page[p]
           /\ InFlight(p)' <=> InFlight(p)
  BY <1>b, <1>k, BeginsWith
<1>5. \A p \in Operations : aborted'[p] <=> (aborted[p] \/ p = controller)
  BY AbortTouches
<1>6. \A p \in Operations \ {o} : ~(InFlight(p)' /\ Current(p)')
  BY <1>1, <1>2, <1>4 DEF ControlInv, Current, SearchTypeOK
<1>7. ControlInv'
  <2>1. \A p \in Operations : aborted'[p] => InFlight(p)'
    BY <1>1, <1>4, <1>5, SearchAssumption DEF ControlInv
  <2>2. \A p \in Operations : aborted'[p] /\ Current(p)' => job'[p] = "canceled"
    BY <1>4, <1>5, <1>6, <2>1
  <2>3. ASSUME NEW p \in Operations, InFlight(p)'
        PROVE  /\ born'[p] <= epoch' /\ kind'[p] # "none"
               /\ job'[p] = "running" \/ (job'[p] = "canceled" /\ aborted'[p])
    BY <1>1, <1>2, <1>4, <1>5, <2>3 DEF ControlInv, SearchTypeOK
  <2>4. \A p \in Operations : pc'[p] = "idle" => job'[p] = "none"
    BY <1>1, <1>4 DEF ControlInv
  <2>5. \A p \in Operations : pc'[p] = "fetch" => page'[p] # 0
    BY <1>1, <1>4 DEF ControlInv
  <2> QED
    BY <1>4, <2>1, <2>2, <2>3, <2>4, <2>5 DEF ControlInv
<1>8. MergedInv'
  <2>1. \A p \in Operations :
          InFlight(p)' \/ (kind'[p] = "recover" /\ job'[p] = "failed")
            => root'[p] # NoOne
    BY <1>1, <1>4, SearchAssumption DEF MergedInv
  <2>2. ASSUME NEW p \in Operations, old' = {}
        PROVE  /\ InFlight(p)' /\ Current(p)' => root'[p] = query'
               /\ \A r \in merged'[p] : r[1] = root'[p]
    BY <1>1, <1>4, <1>6, <2>2 DEF MergedInv
  <2> QED
    BY <2>1, <2>2 DEF MergedInv
<1>9. RowsOfTheQuery'
  BY DEF RowsOfTheQuery
<1>10. EndsAreSeen'
  <2>1. \A p \in Operations : job'[p] = "running" => InFlight(p)'
    BY <1>1, <1>4 DEF EndsAreSeen
  <2>2. loading' => \E p \in Operations : InFlight(p)' /\ kind'[p] = "search"
    BY <1>1, <1>4 DEF EndsAreSeen
  <2>3. loadingMore' => \E p \in Operations : InFlight(p)' /\ kind'[p] = "more"
    BY <1>1, <1>4 DEF EndsAreSeen
  <2>4. recovering' => \E p \in Operations : InFlight(p)' /\ kind'[p] = "recover"
    BY <1>1, <1>4 DEF EndsAreSeen
  <2> QED
    BY <2>1, <2>2, <2>3, <2>4 DEF EndsAreSeen
<1> QED
  BY <1>3, <1>7, <1>8, <1>9, <1>10 DEF SearchInv

LEMMA SearchKeeps ==
    ASSUME SearchInv, NEW o \in Operations, HandleSearch(o)
    PROVE  SearchInv'
<1>1. pc[o] = "idle" /\ epoch < MaxEpoch /\ epoch' = epoch + 1
      /\ AbortCurrent /\ controller' = o /\ loading' = TRUE
      /\ shown' = {} /\ query' = o /\ nextPage' = FALSE
      /\ UNCHANGED <<loadingMore, recovering, cooling, old>>
  BY DEF HandleSearch
<1>2. BeginJob(o, "search", {}, o, epoch + 1)
  BY DEF HandleSearch
<1>3. old \subseteq Operations
  BY DEF SearchInv, SearchTypeOK
<1> QED
  BY <1>1, <1>2, <1>3, BeginInv

LEMMA RecoverKeeps ==
    ASSUME SearchInv, NEW o \in Operations, Recover(o)
    PROVE  SearchInv'
<1>1. pc[o] = "idle" /\ epoch < MaxEpoch /\ epoch' = epoch + 1
      /\ AbortCurrent /\ controller' = o /\ recovering' = TRUE
      /\ UNCHANGED <<resultVars, loading, loadingMore, cooling>>
  BY DEF Recover
<1>2. /\ shown' = shown /\ query' = query /\ nextPage' = nextPage
      /\ shown \subseteq Hits /\ query \in {NoOne} \cup Operations
      /\ nextPage \in BOOLEAN /\ old \subseteq Operations
      /\ old = {} => \A r \in shown : r[1] = query
  BY <1>1 DEF resultVars, SearchInv, SearchTypeOK, RowsOfTheQuery
<1>3. CASE query # NoOne /\ BeginJob(o, "recover", shown, query, epoch + 1) /\ old' = old
  BY <1>1, <1>2, <1>3, BeginInv
<1>4. ASSUME NEW p \in Retried("recover"), old' = old \cup {o},
             BeginJob(o, "recover",
                   {r \in merged[p] : r[2] # p}, root[p], epoch + 1)
      PROVE  SearchInv'
  <2>1. root[p] \in Operations /\ {r \in merged[p] : r[2] # p} \in SUBSET Hits
    BY DEF Retried, SearchInv, SearchTypeOK, MergedInv
  <2>2. old' # {} /\ old' \subseteq Operations
    BY <1>2, <1>4
  <2> DEFINE base == {r \in merged[p] : r[2] # p}
             q == root[p]
  <2>3. BeginJob(o, "recover", base, q, epoch + 1)
    BY <1>4
  <2> HIDE DEF base, q
  <2>4. base \in SUBSET Hits /\ q \in Operations
    BY <2>1 DEF base, q
  <2> QED
    BY <1>1, <1>2, <2>2, <2>3, <2>4, BeginInv
<1> QED
  BY <1>3, <1>4 DEF Recover

LEMMA MoreKeeps ==
    ASSUME SearchInv, NEW o \in Operations, HandleLoadMore(o)
    PROVE  SearchInv'
<1>1. SearchTypeOK /\ ControlInv /\ MergedInv /\ RowsOfTheQuery /\ EndsAreSeen
  BY DEF SearchInv
<1>2. /\ pc[o] = "idle" /\ query # NoOne /\ loadingMore' = TRUE
      /\ UNCHANGED <<epoch, controller, loading, recovering, cooling, aborted, old>>
      /\ shown' = shown /\ query' = query /\ nextPage' = nextPage
      /\ BeginJob(o, "more", shown, query, epoch)
  BY DEF HandleLoadMore, resultVars
<1>3. /\ shown \in SUBSET Hits /\ query \in Operations /\ epoch \in 0..MaxEpoch
      /\ epoch \in Nat
  BY <1>1, <1>2, SearchAssumption DEF SearchTypeOK
<1>4. SearchTypeOK'
  <2>1. {nextPage, loading, loadingMore, recovering, cooling} \subseteq BOOLEAN
    BY <1>1 DEF SearchTypeOK
  <2>2. {nextPage', loading', loadingMore', recovering', cooling'} \subseteq BOOLEAN
    BY <1>2, <2>1
  <2>3. /\ kind' \in [Operations -> {"none", "search", "more", "recover"}]
        /\ pc' \in [Operations -> {"idle", "fetch", "rerank", "done"}]
        /\ born' \in [Operations -> 0..MaxEpoch]
        /\ merged' \in [Operations -> SUBSET Hits]
        /\ root' \in [Operations -> {NoOne} \cup Operations]
        /\ page' \in [Operations -> 0..MaxPages]
        /\ job' \in [Operations -> Statuses]
    BY <1>1, <1>2, <1>3, BeginTyped
  <2> QED
    BY <1>1, <1>2, <2>2, <2>3 DEF SearchTypeOK
<1>5. /\ pc'[o] = "fetch" /\ kind'[o] = "more" /\ born'[o] = epoch
      /\ job'[o] = "running" /\ merged'[o] = shown /\ root'[o] = query /\ page'[o] = 1
      /\ InFlight(o)' /\ ~InFlight(o) /\ ~aborted[o] /\ controller # o
      /\ \A p \in Operations \ {o} :
           /\ pc'[p] = pc[p] /\ kind'[p] = kind[p] /\ born'[p] = born[p]
           /\ job'[p] = job[p] /\ merged'[p] = merged[p]
           /\ root'[p] = root[p] /\ page'[p] = page[p]
           /\ InFlight(p)' <=> InFlight(p)
  BY <1>2, BeginsWith
<1>6. ControlInv'
  <2>1. controller' # NoOne => InFlight(controller)' /\ kind'[controller'] # "more"
    BY <1>1, <1>2, <1>5 DEF ControlInv, SearchTypeOK
  <2>2. \A p \in Operations :
          /\ aborted'[p] => InFlight(p)'
          /\ aborted'[p] /\ Current(p)' => job'[p] = "canceled"
          /\ pc'[p] = "idle" => job'[p] = "none"
          /\ pc'[p] = "fetch" => page'[p] # 0
    BY <1>1, <1>2, <1>5 DEF ControlInv, Current
  <2>3. ASSUME NEW p \in Operations, InFlight(p)'
        PROVE  /\ born'[p] <= epoch' /\ kind'[p] # "none"
               /\ job'[p] = "running" \/ (job'[p] = "canceled" /\ aborted'[p])
    BY <1>1, <1>2, <1>3, <1>5, <2>3 DEF ControlInv
  <2> QED
    BY <2>1, <2>2, <2>3 DEF ControlInv
<1>7. MergedInv'
  <2>1. \A p \in Operations :
          InFlight(p)' \/ (kind'[p] = "recover" /\ job'[p] = "failed")
            => root'[p] # NoOne
    BY <1>1, <1>2, <1>5 DEF MergedInv
  <2>2. ASSUME NEW p \in Operations, old' = {}
        PROVE  /\ InFlight(p)' /\ Current(p)' => root'[p] = query'
               /\ \A r \in merged'[p] : r[1] = root'[p]
    BY <1>1, <1>2, <1>5, <2>2 DEF MergedInv, Current, RowsOfTheQuery
  <2> QED
    BY <2>1, <2>2 DEF MergedInv
<1>8. RowsOfTheQuery'
  BY <1>1, <1>2 DEF RowsOfTheQuery
<1>9. EndsAreSeen'
  <2>1. \A p \in Operations : job'[p] = "running" => InFlight(p)'
    BY <1>1, <1>5 DEF EndsAreSeen
  <2>2. loading' => \E p \in Operations : InFlight(p)' /\ kind'[p] = "search"
    BY <1>1, <1>2, <1>5 DEF EndsAreSeen
  <2>3. loadingMore' => \E p \in Operations : InFlight(p)' /\ kind'[p] = "more"
    BY <1>1, <1>2, <1>5 DEF EndsAreSeen
  <2>4. recovering' => \E p \in Operations : InFlight(p)' /\ kind'[p] = "recover"
    BY <1>1, <1>2, <1>5 DEF EndsAreSeen
  <2> QED
    BY <2>1, <2>2, <2>3, <2>4 DEF EndsAreSeen
<1> QED
  BY <1>4, <1>6, <1>7, <1>8, <1>9 DEF SearchInv

LEMMA CancelKeeps ==
    ASSUME SearchInv, NEW o \in Operations, CancelJob(o)
    PROVE  SearchInv'
<1>1. SearchTypeOK /\ ControlInv /\ MergedInv /\ RowsOfTheQuery /\ EndsAreSeen
  BY DEF SearchInv
<1>2. /\ job[o] = "running" /\ InFlight(o)
      /\ UNCHANGED <<epoch, controller, resultVars, flagVars, cooling, kind, pc,
                     born, merged, root, page, old>>
  BY <1>1 DEF CancelJob, EndsAreSeen
<1>3. UNCHANGED <<shown, query, nextPage, loading, loadingMore, recovering>>
  BY <1>2 DEF resultVars, flagVars
<1>4. /\ aborted' = [aborted EXCEPT ![o] = TRUE]
      /\ job' = [job EXCEPT ![o] = "canceled"]
  BY DEF CancelJob, Report
<1>5. SearchTypeOK'
  BY <1>1, <1>2, <1>3, <1>4 DEF SearchTypeOK, Statuses
<1>6. /\ aborted'[o] /\ job'[o] = "canceled"
      /\ \A p \in Operations \ {o} : aborted'[p] = aborted[p] /\ job'[p] = job[p]
      /\ \A p \in Operations : InFlight(p)' <=> InFlight(p)
  BY <1>1, <1>2, <1>4 DEF SearchTypeOK, InFlight
<1>7. ControlInv'
  <2>1. controller' # NoOne => InFlight(controller)' /\ kind'[controller'] # "more"
    BY <1>1, <1>2, <1>6 DEF ControlInv, SearchTypeOK
  <2> QED
    BY <1>1, <1>2, <1>6, <2>1 DEF ControlInv, Current, InFlight
<1>8. MergedInv'
  BY <1>1, <1>2, <1>3, <1>6 DEF MergedInv, Current
<1>9. RowsOfTheQuery' /\ EndsAreSeen'
  BY <1>1, <1>2, <1>3, <1>6 DEF RowsOfTheQuery, EndsAreSeen
<1> QED
  BY <1>5, <1>7, <1>8, <1>9 DEF SearchInv

LEMMA CoolKeeps ==
    ASSUME SearchInv, CoolsDown \/ UNCHANGED searchVars
    PROVE  SearchInv'
<1>1. UNCHANGED <<epoch, controller, resultVars, flagVars, opVars, job, old>>
      /\ cooling' \in BOOLEAN
  BY DEF CoolsDown, searchVars, SearchInv, SearchTypeOK
<1>2. UNCHANGED <<epoch, controller, shown, query, nextPage, loading, loadingMore,
                  recovering, kind, pc, born, aborted, merged, root, page, job, old>>
  BY <1>1 DEF resultVars, flagVars, opVars
<1>3. SearchTypeOK'
  BY <1>1, <1>2 DEF SearchInv, SearchTypeOK
<1>4. ControlInv' /\ MergedInv' /\ RowsOfTheQuery' /\ EndsAreSeen'
  BY <1>2 DEF SearchInv, ControlInv, MergedInv, RowsOfTheQuery, EndsAreSeen,
              InFlight, Current
<1> QED
  BY <1>3, <1>4 DEF SearchInv

LEMMA ClearKeeps ==
    ASSUME SearchInv, ClearPage
    PROVE  SearchInv'
<1>1. SearchTypeOK /\ ControlInv /\ MergedInv /\ RowsOfTheQuery /\ EndsAreSeen
  BY DEF SearchInv
<1>2. /\ epoch < MaxEpoch /\ epoch' = epoch + 1 /\ AbortCurrent
      /\ shown' = {} /\ query' = NoOne /\ nextPage' = FALSE
      /\ loading' \in {loading, FALSE} /\ loadingMore' = FALSE
      /\ UNCHANGED <<controller, recovering, cooling, kind, pc, born, merged,
                     root, page, job, old>>
  BY DEF ClearPage
<1>3. epoch + 1 \in 0..MaxEpoch /\ epoch \in Nat
  BY <1>1, <1>2, SearchAssumption DEF SearchTypeOK
<1>4. SearchTypeOK'
  <2>1. {nextPage, loading, loadingMore, recovering, cooling} \subseteq BOOLEAN
    BY <1>1 DEF SearchTypeOK
  <2>2. {nextPage', loading', loadingMore', recovering', cooling'} \subseteq BOOLEAN
    BY <1>2, <2>1
  <2> QED
    BY <1>1, <1>2, <1>3, <2>2, AbortTyped DEF SearchTypeOK
<1>5. /\ \A p \in Operations : aborted'[p] <=> (aborted[p] \/ p = controller)
      /\ \A p \in Operations : InFlight(p)' <=> InFlight(p)
  BY <1>2, AbortTouches DEF InFlight
<1>6. \A p \in Operations : ~(InFlight(p)' /\ Current(p)')
  BY <1>1, <1>2, <1>3, <1>5 DEF ControlInv, Current, SearchTypeOK
<1>7. ControlInv'
  <2>1. controller' # NoOne => InFlight(controller)' /\ kind'[controller'] # "more"
    BY <1>1, <1>2, <1>5 DEF ControlInv, SearchTypeOK
  <2>2. \A p \in Operations : aborted'[p] => InFlight(p)'
    BY <1>1, <1>5, SearchAssumption DEF ControlInv
  <2>3. ASSUME NEW p \in Operations, InFlight(p)'
        PROVE  /\ born'[p] <= epoch' /\ kind'[p] # "none"
               /\ job'[p] = "running" \/ (job'[p] = "canceled" /\ aborted'[p])
    BY <1>1, <1>2, <1>3, <1>5, <2>3 DEF ControlInv, SearchTypeOK
  <2> QED
    BY <1>1, <1>2, <1>6, <2>1, <2>2, <2>3 DEF ControlInv
<1>8. MergedInv'
  BY <1>1, <1>2, <1>5, <1>6 DEF MergedInv
<1>9. RowsOfTheQuery'
  BY <1>2 DEF RowsOfTheQuery
<1>10. EndsAreSeen'
  <2>1. loading' => loading
    BY <1>2
  <2> QED
    BY <1>1, <1>2, <1>5, <2>1 DEF EndsAreSeen
<1> QED
  BY <1>4, <1>7, <1>8, <1>9, <1>10 DEF SearchInv

(* A reload keeps what has ended and nothing of what had not.                *)
LEMMA ReloadKeeps ==
    ASSUME SearchInv, Reload
    PROVE  SearchInv'
<1>1. SearchTypeOK /\ ControlInv /\ RowsOfTheQuery
  BY DEF SearchInv
<1>2. /\ pc' = [o \in Operations |-> IF InFlight(o) THEN "done" ELSE pc[o]]
      /\ job' = [o \in Operations |->
                    IF job[o] \in {"running", "failed"} THEN "interrupted"
                                                        ELSE job[o]]
      /\ loading' = FALSE /\ loadingMore' = FALSE /\ recovering' = FALSE
      /\ controller' = NoOne /\ cooling' = FALSE
      /\ born' = [o \in Operations |-> 0]
      /\ aborted' = [o \in Operations |-> FALSE]
      /\ merged' = [o \in Operations |-> {}]
      /\ root' = [o \in Operations |-> NoOne]
      /\ page' = [o \in Operations |-> 0]
      /\ UNCHANGED <<epoch, kind, old>>
  BY DEF Reload
<1>3. \/ shown' \in {shown, {}} /\ query' = query /\ nextPage' = nextPage
      \/ shown' = {} /\ query' = NoOne /\ nextPage' = FALSE
  BY DEF Reload
<1>4. SearchTypeOK'
  <2>1. {nextPage', loading', loadingMore', recovering', cooling'} \subseteq BOOLEAN
    BY <1>1, <1>2, <1>3 DEF SearchTypeOK
  <2>2. 0 \in 0..MaxPages /\ 0 \in 0..MaxEpoch
    BY SearchAssumption
  <2> QED
    BY <1>1, <1>2, <1>3, <2>1, <2>2 DEF SearchTypeOK, Statuses
<1>5. \A p \in Operations :
        ~InFlight(p)' /\ ~aborted'[p] /\ merged'[p] = {} /\ pc'[p] # "fetch"
        /\ job'[p] \notin {"running", "failed"}
        /\ (pc'[p] = "idle" => pc[p] = "idle")
        /\ (job[p] = "none" => job'[p] = "none")
  BY <1>1, <1>2 DEF InFlight, SearchTypeOK
<1>6. ControlInv' /\ MergedInv'
  BY <1>1, <1>2, <1>5 DEF ControlInv, MergedInv
<1>7. RowsOfTheQuery'
  BY <1>1, <1>2, <1>3 DEF RowsOfTheQuery
<1>8. EndsAreSeen'
  BY <1>2, <1>5 DEF EndsAreSeen
<1> QED
  BY <1>4, <1>6, <1>7, <1>8 DEF SearchInv

LEMMA SearchStep ==
    ASSUME SearchInv, [SearchNext]_searchVars PROVE SearchInv'
<1>1. ASSUME NEW o \in Operations,
             PageArrives(o) \/ RateLimited(o) \/ FetchFails(o)
             \/ RerankReturns(o) \/ Settle(o)
      PROVE  SearchInv'
  BY <1>1, PageWorks, LimitWorks, FailureWorks, RerankWorks, WorksInv
<1> QED
  BY <1>1, SearchKeeps, MoreKeeps, RecoverKeeps, CancelKeeps, CoolKeeps,
     ClearKeeps, ReloadKeeps DEF SearchNext

(* The invariant of the collector page: what is shown is of the query it is  *)
(* shown under, and every end is seen (UrlCollectorPage.tsx).                *)
THEOREM SearchInvariance == SearchSpec => []SearchInv
<1>1. SearchInit => SearchInv
  <2> SUFFICES ASSUME SearchInit PROVE SearchInv
    OBVIOUS
  <2>1. 0 \in 0..MaxEpoch /\ 0 \in 0..MaxPages
    BY SearchAssumption
  <2> QED
    BY <2>1 DEF SearchInit, SearchInv, SearchTypeOK, ControlInv, MergedInv,
                RowsOfTheQuery, EndsAreSeen, InFlight, Statuses
<1>2. SearchInv /\ [SearchNext]_searchVars => SearchInv'
  BY SearchStep
<1> QED
  BY <1>1, <1>2, PTL DEF SearchSpec

(* A canceled job stays canceled: what its last request answered is dropped  *)
(* (cancelRunningJob of useCollectorJobs.ts, applyMergedRerank).             *)
LEMMA CanceledStep ==
    ASSUME SearchInv, SearchNext, NEW o \in Operations,
           job[o] = "canceled", kind[o] # "recover"
    PROVE  job'[o] = "canceled"
<1>1. SearchTypeOK /\ ControlInv
  BY DEF SearchInv
<1>2. pc[o] # "idle" /\ (Settled => ~InFlight(o))
  BY <1>1 DEF ControlInv, Settled
<1>3. ASSUME NEW p \in Operations,
             HandleSearch(p) \/ HandleLoadMore(p) \/ Recover(p)
      PROVE  job'[o] = "canceled"
  <2>1. p # o /\ job' = [job EXCEPT ![p] = "running"]
    BY <1>2, <1>3 DEF HandleSearch, HandleLoadMore, Recover, BeginJob
  <2> QED
    BY <1>1, <2>1 DEF SearchTypeOK
<1>4. ASSUME NEW p \in Operations,
             PageArrives(p) \/ RateLimited(p) \/ FetchFails(p) \/ RerankReturns(p)
      PROVE  job'[o] = "canceled"
  <2>1. InFlight(p) /\ Settled
    BY <1>4 DEF PageArrives, RateLimited, FetchFails, RerankReturns, InFlight
  <2>2. p # o /\ Works(p)
    BY <1>2, <1>4, <2>1, PageWorks, LimitWorks, FailureWorks, RerankWorks
  <2>3. job'[o] = job[o]
    BY <1>1, <2>2 DEF Works, Ends, GoesOn, Report, SearchTypeOK
  <2> QED
    BY <2>3
<1>5. ASSUME NEW p \in Operations, Settle(p) PROVE job'[o] = "canceled"
  <2>1. InFlight(p) /\ aborted[p] /\ (Drop(p) \/ Conclude(p))
    BY <1>5 DEF Settle
  <2>2. CASE p = o
    <3>1. CASE Drop(o)
      BY <1>1, <3>1 DEF Drop, Report, SearchTypeOK
    <3>2. CASE Conclude(o)
      BY <1>1, <2>1, <2>2, <3>2, ConcludeEnds
    <3> QED
      BY <2>1, <2>2, <3>1, <3>2
  <2>3. CASE p # o
    BY <1>1, <1>5, <2>3, RerankWorks DEF Works, Ends, GoesOn, Report, SearchTypeOK
  <2> QED
    BY <2>2, <2>3
<1>6. ASSUME NEW p \in Operations, CancelJob(p) PROVE job'[o] = "canceled"
  BY <1>1, <1>6 DEF CancelJob, Report, SearchTypeOK
<1>7. CASE CoolsDown \/ ClearPage \/ Reload
  BY <1>1, <1>7 DEF CoolsDown, ClearPage, Reload, SearchTypeOK
<1> QED
  BY <1>3, <1>4, <1>5, <1>6, <1>7 DEF SearchNext

THEOREM CancelingIsFinal == SearchSpec => CanceledStays
<1> DEFINE Stays == \A o \in Operations :
                        job[o] = "canceled" /\ kind[o] # "recover"
                            => job'[o] = "canceled"
<1>1. SearchInv /\ [SearchNext]_searchVars => [Stays]_searchVars
  BY CanceledStep
<1>2. CanceledStays <=> [][Stays]_searchVars
  BY DEF CanceledStays
<1> HIDE DEF Stays
<1> QED
  BY <1>1, <1>2, SearchInvariance, PTL DEF SearchSpec

-----------------------------------------------------------------------------
(* The chat.  What a question has been told is final only where it was.      *)
Final(s) == \E i \in DOMAIN s : s[i] = "final"

LEMMA FinalOfTail ==
    ASSUME NEW s \in Seq(Events), s # <<>>
    PROVE  /\ Head(s) \in Events /\ Tail(s) \in Seq(Events)
           /\ Final(Tail(s)) => Final(s)
           /\ Head(s) = "final" => Final(s)
<1>1. Head(s) \in Events /\ Tail(s) \in Seq(Events)
  BY HeadTailProperties
<1>2. ASSUME NEW i \in DOMAIN Tail(s), Tail(s)[i] = "final" PROVE Final(s)
  <2>1. i + 1 \in DOMAIN s /\ s[i + 1] = "final"
    BY <1>2, HeadTailProperties
  <2> QED
    BY <2>1 DEF Final
<1>3. Head(s) = s[1] /\ 1 \in DOMAIN s
  BY HeadTailProperties, EmptySeq
<1> QED
  BY <1>1, <1>2, <1>3 DEF Final

LEMMA FinalOfConcat ==
    ASSUME NEW s \in Seq(Events), NEW t \in Seq(Events)
    PROVE  s \o t \in Seq(Events) /\ (Final(s \o t) => Final(s) \/ Final(t))
<1>1. s \o t \in Seq(Events)
  BY ConcatProperties
<1>2. ASSUME NEW i \in DOMAIN (s \o t), (s \o t)[i] = "final"
      PROVE  Final(s) \/ Final(t)
  <2>1. i \in 1..(Len(s) + Len(t)) /\ Len(s) \in Nat /\ Len(t) \in Nat
    BY ConcatProperties
  <2>2. CASE i <= Len(s)
    <3>1. i \in DOMAIN s /\ s[i] = "final"
      BY <1>2, <2>1, <2>2, ConcatProperties
    <3> QED
      BY <3>1 DEF Final
  <2>3. CASE ~(i <= Len(s))
    <3>1. i - Len(s) \in DOMAIN t /\ t[i - Len(s)] = "final"
      BY <1>2, <2>1, <2>3, ConcatProperties
    <3> QED
      BY <3>1 DEF Final
  <2> QED
    BY <2>2, <2>3
<1> QED
  BY <1>1, <1>2 DEF Final

LEMMA WrittenEvents ==
    ASSUME ChatTypeOK, NEW q \in Questions, NEW events \in Seq(Events),
           Written(q, events)
    PROVE  /\ stream' \in [Questions -> Seq(Events)]
           /\ \A p \in Questions : client[p] # "streaming" => stream'[p] = stream[p]
           /\ \A p \in Questions :
                Final(stream'[p]) => Final(stream[p]) \/ (p = q /\ Final(events))
<1>1. stream \in [Questions -> Seq(Events)]
  BY DEF ChatTypeOK
<1>2. CASE stream' = stream
  BY <1>1, <1>2
<1>3. CASE client[q] = "streaming" /\ stream' = [stream EXCEPT ![q] = @ \o events]
  <2>1. stream' = [stream EXCEPT ![q] = stream[q] \o events]
    BY <1>3
  <2>2. /\ stream[q] \o events \in Seq(Events)
        /\ Final(stream[q] \o events) => Final(stream[q]) \/ Final(events)
    BY <1>1, FinalOfConcat
  <2> QED
    BY <1>1, <1>3, <2>1, <2>2
<1> QED
  BY <1>2, <1>3 DEF Written

LEMMA NoFinal ==
    /\ <<>> \in Seq(Events) /\ <<"run">> \in Seq(Events) /\ <<"delta">> \in Seq(Events)
    /\ <<"error", "end">> \in Seq(Events) /\ <<"final", "end">> \in Seq(Events)
    /\ ~Final(<<>>) /\ ~Final(<<"run">>) /\ ~Final(<<"delta">>)
    /\ ~Final(<<"error", "end">>)
BY DEF Final, Events

(* What is shown keeps its questions, each once.                             *)
LEMMA ShowChanges ==
    ASSUME ChatTypeOK, NEW q \in Questions, NEW what \in Shows
    PROVE  /\ Show(q, what) \subseteq Message
           /\ \A m \in Show(q, what) :
                /\ m.of = q => m.shows = what
                /\ m.of # q => m \in messages
                /\ \E o \in messages : o.of = m.of
           /\ \A o \in messages : \E m \in Show(q, what) : m.of = o.of
           /\ (\A m, o \in messages : o.of = m.of => o = m)
                => \A m, o \in Show(q, what) : o.of = m.of => o = m
<1>1. messages \subseteq Message
  BY DEF ChatTypeOK
<1>2. ASSUME NEW x \in Show(q, what)
      PROVE  /\ x \in Message
             /\ x.of = q => x.shows = what
             /\ x.of # q => x \in messages
             /\ \E o \in messages : o.of = x.of
  <2>1. PICK m \in messages :
          x = IF m.of = q THEN [m EXCEPT !.shows = what] ELSE m
    BY DEF Show
  <2>2. m \in Message
    BY <1>1
  <2>3. CASE m.of = q
    <3>1. x = [of |-> q, shows |-> what]
      BY <2>1, <2>2, <2>3 DEF Message
    <3> QED
      BY <2>3, <3>1 DEF Message
  <2>4. CASE m.of # q
    BY <2>1, <2>2, <2>4
  <2> QED
    BY <2>3, <2>4
<1>3. ASSUME NEW m \in messages PROVE \E x \in Show(q, what) : x.of = m.of
  <2>1. m \in Message
    BY <1>1
  <2> DEFINE x == IF m.of = q THEN [m EXCEPT !.shows = what] ELSE m
  <2>2. x \in Show(q, what)
    BY DEF Show
  <2>3. x.of = m.of
    BY <2>1 DEF Message
  <2> HIDE DEF x
  <2> QED
    BY <2>2, <2>3
<1>7. \A m, o \in Show(q, what) : o.of = m.of /\ m.of = q => o = m
  BY <1>2 DEF Message
<1> QED
  BY <1>2, <1>3, <1>7

-----------------------------------------------------------------------------
(* When send ends, nothing is read any more.                                 *)
LEMMA EndedSend ==
    ASSUME ChatInv, NEW q \in Questions, client[q] = "streaming", EndSend(q)
    PROVE  /\ abortRef' = Absent /\ pending' = FALSE
           /\ client' \in [Questions -> {"none", "streaming", "ended"}]
           /\ heard' = [p \in Questions |-> {}]
           /\ stream' = [p \in Questions |-> <<>>]
           /\ \A p \in Questions :
                client'[p] # "streaming" /\ (client'[p] = "none" => client[p] = "none")
<1>1. ChatTypeOK /\ PanelInv /\ PendingIsRead
  BY DEF ChatInv
<1>2. abortRef = q /\ \A p \in Questions \ {q} : client[p] # "streaming"
  BY <1>1 DEF PendingIsRead
<1>3. \A p \in Questions \ {q} : stream[p] = <<>> /\ heard[p] = {}
  BY <1>1, <1>2 DEF PanelInv
<1>4. /\ client' = [client EXCEPT ![q] = "ended"]
      /\ heard' = [heard EXCEPT ![q] = {}]
      /\ stream' = [stream EXCEPT ![q] = <<>>]
      /\ abortRef' = Absent /\ pending' = FALSE
  BY <1>2 DEF EndSend
<1>5. heard' = [p \in Questions |-> {}] /\ stream' = [p \in Questions |-> <<>>]
  BY <1>1, <1>3, <1>4 DEF ChatTypeOK
<1> QED
  BY <1>1, <1>2, <1>4, <1>5 DEF ChatTypeOK

(* The histories on their way: what each is of, and what it says.            *)
LoadType == [of : Notebooks, alive : BOOLEAN, reply : {Absent} \cup SUBSET Message]
ReplyInv(l) ==
    l.reply # Absent =>
        /\ \A m \in l.reply : asked[m.of] = l.of /\ (m.shows = "answer" => IsStored(m.of))
        /\ \A m, o \in l.reply : m.of = o.of => m = o
LoadsInv ==
    /\ loads \subseteq LoadType
    /\ \A l \in loads : ReplyInv(l)
    /\ \A l \in loads : l.alive => loadingHistory /\ l.of = selected
    /\ \A l, k \in loads : l.alive /\ k.alive => l = k

LEMMA LoadsOf ==
    ASSUME ChatInv PROVE LoadsInv
BY DEF ChatInv, ChatTypeOK, PanelInv, AnswersInv, LoadsInv, LoadType, ReplyInv

LEMMA LoadHistoryKeeps ==
    ASSUME LoadsInv, LoadHistory(selected'), selected' \in Notebooks \cup {Absent},
           UNCHANGED <<asked, runs, existing>>
    PROVE  LoadsInv' /\ loadingHistory' \in BOOLEAN
<1>1. loadingHistory' = (selected' # Absent) /\ loadingHistory' \in BOOLEAN
  BY DEF LoadHistory
<1>2. ASSUME NEW l \in loads'
      PROVE  /\ l \in LoadType /\ ReplyInv(l)'
             /\ l.alive => l = [of |-> selected', alive |-> TRUE, reply |-> Absent]
             /\ l.alive => selected' # Absent
  <2>1. CASE \E k \in loads : l = [k EXCEPT !.alive = FALSE]
    <3>1. PICK k \in loads : l = [k EXCEPT !.alive = FALSE]
      BY <2>1
    <3>2. k \in LoadType /\ ReplyInv(k)
      BY DEF LoadsInv
    <3>3. l = [of |-> k.of, alive |-> FALSE, reply |-> k.reply]
      BY <3>1, <3>2 DEF LoadType
    <3>4. l \in LoadType /\ ~l.alive /\ l.of = k.of /\ l.reply = k.reply
      BY <3>2, <3>3 DEF LoadType
    <3> QED
      BY <3>2, <3>4 DEF ReplyInv, IsStored
  <2>2. CASE /\ selected' # Absent
             /\ l = [of |-> selected', alive |-> TRUE, reply |-> Absent]
    BY <2>2 DEF LoadType, ReplyInv
  <2>3. loads' = {[k EXCEPT !.alive = FALSE] : k \in loads}
                 \cup {[of |-> m, alive |-> TRUE, reply |-> Absent] :
                          m \in {selected'} \ {Absent}}
    BY DEF LoadHistory
  <2> QED
    BY <2>1, <2>2, <2>3
<1>3. \A l \in loads' : l \in LoadType /\ ReplyInv(l)'
  BY <1>2
<1>4. \A l \in loads' : l.alive => loadingHistory' /\ l.of = selected'
  <2>1. selected' # Absent => loadingHistory'
    BY <1>1
  <2>2. \A l \in loads' : l.alive => selected' # Absent
    BY <1>2
  <2>3. \A l \in loads' : l.alive => l.of = selected'
    BY <1>2
  <2> QED
    BY <2>1, <2>2, <2>3
<1>5. \A l, k \in loads' : l.alive /\ k.alive => l = k
  BY <1>2
<1> QED
  BY <1>1, <1>3, <1>4, <1>5 DEF LoadsInv

(* A step after which nothing is read.                                       *)
LEMMA QuietKeeps ==
    ASSUME ChatInv, NEW q \in Questions, client[q] = "streaming", EndSend(q),
           UNCHANGED <<asked, serverVars>>, selected' \in Notebooks \cup {Absent},
           messages' \subseteq Message, ConversationIsStored',
           messages' # {} => selected' # Absent,
           LoadHistory(selected') \/ (NoLoad /\ selected' = selected)
    PROVE  ChatInv'
<1>1. ChatTypeOK /\ PanelInv /\ RunsInv /\ AnswersInv
  BY DEF ChatInv
<1>2. /\ abortRef' = Absent /\ pending' = FALSE
      /\ client' \in [Questions -> {"none", "streaming", "ended"}]
      /\ heard' = [p \in Questions |-> {}]
      /\ stream' = [p \in Questions |-> <<>>]
      /\ \A p \in Questions :
           client'[p] # "streaming" /\ (client'[p] = "none" => client[p] = "none")
  BY EndedSend
<1>3. UNCHANGED <<asked, handler, closed, runs, existing>>
  BY DEF serverVars
<1>4. LoadsInv' /\ loadingHistory' \in BOOLEAN
  <2>1. CASE LoadHistory(selected')
    BY <1>3, <2>1, LoadsOf, LoadHistoryKeeps
  <2>2. CASE NoLoad /\ selected' = selected
    BY <1>1, <1>3, <2>2, LoadsOf DEF NoLoad, LoadsInv, ReplyInv, IsStored, ChatTypeOK
  <2> QED
    BY <2>1, <2>2
<1>5. ChatTypeOK'
  <2>1. heard' \in [Questions -> SUBSET {"run", "delta", "final"}]
        /\ stream' \in [Questions -> Seq(Events)] /\ pending' \in BOOLEAN
    BY <1>2, NoFinal
  <2>2. \A l \in loads' : l \in [of : Notebooks, alive : BOOLEAN,
                               reply : {Absent} \cup SUBSET Message]
    BY <1>4 DEF LoadsInv, LoadType
  <2> QED
    BY <1>1, <1>2, <1>3, <1>4, <2>1, <2>2 DEF ChatTypeOK
<1>6. PanelInv'
  <2>1. \A p \in Questions :
          /\ client'[p] # "streaming"
          /\ client'[p] = "none" => asked'[p] = Absent /\ handler'[p] = "none"
          /\ stream'[p] = <<>> /\ heard'[p] = {}
    BY <1>1, <1>2, <1>3 DEF PanelInv
  <2> QED
    BY <1>2, <1>4, <2>1 DEF PanelInv, LoadsInv
<1>7. RunsInv'
  BY <1>1, <1>3 DEF RunsInv
<1>8. AnswersInv'
  <2>1. \A p \in Questions : Answered(p)' => IsStored(p)'
    BY <1>1, <1>2, <1>3 DEF AnswersInv, Answered, IsStored
  <2> QED
    BY <1>4, <2>1 DEF AnswersInv, LoadsInv, ReplyInv
<1>9. PendingIsRead'
  BY <1>2 DEF PendingIsRead
<1> QED
  BY <1>5, <1>6, <1>7, <1>8, <1>9 DEF ChatInv

(* A step of the server: what has an answer keeps it.                        *)
LEMMA ServerKeeps ==
    ASSUME ChatInv, UNCHANGED <<panelVars, sendVars, loads>>,
           handler' \in [Questions -> {"none", "posted", "created", "running",
                                       "answering", "ended"}],
           closed' \subseteq Questions, existing' \subseteq existing,
           stream' \in [Questions -> Seq(Events)],
           \A p \in Questions : client[p] # "streaming" => stream'[p] = stream[p],
           \A p \in Questions : handler[p] = "none" => handler'[p] = "none",
           runs' \subseteq [of : Questions, status : {"STARTED", "SUCCEEDED", "FAILED"}],
           RunsInv',
           \A p \in Questions : IsStored(p) => IsStored(p)',
           \A p \in Questions : Answered(p)' => Answered(p) \/ IsStored(p)'
    PROVE  ChatInv'
<1>1. ChatTypeOK /\ PanelInv /\ AnswersInv /\ ConversationIsStored /\ PendingIsRead
  BY DEF ChatInv
<1>2. UNCHANGED <<selected, messages, pending, loadingHistory, abortRef, client,
                  asked, heard, loads>>
  BY DEF panelVars, sendVars
<1>3. ChatTypeOK'
  BY <1>1, <1>2 DEF ChatTypeOK
<1>4. PanelInv'
  BY <1>1, <1>2 DEF PanelInv
<1>5. AnswersInv'
  <2>1. \A p \in Questions : Answered(p)' => IsStored(p)'
    BY <1>1 DEF AnswersInv
  <2>2. \A l \in loads : l.reply # Absent => \A m \in l.reply : m.of \in Questions
    BY <1>1 DEF ChatTypeOK, Message
  <2> QED
    BY <1>1, <1>2, <2>1, <2>2 DEF AnswersInv
<1>6. ConversationIsStored'
  <2>1. \A m \in messages : m.of \in Questions
    BY <1>1 DEF ChatTypeOK, Message
  <2>2. \A m \in messages : m.shows = "answer" => IsStored(m.of)
    BY <1>1 DEF ConversationIsStored, IsStored
  <2>3. \A p \in Questions : IsStored(p)' =>
          (asked[p] \in existing' => [of |-> p, status |-> "SUCCEEDED"] \in runs')
    BY <1>2 DEF IsStored
  <2> QED
    BY <1>1, <1>2, <2>1, <2>2, <2>3 DEF ConversationIsStored
<1>7. PendingIsRead'
  BY <1>1, <1>2 DEF PendingIsRead
<1> QED
  BY <1>3, <1>4, <1>5, <1>6, <1>7 DEF ChatInv

(* The end of a run leaves the others alone.                                 *)
LEMMA EndedRuns ==
    ASSUME ChatInv, NEW q \in Questions, NEW status \in {"SUCCEEDED", "FAILED"}
    PROVE  /\ Ended(q, status) \subseteq
                [of : Questions, status : {"STARTED", "SUCCEEDED", "FAILED"}]
           /\ \A r \in Ended(q, status) :
                IF r.of = q THEN r.status = status /\ HasRun(q) ELSE r \in runs
           /\ \A r \in runs : r.of # q => r \in Ended(q, status)
           /\ HasRun(q) => [of |-> q, status |-> status] \in Ended(q, status)
<1>1. runs \subseteq [of : Questions, status : {"STARTED", "SUCCEEDED", "FAILED"}]
  BY DEF ChatInv, ChatTypeOK
<1>2. ASSUME NEW r \in runs, r.of = q
      PROVE  [r EXCEPT !.status = status] = [of |-> q, status |-> status]
  BY <1>1, <1>2
<1>3. \A x : x \in Ended(q, status) <=>
        \E r \in runs : x = IF r.of = q THEN [r EXCEPT !.status = status] ELSE r
  BY DEF Ended
<1>4. \A x : x \in Ended(q, status) <=>
        \/ HasRun(q) /\ x = [of |-> q, status |-> status]
        \/ x \in runs /\ x.of # q
  <2>1. ASSUME NEW x, NEW r \in runs,
               x = IF r.of = q THEN [r EXCEPT !.status = status] ELSE r
        PROVE  \/ HasRun(q) /\ x = [of |-> q, status |-> status]
               \/ x \in runs /\ x.of # q
    BY <1>2, <2>1 DEF HasRun
  <2>2. ASSUME HasRun(q) PROVE [of |-> q, status |-> status] \in Ended(q, status)
    <3>1. PICK r \in runs : r.of = q
      BY <2>2 DEF HasRun
    <3> QED
      BY <1>2, <1>3, <3>1
  <2>3. ASSUME NEW x \in runs, x.of # q PROVE x \in Ended(q, status)
    BY <1>3, <2>3
  <2> QED
    BY <1>3, <2>1, <2>2, <2>3
<1> QED
  BY <1>1, <1>4

LEMMA HandleKeeps ==
    ASSUME ChatInv, NEW q \in Questions, Handle(q)
    PROVE  ChatInv'
<1>1. ChatTypeOK /\ PanelInv /\ RunsInv /\ AnswersInv
  BY DEF ChatInv
<1>2. UNCHANGED <<panelVars, sendVars, loads, existing>> /\ existing' \subseteq existing
      /\ UNCHANGED <<asked, heard, client>>
  BY DEF Handle, sendVars
<1> DEFINE Reached(pcs) ==
             /\ \E s \in pcs : handler' = [handler EXCEPT ![q] = s]
             /\ closed' \subseteq closed
           Runs == [of : Questions, status : {"STARTED", "SUCCEEDED", "FAILED"}]
           Stores == \A p \in Questions : IsStored(p) => IsStored(p)'
           Written1(noFinal) ==
             /\ stream' \in [Questions -> Seq(Events)]
             /\ \A p \in Questions : client[p] # "streaming" => stream'[p] = stream[p]
             /\ \A p \in Questions :
                  Final(stream'[p]) => Final(stream[p]) \/ (p = q /\ ~noFinal)
<1>3. ASSUME NEW s, Reach(q, s) PROVE Reached({s})
  BY <1>3 DEF Reach
<1>4. ASSUME handler[q] # "none", Reached({"created", "running", "answering", "ended"}),
             runs' \subseteq Runs, RunsInv', Stores,
             Written1(handler[q] # "answering"),
             handler'[q] = "answering" => IsStored(q)'
      PROVE  ChatInv'
  <2>1. /\ handler' \in [Questions -> {"none", "posted", "created", "running",
                                      "answering", "ended"}]
        /\ \A p \in Questions : handler[p] = "none" => handler'[p] = "none"
        /\ \A p \in Questions \ {q} : handler'[p] = handler[p]
        /\ closed' \subseteq Questions
    BY <1>1, <1>4 DEF ChatTypeOK
  <2>2. ASSUME NEW p \in Questions, Answered(p)' PROVE Answered(p) \/ IsStored(p)'
    <3>1. CASE handler'[p] = "answering"
      <4>1. CASE p = q
        BY <1>4, <3>1, <4>1
      <4>2. CASE p # q
        BY <2>1, <3>1, <4>2 DEF Answered
      <4> QED
        BY <4>1, <4>2
    <3>2. CASE "final" \in heard'[p]
      BY <1>2, <3>2 DEF Answered
    <3>3. CASE Final(stream'[p])
      <4>1. Final(stream[p]) \/ (p = q /\ handler[q] = "answering")
        BY <1>4, <3>3
      <4> QED
        BY <4>1 DEF Answered, Final
    <3> QED
      BY <2>2, <3>1, <3>2, <3>3 DEF Answered, Final
  <2> QED
    BY <1>2, <1>4, <2>1, <2>2, ServerKeeps
<1>5. ASSUME NEW events \in Seq(Events), Written(q, events),
             NEW noFinal \in BOOLEAN, noFinal => ~Final(events)
      PROVE  Written1(noFinal)
  BY <1>1, <1>5, WrittenEvents
<1>6. runs' = runs => runs' \subseteq Runs /\ Stores
  BY <1>1, <1>2 DEF ChatTypeOK, IsStored
<1>7. CASE Refuse(q)
  <2>1. Written(q, <<"error", "end">>) /\ Reached({"ended"}) /\ runs' = runs
        /\ handler[q] = "posted"
    BY <1>3, <1>7 DEF Refuse
  <2>2. Written1(TRUE)
    BY <1>5, <2>1, NoFinal
  <2>3. RunsInv'
    BY <1>1, <2>1 DEF RunsInv, ChatTypeOK
  <2>4. handler'[q] = "ended"
    BY <1>1, <2>1 DEF ChatTypeOK
  <2> QED
    BY <1>4, <1>6, <2>1, <2>2, <2>3, <2>4
<1>8. CASE CreateRun(q)
  <2>1. Written(q, <<"run">>) /\ Reached({"created"})
        /\ runs' = runs \cup {[of |-> q, status |-> "STARTED"]}
        /\ handler[q] = "posted"
    BY <1>3, <1>8 DEF CreateRun
  <2>2. Written1(TRUE)
    BY <1>5, <2>1, NoFinal
  <2>3. handler'[q] = "created" /\ \A p \in Questions \ {q} : handler'[p] = handler[p]
    BY <1>1, <2>1 DEF ChatTypeOK
  <2>4. \A r \in runs : r.of # q /\ r.of \in Questions
    BY <1>1, <2>1 DEF RunsInv, ChatTypeOK
  <2>5. RunsInv'
    BY <1>1, <2>1, <2>3, <2>4 DEF RunsInv
  <2>6. runs' \subseteq Runs /\ Stores
    BY <1>1, <1>2, <2>1 DEF ChatTypeOK, IsStored
  <2> QED
    BY <1>4, <2>1, <2>2, <2>3, <2>5, <2>6
<1>9. CASE BeginAnswer(q)
  <2>1. Reached({"running"}) /\ runs' = runs /\ stream' = stream
        /\ handler[q] = "created"
    BY <1>3, <1>9 DEF BeginAnswer
  <2>2. Written1(TRUE)
    BY <1>1, <2>1 DEF ChatTypeOK
  <2>3. handler'[q] = "running" /\ \A p \in Questions \ {q} : handler'[p] = handler[p]
    BY <1>1, <2>1 DEF ChatTypeOK
  <2>4. RunsInv'
    <3>1. runs \subseteq Runs
      BY <1>1 DEF ChatTypeOK
    <3> QED
      BY <1>1, <2>1, <2>3, <3>1 DEF RunsInv
  <2> QED
    BY <1>4, <1>6, <2>1, <2>2, <2>3, <2>4
<1>10. CASE FailRun(q)
  <2>1. Written(q, <<"error", "end">>) /\ Reached({"ended"})
        /\ runs' = Ended(q, "FAILED") /\ handler[q] \in {"created", "running"}
    BY <1>3, <1>10 DEF FailRun
  <2>2. Written1(TRUE)
    BY <1>5, <2>1, NoFinal
  <2>3. handler'[q] = "ended" /\ \A p \in Questions \ {q} : handler'[p] = handler[p]
    BY <1>1, <2>1 DEF ChatTypeOK
  <2>4. /\ runs' \subseteq Runs
        /\ \A r \in runs' : IF r.of = q THEN r.status = "FAILED" ELSE r \in runs
        /\ \A r \in runs : r.of # q => r \in runs'
    BY <2>1, EndedRuns
  <2>5. RunsInv'
    <3>1. ASSUME NEW r \in runs', NEW s \in runs', r.of = s.of PROVE r = s
      BY <1>1, <2>4, <3>1 DEF RunsInv
    <3>2. ASSUME NEW r \in runs'
          PROVE  /\ handler'[r.of] \notin {"none", "posted"}
                 /\ handler'[r.of] \in {"created", "running"} => r.status = "STARTED"
      BY <1>1, <2>3, <2>4 DEF RunsInv
    <3> QED
      BY <3>1, <3>2 DEF RunsInv
  <2>6. ASSUME NEW p \in Questions, IsStored(p) PROVE IsStored(p)'
    <3>1. CASE p = q
      <4>1. [of |-> q, status |-> "SUCCEEDED"] \notin runs
        BY <1>1, <2>1 DEF RunsInv
      <4> QED
        BY <1>2, <2>6, <3>1, <4>1 DEF IsStored
    <3>2. CASE p # q
      BY <1>2, <2>4, <2>6, <3>2 DEF IsStored
    <3> QED
      BY <3>1, <3>2
  <2> QED
    BY <1>4, <2>1, <2>2, <2>3, <2>4, <2>5, <2>6
<1>11. CASE SucceedRun(q)
  <2>1. Reached({"answering"}) /\ HasRun(q)
        /\ runs' = Ended(q, "SUCCEEDED") /\ handler[q] = "running"
    BY <1>3, <1>11 DEF SucceedRun
  <2>2. Written1(TRUE)
    BY <1>5, <1>11, NoFinal DEF SucceedRun
  <2>3. handler'[q] = "answering" /\ \A p \in Questions \ {q} : handler'[p] = handler[p]
    BY <1>1, <2>1 DEF ChatTypeOK
  <2>4. /\ runs' \subseteq Runs
        /\ \A r \in runs' : IF r.of = q THEN r.status = "SUCCEEDED" ELSE r \in runs
        /\ \A r \in runs : r.of # q => r \in runs'
        /\ [of |-> q, status |-> "SUCCEEDED"] \in runs'
    BY <2>1, EndedRuns
  <2>5. RunsInv'
    <3>1. ASSUME NEW r \in runs', NEW s \in runs', r.of = s.of PROVE r = s
      BY <1>1, <2>4, <3>1 DEF RunsInv
    <3>2. ASSUME NEW r \in runs'
          PROVE  /\ handler'[r.of] \notin {"none", "posted"}
                 /\ handler'[r.of] \in {"created", "running"} => r.status = "STARTED"
      BY <1>1, <2>3, <2>4 DEF RunsInv
    <3> QED
      BY <3>1, <3>2 DEF RunsInv
  <2>6. ASSUME NEW p \in Questions, IsStored(p) \/ p = q PROVE IsStored(p)'
    BY <1>2, <2>4, <2>6 DEF IsStored
  <2> QED
    BY <1>4, <2>1, <2>2, <2>3, <2>4, <2>5, <2>6
<1>12. CASE Deliver(q)
  <2>1. Written(q, <<"final", "end">>) /\ Reached({"ended"}) /\ runs' = runs
        /\ handler[q] = "answering"
    BY <1>3, <1>12 DEF Deliver
  <2>2. Written1(FALSE)
    BY <1>5, <2>1, NoFinal
  <2>3. handler'[q] = "ended" /\ \A p \in Questions \ {q} : handler'[p] = handler[p]
    BY <1>1, <2>1 DEF ChatTypeOK
  <2>4. RunsInv'
    BY <1>1, <2>1, <2>3 DEF RunsInv
  <2> QED
    BY <1>4, <1>6, <2>1, <2>2, <2>3, <2>4
<1> QED
  BY <1>7, <1>8, <1>9, <1>10, <1>11, <1>12 DEF Handle

LEMMA ServerEventsKeep ==
    ASSUME ChatInv,
           (\E q \in Questions : Close(q)) \/ ServerDies
           \/ (\E n \in Notebooks : DeleteNotebook(n))
    PROVE  ChatInv'
<1>1. ChatTypeOK /\ PanelInv /\ RunsInv /\ AnswersInv
  BY DEF ChatInv
<1>2. UNCHANGED <<panelVars, sendVars, loads, stream>>
      /\ UNCHANGED <<asked, heard, stream>>
  BY DEF Close, ServerDies, DeleteNotebook, sendVars
<1>3. stream' \in [Questions -> Seq(Events)]
  BY <1>1, <1>2 DEF ChatTypeOK
<1>4. CASE \E q \in Questions : Close(q)
  <2>1. closed' \subseteq Questions /\ UNCHANGED <<handler, runs, existing>>
    BY <1>1, <1>4 DEF Close, ChatTypeOK
  <2>2. RunsInv' /\ \A p \in Questions :
          (IsStored(p) => IsStored(p)') /\ (Answered(p)' => Answered(p))
    BY <1>1, <1>2, <2>1 DEF RunsInv, IsStored, Answered
  <2> QED
    BY <1>1, <1>2, <1>3, <2>1, <2>2, ServerKeeps DEF ChatTypeOK
<1>5. CASE ServerDies
  <2>1. /\ handler' = [q \in Questions |-> IF handler[q] = "none" THEN "none" ELSE "ended"]
        /\ closed' = {} /\ UNCHANGED <<runs, existing>>
    BY <1>5 DEF ServerDies
  <2>2. RunsInv' /\ \A p \in Questions :
          (IsStored(p) => IsStored(p)') /\ (Answered(p)' => Answered(p))
    <3>1. \A r \in runs : r.of \in Questions
      BY <1>1 DEF ChatTypeOK
    <3> QED
      BY <1>1, <1>2, <2>1, <3>1 DEF RunsInv, IsStored, Answered
  <2>3. /\ handler' \in [Questions -> {"none", "posted", "created", "running",
                                      "answering", "ended"}]
        /\ \A p \in Questions : handler[p] = "none" => handler'[p] = "none"
    BY <2>1
  <2> QED
    BY <1>1, <1>2, <1>3, <2>1, <2>2, <2>3, ServerKeeps DEF ChatTypeOK
<1>6. ASSUME NEW n \in Notebooks, DeleteNotebook(n) PROVE ChatInv'
  <2>1. /\ existing' = existing \ {n} /\ runs' = {r \in runs : asked[r.of] # n}
        /\ UNCHANGED <<handler, closed>>
    BY <1>6 DEF DeleteNotebook
  <2>2. RunsInv' /\ \A p \in Questions :
          (IsStored(p) => IsStored(p)') /\ (Answered(p)' => Answered(p))
    BY <1>1, <1>2, <2>1 DEF RunsInv, IsStored, Answered
  <2> QED
    BY <1>1, <1>2, <1>3, <2>1, <2>2, ServerKeeps DEF ChatTypeOK
<1> QED
  BY <1>4, <1>5, <1>6

-----------------------------------------------------------------------------
(* The panel: another notebook, a question, the button that stops it.        *)
LEMMA SelectKeeps ==
    ASSUME ChatInv, NEW n \in Notebooks \cup {Absent}, SelectNotebook(n)
    PROVE  ChatInv'
<1>1. ChatTypeOK /\ PanelInv /\ RunsInv /\ AnswersInv /\ PendingIsRead
  BY DEF ChatInv
<1>2. /\ selected' = n /\ messages' = {} /\ LoadHistory(selected')
      /\ UNCHANGED serverVars
      /\ ConversationIsStored' /\ messages' \subseteq Message
  BY DEF SelectNotebook, ConversationIsStored
<1>3. CASE abortRef # Absent
  <2>1. abortRef \in Questions /\ client[abortRef] = "streaming"
    BY <1>1, <1>3 DEF ChatTypeOK, PanelInv
  <2>2. EndSend(abortRef) /\ asked' = asked
    BY <1>3 DEF SelectNotebook
  <2> QED
    BY <1>2, <2>1, <2>2, QuietKeeps
<1>4. CASE abortRef = Absent
  <2>1. /\ pending' = FALSE
        /\ UNCHANGED <<abortRef, client, asked, heard, stream, handler, closed, runs,
                       existing>>
    BY <1>2, <1>4 DEF SelectNotebook, sendVars, serverVars
  <2>2. \A q \in Questions : client[q] # "streaming"
    BY <1>1, <1>4, ChatAssumption DEF PendingIsRead
  <2>3. LoadsInv' /\ loadingHistory' \in BOOLEAN
    BY <1>2, <2>1, LoadsOf, LoadHistoryKeeps
  <2>4. ChatTypeOK'
    <3>1. \A l \in loads' : l \in [of : Notebooks, alive : BOOLEAN,
                                 reply : {Absent} \cup SUBSET Message]
      BY <2>3 DEF LoadsInv, LoadType
    <3> QED
      BY <1>1, <1>2, <2>1, <2>3, <3>1 DEF ChatTypeOK
  <2>5. PanelInv'
    BY <1>1, <1>2, <1>4, <2>1, <2>2, <2>3 DEF PanelInv, LoadsInv
  <2>6. RunsInv'
    BY <1>1, <2>1 DEF RunsInv
  <2>7. AnswersInv'
    <3>1. \A p \in Questions : Answered(p)' => IsStored(p)'
      BY <1>1, <2>1 DEF AnswersInv, Answered, IsStored
    <3> QED
      BY <2>3, <3>1 DEF AnswersInv, LoadsInv, ReplyInv
  <2>8. PendingIsRead'
    BY <2>1, <2>2 DEF PendingIsRead
  <2> QED
    BY <1>2, <2>4, <2>5, <2>6, <2>7, <2>8 DEF ChatInv
<1> QED
  BY <1>3, <1>4

LEMMA SendKeeps ==
    ASSUME ChatInv, NEW q \in Questions, Send(q)
    PROVE  ChatInv'
<1>1. ChatTypeOK /\ PanelInv /\ RunsInv /\ AnswersInv /\ ConversationIsStored
      /\ PendingIsRead
  BY DEF ChatInv
<1>2. /\ client[q] = "none" /\ selected # Absent /\ ~pending /\ ~loadingHistory
      /\ messages' = messages \cup {[of |-> q, shows |-> "nothing"]}
      /\ pending' = TRUE /\ abortRef' = q
      /\ client' = [client EXCEPT ![q] = "streaming"]
      /\ asked' = [asked EXCEPT ![q] = selected]
      /\ handler' = [handler EXCEPT ![q] = "posted"]
      /\ UNCHANGED <<selected, loadingHistory, heard, loads, stream, closed, runs,
                     existing>>
  BY DEF Send
<1>3. /\ asked[q] = Absent /\ handler[q] = "none" /\ stream[q] = <<>> /\ heard[q] = {}
      /\ selected \in Notebooks
      /\ \A p \in Questions : client[p] # "streaming"
      /\ \A l \in loads : ~l.alive
  BY <1>1, <1>2 DEF PanelInv, PendingIsRead, ChatTypeOK
<1>4. /\ \A r \in runs : r.of # q /\ r.of \in Questions
      /\ \A m \in messages : m.of # q /\ m.of \in Questions
      /\ \A l \in loads : l.reply # Absent =>
             \A m \in l.reply : m.of # q /\ m.of \in Questions
  <2>1. \A r \in runs : r.of # q /\ r.of \in Questions
    BY <1>1, <1>3 DEF RunsInv, ChatTypeOK
  <2>2. \A m \in messages : m.of # q /\ m.of \in Questions
    BY <1>1, <1>2, <1>3 DEF ConversationIsStored, ChatTypeOK, Message
  <2>3. ASSUME NEW l \in loads, l.reply # Absent, NEW m \in l.reply
        PROVE  m.of # q /\ m.of \in Questions
    <3>1. asked[m.of] = l.of
      BY <1>1, <2>3 DEF AnswersInv
    <3>2. l.of \in Notebooks /\ m.of \in Questions
      BY <1>1, <2>3 DEF ChatTypeOK, Message
    <3> QED
      BY <1>3, <3>1, <3>2, ChatAssumption
  <2> QED
    BY <2>1, <2>2, <2>3
<1>5. /\ client'[q] = "streaming" /\ asked'[q] = selected /\ handler'[q] = "posted"
      /\ \A p \in Questions \ {q} :
           client'[p] = client[p] /\ asked'[p] = asked[p] /\ handler'[p] = handler[p]
  BY <1>1, <1>2 DEF ChatTypeOK
<1>6. ChatTypeOK'
  <2>1. [of |-> q, shows |-> "nothing"] \in Message
    BY DEF Message, Shows
  <2> QED
    BY <1>1, <1>2, <2>1 DEF ChatTypeOK
<1>7. PanelInv'
  <2>1. \A p \in Questions :
         /\ client'[p] = "streaming" =>
              asked'[p] = selected' /\ selected' # Absent /\ ~loadingHistory'
         /\ client'[p] = "none" => asked'[p] = Absent /\ handler'[p] = "none"
         /\ client'[p] # "streaming" => stream'[p] = <<>> /\ heard'[p] = {}
    BY <1>1, <1>2, <1>3, <1>5 DEF PanelInv
  <2> QED
    BY <1>2, <1>3, <1>5, <2>1 DEF PanelInv
<1>8. RunsInv'
  BY <1>1, <1>2, <1>4, <1>5 DEF RunsInv
<1>9. AnswersInv'
  <2>1. \A p \in Questions \ {q} : IsStored(p)' <=> IsStored(p)
    BY <1>2, <1>5 DEF IsStored
  <2>2. ASSUME NEW p \in Questions, Answered(p)' PROVE IsStored(p)'
    <3>1. p # q
      BY <1>2, <1>3, <1>5, <2>2 DEF Answered
    <3>2. Answered(p)
      BY <1>2, <1>5, <2>2, <3>1 DEF Answered
    <3> QED
      BY <1>1, <2>1, <3>1, <3>2 DEF AnswersInv
  <2> QED
    BY <1>1, <1>2, <1>4, <1>5, <2>1, <2>2 DEF AnswersInv
<1>10. ConversationIsStored'
  <2>1. ASSUME NEW m \in messages'
        PROVE  /\ asked'[m.of] = selected'
               /\ \A o \in messages' : o.of = m.of => o = m
               /\ m.shows = "answer" /\ asked'[m.of] \in existing' =>
                    [of |-> m.of, status |-> "SUCCEEDED"] \in runs'
    <3>1. CASE m \in messages
      <4>1. m.of # q /\ m.of \in Questions /\ asked'[m.of] = asked[m.of]
        BY <1>4, <1>5, <3>1
      <4> QED
        BY <1>1, <1>2, <3>1, <4>1 DEF ConversationIsStored
    <3>2. CASE m = [of |-> q, shows |-> "nothing"]
      BY <1>2, <1>4, <1>5, <3>2
    <3> QED
      BY <1>2, <3>1, <3>2
  <2> QED
    BY <2>1 DEF ConversationIsStored
<1>11. PendingIsRead'
  <2>1. \E m \in messages' : m.of = q
    <3>1. PICK m \in messages' : m = [of |-> q, shows |-> "nothing"]
      BY <1>2
    <3>2. m.of = q
      BY <3>1
    <3> QED
      BY <3>2
  <2> QED
    BY <1>2, <1>3, <1>5, <2>1 DEF PendingIsRead
<1> QED
  BY <1>6, <1>7, <1>8, <1>9, <1>10, <1>11 DEF ChatInv

(* What is shown instead is no answer, or a stored one.                      *)
LEMMA ShowKeeps ==
    ASSUME ChatInv, NEW q \in Questions, NEW what \in Shows,
           messages' = Show(q, what), UNCHANGED <<selected, asked, runs, existing>>,
           what = "answer" => IsStored(q)
    PROVE  /\ ConversationIsStored' /\ messages' \subseteq Message
           /\ messages' # {} => selected' # Absent
           /\ \A p \in Questions :
                (\E m \in messages : m.of = p) => \E m \in messages' : m.of = p
<1>1. ChatTypeOK /\ PanelInv /\ ConversationIsStored
  BY DEF ChatInv
<1>2. /\ messages' \subseteq Message
      /\ \A m \in messages' :
                /\ m.of = q => m.shows = what
                /\ m.of # q => m \in messages
                /\ \E o \in messages : o.of = m.of
      /\ \A o \in messages : \E m \in messages' : m.of = o.of
      /\ (\A m, o \in messages : o.of = m.of => o = m)
           => \A m, o \in messages' : o.of = m.of => o = m
  BY <1>1, ShowChanges
<1>3. \A m, o \in messages' : o.of = m.of => o = m
  BY <1>1, <1>2 DEF ConversationIsStored
<1>4. ASSUME NEW m \in messages'
      PROVE  /\ asked'[m.of] = selected'
             /\ m.shows = "answer" /\ asked'[m.of] \in existing' =>
                    [of |-> m.of, status |-> "SUCCEEDED"] \in runs'
  <2>1. asked[m.of] = selected
    <3>1. PICK o \in messages : o.of = m.of
      BY <1>2
    <3>2. asked[o.of] = selected
      BY <1>1 DEF ConversationIsStored
    <3> QED
      BY <3>1, <3>2
  <2>2. CASE m.of = q
    BY <1>2, <2>1, <2>2 DEF IsStored
  <2>3. CASE m.of # q
    BY <1>1, <1>2, <2>1, <2>3 DEF ConversationIsStored
  <2> QED
    BY <2>2, <2>3
<1>5. ConversationIsStored'
  BY <1>3, <1>4 DEF ConversationIsStored
<1>6. messages' # {} => selected' # Absent
  BY <1>1, <1>2 DEF PanelInv
<1> QED
  BY <1>2, <1>5, <1>6

LEMMA FailsKeeps ==
    ASSUME ChatInv, NEW q \in Questions, client[q] = "streaming", UNCHANGED serverVars,
           Fails(q)
    PROVE  ChatInv'
<1>1. /\ messages' = Show(q, "error") /\ EndSend(q) /\ UNCHANGED <<selected, asked>>
      /\ LoadHistory(selected) \/ NoLoad
  BY DEF Fails
<1>2. "error" \in Shows /\ UNCHANGED <<runs, existing>>
  BY DEF Shows, serverVars
<1>3. /\ ConversationIsStored' /\ messages' \subseteq Message
      /\ messages' # {} => selected' # Absent
  BY <1>1, <1>2, ShowKeeps
<1>4. selected' \in Notebooks \cup {Absent} /\ selected' = selected
  BY <1>1 DEF ChatInv, ChatTypeOK
<1>5. LoadHistory(selected') \/ (NoLoad /\ selected' = selected)
  BY <1>1, <1>4
<1> QED
  BY <1>1, <1>3, <1>4, <1>5, QuietKeeps

LEMMA StopKeeps ==
    ASSUME ChatInv, Stop
    PROVE  ChatInv'
<1>1. ChatTypeOK /\ PanelInv
  BY DEF ChatInv
<1>2. /\ abortRef # Absent /\ EndSend(abortRef)
      /\ \E what \in {"partial", "stopped"} : messages' = Show(abortRef, what)
      /\ UNCHANGED <<selected, loadingHistory, asked, loads, serverVars>>
  BY DEF Stop
<1>3. abortRef \in Questions /\ client[abortRef] = "streaming"
  BY <1>1, <1>2 DEF ChatTypeOK, PanelInv
<1>4. {"partial", "stopped"} \subseteq Shows /\ UNCHANGED <<runs, existing>>
  BY <1>2 DEF Shows, serverVars
<1>5. /\ ConversationIsStored' /\ messages' \subseteq Message
      /\ messages' # {} => selected' # Absent
  BY <1>2, <1>3, <1>4, ShowKeeps
<1>6. selected' \in Notebooks \cup {Absent} /\ NoLoad
  BY <1>1, <1>2 DEF ChatTypeOK, NoLoad
<1> QED
  BY <1>2, <1>3, <1>5, <1>6, QuietKeeps

LEMMA FinishKeeps ==
    ASSUME ChatInv, NEW q \in Questions, client[q] = "streaming", UNCHANGED serverVars,
           "final" \in heard[q], Finish(q)
    PROVE  ChatInv'
<1>1. ChatTypeOK /\ PanelInv /\ AnswersInv /\ ConversationIsStored
  BY DEF ChatInv
<1>2. /\ EndSend(q) /\ UNCHANGED <<selected, asked>> /\ NoLoad
      /\ messages' = messages \/ messages' = Show(q, "answer")
  BY DEF Finish
<1>3. "answer" \in Shows /\ UNCHANGED <<runs, existing>> /\ IsStored(q)
  BY <1>1 DEF Shows, serverVars, AnswersInv, Answered
<1>4. /\ ConversationIsStored' /\ messages' \subseteq Message
      /\ messages' # {} => selected' # Absent
  <2>1. CASE messages' = messages
    BY <1>1, <1>2, <1>3, <2>1 DEF ConversationIsStored, ChatTypeOK, PanelInv
  <2>2. CASE messages' = Show(q, "answer")
    BY <1>2, <1>3, <2>2, ShowKeeps
  <2> QED
    BY <1>2, <2>1, <2>2
<1>5. selected' \in Notebooks \cup {Absent} /\ selected' = selected
  BY <1>1, <1>2 DEF ChatTypeOK
<1> QED
  BY <1>2, <1>4, <1>5, QuietKeeps

LEMMA HearKeeps ==
    ASSUME ChatInv, NEW q \in Questions, client[q] = "streaming", UNCHANGED serverVars,
           stream[q] # <<>>, NEW event \in {"run", "delta", "final"},
           event = Head(stream[q]), Hear(q, event)
    PROVE  ChatInv'
<1>1. ChatTypeOK /\ PanelInv /\ RunsInv /\ AnswersInv /\ ConversationIsStored
      /\ PendingIsRead
  BY DEF ChatInv
<1>2. /\ stream' = [stream EXCEPT ![q] = Tail(stream[q])]
      /\ heard' = [heard EXCEPT ![q] = heard[q] \cup {event}]
      /\ UNCHANGED <<loads, loadingHistory, selected, pending, abortRef, client, asked>>
      /\ UNCHANGED <<handler, closed, runs, existing>>
      /\ \/ messages' = messages
         \/ \E what \in {"partial", "answer"} :
              messages' = Show(q, what) /\ (what = "answer" => event = "final")
  BY DEF Hear, NoLoad, serverVars
<1>3. stream[q] \in Seq(Events)
  BY <1>1 DEF ChatTypeOK
<1>4. /\ Tail(stream[q]) \in Seq(Events)
      /\ Final(Tail(stream[q])) => Final(stream[q])
      /\ event = "final" => Final(stream[q])
  BY <1>3, FinalOfTail
<1>5. event = "final" => Answered(q)
  BY <1>4 DEF Answered, Final
<1>6. /\ ConversationIsStored' /\ messages' \subseteq Message
      /\ messages' # {} => selected' # Absent
      /\ \A p \in Questions :
           (\E m \in messages : m.of = p) => \E m \in messages' : m.of = p
  <2>1. CASE messages' = messages
    BY <1>1, <1>2, <2>1 DEF ConversationIsStored, ChatTypeOK, PanelInv
  <2>2. ASSUME NEW what \in {"partial", "answer"}, messages' = Show(q, what),
               what = "answer" => event = "final"
        PROVE  /\ ConversationIsStored' /\ messages' \subseteq Message
               /\ messages' # {} => selected' # Absent
               /\ \A p \in Questions :
                    (\E m \in messages : m.of = p) => \E m \in messages' : m.of = p
    <3>1. what \in Shows
      BY DEF Shows
    <3>2. what = "answer" => IsStored(q)
      BY <1>1, <1>5, <2>2 DEF AnswersInv
    <3> QED
      BY <1>2, <2>2, <3>1, <3>2, ShowKeeps
  <2> QED
    BY <1>2, <2>1, <2>2
<1>7. ChatTypeOK'
  <2>1. stream' \in [Questions -> Seq(Events)]
    BY <1>1, <1>2, <1>4 DEF ChatTypeOK
  <2>2. heard' \in [Questions -> SUBSET {"run", "delta", "final"}]
    BY <1>1, <1>2 DEF ChatTypeOK
  <2> QED
    BY <1>1, <1>2, <1>6, <2>1, <2>2 DEF ChatTypeOK
<1>8. \A p \in Questions \ {q} : stream'[p] = stream[p] /\ heard'[p] = heard[p]
  BY <1>1, <1>2 DEF ChatTypeOK
<1>9. PanelInv'
  BY <1>1, <1>2, <1>6, <1>8 DEF PanelInv
<1>10. RunsInv'
  BY <1>1, <1>2 DEF RunsInv
<1>11. AnswersInv'
  <2>1. \A p \in Questions : IsStored(p)' <=> IsStored(p)
    BY <1>2 DEF IsStored
  <2>2. ASSUME NEW p \in Questions, Answered(p)' PROVE Answered(p)
    <3>1. CASE p # q
      BY <1>2, <1>8, <2>2, <3>1 DEF Answered
    <3>2. CASE p = q
      <4>1. stream'[q] = Tail(stream[q]) /\ heard'[q] = heard[q] \cup {event}
        BY <1>1, <1>2 DEF ChatTypeOK
      <4>2. Final(stream'[q]) => Answered(q)
        BY <1>4, <4>1 DEF Answered, Final
      <4>3. "final" \in heard'[q] => Answered(q)
        BY <1>5, <4>1 DEF Answered
      <4> QED
        BY <1>2, <2>2, <3>2, <4>2, <4>3 DEF Answered, Final
    <3> QED
      BY <3>1, <3>2
  <2>3. \A l \in loads : l.reply # Absent => \A m \in l.reply : m.of \in Questions
    BY <1>1 DEF ChatTypeOK, Message
  <2> QED
    BY <1>1, <1>2, <2>1, <2>2, <2>3 DEF AnswersInv
<1>12. PendingIsRead'
  BY <1>1, <1>2, <1>6 DEF PendingIsRead
<1> QED
  BY <1>6, <1>7, <1>9, <1>10, <1>11, <1>12 DEF ChatInv

LEMMA ReceiveKeeps ==
    ASSUME ChatInv, NEW q \in Questions, Receive(q) \/ LoseStream(q)
    PROVE  ChatInv'
<1>1. CASE LoseStream(q)
  BY <1>1, FailsKeeps DEF LoseStream
<1>2. CASE Receive(q)
  <2> DEFINE event == Head(stream[q])
  <2>1. /\ client[q] = "streaming" /\ stream[q] # <<>> /\ UNCHANGED serverVars
        /\ \/ event \in {"run", "delta", "final"} /\ Hear(q, event)
           \/ Fails(q)
           \/ "final" \in heard[q] /\ Finish(q)
    BY <1>2 DEF Receive
  <2> HIDE DEF event
  <2>2. CASE event \in {"run", "delta", "final"} /\ Hear(q, event)
    BY <2>1, <2>2, HearKeeps DEF event
  <2> QED
    BY <2>1, <2>2, FailsKeeps, FinishKeeps
<1> QED
  BY <1>1, <1>2

-----------------------------------------------------------------------------
(* The histories: a step that changes only them and what is shown.           *)
LEMMA HistoryKeeps ==
    ASSUME ChatInv,
           UNCHANGED <<selected, pending, abortRef, sendVars, stream, serverVars>>,
           LoadsInv', loadingHistory' \in BOOLEAN,
           \/ UNCHANGED <<messages, loadingHistory>>
           \/ /\ loadingHistory' = FALSE /\ loadingHistory
              /\ messages' \subseteq Message /\ ConversationIsStored'
              /\ messages' # {} => selected # Absent
    PROVE  ChatInv'
<1>1. ChatTypeOK /\ PanelInv /\ RunsInv /\ AnswersInv /\ ConversationIsStored
      /\ PendingIsRead
  BY DEF ChatInv
<1>2. UNCHANGED <<selected, pending, abortRef, client, asked, heard, stream,
                  handler, closed, runs, existing>>
  BY DEF sendVars, serverVars
<1>3. /\ messages' \subseteq Message /\ ConversationIsStored'
      /\ messages' # {} => selected # Absent
      /\ loadingHistory' => loadingHistory
  BY <1>1, <1>2 DEF ChatTypeOK, ConversationIsStored, PanelInv
<1>4. ChatTypeOK'
  <2>1. \A l \in loads' : l \in [of : Notebooks, alive : BOOLEAN,
                               reply : {Absent} \cup SUBSET Message]
    BY DEF LoadsInv, LoadType
  <2> QED
    BY <1>1, <1>2, <1>3, <2>1 DEF ChatTypeOK
<1>5. PanelInv'
  BY <1>1, <1>2, <1>3 DEF PanelInv, LoadsInv
<1>6. RunsInv'
  BY <1>1, <1>2 DEF RunsInv
<1>7. AnswersInv'
  <2>1. \A p \in Questions : Answered(p)' => IsStored(p)'
    BY <1>1, <1>2 DEF AnswersInv, Answered, IsStored
  <2> QED
    BY <2>1 DEF AnswersInv, LoadsInv, ReplyInv
<1>8. PendingIsRead'
  <2>1. CASE messages' = messages
    BY <1>1, <1>2, <2>1 DEF PendingIsRead
  <2>2. CASE loadingHistory
    <3>1. \A q \in Questions : client[q] # "streaming"
      BY <1>1, <2>2 DEF PanelInv
    <3> QED
      BY <1>1, <1>2, <3>1 DEF PendingIsRead
  <2> QED
    BY <2>1, <2>2
<1> QED
  BY <1>3, <1>4, <1>5, <1>6, <1>7, <1>8 DEF ChatInv

LEMMA FinishedRuns ==
    ASSUME ChatInv, NEW n
    PROVE  /\ Finished(n) \subseteq Message
           /\ \A m \in Finished(n) :
                asked[m.of] = n /\ (m.shows = "answer" => IsStored(m.of))
           /\ \A m, o \in Finished(n) : m.of = o.of => m = o
<1>1. /\ runs \subseteq [of : Questions, status : {"STARTED", "SUCCEEDED", "FAILED"}]
      /\ \A r, s \in runs : r.of = s.of => r = s
  BY DEF ChatInv, ChatTypeOK, RunsInv
<1>2. ASSUME NEW m \in Finished(n)
      PROVE  \E r \in runs : /\ asked[r.of] = n /\ r.status # "STARTED"
                             /\ m = [of |-> r.of, shows |-> IF r.status = "FAILED"
                                                            THEN "error" ELSE "answer"]
  BY DEF Finished
<1>3. ASSUME NEW m \in Finished(n)
      PROVE  /\ m \in Message /\ asked[m.of] = n
             /\ m.shows = "answer" => [of |-> m.of, status |-> "SUCCEEDED"] \in runs
  <2>1. PICK r \in runs :
          /\ asked[r.of] = n /\ r.status # "STARTED"
          /\ m = [of |-> r.of, shows |-> IF r.status = "FAILED"
                                         THEN "error" ELSE "answer"]
    BY <1>2
  <2>2. m.of = r.of /\ m \in Message
    BY <1>1, <2>1 DEF Message, Shows
  <2>3. m.shows = "answer" => r.status = "SUCCEEDED"
    BY <1>1, <2>1
  <2>4. r = [of |-> r.of, status |-> r.status]
    BY <1>1
  <2> QED
    BY <2>1, <2>2, <2>3, <2>4
<1>4. ASSUME NEW m \in Finished(n), NEW o \in Finished(n), m.of = o.of PROVE m = o
  <2>1. PICK r \in runs :
          m = [of |-> r.of, shows |-> IF r.status = "FAILED" THEN "error" ELSE "answer"]
    BY <1>2
  <2>2. PICK s \in runs :
          o = [of |-> s.of, shows |-> IF s.status = "FAILED" THEN "error" ELSE "answer"]
    BY <1>2
  <2>3. r.of = s.of
    BY <1>4, <2>1, <2>2
  <2> QED
    BY <1>1, <2>1, <2>2, <2>3
<1> QED
  BY <1>3, <1>4 DEF IsStored

LEMMA ReadKeeps ==
    ASSUME ChatInv, NEW l \in loads, ReadHistory(l)
    PROVE  ChatInv'
<1>1. LoadsInv
  BY LoadsOf
<1>0. PICK k : k = [l EXCEPT !.reply = Finished(l.of)]
  OBVIOUS
<1>2. /\ loads' = (loads \ {l}) \cup {k}
      /\ UNCHANGED <<panelVars, sendVars, stream, serverVars>>
  BY <1>0 DEF ReadHistory
<1>3. UNCHANGED <<selected, messages, pending, loadingHistory, abortRef, asked, runs,
                  existing>>
  BY <1>2 DEF panelVars, sendVars, serverVars
<1>4. /\ k \in LoadType /\ k.of = l.of /\ k.alive = l.alive
      /\ k.reply = Finished(l.of)
  <2>1. l \in LoadType /\ Finished(l.of) \subseteq Message
    BY <1>1, FinishedRuns DEF LoadsInv
  <2>2. k = [of |-> l.of, alive |-> l.alive, reply |-> Finished(l.of)]
    BY <1>0, <2>1 DEF LoadType
  <2> QED
    BY <2>1, <2>2 DEF LoadType
<1>5. ReplyInv(k)'
  BY <1>3, <1>4, FinishedRuns DEF ReplyInv, IsStored
<1>6. \A j \in loads : ReplyInv(j)'
  BY <1>1, <1>3 DEF LoadsInv, ReplyInv, IsStored
<1>7. LoadsInv'
  BY <1>1, <1>2, <1>3, <1>4, <1>5, <1>6 DEF LoadsInv
<1>8. loadingHistory' \in BOOLEAN
  BY <1>3 DEF ChatInv, ChatTypeOK
<1> QED
  BY <1>2, <1>3, <1>7, <1>8, HistoryKeeps

LEMMA HistoryArrives ==
    ASSUME ChatInv, NEW l \in loads, ShowHistory(l) \/ HistoryFails(l)
    PROVE  ChatInv'
<1>1. LoadsInv
  BY LoadsOf
<1>2. /\ loads' = loads \ {l}
      /\ UNCHANGED <<selected, pending, abortRef, sendVars, stream, serverVars>>
      /\ UNCHANGED <<asked, runs, existing>>
      /\ IF l.alive THEN loadingHistory' = FALSE /\ messages' \in {{}, l.reply}
                         /\ (l.reply = Absent => messages' = {})
         ELSE UNCHANGED <<messages, loadingHistory>>
  BY DEF ShowHistory, HistoryFails, Awaited, sendVars, serverVars
<1>3. \A j \in loads : ReplyInv(j)'
  BY <1>1, <1>2 DEF LoadsInv, ReplyInv, IsStored
<1>4. LoadsInv'
  <2>1. CASE l.alive
    <3>1. \A j \in loads' : ~j.alive
      BY <1>1, <1>2, <2>1 DEF LoadsInv
    <3> QED
      BY <1>1, <1>2, <1>3, <3>1 DEF LoadsInv
  <2>2. CASE ~l.alive
    BY <1>1, <1>2, <1>3, <2>2 DEF LoadsInv
  <2> QED
    BY <2>1, <2>2
<1>5. loadingHistory' \in BOOLEAN
  BY <1>2 DEF ChatInv, ChatTypeOK
<1>6. CASE ~l.alive
  BY <1>2, <1>4, <1>5, <1>6, HistoryKeeps
<1>7. CASE l.alive
  <2>1. loadingHistory /\ l.of = selected /\ l.of \in Notebooks /\ ReplyInv(l)
        /\ l.reply \in {Absent} \cup SUBSET Message
    BY <1>1, <1>7 DEF LoadsInv, LoadType
  <2>2. messages' = {} \/ (messages' = l.reply /\ l.reply # Absent)
    BY <1>2, <1>7
  <2>3. messages' \subseteq Message /\ selected # Absent
    BY <2>1, <2>2, ChatAssumption
  <2>4. ConversationIsStored'
    BY <1>2, <2>1, <2>2 DEF ConversationIsStored, ReplyInv, IsStored
  <2> QED
    BY <1>2, <1>4, <1>5, <1>7, <2>1, <2>3, <2>4, HistoryKeeps
<1> QED
  BY <1>6, <1>7

LEMMA ChatStep ==
    ASSUME ChatInv, [ChatNext]_chatVars PROVE ChatInv'
<1>1. CASE UNCHANGED chatVars
  <2>1. UNCHANGED <<selected, messages, pending, loadingHistory, abortRef, client,
                    asked, heard, loads, stream, handler, closed, runs, existing>>
    BY <1>1 DEF chatVars, panelVars, sendVars, serverVars
  <2>2. ChatTypeOK'
    BY <2>1 DEF ChatInv, ChatTypeOK
  <2>3. PanelInv' /\ RunsInv' /\ AnswersInv' /\ ConversationIsStored' /\ PendingIsRead'
    BY <2>1 DEF ChatInv, PanelInv, RunsInv, AnswersInv, ConversationIsStored,
                PendingIsRead, Answered, IsStored
  <2> QED
    BY <2>2, <2>3 DEF ChatInv
<1> QED
  BY <1>1, SelectKeeps, SendKeeps, ReceiveKeeps, HandleKeeps, ServerEventsKeep,
     StopKeeps, ReadKeeps, HistoryArrives DEF ChatNext

(* The invariant of the chat: the conversation shown is the stored one of    *)
(* its notebook, and what is pending is read (ChatPanel.tsx,                 *)
(* notebookChat.service.ts).                                                 *)
THEOREM ChatInvariance == ChatSpec => []ChatInv
<1>1. ChatInit => ChatInv
  <2> SUFFICES ASSUME ChatInit PROVE ChatInv
    OBVIOUS
  <2>1. ChatTypeOK
    BY NoFinal DEF ChatInit, ChatTypeOK
  <2>2. PanelInv /\ RunsInv /\ ConversationIsStored /\ PendingIsRead
    BY DEF ChatInit, PanelInv, RunsInv, ConversationIsStored, PendingIsRead
  <2>3. AnswersInv
    <3>1. \A q \in Questions : ~Answered(q)
      BY NoFinal DEF ChatInit, Answered, Final
    <3> QED
      BY <3>1 DEF ChatInit, AnswersInv
  <2> QED
    BY <2>1, <2>2, <2>3 DEF ChatInv
<1>2. ChatInv /\ [ChatNext]_chatVars => ChatInv'
  BY ChatStep
<1> QED
  BY <1>1, <1>2, PTL DEF ChatSpec

(* So what either view shows is current.                                     *)
THEOREM ViewsAreCurrent == SearchSpec /\ ChatSpec => []ShownIsCurrent
<1>1. SearchInv /\ ChatInv => ShownIsCurrent
  BY DEF SearchInv, ChatInv, ShownIsCurrent
<1> QED
  BY <1>1, SearchInvariance, ChatInvariance, PTL
=============================================================================
