------------------------ MODULE GovernanceProjection ------------------------
(* How tagging results become governance rows (governanceGraphSync.service,  *)
(* called by persistAiTagSuccess...): one transaction stores the result in   *)
(* the row of the file or the URL, deletes the traces of its subject, on     *)
(* which claims, events and the other rows hang, and creates new ones.       *)
(* One saved URL and the snapshots captured from it share one document.      *)
(* PostgreSQL runs transactions at READ COMMITTED: a statement sees what had *)
(* been committed when it began, and waits for rows others have written.     *)
EXTENDS Naturals, Sequences, FiniteSets

CONSTANTS
    Results,    \* results of tagging jobs, each stored once
    Snapshots,  \* files captured from the URL
    Agencies,   \* agencies and issues, which all documents share
    UrlRow,     \* the row of the URL
    Nothing

VARIABLES
    captured,   \* snapshots in the order of their creation
    linked,     \* snapshots that exist, each with its document revision
    trashed,    \* those of them in the trash
    outcome,    \* what is stored in a row: a result, Nothing, or Failed
    trace,      \* committed traces
    agency,     \* committed agencies
    about,      \* the row a result is for
    names,      \* the agencies it names; one without any is empty
    phase,      \* where its transaction is
    traceSubject, \* the revision its traces are for; Nothing: only the document
    doomed,     \* traces its delete statement has found
    named,      \* how many agencies it has upserted
    locked,     \* rows it has written
    overlapped, \* have results of the URL and of a snapshot been replacing
                \* the same traces at once?
    deleted     \* has a snapshot been deleted?

txVars == <<phase, traceSubject, doomed, named, locked>>
storedVars == <<linked, outcome, trace, agency>>
projectionVars ==
    <<captured, trashed, storedVars, about, names, txVars, overlapped, deleted>>

Rows == Snapshots \cup {UrlRow}
Failed == "failed"
Traces == [subject : {Nothing} \cup Snapshots, result : Results]
Mentions == {<<>>} \cup {<<a>> : a \in Agencies}
            \cup {<<a, b>> : a \in Agencies, b \in Agencies}
(* What is kept in one place is told apart.                                  *)
ASSUME ProjectionAssumption ==
    /\ UrlRow \notin Snapshots /\ Nothing \notin Rows \cup Results /\ Failed \notin Results
    /\ \A found \in SUBSET Traces : found # Nothing
    /\ (Rows \cup Agencies) \cap Traces = {}

Phases == {"waiting", "row", "context", "delete", "agencies", "committed",
           "aborted"}

ProjectionTypeOK ==
    /\ linked \subseteq Snapshots /\ trashed \subseteq Snapshots
    /\ captured \in Seq(Snapshots)
    /\ outcome \in [Rows -> {Nothing, Failed} \cup Results]
    /\ trace \subseteq Traces
    /\ agency \subseteq Agencies
    /\ about \in [Results -> Rows]
    /\ names \in [Results -> Mentions]
    /\ phase \in [Results -> Phases]
    /\ traceSubject \in [Results -> {Nothing} \cup Snapshots]
    /\ doomed \in [Results -> {Nothing} \cup SUBSET Traces]
    /\ named \in [Results -> Nat]
    /\ \A t \in Results : named[t] <= Len(names[t])
    /\ locked \in [Results -> SUBSET (Rows \cup Agencies \cup Traces)]
    /\ {overlapped, deleted} \subseteq BOOLEAN

ProjectionInit ==
    /\ captured = <<>> /\ linked = {} /\ trashed = {}
    /\ outcome = [r \in Rows |-> Nothing]
    /\ trace = {} /\ agency = {}
    /\ about \in [Results -> Rows]
    /\ names \in [Results -> Mentions]
    /\ phase = [t \in Results |-> "waiting"]
    /\ traceSubject = [t \in Results |-> Nothing]
    /\ doomed = [t \in Results |-> Nothing]
    /\ named = [t \in Results |-> 0]
    /\ locked = [t \in Results |-> {}]
    /\ overlapped = FALSE /\ deleted = FALSE

Running(t) == phase[t] \in {"row", "context", "delete", "agencies"}
Others(t) == {o \in Results \ {t} : Running(o)}
RowExists(t) == about[t] \in linked \cup {UrlRow}
Trace(t) == [subject |-> traceSubject[t], result |-> t]
OfSubject(s) == {k \in trace : k.subject = s}
Enter(t, label) == phase' = [phase EXCEPT ![t] = label]
Lock(t, rows) == locked' = [locked EXCEPT ![t] = @ \cup rows]

RowOf(t) == {about[t]}

(* The rows the next statement of a transaction writes or waits for.         *)
Wanted(t) ==
    IF phase[t] = "row" THEN RowOf(t)
    ELSE IF phase[t] = "delete" /\ doomed[t] # Nothing THEN doomed[t]
    ELSE IF phase[t] = "agencies" /\ named[t] < Len(names[t])
         THEN {names[t][named[t] + 1]}
    ELSE {}
WaitsFor(t, o) == o \in Others(t) /\ Wanted(t) \cap locked[o] # {}
Waits(t) == \E o \in Results : WaitsFor(t, o)
-----------------------------------------------------------------------------
(* A snapshot is captured; its revision comes with it.                       *)
CaptureSnapshot ==
    /\ \E s \in Snapshots :
         /\ \A i \in DOMAIN captured : captured[i] # s
         /\ captured' = Append(captured, s)
         /\ linked' = linked \cup {s}
    /\ UNCHANGED <<trashed, outcome, trace, agency, about, names, txVars, overlapped,
                   deleted>>

(* A snapshot goes to the trash or comes back; only the URL's results heed it. *)
TrashSnapshot ==
    /\ \E s \in linked : trashed' \in {trashed \cup {s}, trashed \ {s}}
    /\ UNCHANGED <<captured, storedVars, about, names, txVars, overlapped, deleted>>

(* The deletion of a snapshot takes its revision; traces lose the link to it *)
(* but stay with the document.  It waits for transactions that have written  *)
(* the row, or traces of its revision.                                       *)
DeleteSnapshot ==
    /\ \E s \in linked :
         /\ \A t \in Results :
              /\ Running(t) => s \notin locked[t]
              /\ phase[t] = "agencies" => traceSubject[t] # s
         /\ linked' = linked \ {s} /\ trashed' = trashed \ {s}
         /\ trace' = {[k EXCEPT !.subject = IF @ = s THEN Nothing ELSE @] : k \in trace}
         /\ outcome' = [outcome EXCEPT ![s] = Nothing]
    /\ deleted' = TRUE
    /\ UNCHANGED <<captured, agency, about, names, txVars, overlapped>>

(* A job has ended, and its row still waits for it.                          *)
BeginResult(t) ==
    /\ phase[t] = "waiting" /\ RowExists(t)
    /\ Enter(t, "row")
    /\ UNCHANGED <<captured, trashed, storedVars, about, names, traceSubject,
                   doomed, named, locked, overlapped, deleted>>

AfterRollback(t) == Failed

Rollback(t) ==
    /\ Enter(t, "aborted")
    /\ locked' = [locked EXCEPT ![t] = {}]
    /\ doomed' = [doomed EXCEPT ![t] = Nothing]
    /\ named' = [named EXCEPT ![t] = 0]

(* A statement throws: all is rolled back, and the caller stores a failure.  *)
Abort(t) ==
    /\ Rollback(t)
    /\ outcome' = IF RowExists(t) THEN [outcome EXCEPT ![about[t]] = AfterRollback(t)]
                                  ELSE outcome
    /\ UNCHANGED <<captured, trashed, linked, trace, agency, about, names,
                   traceSubject, overlapped, deleted>>

(* update of the row, which makes later results of the same row wait.        *)
StoreResult(t) ==
    /\ phase[t] = "row"
    /\ IF RowExists(t)
       THEN /\ ~Waits(t)
            /\ Lock(t, RowOf(t))
            /\ Enter(t, "context")
            /\ UNCHANGED <<captured, trashed, storedVars, about, names,
                           traceSubject, doomed, named, overlapped, deleted>>
       ELSE Abort(t)

(* A file has its own revision; for the URL it is that of the latest         *)
(* snapshot outside the trash, if any.                                       *)
LatestRevision ==
    LET live == {i \in DOMAIN captured : captured[i] \in linked \ trashed}
    IN  IF live = {} THEN Nothing
        ELSE captured[CHOOSE i \in live : \A j \in live : j <= i]

OfTheDocument(t) == LatestRevision                                 \* mutant
SubjectOf(t) == IF about[t] # UrlRow THEN about[t] ELSE LatestRevision

BuildContext(t) ==
    /\ phase[t] = "context"
    /\ traceSubject' = [traceSubject EXCEPT ![t] = SubjectOf(t)]
    /\ Enter(t, "delete")
    /\ UNCHANGED <<captured, trashed, storedVars, about, names, doomed, named,
                   locked, overlapped, deleted>>

(* deleteMany finds the traces of its subject, ...                           *)
FindTraces(t) ==
    /\ phase[t] = "delete" /\ doomed[t] = Nothing
    /\ doomed' = [doomed EXCEPT ![t] = OfSubject(traceSubject[t])]
    /\ overlapped' = (overlapped \/ \E o \in Others(t) :
                        doomed[o] # Nothing /\ traceSubject[o] = traceSubject[t]
                        /\ about[o] # about[t])
    /\ UNCHANGED <<captured, trashed, storedVars, about, names, phase,
                   traceSubject, named, locked, deleted>>

(* ... waits for others that have deleted some of them, and deletes those    *)
(* that are still there.  The first trace then needs its revision.           *)
DeleteTraces(t) ==
    /\ phase[t] = "delete" /\ doomed[t] # Nothing
    /\ ~Waits(t)
    /\ IF names[t] # <<>> /\ traceSubject[t] \notin linked \cup {Nothing}
       THEN Abort(t)
       ELSE /\ doomed' = [doomed EXCEPT ![t] = @ \cap trace]
            /\ Lock(t, doomed'[t] \cup IF names[t] = <<>> THEN {} ELSE {Trace(t)})
            /\ Enter(t, "agencies")
            /\ UNCHANGED <<captured, trashed, storedVars, about, names,
                           traceSubject, named, overlapped, deleted>>

(* Agencies and issues are upserted in the order the result names them.      *)
UpsertAgency(t) ==
    /\ phase[t] = "agencies" /\ named[t] < Len(names[t])
    /\ ~Waits(t)
    /\ Lock(t, Wanted(t))
    /\ named' = [named EXCEPT ![t] = @ + 1]
    /\ UNCHANGED <<captured, trashed, storedVars, about, names, phase,
                   traceSubject, doomed, overlapped, deleted>>

TracesAfter(t) == (trace \ doomed[t]) \cup (locked[t] \cap {Trace(t)})

CommitResult(t) ==
    /\ phase[t] = "agencies" /\ named[t] = Len(names[t])
    /\ outcome' = [outcome EXCEPT ![about[t]] = t]
    /\ trace' = TracesAfter(t)
    /\ agency' = agency \cup (locked[t] \cap Agencies)
    /\ Enter(t, "committed")
    /\ locked' = [locked EXCEPT ![t] = {}]
    /\ doomed' = [doomed EXCEPT ![t] = Nothing]
    /\ UNCHANGED <<captured, trashed, linked, about, names, traceSubject, named,
                   overlapped, deleted>>

(* The database aborts one of the transactions that wait for each other.     *)
BreakDeadlock(t) ==
    /\ \E ring \in SUBSET Results :
         t \in ring /\ \A x \in ring : \E y \in ring : WaitsFor(x, y)
    /\ Abort(t)

(* The process dies; nobody stores a failure.                                *)
LoseProcess(t) ==
    /\ Running(t)
    /\ Rollback(t)
    /\ UNCHANGED <<captured, trashed, storedVars, about, names, traceSubject,
                   overlapped, deleted>>

ProjectionNext ==
    \/ CaptureSnapshot \/ TrashSnapshot \/ DeleteSnapshot
    \/ \E t \in Results :
         \/ BeginResult(t) \/ StoreResult(t) \/ BuildContext(t)
         \/ FindTraces(t) \/ DeleteTraces(t) \/ UpsertAgency(t) \/ CommitResult(t)
         \/ BreakDeadlock(t) \/ LoseProcess(t)

ProjectionSpec == ProjectionInit /\ [][ProjectionNext]_projectionVars
-----------------------------------------------------------------------------
(* Properties.                                                               *)

ResultsIn(s) == {k.result : k \in OfSubject(s)}

(* What the governance views show of a snapshot comes from one result: later *)
(* results of a row replace the earlier ones', also if two are stored at     *)
(* once, which the update of the row makes wait for each other.  Results of  *)
(* the URL and of its snapshot update different rows: they have to be stored *)
(* one after the other.  Without a deletion this is so for the traces        *)
(* without a revision as well.                                               *)
OneResultPerRevision ==
    ~overlapped =>
        /\ \A s \in linked : Cardinality(ResultsIn(s)) <= 1
        /\ ~deleted => Cardinality(ResultsIn(Nothing)) <= 1

(* The status of a file and its traces are stored together: a file with a    *)
(* stored result has the traces of that result, of all its items or none,    *)
(* unless a result of its URL has replaced them.                             *)
OutcomeHasTraces ==
    \A s \in linked :
        (/\ outcome[s] \in Results
         /\ ~\E t \in Results : about[t] = UrlRow /\ phase[t] = "committed")
        => ResultsIn(s) = IF names[outcome[s]] = <<>> THEN {} ELSE {outcome[s]}

TracesOfOneResult == OneResultPerRevision /\ OutcomeHasTraces
-----------------------------------------------------------------------------
(* Why: the results of a row wait for each other, as each holds the lock of  *)
(* its row from its first statement to its end;                              *)
Writing == {"context", "delete", "agencies"}
RowsInv ==
    /\ \A t \in Results : phase[t] \in Writing => about[t] \in locked[t]
    /\ \A t, o \in Results :
         {phase[t], phase[o]} \subseteq Writing /\ t # o => about[t] # about[o]

(* rows, traces and transactions are those of snapshots there have been, a   *)
(* transaction of a file is about its revision, and what it has not          *)
(* committed is nowhere;                                                     *)
Known == {UrlRow, Nothing} \cup {captured[i] : i \in DOMAIN captured}
SubjectsInv ==
    /\ linked \subseteq Known
    /\ \A s \in Snapshots : outcome[s] \in Results => s \in Known
    /\ \A k \in trace : k.subject \in linked \cup {Nothing} /\ phase[k.result] = "committed"
    /\ \A t \in Results :
         /\ phase[t] # "waiting" => about[t] \in Known
         /\ traceSubject[t] \in Known
         /\ phase[t] \in {"delete", "agencies"} /\ about[t] # UrlRow =>
              traceSubject[t] = about[t]
         /\ phase[t] = "agencies" => traceSubject[t] \in linked \cup {Nothing} \/ names[t] = <<>>
         /\ \A k \in locked[t] \cap Traces : k.result = t =>
              phase[t] = "agencies" /\ names[t] # <<>>
         /\ phase[t] = "agencies" /\ names[t] # <<>> => Trace(t) \in locked[t]

(* who has found the traces of its subject finds no other later, unless      *)
(* somebody else has found them too, or has committed in between;            *)
Found(t) == phase[t] = "agencies" \/ (phase[t] = "delete" /\ doomed[t] # Nothing)
FindsAll(t) == OfSubject(traceSubject[t]) \subseteq doomed[t]
UrlCommitted == \E t \in Results : about[t] = UrlRow /\ phase[t] = "committed"
FoundInv ==
    /\ \A t \in Results : doomed[t] # Nothing => Found(t)
    /\ \A t \in Results : Found(t) =>
         /\ doomed[t] # Nothing
         /\ \A k \in doomed[t] : k.subject = traceSubject[t]
         /\ ~UrlCommitted /\ about[t] # UrlRow /\ about[t] \in linked => FindsAll(t)
    /\ ~overlapped =>
         /\ \A t, o \in Results :
              Found(t) /\ Found(o) /\ traceSubject[t] = traceSubject[o] => t = o
         /\ \A t \in Results :
              Found(t) /\ traceSubject[t] \in linked \cup (IF deleted THEN {} ELSE {Nothing}) =>
                FindsAll(t)

(* so that it replaces them all.                                             *)
OneEach(s) == \A k, l \in OfSubject(s) : k = l
ReplacedInv ==
    ~overlapped => \A s \in linked \cup (IF deleted THEN {} ELSE {Nothing}) : OneEach(s)

ProjectionInv ==
    /\ ProjectionTypeOK
    /\ RowsInv
    /\ SubjectsInv
    /\ FoundInv
    /\ ReplacedInv
    /\ OutcomeHasTraces
=============================================================================
