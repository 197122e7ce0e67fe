----------------------------- MODULE RevisionLog -----------------------------
(***************************************************************************)
(* What the ingestion of one notebook source promises of its revisions,    *)
(* without queues, retries and requests: they form a log that only grows   *)
(* as long as the source exists, at most one of them is current, a new     *)
(* one becomes current only after the old one was retired, and the source  *)
(* refers to one of them.  NotebookIngestion implements it                 *)
(* (NotebookIngestion!Log).                                                *)
(***************************************************************************)
EXTENDS Naturals, Sequences

CONSTANT Texts    \* what a revision may hold

VARIABLES
    owner,    \* the source: "absent", "present" or "deleted"
    log,      \* the revisions, by ordinal
    current,  \* the active revision, 0 if none is
    refersTo  \* the revision the source refers to, 0 if none

vars == <<owner, log, current, refersTo>>

Init == owner = "absent" /\ log = <<>> /\ current = 0 /\ refersTo = 0

Attach ==
    /\ owner = "absent" /\ owner' = "present"
    /\ UNCHANGED <<log, current, refersTo>>

(* The current revision is retired before its successor is written.         *)
Retire ==
    /\ current' = 0
    /\ UNCHANGED <<owner, log, refersTo>>

Write ==
    /\ owner = "present" /\ current = 0
    /\ \E t \in Texts : log' = Append(log, t)
    /\ current' = Len(log) + 1
    /\ UNCHANGED <<owner, refersTo>>

Refer ==
    /\ owner = "present"
    /\ refersTo' \in 1..Len(log)
    /\ UNCHANGED <<owner, log, current>>

Delete ==
    /\ owner = "present" /\ owner' = "deleted"
    /\ log' = <<>> /\ current' = 0 /\ refersTo' = 0

Next == Attach \/ Retire \/ Write \/ Refer \/ Delete

Spec == Init /\ [][Next]_vars
=============================================================================
