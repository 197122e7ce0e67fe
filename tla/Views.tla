-------------------------------- MODULE Views --------------------------------
(***************************************************************************)
(* The two views of the browser whose answers arrive late: the searches of *)
(* the collector page and the chat of a notebook.  They have no state in   *)
(* common; what both promise the user is that what is shown is current.    *)
(***************************************************************************)
EXTENDS CollectorSearch, NotebookChat

(* What is shown belongs to the query it is shown under, and when an         *)
(* operation is over its job says so and its spinner stops; a conversation   *)
(* is that of its notebook, its answers are stored, and a pending one is on  *)
(* its way.                                                                  *)
ShownIsCurrent ==
    /\ RowsOfTheQuery /\ EndsAreSeen
    /\ ConversationIsStored /\ PendingIsRead
=============================================================================
