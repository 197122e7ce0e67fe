------------------------ MODULE MCNotebookIngestion ------------------------
(* Model-checking instance of NotebookIngestion: requests are               *)
(* interchangeable, and what no step reads again is left out of the view.   *)
EXTENDS NotebookIngestion, TLC

Symmetry == Permutations(Requests)

Live(j) == queue[j] \in {"waiting", "active"}
Reads(a, labels, value) == IF pc[a] \in labels THEN value ELSE 0

View ==
    <<sourceVars, revisionVars, status, queue, notice, pc, crashes,
      [j \in Jobs |-> IF Live(j) THEN <<tries[j], stalls[j]>> ELSE <<>>],
      [q \in Requests |->
          IF pc[q] \in {"idle", "done"} THEN None ELSE target[q]],
      [j \in IngestJobs |-> <<
          Reads(j, {"ordinal", "findActive", "deactivate", "create"}, text[j]),
          Reads(j, {"findActive", "deactivate", "create"}, ordinal[j]),
          Reads(j, {"pinReused", "countMissing", "pin", "chunks"}, rev[j])>>],
      Reads("embed", {"mark", "load"}, rev["embed"]),
      Reads("embed", {"embed", "persist"}, loaded),
      [q \in Requests |-> Reads(q, {"clear"}, rev[q])]>>
=============================================================================
