------------------------ MODULE MCSavedUrlOperation ------------------------
(* Model-checking instance of SavedUrlOperation.                            *)
EXTENDS SavedUrlOperation, TLC

Symmetry == Permutations(Runs) \cup Permutations(Targets)
              \cup Permutations(Deliveries)

(* The locals of a delivery that is over are never read again.              *)
View ==
    LET Busy(d) == pc[d] \notin {"idle", "done", "dead"}
    IN  <<runVars, itemVars, jobVars, pc, run, crashes,
          [d \in Deliveries |-> IF Busy(d)
             THEN <<todo[d], item[d], attempt[d], outcome[d], tallyDone[d],
                    tallyFailed[d], sawCanceled[d]>>
             ELSE <<>>]>>

(* Either a failed item and a second run, or one run whose job is delivered  *)
(* again while it is still running.                                          *)
RetryOrStall ==
    Cardinality({r \in Runs : runStatus[r] # "none"}) > 1 =>
        /\ \A r \in Runs : jobStalls[r] = 0
        /\ \E i \in Runs \X Targets : itemStatus[i] = "failed"
=============================================================================
