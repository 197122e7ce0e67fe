---------------------------- MODULE MCAiTagging ----------------------------
(* Model-checking instance of AiTagging.                                    *)
EXTENDS AiTagging, TLC

Symmetry == Permutations(RouteCalls) \cup Permutations(Runs)
              \cup Permutations(Enqueuers)

(* What no later step reads is left out of a state's identity: the locals   *)
(* of a call that is over, and a remote job nobody can ask about any more.  *)
View ==
    LET Busy(c) == pc[c] \notin {"idle", "done", "dead"}
        InUse(c) == \/ c \in {rowJobId.call, rowResult}
                    \/ pc[c] = "swap"
                    \/ \E d \in Calls : Busy(d) /\ seen[d] = Job(c)
    IN  <<rowVars, pc, queueVars, crashes,
          [c \in Calls |-> IF Busy(c) THEN <<seen[c], attempt[c]>>
                                     ELSE <<>>],
          [c \in Calls |-> IF InUse(c) THEN <<remote[c], c \in expired>>
                                      ELSE <<>>]>>
=============================================================================
