----------------------------- MODULE MCServices -----------------------------
(* The two services beside the backend, for TLC: the capture node and the    *)
(* jobs of the tagger.  They have no variable in common, so each is explored *)
(* while the other rests in its initial state, where nothing of it is owed.  *)
EXTENDS CaptureNode, TaggerJob

VARIABLE side
-----------------------------------------------------------------------------
ServicesInit ==
    /\ side \in {"node", "job"}
    /\ Init /\ JobInit
    /\ side = "job" => ~headlessDefault

NodeSide == side = "node" /\ Next /\ UNCHANGED <<side, jobVars>>
JobSide == side = "job" /\ JobNext /\ UNCHANGED <<side, vars>>

ServicesNext == NodeSide \/ JobSide

ServicesSpec ==
    /\ ServicesInit /\ [][ServicesNext]_<<side, vars, jobVars>>
    /\ Fairness /\ JobFairness
-----------------------------------------------------------------------------
(* Properties of the node and of the jobs are checked by the names they have *)
(* in their modules; this one says that every variable keeps its type, and   *)
(* that the services keep their inductive invariants.                        *)
AllTypesOK == NodeInv /\ JobInv
=============================================================================
