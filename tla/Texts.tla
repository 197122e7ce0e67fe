-------------------------------- MODULE Texts --------------------------------
(***************************************************************************)
(* Two texts that are cut into pieces to be read by models: a document for *)
(* the map of its governance intelligence, and a notebook source for chat. *)
(* They have no state in common; what both promise is that nothing of the  *)
(* text is lost, and that what is said of it can be found there.           *)
(***************************************************************************)
EXTENDS MapCoverage, Chunking

(* A map that calls itself complete has read the text once for every batch,  *)
(* and has left no claim unjudged; the chunks of a text leave nothing out    *)
(* but very short blocks, come in its order, and are cited where they are,   *)
(* unless a page is blank or a gap wider than the separator of pages.        *)
TextIsCovered ==
    /\ CompleteMapReadsAll /\ CompleteMapIsJudged
    /\ NothingLeftOut /\ ChunksInOrder /\ EvidenceIsInPlace
=============================================================================
