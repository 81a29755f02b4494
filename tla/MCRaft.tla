------------------------------- MODULE MCRaft -------------------------------
(***************************************************************************)
(* Raft for TLC.  Nodes are interchangeable, and so are the runs of an     *)
(* election, so both are symmetry sets.                                    *)
(***************************************************************************)
EXTENDS Raft, TLC

Symmetry == Permutations(Node) \cup Permutations(Batch)
=============================================================================
