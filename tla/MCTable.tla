------------------------------ MODULE MCTable ------------------------------
(***************************************************************************)
(* The B-tree and the table over it for TLC.  The table uses the tree as   *)
(* the map that BTree is shown to implement, so the two are run side by    *)
(* side; and indexes and changefeeds, which share nothing but the calls    *)
(* that change documents, are too: a behaviour is one of the tree, one of  *)
(* a table with indexes, or one of a table with changefeeds.               *)
(***************************************************************************)
EXTENDS BTree, TableStorage

CONSTANT MaxFailures    \* bound: Puts that change the tree and fail

VARIABLES
    part,       \* "tree", "indexes" or "feeds"
    failures    \* Puts that have changed the tree and failed

MCvars == <<vars, tableVars, part, failures>>

MCInit == Init /\ TableInit /\ part \in {"tree", "indexes", "feeds"} /\ failures = 0

TreeNext ==
    /\ Next
    /\ failures' = IF lastErr' /\ blocks' # blocks THEN failures + 1 ELSE failures
    /\ failures' <= MaxFailures

MCNext ==
    /\ UNCHANGED part
    /\ \/ part = "tree" /\ TreeNext /\ UNCHANGED tableVars
       \/ part = "indexes" /\ TableNext /\ UNCHANGED <<feeds, vars, failures>>
       \/ part = "feeds" /\ TableNext /\ UNCHANGED <<idx, vars, failures>>

MCSpec == MCInit /\ [][MCNext]_MCvars
=============================================================================
