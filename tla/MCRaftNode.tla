----------------------------- MODULE MCRaftNode -----------------------------
(***************************************************************************)
(* A Raft node and its files for TLC.  raft.go and the files share nothing *)
(* but the log, which compaction only reads and cuts, so the two are run   *)
(* side by side: a behaviour is one of the nodes or one of the files.      *)
(***************************************************************************)
EXTENDS MCRaft, RaftStore

MCSymmetry == Symmetry \cup Permutations(Writer)

VARIABLE part       \* "nodes" or "files"

MCInit == Init /\ StoreInit /\ part \in {"nodes", "files"}

MCNext ==
    /\ UNCHANGED part
    /\ \/ part = "nodes" /\ Next /\ UNCHANGED storeVars
       \/ part = "files" /\ StoreNext /\ UNCHANGED vars

MCSpec == MCInit /\ [][MCNext]_<<vars, storeVars, part>>
=============================================================================
