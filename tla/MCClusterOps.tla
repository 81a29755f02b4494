---------------------------- MODULE MCClusterOps ----------------------------
(***************************************************************************)
(* ClusterOps and Transfers for TLC.  The managers of members and of       *)
(* transfers share no state at this commit, so the two are run side by     *)
(* side: a behaviour is one of the members or one of the transfers.        *)
(* Liveness is checked, so there is no symmetry.                           *)
(***************************************************************************)
EXTENDS ClusterOps

VARIABLE part       \* "members" or "transfers"

MCInit == Init /\ part \in {"members", "transfers"}

MCNext ==
    /\ UNCHANGED part
    /\ \/ part = "members" /\ ClusterNext /\ UNCHANGED tvars
       \/ part = "transfers" /\ TransferNext /\ UNCHANGED cvars

MCSpec == MCInit /\ [][MCNext]_<<vars, part>> /\ Fairness
=============================================================================
