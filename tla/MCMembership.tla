---------------------------- MODULE MCMembership ----------------------------
(***************************************************************************)
(* Membership for TLC.  Liveness is checked, so there is no symmetry.      *)
(***************************************************************************)
EXTENDS Membership
=============================================================================
