------------------------------- MODULE MCAuth -------------------------------
(***************************************************************************)
(* Users and permissions for TLC.                                          *)
(***************************************************************************)
EXTENDS Auth, TLC, FiniteSets

Busy == {r \in Request : reqs[r] # NoRequest} \cup {s \in Session : sess[s].phase \in {"found", "challenged"}}

\* Bound: two requests and handshakes at work at a time.
TwoAtWork == Cardinality(Busy) <= 2

\* Bound: of two writes in a row one succeeds.
NotTwiceFailed == writeFailed /\ writeFailed' /\ Serving /\ Serving' => UNCHANGED store

Symmetry == Permutations(UserId) \cup Permutations(Request)
=============================================================================
