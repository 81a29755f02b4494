---------------------------- MODULE MCEvaluator ----------------------------
(***************************************************************************)
(* Evaluator for TLC.  Sessions are interchangeable.  The queries use a    *)
(* database other than the default one, so that it can be missing and can  *)
(* be dropped; the default database always exists.  Bounds: a behaviour    *)
(* has databases and tables that are dropped and one document, or several  *)
(* documents, which a query may store once more, and nothing is dropped.   *)
(***************************************************************************)
EXTENDS Evaluator, TLC

VARIABLE part       \* "catalog" or "documents"

Symmetry == Permutations(Session)

NothingDropped ==
    /\ \A d \in Db : databases[d] # 0 => databases'[d] # 0
    /\ \A o \in 1..MaxDb, t \in Tab : Tables[o][t] # 0 => Tables'[o][t] # 0

NothingShared == \A o \in 1..used.doc : docs'[o].shared => docs[o].shared

MCInit == Init /\ part \in {"catalog", "documents"}

MCNext ==
    /\ Next /\ UNCHANGED part
    /\ part = "catalog" => NothingShared /\ used'.doc <= 1
    /\ part = "documents" => NothingDropped \/ Crash

MCSpec == MCInit /\ [][MCNext]_<<vars, part>>
=============================================================================
