------------------------------- MODULE KVMap -------------------------------
(***************************************************************************)
(* What the B-tree of internal/btree promises: a map from keys to values.  *)
(* A Put that reports an error may have stored its value or not, and may   *)
(* have cut off one range of keys; it changes nothing else.                *)
(***************************************************************************)
EXTENDS Integers

CONSTANTS Key, Value, None

VARIABLES
    kv,     \* the value of every key, None when it has none
    err     \* whether the last call reported an error

vars == <<kv, err>>

Init == kv = [k \in Key |-> None] /\ err = FALSE

Put(k, v) == kv' = [kv EXCEPT ![k] = v] /\ err' = FALSE

Delete(k) == kv' = [kv EXCEPT ![k] = None] /\ err' = FALSE

Lost == {x \in Key : kv[x] # None /\ kv'[x] = None}

PutFails(k, v) ==
    /\ err' = TRUE
    /\ kv'[k] \in {v, kv[k], None}
    /\ \A x \in Key \ {k} : kv'[x] \in {kv[x], None}
    /\ \A x, y \in Lost : \A z \in Key : x < z /\ z < y => kv'[z] = None

Next ==
    \/ \E k \in Key : Delete(k) \/ \E v \in Value : Put(k, v)
    \/ \E k \in Key, v \in Value : PutFails(k, v)

Spec == Init /\ [][Next]_vars
=============================================================================
