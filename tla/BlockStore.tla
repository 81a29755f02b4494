----------------------------- MODULE BlockStore -----------------------------
(***************************************************************************)
(* What internal/storage promises to its callers: a store of blocks by id, *)
(* in which a read finds the last value written, and of which a crash      *)
(* leaves, block by block, the value of the last Flush or a later one.     *)
(***************************************************************************)
CONSTANTS Id, Value, Zero, Absent,
          MayLose   \* whether blocks may fall back to an older value at any
                    \* time, as they do when a write fails unnoticed

VARIABLES store,    \* the value of every block; Absent: not allocated
          survive,  \* the values of which a crash may leave one
          done      \* the last block that a call returned or wrote

Get(id) ==
    /\ store[id] # Absent
    /\ done' = [id |-> id, block |-> store[id]]
    /\ UNCHANGED <<store, survive>>

\* Put, and Delete, which leaves a block of zeros.
Put(id, v) ==
    /\ store[id] # Absent
    /\ store' = [store EXCEPT ![id] = v]
    /\ survive' = [survive EXCEPT ![id] = @ \cup {v}]
    /\ done' = [id |-> id, block |-> v]

\* A block that was not flushed may be missing after a crash, or be a hole.
Allocate(id, v) ==
    /\ store[id] = Absent
    /\ store' = [store EXCEPT ![id] = v]
    /\ survive' = [survive EXCEPT ![id] = @ \cup {v, Zero}]
    /\ done' = [id |-> id, block |-> v]

Flush ==
    /\ survive' = [id \in Id |-> {store[id]}]
    /\ UNCHANGED <<store, done>>

Survivor == {s \in [Id -> Value \cup {Zero, Absent}] : \A id \in Id : s[id] \in survive[id]}

Restart ==
    /\ store' \in Survivor
    /\ survive' = [id \in Id |-> {store'[id]}]
    /\ UNCHANGED done

Lose == MayLose /\ store' \in Survivor /\ UNCHANGED <<survive, done>>

Init ==
    /\ store = [id \in Id |-> Absent]
    /\ survive = [id \in Id |-> {Absent}]
    /\ done = [id |-> 0, block |-> Absent]

Next ==
    \/ \E id \in Id : \/ Get(id)
                      \/ \E v \in Value \cup {Zero} : Put(id, v)
                      \/ \E v \in Value : Allocate(id, v)
    \/ Flush \/ Restart \/ Lose

Spec == Init /\ [][Next]_<<store, survive, done>>
=============================================================================
