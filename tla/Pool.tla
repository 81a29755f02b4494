-------------------------------- MODULE Pool --------------------------------
(***************************************************************************)
(* The connection pool of drivers/go: callers that acquire and release     *)
(* connections, the health check that runs beside them, and Close.         *)
(*                                                                         *)
(* The functions hold p.mu from beginning to end, dialling included, so    *)
(* each is one step; Close is three, since it waits for the health check   *)
(* without the lock.  Connections are numbered as they are created; the    *)
(* slice Pool.conns grows at its end and is filtered in order, so it is    *)
(* the set of its connections in the order of their numbers.               *)
(***************************************************************************)
EXTENDS Integers, FiniteSetsExt

CONSTANTS
    Caller,
    MaxConns, MinConns,     \* PoolOptions
    MaxCreated              \* bound: connections ever created

ASSUME PoolAssumption ==
    /\ MinConns \in Nat /\ MaxConns \in Nat /\ MinConns <= MaxConns
    /\ MaxCreated \in Nat

VARIABLES
    conns,          \* Pool.conns, by number
    inUse,          \* those that are in use
    shut,           \* connections that are closed, by the pool or a caller
    old,            \* connections past ConnMaxLifetime
    held,           \* the connection of a caller, 0 for none
    pool,           \* "new", "open", "closing", "closed"
    looping,        \* whether healthCheckLoop runs
    totalCreated, totalDestroyed

poolVars == <<conns, inUse, shut, old, held, pool, looping, totalCreated, totalDestroyed>>

PoolInit ==
    /\ conns = {} /\ inUse = {} /\ shut = {} /\ old = {}
    /\ held = [c \in Caller |-> 0]
    /\ pool = "new" /\ looping = FALSE
    /\ totalCreated = 0 /\ totalDestroyed = 0

\* n connections, as they come from n calls.
createConn(n) == (totalCreated + 1)..(totalCreated + n)

CanCreate(n) == totalCreated + n <= MaxCreated

\* When one of the first connections fails the others are closed.
NewPool ==
    /\ pool = "new"
    /\ \E n \in 0..MinConns :
        /\ CanCreate(n) /\ totalCreated' = n
        /\ IF n = MinConns
           THEN /\ conns' = createConn(n) /\ pool' = "open" /\ looping' = TRUE
                /\ UNCHANGED <<shut, totalDestroyed>>
           ELSE /\ shut' = 1..n /\ totalDestroyed' = n /\ pool' = "closed"
                /\ UNCHANGED <<conns, looping>>
    /\ UNCHANGED <<inUse, old, held>>

\* A mutant: whether a connection is in use is not looked at.
IdleOpen == conns \ shut

Idle == (conns \ inUse) \ shut

\* The first idle connection, or a new one below the limit.  Every error leaves
\* the pool as it is.
Acquire(c) ==
    /\ pool = "open" /\ held[c] = 0
    /\ LET id == IF Idle # {} THEN Min(Idle) ELSE totalCreated + 1
       IN  /\ Idle = {} => Cardinality(conns) < MaxConns /\ CanCreate(1)
           /\ conns' = conns \cup {id}
           /\ totalCreated' = IF Idle # {} THEN totalCreated ELSE id
           /\ inUse' = inUse \cup {id}
           /\ held' = [held EXCEPT ![c] = id]
    /\ UNCHANGED <<shut, old, pool, looping, totalDestroyed>>

\* A connection that the pool has no more is not looked for elsewhere.
Release(c) ==
    /\ held[c] # 0
    /\ inUse' = inUse \ ({held[c]} \cap conns)
    /\ held' = [held EXCEPT ![c] = 0]
    /\ UNCHANGED <<conns, shut, old, pool, looping, totalCreated, totalDestroyed>>

\* What is done with a connection may close it.
CallerCloses(c) ==
    /\ held[c] # 0 /\ held[c] \notin shut
    /\ shut' = shut \cup {held[c]}
    /\ UNCHANGED <<conns, inUse, old, held, pool, looping, totalCreated, totalDestroyed>>

Expire(id) ==
    /\ id \in conns \ old
    /\ old' = old \cup {id}
    /\ UNCHANGED <<conns, inUse, shut, held, pool, looping, totalCreated, totalDestroyed>>

\* Of a tick and the cancelled context, select takes either: also while Close
\* waits.
removeStaleConns ==
    /\ looping
    /\ LET gone == (conns \cap (old \cup shut)) \ inUse
           alive == conns \ gone
       IN  \E n \in 0..MinConns :
            /\ n > 0 => Cardinality(alive) + n <= MinConns
            /\ CanCreate(n)
            /\ conns' = alive \cup createConn(n)
            /\ totalCreated' = totalCreated + n
            /\ shut' = shut \cup gone
            /\ totalDestroyed' = totalDestroyed + Cardinality(gone)
    /\ UNCHANGED <<inUse, old, held, pool, looping>>

\* closed is set and the context cancelled.
ClosePool ==
    /\ pool = "open" /\ pool' = "closing"
    /\ UNCHANGED <<conns, inUse, shut, old, held, looping, totalCreated, totalDestroyed>>

healthCheckLoopEnds ==
    /\ looping /\ pool = "closing" /\ looping' = FALSE
    /\ UNCHANGED <<conns, inUse, shut, old, held, pool, totalCreated, totalDestroyed>>

\* A mutant: Close does not wait for the health check.
CloseUnwaited ==
    /\ pool = "closing" /\ pool' = "closed"
    /\ shut' = shut \cup conns
    /\ totalDestroyed' = totalDestroyed + Cardinality(conns)
    /\ conns' = {}
    /\ UNCHANGED <<inUse, old, held, looping, totalCreated>>

CloseConns ==
    /\ pool = "closing" /\ ~looping /\ pool' = "closed"
    /\ shut' = shut \cup conns
    /\ totalDestroyed' = totalDestroyed + Cardinality(conns)
    /\ conns' = {}
    /\ UNCHANGED <<inUse, old, held, looping, totalCreated>>

PoolNext ==
    \/ NewPool \/ removeStaleConns \/ ClosePool \/ healthCheckLoopEnds \/ CloseConns
    \/ \E c \in Caller : Acquire(c) \/ Release(c) \/ CallerCloses(c)
    \/ \E id \in 1..totalCreated : Expire(id)

PoolSpec == PoolInit /\ [][PoolNext]_poolVars

-----------------------------------------------------------------------------
(* Properties.                                                             *)

\* A connection has one holder, and until Close it is not taken from the holder:
\* neither the health check nor an Acquire takes what is in use.
Exclusive ==
    \A c \in Caller : held[c] # 0 =>
        /\ \A d \in Caller \ {c} : held[d] # held[c]
        /\ pool # "closed" => held[c] \in inUse \cap conns

\* Every connection that is open is in the pool, which stays within MaxConns and
\* counts what it created and destroyed; so when Close has returned none is open,
\* whatever the health check was doing.
NoneLeaks ==
    /\ (1..totalCreated) \ shut \subseteq conns
    /\ pool = "closed" => (1..totalCreated) \subseteq shut
    /\ Cardinality(conns) <= MaxConns
    /\ totalCreated - totalDestroyed = Cardinality(conns)
=============================================================================
