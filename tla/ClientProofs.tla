---------------------------- MODULE ClientProofs ----------------------------
(***************************************************************************)
(* Theorems about the driver's connection pool (Pool) and the driver port  *)
(* (Protocol), for any number of callers, clients, connections and         *)
(* queries.                                                                *)
(***************************************************************************)
EXTENDS Protocol, Pool, FiniteSetTheorems, SequenceTheorems, TLAPS

(***************************************************************************)
(* The pool.                                                               *)
(***************************************************************************)

\* A set of numbers that is not empty has a least one.
LEMMA LeastNumber ==
    ASSUME NEW S, S \subseteq Nat, S # {}
    PROVE  \E x \in S : \A y \in S : x <= y
<1>1. PICK x \in S : \A y \in S : ~(<<y, x>> \in OpToRel(<, Nat))
  <2>1. \E x \in S : \A y \in S : ~(<<y, x>> \in OpToRel(<, Nat))
    BY WFMin, NatLessThanWellFounded, Zenon
  <2> QED
    BY <2>1
<1>2. ASSUME NEW y \in S PROVE x <= y
  <2>1. ~(<<y, x>> \in OpToRel(<, Nat))
    BY <1>1
  <2>2. x \in Nat /\ y \in Nat
    OBVIOUS
  <2>3. ~(y < x)
    BY <2>1, <2>2 DEF OpToRel
  <2> QED
    BY <2>2, <2>3
<1> QED
  BY <1>2

PoolTypeOK ==
    /\ totalCreated \in Nat /\ totalDestroyed \in Int
    /\ conns \subseteq 1..totalCreated /\ shut \subseteq 1..totalCreated
    /\ inUse \subseteq 1..totalCreated
    /\ held \in [Caller -> 0..totalCreated]
    /\ pool \in {"new", "open", "closing", "closed"} /\ looping \in BOOLEAN

\* The health check runs only while the pool is there, a new pool has done
\* nothing yet, and a closed one has no connections.
PoolPhase ==
    /\ looping => pool \in {"open", "closing"}
    /\ pool = "new" => totalCreated = 0 /\ totalDestroyed = 0
    /\ pool = "closed" => conns = {}

PoolInv == PoolTypeOK /\ PoolPhase /\ Exclusive /\ NoneLeaks

\* The connections of the pool can be counted.
LEMMA ConnsFinite ==
    ASSUME PoolTypeOK, NEW S, S \subseteq 1..totalCreated
    PROVE  IsFiniteSet(S) /\ Cardinality(S) \in Nat
<1>1. IsFiniteSet(1..totalCreated)
  BY FS_Interval, totalCreated \in Int, 1 \in Int DEF PoolTypeOK
<1> QED
  BY <1>1, FS_Subset, FS_CardinalityType

\* createConn numbers new connections.
LEMMA CreatedConns ==
    ASSUME PoolTypeOK, NEW n \in Nat
    PROVE  /\ createConn(n) = (1..(totalCreated + n)) \ (1..totalCreated)
           /\ IsFiniteSet(createConn(n)) /\ Cardinality(createConn(n)) = n
<1>1. totalCreated + 1 \in Int /\ totalCreated + n \in Int /\ totalCreated \in Nat
  BY DEF PoolTypeOK
<1>2. createConn(n) = (1..(totalCreated + n)) \ (1..totalCreated)
  BY <1>1 DEF createConn
<1>3. /\ IsFiniteSet(createConn(n))
      /\ Cardinality(createConn(n)) =
           IF totalCreated + 1 > totalCreated + n THEN 0
           ELSE (totalCreated + n) - (totalCreated + 1) + 1
  BY <1>1, FS_Interval DEF createConn
<1> QED
  BY <1>1, <1>2, <1>3

\* NewPool creates MinConns connections or closes what it created.
LEMMA NewPoolKeeps == ASSUME PoolInv, NewPool PROVE PoolInv'
<1>1. PICK n \in 0..MinConns :
        /\ totalCreated' = n
        /\ IF n = MinConns
           THEN /\ conns' = createConn(n) /\ pool' = "open" /\ looping' = TRUE
                /\ UNCHANGED <<shut, totalDestroyed>>
           ELSE /\ shut' = 1..n /\ totalDestroyed' = n /\ pool' = "closed"
                /\ UNCHANGED <<conns, looping>>
  BY DEF NewPool
<1>2. /\ PoolTypeOK /\ n \in Nat /\ totalCreated = 0 /\ totalDestroyed = 0
      /\ conns = {} /\ shut = {} /\ inUse = {} /\ UNCHANGED <<inUse, held>> /\ ~looping
      /\ \A c \in Caller : held[c] = 0
  BY PoolAssumption DEF PoolInv, PoolTypeOK, PoolPhase, NewPool
<1>3. createConn(n) = 1..n /\ Cardinality(createConn(n)) = n
  BY <1>2, CreatedConns
<1>4. CASE n = MinConns
  <2>1. PoolTypeOK' /\ PoolPhase' /\ Exclusive'
    BY <1>1, <1>2, <1>3, <1>4 DEF PoolTypeOK, PoolPhase, Exclusive
  <2>2. NoneLeaks'
    BY <1>1, <1>2, <1>3, <1>4, PoolAssumption DEF NoneLeaks
  <2> QED
    BY <2>1, <2>2 DEF PoolInv
<1>5. CASE n # MinConns
  <2>1. PoolTypeOK' /\ PoolPhase' /\ Exclusive'
    BY <1>1, <1>2, <1>5 DEF PoolTypeOK, PoolPhase, Exclusive
  <2>2. NoneLeaks'
    BY <1>1, <1>2, <1>5, FS_EmptySet, PoolAssumption DEF NoneLeaks
  <2> QED
    BY <2>1, <2>2 DEF PoolInv
<1> QED
  BY <1>4, <1>5

\* Acquire hands out a connection that nobody holds, an idle one or a new one.
LEMMA AcquireKeeps == ASSUME PoolInv, NEW c \in Caller, Acquire(c) PROVE PoolInv'
<1> DEFINE id == IF Idle # {} THEN Min(Idle) ELSE totalCreated + 1
<1>1. /\ PoolTypeOK /\ PoolPhase /\ Exclusive /\ NoneLeaks
      /\ totalCreated \in Nat /\ conns \subseteq 1..totalCreated /\ pool = "open"
  BY DEF PoolInv, PoolTypeOK, Acquire
<1>2. /\ Idle = {} => Cardinality(conns) < MaxConns
      /\ conns' = conns \cup {id}
      /\ totalCreated' = IF Idle # {} THEN totalCreated ELSE totalCreated + 1
      /\ inUse' = inUse \cup {id}
      /\ held' = [held EXCEPT ![c] = id]
      /\ UNCHANGED <<shut, pool, looping, totalDestroyed>>
  BY DEF Acquire
<1>3. /\ IsFiniteSet(conns) /\ Cardinality(conns) \in Nat
      /\ Cardinality(conns \cup {id}) =
           IF id \in conns THEN Cardinality(conns) ELSE Cardinality(conns) + 1
  BY <1>1, ConnsFinite, FS_AddElement
<1>4. CASE Idle # {}
  <2>1. Idle \subseteq Nat
    <3>1. \A x \in conns : x \in Nat
      BY <1>1
    <3> QED
      BY <3>1 DEF Idle
  <2>2. id \in Idle
    <3>1. \E x \in Idle : \A y \in Idle : x <= y
      BY <1>4, <2>1, LeastNumber
    <3> QED
      BY <1>4, <3>1 DEF Min
  <2> HIDE DEF id
  <2>3. id \in conns /\ id \notin inUse /\ id \in 1..totalCreated
    BY <1>1, <2>2 DEF Idle
  <2>4. \A d \in Caller : held[d] # id
    BY <1>1, <2>3 DEF Exclusive
  <2>5. conns' = conns /\ totalCreated' = totalCreated
    BY <1>2, <1>4, <2>3
  <2>6. PoolTypeOK' /\ PoolPhase'
    BY <1>1, <1>2, <2>3, <2>5 DEF PoolTypeOK, PoolPhase
  <2>7. Exclusive'
    BY <1>1, <1>2, <2>3, <2>4, <2>5 DEF Exclusive, PoolTypeOK
  <2>8. NoneLeaks'
    BY <1>1, <1>2, <2>5 DEF NoneLeaks
  <2> QED
    BY <2>6, <2>7, <2>8 DEF PoolInv
<1>5. CASE Idle = {}
  <2>1. id = totalCreated + 1 /\ totalCreated' = totalCreated + 1
    BY <1>2, <1>5
  <2> HIDE DEF id
  <2>2. id \notin conns /\ \A d \in Caller : held[d] # id
    BY <1>1, <2>1 DEF PoolTypeOK
  <2>3. Cardinality(conns') = Cardinality(conns) + 1
    BY <1>2, <1>3, <2>2
  <2>4. PoolTypeOK' /\ PoolPhase'
    BY <1>1, <1>2, <2>1 DEF PoolTypeOK, PoolPhase
  <2>5. Exclusive'
    BY <1>1, <1>2, <2>1, <2>2 DEF Exclusive, PoolTypeOK
  <2>6. NoneLeaks'
    BY <1>1, <1>2, <1>3, <1>5, <2>1, <2>3, PoolAssumption DEF NoneLeaks, PoolTypeOK
  <2> QED
    BY <2>4, <2>5, <2>6 DEF PoolInv
<1> QED
  BY <1>4, <1>5

\* removeStaleConns leaves what is in use and closes what it takes out.
LEMMA RemoveStaleKeeps == ASSUME PoolInv, removeStaleConns PROVE PoolInv'
<1> DEFINE gone == (conns \cap (old \cup shut)) \ inUse
           alive == conns \ gone
<1>1. /\ PoolTypeOK /\ PoolPhase /\ Exclusive /\ NoneLeaks /\ pool \in {"open", "closing"}
      /\ totalCreated \in Nat /\ totalDestroyed \in Int /\ conns \subseteq 1..totalCreated
  BY DEF PoolInv, PoolTypeOK, PoolPhase, removeStaleConns
<1>2. PICK n \in 0..MinConns :
        /\ n > 0 => Cardinality(alive) + n <= MinConns
        /\ conns' = alive \cup createConn(n)
        /\ totalCreated' = totalCreated + n
        /\ shut' = shut \cup gone
        /\ totalDestroyed' = totalDestroyed + Cardinality(gone)
  BY DEF removeStaleConns
<1>3. n \in Nat /\ UNCHANGED <<inUse, held, pool, looping>>
  BY PoolAssumption DEF removeStaleConns
<1>4. /\ gone \subseteq 1..totalCreated /\ alive \subseteq 1..totalCreated
      /\ gone \subseteq conns /\ conns \cap inUse \subseteq alive
  BY <1>1
<1>5. /\ IsFiniteSet(conns) /\ Cardinality(conns) \in Nat
      /\ IsFiniteSet(gone) /\ Cardinality(gone) \in Nat
      /\ IsFiniteSet(alive) /\ Cardinality(alive) \in Nat
  BY <1>1, <1>4, ConnsFinite
<1>6. Cardinality(alive) = Cardinality(conns) - Cardinality(gone)
  <2>1. Cardinality(conns \ gone) = Cardinality(conns) - Cardinality(conns \cap gone)
    BY <1>5, FS_Difference
  <2>2. conns \cap gone = gone
    BY <1>4
  <2> QED
    BY <2>1, <2>2
<1> DEFINE new == createConn(n)
<1>7. /\ new = (1..(totalCreated + n)) \ (1..totalCreated)
      /\ IsFiniteSet(new) /\ Cardinality(new) = n
  BY <1>1, <1>3, CreatedConns
<1>8. Cardinality(conns') = Cardinality(alive) + n
  <2>1. Cardinality(alive \cup new) = Cardinality(alive) + Cardinality(new) - Cardinality(alive \cap new)
    BY <1>5, <1>7, FS_Union
  <2>2. alive \cap new = {}
    BY <1>4, <1>7
  <2>3. Cardinality(alive \cap new) = 0
    BY <2>2, FS_EmptySet
  <2>4. conns' = alive \cup new
    BY <1>2
  <2> HIDE DEF alive, new
  <2> QED
    BY <1>3, <1>5, <1>7, <2>1, <2>3, <2>4
<1>9. conns' = alive \cup new
  BY <1>2
<1>10. (1..totalCreated') = (1..totalCreated) \cup new
  BY <1>1, <1>2, <1>3, <1>7
<1>11. gone \cup alive = conns
  BY <1>4
<1> HIDE DEF gone, alive, new
<1>12. PoolTypeOK'
  <2>1. totalCreated' \in Nat /\ totalDestroyed' \in Int /\ totalCreated <= totalCreated'
    BY <1>1, <1>2, <1>3, <1>5
  <2>2. /\ conns' \subseteq 1..totalCreated' /\ shut' \subseteq 1..totalCreated'
        /\ inUse' \subseteq 1..totalCreated'
    BY <1>1, <1>2, <1>3, <1>4, <1>9, <1>10 DEF PoolTypeOK
  <2>3. held' \in [Caller -> 0..totalCreated']
    BY <1>1, <1>3, <2>1 DEF PoolTypeOK
  <2> QED
    BY <1>1, <1>3, <2>1, <2>2, <2>3 DEF PoolTypeOK
<1>13. PoolPhase'
  BY <1>1, <1>3 DEF PoolPhase
<1>14. Exclusive'
  BY <1>1, <1>3, <1>4, <1>9 DEF Exclusive
<1>15. NoneLeaks'
  <2>1. (1..totalCreated') \ shut' \subseteq conns'
    BY <1>1, <1>2, <1>9, <1>10, <1>11 DEF NoneLeaks
  <2>2. Cardinality(conns') <= MaxConns
    BY <1>1, <1>2, <1>3, <1>5, <1>6, <1>8, PoolAssumption DEF NoneLeaks
  <2>3. totalCreated' - totalDestroyed' = Cardinality(conns')
    BY <1>1, <1>2, <1>3, <1>5, <1>6, <1>8 DEF NoneLeaks
  <2> QED
    BY <1>1, <1>3, <2>1, <2>2, <2>3 DEF NoneLeaks
<1> QED
  BY <1>12, <1>13, <1>14, <1>15 DEF PoolInv

\* The steps of Release, Close and the health check's end.
LEMMA OtherPoolStepsKeep ==
    ASSUME PoolInv,
           \/ \E c \in Caller : Release(c) \/ CallerCloses(c)
           \/ \E id \in 1..totalCreated : Expire(id)
           \/ ClosePool \/ healthCheckLoopEnds \/ CloseConns
    PROVE  PoolInv'
<1>1. PoolTypeOK /\ PoolPhase /\ Exclusive /\ NoneLeaks
  BY DEF PoolInv
<1>2. ASSUME NEW c \in Caller, Release(c)
      PROVE  PoolInv'
  <2>1. PoolTypeOK'
    <3>1. held' \in [Caller -> 0..totalCreated]
      BY <1>1, <1>2 DEF Release, PoolTypeOK
    <3>2. inUse' \subseteq 1..totalCreated
      BY <1>1, <1>2 DEF Release, PoolTypeOK
    <3> QED
      BY <1>1, <1>2, <3>1, <3>2 DEF Release, PoolTypeOK
  <2>4. PoolPhase'
    BY <1>1, <1>2 DEF Release, PoolPhase
  <2>3. NoneLeaks'
    BY <1>1, <1>2 DEF Release, NoneLeaks
  <2>2. Exclusive'
    BY <1>1, <1>2 DEF Release, PoolTypeOK, Exclusive
  <2> QED
    BY <2>1, <2>2, <2>3, <2>4 DEF PoolInv
<1>3. ASSUME NEW c \in Caller, CallerCloses(c)
      PROVE  PoolInv'
  <2>1. held[c] \in 1..totalCreated
    BY <1>1, <1>3 DEF CallerCloses, PoolTypeOK
  <2>2. PoolTypeOK' /\ PoolPhase' /\ Exclusive'
    BY <1>1, <1>3, <2>1 DEF CallerCloses, PoolTypeOK, PoolPhase, Exclusive
  <2>3. NoneLeaks'
    BY <1>1, <1>3 DEF CallerCloses, NoneLeaks
  <2> QED
    BY <2>2, <2>3 DEF PoolInv
<1>4. ASSUME NEW id \in 1..totalCreated, Expire(id)
      PROVE  PoolInv'
  BY <1>1, <1>4 DEF Expire, PoolInv, PoolTypeOK, PoolPhase, NoneLeaks, Exclusive
<1>5. CASE ClosePool \/ healthCheckLoopEnds
  BY <1>1, <1>5
  DEF ClosePool, healthCheckLoopEnds, PoolInv, PoolTypeOK, PoolPhase, NoneLeaks, Exclusive
<1>6. CASE CloseConns
  <2>1. Cardinality(conns) \in Nat
    BY <1>1, ConnsFinite DEF PoolTypeOK
  <2>2. PoolTypeOK' /\ PoolPhase' /\ Exclusive'
    BY <1>1, <1>6, <2>1 DEF CloseConns, PoolTypeOK, PoolPhase, Exclusive
  <2>3. NoneLeaks'
    BY <1>1, <1>6, <2>1, FS_EmptySet, PoolAssumption DEF CloseConns, NoneLeaks, PoolTypeOK
  <2> QED
    BY <2>2, <2>3 DEF PoolInv
<1> QED
  BY <1>2, <1>3, <1>4, <1>5, <1>6

\* The invariant of the pool holds for ever.
THEOREM PoolInvariant == PoolSpec => []PoolInv
<1>1. PoolInit => PoolInv
  <2> SUFFICES ASSUME PoolInit PROVE PoolInv
    OBVIOUS
  <2>1. PoolTypeOK /\ PoolPhase /\ Exclusive
    <3>1. \A c \in Caller : held[c] = 0
      BY DEF PoolInit
    <3>2. PoolTypeOK
      <4>1. held \in [Caller -> 0..totalCreated]
        BY DEF PoolInit
      <4>2. looping \in BOOLEAN
        BY Zenon DEF PoolInit
      <4> QED
        BY <4>1, <4>2 DEF PoolInit, PoolTypeOK
    <3>3. PoolPhase
      BY DEF PoolInit, PoolPhase
    <3> QED
      BY <3>1, <3>2, <3>3 DEF Exclusive
  <2>2. Cardinality(conns) = 0
    BY FS_EmptySet DEF PoolInit
  <2>3. NoneLeaks
    BY <2>2, PoolAssumption DEF PoolInit, NoneLeaks
  <2> QED
    BY <2>1, <2>3 DEF PoolInv
<1>2. PoolInv /\ [PoolNext]_poolVars => PoolInv'
  <2> SUFFICES ASSUME PoolInv, [PoolNext]_poolVars
               PROVE  PoolInv'
    OBVIOUS
  <2>1. CASE UNCHANGED poolVars
    BY <2>1 DEF poolVars, PoolInv, PoolTypeOK, PoolPhase, Exclusive, NoneLeaks
  <2>2. CASE PoolNext
    BY <2>2, NewPoolKeeps, AcquireKeeps, RemoveStaleKeeps, OtherPoolStepsKeep DEF PoolNext
  <2> QED
    BY <2>1, <2>2
<1> QED
  BY <1>1, <1>2, PTL DEF PoolSpec

\* A connection has one holder, and neither Acquire nor the health check takes it
\* from the holder.
THEOREM ExclusiveHolds == PoolSpec => []Exclusive
BY PoolInvariant, PTL DEF PoolInv

\* No connection is left open outside the pool, and the counters of the pool are
\* right, whatever the health check does beside Close.
THEOREM NoneLeaksHolds == PoolSpec => []NoneLeaks
BY PoolInvariant, PTL DEF PoolInv

(***************************************************************************)
(* The driver port.                                                        *)
(***************************************************************************)

Message == [k : {"V1_0", "V0_4"}] \cup [k : {"auth"}, ok : BOOLEAN]
           \cup [k : {"start", "stop", "other"}, n : Token, token : Token]

Frame == [k : {"hello", "first", "success", "error", "len", "body"}, of : 0..MaxQueries]

PortTypeOK ==
    /\ ProtoTypeOK
    /\ toServer \in [Client -> Seq(Message)]
    /\ toClient \in [Client -> Seq(Frame)]

Active == {"run", "len", "body"}

\* A client that waits asks one thing at a time: what is on its way to the
\* server, at work there and on its way back belongs to its last query.
OneAtATime(c) ==
    /\ \A i \in 1..Len(toServer[c]) :
        /\ toServer[c][i].k \notin {"stop", "other"}
        /\ toServer[c][i].k = "start" => toServer[c][i].n = sent[c]
        /\ handler[c] \in {"loop", "read"} => toServer[c][i].k = "start"
    /\ handler[c] \in {"version", "first", "final"} => Len(toServer[c]) <= 1
    /\ job[c][0] = "none"
    /\ \A t \in Token : job[c][t] \in Active => t = sent[c]
    /\ \A i \in 1..Len(toClient[c]) :
        toClient[c][i].k \in {"len", "body"} => toClient[c][i].of = sent[c]

\* No goroutine works for the client.
Calm(c) == \A t \in Token : job[c][t] \notin Active

\* The goroutine of the client's query, if there is one, has sent the length.
LengthSent(c) == \A t \in Token : job[c][t] \notin {"run", "len"}

\* No goroutine of the client has sent a length without its body.
LengthUnsent(c) == \A t \in Token : job[c][t] # "body"

SentNothing(c) == Len(toServer[c]) = 0

NothingToRead(c) == Len(toClient[c]) = 0

ToServerIs(c, k) == Len(toServer[c]) = 1 /\ toServer[c][1].k = k

ToClientIs(c, k) == Len(toClient[c]) = 1 /\ toClient[c][1].k = k

\* Where a client that waits is in the handshake: the client, the handler and
\* the one message between them.
Shaking(c) ==
    /\ Calm(c)
    /\ \/ /\ client[c] = (IF Version = "V1_0" THEN "hello" ELSE "final")
          /\ handler[c] = "version" /\ ToServerIs(c, Version) /\ NothingToRead(c)
       \/ client[c] = "hello" /\ handler[c] = "first" /\ SentNothing(c) /\ ToClientIs(c, "hello")
       \/ client[c] = "first" /\ handler[c] = "first" /\ ToServerIs(c, "auth") /\ NothingToRead(c)
       \/ client[c] = "first" /\ handler[c] = "final" /\ SentNothing(c) /\ ToClientIs(c, "first")
       \/ client[c] = "final" /\ handler[c] = "final" /\ ToServerIs(c, "auth") /\ NothingToRead(c)
       \/ /\ client[c] \in {"hello", "first", "final"} /\ handler[c] = "closed"
          /\ SentNothing(c) /\ (NothingToRead(c) \/ ToClientIs(c, "error"))
       \/ /\ client[c] = "final" /\ handler[c] \in {"loop", "read", "closed"}
          /\ SentNothing(c) /\ ToClientIs(c, "success")

\* Where it is with a query.
Asking(c) ==
    /\ handler[c] \in {"loop", "read", "closed"}
    /\ \/ client[c] = "ready" /\ Calm(c) /\ SentNothing(c) /\ NothingToRead(c)
       \/ client[c] = "head" /\ Calm(c) /\ ToServerIs(c, "start") /\ NothingToRead(c)
       \/ /\ client[c] = "head" /\ SentNothing(c) /\ NothingToRead(c)
          /\ handler[c] = "closed" \/ LengthUnsent(c)
       \/ client[c] = "head" /\ LengthSent(c) /\ SentNothing(c) /\ ToClientIs(c, "len")
       \/ /\ client[c] = "head" /\ Calm(c) /\ SentNothing(c) /\ Len(toClient[c]) = 2
          /\ toClient[c][1].k = "len" /\ toClient[c][2].k = "body"
       \/ client[c] = "body" /\ LengthSent(c) /\ SentNothing(c) /\ NothingToRead(c)
       \/ client[c] = "body" /\ Calm(c) /\ SentNothing(c) /\ ToClientIs(c, "body")

\* Before the connection, and after it for the client.
Away(c) ==
    \/ client[c] \in {"done", "failed"}
    \/ /\ client[c] = "idle" /\ handler[c] = "none" /\ Calm(c)
       /\ SentNothing(c) /\ NothingToRead(c)

Ask == {"start", "stop", "other"}

\* Queries are numbered as they are sent, and have no token before they are read.
Numbered(c) ==
    /\ \A n \in Token : n > sent[c] => token[c][n] = 0
    /\ \A i \in 1..Len(toServer[c]) :
        toServer[c][i].k \in Ask =>
            /\ toServer[c][i].n <= sent[c] /\ token[c][toServer[c][i].n] = 0
            /\ \A j \in 1..Len(toServer[c]) :
                j # i /\ toServer[c][j].k \in Ask => toServer[c][j].n # toServer[c][i].n

\* STOP and the queries of one connection.
Found(c) ==
    /\ job[c][0] \in {"none", "len", "body"}
    /\ \A n \in Token : job[c][n] # "none" => token[c][n] # 0
    /\ \A t \in Token : queries[c][t] # 0 => token[c][queries[c][t]] = t /\ job[c][queries[c][t]] # "none"
    /\ \A n \in Token :
        job[c][n] \in Active =>
            queries[c][token[c][n]] = n \/ \E m \in Token \ {n} : token[c][m] = token[c][n]

ConnInv(c) ==
    /\ Numbered(c) /\ Found(c)
    /\ c \in waits => OneAtATime(c) /\ (Away(c) \/ Shaking(c) \/ Asking(c))

PortInv == PortTypeOK /\ \A c \in Client : ConnInv(c)

\* A step of one connection leaves the others alone.
Elsewhere(c) ==
    /\ waits' = waits
    /\ \A d \in Client \ {c} :
        /\ handler'[d] = handler[d] /\ client'[d] = client[d] /\ queries'[d] = queries[d]
        /\ token'[d] = token[d] /\ job'[d] = job[d] /\ sent'[d] = sent[d]
        /\ toServer'[d] = toServer[d] /\ toClient'[d] = toClient[d]

\* So the invariant of every other connection stays.
LEMMA OneConnection ==
    ASSUME PortInv, NEW c \in Client, Elsewhere(c), PortTypeOK', ConnInv(c)'
    PROVE  PortInv'
<1> SUFFICES ASSUME NEW d \in Client, d # c
             PROVE  ConnInv(d)'
  BY DEF PortInv
<1>1. ConnInv(d)
  BY DEF PortInv
<1>2. /\ handler'[d] = handler[d] /\ client'[d] = client[d] /\ queries'[d] = queries[d]
      /\ token'[d] = token[d] /\ job'[d] = job[d] /\ sent'[d] = sent[d]
      /\ toServer'[d] = toServer[d] /\ toClient'[d] = toClient[d] /\ waits' = waits
  BY DEF Elsewhere
<1>3. Numbered(d)' /\ Found(d)'
  BY <1>1, <1>2 DEF ConnInv, Found, Numbered
<1>4. OneAtATime(d) => OneAtATime(d)'
  BY <1>2 DEF OneAtATime
<1>5. Away(d) => Away(d)'
  BY <1>2 DEF Away, Calm, SentNothing, NothingToRead
<1>6. Shaking(d) => Shaking(d)'
  BY <1>2 DEF Shaking, Calm, ToServerIs, ToClientIs, SentNothing, NothingToRead
<1>7. Asking(d) => Asking(d)'
  BY <1>2 DEF Asking, Calm, LengthSent, LengthUnsent, ToServerIs, ToClientIs, SentNothing, NothingToRead
<1> QED
  BY <1>1, <1>2, <1>3, <1>4, <1>5, <1>6, <1>7 DEF ConnInv

\* What a goroutine's step does to the jobs.
LEMMA JobEffect ==
    ASSUME PortTypeOK, NEW c \in Client, NEW t \in 0..MaxQueries,
           NEW v \in JobState,
           job' = [job EXCEPT ![c][t] = v]
    PROVE  /\ job' \in [Client -> [0..MaxQueries -> JobState]]
           /\ \A d \in Client \ {c} : job'[d] = job[d]
           /\ job'[c][t] = v
           /\ \A u \in (0..MaxQueries) \ {t} : job'[c][u] = job[c][u]
<1> DEFINE j == [job[c] EXCEPT ![t] = v]
<1>1. job \in [Client -> [0..MaxQueries -> JobState]]
  BY DEF PortTypeOK, ProtoTypeOK
<1>2. /\ j \in [0..MaxQueries -> JobState]
      /\ j[t] = v /\ \A u \in (0..MaxQueries) \ {t} : j[u] = job[c][u]
  BY <1>1
<1>3. job' = [job EXCEPT ![c] = j]
  OBVIOUS
<1> HIDE DEF j
<1> QED
  BY <1>1, <1>2, <1>3

\* What a step does to the tokens or to the queries of one connection.
LEMMA TokenEffect ==
    ASSUME NEW f \in [Client -> [Token -> 0..MaxQueries]], NEW c \in Client, NEW t \in Token,
           NEW v \in 0..MaxQueries, NEW g, g = [f EXCEPT ![c][t] = v]
    PROVE  /\ g \in [Client -> [Token -> 0..MaxQueries]]
           /\ \A d \in Client \ {c} : g[d] = f[d]
           /\ g[c][t] = v
           /\ \A u \in Token \ {t} : g[c][u] = f[c][u]
<1> DEFINE j == [f[c] EXCEPT ![t] = v]
<1>1. /\ j \in [Token -> 0..MaxQueries]
      /\ j[t] = v /\ \A u \in Token \ {t} : j[u] = f[c][u]
  OBVIOUS
<1>2. g = [f EXCEPT ![c] = j]
  OBVIOUS
<1> HIDE DEF j
<1> QED
  BY <1>1, <1>2

\* Sending, reading and writing one message.
LEMMA SendEffect ==
    ASSUME PortTypeOK, NEW c \in Client, NEW m \in Message, Send(c, m)
    PROVE  /\ toServer' \in [Client -> Seq(Message)]
           /\ \A d \in Client \ {c} : toServer'[d] = toServer[d]
           /\ Len(toServer'[c]) = Len(toServer[c]) + 1
           /\ \A i \in 1..Len(toServer[c]) : toServer'[c][i] = toServer[c][i]
           /\ toServer'[c][Len(toServer[c]) + 1] = m
<1> DEFINE s == Append(toServer[c], m)
<1>1. toServer \in [Client -> Seq(Message)] /\ toServer[c] \in Seq(Message)
  BY DEF PortTypeOK
<1>2. /\ s \in Seq(Message) /\ Len(s) = Len(toServer[c]) + 1
      /\ \A i \in 1..Len(toServer[c]) : s[i] = toServer[c][i]
      /\ s[Len(toServer[c]) + 1] = m
  BY <1>1, AppendProperties
<1>3. toServer' = [toServer EXCEPT ![c] = s]
  BY DEF Send
<1> HIDE DEF s
<1> QED
  BY <1>1, <1>2, <1>3

LEMMA WriteEffect ==
    ASSUME PortTypeOK, NEW c \in Client, NEW t \in 0..MaxQueries,
           NEW k \in {"hello", "first", "success", "error", "len", "body"}, Write(c, k, t)
    PROVE  /\ toClient' \in [Client -> Seq(Frame)]
           /\ \A d \in Client \ {c} : toClient'[d] = toClient[d]
           /\ Len(toClient'[c]) = Len(toClient[c]) + 1
           /\ \A i \in 1..Len(toClient[c]) : toClient'[c][i] = toClient[c][i]
           /\ toClient'[c][Len(toClient[c]) + 1].k = k
           /\ toClient'[c][Len(toClient[c]) + 1].of = t
<1> DEFINE m == [k |-> k, of |-> t]
           s == Append(toClient[c], m)
<1>1. toClient \in [Client -> Seq(Frame)] /\ toClient[c] \in Seq(Frame)
  BY DEF PortTypeOK
<1>2. m \in Frame /\ m.k = k /\ m.of = t
  BY DEF Frame
<1>3. toClient' = [toClient EXCEPT ![c] = s]
  BY DEF Write
<1> HIDE DEF m
<1>4. /\ s \in Seq(Frame) /\ Len(s) = Len(toClient[c]) + 1
      /\ \A i \in 1..Len(toClient[c]) : s[i] = toClient[c][i]
      /\ s[Len(toClient[c]) + 1] = m
  BY <1>1, <1>2, AppendProperties
<1> HIDE DEF s
<1> QED
  BY <1>1, <1>2, <1>3, <1>4

LEMMA TailEffect ==
    ASSUME NEW S, NEW s \in Seq(S), s # <<>>
    PROVE  /\ Tail(s) \in Seq(S) /\ Len(s) \in Nat \ {0} /\ Len(Tail(s)) = Len(s) - 1
           /\ \A i \in 1..(Len(s) - 1) : Tail(s)[i] = s[i + 1]
           /\ Head(s) = s[1] /\ s[1] \in S
BY HeadTailProperties, ElementOfSeq, EmptySeq

LEMMA ConsumeEffect ==
    ASSUME PortTypeOK, NEW c \in Client, toServer[c] # <<>>, Consume(c)
    PROVE  /\ toServer' \in [Client -> Seq(Message)]
           /\ \A d \in Client \ {c} : toServer'[d] = toServer[d]
           /\ Len(toServer[c]) \in Nat \ {0} /\ Len(toServer'[c]) = Len(toServer[c]) - 1
           /\ \A i \in 1..(Len(toServer[c]) - 1) : toServer'[c][i] = toServer[c][i + 1]
           /\ Head(toServer[c]) = toServer[c][1] /\ toServer[c][1] \in Message
<1>1. toServer \in [Client -> Seq(Message)] /\ toServer[c] \in Seq(Message)
  BY DEF PortTypeOK
<1> DEFINE s == Tail(toServer[c])
<1>2. toServer' = [toServer EXCEPT ![c] = s]
  BY DEF Consume
<1>3. /\ s \in Seq(Message)
      /\ Len(toServer[c]) \in Nat \ {0} /\ Len(s) = Len(toServer[c]) - 1
      /\ \A i \in 1..(Len(toServer[c]) - 1) : s[i] = toServer[c][i + 1]
      /\ Head(toServer[c]) = toServer[c][1] /\ toServer[c][1] \in Message
  BY <1>1, TailEffect
<1> HIDE DEF s
<1> QED
  BY <1>1, <1>2, <1>3

LEMMA ReadEffect ==
    ASSUME PortTypeOK, NEW c \in Client, toClient[c] # <<>>,
           toClient' = [toClient EXCEPT ![c] = Tail(@)]
    PROVE  /\ toClient' \in [Client -> Seq(Frame)]
           /\ \A d \in Client \ {c} : toClient'[d] = toClient[d]
           /\ Len(toClient[c]) \in Nat \ {0} /\ Len(toClient'[c]) = Len(toClient[c]) - 1
           /\ \A i \in 1..(Len(toClient[c]) - 1) : toClient'[c][i] = toClient[c][i + 1]
           /\ Head(toClient[c]) = toClient[c][1] /\ toClient[c][1] \in Frame
<1>1. toClient \in [Client -> Seq(Frame)] /\ toClient[c] \in Seq(Frame)
  BY DEF PortTypeOK
<1> DEFINE s == Tail(toClient[c])
<1>2. toClient' = [toClient EXCEPT ![c] = s]
  OBVIOUS
<1>3. /\ s \in Seq(Frame)
      /\ Len(toClient[c]) \in Nat \ {0} /\ Len(s) = Len(toClient[c]) - 1
      /\ \A i \in 1..(Len(toClient[c]) - 1) : s[i] = toClient[c][i + 1]
      /\ Head(toClient[c]) = toClient[c][1] /\ toClient[c][1] \in Frame
  BY <1>1, TailEffect
<1> HIDE DEF s
<1> QED
  BY <1>1, <1>2, <1>3
\* A client has sent nothing that is not read, or has nothing to read, when the
\* queue is empty.
LEMMA EmptyQueues ==
    ASSUME PortTypeOK, NEW c \in Client
    PROVE  /\ Len(toServer[c]) \in Nat /\ (toServer[c] = <<>> <=> SentNothing(c))
           /\ Len(toClient[c]) \in Nat /\ (toClient[c] = <<>> <=> NothingToRead(c))
<1>1. toServer[c] \in Seq(Message) /\ toClient[c] \in Seq(Frame)
  BY DEF PortTypeOK
<1> QED
  BY <1>1, EmptySeq, LenProperties DEF SentNothing, NothingToRead

\* The types, variable by variable, in the old and in the new state.
LEMMA PortTypes ==
    ASSUME PortTypeOK
    PROVE  /\ srv \in {"running", "stopping", "stopped"} /\ accepting \in BOOLEAN
           /\ handler \in [Client -> HandlerState]
           /\ client \in [Client -> ClientState]
           /\ sent \in [Client -> 0..MaxQueries] /\ waits \subseteq Client
           /\ job \in [Client -> [0..MaxQueries -> JobState]]
           /\ queries \in [Client -> [Token -> 0..MaxQueries]] /\ token \in [Client -> [Token -> 0..MaxQueries]]
           /\ toServer \in [Client -> Seq(Message)]
           /\ toClient \in [Client -> Seq(Frame)]
BY DEF PortTypeOK, ProtoTypeOK

LEMMA PortTypesNext ==
    ASSUME srv' \in {"running", "stopping", "stopped"},
           accepting' \in BOOLEAN,
           handler' \in [Client -> HandlerState],
           client' \in [Client -> ClientState],
           sent' \in [Client -> 0..MaxQueries],
           waits' \subseteq Client,
           job' \in [Client -> [0..MaxQueries -> JobState]],
           queries' \in [Client -> [Token -> 0..MaxQueries]],
           token' \in [Client -> [Token -> 0..MaxQueries]],
           toServer' \in [Client -> Seq(Message)],
           toClient' \in [Client -> Seq(Frame)]
    PROVE  PortTypeOK'
BY Zenon DEF PortTypeOK, ProtoTypeOK

\* What is sent is numbered on, and what is read or lost leaves the rest in order.
LEMMA NumberedKeeps ==
    ASSUME NEW c \in Client, Numbered(c), UNCHANGED <<sent, token>>,
           NEW k \in Nat, Len(toServer[c]) \in Nat, Len(toServer'[c]) \in Nat,
           Len(toServer'[c]) + k <= Len(toServer[c]),
           \A i \in 1..Len(toServer'[c]) : toServer'[c][i] = toServer[c][i + k]
    PROVE  Numbered(c)'
<1>1. \A i \in 1..Len(toServer'[c]) : i + k \in 1..Len(toServer[c])
  OBVIOUS
<1>2. ASSUME NEW i \in 1..Len(toServer'[c]), toServer'[c][i].k \in Ask
      PROVE  /\ toServer'[c][i].n <= sent[c] /\ token[c][toServer'[c][i].n] = 0
             /\ \A j \in 1..Len(toServer'[c]) :
                 j # i /\ toServer'[c][j].k \in Ask => toServer'[c][j].n # toServer'[c][i].n
  <2> DEFINE a == i + k
  <2>1. a \in 1..Len(toServer[c]) /\ toServer'[c][i] = toServer[c][a]
    BY <1>1
  <2>2. ASSUME NEW j \in 1..Len(toServer'[c]), j # i, toServer'[c][j].k \in Ask
        PROVE  toServer'[c][j].n # toServer'[c][i].n
    <3> DEFINE b == j + k
    <3>1. b \in 1..Len(toServer[c]) /\ toServer'[c][j] = toServer[c][b] /\ a # b
      BY <1>1, <2>2
    <3> HIDE DEF a, b
    <3> QED
      BY <1>2, <2>1, <2>2, <3>1 DEF Numbered
  <2> HIDE DEF a
  <2> QED
    BY <1>2, <2>1, <2>2 DEF Numbered
<1> QED
  BY <1>2 DEF Numbered

\* A message that is no query changes nothing in it either.
LEMMA NumberedSend ==
    ASSUME NEW c \in Client, Numbered(c), UNCHANGED <<sent, token>>,
           NEW m, m.k \notin Ask, Len(toServer[c]) \in Nat,
           Len(toServer'[c]) = Len(toServer[c]) + 1,
           \A i \in 1..Len(toServer[c]) : toServer'[c][i] = toServer[c][i],
           toServer'[c][Len(toServer[c]) + 1] = m
    PROVE  Numbered(c)'
<1>1. \A i \in 1..Len(toServer'[c]) :
        toServer'[c][i].k \in Ask => i \in 1..Len(toServer[c]) /\ toServer'[c][i] = toServer[c][i]
  OBVIOUS
<1> QED
  BY <1>1 DEF Numbered

\* The client dials: the version is on its way to the handler, or nothing is.
LEMMA ConnectKeeps ==
    ASSUME PortInv, NEW c \in Client, Connect(c), waits' = waits
    PROVE  PortInv'
<1> DEFINE m == [k |-> Version]
           silent == toServer' = toServer
<1>1. PortTypeOK /\ ConnInv(c)
  BY DEF PortInv
<1>2. m \in Message /\ m.k = Version /\ m.k \notin Ask
  BY ProtocolAssumption DEF Message, Ask
<1>3. Send(c, m) \/ (c \notin waits /\ silent)
  BY DEF Connect
<1> HIDE DEF m
<1>4. Send(c, m) =>
      /\ toServer' \in [Client -> Seq(Message)]
      /\ \A d \in Client \ {c} : toServer'[d] = toServer[d]
      /\ Len(toServer'[c]) = Len(toServer[c]) + 1
      /\ \A i \in 1..Len(toServer[c]) : toServer'[c][i] = toServer[c][i]
      /\ toServer'[c][Len(toServer[c]) + 1] = m
  BY <1>1, <1>2, SendEffect
<1>4a. /\ toServer' \in [Client -> Seq(Message)]
       /\ \A d \in Client \ {c} : toServer'[d] = toServer[d]
  BY <1>1, <1>3, <1>4, PortTypes
<1>5. PortTypeOK'
  <2>1. client' \in [Client -> ClientState]
    BY <1>1, PortTypes DEF Connect, ClientState
  <2>2. handler' \in [Client -> HandlerState]
    BY <1>1, PortTypes DEF Connect, HandlerState
  <2> QED
    BY <1>1, <1>4a, <2>1, <2>2, PortTypesNext, PortTypes, Zenon DEF Connect
<1>6. /\ client'[c] = (IF Version = "V1_0" THEN "hello" ELSE "final") /\ handler'[c] = "version"
      /\ \A d \in Client \ {c} : client'[d] = client[d] /\ handler'[d] = handler[d]
  BY <1>1, PortTypes DEF Connect
<1>7. Elsewhere(c)
  BY <1>4a, <1>6 DEF Elsewhere, Connect
<1>8. Numbered(c)' /\ Found(c)'
  <2>1. Found(c)'
    BY <1>1 DEF ConnInv, Found, Connect
  <2>2. CASE silent
    BY <1>1, <2>1, <2>2 DEF ConnInv, Numbered, Connect
  <2>3. CASE Send(c, m)
    BY <1>1, <1>2, <1>4, <2>1, <2>3, EmptyQueues, NumberedSend DEF ConnInv, Connect
  <2> QED
    BY <1>3, <2>2, <2>3
<1>9. c \in waits => OneAtATime(c)' /\ Shaking(c)'
  <2> HAVE c \in waits
  <2>1. OneAtATime(c) /\ Calm(c) /\ Len(toServer[c]) = 0 /\ Len(toClient[c]) = 0
    BY <1>1 DEF ConnInv, Away, Shaking, Asking, Connect, SentNothing, NothingToRead
  <2>1a. Len(toServer'[c]) = 1 /\ toServer'[c][1] = m /\ m.k \in {"V1_0", "V0_4"}
    BY <1>2, <1>3, <1>4, <2>1, ProtocolAssumption
  <2>1b. UNCHANGED <<job, sent, toClient>>
    BY DEF Connect
  <2>2. OneAtATime(c)'
    BY <1>6, <2>1, <2>1a, <2>1b DEF OneAtATime
  <2>3. Calm(c)' /\ ToServerIs(c, Version)' /\ NothingToRead(c)'
    BY <1>2, <1>3, <1>4, <2>1 DEF Calm, ToServerIs, NothingToRead, Connect
  <2> QED
    BY <1>6, <2>2, <2>3 DEF Shaking
<1> QED
  BY <1>5, <1>7, <1>8, <1>9, OneConnection DEF ConnInv
\* The client closes the connection, or finds it closed.
LEMMA ClientEndsKeep ==
    ASSUME PortInv, NEW c \in Client, Close(c) \/ ReadEnds(c), waits' = waits
    PROVE  PortInv'
<1>1. PortTypeOK /\ ConnInv(c)
  BY DEF PortInv
<1>2. PICK e \in {"done", "failed"} : client' = [client EXCEPT ![c] = e]
  BY DEF Close, ReadEnds
<1>3. UNCHANGED <<srv, accepting, handler, queries, token, job, sent, toServer, toClient>>
  BY DEF Close, ReadEnds
<1>4. /\ client' \in [Client -> ClientState] /\ client'[c] = e
      /\ \A d \in Client \ {c} : client'[d] = client[d]
  BY <1>1, <1>2, PortTypes DEF ClientState
<1>5. PortTypeOK'
  BY <1>1, <1>3, <1>4, PortTypes, PortTypesNext, Zenon
<1>6. Elsewhere(c)
  BY <1>3, <1>4 DEF Elsewhere
<1>7. ConnInv(c)'
  BY <1>1, <1>3, <1>4 DEF ConnInv, Numbered, Found, OneAtATime, Away
<1> QED
  BY <1>5, <1>6, <1>7, OneConnection

\* The handler looks at quit, or gives up reading.
LEMMA HandlerEndsKeep ==
    ASSUME PortInv, NEW c \in Client, LoopTop(c) \/ ReadFails(c) \/ HandshakeFails(c), waits' = waits
    PROVE  PortInv'
<1>1. PortTypeOK /\ ConnInv(c)
  BY DEF PortInv
<1>2. PICK h \in {"read", "closed"} :
        /\ handler' = [handler EXCEPT ![c] = h]
        /\ \/ handler[c] \in {"loop", "read"}
           \/ h = "closed" /\ client[c] \in {"done", "failed"}
  BY DEF LoopTop, ReadFails, HandshakeFails, Gone, Goto, Return
<1>3. UNCHANGED <<srv, accepting, client, queries, token, job, sent, toServer, toClient>>
  BY DEF LoopTop, ReadFails, HandshakeFails
<1>4. /\ handler' \in [Client -> HandlerState] /\ handler'[c] = h
      /\ \A d \in Client \ {c} : handler'[d] = handler[d]
  BY <1>1, <1>2, PortTypes DEF HandlerState
<1>5. PortTypeOK'
  BY <1>1, <1>3, <1>4, PortTypes, PortTypesNext, Zenon
<1>6. Elsewhere(c)
  BY <1>3, <1>4 DEF Elsewhere
<1>7. Numbered(c)' /\ Found(c)'
  BY <1>1, <1>3 DEF ConnInv, Numbered, Found
<1>8. c \in waits => OneAtATime(c)' /\ (Away(c) \/ Shaking(c) \/ Asking(c))'
  <2> HAVE c \in waits
  <2>1. OneAtATime(c) /\ (Away(c) \/ Shaking(c) \/ Asking(c))
    BY <1>1 DEF ConnInv
  <2>2. OneAtATime(c)'
    BY <1>2, <1>3, <1>4, <2>1 DEF OneAtATime, Away, Shaking, Asking
  <2>3. CASE Away(c)
    BY <1>2, <1>3, <2>2, <2>3 DEF Away
  <2>4. CASE Shaking(c)
    <3>1. Calm(c)' /\ client'[c] = "final" /\ SentNothing(c)' /\ ToClientIs(c, "success")'
      BY <1>2, <1>3, <2>4 DEF Shaking, Calm, SentNothing, ToClientIs
    <3> QED
      BY <1>4, <2>2, <3>1 DEF Shaking
  <2>5. CASE Asking(c)
    <3>1. handler[c] \in {"loop", "read"}
      BY <1>2, <2>5 DEF Asking
    <3> QED
      BY <1>3, <1>4, <2>2, <2>5, <3>1
      DEF Asking, Calm, LengthSent, LengthUnsent, SentNothing, NothingToRead, ToServerIs, ToClientIs
  <2> QED
    BY <2>1, <2>2, <2>3, <2>4, <2>5
<1> QED
  BY <1>3, <1>5, <1>6, <1>7, <1>8, OneConnection DEF ConnInv

\* What is sent is answered for the right query: a client that waits has
\* nothing else under way.
LEMMA QueryKeeps ==
    ASSUME PortInv, NEW c \in Client, Query(c), waits' = waits
    PROVE  PortInv'
<1>1. PortTypeOK /\ ConnInv(c)
  BY DEF PortInv
<1>3. sent[c] \in 0..MaxQueries /\ sent[c] < MaxQueries /\ sent[c] + 1 \in Token
  BY <1>1, PortTypes, ProtocolAssumption DEF Query, MaySend, Token
<1>2. PICK k \in Ask, t \in Token :
        /\ Send(c, [k |-> k, n |-> sent[c] + 1, token |-> t])
        /\ c \in waits => k = "start"
  <2>1. TokensFor(c) \subseteq Token
    BY <1>3, ProtocolAssumption DEF TokensFor, Token
  <2> QED
    BY <2>1 DEF Query, Ask
<1> DEFINE m == [k |-> k, n |-> sent[c] + 1, token |-> t]
           e == IF client[c] = "ready" THEN "head" ELSE client[c]
<1>4. m \in Message /\ m.k = k /\ m.n = sent[c] + 1
  BY <1>3 DEF Message, Ask
<1>5. Send(c, m)
  BY <1>2
<1> HIDE DEF m
<1>6. /\ toServer' \in [Client -> Seq(Message)]
      /\ \A d \in Client \ {c} : toServer'[d] = toServer[d]
      /\ Len(toServer'[c]) = Len(toServer[c]) + 1
      /\ \A i \in 1..Len(toServer[c]) : toServer'[c][i] = toServer[c][i]
      /\ toServer'[c][Len(toServer[c]) + 1] = m
  BY <1>1, <1>4, <1>5, SendEffect
<1>7. UNCHANGED <<srv, accepting, handler, queries, token, job, toClient>>
  BY DEF Query
<1>8. /\ sent' \in [Client -> 0..MaxQueries] /\ sent'[c] = sent[c] + 1
      /\ \A d \in Client \ {c} : sent'[d] = sent[d]
  BY <1>1, <1>3, PortTypes, ProtocolAssumption DEF Query
<1>9. /\ client' \in [Client -> ClientState] /\ client'[c] = e
      /\ \A d \in Client \ {c} : client'[d] = client[d]
  BY <1>1, PortTypes DEF Query, ClientState
<1>10. PortTypeOK'
  BY <1>1, <1>6, <1>7, <1>8, <1>9, PortTypes, PortTypesNext, Zenon
<1>11. Elsewhere(c)
  BY <1>6, <1>7, <1>8, <1>9 DEF Elsewhere
<1>12. Numbered(c)' /\ Found(c)'
  <2>1. Found(c)'
    BY <1>1, <1>7 DEF ConnInv, Found
  <2>2. Len(toServer[c]) \in Nat /\ Numbered(c)
    BY <1>1, EmptyQueues DEF ConnInv
  <2>3. \A i \in 1..Len(toServer[c]) : toServer[c][i].k \in Ask => toServer[c][i].n \in Nat
    <3>1. \A i \in 1..Len(toServer[c]) : toServer[c][i] \in Message
      BY <1>1, PortTypes, ElementOfSeq
    <3> QED
      BY <3>1 DEF Message, Ask, Token
  <2>4. \A n \in Token : n > sent'[c] => token'[c][n] = 0
    BY <1>3, <1>7, <1>8, <2>2 DEF Numbered, Token
  <2>5. token[c][sent[c] + 1] = 0
    BY <1>3, <2>2 DEF Numbered
  <2>6. \A i \in 1..Len(toServer[c]) :
          toServer[c][i].k \in Ask => toServer[c][i].n <= sent[c] + 1 /\ toServer[c][i].n # sent[c] + 1
    BY <1>3, <2>2, <2>3 DEF Numbered
  <2>7. ASSUME NEW i \in 1..Len(toServer'[c]), toServer'[c][i].k \in Ask
        PROVE  /\ toServer'[c][i].n <= sent'[c] /\ token'[c][toServer'[c][i].n] = 0
               /\ \A j \in 1..Len(toServer'[c]) :
                   j # i /\ toServer'[c][j].k \in Ask => toServer'[c][j].n # toServer'[c][i].n
    <3>1. \A j \in 1..Len(toServer'[c]) :
             \/ j \in 1..Len(toServer[c]) /\ toServer'[c][j] = toServer[c][j]
             \/ j = Len(toServer[c]) + 1 /\ toServer'[c][j] = m
      BY <1>6, <2>2
    <3>2. CASE i \in 1..Len(toServer[c]) /\ toServer'[c][i] = toServer[c][i]
      <4>1. /\ toServer[c][i].n <= sent[c] + 1 /\ token[c][toServer[c][i].n] = 0
            /\ toServer[c][i].n # sent[c] + 1
        BY <2>2, <2>6, <2>7, <3>2 DEF Numbered
      <4>2. \A j \in 1..Len(toServer[c]) :
              j # i /\ toServer[c][j].k \in Ask => toServer[c][j].n # toServer[c][i].n
        BY <2>2, <2>7, <3>2 DEF Numbered
      <4> QED
        BY <1>4, <1>7, <1>8, <3>1, <3>2, <4>1, <4>2
    <3>3. CASE i = Len(toServer[c]) + 1 /\ toServer'[c][i] = m
      BY <1>3, <1>4, <1>7, <1>8, <2>2, <2>5, <2>6, <3>1, <3>3
    <3> QED
      BY <3>1, <3>2, <3>3
  <2>8. Numbered(c)'
    BY <2>4, <2>7 DEF Numbered
  <2> QED
    BY <2>1, <2>8
<1>13. c \in waits => OneAtATime(c)' /\ Asking(c)'
  <2> HAVE c \in waits
  <2>1. client[c] = "ready" /\ k = "start"
    BY <1>2 DEF Query, MaySend
  <2>2. /\ OneAtATime(c) /\ handler[c] \in {"loop", "read", "closed"}
        /\ Calm(c) /\ SentNothing(c) /\ NothingToRead(c)
    BY <1>1, <2>1 DEF ConnInv, Away, Shaking, Asking
  <2>3. Len(toServer'[c]) = 1 /\ toServer'[c][1] = m /\ Len(toClient'[c]) = 0
    BY <1>6, <1>7, <2>2 DEF SentNothing, NothingToRead
  <2>4. OneAtATime(c)'
    BY <1>4, <1>7, <1>8, <2>1, <2>2, <2>3 DEF OneAtATime, Calm
  <2>5. Asking(c)'
    BY <1>4, <1>7, <1>9, <2>1, <2>2, <2>3 DEF Asking, Calm, ToServerIs, NothingToRead
  <2> QED
    BY <2>4, <2>5
<1> QED
  BY <1>10, <1>11, <1>12, <1>13, OneConnection DEF ConnInv
\* The client reads an answer of the handshake and sends what comes next in it.
LEMMA ShakeKeeps ==
    ASSUME PortInv, NEW c \in Client, Shake(c), waits' = waits
    PROVE  PortInv'
<1>1. PortTypeOK /\ ConnInv(c)
  BY DEF PortInv
<1> DEFINE m == toClient[c][1]
           e == CASE m.k = "error" -> "failed" [] m.k = "hello" -> "first" [] m.k = "first" -> "final"
                  [] m.k = "success" -> "ready" [] OTHER -> "garbled"
           Answers == m.k \in {"hello", "first"}
<1>2. /\ toClient' \in [Client -> Seq(Frame)]
      /\ \A d \in Client \ {c} : toClient'[d] = toClient[d]
      /\ Len(toClient[c]) \in Nat \ {0} /\ Len(toClient'[c]) = Len(toClient[c]) - 1
      /\ \A i \in 1..(Len(toClient[c]) - 1) : toClient'[c][i] = toClient[c][i + 1]
      /\ Head(toClient[c]) = m
  BY <1>1, ReadEffect DEF Shake
<1>3. client' = [client EXCEPT ![c] = e]
  BY <1>2 DEF Shake
<1>4. /\ client' \in [Client -> ClientState] /\ client'[c] = e
      /\ \A d \in Client \ {c} : client'[d] = client[d]
  <2>1. e \in ClientState
    BY DEF ClientState
  <2> HIDE DEF e
  <2> QED
    BY <1>1, <1>3, <2>1, PortTypes
<1>5. CASE Answers
  <2>1. PICK proof \in BOOLEAN : Send(c, [k |-> "auth", ok |-> proof])
    BY <1>2, <1>5 DEF Shake
  <2> DEFINE a == [k |-> "auth", ok |-> proof]
  <2>2. a \in Message /\ a.k = "auth"
    BY Zenon DEF Message
  <2>3. Send(c, a)
    BY <2>1
  <2> HIDE DEF a
  <2>4. /\ toServer' \in [Client -> Seq(Message)]
        /\ \A d \in Client \ {c} : toServer'[d] = toServer[d]
        /\ Len(toServer'[c]) = Len(toServer[c]) + 1
        /\ \A i \in 1..Len(toServer[c]) : toServer'[c][i] = toServer[c][i]
        /\ toServer'[c][Len(toServer[c]) + 1] = a
    BY <1>1, <2>2, <2>3, SendEffect
  <2>5. UNCHANGED <<srv, accepting, handler, queries, token, job, sent>>
    BY DEF Shake
  <2>6. PortTypeOK'
    BY <1>1, <1>2, <1>4, <2>4, <2>5, PortTypes, PortTypesNext, Zenon
  <2>7. Elsewhere(c)
    BY <1>2, <1>4, <2>4, <2>5 DEF Elsewhere
  <2>8. Numbered(c)' /\ Found(c)'
    <3>1. Found(c)'
      BY <1>1, <2>5 DEF ConnInv, Found
    <3>2. a.k \notin Ask /\ Len(toServer[c]) \in Nat
      BY <1>1, <2>2, EmptyQueues DEF Ask
    <3> QED
      BY <1>1, <2>4, <2>5, <3>1, <3>2, NumberedSend DEF ConnInv
  <2>9. c \in waits => OneAtATime(c)' /\ Shaking(c)'
    <3> HAVE c \in waits
    <3>1. /\ OneAtATime(c) /\ Calm(c) /\ Len(toServer[c]) = 0 /\ Len(toClient[c]) = 1
          /\ \/ client[c] = "hello" /\ handler[c] = "first" /\ m.k = "hello"
             \/ client[c] = "first" /\ handler[c] = "final" /\ m.k = "first"
      BY <1>1, <1>2, <1>5 DEF Shake, ConnInv, Away, Shaking, Asking, SentNothing, NothingToRead, ToClientIs
    <3>2. Len(toServer'[c]) = 1 /\ toServer'[c][1].k = "auth" /\ Len(toClient'[c]) = 0
      BY <1>2, <2>2, <2>4, <3>1
    <3>3. OneAtATime(c)'
      BY <2>5, <3>1, <3>2 DEF OneAtATime
    <3>4. Calm(c)' /\ ToServerIs(c, "auth")' /\ NothingToRead(c)'
      BY <2>5, <3>1, <3>2 DEF Calm, ToServerIs, NothingToRead
    <3> QED
      BY <1>4, <2>5, <3>1, <3>3, <3>4 DEF Shaking
  <2> QED
    BY <2>6, <2>7, <2>8, <2>9, OneConnection DEF ConnInv
<1>6. CASE ~Answers
  <2>1. UNCHANGED <<srv, accepting, handler, queries, token, job, sent, toServer>>
    BY <1>2, <1>6 DEF Shake
  <2>2. PortTypeOK'
    BY <1>1, <1>2, <1>4, <2>1, PortTypes, PortTypesNext, Zenon
  <2>3. Elsewhere(c)
    BY <1>2, <1>4, <2>1 DEF Elsewhere
  <2>4. Numbered(c)' /\ Found(c)'
    BY <1>1, <2>1 DEF ConnInv, Numbered, Found
  <2>5. c \in waits => OneAtATime(c)' /\ (Away(c)' \/ Asking(c)')
    <3> HAVE c \in waits
    <3>1. /\ OneAtATime(c) /\ Calm(c) /\ Len(toServer[c]) = 0 /\ Len(toClient[c]) = 1
          /\ \/ m.k = "error"
             \/ handler[c] \in {"loop", "read", "closed"} /\ m.k = "success"
      BY <1>1, <1>2, <1>6 DEF Shake, ConnInv, Away, Shaking, Asking, SentNothing, NothingToRead, ToClientIs
    <3>2. Len(toServer'[c]) = 0 /\ Len(toClient'[c]) = 0
      BY <1>2, <2>1, <3>1
    <3>3. OneAtATime(c)'
      BY <2>1, <3>1, <3>2 DEF OneAtATime
    <3>4. Calm(c)' /\ SentNothing(c)' /\ NothingToRead(c)'
      BY <2>1, <3>1, <3>2 DEF Calm, SentNothing, NothingToRead
    <3> QED
      BY <1>4, <2>1, <3>1, <3>3, <3>4 DEF Asking, Away
  <2> QED
    BY <2>2, <2>3, <2>4, <2>5, OneConnection DEF ConnInv
<1> QED
  BY <1>5, <1>6

\* The client reads a length or a body.
LEMMA ReadFullKeeps ==
    ASSUME PortInv, NEW c \in Client, ReadFull(c), waits' = waits
    PROVE  PortInv'
<1>1. PortTypeOK /\ ConnInv(c)
  BY DEF PortInv
<1> DEFINE m == toClient[c][1]
           e == CASE client[c] = "head" /\ m.k = "len" -> "body"
                  [] client[c] = "body" /\ m.k = "body" -> "ready"
                  [] OTHER -> "garbled"
<1>2. /\ toClient' \in [Client -> Seq(Frame)]
      /\ \A d \in Client \ {c} : toClient'[d] = toClient[d]
      /\ Len(toClient[c]) \in Nat \ {0} /\ Len(toClient'[c]) = Len(toClient[c]) - 1
      /\ \A i \in 1..(Len(toClient[c]) - 1) : toClient'[c][i] = toClient[c][i + 1]
      /\ Head(toClient[c]) = m
  BY <1>1, ReadEffect DEF ReadFull
<1>3. client' = [client EXCEPT ![c] = e]
  BY <1>2 DEF ReadFull
<1>4. /\ client' \in [Client -> ClientState] /\ client'[c] = e
      /\ \A d \in Client \ {c} : client'[d] = client[d]
  <2>1. e \in ClientState
    BY DEF ClientState
  <2> HIDE DEF e
  <2> QED
    BY <1>1, <1>3, <2>1, PortTypes
<1>5. UNCHANGED <<srv, accepting, handler, queries, token, job, sent, toServer>>
  BY DEF ReadFull
<1>6. PortTypeOK'
  BY <1>1, <1>2, <1>4, <1>5, PortTypes, PortTypesNext, Zenon
<1>7. Elsewhere(c)
  BY <1>2, <1>4, <1>5 DEF Elsewhere
<1>8. Numbered(c)' /\ Found(c)'
  BY <1>1, <1>5 DEF ConnInv, Numbered, Found
<1>9. c \in waits => OneAtATime(c)' /\ Asking(c)'
  <2> HAVE c \in waits
  <2>1. OneAtATime(c) /\ Asking(c)
    BY <1>1 DEF ReadFull, ConnInv, Away, Shaking
  <2>2. OneAtATime(c)'
    BY <1>2, <1>5, <2>1 DEF OneAtATime
  <2>3. Len(toServer'[c]) = 0 /\ handler'[c] \in {"loop", "read", "closed"}
    BY <1>2, <1>5, <2>1 DEF Asking, SentNothing, NothingToRead
  <2>4. Calm(c) => Calm(c)'
    BY <1>5 DEF Calm
  <2>5. LengthSent(c) => LengthSent(c)'
    BY <1>5 DEF LengthSent
  <2>7. \/ client[c] = "head" /\ LengthSent(c) /\ Len(toClient[c]) = 1 /\ m.k = "len"
        \/ client[c] = "head" /\ Calm(c) /\ Len(toClient[c]) = 2 /\ m.k = "len" /\ toClient[c][2].k = "body"
        \/ client[c] = "body" /\ Calm(c) /\ Len(toClient[c]) = 1 /\ m.k = "body"
    BY <1>2, <2>1 DEF ReadFull, Asking, NothingToRead, ToClientIs
  <2>8. \/ client'[c] = "body" /\ LengthSent(c)' /\ Len(toClient'[c]) = 0
        \/ client'[c] = "body" /\ Calm(c)' /\ Len(toClient'[c]) = 1 /\ toClient'[c][1].k = "body"
        \/ client'[c] = "ready" /\ Calm(c)' /\ Len(toClient'[c]) = 0
    <3>1. client'[c] = IF client[c] = "head" /\ m.k = "len" THEN "body"
                       ELSE IF client[c] = "body" /\ m.k = "body" THEN "ready" ELSE "garbled"
      BY <1>4
    <3>2. Len(toClient[c]) = 2 => toClient'[c][1] = toClient[c][2]
      BY <1>2
    <3> HIDE DEF e
    <3> QED
      BY <1>2, <2>4, <2>5, <2>7, <3>1, <3>2
  <2> QED
    BY <2>2, <2>3, <2>8 DEF Asking, SentNothing, NothingToRead, ToClientIs
<1> QED
  BY <1>6, <1>7, <1>8, <1>9, OneConnection DEF ConnInv
\* The handler reads the last message of the handshake and does not write for a
\* query: nothing is on its way to the server.
LEMMA ReadKeepsOne ==
    ASSUME NEW c \in Client, OneAtATime(c), Len(toServer'[c]) = 0, UNCHANGED <<job, sent>>,
           \A i \in 1..Len(toClient'[c]) :
              \/ i \in 1..Len(toClient[c]) /\ toClient'[c][i] = toClient[c][i]
              \/ toClient'[c][i].k \notin {"len", "body"}
    PROVE  OneAtATime(c)'
BY DEF OneAtATime

\* What the handler of a handshake does with a message: it reads it, and goes
\* on with an answer, gives up with an error or gives up.
LEMMA ShakenKeeps ==
    ASSUME PortInv, NEW c \in Client, waits' = waits,
           NEW h \in {"first", "final", "loop", "closed"}, handler' = [handler EXCEPT ![c] = h],
           UNCHANGED <<srv, accepting, queries, token, job, client, sent>>,
           toServer' \in [Client -> Seq(Message)],
           \A d \in Client \ {c} : toServer'[d] = toServer[d],
           NEW j \in Nat, Len(toServer'[c]) + j = Len(toServer[c]),
           \A i \in 1..Len(toServer'[c]) : toServer'[c][i] = toServer[c][i + j],
           handler[c] \in {"version", "first", "final"},
           c \in waits => /\ Len(toServer[c]) = 1 /\ Len(toServer'[c]) = 0
                          /\ handler[c] = "version" =>
                                h = IF toServer[c][1].k = "V1_0" THEN "first" ELSE "closed",
           \/ UNCHANGED toClient /\ h = "closed"
           \/ Write(c, "error", 0) /\ h = "closed"
           \/ Write(c, "hello", 0) /\ h = "first" /\ handler[c] = "version"
           \/ Write(c, "first", 0) /\ h = "final" /\ handler[c] = "first"
           \/ Write(c, "success", 0) /\ h = "loop" /\ handler[c] = "final"
    PROVE  PortInv'
<1>1. PortTypeOK /\ ConnInv(c)
  BY DEF PortInv
<1>2. /\ handler' \in [Client -> HandlerState] /\ handler'[c] = h
      /\ \A d \in Client \ {c} : handler'[d] = handler[d]
  BY <1>1, PortTypes DEF HandlerState
<1>3. PICK k \in {"none", "error", "hello", "first", "success"} :
        /\ IF k = "none" THEN UNCHANGED toClient ELSE Write(c, k, 0)
        /\ k \in {"none", "error"} => h = "closed"
        /\ k = "hello" => h = "first" /\ handler[c] = "version"
        /\ k = "first" => h = "final" /\ handler[c] = "first"
        /\ k = "success" => h = "loop" /\ handler[c] = "final"
  BY Zenon
<1>4. /\ toClient' \in [Client -> Seq(Frame)]
      /\ \A d \in Client \ {c} : toClient'[d] = toClient[d]
      /\ k = "none" => Len(toClient'[c]) = Len(toClient[c])
      /\ k # "none" => /\ Len(toClient'[c]) = Len(toClient[c]) + 1
                       /\ toClient'[c][Len(toClient[c]) + 1].k = k
      /\ \A i \in 1..Len(toClient[c]) : toClient'[c][i] = toClient[c][i]
  <2>1. CASE k = "none"
    BY <1>1, <1>3, <2>1, PortTypes
  <2>2. CASE k # "none"
    <3>1. k \in {"hello", "first", "success", "error", "len", "body"} /\ Write(c, k, 0)
      BY <1>3, <2>2
    <3>2. 0 \in 0..MaxQueries
      BY ProtocolAssumption
    <3> QED
      BY <1>1, <2>2, <3>1, <3>2, WriteEffect
  <2> QED
    BY <2>1, <2>2
<1>5. PortTypeOK'
  BY <1>1, <1>2, <1>4, PortTypes, PortTypesNext, Zenon
<1>6. Elsewhere(c)
  BY <1>2, <1>4 DEF Elsewhere
<1>7. Numbered(c)' /\ Found(c)'
  <2>1. Found(c)'
    BY <1>1 DEF ConnInv, Found
  <2>2. Len(toServer[c]) \in Nat /\ Len(toServer'[c]) \in Nat
    BY <1>1, PortTypes, LenProperties
  <2>3. Len(toServer'[c]) + j <= Len(toServer[c])
    BY <2>2
  <2> QED
    BY <1>1, <2>1, <2>2, <2>3, NumberedKeeps DEF ConnInv
<1>8. c \in waits => OneAtATime(c)' /\ (Away(c)' \/ Shaking(c)')
  <2> HAVE c \in waits
  <2>1. OneAtATime(c) /\ (Away(c) \/ Shaking(c))
    BY <1>1 DEF ConnInv, Asking
  <2>2. Len(toClient[c]) \in Nat
    BY <1>1, EmptyQueues
  <2>3. OneAtATime(c)'
    <3>1. \A i \in 1..Len(toClient'[c]) :
             \/ i \in 1..Len(toClient[c]) /\ toClient'[c][i] = toClient[c][i]
             \/ toClient'[c][i].k \notin {"len", "body"}
      BY <1>4, <2>2
    <3> QED
      BY <2>1, <3>1, ReadKeepsOne
  <2>4. CASE Away(c)
    BY <2>3, <2>4 DEF Away
  <2>5. CASE Shaking(c)
    <3>1. /\ Calm(c) /\ Len(toClient[c]) = 0
          /\ handler[c] = "version" =>
                /\ client[c] = (IF Version = "V1_0" THEN "hello" ELSE "final")
                /\ toServer[c][1].k = Version
          /\ handler[c] \in {"first", "final"} => client[c] = handler[c]
      BY <2>5 DEF Shaking, SentNothing, NothingToRead, ToServerIs, ToClientIs
    <3>2. Calm(c)'
      BY <3>1 DEF Calm
    <3>3. IF k = "none" THEN Len(toClient'[c]) = 0 ELSE Len(toClient'[c]) = 1 /\ toClient'[c][1].k = k
      BY <1>4, <3>1
    <3>4. h = "first" => k = "hello" /\ client[c] = "hello"
      BY <1>3, <3>1
    <3>5. h = "final" => k = "first" /\ client[c] = "first"
      BY <1>3, <3>1
    <3>6. h = "loop" => k = "success" /\ client[c] = "final"
      BY <1>3, <3>1
    <3>7. h = "closed" => k \in {"none", "error"} /\ client[c] \in {"hello", "first", "final"}
      BY <1>3, <3>1
    <3>8. Shaking(c)'
      BY <1>2, <3>2, <3>3, <3>4, <3>5, <3>6, <3>7
      DEF Shaking, SentNothing, NothingToRead, ToServerIs, ToClientIs
    <3> QED
      BY <2>3, <3>8
  <2> QED
    BY <2>1, <2>4, <2>5
<1> QED
  BY <1>5, <1>6, <1>7, <1>8, OneConnection DEF ConnInv
\* The handler's part of the handshake.
LEMMA HandshakeKeeps ==
    ASSUME PortInv, NEW c \in Client, handshake(c) \/ ClientFirst(c) \/ ClientFinal(c), waits' = waits
    PROVE  PortInv'
<1>1. PortTypeOK /\ ConnInv(c) /\ toServer[c] # <<>>
  BY DEF PortInv, handshake, ClientFirst, ClientFinal, Reads
<1>2. toServer \in [Client -> Seq(Message)] /\ toServer[c] \in Seq(Message)
  BY <1>1, PortTypes
<1>3. Len(toServer[c]) \in Nat \ {0} /\ Head(toServer[c]) = toServer[c][1]
  BY <1>1, <1>2, TailEffect
<1>4. handler[c] \in {"version", "first", "final"} /\ (c \in waits => Len(toServer[c]) = 1)
  <2>1. handler[c] \in {"version", "first", "final"}
    BY DEF handshake, ClientFirst, ClientFinal, Reads
  <2>2. c \in waits => Len(toServer[c]) <= 1
    BY <1>1, <2>1, Zenon DEF ConnInv, OneAtATime
  <2>3. \A n \in Nat \ {0} : n <= 1 => n = 1
    OBVIOUS
  <2> QED
    BY <1>3, <2>1, <2>2, <2>3, Zenon
<1>5. UNCHANGED <<srv, accepting, queries, token, job, client, sent>>
  BY DEF handshake, ClientFirst, ClientFinal
<1>6. CASE handshake(c)
  <2>1. /\ toServer' \in [Client -> Seq(Message)]
        /\ \A d \in Client \ {c} : toServer'[d] = toServer[d]
        /\ Len(toServer'[c]) = Len(toServer[c]) - 1
        /\ 1 \in Nat /\ Len(toServer'[c]) + 1 = Len(toServer[c])
        /\ \A i \in 1..Len(toServer'[c]) : toServer'[c][i] = toServer[c][i + 1]
    BY <1>1, <1>6, ConsumeEffect DEF handshake
  <2>2. handler[c] = "version" /\ (c \in waits => Len(toServer[c]) = 1 /\ Len(toServer'[c]) = 0)
    BY <1>3, <1>4, <1>6, <2>1 DEF handshake, Reads
  <2>3. CASE toServer[c][1].k = "V1_0"
    <3>1. handler' = [handler EXCEPT ![c] = "first"] /\ Write(c, "hello", 0)
      BY <1>3, <1>6, <2>3 DEF handshake, Goto
    <3> QED
      BY <1>4, <1>5, <2>1, <2>2, <2>3, <3>1, ShakenKeeps
  <2>4. CASE toServer[c][1].k # "V1_0"
    <3>1. handler' = [handler EXCEPT ![c] = "closed"] /\ UNCHANGED toClient
      BY <1>3, <1>6, <2>4 DEF handshake, Return
    <3> QED
      BY <1>4, <1>5, <2>1, <2>2, <2>4, <3>1, ShakenKeeps
  <2> QED
    BY <2>3, <2>4
<1>7. CASE ClientFirst(c)
  <2>1. /\ toServer' \in [Client -> Seq(Message)]
        /\ \A d \in Client \ {c} : toServer'[d] = toServer[d]
        /\ Len(toServer'[c]) = Len(toServer[c]) - 1
        /\ 1 \in Nat /\ Len(toServer'[c]) + 1 = Len(toServer[c])
        /\ \A i \in 1..Len(toServer'[c]) : toServer'[c][i] = toServer[c][i + 1]
    BY <1>1, <1>7, ConsumeEffect DEF ClientFirst
  <2>2. handler[c] = "first" /\ (c \in waits => Len(toServer[c]) = 1 /\ Len(toServer'[c]) = 0)
    BY <1>3, <1>4, <1>7, <2>1 DEF ClientFirst, Reads
  <2>3. CASE handler' = [handler EXCEPT ![c] = "final"] /\ Write(c, "first", 0)
    BY <1>4, <1>5, <2>1, <2>2, <2>3, ShakenKeeps
  <2>4. CASE handler' = [handler EXCEPT ![c] = "closed"] /\ (Write(c, "error", 0) \/ UNCHANGED toClient)
    BY <1>4, <1>5, <2>1, <2>2, <2>4, ShakenKeeps
  <2> QED
    BY <1>7, <2>3, <2>4 DEF ClientFirst, Goto, authError, Return
<1>8. CASE ClientFinal(c)
  <2>1. PICK n \in 1..Len(toServer[c]) :
          toServer' = [toServer EXCEPT ![c] = SubSeq(toServer[c], n + 1, Len(toServer[c]))]
    BY <1>8 DEF ClientFinal
  <2> DEFINE s == SubSeq(toServer[c], n + 1, Len(toServer[c]))
  <2>2. /\ s \in Seq(Message) /\ Len(s) = Len(toServer[c]) - n
        /\ \A i \in 1..Len(s) : s[i] = toServer[c][i + n]
    <3>1. \A i \in (n + 1)..Len(toServer[c]) : toServer[c][i] \in Message
      BY <1>2, <1>3, ElementOfSeq
    <3> QED
      BY <1>2, <1>3, <3>1, SubSeqProperties
  <2>3. toServer' = [toServer EXCEPT ![c] = s]
    BY <2>1
  <2> HIDE DEF s
  <2>4. /\ toServer' \in [Client -> Seq(Message)] /\ toServer'[c] = s
        /\ \A d \in Client \ {c} : toServer'[d] = toServer[d]
        /\ n \in Nat /\ Len(toServer'[c]) + n = Len(toServer[c])
        /\ \A i \in 1..Len(toServer'[c]) : toServer'[c][i] = toServer[c][i + n]
    <3>1. /\ toServer' \in [Client -> Seq(Message)] /\ toServer'[c] = s
          /\ \A d \in Client \ {c} : toServer'[d] = toServer[d]
      BY <1>2, <2>2, <2>3
    <3>2. n \in Nat /\ Len(s) + n = Len(toServer[c])
      BY <1>3, <2>2
    <3> QED
      BY <2>2, <3>1, <3>2
  <2>5. c \in waits => Len(toServer[c]) = 1 /\ Len(toServer'[c]) = 0
    <3>1. Len(toServer[c]) = 1 => Len(toServer'[c]) = 0
      BY <1>3, <2>2, <2>4
    <3> QED
      BY <1>4, <3>1, Zenon
  <2>6. handler[c] = "final"
    BY <1>8 DEF ClientFinal, Reads
  <2>7. CASE handler' = [handler EXCEPT ![c] = "loop"] /\ Write(c, "success", 0)
    BY <1>5, <2>4, <2>5, <2>6, <2>7, ShakenKeeps
  <2>8. CASE handler' = [handler EXCEPT ![c] = "closed"] /\ Write(c, "error", 0)
    BY <1>5, <2>4, <2>5, <2>6, <2>8, ShakenKeeps
  <2> QED
    BY <1>8, <2>7, <2>8 DEF ClientFinal, Goto, authError, Return
<1> QED
  BY <1>6, <1>7, <1>8
\* The handler reads something that is no query; a client that waits sends none.
LEMMA OddMessageKeeps ==
    ASSUME PortInv, NEW c \in Client, queryLoop(c), toServer[c][1].k \notin Ask, waits' = waits
    PROVE  PortInv'
<1> DEFINE q == toServer[c][1]
<1>1. PortTypeOK /\ ConnInv(c) /\ toServer[c] # <<>> /\ handler[c] = "read"
  BY DEF PortInv, queryLoop, Reads
<1>2. /\ toServer' \in [Client -> Seq(Message)]
      /\ \A d \in Client \ {c} : toServer'[d] = toServer[d]
      /\ Len(toServer[c]) \in Nat \ {0} /\ Len(toServer'[c]) = Len(toServer[c]) - 1
      /\ \A i \in 1..(Len(toServer[c]) - 1) : toServer'[c][i] = toServer[c][i + 1]
      /\ Head(toServer[c]) = q
  BY <1>1, ConsumeEffect DEF queryLoop
<1>3. /\ handler' \in [Client -> HandlerState] /\ handler'[c] = "loop"
      /\ \A d \in Client \ {c} : handler'[d] = handler[d]
  BY <1>1, PortTypes DEF queryLoop, Goto, HandlerState
<1>4. UNCHANGED <<srv, accepting, client, sent, toClient, queries, token>>
      /\ job' = [job EXCEPT ![c][0] = "len"]
  BY <1>2 DEF queryLoop, Ask
<1>5. c \notin waits
  <2>1. 1 \in 1..Len(toServer[c])
    BY <1>2
  <2> QED
    BY <1>1, <2>1 DEF ConnInv, OneAtATime, Ask
<1>6. 0 \in 0..MaxQueries /\ \A t \in Token : t \in (0..MaxQueries) \ {0}
  BY ProtocolAssumption DEF Token
<1>7. /\ job' \in [Client -> [0..MaxQueries -> JobState]]
      /\ \A d \in Client \ {c} : job'[d] = job[d]
      /\ job'[c][0] = "len"
      /\ \A u \in (0..MaxQueries) \ {0} : job'[c][u] = job[c][u]
  BY <1>1, <1>4, <1>6, JobEffect DEF JobState
<1>8. PortTypeOK'
  BY <1>1, <1>2, <1>3, <1>4, <1>7, PortTypes, PortTypesNext, Zenon
<1>9. Elsewhere(c)
  BY <1>2, <1>3, <1>4, <1>7 DEF Elsewhere
<1>10. Found(c)'
  <2>1. \A t \in Token : job'[c][t] = job[c][t]
    BY <1>6, <1>7
  <2>2. \A t \in Token : queries[c][t] # 0 => queries[c][t] \in Token
    <3>1. \A n \in 0..MaxQueries : n # 0 => n \in Token
      BY ProtocolAssumption DEF Token
    <3> QED
      BY <1>1, <3>1, PortTypes
  <2> QED
    BY <1>1, <1>4, <1>7, <2>1, <2>2 DEF ConnInv, Found
<1>11. Numbered(c)'
  <2>1. 1 \in Nat /\ Len(toServer[c]) \in Nat /\ Len(toServer'[c]) \in Nat
        /\ Len(toServer'[c]) + 1 <= Len(toServer[c])
        /\ \A i \in 1..Len(toServer'[c]) : toServer'[c][i] = toServer[c][i + 1]
    BY <1>2
  <2> QED
    BY <1>1, <1>4, <2>1, NumberedKeeps DEF ConnInv
<1> QED
  BY <1>5, <1>8, <1>9, <1>10, <1>11, OneConnection DEF ConnInv

\* The handler reads a query: it can be cancelled before its goroutine works.
LEMMA QueryLoopKeeps ==
    ASSUME PortInv, NEW c \in Client, queryLoop(c), toServer[c][1].k \in Ask, waits' = waits
    PROVE  PortInv'
<1> DEFINE q == toServer[c][1]
<1>1. PortTypeOK /\ ConnInv(c) /\ toServer[c] # <<>> /\ handler[c] = "read"
  BY DEF PortInv, queryLoop, Reads
<1>2. /\ toServer' \in [Client -> Seq(Message)]
      /\ \A d \in Client \ {c} : toServer'[d] = toServer[d]
      /\ Len(toServer[c]) \in Nat \ {0} /\ Len(toServer'[c]) = Len(toServer[c]) - 1
      /\ \A i \in 1..(Len(toServer[c]) - 1) : toServer'[c][i] = toServer[c][i + 1]
      /\ Head(toServer[c]) = q /\ q \in Message
  BY <1>1, ConsumeEffect DEF queryLoop
<1>3. /\ handler' \in [Client -> HandlerState] /\ handler'[c] = "loop"
      /\ \A d \in Client \ {c} : handler'[d] = handler[d]
  BY <1>1, PortTypes DEF queryLoop, Goto, HandlerState
<1>4. UNCHANGED <<srv, accepting, client, sent, toClient>>
  BY DEF queryLoop
<1>5. c \in waits => q.k = "start" /\ q.n = sent[c]
  <2>1. 1 \in 1..Len(toServer[c])
    BY <1>2
  <2> QED
    BY <1>1, <2>1 DEF ConnInv, OneAtATime
<1>6a. /\ q.n \in Token /\ q.token \in Token /\ q.n \in 0..MaxQueries /\ q.token \in 0..MaxQueries
       /\ q.n # 0 /\ q.token # 0
  BY <1>2 DEF Message, Token, Ask
<1>6b. /\ Numbered(c) /\ token[c][q.n] = 0 /\ q.n <= sent[c]
       /\ \A i \in 2..Len(toServer[c]) : toServer[c][i].k \in Ask => toServer[c][i].n # q.n
  <2>1. 1 \in 1..Len(toServer[c]) /\ \A i \in 2..Len(toServer[c]) : i \in 1..Len(toServer[c]) /\ i # 1
    BY <1>2
  <2> QED
    BY <1>1, <2>1 DEF ConnInv, Numbered
<1>6c. ASSUME token' = [token EXCEPT ![c][q.n] = q.token] \/ token' = token
       PROVE  /\ token' \in [Client -> [Token -> 0..MaxQueries]]
              /\ \A d \in Client \ {c} : token'[d] = token[d]
              /\ \A u \in Token \ {q.n} : token'[c][u] = token[c][u]
              /\ Numbered(c)'
  <2>1. /\ token' \in [Client -> [Token -> 0..MaxQueries]]
        /\ \A d \in Client \ {c} : token'[d] = token[d]
        /\ \A u \in Token \ {q.n} : token'[c][u] = token[c][u]
    <3>1. token \in [Client -> [Token -> 0..MaxQueries]]
      BY <1>1, PortTypes
    <3>2. CASE token' = token
      BY <3>1, <3>2
    <3>3. CASE token' = [token EXCEPT ![c][q.n] = q.token]
      BY <1>6a, <3>1, <3>3, TokenEffect
    <3> QED
      BY <1>6c, <3>2, <3>3
  <2>2. \A n \in Token : n > sent[c] => n # q.n
    <3>1. sent[c] \in 0..MaxQueries
      BY <1>1, PortTypes
    <3> QED
      BY <1>6b, <3>1 DEF Token
  <2>3. \A i \in 1..Len(toServer'[c]) :
          i + 1 \in 2..Len(toServer[c]) /\ i + 1 \in 1..Len(toServer[c]) /\ toServer'[c][i] = toServer[c][i + 1]
    BY <1>2
  <2>4. \A i, j \in 1..Len(toServer'[c]) : i # j => i + 1 # j + 1
    BY <1>2
  <2>5. \A i \in 1..Len(toServer'[c]) : toServer'[c][i].k \in Ask => toServer'[c][i].n \in Token
    <3>1. \A i \in 1..Len(toServer[c]) : toServer[c][i] \in Message
      BY <1>1, PortTypes, ElementOfSeq
    <3> QED
      BY <2>3, <3>1 DEF Message, Ask
  <2>6. \A i \in 1..Len(toServer'[c]) :
          toServer'[c][i].k \in Ask =>
            toServer'[c][i].n # q.n /\ toServer'[c][i].n <= sent[c] /\ token[c][toServer'[c][i].n] = 0
    <3> SUFFICES ASSUME NEW i \in 1..Len(toServer'[c]), toServer'[c][i].k \in Ask
                 PROVE  /\ toServer'[c][i].n # q.n /\ toServer'[c][i].n <= sent[c]
                        /\ token[c][toServer'[c][i].n] = 0
      OBVIOUS
    <3> DEFINE a == i + 1
    <3>1. a \in 2..Len(toServer[c]) /\ a \in 1..Len(toServer[c]) /\ toServer'[c][i] = toServer[c][a]
      BY <2>3
    <3> HIDE DEF a
    <3> QED
      BY <1>6b, <3>1 DEF Numbered
  <2>7. \A i, j \in 1..Len(toServer'[c]) :
          i # j /\ toServer'[c][i].k \in Ask /\ toServer'[c][j].k \in Ask => toServer'[c][j].n # toServer'[c][i].n
    BY <1>6b, <2>3, <2>4 DEF Numbered
  <2>8. Numbered(c)'
    BY <1>4, <1>6b, <2>1, <2>2, <2>5, <2>6, <2>7 DEF Numbered
  <2> QED
    BY <2>1, <2>8
<1>6d. /\ \A n \in Token : queries[c][n] \in 0..MaxQueries /\ (queries[c][n] # 0 => queries[c][n] \in Token)
       /\ \A n \in Token : token[c][n] \in 0..MaxQueries /\ (token[c][n] # 0 => token[c][n] \in Token)
  <2>1. \A n \in 0..MaxQueries : n # 0 => n \in Token
    BY ProtocolAssumption DEF Token
  <2> QED
    BY <1>1, <2>1, PortTypes
<1>6e. Found(c) /\ job[c][q.n] = "none"
  BY <1>1, <1>6a, <1>6b DEF ConnInv, Found
<1>6f. \A t \in Token : t \in 0..MaxQueries /\ t # 0
  BY DEF Token
<1>7. CASE q.k = "start"
  <2>2. Start(c, q)
    BY <1>2, <1>7 DEF queryLoop
  <2>3. /\ job' \in [Client -> [0..MaxQueries -> JobState]]
        /\ \A d \in Client \ {c} : job'[d] = job[d]
        /\ job'[c][q.n] = "run"
        /\ \A u \in (0..MaxQueries) \ {q.n} : job'[c][u] = job[c][u]
    BY <1>1, <1>6a, <2>2, JobEffect DEF Start, JobState
  <2>4. /\ queries' \in [Client -> [Token -> 0..MaxQueries]]
        /\ \A d \in Client \ {c} : queries'[d] = queries[d]
        /\ queries'[c][q.token] = q.n
        /\ \A u \in Token \ {q.token} : queries'[c][u] = queries[c][u]
    BY <1>1, <1>6a, <2>2, PortTypes, TokenEffect DEF Start
  <2>4a. /\ token' \in [Client -> [Token -> 0..MaxQueries]]
         /\ \A d \in Client \ {c} : token'[d] = token[d]
         /\ token'[c][q.n] = q.token
         /\ \A u \in Token \ {q.n} : token'[c][u] = token[c][u]
         /\ Numbered(c)'
    <3>1. token' = [token EXCEPT ![c][q.n] = q.token]
      BY <2>2 DEF Start
    <3> QED
      BY <1>1, <1>6a, <1>6c, <3>1, PortTypes, TokenEffect
  <2>5. PortTypeOK'
    BY <1>1, <1>2, <1>3, <1>4, <2>3, <2>4, <2>4a, PortTypes, PortTypesNext, Zenon
  <2>6. Elsewhere(c)
    BY <1>2, <1>3, <1>4, <2>3, <2>4, <2>4a DEF Elsewhere
  <2>9. Found(c)'
    <3>1. \A u \in Token \ {q.n} : job'[c][u] = job[c][u] /\ token'[c][u] = token[c][u]
      BY <1>6f, <2>3, <2>4a
    <3>2. \A n \in Token : job'[c][n] # "none" => token'[c][n] # 0
      BY <1>6a, <1>6e, <2>4a, <3>1 DEF Found
    <3>3. ASSUME NEW t \in Token, queries'[c][t] # 0
          PROVE  token'[c][queries'[c][t]] = t /\ job'[c][queries'[c][t]] # "none"
      <4>1. CASE t = q.token
        BY <2>3, <2>4, <2>4a, <4>1
      <4>2. CASE t # q.token
        <5>1. queries'[c][t] = queries[c][t] /\ queries[c][t] \in Token
          BY <1>6d, <2>4, <3>3, <4>2
        <5>2. queries[c][t] # q.n
          BY <1>6e, <3>3, <5>1 DEF Found
        <5> QED
          BY <1>6e, <3>1, <3>3, <5>1, <5>2 DEF Found
      <4> QED
        BY <4>1, <4>2
    <3>4. ASSUME NEW n \in Token, job'[c][n] \in Active
          PROVE  queries'[c][token'[c][n]] = n \/ \E m \in Token \ {n} : token'[c][m] = token'[c][n]
      <4>1. CASE n = q.n
        BY <2>4, <2>4a, <4>1
      <4>2. CASE n # q.n /\ token[c][n] = q.token
        BY <1>6a, <2>4a, <4>2
      <4>3. CASE n # q.n /\ token[c][n] # q.token
        <5>1. job[c][n] \in Active /\ token'[c][n] = token[c][n]
          BY <3>1, <3>4, <4>3
        <5>2. token[c][n] # 0 /\ token[c][n] \in Token
          BY <1>6d, <1>6e, <5>1 DEF Found, Active
        <5>3. CASE queries[c][token[c][n]] = n
          BY <2>4, <4>3, <5>1, <5>2, <5>3
        <5>4. CASE \E m \in Token \ {n} : token[c][m] = token[c][n]
          BY <1>6b, <3>1, <5>1, <5>2, <5>4
        <5> QED
          BY <1>6e, <5>1, <5>3, <5>4 DEF Found
      <4> QED
        BY <4>1, <4>2, <4>3
    <3>5. job'[c][0] \in {"none", "len", "body"}
      BY <1>6a, <1>6e, <2>3, ProtocolAssumption DEF Found
    <3> QED
      BY <3>2, <3>3, <3>4, <3>5 DEF Found
  <2>10. c \in waits => OneAtATime(c)' /\ (Away(c)' \/ Asking(c)')
    <3> HAVE c \in waits
    <3>1. OneAtATime(c) /\ q.n = sent[c]
      BY <1>1, <1>5 DEF ConnInv
    <3>2. \A i \in 1..Len(toServer'[c]) :
             i + 1 \in 1..Len(toServer[c]) /\ toServer'[c][i] = toServer[c][i + 1]
      BY <1>2
    <3>3. \A i \in 1..Len(toServer'[c]) :
            /\ toServer'[c][i].k \notin {"stop", "other"}
            /\ toServer'[c][i].k = "start" => toServer'[c][i].n = sent'[c]
            /\ toServer'[c][i].k = "start"
      BY <1>1, <1>4, <3>1, <3>2 DEF OneAtATime
    <3>4. job'[c][0] = "none" /\ \A t \in Token : job'[c][t] \in Active => t = sent'[c]
      BY <1>4, <1>6a, <1>6f, <2>3, <3>1, ProtocolAssumption DEF OneAtATime
    <3>5. OneAtATime(c)'
      BY <1>3, <1>4, <3>1, <3>3, <3>4 DEF OneAtATime
    <3>6. CASE Away(c)
      BY <1>1, <1>4, <3>5, <3>6 DEF Away
    <3>7. CASE Shaking(c)
      BY <1>1, <1>2, <3>7 DEF Shaking, SentNothing
    <3>8. CASE Asking(c)
      <4>1. client[c] = "head" /\ Len(toServer[c]) = 1 /\ Len(toClient[c]) = 0
        BY <1>2, <3>8 DEF Asking, SentNothing, ToServerIs, NothingToRead
      <4>2. Len(toServer'[c]) = 0
        BY <1>2, <4>1
      <4>3. LengthUnsent(c)'
        BY <1>4, <1>6a, <2>3, <3>1, <3>5 DEF LengthUnsent, OneAtATime, Active
      <4> QED
        BY <1>3, <1>4, <3>5, <4>1, <4>2, <4>3 DEF Asking, SentNothing, NothingToRead
    <3> QED
      BY <1>1, <3>6, <3>7, <3>8 DEF ConnInv
  <2> QED
    BY <2>4a, <2>5, <2>6, <2>9, <2>10, OneConnection DEF ConnInv
<1>8. CASE q.k # "start"
  <2>1. c \notin waits
    BY <1>5, <1>8
  <2>2. job' = [job EXCEPT ![c][0] = "len"]
    BY <1>2, <1>8 DEF queryLoop, StopQuery
  <2>3. 0 \in 0..MaxQueries
    BY ProtocolAssumption
  <2>4. /\ job' \in [Client -> [0..MaxQueries -> JobState]]
        /\ \A d \in Client \ {c} : job'[d] = job[d]
        /\ job'[c][0] = "len"
        /\ \A u \in (0..MaxQueries) \ {0} : job'[c][u] = job[c][u]
    BY <1>1, <2>2, <2>3, JobEffect DEF JobState
  <2>5. \A u \in Token : job'[c][u] = job[c][u]
    BY <1>6f, <2>4
  <2>6. \/ UNCHANGED <<queries, token>>
        \/ /\ queries' = [queries EXCEPT ![c][q.token] = 0]
           /\ token' = [token EXCEPT ![c][q.n] = q.token]
    BY <1>2, <1>8 DEF queryLoop, StopQuery
  <2>7. /\ token' \in [Client -> [Token -> 0..MaxQueries]]
        /\ \A d \in Client \ {c} : token'[d] = token[d]
        /\ \A u \in Token \ {q.n} : token'[c][u] = token[c][u]
        /\ Numbered(c)'
    BY <1>6c, <2>6
  <2>8. /\ queries' \in [Client -> [Token -> 0..MaxQueries]]
        /\ \A d \in Client \ {c} : queries'[d] = queries[d]
        /\ \A u \in Token : queries'[c][u] = queries[c][u] \/ queries'[c][u] = 0
    <3>1. CASE UNCHANGED <<queries, token>>
      BY <1>1, <3>1, PortTypes
    <3>2. CASE queries' = [queries EXCEPT ![c][q.token] = 0]
      BY <1>1, <1>6a, <2>3, <3>2, PortTypes, TokenEffect
    <3> QED
      BY <2>6, <3>1, <3>2
  <2>9. PortTypeOK'
    BY <1>1, <1>2, <1>3, <1>4, <2>4, <2>7, <2>8, PortTypes, PortTypesNext, Zenon
  <2>10. Elsewhere(c)
    BY <1>2, <1>3, <1>4, <2>4, <2>7, <2>8 DEF Elsewhere
  <2>11. Found(c)'
    <3>1. CASE UNCHANGED <<queries, token>>
      <4>1. \A t \in Token : queries[c][t] # 0 => queries[c][t] \in Token
        BY <1>6d
      <4> QED
        BY <1>6e, <2>4, <2>5, <3>1, <4>1 DEF Found
    <3>2. CASE /\ queries' = [queries EXCEPT ![c][q.token] = 0]
               /\ token' = [token EXCEPT ![c][q.n] = q.token]
      <4>1. /\ queries'[c][q.token] = 0
            /\ \A u \in Token \ {q.token} : queries'[c][u] = queries[c][u]
        BY <1>1, <1>6a, <2>3, <3>2, PortTypes, TokenEffect
      <4>2. token'[c][q.n] = q.token
        BY <1>1, <1>6a, <3>2, PortTypes, TokenEffect
      <4>3. \A n \in Token : job'[c][n] # "none" => n # q.n /\ token'[c][n] = token[c][n] /\ token'[c][n] # 0
        BY <1>6e, <2>5, <2>7 DEF Found
      <4>4. ASSUME NEW t \in Token, queries'[c][t] # 0
            PROVE  token'[c][queries'[c][t]] = t /\ job'[c][queries'[c][t]] # "none"
        <5>1. queries'[c][t] = queries[c][t] /\ queries[c][t] \in Token
          BY <1>6d, <2>8, <4>4
        <5>2. token[c][queries[c][t]] = t /\ job[c][queries[c][t]] # "none"
          BY <1>6e, <4>4, <5>1 DEF Found
        <5> QED
          BY <2>5, <4>3, <5>1, <5>2
      <4>5. ASSUME NEW n \in Token, job'[c][n] \in Active
            PROVE  queries'[c][token'[c][n]] = n \/ \E m \in Token \ {n} : token'[c][m] = token'[c][n]
        <5>1. /\ job[c][n] \in Active /\ n # q.n
              /\ token'[c][n] = token[c][n] /\ token[c][n] # 0 /\ token[c][n] \in Token
          BY <1>6d, <2>5, <4>3, <4>5 DEF Active
        <5>2. CASE token[c][n] = q.token
          BY <1>6a, <4>2, <5>1, <5>2
        <5>3. CASE token[c][n] # q.token /\ queries[c][token[c][n]] = n
          BY <4>1, <5>1, <5>3
        <5>4. CASE \E m \in Token \ {n} : token[c][m] = token[c][n]
          BY <1>6b, <2>7, <5>1, <5>4
        <5> QED
          BY <1>6e, <5>1, <5>2, <5>3, <5>4 DEF Found
      <4> QED
        BY <2>4, <4>3, <4>4, <4>5 DEF Found
    <3> QED
      BY <2>6, <3>1, <3>2
  <2> QED
    BY <2>1, <2>7, <2>9, <2>10, <2>11, OneConnection DEF ConnInv
<1> QED
  BY <1>7, <1>8
\* The evaluation of a query ends, or its deferred function takes it out of
\* queries: nothing is written.
LEMMA SilentGoroutineKeeps ==
    ASSUME PortInv, NEW c \in Client, NEW t \in 0..MaxQueries,
           HandleQuery(c, t) \/ Deferred(c, t), waits' = waits
    PROVE  PortInv'
<1>1. PortTypeOK /\ ConnInv(c)
  BY DEF PortInv
<1>2. UNCHANGED <<srv, accepting, handler, client, sent, toServer, toClient>>
  BY DEF HandleQuery, Deferred
<1>3. \A u \in Token : u \in 0..MaxQueries /\ u # 0
  BY DEF Token
<1>4. /\ \A u \in Token : queries[c][u] # 0 => queries[c][u] \in Token
      /\ \A u \in Token : token[c][u] # 0 => token[c][u] \in Token
      /\ 0 \in 0..MaxQueries
  <2>1. \A n \in 0..MaxQueries : n # 0 => n \in Token
    BY ProtocolAssumption DEF Token
  <2> QED
    BY <1>1, <2>1, PortTypes, ProtocolAssumption
<1>5. CASE HandleQuery(c, t)
  <2>1. /\ job' \in [Client -> [0..MaxQueries -> JobState]]
        /\ \A d \in Client \ {c} : job'[d] = job[d]
        /\ job[c][t] = "run" /\ job'[c][t] = "len"
        /\ \A u \in (0..MaxQueries) \ {t} : job'[c][u] = job[c][u]
    BY <1>1, <1>5, JobEffect DEF HandleQuery, JobState
  <2>2. UNCHANGED <<queries, token>>
    BY <1>5 DEF HandleQuery
  <2>3. PortTypeOK'
    BY <1>1, <1>2, <2>1, <2>2, PortTypes, PortTypesNext, Zenon
  <2>4. Elsewhere(c)
    BY <1>2, <2>1, <2>2 DEF Elsewhere
  <2>5. /\ \A u \in Token : job'[c][u] \in Active <=> job[c][u] \in Active
        /\ \A u \in Token : job'[c][u] \in {"run", "len"} <=> job[c][u] \in {"run", "len"}
        /\ \A u \in Token : job'[c][u] # "none" <=> job[c][u] # "none"
        /\ \A u \in Token : job'[c][u] # "body" <=> job[c][u] # "body"
    BY <1>3, <2>1 DEF Active
  <2>6. Numbered(c)' /\ Found(c)'
    <3>1. job'[c][0] \in {"none", "len", "body"}
      BY <1>1, <1>4, <2>1 DEF ConnInv, Found
    <3> QED
      BY <1>1, <1>2, <1>4, <2>2, <2>5, <3>1 DEF ConnInv, Numbered, Found
  <2>7. c \in waits => OneAtATime(c)' /\ (Away(c)' \/ Shaking(c)' \/ Asking(c)')
    <3> HAVE c \in waits
    <3>1. OneAtATime(c) /\ (Away(c) \/ Shaking(c) \/ Asking(c))
      BY <1>1 DEF ConnInv
    <3>2. job'[c][0] = "none"
      BY <2>1, <3>1, ProtocolAssumption DEF OneAtATime
    <3>3. OneAtATime(c)'
      BY <1>2, <2>5, <3>1, <3>2 DEF OneAtATime
    <3>4. Away(c) => Away(c)'
      BY <1>2, <2>5 DEF Away, Calm, SentNothing, NothingToRead
    <3>5. Shaking(c) => Shaking(c)'
      BY <1>2, <2>5 DEF Shaking, Calm, SentNothing, NothingToRead, ToServerIs, ToClientIs
    <3>6. Asking(c) => Asking(c)'
      BY <1>2, <2>5 DEF Asking, Calm, LengthSent, LengthUnsent, SentNothing, NothingToRead, ToServerIs, ToClientIs
    <3> QED
      BY <3>1, <3>3, <3>4, <3>5, <3>6
  <2> QED
    BY <2>3, <2>4, <2>6, <2>7, OneConnection DEF ConnInv
<1>6. CASE Deferred(c, t)
  <2>1. /\ job' \in [Client -> [0..MaxQueries -> JobState]]
        /\ \A d \in Client \ {c} : job'[d] = job[d]
        /\ job[c][t] = "end" /\ job'[c][t] = "none"
        /\ \A u \in (0..MaxQueries) \ {t} : job'[c][u] = job[c][u]
    BY <1>1, <1>6, JobEffect DEF Deferred, JobState
  <2>2. t \in Token /\ token[c][t] \in Token /\ token' = token /\ job'[c][0] = job[c][0]
    <3>1. t # 0
      BY <1>1, <2>1 DEF ConnInv, Found
    <3>2. t \in Token
      BY <3>1 DEF Token
    <3> QED
      BY <1>1, <1>4, <1>6, <2>1, <3>1, <3>2 DEF ConnInv, Found, Deferred
  <2>2a. /\ queries' \in [Client -> [Token -> 0..MaxQueries]]
         /\ \A d \in Client \ {c} : queries'[d] = queries[d]
         /\ queries'[c][token[c][t]] = 0
         /\ \A u \in Token \ {token[c][t]} : queries'[c][u] = queries[c][u]
    BY <1>1, <1>4, <1>6, <2>2, PortTypes, TokenEffect DEF Deferred
  <2>3. PortTypeOK'
    BY <1>1, <1>2, <2>1, <2>2, <2>2a, PortTypes, PortTypesNext, Zenon
  <2>4. Elsewhere(c)
    BY <1>2, <2>1, <2>2, <2>2a DEF Elsewhere
  <2>5. /\ \A u \in Token : job'[c][u] \in Active <=> job[c][u] \in Active
        /\ \A u \in Token : job'[c][u] \in {"run", "len"} <=> job[c][u] \in {"run", "len"}
        /\ \A u \in Token : job'[c][u] # "body" <=> job[c][u] # "body"
        /\ \A u \in Token \ {t} : job'[c][u] # "none" <=> job[c][u] # "none"
    BY <1>3, <2>1 DEF Active
  <2>6. Numbered(c)' /\ Found(c)'
    <3>1. Numbered(c)' /\ Found(c)
      BY <1>1, <1>2, <2>2 DEF ConnInv, Numbered
    <3>2. ASSUME NEW u \in Token, queries'[c][u] # 0
          PROVE  token[c][queries'[c][u]] = u /\ job'[c][queries'[c][u]] # "none"
      <4>1. u # token[c][t] /\ queries'[c][u] = queries[c][u] /\ queries[c][u] \in Token
        BY <1>4, <2>2a, <3>2
      <4>2. token[c][queries[c][u]] = u /\ job[c][queries[c][u]] # "none" /\ queries[c][u] # t
        BY <3>1, <3>2, <4>1 DEF Found
      <4> QED
        BY <2>5, <4>1, <4>2
    <3>3. ASSUME NEW n \in Token, job'[c][n] \in Active
          PROVE  queries'[c][token[c][n]] = n \/ \E m \in Token \ {n} : token[c][m] = token[c][n]
      <4>1. job[c][n] \in Active /\ n # t /\ token[c][n] \in Token
        BY <1>4, <2>1, <2>5, <3>1, <3>3 DEF Active, Found
      <4>2. CASE token[c][n] = token[c][t]
        BY <2>2, <4>1, <4>2
      <4>3. CASE token[c][n] # token[c][t]
        BY <2>2a, <3>1, <4>1, <4>3 DEF Found
      <4> QED
        BY <4>2, <4>3
    <3>4. \A n \in Token : job'[c][n] # "none" => token[c][n] # 0
      BY <2>1, <2>5, <3>1 DEF Found
    <3> QED
      BY <2>2, <3>1, <3>2, <3>3, <3>4 DEF Found
  <2>7. c \in waits => OneAtATime(c)' /\ (Away(c)' \/ Shaking(c)' \/ Asking(c)')
    <3> HAVE c \in waits
    <3>1. OneAtATime(c) /\ (Away(c) \/ Shaking(c) \/ Asking(c))
      BY <1>1 DEF ConnInv
    <3>2. job'[c][0] = "none"
      BY <2>1, <3>1, ProtocolAssumption DEF OneAtATime
    <3>3. OneAtATime(c)'
      BY <1>2, <2>5, <3>1, <3>2 DEF OneAtATime
    <3>4. Away(c) => Away(c)'
      BY <1>2, <2>5 DEF Away, Calm, SentNothing, NothingToRead
    <3>5. Shaking(c) => Shaking(c)'
      BY <1>2, <2>5 DEF Shaking, Calm, SentNothing, NothingToRead, ToServerIs, ToClientIs
    <3>6. Asking(c) => Asking(c)'
      BY <1>2, <2>5 DEF Asking, Calm, LengthSent, LengthUnsent, SentNothing, NothingToRead, ToServerIs, ToClientIs
    <3> QED
      BY <3>1, <3>3, <3>4, <3>5, <3>6
  <2> QED
    BY <2>3, <2>4, <2>6, <2>7, OneConnection DEF ConnInv
<1> QED
  BY <1>5, <1>6

\* The goroutine writes the length of the response.
LEMMA SendLengthKeeps ==
    ASSUME PortInv, NEW c \in Client, NEW t \in 0..MaxQueries, SendLength(c, t), waits' = waits
    PROVE  PortInv'
<1>1. PortTypeOK /\ ConnInv(c) /\ job[c][t] = "len"
  BY DEF PortInv, SendLength
<1>2. UNCHANGED <<srv, accepting, handler, queries, token, client, sent, toServer>>
  BY DEF SendLength
<1>3. \A u \in Token : u \in 0..MaxQueries /\ u # 0
  BY DEF Token
<1>4. PICK silent \in BOOLEAN :
        /\ handler[c] = "closed" => silent
        /\ IF silent THEN job' = [job EXCEPT ![c][t] = AfterWrite(t)] /\ UNCHANGED toClient
           ELSE job' = [job EXCEPT ![c][t] = "body"] /\ Write(c, "len", t)
  BY Zenon DEF SendLength
<1> DEFINE v == IF silent THEN AfterWrite(t) ELSE "body"
<1>5. /\ job' \in [Client -> [0..MaxQueries -> JobState]]
      /\ \A d \in Client \ {c} : job'[d] = job[d]
      /\ job'[c][t] = v
      /\ \A u \in (0..MaxQueries) \ {t} : job'[c][u] = job[c][u]
  <2>1. v \in JobState /\ job' = [job EXCEPT ![c][t] = v]
    BY <1>4 DEF AfterWrite, JobState
  <2> HIDE DEF v
  <2> QED
    BY <1>1, <2>1, JobEffect
<1>6. /\ toClient' \in [Client -> Seq(Frame)]
      /\ \A d \in Client \ {c} : toClient'[d] = toClient[d]
      /\ silent => toClient' = toClient
      /\ ~silent => /\ Len(toClient'[c]) = Len(toClient[c]) + 1
                    /\ \A i \in 1..Len(toClient[c]) : toClient'[c][i] = toClient[c][i]
                    /\ toClient'[c][Len(toClient[c]) + 1].k = "len"
                    /\ toClient'[c][Len(toClient[c]) + 1].of = t
  <2>1. CASE silent
    BY <1>1, <1>4, <2>1, PortTypes
  <2>2. CASE ~silent
    <3>1. Write(c, "len", t)
      BY <1>4, <2>2
    <3> QED
      BY <1>1, <2>2, <3>1, WriteEffect
  <2> QED
    BY <2>1, <2>2
<1>7. PortTypeOK'
  BY <1>1, <1>2, <1>5, <1>6, PortTypes, PortTypesNext, Zenon
<1>8. Elsewhere(c)
  BY <1>2, <1>5, <1>6 DEF Elsewhere
<1>9. Numbered(c)' /\ Found(c)'
  <2>1. \A u \in Token : queries[c][u] # 0 => queries[c][u] \in Token
    <3>1. \A n \in 0..MaxQueries : n # 0 => n \in Token
      BY ProtocolAssumption DEF Token
    <3> QED
      BY <1>1, <3>1, PortTypes
  <2>2. \A u \in Token : job[c][u] # "none" => job'[c][u] # "none"
    BY <1>1, <1>3, <1>5 DEF AfterWrite
  <2>3. \A u \in Token : job'[c][u] \in Active => job[c][u] \in Active
    BY <1>1, <1>3, <1>5 DEF Active
  <2>3a. \A u \in Token : job'[c][u] # "none" => job[c][u] # "none"
    BY <1>1, <1>3, <1>5
  <2>4. job'[c][0] \in {"none", "len", "body"}
    BY <1>1, <1>5, ProtocolAssumption DEF ConnInv, Found, AfterWrite
  <2> QED
    BY <1>1, <1>2, <2>1, <2>2, <2>3, <2>3a, <2>4 DEF ConnInv, Numbered, Found
<1>10. c \in waits => OneAtATime(c)' /\ (Away(c)' \/ Asking(c)')
  <2> HAVE c \in waits
  <2>1. OneAtATime(c) /\ (Away(c) \/ Shaking(c) \/ Asking(c))
    BY <1>1 DEF ConnInv
  <2>2. t \in Token /\ t = sent[c] /\ Len(toClient[c]) \in Nat
    <3>1. t # 0
      BY <1>1, <2>1 DEF OneAtATime
    <3>2. t \in Token
      BY <3>1 DEF Token
    <3> QED
      BY <1>1, <2>1, <3>2, EmptyQueues DEF OneAtATime, Active
  <2>3. \A u \in Token : u # t => job'[c][u] \notin Active /\ job[c][u] \notin Active
    BY <1>3, <1>5, <2>1, <2>2 DEF OneAtATime
  <2>4. job'[c][0] = "none" /\ job'[c][t] \notin {"run", "len"}
    BY <1>3, <1>5, <2>1, <2>2, ProtocolAssumption DEF OneAtATime, AfterWrite
  <2>5. \A i \in 1..Len(toClient'[c]) :
           toClient'[c][i].k \in {"len", "body"} => toClient'[c][i].of = sent'[c]
    BY <1>2, <1>6, <2>1, <2>2 DEF OneAtATime
  <2>6. OneAtATime(c)'
    BY <1>2, <2>1, <2>2, <2>3, <2>4, <2>5 DEF OneAtATime
  <2>7. LengthSent(c)'
    BY <2>2, <2>3, <2>4 DEF LengthSent, Active
  <2>8. ~Calm(c) /\ ~LengthSent(c)
    BY <1>1, <2>2 DEF Calm, LengthSent, Active
  <2>9. CASE Away(c)
    BY <1>2, <2>6, <2>8, <2>9 DEF Away
  <2>10. CASE Shaking(c)
    BY <2>8, <2>10 DEF Shaking
  <2>11. CASE Asking(c)
    <3>1. client[c] = "head" /\ handler[c] \in {"loop", "read", "closed"} /\ Len(toServer[c]) = 0 /\ Len(toClient[c]) = 0
      BY <2>8, <2>11 DEF Asking, SentNothing, NothingToRead
    <3>2. CASE silent
      <4>1. LengthUnsent(c)'
        BY <1>5, <2>2, <2>3, <3>2 DEF LengthUnsent, Active, AfterWrite
      <4> QED
        BY <1>2, <1>6, <2>6, <3>1, <3>2, <4>1 DEF Asking, SentNothing, NothingToRead
    <3>3. CASE ~silent
      <4>1. ToClientIs(c, "len")'
        BY <1>6, <3>1, <3>3 DEF ToClientIs
      <4> QED
        BY <1>2, <2>6, <2>7, <3>1, <4>1 DEF Asking, SentNothing
    <3> QED
      BY <3>2, <3>3
  <2> QED
    BY <2>1, <2>9, <2>10, <2>11
<1> QED
  BY <1>7, <1>8, <1>9, <1>10, OneConnection DEF ConnInv
\* The goroutine writes the body of the response.
LEMMA SendBodyKeeps ==
    ASSUME PortInv, NEW c \in Client, NEW t \in 0..MaxQueries, SendBody(c, t), waits' = waits
    PROVE  PortInv'
<1>1. PortTypeOK /\ ConnInv(c) /\ job[c][t] = "body"
  BY DEF PortInv, SendBody
<1>2. UNCHANGED <<srv, accepting, handler, queries, token, client, sent, toServer>>
  BY DEF SendBody
<1>3. \A u \in Token : u \in 0..MaxQueries /\ u # 0
  BY DEF Token
<1> DEFINE closed == handler[c] = "closed"
<1>4. /\ job' \in [Client -> [0..MaxQueries -> JobState]]
      /\ \A d \in Client \ {c} : job'[d] = job[d]
      /\ job'[c][t] = AfterWrite(t)
      /\ \A u \in (0..MaxQueries) \ {t} : job'[c][u] = job[c][u]
  <2>1. AfterWrite(t) \in JobState /\ job' = [job EXCEPT ![c][t] = AfterWrite(t)]
    BY DEF SendBody, AfterWrite, JobState
  <2> QED
    BY <1>1, <2>1, JobEffect
<1>5. /\ toClient' \in [Client -> Seq(Frame)]
      /\ \A d \in Client \ {c} : toClient'[d] = toClient[d]
      /\ closed => toClient' = toClient
      /\ ~closed => /\ Len(toClient'[c]) = Len(toClient[c]) + 1
                    /\ \A i \in 1..Len(toClient[c]) : toClient'[c][i] = toClient[c][i]
                    /\ toClient'[c][Len(toClient[c]) + 1].k = "body"
                    /\ toClient'[c][Len(toClient[c]) + 1].of = t
  <2>1. CASE closed
    BY <1>1, <2>1, PortTypes DEF SendBody
  <2>2. CASE ~closed
    <3>1. Write(c, "body", t)
      BY <2>2 DEF SendBody
    <3> QED
      BY <1>1, <2>2, <3>1, WriteEffect
  <2> QED
    BY <2>1, <2>2
<1>6. PortTypeOK'
  BY <1>1, <1>2, <1>4, <1>5, PortTypes, PortTypesNext, Zenon
<1>7. Elsewhere(c)
  BY <1>2, <1>4, <1>5 DEF Elsewhere
<1>8. Numbered(c)' /\ Found(c)'
  <2>1. \A u \in Token : queries[c][u] # 0 => queries[c][u] \in Token
    <3>1. \A n \in 0..MaxQueries : n # 0 => n \in Token
      BY ProtocolAssumption DEF Token
    <3> QED
      BY <1>1, <3>1, PortTypes
  <2>2. \A u \in Token : job[c][u] # "none" => job'[c][u] # "none"
    BY <1>3, <1>4 DEF AfterWrite
  <2>3. \A u \in Token : job'[c][u] \in Active => job[c][u] \in Active
    BY <1>1, <1>3, <1>4 DEF Active
  <2>3a. \A u \in Token : job'[c][u] # "none" => job[c][u] # "none"
    BY <1>1, <1>3, <1>4
  <2>4. job'[c][0] \in {"none", "len", "body"}
    BY <1>1, <1>4, ProtocolAssumption DEF ConnInv, Found, AfterWrite
  <2> QED
    BY <1>1, <1>2, <2>1, <2>2, <2>3, <2>3a, <2>4 DEF ConnInv, Numbered, Found
<1>9. c \in waits => OneAtATime(c)' /\ (Away(c)' \/ Asking(c)')
  <2> HAVE c \in waits
  <2>1. OneAtATime(c) /\ (Away(c) \/ Shaking(c) \/ Asking(c))
    BY <1>1 DEF ConnInv
  <2>2. t \in Token /\ t = sent[c] /\ Len(toClient[c]) \in Nat
    <3>1. t # 0
      BY <1>1, <2>1 DEF OneAtATime
    <3>2. t \in Token
      BY <3>1 DEF Token
    <3> QED
      BY <1>1, <2>1, <3>2, EmptyQueues DEF OneAtATime, Active
  <2>3. \A u \in Token : u # t => job'[c][u] \notin Active /\ job[c][u] \notin Active
    BY <1>3, <1>4, <2>1, <2>2 DEF OneAtATime
  <2>4. job'[c][0] = "none" /\ job'[c][t] \notin Active
    BY <1>3, <1>4, <2>1, <2>2, ProtocolAssumption DEF OneAtATime, AfterWrite, Active
  <2>5. \A i \in 1..Len(toClient'[c]) :
           toClient'[c][i].k \in {"len", "body"} => toClient'[c][i].of = sent'[c]
    BY <1>2, <1>5, <2>1, <2>2 DEF OneAtATime
  <2>6. OneAtATime(c)'
    BY <1>2, <2>1, <2>2, <2>3, <2>4, <2>5 DEF OneAtATime
  <2>7. Calm(c)' /\ LengthSent(c)'
    BY <2>2, <2>3, <2>4 DEF Calm, LengthSent, Active
  <2>8. ~Calm(c) /\ ~LengthUnsent(c)
    BY <1>1, <2>2, <2>3 DEF Calm, Active, LengthUnsent
  <2>9. CASE Away(c)
    BY <1>2, <2>6, <2>8, <2>9 DEF Away
  <2>10. CASE Shaking(c)
    BY <2>8, <2>10 DEF Shaking
  <2>11. CASE Asking(c)
    <3>1. /\ handler[c] \in {"loop", "read", "closed"} /\ Len(toServer[c]) = 0
          /\ \/ client[c] = "head" /\ Len(toClient[c]) = 0 /\ closed
             \/ client[c] = "head" /\ Len(toClient[c]) = 1 /\ toClient[c][1].k = "len"
             \/ client[c] = "body" /\ Len(toClient[c]) = 0
      BY <2>8, <2>11 DEF Asking, SentNothing, NothingToRead, ToClientIs
    <3>2. CASE closed
      BY <1>2, <1>5, <2>6, <2>7, <3>1, <3>2 DEF Asking, SentNothing, NothingToRead, ToClientIs
    <3>3. CASE ~closed
      <4>1. \/ /\ client[c] = "head" /\ Len(toClient'[c]) = 2
               /\ toClient'[c][1].k = "len" /\ toClient'[c][2].k = "body"
            \/ client[c] = "body" /\ Len(toClient'[c]) = 1 /\ toClient'[c][1].k = "body"
        <5>1. CASE client[c] = "head"
          <6>1. Len(toClient[c]) = 1 /\ toClient[c][1].k = "len"
            BY <3>1, <3>3, <5>1
          <6>2. 1 + 1 = 2 /\ 1 \in 1..1
            OBVIOUS
          <6>3. Len(toClient'[c]) = 2 /\ toClient'[c][1] = toClient[c][1] /\ toClient'[c][2].k = "body"
            BY <1>5, <3>3, <6>1, <6>2
          <6> QED
            BY <5>1, <6>1, <6>3
        <5>2. CASE client[c] = "body"
          <6>1. Len(toClient[c]) = 0 /\ 0 + 1 = 1
            BY <3>1, <5>2
          <6> QED
            BY <1>5, <3>3, <5>2, <6>1
        <5> QED
          BY <3>1, <5>1, <5>2
      <4> QED
        BY <1>2, <2>6, <2>7, <3>1, <4>1 DEF Asking, SentNothing, ToClientIs
    <3> QED
      BY <3>2, <3>3
  <2> QED
    BY <2>1, <2>9, <2>10, <2>11
<1> QED
  BY <1>6, <1>7, <1>8, <1>9, OneConnection DEF ConnInv

\* Stop, the accept loop and the end of both touch no connection.
LEMMA ServerStepsKeep ==
    ASSUME PortInv, Stop \/ acceptLoop \/ StopReturns, waits' = waits
    PROVE  PortInv'
<1>1. UNCHANGED <<handler, queries, token, job, client, sent, toServer, toClient>>
  BY DEF Stop, acceptLoop, StopReturns
<1>2. srv' \in {"running", "stopping", "stopped"}
  BY DEF Stop, acceptLoop, StopReturns, PortInv, PortTypeOK, ProtoTypeOK
<1>3. accepting' \in BOOLEAN
  BY Zenon DEF Stop, acceptLoop, StopReturns, PortInv, PortTypeOK, ProtoTypeOK
<1>4. PortTypeOK'
  BY <1>1, <1>2, <1>3, PortTypes, PortTypesNext, Zenon DEF PortInv
<1>5. ASSUME NEW c \in Client
      PROVE  ConnInv(c)'
  <2>1. Elsewhere(c) /\ ConnInv(c)
    BY <1>1 DEF Elsewhere, PortInv
  <2> QED
    BY <1>1, <2>1 DEF ConnInv, Found, OneAtATime, Away, Shaking, Asking, Calm, LengthSent, LengthUnsent, Numbered,
                      SentNothing, NothingToRead, ToServerIs, ToClientIs
<1> QED
  BY <1>4, <1>5 DEF PortInv

\* The invariant of the driver port.
THEOREM PortInvariant == ProtoSpec => []PortInv
<1>1. ProtoInit => PortInv
  <2> SUFFICES ASSUME ProtoInit
               PROVE  PortInv
    OBVIOUS
  <2>1. /\ 0 \in 0..MaxQueries /\ NoJobs \in [0..MaxQueries -> JobState]
        /\ NoTokens \in [Token -> 0..MaxQueries]
    BY ProtocolAssumption DEF NoJobs, JobState, NoTokens
  <2>2. /\ handler \in [Client -> HandlerState] /\ client \in [Client -> ClientState]
        /\ sent \in [Client -> 0..MaxQueries] /\ waits \subseteq Client
        /\ queries \in [Client -> [Token -> 0..MaxQueries]] /\ token \in [Client -> [Token -> 0..MaxQueries]] /\ job \in [Client -> [0..MaxQueries -> JobState]]
    BY <2>1 DEF ProtoInit, HandlerState, ClientState
  <2>3. <<>> \in Seq(Message) /\ <<>> \in Seq(Frame)
    BY EmptySeq
  <2>4. toServer \in [Client -> Seq(Message)] /\ toClient \in [Client -> Seq(Frame)]
    BY <2>3 DEF ProtoInit
  <2>5. accepting \in BOOLEAN /\ srv \in {"running", "stopping", "stopped"}
    BY Zenon DEF ProtoInit
  <2>7. PortTypeOK
    BY <2>2, <2>4, <2>5, Zenon DEF PortTypeOK, ProtoTypeOK
  <2>8. ASSUME NEW c \in Client
        PROVE  ConnInv(c)
    <3>1. /\ client[c] = "idle" /\ handler[c] = "none" /\ job[c] = NoJobs
          /\ queries[c] = NoTokens /\ token[c] = NoTokens
          /\ Len(toServer[c]) = 0 /\ Len(toClient[c]) = 0
      BY EmptySeq DEF ProtoInit
    <3>2. \A t \in 0..MaxQueries : job[c][t] = "none"
      BY <3>1 DEF NoJobs
    <3>3. \A t \in Token : job[c][t] = "none" /\ job[c][t] \notin Active
      BY <3>2 DEF Token, Active
    <3>4. job[c][0] = "none"
      BY <2>1, <3>2
    <3>5. Numbered(c) /\ Found(c)
      BY <3>1, <3>3, <3>4 DEF Numbered, Found, NoTokens
    <3>6. OneAtATime(c)
      BY <3>1, <3>3, <3>4 DEF OneAtATime
    <3>7. Away(c)
      BY <3>1, <3>3 DEF Away, Calm, SentNothing, NothingToRead
    <3> QED
      BY <3>5, <3>6, <3>7 DEF ConnInv
  <2> QED
    BY <2>7, <2>8 DEF PortInv
<1>2. PortInv /\ [ProtoNext]_protoVars => PortInv'
  <2> SUFFICES ASSUME PortInv, [ProtoNext]_protoVars
               PROVE  PortInv'
    OBVIOUS
  <2>1. CASE UNCHANGED protoVars
    <3>1. PortTypeOK'
      BY <2>1, PortTypes, PortTypesNext, Zenon DEF protoVars, PortInv
    <3>2. ASSUME NEW c \in Client
          PROVE  ConnInv(c)'
      BY <2>1 DEF PortInv, protoVars, ConnInv, Found, OneAtATime, Away, Shaking, Asking, Calm, LengthSent, LengthUnsent, Numbered,
                  SentNothing, NothingToRead, ToServerIs, ToClientIs
    <3> QED
      BY <3>1, <3>2 DEF PortInv
  <2>2. ASSUME NEW c \in Client, (Connect(c) \/ Query(c) \/ Close(c)) /\ UNCHANGED waits
        PROVE  PortInv'
    BY <2>2, ConnectKeeps, QueryKeeps, ClientEndsKeep
  <2>3. ASSUME NEW c \in Client, Reading(c)
        PROVE  PortInv'
    BY <2>3, ShakeKeeps, ReadFullKeeps, ClientEndsKeep DEF Reading
  <2>4. ASSUME NEW c \in Client, Handler(c)
        PROVE  PortInv'
    BY <2>4, HandshakeKeeps, HandlerEndsKeep, QueryLoopKeeps, OddMessageKeeps DEF Handler
  <2>5. ASSUME NEW c \in Client, NEW t \in 0..MaxQueries, Goroutine(c, t)
        PROVE  PortInv'
    BY <2>5, SilentGoroutineKeeps, SendLengthKeeps, SendBodyKeeps DEF Goroutine
  <2>6. CASE (Stop /\ UNCHANGED waits) \/ Stopping
    BY <2>6, ServerStepsKeep DEF Stopping
  <2> QED
    BY <2>1, <2>2, <2>3, <2>4, <2>5, <2>6 DEF ProtoNext
<1> QED
  BY <1>1, <1>2, PTL DEF ProtoSpec

\* What a STOP cancels has its token and has not ended, and the first STOP of a
\* query that shares its token with no other finds it until it is answered.
THEOREM StopFindsHolds == ProtoSpec => []StopFinds
<1>1. PortInv => StopFinds
  <2> SUFFICES ASSUME PortInv, NEW c \in Client
               PROVE  /\ \A t \in Token : queries[c][t] # 0 =>
                            token[c][queries[c][t]] = t /\ job[c][queries[c][t]] # "none"
                      /\ \A n \in Token :
                            job[c][n] \in {"run", "len", "body"} =>
                                \/ token[c][n] # 0 /\ queries[c][token[c][n]] = n
                                \/ \E m \in Token \ {n} : token[c][m] = token[c][n]
    BY DEF PortInv, PortTypeOK, StopFinds
  <2>1. Found(c)
    BY DEF PortInv, ConnInv
  <2> QED
    BY <2>1 DEF Found, Active
<1> QED
  BY <1>1, PortInvariant, PTL

\* A client that waits reads whole answers, and only those to its last query.
THEOREM AnswerIsOwnHolds == ProtoSpec => []AnswerIsOwn
<1>1. PortInv => AnswerIsOwn
  <2> SUFFICES ASSUME PortInv, NEW c \in waits
               PROVE  /\ client[c] # "garbled"
                      /\ \A i \in DOMAIN toClient[c] :
                            toClient[c][i].k \in {"len", "body"} => toClient[c][i].of \in {0, sent[c]}
    BY DEF AnswerIsOwn
  <2>1. c \in Client /\ OneAtATime(c) /\ (Away(c) \/ Shaking(c) \/ Asking(c))
    BY DEF PortInv, PortTypeOK, ProtoTypeOK, ConnInv
  <2>2. toClient[c] \in Seq(Frame)
    BY <2>1 DEF PortInv, PortTypeOK
  <2>3. DOMAIN toClient[c] = 1..Len(toClient[c])
    BY <2>2, LenProperties
  <2>4. client[c] # "garbled"
    BY <2>1 DEF Away, Shaking, Asking
  <2> QED
    BY <2>1, <2>3, <2>4 DEF OneAtATime
<1> QED
  BY <1>1, PortInvariant, PTL
=============================================================================
