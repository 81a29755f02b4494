-------------------------- MODULE MembershipProofs --------------------------
(***************************************************************************)
(* Theorems about Membership, for every cluster, whichever nodes call and  *)
(* whichever may stop or crash.                                            *)
(***************************************************************************)
EXTENDS Membership, TLAPS

\* What the table of members holds for a node.
Status == {"active", "inactive", None}

(***************************************************************************)
(* What the operations of ClusterManager do to the table.                  *)
(***************************************************************************)

\* Writing one entry changes that entry alone.
LEMMA EntryChanges ==
    ASSUME members \in [Node -> [Node -> Status]], NEW i \in Node, NEW n \in Node,
           NEW status \in Status, members' = [members EXCEPT ![i][n] = status]
    PROVE  /\ members' \in [Node -> [Node -> Status]]
           /\ \A x, y \in Node :
                members'[x][y] = IF x = i /\ y = n THEN status ELSE members[x][y]
<1> DEFINE row == [members[i] EXCEPT ![n] = status]
<1>1. row \in [Node -> Status]
  OBVIOUS
<1>2. \A y \in Node : row[y] = IF y = n THEN status ELSE members[i][y]
  OBVIOUS
<1>3. members' = [members EXCEPT ![i] = row]
  OBVIOUS
<1> HIDE DEF row
<1> QED
  BY <1>1, <1>2, <1>3

\* AddNode enters a node that is absent, and it has joined then.
LEMMA AddNodeEffect ==
    ASSUME LeftStaysOut, NEW i \in Node, NEW n \in Node, NEW good \in BOOLEAN,
           AddNode(i, n, good)
    PROVE  /\ members' \in [Node -> [Node -> Status]]
           /\ dialable' \in [Node -> SUBSET Node]
           /\ left' \in [Node -> SUBSET Node]
           /\ \A x \in Node : \A y \in left'[x] : members'[x][y] = None
<1>1. /\ members \in [Node -> [Node -> Status]]
      /\ dialable \in [Node -> SUBSET Node] /\ left \in [Node -> SUBSET Node]
  BY DEF LeftStaysOut, TypeOK, Status
<1>2. dialable' \in [Node -> SUBSET Node] /\ left' \in [Node -> SUBSET Node]
  BY <1>1 DEF AddNode
<1>3. left' = [left EXCEPT ![i] = left[i] \ {n}]
  BY DEF AddNode
<1>4. /\ members' \in [Node -> [Node -> Status]]
      /\ \A x, y \in Node : ~(x = i /\ y = n) => members'[x][y] = members[x][y]
  <2>1. CASE members[i][n] # None
    BY <1>1, <2>1 DEF AddNode
  <2>2. CASE members[i][n] = None
    <3>1. members' = [members EXCEPT ![i][n] = "active"]
      BY <2>2 DEF AddNode
    <3> QED
      BY <1>1, <3>1, EntryChanges DEF Status
  <2> QED
    BY <2>1, <2>2
<1>5. ASSUME NEW x \in Node, NEW y \in left'[x]
      PROVE  members'[x][y] = None
  <2>1. y \in left[x] /\ ~(x = i /\ y = n) /\ y \in Node
    BY <1>1, <1>3, <1>5
  <2> QED
    BY <1>4, <2>1 DEF LeftStaysOut
<1> QED
  BY <1>2, <1>4, <1>5

\* RemoveNode takes the entry out.
LEMMA RemoveNodeEffect ==
    ASSUME LeftStaysOut, NEW i \in Node, NEW n \in Node, RemoveNode(i, n)
    PROVE  /\ members' \in [Node -> [Node -> Status]]
           /\ dialable' \in [Node -> SUBSET Node]
           /\ left' \in [Node -> SUBSET Node]
           /\ \A x \in Node : \A y \in left'[x] : members'[x][y] = None
<1>1. /\ members \in [Node -> [Node -> Status]]
      /\ dialable \in [Node -> SUBSET Node] /\ left \in [Node -> SUBSET Node]
  BY DEF LeftStaysOut, TypeOK, Status
<1>2. dialable' \in [Node -> SUBSET Node] /\ left' \in [Node -> SUBSET Node]
  BY <1>1 DEF RemoveNode
<1>3. left' = [left EXCEPT ![i] = left[i] \cup {n}]
  BY DEF RemoveNode
<1>4. /\ members' \in [Node -> [Node -> Status]]
      /\ \A x, y \in Node : members'[x][y] = IF x = i /\ y = n THEN None ELSE members[x][y]
  BY <1>1, EntryChanges DEF RemoveNode, Status
<1>5. ASSUME NEW x \in Node, NEW y \in left'[x]
      PROVE  members'[x][y] = None
  <2>1. y \in Node /\ (y \in left[x] \/ (x = i /\ y = n))
    BY <1>1, <1>2, <1>3, <1>5
  <2> QED
    BY <1>4, <2>1 DEF LeftStaysOut
<1> QED
  BY <1>2, <1>4, <1>5

\* UpdateNodeStatus enters nobody: a late heartbeat of a node that left finds no
\* entry to update.
LEMMA UpdateStatusEffect ==
    ASSUME LeftStaysOut, NEW i \in Node, NEW n \in Node,
           NEW status \in {"active", "inactive"}, UpdateNodeStatus(i, n, status)
    PROVE  /\ members' \in [Node -> [Node -> Status]]
           /\ \A x, y \in Node : members[x][y] = None => members'[x][y] = None
<1>1. members \in [Node -> [Node -> Status]]
  BY DEF LeftStaysOut, TypeOK, Status
<1>2. CASE members[i][n] = None
  BY <1>1, <1>2 DEF UpdateNodeStatus
<1>3. CASE members[i][n] # None
  <2>1. members' = [members EXCEPT ![i][n] = status]
    BY <1>3 DEF UpdateNodeStatus
  <2>2. /\ members' \in [Node -> [Node -> Status]]
        /\ \A x, y \in Node : members'[x][y] = IF x = i /\ y = n THEN status ELSE members[x][y]
    BY <1>1, <2>1, EntryChanges DEF Status
  <2> QED
    BY <1>3, <2>2
<1> QED
  BY <1>2, <1>3

\* MarkInactiveNodes enters nobody either.
LEMMA MarkInactiveEffect ==
    ASSUME LeftStaysOut, NEW i \in Node, MarkInactiveNodes(i)
    PROVE  /\ members' \in [Node -> [Node -> Status]]
           /\ \A x, y \in Node : members[x][y] = None => members'[x][y] = None
<1>1. members \in [Node -> [Node -> Status]]
  BY DEF LeftStaysOut, TypeOK, Status
<1>2. PICK old \in SUBSET GetActiveMembers(i) :
        members' = [members EXCEPT ![i] =
                     [n \in Node |-> IF n \in old THEN "inactive" ELSE members[i][n]]]
  BY DEF MarkInactiveNodes
<1> DEFINE row == [n \in Node |-> IF n \in old THEN "inactive" ELSE members[i][n]]
<1>3. row \in [Node -> Status]
  BY <1>1 DEF Status
<1>4. \A n \in Node : members[i][n] = None => row[n] = None
  BY <1>2, MembershipAssumption DEF GetActiveMembers
<1>5. members' = [members EXCEPT ![i] = row]
  BY <1>2
<1> HIDE DEF row
<1> QED
  BY <1>1, <1>3, <1>4, <1>5

(***************************************************************************)
(* Calls.                                                                  *)
(***************************************************************************)

\* The server answers a call or closes its connection.
LEMMA StageEffect ==
    ASSUME TypeOK, NEW c \in Caller, call[c].stage # "idle",
           NEW stage \in {"answered", "closed"}, call' = [call EXCEPT ![c].stage = stage]
    PROVE  call' \in [Caller -> CallRecord \cup {NoCall}]
<1> DEFINE e == [call[c] EXCEPT !.stage = stage]
<1>1. call \in [Caller -> CallRecord \cup {NoCall}] /\ call[c] \in CallRecord
  BY DEF TypeOK, NoCall
<1>2. e \in CallRecord
  BY <1>1 DEF CallRecord
<1>3. call' = [call EXCEPT ![c] = e]
  OBVIOUS
<1> HIDE DEF e
<1> QED
  BY <1>1, <1>2, <1>3

\* A caller dials one node.
LEMMA DialEffect ==
    ASSUME TypeOK, NEW c \in Caller, NEW type \in Requests, NEW n \in Node,
           NEW reachable, Dial(c, type, n, reachable)
    PROVE  call' \in [Caller -> CallRecord \cup {NoCall}]
<1> DEFINE e == [type |-> type, to |-> n,
                 stage |-> IF reachable /\ server[n] = "up" THEN "sent" ELSE "closed"]
<1>1. e \in CallRecord
  BY DEF CallRecord
<1>2. call' = [call EXCEPT ![c] = e]
  BY DEF Dial
<1> HIDE DEF e
<1> QED
  BY <1>1, <1>2 DEF TypeOK

\* A call that is in progress leads to a node.
LEMMA CallGoesToNode ==
    ASSUME TypeOK, NEW c \in Caller, call[c].stage # "idle"
    PROVE  call[c].to \in Node /\ c[1] \in Node
BY DEF TypeOK, NoCall, CallRecord, Caller

\* The callers of a node.
LEMMA CallersOfNode ==
    ASSUME NEW i \in Node
    PROVE  Monitor(i) \in Caller /\ Client(i) \in Caller
BY DEF Monitor, Client, Caller

(***************************************************************************)
(* The theorem.                                                            *)
(***************************************************************************)

\* A step that enters nobody in a table and takes nobody out of left keeps who
\* left out.
LEMMA NobodyReturns ==
    ASSUME LeftStaysOut, TypeOK', UNCHANGED left,
           \A x, y \in Node : members[x][y] = None => members'[x][y] = None
    PROVE  LeftStaysOut'
BY DEF LeftStaysOut, TypeOK

\* The server does what a request asks of its table.
LEMMA DispatchEffect ==
    ASSUME LeftStaysOut, NEW i \in Node, NEW n \in Node, NEW type, Dispatch(type, i, n)
    PROVE  /\ members' \in [Node -> [Node -> Status]]
           /\ dialable' \in [Node -> SUBSET Node]
           /\ left' \in [Node -> SUBSET Node]
           /\ \A x \in Node : \A y \in left'[x] : members'[x][y] = None
<1>1. CASE handleHeartbeat(i, n)
  <2>1. /\ members' \in [Node -> [Node -> Status]]
        /\ \A x, y \in Node : members[x][y] = None => members'[x][y] = None
    BY <1>1, UpdateStatusEffect DEF handleHeartbeat
  <2>2. left' = left /\ dialable' = dialable
    BY <1>1 DEF handleHeartbeat
  <2>3. left \in [Node -> SUBSET Node] /\ dialable \in [Node -> SUBSET Node]
    BY DEF LeftStaysOut, TypeOK
  <2>4. \A x \in Node : \A y \in left'[x] : y \in Node /\ members[x][y] = None
    BY <2>2, <2>3 DEF LeftStaysOut
  <2> QED
    BY <2>1, <2>2, <2>3, <2>4
<1>2. CASE handleJoinRequest(i, n)
  BY <1>2, AddNodeEffect DEF handleJoinRequest
<1>3. CASE handleLeaveRequest(i, n)
  BY <1>3, RemoveNodeEffect DEF handleLeaveRequest
<1> QED
  BY <1>1, <1>2, <1>3 DEF Dispatch

\* The server handles one request of a caller that waits.
LEMMA HandlersKeepLeft ==
    ASSUME LeftStaysOut, NEW c \in Caller, handleMessage(c)
    PROVE  LeftStaysOut'
<1>1. TypeOK
  BY DEF LeftStaysOut
<1>2. call[c].stage # "idle" /\ call[c].to \in Node /\ c[1] \in Node
  BY <1>1, CallGoesToNode DEF handleMessage
<1>3. UNCHANGED <<server, late, checking, todo, pending>>
  BY DEF handleMessage
<1>4. CASE /\ Dispatch(call[c].type, call[c].to, c[1])
           /\ call' = [call EXCEPT ![c].stage = "answered"]
  <2>1. call' \in [Caller -> CallRecord \cup {NoCall}]
    BY <1>1, <1>2, <1>4, StageEffect
  <2> QED
    BY <1>1, <1>2, <1>3, <1>4, <2>1, DispatchEffect DEF LeftStaysOut, TypeOK, Status
<1>5. CASE RefuseUnknown(c)
  <2>1. call' \in [Caller -> CallRecord \cup {NoCall}]
    BY <1>1, <1>2, <1>5, StageEffect DEF RefuseUnknown
  <2> QED
    BY <1>1, <1>3, <1>5, <2>1 DEF LeftStaysOut, TypeOK, RefuseUnknown
<1> QED
  BY <1>4, <1>5 DEF handleMessage

\* The server handles one request of a process that has ended.
LEMMA LateKeepsLeft ==
    ASSUME LeftStaysOut, NEW m \in late, handleLate(m)
    PROVE  LeftStaysOut'
<1>1. TypeOK /\ m \in LateRequest
  BY DEF LeftStaysOut, TypeOK
<1>2. m.to \in Node /\ m.from \in Node /\ Dispatch(m.type, m.to, m.from)
  BY <1>1 DEF LateRequest, handleLate
<1>3. late' \in SUBSET LateRequest /\ UNCHANGED <<server, call, checking, todo, pending>>
  BY <1>1 DEF handleLate, TypeOK
<1> QED
  BY <1>1, <1>2, <1>3, DispatchEffect DEF LeftStaysOut, TypeOK, Status

\* The health monitor of a node.
LEMMA MonitorKeepsLeft ==
    ASSUME LeftStaysOut, NEW i \in Node, monitorLoop(i)
    PROVE  LeftStaysOut'
<1> DEFINE c == Monitor(i)
<1>1. TypeOK /\ c \in Caller
  BY CallersOfNode DEF LeftStaysOut
<1>2. CASE checkHealth(i)
  <2>1. {<<n, n \in dialable[i]>> : n \in GetMembers(i) \ {i}} \in SUBSET (Node \X BOOLEAN)
    <3>1. ASSUME NEW n \in GetMembers(i) PROVE <<n, n \in dialable[i]>> \in Node \X BOOLEAN
      <4>1. n \in Node
        BY <3>1 DEF GetMembers
      <4>2. <<n, TRUE>> \in Node \X BOOLEAN /\ <<n, FALSE>> \in Node \X BOOLEAN
        BY <4>1
      <4>3. (n \in dialable[i]) = TRUE \/ (n \in dialable[i]) = FALSE
        OBVIOUS
      <4>4. CASE (n \in dialable[i]) = TRUE
        <5>1. <<n, n \in dialable[i]>> = <<n, TRUE>>
          BY <4>4, Zenon
        <5> QED
          BY <4>2, <5>1, Zenon
      <4>5. CASE (n \in dialable[i]) = FALSE
        <5>1. <<n, n \in dialable[i]>> = <<n, FALSE>>
          BY <4>5, Zenon
        <5> QED
          BY <4>2, <5>1, Zenon
      <4> QED
        BY <4>3, <4>4, <4>5, Zenon
    <3> QED
      BY <3>1
  <2>2. TypeOK'
    BY <1>1, <1>2, <2>1 DEF TypeOK, checkHealth
  <2> QED
    BY <1>2, <2>2 DEF LeftStaysOut, checkHealth
<1>3. CASE SendHeartbeat(i)
  <2>1. PICK info \in todo[i] : /\ Dial(c, "heartbeat", info[1], info[2])
                                /\ todo' = [todo EXCEPT ![i] = todo[i] \ {info}]
    BY <1>3 DEF SendHeartbeat
  <2>2. info[1] \in Node /\ info[2] \in BOOLEAN
    BY <1>1 DEF TypeOK
  <2>3. call' \in [Caller -> CallRecord \cup {NoCall}]
    <3>1. "heartbeat" \in Requests
      BY DEF Requests
    <3> QED
      BY <1>1, <2>1, <2>2, <3>1, DialEffect
  <2>4. todo' \in [Node -> SUBSET (Node \X BOOLEAN)]
    BY <1>1, <2>1 DEF TypeOK
  <2> QED
    BY <1>1, <1>3, <2>3, <2>4 DEF LeftStaysOut, TypeOK, SendHeartbeat
<1>4. CASE HeartbeatReturns(i)
  <2>1. call[c].stage # "idle" /\ call[c].to \in Node
    BY <1>1, <1>4, CallGoesToNode DEF HeartbeatReturns, Done
  <2>2. /\ members' \in [Node -> [Node -> Status]]
        /\ \A x, y \in Node : members[x][y] = None => members'[x][y] = None
    <3>1. CASE UpdateNodeStatus(i, call[c].to, "active")
      BY <2>1, <3>1, UpdateStatusEffect
    <3>2. CASE UpdateNodeStatus(i, call[c].to, "inactive")
      BY <2>1, <3>2, UpdateStatusEffect
    <3> QED
      BY <1>4, <3>1, <3>2 DEF HeartbeatReturns
  <2>3. TypeOK'
    BY <1>1, <1>4, <2>2 DEF HeartbeatReturns, TypeOK, Status
  <2> QED
    BY <1>4, <2>2, <2>3, NobodyReturns DEF HeartbeatReturns
<1>5. CASE CheckEnds(i)
  <2>1. /\ members' \in [Node -> [Node -> Status]]
        /\ \A x, y \in Node : members[x][y] = None => members'[x][y] = None
    BY <1>5, MarkInactiveEffect DEF CheckEnds
  <2>2. TypeOK'
    BY <1>1, <1>5, <2>1 DEF CheckEnds, TypeOK, Status
  <2> QED
    BY <1>5, <2>1, <2>2, NobodyReturns DEF CheckEnds
<1> QED
  BY <1>2, <1>3, <1>4, <1>5 DEF monitorLoop

\* A process that ends loses its table, and with it who left.
LEMMA EndsKeepsLeft ==
    ASSUME LeftStaysOut, NEW i \in Node, Ends(i)
    PROVE  LeftStaysOut'
<1>1. TypeOK
  BY DEF LeftStaysOut
<1>2. call' \in [Caller -> CallRecord \cup {NoCall}]
  <2> DEFINE new(c) == IF c[1] = i THEN NoCall
                       ELSE IF c \in Open(i) /\ call[c].stage = "sent"
                       THEN [call[c] EXCEPT !.stage = "closed"] ELSE call[c]
  <2>1. ASSUME NEW c \in Caller PROVE new(c) \in CallRecord \cup {NoCall}
    <3>1. CASE call[c].stage = "sent"
      <4>1. call[c] \in CallRecord
        BY <1>1, <3>1 DEF TypeOK, NoCall
      <4> QED
        BY <4>1 DEF CallRecord
    <3>2. CASE call[c].stage # "sent"
      BY <1>1, <3>2 DEF TypeOK
    <3> QED
      BY <3>1, <3>2
  <2>2. call' = [c \in Caller |-> new(c)]
    BY DEF Ends
  <2> HIDE DEF new
  <2> QED
    BY <2>1, <2>2
<1>3. /\ members' \in [Node -> [Node -> Status]]
      /\ \A y \in Node : members'[i][y] = None
      /\ \A x \in Node : x # i => members'[x] = members[x]
  BY <1>1 DEF Ends, NoMembers, TypeOK, Status
<1>4. late' \in SUBSET LateRequest
  BY <1>1 DEF Ends, SentBy, TypeOK
<1>5. TypeOK'
  BY <1>1, <1>2, <1>3, <1>4 DEF Ends, TypeOK, Status
<1> QED
  BY <1>1, <1>3, <1>5 DEF Ends, LeftStaysOut, TypeOK

\* A client of a node joins, leaves, forwards or replicates.
LEMMA ClientsKeepLeft ==
    ASSUME LeftStaysOut, NEW i \in Node, NEW n \in Node,
           \/ AddMember(i, n) \/ JoinCluster(i, n) \/ SendLeave(i, n) \/ ForwardQuery(i, n)
           \/ ReplicateToAll(i) \/ ReplicateToNode(i, n) \/ ClientReturns(i)
    PROVE  LeftStaysOut'
<1>1. TypeOK /\ Client(i) \in Caller
  BY CallersOfNode DEF LeftStaysOut
<1>2. CASE AddMember(i, n)
  BY <1>1, <1>2, AddNodeEffect DEF AddMember, LeftStaysOut, TypeOK, Status
<1>3. ASSUME call' \in [Caller -> CallRecord \cup {NoCall}],
             pending' \in [Node -> SUBSET Node],
             UNCHANGED <<server, members, dialable, late, checking, todo, left>>
      PROVE  LeftStaysOut'
  BY <1>1, <1>3 DEF LeftStaysOut, TypeOK
<1>4. ASSUME NEW type \in Requests, NEW reachable, Dial(Client(i), type, n, reachable)
      PROVE  call' \in [Caller -> CallRecord \cup {NoCall}]
  BY <1>1, <1>4, DialEffect
<1>5. CASE JoinCluster(i, n) \/ SendLeave(i, n) \/ ForwardQuery(i, n)
  <2>1. pending' \in [Node -> SUBSET Node]
    BY <1>1, <1>5 DEF JoinCluster, SendLeave, ForwardQuery, TypeOK
  <2>2. call' \in [Caller -> CallRecord \cup {NoCall}]
    <3>1. {"join", "leave", "forward"} \subseteq Requests
      BY DEF Requests
    <3>2. CASE Dial(Client(i), "join", n, TRUE) \/ Dial(Client(i), "leave", n, TRUE)
      BY <1>4, <3>1, <3>2
    <3>3. CASE Dial(Client(i), "forward", n, n \in dialable[i])
      BY <1>4, <3>1, <3>3
    <3> QED
      BY <1>5, <3>2, <3>3 DEF JoinCluster, SendLeave, ForwardQuery
  <2> QED
    BY <1>3, <1>5, <2>1, <2>2 DEF JoinCluster, SendLeave, ForwardQuery
<1>6. CASE ReplicateToAll(i)
  BY <1>1, <1>3, <1>6 DEF ReplicateToAll, GetActiveMembers, TypeOK
<1>7. CASE ReplicateToNode(i, n)
  <2>1. call' \in [Caller -> CallRecord \cup {NoCall}]
    <3>1. "replicate" \in Requests
      BY DEF Requests
    <3>2. CASE Dial(Client(i), "replicate", n, n \in dialable[i])
      BY <1>4, <3>1, <3>2
    <3>3. CASE UNCHANGED call
      BY <1>1, <3>3 DEF TypeOK
    <3> QED
      BY <1>7, <3>2, <3>3 DEF ReplicateToNode
  <2> QED
    BY <1>1, <1>3, <1>7, <2>1 DEF ReplicateToNode, TypeOK
<1>8. CASE ClientReturns(i)
  BY <1>1, <1>3, <1>8 DEF ClientReturns, TypeOK
<1> QED
  BY <1>2, <1>5, <1>6, <1>7, <1>8

\* A node that left a table stays out of it until it joins again, whatever
\* heartbeats are handled late, of processes that have ended too, and whatever
\* health checks were under way; and
\* every variable keeps its type.
THEOREM LeftStaysOutHolds == Spec => []LeftStaysOut
<1>1. Init => LeftStaysOut
  BY DEF Init, LeftStaysOut, TypeOK, NoMembers, Caller
<1>2. LeftStaysOut /\ [Next]_vars => LeftStaysOut'
  <2> SUFFICES ASSUME LeftStaysOut, [Next]_vars
               PROVE  LeftStaysOut'
    OBVIOUS
  <2>1. ASSUME NEW i \in Node, Start(i) \/ Stop(i)
        PROVE  LeftStaysOut'
    BY <2>1 DEF Start, Stop, LeftStaysOut, TypeOK
  <2>2. ASSUME NEW i \in Node, Crash(i) \/ StopReturns(i)
        PROVE  LeftStaysOut'
    BY <2>2, EndsKeepsLeft DEF Crash, StopReturns
  <2>3. CASE UNCHANGED vars
    BY <2>3 DEF vars, LeftStaysOut, TypeOK
  <2> QED
    BY <2>1, <2>2, <2>3, HandlersKeepLeft, LateKeepsLeft, MonitorKeepsLeft, ClientsKeepLeft
    DEF Next, ClientStep
<1> QED
  BY <1>1, <1>2, PTL DEF Spec
=============================================================================
