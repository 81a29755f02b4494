----------------------------- MODULE Membership -----------------------------
(***************************************************************************)
(* The cluster layer of internal/rpc: every node's table of members, its   *)
(* RPC server, its health monitor and the calls it makes to other nodes.   *)
(*                                                                         *)
(* A call is one TCP connection: the caller dials, sends one message,      *)
(* waits for the answer and closes.  Reads have no deadline (the contexts  *)
(* are never looked at), so a caller waits until its peer answers or the   *)
(* connection is closed.  A crash of the peer closes its connections; a    *)
(* peer that is cut off without a trace is not modelled.  What a process   *)
(* sent before its end may still reach the server and is handled there,    *)
(* also when the process runs again by then.                               *)
(*                                                                         *)
(* Each node has two callers: its health monitor, and a client that runs   *)
(* JoinCluster, ForwardQuery or ReplicateToAll.  The requests to leave     *)
(* that the server handles come from outside the repository.               *)
(***************************************************************************)
EXTENDS Integers, FiniteSets

CONSTANTS
    Node,
    Callers,    \* nodes that join, leave, forward and replicate
    Mortal,     \* nodes whose process may stop or crash
    MaxLate,    \* bound: requests of ended processes on their way at a time
    None

ASSUME MembershipAssumption ==
    /\ None \notin Node \cup {"active", "inactive"}
    /\ Callers \subseteq Node /\ Mortal \subseteq Node
    /\ MaxLate \in Nat

VARIABLES
    server,     \* the RPC server of a node: "down", "up", or "stopping"
    members,    \* ClusterManager.members: the Status of a node, or None
    dialable,   \* the members whose Address and ClusterPort lead to them
    call,       \* the call in progress of every caller
    late,       \* requests on their way whose sender has ended
    checking,   \* whether checkHealth runs on a node
    todo,       \* the NodeInfo objects checkHealth still goes through: the
                \* node, and whether the address leads to it
    pending,    \* the nodes that ReplicateToAll has not called yet
    left        \* history: nodes that left a node's table and did not join again

vars == <<server, members, dialable, call, late, checking, todo, pending, left>>

Caller == Node \X {"monitor", "client"}

Requests == {"heartbeat", "join", "leave", "replicate", "forward"}

NoCall == [type |-> None, to |-> None, stage |-> "idle"]

\* stage: "sent" until the server has handled the request; then "answered",
\* or "closed" when the connection went away without an answer.
CallRecord == [type : Requests, to : Node, stage : {"sent", "answered", "closed"}]

\* A request without its caller.  Two equal ones, of two lives of a node, are
\* one element of late, which may be handled more than once for that reason.
LateRequest == [type : {"heartbeat", "join", "leave"}, from : Node, to : Node]

TypeOK ==
    /\ server \in [Node -> {"down", "up", "stopping"}]
    /\ members \in [Node -> [Node -> {"active", "inactive", None}]]
    /\ dialable \in [Node -> SUBSET Node]
    /\ call \in [Caller -> CallRecord \cup {NoCall}]
    /\ late \in SUBSET LateRequest
    /\ checking \in [Node -> BOOLEAN]
    /\ todo \in [Node -> SUBSET (Node \X BOOLEAN)]
    /\ pending \in [Node -> SUBSET Node]
    /\ left \in [Node -> SUBSET Node]

NoMembers == [n \in Node |-> None]

Init ==
    /\ server = [n \in Node |-> "down"]
    /\ members = [n \in Node |-> NoMembers]
    /\ dialable = [n \in Node |-> {}]
    /\ call = [c \in Caller |-> NoCall]
    /\ late = {}
    /\ checking = [n \in Node |-> FALSE]
    /\ todo = [n \in Node |-> {}]
    /\ pending = [n \in Node |-> {}]
    /\ left = [n \in Node |-> {}]

Monitor(i) == <<i, "monitor">>
Client(i) == <<i, "client">>

Alive(i) == server[i] # "down"

-----------------------------------------------------------------------------
(* ClusterManager.                                                         *)

GetMembers(i) == {n \in Node : members[i][n] # None}

GetActiveMembers(i) == {n \in Node : members[i][n] = "active"}

\* good: the address and the port lead to the node.
AddNode(i, n, good) ==
    /\ members' = IF members[i][n] # None THEN members
                  ELSE [members EXCEPT ![i][n] = "active"]
    /\ dialable' = IF members[i][n] # None \/ ~good THEN dialable
                   ELSE [dialable EXCEPT ![i] = @ \cup {n}]
    /\ left' = [left EXCEPT ![i] = @ \ {n}]

RemoveNode(i, n) ==
    /\ members' = [members EXCEPT ![i][n] = None]
    /\ dialable' = [dialable EXCEPT ![i] = @ \ {n}]
    /\ left' = [left EXCEPT ![i] = @ \cup {n}]

\* A mutant: the entry is written whether or not it exists.
StoreNodeStatus(i, n, status) == members' = [members EXCEPT ![i][n] = status]

\* A mutant: an inactive node is never active again.
StatusOnlyDown(i, n, status) ==
    members' = IF members[i][n] # "active" THEN members
               ELSE [members EXCEPT ![i][n] = status]

UpdateNodeStatus(i, n, status) ==
    members' = IF members[i][n] = None THEN members
               ELSE [members EXCEPT ![i][n] = status]

\* LastSeen may be old for any member by the time the sweep runs, even for one
\* just heard of: the dials of one round take up to 5 seconds each.
MarkInactiveNodes(i) ==
    \E old \in SUBSET GetActiveMembers(i) :
        members' = [members EXCEPT ![i] =
                     [n \in Node |-> IF n \in old THEN "inactive" ELSE @[n]]]

-----------------------------------------------------------------------------
(* The server.                                                             *)

Start(i) ==
    /\ server[i] = "down"
    /\ server' = [server EXCEPT ![i] = "up"]
    /\ UNCHANGED <<members, dialable, call, late, checking, todo, pending, left>>

\* Stop closes the listener and waits for the connections that are open.
Stop(i) ==
    /\ i \in Mortal /\ server[i] = "up"
    /\ server' = [server EXCEPT ![i] = "stopping"]
    /\ UNCHANGED <<members, dialable, call, late, checking, todo, pending, left>>

Open(i) == {c \in Caller : call[c].to = i /\ call[c].stage \in {"sent", "answered"}}

\* What a process has sent and nobody has handled, of the requests a server knows.
SentBy(i) ==
    {m \in LateRequest : /\ m.from = i /\ m.to # i
                         /\ \E c \in Caller : /\ c[1] = i /\ call[c].stage = "sent"
                                              /\ call[c].type = m.type /\ call[c].to = m.to}

\* The process ends, by itself or after Stop; the table of members is lost and
\* what is still open to it is closed.  What it sent itself arrives, or is lost
\* with the connection.
Ends(i) ==
    /\ \E m \in SUBSET SentBy(i) : late' = {r \in late : r.to # i} \cup m
    /\ Cardinality(late') <= MaxLate
    /\ server' = [server EXCEPT ![i] = "down"]
    /\ members' = [members EXCEPT ![i] = NoMembers]
    /\ dialable' = [dialable EXCEPT ![i] = {}]
    /\ left' = [left EXCEPT ![i] = {}]
    /\ checking' = [checking EXCEPT ![i] = FALSE]
    /\ todo' = [todo EXCEPT ![i] = {}]
    /\ pending' = [pending EXCEPT ![i] = {}]
    /\ call' = [c \in Caller |-> IF c[1] = i THEN NoCall
                                 ELSE IF c \in Open(i) /\ call[c].stage = "sent"
                                 THEN [call[c] EXCEPT !.stage = "closed"]
                                 ELSE call[c]]

Crash(i) == i \in Mortal /\ server[i] = "up" /\ Ends(i)

StopReturns(i) ==
    /\ server[i] = "stopping" /\ Open(i) = {} /\ \A m \in late : m.to # i
    /\ Ends(i)

handleHeartbeat(i, n) == UpdateNodeStatus(i, n, "active") /\ UNCHANGED <<dialable, left>>

\* JoinCluster sends an address that has a port and a port besides, which
\* together lead nowhere.
handleJoinRequest(i, n) == AddNode(i, n, FALSE)

handleLeaveRequest(i, n) == RemoveNode(i, n)

\* What the server of i does to its table for a request of n.
Dispatch(type, i, n) ==
    \/ type = "heartbeat" /\ handleHeartbeat(i, n)
    \/ type = "join" /\ handleJoinRequest(i, n)
    \/ type = "leave" /\ handleLeaveRequest(i, n)

\* A mutant: an unknown message is skipped, the connection stays open.
SkipUnknown(c) == FALSE

\* handleConnection returns on an unknown message, which closes the
\* connection: neither replication nor forwarding is dispatched.
RefuseUnknown(c) ==
    /\ call[c].type \in {"replicate", "forward"}
    /\ call' = [call EXCEPT ![c].stage = "closed"]
    /\ UNCHANGED <<members, dialable, left>>

handleMessage(c) ==
    /\ call[c].stage = "sent" /\ Alive(call[c].to)
    /\ \/ /\ Dispatch(call[c].type, call[c].to, c[1])
          /\ call' = [call EXCEPT ![c].stage = "answered"]
       \/ RefuseUnknown(c)
    /\ UNCHANGED <<server, late, checking, todo, pending>>

\* The request of a process that has ended is decoded and handled as any other;
\* only the answer finds nobody.
handleLate(m) ==
    /\ m \in late
    /\ Dispatch(m.type, m.to, m.from)
    /\ late' = late \ {m} \/ late' = late
    /\ UNCHANGED <<server, call, checking, todo, pending>>

-----------------------------------------------------------------------------
(* Callers.                                                                *)

\* A dial reaches a server that is up; otherwise it fails at once.
Dial(c, type, n, reachable) ==
    call' = [call EXCEPT ![c] =
              [type |-> type, to |-> n,
               stage |-> IF reachable /\ server[n] = "up" THEN "sent" ELSE "closed"]]

Done(c) == call[c].stage \in {"answered", "closed"}

\* The ticker fires: checkHealth takes the NodeInfo objects it will go through.
checkHealth(i) ==
    /\ Alive(i) /\ ~checking[i]
    /\ checking' = [checking EXCEPT ![i] = TRUE]
    /\ todo' = [todo EXCEPT ![i] = {<<n, n \in dialable[i]>> : n \in GetMembers(i) \ {i}}]
    /\ UNCHANGED <<server, members, dialable, call, late, pending, left>>

SendHeartbeat(i) ==
    /\ checking[i] /\ call[Monitor(i)] = NoCall
    /\ \E info \in todo[i] :
        /\ Dial(Monitor(i), "heartbeat", info[1], info[2])
        /\ todo' = [todo EXCEPT ![i] = @ \ {info}]
    /\ UNCHANGED <<server, members, dialable, late, checking, pending, left>>

\* A mutant: a failed heartbeat is only logged.
FailureLogged(i) ==
    LET c == Monitor(i)
    IN  /\ Done(c)
        /\ IF call[c].stage = "answered" THEN UpdateNodeStatus(i, call[c].to, "active")
           ELSE UNCHANGED members
        /\ call' = [call EXCEPT ![c] = NoCall]
        /\ UNCHANGED <<server, dialable, late, checking, todo, pending, left>>

HeartbeatReturns(i) ==
    LET c == Monitor(i)
    IN  /\ Done(c)
        /\ UpdateNodeStatus(i, call[c].to, IF call[c].stage = "answered" THEN "active" ELSE "inactive")
        /\ call' = [call EXCEPT ![c] = NoCall]
        /\ UNCHANGED <<server, dialable, late, checking, todo, pending, left>>

CheckEnds(i) ==
    /\ checking[i] /\ todo[i] = {} /\ call[Monitor(i)] = NoCall
    /\ MarkInactiveNodes(i)
    /\ checking' = [checking EXCEPT ![i] = FALSE]
    /\ UNCHANGED <<server, dialable, call, late, todo, pending, left>>

monitorLoop(i) ==
    checkHealth(i) \/ SendHeartbeat(i) \/ HeartbeatReturns(i) \/ CheckEnds(i)

ClientIdle(i) == i \in Callers /\ Alive(i) /\ call[Client(i)] = NoCall /\ pending[i] = {}

\* The operator enters a member by hand.
AddMember(i, n) ==
    /\ Alive(i) /\ n # i
    /\ \E good \in BOOLEAN : AddNode(i, n, good)
    /\ UNCHANGED <<server, call, late, checking, todo, pending>>

\* seedAddress is the operator's, so it leads to the node.
JoinCluster(i, n) ==
    /\ ClientIdle(i) /\ n # i
    /\ Dial(Client(i), "join", n, TRUE)
    /\ UNCHANGED <<server, members, dialable, late, checking, todo, pending, left>>

SendLeave(i, n) ==
    /\ ClientIdle(i) /\ n # i
    /\ Dial(Client(i), "leave", n, TRUE)
    /\ UNCHANGED <<server, members, dialable, late, checking, todo, pending, left>>

ForwardQuery(i, n) ==
    /\ ClientIdle(i) /\ n \in GetMembers(i)
    /\ Dial(Client(i), "forward", n, n \in dialable[i])
    /\ UNCHANGED <<server, members, dialable, late, checking, todo, pending, left>>

\* One goroutine for every active member; ReplicateToAll waits for them all
\* and reports success whatever they returned.
ReplicateToAll(i) ==
    /\ ClientIdle(i) /\ GetActiveMembers(i) \ {i} # {}
    /\ pending' = [pending EXCEPT ![i] = GetActiveMembers(i) \ {i}]
    /\ UNCHANGED <<server, members, dialable, call, late, checking, todo, left>>

\* A member that is gone by now is an error.
ReplicateToNode(i, n) ==
    /\ n \in pending[i] /\ call[Client(i)] = NoCall
    /\ pending' = [pending EXCEPT ![i] = @ \ {n}]
    /\ IF n \in GetMembers(i) THEN Dial(Client(i), "replicate", n, n \in dialable[i])
       ELSE UNCHANGED call
    /\ UNCHANGED <<server, members, dialable, late, checking, todo, left>>

ClientReturns(i) ==
    /\ Done(Client(i))
    /\ call' = [call EXCEPT ![Client(i)] = NoCall]
    /\ UNCHANGED <<server, members, dialable, late, checking, todo, pending, left>>

ClientStep(i) == ClientReturns(i) \/ \E n \in Node : ReplicateToNode(i, n)

Next ==
    \/ \E i \in Node :
        \/ Start(i) \/ Stop(i) \/ Crash(i) \/ StopReturns(i)
        \/ monitorLoop(i) \/ ClientStep(i) \/ ReplicateToAll(i)
        \/ \E n \in Node : AddMember(i, n) \/ JoinCluster(i, n) \/ SendLeave(i, n) \/ ForwardQuery(i, n)
    \/ \E c \in Caller : handleMessage(c)
    \/ \E m \in late : handleLate(m)

\* The monitor's ticker keeps firing, goroutines that can go on do, and a
\* server that is up reads what arrives.
Fairness ==
    /\ \A i \in Node : WF_vars(monitorLoop(i)) /\ WF_vars(ClientStep(i)) /\ WF_vars(StopReturns(i))
    /\ \A c \in Caller : WF_vars(handleMessage(c))
    /\ \A i \in Node : WF_vars(\E m \in late : m.to = i /\ handleLate(m) /\ m \notin late')

Spec == Init /\ [][Next]_vars /\ Fairness

-----------------------------------------------------------------------------
(* Properties.                                                             *)

\* A node that left stays out until it joins again: neither a heartbeat of its
\* own that is handled late, perhaps after its process ended, nor a health check
\* that began before brings it back.
\* (And every variable has its type.)
LeftStaysOut == TypeOK /\ \A i \in Node : \A n \in left[i] : members[i][n] = None

\* A node that has gone for good is not counted as active for ever, although
\* its last heartbeat may be handled after its end.
DeadIsNoticed ==
    \A i \in Node : \A n \in Node \ {i} :
        <>[](Alive(i) /\ server[n] = "down") => []<>(members[i][n] # "active")

\* A running node with a usable address is believed active again and again,
\* whatever the sweep for old LastSeen did to it.
LiveIsSeen ==
    \A i \in Node : \A n \in Node \ {i} :
        <>[](server[i] = "up" /\ server[n] = "up" /\ n \in dialable[i])
            => []<>(members[i][n] = "active")

\* Every call comes to an end: the peer answers, refuses or goes away.  So do
\* the connections of a server that was told to stop, and with them its Stop.
CallsEnd ==
    \A i \in Node : /\ call[Client(i)].stage = "sent" ~> call[Client(i)] = NoCall
                    /\ server[i] = "stopping" ~> server[i] = "down"
=============================================================================
