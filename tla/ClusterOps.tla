----------------------------- MODULE ClusterOps -----------------------------
(***************************************************************************)
(* Nodes that join and leave the cluster through the HTTP API              *)
(* (internal/api/cluster_*.go): join tokens, the table of members and the  *)
(* removal of nodes, which a goroutine of its own carries out.             *)
(*                                                                         *)
(* TokenManager, JoinManager and RemoveManager have a lock each, taken in  *)
(* the order rm.mu, jm.mu, tm.mu.  A section of one lock is one action;    *)
(* HandleJoinRequest keeps jm.mu from its validation to its end and gives  *)
(* tm.mu back in between, StartRemoval keeps rm.mu over two sections of    *)
(* jm.mu, so jmu and target say who holds them.                            *)
(*                                                                         *)
(* Requests that are refused before they reach a manager (wrong method, no *)
(* admin, a field missing) change nothing and are left out.  A token's     *)
(* signature is over its own text, so it always fits a token in the table. *)
(* No node is told to shut down and no data is moved: identifyTransfers    *)
(* and CalculateRebalancePlan return no transfers at this commit.          *)
(***************************************************************************)
EXTENDS Transfers, FiniteSets

CONSTANTS
    User, Admin,    \* users of the API, and the administrators among them
    Node,           \* node ids
    Request,        \* HTTP requests in flight
    Token,          \* join tokens that may be generated
    None,
    MaxOps          \* bound: removals

ASSUME ClusterAssumption ==
    /\ Admin \subseteq User /\ MaxOps \in Nat
    /\ None \notin Node \cup Request \cup {"joining", "active", "draining"}

VARIABLES
    tokens,         \* TokenManager.tokens and tokensByID: [UsedBy, expired], or None
    issued,         \* tokens ever generated (their ids are fresh)
    members,        \* JoinManager.members: the status of a node, or None
    jmu,            \* who holds jm.mu over more than one step
    join,           \* the join requests in flight
    operations,     \* RemoveManager.operations: an operation object, or 0
    ops,            \* the RemoveOperation objects
    target,         \* the node of the removal request that holds rm.mu, if one does
    admitted        \* history: the nodes every token let in, in order

cvars == <<tokens, issued, members, jmu, join, operations, ops, target, admitted>>
vars == <<cvars, tvars>>

Idle == [stage |-> "idle", node |-> None, token |-> None]

NoOp == [node |-> None, Status |-> "none", pc |-> "none"]

TokenEntry == [UsedBy : Node \cup {None}, expired : BOOLEAN]

JoinRequest == [stage : {"idle", "sent", "validated"},
                node : Node \cup {None}, token : Token \cup {None}]

Operation == [node : Node \cup {None},
              Status : {"none", "draining", "identifying_data", "transferring",
                        "shutting_down", "removing", "completed", "failed"},
              pc : {"none", "identify", "member", "transfer", "shutdown",
                    "removing", "remove", "complete", "fail", "done"}]

TypeOK ==
    /\ tokens \in [Token -> TokenEntry \cup {None}]
    /\ issued \subseteq Token
    /\ members \in [Node -> {"joining", "active", "draining", None}]
    /\ jmu \in Request \cup {None}
    /\ join \in [Request -> JoinRequest]
    /\ operations \in [Node -> 0..MaxOps]
    /\ ops \in [1..MaxOps -> Operation]
    /\ target \in Node \cup {None}
    /\ admitted \in [Token -> SUBSET Node]
    /\ transfers \subseteq Transfer /\ running \subseteq Transfer
    /\ task \in [Transfer -> Task]

\* NewClusterManagerWrapper
Init ==
    /\ tokens = [k \in Token |-> None] /\ issued = {}
    /\ members = [n \in Node |-> None]
    /\ jmu = None /\ target = None
    /\ join = [r \in Request |-> Idle]
    /\ operations = [n \in Node |-> 0] /\ ops = [o \in 1..MaxOps |-> NoOp]
    /\ admitted = [k \in Token |-> {}]
    /\ TransferInit

RequireAdmin(u) == u \in Admin

-----------------------------------------------------------------------------
(* Tokens.                                                                 *)

\* expires_in may be negative, so that a token is born expired.
GenerateToken(k, expired) ==
    /\ k \notin issued
    /\ issued' = issued \cup {k}
    /\ tokens' = [tokens EXCEPT ![k] = [UsedBy |-> None, expired |-> expired]]

handleClusterTokens(u) ==
    /\ RequireAdmin(u)
    /\ \E k \in Token, expired \in BOOLEAN : GenerateToken(k, expired)
    /\ UNCHANGED <<members, jmu, join, operations, ops, target, admitted>>

RevokeToken(k) ==
    /\ tokens[k] # None
    /\ tokens' = [tokens EXCEPT ![k] = None]

handleClusterToken(u) ==
    /\ RequireAdmin(u)
    /\ \E k \in Token : RevokeToken(k)
    /\ UNCHANGED <<issued, members, jmu, join, operations, ops, target, admitted>>

\* Time passes: a token outlives its ExpiresAt.
Expire(k) ==
    /\ tokens[k] # None /\ ~tokens[k].expired
    /\ tokens' = [tokens EXCEPT ![k].expired = TRUE]
    /\ UNCHANGED <<issued, members, jmu, join, operations, ops, target, admitted>>

CleanupExpiredTokens ==
    LET old == {k \in Token : tokens[k] # None /\ tokens[k].expired}
    IN  /\ old # {}
        /\ tokens' = [k \in Token |-> IF k \in old THEN None ELSE tokens[k]]
        /\ UNCHANGED <<issued, members, jmu, join, operations, ops, target, admitted>>

ValidateToken(k) ==
    /\ tokens[k] # None
    /\ ~tokens[k].expired
    /\ tokens[k].UsedBy = None

\* The token may have been revoked since it was validated: that is logged only.
MarkTokenUsed(k, n) ==
    tokens' = IF tokens[k] = None THEN tokens ELSE [tokens EXCEPT ![k].UsedBy = n]

-----------------------------------------------------------------------------
(* Members.                                                                *)

\* A node asks to join; it gives up after 30 seconds without being heard of.
SendJoinRequest(r, n, k) ==
    /\ join[r].stage = "idle"
    /\ k \in issued
    /\ join' = [join EXCEPT ![r] = [stage |-> "sent", node |-> n, token |-> k]]
    /\ UNCHANGED <<tokens, issued, members, jmu, operations, ops, target, admitted>>

\* A mutant: HandleJoinRequest does not take jm.mu.
JmUnlocked == TRUE

JmFree == jmu = None

RmFree == target = None

GetMember(n) == members[n] # None

\* A mutant: the refusal returns without giving jm.mu back.
JoinValidatesHolding(r) ==
    /\ join[r].stage = "sent" /\ JmFree
    /\ jmu' = r
    /\ join' = IF ValidateToken(join[r].token) /\ ~GetMember(join[r].node)
               THEN [join EXCEPT ![r].stage = "validated"] ELSE [join EXCEPT ![r] = Idle]
    /\ UNCHANGED <<tokens, issued, members, operations, ops, target, admitted>>

\* handleClusterJoin enters HandleJoinRequest: jm.mu is taken, the token
\* validated and the node looked up.  A refusal ends the request here.
JoinValidates(r) ==
    /\ join[r].stage = "sent" /\ JmFree
    /\ IF ValidateToken(join[r].token) /\ ~GetMember(join[r].node)
       THEN jmu' = r /\ join' = [join EXCEPT ![r].stage = "validated"]
       ELSE jmu' = jmu /\ join' = [join EXCEPT ![r] = Idle]
    /\ UNCHANGED <<tokens, issued, members, operations, ops, target, admitted>>

\* The rest of HandleJoinRequest.
JoinAdds(r) ==
    LET n == join[r].node
        k == join[r].token
    IN  /\ join[r].stage = "validated"
        /\ members' = [members EXCEPT ![n] = "active"]
        /\ MarkTokenUsed(k, n)
        /\ jmu' = None
        /\ join' = [join EXCEPT ![r] = Idle]
        /\ admitted' = [admitted EXCEPT ![k] = @ \cup {n}]
        /\ UNCHANGED <<issued, operations, ops, target>>

handleClusterJoin(r) == JoinValidates(r) \/ JoinAdds(r)

AddMember(n) ==
    /\ JmFree
    /\ ~GetMember(n)
    /\ members' = [members EXCEPT ![n] = "joining"]

handleClusterNodes(u) ==
    /\ RequireAdmin(u)
    /\ \E n \in Node : AddMember(n)
    /\ UNCHANGED <<tokens, issued, jmu, join, operations, ops, target, admitted>>

-----------------------------------------------------------------------------
(* Removals.                                                               *)

\* A mutant: a removal in progress is no obstacle.
NewRemoval(n) == TRUE

NotYetRemoving(n) == operations[n] = 0

NextOp == Cardinality({o \in 1..MaxOps : ops[o] # NoOp}) + 1

\* StartRemoval up to its lookups: rm.mu is taken, and jm.mu for GetMember.
StartRemoval(n) ==
    /\ RmFree /\ JmFree
    /\ GetMember(n)
    /\ NotYetRemoving(n)
    /\ NextOp \in 1..MaxOps
    /\ target' = n
    /\ UNCHANGED <<tokens, issued, members, jmu, join, operations, ops, admitted>>

handleRemoveNode(u) ==
    /\ RequireAdmin(u)
    /\ \E n \in Node : StartRemoval(n)

\* The other requests for one node only read.
handleClusterNode(u) == handleRemoveNode(u)

UpdateMemberStatus(n, status) ==
    members' = IF GetMember(n) THEN [members EXCEPT ![n] = status] ELSE members

\* The member's status and the operation; then the goroutine is started and
\* rm.mu released.  A member that is gone by now is an error of the request.
MarkDraining ==
    /\ ~RmFree /\ JmFree
    /\ UpdateMemberStatus(target, "draining")
    /\ IF GetMember(target)
       THEN /\ ops' = [ops EXCEPT ![NextOp] =
                        [node |-> target, Status |-> "draining", pc |-> "identify"]]
            /\ operations' = [operations EXCEPT ![target] = NextOp]
       ELSE UNCHANGED <<ops, operations>>
    /\ target' = None
    /\ UNCHANGED <<tokens, issued, jmu, join, admitted>>

\* The statuses that executeRemoval and failOperation report, by the position
\* of the goroutine, and where it goes on.
StatusAt == [identify |-> "identifying_data", transfer |-> "transferring",
             shutdown |-> "shutting_down", removing |-> "removing",
             complete |-> "completed", fail |-> "failed"]

After == [identify |-> "member", transfer |-> "shutdown", shutdown |-> "removing",
          removing |-> "remove", complete |-> "done", fail |-> "done"]

\* The goroutine of operation o has the node's id only; what it writes goes to
\* the operation that the table has for the node by then.  The operation's own
\* object keeps the goroutine's position.
WriteStatus(o, status, pc) ==
    LET cur == operations[ops[o].node]
        moved == [ops EXCEPT ![o].pc = pc]
    IN  ops' = IF cur = 0 THEN moved ELSE [moved EXCEPT ![cur].Status = status]

updateOperationStatus(o) ==
    /\ ops[o].pc \in DOMAIN StatusAt /\ RmFree
    /\ WriteStatus(o, StatusAt[ops[o].pc], After[ops[o].pc])
    /\ UNCHANGED <<tokens, issued, members, jmu, join, operations, target, admitted>>

\* GetMember.  identifyTransfers finds no transfers, so the goroutine starts
\* none and waitForTransfers returns at once.
GoroutineLooksUp(o) ==
    /\ ops[o].pc = "member" /\ JmFree
    /\ ops' = [ops EXCEPT ![o].pc = IF GetMember(ops[o].node) THEN "transfer" ELSE "fail"]
    /\ UNCHANGED <<tokens, issued, members, jmu, join, operations, target, admitted>>

RemoveMember(n) ==
    /\ JmFree
    /\ members' = [members EXCEPT ![n] = None]

GoroutineRemoves(o) ==
    LET n == ops[o].node
    IN  /\ ops[o].pc = "remove"
        /\ ops' = [ops EXCEPT ![o].pc = IF GetMember(n) THEN "complete" ELSE "fail"]
        /\ RemoveMember(n)
        /\ UNCHANGED <<tokens, issued, jmu, join, operations, target, admitted>>

executeRemoval(o) == updateOperationStatus(o) \/ GoroutineLooksUp(o) \/ GoroutineRemoves(o)

\* A mutant: the sweep does not look at the status.
SweptAny(n) == operations[n] # 0

SweptRemoval(n) == operations[n] # 0 /\ ops[operations[n]].Status = "completed"

\* Which of the completed removals are an hour old is open.
CleanupCompletedRemovals ==
    /\ RmFree
    /\ \E old \in (SUBSET {n \in Node : SweptRemoval(n)}) \ {{}} :
        operations' = [n \in Node |-> IF n \in old THEN 0 ELSE operations[n]]
    /\ UNCHANGED <<tokens, issued, members, jmu, join, ops, target, admitted>>

-----------------------------------------------------------------------------
ApiStep ==
    \E u \in User : handleClusterTokens(u) \/ handleClusterToken(u)
                    \/ handleClusterNodes(u) \/ handleClusterNode(u)

ClusterNext ==
    \/ ApiStep
    \/ \E k \in Token : Expire(k)
    \/ CleanupExpiredTokens
    \/ \E r \in Request : handleClusterJoin(r)
    \/ \E r \in Request, n \in Node, k \in Token : SendJoinRequest(r, n, k)
    \/ MarkDraining
    \/ \E o \in 1..MaxOps : executeRemoval(o)
    \/ CleanupCompletedRemovals

Next ==
    \/ ClusterNext /\ UNCHANGED tvars
    \/ TransferNext /\ UNCHANGED cvars

\* Requests and goroutines that have begun go on: nothing in them blocks but
\* the locks, and Go's mutexes let nobody wait for ever.
Fairness ==
    /\ \A r \in Request : WF_cvars(handleClusterJoin(r))
    /\ WF_cvars(MarkDraining)
    /\ \A o \in 1..MaxOps : SF_cvars(executeRemoval(o))
    /\ TransferFairness

Spec == Init /\ [][Next]_vars /\ Fairness

-----------------------------------------------------------------------------
(* Properties.                                                             *)

\* One token lets in one node, whatever requests race with it and whether or
\* not it is revoked between ValidateToken and MarkTokenUsed.
TokenAdmitsOne == \A k \in Token : Cardinality(admitted[k]) <= 1

\* The error paths of executeRemoval and of StartRemoval's second step are
\* never taken: the member is there until the one goroutine of its removal
\* takes it out.  (And every variable has its type.)
RemovalNeverFails ==
    /\ TypeOK
    /\ \A o \in 1..MaxOps : ops[o].pc # "fail" /\ ops[o].Status # "failed"
    /\ ~RmFree => members[target] # None

\* What is under way is listed.  A draining member is being removed: its
\* operation is the one the table has and its goroutine has not yet taken the
\* member out.  And every transfer that still moves data is in the table that
\* ListTransfers shows, cancelled or not.  Neither sweep takes out too much.
UnderWayIsListed ==
    /\ \A n \in Node : members[n] = "draining" =>
        /\ operations[n] # 0
        /\ ops[operations[n]].node = n
        /\ ops[operations[n]].pc \in {"identify", "member", "transfer", "shutdown",
                                      "removing", "remove"}
    /\ running \subseteq transfers

\* What was accepted ends.  A removal takes the node out and is reported
\* completed, joins, revocations and other removals notwithstanding.  The
\* goroutine of a started transfer returns, and the transfer is reported as over.
\* (How a cancelled one is reported is left open: CancelTransfer stores "failed",
\* and executeTransfer, which never looks at it, stores "completed" later.)
AcceptedEnds ==
    /\ \A o \in 1..MaxOps : ops[o].pc = "identify" ~> ops[o].Status = "completed"
    /\ \A t \in Transfer :
        t \in running ~> t \notin running /\ task[t].Status \in {"completed", "failed"}
=============================================================================
