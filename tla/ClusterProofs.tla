--------------------------- MODULE ClusterProofs ---------------------------
(***************************************************************************)
(* Theorems about ClusterOps and Transfers, for every set of nodes, tokens *)
(* and requests and every number of removals and transfers.                *)
(***************************************************************************)
EXTENDS ClusterOps, FiniteSetTheorems, TLAPS

(***************************************************************************)
(* The inductive invariant.                                                *)
(***************************************************************************)

\* A token that let a node in is gone or marked, and was generated, so that it
\* is not generated again.
TokensInv ==
    \A k \in Token :
        /\ tokens[k] # None \/ admitted[k] # {} => k \in issued
        /\ admitted[k] # {} => tokens[k] = None \/ tokens[k].UsedBy # None
        /\ \A m, n \in admitted[k] : m = n

\* The request between its two steps is the one that holds jm.mu; its node is
\* no member yet and its token has let nobody in.
JoinsInv ==
    \A r \in Request :
        /\ join[r].stage # "idle" => join[r].node \in Node /\ join[r].token \in issued
        /\ join[r].stage = "validated" =>
            /\ jmu = r
            /\ members[join[r].node] = None
            /\ admitted[join[r].token] = {}

Removing == {"identify", "member", "transfer", "shutdown", "removing", "remove"}

\* The operation objects in use come first.
Used == {o \in 1..MaxOps : ops[o] # NoOp}

UsedInv == \E m \in 0..MaxOps : Used = 1..m

\* The request that holds rm.mu may go on: its node is a member without an
\* operation, and there is an object left.
TargetInv ==
    target # None =>
        /\ members[target] # None
        /\ operations[target] = 0
        /\ NextOp \in 1..MaxOps

\* While its goroutine runs, an operation is the one in the table for its node,
\* and not reported completed; the node drains until it is taken out.
OpsInv ==
    \A o \in 1..MaxOps :
        /\ ops[o].pc # "fail" /\ ops[o].Status # "failed"
        /\ ops[o].pc \in Removing \cup {"complete"} =>
            /\ ops[o].node \in Node
            /\ operations[ops[o].node] = o
            /\ ops[o].Status # "completed"
        /\ ops[o].pc \in Removing => members[ops[o].node] = "draining"

\* The table maps a node to an operation for that node.
TableInv == \A n \in Node : operations[n] # 0 => ops[operations[n]].node = n

DrainingInv ==
    \A n \in Node : members[n] = "draining" =>
        operations[n] # 0 /\ ops[operations[n]].pc \in Removing

RemovalInv == UsedInv /\ TargetInv /\ OpsInv /\ TableInv /\ DrainingInv

\* The goroutine of a transfer runs only while its task is in the table and not
\* completed.
TransferInv == \A t \in running : t \in transfers /\ task[t].Status # "completed"

ClusterInv == TypeOK /\ TokensInv /\ JoinsInv /\ RemovalInv /\ TransferInv

(***************************************************************************)
(* Type correctness.                                                       *)
(***************************************************************************)

\* MarkTokenUsed marks one token.
LEMMA UsedByChanges ==
    ASSUME TypeOK, NEW k \in Token, NEW n \in Node, MarkTokenUsed(k, n)
    PROVE  /\ tokens' \in [Token -> TokenEntry \cup {None}]
           /\ tokens[k] = None => tokens'[k] = None
           /\ tokens[k] # None => tokens'[k].UsedBy = n
           /\ \A j \in Token : j # k => tokens'[j] = tokens[j]
<1>1. tokens \in [Token -> TokenEntry \cup {None}]
  BY DEF TypeOK
<1>2. CASE tokens[k] = None
  BY <1>1, <1>2 DEF MarkTokenUsed
<1>3. CASE tokens[k] # None
  <2> DEFINE e == [tokens[k] EXCEPT !.UsedBy = n]
  <2>1. tokens[k] \in TokenEntry
    BY <1>1, <1>3
  <2>2. e \in TokenEntry /\ e.UsedBy = n
    BY <2>1 DEF TokenEntry
  <2>3. tokens' = [tokens EXCEPT ![k] = e]
    BY <1>3 DEF MarkTokenUsed
  <2> HIDE DEF e
  <2> QED
    BY <1>1, <1>3, <2>2, <2>3
<1> QED
  BY <1>2, <1>3

\* A token that expires stays used or unused.
LEMMA ExpiredChanges ==
    ASSUME TypeOK, NEW k \in Token, Expire(k)
    PROVE  /\ tokens' \in [Token -> TokenEntry \cup {None}]
           /\ tokens'[k].UsedBy = tokens[k].UsedBy
           /\ \A j \in Token : j # k => tokens'[j] = tokens[j]
<1> DEFINE e == [tokens[k] EXCEPT !.expired = TRUE]
<1>1. tokens \in [Token -> TokenEntry \cup {None}] /\ tokens[k] \in TokenEntry
  BY DEF TypeOK, Expire
<1>2. e \in TokenEntry /\ e.UsedBy = tokens[k].UsedBy
  BY <1>1 DEF TokenEntry
<1>3. tokens' = [tokens EXCEPT ![k] = e]
  BY DEF Expire
<1> HIDE DEF e
<1> QED
  BY <1>1, <1>2, <1>3

\* A request that was validated changes its stage alone.
LEMMA StageChanges ==
    ASSUME TypeOK, NEW r \in Request, join' = [join EXCEPT ![r].stage = "validated"]
    PROVE  /\ join' \in [Request -> JoinRequest]
           /\ join'[r].stage = "validated"
           /\ join'[r].node = join[r].node /\ join'[r].token = join[r].token
           /\ \A x \in Request : x # r => join'[x] = join[x]
<1>1. join \in [Request -> JoinRequest]
  BY DEF TypeOK
<1> DEFINE e == [join[r] EXCEPT !.stage = "validated"]
<1>2. /\ e \in JoinRequest
      /\ e.stage = "validated" /\ e.node = join[r].node /\ e.token = join[r].token
  BY <1>1 DEF JoinRequest
<1>3. join' = [join EXCEPT ![r] = e]
  OBVIOUS
<1> HIDE DEF e
<1> QED
  BY <1>1, <1>2, <1>3

\* The goroutine of a removal moves on without a report.
LEMMA PcChanges ==
    ASSUME TypeOK, NEW o \in 1..MaxOps, NEW pc \in {"transfer", "complete", "fail"},
           ops' = [ops EXCEPT ![o].pc = pc]
    PROVE  /\ ops' \in [1..MaxOps -> Operation]
           /\ ops'[o].node = ops[o].node /\ ops'[o].Status = ops[o].Status
           /\ ops'[o].pc = pc
           /\ \A x \in 1..MaxOps : x # o => ops'[x] = ops[x]
<1>1. ops \in [1..MaxOps -> Operation]
  BY DEF TypeOK
<1> DEFINE e == [ops[o] EXCEPT !.pc = pc]
<1>2. /\ e \in Operation
      /\ e.pc = pc /\ e.node = ops[o].node /\ e.Status = ops[o].Status
  BY <1>1 DEF Operation
<1>3. ops' = [ops EXCEPT ![o] = e]
  OBVIOUS
<1> HIDE DEF e
<1> QED
  BY <1>1, <1>2, <1>3

\* updateOperationStatus reports on the goroutine's own operation: the table
\* still has it for the node.
LEMMA StatusChanges ==
    ASSUME TypeOK, OpsInv, NEW o \in 1..MaxOps, updateOperationStatus(o)
    PROVE  /\ ops' \in [1..MaxOps -> Operation]
           /\ ops'[o].node = ops[o].node
           /\ ops'[o].Status = StatusAt[ops[o].pc]
           /\ ops'[o].pc = After[ops[o].pc]
           /\ \A x \in 1..MaxOps : x # o => ops'[x] = ops[x]
<1> DEFINE pc == After[ops[o].pc]
           status == StatusAt[ops[o].pc]
           e == [ops[o] EXCEPT !.pc = pc]
           f == [e EXCEPT !.Status = status]
<1>1. ops \in [1..MaxOps -> Operation] /\ operations \in [Node -> 0..MaxOps]
  BY DEF TypeOK
<1>2. ops[o].pc \in {"identify", "transfer", "shutdown", "removing", "complete"}
  BY DEF updateOperationStatus, StatusAt, OpsInv
<1>3. operations[ops[o].node] = o
  BY <1>2 DEF OpsInv, Removing
<1>4. /\ pc \in {"member", "shutdown", "removing", "remove", "done"}
      /\ status \in {"identifying_data", "transferring", "shutting_down", "removing",
                      "completed"}
  BY <1>2 DEF After, StatusAt
<1>5. ops' = [[ops EXCEPT ![o].pc = pc] EXCEPT ![o].Status = status]
  BY <1>3, ClusterAssumption DEF updateOperationStatus, WriteStatus
<1> HIDE DEF pc, status
<1>6. /\ e \in Operation
      /\ e.pc = pc /\ e.node = ops[o].node
  BY <1>1, <1>4 DEF Operation
<1>7. /\ f \in Operation
      /\ f.pc = pc /\ f.node = ops[o].node /\ f.Status = status
  <2> HIDE DEF e
  <2> QED
    BY <1>6, <1>4 DEF Operation
<1>8. ops' = [ops EXCEPT ![o] = f]
  <2>1. [ops EXCEPT ![o].pc = pc] = [ops EXCEPT ![o] = e]
    OBVIOUS
  <2> HIDE DEF e
  <2> QED
    BY <2>1, <1>5, <1>1
<1> HIDE DEF f
<1> QED
  BY <1>1, <1>7, <1>8 DEF pc, status

\* The handlers and goroutines of the managers keep the types.
LEMMA ClusterKeepsType ==
    ASSUME TypeOK, JoinsInv, TargetInv, OpsInv, ClusterNext, UNCHANGED tvars
    PROVE  TypeOK'
<1> USE ClusterAssumption DEF TypeOK
<1>a. transfers' \subseteq Transfer /\ running' \subseteq Transfer /\ task' \in [Transfer -> Task]
  BY DEF tvars
<1>1. ASSUME NEW u \in User, handleClusterTokens(u)
      PROVE  TypeOK'
  BY <1>1, <1>a DEF handleClusterTokens, GenerateToken, TokenEntry
<1>2. ASSUME NEW u \in User, handleClusterToken(u)
      PROVE  TypeOK'
  BY <1>2, <1>a DEF handleClusterToken, RevokeToken
<1>3. ASSUME NEW u \in User, handleClusterNodes(u)
      PROVE  TypeOK'
  BY <1>3, <1>a DEF handleClusterNodes, AddMember
<1>4. ASSUME NEW n \in Node, StartRemoval(n)
      PROVE  TypeOK'
  BY <1>4, <1>a DEF StartRemoval
<1>5. ASSUME NEW k \in Token, Expire(k)
      PROVE  TypeOK'
  BY <1>5, <1>a, ExpiredChanges DEF Expire
<1>6. ASSUME CleanupExpiredTokens
      PROVE  TypeOK'
  BY <1>6, <1>a DEF CleanupExpiredTokens
<1>7. ASSUME NEW r \in Request, JoinValidates(r)
      PROVE  TypeOK'
  <2>1. join' \in [Request -> JoinRequest]
    <3>1. CASE join' = [join EXCEPT ![r].stage = "validated"]
      BY <3>1, StageChanges
    <3>2. CASE join' = [join EXCEPT ![r] = Idle]
      BY <3>2 DEF Idle, JoinRequest
    <3> QED
      BY <1>7, <3>1, <3>2 DEF JoinValidates
  <2> QED
    BY <1>7, <1>a, <2>1 DEF JoinValidates
<1>8. ASSUME NEW r \in Request, JoinAdds(r)
      PROVE  TypeOK'
  <2> DEFINE n == join[r].node
             k == join[r].token
  <2>1. n \in Node /\ k \in Token
    BY <1>8 DEF JoinAdds, JoinsInv
  <2>2. tokens' \in [Token -> TokenEntry \cup {None}]
    BY <1>8, <2>1, UsedByChanges DEF JoinAdds
  <2>3. join' = [join EXCEPT ![r] = Idle] /\ Idle \in JoinRequest
    BY <1>8 DEF JoinAdds, Idle, JoinRequest
  <2>4. /\ members' = [members EXCEPT ![n] = "active"]
        /\ admitted' = [admitted EXCEPT ![k] = admitted[k] \cup {n}]
        /\ jmu' = None /\ UNCHANGED <<issued, operations, ops, target>>
    BY <1>8 DEF JoinAdds
  <2> HIDE DEF n, k
  <2>5. admitted' \in [Token -> SUBSET Node]
    BY <2>1, <2>4
  <2> QED
    BY <1>a, <2>1, <2>2, <2>3, <2>4, <2>5
<1>9. ASSUME NEW r \in Request, NEW n \in Node, NEW k \in Token, SendJoinRequest(r, n, k)
      PROVE  TypeOK'
  BY <1>9, <1>a DEF SendJoinRequest, JoinRequest
<1>10. ASSUME MarkDraining
       PROVE  TypeOK'
  <2> DEFINE e == [node |-> target, Status |-> "draining", pc |-> "identify"]
  <2>1. target \in Node /\ NextOp \in 1..MaxOps
    BY <1>10 DEF MarkDraining, RmFree, TargetInv
  <2>2. e \in Operation
    BY <2>1 DEF Operation
  <2>3. /\ ops' \in [1..MaxOps -> Operation]
        /\ operations' \in [Node -> 0..MaxOps]
    <3> HIDE DEF e
    <3> QED
      BY <1>10, <2>1, <2>2 DEF MarkDraining, e
  <2>4. members' \in [Node -> {"joining", "active", "draining", None}]
    BY <1>10, <2>1 DEF MarkDraining, UpdateMemberStatus
  <2> QED
    BY <1>10, <1>a, <2>3, <2>4 DEF MarkDraining
<1>11. ASSUME NEW o \in 1..MaxOps, updateOperationStatus(o)
       PROVE  TypeOK'
  BY <1>11, <1>a, StatusChanges DEF updateOperationStatus
<1>12. ASSUME NEW o \in 1..MaxOps, GoroutineLooksUp(o)
       PROVE  TypeOK'
  BY <1>12, <1>a, PcChanges DEF GoroutineLooksUp
<1>13. ASSUME NEW o \in 1..MaxOps, GoroutineRemoves(o)
       PROVE  TypeOK'
  BY <1>13, <1>a, PcChanges DEF GoroutineRemoves, RemoveMember
<1>14. ASSUME CleanupCompletedRemovals
      PROVE  TypeOK'
  BY <1>14, <1>a DEF CleanupCompletedRemovals
<1> QED
  BY <1>1, <1>2, <1>3, <1>4, <1>5, <1>6, <1>7, <1>8, <1>9, <1>10, <1>11, <1>12, <1>13,
     <1>14 DEF ClusterNext, ApiStep, handleClusterNode, handleRemoveNode,
               handleClusterJoin, executeRemoval

(***************************************************************************)
(* Joins and tokens.                                                       *)
(***************************************************************************)

\* The handlers keep what is known of tokens: GenerateToken makes fresh ones,
\* and the join that uses one marks it before jm.mu is given back.
LEMMA ClusterKeepsTokens ==
    ASSUME TypeOK, TokensInv, JoinsInv, ClusterNext
    PROVE  TokensInv'
<1> USE ClusterAssumption
<1>1. ASSUME UNCHANGED <<tokens, issued, admitted>>
      PROVE  TokensInv'
  BY <1>1 DEF TokensInv
<1>2. ASSUME NEW u \in User, handleClusterTokens(u)
      PROVE  TokensInv'
  BY <1>2 DEF TokensInv, handleClusterTokens, GenerateToken, TypeOK
<1>3. ASSUME NEW u \in User, handleClusterToken(u)
      PROVE  TokensInv'
  BY <1>3 DEF TokensInv, handleClusterToken, RevokeToken, TypeOK
<1>4. ASSUME NEW k \in Token, Expire(k)
      PROVE  TokensInv'
  BY <1>4, ExpiredChanges DEF TokensInv, Expire
<1>5. ASSUME CleanupExpiredTokens
      PROVE  TokensInv'
  BY <1>5 DEF TokensInv, CleanupExpiredTokens
<1>6. ASSUME NEW r \in Request, JoinAdds(r)
      PROVE  TokensInv'
  <2> DEFINE n == join[r].node
             k == join[r].token
  <2>1. n \in Node /\ k \in Token /\ k \in issued /\ admitted[k] = {}
    BY <1>6 DEF JoinAdds, JoinsInv, TypeOK
  <2>2. /\ tokens[k] = None => tokens'[k] = None
        /\ tokens[k] # None => tokens'[k].UsedBy = n
        /\ \A j \in Token : j # k => tokens'[j] = tokens[j]
    BY <1>6, <2>1, UsedByChanges DEF JoinAdds
  <2>3. admitted' = [admitted EXCEPT ![k] = admitted[k] \cup {n}] /\ issued' = issued
    BY <1>6 DEF JoinAdds
  <2>4. /\ admitted'[k] = {n}
        /\ \A j \in Token : j # k => admitted'[j] = admitted[j]
    BY <2>1, <2>3 DEF TypeOK
  <2> HIDE DEF n, k
  <2> QED
    BY <2>1, <2>2, <2>3, <2>4 DEF TokensInv
<1> QED
  BY <1>1, <1>2, <1>3, <1>4, <1>5, <1>6
  DEF ClusterNext, ApiStep, handleClusterNodes, handleClusterNode, handleRemoveNode,
      StartRemoval, handleClusterJoin, JoinValidates, SendJoinRequest, MarkDraining,
      executeRemoval, updateOperationStatus, GoroutineLooksUp, GoroutineRemoves,
      CleanupCompletedRemovals

\* HandleJoinRequest keeps jm.mu between its two steps, so nothing else adds the
\* node or uses the token there.
LEMMA ClusterKeepsJoins ==
    ASSUME TypeOK, TokensInv, JoinsInv, ClusterNext
    PROVE  JoinsInv'
<1> USE ClusterAssumption
<1>1. ASSUME UNCHANGED <<jmu, join, admitted>>, issued \subseteq issued',
             UNCHANGED members \/ JmFree
      PROVE  JoinsInv'
  BY <1>1 DEF JoinsInv, JmFree
<1>2. ASSUME NEW r \in Request, NEW n \in Node, NEW k \in Token, SendJoinRequest(r, n, k)
      PROVE  JoinsInv'
  BY <1>2 DEF JoinsInv, SendJoinRequest, TypeOK
<1>3. ASSUME NEW r \in Request, JoinValidates(r)
      PROVE  JoinsInv'
  <2>1. ASSUME NEW x \in Request PROVE join[x].stage # "validated"
    BY <1>3 DEF JoinsInv, JoinValidates, JmFree
  <2>2. UNCHANGED <<tokens, issued, members, admitted>>
    BY <1>3 DEF JoinValidates
  <2>3. CASE ValidateToken(join[r].token) /\ ~GetMember(join[r].node)
    <3>1. jmu' = r /\ join' = [join EXCEPT ![r].stage = "validated"]
      BY <1>3, <2>3 DEF JoinValidates
    <3>2. /\ join'[r].node = join[r].node /\ join'[r].token = join[r].token
          /\ \A x \in Request : x # r => join'[x] = join[x]
      BY <3>1, StageChanges
    <3>3. join[r].token \in issued /\ join[r].node \in Node /\ join[r].token \in Token
      BY <1>3 DEF JoinValidates, JoinsInv, TypeOK
    <3>4. members[join[r].node] = None /\ admitted[join[r].token] = {}
      BY <2>3, <3>3 DEF TokensInv, ValidateToken, GetMember
    <3> QED
      BY <2>1, <2>2, <3>1, <3>2, <3>3, <3>4 DEF JoinsInv
  <2>4. CASE ~(ValidateToken(join[r].token) /\ ~GetMember(join[r].node))
    <3>1. jmu' = jmu /\ join' = [join EXCEPT ![r] = Idle]
      BY <1>3, <2>4 DEF JoinValidates
    <3> QED
      BY <2>1, <2>2, <3>1 DEF JoinsInv, Idle, TypeOK
  <2> QED
    BY <2>3, <2>4
<1>4. ASSUME NEW r \in Request, JoinAdds(r)
      PROVE  JoinsInv'
  <2>1. ASSUME NEW x \in Request, x # r PROVE join[x].stage # "validated"
    BY <1>4, <2>1 DEF JoinsInv, JoinAdds
  <2>2. join' = [join EXCEPT ![r] = Idle] /\ issued' = issued
    BY <1>4 DEF JoinAdds
  <2> QED
    BY <2>1, <2>2 DEF JoinsInv, Idle, TypeOK
<1> QED
  BY <1>1, <1>2, <1>3, <1>4
  DEF ClusterNext, ApiStep, handleClusterTokens, GenerateToken, handleClusterToken,
      handleClusterNodes, AddMember, handleClusterNode, handleRemoveNode, StartRemoval,
      Expire, CleanupExpiredTokens, handleClusterJoin, MarkDraining, executeRemoval,
      updateOperationStatus, GoroutineLooksUp, GoroutineRemoves, RemoveMember,
      CleanupCompletedRemovals

(***************************************************************************)
(* Removals.                                                               *)
(***************************************************************************)

\* StartRemoval takes the first object not yet in use.
LEMMA NextOpIsFree ==
    ASSUME TypeOK, NEW m \in 0..MaxOps, Used = 1..m
    PROVE  NextOp = m + 1
<1>1. m \in Int /\ 1 \in Int
  BY ClusterAssumption
<1>2. Cardinality(1..m) = IF 1 > m THEN 0 ELSE m - 1 + 1
  BY <1>1, FS_Interval
<1> QED
  <2>1. NextOp = Cardinality(1..m) + 1
    BY DEF NextOp, Used
  <2> QED
    BY <1>1, <1>2, <2>1, ClusterAssumption

\* An operation whose goroutine runs stays in use while it moves on.
LEMMA UsedStays ==
    ASSUME TypeOK, UsedInv, NEW o \in 1..MaxOps, ops[o].pc # "none", ops'[o].pc # "none",
           \A x \in 1..MaxOps : x # o => ops'[x] = ops[x]
    PROVE  Used' = Used /\ NextOp' = NextOp /\ UsedInv'
<1>1. ops[o] # NoOp /\ ops'[o] # NoOp
  BY DEF NoOp
<1>2. Used' = Used
  BY <1>1 DEF Used
<1> QED
  BY <1>2 DEF UsedInv, NextOp, Used

\* No handler or goroutine loses a removal: a node drains exactly while its
\* removal goes on, the table of operations has that removal, and the member is
\* there whenever the goroutine or the second step of StartRemoval looks.
LEMMA ClusterKeepsRemovals ==
    ASSUME TypeOK, JoinsInv, RemovalInv, ClusterNext
    PROVE  RemovalInv'
<1> USE ClusterAssumption
<1>1. ASSUME UNCHANGED <<members, operations, ops, target>>
      PROVE  RemovalInv'
  BY <1>1 DEF RemovalInv, UsedInv, Used, TargetInv, NextOp, OpsInv, TableInv, DrainingInv
<1>2. ASSUME NEW n \in Node, NEW status \in {"joining", "active"}, members[n] = None,
             members' = [members EXCEPT ![n] = status], UNCHANGED <<operations, ops, target>>
      PROVE  RemovalInv'
  <2>1. UsedInv' /\ TableInv'
    BY <1>2 DEF RemovalInv, UsedInv, Used, TableInv
  <2>2. TargetInv' /\ OpsInv' /\ DrainingInv'
    BY <1>2 DEF RemovalInv, TargetInv, NextOp, OpsInv, DrainingInv, TypeOK
  <2> QED
    BY <2>1, <2>2 DEF RemovalInv
<1>3. ASSUME NEW n \in Node, StartRemoval(n)
      PROVE  RemovalInv'
  BY <1>3 DEF RemovalInv, UsedInv, Used, TargetInv, NextOp, OpsInv, TableInv, DrainingInv,
              StartRemoval, GetMember, NotYetRemoving
<1>4. ASSUME MarkDraining
      PROVE  RemovalInv'
  <2> DEFINE e == [node |-> target, Status |-> "draining", pc |-> "identify"]
  <2>1. PICK m \in 0..MaxOps : Used = 1..m
    BY DEF RemovalInv, UsedInv
  <2>2. /\ target \in Node /\ members[target] # None /\ operations[target] = 0
        /\ NextOp \in 1..MaxOps /\ NextOp = m + 1
    BY <1>4, <2>1, NextOpIsFree DEF MarkDraining, RmFree, RemovalInv, TargetInv, TypeOK
  <2>3. /\ members' = [members EXCEPT ![target] = "draining"]
        /\ ops' = [ops EXCEPT ![m + 1] = e]
        /\ operations' = [operations EXCEPT ![target] = m + 1]
        /\ target' = None
    BY <1>4, <2>2 DEF MarkDraining, UpdateMemberStatus, GetMember
  <2>4. /\ e.node = target /\ e.Status = "draining" /\ e.pc = "identify" /\ e # NoOp
    BY <2>2 DEF NoOp
  <2>5. ops[m + 1] = NoOp
    BY <2>1, <2>2 DEF Used
  <2> HIDE DEF e
  <2>6. /\ ops'[m + 1] = e
        /\ \A x \in 1..MaxOps : x # m + 1 => ops'[x] = ops[x]
        /\ operations'[target] = m + 1
        /\ \A n \in Node : n # target => operations'[n] = operations[n]
        /\ members'[target] = "draining"
        /\ \A n \in Node : n # target => members'[n] = members[n]
    BY <2>2, <2>3 DEF TypeOK
  <2>7. UsedInv'
    <3>1. Used' = 1..(m + 1)
      BY <2>1, <2>2, <2>4, <2>6 DEF Used
    <3> QED
      BY <3>1, <2>2 DEF UsedInv
  <2>8. \A n \in Node : operations[n] # m + 1
    BY <2>2, <2>5 DEF RemovalInv, TableInv, NoOp
  <2>9. OpsInv'
    <3> SUFFICES ASSUME NEW o \in 1..MaxOps
                 PROVE  (/\ ops[o].pc # "fail" /\ ops[o].Status # "failed"
                         /\ ops[o].pc \in Removing \cup {"complete"} =>
                             /\ ops[o].node \in Node
                             /\ operations[ops[o].node] = o
                             /\ ops[o].Status # "completed"
                         /\ ops[o].pc \in Removing => members[ops[o].node] = "draining")'
      BY DEF OpsInv
    <3>1. CASE o = m + 1
      BY <3>1, <2>2, <2>4, <2>6 DEF Removing
    <3>2. CASE o # m + 1
      <4>1. ops'[o] = ops[o]
        BY <3>2, <2>6
      <4>2. ops[o].pc \in Removing \cup {"complete"} => ops[o].node # target
        BY <2>2 DEF RemovalInv, OpsInv
      <4> QED
        BY <4>1, <4>2, <2>6 DEF RemovalInv, OpsInv
    <3> QED
      BY <3>1, <3>2
  <2>10. TableInv' /\ DrainingInv'
    <3> SUFFICES ASSUME NEW n \in Node
                 PROVE  (/\ operations[n] # 0 => ops[operations[n]].node = n
                         /\ members[n] = "draining" =>
                             operations[n] # 0 /\ ops[operations[n]].pc \in Removing)'
      BY DEF TableInv, DrainingInv
    <3>1. CASE n = target
      BY <3>1, <2>2, <2>4, <2>6 DEF Removing
    <3>2. CASE n # target
      <4>1. operations[n] \in 0..MaxOps /\ operations[n] # m + 1
        BY <2>8 DEF TypeOK
      <4>2. operations'[n] = operations[n] /\ members'[n] = members[n]
        BY <3>2, <2>6
      <4>3. operations[n] # 0 => ops'[operations[n]] = ops[operations[n]]
        BY <4>1, <2>6
      <4> QED
        BY <4>2, <4>3 DEF RemovalInv, TableInv, DrainingInv
    <3> QED
      BY <3>1, <3>2
  <2>11. TargetInv'
    BY <2>3 DEF TargetInv
  <2> QED
    BY <2>7, <2>9, <2>10, <2>11 DEF RemovalInv
<1>5. ASSUME NEW o \in 1..MaxOps, updateOperationStatus(o)
      PROVE  RemovalInv'
  <2>1. /\ ops'[o].node = ops[o].node
        /\ ops'[o].Status = StatusAt[ops[o].pc]
        /\ ops'[o].pc = After[ops[o].pc]
        /\ \A x \in 1..MaxOps : x # o => ops'[x] = ops[x]
    BY <1>5, StatusChanges DEF RemovalInv
  <2>2. UNCHANGED <<members, operations, target>>
    BY <1>5 DEF updateOperationStatus
  <2>3. ops[o].pc \in {"identify", "transfer", "shutdown", "removing", "complete"}
    BY <1>5 DEF updateOperationStatus, StatusAt, RemovalInv, OpsInv
  <2>a. \A n \in Node : operations[n] # 0 => operations[n] \in 1..MaxOps
    BY DEF TypeOK
  <2>b. TableInv'
    BY <2>1, <2>2, <2>a DEF RemovalInv, TableInv
  <2>4. CASE ops[o].pc = "complete"
    <3>1. ops'[o].Status = "completed" /\ ops'[o].pc = "done"
      BY <2>1, <2>4 DEF StatusAt, After
    <3>2. UsedInv' /\ NextOp' = NextOp
      BY <2>1, <2>4, <3>1, UsedStays DEF RemovalInv
    <3>3. \A n \in Node : members[n] = "draining" => operations[n] # o
      BY <2>4 DEF RemovalInv, DrainingInv, Removing
    <3>4. OpsInv'
      BY <2>1, <2>2, <3>1 DEF RemovalInv, OpsInv, Removing
    <3>5. TargetInv'
      BY <2>2, <3>2 DEF RemovalInv, TargetInv
    <3>6. DrainingInv'
      BY <2>1, <2>2, <3>3, <2>a DEF RemovalInv, DrainingInv
    <3> QED
      BY <2>b, <3>2, <3>4, <3>5, <3>6 DEF RemovalInv
  <2>5. CASE ops[o].pc # "complete"
    <3>1. /\ ops'[o].Status \notin {"completed", "failed"}
          /\ ops'[o].pc \in Removing /\ ops[o].pc \in Removing
      BY <2>1, <2>3, <2>5 DEF StatusAt, After, Removing
    <3>2. ops'[o].pc # "none" /\ ops[o].pc # "none"
      BY <3>1 DEF Removing
    <3>3. UsedInv' /\ NextOp' = NextOp
      BY <2>1, <3>2, UsedStays DEF RemovalInv
    <3>4. OpsInv'
      BY <2>1, <2>2, <3>1 DEF RemovalInv, OpsInv, Removing
    <3>5. TargetInv'
      BY <2>2, <3>3 DEF RemovalInv, TargetInv
    <3>6. DrainingInv'
      BY <2>1, <2>2, <3>1, <2>a DEF RemovalInv, DrainingInv
    <3> QED
      BY <2>b, <3>3, <3>4, <3>5, <3>6 DEF RemovalInv
  <2> QED
    BY <2>4, <2>5
<1>6. ASSUME NEW o \in 1..MaxOps, GoroutineLooksUp(o)
      PROVE  RemovalInv'
  <2>1. ops[o].pc = "member" /\ ops[o].pc \in Removing
    BY <1>6 DEF GoroutineLooksUp, Removing
  <2>2. GetMember(ops[o].node)
    BY <2>1 DEF RemovalInv, OpsInv, GetMember
  <2>3. ops' = [ops EXCEPT ![o].pc = "transfer"] /\ UNCHANGED <<members, operations, target>>
    BY <1>6, <2>2 DEF GoroutineLooksUp
  <2>4. /\ ops'[o].node = ops[o].node /\ ops'[o].Status = ops[o].Status
        /\ ops'[o].pc = "transfer" /\ ops'[o].pc \in Removing
        /\ \A x \in 1..MaxOps : x # o => ops'[x] = ops[x]
    BY <2>3, PcChanges DEF Removing
  <2>5. UsedInv' /\ NextOp' = NextOp
    BY <2>1, <2>4, UsedStays DEF RemovalInv
  <2>6. OpsInv'
    BY <2>1, <2>3, <2>4 DEF RemovalInv, OpsInv
  <2> QED
    BY <2>1, <2>3, <2>4, <2>5, <2>6
    DEF RemovalInv, TargetInv, TableInv, DrainingInv, TypeOK
<1>7. ASSUME NEW o \in 1..MaxOps, GoroutineRemoves(o)
      PROVE  RemovalInv'
  <2> DEFINE n == ops[o].node
  <2>1. ops[o].pc = "remove" /\ ops[o].pc \in Removing
    BY <1>7 DEF GoroutineRemoves, Removing
  <2>2. /\ n \in Node /\ operations[n] = o /\ members[n] = "draining"
        /\ ops[o].Status # "completed"
    BY <2>1 DEF RemovalInv, OpsInv
  <2>3. /\ ops' = [ops EXCEPT ![o].pc = "complete"]
        /\ members' = [members EXCEPT ![n] = None]
        /\ UNCHANGED <<operations, target>>
    BY <1>7, <2>2 DEF GoroutineRemoves, RemoveMember, GetMember
  <2>4. /\ ops'[o].node = ops[o].node /\ ops'[o].Status = ops[o].Status
        /\ ops'[o].pc = "complete" /\ ops'[o].pc \notin Removing
        /\ \A x \in 1..MaxOps : x # o => ops'[x] = ops[x]
    BY <2>3, PcChanges DEF Removing
  <2>5. UsedInv' /\ NextOp' = NextOp
    BY <2>1, <2>4, UsedStays DEF RemovalInv
  <2>6. members'[n] = None /\ \A x \in Node : x # n => members'[x] = members[x]
    BY <2>2, <2>3 DEF TypeOK
  <2>7. target # n
    BY <2>2 DEF RemovalInv, TargetInv
  <2>8. \A x \in 1..MaxOps : x # o /\ ops[x].pc \in Removing => ops[x].node # n
    BY <2>2 DEF RemovalInv, OpsInv
  <2>9. \A x \in Node : x # n => operations[x] # o
    BY <2>2 DEF RemovalInv, TableInv
  <2> HIDE DEF n
  <2>10. OpsInv'
    BY <2>1, <2>2, <2>3, <2>4, <2>6, <2>8 DEF RemovalInv, OpsInv, n
  <2>11. TargetInv'
    BY <2>3, <2>5, <2>6, <2>7 DEF RemovalInv, TargetInv, TypeOK
  <2>12. TableInv' /\ DrainingInv'
    BY <2>3, <2>4, <2>6, <2>9 DEF RemovalInv, TableInv, DrainingInv, TypeOK
  <2> QED
    BY <2>5, <2>10, <2>11, <2>12 DEF RemovalInv
<1>8. ASSUME CleanupCompletedRemovals
      PROVE  RemovalInv'
  <2>1. PICK old \in (SUBSET {n \in Node : SweptRemoval(n)}) \ {{}} :
          operations' = [n \in Node |-> IF n \in old THEN 0 ELSE operations[n]]
    BY <1>8 DEF CleanupCompletedRemovals
  <2>2. UNCHANGED <<members, ops, target>> /\ target = None
    BY <1>8 DEF CleanupCompletedRemovals, RmFree
  <2>3. ASSUME NEW n \in Node, n \in old PROVE ops[operations[n]].pc \notin Removing \cup {"complete"}
    BY <2>1, <2>3 DEF SweptRemoval, RemovalInv, OpsInv, TypeOK
  <2>4. UsedInv' /\ TargetInv'
    BY <2>2 DEF RemovalInv, UsedInv, Used, TargetInv
  <2>5. OpsInv'
    BY <2>1, <2>2, <2>3 DEF RemovalInv, OpsInv
  <2>6. TableInv' /\ DrainingInv'
    BY <2>1, <2>2, <2>3 DEF RemovalInv, TableInv, DrainingInv
  <2> QED
    BY <2>4, <2>5, <2>6 DEF RemovalInv
<1>9. ASSUME NEW r \in Request, JoinAdds(r)
      PROVE  RemovalInv'
  BY <1>9, <1>2 DEF JoinAdds, JoinsInv
<1>10. ASSUME NEW u \in User, handleClusterNodes(u)
       PROVE  RemovalInv'
  BY <1>10, <1>2 DEF handleClusterNodes, AddMember, GetMember
<1> QED
  BY <1>1, <1>3, <1>4, <1>5, <1>6, <1>7, <1>8, <1>9, <1>10
  DEF ClusterNext, ApiStep, handleClusterTokens, handleClusterToken, handleClusterNode,
      handleRemoveNode, Expire, CleanupExpiredTokens, handleClusterJoin, JoinValidates,
      SendJoinRequest, executeRemoval

(***************************************************************************)
(* Transfers.                                                              *)
(***************************************************************************)

\* The transfer manager keeps a transfer in its table while a goroutine moves
\* its data: CleanupCompletedTransfers takes completed ones only, and a task is
\* completed when its goroutine returns.
LEMMA TransfersKeep ==
    ASSUME TypeOK, TransferInv, TransferNext, UNCHANGED cvars
    PROVE  TypeOK' /\ TransferInv'
<1> USE StepsAssumption
<1>a. task \in [Transfer -> Task]
  BY DEF TypeOK
<1>b. ASSUME transfers' \subseteq Transfer, running' \subseteq Transfer,
             task' \in [Transfer -> Task]
      PROVE  TypeOK'
  BY <1>b DEF TypeOK, cvars
<1>1. ASSUME NEW t \in Transfer, NEW e \in Task, task' = [task EXCEPT ![t] = e],
             transfers' \subseteq transfers \cup {t}, running' \subseteq running \cup {t}
      PROVE  /\ TypeOK' /\ task'[t] = e
             /\ \A x \in Transfer : x # t => task'[x] = task[x]
  BY <1>1, <1>a, <1>b DEF TypeOK
<1>2. ASSUME NEW t \in Transfer, StartTransfer(t)
      PROVE  TypeOK' /\ TransferInv'
  <2> DEFINE e == [task[t] EXCEPT !.Status = "in_progress"]
  <2>1. e \in Task /\ e.Status = "in_progress"
    BY <1>a DEF Task
  <2>2. task' = [task EXCEPT ![t] = e]
    BY <1>2 DEF StartTransfer
  <2> HIDE DEF e
  <2> QED
    BY <1>1, <1>2, <2>1, <2>2 DEF StartTransfer, TransferInv, TypeOK
<1>3. ASSUME NEW t \in Transfer, ProgressStep(t)
      PROVE  TypeOK' /\ TransferInv'
  <2> DEFINE e == [task[t] EXCEPT !.Progress = task[t].Progress + 1]
  <2>1. e \in Task /\ e.Status = task[t].Status
    BY <1>a, <1>3 DEF Task, ProgressStep
  <2>2. task' = [task EXCEPT ![t] = e]
    BY <1>3 DEF ProgressStep
  <2> HIDE DEF e
  <2> QED
    BY <1>1, <1>3, <2>1, <2>2 DEF ProgressStep, TransferInv, TypeOK
<1>4. ASSUME NEW t \in Transfer, MarkCompleted(t)
      PROVE  TypeOK' /\ TransferInv'
  <2> DEFINE e == [task[t] EXCEPT !.Status = "completed"]
  <2>1. e \in Task
    BY <1>a DEF Task
  <2>2. task' = [task EXCEPT ![t] = e]
    BY <1>4 DEF MarkCompleted
  <2> HIDE DEF e
  <2> QED
    BY <1>1, <1>4, <2>1, <2>2 DEF MarkCompleted, TransferInv, TypeOK
<1>5. ASSUME NEW t \in Transfer, CancelTransfer(t)
      PROVE  TypeOK' /\ TransferInv'
  <2> DEFINE e == [task[t] EXCEPT !.Status = "failed"]
  <2>1. e \in Task /\ e.Status = "failed"
    BY <1>a DEF Task
  <2>2. task' = [task EXCEPT ![t] = e]
    BY <1>5 DEF CancelTransfer
  <2> HIDE DEF e
  <2> QED
    BY <1>1, <1>5, <2>1, <2>2 DEF CancelTransfer, TransferInv, TypeOK
<1>6. ASSUME CleanupCompletedTransfers
      PROVE  TypeOK' /\ TransferInv'
  BY <1>6, <1>a, <1>b DEF CleanupCompletedTransfers, Sweepable, TransferInv, TypeOK
<1> QED
  BY <1>2, <1>3, <1>4, <1>5, <1>6 DEF TransferNext, executeTransfer

(***************************************************************************)
(* The theorems.                                                           *)
(***************************************************************************)

\* NewClusterManagerWrapper starts without tokens, members and operations.
LEMMA ClusterInitially == Init => ClusterInv
<1> SUFFICES ASSUME Init PROVE ClusterInv
  OBVIOUS
<1> USE ClusterAssumption, StepsAssumption
<1>1. TypeOK
  BY DEF Init, TypeOK, TransferInit, Idle, NoOp, JoinRequest, Operation, Task
<1>2. TokensInv /\ JoinsInv
  BY DEF Init, TokensInv, JoinsInv, Idle
<1>3. UsedInv
  <2>1. Used = 1..0
    BY DEF Used, Init
  <2> QED
    BY <2>1 DEF UsedInv
<1>4. RemovalInv
  BY <1>3 DEF Init, RemovalInv, TargetInv, OpsInv, TableInv, DrainingInv, NoOp, Removing
<1>5. TransferInv
  BY DEF Init, TransferInit, TransferInv
<1> QED
  BY <1>1, <1>2, <1>4, <1>5 DEF ClusterInv

\* Every step of a handler or of a goroutine keeps the invariant.
LEMMA ClusterSteps == ClusterInv /\ [Next]_vars => ClusterInv'
<1> SUFFICES ASSUME ClusterInv, [Next]_vars PROVE ClusterInv'
  OBVIOUS
<1>1. TypeOK /\ TokensInv /\ JoinsInv /\ RemovalInv /\ TransferInv
  BY DEF ClusterInv
<1>2. CASE ClusterNext /\ UNCHANGED tvars
  <2>1. TypeOK' /\ TokensInv' /\ JoinsInv' /\ RemovalInv'
    BY <1>1, <1>2, ClusterKeepsType, ClusterKeepsTokens, ClusterKeepsJoins,
       ClusterKeepsRemovals DEF RemovalInv
  <2>2. TransferInv'
    BY <1>1, <1>2 DEF TransferInv, tvars
  <2> QED
    BY <2>1, <2>2 DEF ClusterInv
<1>3. CASE UNCHANGED cvars
  <2>1. TokensInv' /\ JoinsInv'
    BY <1>1, <1>3 DEF TokensInv, JoinsInv, cvars
  <2>2. RemovalInv'
    BY <1>1, <1>3 DEF RemovalInv, UsedInv, Used, TargetInv, NextOp, OpsInv, TableInv,
                      DrainingInv, cvars
  <2>3. CASE TransferNext
    BY <1>1, <1>3, <2>1, <2>2, <2>3, TransfersKeep DEF ClusterInv
  <2>4. CASE UNCHANGED tvars
    BY <1>1, <1>3, <2>1, <2>2, <2>4 DEF ClusterInv, TypeOK, TransferInv, cvars, tvars
  <2> QED
    BY <1>2, <1>3, <2>3, <2>4 DEF Next, vars
<1> QED
  BY <1>2, <1>3 DEF Next, vars

\* The invariant holds for ever.
THEOREM ClusterInvariant == Spec => []ClusterInv
BY ClusterInitially, ClusterSteps, PTL DEF Spec

\* One token lets in one node, whatever requests, revocations and sweeps race
\* with HandleJoinRequest between ValidateToken and MarkTokenUsed.
THEOREM TokenAdmitsOneHolds == Spec => []TokenAdmitsOne
<1>1. ClusterInv => TokenAdmitsOne
  <2> SUFFICES ASSUME ClusterInv, NEW k \in Token
               PROVE  Cardinality(admitted[k]) <= 1
    BY DEF TokenAdmitsOne
  <2>1. CASE admitted[k] = {}
    BY <2>1, FS_EmptySet
  <2>2. CASE admitted[k] # {}
    <3>1. PICK n \in admitted[k] : admitted[k] = {n}
      BY <2>2 DEF ClusterInv, TokensInv
    <3>2. Cardinality({n}) = 1
      BY FS_Singleton
    <3> QED
      BY <3>1, <3>2
  <2> QED
    BY <2>1, <2>2
<1> QED
  BY <1>1, ClusterInvariant, PTL

\* The error paths of executeRemoval and of StartRemoval's second step are never
\* taken, and every variable keeps its type.
THEOREM RemovalNeverFailsHolds == Spec => []RemovalNeverFails
<1>1. ClusterInv => RemovalNeverFails
  BY DEF ClusterInv, RemovalInv, TargetInv, OpsInv, RemovalNeverFails, RmFree
<1> QED
  BY <1>1, ClusterInvariant, PTL

\* A draining member has its removal in the table of operations with a goroutine
\* still to take the member out, and a running transfer is in the table of
\* transfers: neither sweep takes out too much.
THEOREM UnderWayIsListedHolds == Spec => []UnderWayIsListed
<1>1. ClusterInv => UnderWayIsListed
  BY DEF ClusterInv, RemovalInv, TableInv, DrainingInv, TransferInv, UnderWayIsListed,
         Removing
<1> QED
  BY <1>1, ClusterInvariant, PTL
=============================================================================
