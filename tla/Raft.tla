-------------------------------- MODULE Raft --------------------------------
(***************************************************************************)
(* The Raft node of internal/raft/raft.go.  Every node has the fields of   *)
(* the Raft struct; the goroutines that startElection and sendHeartbeats   *)
(* start are part of the state, because each of them touches its node at   *)
(* several moments with the lock released in between:                      *)
(*                                                                         *)
(*  - vc[n][b][p] is the goroutine by which n asks p for its vote in the   *)
(*    b-th run of startElection still under way, votes[n][b] the variable  *)
(*    `votes' that the goroutines of this run share;                       *)
(*  - ae[n][p][l] is one of the goroutines that run                        *)
(*    sendAppendEntriesToPeer(p) on n.                                     *)
(*                                                                         *)
(* A call is a TCP connection of its own, so calls overtake each other     *)
(* freely, and any of them may fail before or after the peer has handled   *)
(* it (internal/raft/transport.go).  Time is abstracted: a follower may    *)
(* time out at any moment, a tick may come at any moment.                  *)
(***************************************************************************)
EXTENDS RaftLog, FiniteSets

CONSTANTS
    Node,       \* the cluster: NodeID together with Peers
    NoVote,     \* votedFor == ""
    Batch,      \* bound: runs of startElection a node has under way at once
    Lane,       \* bound: AppendEntries goroutines of a node per peer at once
    MaxTerm,    \* bound: terms that an election may reach
    MaxLogLen   \* bound: entries in a leader's log when it accepts a command

ASSUME NodeAssumption == IsFiniteSet(Node) /\ NoVote \notin Node
ASSUME BoundAssumption == MaxTerm \in Nat /\ MaxLogLen \in Nat

VARIABLES
    currentTerm, votedFor, log, state, commitIndex,  \* fields of Raft
    nextIndex, matchIndex,                           \* leader state
    votes, vc,                                       \* running elections
    ae,                                              \* running AppendEntries
    grants      \* history: <<voter, candidate, term>> of every granted vote

nodeVars == <<currentTerm, votedFor, state>>
logVars == <<log, commitIndex>>
leaderVars == <<nextIndex, matchIndex>>
voteVars == <<votes, vc>>
vars == <<nodeVars, logVars, leaderVars, voteVars, ae, grants>>

\* A call for a vote: the goroutine reads the term, the last index and the
\* last term one after the other and without the lock, then sends them.
VoteCall == [stage : {"none", "spawned", "term", "index", "request",
                      "granted", "counted"},
             term : Nat, lastIndex : Nat, lastTerm : Nat]
VoteCallAt(s) == [stage |-> s, term |-> 0, lastIndex |-> 0, lastTerm |-> 0]

\* An AppendEntries call: spawned, arguments built under the read lock,
\* request marshalled and sent, reply on its way back.
AppendCall == [stage : {"idle", "spawned", "built", "sent", "replied"},
               term : Nat, prevIndex : Nat, prevTerm : Nat,
               entries : Seq(Entry), commit : Nat,
               success : BOOLEAN, last : Nat]
AppendCallAt(s) ==
    [stage |-> s, term |-> 0, prevIndex |-> 0, prevTerm |-> 0,
     entries |-> <<>>, commit |-> 0, success |-> FALSE, last |-> 0]

ReplyCall(t, ok, last) ==
    [stage |-> "replied", term |-> t, prevIndex |-> 0, prevTerm |-> 0,
     entries |-> <<>>, commit |-> 0, success |-> ok, last |-> last]

TypeOK ==
    /\ currentTerm \in [Node -> Nat]
    /\ votedFor \in [Node -> Node \cup {NoVote}]
    /\ log \in [Node -> Seq(Entry)]
    /\ state \in [Node -> {"Follower", "Candidate", "Leader"}]
    /\ commitIndex \in [Node -> Nat]
    /\ nextIndex \in [Node -> [Node -> Nat \ {0}]]
    /\ matchIndex \in [Node -> [Node -> Nat]]
    /\ votes \in [Node -> [Batch -> Nat]]
    /\ vc \in [Node -> [Batch -> [Node -> VoteCall]]]
    /\ ae \in [Node -> [Node -> [Lane -> AppendCall]]]
    /\ grants \subseteq Node \X Node \X Nat

\* votes > (len(r.config.Peers)+1)/2
IsMajority(k) == k > Cardinality(Node) \div 2

-----------------------------------------------------------------------------

Init ==
    /\ currentTerm = [n \in Node |-> 0]
    /\ votedFor = [n \in Node |-> NoVote]
    /\ log = [n \in Node |-> <<>>]
    /\ state = [n \in Node |-> "Follower"]
    /\ commitIndex = [n \in Node |-> 0]
    /\ nextIndex = [n \in Node |-> [p \in Node |-> 1]]
    /\ matchIndex = [n \in Node |-> [p \in Node |-> 0]]
    /\ votes = [n \in Node |-> [b \in Batch |-> 0]]
    /\ vc = [n \in Node |-> [b \in Batch |-> [p \in Node |-> VoteCallAt("none")]]]
    /\ ae = [n \in Node |-> [p \in Node |-> [l \in Lane |-> AppendCallAt("idle")]]]
    /\ grants = {}

-----------------------------------------------------------------------------
(* Elections.                                                              *)

\* A tick of a follower whose election timeout has passed.
becomeCandidate(n) ==
    /\ state[n] = "Follower"
    /\ currentTerm[n] < MaxTerm
    /\ state' = [state EXCEPT ![n] = "Candidate"]
    /\ currentTerm' = [currentTerm EXCEPT ![n] = @ + 1]
    /\ votedFor' = [votedFor EXCEPT ![n] = n]
    /\ UNCHANGED <<logVars, leaderVars, voteVars, ae, grants>>

Finished(n, b) == \A p \in Node : vc[n][b][p].stage \in {"none", "counted"}

\* Every tick of a candidate: a fresh counter, one goroutine per peer, and
\* the same term as before.
startElection(n) ==
    /\ state[n] = "Candidate"
    /\ \E b \in Batch :
         /\ Finished(n, b)
         /\ votes' = [votes EXCEPT ![n][b] = 1]
         /\ vc' = [vc EXCEPT ![n][b] =
                     [p \in Node |-> VoteCallAt(IF p = n THEN "none"
                                                ELSE "spawned")]]
    /\ UNCHANGED <<nodeVars, logVars, leaderVars, ae, grants>>

SetVoteCall(n, b, p, call) == vc' = [vc EXCEPT ![n][b][p] = call]

\* requestVoteFromPeer evaluates its arguments with the lock released: each
\* of the three reads sees the node as it is at that moment.
requestVoteFromPeer(n, b, p) ==
    LET c == vc[n][b][p] IN
    /\ \/ /\ c.stage = "spawned"
          /\ SetVoteCall(n, b, p, [c EXCEPT !.stage = "term",
                                            !.term = currentTerm[n]])
       \/ /\ c.stage = "term"
          /\ SetVoteCall(n, b, p, [c EXCEPT !.stage = "index",
                                            !.lastIndex = getLastLogIndex(log[n])])
       \/ /\ c.stage = "index"
          /\ SetVoteCall(n, b, p, [c EXCEPT !.stage = "request",
                                            !.lastTerm = getLastLogTerm(log[n])])
    /\ UNCHANGED <<nodeVars, logVars, leaderVars, votes, ae, grants>>

MayVoteAgain(p, c, n) ==        \* mutant: votedFor is not looked at
    c.term >= currentTerm[p] /\ UpToDate(c, log[p])
MayVote(p, c, n) ==
    /\ c.term >= currentTerm[p]
    /\ c.term > currentTerm[p] \/ votedFor[p] \in {NoVote, n}
    /\ UpToDate(c, log[p])

\* A refusal ends the goroutine, which looks only at VoteGranted.
UncheckedReply(grant) == VoteCallAt("granted")      \* mutant: a reply is a vote
VoteReply(grant) == VoteCallAt(IF grant THEN "granted" ELSE "none")

\* The handler on p for the request that n sent in election b.
RequestVote(n, b, p) ==
    LET c == vc[n][b][p]
        newer == c.term > currentTerm[p]
        grant == MayVote(p, c, n)
    IN  /\ c.stage = "request"
        /\ currentTerm' = [currentTerm EXCEPT ![p] = IF newer THEN c.term ELSE @]
        /\ state' = [state EXCEPT ![p] = IF newer THEN "Follower" ELSE @]
        /\ votedFor' = [votedFor EXCEPT ![p] = IF grant THEN n
                                               ELSE IF newer THEN NoVote ELSE @]
        /\ grants' = grants \cup (IF grant THEN {<<p, n, c.term>>} ELSE {})
        /\ SetVoteCall(n, b, p, VoteReply(grant))
        /\ UNCHANGED <<logVars, leaderVars, votes, ae>>

\* The rest of the goroutine of startElection once a vote was granted: it
\* checks the state, but neither the term of the vote nor that of the node.
countVote(n, b, p) ==
    LET wins == IsMajority(votes[n][b] + 1) /\ state[n] = "Candidate"
    IN  /\ vc[n][b][p].stage = "granted"
        /\ votes' = [votes EXCEPT ![n][b] = @ + 1]
        /\ SetVoteCall(n, b, p, VoteCallAt("counted"))
        /\ state' = [state EXCEPT ![n] = IF wins THEN "Leader" ELSE @]
        /\ nextIndex' = [nextIndex EXCEPT ![n] =
              IF wins THEN [q \in Node |-> getLastLogIndex(log[n]) + 1] ELSE @]
        /\ matchIndex' = [matchIndex EXCEPT ![n] =
              IF wins THEN [q \in Node |-> 0] ELSE @]
        /\ UNCHANGED <<currentTerm, votedFor, logVars, ae, grants>>

\* No connection, no request, or no reply: requestVoteFromPeer returns nil.
loseVoteCall(n, b, p) ==
    /\ vc[n][b][p].stage \in {"spawned", "term", "index", "request", "granted"}
    /\ SetVoteCall(n, b, p, VoteCallAt("none"))
    /\ UNCHANGED <<nodeVars, logVars, leaderVars, votes, ae, grants>>

-----------------------------------------------------------------------------
(* Replication.                                                            *)

IdleLanes(n, p) == {l \in Lane : ae[n][p][l].stage = "idle"}

\* One goroutine per peer; a peer all of whose lanes are busy is left to the
\* next tick.
sendHeartbeats(n) ==
    ae' = [ae EXCEPT ![n] = [p \in Node |->
             IF p = n \/ IdleLanes(n, p) = {} THEN ae[n][p]
             ELSE [ae[n][p] EXCEPT ![CHOOSE l \in IdleLanes(n, p) : TRUE]
                                      = AppendCallAt("spawned")]]]

tickLeader(n) ==
    /\ state[n] = "Leader"
    /\ sendHeartbeats(n)
    /\ UNCHANGED <<nodeVars, logVars, leaderVars, voteVars, grants>>

Propose(n, v) ==
    /\ state[n] = "Leader"
    /\ Len(log[n]) < MaxLogLen
    /\ log' = [log EXCEPT ![n] = Append(@,
                 [term |-> currentTerm[n],
                  index |-> getLastLogIndex(log[n]) + 1,
                  command |-> v])]
    /\ sendHeartbeats(n)
    /\ UNCHANGED <<nodeVars, commitIndex, leaderVars, voteVars, grants>>

SetAppendCall(n, p, l, call) == ae' = [ae EXCEPT ![n][p][l] = call]

\* The arguments are built under the read lock, whatever the node is by now.
buildAppend(n, p, l) ==
    LET next == nextIndex[n][p]
        prev == next - 1
    IN  /\ ae[n][p][l].stage = "spawned"
        /\ SetAppendCall(n, p, l,
             [stage |-> "built",
              term |-> currentTerm[n],
              prevIndex |-> prev,
              prevTerm |-> IF prev \in 1..Len(log[n])
                           THEN log[n][prev].term ELSE 0,
              entries |-> IF next <= Len(log[n])
                          THEN SubSeq(log[n], next, Len(log[n])) ELSE <<>>,
              commit |-> commitIndex[n],
              success |-> FALSE,
              last |-> 0])
        /\ UNCHANGED <<nodeVars, logVars, leaderVars, voteVars, grants>>

\* The entries are a slice of the log, and are marshalled after the lock was
\* released and the peer was dialled.  Where the log was overwritten in place
\* meanwhile, the bytes sent are those of the old or of the new entry.
Reread(n, c, fresh) ==
    [i \in 1..Len(c.entries) |-> IF i \in fresh THEN log[n][c.prevIndex + i]
                                 ELSE c.entries[i]]

SendAppendEntries(n, p, l) ==
    LET c == ae[n][p][l]
    IN  /\ c.stage = "built"
        /\ \E fresh \in SUBSET {i \in 1..Len(c.entries) :
                                  c.prevIndex + i <= Len(log[n])} :
             SetAppendCall(n, p, l, [c EXCEPT !.stage = "sent",
                                              !.entries = Reread(n, c, fresh)])
        /\ UNCHANGED <<nodeVars, logVars, leaderVars, voteVars, grants>>

\* An accepted request of a newer term, or any to a candidate.
StepsDownUnchecked(p, c) ==     \* mutant: no check for an older term
    c.term > currentTerm[p] \/ state[p] = "Candidate"
StepsDown(p, c) ==
    /\ c.term >= currentTerm[p]
    /\ c.term > currentTerm[p] \/ state[p] = "Candidate"

\* The handler on p.  The reply carries the term from before the call.
AppendEntries(n, p, l) ==
    LET c == ae[n][p][l]
        accepts == c.term >= currentTerm[p]
        stepsDown == StepsDown(p, c)
        success == /\ accepts
                   /\ ~PrevMissing(c, log[p])
                   /\ ~PrevConflict(c, log[p])
        newLog == IF accepts THEN LogAfterAppend(c, log[p]) ELSE log[p]
    IN  /\ c.stage = "sent"
        /\ currentTerm' = [currentTerm EXCEPT ![p] = IF stepsDown THEN c.term ELSE @]
        /\ state' = [state EXCEPT ![p] = IF stepsDown THEN "Follower" ELSE @]
        /\ votedFor' = [votedFor EXCEPT ![p] = IF stepsDown THEN NoVote ELSE @]
        /\ log' = [log EXCEPT ![p] = newLog]
        /\ commitIndex' = [commitIndex EXCEPT ![p] =
              IF success THEN CommitAfterAppend(@, c.commit, getLastLogIndex(newLog))
              ELSE @]
        /\ SetAppendCall(n, p, l,
             ReplyCall(currentTerm[p], success, getLastLogIndex(c.entries)))
        /\ UNCHANGED <<leaderVars, voteVars, grants>>

\* nextIndex after a refusal, which must not fall below 1.
DecrementUnchecked(next) == next - 1    \* mutant: no lower bound
Decrement(next) == IF next > 1 THEN next - 1 ELSE next

\* The rest of sendAppendEntriesToPeer on n, whatever n is by now.
handleAppendReply(n, p, l) ==
    LET c == ae[n][p][l]
        newer == c.term > currentTerm[n]
        acked == ~newer /\ c.success /\ c.last > 0
        refused == ~newer /\ ~c.success
    IN  /\ c.stage = "replied"
        /\ currentTerm' = [currentTerm EXCEPT ![n] = IF newer THEN c.term ELSE @]
        /\ state' = [state EXCEPT ![n] = IF newer THEN "Follower" ELSE @]
        /\ votedFor' = [votedFor EXCEPT ![n] = IF newer THEN NoVote ELSE @]
        /\ nextIndex' = [nextIndex EXCEPT ![n][p] =
              IF acked THEN c.last + 1
              ELSE IF refused THEN Decrement(@) ELSE @]
        /\ matchIndex' = [matchIndex EXCEPT ![n][p] = IF acked THEN c.last ELSE @]
        /\ SetAppendCall(n, p, l, AppendCallAt("idle"))
        /\ UNCHANGED <<logVars, voteVars, grants>>

\* No connection, no request, or no reply.
loseAppendCall(n, p, l) ==
    /\ ae[n][p][l].stage # "idle"
    /\ SetAppendCall(n, p, l, AppendCallAt("idle"))
    /\ UNCHANGED <<nodeVars, logVars, leaderVars, voteVars, grants>>

-----------------------------------------------------------------------------

NodeStep(n) ==
    \/ becomeCandidate(n)
    \/ startElection(n)
    \/ tickLeader(n)
    \/ \E v \in Value : Propose(n, v)

VoteStep(n, b, p) ==
    \/ requestVoteFromPeer(n, b, p)
    \/ RequestVote(n, b, p)
    \/ countVote(n, b, p)
    \/ loseVoteCall(n, b, p)

AppendStep(n, p, l) ==
    \/ buildAppend(n, p, l)
    \/ SendAppendEntries(n, p, l)
    \/ AppendEntries(n, p, l)
    \/ handleAppendReply(n, p, l)
    \/ loseAppendCall(n, p, l)

Next ==
    \E n \in Node :
        \/ NodeStep(n)
        \/ \E p \in Node, b \in Batch : VoteStep(n, b, p)
        \/ \E p \in Node, l \in Lane : AppendStep(n, p, l)

Spec == Init /\ [][Next]_vars

-----------------------------------------------------------------------------
(* Properties.                                                             *)

\* Every entry stands at the position its Index names, in every log and in
\* every request on its way: raft.go reads entry i as log[i-1] and appends
\* entries without looking for a gap, so a log that breaks this is read at
\* the wrong place, or past its end, by every handler.
IndexIsPosition ==
    /\ \A n \in Node : Contiguous(log[n], 1)
    /\ \A n, p \in Node, l \in Lane :
          Contiguous(ae[n][p][l].entries, ae[n][p][l].prevIndex + 1)

\* The loop of AppendEntries, round by round, makes of any log and any request
\* that meet, torn and stale requests included, what AppendNew says.
LoopComputesAppendNew ==
    \A n, p \in Node, l \in Lane :
        LET c == ae[n][p][l] IN
        c.stage = "sent" /\ ~PrevMissing(c, log[p]) /\ ~PrevConflict(c, log[p]) =>
            AppendLoop(log[p], c.entries) = AppendNew(log[p], c.prevIndex, c.entries)

\* No node grants its vote to two candidates of one term (RequestVote), even
\* though AppendEntries clears votedFor of a candidate in its own term.  (The run
\* that checks it has elections only; the theorem has AppendEntries too.)
VoteOnce ==
    \A g, h \in grants : g[1] = h[1] /\ g[3] = h[3] => g[2] = h[2]

\* A leader was granted the votes of a majority, itself included, in terms
\* up to its own (startElection: the counter of one run counts each peer at
\* most once, but nothing ties a vote to the term it is counted in).
Backers(n, terms) == {n} \cup {v \in Node : \E t \in terms : <<v, n, t>> \in grants}
LeaderHasBackers ==
    \A n \in Node : state[n] = "Leader" =>
        2 * Cardinality(Backers(n, 0..currentTerm[n])) > Cardinality(Node)

\* A node's term never goes back, whichever call or reply it handles.
TermMonotonic == [][\A n \in Node : currentTerm'[n] >= currentTerm[n]]_vars

\* No two nodes lead the same term.
ElectionSafety ==
    \A m, n \in Node : /\ state[m] = "Leader" /\ state[n] = "Leader"
                       /\ currentTerm[m] = currentTerm[n]
                       => m = n
=============================================================================
