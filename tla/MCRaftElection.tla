--------------------------- MODULE MCRaftElection ---------------------------
(***************************************************************************)
(* Does an election end?  The calls are taken to be reliable here, so that *)
(* whatever keeps a leader from being elected is the algorithm itself; and *)
(* the behaviour is followed up to the first leader, so nothing a leader   *)
(* does is needed.                                                         *)
(***************************************************************************)
EXTENDS Raft

ReliableNext ==
    \E n \in Node :
        \/ becomeCandidate(n) \/ startElection(n)
        \/ \E p \in Node, b \in Batch : \/ requestVoteFromPeer(n, b, p)
                                        \/ RequestVote(n, b, p)
                                        \/ countVote(n, b, p)

\* The ticker of every node keeps running, so a candidate asks again; every
\* goroutine runs to its end, and every request sent is handled.  That a follower
\* times out is left open: whether it does is a matter of the delays.
Fairness ==
    \A n \in Node :
        /\ WF_vars(startElection(n))
        /\ \A p \in Node, b \in Batch : /\ WF_vars(requestVoteFromPeer(n, b, p))
                                        /\ WF_vars(RequestVote(n, b, p))
                                        /\ WF_vars(countVote(n, b, p))

LiveSpec == Init /\ [][ReliableNext]_vars /\ Fairness

\* From some moment on no follower times out.
TimeoutsStop == <>[][\A n \in Node : ~becomeCandidate(n)]_vars

SplitVote ==
    /\ \A n \in Node : state[n] = "Candidate"
    /\ \A m, n \in Node : currentTerm[m] = currentTerm[n]

\* An election that was begun ends with a leader once followers stop timing out,
\* whatever timeouts came before and at whatever moment, unless every node has
\* become a candidate of one term: that is for ever, since a candidate keeps its
\* term (tickCandidate).  Nothing is said of followers that time out again and
\* again, before a candidate has its votes: those behaviours have no last term.
LeaderOrSplitVote ==
    TimeoutsStop /\ <>(\E n \in Node : state[n] = "Candidate") =>
        <>(\E n \in Node : state[n] = "Leader") \/ <>[]SplitVote
=============================================================================
