------------------------------ MODULE RaftLog ------------------------------
(***************************************************************************)
(* What internal/raft computes from a log: the operators that the handlers *)
(* of Raft are built from.  A log is a sequence of entries; the code reads *)
(* entry i as log[i-1], TLA+ as log[i].                                    *)
(***************************************************************************)
EXTENDS Integers, Sequences

CONSTANT Value      \* the commands that Propose is called with

Entry == [term : Nat, index : Nat, command : Value]

getLastLogIndex(xlog) == IF xlog = <<>> THEN 0 ELSE xlog[Len(xlog)].index
getLastLogTerm(xlog) == IF xlog = <<>> THEN 0 ELSE xlog[Len(xlog)].term

\* The candidate's log, given by its last index and term, is at least as
\* up-to-date as xlog.
UpToDateStrict(c, xlog) ==      \* mutant: > for >=
    \/ c.lastTerm > getLastLogTerm(xlog)
    \/ /\ c.lastTerm = getLastLogTerm(xlog)
       /\ c.lastIndex > getLastLogIndex(xlog)
UpToDate(c, xlog) ==
    \/ c.lastTerm > getLastLogTerm(xlog)
    \/ /\ c.lastTerm = getLastLogTerm(xlog)
       /\ c.lastIndex >= getLastLogIndex(xlog)

\* The consistency check on PrevLogIndex and PrevLogTerm.
PrevMissing(c, xlog) == c.prevIndex > Len(xlog)
PrevConflict(c, xlog) ==
    c.prevIndex \in 1..Len(xlog) /\ xlog[c.prevIndex].term # c.prevTerm

\* The log holds an entry at e's index with e's term.
Holds(xlog, e) == e.index <= Len(xlog) /\ xlog[e.index].term = e.term
HoldsFirst(xlog, es, i) == \A j \in 1..i : Holds(xlog, es[j])

\* What the loop of AppendEntries makes of the log, given entries whose
\* indices run on from prev + 1: entries it holds are kept as they are, and
\* from the first one it does not hold the log is cut and replaced.
AppendAll(xlog, prev, es) == xlog \o es     \* mutant: a retry is applied twice
AppendNew(xlog, prev, es) ==
    IF HoldsFirst(xlog, es, Len(es)) THEN xlog
    ELSE [k \in 1..(prev + Len(es)) |->
            IF k <= prev THEN xlog[k]
            ELSE IF HoldsFirst(xlog, es, k - prev) THEN xlog[k]
            ELSE es[k - prev]]

\* r.log after one round of the loop of AppendEntries, and after the loop.
KeepConflict(xlog, e) ==        \* mutant: a conflicting entry is kept
    IF e.index > Len(xlog) THEN Append(xlog, e) ELSE xlog
AppendOne(xlog, e) ==
    IF e.index > Len(xlog) THEN Append(xlog, e)
    ELSE IF xlog[e.index].term # e.term
    THEN Append(SubSeq(xlog, 1, e.index - 1), e)
    ELSE xlog
AppendLoop(xlog, es) ==
    LET after[k \in 0..Len(es)] == IF k = 0 THEN xlog ELSE AppendOne(after[k - 1], es[k])
    IN  after[Len(es)]

LogAfterAppend(c, xlog) ==
    IF PrevMissing(c, xlog) THEN xlog
    ELSE IF PrevConflict(c, xlog) THEN SubSeq(xlog, 1, c.prevIndex - 1)
    ELSE AppendNew(xlog, c.prevIndex, c.entries)

CommitAfterAppend(commit, leaderCommit, last) ==
    IF leaderCommit <= commit THEN commit
    ELSE IF leaderCommit < last THEN leaderCommit ELSE last

\* Entry i of es carries the index first + i - 1.
Contiguous(es, first) == \A i \in 1..Len(es) : es[i].index = first + i - 1
=============================================================================
