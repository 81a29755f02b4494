----------------------------- MODULE MCPageCache -----------------------------
(***************************************************************************)
(* PageCache for TLC.  Goroutines and values are interchangeable.          *)
(***************************************************************************)
EXTENDS PageCache

Symmetry == Permutations(Thread) \cup Permutations(Value)

\* A goroutine that holds c.mu runs on, and one that waits for it gets it in the
\* end: sync.Mutex hands the lock to a goroutine that has waited for a
\* millisecond.
Fairness ==
    \A t \in Thread : /\ WF_vars(evict(t)) /\ WF_vars(addToCache(t))
                      /\ WF_vars(FlushOne(t)) /\ WF_vars(FlushEnds(t))
                      /\ SF_vars(AllocateLocks(t)) /\ SF_vars(CloseEnds(t))
LiveSpec == Spec /\ Fairness

\* Every call returns: the loop of addToCache ends, and nobody is left waiting
\* for c.mu by a method that returned without unlocking it.  A call that finds
\* the file closed is not followed further.
CallsReturn == \A t \in Thread : call[t].stage # "idle" ~> call[t].stage = "idle" \/ ~open
=============================================================================
