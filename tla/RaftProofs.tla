----------------------------- MODULE RaftProofs -----------------------------
(***************************************************************************)
(* Theorems about Raft, for every cluster, every bound and every number of *)
(* goroutines under way; and about the files of a node (RaftStore): what   *)
(* WAL.Append has returned for is not lost, and the log in memory keeps    *)
(* what no snapshot covers.                                                *)
(***************************************************************************)
EXTENDS Raft, RaftStore, SequenceTheorems, FiniteSetTheorems, TLAPS

\* Changing one AppendEntries call changes that call alone.
LEMMA SetAppendCallEffect ==
    ASSUME ae \in [Node -> [Node -> [Lane -> AppendCall]]],
           NEW n \in Node, NEW p \in Node, NEW l \in Lane, NEW call \in AppendCall,
           SetAppendCall(n, p, l, call)
    PROVE  /\ ae' \in [Node -> [Node -> [Lane -> AppendCall]]]
           /\ \A x \in Node, y \in Node, z \in Lane :
                ae'[x][y][z] = IF x = n /\ y = p /\ z = l THEN call
                                 ELSE ae[x][y][z]
<1> DEFINE new == [ae[n] EXCEPT ![p][l] = call]
<1>1. new \in [Node -> [Lane -> AppendCall]]
  OBVIOUS
<1>2. ASSUME NEW y \in Node, NEW z \in Lane
      PROVE  new[y][z] = IF y = p /\ z = l THEN call ELSE ae[n][y][z]
  <2>1. CASE y = p
    BY <2>1
  <2>2. CASE y # p
    BY <2>2
  <2> QED
    BY <2>1, <2>2
<1>3. ae' = [ae EXCEPT ![n] = new]
  BY DEF SetAppendCall
<1> HIDE DEF new
<1> QED
  BY <1>1, <1>2, <1>3

\* Changing one call for a vote changes that call alone.
LEMMA SetVoteCallEffect ==
    ASSUME vc \in [Node -> [Batch -> [Node -> VoteCall]]],
           NEW n \in Node, NEW b \in Batch, NEW p \in Node, NEW call \in VoteCall,
           SetVoteCall(n, b, p, call)
    PROVE  /\ vc' \in [Node -> [Batch -> [Node -> VoteCall]]]
           /\ \A x \in Node, y \in Batch, z \in Node :
                vc'[x][y][z] = IF x = n /\ y = b /\ z = p THEN call
                                 ELSE vc[x][y][z]
<1> DEFINE new == [vc[n] EXCEPT ![b][p] = call]
<1>1. new \in [Batch -> [Node -> VoteCall]]
  OBVIOUS
<1>2. ASSUME NEW y \in Batch, NEW z \in Node
      PROVE  new[y][z] = IF y = b /\ z = p THEN call ELSE vc[n][y][z]
  <2>1. CASE y = b
    BY <2>1
  <2>2. CASE y # b
    BY <2>2
  <2> QED
    BY <2>1, <2>2
<1>3. vc' = [vc EXCEPT ![n] = new]
  BY DEF SetVoteCall
<1> HIDE DEF new
<1> QED
  BY <1>1, <1>2, <1>3

(***************************************************************************)
(* What the operators of RaftLog return.                                   *)
(***************************************************************************)

\* The last index and the last term of a log are numbers (getLastLogIndex,
\* getLastLogTerm).
LEMMA LastOfLog ==
    ASSUME NEW xlog \in Seq(Entry)
    PROVE  getLastLogIndex(xlog) \in Nat /\ getLastLogTerm(xlog) \in Nat
<1>1. CASE xlog = <<>>
  BY <1>1 DEF getLastLogIndex, getLastLogTerm
<1>2. CASE xlog # <<>>
  <2>1. Len(xlog) \in 1..Len(xlog)
    BY <1>2, EmptySeq
  <2>2. xlog[Len(xlog)] \in Entry
    BY <2>1, ElementOfSeq
  <2> QED
    BY <1>2, <2>2 DEF getLastLogIndex, getLastLogTerm, Entry
<1> QED
  BY <1>1, <1>2

\* In a log whose entries stand at their indices, the last index is the
\* length (getLastLogIndex).
LEMMA LastIndexIsLen ==
    ASSUME NEW xlog \in Seq(Entry), Contiguous(xlog, 1)
    PROVE  getLastLogIndex(xlog) = Len(xlog)
<1>1. CASE xlog = <<>>
  BY <1>1 DEF getLastLogIndex
<1>2. CASE xlog # <<>>
  <2>1. Len(xlog) \in 1..Len(xlog)
    BY <1>2, EmptySeq
  <2> QED
    BY <1>2, <2>1 DEF getLastLogIndex, Contiguous
<1> QED
  BY <1>1, <1>2

\* A slice of a contiguous log is contiguous (the entries that
\* sendAppendEntriesToPeer sends, and the log that AppendEntries cuts).
LEMMA SliceOfLog ==
    ASSUME NEW xlog \in Seq(Entry), Contiguous(xlog, 1),
           NEW from \in Nat \ {0}, NEW to \in 0..Len(xlog)
    PROVE  /\ SubSeq(xlog, from, to) \in Seq(Entry)
           /\ Contiguous(SubSeq(xlog, from, to), from)
<1>1. \A i \in from..to : xlog[i] \in Entry
  BY ElementOfSeq
<1>2. /\ SubSeq(xlog, from, to) \in Seq(Entry)
      /\ Len(SubSeq(xlog, from, to)) = IF from <= to THEN to - from + 1 ELSE 0
      /\ \A i \in 1..(to - from + 1) : SubSeq(xlog, from, to)[i] = xlog[from + i - 1]
  BY <1>1, SubSeqProperties, from \in Int, to \in Int
<1> QED
  BY <1>2 DEF Contiguous

\* The loop of AppendEntries leaves every entry at its index, provided the
\* request starts inside the log or right behind it: this is what the check
\* on PrevLogIndex is for.
LEMMA AppendNewKeepsPositions ==
    ASSUME NEW xlog \in Seq(Entry), Contiguous(xlog, 1),
           NEW prev \in 0..Len(xlog),
           NEW es \in Seq(Entry), Contiguous(es, prev + 1)
    PROVE  /\ AppendNew(xlog, prev, es) \in Seq(Entry)
           /\ Contiguous(AppendNew(xlog, prev, es), 1)
<1>1. CASE HoldsFirst(xlog, es, Len(es))
  BY <1>1 DEF AppendNew
<1>2. CASE ~HoldsFirst(xlog, es, Len(es))
  <2> DEFINE m == prev + Len(es)
             new == [k \in 1..m |->
                       IF k <= prev THEN xlog[k]
                       ELSE IF HoldsFirst(xlog, es, k - prev) THEN xlog[k]
                       ELSE es[k - prev]]
  <2>1. AppendNew(xlog, prev, es) = new
    BY <1>2 DEF AppendNew
  <2>2. m \in Nat
    BY LenProperties
  <2>3. ASSUME NEW k \in 1..m
        PROVE  new[k] \in Entry /\ new[k].index = k
    <3>1. CASE k <= prev
      <4>1. k \in 1..Len(xlog) /\ new[k] = xlog[k]
        BY <3>1, LenProperties
      <4> QED
        BY <4>1, ElementOfSeq DEF Contiguous
    <3>2. CASE k > prev
      <4>1. k - prev \in 1..Len(es) /\ es[k - prev].index = k
        BY <3>2, LenProperties DEF Contiguous
      <4>2. CASE HoldsFirst(xlog, es, k - prev)
        <5>1. k <= Len(xlog)
          BY <4>1, <4>2 DEF HoldsFirst, Holds
        <5>2. k \in 1..Len(xlog) /\ new[k] = xlog[k]
          BY <3>2, <4>2, <5>1, LenProperties
        <5> QED
          BY <5>2, ElementOfSeq DEF Contiguous
      <4>3. CASE ~HoldsFirst(xlog, es, k - prev)
        <5>1. new[k] = es[k - prev]
          BY <3>2, <4>3
        <5> QED
          BY <4>1, <5>1, ElementOfSeq
      <4> QED
        BY <4>2, <4>3
    <3> QED
      BY <3>1, <3>2, LenProperties
  <2> HIDE DEF m
  <2>4. new \in Seq(Entry) /\ Len(new) = m
    <3>1. new \in [1..m -> Entry]
      BY <2>3
    <3> HIDE DEF new
    <3> QED
      BY <2>2, <3>1, SeqDef
  <2> HIDE DEF new
  <2> QED
    BY <2>1, <2>2, <2>3, <2>4 DEF Contiguous
<1> QED
  BY <1>1, <1>2

(***************************************************************************)
(* Induction over the natural numbers, stated with a set: the principle of *)
(* the library has an operator as its parameter.                           *)
(***************************************************************************)
LEMMA LeastNat ==
    ASSUME NEW T \in SUBSET Nat, T # {}
    PROVE  \E x \in T : \A y \in T : x <= y
<1>1. PICK x \in T : \A y \in T : ~(<<y, x>> \in OpToRel(<, Nat))
  BY WFMin, NatLessThanWellFounded, Zenon
<1>2. \A y \in T : ~(y < x)
  BY <1>1 DEF OpToRel
<1> QED
  BY <1>2

\* A set of rounds that holds round 0, and with every round the next, holds
\* them all.
LEMMA RoundsInduction ==
    ASSUME NEW m \in Nat, NEW S, 0 \in S, \A k \in 1..m : k - 1 \in S => k \in S
    PROVE  \A k \in 0..m : k \in S
<1> SUFFICES ASSUME NEW k \in 0..m, k \notin S
             PROVE  FALSE
  OBVIOUS
<1> DEFINE T == {j \in 0..m : j \notin S}
<1>1. T \in SUBSET Nat /\ k \in T
  OBVIOUS
<1>2. PICK x \in T : \A y \in T : x <= y
  <2> HIDE DEF T
  <2> QED
    BY <1>1, LeastNat
<1>3. x \in 1..m /\ x - 1 \in 0..m
  BY <1>2
<1>4. x - 1 \in S
  BY <1>2, <1>3
<1> QED
  BY <1>2, <1>3, <1>4

-----------------------------------------------------------------------------
(* The loop of AppendEntries.                                              *)

\* The first entries of a request.
LEMMA FirstEntries ==
    ASSUME NEW es \in Seq(Entry), NEW k \in 0..Len(es)
    PROVE  /\ SubSeq(es, 1, k) \in Seq(Entry) /\ Len(SubSeq(es, 1, k)) = k
           /\ \A i \in 1..k : SubSeq(es, 1, k)[i] = es[i]
<1>1. \A i \in 1..k : es[i] \in Entry
  BY ElementOfSeq, LenProperties
<1> QED
  BY <1>1, SubSeqProperties, LenProperties

\* What AppendNew makes of the first entries of a request.
LEMMA AppendNewOfFirst ==
    ASSUME NEW xlog, NEW prev \in Nat, NEW es \in Seq(Entry), NEW k \in 0..Len(es)
    PROVE  AppendNew(xlog, prev, SubSeq(es, 1, k)) =
               IF HoldsFirst(xlog, es, k) THEN xlog
               ELSE [i \in 1..(prev + k) |->
                       IF i <= prev THEN xlog[i]
                       ELSE IF HoldsFirst(xlog, es, i - prev) THEN xlog[i]
                       ELSE es[i - prev]]
<1> DEFINE cur == SubSeq(es, 1, k)
<1>1. Len(cur) = k /\ \A i \in 1..k : cur[i] = es[i]
  BY FirstEntries
<1>2. AppendNew(xlog, prev, cur) =
        IF HoldsFirst(xlog, cur, Len(cur)) THEN xlog
        ELSE [i \in 1..(prev + Len(cur)) |->
                IF i <= prev THEN xlog[i]
                ELSE IF HoldsFirst(xlog, cur, i - prev) THEN xlog[i]
                ELSE cur[i - prev]]
  BY DEF AppendNew
<1> HIDE DEF cur
<1>3. ASSUME NEW i \in 0..k
      PROVE  HoldsFirst(xlog, cur, i) <=> HoldsFirst(xlog, es, i)
  BY <1>1 DEF HoldsFirst
<1>4. HoldsFirst(xlog, cur, Len(cur)) <=> HoldsFirst(xlog, es, k)
  BY <1>1, <1>3
<1>5. ASSUME NEW i \in 1..(prev + k)
      PROVE  (IF i <= prev THEN xlog[i]
              ELSE IF HoldsFirst(xlog, cur, i - prev) THEN xlog[i] ELSE cur[i - prev]) =
             (IF i <= prev THEN xlog[i]
              ELSE IF HoldsFirst(xlog, es, i - prev) THEN xlog[i] ELSE es[i - prev])
  <2>1. CASE i <= prev
    BY <2>1
  <2>2. CASE i > prev
    <3>1. i - prev \in 1..k /\ i - prev \in 0..k
      BY <2>2
    <3> QED
      BY <2>2, <3>1, <1>1, <1>3
  <2> QED
    BY <2>1, <2>2
<1> QED
  BY <1>1, <1>2, <1>4, <1>5 DEF cur

\* One round of the loop takes the log that AppendNew makes of the entries
\* before it to the log that AppendNew makes of the entries up to it.
LEMMA RoundComputesAppendNew ==
    ASSUME NEW xlog \in Seq(Entry), Contiguous(xlog, 1),
           NEW prev \in 0..Len(xlog),
           NEW es \in Seq(Entry), Contiguous(es, prev + 1), NEW k \in 1..Len(es)
    PROVE  AppendOne(AppendNew(xlog, prev, SubSeq(es, 1, k - 1)), es[k]) =
               AppendNew(xlog, prev, SubSeq(es, 1, k))
<1> DEFINE F(i) == IF i <= prev THEN xlog[i]
                   ELSE IF HoldsFirst(xlog, es, i - prev) THEN xlog[i]
                   ELSE es[i - prev]
           e == es[k]
           before == AppendNew(xlog, prev, SubSeq(es, 1, k - 1))
           after == AppendNew(xlog, prev, SubSeq(es, 1, k))
<1>0. Len(es) \in Nat /\ Len(xlog) \in Nat /\ prev \in Nat /\ k \in Nat /\ k - 1 \in 0..Len(es)
  BY LenProperties
<1>1. /\ before = IF HoldsFirst(xlog, es, k - 1) THEN xlog ELSE [i \in 1..(prev + (k - 1)) |-> F(i)]
      /\ after = IF HoldsFirst(xlog, es, k) THEN xlog ELSE [i \in 1..(prev + k) |-> F(i)]
  <2>1. ASSUME NEW j \in 0..Len(es)
        PROVE  AppendNew(xlog, prev, SubSeq(es, 1, j)) =
                 IF HoldsFirst(xlog, es, j) THEN xlog ELSE [i \in 1..(prev + j) |-> F(i)]
    BY <1>0, AppendNewOfFirst
  <2> HIDE DEF F
  <2> QED
    BY <1>0, <2>1
<1>2. e \in Entry /\ e.index = prev + k
  BY <1>0, ElementOfSeq DEF Contiguous
<1>3. HoldsFirst(xlog, es, k) <=> HoldsFirst(xlog, es, k - 1) /\ Holds(xlog, e)
  BY <1>0 DEF HoldsFirst
<1>4. before \in Seq(Entry)
  <2>1. Contiguous(SubSeq(es, 1, k - 1), prev + 1) /\ SubSeq(es, 1, k - 1) \in Seq(Entry)
    BY <1>0, FirstEntries DEF Contiguous
  <2> QED
    BY <2>1, AppendNewKeepsPositions
<1>5. F(prev + k) = IF HoldsFirst(xlog, es, k) THEN xlog[prev + k] ELSE e
  BY <1>0
<1> SUFFICES AppendOne(before, e) = after
  OBVIOUS
<1> HIDE DEF e, before, after
<1>6. CASE HoldsFirst(xlog, es, k)
  BY <1>1, <1>2, <1>3, <1>6 DEF AppendOne, Holds, Entry
<1>7. CASE HoldsFirst(xlog, es, k - 1) /\ ~HoldsFirst(xlog, es, k)
  <2>1. ~Holds(xlog, e)
    BY <1>3, <1>7
  <2>2. prev + (k - 1) <= Len(xlog)
    <3>1. CASE k = 1
      BY <1>0, <3>1
    <3>2. CASE k # 1
      <4>1. k - 1 \in 1..(k - 1) /\ k - 1 \in 1..Len(es)
        BY <1>0, <3>2
      <4>2. Holds(xlog, es[k - 1])
        BY <1>7, <4>1 DEF HoldsFirst
      <4>3. es[k - 1].index = prev + 1 + (k - 1) - 1
        BY <4>1 DEF Contiguous
      <4> QED
        BY <1>0, <4>2, <4>3 DEF Holds
    <3> QED
      BY <3>1, <3>2
  <2> DEFINE cut == SubSeq(xlog, 1, prev + (k - 1))
  <2>3. cut \in Seq(Entry) /\ Len(cut) = prev + (k - 1) /\ \A i \in 1..(prev + (k - 1)) : cut[i] = xlog[i]
    BY <1>0, <2>2, FirstEntries
  <2>4. AppendOne(xlog, e) = Append(cut, e)
    <3>1. CASE e.index > Len(xlog)
      <4>1. Len(xlog) = prev + (k - 1)
        BY <1>0, <1>2, <2>2, <3>1
      <4>2. cut = xlog
        BY <1>0, <4>1, SubSeqFull
      <4> QED
        BY <3>1, <4>2 DEF AppendOne
    <3>2. CASE ~(e.index > Len(xlog))
      <4>1. xlog[e.index].term # e.term
        BY <1>0, <1>2, <2>1, <3>2 DEF Holds
      <4>2. e.index - 1 = prev + (k - 1)
        BY <1>0, <1>2
      <4> QED
        BY <3>2, <4>1, <4>2 DEF AppendOne
    <3> QED
      BY <3>1, <3>2
  <2> HIDE DEF cut
  <2>5. /\ Append(cut, e) \in Seq(Entry) /\ Len(Append(cut, e)) = prev + k
        /\ \A i \in 1..(prev + (k - 1)) : Append(cut, e)[i] = cut[i]
        /\ Append(cut, e)[prev + k] = e
    BY <1>0, <1>2, <2>3, AppendProperties
  <2>6. \A i \in 1..(prev + (k - 1)) : F(i) = xlog[i]
    BY <1>0, <1>7 DEF HoldsFirst
  <2>7. after = [i \in 1..(prev + k) |-> F(i)]
    BY <1>1, <1>7
  <2> HIDE DEF F
  <2>8. \A i \in 1..(prev + k) : Append(cut, e)[i] = after[i]
    BY <1>0, <1>5, <1>7, <2>3, <2>5, <2>6, <2>7
  <2> DEFINE new == Append(cut, e)
  <2>9. new = [i \in 1..(prev + k) |-> new[i]]
    BY <2>5, LenProperties
  <2>10. Append(cut, e) = after
    <3> HIDE DEF new
    <3>1. \A i \in 1..(prev + k) : new[i] = F(i)
      BY <2>7, <2>8 DEF new
    <3>2. new = after
      BY <2>7, <2>9, <3>1
    <3> QED
      BY <3>2 DEF new
  <2> QED
    BY <1>1, <1>7, <2>4, <2>10
<1>8. CASE ~HoldsFirst(xlog, es, k - 1)
  <2>1. before = [i \in 1..(prev + (k - 1)) |-> F(i)] /\ after = [i \in 1..(prev + k) |-> F(i)]
    BY <1>1, <1>3, <1>8
  <2>2. F(prev + k) = e
    BY <1>3, <1>5, <1>8
  <2> HIDE DEF F
  <2>3. Len(before) = prev + (k - 1)
    BY <1>0, <1>4, <2>1, LenProperties
  <2>4. AppendOne(before, e) = Append(before, e)
    BY <1>0, <1>2, <2>3 DEF AppendOne
  <2>5. /\ Append(before, e) \in Seq(Entry) /\ Len(Append(before, e)) = prev + k
        /\ \A i \in 1..(prev + (k - 1)) : Append(before, e)[i] = before[i]
        /\ Append(before, e)[prev + k] = e
    BY <1>0, <1>2, <1>4, <2>3, AppendProperties
  <2>6. \A i \in 1..(prev + k) : Append(before, e)[i] = after[i]
    BY <1>0, <2>1, <2>2, <2>5
  <2> DEFINE new == Append(before, e)
  <2>7. new = [i \in 1..(prev + k) |-> new[i]]
    BY <2>5, LenProperties
  <2>8. Append(before, e) = after
    <3> HIDE DEF new
    <3>1. \A i \in 1..(prev + k) : new[i] = F(i)
      BY <2>1, <2>6 DEF new
    <3>2. new = after
      BY <2>1, <2>7, <3>1
    <3> QED
      BY <3>2 DEF new
  <2> QED
    BY <2>4, <2>8
<1> QED
  BY <1>3, <1>6, <1>7, <1>8

\* After the loop the log is the one that AppendNew makes of all entries, by
\* induction over its rounds.
LEMMA LoopIsAppendNew ==
    ASSUME NEW xlog \in Seq(Entry), Contiguous(xlog, 1),
           NEW prev \in 0..Len(xlog),
           NEW es \in Seq(Entry), Contiguous(es, prev + 1)
    PROVE  AppendLoop(xlog, es) = AppendNew(xlog, prev, es)
<1> DEFINE m == Len(es)
           Round(f) == f = [k \in 0..m |-> IF k = 0 THEN xlog ELSE AppendOne(f[k - 1], es[k])]
           g == [k \in 0..m |-> AppendNew(xlog, prev, SubSeq(es, 1, k))]
           loop == CHOOSE f : Round(f)
<1>0. m \in Nat
  BY LenProperties
<1>1. AppendLoop(xlog, es) = loop[m]
  BY DEF AppendLoop
<1>2. AppendNew(xlog, prev, SubSeq(es, 1, 0)) = xlog
  <2>1. 0 \in 0..Len(es) /\ prev \in Nat /\ HoldsFirst(xlog, es, 0)
    BY <1>0 DEF HoldsFirst
  <2> QED
    BY <2>1, AppendNewOfFirst
<1>3. \A k \in 1..m : AppendOne(g[k - 1], es[k]) = g[k]
  <2> SUFFICES ASSUME NEW k \in 1..m
               PROVE  AppendOne(g[k - 1], es[k]) = g[k]
    OBVIOUS
  <2>1. k \in 0..m /\ k - 1 \in 0..m
    BY <1>0
  <2>2. g[k - 1] = AppendNew(xlog, prev, SubSeq(es, 1, k - 1)) /\ g[k] = AppendNew(xlog, prev, SubSeq(es, 1, k))
    BY <2>1
  <2> QED
    BY <2>2, RoundComputesAppendNew
<1>4. g[0] = xlog /\ g = [k \in 0..m |-> g[k]]
  BY <1>0, <1>2
<1>5. g[m] = AppendNew(xlog, prev, es)
  <2>1. SubSeq(es, 1, m) = es
    BY SubSeqFull
  <2>2. m \in 0..m
    BY <1>0
  <2>3. g[m] = AppendNew(xlog, prev, SubSeq(es, 1, m))
    BY <2>2
  <2> QED
    BY <2>1, <2>3
<1> HIDE DEF g, m
<1>6. Round(g)
  <2>1. ASSUME NEW k \in 0..m
        PROVE  g[k] = IF k = 0 THEN xlog ELSE AppendOne(g[k - 1], es[k])
    <3>1. CASE k = 0
      BY <1>4, <3>1
    <3>2. CASE k # 0
      <4>1. k \in 1..m
        BY <1>0, <3>2
      <4> QED
        BY <1>3, <3>2, <4>1
    <3> QED
      BY <3>1, <3>2
  <2> QED
    BY <1>4, <2>1
<1>7. Round(loop)
  BY <1>6
<1> HIDE DEF loop
<1> DEFINE S == {k \in 0..m : loop[k] = g[k]}
<1>8. 0 \in S
  BY <1>0, <1>4, <1>7
<1>9. \A k \in 1..m : k - 1 \in S => k \in S
  BY <1>0, <1>3, <1>7
<1> HIDE DEF S, Round
<1>10. m \in S
  <2>1. m \in 0..m
    BY <1>0
  <2> QED
    BY <2>1, <1>0, <1>8, <1>9, RoundsInduction
<1> QED
  BY <1>1, <1>5, <1>10 DEF S

\* AppendEntries as a whole: whatever the outcome of its check, the log it
\* leaves is contiguous, and so is the last index it reports.
LEMMA LogAfterAppendKeepsPositions ==
    ASSUME NEW xlog \in Seq(Entry), Contiguous(xlog, 1),
           NEW c \in AppendCall, Contiguous(c.entries, c.prevIndex + 1)
    PROVE  /\ LogAfterAppend(c, xlog) \in Seq(Entry)
           /\ Contiguous(LogAfterAppend(c, xlog), 1)
<1>0. c.prevIndex \in Nat /\ c.entries \in Seq(Entry) /\ Len(xlog) \in Nat
  BY LenProperties DEF AppendCall
<1>1. CASE PrevMissing(c, xlog)
  BY <1>1 DEF LogAfterAppend
<1>2. CASE ~PrevMissing(c, xlog) /\ PrevConflict(c, xlog)
  <2>1. c.prevIndex - 1 \in 0..Len(xlog)
    BY <1>0, <1>2 DEF PrevConflict
  <2>2. LogAfterAppend(c, xlog) = SubSeq(xlog, 1, c.prevIndex - 1)
    BY <1>2 DEF LogAfterAppend
  <2> QED
    BY <2>1, <2>2, SliceOfLog
<1>3. CASE ~PrevMissing(c, xlog) /\ ~PrevConflict(c, xlog)
  <2>1. c.prevIndex \in 0..Len(xlog)
    BY <1>0, <1>3 DEF PrevMissing
  <2>2. LogAfterAppend(c, xlog) = AppendNew(xlog, c.prevIndex, c.entries)
    BY <1>3 DEF LogAfterAppend
  <2> QED
    BY <1>0, <2>1, <2>2, AppendNewKeepsPositions
<1> QED
  BY <1>1, <1>2, <1>3

(***************************************************************************)
(* Types and positions.  The two have to be proved together: that a        *)
(* handler reads its log inside the slice, and so leaves a sequence of     *)
(* entries, rests on the entries standing at their indices.                *)
(***************************************************************************)

LogInv == TypeOK /\ IndexIsPosition

\* The values that calls start from and end with are calls.
LEMMA CallTypes ==
    /\ \A s \in {"none", "spawned", "granted", "counted"} : VoteCallAt(s) \in VoteCall
    /\ \A s \in {"idle", "spawned"} :
          AppendCallAt(s) \in AppendCall /\ AppendCallAt(s).entries = <<>>
BY EmptySeq DEF VoteCallAt, VoteCall, AppendCallAt, AppendCall

\* No entries are contiguous from anywhere.
LEMMA EmptyContiguous == \A first : Contiguous(<<>>, first)
BY DEF Contiguous

\* The initial state of New satisfies the invariant.
LEMMA LogInvInit == Init => LogInv
BY CallTypes, EmptySeq, EmptyContiguous
   DEF Init, LogInv, TypeOK, IndexIsPosition

\* A step that leaves the logs and the AppendEntries calls alone and moves
\* the rest within its types preserves the invariant.
LEMMA LogInvFrame ==
    ASSUME LogInv, TypeOK', UNCHANGED <<log, ae>>
    PROVE  LogInv'
BY DEF LogInv, IndexIsPosition, Contiguous

\* A step that replaces one AppendEntries call by a well-formed one.
LEMMA SetAppendCallPreserves ==
    ASSUME LogInv, NEW n \in Node, NEW p \in Node, NEW l \in Lane,
           NEW call \in AppendCall, Contiguous(call.entries, call.prevIndex + 1),
           SetAppendCall(n, p, l, call), log' = log
    PROVE  /\ ae' \in [Node -> [Node -> [Lane -> AppendCall]]]
           /\ IndexIsPosition'
<1>0. ae \in [Node -> [Node -> [Lane -> AppendCall]]]
  BY DEF LogInv, TypeOK
<1>1. /\ ae' \in [Node -> [Node -> [Lane -> AppendCall]]]
      /\ \A x \in Node, y \in Node, z \in Lane :
           ae'[x][y][z] = IF x = n /\ y = p /\ z = l THEN call ELSE ae[x][y][z]
  BY <1>0, SetAppendCallEffect
<1>2. ASSUME NEW m \in Node, NEW q \in Node, NEW k \in Lane
      PROVE  Contiguous(ae'[m][q][k].entries, ae'[m][q][k].prevIndex + 1)
  <2>1. CASE m = n /\ q = p /\ k = l
    BY <1>1, <2>1
  <2>2. CASE ~(m = n /\ q = p /\ k = l)
    <3>1. ae'[m][q][k] = ae[m][q][k]
      BY <1>1, <2>2
    <3> QED
      BY <3>1 DEF LogInv, IndexIsPosition
  <2> QED
    BY <2>1, <2>2
<1> QED
  BY <1>1, <1>2 DEF LogInv, IndexIsPosition

\* Starting the heartbeat goroutines.
LEMMA SendHeartbeatsPreserves ==
    ASSUME LogInv, NEW n \in Node, sendHeartbeats(n)
    PROVE  /\ ae' \in [Node -> [Node -> [Lane -> AppendCall]]]
           /\ \A m, q \in Node, k \in Lane :
                 Contiguous(ae'[m][q][k].entries, ae'[m][q][k].prevIndex + 1)
<1> DEFINE spawned(p) == [ae[n][p] EXCEPT ![CHOOSE l \in IdleLanes(n, p) : TRUE]
                                            = AppendCallAt("spawned")]
           new == [p \in Node |-> IF p = n \/ IdleLanes(n, p) = {} THEN ae[n][p]
                                  ELSE spawned(p)]
<1>1. ae' = [ae EXCEPT ![n] = new]
  BY DEF sendHeartbeats
<1>2. ASSUME NEW p \in Node
      PROVE  /\ new[p] \in [Lane -> AppendCall]
             /\ \A k \in Lane : Contiguous(new[p][k].entries, new[p][k].prevIndex + 1)
  <2>1. ae[n][p] \in [Lane -> AppendCall]
    BY DEF LogInv, TypeOK
  <2>2. \A k \in Lane : Contiguous(ae[n][p][k].entries, ae[n][p][k].prevIndex + 1)
    BY DEF LogInv, IndexIsPosition
  <2>3. /\ spawned(p) \in [Lane -> AppendCall]
        /\ \A k \in Lane : spawned(p)[k] \in {ae[n][p][k], AppendCallAt("spawned")}
    BY <2>1, CallTypes
  <2>4. \A k \in Lane : Contiguous(spawned(p)[k].entries, spawned(p)[k].prevIndex + 1)
    BY <2>2, <2>3, CallTypes, EmptyContiguous
  <2> QED
    BY <2>1, <2>2, <2>3, <2>4
<1> HIDE DEF new
<1>3. new \in [Node -> [Lane -> AppendCall]]
  BY <1>2 DEF new
<1>4. ae' \in [Node -> [Node -> [Lane -> AppendCall]]]
  BY <1>1, <1>3 DEF LogInv, TypeOK
<1>5. \A m \in Node : ae'[m] = IF m = n THEN new ELSE ae[m]
  BY <1>1 DEF LogInv, TypeOK
<1> QED
  BY <1>2, <1>4, <1>5 DEF LogInv, IndexIsPosition

\* becomeCandidate and startElection keep the invariant.
LEMMA CandidateKeepsLogInv ==
    ASSUME LogInv, NEW n \in Node, becomeCandidate(n) \/ startElection(n)
    PROVE  LogInv'
<1>1. CASE becomeCandidate(n)
  <2>1. TypeOK'
    BY <1>1 DEF LogInv, TypeOK, becomeCandidate, logVars, leaderVars, voteVars
  <2> QED
    BY <1>1, <2>1, LogInvFrame DEF becomeCandidate, logVars
<1>2. CASE startElection(n)
  <2>1. PICK b \in Batch :
          /\ votes' = [votes EXCEPT ![n][b] = 1]
          /\ vc' = [vc EXCEPT ![n][b] =
                     [p \in Node |-> VoteCallAt(IF p = n THEN "none"
                                                ELSE "spawned")]]
    BY <1>2 DEF startElection
  <2>2. [p \in Node |-> VoteCallAt(IF p = n THEN "none" ELSE "spawned")]
           \in [Node -> VoteCall]
    BY CallTypes
  <2>3. votes' \in [Node -> [Batch -> Nat]]
    BY <2>1 DEF LogInv, TypeOK
  <2>4. vc' \in [Node -> [Batch -> [Node -> VoteCall]]]
    BY <2>1, <2>2 DEF LogInv, TypeOK
  <2>5. TypeOK'
    BY <1>2, <2>3, <2>4
       DEF LogInv, TypeOK, startElection, nodeVars, logVars, leaderVars
  <2> QED
    BY <1>2, <2>5, LogInvFrame DEF startElection, logVars
<1> QED
  BY <1>1, <1>2

\* The steps of a call for a vote keep the invariant.
LEMMA VoteStepKeepsLogInv ==
    ASSUME LogInv, NEW n \in Node, NEW b \in Batch, NEW p \in Node,
           VoteStep(n, b, p)
    PROVE  LogInv'
<1>0. /\ vc \in [Node -> [Batch -> [Node -> VoteCall]]]
      /\ vc[n][b][p] \in VoteCall
      /\ log[n] \in Seq(Entry)
      /\ currentTerm[n] \in Nat /\ currentTerm[p] \in Nat
  BY DEF LogInv, TypeOK
<1>1. CASE requestVoteFromPeer(n, b, p)
  <2> DEFINE c == vc[n][b][p]
  <2>1. PICK call \in VoteCall : SetVoteCall(n, b, p, call)
    <3>1. /\ [c EXCEPT !.stage = "term", !.term = currentTerm[n]] \in VoteCall
          /\ [c EXCEPT !.stage = "index", !.lastIndex = getLastLogIndex(log[n])]
               \in VoteCall
          /\ [c EXCEPT !.stage = "request", !.lastTerm = getLastLogTerm(log[n])]
               \in VoteCall
      BY <1>0, LastOfLog DEF VoteCall
    <3> QED
      BY <1>1, <3>1 DEF requestVoteFromPeer
  <2>2. vc' \in [Node -> [Batch -> [Node -> VoteCall]]]
    BY <1>0, <2>1, SetVoteCallEffect
  <2>3. TypeOK'
    BY <1>1, <2>2
       DEF LogInv, TypeOK, requestVoteFromPeer, nodeVars, logVars, leaderVars
  <2> QED
    BY <1>1, <2>3, LogInvFrame DEF requestVoteFromPeer, logVars
<1>2. CASE RequestVote(n, b, p)
  <2> DEFINE grant == MayVote(p, vc[n][b][p], n)
             call == VoteCallAt(IF grant THEN "granted" ELSE "none")
  <2>1. call \in VoteCall /\ SetVoteCall(n, b, p, call)
    BY <1>2, CallTypes DEF RequestVote, VoteReply
  <2>2. vc' \in [Node -> [Batch -> [Node -> VoteCall]]]
    BY <1>0, <2>1, SetVoteCallEffect
  <2>3. vc[n][b][p].term \in Nat
    BY <1>0 DEF VoteCall
  <2>4. /\ currentTerm' \in [Node -> Nat]
        /\ votedFor' \in [Node -> Node \cup {NoVote}]
        /\ state' \in [Node -> {"Follower", "Candidate", "Leader"}]
        /\ grants' \subseteq Node \X Node \X Nat
    <3>1. currentTerm' \in [Node -> Nat]
      BY <1>2, <2>3 DEF LogInv, TypeOK, RequestVote
    <3>2. /\ votedFor' \in [Node -> Node \cup {NoVote}]
          /\ state' \in [Node -> {"Follower", "Candidate", "Leader"}]
      BY <1>2 DEF LogInv, TypeOK, RequestVote
    <3>3. <<p, n, vc[n][b][p].term>> \in Node \X Node \X Nat
      BY <2>3
    <3>4. grants' \subseteq Node \X Node \X Nat
      BY <1>2, <3>3 DEF LogInv, TypeOK, RequestVote
    <3> QED
      BY <3>1, <3>2, <3>4
  <2>5. TypeOK'
    BY <1>2, <2>2, <2>4 DEF LogInv, TypeOK, RequestVote, logVars, leaderVars
  <2> QED
    BY <1>2, <2>5, LogInvFrame DEF RequestVote, logVars
<1>3. CASE countVote(n, b, p)
  <2>1. VoteCallAt("counted") \in VoteCall /\ SetVoteCall(n, b, p, VoteCallAt("counted"))
    BY <1>3, CallTypes DEF countVote
  <2>2. vc' \in [Node -> [Batch -> [Node -> VoteCall]]]
    BY <1>0, <2>1, SetVoteCallEffect
  <2>3. getLastLogIndex(log[n]) + 1 \in Nat \ {0}
    BY <1>0, LastOfLog
  <2>4. /\ nextIndex' \in [Node -> [Node -> Nat \ {0}]]
        /\ matchIndex' \in [Node -> [Node -> Nat]]
    BY <1>3, <2>3 DEF LogInv, TypeOK, countVote
  <2>5. /\ state' \in [Node -> {"Follower", "Candidate", "Leader"}]
        /\ votes' \in [Node -> [Batch -> Nat]]
    <3>0. votes[n][b] + 1 \in Nat
      BY DEF LogInv, TypeOK
    <3>1. votes' = [votes EXCEPT ![n][b] = votes[n][b] + 1]
      BY <1>3 DEF countVote
    <3>2. votes' \in [Node -> [Batch -> Nat]]
      BY <3>0, <3>1 DEF LogInv, TypeOK
    <3>3. state' \in [Node -> {"Follower", "Candidate", "Leader"}]
      BY <1>3 DEF LogInv, TypeOK, countVote
    <3> QED
      BY <3>2, <3>3
  <2>6. TypeOK'
    BY <1>3, <2>2, <2>4, <2>5 DEF LogInv, TypeOK, countVote, logVars
  <2> QED
    BY <1>3, <2>6, LogInvFrame DEF countVote, logVars
<1>4. CASE loseVoteCall(n, b, p)
  <2>1. VoteCallAt("none") \in VoteCall /\ SetVoteCall(n, b, p, VoteCallAt("none"))
    BY <1>4, CallTypes DEF loseVoteCall
  <2>2. vc' \in [Node -> [Batch -> [Node -> VoteCall]]]
    BY <1>0, <2>1, SetVoteCallEffect
  <2>3. TypeOK'
    BY <1>4, <2>2 DEF LogInv, TypeOK, loseVoteCall, nodeVars, logVars, leaderVars
  <2> QED
    BY <1>4, <2>3, LogInvFrame DEF loseVoteCall, logVars
<1> QED
  BY <1>1, <1>2, <1>3, <1>4 DEF VoteStep

\* A heartbeat tick and a proposal keep the invariant: the new entry stands
\* right behind the log.
LEMMA LeaderKeepsLogInv ==
    ASSUME LogInv, NEW n \in Node,
           tickLeader(n) \/ \E v \in Value : Propose(n, v)
    PROVE  LogInv'
<1>1. CASE tickLeader(n)
  <2>1. sendHeartbeats(n)
    BY <1>1 DEF tickLeader
  <2>2. TypeOK'
    BY <1>1, <2>1, SendHeartbeatsPreserves
       DEF LogInv, TypeOK, tickLeader, nodeVars, logVars, leaderVars, voteVars
  <2>3. IndexIsPosition'
    BY <1>1, <2>1, SendHeartbeatsPreserves
       DEF LogInv, IndexIsPosition, tickLeader, logVars
  <2> QED
    BY <2>2, <2>3 DEF LogInv
<1>2. ASSUME NEW v \in Value, Propose(n, v)
      PROVE  LogInv'
  <2> DEFINE e == [term |-> currentTerm[n],
                   index |-> getLastLogIndex(log[n]) + 1, command |-> v]
  <2>0. log \in [Node -> Seq(Entry)] /\ currentTerm[n] \in Nat
    BY DEF LogInv, TypeOK
  <2>1. e \in Entry /\ e.index = Len(log[n]) + 1
    <3>1. getLastLogIndex(log[n]) = Len(log[n]) /\ Len(log[n]) \in Nat
      BY <2>0, LastIndexIsLen, LenProperties DEF LogInv, IndexIsPosition
    <3> QED
      BY <2>0, <3>1 DEF Entry
  <2>2. log' = [log EXCEPT ![n] = Append(log[n], e)]
    BY <1>2 DEF Propose
  <2> HIDE DEF e
  <2>3. Append(log[n], e) \in Seq(Entry) /\ Contiguous(Append(log[n], e), 1)
    <3>1. Contiguous(log[n], 1)
      BY DEF LogInv, IndexIsPosition
    <3> QED
      BY <2>0, <2>1, <3>1 DEF Contiguous
  <2>4. sendHeartbeats(n)
    BY <1>2 DEF Propose
  <2>5. log' \in [Node -> Seq(Entry)]
    BY <2>0, <2>2, <2>3
  <2>6. TypeOK'
    BY <1>2, <2>4, <2>5, SendHeartbeatsPreserves
       DEF LogInv, TypeOK, Propose, nodeVars, leaderVars, voteVars
  <2>7. IndexIsPosition'
    <3>1. \A m \in Node : Contiguous(log'[m], 1)
      BY <2>0, <2>2, <2>3 DEF LogInv, IndexIsPosition
    <3> QED
      BY <2>4, <3>1, SendHeartbeatsPreserves DEF IndexIsPosition
  <2> QED
    BY <2>6, <2>7 DEF LogInv
<1> QED
  BY <1>1, <1>2

\* Building and sending a request keep the invariant: what is read from the
\* log, before or after it was overwritten, stands at its own position.
LEMMA RequestKeepsLogInv ==
    ASSUME LogInv, NEW n \in Node, NEW p \in Node, NEW l \in Lane,
           buildAppend(n, p, l) \/ SendAppendEntries(n, p, l) \/ loseAppendCall(n, p, l)
    PROVE  LogInv'
<1>0. /\ log[n] \in Seq(Entry) /\ Contiguous(log[n], 1) /\ Len(log[n]) \in Nat
      /\ ae[n][p][l] \in AppendCall
      /\ Contiguous(ae[n][p][l].entries, ae[n][p][l].prevIndex + 1)
      /\ nextIndex[n][p] \in Nat \ {0}
      /\ currentTerm[n] \in Nat /\ commitIndex[n] \in Nat
  BY LenProperties DEF LogInv, TypeOK, IndexIsPosition
<1>1. \E call \in AppendCall : /\ Contiguous(call.entries, call.prevIndex + 1)
                               /\ SetAppendCall(n, p, l, call)
  <2>1. CASE buildAppend(n, p, l)
    <3> DEFINE next == nextIndex[n][p]
               pt == IF next - 1 \in 1..Len(log[n]) THEN log[n][next - 1].term ELSE 0
               es == IF next <= Len(log[n])
                     THEN SubSeq(log[n], next, Len(log[n])) ELSE <<>>
               call == [stage |-> "built", term |-> currentTerm[n],
                        prevIndex |-> next - 1, prevTerm |-> pt, entries |-> es,
                        commit |-> commitIndex[n], success |-> FALSE, last |-> 0]
    <3>1. pt \in Nat
      <4>1. CASE next - 1 \in 1..Len(log[n])
        <5>1. log[n][next - 1] \in Entry
          BY <1>0, <4>1, ElementOfSeq
        <5> QED
          BY <4>1, <5>1 DEF Entry
      <4>2. CASE ~(next - 1 \in 1..Len(log[n]))
        BY <4>2
      <4> QED
        BY <4>1, <4>2
    <3>2. es \in Seq(Entry) /\ Contiguous(es, next)
      <4>1. CASE next <= Len(log[n])
        BY <1>0, <4>1, SliceOfLog
      <4>2. CASE ~(next <= Len(log[n]))
        BY <4>2, EmptySeq, EmptyContiguous
      <4> QED
        BY <4>1, <4>2
    <3>3. SetAppendCall(n, p, l, call)
      BY <2>1 DEF buildAppend
    <3>4. next - 1 \in Nat /\ (next - 1) + 1 = next
      BY <1>0
    <3> HIDE DEF pt, es, next
    <3>5. call \in AppendCall /\ call.entries = es /\ call.prevIndex = next - 1
      BY <1>0, <3>1, <3>2, <3>4 DEF AppendCall
    <3> HIDE DEF call
    <3> QED
      BY <3>2, <3>3, <3>4, <3>5
  <2>2. CASE SendAppendEntries(n, p, l)
    <3> DEFINE c == ae[n][p][l]
    <3>0. c.entries \in Seq(Entry) /\ Len(c.entries) \in Nat /\ c.prevIndex \in Nat
      BY <1>0, LenProperties DEF AppendCall
    <3>1. PICK fresh \in SUBSET {i \in 1..Len(c.entries) :
                                   c.prevIndex + i <= Len(log[n])} :
            SetAppendCall(n, p, l, [c EXCEPT !.stage = "sent",
                                             !.entries = Reread(n, c, fresh)])
      BY <2>2 DEF SendAppendEntries
    <3> DEFINE es == Reread(n, c, fresh)
               call == [c EXCEPT !.stage = "sent", !.entries = es]
    <3>2. ASSUME NEW i \in 1..Len(c.entries)
          PROVE  es[i] \in Entry /\ es[i].index = c.prevIndex + i
      <4>1. CASE i \in fresh
        <5>1. c.prevIndex + i \in 1..Len(log[n]) /\ es[i] = log[n][c.prevIndex + i]
          BY <1>0, <3>0, <4>1 DEF Reread
        <5> QED
          BY <1>0, <5>1, ElementOfSeq DEF Contiguous
      <4>2. CASE i \notin fresh
        <5>1. es[i] = c.entries[i]
          BY <4>2 DEF Reread
        <5> QED
          BY <1>0, <3>0, <5>1, ElementOfSeq DEF Contiguous
      <4> QED
        BY <4>1, <4>2
    <3>3. es \in Seq(Entry) /\ Len(es) = Len(c.entries)
      <4>1. es \in [1..Len(c.entries) -> Entry]
        BY <3>2 DEF Reread
      <4> HIDE DEF es
      <4> QED
        BY <3>0, <4>1, SeqDef
    <3>4. Contiguous(es, c.prevIndex + 1)
      BY <3>0, <3>2, <3>3 DEF Contiguous
    <3> HIDE DEF es
    <3>5. call \in AppendCall /\ call.entries = es /\ call.prevIndex = c.prevIndex
      BY <1>0, <3>3 DEF AppendCall
    <3> HIDE DEF call
    <3>6. SetAppendCall(n, p, l, call)
      BY <3>1 DEF call, es
    <3> QED
      BY <3>4, <3>5, <3>6
  <2>3. CASE loseAppendCall(n, p, l)
    BY <2>3, CallTypes, EmptyContiguous DEF loseAppendCall
  <2> QED
    BY <2>1, <2>2, <2>3
<1>2. log' = log
  BY DEF buildAppend, SendAppendEntries, loseAppendCall, logVars
<1>3. /\ ae' \in [Node -> [Node -> [Lane -> AppendCall]]]
      /\ IndexIsPosition'
  BY <1>1, <1>2, SetAppendCallPreserves
<1>4. TypeOK'
  BY <1>3 DEF LogInv, TypeOK, buildAppend, SendAppendEntries, loseAppendCall,
              nodeVars, logVars, leaderVars, voteVars
<1> QED
  BY <1>3, <1>4 DEF LogInv

\* The AppendEntries handler keeps the invariant.
LEMMA HandlerKeepsLogInv ==
    ASSUME LogInv, NEW n \in Node, NEW p \in Node, NEW l \in Lane,
           AppendEntries(n, p, l)
    PROVE  LogInv'
<1> DEFINE c == ae[n][p][l]
           accepts == c.term >= currentTerm[p]
           success == /\ accepts
                      /\ ~PrevMissing(c, log[p])
                      /\ ~PrevConflict(c, log[p])
           newLog == IF accepts THEN LogAfterAppend(c, log[p]) ELSE log[p]
           call == ReplyCall(currentTerm[p], success, getLastLogIndex(c.entries))
<1>0. /\ log[p] \in Seq(Entry) /\ Contiguous(log[p], 1)
      /\ c \in AppendCall /\ Contiguous(c.entries, c.prevIndex + 1)
      /\ c.term \in Nat /\ c.commit \in Nat /\ c.entries \in Seq(Entry)
      /\ currentTerm[p] \in Nat /\ commitIndex[p] \in Nat
  <2>1. /\ log[p] \in Seq(Entry) /\ Contiguous(log[p], 1)
        /\ c \in AppendCall /\ Contiguous(c.entries, c.prevIndex + 1)
        /\ currentTerm[p] \in Nat /\ commitIndex[p] \in Nat
    BY DEF LogInv, TypeOK, IndexIsPosition
  <2>2. c.term \in Nat /\ c.commit \in Nat /\ c.entries \in Seq(Entry)
    BY <2>1 DEF AppendCall
  <2> QED
    BY <2>1, <2>2
<1>1. newLog \in Seq(Entry) /\ Contiguous(newLog, 1)
  BY <1>0, LogAfterAppendKeepsPositions
<1>2. /\ log' = [log EXCEPT ![p] = newLog]
      /\ SetAppendCall(n, p, l, call)
      /\ commitIndex' = [commitIndex EXCEPT ![p] =
            IF success
            THEN CommitAfterAppend(commitIndex[p], c.commit, getLastLogIndex(newLog))
            ELSE commitIndex[p]]
  BY DEF AppendEntries, StepsDown
<1>3. /\ getLastLogIndex(newLog) \in Nat /\ getLastLogIndex(c.entries) \in Nat
      /\ success \in BOOLEAN
  BY <1>0, <1>1, LastOfLog
<1> HIDE DEF newLog, success
<1>4. call \in AppendCall /\ Contiguous(call.entries, call.prevIndex + 1)
  BY <1>0, <1>3, EmptySeq, EmptyContiguous DEF AppendCall, ReplyCall
<1> HIDE DEF call
<1>5. commitIndex' \in [Node -> Nat]
  BY <1>0, <1>2, <1>3 DEF LogInv, TypeOK, CommitAfterAppend
<1>6. log' \in [Node -> Seq(Entry)]
  BY <1>1, <1>2 DEF LogInv, TypeOK
<1>7. /\ currentTerm' \in [Node -> Nat]
      /\ votedFor' \in [Node -> Node \cup {NoVote}]
      /\ state' \in [Node -> {"Follower", "Candidate", "Leader"}]
  BY <1>0 DEF LogInv, TypeOK, AppendEntries
<1>8. ae \in [Node -> [Node -> [Lane -> AppendCall]]]
  BY DEF LogInv, TypeOK
<1>9. /\ ae' \in [Node -> [Node -> [Lane -> AppendCall]]]
      /\ \A x \in Node, y \in Node, z \in Lane :
           ae'[x][y][z] = IF x = n /\ y = p /\ z = l THEN call ELSE ae[x][y][z]
  BY <1>2, <1>4, <1>8, SetAppendCallEffect
<1>10. TypeOK'
  BY <1>5, <1>6, <1>7, <1>9 DEF LogInv, TypeOK, AppendEntries, leaderVars, voteVars
<1>11. \A m \in Node : Contiguous(log'[m], 1)
  BY <1>1, <1>2 DEF LogInv, TypeOK, IndexIsPosition
<1>12. ASSUME NEW m \in Node, NEW q \in Node, NEW k \in Lane
       PROVE  Contiguous(ae'[m][q][k].entries, ae'[m][q][k].prevIndex + 1)
  <2>1. CASE m = n /\ q = p /\ k = l
    BY <1>4, <1>9, <2>1
  <2>2. CASE ~(m = n /\ q = p /\ k = l)
    <3>1. ae'[m][q][k] = ae[m][q][k]
      BY <1>9, <2>2
    <3> QED
      BY <3>1 DEF LogInv, IndexIsPosition
  <2> QED
    BY <2>1, <2>2
<1> QED
  BY <1>10, <1>11, <1>12 DEF LogInv, IndexIsPosition

\* The handling of a reply keeps the invariant; nextIndex stays positive.
LEMMA ReplyKeepsLogInv ==
    ASSUME LogInv, NEW n \in Node, NEW p \in Node, NEW l \in Lane,
           handleAppendReply(n, p, l)
    PROVE  LogInv'
<1>0. /\ ae[n][p][l].term \in Nat /\ ae[n][p][l].last \in Nat
      /\ nextIndex[n][p] \in Nat \ {0} /\ matchIndex[n][p] \in Nat
  <2>1. /\ ae[n][p][l] \in AppendCall
        /\ nextIndex[n][p] \in Nat \ {0} /\ matchIndex[n][p] \in Nat
    BY DEF LogInv, TypeOK
  <2> QED
    BY <2>1 DEF AppendCall
<1>1. /\ ae' \in [Node -> [Node -> [Lane -> AppendCall]]]
      /\ IndexIsPosition'
  <2>1. /\ AppendCallAt("idle") \in AppendCall
        /\ Contiguous(AppendCallAt("idle").entries, AppendCallAt("idle").prevIndex + 1)
    BY CallTypes, EmptyContiguous
  <2>2. SetAppendCall(n, p, l, AppendCallAt("idle")) /\ log' = log
    BY DEF handleAppendReply, logVars
  <2> QED
    BY <2>1, <2>2, SetAppendCallPreserves
<1>2. PICK k \in Nat \ {0} : nextIndex' = [nextIndex EXCEPT ![n][p] = k]
  <2> DEFINE c == ae[n][p][l]
             i == IF ~(c.term > currentTerm[n]) /\ c.success /\ c.last > 0
                  THEN c.last + 1
                  ELSE IF ~(c.term > currentTerm[n]) /\ ~c.success /\ nextIndex[n][p] > 1
                  THEN nextIndex[n][p] - 1 ELSE nextIndex[n][p]
  <2>1. i \in Nat \ {0}
    BY <1>0
  <2>2. nextIndex' = [nextIndex EXCEPT ![n][p] = i]
    BY DEF handleAppendReply, Decrement
  <2> QED
    BY <2>1, <2>2
<1>3. PICK j \in Nat : matchIndex' = [matchIndex EXCEPT ![n][p] = j]
  BY <1>0 DEF handleAppendReply
<1>4. /\ nextIndex' \in [Node -> [Node -> Nat \ {0}]]
      /\ matchIndex' \in [Node -> [Node -> Nat]]
  BY <1>2, <1>3 DEF LogInv, TypeOK
<1>5. /\ currentTerm' \in [Node -> Nat]
      /\ votedFor' \in [Node -> Node \cup {NoVote}]
      /\ state' \in [Node -> {"Follower", "Candidate", "Leader"}]
  BY <1>0 DEF LogInv, TypeOK, handleAppendReply
<1>6. TypeOK'
  BY <1>1, <1>4, <1>5 DEF LogInv, TypeOK, handleAppendReply, logVars, voteVars
<1> QED
  BY <1>1, <1>6 DEF LogInv

\* Every step of every node, and every step that stutters.
LEMMA LogInvStep == LogInv /\ [Next]_vars => LogInv'
<1> SUFFICES ASSUME LogInv, [Next]_vars
             PROVE  LogInv'
  OBVIOUS
<1>1. CASE UNCHANGED vars
  BY <1>1 DEF LogInv, TypeOK, IndexIsPosition, Contiguous, vars, nodeVars,
              logVars, leaderVars, voteVars
<1>2. ASSUME NEW n \in Node, NodeStep(n)
      PROVE  LogInv'
  BY <1>2, CandidateKeepsLogInv, LeaderKeepsLogInv DEF NodeStep
<1>3. ASSUME NEW n \in Node, NEW p \in Node, NEW b \in Batch, VoteStep(n, b, p)
      PROVE  LogInv'
  BY <1>3, VoteStepKeepsLogInv
<1>4. ASSUME NEW n \in Node, NEW p \in Node, NEW l \in Lane, AppendStep(n, p, l)
      PROVE  LogInv'
  BY <1>4, RequestKeepsLogInv, HandlerKeepsLogInv, ReplyKeepsLogInv DEF AppendStep
<1> QED
  BY <1>1, <1>2, <1>3, <1>4 DEF Next

\* Types: in every reachable state every field of every node has its type.
\* In particular the log stays a sequence of entries, though the handlers
\* read and cut it by the indices that requests carry.
THEOREM TypeCorrect == Spec => []TypeOK
<1>1. Init => LogInv
  BY LogInvInit
<1>2. LogInv /\ [Next]_vars => LogInv'
  BY LogInvStep
<1>3. LogInv => TypeOK
  BY DEF LogInv
<1> QED
  BY <1>1, <1>2, <1>3, PTL DEF Spec

\* Entries stand at their indices, in every log and in every request, however
\* requests are lost, delayed, overtaken, or torn by a concurrent overwrite.
THEOREM PositionsCorrect == Spec => []IndexIsPosition
<1>1. Init => LogInv
  BY LogInvInit
<1>2. LogInv /\ [Next]_vars => LogInv'
  BY LogInvStep
<1>3. LogInv => IndexIsPosition
  BY DEF LogInv
<1> QED
  BY <1>1, <1>2, <1>3, PTL DEF Spec

\* The loop of AppendEntries leaves what AppendNew says, for every log and
\* every request that can meet: one round does (RoundComputesAppendNew), and so
\* do all of them, since logs and requests are contiguous.
THEOREM LoopCorrect == Spec => []LoopComputesAppendNew
<1>1. Init => LogInv
  BY LogInvInit
<1>2. LogInv /\ [Next]_vars => LogInv'
  BY LogInvStep
<1>3. LogInv => LoopComputesAppendNew
  <2> SUFFICES ASSUME LogInv, NEW n \in Node, NEW p \in Node, NEW l \in Lane,
                      ~PrevMissing(ae[n][p][l], log[p])
               PROVE  AppendLoop(log[p], ae[n][p][l].entries) =
                          AppendNew(log[p], ae[n][p][l].prevIndex, ae[n][p][l].entries)
    BY DEF LoopComputesAppendNew
  <2>1. /\ log[p] \in Seq(Entry) /\ Contiguous(log[p], 1)
        /\ ae[n][p][l] \in AppendCall
        /\ Contiguous(ae[n][p][l].entries, ae[n][p][l].prevIndex + 1)
    BY DEF LogInv, TypeOK, IndexIsPosition
  <2>2. ae[n][p][l].entries \in Seq(Entry) /\ ae[n][p][l].prevIndex \in 0..Len(log[p])
    BY <2>1, LenProperties DEF AppendCall, PrevMissing
  <2> QED
    BY <2>1, <2>2, LoopIsAppendNew
<1> QED
  BY <1>1, <1>2, <1>3, PTL DEF Spec

(***************************************************************************)
(* Terms never go back.                                                    *)
(***************************************************************************)

\* No handler, reply or timeout lowers the term of any node.
LEMMA TermStep ==
    ASSUME LogInv, [Next]_vars, NEW m \in Node
    PROVE  currentTerm'[m] >= currentTerm[m]
<1>0. currentTerm \in [Node -> Nat]
  BY DEF LogInv, TypeOK
<1>1. CASE UNCHANGED vars
  BY <1>0, <1>1 DEF vars, nodeVars
<1>2. ASSUME NEW n \in Node, NodeStep(n)
      PROVE  currentTerm'[m] >= currentTerm[m]
  <2>1. CASE becomeCandidate(n)
    BY <1>0, <2>1 DEF becomeCandidate
  <2>2. CASE startElection(n) \/ tickLeader(n) \/ \E v \in Value : Propose(n, v)
    <3>1. currentTerm' = currentTerm
      BY <2>2 DEF startElection, tickLeader, Propose, nodeVars
    <3> QED
      BY <1>0, <3>1
  <2> QED
    BY <1>2, <2>1, <2>2 DEF NodeStep
<1>3. ASSUME NEW n \in Node, NEW p \in Node, NEW b \in Batch, VoteStep(n, b, p)
      PROVE  currentTerm'[m] >= currentTerm[m]
  <2>1. vc[n][b][p].term \in Nat
    <3>1. vc[n][b][p] \in VoteCall
      BY DEF LogInv, TypeOK
    <3> QED
      BY <3>1 DEF VoteCall
  <2>2. CASE RequestVote(n, b, p)
    BY <1>0, <2>1, <2>2 DEF RequestVote
  <2>3. CASE requestVoteFromPeer(n, b, p) \/ countVote(n, b, p) \/ loseVoteCall(n, b, p)
    <3>1. currentTerm' = currentTerm
      BY <2>3 DEF requestVoteFromPeer, countVote, loseVoteCall, nodeVars
    <3> QED
      BY <1>0, <3>1
  <2> QED
    BY <1>3, <2>2, <2>3 DEF VoteStep
<1>4. ASSUME NEW n \in Node, NEW p \in Node, NEW l \in Lane, AppendStep(n, p, l)
      PROVE  currentTerm'[m] >= currentTerm[m]
  <2>1. ae[n][p][l].term \in Nat
    <3>1. ae[n][p][l] \in AppendCall
      BY DEF LogInv, TypeOK
    <3> QED
      BY <3>1 DEF AppendCall
  <2>2. CASE AppendEntries(n, p, l)
    BY <1>0, <2>1, <2>2 DEF AppendEntries, StepsDown
  <2>3. CASE handleAppendReply(n, p, l)
    BY <1>0, <2>1, <2>3, SMTT(30) DEF handleAppendReply
  <2>4. CASE buildAppend(n, p, l) \/ SendAppendEntries(n, p, l) \/ loseAppendCall(n, p, l)
    <3>1. currentTerm' = currentTerm
      BY <2>4 DEF buildAppend, SendAppendEntries, loseAppendCall, nodeVars
    <3> QED
      BY <1>0, <3>1
  <2> QED
    BY <1>4, <2>2, <2>3, <2>4 DEF AppendStep
<1> QED
  BY <1>1, <1>2, <1>3, <1>4 DEF Next

\* A node's term never goes back, for any cluster and any schedule.
THEOREM TermsCorrect == Spec => TermMonotonic
<1>1. Init => LogInv
  BY LogInvInit
<1>2. LogInv /\ [Next]_vars => LogInv'
  BY LogInvStep
<1>3. LogInv /\ [Next]_vars => [\A n \in Node : currentTerm'[n] >= currentTerm[n]]_vars
  BY TermStep
<1> QED
  BY <1>1, <1>2, <1>3, PTL DEF Spec, TermMonotonic

(***************************************************************************)
(* One vote per term.  The invariant says why clearing votedFor within a   *)
(* term is harmless: AppendEntries does it to candidates only, and a node  *)
(* that granted a vote in its current term is a follower.                  *)
(***************************************************************************)

NoSelfCalls == \A n \in Node, b \in Batch : vc[n][b][n].stage = "none"

VotesForSelf == \A n \in Node : state[n] # "Follower" => votedFor[n] = n

GrantsAreCurrent ==
    \A v, c \in Node, t \in Nat :
        <<v, c, t>> \in grants =>
            /\ t <= currentTerm[v]
            /\ t = currentTerm[v] => votedFor[v] = c /\ state[v] = "Follower"

GrantsAreUnique ==
    \A v, c, d \in Node, t \in Nat :
        <<v, c, t>> \in grants /\ <<v, d, t>> \in grants => c = d

VoteInv == NoSelfCalls /\ VotesForSelf /\ GrantsAreCurrent /\ GrantsAreUnique

\* The invariant says what VoteOnce asks for.
LEMMA VoteInvImpliesVoteOnce == LogInv /\ VoteInv => VoteOnce
<1> SUFFICES ASSUME LogInv, VoteInv, NEW g \in grants, NEW h \in grants,
                    g[1] = h[1], g[3] = h[3]
             PROVE  g[2] = h[2]
  BY DEF VoteOnce
<1>1. g \in Node \X Node \X Nat /\ h \in Node \X Node \X Nat
  BY DEF LogInv, TypeOK
<1>2. g = <<g[1], g[2], g[3]>> /\ h = <<g[1], h[2], g[3]>>
  BY <1>1
<1> QED
  BY <1>1, <1>2 DEF VoteInv, GrantsAreUnique

\* No node has voted, or asked itself, in the initial state of New.
LEMMA VoteInvInit == Init => VoteInv
BY NodeAssumption DEF Init, VoteInv, NoSelfCalls, VotesForSelf, GrantsAreCurrent, GrantsAreUnique,
       VoteCallAt

\* Steps that touch neither the nodes' terms and votes nor the elections.
LEMMA VoteInvFrame ==
    ASSUME VoteInv, UNCHANGED <<currentTerm, votedFor, state, grants>>, NoSelfCalls'
    PROVE  VoteInv'
BY DEF VoteInv, VotesForSelf, GrantsAreCurrent, GrantsAreUnique

\* A step that changes the call from one node to another keeps NoSelfCalls.
LEMMA NoSelfCallsStep ==
    ASSUME LogInv, NoSelfCalls, NEW n \in Node, NEW b \in Batch, NEW p \in Node,
           NEW call \in VoteCall, vc[n][b][p].stage # "none",
           SetVoteCall(n, b, p, call)
    PROVE  NoSelfCalls'
<1>0. vc \in [Node -> [Batch -> [Node -> VoteCall]]]
  BY DEF LogInv, TypeOK
<1>1. \A x \in Node, y \in Batch, z \in Node :
         vc'[x][y][z] = IF x = n /\ y = b /\ z = p THEN call ELSE vc[x][y][z]
  BY <1>0, SetVoteCallEffect
<1>2. p # n
  BY DEF NoSelfCalls
<1> QED
  BY <1>1, <1>2 DEF NoSelfCalls


\* The steps of a node that leave other nodes' grants alone.
LEMMA CandidateKeepsVoteInv ==
    ASSUME LogInv, VoteInv, NEW n \in Node, becomeCandidate(n) \/ startElection(n)
    PROVE  VoteInv'
<1>0. /\ currentTerm \in [Node -> Nat] /\ votedFor \in [Node -> Node \cup {NoVote}]
      /\ state \in [Node -> {"Follower", "Candidate", "Leader"}]
      /\ vc \in [Node -> [Batch -> [Node -> VoteCall]]]
  BY DEF LogInv, TypeOK
<1>1. CASE becomeCandidate(n)
  <2>1. NoSelfCalls' /\ GrantsAreUnique'
    BY <1>1 DEF VoteInv, NoSelfCalls, GrantsAreUnique, becomeCandidate, voteVars
  <2>2. VotesForSelf'
    BY <1>0, <1>1 DEF VoteInv, VotesForSelf, becomeCandidate
  <2>3. GrantsAreCurrent'
    BY <1>0, <1>1 DEF VoteInv, GrantsAreCurrent, becomeCandidate
  <2> QED
    BY <2>1, <2>2, <2>3 DEF VoteInv
<1>2. CASE startElection(n)
  <2>1. PICK b \in Batch : vc' = [vc EXCEPT ![n][b] =
           [p \in Node |-> VoteCallAt(IF p = n THEN "none" ELSE "spawned")]]
    BY <1>2 DEF startElection
  <2>2. VoteCallAt("none").stage = "none"
    BY DEF VoteCallAt
  <2>3. ASSUME NEW m \in Node, NEW d \in Batch
        PROVE  vc'[m][d][m].stage = "none"
    <3>1. CASE m = n /\ d = b
      <4>1. vc'[n][b][n] = VoteCallAt("none")
        BY <1>0, <2>1
      <4> QED
        BY <2>2, <3>1, <4>1
    <3>2. CASE ~(m = n /\ d = b)
      <4>1. vc'[m][d] = vc[m][d]
        BY <1>0, <2>1, <3>2
      <4> QED
        BY <4>1 DEF VoteInv, NoSelfCalls
    <3> QED
      BY <3>1, <3>2
  <2> QED
    BY <1>2, <2>3, VoteInvFrame DEF startElection, NoSelfCalls, nodeVars
<1> QED
  BY <1>1, <1>2

\* The RequestVote handler: a grant it adds is the first of its voter in
\* its term.
LEMMA RequestVoteKeepsVoteInv ==
    ASSUME LogInv, VoteInv, NEW n \in Node, NEW b \in Batch, NEW p \in Node,
           RequestVote(n, b, p)
    PROVE  VoteInv'
<1> DEFINE c == vc[n][b][p]
           newer == c.term > currentTerm[p]
           grant == MayVote(p, c, n)
           t0 == c.term
<1>0. /\ currentTerm \in [Node -> Nat] /\ votedFor \in [Node -> Node \cup {NoVote}]
      /\ state \in [Node -> {"Follower", "Candidate", "Leader"}]
      /\ c \in VoteCall
  BY DEF LogInv, TypeOK
<1>1. t0 \in Nat
  BY <1>0 DEF VoteCall
<1>2. n # p /\ c.stage = "request"
  BY DEF RequestVote, VoteInv, NoSelfCalls
<1>3. /\ currentTerm' = [currentTerm EXCEPT ![p] = IF newer THEN t0 ELSE currentTerm[p]]
      /\ state' = [state EXCEPT ![p] = IF newer THEN "Follower" ELSE state[p]]
      /\ votedFor' = [votedFor EXCEPT ![p] =
            IF grant THEN n ELSE IF newer THEN NoVote ELSE votedFor[p]]
      /\ grants' = grants \cup (IF grant THEN {<<p, n, t0>>} ELSE {})
  BY DEF RequestVote
<1>4. grant => /\ t0 >= currentTerm[p]
               /\ newer \/ votedFor[p] \in {NoVote, n}
  BY DEF MayVote
<1>5. grant /\ ~newer => state[p] = "Follower" /\ t0 = currentTerm[p]
  <2> SUFFICES ASSUME grant, ~newer
               PROVE  state[p] = "Follower" /\ t0 = currentTerm[p]
    OBVIOUS
  <2>1. votedFor[p] # p
    BY <1>2, <1>4, NodeAssumption
  <2> QED
    BY <1>0, <1>1, <1>4, <2>1 DEF VoteInv, VotesForSelf
<1> HIDE DEF grant
<1>6. NoSelfCalls'
  <2>1. \E call \in VoteCall : SetVoteCall(n, b, p, call)
    BY CallTypes DEF RequestVote, VoteReply
  <2> QED
    BY <1>2, <2>1, NoSelfCallsStep DEF VoteInv
<1>7. VotesForSelf'
  <2> SUFFICES ASSUME NEW m \in Node, state'[m] # "Follower"
               PROVE  votedFor'[m] = m
    BY DEF VotesForSelf
  <2>1. CASE m # p
    BY <1>0, <1>3, <2>1 DEF VoteInv, VotesForSelf
  <2>2. CASE m = p
    <3>1. ~newer /\ state[p] # "Follower"
      BY <1>0, <1>3, <2>2
    <3>2. ~grant
      BY <1>5, <3>1
    <3> QED
      BY <1>0, <1>3, <2>2, <3>1, <3>2 DEF VoteInv, VotesForSelf
  <2> QED
    BY <2>1, <2>2
<1>8. GrantsAreCurrent'
  <2> SUFFICES ASSUME NEW v \in Node, NEW d \in Node, NEW t \in Nat,
                      <<v, d, t>> \in grants'
               PROVE  /\ t <= currentTerm'[v]
                      /\ t = currentTerm'[v] => votedFor'[v] = d /\ state'[v] = "Follower"
    BY DEF GrantsAreCurrent
  <2>1. CASE <<v, d, t>> \in grants
    <3>1. /\ t <= currentTerm[v]
          /\ t = currentTerm[v] => votedFor[v] = d /\ state[v] = "Follower"
      BY <2>1 DEF VoteInv, GrantsAreCurrent
    <3>2. CASE v # p
      BY <1>0, <1>3, <3>1, <3>2
    <3>3. CASE v = p /\ newer
      BY <1>0, <1>1, <1>3, <3>1, <3>3
    <3>4. CASE v = p /\ ~newer
      <4>1. t = currentTerm[p] /\ grant => d = n
        BY <1>0, <1>4, <3>1, <3>4, NodeAssumption
      <4> QED
        BY <1>0, <1>3, <3>1, <3>4, <4>1
    <3> QED
      BY <3>2, <3>3, <3>4
  <2>2. CASE <<v, d, t>> \notin grants
    <3>1. grant /\ v = p /\ d = n /\ t = t0
      BY <1>3, <2>2
    <3> QED
      BY <1>0, <1>1, <1>3, <1>4, <1>5, <3>1
  <2> QED
    BY <2>1, <2>2
<1>9. GrantsAreUnique'
  <2>1. ASSUME NEW d \in Node, <<p, d, t0>> \in grants, grant
        PROVE  d = n
    <3>1. t0 <= currentTerm[p] /\ (t0 = currentTerm[p] => votedFor[p] = d)
      BY <1>1, <2>1 DEF VoteInv, GrantsAreCurrent
    <3> QED
      BY <1>0, <1>1, <1>4, <2>1, <3>1, NodeAssumption
  <2> SUFFICES ASSUME NEW v \in Node, NEW d \in Node, NEW e \in Node, NEW t \in Nat,
                      <<v, d, t>> \in grants', <<v, e, t>> \in grants'
               PROVE  d = e
    BY DEF GrantsAreUnique
  <2>2. CASE <<v, d, t>> \in grants /\ <<v, e, t>> \in grants
    BY <2>2 DEF VoteInv, GrantsAreUnique
  <2>3. CASE <<v, d, t>> \notin grants
    <3>1. grant /\ v = p /\ d = n /\ t = t0
      BY <1>3, <2>3
    <3>2. CASE <<v, e, t>> \in grants
      BY <2>1, <3>1, <3>2
    <3>3. CASE <<v, e, t>> \notin grants
      BY <1>3, <3>1, <3>3
    <3> QED
      BY <3>2, <3>3
  <2>4. CASE <<v, e, t>> \notin grants /\ <<v, d, t>> \in grants
    <3>1. grant /\ v = p /\ e = n /\ t = t0
      BY <1>3, <2>4
    <3> QED
      BY <2>1, <2>4, <3>1
  <2> QED
    BY <2>2, <2>3, <2>4
<1> QED
  BY <1>6, <1>7, <1>8, <1>9 DEF VoteInv

\* The rest of a call for a vote: building the request, losing it, and
\* counting the vote, which can only make a leader of a candidate.
LEMMA VoteStepKeepsVoteInv ==
    ASSUME LogInv, VoteInv, NEW n \in Node, NEW b \in Batch, NEW p \in Node,
           VoteStep(n, b, p)
    PROVE  VoteInv'
<1>0. /\ vc[n][b][p] \in VoteCall /\ log[n] \in Seq(Entry) /\ currentTerm[n] \in Nat
      /\ state \in [Node -> {"Follower", "Candidate", "Leader"}]
  BY DEF LogInv, TypeOK
<1>1. CASE requestVoteFromPeer(n, b, p)
  <2> DEFINE c == vc[n][b][p]
  <2>1. PICK call \in VoteCall : SetVoteCall(n, b, p, call)
    <3>1. /\ [c EXCEPT !.stage = "term", !.term = currentTerm[n]] \in VoteCall
          /\ [c EXCEPT !.stage = "index", !.lastIndex = getLastLogIndex(log[n])]
               \in VoteCall
          /\ [c EXCEPT !.stage = "request", !.lastTerm = getLastLogTerm(log[n])]
               \in VoteCall
      BY <1>0, LastOfLog DEF VoteCall
    <3> QED
      BY <1>1, <3>1 DEF requestVoteFromPeer
  <2>2. vc[n][b][p].stage # "none"
    BY <1>1 DEF requestVoteFromPeer
  <2> QED
    BY <1>1, <2>1, <2>2, NoSelfCallsStep, VoteInvFrame
       DEF VoteInv, requestVoteFromPeer, nodeVars
<1>2. CASE RequestVote(n, b, p)
  BY <1>2, RequestVoteKeepsVoteInv
<1>3. CASE countVote(n, b, p)
  <2>1. NoSelfCalls'
    <3>1. vc[n][b][p].stage # "none" /\ VoteCallAt("counted") \in VoteCall
      BY <1>3, CallTypes DEF countVote
    <3> QED
      BY <1>3, <3>1, NoSelfCallsStep DEF VoteInv, countVote
  <2>2. \A m \in Node : /\ state'[m] = "Follower" <=> state[m] = "Follower"
                        /\ votedFor'[m] = votedFor[m]
    BY <1>0, <1>3 DEF countVote
  <2>3. VotesForSelf'
    BY <2>2 DEF VoteInv, VotesForSelf
  <2>4. GrantsAreCurrent'
    BY <1>3, <2>2 DEF VoteInv, GrantsAreCurrent, countVote
  <2>5. GrantsAreUnique'
    BY <1>3 DEF VoteInv, GrantsAreUnique, countVote
  <2> QED
    BY <2>1, <2>3, <2>4, <2>5 DEF VoteInv
<1>4. CASE loseVoteCall(n, b, p)
  <2>1. vc[n][b][p].stage # "none" /\ VoteCallAt("none") \in VoteCall
    BY <1>4, CallTypes DEF loseVoteCall
  <2> QED
    BY <1>4, <2>1, NoSelfCallsStep, VoteInvFrame DEF VoteInv, loseVoteCall, nodeVars
<1> QED
  BY <1>1, <1>2, <1>3, <1>4 DEF VoteStep

\* A node that steps down - to a higher term, or within its own term when it
\* is a candidate - has granted no vote in the term it steps down to.
LEMMA StepDownKeepsVoteInv ==
    ASSUME LogInv, VoteInv, NEW m \in Node, NEW t \in Nat,
           t > currentTerm[m] \/ (t = currentTerm[m] /\ state[m] = "Candidate"),
           currentTerm' = [currentTerm EXCEPT ![m] = t],
           state' = [state EXCEPT ![m] = "Follower"],
           votedFor' = [votedFor EXCEPT ![m] = NoVote],
           UNCHANGED <<vc, grants>>
    PROVE  VoteInv'
<1>0. /\ currentTerm \in [Node -> Nat] /\ votedFor \in [Node -> Node \cup {NoVote}]
      /\ state \in [Node -> {"Follower", "Candidate", "Leader"}]
  BY DEF LogInv, TypeOK
<1>1. NoSelfCalls' /\ GrantsAreUnique'
  BY DEF VoteInv, NoSelfCalls, GrantsAreUnique
<1>2. VotesForSelf'
  BY <1>0 DEF VoteInv, VotesForSelf
<1>3. GrantsAreCurrent'
  BY <1>0 DEF VoteInv, GrantsAreCurrent
<1> QED
  BY <1>1, <1>2, <1>3 DEF VoteInv

\* The steps of an AppendEntries call.
LEMMA AppendStepKeepsVoteInv ==
    ASSUME LogInv, VoteInv, NEW n \in Node, NEW p \in Node, NEW l \in Lane,
           AppendStep(n, p, l)
    PROVE  VoteInv'
<1>0. /\ ae[n][p][l].term \in Nat
      /\ currentTerm \in [Node -> Nat] /\ votedFor \in [Node -> Node \cup {NoVote}]
      /\ state \in [Node -> {"Follower", "Candidate", "Leader"}]
  <2>1. /\ ae[n][p][l] \in AppendCall
        /\ currentTerm \in [Node -> Nat] /\ votedFor \in [Node -> Node \cup {NoVote}]
        /\ state \in [Node -> {"Follower", "Candidate", "Leader"}]
    BY DEF LogInv, TypeOK
  <2> QED
    BY <2>1 DEF AppendCall
<1>1. CASE AppendEntries(n, p, l)
  <2> DEFINE t == ae[n][p][l].term
             stepsDown == t >= currentTerm[p] /\ (t > currentTerm[p] \/ state[p] = "Candidate")
  <2>1. UNCHANGED <<vc, grants>>
    BY <1>1 DEF AppendEntries, voteVars
  <2>2. CASE stepsDown
    <3>1. /\ currentTerm' = [currentTerm EXCEPT ![p] = t]
          /\ state' = [state EXCEPT ![p] = "Follower"]
          /\ votedFor' = [votedFor EXCEPT ![p] = NoVote]
      BY <1>1, <2>2 DEF AppendEntries, StepsDown
    <3>2. t > currentTerm[p] \/ (t = currentTerm[p] /\ state[p] = "Candidate")
      BY <1>0, <2>2
    <3> HIDE DEF t
    <3> QED
      BY <1>0, <2>1, <3>1, <3>2, StepDownKeepsVoteInv DEF t
  <2>3. CASE ~stepsDown
    <3>1. UNCHANGED <<currentTerm, state, votedFor>>
      BY <1>0, <1>1, <2>3 DEF AppendEntries, StepsDown
    <3> QED
      BY <2>1, <3>1, VoteInvFrame DEF VoteInv, NoSelfCalls
  <2> QED
    BY <2>2, <2>3
<1>2. CASE handleAppendReply(n, p, l)
  <2> DEFINE t == ae[n][p][l].term
  <2>1. UNCHANGED <<vc, grants>>
    BY <1>2 DEF handleAppendReply, voteVars
  <2>2. CASE t > currentTerm[n]
    <3>1. /\ currentTerm' = [currentTerm EXCEPT ![n] = t]
          /\ state' = [state EXCEPT ![n] = "Follower"]
          /\ votedFor' = [votedFor EXCEPT ![n] = NoVote]
      BY <1>2, <2>2 DEF handleAppendReply
    <3> HIDE DEF t
    <3> QED
      BY <1>0, <2>1, <2>2, <3>1, StepDownKeepsVoteInv DEF t
  <2>3. CASE ~(t > currentTerm[n])
    <3>1. UNCHANGED <<currentTerm, state, votedFor>>
      BY <1>0, <1>2, <2>3 DEF handleAppendReply
    <3> QED
      BY <2>1, <3>1, VoteInvFrame DEF VoteInv, NoSelfCalls
  <2> QED
    BY <2>2, <2>3
<1>3. CASE buildAppend(n, p, l) \/ SendAppendEntries(n, p, l) \/ loseAppendCall(n, p, l)
  <2>1. UNCHANGED <<currentTerm, state, votedFor, grants, vc>>
    BY <1>3 DEF buildAppend, SendAppendEntries, loseAppendCall, nodeVars, voteVars
  <2> QED
    BY <2>1, VoteInvFrame DEF VoteInv, NoSelfCalls
<1> QED
  BY <1>1, <1>2, <1>3 DEF AppendStep

\* Every step of every node, and every step that stutters.
LEMMA VoteInvStep == LogInv /\ VoteInv /\ [Next]_vars => VoteInv'
<1> SUFFICES ASSUME LogInv, VoteInv, [Next]_vars
             PROVE  VoteInv'
  OBVIOUS
<1>1. CASE UNCHANGED vars
  BY <1>1, VoteInvFrame DEF VoteInv, NoSelfCalls, vars, nodeVars, voteVars
<1>2. ASSUME NEW n \in Node, NodeStep(n)
      PROVE  VoteInv'
  <2>1. CASE tickLeader(n) \/ \E v \in Value : Propose(n, v)
    <3>1. UNCHANGED <<currentTerm, state, votedFor, grants, vc>>
      BY <2>1 DEF tickLeader, Propose, nodeVars, voteVars
    <3> QED
      BY <3>1, VoteInvFrame DEF VoteInv, NoSelfCalls
  <2> QED
    BY <1>2, <2>1, CandidateKeepsVoteInv DEF NodeStep
<1>3. ASSUME NEW n \in Node, NEW p \in Node, NEW b \in Batch, VoteStep(n, b, p)
      PROVE  VoteInv'
  BY <1>3, VoteStepKeepsVoteInv
<1>4. ASSUME NEW n \in Node, NEW p \in Node, NEW l \in Lane, AppendStep(n, p, l)
      PROVE  VoteInv'
  BY <1>4, AppendStepKeepsVoteInv
<1> QED
  BY <1>1, <1>2, <1>3, <1>4 DEF Next

\* One vote per term: RequestVote never grants the votes of one node and one
\* term to two candidates, for any cluster and any schedule.
THEOREM VotesCorrect == Spec => []VoteOnce
<1>1. Init => LogInv /\ VoteInv
  BY LogInvInit, VoteInvInit
<1>2. LogInv /\ VoteInv /\ [Next]_vars => (LogInv /\ VoteInv)'
  BY LogInvStep, VoteInvStep
<1>3. LogInv /\ VoteInv => VoteOnce
  BY VoteInvImpliesVoteOnce
<1> QED
  BY <1>1, <1>2, <1>3, PTL DEF Spec

(***************************************************************************)
(* A leader was granted the votes of a majority.  The counter `votes' that *)
(* the goroutines of one election share says nothing by itself: it has to  *)
(* be related to the goroutines that have counted, these to the votes they *)
(* were granted, and the terms of those votes to the term of the node.     *)
(***************************************************************************)

\* The term in a request for a vote is one that its node has reached.
CallTerms ==
    \A n \in Node, b \in Batch, p \in Node :
        vc[n][b][p].stage \in {"term", "index", "request"} =>
            vc[n][b][p].term <= currentTerm[n]

\* A vote that is to be counted, or was, was granted in some such term.
GrantedCalls ==
    \A n \in Node, b \in Batch, p \in Node :
        vc[n][b][p].stage \in {"granted", "counted"} =>
            \E t \in 0..currentTerm[n] : <<p, n, t>> \in grants

\* The counter of an election is the node's own vote and one for every peer
\* whose goroutine has counted.
Counted(n, b) == {p \in Node : vc[n][b][p].stage = "counted"}
CountsBounded ==
    \A n \in Node, b \in Batch : votes[n][b] <= Cardinality(Counted(n, b)) + 1

BackInv == CallTerms /\ GrantedCalls /\ CountsBounded /\ LeaderHasBackers

\* Sets of nodes are finite.
LEMMA FiniteNodes ==
    ASSUME NEW S \in SUBSET Node
    PROVE  IsFiniteSet(S) /\ Cardinality(S) \in Nat
BY NodeAssumption, FS_Subset, FS_CardinalityType

\* The backers of a node stay its backers when terms and grants grow.
LEMMA BackersGrow ==
    ASSUME LogInv, LogInv', NEW n \in Node,
           currentTerm'[n] >= currentTerm[n], grants \subseteq grants'
    PROVE  Cardinality(Backers(n, 0..currentTerm[n]))
             <= Cardinality(Backers(n, 0..currentTerm[n])')
<1> DEFINE B == Backers(n, 0..currentTerm[n])
           C == Backers(n, 0..currentTerm[n])'
<1>1. currentTerm[n] \in Nat /\ currentTerm'[n] \in Nat
  BY DEF LogInv, TypeOK
<1>2. B \subseteq C
  BY <1>1 DEF Backers
<1>3. C \in SUBSET Node
  BY DEF Backers
<1> HIDE DEF B, C
<1> QED
  BY <1>2, <1>3, FiniteNodes, FS_Subset DEF B, C

\* Leaders that stay leaders keep their backers.
LEMMA LeadersKeepBackers ==
    ASSUME LogInv, LogInv', LeaderHasBackers, grants \subseteq grants',
           \A m \in Node : currentTerm'[m] >= currentTerm[m],
           NEW n \in Node, state[n] = "Leader"
    PROVE  2 * Cardinality(Backers(n, 0..currentTerm[n])') > Cardinality(Node)
<1>1. 2 * Cardinality(Backers(n, 0..currentTerm[n])) > Cardinality(Node)
  BY DEF LeaderHasBackers
<1>2. Cardinality(Backers(n, 0..currentTerm[n]))
        <= Cardinality(Backers(n, 0..currentTerm[n])')
  BY BackersGrow
<1>3. /\ Cardinality(Backers(n, 0..currentTerm[n])) \in Nat
      /\ Cardinality(Backers(n, 0..currentTerm[n])') \in Nat
      /\ Cardinality(Node) \in Nat
  <2>1. Backers(n, 0..currentTerm[n]) \in SUBSET Node
    BY DEF Backers
  <2>2. Backers(n, 0..currentTerm[n])' \in SUBSET Node
    BY DEF Backers
  <2> QED
    BY <2>1, <2>2, FiniteNodes
<1> QED
  BY <1>1, <1>2, <1>3

\* Steps outside the elections: terms and grants only grow, and nobody
\* becomes a leader.
LEMMA BackInvFrame ==
    ASSUME LogInv, LogInv', BackInv, UNCHANGED <<vc, votes>>, grants \subseteq grants',
           \A m \in Node : currentTerm'[m] >= currentTerm[m],
           \A m \in Node : state'[m] = "Leader" => state[m] = "Leader"
    PROVE  BackInv'
<1>0. currentTerm \in [Node -> Nat] /\ currentTerm' \in [Node -> Nat]
      /\ vc \in [Node -> [Batch -> [Node -> VoteCall]]]
  BY DEF LogInv, TypeOK
<1>1. CallTerms'
  <2> SUFFICES ASSUME NEW n \in Node, NEW b \in Batch, NEW p \in Node,
                      vc[n][b][p].stage \in {"term", "index", "request"}
               PROVE  vc[n][b][p].term <= currentTerm'[n]
    BY DEF CallTerms
  <2>1. vc[n][b][p] \in VoteCall
    BY <1>0
  <2>2. vc[n][b][p].term \in Nat
    BY <2>1 DEF VoteCall
  <2>3. vc[n][b][p].term <= currentTerm[n]
    BY DEF BackInv, CallTerms
  <2> QED
    BY <1>0, <2>2, <2>3
<1>2. GrantedCalls'
  <2> SUFFICES ASSUME NEW n \in Node, NEW b \in Batch, NEW p \in Node,
                      vc[n][b][p].stage \in {"granted", "counted"}
               PROVE  \E t \in 0..currentTerm'[n] : <<p, n, t>> \in grants'
    BY DEF GrantedCalls
  <2>1. PICK t \in 0..currentTerm[n] : <<p, n, t>> \in grants
    BY DEF BackInv, GrantedCalls
  <2>2. t \in 0..currentTerm'[n]
    BY <1>0
  <2> QED
    BY <2>1, <2>2
<1>3. CountsBounded'
  BY DEF BackInv, CountsBounded, Counted
<1>4. LeaderHasBackers'
  BY LeadersKeepBackers DEF BackInv, LeaderHasBackers
<1> QED
  BY <1>1, <1>2, <1>3, <1>4 DEF BackInv

\* One goroutine moves on, without counting.
LEMMA BackInvCall ==
    ASSUME LogInv, LogInv', BackInv, votes' = votes, grants \subseteq grants',
           \A m \in Node : currentTerm'[m] >= currentTerm[m],
           \A m \in Node : state'[m] = "Leader" => state[m] = "Leader",
           NEW n \in Node, NEW b \in Batch, NEW p \in Node, NEW call \in VoteCall,
           SetVoteCall(n, b, p, call),
           vc[n][b][p].stage # "counted", call.stage # "counted",
           call.stage \in {"term", "index", "request"} => call.term <= currentTerm'[n],
           call.stage = "granted" =>
               \E t \in 0..currentTerm'[n] : <<p, n, t>> \in grants'
    PROVE  BackInv'
<1>0. currentTerm \in [Node -> Nat] /\ currentTerm' \in [Node -> Nat]
      /\ vc \in [Node -> [Batch -> [Node -> VoteCall]]]
  BY DEF LogInv, TypeOK
<1>1. \A x \in Node, y \in Batch, z \in Node :
         vc'[x][y][z] = IF x = n /\ y = b /\ z = p THEN call ELSE vc[x][y][z]
  BY <1>0, SetVoteCallEffect
<1>2. CallTerms'
  <2> SUFFICES ASSUME NEW x \in Node, NEW y \in Batch, NEW z \in Node,
                      vc'[x][y][z].stage \in {"term", "index", "request"}
               PROVE  vc'[x][y][z].term <= currentTerm'[x]
    BY DEF CallTerms
  <2>1. CASE x = n /\ y = b /\ z = p
    <3>1. vc'[x][y][z] = call
      BY <1>1, <2>1
    <3> QED
      BY <2>1, <3>1
  <2>2. CASE ~(x = n /\ y = b /\ z = p)
    <3>1. vc'[x][y][z] = vc[x][y][z]
      BY <1>1, <2>2
    <3>2. vc[x][y][z] \in VoteCall
      BY <1>0
    <3>3. vc[x][y][z].term \in Nat
      BY <3>2 DEF VoteCall
    <3>4. vc[x][y][z].term <= currentTerm[x]
      BY <3>1 DEF BackInv, CallTerms
    <3>5. vc[x][y][z].term <= currentTerm'[x]
      BY <1>0, <3>3, <3>4
    <3> QED
      BY <3>1, <3>5
  <2> QED
    BY <2>1, <2>2
<1>3. GrantedCalls'
  <2> SUFFICES ASSUME NEW x \in Node, NEW y \in Batch, NEW z \in Node,
                      vc'[x][y][z].stage \in {"granted", "counted"}
               PROVE  \E t \in 0..currentTerm'[x] : <<z, x, t>> \in grants'
    BY DEF GrantedCalls
  <2>1. CASE x = n /\ y = b /\ z = p
    <3>1. vc'[x][y][z] = call
      BY <1>1, <2>1
    <3>2. call.stage = "granted"
      BY <3>1
    <3> QED
      BY <2>1, <3>2
  <2>2. CASE ~(x = n /\ y = b /\ z = p)
    <3>1. vc'[x][y][z] = vc[x][y][z]
      BY <1>1, <2>2
    <3>2. PICK t \in 0..currentTerm[x] : <<z, x, t>> \in grants
      BY <3>1 DEF BackInv, GrantedCalls
    <3>3. t \in 0..currentTerm'[x]
      BY <1>0
    <3> QED
      BY <3>2, <3>3
  <2> QED
    BY <2>1, <2>2
<1>4. CountsBounded'
  <2> SUFFICES ASSUME NEW x \in Node, NEW y \in Batch
               PROVE  votes[x][y] <= Cardinality(Counted(x, y)') + 1
    BY DEF CountsBounded
  <2>1. \A z \in Node : vc'[x][y][z].stage = "counted" <=> vc[x][y][z].stage = "counted"
    BY <1>1
  <2>2. Counted(x, y)' = Counted(x, y)
    BY <2>1 DEF Counted
  <2> QED
    BY <2>2 DEF BackInv, CountsBounded
<1>5. LeaderHasBackers'
  BY LeadersKeepBackers DEF BackInv, LeaderHasBackers
<1> QED
  BY <1>2, <1>3, <1>4, <1>5 DEF BackInv

\* A fresh counter, and goroutines that have counted nothing.
LEMMA StartElectionKeepsBackInv ==
    ASSUME LogInv, LogInv', BackInv, NEW n \in Node, startElection(n)
    PROVE  BackInv'
<1>0. currentTerm \in [Node -> Nat]
      /\ vc \in [Node -> [Batch -> [Node -> VoteCall]]]
      /\ votes \in [Node -> [Batch -> Nat]]
  BY DEF LogInv, TypeOK
<1>1. PICK b \in Batch :
        /\ votes' = [votes EXCEPT ![n][b] = 1]
        /\ vc' = [vc EXCEPT ![n][b] =
                   [p \in Node |-> VoteCallAt(IF p = n THEN "none" ELSE "spawned")]]
  BY DEF startElection
<1>2. UNCHANGED <<currentTerm, state, grants>>
  BY DEF startElection, nodeVars
<1>3. ASSUME NEW x \in Node, NEW y \in Batch
      PROVE  \/ /\ x = n /\ y = b /\ votes'[x][y] = 1
                /\ \A z \in Node : vc'[x][y][z].stage \in {"none", "spawned"}
             \/ votes'[x][y] = votes[x][y] /\ vc'[x][y] = vc[x][y]
  <2>1. CASE x = n /\ y = b
    <3>1. \A z \in Node : vc'[n][b][z] = VoteCallAt(IF z = n THEN "none" ELSE "spawned")
      BY <1>0, <1>1
    <3>2. ASSUME NEW z \in Node
          PROVE  vc'[n][b][z].stage \in {"none", "spawned"}
      <4>1. CASE z = n
        <5>1. vc'[n][b][z] = VoteCallAt("none")
          BY <3>1, <4>1
        <5> QED
          BY <5>1 DEF VoteCallAt
      <4>2. CASE z # n
        <5>1. vc'[n][b][z] = VoteCallAt("spawned")
          BY <3>1, <4>2
        <5> QED
          BY <5>1 DEF VoteCallAt
      <4> QED
        BY <4>1, <4>2
    <3>3. votes'[n][b] = 1
      BY <1>0, <1>1
    <3> QED
      BY <2>1, <3>2, <3>3
  <2>2. CASE ~(x = n /\ y = b)
    <3>1. votes'[x][y] = votes[x][y]
      BY <1>0, <1>1, <2>2
    <3>2. vc'[x][y] = vc[x][y]
      BY <1>0, <1>1, <2>2
    <3> QED
      BY <3>1, <3>2
  <2> QED
    BY <2>1, <2>2
<1>4. CallTerms'
  BY <1>2, <1>3 DEF BackInv, CallTerms
<1>5. GrantedCalls'
  BY <1>2, <1>3 DEF BackInv, GrantedCalls
<1>6. CountsBounded'
  <2> SUFFICES ASSUME NEW x \in Node, NEW y \in Batch
               PROVE  votes'[x][y] <= Cardinality(Counted(x, y)') + 1
    BY DEF CountsBounded
  <2>1. CASE votes'[x][y] = 1
    <3>1. Counted(x, y)' \in SUBSET Node
      BY DEF Counted
    <3>2. Cardinality(Counted(x, y)') \in Nat
      BY <3>1, FiniteNodes
    <3> QED
      BY <2>1, <3>2
  <2>2. CASE votes'[x][y] = votes[x][y] /\ vc'[x][y] = vc[x][y]
    <3>1. Counted(x, y)' = Counted(x, y)
      BY <2>2 DEF Counted
    <3> QED
      BY <2>2, <3>1 DEF BackInv, CountsBounded
  <2> QED
    BY <1>3, <2>1, <2>2
<1>7. LeaderHasBackers'
  BY <1>2 DEF BackInv, LeaderHasBackers, Backers
<1> QED
  BY <1>4, <1>5, <1>6, <1>7 DEF BackInv

\* A vote is counted: the peers that have counted, and the node itself, are
\* among its backers, so a counter that shows a majority tells the truth.
LEMMA CountVoteKeepsBackInv ==
    ASSUME LogInv, LogInv', VoteInv, BackInv,
           NEW n \in Node, NEW b \in Batch, NEW p \in Node, countVote(n, b, p)
    PROVE  BackInv'
<1>0. currentTerm \in [Node -> Nat] /\ state \in [Node -> {"Follower", "Candidate", "Leader"}]
      /\ vc \in [Node -> [Batch -> [Node -> VoteCall]]]
      /\ votes \in [Node -> [Batch -> Nat]]
  BY DEF LogInv, TypeOK
<1> DEFINE call == VoteCallAt("counted")
<1>1. /\ vc[n][b][p].stage = "granted" /\ UNCHANGED <<currentTerm, grants>>
      /\ votes' = [votes EXCEPT ![n][b] = votes[n][b] + 1]
      /\ SetVoteCall(n, b, p, call)
  BY DEF countVote
<1>2. call \in VoteCall /\ call.stage = "counted"
  BY CallTypes DEF VoteCallAt
<1> HIDE DEF call
<1>3. \A x \in Node, y \in Batch, z \in Node :
         vc'[x][y][z] = IF x = n /\ y = b /\ z = p THEN call ELSE vc[x][y][z]
  BY <1>0, <1>1, <1>2, SetVoteCallEffect
<1>4. CallTerms'
  BY <1>1, <1>2, <1>3 DEF BackInv, CallTerms
<1>5. GrantedCalls'
  <2> SUFFICES ASSUME NEW x \in Node, NEW y \in Batch, NEW z \in Node,
                      vc'[x][y][z].stage \in {"granted", "counted"}
               PROVE  \E t \in 0..currentTerm[x] : <<z, x, t>> \in grants
    BY <1>1 DEF GrantedCalls
  <2>1. vc[x][y][z].stage \in {"granted", "counted"}
    BY <1>1, <1>3
  <2> QED
    BY <2>1 DEF BackInv, GrantedCalls
<1>6. /\ Counted(n, b)' = Counted(n, b) \cup {p}
      /\ p \notin Counted(n, b)
  BY <1>1, <1>2, <1>3 DEF Counted
<1>7. /\ Cardinality(Counted(n, b)') = Cardinality(Counted(n, b)) + 1
      /\ Cardinality(Counted(n, b)) \in Nat
  <2>1. Counted(n, b) \in SUBSET Node
    BY DEF Counted
  <2>2. IsFiniteSet(Counted(n, b)) /\ Cardinality(Counted(n, b)) \in Nat
    BY <2>1, FiniteNodes
  <2> QED
    BY <1>6, <2>2, FS_AddElement
<1>8. votes'[n][b] = votes[n][b] + 1 /\ votes[n][b] \in Nat
  BY <1>0, <1>1
<1>9. votes'[n][b] <= Cardinality(Counted(n, b)') + 1
  <2>1. votes[n][b] <= Cardinality(Counted(n, b)) + 1
    BY DEF BackInv, CountsBounded
  <2> QED
    BY <1>7, <1>8, <2>1
<1>10. CountsBounded'
  <2> SUFFICES ASSUME NEW x \in Node, NEW y \in Batch
               PROVE  votes'[x][y] <= Cardinality(Counted(x, y)') + 1
    BY DEF CountsBounded
  <2>1. CASE x = n /\ y = b
    BY <1>9, <2>1
  <2>2. CASE ~(x = n /\ y = b)
    <3>1. votes'[x][y] = votes[x][y]
      BY <1>0, <1>1, <2>2
    <3>2. Counted(x, y)' = Counted(x, y)
      BY <1>3, <2>2 DEF Counted
    <3> QED
      BY <3>1, <3>2 DEF BackInv, CountsBounded
  <2> QED
    BY <2>1, <2>2
<1>11. IsMajority(votes[n][b] + 1) =>
          2 * Cardinality(Backers(n, 0..currentTerm[n])) > Cardinality(Node)
  <2> SUFFICES ASSUME IsMajority(votes[n][b] + 1)
               PROVE  2 * Cardinality(Backers(n, 0..currentTerm[n])) > Cardinality(Node)
    OBVIOUS
  <2> DEFINE B == Backers(n, 0..currentTerm[n])
             C == Counted(n, b)'
  <2>1. C \subseteq B
    BY <1>1, <1>5 DEF Counted, Backers, GrantedCalls
  <2>2. n \in B /\ n \notin C
    <3>1. vc'[n][b][n].stage # "counted"
      BY <1>1, <1>3 DEF VoteInv, NoSelfCalls
    <3> QED
      BY <3>1 DEF Counted, Backers
  <2>3. B \in SUBSET Node /\ C \in SUBSET Node
    BY DEF Counted, Backers
  <2> HIDE DEF B, C
  <2>4. Cardinality(C \cup {n}) = Cardinality(C) + 1 /\ Cardinality(C) \in Nat
    BY <2>2, <2>3, FiniteNodes, FS_AddElement
  <2>5. Cardinality(C \cup {n}) <= Cardinality(B) /\ Cardinality(B) \in Nat
    BY <2>1, <2>2, <2>3, FiniteNodes, FS_Subset
  <2>6. votes[n][b] + 1 <= Cardinality(C) + 1
    BY <1>8, <1>9 DEF C
  <2>7. votes[n][b] + 1 > Cardinality(Node) \div 2 /\ Cardinality(Node) \in Nat
    BY FiniteNodes DEF IsMajority
  <2>8. 2 * Cardinality(B) > Cardinality(Node)
    BY <1>8, <2>4, <2>5, <2>6, <2>7
  <2> QED
    BY <2>8 DEF B
<1>12. LeaderHasBackers'
  <2> SUFFICES ASSUME NEW m \in Node, state'[m] = "Leader"
               PROVE  2 * Cardinality(Backers(m, 0..currentTerm[m])) > Cardinality(Node)
    BY <1>1 DEF LeaderHasBackers, Backers
  <2>1. state[m] = "Leader" \/ (m = n /\ IsMajority(votes[n][b] + 1))
    BY <1>0 DEF countVote
  <2> QED
    BY <1>11, <2>1 DEF BackInv, LeaderHasBackers
<1> QED
  BY <1>4, <1>5, <1>10, <1>12 DEF BackInv

\* The steps of a call for a vote.
LEMMA VoteStepKeepsBackInv ==
    ASSUME LogInv, LogInv', VoteInv, BackInv,
           \A m \in Node : currentTerm'[m] >= currentTerm[m],
           NEW n \in Node, NEW b \in Batch, NEW p \in Node, VoteStep(n, b, p)
    PROVE  BackInv'
<1> DEFINE c == vc[n][b][p]
<1>0. /\ c \in VoteCall /\ log[n] \in Seq(Entry)
      /\ currentTerm \in [Node -> Nat] /\ currentTerm' \in [Node -> Nat]
      /\ state \in [Node -> {"Follower", "Candidate", "Leader"}]
  <2>1. /\ vc \in [Node -> [Batch -> [Node -> VoteCall]]]
        /\ log \in [Node -> Seq(Entry)]
    BY DEF LogInv, TypeOK
  <2>2. /\ currentTerm \in [Node -> Nat]
        /\ state \in [Node -> {"Follower", "Candidate", "Leader"}]
    BY DEF LogInv, TypeOK
  <2>3. currentTerm' \in [Node -> Nat]
    BY DEF LogInv, TypeOK
  <2>4. c \in VoteCall
    BY <2>1
  <2>5. log[n] \in Seq(Entry)
    BY <2>1
  <2> QED
    BY <2>2, <2>3, <2>4, <2>5
<1>1. c.term \in Nat
  BY <1>0 DEF VoteCall
<1>2. CASE requestVoteFromPeer(n, b, p)
  <2>1. UNCHANGED <<currentTerm, state, grants, votes>>
    BY <1>2 DEF requestVoteFromPeer, nodeVars
  <2>2. PICK call \in VoteCall : /\ SetVoteCall(n, b, p, call)
                                 /\ call.stage \in {"term", "index", "request"}
                                 /\ call.term <= currentTerm[n]
    <3> DEFINE c1 == [c EXCEPT !.stage = "term", !.term = currentTerm[n]]
               c2 == [c EXCEPT !.stage = "index", !.lastIndex = getLastLogIndex(log[n])]
               c3 == [c EXCEPT !.stage = "request", !.lastTerm = getLastLogTerm(log[n])]
    <3>1. /\ c1 \in VoteCall /\ c1.stage = "term" /\ c1.term = currentTerm[n]
          /\ c2 \in VoteCall /\ c2.stage = "index" /\ c2.term = c.term
          /\ c3 \in VoteCall /\ c3.stage = "request" /\ c3.term = c.term
      BY <1>0, LastOfLog DEF VoteCall
    <3>2. \/ c.stage = "spawned" /\ SetVoteCall(n, b, p, c1)
          \/ c.stage = "term" /\ SetVoteCall(n, b, p, c2)
          \/ c.stage = "index" /\ SetVoteCall(n, b, p, c3)
      BY <1>2 DEF requestVoteFromPeer
    <3>3. c.stage \in {"term", "index"} => c.term <= currentTerm[n]
      BY DEF BackInv, CallTerms
    <3> HIDE DEF c1, c2, c3, c
    <3> QED
      BY <1>0, <3>1, <3>2, <3>3
  <2>3. c.stage # "counted"
    BY <1>2 DEF requestVoteFromPeer
  <2> QED
    BY <1>0, <2>1, <2>2, <2>3, BackInvCall
<1>3. CASE RequestVote(n, b, p)
  <2> DEFINE grant == MayVote(p, c, n)
             call == VoteCallAt(IF grant THEN "granted" ELSE "none")
  <2>1. /\ c.stage = "request" /\ votes' = votes /\ grants \subseteq grants'
        /\ SetVoteCall(n, b, p, call)
    BY <1>3 DEF RequestVote, VoteReply
  <2>2. grant => <<p, n, c.term>> \in grants'
    BY <1>3 DEF RequestVote
  <2>3. \A m \in Node : state'[m] = "Leader" => state[m] = "Leader"
    BY <1>0, <1>3 DEF RequestVote
  <2>4. c.term <= currentTerm[n]
    BY <2>1 DEF BackInv, CallTerms
  <2>5. c.term \in 0..currentTerm'[n]
    BY <1>0, <1>1, <2>4
  <2>6. /\ call \in VoteCall /\ call.stage \in {"granted", "none"}
        /\ call.stage = "granted" => grant
    BY CallTypes DEF VoteCallAt
  <2> HIDE DEF grant, call
  <2>7. call.stage = "granted" => \E t \in 0..currentTerm'[n] : <<p, n, t>> \in grants'
    BY <2>2, <2>5, <2>6
  <2>8. call.stage # "counted" /\ call.stage \notin {"term", "index", "request"}
    BY <2>6
  <2> QED
    BY <2>1, <2>3, <2>6, <2>7, <2>8, BackInvCall
<1>4. CASE countVote(n, b, p)
  BY <1>4, CountVoteKeepsBackInv
<1>5. CASE loseVoteCall(n, b, p)
  <2>1. UNCHANGED <<currentTerm, state, grants, votes>>
    BY <1>5 DEF loseVoteCall, nodeVars
  <2>2. /\ c.stage # "counted" /\ SetVoteCall(n, b, p, VoteCallAt("none"))
        /\ VoteCallAt("none") \in VoteCall /\ VoteCallAt("none").stage = "none"
    BY <1>5, CallTypes DEF loseVoteCall, VoteCallAt
  <2> QED
    BY <1>0, <2>1, <2>2, BackInvCall
<1> QED
  BY <1>2, <1>3, <1>4, <1>5 DEF VoteStep

\* Every step of every node, and every step that stutters.
LEMMA BackInvStep == LogInv /\ VoteInv /\ BackInv /\ [Next]_vars => BackInv'
<1> SUFFICES ASSUME LogInv, VoteInv, BackInv, [Next]_vars
             PROVE  BackInv'
  OBVIOUS
<1>0. /\ LogInv' /\ \A m \in Node : currentTerm'[m] >= currentTerm[m]
      /\ state \in [Node -> {"Follower", "Candidate", "Leader"}]
  BY LogInvStep, TermStep DEF LogInv, TypeOK
<1>1. CASE UNCHANGED vars
  BY <1>0, <1>1, BackInvFrame DEF vars, nodeVars, voteVars
<1>2. ASSUME NEW n \in Node, NodeStep(n)
      PROVE  BackInv'
  <2>1. CASE startElection(n)
    BY <1>0, <2>1, StartElectionKeepsBackInv
  <2>2. CASE becomeCandidate(n) \/ tickLeader(n) \/ \E v \in Value : Propose(n, v)
    <3>1. UNCHANGED <<vc, votes, grants>>
      BY <2>2 DEF becomeCandidate, tickLeader, Propose, voteVars
    <3>2. \A m \in Node : state'[m] = "Leader" => state[m] = "Leader"
      BY <1>0, <2>2 DEF becomeCandidate, tickLeader, Propose, nodeVars
    <3> QED
      BY <1>0, <3>1, <3>2, BackInvFrame
  <2> QED
    BY <1>2, <2>1, <2>2 DEF NodeStep
<1>3. ASSUME NEW n \in Node, NEW p \in Node, NEW b \in Batch, VoteStep(n, b, p)
      PROVE  BackInv'
  BY <1>0, <1>3, VoteStepKeepsBackInv
<1>4. ASSUME NEW n \in Node, NEW p \in Node, NEW l \in Lane, AppendStep(n, p, l)
      PROVE  BackInv'
  <2>1. UNCHANGED <<vc, votes, grants>>
    BY <1>4, ZenonT(60) DEF AppendStep, buildAppend, SendAppendEntries, AppendEntries,
                handleAppendReply, loseAppendCall, voteVars
  <2>2. \A m \in Node : state'[m] = "Leader" => state[m] = "Leader"
    <3>1. CASE AppendEntries(n, p, l)
      BY <1>0, <3>1 DEF AppendEntries
    <3>2. CASE handleAppendReply(n, p, l)
      BY <1>0, <3>2, SMTT(30) DEF handleAppendReply
    <3>3. CASE buildAppend(n, p, l) \/ SendAppendEntries(n, p, l) \/ loseAppendCall(n, p, l)
      BY <3>3 DEF buildAppend, SendAppendEntries, loseAppendCall, nodeVars
    <3> QED
      BY <1>4, <3>1, <3>2, <3>3 DEF AppendStep
  <2> QED
    BY <1>0, <2>1, <2>2, BackInvFrame, SMTT(30)
<1> QED
  BY <1>1, <1>2, <1>3, <1>4 DEF Next

\* Nobody asks, has counted or leads in the initial state of New.
LEMMA BackInvInit == Init => BackInv
<1> SUFFICES ASSUME Init
             PROVE  BackInv
  OBVIOUS
<1>1. \A n \in Node, b \in Batch, p \in Node : vc[n][b][p].stage = "none"
  BY DEF Init, VoteCallAt
<1>2. CallTerms /\ GrantedCalls
  BY <1>1 DEF CallTerms, GrantedCalls
<1>3. CountsBounded
  <2> SUFFICES ASSUME NEW n \in Node, NEW b \in Batch
               PROVE  votes[n][b] <= Cardinality(Counted(n, b)) + 1
    BY DEF CountsBounded
  <2>1. votes[n][b] = 0
    BY DEF Init
  <2>2. Counted(n, b) \in SUBSET Node
    BY DEF Counted
  <2>3. Cardinality(Counted(n, b)) \in Nat
    BY <2>2, FiniteNodes
  <2> QED
    BY <2>1, <2>3
<1>4. LeaderHasBackers
  BY DEF Init, LeaderHasBackers
<1> QED
  BY <1>2, <1>3, <1>4 DEF BackInv

\* A leader was granted the votes of a majority, itself included, in terms up
\* to its own: the counter that startElection shares among its goroutines
\* never exceeds the votes that were really granted, however often elections
\* are restarted and however late votes are counted.
THEOREM LeadersCorrect == Spec => []LeaderHasBackers
<1>1. Init => LogInv /\ VoteInv /\ BackInv
  BY LogInvInit, VoteInvInit, BackInvInit
<1>2. LogInv /\ VoteInv /\ BackInv /\ [Next]_vars => (LogInv /\ VoteInv /\ BackInv)'
  BY LogInvStep, VoteInvStep, BackInvStep
<1>3. LogInv /\ VoteInv /\ BackInv => LeaderHasBackers
  BY DEF BackInv
<1> QED
  BY <1>1, <1>2, <1>3, PTL DEF Spec

-----------------------------------------------------------------------------
(* The files of a node.                                                    *)

Index == 1..MaxIndex

SnapshotFile == [last : 0..MaxIndex, data : SUBSET Index, whole : BOOLEAN]

StoreTypeOK ==
    /\ node \in {"up", "down", "restored"}
    /\ entries \in Seq(Index)
    /\ pending \in [Writer -> 0..MaxIndex]
    /\ acked \subseteq Index /\ wal \subseteq Index /\ lost \subseteq Index
    /\ snapshot \in SnapshotFile
    /\ lastSnapshotIndex \in 0..MaxIndex
    /\ compact \in CompactState

\* The snapshot that Compact writes covers what the one before it covers, and
\* the WAL is cut up to the snapshot that was written.
CompactInv ==
    /\ compact.at # "idle" => node = "up" /\ lastSnapshotIndex <= compact.last
    /\ compact.at # "idle" => snapshot.last <= compact.last
    /\ compact.at \in {"truncate", "rewrite", "cut"} => snapshot.last = compact.last
    /\ compact.at # "rewrite" => compact.rest = {}

\* The log in memory: without a gap up to its last entry, which is the last one
\* proposed.
StoreLogInv ==
    node = "up" =>
        /\ \A i \in 1..Len(entries) : entries[i] = LastIndex - Len(entries) + i
        /\ Len(entries) <= LastIndex
        /\ \A i \in acked : i <= LastIndex
        /\ \A w \in Writer : pending[w] <= LastIndex
        /\ snapshot.last <= LastIndex /\ lastSnapshotIndex <= LastIndex
        /\ compact.last <= LastIndex
        /\ crowded \/ LastIndex - Len(entries) <= lastSnapshotIndex

\* An entry that was acknowledged is in the WAL or is not newer than the last
\* snapshot written.
Indexed ==
    \A i \in acked \ lost :
        i \in wal \cup compact.rest \/ i <= snapshot.last

StoreInv == StoreTypeOK /\ CompactInv /\ StoreLogInv /\ Indexed

USE RaftStoreAssumption

\* The last entry of the log.
LEMMA LastIndexIs ==
    ASSUME StoreTypeOK
    PROVE  /\ Len(entries) \in Nat /\ LastIndex \in 0..MaxIndex
           /\ Len(entries) = 0 <=> LastIndex = 0
           /\ Len(entries) # 0 => LastIndex = entries[Len(entries)]
<1>1. entries \in Seq(Index)
  BY DEF StoreTypeOK
<1>2. CASE entries = <<>>
  BY <1>2 DEF LastIndex
<1>3. CASE entries # <<>>
  <2>1. Len(entries) \in Nat \ {0}
    BY <1>1, <1>3, EmptySeq, LenProperties
  <2>2. entries[Len(entries)] \in Index
    BY <1>1, <2>1, ElementOfSeq
  <2>3. LastIndex = entries[Len(entries)]
    BY <1>3 DEF LastIndex, Last
  <2> QED
    BY <2>1, <2>2, <2>3 DEF Index
<1> QED
  BY <1>2, <1>3

\* A writer proposes: the log grows by the next index.
LEMMA QuorumWriteKeeps ==
    ASSUME StoreInv, NEW w \in Writer, QuorumWrite(w)
    PROVE  StoreInv'
<1>1. StoreTypeOK /\ CompactInv /\ StoreLogInv /\ Indexed
  BY DEF StoreInv
<1>2. /\ Len(entries) \in Nat /\ LastIndex \in 0..MaxIndex
      /\ Len(entries) = 0 <=> LastIndex = 0
  BY <1>1, LastIndexIs
<1> DEFINE n == LastIndex + 1
<1>3. n \in Index /\ entries \in Seq(Index)
  BY <1>1, <1>2 DEF QuorumWrite, Index, StoreTypeOK
<1>4. entries' = Append(entries, n)
  BY DEF QuorumWrite
<1> HIDE DEF n
<1>5. /\ entries' \in Seq(Index) /\ Len(entries') = Len(entries) + 1
      /\ \A i \in 1..Len(entries) : entries'[i] = entries[i]
      /\ entries'[Len(entries) + 1] = n
  BY <1>3, <1>4, AppendProperties
<1>6. entries' # <<>>
  BY <1>2, <1>5, EmptySeq
<1>7. LastIndex' = n
  BY <1>5, <1>6 DEF LastIndex, Last
<1>8. pending' \in [Writer -> 0..MaxIndex] /\ \A v \in Writer : pending'[v] \in {pending[v], n}
  BY <1>1, <1>3 DEF StoreTypeOK, QuorumWrite, Index, n
<1>9. StoreTypeOK'
  BY <1>1, <1>5, <1>8 DEF StoreTypeOK, QuorumWrite
<1>10. CompactInv'
  BY <1>1 DEF CompactInv, QuorumWrite
<1>11. StoreLogInv'
  <2>1. node = "up"
    BY DEF QuorumWrite
  <2>2. \A i \in 1..Len(entries') : entries'[i] = n - Len(entries') + i
    <3>1. \A i \in 1..Len(entries) : entries'[i] = LastIndex - Len(entries) + i
      BY <1>1, <1>5, <2>1 DEF StoreLogInv
    <3> QED
      BY <1>2, <1>5, <3>1 DEF n
  <2>3. Len(entries') <= n /\ n = LastIndex + 1
    BY <1>1, <1>2, <1>5, <2>1 DEF StoreLogInv, n
  <2>4. /\ \A i \in acked : i <= n
        /\ snapshot.last <= n /\ lastSnapshotIndex <= n /\ compact.last <= n
    BY <1>1, <1>2, <2>1, <2>3 DEF StoreLogInv, StoreTypeOK, Index, CompactState, SnapshotFile
  <2>5. \A v \in Writer : pending'[v] <= n
    BY <1>1, <1>2, <1>8, <2>1, <2>3 DEF StoreLogInv, StoreTypeOK
  <2>6. crowded \/ n - Len(entries') <= lastSnapshotIndex
    BY <1>1, <1>2, <1>5, <2>1, <2>3 DEF StoreLogInv
  <2> QED
    BY <1>7, <2>2, <2>3, <2>4, <2>5, <2>6 DEF StoreLogInv, QuorumWrite
<1>12. Indexed'
  BY <1>1 DEF Indexed, QuorumWrite
<1> QED
  BY <1>9, <1>10, <1>11, <1>12 DEF StoreInv

\* WAL.Append: the entry is in the file when it returns.
LEMMA WALAppendKeeps ==
    ASSUME StoreInv, NEW w \in Writer, WALAppend(w)
    PROVE  StoreInv'
<1>1. StoreTypeOK /\ CompactInv /\ StoreLogInv /\ Indexed
  BY DEF StoreInv
<1>2. pending[w] \in Index
  BY <1>1 DEF StoreTypeOK, WALAppend, Index
<1>3. /\ pending' \in [Writer -> 0..MaxIndex] /\ \A v \in Writer : pending'[v] \in {pending[v], 0}
  BY <1>1 DEF StoreTypeOK, WALAppend
<1>4. acked' \subseteq acked \cup {pending[w]} /\ wal' \subseteq wal \cup {pending[w]}
  BY DEF WALAppend
<1>5. UNCHANGED <<node, entries, snapshot, lastSnapshotIndex, commit, compact, lost, crowded>>
  BY DEF WALAppend
<1>6. LastIndex' = LastIndex /\ LastIndex \in 0..MaxIndex
  BY <1>1, <1>5, LastIndexIs DEF LastIndex
<1>7. StoreTypeOK'
  BY <1>1, <1>2, <1>3, <1>4, <1>5 DEF StoreTypeOK
<1>8. CompactInv'
  BY <1>1, <1>5 DEF CompactInv
<1>9. StoreLogInv'
  <2> SUFFICES ASSUME node = "up"
               PROVE  StoreLogInv'
    BY <1>5 DEF StoreLogInv
  <2>1. \A i \in acked' : i <= LastIndex
    BY <1>1, <1>4 DEF StoreLogInv
  <2>2. \A v \in Writer : pending'[v] <= LastIndex
    BY <1>1, <1>3, <1>6 DEF StoreLogInv
  <2> QED
    BY <1>1, <1>5, <1>6, <2>1, <2>2 DEF StoreLogInv
<1>10. Indexed'
  BY <1>1, <1>5 DEF Indexed, WALAppend
<1> QED
  BY <1>7, <1>8, <1>9, <1>10 DEF StoreInv
\* The fields of Compact's state.
LEMMA CompactFields ==
    ASSUME StoreTypeOK
    PROVE  /\ compact.at \in {"idle", "create", "write", "truncate", "rewrite", "cut"}
           /\ compact.last \in 0..MaxIndex /\ compact.rest \subseteq Index
           /\ compact.data \subseteq Index
           /\ snapshot.last \in 0..MaxIndex /\ lastSnapshotIndex \in 0..MaxIndex
           /\ NoCompact \in CompactState
           /\ NoCompact.at = "idle" /\ NoCompact.last = 0 /\ NoCompact.rest = {}
BY DEF StoreTypeOK, CompactState, NoCompact, Index, SnapshotFile

\* A step of Compact from "create" to "cut", which may change the WAL, the file
\* of the snapshot and Compact's own state.
LEMMA CompactStepKeeps ==
    ASSUME StoreInv, NEW c \in CompactState, compact' = c, c.last \in {0, compact.last, LastIndex},
           node = "up", UNCHANGED <<node, entries, pending, acked, lastSnapshotIndex, crowded>>,
           snapshot' \in SnapshotFile, snapshot'.last \in {snapshot.last, compact.last},
           wal' \subseteq wal \cup compact.rest, lost' \subseteq lost \cup compact.rest,
           CompactInv', Indexed'
    PROVE  StoreInv'
<1>1. StoreTypeOK /\ StoreLogInv
  BY DEF StoreInv
<1>2. wal' \subseteq Index /\ lost' \subseteq Index
  BY <1>1, CompactFields DEF StoreTypeOK
<1>3. StoreTypeOK'
  BY <1>1, <1>2 DEF StoreTypeOK
<1>4. LastIndex' = LastIndex /\ LastIndex \in 0..MaxIndex
  BY <1>1, LastIndexIs DEF LastIndex
<1>5. snapshot'.last <= LastIndex /\ c.last <= LastIndex
  BY <1>1, <1>4 DEF StoreLogInv
<1>6. StoreLogInv'
  BY <1>1, <1>4, <1>5 DEF StoreLogInv
<1> QED
  BY <1>3, <1>6 DEF StoreInv

\* Compact reads the log under r.mu.
LEMMA CompactKeeps ==
    ASSUME StoreInv, Compact
    PROVE  StoreInv'
<1>1. StoreTypeOK /\ CompactInv /\ StoreLogInv /\ Indexed
  BY DEF StoreInv
<1>2. LastIndex \in 0..MaxIndex /\ node = "up" /\ compact = NoCompact
  BY <1>1, LastIndexIs DEF Compact
<1> DEFINE c == [at |-> "create", last |-> LastIndex, data |-> ToSet(entries), rest |-> {}]
<1>3. c \in CompactState /\ c.at = "create" /\ c.last = LastIndex /\ c.rest = {}
  <2>1. ToSet(entries) \subseteq Index
    BY <1>1, ElementOfSeq, LenProperties DEF StoreTypeOK, ToSet
  <2> QED
    BY <1>2, <2>1 DEF CompactState, Index
<1>4. compact' = c
  BY DEF Compact
<1> HIDE DEF c
<1>5. UNCHANGED <<node, entries, pending, acked, wal, snapshot, lastSnapshotIndex, lost, crowded>>
  BY DEF Compact
<1>6. CompactInv'
  BY <1>1, <1>2, <1>3, <1>4, <1>5 DEF CompactInv, StoreLogInv
<1>7. Indexed'
  BY <1>1, <1>2, <1>3, <1>4, <1>5, CompactFields DEF Indexed
<1>8. snapshot' \in SnapshotFile
  BY <1>1, <1>5 DEF StoreTypeOK
<1> QED
  BY <1>2, <1>3, <1>4, <1>5, <1>6, <1>7, <1>8, CompactStepKeeps

\* The file of the snapshot is emptied and written, or Compact gives up.
LEMMA SnapshotKeeps ==
    ASSUME StoreInv, CreateTruncates \/ Create
    PROVE  StoreInv'
<1>1. StoreTypeOK /\ CompactInv /\ StoreLogInv /\ Indexed
  BY DEF StoreInv
<1>2. node = "up" /\ compact.at \in {"create", "write"} /\ compact.rest = {}
  BY <1>1 DEF CreateTruncates, Create, CompactInv
<1>3. UNCHANGED <<node, entries, pending, acked, wal, lastSnapshotIndex, lost, crowded>>
  BY DEF CreateTruncates, Create
<1>4. CASE compact' = NoCompact /\ UNCHANGED snapshot
  <2>1. CompactInv'
    BY <1>4, <1>1, CompactFields DEF CompactInv
  <2>2. Indexed'
    BY <1>1, <1>2, <1>3, <1>4, CompactFields DEF Indexed
  <2>3. snapshot' \in SnapshotFile
    BY <1>1, <1>4 DEF StoreTypeOK
  <2> QED
    BY <1>1, <1>2, <1>3, <1>4, <2>1, <2>2, <2>3, CompactStepKeeps, CompactFields
<1>5. CASE compact.at = "create" /\ snapshot' = [snapshot EXCEPT !.whole = FALSE]
           /\ compact' = [compact EXCEPT !.at = "write"]
  <2> DEFINE c == [compact EXCEPT !.at = "write"]
             f == [snapshot EXCEPT !.whole = FALSE]
  <2>1. c \in CompactState /\ c.at = "write" /\ c.last = compact.last /\ c.rest = compact.rest
    BY <1>1 DEF CompactState, StoreTypeOK
  <2>2. f \in SnapshotFile /\ f.last = snapshot.last
    BY <1>1 DEF StoreTypeOK, SnapshotFile
  <2>3. compact' = c /\ snapshot' = f
    BY <1>5
  <2> HIDE DEF c, f
  <2>4. CompactInv'
    BY <1>1, <1>2, <1>3, <2>1, <2>2, <2>3 DEF CompactInv
  <2>5. Indexed'
    BY <1>1, <1>3, <2>1, <2>2, <2>3 DEF Indexed
  <2> QED
    BY <1>2, <1>3, <2>1, <2>2, <2>3, <2>4, <2>5, CompactStepKeeps
<1>6. CASE compact.at = "write" /\ snapshot' = [last |-> compact.last, data |-> compact.data, whole |-> TRUE]
           /\ compact' = [compact EXCEPT !.at = "truncate"]
  <2> DEFINE c == [compact EXCEPT !.at = "truncate"]
             f == [last |-> compact.last, data |-> compact.data, whole |-> TRUE]
  <2>1. c \in CompactState /\ c.at = "truncate" /\ c.last = compact.last /\ c.rest = compact.rest
    BY <1>1 DEF CompactState, StoreTypeOK
  <2>2. f \in SnapshotFile /\ f.last = compact.last
    BY <1>1, CompactFields DEF SnapshotFile
  <2>3. compact' = c /\ snapshot' = f
    BY <1>6
  <2> HIDE DEF c, f
  <2>4. CompactInv'
    BY <1>1, <1>2, <1>3, <2>1, <2>2, <2>3, CompactFields DEF CompactInv
  <2>5. Indexed'
    <3>1. snapshot.last <= compact.last
      BY <1>1, <1>2 DEF CompactInv
    <3>2. \A i \in acked : i \in 1..MaxIndex
      BY <1>1 DEF StoreTypeOK, Index
    <3> QED
      BY <1>1, <1>3, <2>1, <2>2, <2>3, <3>1, <3>2, CompactFields DEF Indexed
  <2> QED
    BY <1>2, <1>3, <2>1, <2>2, <2>3, <2>4, <2>5, CompactStepKeeps
<1> QED
  BY <1>4, <1>5, <1>6 DEF CreateTruncates, Create

\* The WAL is read and recreated, and what the snapshot does not cover is kept
\* to be written again.
LEMMA TruncateKeeps ==
    ASSUME StoreInv, Truncate
    PROVE  StoreInv'
<1>1. StoreTypeOK /\ CompactInv /\ StoreLogInv /\ Indexed
  BY DEF StoreInv
<1>2. node = "up" /\ compact.at = "truncate" /\ compact.rest = {} /\ snapshot.last = compact.last
  BY <1>1 DEF Truncate, CompactInv
<1>3. UNCHANGED <<node, entries, pending, acked, snapshot, lastSnapshotIndex, lost, crowded>>
  BY DEF Truncate
<1>4. snapshot' \in SnapshotFile
  BY <1>1, <1>3 DEF StoreTypeOK
<1>5. CASE compact' = NoCompact /\ UNCHANGED wal
  <2>1. CompactInv' /\ Indexed'
    BY <1>1, <1>2, <1>3, <1>5, CompactFields DEF CompactInv, Indexed
  <2> QED
    BY <1>1, <1>2, <1>3, <1>4, <1>5, <2>1, CompactStepKeeps, CompactFields
<1>6. CASE wal' = {} /\ compact' = [compact EXCEPT !.at = "rewrite", !.rest = Remaining(compact.last)]
  <2> DEFINE c == [compact EXCEPT !.at = "rewrite", !.rest = Remaining(compact.last)]
  <2>1. c \in CompactState /\ c.at = "rewrite" /\ c.last = compact.last /\ c.rest = Remaining(compact.last)
    <3>1. Remaining(compact.last) \subseteq 1..MaxIndex
      BY <1>1 DEF StoreTypeOK, Remaining, Index
    <3>2. compact \in CompactState
      BY <1>1 DEF StoreTypeOK
    <3> HIDE DEF c
    <3>3. c = [compact EXCEPT !.at = "rewrite", !.rest = Remaining(compact.last)]
      BY DEF c
    <3> QED
      BY <3>1, <3>2, <3>3 DEF CompactState
  <2>2. compact' = c
    BY <1>6
  <2> HIDE DEF c
  <2>3. CompactInv'
    BY <1>1, <1>2, <1>3, <2>1, <2>2 DEF CompactInv
  <2>4. Indexed'
    <3>1. \A i \in wal : i \in 1..MaxIndex
      BY <1>1 DEF StoreTypeOK, Index
    <3>2. \A i \in wal : i \in c.rest \/ i <= snapshot.last
      BY <1>1, <1>2, <2>1, <3>1, CompactFields DEF Remaining
    <3> QED
      BY <1>1, <1>2, <1>3, <2>2, <3>2 DEF Indexed
  <2> QED
    BY <1>2, <1>3, <1>4, <1>6, <2>1, <2>2, <2>3, <2>4, CompactStepKeeps
<1> QED
  BY <1>5, <1>6 DEF Truncate

\* The rest is written again, entry by entry, or given up.
LEMMA RewriteKeeps ==
    ASSUME StoreInv, Rewrite
    PROVE  StoreInv'
<1>1. StoreTypeOK /\ CompactInv /\ StoreLogInv /\ Indexed
  BY DEF StoreInv
<1>2. node = "up" /\ compact.at = "rewrite" /\ snapshot.last = compact.last
  BY <1>1 DEF Rewrite, CompactInv
<1>3. UNCHANGED <<node, entries, pending, acked, snapshot, lastSnapshotIndex, crowded>>
  BY DEF Rewrite
<1>4. snapshot' \in SnapshotFile
  BY <1>1, <1>3 DEF StoreTypeOK
<1>5. CASE compact.rest = {} /\ compact' = [compact EXCEPT !.at = "cut"] /\ UNCHANGED <<wal, lost>>
  <2> DEFINE c == [compact EXCEPT !.at = "cut"]
  <2>1. c \in CompactState /\ c.at = "cut" /\ c.last = compact.last /\ c.rest = compact.rest
    BY <1>1 DEF CompactState, StoreTypeOK
  <2>2. compact' = c
    BY <1>5
  <2> HIDE DEF c
  <2>3. CompactInv' /\ Indexed'
    BY <1>1, <1>2, <1>3, <1>5, <2>1, <2>2 DEF CompactInv, Indexed
  <2> QED
    BY <1>2, <1>3, <1>4, <1>5, <2>1, <2>2, <2>3, CompactStepKeeps
<1>6. ASSUME NEW i \in compact.rest, wal' = wal \cup {i},
             compact' = [compact EXCEPT !.rest = @ \ {i}], UNCHANGED lost
      PROVE  StoreInv'
  <2> DEFINE c == [compact EXCEPT !.rest = @ \ {i}]
  <2>1. c \in CompactState /\ c.at = "rewrite" /\ c.last = compact.last /\ c.rest = compact.rest \ {i}
    BY <1>1, <1>2 DEF CompactState, StoreTypeOK
  <2>2. compact' = c
    BY <1>6
  <2> HIDE DEF c
  <2>3. CompactInv' /\ Indexed'
    BY <1>1, <1>2, <1>3, <1>6, <2>1, <2>2 DEF CompactInv, Indexed
  <2> QED
    BY <1>2, <1>3, <1>4, <1>6, <2>1, <2>2, <2>3, CompactStepKeeps
<1>7. CASE lost' = lost \cup compact.rest /\ compact' = NoCompact /\ UNCHANGED wal
  <2>1. CompactInv' /\ Indexed'
    BY <1>1, <1>2, <1>3, <1>7, CompactFields DEF CompactInv, Indexed
  <2> QED
    BY <1>1, <1>2, <1>3, <1>4, <1>7, <2>1, CompactStepKeeps, CompactFields
<1>8. CASE compact.rest = {} /\ compact' = NoCompact /\ UNCHANGED <<wal, lost>>
  <2>1. CompactInv' /\ Indexed'
    BY <1>1, <1>2, <1>3, <1>8, CompactFields DEF CompactInv, Indexed
  <2> QED
    BY <1>1, <1>2, <1>3, <1>4, <1>8, <2>1, CompactStepKeeps, CompactFields
<1> QED
  BY <1>5, <1>6, <1>7, <1>8 DEF Rewrite

\* The log in memory after the cut ends with the same entry, and is as long as
\* before or half the threshold.
LEMMA CutEffect ==
    ASSUME StoreInv, CutLog
    PROVE  /\ entries' \in Seq(Index) /\ LastIndex' = LastIndex
           /\ \/ entries' = entries
              \/ Len(entries') = SnapshotThreshold \div 2
           /\ Len(entries') <= Len(entries)
           /\ \A i \in 1..Len(entries') : entries'[i] = LastIndex - Len(entries') + i
<1> DEFINE h == SnapshotThreshold \div 2
<1>1. StoreTypeOK /\ StoreLogInv /\ node = "up"
  BY DEF StoreInv, CutLog
<1>2. /\ Len(entries) \in Nat /\ LastIndex \in 0..MaxIndex /\ entries \in Seq(Index)
      /\ Len(entries) # 0 => LastIndex = entries[Len(entries)]
      /\ \A i \in 1..Len(entries) : entries[i] = LastIndex - Len(entries) + i
  BY <1>1, LastIndexIs DEF StoreLogInv, StoreTypeOK
<1>3. CASE Len(entries) <= SnapshotThreshold
  <2>1. entries' = entries
    BY <1>2, <1>3 DEF CutLog
  <2> QED
    BY <1>2, <2>1 DEF LastIndex
<1>4. CASE Len(entries) > SnapshotThreshold
  <2>1. h \in Nat /\ h >= 1 /\ h < SnapshotThreshold
    OBVIOUS
  <2>2. entries' = SubSeq(entries, Len(entries) - h + 1, Len(entries))
    BY <1>4 DEF CutLog, Kept
  <2> HIDE DEF h
  <2> DEFINE m == Len(entries) - h + 1
  <2>3. m \in 1..(Len(entries) + 1) /\ m <= Len(entries) /\ Len(entries) - m + 1 = h
    BY <1>2, <1>4, <2>1
  <2>4. \A i \in m..Len(entries) : entries[i] \in Index
    BY <1>2, <2>3, ElementOfSeq
  <2>5. /\ entries' \in Seq(Index) /\ Len(entries') = h
        /\ \A i \in 1..h : entries'[i] = entries[m + i - 1]
    <3>1. m \in Int /\ Len(entries) \in Int
      BY <1>2, <2>3
    <3>2. entries' = SubSeq(entries, m, Len(entries))
      BY <2>2
    <3> HIDE DEF m
    <3>3. /\ entries' \in Seq(Index) /\ Len(entries') = Len(entries) - m + 1
          /\ \A i \in 1..(Len(entries) - m + 1) : entries'[i] = entries[m + i - 1]
      BY <2>3, <2>4, <3>1, <3>2, SubSeqProperties
    <3> QED
      BY <2>3, <3>3
  <2>6. ASSUME NEW i \in 1..h
        PROVE  entries'[i] = LastIndex - h + i
    <3>1. m + i - 1 \in 1..Len(entries)
      BY <1>2, <2>1, <2>3
    <3>2. entries[m + i - 1] = LastIndex - Len(entries) + (m + i - 1)
      BY <1>2, <3>1
    <3>3. entries'[i] = entries[m + i - 1]
      BY <2>5
    <3> QED
      BY <1>2, <2>1, <3>2, <3>3
  <2>7. entries' # <<>>
    BY <2>1, <2>5, EmptySeq
  <2>8. LastIndex' = LastIndex
    BY <1>2, <2>1, <2>5, <2>6, <2>7 DEF LastIndex, Last
  <2>9. h <= Len(entries)
    BY <1>2, <1>4, <2>1
  <2> QED
    BY <2>5, <2>6, <2>8, <2>9 DEF h
<1> QED
  BY <1>2, <1>3, <1>4

\* What Compact cuts off the log is in the snapshot, unless the log has grown by
\* more than half the threshold meanwhile.
LEMMA CutLogKeeps ==
    ASSUME StoreInv, CutLog
    PROVE  StoreInv'
<1>1. StoreTypeOK /\ CompactInv /\ StoreLogInv /\ Indexed
  BY DEF StoreInv
<1>2. node = "up" /\ compact.at = "cut" /\ compact.rest = {}
  BY <1>1 DEF CutLog, CompactInv
<1>3. UNCHANGED <<node, pending, acked, wal, snapshot, lost>>
  BY DEF CutLog
<1>4. /\ lastSnapshotIndex' = compact.last /\ compact' = NoCompact
      /\ crowded' = (crowded \/ LastIndex - compact.last > SnapshotThreshold \div 2)
  BY DEF CutLog
<1>5. StoreTypeOK'
  BY <1>1, <1>3, <1>4, CompactFields, CutEffect DEF StoreTypeOK
<1>6. CompactInv' /\ Indexed'
  BY <1>1, <1>2, <1>3, <1>4, CompactFields DEF CompactInv, Indexed
<1>7. StoreLogInv'
  <2>1. /\ LastIndex' = LastIndex /\ Len(entries') <= Len(entries)
        /\ entries' = entries \/ Len(entries') = SnapshotThreshold \div 2
        /\ \A i \in 1..Len(entries') : entries'[i] = LastIndex - Len(entries') + i
    BY CutEffect
  <2>2. /\ Len(entries) \in Nat /\ Len(entries') \in Nat /\ LastIndex \in 0..MaxIndex
        /\ compact.last \in 0..MaxIndex /\ lastSnapshotIndex \in 0..MaxIndex
    BY <1>1, CutEffect, LastIndexIs, CompactFields, LenProperties
  <2>3. Len(entries) <= LastIndex /\ compact.last <= LastIndex /\ lastSnapshotIndex <= compact.last
    BY <1>1, <1>2 DEF StoreLogInv, CompactInv
  <2>4. Len(entries') <= LastIndex
    BY <2>1, <2>2, <2>3
  <2>5. crowded' \/ LastIndex - Len(entries') <= compact.last
    <3>1. CASE entries' = entries
      <4>1. crowded \/ LastIndex - Len(entries) <= lastSnapshotIndex
        BY <1>1, <1>2 DEF StoreLogInv
      <4>2. LastIndex - Len(entries) <= lastSnapshotIndex => LastIndex - Len(entries) <= compact.last
        BY <2>2, <2>3
      <4> QED
        BY <1>4, <3>1, <4>1, <4>2
    <3>2. CASE Len(entries') = SnapshotThreshold \div 2
      <4>1. LastIndex - compact.last > SnapshotThreshold \div 2 \/ LastIndex - Len(entries') <= compact.last
        BY <2>2, <3>2
      <4> QED
        BY <1>4, <4>1
    <3> QED
      BY <2>1, <3>1, <3>2
  <2>6. compact'.last = 0 /\ 0 <= LastIndex
    BY <1>1, <1>4, <2>2, CompactFields
  <2> QED
    BY <1>1, <1>2, <1>3, <1>4, <2>1, <2>3, <2>4, <2>5, <2>6 DEF StoreLogInv
<1> QED
  BY <1>5, <1>6, <1>7 DEF StoreInv

\* A crash takes what is in memory, and the start after it reads the snapshot.
LEMMA CrashKeeps ==
    ASSUME StoreInv, CrashNode \/ RestoreFromSnapshot
    PROVE  StoreInv'
<1>1. StoreTypeOK /\ CompactInv /\ StoreLogInv /\ Indexed
  BY DEF StoreInv
<1>2. CASE CrashNode
  <2>1. /\ node' = "down" /\ entries' = <<>> /\ lastSnapshotIndex' = 0 /\ compact' = NoCompact
        /\ pending' = [w \in Writer |-> 0] /\ UNCHANGED <<acked, wal, snapshot>>
    BY <1>2 DEF CrashNode
  <2>2. lost' = lost \cup compact.rest
    BY <1>1, <1>2 DEF CrashNode, CompactInv
  <2>3. entries' \in Seq(Index) /\ pending' \in [Writer -> 0..MaxIndex]
    BY <2>1, EmptySeq
  <2>4. StoreTypeOK'
    BY <1>1, <2>1, <2>2, <2>3, CompactFields DEF StoreTypeOK
  <2>5. CompactInv' /\ StoreLogInv'
    BY <1>1, <2>1, CompactFields DEF CompactInv, StoreLogInv
  <2>6. Indexed'
    BY <1>1, <2>1, <2>2, CompactFields DEF Indexed
  <2> QED
    BY <2>4, <2>5, <2>6 DEF StoreInv
<1>3. CASE RestoreFromSnapshot
  <2>1. /\ node = "down" /\ node' = "restored" /\ lastSnapshotIndex' = snapshot.last
        /\ UNCHANGED <<entries, pending, acked, wal, snapshot, compact, lost>>
    BY <1>3 DEF RestoreFromSnapshot
  <2>2. StoreTypeOK'
    BY <1>1, <2>1, CompactFields DEF StoreTypeOK
  <2>3. CompactInv' /\ StoreLogInv'
    BY <1>1, <2>1 DEF CompactInv, StoreLogInv
  <2>4. Indexed'
    BY <1>1, <2>1 DEF Indexed
  <2> QED
    BY <2>2, <2>3, <2>4 DEF StoreInv
<1> QED
  BY <1>2, <1>3

\* The invariant of the files and of the log they are kept for.
THEOREM StoreInvariant == StoreSpec => []StoreInv
<1>1. StoreInit => StoreInv
  <2> SUFFICES ASSUME StoreInit
               PROVE  StoreInv
    OBVIOUS
  <2>1. entries \in Seq(Index) /\ Len(entries) = 0 /\ LastIndex = 0
    BY EmptySeq DEF StoreInit, LastIndex
  <2>2. /\ NoCompact \in CompactState
        /\ NoCompact.at = "idle" /\ NoCompact.last = 0 /\ NoCompact.rest = {}
    BY DEF CompactState, NoCompact
  <2>3. /\ snapshot \in SnapshotFile /\ snapshot.last = 0
        /\ pending \in [Writer -> 0..MaxIndex] /\ \A w \in Writer : pending[w] = 0
    BY DEF StoreInit, SnapshotFile
  <2>4. StoreTypeOK
    BY <2>1, <2>2, <2>3 DEF StoreInit, StoreTypeOK
  <2>5. CompactInv /\ StoreLogInv /\ Indexed
    BY <2>1, <2>2, <2>3 DEF StoreInit, CompactInv, StoreLogInv, Indexed
  <2> QED
    BY <2>4, <2>5 DEF StoreInv
<1>2. StoreInv /\ [StoreNext]_storeVars => StoreInv'
  <2> SUFFICES ASSUME StoreInv, [StoreNext]_storeVars
               PROVE  StoreInv'
    OBVIOUS
  <2>1. CASE UNCHANGED storeVars
    BY <2>1 DEF storeVars, StoreInv, StoreTypeOK, CompactInv, StoreLogInv, LastIndex, Indexed
  <2>2. CASE StoreNext
    BY <2>2, QuorumWriteKeeps, WALAppendKeeps, CompactKeeps, SnapshotKeeps, TruncateKeeps, RewriteKeeps,
       CutLogKeeps, CrashKeeps DEF StoreNext
  <2> QED
    BY <2>1, <2>2
<1> QED
  BY <1>1, <1>2, PTL DEF StoreSpec

\* What is in the data of the snapshot, and what is in memory while its file is
\* not whole: all that is not newer than the snapshot, but for what was dropped.
DataInv ==
    /\ compact.at # "idle" => (1..compact.last) \subseteq compact.data \cup dropped
    /\ compact.at \in {"create", "write"} => compact.data \subseteq ToSet(entries)
    /\ compact.at \in {"truncate", "rewrite", "cut"} => snapshot.whole
    /\ snapshot.whole => (1..snapshot.last) \subseteq snapshot.data \cup dropped
    /\ node = "up" /\ ~snapshot.whole => (1..snapshot.last) \subseteq ToSet(entries) \cup dropped

\* A step that leaves the snapshot, Compact's state and what was dropped alone, and
\* takes nothing out of memory.
LEMMA DataStays ==
    ASSUME DataInv, UNCHANGED <<node, snapshot, compact, dropped>>, ToSet(entries) \subseteq ToSet(entries')
    PROVE  DataInv'
BY DEF DataInv

\* A proposal adds to what is in memory.
LEMMA QuorumWriteAdds ==
    ASSUME StoreInv, NEW w \in Writer, QuorumWrite(w)
    PROVE  ToSet(entries) \subseteq ToSet(entries')
<1>1. LastIndex \in 0..MaxIndex /\ entries \in Seq(Index)
  BY LastIndexIs DEF StoreInv, StoreTypeOK
<1>2. LastIndex + 1 \in Index
  BY <1>1 DEF QuorumWrite, Index
<1> DEFINE n == LastIndex + 1
<1>3. entries' = Append(entries, n)
  BY DEF QuorumWrite
<1> HIDE DEF n
<1>4. /\ Len(entries') = Len(entries) + 1 /\ entries' \in Seq(Index)
      /\ \A i \in 1..Len(entries) : entries'[i] = entries[i]
  BY <1>1, <1>2, <1>3, AppendProperties DEF n
<1>5. DOMAIN entries = 1..Len(entries) /\ DOMAIN entries' = 1..Len(entries') /\ Len(entries) \in Nat
  BY <1>1, <1>4, LenProperties
<1> QED
  BY <1>4, <1>5 DEF ToSet

\* Compact takes the log as it is: what it has not is dropped.
LEMMA CompactData ==
    ASSUME StoreInv, DataInv, Compact
    PROVE  DataInv'
<1>1. compact' = [at |-> "create", last |-> LastIndex, data |-> ToSet(entries), rest |-> {}]
  BY DEF Compact
<1>2. compact'.at = "create" /\ compact'.last = LastIndex /\ compact'.data = ToSet(entries)
  BY <1>1
<1>3. dropped' = dropped \cup ((1..LastIndex) \ ToSet(entries)) /\ UNCHANGED <<node, entries, snapshot>>
  BY DEF Compact
<1> QED
  BY <1>2, <1>3 DEF DataInv

\* The new snapshot has what the old one had, or Compact gives up and leaves the
\* log in memory as it is.
LEMMA SnapshotData ==
    ASSUME StoreInv, DataInv, CreateTruncates \/ Create
    PROVE  DataInv'
<1>1. StoreTypeOK /\ CompactInv
  BY DEF StoreInv
<1>2. /\ snapshot.last <= compact.last /\ snapshot.last \in 0..MaxIndex /\ compact.last \in 0..MaxIndex
      /\ compact.at \in {"create", "write"} /\ NoCompact.at = "idle"
  BY <1>1, CompactFields DEF CompactInv, CreateTruncates, Create
<1>3. (1..snapshot.last) \subseteq ToSet(entries) \cup dropped
  BY <1>2 DEF DataInv
<1>4. UNCHANGED <<node, entries, dropped>>
  BY DEF CreateTruncates, Create
<1>5. CASE compact' = NoCompact /\ UNCHANGED snapshot
  BY <1>2, <1>4, <1>5 DEF DataInv
<1>6. CASE compact.at = "create" /\ snapshot' = [snapshot EXCEPT !.whole = FALSE]
           /\ compact' = [compact EXCEPT !.at = "write"]
  <2>1. /\ compact'.at = "write" /\ compact'.last = compact.last /\ compact'.data = compact.data
        /\ snapshot'.last = snapshot.last /\ snapshot'.whole = FALSE
    BY <1>1, <1>6 DEF StoreTypeOK, CompactState, SnapshotFile
  <2> QED
    BY <1>2, <1>3, <1>4, <2>1 DEF DataInv
<1>7. CASE compact.at = "write" /\ snapshot' = [last |-> compact.last, data |-> compact.data, whole |-> TRUE]
           /\ compact' = [compact EXCEPT !.at = "truncate"]
  <2>1. /\ compact'.at = "truncate" /\ compact'.last = compact.last /\ compact'.data = compact.data
        /\ snapshot'.last = compact.last /\ snapshot'.data = compact.data /\ snapshot'.whole = TRUE
    BY <1>1, <1>7 DEF StoreTypeOK, CompactState
  <2> QED
    BY <1>2, <1>4, <2>1 DEF DataInv
<1> QED
  BY <1>5, <1>6, <1>7 DEF CreateTruncates, Create

\* From here on Compact does not touch the snapshot; the cut and a crash may take
\* from memory what they like, for the snapshot is whole or the node is down.
LEMMA RestData ==
    ASSUME StoreInv, DataInv, Truncate \/ Rewrite \/ CutLog \/ CrashNode \/ RestoreFromSnapshot
    PROVE  DataInv'
<1>1. StoreTypeOK /\ CompactInv
  BY DEF StoreInv
<1>2. UNCHANGED <<snapshot, dropped>>
  BY DEF Truncate, Rewrite, CutLog, CrashNode, RestoreFromSnapshot
<1>3. NoCompact.at = "idle"
  BY <1>1, CompactFields
<1>4. CASE Truncate \/ Rewrite
  <2>1. UNCHANGED <<node, entries>> /\ compact.at \in {"truncate", "rewrite"}
    BY <1>4 DEF Truncate, Rewrite
  <2>2. \/ compact' = NoCompact
        \/ /\ compact'.at \in {"truncate", "rewrite", "cut"}
           /\ compact'.last = compact.last /\ compact'.data = compact.data
    BY <1>1, <1>4 DEF Truncate, Rewrite, StoreTypeOK, CompactState
  <2> QED
    BY <1>2, <1>3, <2>1, <2>2 DEF DataInv
<1>5. CASE CutLog
  BY <1>2, <1>3, <1>5 DEF DataInv, CutLog
<1>6. CASE CrashNode \/ RestoreFromSnapshot
  <2>1. compact' = NoCompact \/ UNCHANGED compact
    BY <1>6 DEF CrashNode, RestoreFromSnapshot
  <2>2. node' # "up" /\ (node = "up" \/ compact.at = "idle")
    BY <1>1, <1>6 DEF CrashNode, RestoreFromSnapshot, CompactInv
  <2>3. compact'.at = "idle"
    BY <1>3, <1>6, <2>1, <2>2 DEF CrashNode, RestoreFromSnapshot
  <2> QED
    BY <1>2, <2>2, <2>3 DEF DataInv
<1> QED
  BY <1>4, <1>5, <1>6

\* The data of the snapshot, in every state.
THEOREM DataInvariant == StoreSpec => []DataInv
<1>1. StoreInit => DataInv
  BY DEF StoreInit, DataInv, NoCompact
<1>2. StoreInv /\ DataInv /\ [StoreNext]_storeVars => DataInv'
  <2> SUFFICES ASSUME StoreInv, DataInv, [StoreNext]_storeVars
               PROVE  DataInv'
    OBVIOUS
  <2>1. CASE UNCHANGED storeVars
    BY <2>1, DataStays DEF storeVars
  <2>2. ASSUME NEW w \in Writer, QuorumWrite(w)
        PROVE  DataInv'
    BY <2>2, QuorumWriteAdds, DataStays DEF QuorumWrite
  <2>3. ASSUME NEW w \in Writer, WALAppend(w)
        PROVE  DataInv'
    BY <2>3, DataStays DEF WALAppend
  <2> QED
    BY <2>1, <2>2, <2>3, CompactData, SnapshotData, RestData DEF StoreNext
<1> QED
  BY <1>1, <1>2, StoreInvariant, PTL DEF StoreSpec

\* An entry that WAL.Append has returned for stays in the WAL or gets into the
\* data of the snapshot that Compact writes, whatever fails and wherever a crash
\* falls, apart from the gaps that Durable names.
THEOREM DurableHolds == StoreSpec => []Durable
<1>1. StoreInv /\ DataInv => Durable
  <2> SUFFICES ASSUME StoreInv, DataInv, NEW i \in acked \ (lost \cup dropped),
                      i \notin wal \cup compact.rest
               PROVE  \/ snapshot.whole /\ i \in snapshot.data
                      \/ ~snapshot.whole /\ i <= snapshot.last /\ (node = "up" => i \in ToSet(entries))
    BY DEF Durable
  <2>1. i <= snapshot.last /\ i \in Index /\ snapshot.last \in 0..MaxIndex
    BY CompactFields DEF StoreInv, Indexed, StoreTypeOK
  <2>2. i \in 1..snapshot.last
    BY <2>1 DEF Index
  <2> QED
    BY <2>1, <2>2 DEF DataInv
<1> QED
  BY <1>1, StoreInvariant, DataInvariant, PTL

\* Compact drops nothing from memory that no snapshot covers, while at most half
\* the threshold is proposed beside it.
THEOREM KeepsNewHolds == StoreSpec => []KeepsNew
<1>1. StoreInv => KeepsNew
  <2> SUFFICES ASSUME StoreInv, node = "up", ~crowded
               PROVE  /\ \A i \in DOMAIN entries : entries[i] = LastIndex - Len(entries) + i
                      /\ \A i \in acked : i <= LastIndex
                      /\ (lastSnapshotIndex + 1)..LastIndex \subseteq ToSet(entries)
    BY DEF KeepsNew
  <2>1. StoreTypeOK /\ StoreLogInv
    BY DEF StoreInv
  <2>2. /\ Len(entries) \in Nat /\ DOMAIN entries = 1..Len(entries) /\ LastIndex \in 0..MaxIndex
        /\ lastSnapshotIndex \in 0..MaxIndex
    BY <2>1, LastIndexIs, LenProperties DEF StoreTypeOK
  <2>3. /\ \A i \in 1..Len(entries) : entries[i] = LastIndex - Len(entries) + i
        /\ \A i \in acked : i <= LastIndex
        /\ LastIndex - Len(entries) <= lastSnapshotIndex
    BY <2>1 DEF StoreLogInv
  <2>4. ASSUME NEW n \in (lastSnapshotIndex + 1)..LastIndex
        PROVE  n \in ToSet(entries)
    <3>1. n - LastIndex + Len(entries) \in 1..Len(entries)
      BY <2>2, <2>3
    <3>2. entries[n - LastIndex + Len(entries)] = n
      BY <2>2, <2>3, <3>1
    <3> QED
      BY <2>2, <3>1, <3>2 DEF ToSet
  <2> QED
    BY <2>2, <2>3, <2>4
<1> QED
  BY <1>1, StoreInvariant, PTL
=============================================================================
