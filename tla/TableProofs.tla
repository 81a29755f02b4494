---------------------------- MODULE TableProofs ----------------------------
(***************************************************************************)
(* Proofs about a table (TableStorage) and the B-tree under it (BTree), for*)
(* any number of documents, indexes and changefeeds, any capacity of a     *)
(* channel, any keys and any size of a node: an index finds what it was told*)
(* of, a reader that missed nothing knows the table, and the tree is a     *)
(* balanced tree that implements a map and whose scans are its gets.       *)
(***************************************************************************)
EXTENDS BTree, TableStorage, FiniteSetTheorems, SequenceTheorems, WellFoundedInduction, TLAPS

USE TableAssumption

-----------------------------------------------------------------------------
(* Indexes.                                                                *)

IndexData == [FieldValue -> Seq(Id)]

\* The elements of a sequence are those at its positions.
LEMMA ElementsOf ==
    ASSUME NEW s \in Seq(Id), NEW e
    PROVE  e \in ToSet(s) <=> \E p \in 1..Len(s) : s[p] = e
<1>1. DOMAIN s = 1..Len(s)
  BY LenProperties
<1> QED
  BY <1>1 DEF ToSet

\* Append leaves all elements and brings the new one.
LEMMA AppendElements ==
    ASSUME NEW s \in Seq(Id), NEW d \in Id
    PROVE  /\ Append(s, d) \in Seq(Id) /\ d \in ToSet(Append(s, d))
           /\ \A e : e \in ToSet(s) => e \in ToSet(Append(s, d))
<1>1. /\ Append(s, d) \in Seq(Id) /\ Len(Append(s, d)) = Len(s) + 1 /\ Len(s) \in Nat
      /\ \A p \in 1..Len(s) : Append(s, d)[p] = s[p]
      /\ Append(s, d)[Len(s) + 1] = d
  BY AppendProperties, LenProperties
<1>2. d \in ToSet(Append(s, d))
  <2>1. Len(s) + 1 \in 1..Len(Append(s, d))
    BY <1>1
  <2> QED
    BY <1>1, <2>1, ElementsOf
<1>3. ASSUME NEW e, e \in ToSet(s)
      PROVE  e \in ToSet(Append(s, d))
  <2>1. PICK p \in 1..Len(s) : s[p] = e
    BY <1>3, ElementsOf
  <2>2. p \in 1..Len(Append(s, d)) /\ Append(s, d)[p] = e
    BY <1>1, <2>1
  <2> QED
    BY <1>1, <2>2, ElementsOf
<1> QED
  BY <1>1, <1>2, <1>3

\* Taking out position p leaves all elements but the one that is there.
LEMMA RemoveElement ==
    ASSUME NEW s \in Seq(Id), NEW p \in 1..Len(s)
    PROVE  /\ RemoveAt(s, p) \in Seq(Id)
           /\ \A e : e \in ToSet(s) /\ e # s[p] => e \in ToSet(RemoveAt(s, p))
<1> DEFINE before == SubSeq(s, 1, p - 1)
           behind == SubSeq(s, p + 1, Len(s))
<1>1. Len(s) \in Nat /\ \A q \in 1..Len(s) : s[q] \in Id
  BY LenProperties, ElementOfSeq
<1>2. /\ before \in Seq(Id) /\ Len(before) = p - 1
      /\ \A q \in 1..(p - 1) : before[q] = s[q]
  BY <1>1, SubSeqProperties
<1>3. /\ behind \in Seq(Id) /\ Len(behind) = Len(s) - p
      /\ \A q \in 1..(Len(s) - p) : behind[q] = s[p + q]
  <2>1. Len(s) - (p + 1) + 1 = Len(s) - p
    BY <1>1
  <2>2. \A q \in (p + 1)..Len(s) : s[q] \in Id
    BY <1>1
  <2>3. /\ behind \in Seq(Id) /\ Len(behind) = IF p + 1 <= Len(s) THEN Len(s) - (p + 1) + 1 ELSE 0
        /\ \A q \in 1..(Len(s) - (p + 1) + 1) : behind[q] = s[p + 1 + q - 1]
    BY <1>1, <2>2, SubSeqProperties
  <2>4. Len(behind) = Len(s) - p
    BY <1>1, <2>3
  <2>5. ASSUME NEW q \in 1..(Len(s) - p)
        PROVE  behind[q] = s[p + q]
    <3>1. q \in 1..(Len(s) - (p + 1) + 1) /\ p + 1 + q - 1 = p + q
      BY <1>1
    <3> HIDE DEF behind
    <3> QED
      BY <2>3, <3>1
  <2> QED
    BY <2>3, <2>4, <2>5
<1> HIDE DEF before, behind
<1>4. /\ before \o behind \in Seq(Id) /\ Len(before \o behind) = Len(before) + Len(behind)
      /\ \A q \in 1..(Len(before) + Len(behind)) :
            (before \o behind)[q] = IF q <= Len(before) THEN before[q] ELSE behind[q - Len(before)]
  BY <1>2, <1>3, ConcatProperties
<1> DEFINE rest == before \o behind
<1>5. RemoveAt(s, p) = rest
  BY DEF RemoveAt, before, behind
<1>6. /\ rest \in Seq(Id) /\ Len(rest) = Len(s) - 1
      /\ \A q \in 1..(Len(s) - 1) : rest[q] = IF q < p THEN s[q] ELSE s[q + 1]
  <2>1. rest \in Seq(Id) /\ Len(rest) = Len(s) - 1
    BY <1>1, <1>2, <1>3, <1>4
  <2>2. ASSUME NEW q \in 1..(Len(s) - 1)
        PROVE  rest[q] = IF q < p THEN s[q] ELSE s[q + 1]
    <3>1. CASE q < p
      <4>1. q \in 1..(p - 1) /\ q <= Len(before) /\ q \in 1..(Len(before) + Len(behind))
        BY <1>1, <1>2, <1>3, <3>1
      <4> QED
        BY <1>2, <1>4, <3>1, <4>1
    <3>2. CASE ~(q < p)
      <4>1. /\ q - (p - 1) \in 1..(Len(s) - p) /\ ~(q <= Len(before))
            /\ q \in 1..(Len(before) + Len(behind)) /\ p + (q - (p - 1)) = q + 1
        BY <1>1, <1>2, <1>3, <3>2
      <4>2. rest[q] = behind[q - (p - 1)]
        BY <1>2, <1>4, <4>1
      <4> QED
        BY <1>3, <3>2, <4>1, <4>2
    <3> QED
      BY <3>1, <3>2
  <2> QED
    BY <2>1, <2>2
<1> HIDE DEF rest
<1>7. ASSUME NEW e, e \in ToSet(s), e # s[p]
      PROVE  e \in ToSet(rest)
  <2>1. PICK q \in 1..Len(s) : s[q] = e
    BY <1>7, ElementsOf
  <2>2. q # p
    BY <1>7, <2>1
  <2> DEFINE r == IF q < p THEN q ELSE q - 1
  <2>3. r \in 1..Len(rest) /\ rest[r] = e
    BY <1>1, <1>6, <2>1, <2>2
  <2> QED
    BY <1>6, <2>3, ElementsOf
<1> QED
  BY <1>5, <1>6, <1>7

\* An entry is added under its value, and nothing is taken out.
LEMMA AddFinds ==
    ASSUME NEW data \in IndexData, NEW d \in Id, NEW v \in FieldValue
    PROVE  /\ IndexAdd(data, d, v) \in IndexData
           /\ d \in ToSet(IndexAdd(data, d, v)[v])
           /\ \A w \in FieldValue : \A e :
                e \in ToSet(data[w]) => e \in ToSet(IndexAdd(data, d, v)[w])
<1>1. \A w \in FieldValue : data[w] \in Seq(Id)
  BY DEF IndexData
<1>2. \A w \in FieldValue :
        IndexAdd(data, d, v)[w] = IF w = v THEN Append(data[w], d) ELSE data[w]
  BY DEF IndexAdd, IndexData
<1>3. Append(data[v], d) \in Seq(Id)
  BY <1>1, AppendElements
<1>4. IndexAdd(data, d, v) \in IndexData
  BY <1>3 DEF IndexAdd, IndexData
<1> QED
  BY <1>1, <1>2, <1>4, AppendElements

\* The first position of an element.
LEMMA FirstPosition ==
    ASSUME NEW s \in Seq(Id), NEW d, \E p \in DOMAIN s : s[p] = d
    PROVE  \E p \in DOMAIN s : s[p] = d /\ \A q \in 1..(p - 1) : s[q] # d
<1>1. DOMAIN s = 1..Len(s) /\ Len(s) \in Nat
  BY LenProperties
<1> DEFINE T == {p \in 1..Len(s) : s[p] = d}
<1>2. T \in SUBSET Nat /\ T # {}
  BY <1>1
<1>3. PICK x \in T : \A y \in T : x <= y
  <2> HIDE DEF T
  <2>1. PICK x \in T : \A y \in T : ~(<<y, x>> \in OpToRel(<, Nat))
    BY <1>2, WFMin, NatLessThanWellFounded, Zenon
  <2>2. \A y \in T : ~(y < x)
    BY <1>2, <2>1 DEF OpToRel
  <2> QED
    BY <1>2, <2>2
<1> QED
  BY <1>1, <1>3

\* The entries of the other documents stay.
LEMMA RemoveFinds ==
    ASSUME NEW data \in IndexData, NEW d \in Id, NEW v \in FieldValue
    PROVE  /\ IndexRemove(data, d, v) \in IndexData
           /\ \A w \in FieldValue : \A e :
                e # d /\ e \in ToSet(data[w]) => e \in ToSet(IndexRemove(data, d, v)[w])
<1> DEFINE s == data[v]
           First(p) == s[p] = d /\ \A q \in 1..(p - 1) : s[q] # d
           cut == IF \E p \in DOMAIN s : s[p] = d
                  THEN RemoveAt(s, CHOOSE p \in DOMAIN s : First(p)) ELSE s
<1>1. s \in Seq(Id)
  BY DEF IndexData
<1>2. cut \in Seq(Id) /\ \A e : e # d /\ e \in ToSet(s) => e \in ToSet(cut)
  <2>1. CASE \E p \in DOMAIN s : s[p] = d
    <3> DEFINE p == CHOOSE q \in DOMAIN s : First(q)
    <3>1. p \in DOMAIN s /\ s[p] = d
      <4>1. \E q \in DOMAIN s : First(q)
        BY <1>1, <2>1, FirstPosition
      <4> QED
        BY <4>1
    <3>2. p \in 1..Len(s)
      BY <1>1, <3>1, LenProperties
    <3>3. cut = RemoveAt(s, p)
      BY <2>1
    <3> HIDE DEF p, s, cut
    <3> QED
      BY <1>1, <3>1, <3>2, <3>3, RemoveElement
  <2>2. CASE ~\E p \in DOMAIN s : s[p] = d
    BY <1>1, <2>2
  <2> QED
    BY <2>1, <2>2
<1>3. IndexRemove(data, d, v) = [data EXCEPT ![v] = cut]
  BY DEF IndexRemove
<1> HIDE DEF cut
<1>4. IndexRemove(data, d, v) \in IndexData
  BY <1>2, <1>3 DEF IndexData
<1>5. \A w \in FieldValue : IndexRemove(data, d, v)[w] = IF w = v THEN cut ELSE data[w]
  BY <1>3 DEF IndexData
<1> QED
  BY <1>2, <1>4, <1>5

-----------------------------------------------------------------------------
(* What a call does to every index.                                        *)

\* The index i keeps its entries of all documents but d, and its type.
Kept(i, d) ==
    /\ idx'[i] \in IndexData \cup {Missing}
    /\ i \notin Indexes => idx'[i] = idx[i]
    /\ i \in Indexes =>
        \A w \in FieldValue : \A e :
            e # d /\ e \in ToSet(idx[i][w]) => e \in ToSet(idx'[i][w])

\* Once the other documents are kept, an index that finds d, if it was told of
\* it, finds everything.
LEMMA FindsStep ==
    ASSUME TableTypeOK, IndexFinds, NEW d \in Id,
           idx' = [i \in Index |-> idx'[i]],
           \A i \in Index : Kept(i, d),
           \A e \in Id : e # d => docs'[e] \in {docs[e], Missing},
           listed' \in [Index -> SUBSET Id],
           \A i \in Index : listed'[i] \subseteq listed[i] \cup {d},
           \A i \in Indexes : d \in listed'[i] /\ docs'[d] # Missing /\ docs'[d].f # Missing =>
                d \in ToSet(idx'[i][docs'[d].f])
    PROVE  IndexFinds' /\ idx' \in [Index -> [FieldValue -> Seq(Id)] \cup {Missing}]
<1>1. idx' \in [Index -> [FieldValue -> Seq(Id)] \cup {Missing}]
  BY DEF Kept, IndexData
<1>2. ASSUME NEW i \in Index, idx'[i] # Missing, NEW e \in listed'[i],
             docs'[e] # Missing, docs'[e].f # Missing
      PROVE  e \in ToSet(idx'[i][docs'[e].f])
  <2>1. i \in Indexes
    BY <1>2 DEF Kept, Indexes
  <2>2. CASE e = d
    BY <1>2, <2>1, <2>2
  <2>3. CASE e # d
    <3>1. e \in Id /\ e \in listed[i] /\ docs'[e] = docs[e]
      BY <1>2, <2>3
    <3>2. docs[e].f \in FieldValue
      BY <1>2, <3>1 DEF TableTypeOK, Doc
    <3>3. e \in ToSet(idx[i][docs[e].f])
      BY <1>2, <2>1, <3>1 DEF IndexFinds
    <3> QED
      BY <2>1, <2>3, <3>1, <3>2, <3>3 DEF Kept
  <2> QED
    BY <2>2, <2>3
<1> QED
  BY <1>1, <1>2 DEF IndexFinds, Indexes

\* An index that a call leaves alone.
LEMMA KeptSame ==
    ASSUME TableTypeOK, NEW i \in Index, NEW d, idx'[i] = idx[i]
    PROVE  Kept(i, d)
BY DEF Kept, TableTypeOK, IndexData

\* The data of an index.
LEMMA DataType ==
    ASSUME TableTypeOK, NEW i \in Indexes
    PROVE  i \in Index /\ idx[i] \in IndexData
BY DEF TableTypeOK, Indexes, IndexData

\* InsertDoc adds an entry under the value of the document.
LEMMA InsertFinds ==
    ASSUME TableTypeOK, IndexFinds, NEW d \in Id, NEW doc \in Doc, InsertDoc(d, doc)
    PROVE  /\ IndexFinds' /\ idx' \in [Index -> [FieldValue -> Seq(Id)] \cup {Missing}]
           /\ listed' \in [Index -> SUBSET Id]
<1>1. CASE /\ Tree!Put(d, doc)
           /\ ForAllIndexes(LAMBDA data : IF doc.f = Missing THEN data ELSE IndexAdd(data, d, doc.f))
           /\ listed' = [i \in Index |-> IF i \in Indexes THEN listed[i] \cup {d} ELSE listed[i]]
  <2>1. idx' = [i \in Index |-> IF i \in Indexes
                                THEN IF doc.f = Missing THEN idx[i] ELSE IndexAdd(idx[i], d, doc.f)
                                ELSE idx[i]]
    BY <1>1 DEF ForAllIndexes
  <2>2. docs' = [docs EXCEPT ![d] = doc] /\ docs \in [Id -> Doc \cup {Missing}]
    BY <1>1 DEF Tree!Put, TableTypeOK
  <2>3. ASSUME NEW i \in Indexes, doc.f # Missing
        PROVE  Kept(i, d) /\ d \in ToSet(idx'[i][doc.f])
    <3>1. i \in Index /\ idx[i] \in IndexData /\ idx'[i] = IndexAdd(idx[i], d, doc.f)
      BY <2>1, <2>3, DataType
    <3>2. doc.f \in FieldValue
      BY <2>3 DEF Doc
    <3>3. /\ idx'[i] \in IndexData /\ d \in ToSet(idx'[i][doc.f])
          /\ \A w \in FieldValue : \A e : e \in ToSet(idx[i][w]) => e \in ToSet(idx'[i][w])
      BY <3>1, <3>2, AddFinds
    <3> QED
      BY <2>3, <3>1, <3>3 DEF Kept
  <2>4. \A i \in Index : Kept(i, d)
    <3> SUFFICES ASSUME NEW i \in Index
                 PROVE  Kept(i, d)
      OBVIOUS
    <3>1. CASE i \in Indexes /\ doc.f # Missing
      BY <2>3, <3>1
    <3>2. CASE ~(i \in Indexes /\ doc.f # Missing)
      <4>1. idx'[i] = idx[i]
        BY <2>1, <3>2
      <4> QED
        BY <4>1, KeptSame
    <3> QED
      BY <3>1, <3>2
  <2>5. listed' \in [Index -> SUBSET Id] /\ \A i \in Index : listed'[i] \subseteq listed[i] \cup {d}
    BY <1>1 DEF TableTypeOK
  <2>6. docs'[d] = doc /\ \A e \in Id : e # d => docs'[e] = docs[e]
    BY <2>2
  <2>7. idx' = [i \in Index |-> idx'[i]]
    BY <2>1
  <2> QED
    BY <2>3, <2>4, <2>5, <2>6, <2>7, FindsStep
<1>2. CASE /\ PutFailed(d, doc)
           /\ listed' = [i \in Index |-> IF docs'[d] = docs[d] THEN listed[i] ELSE listed[i] \ {d}]
           /\ UNCHANGED idx
  <2>1. \A e \in Id : e # d => docs'[e] \in {docs[e], Missing}
    BY <1>2 DEF PutFailed, Tree!PutFails
  <2>2. idx' = [i \in Index |-> idx'[i]] /\ \A i \in Index : Kept(i, d)
    BY <1>2, KeptSame DEF TableTypeOK
  <2>3. listed' \in [Index -> SUBSET Id] /\ \A i \in Index : listed'[i] \subseteq listed[i] \cup {d}
    BY <1>2 DEF TableTypeOK
  <2>4. ASSUME NEW i \in Indexes, d \in listed'[i], docs'[d] # Missing, docs'[d].f # Missing
        PROVE  d \in ToSet(idx'[i][docs'[d].f])
    <3>1. i \in Index
      BY DEF Indexes
    <3>2. docs'[d] = docs[d] /\ d \in listed[i]
      BY <1>2, <2>4, <3>1
    <3> QED
      BY <1>2, <2>4, <3>2 DEF IndexFinds
  <2> QED
    BY <2>1, <2>2, <2>3, <2>4, FindsStep
<1> QED
  BY <1>1, <1>2 DEF InsertDoc

\* UpdateDoc takes out at most the document's own entry, and an update of the
\* field adds the entry that the document needs.
LEMMA UpdateFinds ==
    ASSUME TableTypeOK, IndexFinds, NEW d \in Id, NEW updates \in Updates, UpdateDoc(d, updates)
    PROVE  /\ IndexFinds' /\ idx' \in [Index -> [FieldValue -> Seq(Id)] \cup {Missing}]
           /\ listed' \in [Index -> SUBSET Id]
<1> DEFINE merged == Merged(docs[d], updates)
<1>1. docs[d] \in Doc
  BY DEF UpdateDoc, TableTypeOK
<1>2. idx' = [i \in Index |-> IF i \in Indexes THEN UpdatedIndex(idx[i], d, docs[d], updates) ELSE idx[i]]
  BY DEF UpdateDoc, ForAllIndexes
<1>3. ASSUME NEW i \in Indexes
      PROVE  /\ Kept(i, d)
             /\ updates.f # Missing =>
                  /\ d \in ToSet(idx'[i][updates.f])
                  /\ \A w \in FieldValue : w # updates.f => idx'[i][w] = idx[i][w]
  <2>1. i \in Index /\ idx[i] \in IndexData /\ idx'[i] = UpdatedIndex(idx[i], d, docs[d], updates)
    BY <1>2, DataType
  <2>2. CASE updates.f # Missing
    <3>1. updates.f \in FieldValue
      BY <2>2 DEF Updates
    <3> DEFINE gone == IndexRemove(idx[i], d, updates.f)
    <3>2. idx'[i] = IndexAdd(gone, d, updates.f)
      BY <2>1, <2>2 DEF UpdatedIndex, Merged, IndexUpdate
    <3>3. /\ gone \in IndexData
          /\ \A w \in FieldValue : \A e : e # d /\ e \in ToSet(idx[i][w]) => e \in ToSet(gone[w])
      BY <2>1, <3>1, RemoveFinds
    <3>5. \A w \in FieldValue : w # updates.f => IndexAdd(gone, d, updates.f)[w] = idx[i][w]
      <4>1. \A w \in FieldValue : w # updates.f => gone[w] = idx[i][w]
        BY <2>1, <3>1 DEF IndexRemove, IndexData
      <4> HIDE DEF gone
      <4> QED
        BY <3>3, <4>1 DEF IndexAdd, IndexData
    <3> HIDE DEF gone
    <3>4. /\ idx'[i] \in IndexData /\ d \in ToSet(idx'[i][updates.f])
          /\ \A w \in FieldValue : \A e : e \in ToSet(gone[w]) => e \in ToSet(idx'[i][w])
      BY <3>1, <3>2, <3>3, AddFinds
    <3> QED
      BY <1>3, <3>2, <3>3, <3>4, <3>5 DEF Kept
  <2>3. CASE updates.f = Missing /\ docs[d].f # Missing
    <3>1. idx'[i] = IndexRemove(idx[i], d, docs[d].f) /\ docs[d].f \in FieldValue
      BY <1>1, <2>1, <2>3 DEF UpdatedIndex, Merged, Doc
    <3> QED
      BY <1>3, <2>1, <2>3, <3>1, RemoveFinds DEF Kept
  <2>4. CASE updates.f = Missing /\ docs[d].f = Missing
    <3>1. idx'[i] = idx[i]
      BY <2>1, <2>4 DEF UpdatedIndex, Merged
    <3> QED
      BY <2>1, <2>4, <3>1, KeptSame, SMTT(30)
  <2> QED
    BY <2>2, <2>3, <2>4, Zenon
<1>4. \A i \in Index : Kept(i, d)
  BY <1>2, <1>3, KeptSame
<1>5. idx' = [i \in Index |-> idx'[i]]
  BY <1>2
<1>6. CASE /\ Tree!Put(d, merged)
           /\ listed' = [i \in Index |-> IF i \in Indexes /\ updates.f # Missing
                                         THEN listed[i] \cup {d} ELSE listed[i] \ {d}]
  <2>1. docs' = [docs EXCEPT ![d] = merged] /\ docs \in [Id -> Doc \cup {Missing}]
    BY <1>6 DEF Tree!Put, TableTypeOK
  <2>2. docs'[d] = merged /\ \A e \in Id : e # d => docs'[e] = docs[e]
    BY <2>1
  <2>3. listed' \in [Index -> SUBSET Id] /\ \A i \in Index : listed'[i] \subseteq listed[i] \cup {d}
    BY <1>6 DEF TableTypeOK
  <2>4. ASSUME NEW i \in Indexes, d \in listed'[i]
        PROVE  d \in ToSet(idx'[i][docs'[d].f])
    <3>1. i \in Index
      BY DEF Indexes
    <3>2. updates.f # Missing
      BY <1>6, <2>4, <3>1
    <3>3. docs'[d].f = updates.f
      BY <1>1, <2>2, <3>2 DEF Merged, Doc
    <3> QED
      BY <1>3, <3>2, <3>3
  <2> QED
    BY <1>4, <1>5, <2>2, <2>3, <2>4, FindsStep
<1>7. CASE /\ PutFailed(d, merged)
           /\ listed' = [i \in Index |-> IF updates.f # Missing THEN listed[i] ELSE listed[i] \ {d}]
  <2>1. docs'[d] \in {merged, docs[d], Missing} /\ \A e \in Id : e # d => docs'[e] \in {docs[e], Missing}
    BY <1>7 DEF PutFailed, Tree!PutFails
  <2>2. listed' \in [Index -> SUBSET Id] /\ \A i \in Index : listed'[i] \subseteq listed[i] \cup {d}
    BY <1>7 DEF TableTypeOK
  <2>3. ASSUME NEW i \in Indexes, d \in listed'[i], docs'[d] # Missing, docs'[d].f # Missing
        PROVE  d \in ToSet(idx'[i][docs'[d].f])
    <3>1. i \in Index
      BY DEF Indexes
    <3>2. updates.f # Missing /\ d \in listed[i]
      BY <1>7, <2>3, <3>1
    <3>3. CASE docs'[d].f = updates.f
      BY <1>3, <3>2, <3>3
    <3>4. CASE docs'[d].f # updates.f
      <4>1. merged.f = updates.f
        BY <1>1, <3>2 DEF Merged, Doc
      <4>2. docs'[d] = docs[d]
        BY <2>1, <2>3, <3>4, <4>1
      <4>3. docs[d].f \in FieldValue /\ idx'[i][docs[d].f] = idx[i][docs[d].f]
        BY <1>1, <1>3, <2>3, <3>2, <3>4, <4>2 DEF Doc
      <4> QED
        BY <1>1, <2>3, <3>2, <4>2, <4>3 DEF IndexFinds
    <3> QED
      BY <3>3, <3>4
  <2> HIDE DEF merged
  <2> QED
    BY <1>4, <1>5, <2>1, <2>2, <2>3, FindsStep
<1> QED
  BY <1>6, <1>7 DEF UpdateDoc

\* DeleteDoc takes out an entry of the document that goes.
LEMMA DeleteFinds ==
    ASSUME TableTypeOK, IndexFinds, NEW d \in Id, DeleteDoc(d)
    PROVE  /\ IndexFinds' /\ idx' \in [Index -> [FieldValue -> Seq(Id)] \cup {Missing}]
           /\ listed' \in [Index -> SUBSET Id]
<1> DEFINE removes == docs[d] # Missing /\ docs[d].f # Missing
<1>1. idx' = [i \in Index |-> IF i \in Indexes
                              THEN IF removes THEN IndexRemove(idx[i], d, docs[d].f) ELSE idx[i]
                              ELSE idx[i]]
  BY DEF DeleteDoc, ForAllIndexes
<1>2. docs' = [docs EXCEPT ![d] = Missing] /\ docs \in [Id -> Doc \cup {Missing}]
  BY DEF DeleteDoc, Tree!Delete, TableTypeOK
<1>3. docs'[d] = Missing /\ \A e \in Id : e # d => docs'[e] = docs[e]
  BY <1>2
<1>4. listed' \in [Index -> SUBSET Id] /\ \A i \in Index : listed'[i] \subseteq listed[i] \cup {d}
  BY DEF TableTypeOK, DeleteDoc
<1>5. \A i \in Index : Kept(i, d)
  <2> SUFFICES ASSUME NEW i \in Index
               PROVE  Kept(i, d)
    OBVIOUS
  <2>1. CASE i \in Indexes /\ removes
    <3>1. docs[d].f \in FieldValue /\ idx[i] \in IndexData
      BY <1>2, <2>1, DataType DEF Doc
    <3>2. idx'[i] = IndexRemove(idx[i], d, docs[d].f)
      BY <1>1, <2>1
    <3> QED
      BY <2>1, <3>1, <3>2, RemoveFinds DEF Kept
  <2>2. CASE ~(i \in Indexes /\ removes)
    <3>1. idx'[i] = idx[i]
      BY <1>1, <2>2
    <3> QED
      BY <3>1, KeptSame
  <2> QED
    BY <2>1, <2>2
<1>6. idx' = [i \in Index |-> idx'[i]]
  BY <1>1
<1> QED
  BY <1>3, <1>4, <1>5, <1>6, FindsStep

-----------------------------------------------------------------------------
(* Changefeeds.                                                            *)

\* Learns, of a channel that holds s and a reader that has read was of d.
Told(s, was, d, doc) ==
    LET about == {p \in DOMAIN s : About(s[p]) = d}
    IN  \/ about = {} /\ doc = was
        \/ \E p \in about : (\A q \in about : q <= p) /\ doc = s[p].new

\* An event that is sent is the last one about its document, and changes
\* nothing for the others.
LEMMA ToldAppend ==
    ASSUME NEW s \in Seq(Event), NEW e \in Event, NEW was, NEW d, NEW doc
    PROVE  /\ d = About(e) => Told(Append(s, e), was, d, e.new)
           /\ d # About(e) /\ Told(s, was, d, doc) => Told(Append(s, e), was, d, doc)
<1> DEFINE t == Append(s, e)
           n == Len(s)
           old == {p \in 1..n : About(s[p]) = d}
           new == {p \in 1..(n + 1) : About(t[p]) = d}
<1>1. n \in Nat /\ DOMAIN s = 1..n
  BY LenProperties
<1>2. t \in Seq(Event) /\ Len(t) = n + 1 /\ (\A p \in 1..n : t[p] = s[p]) /\ t[n + 1] = e
  BY AppendProperties
<1>3. DOMAIN t = 1..(n + 1)
  BY <1>2, LenProperties
<1>4. Told(t, was, d, e.new) <=>
        \/ new = {} /\ e.new = was
        \/ \E p \in new : (\A q \in new : q <= p) /\ e.new = t[p].new
  BY <1>3 DEF Told
<1>5. Told(t, was, d, doc) <=>
        \/ new = {} /\ doc = was
        \/ \E p \in new : (\A q \in new : q <= p) /\ doc = t[p].new
  BY <1>3 DEF Told
<1>6. Told(s, was, d, doc) <=>
        \/ old = {} /\ doc = was
        \/ \E p \in old : (\A q \in old : q <= p) /\ doc = s[p].new
  BY <1>1 DEF Told
<1> HIDE DEF t, n
<1>7. CASE d = About(e)
  <2>1. n + 1 \in new /\ \A q \in new : q <= n + 1
    BY <1>1, <1>2, <1>7
  <2> HIDE DEF new
  <2>2. Told(t, was, d, e.new)
    BY <1>2, <1>4, <2>1
  <2> QED
    BY <1>7, <2>2 DEF t
<1>8. CASE d # About(e)
  <2>1. new = old
    BY <1>1, <1>2, <1>8
  <2>2. \A p \in old : t[p] = s[p]
    BY <1>2
  <2> HIDE DEF new, old
  <2>3. Told(s, was, d, doc) => Told(t, was, d, doc)
    BY <1>5, <1>6, <2>1, <2>2
  <2> QED
    BY <1>8, <2>3 DEF t
<1> QED
  BY <1>7, <1>8

\* An event that is received is known instead of waiting.
LEMMA ToldTail ==
    ASSUME NEW s \in Seq(Event), s # <<>>, NEW was, NEW d \in Id, NEW doc, Told(s, was, d, doc)
    PROVE  Told(Tail(s), IF About(Head(s)) = d THEN Head(s).new ELSE was, d, doc)
<1> DEFINE t == Tail(s)
           n == Len(s)
           after == IF About(Head(s)) = d THEN Head(s).new ELSE was
           old == {p \in 1..n : About(s[p]) = d}
           new == {p \in 1..(n - 1) : About(t[p]) = d}
<1>1. n \in Nat /\ n # 0 /\ DOMAIN s = 1..n
  BY LenProperties, EmptySeq
<1>2. t \in Seq(Event) /\ Len(t) = n - 1 /\ \A p \in 1..(n - 1) : t[p] = s[p + 1]
  BY HeadTailProperties
<1>3. DOMAIN t = 1..(n - 1)
  BY <1>2, LenProperties
<1>4. Head(s) = s[1]
  BY <1>1
<1>5. after = IF About(s[1]) = d THEN s[1].new ELSE was
  BY <1>4
<1>6. \/ old = {} /\ doc = was
      \/ \E p \in old : (\A q \in old : q <= p) /\ doc = s[p].new
  BY <1>1 DEF Told
<1>7. Told(t, after, d, doc) <=>
        \/ new = {} /\ doc = after
        \/ \E p \in new : (\A q \in new : q <= p) /\ doc = t[p].new
  BY <1>3 DEF Told
<1> HIDE DEF t, n, after
<1>8. \A p \in 1..(n - 1) : p \in new <=> p + 1 \in old
  BY <1>1, <1>2
<1>9. CASE old = {} /\ doc = was
  <2>1. new = {}
    BY <1>8, <1>9
  <2>2. About(s[1]) # d
    BY <1>1, <1>9
  <2> QED
    BY <1>5, <1>7, <1>9, <2>1, <2>2 DEF t, after
<1>10. CASE \E p \in old : (\A q \in old : q <= p) /\ doc = s[p].new
  <2>1. PICK p \in old : (\A q \in old : q <= p) /\ doc = s[p].new
    BY <1>10
  <2>2. CASE p = 1
    <3>1. new = {}
      BY <1>1, <1>8, <2>1, <2>2
    <3>2. About(s[1]) = d
      BY <2>1, <2>2
    <3> QED
      BY <1>5, <1>7, <2>1, <2>2, <3>1, <3>2 DEF t, after
  <2>3. CASE p # 1
    <3>1. p - 1 \in 1..(n - 1) /\ p - 1 \in new /\ t[p - 1] = s[p]
      BY <1>1, <1>2, <1>8, <2>1, <2>3
    <3>2. \A q \in new : q <= p - 1
      BY <1>1, <1>8, <2>1
    <3> HIDE DEF new
    <3> QED
      BY <1>7, <2>1, <3>1, <3>2 DEF t, after
  <2> QED
    BY <2>2, <2>3
<1> QED
  BY <1>6, <1>9, <1>10

\* The inductive invariant: a feed that got every change of a document has a
\* channel, and its reader knows the document.
FeedInv ==
    \A f \in Feed : \A d \in complete[f] :
        feeds[f] \in Seq(Event) /\ Told(feeds[f], view[f][d], d, docs[d])

FeedTypes ==
    /\ feeds \in [Feed -> Seq(Event) \cup {Missing}]
    /\ \A f \in Feed : feeds[f] = Missing \/ Len(feeds[f]) <= FeedCap
    /\ complete \in [Feed -> SUBSET Id]
    /\ view \in [Feed -> [Id -> Doc \cup {Missing}]]

\* What is forgotten is not of the documents that matter.
LEMMA ForgetKeeps ==
    ASSUME view \in [Feed -> [Id -> Doc \cup {Missing}]], complete' \in [Feed -> SUBSET Id], Forget
    PROVE  /\ view' \in [Feed -> [Id -> Doc \cup {Missing}]]
           /\ \A f \in Feed : \A d \in complete'[f] : view'[f][d] = view[f][d]
BY DEF Forget

\* A change that is notified reaches every feed that stays complete.
LEMMA NotifyTells ==
    ASSUME FeedTypes, FeedInv, docs \in [Id -> Doc \cup {Missing}],
           NEW d \in Id, NEW old, NEW new, [old |-> old, new |-> new] \in Event,
           About([old |-> old, new |-> new]) = d,
           docs' = [docs EXCEPT ![d] = new], notifyChangefeeds(d, old, new)
    PROVE  FeedTypes' /\ FeedInv'
<1> DEFINE e == [old |-> old, new |-> new]
<1>1. e \in Event /\ About(e) = d /\ e.new = new
  OBVIOUS
<1>2. /\ feeds' = [f \in Feed |-> IF Takes(f) THEN Append(feeds[f], e) ELSE feeds[f]]
      /\ complete' = [f \in Feed |-> IF Takes(f) THEN complete[f] ELSE complete[f] \ {d}]
      /\ Forget
  BY DEF notifyChangefeeds
<1> HIDE DEF e
<1>3. ASSUME NEW f \in Feed
      PROVE  /\ feeds'[f] \in Seq(Event) \cup {Missing}
             /\ feeds'[f] = Missing \/ Len(feeds'[f]) <= FeedCap
  <2>1. CASE Takes(f)
    <3>1. feeds[f] \in Seq(Event) /\ ~(Len(feeds[f]) >= FeedCap) /\ feeds'[f] = Append(feeds[f], e)
      BY <1>2, <2>1 DEF Takes, Full, FeedTypes
    <3>2. Append(feeds[f], e) \in Seq(Event) /\ Len(Append(feeds[f], e)) = Len(feeds[f]) + 1
      BY <1>1, <3>1, AppendProperties
    <3>3. Len(feeds[f]) \in Nat
      BY <3>1, LenProperties
    <3> QED
      BY <3>1, <3>2, <3>3
  <2>2. CASE ~Takes(f)
    BY <1>2, <2>2 DEF FeedTypes
  <2> QED
    BY <2>1, <2>2
<1>4. complete' \in [Feed -> SUBSET Id]
  BY <1>2 DEF FeedTypes
<1>5. /\ view' \in [Feed -> [Id -> Doc \cup {Missing}]]
      /\ \A f \in Feed : \A x \in complete'[f] : view'[f][x] = view[f][x]
  BY <1>2, <1>4, ForgetKeeps DEF FeedTypes
<1>6. FeedTypes'
  <2>1. feeds' \in [Feed -> Seq(Event) \cup {Missing}]
    BY <1>2, <1>3
  <2> QED
    BY <1>3, <1>4, <1>5, <2>1 DEF FeedTypes
<1>7. ASSUME NEW f \in Feed, NEW x \in complete'[f]
      PROVE  feeds'[f] \in Seq(Event) /\ Told(feeds'[f], view'[f][x], x, docs'[x])
  <2>1. x \in complete[f] /\ x \in Id /\ view'[f][x] = view[f][x] /\ (Takes(f) \/ x # d)
    BY <1>2, <1>5, <1>7 DEF FeedTypes
  <2>2. feeds[f] \in Seq(Event) /\ Told(feeds[f], view[f][x], x, docs[x])
    BY <2>1 DEF FeedInv
  <2>3. docs'[x] = IF x = d THEN new ELSE docs[x]
    BY <2>1
  <2>4. CASE Takes(f)
    <3>1. feeds'[f] = Append(feeds[f], e)
      BY <1>2, <2>4
    <3>2. feeds'[f] \in Seq(Event)
      BY <1>1, <2>2, <3>1, AppendProperties
    <3> QED
      BY <1>1, <2>1, <2>2, <2>3, <3>1, <3>2, ToldAppend
  <2>5. CASE ~Takes(f)
    <3>1. feeds'[f] = feeds[f] /\ docs'[x] = docs[x]
      BY <1>2, <2>1, <2>3, <2>5
    <3> QED
      BY <2>1, <2>2, <3>1
  <2> QED
    BY <2>4, <2>5
<1> QED
  BY <1>6, <1>7 DEF FeedInv

\* A Put that fails leaves a feed only the documents that it has not changed.
LEMMA FailureTells ==
    ASSUME FeedTypes, FeedInv, NEW d, NEW doc, PutFailed(d, doc)
    PROVE  FeedTypes' /\ FeedInv'
<1>1. /\ complete' = [f \in Feed |-> {x \in complete[f] : docs'[x] = docs[x]}]
      /\ Forget /\ feeds' = feeds
  BY DEF PutFailed
<1>2. complete' \in [Feed -> SUBSET Id]
  BY <1>1 DEF FeedTypes
<1>3. /\ view' \in [Feed -> [Id -> Doc \cup {Missing}]]
      /\ \A f \in Feed : \A x \in complete'[f] : view'[f][x] = view[f][x]
  BY <1>1, <1>2, ForgetKeeps DEF FeedTypes
<1>4. FeedTypes'
  BY <1>1, <1>2, <1>3 DEF FeedTypes
<1>5. ASSUME NEW f \in Feed, NEW x \in complete'[f]
      PROVE  feeds'[f] \in Seq(Event) /\ Told(feeds'[f], view'[f][x], x, docs'[x])
  <2>1. x \in complete[f] /\ docs'[x] = docs[x] /\ view'[f][x] = view[f][x]
    BY <1>1, <1>3, <1>5
  <2> QED
    BY <1>1, <2>1 DEF FeedInv
<1> QED
  BY <1>4, <1>5 DEF FeedInv

LEMMA FeedSame ==
    ASSUME FeedTypes, FeedInv, UNCHANGED <<docs, feeds, complete, view>>
    PROVE  FeedTypes' /\ FeedInv'
BY DEF FeedTypes, FeedInv

LEMMA NewFeedTells ==
    ASSUME FeedTypes, FeedInv, docs \in [Id -> Doc \cup {Missing}], NEW f \in Feed, NewChangefeed(f)
    PROVE  FeedTypes' /\ FeedInv'
<1>1. /\ feeds' = [feeds EXCEPT ![f] = <<>>] /\ view' = [view EXCEPT ![f] = docs]
      /\ complete' = [complete EXCEPT ![f] = Id] /\ docs' = docs
  BY DEF NewChangefeed
<1>2. <<>> \in Seq(Event) /\ Len(<<>>) = 0
  BY EmptySeq
<1>3. FeedTypes'
  BY <1>1, <1>2 DEF FeedTypes
<1>4. \A d \in Id : Told(<<>>, docs[d], d, docs[d])
  BY DEF Told
<1>5. ASSUME NEW g \in Feed, NEW d \in complete'[g]
      PROVE  feeds'[g] \in Seq(Event) /\ Told(feeds'[g], view'[g][d], d, docs'[d])
  <2>1. CASE g = f
    <3>1. feeds'[f] = <<>> /\ view'[f] = docs /\ d \in Id
      BY <1>1, <1>5, <2>1 DEF FeedTypes
    <3> QED
      BY <1>1, <1>2, <1>4, <2>1, <3>1
  <2>2. CASE g # f
    <3>1. d \in complete[g] /\ feeds'[g] = feeds[g] /\ view'[g] = view[g]
      BY <1>1, <1>5, <2>2 DEF FeedTypes
    <3> QED
      BY <1>1, <3>1 DEF FeedInv
  <2> QED
    BY <2>1, <2>2
<1> QED
  BY <1>3, <1>5 DEF FeedInv

\* The reader finds in every event which document it is about.
LEMMA AboutId ==
    ASSUME NEW e \in Event
    PROVE  About(e) \in Id /\ e.new \in Doc \cup {Missing}
BY DEF About, Event, Doc

LEMMA ReceiveTells ==
    ASSUME FeedTypes, FeedInv, NEW f \in Feed, Receive(f)
    PROVE  FeedTypes' /\ FeedInv'
<1>1. PICK s, e : s = feeds[f] /\ e = Head(s)
  OBVIOUS
<1>2. s \in Seq(Event) /\ s # <<>> /\ feeds' = [feeds EXCEPT ![f] = Tail(s)]
  BY <1>1 DEF Receive, FeedTypes
<1>3. /\ e \in Event /\ Tail(s) \in Seq(Event) /\ Len(Tail(s)) = Len(s) - 1 /\ Len(s) \in Nat
  BY <1>1, <1>2, HeadTailProperties, LenProperties
<1>4. /\ view' = IF About(e) \in complete[f] THEN [view EXCEPT ![f][About(e)] = e.new] ELSE view
      /\ docs' = docs /\ complete' = complete
  BY <1>1 DEF Receive
<1>5. About(e) \in Id /\ e.new \in Doc \cup {Missing}
  BY <1>3, AboutId
<1>6. /\ view' \in [Feed -> [Id -> Doc \cup {Missing}]]
      /\ \A d \in complete[f] : view'[f][d] = IF About(e) = d THEN e.new ELSE view[f][d]
      /\ \A g \in Feed : g # f => view'[g] = view[g]
  BY <1>4, <1>5 DEF FeedTypes
<1>7. FeedTypes'
  <2>1. feeds' \in [Feed -> Seq(Event) \cup {Missing}]
    BY <1>2, <1>3 DEF FeedTypes
  <2>2. ASSUME NEW g \in Feed
        PROVE  feeds'[g] = Missing \/ Len(feeds'[g]) <= FeedCap
    <3>1. CASE g = f
      <4>1. Len(s) <= FeedCap
        BY <1>1 DEF Receive, FeedTypes
      <4>2. feeds'[g] = Tail(s)
        BY <1>2, <3>1 DEF FeedTypes
      <4> QED
        BY <1>3, <4>1, <4>2
    <3>2. CASE g # f
      <4>1. feeds'[g] = feeds[g]
        BY <1>2, <3>2 DEF FeedTypes
      <4> QED
        BY <4>1 DEF FeedTypes
    <3> QED
      BY <3>1, <3>2
  <2> QED
    BY <1>4, <1>6, <2>1, <2>2 DEF FeedTypes
<1>8. ASSUME NEW g \in Feed, NEW d \in complete'[g]
      PROVE  feeds'[g] \in Seq(Event) /\ Told(feeds'[g], view'[g][d], d, docs'[d])
  <2>1. d \in complete[g] /\ d \in Id
    BY <1>4, <1>8 DEF FeedTypes
  <2>2. feeds[g] \in Seq(Event) /\ Told(feeds[g], view[g][d], d, docs[d])
    BY <2>1 DEF FeedInv
  <2>3. CASE g = f
    <3>1. feeds'[g] = Tail(s)
      BY <1>2, <2>3 DEF FeedTypes
    <3>2. Told(Tail(s), IF About(Head(s)) = d THEN Head(s).new ELSE view[f][d], d, docs[d])
      BY <1>1, <1>2, <2>1, <2>2, <2>3, ToldTail
    <3>3. view'[g][d] = IF About(Head(s)) = d THEN Head(s).new ELSE view[f][d]
      BY <1>1, <1>6, <2>1, <2>3
    <3> QED
      BY <1>3, <1>4, <3>1, <3>2, <3>3
  <2>4. CASE g # f
    <3>1. feeds'[g] = feeds[g] /\ view'[g] = view[g]
      BY <1>2, <1>6, <2>4 DEF FeedTypes
    <3> QED
      BY <1>4, <2>2, <3>1
  <2> QED
    BY <2>3, <2>4
<1> QED
  BY <1>7, <1>8 DEF FeedInv

-----------------------------------------------------------------------------
(* The table.                                                              *)

TableInv == TableTypeOK /\ IndexFinds /\ FeedInv

\* Every document is under its own id.
DocsOK(ds) == ds \in [Id -> Doc \cup {Missing}] /\ \A d \in Id : ds[d] # Missing => ds[d].id = d

LEMMA TableTypeParts ==
    ASSUME TableTypeOK
    PROVE  DocsOK(docs) /\ docs \in [Id -> Doc \cup {Missing}] /\ FeedTypes
BY DEF TableTypeOK, FeedTypes, DocsOK

LEMMA TableInvInit == TableInit => TableInv
<1> SUFFICES ASSUME TableInit
             PROVE  TableInv
  OBVIOUS
<1>1. docs = [d \in Id |-> Missing] /\ putErr = FALSE
  BY DEF TableInit, Tree!Init
<1>2. TableTypeOK
  BY <1>1 DEF TableInit, TableTypeOK
<1>3. IndexFinds /\ FeedInv
  BY DEF TableInit, IndexFinds, Indexes, FeedInv
<1> QED
  BY <1>2, <1>3 DEF TableInv

\* What a call leaves of an invariant is put together from its indexes and its
\* feeds.
LEMMA TableInvParts ==
    ASSUME DocsOK(docs'), putErr' \in BOOLEAN, closed' \subseteq Feed,
           IndexFinds', idx' \in [Index -> [FieldValue -> Seq(Id)] \cup {Missing}],
           listed' \in [Index -> SUBSET Id], FeedTypes', FeedInv'
    PROVE  TableInv'
BY DEF TableInv, TableTypeOK, FeedTypes, DocsOK

\* Indexes come and go; one that is new was told of nothing.
LEMMA IndexStep ==
    ASSUME TableInv, NEW i \in Index, CreateIndex(i) \/ DropIndex(i)
    PROVE  TableInv'
<1> DEFINE empty == [v \in FieldValue |-> <<>>]
<1>1. empty \in [FieldValue -> Seq(Id)]
  BY EmptySeq
<1>2. /\ idx' = [idx EXCEPT ![i] = empty] \/ idx' = [idx EXCEPT ![i] = Missing]
      /\ listed' = [listed EXCEPT ![i] = {}]
      /\ UNCHANGED <<docs, putErr, feeds, closed, view, complete>>
  BY DEF CreateIndex, DropIndex
<1>3. TableTypeOK /\ FeedTypes /\ DocsOK(docs) /\ docs \in [Id -> Doc \cup {Missing}] /\ IndexFinds /\ FeedInv
  BY TableTypeParts DEF TableInv
<1> HIDE DEF empty
<1>4. idx' \in [Index -> [FieldValue -> Seq(Id)] \cup {Missing}] /\ listed' \in [Index -> SUBSET Id]
  BY <1>1, <1>2, <1>3 DEF TableTypeOK
<1>5. IndexFinds'
  <2> SUFFICES ASSUME NEW j \in Index, idx'[j] # Missing, NEW d \in listed'[j],
                      docs'[d] # Missing, docs'[d].f # Missing
               PROVE  d \in ToSet(idx'[j][docs'[d].f])
    BY DEF IndexFinds, Indexes
  <2>1. j # i
    BY <1>2, <1>3 DEF TableTypeOK
  <2>2. idx'[j] = idx[j] /\ listed'[j] = listed[j] /\ docs' = docs
    BY <1>2, <1>3, <2>1 DEF TableTypeOK
  <2> QED
    BY <1>3, <2>2 DEF IndexFinds, Indexes
<1>6. FeedTypes' /\ FeedInv'
  BY <1>2, <1>3, FeedSame
<1> QED
  BY <1>2, <1>3, <1>4, <1>5, <1>6, TableInvParts DEF TableTypeOK

LEMMA FeedStep ==
    ASSUME TableInv, NEW f \in Feed, NewChangefeed(f) \/ Receive(f) \/ Close(f)
    PROVE  TableInv'
<1>1. TableTypeOK /\ FeedTypes /\ DocsOK(docs) /\ docs \in [Id -> Doc \cup {Missing}] /\ IndexFinds /\ FeedInv
  BY TableTypeParts DEF TableInv
<1>2. UNCHANGED <<docs, putErr, idx, listed>> /\ closed' \subseteq Feed
  BY <1>1 DEF NewChangefeed, Receive, Close, TableTypeOK
<1>3. IndexFinds'
  BY <1>1, <1>2 DEF IndexFinds, Indexes
<1>4. FeedTypes' /\ FeedInv'
  <2>1. CASE NewChangefeed(f)
    BY <1>1, <2>1, NewFeedTells
  <2>2. CASE Receive(f)
    BY <1>1, <2>2, ReceiveTells
  <2>3. CASE Close(f)
    BY <1>1, <2>3, FeedSame DEF Close
  <2> QED
    BY <2>1, <2>2, <2>3
<1> QED
  BY <1>1, <1>2, <1>3, <1>4, TableInvParts DEF TableTypeOK

\* What a Put that succeeds, with the event that tells of it, does to the feeds.
LEMMA StoredTells ==
    ASSUME FeedTypes, FeedInv, DocsOK(docs), NEW d \in Id, NEW doc \in Doc, doc.id = d,
           Tree!Put(d, doc), notifyChangefeeds(d, Missing, doc)
    PROVE  DocsOK(docs') /\ putErr' \in BOOLEAN /\ FeedTypes' /\ FeedInv'
<1>1. docs' = [docs EXCEPT ![d] = doc] /\ putErr' = FALSE
  BY DEF Tree!Put
<1>2. Missing # doc
  OBVIOUS
<1>3. /\ [old |-> Missing, new |-> doc] \in Event
      /\ About([old |-> Missing, new |-> doc]) = d
  BY <1>2 DEF Event, About
<1>4. DocsOK(docs')
  BY <1>1 DEF DocsOK
<1> QED
  BY <1>1, <1>3, <1>4, NotifyTells DEF DocsOK

\* And one that fails.
LEMMA FailedTells ==
    ASSUME FeedTypes, FeedInv, DocsOK(docs), NEW d \in Id, NEW doc \in Doc, doc.id = d,
           PutFailed(d, doc)
    PROVE  DocsOK(docs') /\ putErr' \in BOOLEAN /\ closed' = closed /\ FeedTypes' /\ FeedInv'
<1>1. /\ docs' \in [Id -> Doc \cup {Missing}] /\ docs'[d] \in {doc, docs[d], Missing}
      /\ \A x \in Id \ {d} : docs'[x] \in {docs[x], Missing}
      /\ putErr' = TRUE /\ closed' = closed
  BY DEF PutFailed, Tree!PutFails
<1>2. DocsOK(docs')
  BY <1>1 DEF DocsOK
<1> QED
  BY <1>1, <1>2, FailureTells

LEMMA DocStep ==
    ASSUME TableInv, NEW d \in Id,
           \/ DeleteDoc(d) \/ \E doc \in Doc : InsertDoc(d, doc)
           \/ \E updates \in Updates : UpdateDoc(d, updates)
    PROVE  TableInv'
<1>1. TableTypeOK /\ FeedTypes /\ DocsOK(docs) /\ docs \in [Id -> Doc \cup {Missing}] /\ IndexFinds /\ FeedInv
  BY TableTypeParts DEF TableInv
<1>2. closed \subseteq Feed
  BY <1>1 DEF TableTypeOK
<1>3. CASE DeleteDoc(d)
  <2>1. docs' = [docs EXCEPT ![d] = Missing] /\ putErr' = FALSE /\ closed' = closed
    BY <1>3 DEF DeleteDoc, Tree!Delete
  <2>2. DocsOK(docs')
    BY <1>1, <2>1 DEF DocsOK
  <2>3. FeedTypes' /\ FeedInv'
    <3>1. CASE docs[d] = Missing
      <4>1. docs' = docs
        BY <1>1, <2>1, <3>1, SMTT(30)
      <4> QED
        BY <1>1, <1>3, <3>1, <4>1, FeedSame DEF DeleteDoc, NotifyNobody
    <3>2. CASE docs[d] # Missing
      <4>1. notifyChangefeeds(d, docs[d], Missing)
        BY <1>3, <3>2 DEF DeleteDoc
      <4>2. docs[d] \in Doc /\ docs[d].id = d
        BY <1>1, <3>2 DEF DocsOK
      <4>3. /\ [old |-> docs[d], new |-> Missing] \in Event
            /\ About([old |-> docs[d], new |-> Missing]) = d
        BY <3>2, <4>2 DEF Event, About
      <4> QED
        BY <1>1, <2>1, <4>1, <4>3, NotifyTells
    <3> QED
      BY <3>1, <3>2
  <2>4. /\ IndexFinds' /\ idx' \in [Index -> [FieldValue -> Seq(Id)] \cup {Missing}]
        /\ listed' \in [Index -> SUBSET Id]
    BY <1>1, <1>3, DeleteFinds
  <2> QED
    BY <1>2, <2>1, <2>2, <2>3, <2>4, TableInvParts
<1>4. ASSUME NEW doc \in Doc, InsertDoc(d, doc)
      PROVE  TableInv'
  <2>1. doc.id = d
    BY <1>4 DEF InsertDoc
  <2>2. DocsOK(docs') /\ putErr' \in BOOLEAN /\ closed' = closed /\ FeedTypes' /\ FeedInv'
    <3>1. CASE Tree!Put(d, doc) /\ notifyChangefeeds(d, Missing, doc) /\ UNCHANGED closed
      BY <1>1, <2>1, <3>1, StoredTells
    <3>2. CASE PutFailed(d, doc)
      BY <1>1, <2>1, <3>2, FailedTells
    <3> QED
      BY <1>4, <3>1, <3>2 DEF InsertDoc
  <2>3. /\ IndexFinds' /\ idx' \in [Index -> [FieldValue -> Seq(Id)] \cup {Missing}]
        /\ listed' \in [Index -> SUBSET Id]
    BY <1>1, <1>4, InsertFinds
  <2> QED
    BY <1>2, <2>2, <2>3, TableInvParts
<1>5. ASSUME NEW updates \in Updates, UpdateDoc(d, updates)
      PROVE  TableInv'
  <2>1. PICK merged : merged = Merged(docs[d], updates)
    OBVIOUS
  <2>2. docs[d] \in Doc /\ docs[d].id = d /\ updates.f \in FieldValue \cup {Missing}
    BY <1>1, <1>5 DEF UpdateDoc, DocsOK, Updates
  <2>3. merged \in Doc /\ merged.id = d
    BY <2>1, <2>2 DEF Merged, Doc
  <2>4. \/ Tree!Put(d, merged) /\ notifyChangefeeds(d, Missing, merged) /\ UNCHANGED closed
        \/ PutFailed(d, merged)
    BY <1>5, <2>1 DEF UpdateDoc
  <2>5. DocsOK(docs') /\ putErr' \in BOOLEAN /\ closed' = closed /\ FeedTypes' /\ FeedInv'
    <3>1. CASE Tree!Put(d, merged) /\ notifyChangefeeds(d, Missing, merged) /\ UNCHANGED closed
      BY <1>1, <2>3, <3>1, StoredTells
    <3>2. CASE PutFailed(d, merged)
      BY <1>1, <2>3, <3>2, FailedTells
    <3> QED
      BY <2>4, <3>1, <3>2
  <2>6. /\ IndexFinds' /\ idx' \in [Index -> [FieldValue -> Seq(Id)] \cup {Missing}]
        /\ listed' \in [Index -> SUBSET Id]
    BY <1>1, <1>5, UpdateFinds
  <2> QED
    BY <1>2, <2>5, <2>6, TableInvParts
<1> QED
  BY <1>3, <1>4, <1>5

LEMMA TableInvStep == TableInv /\ [TableNext]_tableVars => TableInv'
<1> SUFFICES ASSUME TableInv, [TableNext]_tableVars
             PROVE  TableInv'
  OBVIOUS
<1>1. CASE TableNext
  BY <1>1, IndexStep, FeedStep, DocStep DEF TableNext
<1>2. CASE UNCHANGED tableVars
  <2>1. TableTypeOK'
    BY <1>2 DEF TableInv, TableTypeOK, tableVars
  <2>2. IndexFinds' /\ FeedInv'
    BY <1>2 DEF TableInv, IndexFinds, Indexes, FeedInv, tableVars
  <2> QED
    BY <2>1, <2>2 DEF TableInv
<1> QED
  BY <1>1, <1>2

\* Told is Learns of the feed's channel and view.
LEMMA TableInvFeedKnows == TableInv => FeedKnows
BY DEF TableInv, FeedInv, FeedKnows, Learns, Told

\* Through insertions over documents that are there, updates, deletions and Puts
\* that fail halfway, and whatever stale and doubled entries they leave behind,
\* an index finds every document it was told of under the value it has now.
THEOREM IndexFindsHolds == TableSpec => []IndexFinds
<1>1. TableInv => IndexFinds
  BY DEF TableInv
<1> QED
  BY <1>1, TableInvInit, TableInvStep, PTL DEF TableSpec

\* A reader of a changefeed knows, from what it has read and what waits in the
\* channel, every document that no dropped event and no failing Put left it
\* untold of, whatever the capacity of the channel; and every variable has its type.
THEOREM FeedKnowsHolds == TableSpec => []FeedKnows
BY TableInvInit, TableInvStep, TableInvFeedKnows, PTL DEF TableSpec

HIDE TableAssumption
USE BTreeAssumption

-----------------------------------------------------------------------------
(* Searching and cutting sequences.                                         *)

\* A set of natural numbers has a least one.
LEMMA LeastNat ==
    ASSUME NEW T \in SUBSET Nat, T # {}
    PROVE  \E x \in T : \A y \in T : x <= y
<1>1. PICK x \in T : \A y \in T : ~(<<y, x>> \in OpToRel(<, Nat))
  BY WFMin, NatLessThanWellFounded, Zenon
<1>2. \A y \in T : ~(y < x)
  BY <1>1 DEF OpToRel
<1> QED
  BY <1>2

\* Without a key twice.
Ascending(s) == \A i, j \in 1..Len(s) : i < j => s[i] < s[j]

\* In ascending keys, the ones that belong in front of a key come first: the
\* binary searches find how many they are.
LEMMA CountIsPosition ==
    ASSUME NEW s \in Seq(Key), NEW S \in SUBSET (1..Len(s)),
           \A i \in S : \A j \in 1..Len(s) : j < i => j \in S
    PROVE  /\ Cardinality(S) + 1 \in 1..(Len(s) + 1)
           /\ \A i \in 1..Len(s) : i \in S <=> i < Cardinality(S) + 1
<1>1. Len(s) \in Nat
  BY LenProperties
<1> DEFINE T == {q \in 0..Len(s) : \A i \in S : i <= q}
<1>2. T \in SUBSET Nat /\ T # {}
  <2>1. Len(s) \in 0..Len(s)
    BY <1>1
  <2>2. Len(s) \in T
    BY <1>1, <2>1
  <2> QED
    BY <1>1, <2>2
<1>3. PICK p \in T : \A q \in T : p <= q
  <2> HIDE DEF T
  <2> QED
    BY <1>2, LeastNat
<1>4. p \in 0..Len(s)
  BY <1>3
<1>5. p = 0 \/ p \in S
  <2> SUFFICES ASSUME p # 0, p \notin S
               PROVE  FALSE
    OBVIOUS
  <2>1. p - 1 \in 0..Len(s)
    BY <1>1, <1>4
  <2>2. \A i \in S : i <= p - 1
    BY <1>1, <1>3, <1>4
  <2>3. p - 1 \in T
    BY <2>1, <2>2
  <2>4. p <= p - 1
    BY <1>3, <2>3
  <2> QED
    BY <1>1, <1>4, <2>4
<1>6. S = 1..p
  <2>1. \A i \in S : i \in 1..p
    BY <1>1, <1>3, <1>4
  <2>2. \A i \in 1..p : i \in S
    BY <1>1, <1>4, <1>5
  <2> QED
    BY <2>1, <2>2
<1>7. Cardinality(S) = p
  <2>1. p \in Nat /\ p - 1 + 1 = p
    BY <1>1, <1>4
  <2>2. Cardinality(1..p) = IF 1 > p THEN 0 ELSE p - 1 + 1
    BY <2>1, FS_Interval
  <2> QED
    BY <1>6, <2>1, <2>2
<1> QED
  BY <1>1, <1>4, <1>6, <1>7

\* FindChild counts the separators up to the key.
LEMMA FindChildSpec ==
    ASSUME NEW n, n.keys \in Seq(Key), Ascending(n.keys), NEW x \in Key
    PROVE  /\ FindChild(n, x) \in 1..(Len(n.keys) + 1)
           /\ \A i \in 1..Len(n.keys) : n.keys[i] <= x <=> i < FindChild(n, x)
<1> DEFINE s == n.keys
           S == {i \in 1..Len(s) : s[i] <= x}
<1>1. /\ Len(s) \in Nat /\ DOMAIN s = 1..Len(s)
      /\ x \in Int /\ \A i \in 1..Len(s) : s[i] \in Int
  BY LenProperties, ElementOfSeq
<1>2. FindChild(n, x) = Cardinality(S) + 1
  BY <1>1 DEF FindChild
<1>3. S \in SUBSET (1..Len(s)) /\ \A i \in S : \A j \in 1..Len(s) : j < i => j \in S
  BY <1>1 DEF Ascending
<1>4. /\ Cardinality(S) + 1 \in 1..(Len(s) + 1)
      /\ \A i \in 1..Len(s) : i \in S <=> i < Cardinality(S) + 1
  <2> HIDE DEF S
  <2> QED
    BY <1>3, CountIsPosition
<1> QED
  BY <1>2, <1>4

\* findKey counts the keys below the key.
LEMMA findKeySpec ==
    ASSUME NEW n, n.keys \in Seq(Key), Ascending(n.keys), NEW x \in Key
    PROVE  /\ findKey(n, x) \in 1..(Len(n.keys) + 1)
           /\ \A i \in 1..Len(n.keys) : n.keys[i] < x <=> i < findKey(n, x)
<1> DEFINE s == n.keys
           S == {i \in 1..Len(s) : s[i] < x}
<1>1. /\ Len(s) \in Nat /\ DOMAIN s = 1..Len(s)
      /\ x \in Int /\ \A i \in 1..Len(s) : s[i] \in Int
  BY LenProperties, ElementOfSeq
<1>2. findKey(n, x) = Cardinality(S) + 1
  BY <1>1 DEF findKey
<1>3. S \in SUBSET (1..Len(s)) /\ \A i \in S : \A j \in 1..Len(s) : j < i => j \in S
  BY <1>1 DEF Ascending
<1>4. /\ Cardinality(S) + 1 \in 1..(Len(s) + 1)
      /\ \A i \in 1..Len(s) : i \in S <=> i < Cardinality(S) + 1
  <2> HIDE DEF S
  <2> QED
    BY <1>3, CountIsPosition
<1> QED
  BY <1>2, <1>4

\* What the sequences of a node become.
LEMMA SliceSpec ==
    ASSUME NEW S, NEW s \in Seq(S), NEW a \in 1..(Len(s) + 1), NEW b \in 0..Len(s), a <= b + 1
    PROVE  /\ SubSeq(s, a, b) \in Seq(S) /\ Len(SubSeq(s, a, b)) = b - a + 1
           /\ \A q \in 1..(b - a + 1) : SubSeq(s, a, b)[q] = s[a + q - 1]
<1>1. Len(s) \in Nat /\ \A q \in 1..Len(s) : s[q] \in S
  BY LenProperties, ElementOfSeq
<1>2. /\ a \in Int /\ b \in Int /\ \A i \in a..b : s[i] \in S
      /\ (IF a <= b THEN b - a + 1 ELSE 0) = b - a + 1
  BY <1>1
<1> QED
  BY <1>2, SubSeqProperties

\* What InsertAt puts at which position.
LEMMA InsertAtSpec ==
    ASSUME NEW S, NEW s \in Seq(S), NEW p \in 1..(Len(s) + 1), NEW e \in S
    PROVE  /\ InsertAt(s, p, e) \in Seq(S)
           /\ Len(InsertAt(s, p, e)) = Len(s) + 1
           /\ \A q \in 1..(Len(s) + 1) :
                InsertAt(s, p, e)[q] = IF q < p THEN s[q] ELSE IF q = p THEN e ELSE s[q - 1]
<1> DEFINE c == p - 1
           m == Len(s)
           front == SubSeq(s, 1, c)
           back == SubSeq(s, p, m)
           mid == front \o <<e>>
           all == mid \o back
<1>1. /\ m \in Nat /\ c \in 0..m /\ 1 \in 1..(m + 1) /\ m \in 0..m /\ 1 <= c + 1
      /\ p \in 1..(m + 1) /\ p <= m + 1
  BY LenProperties
<1>2. p = c + 1 /\ c - 1 + 1 = c
  BY <1>1
<1>3. InsertAt(s, p, e) = all
  BY DEF InsertAt
<1> HIDE DEF c, m
<1>4. /\ front \in Seq(S) /\ Len(front) = c
      /\ \A q \in 1..c : front[q] = s[1 + q - 1]
  BY <1>1, <1>2, SliceSpec DEF m
<1>5. /\ back \in Seq(S) /\ Len(back) = m - p + 1
      /\ \A q \in 1..(m - p + 1) : back[q] = s[p + q - 1]
  BY <1>1, SliceSpec DEF m
<1> HIDE DEF front, back
<1>6. <<e>> \in Seq(S) /\ Len(<<e>>) = 1 /\ <<e>>[1] = e
  OBVIOUS
<1>7. /\ mid \in Seq(S) /\ Len(mid) = Len(front) + Len(<<e>>)
      /\ \A i \in 1..(Len(front) + Len(<<e>>)) :
           mid[i] = IF i <= Len(front) THEN front[i] ELSE <<e>>[i - Len(front)]
  BY <1>4, <1>6, ConcatProperties
<1> HIDE DEF mid
<1>8. /\ Len(mid) = p
      /\ \A q \in 1..p : mid[q] = IF q < p THEN s[q] ELSE e
  BY <1>1, <1>2, <1>4, <1>6, <1>7
<1>9. /\ all \in Seq(S) /\ Len(all) = Len(mid) + Len(back)
      /\ \A i \in 1..(Len(mid) + Len(back)) :
           all[i] = IF i <= Len(mid) THEN mid[i] ELSE back[i - Len(mid)]
  <2>1. mid \in Seq(S) /\ back \in Seq(S)
    BY <1>5, <1>7
  <2> QED
    BY <2>1, ConcatProperties
<1> HIDE DEF all
<1>10. Len(all) = m + 1
  BY <1>1, <1>5, <1>8, <1>9
<1>11. ASSUME NEW q \in 1..(m + 1)
       PROVE  all[q] = IF q < p THEN s[q] ELSE IF q = p THEN e ELSE s[q - 1]
  <2>0. q \in 1..(Len(mid) + Len(back))
    BY <1>9, <1>10
  <2>1. CASE q <= p
    BY <1>1, <1>8, <1>9, <2>0, <2>1
  <2>2. CASE ~(q <= p)
    <3>1. q - p \in 1..(m - p + 1) /\ p + (q - p) - 1 = q - 1
      BY <1>1, <2>2
    <3>2. all[q] = back[q - p]
      BY <1>8, <1>9, <2>0, <2>2
    <3>3. back[q - p] = s[q - 1]
      BY <1>5, <3>1
    <3> QED
      BY <1>1, <2>2, <3>2, <3>3
  <2> QED
    BY <2>1, <2>2
<1> QED
  BY <1>3, <1>9, <1>10, <1>11 DEF m

\* What RemoveAt leaves at which position.
LEMMA RemoveAtSpec ==
    ASSUME NEW S, NEW s \in Seq(S), NEW p \in 1..Len(s)
    PROVE  /\ RemoveAt(s, p) \in Seq(S)
           /\ Len(RemoveAt(s, p)) = Len(s) - 1
           /\ \A q \in 1..(Len(s) - 1) : RemoveAt(s, p)[q] = IF q < p THEN s[q] ELSE s[q + 1]
<1> DEFINE c == p - 1
           d == p + 1
           m == Len(s)
           front == SubSeq(s, 1, c)
           back == SubSeq(s, d, m)
           all == front \o back
<1>1. /\ m \in Nat /\ c \in 0..m /\ 1 \in 1..(m + 1) /\ m \in 0..m /\ 1 <= c + 1
      /\ d \in 1..(m + 1) /\ d <= m + 1
  BY LenProperties
<1>2. p = c + 1 /\ c - 1 + 1 = c /\ d = p + 1
  BY <1>1
<1>3. RemoveAt(s, p) = all
  BY DEF RemoveAt
<1> HIDE DEF c, d, m
<1>4. /\ front \in Seq(S) /\ Len(front) = c
      /\ \A q \in 1..c : front[q] = s[1 + q - 1]
  BY <1>1, <1>2, SliceSpec DEF m
<1>5. /\ back \in Seq(S) /\ Len(back) = m - d + 1
      /\ \A q \in 1..(m - d + 1) : back[q] = s[d + q - 1]
  BY <1>1, SliceSpec DEF m
<1> HIDE DEF front, back
<1>6. /\ all \in Seq(S) /\ Len(all) = Len(front) + Len(back)
      /\ \A i \in 1..(Len(front) + Len(back)) :
           all[i] = IF i <= Len(front) THEN front[i] ELSE back[i - Len(front)]
  <2>1. front \in Seq(S) /\ back \in Seq(S)
    BY <1>4, <1>5
  <2> QED
    BY ONLY <2>1, ConcatProperties
<1> HIDE DEF all
<1>7. Len(all) = m - 1
  BY <1>1, <1>2, <1>4, <1>5, <1>6
<1>8. ASSUME NEW q \in 1..(m - 1)
      PROVE  all[q] = IF q < p THEN s[q] ELSE s[q + 1]
  <2>0. q \in 1..(Len(front) + Len(back))
    BY <1>6, <1>7
  <2>1. CASE q <= c
    BY <1>1, <1>2, <1>4, <1>6, <2>0, <2>1
  <2>2. CASE ~(q <= c)
    <3>1. q - c \in 1..(m - d + 1) /\ d + (q - c) - 1 = q + 1
      BY <1>1, <1>2, <2>2
    <3>2. all[q] = back[q - c]
      BY <1>4, <1>6, <2>0, <2>2
    <3>4. back[q - c] = s[q + 1]
      BY <1>5, <3>1
    <3>3. ~(q < p)
      <4>1. p = c + 1 /\ c \in Int /\ q \in Int
        BY <1>1, <1>2
      <4> QED
        BY ONLY <2>2, <4>1
    <3> QED
      BY <3>2, <3>3, <3>4
  <2> QED
    BY <2>1, <2>2
<1> QED
  BY <1>3, <1>6, <1>7, <1>8 DEF m

\* The two parts of a sequence that is cut after position p.
LEMMA HalvesSpec ==
    ASSUME NEW S, NEW s \in Seq(S), NEW p \in 0..Len(s)
    PROVE  /\ SubSeq(s, 1, p) \in Seq(S) /\ Len(SubSeq(s, 1, p)) = p
           /\ \A q \in 1..p : SubSeq(s, 1, p)[q] = s[q]
           /\ From(s, p + 1) \in Seq(S) /\ Len(From(s, p + 1)) = Len(s) - p
           /\ \A q \in 1..(Len(s) - p) : From(s, p + 1)[q] = s[p + q]
<1> DEFINE d == p + 1
           m == Len(s)
           front == SubSeq(s, 1, p)
           back == SubSeq(s, d, m)
<1>1. /\ m \in Nat /\ p \in 0..m /\ 1 \in 1..(m + 1) /\ m \in 0..m /\ 1 <= p + 1
      /\ d \in 1..(m + 1) /\ d <= m + 1
  BY LenProperties
<1>2. p - 1 + 1 = p /\ d = p + 1 /\ m - d + 1 = m - p
  BY <1>1
<1>3. From(s, p + 1) = back
  BY DEF From
<1> HIDE DEF d, m
<1>4. /\ front \in Seq(S) /\ Len(front) = p
      /\ \A q \in 1..p : front[q] = s[1 + q - 1]
  BY <1>1, <1>2, SliceSpec DEF m
<1>5. /\ back \in Seq(S) /\ Len(back) = m - d + 1
      /\ \A q \in 1..(m - d + 1) : back[q] = s[d + q - 1]
  BY <1>1, SliceSpec DEF m
<1> HIDE DEF back
<1>6. ASSUME NEW q \in 1..(m - p)
      PROVE  back[q] = s[p + q]
  <2>1. q \in 1..(m - d + 1) /\ d + q - 1 = p + q
    BY <1>1, <1>2
  <2> QED
    BY <1>5, <2>1
<1>7. \A q \in 1..p : front[q] = s[q]
  <2> HIDE DEF front
  <2>1. \A q \in 1..p : 1 + q - 1 = q
    BY <1>1
  <2> QED
    BY <1>4, <2>1
<1>8. Len(back) = m - p
  BY <1>2, <1>5
<1> HIDE DEF front
<1>9. /\ front \in Seq(S) /\ Len(front) = p /\ \A q \in 1..p : front[q] = s[q]
      /\ back \in Seq(S) /\ Len(back) = Len(s) - p /\ \A q \in 1..(Len(s) - p) : back[q] = s[p + q]
  BY <1>4, <1>5, <1>6, <1>7, <1>8 DEF m
<1> QED
  BY <1>3, <1>9, Zenon DEF front

-----------------------------------------------------------------------------
(* The nodes of the B-tree.                                                 *)

\* The keys or separators of a node.
KeysOf(n) == {n.keys[i] : i \in 1..Len(n.keys)}

\* A leaf of a tree.
LeafOK(n) == n \in LeafNode /\ Ascending(n.keys) /\ LeafShape(n)

\* An internal node of a tree.
InternalOK(n) ==
    /\ n \in InternalNode /\ Ascending(n.keys)
    /\ Len(n.children) = Len(n.keys) + 1 /\ Len(n.children) <= MaxInternalKeys + 1

\* The leaf of ascending keys and their values, and what it consists of.
LEMMA NewLeafOK ==
    ASSUME NEW keys \in Seq(Key), NEW values \in Seq(Value), NEW right \in Nat,
           Ascending(keys), Len(values) = Len(keys), Len(keys) <= MaxLeafKeys
    PROVE  /\ LeafOK(Leaf(keys, values, right))
           /\ Leaf(keys, values, right).type = "leaf" /\ Leaf(keys, values, right).keys = keys
           /\ Leaf(keys, values, right).values = values /\ Leaf(keys, values, right).right = right
BY DEF LeafOK, LeafNode, LeafShape, Leaf

\* The internal node of ascending keys and their children.
LEMMA NewInternalOK ==
    ASSUME NEW keys \in Seq(Key), NEW children \in Seq(Nat),
           Ascending(keys), Len(children) = Len(keys) + 1, Len(children) <= MaxInternalKeys + 1
    PROVE  /\ InternalOK(Internal(keys, children))
           /\ Internal(keys, children).type = "internal" /\ Internal(keys, children).keys = keys
           /\ Internal(keys, children).children = children
BY DEF InternalOK, InternalNode, Internal

\* What a leaf consists of.
LEMMA LeafParts ==
    ASSUME NEW n, LeafOK(n)
    PROVE  /\ n.type = "leaf" /\ n.keys \in Seq(Key) /\ n.values \in Seq(Value) /\ n.right \in Nat
           /\ Ascending(n.keys) /\ Len(n.values) = Len(n.keys) /\ Len(n.keys) <= MaxLeafKeys
           /\ Len(n.keys) \in Nat /\ DOMAIN n.keys = 1..Len(n.keys)
           /\ \A i \in 1..Len(n.keys) : n.keys[i] \in Key /\ n.keys[i] \in Int /\ n.values[i] \in Value
<1>1. /\ n.type = "leaf" /\ n.keys \in Seq(Key) /\ n.values \in Seq(Value) /\ n.right \in Nat
      /\ Ascending(n.keys) /\ Len(n.values) = Len(n.keys) /\ Len(n.keys) <= MaxLeafKeys
  BY DEF LeafOK, LeafNode, LeafShape
<1>2. /\ Len(n.keys) \in Nat /\ DOMAIN n.keys = 1..Len(n.keys)
      /\ \A i \in 1..Len(n.keys) : n.keys[i] \in Key
  BY <1>1, LenProperties, ElementOfSeq
<1>3. \A i \in 1..Len(n.keys) : n.values[i] \in Value
  BY <1>1, ElementOfSeq
<1> QED
  BY <1>1, <1>2, <1>3

\* What an internal node consists of.
LEMMA InternalParts ==
    ASSUME NEW n, InternalOK(n)
    PROVE  /\ n.type = "internal" /\ n.keys \in Seq(Key) /\ n.children \in Seq(Nat)
           /\ Ascending(n.keys) /\ Len(n.children) = Len(n.keys) + 1
           /\ Len(n.children) <= MaxInternalKeys + 1
           /\ Len(n.keys) \in Nat /\ DOMAIN n.keys = 1..Len(n.keys)
           /\ Len(n.children) \in Nat /\ DOMAIN n.children = 1..Len(n.children)
           /\ \A i \in 1..Len(n.keys) : n.keys[i] \in Key /\ n.keys[i] \in Int
           /\ \A i \in 1..Len(n.children) : n.children[i] \in Nat
<1>1. /\ n.type = "internal" /\ n.keys \in Seq(Key) /\ n.children \in Seq(Nat)
      /\ Ascending(n.keys) /\ Len(n.children) = Len(n.keys) + 1 /\ Len(n.children) <= MaxInternalKeys + 1
  BY DEF InternalOK, InternalNode
<1>2. /\ Len(n.keys) \in Nat /\ DOMAIN n.keys = 1..Len(n.keys)
      /\ \A i \in 1..Len(n.keys) : n.keys[i] \in Key
  BY <1>1, LenProperties, ElementOfSeq
<1>3. Len(n.children) \in Nat /\ DOMAIN n.children = 1..Len(n.children)
  BY <1>1, LenProperties
<1>4. \A i \in 1..Len(n.children) : n.children[i] \in Nat
  BY <1>1, ElementOfSeq
<1> QED
  BY <1>1, <1>2, <1>3, <1>4

\* A key that a leaf has is found where it is.
LEMMA HasSpec ==
    ASSUME NEW n, LeafOK(n), NEW x \in Key
    PROVE  /\ Has(n, x) <=> x \in KeysOf(n)
           /\ \A i \in 1..Len(n.keys) : n.keys[i] = x => findKey(n, x) = i
           /\ findKey(n, x) \in 1..(Len(n.keys) + 1)
           /\ \A i \in 1..Len(n.keys) : n.keys[i] < x <=> i < findKey(n, x)
           /\ x \in Int
<1>1. /\ n.keys \in Seq(Key) /\ Ascending(n.keys) /\ Len(n.keys) \in Nat /\ DOMAIN n.keys = 1..Len(n.keys)
      /\ \A i \in 1..Len(n.keys) : n.keys[i] \in Int
  BY LeafParts
<1>2. /\ findKey(n, x) \in 1..(Len(n.keys) + 1)
      /\ \A i \in 1..Len(n.keys) : n.keys[i] < x <=> i < findKey(n, x)
  BY <1>1, findKeySpec
<1>3. ASSUME NEW i \in 1..Len(n.keys), n.keys[i] = x
      PROVE  findKey(n, x) = i
  <2> DEFINE f == findKey(n, x)
  <2>1. f \in 1..(Len(n.keys) + 1) /\ \A j \in 1..Len(n.keys) : n.keys[j] < x <=> j < f
    BY <1>2
  <2> HIDE DEF f
  <2>2. ~(i < f)
    BY <1>1, <1>3, <2>1
  <2>3. ~(f < i)
    <3> SUFFICES ASSUME f < i
                 PROVE  FALSE
      OBVIOUS
    <3>1. f \in 1..Len(n.keys)
      BY <1>1, <2>1
    <3>2. n.keys[f] < n.keys[i]
      BY <1>1, <3>1 DEF Ascending
    <3> QED
      BY <1>1, <1>3, <2>1, <3>1, <3>2
  <2>4. f = i
    BY <1>1, <2>1, <2>2, <2>3
  <2> QED
    BY <2>4 DEF f
<1>4. Has(n, x) <=> x \in KeysOf(n)
  BY <1>1, <1>3 DEF Has, KeysOf
<1> QED
  BY <1>1, <1>2, <1>3, <1>4

\* LeafGet finds the value beside the key, and None for a key that is not there.
LEMMA LeafGetSpec ==
    ASSUME NEW n, LeafOK(n), NEW x \in Key
    PROVE  /\ \A i \in 1..Len(n.keys) : n.keys[i] = x => LeafGet(n, x) = n.values[i]
           /\ x \notin KeysOf(n) => LeafGet(n, x) = None
           /\ x \in KeysOf(n) => LeafGet(n, x) \in Value
           /\ LeafGet(n, x) = None <=> x \notin KeysOf(n)
<1>1. /\ Has(n, x) <=> x \in KeysOf(n)
      /\ \A i \in 1..Len(n.keys) : n.keys[i] = x => findKey(n, x) = i
  BY HasSpec
<1>2. \A i \in 1..Len(n.keys) : n.values[i] \in Value
  BY LeafParts
<1>3. ASSUME NEW i \in 1..Len(n.keys), n.keys[i] = x
      PROVE  LeafGet(n, x) = n.values[i]
  BY <1>1, <1>3 DEF LeafGet, KeysOf
<1>4. x \notin KeysOf(n) => LeafGet(n, x) = None
  BY <1>1 DEF LeafGet
<1>5. x \in KeysOf(n) => LeafGet(n, x) \in Value
  BY <1>2, <1>3 DEF KeysOf
<1>6. None \notin Value
  OBVIOUS
<1> QED
  BY <1>3, <1>4, <1>5, <1>6

\* A key put where it belongs leaves the keys ascending.
LEMMA InsertAscending ==
    ASSUME NEW s \in Seq(Key), Ascending(s), NEW pos \in 1..(Len(s) + 1), NEW k \in Key,
           \A i \in 1..Len(s) : (i < pos => s[i] < k) /\ (~(i < pos) => k < s[i])
    PROVE  Ascending(InsertAt(s, pos, k))
<1> DEFINE m == Len(s)
           l == InsertAt(s, pos, k)
<1>1. m \in Nat /\ pos \in 1..(m + 1)
  BY LenProperties
<1>2. /\ l \in Seq(Key) /\ Len(l) = m + 1
      /\ \A q \in 1..(m + 1) : l[q] = IF q < pos THEN s[q] ELSE IF q = pos THEN k ELSE s[q - 1]
  BY InsertAtSpec
<1>3. \A a, b \in 1..m : a < b => s[a] < s[b]
  BY DEF Ascending
<1>4. \A i \in 1..m : (i < pos => s[i] < k) /\ (~(i < pos) => k < s[i])
  OBVIOUS
<1> HIDE DEF m, l
<1> SUFFICES ASSUME NEW i \in 1..(m + 1), NEW j \in 1..(m + 1), i < j
             PROVE  l[i] < l[j]
  BY <1>2 DEF Ascending, l
<1>5. CASE i < pos
  <2>1. i \in 1..m /\ l[i] = s[i]
    BY <1>1, <1>2, <1>5
  <2>2. CASE j < pos
    <3>1. j \in 1..m /\ l[j] = s[j]
      BY <1>1, <1>2, <2>2
    <3> QED
      BY <1>3, <2>1, <3>1
  <2>3. CASE j = pos
    BY <1>2, <1>4, <1>5, <2>1, <2>3
  <2>4. CASE j > pos
    <3>1. j - 1 \in 1..m /\ l[j] = s[j - 1] /\ i < j - 1
      BY <1>1, <1>2, <1>5, <2>4
    <3> QED
      BY <1>3, <2>1, <3>1
  <2> QED
    BY <1>1, <2>2, <2>3, <2>4
<1>6. CASE i = pos
  <2>1. j - 1 \in 1..m /\ l[j] = s[j - 1] /\ ~(j - 1 < pos)
    BY <1>1, <1>2, <1>6
  <2> QED
    BY <1>2, <1>4, <1>6, <2>1
<1>7. CASE i > pos
  <2>1. j - 1 \in 1..m /\ l[j] = s[j - 1] /\ i - 1 \in 1..m /\ l[i] = s[i - 1] /\ i - 1 < j - 1
    BY <1>1, <1>2, <1>7
  <2> QED
    BY <1>3, <2>1
<1> QED
  BY <1>1, <1>5, <1>6, <1>7

\* Inserting into a leaf that is not full.
LEMMA LeafInsertSpec ==
    ASSUME NEW n, LeafOK(n), ~LeafIsFull(n), NEW k \in Key, NEW v \in Value
    PROVE  /\ LeafOK(LeafInsert(n, k, v)) /\ LeafInsert(n, k, v).right = n.right
           /\ KeysOf(LeafInsert(n, k, v)) \subseteq KeysOf(n) \cup {k}
           /\ \A x \in Key : LeafGet(LeafInsert(n, k, v), x) = IF x = k THEN v ELSE LeafGet(n, x)
<1> DEFINE pos == findKey(n, k)
           m == Len(n.keys)
<1>1. /\ n.keys \in Seq(Key) /\ n.values \in Seq(Value) /\ n.right \in Nat
      /\ Ascending(n.keys) /\ Len(n.values) = m /\ m < MaxLeafKeys
      /\ m \in Nat /\ \A i \in 1..m : n.keys[i] \in Key /\ n.keys[i] \in Int
  BY LeafParts DEF LeafIsFull
<1>2. /\ Has(n, k) <=> k \in KeysOf(n)
      /\ pos \in 1..(m + 1)
      /\ \A i \in 1..m : n.keys[i] < k <=> i < pos
      /\ k \in Int
  BY HasSpec
<1>3. CASE Has(n, k)
  <2> DEFINE w == [n.values EXCEPT ![pos] = v]
             o == Leaf(n.keys, w, n.right)
  <2>1. LeafInsert(n, k, v) = o
    BY <1>3 DEF LeafInsert
  <2>2. pos \in 1..m /\ n.keys[pos] = k
    BY <1>3, LeafParts DEF Has
  <2>3. w \in Seq(Value) /\ Len(w) = m /\ \A i \in 1..m : w[i] = IF i = pos THEN v ELSE n.values[i]
    BY <1>1, <2>2, ExceptSeq
  <2> HIDE DEF w
  <2>4. LeafOK(o) /\ o.keys = n.keys /\ o.values = w /\ o.right = n.right
    BY <1>1, <2>3, NewLeafOK
  <2> HIDE DEF o
  <2>5. KeysOf(o) = KeysOf(n)
    BY <2>4 DEF KeysOf
  <2>6. ASSUME NEW x \in Key
        PROVE  LeafGet(o, x) = IF x = k THEN v ELSE LeafGet(n, x)
    <3>1. CASE x = k
      BY <2>2, <2>3, <2>4, <3>1, LeafGetSpec
    <3>2. CASE x # k /\ x \in KeysOf(n)
      <4>1. PICK i \in 1..m : n.keys[i] = x
        BY <3>2 DEF KeysOf
      <4>2. i # pos
        BY <2>2, <3>2, <4>1
      <4>3. LeafGet(n, x) = n.values[i]
        BY <4>1, LeafGetSpec
      <4>4. LeafGet(o, x) = w[i]
        BY <2>4, <4>1, LeafGetSpec
      <4> QED
        BY <2>3, <3>2, <4>2, <4>3, <4>4
    <3>3. CASE x # k /\ x \notin KeysOf(n)
      BY <2>4, <2>5, <3>3, LeafGetSpec
    <3> QED
      BY <3>1, <3>2, <3>3
  <2> QED
    BY <2>1, <2>4, <2>5, <2>6
<1>4. CASE ~Has(n, k)
  <2> DEFINE w == InsertAt(n.values, pos, v)
             l == InsertAt(n.keys, pos, k)
             o == Leaf(l, w, n.right)
  <2>1. LeafInsert(n, k, v) = o
    BY <1>4 DEF LeafInsert
  <2>a. /\ n.keys \in Seq(Key) /\ pos \in 1..(Len(n.keys) + 1)
        /\ n.values \in Seq(Value) /\ pos \in 1..(Len(n.values) + 1) /\ Len(n.values) = m
    BY <1>1, <1>2
  <2> HIDE DEF pos
  <2>2. /\ l \in Seq(Key) /\ Len(l) = m + 1
        /\ \A q \in 1..(m + 1) : l[q] = IF q < pos THEN n.keys[q] ELSE IF q = pos THEN k ELSE n.keys[q - 1]
    <3> DEFINE s == n.keys
               t == InsertAt(s, pos, k)
    <3>1. s \in Seq(Key) /\ pos \in 1..(Len(s) + 1)
      BY <2>a
    <3> HIDE DEF s
    <3>2. /\ t \in Seq(Key) /\ Len(t) = Len(s) + 1
          /\ \A q \in 1..(Len(s) + 1) : t[q] = IF q < pos THEN s[q] ELSE IF q = pos THEN k ELSE s[q - 1]
      BY <3>1, InsertAtSpec
    <3> QED
      BY <3>2 DEF s
  <2>3. /\ w \in Seq(Value) /\ Len(w) = m + 1
        /\ \A q \in 1..(m + 1) : w[q] = IF q < pos THEN n.values[q] ELSE IF q = pos THEN v ELSE n.values[q - 1]
    <3> DEFINE s == n.values
               t == InsertAt(s, pos, v)
    <3>0. Len(s) = m
      BY <2>a
    <3>1. s \in Seq(Value) /\ pos \in 1..(Len(s) + 1)
      BY <2>a
    <3> HIDE DEF s
    <3>2. /\ t \in Seq(Value) /\ Len(t) = Len(s) + 1
          /\ \A q \in 1..(Len(s) + 1) : t[q] = IF q < pos THEN s[q] ELSE IF q = pos THEN v ELSE s[q - 1]
      BY <3>1, InsertAtSpec
    <3> HIDE DEF t
    <3>3. /\ t \in Seq(Value) /\ Len(t) = m + 1
          /\ \A q \in 1..(m + 1) : t[q] = IF q < pos THEN s[q] ELSE IF q = pos THEN v ELSE s[q - 1]
      BY <3>0, <3>2
    <3> QED
      BY <3>3 DEF s, t
  <2> HIDE DEF w, l
  <2>4. \A i \in 1..m : n.keys[i] # k
    BY <1>2, <1>4 DEF KeysOf
  <2>5. ASSUME NEW i \in 1..m
        PROVE  (i < pos => n.keys[i] < k) /\ (~(i < pos) => k < n.keys[i])
    <3>1. (n.keys[i] < k <=> i < pos) /\ k \in Int /\ n.keys[i] \in Int /\ n.keys[i] # k
      BY <1>1, <1>2, <2>4 DEF pos
    <3> QED
      BY <3>1
  <2>6. Ascending(l)
    <3> DEFINE s == n.keys
    <3>1. s \in Seq(Key) /\ Ascending(s) /\ pos \in 1..(Len(s) + 1)
      BY <1>1, <2>a
    <3>2. \A i \in 1..Len(s) : (i < pos => s[i] < k) /\ (~(i < pos) => k < s[i])
      BY <2>5
    <3> HIDE DEF s
    <3>3. Ascending(InsertAt(s, pos, k))
      BY <3>1, <3>2, InsertAscending
    <3> QED
      BY <3>3 DEF s, l
  <2>7. LeafOK(o) /\ o.keys = l /\ o.values = w /\ o.right = n.right
    <3>1. Len(l) <= MaxLeafKeys
      BY <1>1, <2>2
    <3> QED
      BY <1>1, <2>2, <2>3, <2>6, <3>1, NewLeafOK
  <2> HIDE DEF o
  <2>8. KeysOf(o) \subseteq KeysOf(n) \cup {k}
    <3>0. KeysOf(o) = {l[q] : q \in 1..(m + 1)}
      BY <2>2, <2>7 DEF KeysOf
    <3> SUFFICES ASSUME NEW q \in 1..(m + 1)
                 PROVE  l[q] = k \/ \E i \in 1..m : l[q] = n.keys[i]
      BY <3>0 DEF KeysOf
    <3>1. CASE q < pos
      BY <1>1, <1>2, <2>2, <3>1
    <3>2. CASE q = pos
      BY <2>2, <3>2
    <3>3. CASE q > pos
      <4>1. q - 1 \in 1..m /\ l[q] = n.keys[q - 1]
        BY <1>1, <1>2, <2>2, <3>3
      <4> QED
        BY <4>1
    <3> QED
      BY <1>1, <1>2, <3>1, <3>2, <3>3
  <2>9. ASSUME NEW x \in Key
        PROVE  LeafGet(o, x) = IF x = k THEN v ELSE LeafGet(n, x)
    <3>0. \A q \in 1..(m + 1) : l[q] = x => LeafGet(o, x) = w[q]
      BY <2>2, <2>7, LeafGetSpec
    <3>1. CASE x = k
      BY <1>1, <1>2, <2>2, <2>3, <3>0, <3>1
    <3>2. CASE x # k /\ x \in KeysOf(n)
      <4>1. PICK i \in 1..m : n.keys[i] = x
        BY <3>2 DEF KeysOf
      <4>2. LeafGet(n, x) = n.values[i]
        BY <4>1, LeafGetSpec
      <4>3. CASE i < pos
        <5>1. i \in 1..(m + 1) /\ l[i] = x /\ w[i] = n.values[i]
          BY <1>1, <2>2, <2>3, <4>1, <4>3
        <5> QED
          BY <3>0, <3>2, <4>2, <5>1
      <4>4. CASE ~(i < pos)
        <5>1. i + 1 \in 1..(m + 1) /\ i + 1 > pos /\ i + 1 - 1 = i
          BY <1>1, <1>2, <4>4
        <5>2. l[i + 1] = x /\ w[i + 1] = n.values[i]
          BY <1>1, <1>2, <2>2, <2>3, <4>1, <5>1
        <5> QED
          BY <3>0, <3>2, <4>2, <5>1, <5>2
      <4> QED
        BY <4>3, <4>4
    <3>3. CASE x # k /\ x \notin KeysOf(n)
      BY <2>7, <2>8, <3>3, LeafGetSpec
    <3> QED
      BY <3>1, <3>2, <3>3
  <2> QED
    BY <2>1, <2>7, <2>8, <2>9
<1> QED
  BY <1>3, <1>4

\* Deleting a key that a leaf has.
LEMMA LeafDeleteSpec ==
    ASSUME NEW n, LeafOK(n), NEW k \in Key, Has(n, k)
    PROVE  /\ LeafOK(LeafDelete(n, k)) /\ LeafDelete(n, k).right = n.right
           /\ Len(LeafDelete(n, k).keys) = Len(n.keys) - 1
           /\ KeysOf(LeafDelete(n, k)) \subseteq KeysOf(n)
           /\ \A x \in Key : LeafGet(LeafDelete(n, k), x) = IF x = k THEN None ELSE LeafGet(n, x)
<1> DEFINE pos == findKey(n, k)
           s == n.keys
           t == n.values
           m == Len(s)
           l == RemoveAt(s, pos)
           w == RemoveAt(t, pos)
           o == Leaf(l, w, n.right)
<1>1. /\ s \in Seq(Key) /\ t \in Seq(Value) /\ n.right \in Nat
      /\ Ascending(s) /\ Len(t) = m /\ m <= MaxLeafKeys
      /\ m \in Nat /\ \A i \in 1..m : s[i] \in Key /\ s[i] \in Int
  BY LeafParts
<1>2. pos \in 1..m /\ s[pos] = k
  BY LeafParts DEF Has
<1>3. LeafDelete(n, k) = o
  BY DEF LeafDelete
<1> HIDE DEF pos, s, t
<1>4. /\ l \in Seq(Key) /\ Len(l) = m - 1
      /\ \A q \in 1..(m - 1) : l[q] = IF q < pos THEN s[q] ELSE s[q + 1]
  <2>1. s \in Seq(Key) /\ pos \in 1..Len(s)
    BY <1>1, <1>2
  <2> QED
    BY <2>1, RemoveAtSpec
<1>5. /\ w \in Seq(Value) /\ Len(w) = m - 1
      /\ \A q \in 1..(m - 1) : w[q] = IF q < pos THEN t[q] ELSE t[q + 1]
  <2>1. t \in Seq(Value) /\ pos \in 1..Len(t)
    BY <1>1, <1>2
  <2>2. /\ w \in Seq(Value) /\ Len(w) = Len(t) - 1
        /\ \A q \in 1..(Len(t) - 1) : w[q] = IF q < pos THEN t[q] ELSE t[q + 1]
    BY <2>1, RemoveAtSpec
  <2> HIDE DEF w
  <2> QED
    BY <1>1, <2>2
<1> HIDE DEF l, w
<1>6. \A a, b \in 1..m : a < b => s[a] < s[b]
  BY <1>1 DEF Ascending
<1> HIDE DEF m
<1>7. ASSUME NEW q \in 1..(m - 1)
      PROVE  \E i \in 1..m : /\ l[q] = s[i] /\ w[q] = t[i] /\ i # pos
                             /\ i = IF q < pos THEN q ELSE q + 1
  <2>1. CASE q < pos
    BY <1>1, <1>2, <1>4, <1>5, <2>1
  <2>2. CASE ~(q < pos)
    <3>1. q + 1 \in 1..m /\ q + 1 # pos
      BY <1>1, <1>2, <2>2
    <3> QED
      BY <1>4, <1>5, <2>2, <3>1
  <2> QED
    BY <2>1, <2>2
<1>8. Ascending(l)
  <2> SUFFICES ASSUME NEW i \in 1..(m - 1), NEW j \in 1..(m - 1), i < j
               PROVE  l[i] < l[j]
    BY <1>4 DEF Ascending
  <2>1. PICK a \in 1..m : l[i] = s[a] /\ a = IF i < pos THEN i ELSE i + 1
    BY <1>7
  <2>2. PICK b \in 1..m : l[j] = s[b] /\ b = IF j < pos THEN j ELSE j + 1
    BY <1>7
  <2>3. a < b
    BY <1>1, <1>2, <2>1, <2>2
  <2> QED
    BY <1>6, <2>1, <2>2, <2>3
<1>9. LeafOK(o) /\ o.keys = l /\ o.values = w /\ o.right = n.right
  <2>1. Len(l) <= MaxLeafKeys /\ Len(w) = Len(l)
    BY <1>1, <1>4, <1>5 DEF m
  <2> QED
    BY <1>1, <1>4, <1>5, <1>8, <2>1, NewLeafOK
<1> HIDE DEF o
<1>10. /\ KeysOf(o) = {l[q] : q \in 1..(m - 1)}
       /\ KeysOf(n) = {s[q] : q \in 1..m}
  BY <1>4, <1>9 DEF KeysOf, s, m
<1>11. KeysOf(o) \subseteq KeysOf(n)
  BY <1>7, <1>10
<1>12. ASSUME NEW x \in Key
       PROVE  LeafGet(o, x) = IF x = k THEN None ELSE LeafGet(n, x)
  <2>0. \A q \in 1..(m - 1) : l[q] = x => LeafGet(o, x) = w[q]
    BY <1>4, <1>9, LeafGetSpec
  <2>1. CASE x = k
    <3>1. k \notin KeysOf(o)
      <4> SUFFICES ASSUME NEW q \in 1..(m - 1), l[q] = k
                   PROVE  FALSE
        BY <1>10
      <4>1. PICK i \in 1..m : l[q] = s[i] /\ i # pos
        BY <1>7
      <4>2. s[i] = s[pos] /\ (i < pos \/ pos < i)
        BY <1>2, <4>1
      <4>3. s[i] \in Int
        BY <1>1 DEF m
      <4> QED
        BY <1>2, <1>6, <4>2, <4>3
    <3> QED
      BY <1>9, <2>1, <3>1, LeafGetSpec
  <2>2. CASE x # k /\ x \in KeysOf(n)
    <3>1. PICK i \in 1..m : s[i] = x
      BY <1>10, <2>2
    <3>2. LeafGet(n, x) = t[i]
      BY <3>1, LeafGetSpec DEF s, t, m
    <3>3. i # pos
      BY <1>2, <2>2, <3>1
    <3>4. CASE i < pos
      <4>0. i \in 1..(m - 1)
        BY <1>1, <1>2, <3>4
      <4>1. i \in 1..(m - 1) /\ l[i] = x /\ w[i] = t[i]
        BY <1>4, <1>5, <3>1, <3>4, <4>0
      <4> QED
        BY <2>0, <2>2, <3>2, <4>1
    <3>5. CASE pos < i
      <4>1. i - 1 \in 1..(m - 1) /\ ~(i - 1 < pos) /\ i - 1 + 1 = i
        BY <1>1, <1>2, <3>5
      <4>2. l[i - 1] = x /\ w[i - 1] = t[i]
        BY <1>4, <1>5, <3>1, <4>1
      <4> QED
        BY <2>0, <2>2, <3>2, <4>1, <4>2
    <3> QED
      BY <1>2, <3>3, <3>4, <3>5
  <2>3. CASE x # k /\ x \notin KeysOf(n)
    BY <1>9, <1>11, <2>3, LeafGetSpec
  <2> QED
    BY <2>1, <2>2, <2>3
<1> QED
  BY <1>3, <1>4, <1>9, <1>11, <1>12 DEF m, s

\* a and b are the halves of leaf n, and b is in block r.
LeafHalves(n, a, b, sep, r) ==
    /\ LeafOK(a) /\ LeafOK(b) /\ a.right = r /\ b.right = n.right
    /\ Len(a.keys) < Len(n.keys) /\ Len(b.keys) < Len(n.keys)
    /\ sep \in KeysOf(n)
    /\ \A y \in KeysOf(a) : y \in KeysOf(n) /\ y < sep
    /\ \A y \in KeysOf(b) : y \in KeysOf(n) /\ sep <= y
    /\ KeysOf(a) # {}
    /\ \A x \in Key : LeafGet(n, x) = IF x < sep THEN LeafGet(a, x) ELSE LeafGet(b, x)

\* Splitting a leaf of at least two keys.
LEMMA LeafSplitSpec ==
    ASSUME NEW n, LeafOK(n), Len(n.keys) >= 2, NEW r \in Nat, NEW a, NEW b, NEW sep,
           a = LeafSplit(n, r)[1], b = LeafSplit(n, r)[2], sep = LeafSplit(n, r)[2].keys[1]
    PROVE  LeafHalves(n, a, b, sep, r)
<1> DEFINE s == n.keys
           t == n.values
           m == Len(s)
           mid == m \div 2
           s1 == SubSeq(s, 1, mid)
           s2 == From(s, mid + 1)
           t1 == SubSeq(t, 1, mid)
           t2 == From(t, mid + 1)
<1>1. /\ s \in Seq(Key) /\ t \in Seq(Value) /\ n.right \in Nat
      /\ Ascending(s) /\ Len(t) = m /\ m <= MaxLeafKeys
      /\ m \in Nat /\ \A i \in 1..m : s[i] \in Key /\ s[i] \in Int
  BY LeafParts
<1>2. mid \in 1..(m - 1)
  <2>1. m \in Nat /\ m >= 2
    BY <1>1
  <2> HIDE DEF m
  <2> QED
    BY <2>1
<1>3. a = Leaf(s1, t1, r) /\ b = Leaf(s2, t2, n.right)
  BY DEF LeafSplit
<1> HIDE DEF s, t, mid
<1>4. /\ s1 \in Seq(Key) /\ Len(s1) = mid /\ \A q \in 1..mid : s1[q] = s[q]
      /\ s2 \in Seq(Key) /\ Len(s2) = m - mid /\ \A q \in 1..(m - mid) : s2[q] = s[mid + q]
  <2>1. s \in Seq(Key) /\ mid \in 0..Len(s)
    BY <1>1, <1>2
  <2> QED
    BY <2>1, HalvesSpec
<1>5. /\ t1 \in Seq(Value) /\ Len(t1) = mid /\ \A q \in 1..mid : t1[q] = t[q]
      /\ t2 \in Seq(Value) /\ Len(t2) = m - mid /\ \A q \in 1..(m - mid) : t2[q] = t[mid + q]
  <2>1. t \in Seq(Value) /\ mid \in 0..Len(t)
    BY <1>1, <1>2
  <2>2. /\ t1 \in Seq(Value) /\ Len(t1) = mid /\ \A q \in 1..mid : t1[q] = t[q]
        /\ t2 \in Seq(Value) /\ Len(t2) = Len(t) - mid /\ \A q \in 1..(Len(t) - mid) : t2[q] = t[mid + q]
    BY <2>1, HalvesSpec
  <2> HIDE DEF t1, t2
  <2> QED
    BY <1>1, <2>2
<1> HIDE DEF s1, s2, t1, t2
<1>6. \A i, j \in 1..m : i < j => s[i] < s[j]
  BY <1>1 DEF Ascending
<1>a. \A q \in 1..(m - mid) : mid + q \in 1..m
  BY <1>1, <1>2
<1>b. \A q \in 1..mid : q \in 1..m
  BY <1>1, <1>2
<1>7. Ascending(s1) /\ Ascending(s2)
  <2> HIDE DEF m
  <2>1. Ascending(s1)
    BY <1>2, <1>4, <1>6, <1>b DEF Ascending
  <2>2. ASSUME NEW i \in 1..(m - mid), NEW j \in 1..(m - mid), i < j
        PROVE  s2[i] < s2[j]
    <3>1. mid + i < mid + j
      BY <1>2, <2>2
    <3> QED
      BY <1>4, <1>6, <1>a, <3>1
  <2> QED
    BY <1>4, <2>1, <2>2 DEF Ascending
<1>8. /\ LeafOK(a) /\ a.keys = s1 /\ a.values = t1 /\ a.right = r
      /\ LeafOK(b) /\ b.keys = s2 /\ b.values = t2 /\ b.right = n.right
  <2>1. Len(s1) <= MaxLeafKeys /\ Len(t1) = Len(s1) /\ Len(s2) <= MaxLeafKeys /\ Len(t2) = Len(s2)
    BY <1>1, <1>2, <1>4, <1>5
  <2> HIDE DEF m
  <2>2. LeafOK(a) /\ a.keys = s1 /\ a.values = t1 /\ a.right = r
    BY <1>1, <1>3, <1>4, <1>5, <1>7, <2>1, NewLeafOK
  <2>3. LeafOK(b) /\ b.keys = s2 /\ b.values = t2 /\ b.right = n.right
    BY <1>1, <1>3, <1>4, <1>5, <1>7, <2>1, NewLeafOK
  <2> QED
    BY <2>2, <2>3
<1>9. sep = s[mid + 1] /\ mid + 1 \in 1..m
  <2>1. 1 \in 1..(m - mid)
    BY <1>1, <1>2
  <2> QED
    BY <1>4, <1>8, <1>a, <2>1
<1>10. /\ KeysOf(n) = {s[q] : q \in 1..m}
       /\ KeysOf(a) = {s1[q] : q \in 1..mid}
       /\ KeysOf(b) = {s2[q] : q \in 1..(m - mid)}
  BY <1>4, <1>8 DEF KeysOf, s
<1> HIDE DEF m
<1>11. ASSUME NEW q \in 1..mid
       PROVE  s1[q] = s[q] /\ s[q] < sep
  <2>1. q < mid + 1
    BY <1>2
  <2> QED
    BY <1>4, <1>6, <1>9, <1>b, <2>1
<1>12. ASSUME NEW q \in 1..(m - mid)
       PROVE  s2[q] = s[mid + q] /\ sep <= s[mid + q]
  <2>1. q = 1 \/ mid + 1 < mid + q
    BY <1>2
  <2>2. s[mid + q] \in Int /\ sep \in Int
    BY <1>1, <1>9, <1>a DEF m
  <2> QED
    BY <1>4, <1>6, <1>9, <1>a, <2>1, <2>2
<1>13. ASSUME NEW x \in Key
       PROVE  LeafGet(n, x) = IF x < sep THEN LeafGet(a, x) ELSE LeafGet(b, x)
  <2>1. CASE x \in KeysOf(n)
    <3>1. PICK i \in 1..m : s[i] = x
      BY <1>10, <2>1
    <3>2. LeafGet(n, x) = t[i]
      BY <3>1, LeafGetSpec DEF s, t, m
    <3>3. CASE i <= mid
      <4>1. i \in 1..mid
        BY <1>2, <3>3
      <4>2. s1[i] = x /\ t1[i] = t[i] /\ x < sep
        BY <1>4, <1>5, <1>11, <3>1, <4>1
      <4>3. LeafGet(a, x) = t1[i]
        BY <1>4, <1>8, <4>1, <4>2, LeafGetSpec
      <4> QED
        BY <3>2, <4>2, <4>3
    <3>4. CASE ~(i <= mid)
      <4>1. i - mid \in 1..(m - mid) /\ mid + (i - mid) = i
        BY <1>1, <1>2, <3>4
      <4>2. s2[i - mid] = x /\ t2[i - mid] = t[i] /\ sep <= x
        BY <1>4, <1>5, <1>12, <3>1, <4>1
      <4>3. LeafGet(b, x) = t2[i - mid]
        BY <1>4, <1>8, <4>1, <4>2, LeafGetSpec
      <4>4. x \in Int /\ sep \in Int
        BY <1>1, <1>9 DEF m
      <4> QED
        BY <3>2, <4>2, <4>3, <4>4
    <3> QED
      BY <3>3, <3>4
  <2>2. CASE x \notin KeysOf(n)
    <3>1. x \notin KeysOf(a) /\ x \notin KeysOf(b)
      BY <1>10, <1>11, <1>12, <1>a, <1>b, <2>2
    <3> QED
      BY <1>8, <2>2, <3>1, LeafGetSpec
  <2> QED
    BY <2>1, <2>2
<1>14. sep \in KeysOf(n)
  BY <1>9, <1>10
<1>15. \A y \in KeysOf(a) : y \in KeysOf(n) /\ y < sep
  BY <1>10, <1>11, <1>b
<1>16. \A y \in KeysOf(b) : y \in KeysOf(n) /\ sep <= y
  BY <1>10, <1>12, <1>a
<1>17. KeysOf(a) # {}
  <2>1. 1 \in 1..mid
    BY <1>2
  <2>2. s1[1] \in KeysOf(a)
    BY <1>10, <2>1
  <2> QED
    BY <2>2
<1>18. Len(a.keys) < Len(n.keys) /\ Len(b.keys) < Len(n.keys)
  BY <1>1, <1>2, <1>4, <1>8 DEF m, s
<1> QED
  BY <1>8, <1>13, <1>14, <1>15, <1>16, <1>17, <1>18 DEF LeafHalves

\* The position that FindChild returns is the only one between the separators.
LEMMA FindChildIs ==
    ASSUME NEW n, n.keys \in Seq(Key), Ascending(n.keys), NEW x \in Key,
           NEW p \in 1..(Len(n.keys) + 1),
           \A i \in 1..Len(n.keys) : n.keys[i] <= x <=> i < p
    PROVE  FindChild(n, x) = p
<1> DEFINE f == FindChild(n, x)
           m == Len(n.keys)
<1>1. m \in Nat /\ p \in 1..(m + 1)
  BY LenProperties
<1>2. f \in 1..(m + 1) /\ \A i \in 1..m : n.keys[i] <= x <=> i < f
  BY FindChildSpec
<1>3. \A i \in 1..m : i < p <=> i < f
  BY <1>2
<1> HIDE DEF f, m
<1>4. f = p
  BY <1>1, <1>2, <1>3
<1> QED
  BY <1>4 DEF f

\* FindChild goes up with the key.
LEMMA FindChildMono ==
    ASSUME NEW n, n.keys \in Seq(Key), Ascending(n.keys), NEW x \in Key, NEW y \in Key, x <= y
    PROVE  FindChild(n, x) <= FindChild(n, y)
<1> DEFINE f == FindChild(n, x)
           g == FindChild(n, y)
           m == Len(n.keys)
<1>1. m \in Nat /\ x \in Int /\ y \in Int /\ \A i \in 1..m : n.keys[i] \in Int
  BY LenProperties, ElementOfSeq
<1>2. f \in 1..(m + 1) /\ \A i \in 1..m : n.keys[i] <= x <=> i < f
  BY FindChildSpec
<1>3. g \in 1..(m + 1) /\ \A i \in 1..m : n.keys[i] <= y <=> i < g
  BY FindChildSpec
<1> HIDE DEF f, g, m
<1>4. ~(g < f)
  <2> SUFFICES ASSUME g < f
               PROVE  FALSE
    OBVIOUS
  <2>1. g \in 1..m
    BY <1>1, <1>2, <1>3
  <2>2. n.keys[g] <= x /\ ~(n.keys[g] <= y)
    BY <1>2, <1>3, <2>1
  <2> QED
    BY <1>1, <2>1, <2>2
<1>5. f <= g
  BY <1>1, <1>2, <1>3, <1>4
<1> QED
  BY <1>5 DEF f, g

\* Linking a new child in: the keys that came to child j are divided at sep.
Widened(n, o, sep, c, j) ==
    /\ InternalOK(o) /\ Len(o.children) = Len(n.children) + 1
    /\ KeysOf(o) \subseteq KeysOf(n) \cup {sep}
    /\ j \in 1..Len(n.children)
    /\ \A q \in 1..(Len(n.children) + 1) :
        o.children[q] = IF q <= j THEN n.children[q] ELSE IF q = j + 1 THEN c ELSE n.children[q - 1]
    /\ \A x \in Key : /\ FindChild(n, x) \in 1..Len(n.children)
                      /\ x < sep => FindChild(o, x) = FindChild(n, x) /\ FindChild(n, x) <= j
                      /\ ~(x < sep) => FindChild(o, x) = FindChild(n, x) + 1 /\ j <= FindChild(n, x)

\* InternalInsert puts a separator and the child at its right where FindChild says.
LEMMA InternalInsertSpec ==
    ASSUME NEW n, InternalOK(n), ~InternalIsFull(n), NEW sep \in Key, sep \notin KeysOf(n), NEW c \in Nat,
           NEW o, o = InternalInsert(n, sep, c), NEW j, j = FindChild(n, sep)
    PROVE  Widened(n, o, sep, c, j)
<1> DEFINE s == n.keys
           t == n.children
           m == Len(s)
           d == j + 1
           l == InsertAt(s, j, sep)
           w == InsertAt(t, d, c)
<1>1. /\ s \in Seq(Key) /\ t \in Seq(Nat) /\ Ascending(s) /\ Len(t) = m + 1
      /\ m + 1 <= MaxInternalKeys /\ sep \in Int
      /\ m \in Nat /\ \A i \in 1..m : s[i] \in Key /\ s[i] \in Int
  <2>1. Len(t) < MaxInternalKeys + 1
    BY InternalParts DEF InternalIsFull
  <2> QED
    BY <2>1, InternalParts
<1>2. j \in 1..(m + 1) /\ \A i \in 1..m : s[i] <= sep <=> i < j
  BY <1>1, FindChildSpec
<1>3. o = Internal(l, w)
  BY DEF InternalInsert
<1>4. \A i \in 1..m : s[i] # sep
  BY DEF KeysOf
<1> HIDE DEF s, t
<1>5. /\ l \in Seq(Key) /\ Len(l) = m + 1
      /\ \A q \in 1..(m + 1) : l[q] = IF q < j THEN s[q] ELSE IF q = j THEN sep ELSE s[q - 1]
  <2>1. s \in Seq(Key) /\ j \in 1..(Len(s) + 1)
    BY <1>1, <1>2
  <2> QED
    BY <2>1, InsertAtSpec
<1>6. d \in 1..(Len(t) + 1)
  BY <1>1, <1>2
<1> HIDE DEF d
<1>7. /\ w \in Seq(Nat) /\ Len(w) = Len(t) + 1
      /\ \A q \in 1..(Len(t) + 1) : w[q] = IF q < d THEN t[q] ELSE IF q = d THEN c ELSE t[q - 1]
  <2> DEFINE N == Nat
  <2>1. t \in Seq(N) /\ c \in N
    BY <1>1
  <2> HIDE DEF N
  <2>2. /\ w \in Seq(N) /\ Len(w) = Len(t) + 1
        /\ \A q \in 1..(Len(t) + 1) : w[q] = IF q < d THEN t[q] ELSE IF q = d THEN c ELSE t[q - 1]
    BY <1>6, <2>1, InsertAtSpec
  <2> QED
    BY <2>2 DEF N
<1>8. Ascending(l)
  <2>1. \A i \in 1..Len(s) : (i < j => s[i] < sep) /\ (~(i < j) => sep < s[i])
    BY <1>1, <1>2, <1>4
  <2>2. s \in Seq(Key) /\ Ascending(s) /\ j \in 1..(Len(s) + 1)
    BY <1>1, <1>2
  <2> QED
    BY <2>1, <2>2, InsertAscending
<1> HIDE DEF l, w, m
<1>9. InternalOK(o) /\ o.keys = l /\ o.children = w
  <2>1. Len(w) = Len(l) + 1 /\ Len(w) <= MaxInternalKeys + 1
    BY <1>1, <1>5, <1>7
  <2> QED
    BY <1>3, <1>5, <1>7, <1>8, <2>1, NewInternalOK
<1>10. KeysOf(o) \subseteq KeysOf(n) \cup {sep}
  <2>1. KeysOf(o) = {l[q] : q \in 1..(m + 1)} /\ KeysOf(n) = {s[q] : q \in 1..m}
    BY <1>5, <1>9 DEF KeysOf, s, m
  <2> SUFFICES ASSUME NEW q \in 1..(m + 1)
               PROVE  l[q] = sep \/ \E i \in 1..m : l[q] = s[i]
    BY <2>1
  <2>2. CASE q < j
    BY <1>1, <1>2, <1>5, <2>2
  <2>3. CASE q = j
    BY <1>5, <2>3
  <2>4. CASE q > j
    <3>1. q - 1 \in 1..m /\ l[q] = s[q - 1]
      BY <1>1, <1>2, <1>5, <2>4
    <3> QED
      BY <3>1
  <2> QED
    BY <1>1, <1>2, <2>2, <2>3, <2>4
<1>11. ASSUME NEW x \in Key
       PROVE  /\ FindChild(n, x) \in 1..(m + 1)
              /\ x < sep => FindChild(o, x) = FindChild(n, x) /\ FindChild(n, x) <= j
              /\ ~(x < sep) => FindChild(o, x) = FindChild(n, x) + 1 /\ j <= FindChild(n, x)
  <2> DEFINE f == FindChild(n, x)
  <2>1. f \in 1..(m + 1) /\ \A i \in 1..m : s[i] <= x <=> i < f
    BY <1>1, FindChildSpec DEF s, m
  <2>2. x \in Int
    OBVIOUS
  <2>3. x < sep => f <= j
    BY <1>1, <2>2, FindChildMono DEF s
  <2>4. ~(x < sep) => j <= f
    BY <1>1, <2>2, FindChildMono DEF s
  <2> HIDE DEF f
  <2>5. CASE x < sep
    <3>1. ASSUME NEW q \in 1..(m + 1)
          PROVE  l[q] <= x <=> q < f
      <4>1. CASE q < j
        <5>1. q \in 1..m /\ l[q] = s[q]
          BY <1>1, <1>2, <1>5, <4>1
        <5> QED
          BY <2>1, <5>1
      <4>2. CASE q = j
        BY <1>1, <1>2, <1>5, <2>1, <2>2, <2>3, <2>5, <4>2
      <4>3. CASE q > j
        <5>1. q - 1 \in 1..m /\ l[q] = s[q - 1]
          BY <1>1, <1>2, <1>5, <4>3
        <5>2. ~(s[q - 1] <= x)
          BY <1>1, <1>2, <2>1, <2>3, <2>5, <4>3, <5>1
        <5> QED
          BY <1>2, <2>1, <2>3, <2>5, <4>3, <5>1, <5>2
      <4> QED
        BY <1>2, <4>1, <4>2, <4>3
    <3>2. f \in 1..(Len(o.keys) + 1)
      BY <1>1, <1>5, <1>9, <2>1
    <3>3. FindChild(o, x) = f
      BY <1>5, <1>8, <1>9, <3>1, <3>2, FindChildIs
    <3> QED
      BY <2>1, <2>3, <2>5, <3>3 DEF f
  <2>6. CASE ~(x < sep)
    <3> DEFINE g == f + 1
    <3>1. ASSUME NEW q \in 1..(m + 1)
          PROVE  l[q] <= x <=> q < g
      <4>1. CASE q < j
        <5>1. q \in 1..m /\ l[q] = s[q]
          BY <1>1, <1>2, <1>5, <4>1
        <5> QED
          BY <1>2, <2>1, <2>4, <2>6, <4>1, <5>1
      <4>2. CASE q = j
        BY <1>1, <1>2, <1>5, <2>1, <2>2, <2>4, <2>6, <4>2
      <4>3. CASE q > j
        <5>1. q - 1 \in 1..m /\ l[q] = s[q - 1]
          BY <1>1, <1>2, <1>5, <4>3
        <5>2. s[q - 1] <= x <=> q - 1 < f
          BY <2>1, <5>1
        <5> QED
          BY <1>2, <2>1, <5>1, <5>2
      <4> QED
        BY <1>2, <4>1, <4>2, <4>3
    <3>2. g \in 1..(Len(o.keys) + 1)
      BY <1>1, <1>5, <1>9, <2>1
    <3> HIDE DEF g
    <3>3. FindChild(o, x) = g
      BY <1>5, <1>8, <1>9, <3>1, <3>2, FindChildIs
    <3> QED
      BY <2>1, <2>4, <2>6, <3>3 DEF f, g
  <2> QED
    BY <2>5, <2>6
<1>12. /\ Len(o.children) = Len(n.children) + 1 /\ Len(n.children) = m + 1 /\ j \in 1..Len(n.children)
       /\ \A q \in 1..(Len(n.children) + 1) :
            o.children[q] = IF q < d THEN n.children[q] ELSE IF q = d THEN c ELSE n.children[q - 1]
  BY <1>1, <1>2, <1>7, <1>9 DEF t
<1>13. ASSUME NEW q \in 1..(Len(n.children) + 1)
       PROVE  o.children[q] = IF q <= j THEN n.children[q] ELSE IF q = j + 1 THEN c ELSE n.children[q - 1]
  BY <1>2, <1>12 DEF d
<1> QED
  BY <1>9, <1>10, <1>11, <1>12, <1>13 DEF Widened

\* a and b are the halves of internal node n, which is cut after child mid.
Divides(n, a, b, sep, mid) ==
    /\ mid \in 1..(Len(n.children) - 1)
    /\ Len(a.children) = mid /\ Len(b.children) = Len(n.children) - mid
    /\ \A q \in 1..mid : a.children[q] = n.children[q]
    /\ \A q \in 1..(Len(n.children) - mid) : b.children[q] = n.children[mid + q]
    /\ \A x \in Key : /\ FindChild(n, x) \in 1..Len(n.children)
                      /\ x < sep => FindChild(a, x) = FindChild(n, x) /\ FindChild(n, x) <= mid
                      /\ ~(x < sep) => FindChild(b, x) = FindChild(n, x) - mid /\ mid < FindChild(n, x)

\* a and b are the halves of internal node n.
InternalHalves(n, a, b, sep) ==
    /\ InternalOK(a) /\ InternalOK(b) /\ sep \in KeysOf(n)
    /\ \A y \in KeysOf(a) : y \in KeysOf(n) /\ y < sep
    /\ \A y \in KeysOf(b) : y \in KeysOf(n) /\ sep < y
    /\ \E mid \in 1..(Len(n.children) - 1) : Divides(n, a, b, sep, mid)

\* Splitting an internal node: the children before mid stay, and sep is what
\* divides the keys of the two.
LEMMA InternalSplitSpec ==
    ASSUME NEW n, InternalOK(n), Len(n.children) >= 3, NEW a, NEW b, NEW sep,
           a = InternalSplit(n)[1], b = InternalSplit(n)[2], sep = InternalSplit(n)[3]
    PROVE  InternalHalves(n, a, b, sep)
<1> DEFINE s == n.keys
           t == n.children
           m == Len(s)
           mid == Len(t) \div 2
           p == mid - 1
           s1 == SubSeq(s, 1, p)
           s2 == From(s, mid + 1)
           t1 == SubSeq(t, 1, mid)
           t2 == From(t, mid + 1)
<1>1. /\ s \in Seq(Key) /\ t \in Seq(Nat) /\ Ascending(s) /\ Len(t) = m + 1
      /\ m + 1 <= MaxInternalKeys + 1
      /\ m \in Nat /\ \A i \in 1..m : s[i] \in Key /\ s[i] \in Int
  BY InternalParts
<1>2. mid \in 1..m /\ mid <= m
  <2>1. m \in Nat /\ m + 1 >= 3 /\ mid = (m + 1) \div 2
    BY <1>1
  <2> HIDE DEF m, mid
  <2> QED
    BY <2>1
<1>3. a = Internal(s1, t1) /\ b = Internal(s2, t2) /\ sep = s[mid]
  BY DEF InternalSplit
<1> HIDE DEF s, t, mid
<1>4. p \in 0..m /\ mid \in 0..m /\ p = mid - 1
  BY <1>1, <1>2
<1> HIDE DEF p
<1>5. /\ s1 \in Seq(Key) /\ Len(s1) = p /\ \A q \in 1..p : s1[q] = s[q]
  <2>1. s \in Seq(Key) /\ p \in 0..Len(s)
    BY <1>1, <1>4
  <2> QED
    BY <2>1, HalvesSpec
<1>6. /\ s2 \in Seq(Key) /\ Len(s2) = m - mid /\ \A q \in 1..(m - mid) : s2[q] = s[mid + q]
  <2>1. s \in Seq(Key) /\ mid \in 0..Len(s)
    BY <1>1, <1>4
  <2> QED
    BY <2>1, HalvesSpec
<1>7. /\ t1 \in Seq(Nat) /\ Len(t1) = mid /\ \A q \in 1..mid : t1[q] = t[q]
      /\ t2 \in Seq(Nat) /\ Len(t2) = Len(t) - mid /\ \A q \in 1..(Len(t) - mid) : t2[q] = t[mid + q]
  <2> DEFINE N == Nat
  <2>1. t \in Seq(N) /\ mid \in 0..Len(t)
    BY <1>1, <1>4
  <2> HIDE DEF N
  <2>2. /\ t1 \in Seq(N) /\ Len(t1) = mid /\ \A q \in 1..mid : t1[q] = t[q]
        /\ t2 \in Seq(N) /\ Len(t2) = Len(t) - mid /\ \A q \in 1..(Len(t) - mid) : t2[q] = t[mid + q]
    BY <2>1, HalvesSpec
  <2> QED
    BY <2>2 DEF N
<1> HIDE DEF s1, s2, t1, t2
<1>8. \A i, j \in 1..m : i < j => s[i] < s[j]
  BY <1>1 DEF Ascending
<1> HIDE DEF m
<1>9. \A i \in 1..m : s[i] \in Int
  BY <1>1 DEF m
<1>a. \A q \in 1..(m - mid) : mid + q \in 1..m /\ mid < mid + q
  BY <1>1, <1>2
<1>b. \A q \in 1..p : q \in 1..m /\ q < mid
  BY <1>1, <1>2, <1>4
<1>10. Ascending(s1) /\ Ascending(s2)
  <2>1. Ascending(s1)
    BY <1>5, <1>8, <1>b DEF Ascending
  <2>2. ASSUME NEW i \in 1..(m - mid), NEW j \in 1..(m - mid), i < j
        PROVE  s2[i] < s2[j]
    <3>1. mid + i < mid + j
      BY <1>2, <2>2
    <3> QED
      BY <1>6, <1>8, <1>a, <3>1
  <2> QED
    BY <1>6, <2>1, <2>2 DEF Ascending
<1>11. /\ InternalOK(a) /\ a.keys = s1 /\ a.children = t1
       /\ InternalOK(b) /\ b.keys = s2 /\ b.children = t2
  <2>1. /\ m \in Nat /\ mid \in 1..m /\ Len(s1) = mid - 1 /\ Len(s2) = m - mid
        /\ Len(t1) = mid /\ Len(t2) = (m + 1) - mid /\ m + 1 <= MaxInternalKeys + 1
    <3>1. Len(s1) = mid - 1 /\ Len(s2) = m - mid /\ Len(t1) = mid
      BY <1>4, <1>5, <1>6, <1>7
    <3>2. Len(t2) = Len(t) - mid /\ Len(t) = m + 1
      BY <1>1, <1>7
    <3>3. Len(t2) = (m + 1) - mid
      BY <3>2
    <3> QED
      BY <1>1, <1>2, <3>1, <3>3
  <2>2. /\ Len(t1) = Len(s1) + 1 /\ Len(t2) = Len(s2) + 1
        /\ Len(t1) <= MaxInternalKeys + 1 /\ Len(t2) <= MaxInternalKeys + 1
    BY <2>1
  <2>3. InternalOK(a) /\ a.keys = s1 /\ a.children = t1
    <3>1. s1 \in Seq(Key) /\ t1 \in Seq(Nat)
      BY <1>5, <1>7
    <3> QED
      BY <1>3, <1>10, <2>2, <3>1, NewInternalOK
  <2>4. InternalOK(b) /\ b.keys = s2 /\ b.children = t2
    <3>1. s2 \in Seq(Key) /\ t2 \in Seq(Nat)
      BY <1>6, <1>7
    <3> QED
      BY <1>3, <1>10, <2>2, <3>1, NewInternalOK
  <2> QED
    BY <2>3, <2>4
<1>12. /\ KeysOf(n) = {s[q] : q \in 1..m}
       /\ KeysOf(a) = {s1[q] : q \in 1..p}
       /\ KeysOf(b) = {s2[q] : q \in 1..(m - mid)}
  BY <1>5, <1>6, <1>11 DEF KeysOf, s, m
<1>13. sep \in KeysOf(n) /\ sep \in Int
  BY <1>2, <1>3, <1>9, <1>12
<1>14. \A q \in 1..p : s1[q] = s[q] /\ s[q] < sep
  BY <1>2, <1>3, <1>5, <1>8, <1>b
<1>15. \A q \in 1..(m - mid) : s2[q] = s[mid + q] /\ sep < s[mid + q]
  BY <1>2, <1>3, <1>6, <1>8, <1>a
<1>16. \A y \in KeysOf(a) : y \in KeysOf(n) /\ y < sep
  BY <1>12, <1>14, <1>b
<1>17. \A y \in KeysOf(b) : y \in KeysOf(n) /\ sep < y
  BY <1>12, <1>15, <1>a
<1>18. ASSUME NEW x \in Key
       PROVE  /\ FindChild(n, x) \in 1..(m + 1)
              /\ x < sep => FindChild(a, x) = FindChild(n, x) /\ FindChild(n, x) <= mid
              /\ ~(x < sep) => FindChild(b, x) = FindChild(n, x) - mid /\ mid < FindChild(n, x)
  <2> DEFINE f == FindChild(n, x)
  <2>1. f \in 1..(m + 1) /\ \A i \in 1..m : s[i] <= x <=> i < f
    BY <1>1, FindChildSpec DEF s, m
  <2>2. x \in Int
    OBVIOUS
  <2> HIDE DEF f
  <2>3. s[mid] <= x <=> mid < f
    BY <1>2, <2>1
  <2>4. CASE x < sep
    <3>1. f <= mid
      BY <1>2, <1>3, <1>13, <2>1, <2>2, <2>3, <2>4
    <3>2. f \in 1..(Len(a.keys) + 1)
      BY <1>4, <1>5, <1>11, <2>1, <3>1
    <3>3. \A i \in 1..Len(a.keys) : a.keys[i] <= x <=> i < f
      BY <1>5, <1>11, <1>b, <2>1
    <3>4. FindChild(a, x) = f
      BY <1>5, <1>10, <1>11, <3>2, <3>3, FindChildIs
    <3> QED
      BY <2>1, <2>4, <3>1, <3>4 DEF f
  <2>5. CASE ~(x < sep)
    <3> DEFINE g == f - mid
    <3>1. mid < f
      BY <1>2, <1>3, <1>13, <2>1, <2>2, <2>3, <2>5
    <3>2. g \in 1..(Len(b.keys) + 1)
      BY <1>1, <1>2, <1>6, <1>11, <2>1, <3>1
    <3>3. ASSUME NEW i \in 1..(m - mid)
          PROVE  s2[i] <= x <=> i < g
      <4>1. s2[i] = s[mid + i] /\ (s[mid + i] <= x <=> mid + i < f)
        BY <1>6, <1>a, <2>1
      <4> QED
        BY <1>2, <2>1, <4>1
    <3> HIDE DEF g
    <3>4. FindChild(b, x) = g
      BY <1>6, <1>10, <1>11, <3>2, <3>3, FindChildIs
    <3> QED
      BY <2>1, <2>5, <3>1, <3>4 DEF f, g
  <2> QED
    BY <2>4, <2>5
<1>19. Len(n.children) = m + 1 /\ Len(n.children) - 1 = m
  BY <1>1 DEF t
<1>20. /\ Len(a.children) = mid /\ Len(b.children) = Len(n.children) - mid
       /\ \A q \in 1..mid : a.children[q] = n.children[q]
       /\ \A q \in 1..(Len(n.children) - mid) : b.children[q] = n.children[mid + q]
  BY <1>7, <1>11 DEF t
<1>21. mid \in 1..(Len(n.children) - 1)
  BY <1>2, <1>19
<1> QED
  <2>1. Divides(n, a, b, sep, mid)
    BY <1>18, <1>19, <1>20, <1>21 DEF Divides
  <2> QED
    BY <1>11, <1>13, <1>16, <1>17, <1>21, <2>1 DEF InternalHalves

-----------------------------------------------------------------------------
(* The B-tree as a whole.  Every node has a level and a set of keys that may be*)
(* looked for in it: the children of a node share its keys among them.      *)

\* A node of a tree.
NodeOK(n) == IF n.type = "leaf" THEN LeafOK(n) ELSE InternalOK(n)

\* The positions of the children.
Kids(n) == 1..Len(n.children)

\* The blocks T with root rt, a level for every node and a set of keys that may be
\* looked for in it.
TreeType(T, rt, H, lvl, K) ==
    /\ T \in Seq(Node) /\ Len(T) \in Nat /\ rt \in 1..Len(T) /\ H \in Nat
    /\ lvl \in [1..Len(T) -> 0..H] /\ K \in [1..Len(T) -> SUBSET Key]

TreeNodes(T) == \A n \in 1..Len(T) : NodeOK(T[n])

\* A node has only keys of its set, and a separator has a key of the set below it.
TreeKeys(T, K) ==
    \A n \in 1..Len(T) : \A y \in KeysOf(T[n]) :
        y \in K[n] /\ (T[n].type # "leaf" => \E e \in K[n] : e < y)

\* Child j of node n is one level lower, and its keys are the ones that n leads to it.
TreeChild(T, rt, lvl, K, n, j) ==
    LET c == T[n].children[j]
    IN  /\ c \in 1..Len(T) /\ c # rt /\ lvl[n] = lvl[c] + 1
        /\ \A y \in K[c] : y \in K[n] /\ FindChild(T[n], y) = j

TreeChildren(T, rt, lvl, K) ==
    \A n \in 1..Len(T) : T[n].type # "leaf" => \A j \in Kids(T[n]) : TreeChild(T, rt, lvl, K, n, j)

\* No node is the child of two, or twice of one.
TreeSlots(T) ==
    \A n, m \in 1..Len(T) : T[n].type # "leaf" /\ T[m].type # "leaf" =>
        \A i \in Kids(T[n]), j \in Kids(T[m]) : T[n].children[i] = T[m].children[j] => n = m /\ i = j

TreeLeaves(T, lvl) == \A n \in 1..Len(T) : T[n].type = "leaf" => lvl[n] = 0

\* The blocks are a tree.
TreeOK(T, rt, H, lvl, K) ==
    /\ TreeType(T, rt, H, lvl, K) /\ TreeNodes(T) /\ TreeKeys(T, K)
    /\ TreeChildren(T, rt, lvl, K) /\ TreeSlots(T) /\ TreeLeaves(T, lvl)

\* A node that has enough to be split, and its halves with their separator.
Splits(n) == IF n.type = "leaf" THEN Len(n.keys) >= 2 ELSE Len(n.children) >= 3

\* <<left half, right half, separator>>, with the right half in block r.
Split(n, r) ==
    IF n.type = "leaf" THEN <<LeafSplit(n, r)[1], LeafSplit(n, r)[2], LeafSplit(n, r)[2].keys[1]>>
    ELSE InternalSplit(n)

Sep(n) == Split(n, 0)[3]

\* The separator does not depend on the block of the right half.
LEMMA SepSame ==
    ASSUME NEW n, NEW r
    PROVE  Split(n, r)[3] = Sep(n)
BY DEF Sep, Split, LeafSplit, Leaf

\* What the halves of leaves and of internal nodes have in common.
HalvesOf(n, a, b, sep, r) ==
    /\ a.type = n.type /\ b.type = n.type /\ NodeOK(a) /\ NodeOK(b)
    /\ sep \in KeysOf(n) /\ sep \in Key
    /\ \A y \in KeysOf(a) : y \in KeysOf(n) /\ y < sep
    /\ \A y \in KeysOf(b) : y \in KeysOf(n) /\ ~(y < sep) /\ (n.type # "leaf" => sep < y)

\* The keys of a node, and which kind of node it is.
LEMMA NodeKeys ==
    ASSUME NEW n, NodeOK(n)
    PROVE  /\ n.keys \in Seq(Key) /\ Ascending(n.keys) /\ KeysOf(n) \subseteq Key
           /\ n.type = "leaf" => LeafOK(n)
           /\ n.type # "leaf" => InternalOK(n)
           /\ n \in Node
<1>1. CASE n.type = "leaf"
  <2>1. LeafOK(n)
    BY <1>1 DEF NodeOK
  <2>2. n \in Node
    BY <2>1 DEF LeafOK, Node
  <2> QED
    BY <1>1, <2>1, <2>2, LeafParts DEF KeysOf
<1>2. CASE n.type # "leaf"
  <2>1. InternalOK(n)
    BY <1>2 DEF NodeOK
  <2>2. n \in Node
    BY <2>1 DEF InternalOK, Node
  <2> QED
    BY <1>2, <2>1, <2>2, InternalParts DEF KeysOf
<1> QED
  BY <1>1, <1>2

\* The halves of a leaf share its keys at the separator.
LEMMA SplitLeafSpec ==
    ASSUME NEW n, NodeOK(n), Splits(n), n.type = "leaf", NEW r \in Nat,
           NEW a, NEW b, a = Split(n, r)[1], b = Split(n, r)[2]
    PROVE  /\ HalvesOf(n, a, b, Sep(n), r)
           /\ a.right = r /\ b.right = n.right /\ KeysOf(a) # {}
           /\ Len(a.keys) < Len(n.keys) /\ Len(b.keys) < Len(n.keys)
           /\ \A x \in Key : LeafGet(n, x) = IF x < Sep(n) THEN LeafGet(a, x) ELSE LeafGet(b, x)
<1> DEFINE sep == Sep(n)
<1>1. LeafOK(n) /\ Len(n.keys) >= 2
  BY DEF NodeOK, Splits
<1>2. a = LeafSplit(n, r)[1] /\ b = LeafSplit(n, r)[2]
  BY DEF Split
<1>3. sep = LeafSplit(n, r)[2].keys[1]
  <2>1. Split(n, r)[3] = LeafSplit(n, r)[2].keys[1]
    BY DEF Split
  <2> QED
    BY <2>1, SepSame
<1> HIDE DEF sep
<1>4. /\ LeafOK(a) /\ LeafOK(b) /\ a.right = r /\ b.right = n.right
      /\ Len(a.keys) < Len(n.keys) /\ Len(b.keys) < Len(n.keys)
      /\ sep \in KeysOf(n)
      /\ \A y \in KeysOf(a) : y \in KeysOf(n) /\ y < sep
      /\ \A y \in KeysOf(b) : y \in KeysOf(n) /\ sep <= y
      /\ KeysOf(a) # {}
      /\ \A x \in Key : LeafGet(n, x) = IF x < sep THEN LeafGet(a, x) ELSE LeafGet(b, x)
  <2>1. LeafHalves(n, a, b, sep, r)
    BY <1>1, <1>2, <1>3, LeafSplitSpec
  <2> QED
    BY <2>1 DEF LeafHalves
<1>5. a.type = "leaf" /\ b.type = "leaf" /\ KeysOf(n) \subseteq Key
  BY <1>4, LeafParts, NodeKeys
<1>6. \A y \in KeysOf(b) : ~(y < sep)
  <2> SUFFICES ASSUME NEW y \in KeysOf(b)
               PROVE  ~(y < sep)
    OBVIOUS
  <2>1. y \in Int /\ sep \in Int /\ sep <= y
    BY <1>4, <1>5
  <2> QED
    BY <2>1
<1>7. HalvesOf(n, a, b, sep, r)
  BY <1>4, <1>5, <1>6 DEF HalvesOf, NodeOK
<1> QED
  BY <1>4, <1>7 DEF sep

\* The halves of an internal node share its keys and children at the separator.
LEMMA SplitInternalSpec ==
    ASSUME NEW n, NodeOK(n), Splits(n), n.type # "leaf", NEW r \in Nat,
           NEW a, NEW b, a = Split(n, r)[1], b = Split(n, r)[2]
    PROVE  /\ HalvesOf(n, a, b, Sep(n), r)
           /\ \E mid \in 1..(Len(n.children) - 1) : Divides(n, a, b, Sep(n), mid)
<1> DEFINE sep == Sep(n)
<1>1. InternalOK(n) /\ Len(n.children) >= 3
  BY DEF NodeOK, Splits
<1>2. a = InternalSplit(n)[1] /\ b = InternalSplit(n)[2] /\ sep = InternalSplit(n)[3]
  BY DEF Split, Sep
<1> HIDE DEF sep
<1>3. /\ InternalOK(a) /\ InternalOK(b) /\ sep \in KeysOf(n)
      /\ \A y \in KeysOf(a) : y \in KeysOf(n) /\ y < sep
      /\ \A y \in KeysOf(b) : y \in KeysOf(n) /\ sep < y
      /\ \E mid \in 1..(Len(n.children) - 1) : Divides(n, a, b, sep, mid)
  <2>1. InternalHalves(n, a, b, sep)
    BY <1>1, <1>2, InternalSplitSpec
  <2> QED
    BY <2>1 DEF InternalHalves
<1>5. a.type = "internal" /\ b.type = "internal" /\ n.type = "internal" /\ KeysOf(n) \subseteq Key
  BY <1>1, <1>3, InternalParts, NodeKeys
<1>6. \A y \in KeysOf(b) : ~(y < sep)
  <2> SUFFICES ASSUME NEW y \in KeysOf(b)
               PROVE  ~(y < sep)
    OBVIOUS
  <2>1. y \in Int /\ sep \in Int /\ sep < y
    BY <1>3, <1>5
  <2> QED
    BY <2>1
<1>7. HalvesOf(n, a, b, sep, r)
  BY <1>3, <1>5, <1>6 DEF HalvesOf, NodeOK
<1> QED
  BY <1>3, <1>7 DEF sep

\* The blocks with node i split and its right half in a new block.
Apart(T, i) == Append([T EXCEPT ![i] = Split(T[i], Len(T) + 1)[1]], Split(T[i], Len(T) + 1)[2])

\* Apart writes the left half over the node and adds the right half at the end.
LEMMA ApartIs ==
    ASSUME NEW T \in Seq(Node), NEW i \in 1..Len(T), NodeOK(T[i]), Splits(T[i]),
           NEW a, NEW b, a = Split(T[i], Len(T) + 1)[1], b = Split(T[i], Len(T) + 1)[2]
    PROVE  /\ HalvesOf(T[i], a, b, Sep(T[i]), Len(T) + 1)
           /\ Apart(T, i) \in Seq(Node) /\ Len(Apart(T, i)) = Len(T) + 1
           /\ \A n \in 1..Len(T) : Apart(T, i)[n] = IF n = i THEN a ELSE T[n]
           /\ Apart(T, i)[Len(T) + 1] = b
<1> DEFINE V == [T EXCEPT ![i] = a]
           U == Append(V, b)
<1>1. Len(T) \in Nat /\ Len(T) + 1 \in Nat
  BY LenProperties
<1>2. HalvesOf(T[i], a, b, Sep(T[i]), Len(T) + 1)
  BY <1>1, SplitLeafSpec, SplitInternalSpec
<1>3. a \in Node /\ b \in Node
  <2>1. NodeOK(a) /\ NodeOK(b)
    BY <1>2 DEF HalvesOf
  <2> QED
    BY <2>1, NodeKeys
<1>4. V \in Seq(Node) /\ Len(V) = Len(T) /\ \A n \in 1..Len(T) : V[n] = IF n = i THEN a ELSE T[n]
  BY <1>3, ExceptSeq
<1>5. Apart(T, i) = U
  BY DEF Apart
<1> HIDE DEF V
<1>6. /\ U \in Seq(Node) /\ Len(U) = Len(V) + 1
      /\ \A n \in 1..Len(V) : U[n] = V[n]
      /\ U[Len(V) + 1] = b
  BY <1>3, <1>4, AppendProperties
<1> HIDE DEF U
<1> QED
  BY <1>2, <1>4, <1>5, <1>6

\* The types of what a tree consists of.
LEMMA TreeParts ==
    ASSUME NEW T, NEW rt, NEW H, NEW lvl, NEW K, TreeOK(T, rt, H, lvl, K)
    PROVE  /\ T \in Seq(Node) /\ Len(T) \in Nat /\ rt \in 1..Len(T) /\ H \in Nat
           /\ lvl \in [1..Len(T) -> 0..H] /\ K \in [1..Len(T) -> SUBSET Key]
BY DEF TreeOK, TreeType

\* What a tree says of a single node.
LEMMA TreeNode ==
    ASSUME NEW T, NEW rt, NEW H, NEW lvl, NEW K, TreeOK(T, rt, H, lvl, K), NEW n \in 1..Len(T)
    PROVE  /\ NodeOK(T[n]) /\ K[n] \subseteq Key /\ K[n] \subseteq Int /\ lvl[n] \in Nat /\ lvl[n] <= H
           /\ T[n].type = "leaf" => lvl[n] = 0
           /\ KeysOf(T[n]) \subseteq K[n]
<1>1. H \in Nat /\ lvl \in [1..Len(T) -> 0..H] /\ K \in [1..Len(T) -> SUBSET Key]
  BY TreeParts
<1>2. K[n] \in SUBSET Key /\ lvl[n] \in 0..H
  BY <1>1
<1>3. lvl[n] \in Nat /\ lvl[n] <= H
  BY <1>1, <1>2
<1>4. K[n] \subseteq Key /\ K[n] \subseteq Int
  BY <1>2
<1>5. NodeOK(T[n])
  BY DEF TreeOK, TreeNodes
<1>6. T[n].type = "leaf" => lvl[n] = 0
  BY DEF TreeOK, TreeLeaves
<1>7. KeysOf(T[n]) \subseteq K[n]
  BY DEF TreeOK, TreeKeys
<1> QED
  BY <1>3, <1>4, <1>5, <1>6, <1>7

\* A separator has a key of its node below it.
LEMMA TreeBelow ==
    ASSUME NEW T, NEW rt, NEW H, NEW lvl, NEW K, TreeOK(T, rt, H, lvl, K), NEW n \in 1..Len(T),
           T[n].type # "leaf", NEW y \in KeysOf(T[n])
    PROVE  \E e \in K[n] : e < y
BY DEF TreeOK, TreeKeys

\* What a tree says of a child: one level lower, and its keys lead to it.
LEMMA TreeDown ==
    ASSUME NEW T, NEW rt, NEW H, NEW lvl, NEW K, TreeOK(T, rt, H, lvl, K), NEW n \in 1..Len(T),
           T[n].type # "leaf", NEW j \in Kids(T[n]), NEW c, c = T[n].children[j]
    PROVE  /\ c \in 1..Len(T) /\ c # rt /\ lvl[n] = lvl[c] + 1 /\ c # n
           /\ \A y \in K[c] : y \in K[n] /\ FindChild(T[n], y) = j
<1>1. TreeChild(T, rt, lvl, K, n, j)
  BY DEF TreeOK, TreeChildren
<1>2. /\ c \in 1..Len(T) /\ c # rt /\ lvl[n] = lvl[c] + 1
      /\ \A y \in K[c] : y \in K[n] /\ FindChild(T[n], y) = j
  BY <1>1 DEF TreeChild
<1>3. lvl[n] \in Nat
  BY TreeNode
<1> QED
  BY <1>2, <1>3

\* The levels and the key sets once node i is split.
SplitLvl(T, i, lvl) == [n \in 1..(Len(T) + 1) |-> IF n = Len(T) + 1 THEN lvl[i] ELSE lvl[n]]

SplitKeys(T, i, K) ==
    [n \in 1..(Len(T) + 1) |-> IF n = i THEN {y \in K[i] : y < Sep(T[i])}
                               ELSE IF n = Len(T) + 1 THEN {y \in K[i] : ~(y < Sep(T[i]))}
                               ELSE K[n]]

\* Splitting a node leaves a tree, even before any parent knows the right half.
LEMMA SplitTree ==
    ASSUME NEW T, NEW rt, NEW H, NEW lvl, NEW K, TreeOK(T, rt, H, lvl, K),
           NEW i \in 1..Len(T), Splits(T[i])
    PROVE  TreeOK(Apart(T, i), rt, H, SplitLvl(T, i, lvl), SplitKeys(T, i, K))
<1> DEFINE N == Len(T)
           r == N + 1
           sep == Sep(T[i])
           a == Split(T[i], r)[1]
           b == Split(T[i], r)[2]
           U == Apart(T, i)
           lvl2 == SplitLvl(T, i, lvl)
           K2 == SplitKeys(T, i, K)
<1>1. /\ T \in Seq(Node) /\ N \in Nat /\ rt \in 1..N /\ H \in Nat
      /\ lvl \in [1..N -> 0..H] /\ K \in [1..N -> SUBSET Key]
  BY TreeParts
<1>2. \A n \in 1..N : /\ NodeOK(T[n]) /\ K[n] \subseteq Key /\ K[n] \subseteq Int /\ lvl[n] \in Nat
                      /\ T[n].type = "leaf" => lvl[n] = 0
                      /\ KeysOf(T[n]) \subseteq K[n]
  <2> SUFFICES ASSUME NEW n \in 1..N
               PROVE  /\ NodeOK(T[n]) /\ K[n] \subseteq Key /\ K[n] \subseteq Int /\ lvl[n] \in Nat
                      /\ T[n].type = "leaf" => lvl[n] = 0
                      /\ KeysOf(T[n]) \subseteq K[n]
    OBVIOUS
  <2> QED
    BY TreeNode
<1>3. \A n \in 1..N : T[n].type # "leaf" => \A j \in Kids(T[n]) : TreeChild(T, rt, lvl, K, n, j)
  BY DEF TreeOK, TreeChildren
<1>4. \A n, m \in 1..N : T[n].type # "leaf" /\ T[m].type # "leaf" =>
        \A p \in Kids(T[n]), q \in Kids(T[m]) : T[n].children[p] = T[m].children[q] => n = m /\ p = q
  BY DEF TreeOK, TreeSlots
<1>k. NodeOK(T[i])
  BY <1>2
<1>5. /\ HalvesOf(T[i], a, b, sep, r)
      /\ U \in Seq(Node) /\ Len(U) = r
      /\ \A n \in 1..N : U[n] = IF n = i THEN a ELSE T[n]
      /\ U[r] = b
  <2> HIDE DEF sep, U, a, b
  <2>1. \A aa, bb : aa = Split(T[i], N + 1)[1] /\ bb = Split(T[i], N + 1)[2] =>
           /\ HalvesOf(T[i], aa, bb, Sep(T[i]), N + 1)
           /\ Apart(T, i) \in Seq(Node) /\ Len(Apart(T, i)) = N + 1
           /\ \A n \in 1..N : Apart(T, i)[n] = IF n = i THEN aa ELSE T[n]
           /\ Apart(T, i)[N + 1] = bb
    BY <1>1, <1>k, ApartIs
  <2> QED
    BY <2>1 DEF sep, U, a, b
<1>6. /\ r \in Nat /\ i \in 1..N /\ r # i /\ \A n \in 1..r : n = r \/ n \in 1..N
      /\ \A n \in 1..N : n \in 1..r /\ n # r
  <2>1. N \in Nat /\ i \in 1..N
    BY <1>1
  <2> QED
    BY <2>1
<1>i. i \in 1..N /\ U[i] = a /\ KeysOf(T[i]) \subseteq K[i] /\ K[i] \subseteq Int
  BY <1>2, <1>5
<1>7. /\ lvl2 = [n \in 1..r |-> IF n = r THEN lvl[i] ELSE lvl[n]]
      /\ K2 = [n \in 1..r |-> IF n = i THEN {y \in K[i] : y < sep}
                              ELSE IF n = r THEN {y \in K[i] : ~(y < sep)}
                              ELSE K[n]]
  BY DEF SplitLvl, SplitKeys
<1> HIDE DEF N, r, sep, a, b, U, lvl2, K2
<1>8. /\ lvl2 \in [1..r -> 0..H] /\ K2 \in [1..r -> SUBSET Key]
      /\ lvl2[r] = lvl[i] /\ \A n \in 1..N : lvl2[n] = lvl[n]
      /\ K2[i] = {y \in K[i] : y < sep} /\ K2[r] = {y \in K[i] : ~(y < sep)}
      /\ \A n \in 1..N : n # i => K2[n] = K[n]
  <2>1. r \in 1..r /\ i \in 1..r
    BY <1>6
  <2>2. lvl2 \in [1..r -> 0..H]
    BY <1>1, <1>6, <1>7
  <2>3. K2 \in [1..r -> SUBSET Key]
    BY <1>1, <1>6, <1>7
  <2>4. lvl2[r] = lvl[i] /\ \A n \in 1..N : lvl2[n] = lvl[n]
    BY <1>6, <1>7, <2>1
  <2>5. K2[i] = {y \in K[i] : y < sep} /\ K2[r] = {y \in K[i] : ~(y < sep)}
    BY <1>6, <1>7, <2>1
  <2>6. \A n \in 1..N : n # i => K2[n] = K[n]
    BY <1>6, <1>7
  <2> QED
    BY <2>2, <2>3, <2>4, <2>5, <2>6
<1>9. /\ a.type = T[i].type /\ b.type = T[i].type /\ NodeOK(a) /\ NodeOK(b)
      /\ sep \in KeysOf(T[i]) /\ sep \in Key
      /\ \A y \in KeysOf(a) : y \in KeysOf(T[i]) /\ y < sep
      /\ \A y \in KeysOf(b) : y \in KeysOf(T[i]) /\ ~(y < sep) /\ (T[i].type # "leaf" => sep < y)
  BY <1>5 DEF HalvesOf
<1>10. TreeType(U, rt, H, lvl2, K2)
  BY <1>1, <1>5, <1>6, <1>8 DEF TreeType
<1>11. TreeNodes(U)
  BY <1>2, <1>5, <1>6, <1>9 DEF TreeNodes
<1>12. TreeLeaves(U, lvl2)
  <2> SUFFICES ASSUME NEW n \in 1..r, U[n].type = "leaf" PROVE lvl2[n] = 0
    BY <1>5 DEF TreeLeaves
  <2>1. CASE n = r
    <3>1. T[i].type = "leaf"
      BY <1>5, <1>9, <2>1
    <3> QED
      BY <1>2, <1>6, <1>8, <2>1, <3>1
  <2>2. CASE n # r
    <3>1. n \in 1..N /\ T[n].type = "leaf"
      BY <1>5, <1>6, <1>9, <2>2
    <3> QED
      BY <1>2, <1>8, <3>1
  <2> QED
    BY <2>1, <2>2
<1>13. TreeKeys(U, K2)
  <2> SUFFICES ASSUME NEW n \in 1..r, NEW y \in KeysOf(U[n])
               PROVE  y \in K2[n] /\ (U[n].type # "leaf" => \E e \in K2[n] : e < y)
    BY <1>5 DEF TreeKeys
  <2>1. CASE n \in 1..N /\ n # i
    <3>1. U[n] = T[n] /\ K2[n] = K[n] /\ y \in KeysOf(T[n])
      BY <1>5, <1>8, <2>1
    <3>2. y \in K[n] /\ (T[n].type # "leaf" => \E e \in K[n] : e < y)
      BY <2>1, <3>1, TreeNode, TreeBelow DEF N
    <3> QED
      BY <3>1, <3>2
  <2>2. CASE n = i
    <3>1. y \in KeysOf(T[i]) /\ y < sep /\ y \in K[i]
      BY <1>9, <1>i, <2>2
    <3>2. ASSUME U[n].type # "leaf"
          PROVE  \E e \in K2[n] : e < y
      <4>1. PICK e \in K[i] : e < y
        BY <1>9, <1>i, <2>2, <3>1, <3>2, TreeBelow
      <4>2. e \in Int /\ y \in Int /\ sep \in Int
        BY <1>9, <1>i, <3>1, <4>1
      <4>3. e < sep
        BY <3>1, <4>1, <4>2
      <4> QED
        BY <1>8, <2>2, <4>1, <4>3
    <3> QED
      BY <1>8, <2>2, <3>1, <3>2
  <2>3. CASE n = r
    <3>1. y \in KeysOf(T[i]) /\ ~(y < sep) /\ y \in K[i] /\ (T[i].type # "leaf" => sep < y)
      <4>1. y \in KeysOf(b)
        BY <1>5, <2>3
      <4> QED
        BY <1>9, <1>i, <4>1
    <3>2. sep \in K[i] /\ sep \in Int
      BY <1>9, <1>i
    <3>3. sep \in K2[r]
      BY <1>8, <3>2
    <3> QED
      BY <1>5, <1>8, <1>9, <2>3, <3>1, <3>3
  <2> QED
    BY <1>6, <2>1, <2>2, <2>3
<1>14. ASSUME T[i].type # "leaf"
       PROVE  \E mid \in 1..(Len(T[i].children) - 1) : Divides(T[i], a, b, sep, mid)
  BY <1>2, <1>6, <1>14, SplitInternalSpec DEF a, b, sep
<1>15. ASSUME NEW n \in 1..N, n # i, T[n].type # "leaf", NEW j \in Kids(T[n])
       PROVE  TreeChild(U, rt, lvl2, K2, n, j)
  <2> DEFINE c == T[n].children[j]
  <2>1. /\ c \in 1..N /\ c # rt /\ lvl[n] = lvl[c] + 1
        /\ \A y \in K[c] : y \in K[n] /\ FindChild(T[n], y) = j
    BY <1>3, <1>15 DEF TreeChild, N
  <2>2. U[n] = T[n] /\ K2[n] = K[n] /\ lvl2[n] = lvl[n] /\ lvl2[c] = lvl[c] /\ c \in 1..r
    BY <1>5, <1>6, <1>8, <1>15, <2>1
  <2>3. K2[c] \subseteq K[c]
    BY <1>8, <2>1
  <2> HIDE DEF c
  <2>4. U[n].children[j] = c
    BY <2>2 DEF c
  <2> QED
    BY <1>5, <2>1, <2>2, <2>3, <2>4 DEF TreeChild
<1>16. ASSUME T[i].type # "leaf", NEW mid, Divides(T[i], a, b, sep, mid), NEW q \in Kids(T[i])
       PROVE  /\ q <= mid => TreeChild(U, rt, lvl2, K2, i, q)
              /\ ~(q <= mid) => TreeChild(U, rt, lvl2, K2, r, q - mid)
  <2> DEFINE c == T[i].children[q]
  <2>1. /\ c \in 1..N /\ c # rt /\ lvl[i] = lvl[c] + 1
        /\ \A y \in K[c] : y \in K[i] /\ FindChild(T[i], y) = q
    BY <1>3, <1>16 DEF TreeChild, N
  <2>2. c # i
    BY <1>2, <2>1
  <2>3. K2[c] = K[c] /\ lvl2[c] = lvl[c] /\ lvl2[i] = lvl[i] /\ lvl2[r] = lvl[i] /\ c \in 1..r
    BY <1>6, <1>8, <2>1, <2>2
  <2>4. /\ mid \in 1..(Len(T[i].children) - 1)
        /\ \A p \in 1..mid : a.children[p] = T[i].children[p]
        /\ \A p \in 1..(Len(T[i].children) - mid) : b.children[p] = T[i].children[mid + p]
    BY <1>16 DEF Divides
  <2>5. \A x \in Key : /\ x < sep => FindChild(a, x) = FindChild(T[i], x) /\ FindChild(T[i], x) <= mid
                       /\ ~(x < sep) => FindChild(b, x) = FindChild(T[i], x) - mid /\ mid < FindChild(T[i], x)
    BY <1>16 DEF Divides
  <2>6. q \in 1..Len(T[i].children) /\ Len(T[i].children) \in Nat /\ mid \in Nat
    <3>1. Len(T[i].children) \in Nat
      BY <1>2, <1>16, NodeKeys, InternalParts
    <3> QED
      BY <2>4, <3>1 DEF Kids
  <2>7. ASSUME q <= mid
        PROVE  TreeChild(U, rt, lvl2, K2, i, q)
    <3>1. a.children[q] = c
      BY <2>4, <2>6, <2>7
    <3>2. ASSUME NEW y \in K[c]
          PROVE  y \in K2[i] /\ FindChild(a, y) = q
      <4>1. y \in K[i] /\ FindChild(T[i], y) = q /\ y \in Key
        BY <1>2, <2>1
      <4>2. y < sep
        BY <2>5, <2>6, <2>7, <4>1
      <4> QED
        BY <1>8, <2>5, <4>1, <4>2
    <3>3. U[i] = a
      BY <1>i
    <3> HIDE DEF c
    <3> QED
      BY <1>5, <2>1, <2>3, <3>1, <3>2, <3>3 DEF TreeChild
  <2>8. ASSUME ~(q <= mid)
        PROVE  TreeChild(U, rt, lvl2, K2, r, q - mid)
    <3> DEFINE p == q - mid
    <3>0. p \in 1..(Len(T[i].children) - mid) /\ mid + p = q
      BY <2>4, <2>6, <2>8
    <3>1. b.children[p] = c
      BY <2>4, <3>0
    <3>2. ASSUME NEW y \in K[c]
          PROVE  y \in K2[r] /\ FindChild(b, y) = p
      <4>1. y \in K[i] /\ FindChild(T[i], y) = q /\ y \in Key
        BY <1>2, <2>1
      <4>2. ~(y < sep)
        BY <2>5, <2>6, <2>8, <4>1
      <4> QED
        BY <1>8, <2>5, <4>1, <4>2
    <3>3. U[r] = b
      BY <1>5
    <3> HIDE DEF c, p
    <3>4. TreeChild(U, rt, lvl2, K2, r, p)
      BY <1>5, <2>1, <2>3, <3>1, <3>2, <3>3 DEF TreeChild
    <3> QED
      BY <3>4 DEF p
  <2> QED
    BY <2>7, <2>8
<1>17. TreeChildren(U, rt, lvl2, K2) /\ TreeSlots(U)
  <2>1. CASE T[i].type = "leaf"
    <3>1. \A n \in 1..r : U[n].type # "leaf" => n \in 1..N /\ n # i /\ U[n] = T[n]
      BY <1>5, <1>6, <1>9, <2>1
    <3>2. TreeChildren(U, rt, lvl2, K2)
      BY <1>5, <1>15, <3>1 DEF TreeChildren
    <3>3. TreeSlots(U)
      BY <1>4, <1>5, <3>1 DEF TreeSlots
    <3> QED
      BY <3>2, <3>3
  <2>2. CASE T[i].type # "leaf"
    <3>1. PICK mid \in 1..(Len(T[i].children) - 1) : Divides(T[i], a, b, sep, mid)
      BY <1>14, <2>2
    <3>2. /\ Len(a.children) = mid /\ Len(b.children) = Len(T[i].children) - mid
          /\ \A q \in 1..mid : a.children[q] = T[i].children[q]
          /\ \A q \in 1..(Len(T[i].children) - mid) : b.children[q] = T[i].children[mid + q]
      BY <3>1 DEF Divides
    <3>3. Len(T[i].children) \in Nat
      BY <1>2, <2>2, NodeKeys, InternalParts
    <3>4. \A q \in Kids(a) : q \in Kids(T[i]) /\ q <= mid /\ a.children[q] = T[i].children[q]
      BY <3>1, <3>2, <3>3 DEF Kids
    <3>5. \A q \in Kids(b) : /\ mid + q \in Kids(T[i]) /\ ~(mid + q <= mid) /\ (mid + q) - mid = q
                             /\ b.children[q] = T[i].children[mid + q]
      BY <3>1, <3>2, <3>3 DEF Kids
    <3>6. TreeChildren(U, rt, lvl2, K2)
      <4> SUFFICES ASSUME NEW n \in 1..r, U[n].type # "leaf", NEW j \in Kids(U[n])
                   PROVE  TreeChild(U, rt, lvl2, K2, n, j)
        BY <1>5 DEF TreeChildren
      <4>1. CASE n \in 1..N /\ n # i
        BY <1>5, <1>15, <4>1
      <4>2. CASE n = i
        <5>1. U[n] = a
          BY <1>i, <4>2
        <5> QED
          BY <1>16, <2>2, <3>1, <3>4, <4>2, <5>1
      <4>3. CASE n = r
        <5>1. j \in Kids(b)
          BY <1>5, <4>3
        <5>2. mid + j \in Kids(T[i]) /\ ~(mid + j <= mid) /\ (mid + j) - mid = j
          BY <3>5, <5>1
        <5>3. TreeChild(U, rt, lvl2, K2, r, (mid + j) - mid)
          BY <1>16, <2>2, <3>1, <5>2
        <5> QED
          BY <4>3, <5>2, <5>3
      <4> QED
        BY <1>6, <4>1, <4>2, <4>3
    <3>7. TreeSlots(U)
      <4> DEFINE o(n) == IF n = r THEN i ELSE n
                 s(n, p) == IF n = r THEN mid + p ELSE p
      <4>1. ASSUME NEW n \in 1..r, U[n].type # "leaf", NEW p \in Kids(U[n])
            PROVE  /\ o(n) \in 1..N /\ T[o(n)].type # "leaf" /\ s(n, p) \in Kids(T[o(n)])
                   /\ U[n].children[p] = T[o(n)].children[s(n, p)]
                   /\ n = i => p <= mid
                   /\ p \in Int
        <5>0. p \in Int
          BY DEF Kids
        <5>1. CASE n \in 1..N /\ n # i
          <6>1. U[n] = T[n] /\ n # r
            BY <1>5, <1>6, <5>1
          <6> QED
            BY <4>1, <5>0, <5>1, <6>1
        <5>2. CASE n = i
          <6>1. U[n] = a /\ n # r /\ n \in 1..N
            BY <1>5, <1>6, <5>2
          <6> QED
            BY <2>2, <3>4, <5>0, <5>2, <6>1
        <5>3. CASE n = r
          <6>1. U[n] = b /\ n # i
            BY <1>5, <1>6, <5>3
          <6> QED
            BY <1>i, <2>2, <3>5, <5>0, <5>3, <6>1
        <5> QED
          BY <1>6, <5>1, <5>2, <5>3
      <4> SUFFICES ASSUME NEW n \in 1..r, U[n].type # "leaf", NEW p \in Kids(U[n]),
                          NEW m \in 1..r, U[m].type # "leaf", NEW q \in Kids(U[m]),
                          U[n].children[p] = U[m].children[q]
                   PROVE  n = m /\ p = q
        BY <1>5 DEF TreeSlots
      <4>2. /\ o(n) \in 1..N /\ T[o(n)].type # "leaf" /\ s(n, p) \in Kids(T[o(n)])
            /\ U[n].children[p] = T[o(n)].children[s(n, p)]
            /\ n = i => p <= mid
            /\ p \in Int
        BY <4>1
      <4>3. /\ o(m) \in 1..N /\ T[o(m)].type # "leaf" /\ s(m, q) \in Kids(T[o(m)])
            /\ U[m].children[q] = T[o(m)].children[s(m, q)]
            /\ m = i => q <= mid
            /\ q \in Int
        BY <4>1
      <4>p. p >= 1 /\ q >= 1
        BY DEF Kids
      <4> HIDE DEF o, s
      <4>4. o(n) = o(m) /\ s(n, p) = s(m, q)
        <5>1. PICK n1 \in 1..N, p1 \in Kids(T[o(n)]) : n1 = o(n) /\ p1 = s(n, p)
          BY <4>2
        <5>2. PICK m1 \in 1..N, q1 \in Kids(T[o(m)]) : m1 = o(m) /\ q1 = s(m, q)
          BY <4>3
        <5>3. /\ p1 \in Kids(T[n1]) /\ q1 \in Kids(T[m1]) /\ T[n1].type # "leaf" /\ T[m1].type # "leaf"
              /\ T[n1].children[p1] = T[m1].children[q1]
          BY <4>2, <4>3, <5>1, <5>2
        <5>4. n1 = m1 /\ p1 = q1
          BY <1>4, <5>3
        <5> QED
          BY <5>1, <5>2, <5>4
      <4> QED
        BY <1>6, <3>1, <4>2, <4>3, <4>4, <4>p DEF o, s
    <3> QED
      BY <3>6, <3>7
  <2> QED
    BY <2>1, <2>2
<1>18. TreeOK(U, rt, H, lvl2, K2)
  BY <1>10, <1>11, <1>12, <1>13, <1>17 DEF TreeOK
<1> QED
  BY <1>18 DEF U, lvl2, K2

\* No node has r as a child.
Orphan(T, r) ==
    \A n \in 1..Len(T) : T[n].type # "leaf" => \A j \in Kids(T[n]) : T[n].children[j] # r

\* The separator is a key of the node that is split, and not its least.
LEMMA SepBelow ==
    ASSUME NEW T, NEW rt, NEW H, NEW lvl, NEW K, TreeOK(T, rt, H, lvl, K),
           NEW i \in 1..Len(T), Splits(T[i])
    PROVE  /\ Sep(T[i]) \in K[i] /\ Sep(T[i]) \in Key /\ Sep(T[i]) \in Int
           /\ \E e \in K[i] : e < Sep(T[i])
<1> DEFINE n == T[i]
           a == Split(n, 0)[1]
           b == Split(n, 0)[2]
<1>1. NodeOK(n) /\ KeysOf(n) \subseteq K[i] /\ 0 \in Nat
  BY TreeNode
<1>2. CASE n.type = "leaf"
  <2>1. HalvesOf(n, a, b, Sep(n), 0) /\ KeysOf(a) # {}
    BY <1>1, <1>2, SplitLeafSpec
  <2>2. PICK e : e \in KeysOf(a)
    BY <2>1
  <2>3. e \in KeysOf(n) /\ e < Sep(n) /\ Sep(n) \in KeysOf(n) /\ Sep(n) \in Key
    BY <2>1, <2>2 DEF HalvesOf
  <2> QED
    BY <1>1, <2>3
<1>3. CASE n.type # "leaf"
  <2>1. HalvesOf(n, a, b, Sep(n), 0)
    BY <1>1, <1>3, SplitInternalSpec
  <2>2. Sep(n) \in KeysOf(n) /\ Sep(n) \in Key
    BY <2>1 DEF HalvesOf
  <2>3. \E e \in K[i] : e < Sep(n)
    BY <1>3, <2>2, TreeBelow
  <2> QED
    BY <1>1, <2>2, <2>3
<1> QED
  BY <1>2, <1>3

\* Putting node r, which no node has as a child, behind its left neighbour i.
LEMMA LinkTree ==
    ASSUME NEW U, NEW rt, NEW H, NEW lvl, NEW K, TreeOK(U, rt, H, lvl, K),
           NEW n \in 1..Len(U), U[n].type # "leaf", ~InternalIsFull(U[n]),
           NEW j \in Kids(U[n]), NEW i, i = U[n].children[j],
           NEW r \in 1..Len(U), r # rt, Orphan(U, r), lvl[r] = lvl[i],
           NEW sep \in Key, sep \in K[n], FindChild(U[n], sep) = j,
           NEW e \in K[n], e < sep, FindChild(U[n], e) = j,
           \A y \in K[i] : y < sep,
           \A y \in K[r] : y \in K[n] /\ ~(y < sep) /\ FindChild(U[n], y) = j,
           NEW o, o = InternalInsert(U[n], sep, r), NEW V, V = [U EXCEPT ![n] = o]
    PROVE  TreeOK(V, rt, H, lvl, K)
<1> DEFINE N == Len(U)
           u == U[n]
           M == Len(u.children)
<1>1. /\ U \in Seq(Node) /\ N \in Nat /\ rt \in 1..N /\ H \in Nat
      /\ lvl \in [1..N -> 0..H] /\ K \in [1..N -> SUBSET Key]
  BY TreeParts
<1>2. InternalOK(u) /\ KeysOf(u) \subseteq K[n] /\ K[n] \subseteq Key /\ r \in Nat /\ i \in 1..N
  <2>1. NodeOK(u) /\ KeysOf(u) \subseteq K[n] /\ K[n] \subseteq Key
    BY TreeNode
  <2> QED
    BY <2>1, NodeKeys, TreeDown
<1>3. sep \notin KeysOf(u)
  <2> SUFFICES ASSUME sep \in KeysOf(u) PROVE FALSE
    OBVIOUS
  <2>1. PICK p \in 1..Len(u.keys) : u.keys[p] = sep
    BY DEF KeysOf
  <2>2. u.keys \in Seq(Key) /\ Ascending(u.keys) /\ e \in Key
    BY <1>2, InternalParts
  <2> HIDE DEF u
  <2>3. u.keys[p] <= sep <=> p < FindChild(u, sep)
    BY <2>2, FindChildSpec
  <2>4. u.keys[p] <= e <=> p < FindChild(u, e)
    BY <2>2, FindChildSpec
  <2>5. FindChild(u, sep) = FindChild(u, e) /\ sep \in Int /\ e \in Int
    BY <2>2 DEF u
  <2> QED
    BY <2>1, <2>3, <2>4, <2>5
<1>4. /\ InternalOK(o) /\ Len(o.children) = M + 1
      /\ KeysOf(o) \subseteq KeysOf(u) \cup {sep}
      /\ \A q \in 1..(M + 1) :
                o.children[q] = IF q <= j THEN u.children[q] ELSE IF q = j + 1 THEN r ELSE u.children[q - 1]
      /\ \A x \in Key : /\ FindChild(u, x) \in 1..M
                        /\ x < sep => FindChild(o, x) = FindChild(u, x) /\ FindChild(u, x) <= j
                        /\ ~(x < sep) => FindChild(o, x) = FindChild(u, x) + 1 /\ j <= FindChild(u, x)
  <2>1. Widened(u, o, sep, r, j)
    BY <1>2, <1>3, InternalInsertSpec
  <2> QED
    BY <2>1 DEF Widened
<1>5. M \in Nat /\ j \in 1..M /\ i = u.children[j] /\ Kids(u) = 1..M
  BY <1>2, InternalParts DEF Kids
<1>6. o.type = "internal" /\ NodeOK(o) /\ o \in Node
  <2>1. o.type = "internal"
    BY <1>4, InternalParts
  <2>2. NodeOK(o)
    BY <1>4, <2>1 DEF NodeOK
  <2> QED
    BY <2>1, <2>2, NodeKeys
<1>7. V \in Seq(Node) /\ Len(V) = N /\ V[n] = o /\ \A m \in 1..N : m # n => V[m] = U[m]
  BY <1>1, <1>6, ExceptSeq
<1>n. n \in 1..N /\ r \in 1..N /\ u.type # "leaf" /\ U[n] = u
  OBVIOUS
<1> HIDE DEF N, u, M
<1>8. TreeType(V, rt, H, lvl, K)
  BY <1>1, <1>7 DEF TreeType
<1>9. TreeNodes(V)
  <2>1. \A m \in 1..N : NodeOK(U[m])
    BY DEF TreeOK, TreeNodes, N
  <2> QED
    BY <1>6, <1>7, <2>1 DEF TreeNodes
<1>10. TreeLeaves(V, lvl)
  <2>1. \A m \in 1..N : U[m].type = "leaf" => lvl[m] = 0
    BY DEF TreeOK, TreeLeaves, N
  <2> QED
    BY <1>6, <1>7, <2>1 DEF TreeLeaves
<1>11. TreeKeys(V, K)
  <2> SUFFICES ASSUME NEW m \in 1..N, NEW y \in KeysOf(V[m])
               PROVE  y \in K[m] /\ (V[m].type # "leaf" => \E d \in K[m] : d < y)
    BY <1>7 DEF TreeKeys
  <2>1. CASE m # n
    <3>1. V[m] = U[m]
      BY <1>7, <2>1
    <3> QED
      <4>1. m \in 1..Len(U) /\ y \in KeysOf(U[m])
        BY <3>1 DEF N
      <4>2. y \in K[m]
        BY <4>1, TreeNode
      <4>3. U[m].type # "leaf" => \E d \in K[m] : d < y
        BY <4>1, TreeBelow
      <4> QED
        BY <3>1, <4>2, <4>3
  <2>2. CASE m = n /\ y = sep
    BY <2>2
  <2>3. CASE m = n /\ y # sep
    <3>1. y \in KeysOf(u)
      BY <1>4, <1>7, <2>3
    <3>2. y \in K[n]
      BY <1>2, <3>1
    <3>3. \E d \in K[n] : d < y
      BY <1>n, <3>1, TreeBelow
    <3> QED
      BY <2>3, <3>2, <3>3
  <2> QED
    BY <2>1, <2>2, <2>3
\* The children of n, at their new places.
<1>12. ASSUME NEW q \in 1..(M + 1)
       PROVE  \/ q = j + 1 /\ o.children[q] = r
              \/ \E p \in 1..M : /\ o.children[q] = u.children[p]
                                 /\ ((p = q /\ q <= j) \/ (q = p + 1 /\ ~(p <= j)))
  <2>1. CASE q <= j
    <3>1. q \in 1..M
      BY <1>5, <2>1
    <3>2. o.children[q] = u.children[q]
      BY <1>4, <2>1
    <3>3. \E p \in 1..M : o.children[q] = u.children[p] /\ p = q /\ q <= j
      BY <2>1, <3>1, <3>2
    <3> QED
      BY <3>3
  <2>2. CASE q = j + 1
    <3>1. ~(q <= j)
      BY <1>5, <2>2
    <3> QED
      BY <1>4, <2>2, <3>1
  <2>3. CASE ~(q <= j) /\ q # j + 1
    <3>1. q - 1 \in 1..M /\ q = (q - 1) + 1 /\ ~(q - 1 <= j)
      BY <1>5, <2>3
    <3>2. o.children[q] = u.children[q - 1]
      BY <1>4, <2>3
    <3> QED
      BY <3>1, <3>2
  <2> QED
    BY <2>1, <2>2, <2>3
<1>13. ASSUME NEW q \in 1..(M + 1)
       PROVE  TreeChild(V, rt, lvl, K, n, q)
  <2>1. CASE q = j + 1 /\ o.children[q] = r
    <3>1. ASSUME NEW y \in K[r]
          PROVE  y \in K[n] /\ FindChild(o, y) = q
      <4>1. y \in K[n] /\ ~(y < sep) /\ FindChild(u, y) = j
        BY DEF u
      <4>2. y \in Key
        BY <1>2, <4>1
      <4> QED
        BY <1>4, <2>1, <4>1, <4>2
    <3>2. lvl[n] = lvl[r] + 1
      BY TreeDown
    <3> QED
      BY <1>7, <1>n, <2>1, <3>1, <3>2 DEF TreeChild
  <2>2. ASSUME NEW p \in 1..M, o.children[q] = u.children[p], ((p = q /\ q <= j) \/ (q = p + 1 /\ ~(p <= j)))
        PROVE  TreeChild(V, rt, lvl, K, n, q)
    <3> DEFINE c == u.children[p]
    <3>1. /\ c \in 1..N /\ c # rt /\ lvl[n] = lvl[c] + 1
          /\ \A y \in K[c] : y \in K[n] /\ FindChild(u, y) = p
      <4>1. p \in Kids(U[n]) /\ c = U[n].children[p] /\ u = U[n]
        BY <1>5, <1>n
      <4>2. U[n].type # "leaf" /\ n \in 1..Len(U)
        OBVIOUS
      <4> HIDE DEF c
      <4>3. /\ c \in 1..Len(U) /\ c # rt /\ lvl[n] = lvl[c] + 1
            /\ \A y \in K[c] : y \in K[n] /\ FindChild(U[n], y) = p
        BY <4>1, <4>2, TreeDown
      <4> QED
        BY <4>1, <4>3 DEF N
    <3> HIDE DEF c
    <3>2. ASSUME NEW y \in K[c]
          PROVE  y \in K[n] /\ FindChild(o, y) = q
      <4>1. y \in K[n] /\ FindChild(u, y) = p /\ y \in Key
        BY <1>2, <3>1
      <4>2. CASE p = q /\ q < j
        <5>1. y < sep
          <6>1. ~(j <= p)
            BY <1>5, <4>2
          <6> QED
            BY <1>4, <4>1, <6>1
        <5> QED
          BY <1>4, <4>1, <4>2, <5>1
      <4>3. CASE p = q /\ q = j
        <5>1. c = i
          BY <1>5, <4>3 DEF c
        <5>2. y < sep
          BY <5>1
        <5> QED
          BY <1>4, <4>1, <4>3, <5>2
      <4>4. CASE q = p + 1 /\ ~(p <= j)
        <5>1. ~(y < sep)
          BY <1>4, <4>1, <4>4
        <5> QED
          BY <1>4, <4>1, <4>4, <5>1
      <4>5. q \in Int /\ j \in Int
        BY <1>5
      <4> QED
        BY <2>2, <4>2, <4>3, <4>4, <4>5
    <3>3. V[n].children[q] = c
      BY <1>7, <2>2 DEF c
    <3> QED
      BY <1>7, <3>1, <3>2, <3>3 DEF TreeChild
  <2> QED
    BY <1>12, <2>1, <2>2
<1>14. ASSUME NEW m \in 1..N, m # n, U[m].type # "leaf", NEW q \in Kids(U[m])
       PROVE  TreeChild(V, rt, lvl, K, m, q)
  <2>1. TreeChild(U, rt, lvl, K, m, q)
    BY <1>14 DEF TreeOK, TreeChildren, N
  <2>2. V[m] = U[m]
    BY <1>7, <1>14
  <2> QED
    BY <1>7, <2>1, <2>2 DEF TreeChild, N
<1>k. Kids(o) = 1..(M + 1)
  BY <1>4 DEF Kids
<1>15. TreeChildren(V, rt, lvl, K)
  <2> SUFFICES ASSUME NEW m \in 1..N, V[m].type # "leaf", NEW q \in Kids(V[m])
               PROVE  TreeChild(V, rt, lvl, K, m, q)
    BY <1>7 DEF TreeChildren
  <2>1. CASE m = n
    BY <1>7, <1>13, <1>k, <2>1
  <2>2. CASE m # n
    BY <1>7, <1>14, <2>2
  <2> QED
    BY <2>1, <2>2
<1>16. TreeSlots(V)
  <2>1. \A m1, m2 \in 1..N : U[m1].type # "leaf" /\ U[m2].type # "leaf" =>
           \A q1 \in Kids(U[m1]), q2 \in Kids(U[m2]) : U[m1].children[q1] = U[m2].children[q2] => m1 = m2 /\ q1 = q2
    BY DEF TreeOK, TreeSlots, N
  <2>2. \A m \in 1..N : U[m].type # "leaf" => \A q \in Kids(U[m]) : U[m].children[q] # r
    BY DEF Orphan, N
  \* Where a child was before.
  <2>3. ASSUME NEW m \in 1..N, V[m].type # "leaf", NEW q \in Kids(V[m])
        PROVE  \/ m = n /\ q = j + 1 /\ V[m].children[q] = r
               \/ \E p \in Kids(U[m]) : /\ U[m].type # "leaf" /\ V[m].children[q] = U[m].children[p]
                                        /\ m # n => p = q
                                        /\ m = n => ((p = q /\ q <= j) \/ (q = p + 1 /\ ~(p <= j)))
    <3>1. CASE m # n
      <4>1. V[m] = U[m]
        BY <1>7, <3>1
      <4> QED
        BY <2>3, <3>1, <4>1
    <3>2. CASE m = n
      <4>1. q \in 1..(M + 1) /\ V[m] = o /\ Kids(U[m]) = 1..M /\ U[m] = u /\ u.type # "leaf"
        BY <1>5, <1>7, <1>k, <1>n, <3>2
      <4> QED
        BY <1>12, <3>2, <4>1
    <3> QED
      BY <3>1, <3>2
  <2> SUFFICES ASSUME NEW m1 \in 1..N, V[m1].type # "leaf", NEW q1 \in Kids(V[m1]),
                      NEW m2 \in 1..N, V[m2].type # "leaf", NEW q2 \in Kids(V[m2]),
                      V[m1].children[q1] = V[m2].children[q2]
               PROVE  m1 = m2 /\ q1 = q2
    BY <1>7 DEF TreeSlots
  <2>4. CASE V[m1].children[q1] = r
    <3>1. m1 = n /\ q1 = j + 1
      BY <2>2, <2>3, <2>4
    <3>2. m2 = n /\ q2 = j + 1
      BY <2>2, <2>3, <2>4
    <3> QED
      BY <3>1, <3>2
  <2>5. CASE V[m1].children[q1] # r
    <3>1. PICK p1 \in Kids(U[m1]) : /\ U[m1].type # "leaf" /\ V[m1].children[q1] = U[m1].children[p1]
                                    /\ m1 # n => p1 = q1
                                    /\ m1 = n => ((p1 = q1 /\ q1 <= j) \/ (q1 = p1 + 1 /\ ~(p1 <= j)))
      BY <2>3, <2>5
    <3>2. PICK p2 \in Kids(U[m2]) : /\ U[m2].type # "leaf" /\ V[m2].children[q2] = U[m2].children[p2]
                                    /\ m2 # n => p2 = q2
                                    /\ m2 = n => ((p2 = q2 /\ q2 <= j) \/ (q2 = p2 + 1 /\ ~(p2 <= j)))
      BY <2>3, <2>5
    <3>3. m1 = m2 /\ p1 = p2
      BY <2>1, <3>1, <3>2
    <3>4. p1 \in Int /\ q1 \in Int /\ p2 \in Int /\ q2 \in Int /\ j \in Int
      BY <1>5 DEF Kids
    <3> QED
      BY <3>1, <3>2, <3>3, <3>4
  <2> QED
    BY <2>4, <2>5
<1> QED
  BY <1>8, <1>9, <1>10, <1>11, <1>15, <1>16 DEF TreeOK

\* Splitting a node moves children and adds none.
LEMMA ApartOrphan ==
    ASSUME NEW T, NEW rt, NEW H, NEW lvl, NEW K, TreeOK(T, rt, H, lvl, K),
           NEW i \in 1..Len(T), Splits(T[i])
    PROVE  Orphan(Apart(T, i), Len(T) + 1)
<1> DEFINE N == Len(T)
           U == Apart(T, i)
<1>1. T \in Seq(Node) /\ N \in Nat /\ NodeOK(T[i]) /\ N + 1 \in Nat
  BY TreeParts, TreeNode
<1>2. PICK a, b : a = Split(T[i], N + 1)[1] /\ b = Split(T[i], N + 1)[2]
  OBVIOUS
<1>3. /\ HalvesOf(T[i], a, b, Sep(T[i]), N + 1)
      /\ Len(U) = N + 1 /\ U[N + 1] = b
      /\ \A n \in 1..N : U[n] = IF n = i THEN a ELSE T[n]
  BY <1>1, <1>2, ApartIs
<1>4. a.type = T[i].type /\ b.type = T[i].type
  BY <1>3 DEF HalvesOf
<1>5. ASSUME NEW n \in 1..N, T[n].type # "leaf", NEW j \in Kids(T[n])
      PROVE  T[n].children[j] # N + 1
  <2>1. T[n].children[j] \in 1..N
    BY <1>5, TreeDown
  <2> QED
    BY <1>1, <2>1
<1> HIDE DEF U, N
<1>6. ASSUME T[i].type # "leaf"
      PROVE  /\ \A q \in Kids(a) : a.children[q] # N + 1
             /\ \A q \in Kids(b) : b.children[q] # N + 1
  <2>1. PICK mid \in 1..(Len(T[i].children) - 1) : Divides(T[i], a, b, Sep(T[i]), mid)
    BY <1>1, <1>2, <1>6, SplitInternalSpec
  <2>2. /\ Len(a.children) = mid /\ Len(b.children) = Len(T[i].children) - mid
        /\ \A q \in 1..mid : a.children[q] = T[i].children[q]
        /\ \A q \in 1..(Len(T[i].children) - mid) : b.children[q] = T[i].children[mid + q]
    BY <2>1 DEF Divides
  <2>3. Len(T[i].children) \in Nat
    BY <1>1, <1>6, NodeKeys, InternalParts
  <2>4. \A q \in Kids(a) : q \in Kids(T[i]) /\ a.children[q] = T[i].children[q]
    BY <2>1, <2>2, <2>3 DEF Kids
  <2>5. \A q \in Kids(b) : mid + q \in Kids(T[i]) /\ b.children[q] = T[i].children[mid + q]
    BY <2>1, <2>2, <2>3 DEF Kids
  <2>6. \A q \in Kids(T[i]) : T[i].children[q] # N + 1
    BY <1>5, <1>6 DEF N
  <2> QED
    BY <2>4, <2>5, <2>6
<1> SUFFICES ASSUME NEW n \in 1..Len(U), U[n].type # "leaf", NEW j \in Kids(U[n])
             PROVE  U[n].children[j] # N + 1
  BY DEF Orphan, U, N
<1>7. n \in 1..N \/ n = N + 1
  BY <1>1, <1>3
<1>8. i \in 1..N
  BY DEF N
<1>9. CASE n = i
  BY <1>3, <1>4, <1>6, <1>8, <1>9
<1>10. CASE n = N + 1
  BY <1>3, <1>4, <1>6, <1>10
<1>11. CASE n \in 1..N /\ n # i
  BY <1>3, <1>5, <1>11
<1> QED
  BY <1>7, <1>9, <1>10, <1>11

\* The blocks after the split of node i has reached its parent n.
Join(T, i, n) == [Apart(T, i) EXCEPT ![n] = InternalInsert(T[n], Sep(T[i]), Len(T) + 1)]

\* A split whose parent is told of the right half leaves a tree.
LEMMA JoinTree ==
    ASSUME NEW T, NEW rt, NEW H, NEW lvl, NEW K, TreeOK(T, rt, H, lvl, K),
           NEW i \in 1..Len(T), Splits(T[i]), NEW n \in 1..Len(T), T[n].type # "leaf",
           ~InternalIsFull(T[n]), NEW j \in Kids(T[n]), T[n].children[j] = i
    PROVE  TreeOK(Join(T, i, n), rt, H, SplitLvl(T, i, lvl), SplitKeys(T, i, K))
<1> DEFINE N == Len(T)
           r == N + 1
           sep == Sep(T[i])
           U == Apart(T, i)
           L2 == SplitLvl(T, i, lvl)
           K2 == SplitKeys(T, i, K)
<1>1. T \in Seq(Node) /\ N \in Nat /\ rt \in 1..N /\ NodeOK(T[i]) /\ N + 1 \in Nat
  BY TreeParts, TreeNode
<1>2. /\ i # rt /\ lvl[n] = lvl[i] + 1 /\ i # n
      /\ \A y \in K[i] : y \in K[n] /\ FindChild(T[n], y) = j
  BY TreeDown
<1>3. sep \in K[i] /\ sep \in Key /\ sep \in Int /\ \E e \in K[i] : e < sep
  BY SepBelow
<1>4. /\ Len(U) = r
      /\ \A m \in 1..N : m # i => U[m] = T[m]
  BY <1>1, ApartIs
<1>5. TreeOK(U, rt, H, L2, K2)
  BY SplitTree
<1>6. Orphan(U, r)
  BY ApartOrphan
<1>7. /\ L2[r] = lvl[i] /\ L2[i] = lvl[i]
      /\ K2[i] = {y \in K[i] : y < sep} /\ K2[r] = {y \in K[i] : ~(y < sep)}
      /\ K2[n] = K[n]
  <2>1. r \in 1..(Len(T) + 1) /\ i \in 1..(Len(T) + 1) /\ n \in 1..(Len(T) + 1) /\ i # r /\ n # r
    BY <1>1
  <2>2. L2[r] = lvl[i] /\ L2[i] = lvl[i]
    BY <2>1 DEF SplitLvl
  <2>3. K2[i] = {y \in K[i] : y < sep} /\ K2[r] = {y \in K[i] : ~(y < sep)} /\ K2[n] = K[n]
    BY <1>2, <2>1 DEF SplitKeys
  <2> QED
    BY <2>2, <2>3
<1>8. U[n] = T[n] /\ r \in 1..Len(U) /\ n \in 1..Len(U) /\ r # rt
  BY <1>1, <1>2, <1>4
<1>9. Join(T, i, n) = [U EXCEPT ![n] = InternalInsert(U[n], sep, r)]
  BY <1>8 DEF Join
<1>10. PICK e \in K[i] : e < sep
  BY <1>3
<1> HIDE DEF r, sep, U, L2, K2
<1>11. /\ \A y \in K2[i] : y < sep
       /\ \A y \in K2[r] : y \in K2[n] /\ ~(y < sep) /\ FindChild(U[n], y) = j
  BY <1>2, <1>7, <1>8
<1>12. /\ sep \in K2[n] /\ e \in K2[n] /\ FindChild(U[n], sep) = j /\ FindChild(U[n], e) = j
       /\ U[n].type # "leaf" /\ ~InternalIsFull(U[n]) /\ j \in Kids(U[n]) /\ i = U[n].children[j]
       /\ L2[r] = L2[i]
  BY <1>2, <1>3, <1>7, <1>8
<1>13. PICK o : o = InternalInsert(U[n], sep, r)
  OBVIOUS
<1>14. PICK V : V = [U EXCEPT ![n] = o]
  OBVIOUS
<1>15. TreeOK(V, rt, H, L2, K2)
  BY <1>3, <1>5, <1>6, <1>8, <1>10, <1>11, <1>12, <1>13, <1>14, LinkTree
<1> QED
  BY <1>9, <1>13, <1>14, <1>15 DEF L2, K2

\* A root over two nodes.
LEMMA RootNode ==
    ASSUME NEW sep \in Key, NEW c \in Nat, NEW d \in Nat, NEW o, o = Internal(<<sep>>, <<c, d>>)
    PROVE  /\ InternalOK(o) /\ o.type = "internal" /\ KeysOf(o) = {sep} /\ Kids(o) = {1, 2}
           /\ o.children[1] = c /\ o.children[2] = d /\ Len(o.children) = 2
           /\ \A x \in Key : FindChild(o, x) = IF x < sep THEN 1 ELSE 2
<1> DEFINE s == <<sep>>
           t == <<c, d>>
<1>1. s \in Seq(Key) /\ Len(s) = 1 /\ s[1] = sep
  OBVIOUS
<1>2. t \in Seq(Nat) /\ Len(t) = 2 /\ t[1] = c /\ t[2] = d
  OBVIOUS
<1> HIDE DEF s, t
<1>3. Ascending(s) /\ 2 <= MaxInternalKeys + 1
  BY <1>1 DEF Ascending
<1>4. Len(t) = Len(s) + 1 /\ Len(t) <= MaxInternalKeys + 1
  BY <1>1, <1>2, <1>3
<1>5. o = Internal(s, t)
  BY DEF s, t
<1>6. InternalOK(o) /\ o.type = "internal" /\ o.keys = s /\ o.children = t
  <2>1. s \in Seq(Key) /\ t \in Seq(Nat)
    BY <1>1, <1>2
  <2> QED
    BY <1>3, <1>4, <1>5, <2>1, NewInternalOK
<1>7. KeysOf(o) = {sep} /\ Kids(o) = {1, 2}
  <2>1. 1..1 = {1} /\ 1..2 = {1, 2}
    OBVIOUS
  <2>2. o.keys[1] = sep /\ Len(o.keys) = 1 /\ Len(o.children) = 2
    BY <1>1, <1>2, <1>6
  <2>3. KeysOf(o) = {o.keys[i] : i \in {1}}
    BY <2>1, <2>2 DEF KeysOf
  <2> QED
    BY <2>1, <2>2, <2>3 DEF Kids
<1>8. ASSUME NEW x \in Key
      PROVE  FindChild(o, x) = IF x < sep THEN 1 ELSE 2
  <2>1. x \in Int /\ sep \in Int
    OBVIOUS
  <2>2. o.keys \in Seq(Key) /\ Ascending(o.keys) /\ Len(o.keys) = 1 /\ o.keys[1] = sep
    BY <1>1, <1>3, <1>6
  <2>3. CASE x < sep
    <3>1. 1 \in 1..(Len(o.keys) + 1) /\ \A i \in 1..Len(o.keys) : o.keys[i] <= x <=> i < 1
      BY <2>1, <2>2, <2>3
    <3>2. FindChild(o, x) = 1
      BY <2>2, <3>1, FindChildIs
    <3> QED
      BY <2>3, <3>2
  <2>4. CASE ~(x < sep)
    <3>1. 2 \in 1..(Len(o.keys) + 1) /\ \A i \in 1..Len(o.keys) : o.keys[i] <= x <=> i < 2
      BY <2>1, <2>2, <2>4
    <3>2. FindChild(o, x) = 2
      BY <2>2, <3>1, FindChildIs
    <3> QED
      BY <2>4, <3>2
  <2> QED
    BY <2>3, <2>4
<1> QED
  BY <1>2, <1>6, <1>7, <1>8

\* The levels and the key sets with one node more at the end.
RootLvl(U, lvl, h) == [m \in 1..(Len(U) + 1) |-> IF m = Len(U) + 1 THEN h ELSE lvl[m]]

RootKeys(U, K, K0) == [m \in 1..(Len(U) + 1) |-> IF m = Len(U) + 1 THEN K0 ELSE K[m]]

\* W is U with o in one block more.
OnTop(U, W, o) == W \in Seq(Node) /\ Len(W) = Len(U) + 1 /\ W[Len(U) + 1] = o /\ \A m \in 1..Len(U) : W[m] = U[m]

\* Append adds one block.
LEMMA AppendOnTop ==
    ASSUME NEW U \in Seq(Node), NEW o \in Node
    PROVE  OnTop(U, Append(U, o), o)
BY AppendProperties DEF OnTop

\* A new root over the root and a node that no node has as a child.
LEMMA OverTree ==
    ASSUME NEW U, NEW rt, NEW H, NEW lvl, NEW K, TreeOK(U, rt, H, lvl, K),
           NEW r \in 1..Len(U), r # rt, Orphan(U, r), lvl[r] = lvl[rt],
           NEW K0 \in SUBSET Key, NEW sep \in K0, \E e \in K0 : e < sep,
           \A y \in K[rt] : y \in K0 /\ y < sep,
           \A y \in K[r] : y \in K0 /\ ~(y < sep),
           NEW o, o = Internal(<<sep>>, <<rt, r>>), NEW W, OnTop(U, W, o),
           NEW L2, L2 = RootLvl(U, lvl, lvl[rt] + 1), NEW K2, K2 = RootKeys(U, K, K0)
    PROVE  TreeOK(W, Len(U) + 1, H + 1, L2, K2)
<1> DEFINE N == Len(U)
           w == N + 1
<1>1. /\ U \in Seq(Node) /\ N \in Nat /\ rt \in 1..N /\ H \in Nat /\ r \in 1..N
      /\ lvl \in [1..N -> 0..H] /\ K \in [1..N -> SUBSET Key]
  BY TreeParts
<1>2. sep \in Key /\ rt \in Nat /\ r \in Nat
  BY <1>1
<1>3. /\ InternalOK(o) /\ o.type = "internal" /\ KeysOf(o) = {sep} /\ Kids(o) = {1, 2}
      /\ o.children[1] = rt /\ o.children[2] = r
      /\ \A x \in Key : FindChild(o, x) = IF x < sep THEN 1 ELSE 2
  BY <1>2, RootNode
<1>4. NodeOK(o) /\ o \in Node
  <2>1. NodeOK(o)
    BY <1>3 DEF NodeOK
  <2> QED
    BY <2>1, NodeKeys
<1>5. W \in Seq(Node) /\ Len(W) = w /\ W[w] = o /\ \A m \in 1..N : W[m] = U[m]
  BY DEF OnTop
<1>6. w \in Nat /\ w \in 1..w /\ (\A m \in 1..w : m = w \/ m \in 1..N) /\ \A m \in 1..N : m \in 1..w /\ m # w
  <2>1. N \in Nat
    BY <1>1
  <2> QED
    BY <2>1
<1>7. /\ L2[w] = lvl[rt] + 1 /\ \A m \in 1..N : L2[m] = lvl[m]
      /\ K2[w] = K0 /\ \A m \in 1..N : K2[m] = K[m]
  BY <1>6 DEF RootLvl, RootKeys
<1>8. L2 \in [1..w -> 0..(H + 1)] /\ K2 \in [1..w -> SUBSET Key]
  <2>0. lvl \in [1..N -> 0..H] /\ rt \in 1..N
    BY <1>1
  <2>1. lvl[rt] + 1 \in 0..(H + 1) /\ \A m \in 1..N : lvl[m] \in 0..(H + 1)
    <3>1. H \in Nat /\ lvl[rt] \in 0..H /\ \A m \in 1..N : lvl[m] \in 0..H
      BY <1>1, <2>0
    <3> QED
      BY <3>1
  <2>2. L2 \in [1..w -> 0..(H + 1)]
    BY <1>6, <2>1 DEF RootLvl
  <2>3. \A m \in 1..N : K[m] \in SUBSET Key
    BY <1>1
  <2> QED
    BY <1>6, <2>2, <2>3 DEF RootKeys
<1>s. /\ \A y \in K[rt] : y \in K0 /\ y \in Key /\ y < sep
      /\ \A y \in K[r] : y \in K0 /\ y \in Key /\ ~(y < sep)
  OBVIOUS
<1> HIDE DEF N, w
<1>9. TreeType(W, w, H + 1, L2, K2)
  <2>1. H + 1 \in Nat
    BY <1>1
  <2> QED
    BY <1>5, <1>6, <1>8, <2>1 DEF TreeType
<1>10. TreeNodes(W)
  <2>1. \A m \in 1..N : NodeOK(U[m])
    BY DEF TreeOK, TreeNodes, N
  <2> QED
    BY <1>4, <1>5, <1>6, <2>1 DEF TreeNodes
<1>11. TreeLeaves(W, L2)
  <2>1. \A m \in 1..N : U[m].type = "leaf" => lvl[m] = 0
    BY DEF TreeOK, TreeLeaves, N
  <2> QED
    BY <1>3, <1>5, <1>6, <1>7, <2>1 DEF TreeLeaves
<1>12. TreeKeys(W, K2)
  <2>1. \A m \in 1..N : \A y \in KeysOf(U[m]) :
           y \in K[m] /\ (U[m].type # "leaf" => \E e \in K[m] : e < y)
    BY DEF TreeOK, TreeKeys, N
  <2> SUFFICES ASSUME NEW m \in 1..w, NEW y \in KeysOf(W[m])
               PROVE  y \in K2[m] /\ (W[m].type # "leaf" => \E e \in K2[m] : e < y)
    BY <1>5 DEF TreeKeys
  <2>2. CASE m = w
    <3>1. W[m] = o /\ K2[m] = K0 /\ KeysOf(o) = {sep}
      BY <1>3, <1>5, <1>7, <2>2
    <3>2. y = sep
      BY <3>1
    <3> QED
      BY <3>1, <3>2
  <2>3. CASE m \in 1..N
    <3>1. W[m] = U[m] /\ K2[m] = K[m]
      BY <1>5, <1>7, <2>3
    <3> QED
      BY <2>1, <2>3, <3>1
  <2> QED
    BY <1>6, <2>2, <2>3
<1>13. TreeChildren(W, w, L2, K2)
  <2> SUFFICES ASSUME NEW m \in 1..w, W[m].type # "leaf", NEW q \in Kids(W[m])
               PROVE  TreeChild(W, w, L2, K2, m, q)
    BY <1>5 DEF TreeChildren
  <2>1. CASE m = w /\ q = 1
    <3>1. W[m].children[q] = rt /\ rt \in 1..w /\ rt # w /\ L2[rt] = lvl[rt] /\ K2[rt] = K[rt]
      BY <1>1, <1>3, <1>5, <1>6, <1>7, <2>1
    <3>2. \A y \in K[rt] : y \in K0 /\ FindChild(o, y) = 1
      BY <1>3, <1>s
    <3>3. W[m] = o /\ K2[m] = K0 /\ L2[m] = lvl[rt] + 1 /\ Len(W) = w
      BY <1>5, <1>7, <2>1
    <3> QED
      BY <2>1, <3>1, <3>2, <3>3 DEF TreeChild
  <2>2. CASE m = w /\ q = 2
    <3>1. W[m].children[q] = r /\ r \in 1..w /\ r # w /\ L2[r] = lvl[rt] /\ K2[r] = K[r]
      BY <1>1, <1>3, <1>5, <1>6, <1>7, <2>2
    <3>2. \A y \in K[r] : y \in K0 /\ FindChild(o, y) = 2
      BY <1>3, <1>s
    <3>3. W[m] = o /\ K2[m] = K0 /\ L2[m] = lvl[rt] + 1 /\ Len(W) = w
      BY <1>5, <1>7, <2>2
    <3> QED
      BY <2>2, <3>1, <3>2, <3>3 DEF TreeChild
  <2>3. CASE m \in 1..N
    <3>1. W[m] = U[m] /\ K2[m] = K[m] /\ L2[m] = lvl[m]
      BY <1>5, <1>7, <2>3
    <3> DEFINE c == U[m].children[q]
    <3>2. /\ c \in 1..N /\ lvl[m] = lvl[c] + 1
          /\ \A y \in K[c] : y \in K[m] /\ FindChild(U[m], y) = q
      BY <2>3, <3>1, TreeDown DEF N
    <3> HIDE DEF c
    <3>3. W[m].children[q] = c /\ c \in 1..w /\ c # w /\ K2[c] = K[c] /\ L2[c] = lvl[c]
      BY <1>6, <1>7, <3>1, <3>2 DEF c
    <3> QED
      BY <1>5, <3>1, <3>2, <3>3 DEF TreeChild
  <2> QED
    BY <1>3, <1>5, <1>6, <2>1, <2>2, <2>3
<1>14. TreeSlots(W)
  <2>1. \A m1, m2 \in 1..N : U[m1].type # "leaf" /\ U[m2].type # "leaf" =>
           \A q1 \in Kids(U[m1]), q2 \in Kids(U[m2]) : U[m1].children[q1] = U[m2].children[q2] => m1 = m2 /\ q1 = q2
    BY DEF TreeOK, TreeSlots, N
  <2>2. ASSUME NEW m \in 1..N, U[m].type # "leaf", NEW q \in Kids(U[m])
        PROVE  U[m].children[q] # r /\ U[m].children[q] # rt
    <3>1. U[m].children[q] # r
      BY <2>2 DEF Orphan, N
    <3>2. U[m].children[q] # rt
      BY <2>2, TreeDown DEF N
    <3> QED
      BY <3>1, <3>2
  <2>3. ASSUME NEW m \in 1..w, W[m].type # "leaf", NEW q \in Kids(W[m])
        PROVE  \/ m = w /\ q = 1 /\ W[m].children[q] = rt
               \/ m = w /\ q = 2 /\ W[m].children[q] = r
               \/ m \in 1..N /\ W[m] = U[m] /\ W[m].children[q] # r /\ W[m].children[q] # rt
    <3>1. CASE m = w
      <4>1. q \in {1, 2} /\ W[m] = o
        BY <1>3, <1>5, <3>1
      <4> QED
        BY <1>3, <3>1, <4>1
    <3>2. CASE m \in 1..N
      <4>1. W[m] = U[m]
        BY <1>5, <3>2
      <4> QED
        BY <2>2, <2>3, <3>2, <4>1
    <3> QED
      BY <1>6, <3>1, <3>2
  <2>4. Len(W) = w
    BY <1>5
  <2> SUFFICES ASSUME NEW m1 \in 1..w, W[m1].type # "leaf", NEW q1 \in Kids(W[m1]),
                      NEW m2 \in 1..w, W[m2].type # "leaf", NEW q2 \in Kids(W[m2]),
                      W[m1].children[q1] = W[m2].children[q2]
               PROVE  m1 = m2 /\ q1 = q2
    BY <2>4 DEF TreeSlots
  <2>5. \/ m1 = w /\ q1 = 1 /\ W[m1].children[q1] = rt
        \/ m1 = w /\ q1 = 2 /\ W[m1].children[q1] = r
        \/ m1 \in 1..N /\ W[m1] = U[m1] /\ W[m1].children[q1] # r /\ W[m1].children[q1] # rt
    BY <2>3
  <2>6. \/ m2 = w /\ q2 = 1 /\ W[m2].children[q2] = rt
        \/ m2 = w /\ q2 = 2 /\ W[m2].children[q2] = r
        \/ m2 \in 1..N /\ W[m2] = U[m2] /\ W[m2].children[q2] # r /\ W[m2].children[q2] # rt
    BY <2>3
  <2> QED
    BY <2>1, <2>5, <2>6
<1> QED
  BY <1>9, <1>10, <1>11, <1>12, <1>13, <1>14 DEF TreeOK, w, N

\* The blocks after the root has been split and has a new root above it.
Top(T, i) == Append(Apart(T, i), Internal(<<Sep(T[i])>>, <<i, Len(T) + 1>>))

\* A root that is split under a new root is a tree, one level higher.
LEMMA TopTree ==
    ASSUME NEW T, NEW rt, NEW H, NEW lvl, NEW K, TreeOK(T, rt, H, lvl, K), Splits(T[rt])
    PROVE  \E L2, K2 : TreeOK(Top(T, rt), Len(T) + 2, H + 1, L2, K2)
<1> DEFINE N == Len(T)
           r == N + 1
           sep == Sep(T[rt])
           U == Apart(T, rt)
           L1 == SplitLvl(T, rt, lvl)
           K1 == SplitKeys(T, rt, K)
           o == Internal(<<sep>>, <<rt, r>>)
           W == Append(U, o)
<1>1. T \in Seq(Node) /\ N \in Nat /\ rt \in 1..N
  BY TreeParts
<1>2. NodeOK(T[rt]) /\ K[rt] \subseteq Key
  BY <1>1, TreeNode
<1>3. sep \in K[rt] /\ sep \in Key /\ \E e \in K[rt] : e < sep
  BY <1>1, SepBelow
<1>4. U \in Seq(Node) /\ Len(U) = r
  BY <1>1, <1>2, ApartIs
<1>5. TreeOK(U, rt, H, L1, K1)
  BY <1>1, SplitTree
<1>6. Orphan(U, r)
  BY <1>1, ApartOrphan
<1>7. /\ L1[r] = lvl[rt] /\ L1[rt] = lvl[rt]
      /\ K1[rt] = {y \in K[rt] : y < sep} /\ K1[r] = {y \in K[rt] : ~(y < sep)}
  <2>1. r \in 1..(Len(T) + 1) /\ rt \in 1..(Len(T) + 1) /\ rt # r
    BY <1>1
  <2>2. L1[r] = lvl[rt] /\ L1[rt] = lvl[rt]
    BY <2>1 DEF SplitLvl
  <2>3. K1[rt] = {y \in K[rt] : y < sep} /\ K1[r] = {y \in K[rt] : ~(y < sep)}
    BY <2>1 DEF SplitKeys
  <2> QED
    BY <2>2, <2>3
<1>8. r \in 1..Len(U) /\ r # rt /\ rt \in Nat /\ r \in Nat /\ Len(U) + 1 = Len(T) + 2
  BY <1>1, <1>4
<1>9. Top(T, rt) = W
  BY DEF Top
<1>10. o \in Node
  <2> HIDE DEF o
  <2>1. InternalOK(o)
    BY <1>3, <1>8, RootNode DEF o
  <2> QED
    BY <2>1 DEF InternalOK, Node
<1> HIDE DEF r, sep, U, L1, K1, o
<1>11. OnTop(U, W, o)
  BY <1>4, <1>10, AppendOnTop
<1> HIDE DEF W
<1>12. /\ \A y \in K1[rt] : y \in K[rt] /\ y < sep
       /\ \A y \in K1[r] : y \in K[rt] /\ ~(y < sep)
       /\ L1[r] = L1[rt] /\ K[rt] \in SUBSET Key
  BY <1>2, <1>7
<1>13. PICK L2, K2 : L2 = RootLvl(U, L1, L1[rt] + 1) /\ K2 = RootKeys(U, K1, K[rt])
  OBVIOUS
<1>14. o = Internal(<<sep>>, <<rt, r>>)
  BY DEF o
<1>15. TreeOK(W, Len(U) + 1, H + 1, L2, K2)
  BY <1>3, <1>5, <1>6, <1>8, <1>11, <1>12, <1>13, <1>14, OverTree
<1> QED
  BY <1>8, <1>9, <1>15

\* The blocks with node i written, and what that means.
Write(T, i, o) == [T EXCEPT ![i] = o]

Written(T, V, i, o) == Len(V) = Len(T) /\ V[i] = o /\ \A m \in 1..Len(T) : m # i => V[m] = T[m]

\* Writing a leaf.
LEMMA WriteTree ==
    ASSUME NEW T, NEW rt, NEW H, NEW lvl, NEW K, TreeOK(T, rt, H, lvl, K),
           NEW i \in 1..Len(T), T[i].type = "leaf", NEW o, LeafOK(o), KeysOf(o) \subseteq K[i],
           NEW V, V = Write(T, i, o)
    PROVE  TreeOK(V, rt, H, lvl, K) /\ Written(T, V, i, o)
<1> DEFINE N == Len(T)
<1>1. T \in Seq(Node) /\ N \in Nat
  BY TreeParts
<1>2. o.type = "leaf" /\ o \in Node /\ NodeOK(o)
  BY LeafParts DEF LeafOK, Node, NodeOK
<1>3. V \in Seq(Node) /\ Len(V) = N /\ V[i] = o /\ \A m \in 1..N : m # i => V[m] = T[m]
  BY <1>1, <1>2, ExceptSeq DEF Write
<1>4. \A m \in 1..N : V[m].type # "leaf" => m # i /\ V[m] = T[m]
  BY <1>2, <1>3
<1> HIDE DEF N
<1>5. TreeType(V, rt, H, lvl, K)
  BY <1>3 DEF TreeOK, TreeType, N
<1>6. TreeNodes(V)
  BY <1>2, <1>3 DEF TreeOK, TreeNodes, N
<1>7. TreeKeys(V, K)
  <2> SUFFICES ASSUME NEW m \in 1..N, NEW y \in KeysOf(V[m])
               PROVE  y \in K[m] /\ (V[m].type # "leaf" => \E e \in K[m] : e < y)
    BY <1>3 DEF TreeKeys
  <2>1. CASE m = i
    BY <1>2, <1>3, <2>1
  <2>2. CASE m # i
    BY <1>3, <2>2 DEF TreeOK, TreeKeys, N
  <2> QED
    BY <2>1, <2>2
<1>8. TreeChildren(V, rt, lvl, K)
  <2> SUFFICES ASSUME NEW m \in 1..N, V[m].type # "leaf", NEW j \in Kids(V[m])
               PROVE  TreeChild(V, rt, lvl, K, m, j)
    BY <1>3 DEF TreeChildren
  <2>1. V[m] = T[m]
    BY <1>4
  <2>2. TreeChild(T, rt, lvl, K, m, j)
    BY <2>1 DEF TreeOK, TreeChildren, N
  <2> QED
    BY <1>3, <2>1, <2>2 DEF TreeChild, N
<1>9. TreeSlots(V)
  BY <1>3, <1>4 DEF TreeOK, TreeSlots, N
<1>10. TreeLeaves(V, lvl)
  BY <1>3 DEF TreeOK, TreeLeaves, N
<1> QED
  BY <1>3, <1>5, <1>6, <1>7, <1>8, <1>9, <1>10 DEF TreeOK, N, Written

\* The child that a key leads to is a node one level lower, and not the root.
LEMMA ChildIn ==
    ASSUME NEW T, NEW rt, NEW H, NEW lvl, NEW K, TreeOK(T, rt, H, lvl, K),
           NEW n \in 1..Len(T), T[n].type # "leaf", NEW x \in Key
    PROVE  /\ FindChild(T[n], x) \in Kids(T[n])
           /\ Child(T[n], x) = T[n].children[FindChild(T[n], x)]
           /\ Child(T[n], x) \in 1..Len(T) /\ Child(T[n], x) # rt
           /\ lvl[n] = lvl[Child(T[n], x)] + 1
<1>1. InternalOK(T[n])
  BY TreeNode, NodeKeys
<1>2. T[n].keys \in Seq(Key) /\ Ascending(T[n].keys) /\ Len(T[n].children) = Len(T[n].keys) + 1
  BY <1>1, InternalParts
<1>3. FindChild(T[n], x) \in Kids(T[n])
  BY <1>2, FindChildSpec DEF Kids
<1>4. Child(T[n], x) = T[n].children[FindChild(T[n], x)]
  BY DEF Child
<1> QED
  BY <1>3, <1>4, TreeDown

-----------------------------------------------------------------------------
(* The nodes that a key is looked for in.                                  *)

\* A set of nodes that a key does not lead out of.
Closed(T, x, S) == \A n \in S : T[n].type # "leaf" => Child(T[n], x) \in S

\* The nodes on the way of a key from the root.
On(T, rt, x) ==
    {n \in 1..Len(T) : \A S \in SUBSET (1..Len(T)) : rt \in S /\ Closed(T, x, S) => n \in S}

\* The nodes on the way of a key: the root, and the child of each.
LEMMA OnStep ==
    ASSUME NEW T, NEW rt, NEW H, NEW lvl, NEW K, TreeOK(T, rt, H, lvl, K), NEW x \in Key
    PROVE  /\ rt \in On(T, rt, x) /\ On(T, rt, x) \subseteq 1..Len(T)
           /\ \A n \in On(T, rt, x) : T[n].type # "leaf" => Child(T[n], x) \in On(T, rt, x)
<1>1. rt \in 1..Len(T)
  BY TreeParts
<1>2. ASSUME NEW n \in On(T, rt, x), T[n].type # "leaf"
      PROVE  Child(T[n], x) \in On(T, rt, x)
  <2>1. n \in 1..Len(T)
    BY DEF On
  <2>2. Child(T[n], x) \in 1..Len(T)
    BY <1>2, <2>1, ChildIn
  <2>3. ASSUME NEW S \in SUBSET (1..Len(T)), rt \in S, Closed(T, x, S)
        PROVE  Child(T[n], x) \in S
    <3>1. n \in S
      BY <2>3 DEF On
    <3> QED
      BY <1>2, <2>3, <3>1 DEF Closed
  <2> QED
    BY <2>2, <2>3 DEF On
<1> QED
  BY <1>1, <1>2 DEF On

\* They are the least set of this kind.
LEMMA OnLeast ==
    ASSUME NEW T, NEW rt, NEW x, NEW S \in SUBSET (1..Len(T)), rt \in S,
           \A n \in S : T[n].type # "leaf" => Child(T[n], x) \in S
    PROVE  On(T, rt, x) \subseteq S
BY DEF On, Closed

\* Every node on the way but the root is the child of one that is.
LEMMA OnParent ==
    ASSUME NEW T, NEW rt, NEW H, NEW lvl, NEW K, TreeOK(T, rt, H, lvl, K), NEW x \in Key,
           NEW c \in On(T, rt, x), c # rt
    PROVE  \E n \in On(T, rt, x) : T[n].type # "leaf" /\ Child(T[n], x) = c
<1> SUFFICES ASSUME \A n \in On(T, rt, x) : T[n].type # "leaf" => Child(T[n], x) # c
             PROVE  FALSE
  OBVIOUS
<1> DEFINE S == On(T, rt, x) \ {c}
<1>1. /\ rt \in On(T, rt, x) /\ On(T, rt, x) \subseteq 1..Len(T)
      /\ \A n \in On(T, rt, x) : T[n].type # "leaf" => Child(T[n], x) \in On(T, rt, x)
  BY OnStep
<1>2. S \in SUBSET (1..Len(T)) /\ rt \in S /\ \A n \in S : T[n].type # "leaf" => Child(T[n], x) \in S
  BY <1>1
<1>3. c \notin S
  OBVIOUS
<1> HIDE DEF S
<1>4. On(T, rt, x) \subseteq S
  BY <1>2, OnLeast
<1> QED
  BY <1>3, <1>4

\* The parent of a node is unique, and so is its place there.
LEMMA OnSlot ==
    ASSUME NEW T, NEW rt, NEW H, NEW lvl, NEW K, TreeOK(T, rt, H, lvl, K), NEW x \in Key,
           NEW n \in 1..Len(T), T[n].type # "leaf", NEW j \in Kids(T[n]),
           NEW c \in On(T, rt, x), T[n].children[j] = c
    PROVE  n \in On(T, rt, x) /\ FindChild(T[n], x) = j
<1>1. c # rt
  BY TreeDown
<1>2. PICK m \in On(T, rt, x) : T[m].type # "leaf" /\ Child(T[m], x) = c
  BY <1>1, OnParent
<1>3. m \in 1..Len(T)
  BY OnStep
<1>4. FindChild(T[m], x) \in Kids(T[m]) /\ Child(T[m], x) = T[m].children[FindChild(T[m], x)]
  BY <1>2, <1>3, ChildIn
<1>5. TreeSlots(T)
  BY DEF TreeOK
<1>6. n = m /\ j = FindChild(T[m], x)
  BY <1>2, <1>3, <1>4, <1>5 DEF TreeSlots
<1> QED
  BY <1>2, <1>6

\* A node holds the key that is looked for in it.
GrownKeys(T, rt, K, k) == [n \in 1..Len(T) |-> IF n \in On(T, rt, k) THEN K[n] \cup {k} ELSE K[n]]

\* A key can join the key sets of the nodes on its way.
LEMMA GrowTree ==
    ASSUME NEW T, NEW rt, NEW H, NEW lvl, NEW K, TreeOK(T, rt, H, lvl, K), NEW k \in Key
    PROVE  TreeOK(T, rt, H, lvl, GrownKeys(T, rt, K, k))
<1> DEFINE K2 == GrownKeys(T, rt, K, k)
<1>1. /\ K \in [1..Len(T) -> SUBSET Key]
  BY TreeParts
<1>2. \A n \in 1..Len(T) : K2[n] = IF n \in On(T, rt, k) THEN K[n] \cup {k} ELSE K[n]
  BY DEF GrownKeys
<1>3. K2 \in [1..Len(T) -> SUBSET Key]
  <2>1. \A n \in 1..Len(T) : K[n] \in SUBSET Key
    BY <1>1
  <2> QED
    BY <2>1 DEF GrownKeys
<1> HIDE DEF K2
<1>4. TreeType(T, rt, H, lvl, K2)
  BY <1>3 DEF TreeOK, TreeType
<1>5. \A n \in 1..Len(T) : K[n] \subseteq K2[n]
  BY <1>2
<1>6. TreeKeys(T, K2)
  <2>1. TreeKeys(T, K)
    BY DEF TreeOK
  <2> QED
    BY <1>5, <2>1 DEF TreeKeys
<1>7. TreeChildren(T, rt, lvl, K2)
  <2> SUFFICES ASSUME NEW n \in 1..Len(T), T[n].type # "leaf", NEW j \in Kids(T[n])
               PROVE  TreeChild(T, rt, lvl, K2, n, j)
    BY DEF TreeChildren
  <2> DEFINE c == T[n].children[j]
  <2>1. /\ c \in 1..Len(T) /\ c # rt /\ lvl[n] = lvl[c] + 1
        /\ \A y \in K[c] : y \in K[n] /\ FindChild(T[n], y) = j
    BY TreeDown
  <2> HIDE DEF c
  <2>2. ASSUME NEW y \in K2[c]
        PROVE  y \in K2[n] /\ FindChild(T[n], y) = j
    <3>1. CASE y \in K[c]
      BY <1>5, <2>1, <3>1
    <3>2. CASE y = k /\ c \in On(T, rt, k)
      <4>1. n \in On(T, rt, k) /\ FindChild(T[n], k) = j
        BY <3>2, OnSlot DEF c
      <4> QED
        BY <1>2, <3>2, <4>1
    <3> QED
      BY <1>2, <2>1, <3>1, <3>2
  <2> QED
    BY <2>1, <2>2 DEF TreeChild, c
<1> QED
  BY <1>4, <1>6, <1>7 DEF TreeOK, K2

\* A key of a node is looked for in it, and so is a key between two others.
LEMMA OnHome ==
    ASSUME NEW T, NEW rt, NEW H, NEW lvl, NEW K, TreeOK(T, rt, H, lvl, K), NEW x \in Key,
           NEW i \in On(T, rt, x), NEW y \in K[i]
    PROVE  i \in On(T, rt, y)
<1>0. y \in Key
  <2>1. i \in 1..Len(T)
    BY OnStep
  <2> QED
    BY <2>1, TreeNode
<1> DEFINE S == {n \in On(T, rt, x) : y \in K[n] => n \in On(T, rt, y)}
<1>1. /\ rt \in On(T, rt, x) /\ On(T, rt, x) \subseteq 1..Len(T) /\ rt \in On(T, rt, y)
      /\ \A n \in On(T, rt, x) : T[n].type # "leaf" => Child(T[n], x) \in On(T, rt, x)
  BY <1>0, OnStep
<1>2. ASSUME NEW n \in S, T[n].type # "leaf"
      PROVE  Child(T[n], x) \in S
  <2> DEFINE c == Child(T[n], x)
             j == FindChild(T[n], x)
  <2>1. n \in 1..Len(T) /\ c \in On(T, rt, x)
    BY <1>1, <1>2
  <2>2. j \in Kids(T[n]) /\ c = T[n].children[j]
    BY <1>2, <2>1, ChildIn
  <2>c. \A z : FindChild(T[n], z) = j => Child(T[n], z) = c
    BY DEF Child
  <2> HIDE DEF c, j
  <2>3. \A z \in K[c] : z \in K[n] /\ FindChild(T[n], z) = j
    BY <1>2, <2>1, <2>2, TreeDown
  <2>4. ASSUME y \in K[c]
        PROVE  c \in On(T, rt, y)
    <3>1. y \in K[n] /\ FindChild(T[n], y) = j
      BY <2>3, <2>4
    <3>2. n \in On(T, rt, y)
      BY <3>1
    <3>3. Child(T[n], y) = c
      BY <2>c, <3>1
    <3> QED
      BY <1>0, <1>2, <3>2, <3>3, OnStep
  <2> QED
    BY <2>1, <2>4 DEF c
<1>3. On(T, rt, x) \subseteq S
  <2>1. S \in SUBSET (1..Len(T)) /\ rt \in S
    BY <1>1
  <2> HIDE DEF S
  <2> QED
    BY <1>2, <2>1, OnLeast
<1> QED
  BY <1>3

\* The keys whose way leads through a node are a range.
LEMMA OnConvex ==
    ASSUME NEW T, NEW rt, NEW H, NEW lvl, NEW K, TreeOK(T, rt, H, lvl, K),
           NEW x \in Key, NEW y \in Key, NEW z \in Key, x <= z, z <= y,
           NEW i \in On(T, rt, x), i \in On(T, rt, y)
    PROVE  i \in On(T, rt, z)
<1> DEFINE S == {n \in On(T, rt, x) : n \in On(T, rt, y) => n \in On(T, rt, z)}
<1>1. /\ rt \in On(T, rt, x) /\ On(T, rt, x) \subseteq 1..Len(T) /\ rt \in On(T, rt, z)
      /\ \A n \in On(T, rt, x) : T[n].type # "leaf" => Child(T[n], x) \in On(T, rt, x)
  BY OnStep
<1>2. ASSUME NEW n \in S, T[n].type # "leaf"
      PROVE  Child(T[n], x) \in S
  <2> DEFINE c == Child(T[n], x)
             j == FindChild(T[n], x)
  <2>1. n \in 1..Len(T) /\ c \in On(T, rt, x)
    BY <1>1, <1>2
  <2>2. j \in Kids(T[n]) /\ c = T[n].children[j]
    BY <1>2, <2>1, ChildIn
  <2>c. /\ \A w : FindChild(T[n], w) = j => Child(T[n], w) = c
        /\ FindChild(T[n], x) = j
    BY DEF Child
  <2> HIDE DEF c, j
  <2>4. ASSUME c \in On(T, rt, y)
        PROVE  c \in On(T, rt, z)
    <3>1. n \in On(T, rt, y) /\ FindChild(T[n], y) = j
      <4> HIDE DEF S
      <4>1. /\ TreeOK(T, rt, H, lvl, K) /\ y \in Key /\ n \in 1..Len(T) /\ T[n].type # "leaf" /\ j \in Kids(T[n])
            /\ c \in On(T, rt, y) /\ T[n].children[j] = c
        BY <1>2, <2>1, <2>2, <2>4
      <4> QED
        BY ONLY <4>1, OnSlot
    <3>2. n \in On(T, rt, z)
      BY <3>1
    <3>3. T[n].keys \in Seq(Key) /\ Ascending(T[n].keys)
      BY <2>1, TreeNode, NodeKeys
    <3>4. FindChild(T[n], x) <= FindChild(T[n], z) /\ FindChild(T[n], z) <= FindChild(T[n], y)
      BY <3>3, FindChildMono
    <3>5. FindChild(T[n], z) \in Kids(T[n])
      BY <1>2, <2>1, ChildIn
    <3>6. FindChild(T[n], z) = j
      BY <2>2, <2>c, <3>1, <3>4, <3>5 DEF Kids
    <3>7. Child(T[n], z) = c
      BY <2>c, <3>6
    <3> QED
      BY <1>2, <3>2, <3>7, OnStep
  <2> QED
    BY <2>1, <2>4 DEF c
<1>3. On(T, rt, x) \subseteq S
  <2>1. S \in SUBSET (1..Len(T)) /\ rt \in S
    BY <1>1
  <2> HIDE DEF S
  <2> QED
    BY <1>2, <2>1, OnLeast
<1> QED
  BY <1>3

-----------------------------------------------------------------------------
(* LeafFor and get, by induction over the levels.                           *)

\* Induction over the natural numbers, for a set.
LEMMA UpFromZero ==
    ASSUME NEW P, 0 \in P, \A h \in Nat : h \in P => h + 1 \in P
    PROVE  Nat \subseteq P
<1> SUFFICES ASSUME Nat \ P # {} PROVE FALSE
  OBVIOUS
<1>1. PICK h \in Nat \ P : \A g \in Nat \ P : h <= g
  BY LeastNat
<1>2. h # 0 /\ h - 1 \in Nat
  BY <1>1
<1>3. h - 1 \in P
  BY <1>1, <1>2
<1>4. (h - 1) + 1 \in P /\ (h - 1) + 1 = h
  BY <1>2, <1>3
<1> QED
  BY <1>4

\* The body of LeafFor.
LeafStep(T, x, f, i) == IF T[i].type = "leaf" THEN i ELSE f[Child(T[i], x)]

\* The recursive function of LeafFor exists.
LEMMA LeafForExists ==
    ASSUME NEW T, NEW rt, NEW H, NEW lvl, NEW K, TreeOK(T, rt, H, lvl, K), NEW x \in Key
    PROVE  \E f : f = [i \in 1..Len(T) |-> LeafStep(T, x, f, i)]
<1> DEFINE D == 1..Len(T)
           P == {h \in Nat : \E f : f = [i \in D |-> f[i]] /\ \A i \in D : lvl[i] <= h => f[i] = LeafStep(T, x, f, i)}
<1>1. \A i \in D : lvl[i] \in Nat /\ lvl[i] <= H /\ H \in Nat
  BY TreeNode, TreeParts
<1>2. ASSUME NEW i \in D, T[i].type # "leaf"
      PROVE  Child(T[i], x) \in D /\ lvl[i] = lvl[Child(T[i], x)] + 1
  BY <1>2, ChildIn
<1>3. 0 \in P
  <2> DEFINE f == [i \in D |-> i]
  <2>1. f = [i \in D |-> f[i]]
    OBVIOUS
  <2>2. ASSUME NEW i \in D, lvl[i] <= 0
        PROVE  f[i] = LeafStep(T, x, f, i)
    <3>1. T[i].type = "leaf"
      BY <1>1, <1>2, <2>2
    <3> QED
      BY <3>1 DEF LeafStep
  <2> QED
    BY <2>1, <2>2
<1>4. ASSUME NEW h \in Nat, h \in P
      PROVE  h + 1 \in P
  <2>1. PICK f : f = [i \in D |-> f[i]] /\ \A i \in D : lvl[i] <= h => f[i] = LeafStep(T, x, f, i)
    BY <1>4
  <2> DEFINE g == [i \in D |-> LeafStep(T, x, f, i)]
  <2>2. \A i \in D : g[i] = LeafStep(T, x, f, i)
    OBVIOUS
  <2>3. g = [i \in D |-> g[i]]
    OBVIOUS
  <2> HIDE DEF g
  <2>4. ASSUME NEW i \in D, lvl[i] <= h + 1
        PROVE  g[i] = LeafStep(T, x, g, i)
    <3>1. CASE T[i].type = "leaf"
      BY <2>2, <3>1 DEF LeafStep
    <3>2. CASE T[i].type # "leaf"
      <4> DEFINE c == Child(T[i], x)
      <4>1. c \in D /\ lvl[c] <= h
        BY <1>1, <1>2, <2>4, <3>2
      <4>2. f[c] = g[c]
        BY <2>1, <2>2, <4>1
      <4> QED
        BY <2>2, <3>2, <4>2 DEF LeafStep
    <3> QED
      BY <3>1, <3>2
  <2>5. h + 1 \in Nat
    OBVIOUS
  <2> QED
    BY <2>3, <2>4, <2>5
<1> HIDE DEF P
<1>5. H \in P
  BY <1>3, <1>4, TreeParts, UpFromZero
<1>6. PICK f : f = [i \in D |-> f[i]] /\ \A i \in D : lvl[i] <= H => f[i] = LeafStep(T, x, f, i)
  BY <1>5 DEF P
<1>7. \A i \in D : f[i] = LeafStep(T, x, f, i)
  BY <1>1, <1>6
<1>8. f = [i \in D |-> LeafStep(T, x, f, i)]
  BY <1>6, <1>7, Zenon
<1> QED
  BY <1>8

\* LeafFor goes on to the child.
LEMMA LeafForStep ==
    ASSUME NEW T, NEW rt, NEW H, NEW lvl, NEW K, TreeOK(T, rt, H, lvl, K), NEW x \in Key, NEW i \in 1..Len(T)
    PROVE  LeafFor(T, i, x) = IF T[i].type = "leaf" THEN i ELSE LeafFor(T, Child(T[i], x), x)
<1> DEFINE fn == CHOOSE f : f = [n \in DOMAIN T |-> IF T[n].type = "leaf" THEN n ELSE f[Child(T[n], x)]]
<1>1. \A n : LeafFor(T, n, x) = fn[n]
  BY DEF LeafFor
<1>2. DOMAIN T = 1..Len(T)
  BY TreeParts, LenProperties
<1>3. \E f : f = [n \in DOMAIN T |-> IF T[n].type = "leaf" THEN n ELSE f[Child(T[n], x)]]
  BY <1>2, LeafForExists DEF LeafStep
<1>4. fn = [n \in DOMAIN T |-> IF T[n].type = "leaf" THEN n ELSE fn[Child(T[n], x)]]
  BY <1>3, Zenon
<1> HIDE DEF fn
<1>5. fn[i] = IF T[i].type = "leaf" THEN i ELSE fn[Child(T[i], x)]
  BY <1>2, <1>4
<1> QED
  BY <1>1, <1>5

\* Induction from the leaves upwards.
LEMMA BottomUp ==
    ASSUME NEW T, NEW rt, NEW H, NEW lvl, NEW K, TreeOK(T, rt, H, lvl, K), NEW S,
           \A i \in 1..Len(T) : (\A c \in 1..Len(T) : lvl[c] < lvl[i] => c \in S) => i \in S
    PROVE  1..Len(T) \subseteq S
<1> DEFINE D == 1..Len(T)
           P == {h \in Nat : \A i \in D : lvl[i] < h => i \in S}
<1>1. \A i \in D : lvl[i] \in Nat /\ lvl[i] <= H
  BY TreeNode
<1>2. H \in Nat
  BY TreeParts
<1>3. 0 \in P
  BY <1>1
<1>4. ASSUME NEW h \in Nat, h \in P
      PROVE  h + 1 \in P
  <2> SUFFICES ASSUME NEW i \in D, lvl[i] < h + 1
               PROVE  i \in S
    OBVIOUS
  <2>1. \A c \in D : lvl[c] < lvl[i] => c \in S
    BY <1>1, <1>4
  <2> QED
    BY <2>1
<1> HIDE DEF P
<1>5. H + 1 \in P
  BY <1>2, <1>3, <1>4, UpFromZero
<1>6. \A i \in D : lvl[i] < H + 1
  BY <1>1, <1>2
<1> QED
  BY <1>5, <1>6 DEF P

\* LeafFor comes to a leaf.
LEMMA LeafForIn ==
    ASSUME NEW T, NEW rt, NEW H, NEW lvl, NEW K, TreeOK(T, rt, H, lvl, K), NEW x \in Key, NEW i \in 1..Len(T)
    PROVE  LeafFor(T, i, x) \in 1..Len(T) /\ T[LeafFor(T, i, x)].type = "leaf"
<1> DEFINE S == {n \in 1..Len(T) : LeafFor(T, n, x) \in 1..Len(T) /\ T[LeafFor(T, n, x)].type = "leaf"}
<1>1. ASSUME NEW n \in 1..Len(T), \A c \in 1..Len(T) : lvl[c] < lvl[n] => c \in S
      PROVE  n \in S
  <2>1. LeafFor(T, n, x) = IF T[n].type = "leaf" THEN n ELSE LeafFor(T, Child(T[n], x), x)
    BY LeafForStep
  <2>2. CASE T[n].type = "leaf"
    BY <2>1, <2>2
  <2>3. CASE T[n].type # "leaf"
    <3>1. Child(T[n], x) \in 1..Len(T) /\ lvl[n] = lvl[Child(T[n], x)] + 1
      BY <2>3, ChildIn
    <3>2. lvl[Child(T[n], x)] \in Nat
      BY <3>1, TreeNode
    <3>3. Child(T[n], x) \in S
      BY <1>1, <3>1, <3>2
    <3> QED
      BY <2>1, <2>3, <3>3
  <2> QED
    BY <2>2, <2>3
<1> HIDE DEF S
<1>2. 1..Len(T) \subseteq S
  BY <1>1, BottomUp
<1> QED
  BY <1>2 DEF S

\* A node on the way to a key leads to the key's leaf.
LEMMA OnLeafFor ==
    ASSUME NEW T, NEW rt, NEW H, NEW lvl, NEW K, TreeOK(T, rt, H, lvl, K), NEW x \in Key
    PROVE  /\ \A n \in On(T, rt, x) : LeafFor(T, n, x) = LeafFor(T, rt, x)
           /\ LeafFor(T, rt, x) \in On(T, rt, x)
           /\ \A n \in On(T, rt, x) : T[n].type = "leaf" => n = LeafFor(T, rt, x)
<1> DEFINE S == {n \in On(T, rt, x) : LeafFor(T, n, x) = LeafFor(T, rt, x)}
           R == {n \in 1..Len(T) : n \in On(T, rt, x) => LeafFor(T, n, x) \in On(T, rt, x)}
<1>1. /\ rt \in On(T, rt, x) /\ On(T, rt, x) \subseteq 1..Len(T)
      /\ \A n \in On(T, rt, x) : T[n].type # "leaf" => Child(T[n], x) \in On(T, rt, x)
  BY OnStep
<1>2. \A n \in 1..Len(T) : LeafFor(T, n, x) = IF T[n].type = "leaf" THEN n ELSE LeafFor(T, Child(T[n], x), x)
  BY LeafForStep
<1>3. S \in SUBSET (1..Len(T)) /\ rt \in S /\ \A n \in S : T[n].type # "leaf" => Child(T[n], x) \in S
  BY <1>1, <1>2
<1>4. ASSUME NEW n \in 1..Len(T), \A c \in 1..Len(T) : lvl[c] < lvl[n] => c \in R
      PROVE  n \in R
  <2> SUFFICES ASSUME n \in On(T, rt, x)
               PROVE  LeafFor(T, n, x) \in On(T, rt, x)
    OBVIOUS
  <2>1. CASE T[n].type = "leaf"
    BY <1>2, <2>1
  <2>2. CASE T[n].type # "leaf"
    <3>1. Child(T[n], x) \in 1..Len(T) /\ lvl[n] = lvl[Child(T[n], x)] + 1
      BY <2>2, ChildIn
    <3>2. lvl[Child(T[n], x)] \in Nat
      BY <3>1, TreeNode
    <3>3. Child(T[n], x) \in R /\ Child(T[n], x) \in On(T, rt, x)
      BY <1>1, <1>4, <2>2, <3>1, <3>2
    <3> QED
      BY <1>2, <2>2, <3>3
  <2> QED
    BY <2>1, <2>2
<1> HIDE DEF S, R
<1>5. On(T, rt, x) \subseteq S
  BY <1>3, OnLeast
<1>6. 1..Len(T) \subseteq R
  BY <1>4, BottomUp
<1>7. \A n \in On(T, rt, x) : LeafFor(T, n, x) = LeafFor(T, rt, x)
  BY <1>5 DEF S
<1>8. LeafFor(T, rt, x) \in On(T, rt, x)
  BY <1>1, <1>6 DEF R
<1> QED
  BY <1>1, <1>2, <1>7, <1>8

\* Nothing is found below a node that does not have the key.
LEMMA GetNothing ==
    ASSUME NEW T, NEW rt, NEW H, NEW lvl, NEW K, TreeOK(T, rt, H, lvl, K), NEW x \in Key,
           NEW i \in 1..Len(T), x \notin K[i]
    PROVE  get(T, i, x) = None
<1> DEFINE S == {n \in 1..Len(T) : x \notin K[n] => get(T, n, x) = None}
<1>1. ASSUME NEW n \in 1..Len(T), \A c \in 1..Len(T) : lvl[c] < lvl[n] => c \in S
      PROVE  n \in S
  <2> SUFFICES ASSUME x \notin K[n]
               PROVE  get(T, n, x) = None
    OBVIOUS
  <2>1. LeafFor(T, n, x) = IF T[n].type = "leaf" THEN n ELSE LeafFor(T, Child(T[n], x), x)
    BY LeafForStep
  <2>2. CASE T[n].type = "leaf"
    <3>1. KeysOf(T[n]) \subseteq K[n] /\ LeafOK(T[n])
      BY <2>2, TreeNode, NodeKeys
    <3>2. LeafGet(T[n], x) = None
      BY <3>1, LeafGetSpec
    <3> QED
      BY <2>1, <2>2, <3>2 DEF get
  <2>3. CASE T[n].type # "leaf"
    <3> DEFINE c == Child(T[n], x)
               j == FindChild(T[n], x)
    <3>1. c \in 1..Len(T) /\ lvl[n] = lvl[c] + 1 /\ j \in Kids(T[n]) /\ c = T[n].children[j]
      BY <2>3, ChildIn
    <3>2. get(T, n, x) = get(T, c, x)
      BY <2>1, <2>3 DEF get
    <3> HIDE DEF c, j
    <3>3. lvl[c] \in Nat
      BY <3>1, TreeNode
    <3>4. c \in S
      BY <1>1, <3>1, <3>3
    <3>5. \A y \in K[c] : y \in K[n]
      BY <2>3, <3>1, TreeDown
    <3> QED
      BY <3>2, <3>4, <3>5
  <2> QED
    BY <2>2, <2>3
<1> HIDE DEF S
<1>2. 1..Len(T) \subseteq S
  BY <1>1, BottomUp
<1> QED
  BY <1>2 DEF S

\* The nodes below a level are the same, but for what is in the leaves.
Unmoved(T, V, lvl, h) ==
    \A n \in 1..Len(T) : lvl[n] < h => V[n].type = T[n].type /\ (T[n].type # "leaf" => V[n] = T[n])

\* The leaves below a node stay where they are as long as the nodes below it do.
LEMMA SameBelow ==
    ASSUME NEW T, NEW rt, NEW H, NEW lvl, NEW K, TreeOK(T, rt, H, lvl, K),
           NEW V, NEW rt2, NEW H2, NEW lvl2, NEW K2, TreeOK(V, rt2, H2, lvl2, K2),
           NEW h \in Int, Len(T) <= Len(V),
           Unmoved(T, V, lvl, h), NEW x \in Key
    PROVE  \A n \in 1..Len(T) : lvl[n] < h => LeafFor(V, n, x) = LeafFor(T, n, x)
<1> DEFINE S == {n \in 1..Len(T) : lvl[n] < h => LeafFor(V, n, x) = LeafFor(T, n, x)}
<1>0. Len(T) \in Nat /\ Len(V) \in Nat /\ 1..Len(T) \subseteq 1..Len(V)
  <2>1. Len(T) \in Nat /\ Len(V) \in Nat
    BY TreeParts
  <2> QED
    BY <2>1
<1>1. ASSUME NEW n \in 1..Len(T), \A c \in 1..Len(T) : lvl[c] < lvl[n] => c \in S
      PROVE  n \in S
  <2> SUFFICES ASSUME lvl[n] < h
               PROVE  LeafFor(V, n, x) = LeafFor(T, n, x)
    OBVIOUS
  <2>1. LeafFor(T, n, x) = IF T[n].type = "leaf" THEN n ELSE LeafFor(T, Child(T[n], x), x)
    BY LeafForStep
  <2>2. LeafFor(V, n, x) = IF V[n].type = "leaf" THEN n ELSE LeafFor(V, Child(V[n], x), x)
    BY <1>0, LeafForStep
  <2>3. V[n].type = T[n].type /\ (T[n].type # "leaf" => V[n] = T[n])
    BY DEF Unmoved
  <2>4. CASE T[n].type = "leaf"
    BY <2>1, <2>2, <2>3, <2>4
  <2>5. CASE T[n].type # "leaf"
    <3> DEFINE c == Child(T[n], x)
    <3>0. TreeOK(T, rt, H, lvl, K)
      OBVIOUS
    <3>1. c \in 1..Len(T) /\ lvl[n] = lvl[c] + 1
      BY ONLY <2>5, <3>0, n \in 1..Len(T), x \in Key, ChildIn
    <3> HIDE DEF c
    <3>2. lvl[c] \in Nat
      BY <3>1, TreeNode
    <3>3. c \in S /\ lvl[c] < lvl[n] /\ lvl[n] \in Nat
      BY <1>1, <3>1, <3>2
    <3>4. LeafFor(V, c, x) = LeafFor(T, c, x)
      <4>1. lvl[c] < h
        BY <3>2, <3>3
      <4> QED
        BY <3>3, <4>1
    <3> QED
      BY <2>1, <2>2, <2>3, <2>5, <3>4 DEF c
  <2> QED
    BY <2>4, <2>5
<1> HIDE DEF S
<1>2. 1..Len(T) \subseteq S
  BY <1>1, BottomUp
<1> QED
  BY <1>2 DEF S

-----------------------------------------------------------------------------
(* What a split does to LeafFor, get and the right links.                   *)

\* The halves of node i, as the blocks get them.
Left(T, i) == Split(T[i], Len(T) + 1)[1]

Right(T, i) == Split(T[i], Len(T) + 1)[2]

\* The halves of an internal node lead on to the children of the whole.
LEMMA SplitChild ==
    ASSUME NEW n, NodeOK(n), Splits(n), n.type # "leaf", NEW r \in Nat,
           NEW a, NEW b, a = Split(n, r)[1], b = Split(n, r)[2], NEW x \in Key
    PROVE  /\ x < Sep(n) => Child(a, x) = Child(n, x)
           /\ ~(x < Sep(n)) => Child(b, x) = Child(n, x)
<1>1. PICK mid \in 1..(Len(n.children) - 1) : Divides(n, a, b, Sep(n), mid)
  BY SplitInternalSpec
<1>2. /\ \A q \in 1..mid : a.children[q] = n.children[q]
      /\ \A q \in 1..(Len(n.children) - mid) : b.children[q] = n.children[mid + q]
      /\ FindChild(n, x) \in 1..Len(n.children)
      /\ x < Sep(n) => FindChild(a, x) = FindChild(n, x) /\ FindChild(n, x) <= mid
      /\ ~(x < Sep(n)) => FindChild(b, x) = FindChild(n, x) - mid /\ mid < FindChild(n, x)
  BY <1>1 DEF Divides
<1>3. Len(n.children) \in Nat
  BY NodeKeys, InternalParts
<1>4. CASE x < Sep(n)
  <2>1. FindChild(n, x) \in 1..mid
    BY <1>1, <1>2, <1>3, <1>4
  <2> QED
    BY <1>2, <1>4, <2>1 DEF Child
<1>5. CASE ~(x < Sep(n))
  <2>1. FindChild(n, x) - mid \in 1..(Len(n.children) - mid) /\ mid + (FindChild(n, x) - mid) = FindChild(n, x)
    <3>1. \A M, q, m \in Nat : m >= 1 /\ q <= M /\ m < q => q - m \in 1..(M - m) /\ m + (q - m) = q
      OBVIOUS
    <3>2. mid \in Nat /\ mid >= 1 /\ FindChild(n, x) \in Nat /\ FindChild(n, x) <= Len(n.children) /\ mid < FindChild(n, x)
      <4>1. mid \in Nat /\ mid >= 1
        BY <1>1, <1>3
      <4>2. FindChild(n, x) \in Nat /\ FindChild(n, x) <= Len(n.children)
        BY <1>2, <1>3
      <4> QED
        BY <1>2, <1>5, <4>1, <4>2
    <3> QED
      BY <1>3, <3>1, <3>2
  <2>2. b.children[FindChild(n, x) - mid] = n.children[FindChild(n, x)]
    BY <1>2, <2>1
  <2> QED
    BY <1>2, <1>5, <2>2 DEF Child
<1> QED
  BY <1>4, <1>5

\* The halves of a node lead to the leaves that the whole led to.
LEMMA HalvesLead ==
    ASSUME NEW T, NEW rt, NEW H, NEW lvl, NEW K, TreeOK(T, rt, H, lvl, K),
           NEW V, NEW rt2, NEW H2, NEW lvl2, NEW K2, TreeOK(V, rt2, H2, lvl2, K2),
           NEW i \in 1..Len(T), Splits(T[i]), Len(T) + 1 \in 1..Len(V), Len(T) <= Len(V),
           V[i] = Left(T, i), V[Len(T) + 1] = Right(T, i), Unmoved(T, V, lvl, lvl[i]), NEW x \in Key
    PROVE  /\ x < Sep(T[i]) => LeafFor(V, i, x) = LeafFor(T, i, x)
           /\ ~(x < Sep(T[i])) => LeafFor(V, Len(T) + 1, x) = IF T[i].type = "leaf" THEN Len(T) + 1 ELSE LeafFor(T, i, x)
<1> DEFINE r == Len(T) + 1
           a == V[i]
           b == V[r]
           sep == Sep(T[i])
<1>1. Len(T) \in Nat /\ Len(V) \in Nat /\ r \in Nat /\ i \in 1..Len(V) /\ r \in 1..Len(V)
  <2>1. Len(T) \in Nat /\ Len(V) \in Nat
    BY TreeParts
  <2> QED
    BY <2>1
<1>2. NodeOK(T[i]) /\ lvl[i] \in Nat
  BY TreeNode
<1>3. a = Split(T[i], r)[1] /\ b = Split(T[i], r)[2]
  BY DEF Left, Right
<1>4. LeafFor(T, i, x) = IF T[i].type = "leaf" THEN i ELSE LeafFor(T, Child(T[i], x), x)
  BY LeafForStep
<1>5. /\ LeafFor(V, i, x) = IF a.type = "leaf" THEN i ELSE LeafFor(V, Child(a, x), x)
      /\ LeafFor(V, r, x) = IF b.type = "leaf" THEN r ELSE LeafFor(V, Child(b, x), x)
  BY <1>1, LeafForStep
<1> HIDE DEF r, a, b, sep
<1>6. a.type = T[i].type /\ b.type = T[i].type
  <2>1. HalvesOf(T[i], a, b, Sep(T[i]), r)
    BY <1>1, <1>2, <1>3, SplitLeafSpec, SplitInternalSpec
  <2> QED
    BY <2>1 DEF HalvesOf
<1>7. CASE T[i].type = "leaf"
  BY <1>4, <1>5, <1>6, <1>7 DEF r
<1>8. CASE T[i].type # "leaf"
  <2> DEFINE c == Child(T[i], x)
  <2>1. c \in 1..Len(T) /\ lvl[i] = lvl[c] + 1
    BY <1>8, ChildIn
  <2>2. lvl[c] \in Nat
    BY <2>1, TreeNode
  <2>3. /\ x < Sep(T[i]) => Child(a, x) = c
        /\ ~(x < Sep(T[i])) => Child(b, x) = c
    BY <1>1, <1>2, <1>3, <1>8, SplitChild
  <2> HIDE DEF c
  <2>4. lvl[c] < lvl[i] /\ lvl[i] \in Int
    BY <2>1, <2>2
  <2>5. LeafFor(V, c, x) = LeafFor(T, c, x)
    BY <2>1, <2>4, SameBelow
  <2>6. LeafFor(T, i, x) = LeafFor(T, c, x)
    BY <1>4, <1>8 DEF c
  <2> QED
    BY <1>5, <1>6, <1>8, <2>3, <2>5, <2>6 DEF r
<1> QED
  BY <1>7, <1>8

\* Where the leaves of the keys are after node i has been split.
Moved(T, rt, V, rt2, i) ==
    /\ \A x \in Key : LeafFor(V, rt2, x) = IF LeafFor(T, rt, x) = i /\ ~(x < Sep(T[i])) THEN Len(T) + 1
                                           ELSE LeafFor(T, rt, x)
    /\ V[i] = Left(T, i) /\ V[Len(T) + 1] = Right(T, i)
    /\ \A m \in 1..Len(T) : m # i /\ T[m].type = "leaf" => V[m] = T[m]

\* The separator of a split child is new in the parent, and leads to that child.
LEMMA SepNew ==
    ASSUME NEW T, NEW rt, NEW H, NEW lvl, NEW K, TreeOK(T, rt, H, lvl, K),
           NEW i \in 1..Len(T), Splits(T[i]), NEW n \in 1..Len(T), T[n].type # "leaf",
           NEW j \in Kids(T[n]), T[n].children[j] = i
    PROVE  Sep(T[i]) \notin KeysOf(T[n]) /\ FindChild(T[n], Sep(T[i])) = j
<1> DEFINE u == T[n]
           sep == Sep(T[i])
<1>1. \A y \in K[i] : y \in K[n] /\ FindChild(T[n], y) = j
  BY TreeDown
<1>2. sep \in K[i] /\ sep \in Key /\ sep \in Int /\ \E e \in K[i] : e < sep
  BY SepBelow
<1>3. PICK e \in K[i] : e < sep
  BY <1>2
<1>4. K[i] \subseteq Key /\ K[i] \subseteq Int
  BY TreeNode
<1>5. u.keys \in Seq(Key) /\ Ascending(u.keys)
  BY TreeNode, NodeKeys
<1>6. FindChild(u, sep) = j /\ FindChild(u, e) = j /\ e \in Key /\ e \in Int
  BY <1>1, <1>2, <1>3, <1>4
<1> HIDE DEF u, sep
<1>7. sep \notin KeysOf(u)
  <2> SUFFICES ASSUME sep \in KeysOf(u) PROVE FALSE
    OBVIOUS
  <2>1. PICK p \in 1..Len(u.keys) : u.keys[p] = sep
    BY DEF KeysOf
  <2>3. u.keys[p] <= sep <=> p < FindChild(u, sep)
    BY <1>2, <1>5, FindChildSpec
  <2>4. u.keys[p] <= e <=> p < FindChild(u, e)
    BY <1>5, <1>6, FindChildSpec
  <2> QED
    BY <1>2, <1>3, <1>6, <2>1, <2>3, <2>4
<1> QED
  BY <1>6, <1>7 DEF u, sep

\* What Join writes into which block.
LEMMA JoinIs ==
    ASSUME NEW T, NEW rt, NEW H, NEW lvl, NEW K, TreeOK(T, rt, H, lvl, K),
           NEW i \in 1..Len(T), Splits(T[i]), NEW n \in 1..Len(T), T[n].type # "leaf",
           ~InternalIsFull(T[n]), NEW j \in Kids(T[n]), T[n].children[j] = i,
           NEW V, V = Join(T, i, n)
    PROVE  /\ Len(V) = Len(T) + 1 /\ V[i] = Left(T, i) /\ V[Len(T) + 1] = Right(T, i)
           /\ \A m \in 1..Len(T) : m # i /\ m # n => V[m] = T[m]
           /\ Widened(T[n], V[n], Sep(T[i]), Len(T) + 1, j)
           /\ i # n
<1> DEFINE U == Apart(T, i)
           o == InternalInsert(T[n], Sep(T[i]), Len(T) + 1)
<1>1. T \in Seq(Node) /\ Len(T) \in Nat /\ NodeOK(T[i]) /\ Len(T) + 1 \in Nat
  BY TreeParts, TreeNode
<1>2. i # n
  BY TreeDown
<1>3. InternalOK(T[n])
  BY TreeNode, NodeKeys
<1>4. Sep(T[i]) \notin KeysOf(T[n]) /\ FindChild(T[n], Sep(T[i])) = j /\ Sep(T[i]) \in Key
  BY SepNew, SepBelow
<1>5. Widened(T[n], o, Sep(T[i]), Len(T) + 1, j)
  BY <1>1, <1>3, <1>4, InternalInsertSpec
<1>6. o \in Node
  BY <1>5 DEF Widened, InternalOK, Node
<1>7. /\ U \in Seq(Node) /\ Len(U) = Len(T) + 1 /\ U[Len(T) + 1] = Right(T, i)
      /\ \A m \in 1..Len(T) : U[m] = IF m = i THEN Left(T, i) ELSE T[m]
  BY <1>1, ApartIs DEF Left, Right
<1>8. V = [U EXCEPT ![n] = o]
  BY DEF Join
<1> HIDE DEF U, o
<1>9. n \in 1..Len(U) /\ Len(T) + 1 \in 1..Len(U) /\ Len(T) + 1 # n /\ \A m \in 1..Len(T) : m \in 1..Len(U)
  BY <1>1, <1>7
<1>10. Len(V) = Len(U) /\ \A m \in 1..Len(U) : V[m] = IF m = n THEN o ELSE U[m]
  BY <1>6, <1>7, <1>8, <1>9, ExceptSeq
<1> QED
  BY <1>2, <1>5, <1>7, <1>9, <1>10

\* The parent leads to the right half from the separator on, and where it did before.
LEMMA JoinChild ==
    ASSUME NEW T, NEW rt, NEW H, NEW lvl, NEW K, TreeOK(T, rt, H, lvl, K),
           NEW i \in 1..Len(T), Splits(T[i]), NEW n \in 1..Len(T), T[n].type # "leaf",
           NEW j \in Kids(T[n]), T[n].children[j] = i,
           NEW o, Widened(T[n], o, Sep(T[i]), Len(T) + 1, j), NEW x \in Key
    PROVE  Child(o, x) = IF Child(T[n], x) = i /\ ~(x < Sep(T[i])) THEN Len(T) + 1 ELSE Child(T[n], x)
<1> DEFINE u == T[n]
           M == Len(u.children)
           q == FindChild(u, x)
           sep == Sep(T[i])
           r == Len(T) + 1
<1>1. /\ \A p \in 1..(M + 1) :
            o.children[p] = IF p <= j THEN u.children[p] ELSE IF p = j + 1 THEN r ELSE u.children[p - 1]
      /\ q \in 1..M /\ j \in 1..M
      /\ x < sep => FindChild(o, x) = q /\ q <= j
      /\ ~(x < sep) => FindChild(o, x) = q + 1 /\ j <= q
  BY DEF Widened
<1>2. M \in Nat
  BY TreeNode, NodeKeys, InternalParts
<1>3. \A p \in 1..M : u.children[p] = i => p = j
  <2>1. Kids(T[n]) = 1..M
    BY DEF Kids
  <2>2. TreeSlots(T)
    BY DEF TreeOK
  <2> QED
    BY <2>1, <2>2 DEF TreeSlots
<1>4. Child(u, x) = u.children[q] /\ u.children[j] = i
  BY DEF Child
<1> HIDE DEF u, M, q, sep, r
<1>5. CASE x < sep
  <2>1. q \in 1..(M + 1) /\ q <= j
    BY <1>1, <1>2, <1>5
  <2>2. Child(o, x) = u.children[q]
    BY <1>1, <1>5, <2>1 DEF Child
  <2> QED
    BY <1>4, <1>5, <2>2 DEF u, sep
<1>6. CASE ~(x < sep) /\ q = j
  <2>1. q + 1 \in 1..(M + 1) /\ ~(q + 1 <= j) /\ q + 1 = j + 1
    BY <1>1, <1>2, <1>6
  <2>2. Child(o, x) = r
    BY <1>1, <1>6, <2>1 DEF Child
  <2> QED
    BY <1>4, <1>6, <2>2 DEF u, sep, r
<1>7. CASE ~(x < sep) /\ q # j
  <2>1. q + 1 \in 1..(M + 1) /\ ~(q + 1 <= j) /\ q + 1 # j + 1 /\ (q + 1) - 1 = q
    BY <1>1, <1>2, <1>7
  <2>2. o.children[q + 1] = u.children[(q + 1) - 1]
    BY <1>1, <2>1
  <2>3. Child(o, x) = u.children[q]
    BY <1>1, <1>7, <2>1, <2>2 DEF Child
  <2>4. u.children[q] # i
    BY <1>1, <1>3, <1>7
  <2> QED
    BY <1>4, <1>7, <2>3, <2>4 DEF u, sep
<1> QED
  BY <1>5, <1>6, <1>7

\* Join moves the keys from the separator on to the right half, and no others.
LEMMA JoinMoved ==
    ASSUME NEW T, NEW rt, NEW H, NEW lvl, NEW K, TreeOK(T, rt, H, lvl, K),
           NEW i \in 1..Len(T), Splits(T[i]), NEW n \in 1..Len(T), T[n].type # "leaf",
           ~InternalIsFull(T[n]), NEW j \in Kids(T[n]), T[n].children[j] = i
    PROVE  Moved(T, rt, Join(T, i, n), rt, i)
<1>1. PICK V : V = Join(T, i, n)
  OBVIOUS
<1> DEFINE r == Len(T) + 1
           sep == Sep(T[i])
<1>2. /\ Len(V) = r /\ V[i] = Left(T, i) /\ V[r] = Right(T, i)
      /\ \A m \in 1..Len(T) : m # i /\ m # n => V[m] = T[m]
      /\ Widened(T[n], V[n], sep, r, j)
      /\ i # n
  BY <1>1, JoinIs
<1>3. PICK L2, K2 : TreeOK(V, rt, H, L2, K2)
  BY <1>1, JoinTree
<1>4. Len(T) \in Nat /\ r \in 1..Len(V) /\ Len(T) <= Len(V) /\ rt \in 1..Len(T) /\ \A m \in 1..Len(T) : m \in 1..Len(V)
  <2>1. Len(T) \in Nat /\ rt \in 1..Len(T)
    BY TreeParts
  <2> QED
    BY <1>2, <2>1
<1>5. V[n].type # "leaf"
  BY <1>2, InternalParts DEF Widened
<1>6. lvl[n] = lvl[i] + 1 /\ i # rt
  BY TreeDown
<1>7. \A m \in 1..Len(T) : lvl[m] \in Nat
  BY TreeNode
<1>8. Unmoved(T, V, lvl, lvl[i])
  <2> SUFFICES ASSUME NEW m \in 1..Len(T), lvl[m] < lvl[i]
               PROVE  V[m].type = T[m].type /\ (T[m].type # "leaf" => V[m] = T[m])
    BY DEF Unmoved
  <2>1. m # i /\ m # n
    BY <1>6, <1>7
  <2> QED
    BY <1>2, <2>1
<1> SUFFICES Moved(T, rt, V, rt, i)
  BY <1>1
<1>9. ASSUME NEW x \in Key
      PROVE  LeafFor(V, rt, x) = IF LeafFor(T, rt, x) = i /\ ~(x < sep) THEN r ELSE LeafFor(T, rt, x)
  <2> DEFINE To(l) == IF l = i /\ ~(x < sep) THEN r ELSE l
             S == {m \in 1..Len(T) : m # i => LeafFor(V, m, x) = To(LeafFor(T, m, x))}
  <2>1. /\ x < sep => LeafFor(V, i, x) = LeafFor(T, i, x)
        /\ ~(x < sep) => LeafFor(V, r, x) = IF T[i].type = "leaf" THEN r ELSE LeafFor(T, i, x)
    BY <1>2, <1>3, <1>4, <1>8, HalvesLead
  <2>2. LeafFor(T, i, x) = i <=> T[i].type = "leaf"
    BY LeafForIn, LeafForStep
  <2>3. ASSUME NEW m \in 1..Len(T), \A c \in 1..Len(T) : lvl[c] < lvl[m] => c \in S
        PROVE  m \in S
    <3> SUFFICES ASSUME m # i
                 PROVE  LeafFor(V, m, x) = To(LeafFor(T, m, x))
      OBVIOUS
    <3>1. LeafFor(T, m, x) = IF T[m].type = "leaf" THEN m ELSE LeafFor(T, Child(T[m], x), x)
      BY LeafForStep
    <3>2. LeafFor(V, m, x) = IF V[m].type = "leaf" THEN m ELSE LeafFor(V, Child(V[m], x), x)
      BY <1>3, <1>4, LeafForStep
    <3>3. CASE T[m].type = "leaf"
      <4>1. V[m] = T[m]
        BY <1>2, <3>3
      <4> QED
        BY <3>1, <3>2, <3>3, <4>1
    <3>4. CASE T[m].type # "leaf"
      <4> DEFINE c == Child(T[m], x)
      <4>1. c \in 1..Len(T) /\ lvl[m] = lvl[c] + 1
        BY <3>4, ChildIn
      <4>2. V[m].type # "leaf"
        BY <1>2, <1>5, <3>4
      <4>3. Child(V[m], x) = IF m = n /\ c = i /\ ~(x < sep) THEN r ELSE c
        <5>1. CASE m = n
          BY <1>2, <5>1, JoinChild
        <5>2. CASE m # n
          BY <1>2, <5>2
        <5> QED
          BY <5>1, <5>2
      <4>4. c = i => m = n
        <5>1. FindChild(T[m], x) \in Kids(T[m]) /\ c = T[m].children[FindChild(T[m], x)]
          BY <3>4, ChildIn
        <5>2. TreeSlots(T)
          BY DEF TreeOK
        <5> QED
          BY <3>4, <5>1, <5>2 DEF TreeSlots
      <4>5. c \in S
        <5>1. lvl[c] < lvl[m]
          BY <1>7, <4>1
        <5> QED
          BY <2>3, <4>1, <5>1
      <4>6. LeafFor(T, m, x) = LeafFor(T, c, x) /\ LeafFor(V, m, x) = LeafFor(V, Child(V[m], x), x)
        BY <3>1, <3>2, <3>4, <4>2
      <4> HIDE DEF c
      <4>7. CASE c # i
        <5>1. LeafFor(V, c, x) = To(LeafFor(T, c, x))
          BY <4>5, <4>7
        <5> QED
          BY <4>3, <4>6, <4>7, <5>1
      <4>8. CASE c = i
        BY <2>1, <2>2, <4>3, <4>4, <4>6, <4>8
      <4> QED
        BY <4>7, <4>8
    <3> QED
      BY <3>3, <3>4
  <2> HIDE DEF S
  <2>4. 1..Len(T) \subseteq S
    BY <2>3, BottomUp
  <2> QED
    BY <1>4, <1>6, <2>4 DEF S
<1>10. \A m \in 1..Len(T) : m # i /\ T[m].type = "leaf" => V[m] = T[m]
  BY <1>2
<1> QED
  BY <1>2, <1>9, <1>10 DEF Moved

\* W is T with its root split under a new one.
Topped(T, rt, W) ==
    /\ Len(W) = Len(T) + 2 /\ W[rt] = Left(T, rt) /\ W[Len(T) + 1] = Right(T, rt)
    /\ \A m \in 1..Len(T) : m # rt => W[m] = T[m]
    /\ W[Len(T) + 2] = Internal(<<Sep(T[rt])>>, <<rt, Len(T) + 1>>)

\* What Top writes into which block.
LEMMA TopIs ==
    ASSUME NEW T, NEW rt, NEW H, NEW lvl, NEW K, TreeOK(T, rt, H, lvl, K), Splits(T[rt]),
           NEW W, W = Top(T, rt)
    PROVE  Topped(T, rt, W)
<1> DEFINE U == Apart(T, rt)
           o == Internal(<<Sep(T[rt])>>, <<rt, Len(T) + 1>>)
<1>1. T \in Seq(Node) /\ Len(T) \in Nat /\ Len(T) + 1 \in Nat /\ rt \in 1..Len(T) /\ rt \in Nat
  BY TreeParts
<1>2. NodeOK(T[rt]) /\ Sep(T[rt]) \in Key
  BY <1>1, TreeNode, SepBelow
<1>3. /\ U \in Seq(Node) /\ Len(U) = Len(T) + 1 /\ U[Len(T) + 1] = Right(T, rt)
      /\ \A m \in 1..Len(T) : U[m] = IF m = rt THEN Left(T, rt) ELSE T[m]
  BY <1>1, <1>2, ApartIs DEF Left, Right
<1>4. W = Append(U, o)
  BY DEF Top
<1>5. o \in Node
  <2>0. PICK s, d : s = Sep(T[rt]) /\ d = Len(T) + 1
    OBVIOUS
  <2>a. s \in Key /\ d \in Nat /\ rt \in Nat /\ o = Internal(<<s>>, <<rt, d>>)
    BY <1>1, <1>2, <2>0
  <2> HIDE DEF o
  <2>1. InternalOK(o)
    BY <2>a, RootNode
  <2> QED
    BY <2>1 DEF InternalOK, Node
<1> HIDE DEF U, o
<1>6. Len(W) = Len(U) + 1 /\ W[Len(U) + 1] = o /\ \A m \in 1..Len(U) : W[m] = U[m]
  BY <1>3, <1>4, <1>5, AppendOnTop DEF OnTop
<1>7. Len(U) + 1 = Len(T) + 2 /\ Len(T) + 1 \in 1..Len(U) /\ \A m \in 1..Len(T) : m \in 1..Len(U)
  <2>1. Len(T) \in Nat /\ Len(U) = Len(T) + 1
    BY <1>1, <1>3
  <2> QED
    BY <2>1
<1> QED
  BY <1>1, <1>3, <1>6, <1>7 DEF o, Topped

\* Top moves the keys from the separator on to the right half, and no others.
LEMMA TopMoved ==
    ASSUME NEW T, NEW rt, NEW H, NEW lvl, NEW K, TreeOK(T, rt, H, lvl, K), Splits(T[rt])
    PROVE  Moved(T, rt, Top(T, rt), Len(T) + 2, rt)
<1>1. PICK W : W = Top(T, rt)
  OBVIOUS
<1> DEFINE r == Len(T) + 1
           w == Len(T) + 2
           sep == Sep(T[rt])
<1>2. /\ Len(W) = w /\ W[rt] = Left(T, rt) /\ W[r] = Right(T, rt)
      /\ \A m \in 1..Len(T) : m # rt => W[m] = T[m]
      /\ W[w] = Internal(<<sep>>, <<rt, r>>)
  <2>1. Topped(T, rt, W)
    BY <1>1, TopIs
  <2> QED
    BY <2>1 DEF Topped
<1>3. PICK L2, K2 : TreeOK(W, w, H + 1, L2, K2)
  BY <1>1, TopTree
<1>4. Len(T) \in Nat /\ r \in 1..Len(W) /\ Len(T) <= Len(W) /\ rt \in 1..Len(T) /\ w \in 1..Len(W) /\ rt \in Nat /\ r \in Nat
  <2>1. Len(T) \in Nat /\ rt \in 1..Len(T)
    BY TreeParts
  <2> QED
    BY <1>2, <2>1
<1>5. sep \in Key
  BY <1>4, SepBelow
<1>6. Unmoved(T, W, lvl, lvl[rt])
  <2> SUFFICES ASSUME NEW m \in 1..Len(T), lvl[m] < lvl[rt]
               PROVE  W[m].type = T[m].type /\ (T[m].type # "leaf" => W[m] = T[m])
    BY DEF Unmoved
  <2>1. lvl[rt] \in Nat
    BY <1>4, TreeNode
  <2>2. m # rt
    BY <2>1
  <2> QED
    BY <1>2, <2>2
<1> SUFFICES Moved(T, rt, W, w, rt)
  BY <1>1
<1>7. ASSUME NEW x \in Key
      PROVE  LeafFor(W, w, x) = IF LeafFor(T, rt, x) = rt /\ ~(x < sep) THEN r ELSE LeafFor(T, rt, x)
  <2>1. /\ x < sep => LeafFor(W, rt, x) = LeafFor(T, rt, x)
        /\ ~(x < sep) => LeafFor(W, r, x) = IF T[rt].type = "leaf" THEN r ELSE LeafFor(T, rt, x)
    BY <1>2, <1>3, <1>4, <1>6, HalvesLead
  <2>2. LeafFor(T, rt, x) = rt <=> T[rt].type = "leaf"
    BY <1>4, LeafForIn, LeafForStep
  <2>3. LeafFor(W, w, x) = IF W[w].type = "leaf" THEN w ELSE LeafFor(W, Child(W[w], x), x)
    BY <1>3, <1>4, LeafForStep
  <2>4. W[w].type # "leaf" /\ Child(W[w], x) = IF x < sep THEN rt ELSE r
    <3>1. PICK o : o = Internal(<<sep>>, <<rt, r>>)
      OBVIOUS
    <3>a. sep \in Key /\ rt \in Nat /\ r \in Nat
      BY <1>4, <1>5
    <3> HIDE DEF r, sep, w
    <3>2. /\ o.type = "internal" /\ o.children[1] = rt /\ o.children[2] = r
          /\ FindChild(o, x) = IF x < sep THEN 1 ELSE 2
      BY <3>1, <3>a, RootNode
    <3>3. Child(o, x) = IF x < sep THEN rt ELSE r
      BY <3>2 DEF Child
    <3> QED
      BY <1>2, <3>1, <3>2, <3>3
  <2> QED
    BY <2>1, <2>2, <2>3, <2>4
<1>8. \A m \in 1..Len(T) : m # rt /\ T[m].type = "leaf" => W[m] = T[m]
  BY <1>2
<1> QED
  BY <1>2, <1>7, <1>8 DEF Moved

\* Splitting a node changes nothing that is found.
LEMMA MovedGet ==
    ASSUME NEW T, NEW rt, NEW H, NEW lvl, NEW K, TreeOK(T, rt, H, lvl, K),
           NEW i \in 1..Len(T), Splits(T[i]), NEW V, NEW rt2, Moved(T, rt, V, rt2, i), NEW x \in Key
    PROVE  get(V, rt2, x) = get(T, rt, x)
<1> DEFINE L == LeafFor(T, rt, x)
           r == Len(T) + 1
           sep == Sep(T[i])
<1>1. rt \in 1..Len(T) /\ r \in Nat
  BY TreeParts
<1>2. L \in 1..Len(T) /\ T[L].type = "leaf"
  BY <1>1, LeafForIn
<1>3. /\ LeafFor(V, rt2, x) = IF L = i /\ ~(x < sep) THEN r ELSE L
      /\ V[i] = Left(T, i) /\ V[r] = Right(T, i)
      /\ \A m \in 1..Len(T) : m # i /\ T[m].type = "leaf" => V[m] = T[m]
  BY DEF Moved
<1>4. get(T, rt, x) = LeafGet(T[L], x) /\ get(V, rt2, x) = LeafGet(V[LeafFor(V, rt2, x)], x)
  BY DEF get
<1> HIDE DEF L
<1>5. CASE L # i
  BY <1>2, <1>3, <1>4, <1>5
<1>6. CASE L = i
  <2>1. NodeOK(T[i]) /\ T[i].type = "leaf"
    BY <1>2, <1>6, TreeNode
  <2>2. V[i] = Split(T[i], r)[1] /\ V[r] = Split(T[i], r)[2]
    BY <1>3 DEF Left, Right
  <2> HIDE DEF r, sep
  <2>3. PICK a, b : a = V[i] /\ b = V[r]
    OBVIOUS
  <2>4. LeafGet(T[i], x) = IF x < sep THEN LeafGet(a, x) ELSE LeafGet(b, x)
    <3>1. a = Split(T[i], r)[1] /\ b = Split(T[i], r)[2] /\ r \in Nat
      BY <1>1, <2>2, <2>3
    <3> QED
      BY <2>1, <3>1, SplitLeafSpec DEF sep
  <2> QED
    BY <1>3, <1>4, <1>6, <2>3, <2>4
<1> QED
  BY <1>5, <1>6

\* A set of integers above some integer has a least one.
LEMMA MinAbove ==
    ASSUME NEW S, NEW x \in Int, S \subseteq Int, \A y \in S : x < y, S # {}
    PROVE  Min(S) \in S /\ \A y \in S : Min(S) <= y
<1> DEFINE Q == {y - x : y \in S}
<1>1. Q \in SUBSET Nat /\ Q # {}
  <2>1. ASSUME NEW y \in S
        PROVE  y - x \in Nat
    <3>1. y \in Int /\ x < y
      OBVIOUS
    <3> QED
      BY <3>1
  <2> QED
    BY <2>1
<1>2. PICK q \in Q : \A p \in Q : q <= p
  BY <1>1, LeastNat
<1>3. PICK m \in S : q = m - x
  BY <1>2
<1>4. \A y \in S : m <= y
  <2> SUFFICES ASSUME NEW y \in S
               PROVE  m <= y
    OBVIOUS
  <2>1. y \in Int /\ m \in Int /\ y - x \in Q
    OBVIOUS
  <2>2. m - x <= y - x
    BY <1>2, <1>3, <2>1
  <2> QED
    BY <2>1, <2>2
<1> QED
  BY <1>4 DEF Min

\* Min is the least element.
LEMMA MinIs ==
    ASSUME NEW S, NEW m \in S, S \subseteq Int, \A y \in S : m <= y
    PROVE  Min(S) = m
<1>1. Min(S) \in S /\ \A y \in S : Min(S) <= y
  BY DEF Min
<1>2. Min(S) <= m /\ m <= Min(S) /\ m \in Int /\ Min(S) \in Int
  BY <1>1
<1> QED
  BY <1>2

\* The keys above x that have another leaf.
Beyond(T, rt, x) == {y \in Key : x < y /\ LeafFor(T, rt, y) # LeafFor(T, rt, x)}

\* Linked, for one key.
LinkedAt(T, rt, x) ==
    T[LeafFor(T, rt, x)].right = IF Beyond(T, rt, x) = {} THEN 0 ELSE LeafFor(T, rt, Min(Beyond(T, rt, x)))

\* Linked, one key at a time.
LEMMA LinkedIs ==
    ASSUME NEW T, NEW rt
    PROVE  Linked(T, rt) <=> \A x \in Key : LinkedAt(T, rt, x)
BY DEF Linked, LinkedAt, Beyond

\* The least key that another leaf above has.
LEMMA BeyondMin ==
    ASSUME NEW T, NEW rt, NEW x \in Key, Beyond(T, rt, x) # {}
    PROVE  /\ Min(Beyond(T, rt, x)) \in Beyond(T, rt, x)
           /\ Min(Beyond(T, rt, x)) \in Key
           /\ \A y \in Beyond(T, rt, x) : Min(Beyond(T, rt, x)) <= y
<1> DEFINE S == Beyond(T, rt, x)
<1>1. S \subseteq Key /\ \A y \in S : x < y
  BY DEF Beyond
<1>2. x \in Int /\ S \subseteq Int
  BY <1>1
<1> HIDE DEF S
<1>3. Min(S) \in S /\ \A y \in S : Min(S) <= y
  BY <1>1, <1>2, MinAbove DEF S
<1> QED
  BY <1>1, <1>3 DEF S

\* The links stay in the order of the keys when a leaf is split.
LEMMA MovedLinked ==
    ASSUME NEW T, NEW rt, NEW H, NEW lvl, NEW K, TreeOK(T, rt, H, lvl, K),
           NEW i \in 1..Len(T), Splits(T[i]), NEW V, NEW rt2, Moved(T, rt, V, rt2, i), Linked(T, rt)
    PROVE  Linked(V, rt2)
<1> DEFINE F(x) == LeafFor(T, rt, x)
           G(x) == LeafFor(V, rt2, x)
           r == Len(T) + 1
           sep == Sep(T[i])
<1>1. rt \in 1..Len(T) /\ r \in Nat /\ r \notin 1..Len(T)
  <2>1. Len(T) \in Nat /\ rt \in 1..Len(T)
    BY TreeParts
  <2> QED
    BY <2>1
<1>2. \A x \in Key : F(x) \in 1..Len(T) /\ T[F(x)].type = "leaf"
  BY <1>1, LeafForIn
<1>3. /\ \A x \in Key : G(x) = IF F(x) = i /\ ~(x < sep) THEN r ELSE F(x)
      /\ V[i] = Left(T, i) /\ V[r] = Right(T, i)
      /\ \A m \in 1..Len(T) : m # i /\ T[m].type = "leaf" => V[m] = T[m]
  BY DEF Moved
<1>4. sep \in K[i] /\ sep \in Key /\ sep \in Int /\ \E e \in K[i] : e < sep
  BY SepBelow
<1>5. K[i] \subseteq Key
  BY TreeNode
<1>6. ASSUME NEW x \in Key, F(x) = i, NEW y \in K[i]
      PROVE  F(y) = i
  <2>0. y \in Key
    BY <1>5
  <2>1. i \in On(T, rt, x)
    BY <1>6, OnLeafFor
  <2>2. i \in On(T, rt, y)
    BY <2>1, OnHome
  <2>3. T[i].type = "leaf"
    BY <1>2, <1>6
  <2> QED
    BY <2>0, <2>2, <2>3, OnLeafFor
<1>7. ASSUME NEW x \in Key, NEW y \in Key, NEW z \in Key, F(x) = i, F(y) = i, x <= z, z <= y
      PROVE  F(z) = i
  <2>1. i \in On(T, rt, x) /\ i \in On(T, rt, y)
    BY <1>7, OnLeafFor
  <2>2. i \in On(T, rt, z)
    BY <1>7, <2>1, OnConvex
  <2>3. T[i].type = "leaf"
    BY <1>2, <1>7
  <2> QED
    BY <2>2, <2>3, OnLeafFor
<1>8. \A x \in Key : LinkedAt(T, rt, x)
  BY LinkedIs
<1>9. \A x \in Key : x \in Int
  OBVIOUS
<1> SUFFICES ASSUME NEW x \in Key PROVE LinkedAt(V, rt2, x)
  BY LinkedIs
<1> DEFINE A == Beyond(T, rt, x)
           B == Beyond(V, rt2, x)
<1>10. A = {y \in Key : x < y /\ F(y) # F(x)} /\ B = {y \in Key : x < y /\ G(y) # G(x)}
  BY DEF Beyond
<1>11. /\ A # {} => Min(A) \in A /\ Min(A) \in Key /\ \A y \in A : Min(A) <= y
       /\ B # {} => Min(B) \in B /\ Min(B) \in Key /\ \A y \in B : Min(B) <= y
  BY BeyondMin
<1>12. T[F(x)].right = IF A = {} THEN 0 ELSE F(Min(A))
  BY <1>8 DEF LinkedAt
<1>13. LinkedAt(V, rt2, x) <=> V[G(x)].right = IF B = {} THEN 0 ELSE G(Min(B))
  BY DEF LinkedAt
<1> HIDE DEF A, B, F, G, r, sep
<1>14. CASE F(x) # i
  <2>1. G(x) = F(x) /\ V[F(x)] = T[F(x)]
    BY <1>2, <1>3, <1>14
  <2>2. A = B
    <3>1. \A y \in Key : G(y) # G(x) <=> F(y) # F(x)
      BY <1>1, <1>2, <1>3, <1>14, <2>1
    <3> QED
      BY <1>10, <3>1
  <2>3. ASSUME A # {}
        PROVE  G(Min(A)) = F(Min(A))
    <3> DEFINE m == Min(A)
    <3>1. m \in A /\ m \in Key /\ \A y \in A : m <= y
      BY <1>11, <2>3
    <3> HIDE DEF m
    <3> SUFFICES ASSUME F(m) = i, ~(m < sep)
                 PROVE  FALSE
      BY <1>3, <3>1 DEF m
    <3>2. PICK e \in K[i] : e < sep
      BY <1>4
    <3>3. e \in Key /\ F(e) = i
      BY <1>5, <1>6, <3>1
    <3>4. e \in Int /\ x \in Int /\ m \in Int /\ e < m
      BY <1>4, <1>9, <3>1, <3>2, <3>3
    <3>5. x < m
      BY <1>10, <3>1
    <3>6. CASE x < e
      <4>1. e \in A
        BY <1>10, <1>14, <3>3, <3>6
      <4> QED
        BY <3>1, <3>4, <4>1
    <3>7. CASE ~(x < e)
      <4>1. e <= x /\ x <= m
        BY <3>4, <3>5, <3>7
      <4> QED
        BY <1>7, <1>14, <3>1, <3>3, <4>1
    <3> QED
      BY <3>6, <3>7
  <2> QED
    BY <1>12, <1>13, <2>1, <2>2, <2>3
<1>15. ASSUME F(x) = i
       PROVE  Left(T, i).right = r /\ Right(T, i).right = T[i].right
  <2>1. NodeOK(T[i]) /\ T[i].type = "leaf"
    BY <1>2, <1>15, TreeNode
  <2>2. PICK a, b : a = Split(T[i], r)[1] /\ b = Split(T[i], r)[2]
    OBVIOUS
  <2>3. a.right = r /\ b.right = T[i].right
    BY <1>1, <2>1, <2>2, SplitLeafSpec
  <2> QED
    BY <2>2, <2>3 DEF Left, Right, r
<1>16. CASE F(x) = i /\ x < sep
  <2>1. G(x) = i /\ V[i].right = r /\ i # r
    BY <1>1, <1>3, <1>15, <1>16
  <2>2. F(sep) = i /\ G(sep) = r
    <3>1. F(sep) = i
      BY <1>4, <1>6, <1>16
    <3> QED
      BY <1>3, <1>4, <3>1
  <2>3. sep \in B
    BY <1>4, <1>10, <1>16, <2>1, <2>2
  <2>4. ASSUME NEW y \in B
        PROVE  sep <= y
    <3>1. y \in Key /\ x < y /\ G(y) # i /\ y \in Int /\ x \in Int
      BY <1>9, <1>10, <2>1
    <3> SUFFICES ASSUME y < sep PROVE FALSE
      BY <1>4, <3>1
    <3>2. x <= y /\ y <= sep
      BY <1>4, <3>1
    <3>3. F(y) = i
      BY <1>4, <1>7, <1>16, <2>2, <3>1, <3>2
    <3> QED
      BY <1>3, <3>1, <3>3
  <2>5. B \subseteq Int
    BY <1>9, <1>10
  <2>6. Min(B) = sep
    BY <2>3, <2>4, <2>5, MinIs
  <2> QED
    BY <1>13, <2>1, <2>2, <2>3, <2>6
<1>17. CASE F(x) = i /\ ~(x < sep)
  <2>1. G(x) = r /\ V[r].right = T[i].right
    BY <1>3, <1>15, <1>17
  <2>2. ASSUME NEW y \in Key, x < y
        PROVE  /\ G(y) # r <=> F(y) # i
               /\ F(y) # i => G(y) = F(y)
    <3>1. ~(y < sep)
      BY <1>4, <1>9, <1>17, <2>2
    <3> QED
      BY <1>1, <1>2, <1>3, <3>1
  <2>3. A = B
    BY <1>10, <1>17, <2>1, <2>2
  <2>4. A # {} => G(Min(A)) = F(Min(A))
    BY <1>10, <1>11, <1>17, <2>2
  <2> QED
    BY <1>12, <1>13, <1>17, <2>1, <2>3, <2>4
<1> QED
  BY <1>14, <1>16, <1>17

\* The blocks are a tree for some levels and key sets.
Good(T, rt) == \E H, lvl, K : TreeOK(T, rt, H, lvl, K)

\* A full node would refuse every later Put.
NoneFull(T) == \A m \in 1..Len(T) : ~IsFull(T[m])

\* Writing a leaf moves nothing.
LEMMA WriteGet ==
    ASSUME NEW T, NEW rt, NEW H, NEW lvl, NEW K, TreeOK(T, rt, H, lvl, K),
           NEW i \in 1..Len(T), T[i].type = "leaf", NEW o, LeafOK(o), KeysOf(o) \subseteq K[i],
           NEW V, V = Write(T, i, o), NEW x \in Key
    PROVE  /\ LeafFor(V, rt, x) = LeafFor(T, rt, x)
           /\ get(V, rt, x) = IF LeafFor(T, rt, x) = i THEN LeafGet(o, x) ELSE get(T, rt, x)
<1>1. /\ TreeOK(V, rt, H, lvl, K)
      /\ Len(V) = Len(T) /\ V[i] = o /\ \A m \in 1..Len(T) : m # i => V[m] = T[m]
  <2>1. TreeOK(V, rt, H, lvl, K) /\ Written(T, V, i, o)
    BY WriteTree
  <2> QED
    BY <2>1 DEF Written
<1>2. o.type = "leaf"
  BY LeafParts
<1>3. H \in Nat /\ rt \in 1..Len(T) /\ Len(T) \in Nat
  BY TreeParts
<1>4. Unmoved(T, V, lvl, H + 1) /\ H + 1 \in Int /\ Len(T) <= Len(V)
  BY <1>1, <1>2, <1>3 DEF Unmoved
<1>5. lvl[rt] < H + 1
  <2>1. lvl[rt] \in Nat /\ lvl[rt] <= H
    BY <1>3, TreeNode
  <2> QED
    BY <1>3, <2>1
<1>6. LeafFor(V, rt, x) = LeafFor(T, rt, x)
  <2>1. TreeOK(T, rt, H, lvl, K)
    OBVIOUS
  <2> QED
    BY ONLY <1>1, <1>3, <1>4, <1>5, <2>1, SameBelow, x \in Key
<1>7. LeafFor(T, rt, x) \in 1..Len(T)
  BY <1>3, LeafForIn
<1>8. get(V, rt, x) = LeafGet(V[LeafFor(T, rt, x)], x) /\ get(T, rt, x) = LeafGet(T[LeafFor(T, rt, x)], x)
  BY <1>6 DEF get
<1> QED
  BY <1>1, <1>6, <1>7, <1>8

\* The links stay when a leaf is written that has the same one.
LEMMA WriteLinked ==
    ASSUME NEW T, NEW rt, NEW H, NEW lvl, NEW K, TreeOK(T, rt, H, lvl, K),
           NEW i \in 1..Len(T), T[i].type = "leaf", NEW o, LeafOK(o), KeysOf(o) \subseteq K[i],
           o.right = T[i].right, NEW V, V = Write(T, i, o), Linked(T, rt)
    PROVE  Linked(V, rt)
<1>1. /\ Len(V) = Len(T) /\ V[i] = o /\ \A m \in 1..Len(T) : m # i => V[m] = T[m]
  <2>1. Written(T, V, i, o)
    BY WriteTree
  <2> QED
    BY <2>1 DEF Written
<1>2. \A x \in Key : LeafFor(V, rt, x) = LeafFor(T, rt, x)
  <2> SUFFICES ASSUME NEW x \in Key
               PROVE  LeafFor(V, rt, x) = LeafFor(T, rt, x)
    OBVIOUS
  <2> QED
    BY WriteGet
<1>3. \A x \in Key : LeafFor(T, rt, x) \in 1..Len(T)
  BY TreeParts, LeafForIn
<1> SUFFICES ASSUME NEW x \in Key PROVE LinkedAt(V, rt, x)
  BY LinkedIs
<1>4. LinkedAt(T, rt, x)
  BY LinkedIs
<1>5. Beyond(V, rt, x) = Beyond(T, rt, x)
  BY <1>2 DEF Beyond
<1>6. Beyond(T, rt, x) # {} => Min(Beyond(T, rt, x)) \in Key
  BY BeyondMin
<1>7. V[LeafFor(T, rt, x)].right = T[LeafFor(T, rt, x)].right
  BY <1>1, <1>3
<1> QED
  BY <1>2, <1>4, <1>5, <1>6, <1>7 DEF LinkedAt

\* The right half of a node is lost when its parent is not told of it.
LEMMA ApartGet ==
    ASSUME NEW T, NEW rt, NEW H, NEW lvl, NEW K, TreeOK(T, rt, H, lvl, K),
           NEW i \in 1..Len(T), Splits(T[i]), NEW x \in Key
    PROVE  get(Apart(T, i), rt, x) = IF i \in On(T, rt, x) /\ ~(x < Sep(T[i])) THEN None ELSE get(T, rt, x)
<1> DEFINE U == Apart(T, i)
           L2 == SplitLvl(T, i, lvl)
           K2 == SplitKeys(T, i, K)
           r == Len(T) + 1
           sep == Sep(T[i])
<1>1. T \in Seq(Node) /\ Len(T) \in Nat /\ rt \in 1..Len(T) /\ r \in Nat
  BY TreeParts
<1>2. NodeOK(T[i])
  BY TreeNode
<1>3. /\ Len(U) = r /\ U[r] = Right(T, i)
      /\ \A m \in 1..Len(T) : U[m] = IF m = i THEN Left(T, i) ELSE T[m]
  BY <1>1, <1>2, ApartIs DEF Left, Right
<1>4. TreeOK(U, rt, H, L2, K2)
  BY SplitTree
<1>5. K2[i] = {y \in K[i] : y < sep}
  <2>1. i \in 1..(Len(T) + 1)
    BY <1>1
  <2> QED
    BY <2>1 DEF SplitKeys
<1>6. r \in 1..Len(U) /\ Len(T) <= Len(U) /\ \A m \in 1..Len(T) : m \in 1..Len(U)
  BY <1>1, <1>3
<1> HIDE DEF U, L2, K2, r
<1>7. \A m \in 1..Len(T) : lvl[m] \in Nat
  BY TreeNode
<1>8. CASE i \in On(T, rt, x) /\ ~(x < sep)
  <2>1. i \in On(U, rt, x)
    <3> DEFINE S == On(U, rt, x) \cap 1..Len(T)
    <3> SUFFICES ASSUME i \notin On(U, rt, x) PROVE FALSE
      OBVIOUS
    <3>1. /\ rt \in On(U, rt, x)
          /\ \A n \in On(U, rt, x) : U[n].type # "leaf" => Child(U[n], x) \in On(U, rt, x)
      BY <1>4, OnStep
    <3>2. ASSUME NEW n \in S, T[n].type # "leaf"
          PROVE  Child(T[n], x) \in S
      <4>1. n # i /\ U[n] = T[n]
        BY <1>3, <3>2
      <4>2. Child(T[n], x) \in 1..Len(T)
        BY <3>2, ChildIn
      <4> QED
        BY <3>1, <3>2, <4>1, <4>2
    <3>3. S \in SUBSET (1..Len(T)) /\ rt \in S
      BY <1>1, <3>1
    <3>4. i \notin S
      OBVIOUS
    <3> HIDE DEF S
    <3>5. On(T, rt, x) \subseteq S
      BY <3>2, <3>3, OnLeast
    <3> QED
      BY <1>8, <3>4, <3>5
  <2>2. LeafFor(U, i, x) = LeafFor(U, rt, x)
    BY <1>4, <2>1, OnLeafFor
  <2>3. x \notin K2[i]
    BY <1>5, <1>8
  <2>4. get(U, i, x) = None
    BY <1>4, <1>6, <2>3, GetNothing
  <2> QED
    BY <1>8, <2>2, <2>4 DEF get, U
<1>9. CASE ~(i \in On(T, rt, x) /\ ~(x < sep))
  <2> DEFINE S == {m \in 1..Len(T) : m \in On(T, rt, x) => LeafFor(U, m, x) = LeafFor(T, m, x)}
  <2>1. Unmoved(T, U, lvl, lvl[i])
    <3> SUFFICES ASSUME NEW m \in 1..Len(T), lvl[m] < lvl[i]
                 PROVE  U[m].type = T[m].type /\ (T[m].type # "leaf" => U[m] = T[m])
      BY DEF Unmoved
    <3>1. m # i
      BY <1>7
    <3> QED
      BY <1>3, <3>1
  <2>2. x < sep => LeafFor(U, i, x) = LeafFor(T, i, x)
    <3>1. Len(T) + 1 \in 1..Len(U) /\ U[i] = Left(T, i) /\ U[Len(T) + 1] = Right(T, i)
      BY <1>3, <1>6 DEF r
    <3> QED
      BY <1>4, <1>6, <2>1, <3>1, HalvesLead
  <2>3. ASSUME NEW m \in 1..Len(T), \A c \in 1..Len(T) : lvl[c] < lvl[m] => c \in S
        PROVE  m \in S
    <3> SUFFICES ASSUME m \in On(T, rt, x)
                 PROVE  LeafFor(U, m, x) = LeafFor(T, m, x)
      OBVIOUS
    <3>1. CASE m = i
      BY <1>9, <2>2, <3>1
    <3>2. CASE m # i
      <4>1. U[m] = T[m]
        BY <1>3, <3>2
      <4>2. LeafFor(T, m, x) = IF T[m].type = "leaf" THEN m ELSE LeafFor(T, Child(T[m], x), x)
        BY LeafForStep
      <4>3. LeafFor(U, m, x) = IF T[m].type = "leaf" THEN m ELSE LeafFor(U, Child(T[m], x), x)
        BY <1>4, <1>6, <4>1, LeafForStep
      <4>4. CASE T[m].type = "leaf"
        BY <4>2, <4>3, <4>4
      <4>5. CASE T[m].type # "leaf"
        <5> DEFINE c == Child(T[m], x)
        <5>1. c \in 1..Len(T) /\ lvl[m] = lvl[c] + 1
          BY <4>5, ChildIn
        <5>2. c \in On(T, rt, x)
          BY <4>5, OnStep
        <5> HIDE DEF c
        <5>3. lvl[c] < lvl[m]
          BY <1>7, <5>1
        <5>4. LeafFor(U, c, x) = LeafFor(T, c, x)
          BY <2>3, <5>1, <5>2, <5>3
        <5> QED
          BY <4>2, <4>3, <4>5, <5>4 DEF c
      <4> QED
        BY <4>4, <4>5
    <3> QED
      BY <3>1, <3>2
  <2> HIDE DEF S
  <2>4. 1..Len(T) \subseteq S
    BY <2>3, BottomUp
  <2>5. rt \in On(T, rt, x)
    BY OnStep
  <2>6. LeafFor(U, rt, x) = LeafFor(T, rt, x)
    BY <1>1, <2>4, <2>5 DEF S
  <2> DEFINE L == LeafFor(T, rt, x)
  <2>7. L \in 1..Len(T) /\ T[L].type = "leaf" /\ L \in On(T, rt, x)
    BY <1>1, LeafForIn, OnLeafFor
  <2>8. get(T, rt, x) = LeafGet(T[L], x) /\ get(U, rt, x) = LeafGet(U[L], x)
    BY <2>6 DEF get
  <2> HIDE DEF L
  <2>9. CASE L # i
    BY <1>3, <1>9, <2>7, <2>8, <2>9 DEF U
  <2>10. CASE L = i
    <3>1. x < sep /\ T[i].type = "leaf"
      BY <1>9, <2>7, <2>10
    <3>2. PICK a, b : a = Split(T[i], r)[1] /\ b = Split(T[i], r)[2]
      OBVIOUS
    <3>3. r \in Nat
      BY <1>1
    <3>4. LeafGet(T[i], x) = IF x < sep THEN LeafGet(a, x) ELSE LeafGet(b, x)
      BY <1>2, <3>1, <3>2, <3>3, SplitLeafSpec
    <3>5. U[i] = a
      BY <1>3, <3>2 DEF Left, r
    <3> QED
      BY <1>9, <2>8, <2>10, <3>1, <3>4, <3>5 DEF U
  <2> QED
    BY <2>9, <2>10
<1> QED
  BY <1>8, <1>9 DEF U

\* Neither half of a split is full.
LEMMA HalvesNotFull ==
    ASSUME NEW T, NEW i \in 1..Len(T), Len(T) \in Nat, NodeOK(T[i]), Splits(T[i])
    PROVE  ~IsFull(Left(T, i)) /\ ~IsFull(Right(T, i))
<1>1. PICK a, b, r : a = Split(T[i], r)[1] /\ b = Split(T[i], r)[2] /\ r = Len(T) + 1
  OBVIOUS
<1>2. r \in Nat
  BY <1>1
<1>3. a = Left(T, i) /\ b = Right(T, i)
  BY <1>1 DEF Left, Right
<1>4. CASE T[i].type = "leaf"
  <2>1. /\ HalvesOf(T[i], a, b, Sep(T[i]), r)
        /\ Len(a.keys) < Len(T[i].keys) /\ Len(b.keys) < Len(T[i].keys)
    BY <1>1, <1>2, <1>4, SplitLeafSpec
  <2>2. a.type = "leaf" /\ b.type = "leaf" /\ NodeOK(a) /\ NodeOK(b)
    BY <1>4, <2>1 DEF HalvesOf
  <2>3. LeafOK(a) /\ LeafOK(b) /\ LeafOK(T[i])
    BY <1>4, <2>2, NodeKeys
  <2>4. Len(a.keys) \in Nat /\ Len(b.keys) \in Nat /\ Len(T[i].keys) \in Nat /\ Len(T[i].keys) <= MaxLeafKeys
    BY <2>3, LeafParts
  <2>5. ~(Len(a.keys) >= MaxLeafKeys) /\ ~(Len(b.keys) >= MaxLeafKeys)
    BY <2>1, <2>4
  <2> QED
    BY <1>3, <2>2, <2>5 DEF IsFull, LeafIsFull
<1>5. CASE T[i].type # "leaf"
  <2>1. HalvesOf(T[i], a, b, Sep(T[i]), r) /\ \E mid \in 1..(Len(T[i].children) - 1) : Divides(T[i], a, b, Sep(T[i]), mid)
    BY <1>1, <1>2, <1>5, SplitInternalSpec
  <2>2. a.type # "leaf" /\ b.type # "leaf"
    BY <1>5, <2>1 DEF HalvesOf
  <2>3. PICK mid \in 1..(Len(T[i].children) - 1) : Divides(T[i], a, b, Sep(T[i]), mid)
    BY <2>1
  <2>4. Len(a.children) = mid /\ Len(b.children) = Len(T[i].children) - mid
    BY <2>3 DEF Divides
  <2>5. Len(T[i].children) \in Nat /\ Len(T[i].children) <= MaxInternalKeys + 1
    BY <1>5, NodeKeys, InternalParts
  <2>6. ~(Len(a.children) >= MaxInternalKeys + 1) /\ ~(Len(b.children) >= MaxInternalKeys + 1)
    <3>1. MaxInternalKeys \in Nat
      OBVIOUS
    <3> QED
      BY <2>3, <2>4, <2>5, <3>1
  <2> QED
    BY <1>3, <2>2, <2>6 DEF IsFull, InternalIsFull
<1> QED
  BY <1>4, <1>5

\* A full node has enough to be split.
LEMMA FullSplits ==
    ASSUME NEW n, NodeOK(n), IsFull(n)
    PROVE  Splits(n)
<1>1. CASE n.type = "leaf"
  <2>1. Len(n.keys) \in Nat /\ Len(n.keys) >= MaxLeafKeys
    BY <1>1, NodeKeys, LeafParts DEF IsFull, LeafIsFull
  <2> QED
    BY <1>1, <2>1 DEF Splits
<1>2. CASE n.type # "leaf"
  <2>1. Len(n.children) \in Nat /\ Len(n.children) >= MaxInternalKeys + 1
    BY <1>2, NodeKeys, InternalParts DEF IsFull, InternalIsFull
  <2> QED
    BY <1>2, <2>1 DEF Splits
<1> QED
  BY <1>1, <1>2

\* What a node makes of the result of its child.
After(r, i) == IF r.err # "nil" \/ r.id = 0 THEN r ELSE putChild(r, i)

\* The body of put.
PutStep(T, budget, k, v, f, i) ==
    IF T[i].type = "leaf" THEN putLeaf(T, budget, i, k, v) ELSE After(f[Child(T[i], k)], i)

PutFn(T, budget, k, v, f) == f = [i \in 1..Len(T) |-> PutStep(T, budget, k, v, f, i)]

\* The recursive function of put exists.
LEMMA PutExists ==
    ASSUME NEW T, NEW rt, NEW H, NEW lvl, NEW K, TreeOK(T, rt, H, lvl, K), NEW k \in Key, NEW v, NEW budget
    PROVE  \E f : PutFn(T, budget, k, v, f)
<1> DEFINE D == 1..Len(T)
           P == {h \in Nat : \E f : f = [i \in D |-> f[i]] /\ \A i \in D : lvl[i] <= h => f[i] = PutStep(T, budget, k, v, f, i)}
<1>1. \A i \in D : lvl[i] \in Nat /\ lvl[i] <= H /\ H \in Nat
  BY TreeNode, TreeParts
<1>2. ASSUME NEW i \in D, T[i].type # "leaf"
      PROVE  Child(T[i], k) \in D /\ lvl[i] = lvl[Child(T[i], k)] + 1
  BY <1>2, ChildIn
<1>3. 0 \in P
  <2> DEFINE f == [i \in D |-> putLeaf(T, budget, i, k, v)]
  <2>1. f = [i \in D |-> f[i]]
    OBVIOUS
  <2>2. ASSUME NEW i \in D, lvl[i] <= 0
        PROVE  f[i] = PutStep(T, budget, k, v, f, i)
    <3>1. T[i].type = "leaf"
      BY <1>1, <1>2, <2>2
    <3> QED
      BY <3>1 DEF PutStep
  <2> QED
    BY <2>1, <2>2
<1>4. ASSUME NEW h \in Nat, h \in P
      PROVE  h + 1 \in P
  <2>1. PICK f : f = [i \in D |-> f[i]] /\ \A i \in D : lvl[i] <= h => f[i] = PutStep(T, budget, k, v, f, i)
    BY <1>4
  <2> DEFINE g == [i \in D |-> PutStep(T, budget, k, v, f, i)]
  <2>2. \A i \in D : g[i] = PutStep(T, budget, k, v, f, i)
    OBVIOUS
  <2>3. g = [i \in D |-> g[i]]
    OBVIOUS
  <2> HIDE DEF g
  <2>4. ASSUME NEW i \in D, lvl[i] <= h + 1
        PROVE  g[i] = PutStep(T, budget, k, v, g, i)
    <3>1. CASE T[i].type = "leaf"
      BY <2>2, <3>1 DEF PutStep
    <3>2. CASE T[i].type # "leaf"
      <4> DEFINE c == Child(T[i], k)
      <4>1. c \in D /\ lvl[c] <= h
        BY <1>1, <1>2, <2>4, <3>2
      <4>2. f[c] = g[c]
        BY <2>1, <2>2, <4>1
      <4> QED
        BY <2>2, <3>2, <4>2 DEF PutStep
    <3> QED
      BY <3>1, <3>2
  <2>5. h + 1 \in Nat
    OBVIOUS
  <2> QED
    BY <2>3, <2>4, <2>5
<1> HIDE DEF P
<1>5. H \in P
  BY <1>3, <1>4, TreeParts, UpFromZero
<1>6. PICK f : f = [i \in D |-> f[i]] /\ \A i \in D : lvl[i] <= H => f[i] = PutStep(T, budget, k, v, f, i)
  BY <1>5 DEF P
<1>7. \A i \in D : f[i] = PutStep(T, budget, k, v, f, i)
  BY <1>1, <1>6
<1>8. f = [i \in D |-> PutStep(T, budget, k, v, f, i)]
  BY <1>6, <1>7, Zenon
<1> QED
  BY <1>8 DEF PutFn

\* put hands on what it gets from the child.
LEMMA PutIs ==
    ASSUME NEW T, NEW rt, NEW H, NEW lvl, NEW K, TreeOK(T, rt, H, lvl, K),
           NEW k \in Key, NEW v, NEW budget, NEW i \in 1..Len(T)
    PROVE  put(T, budget, i, k, v) =
             IF T[i].type = "leaf" THEN putLeaf(T, budget, i, k, v)
             ELSE After(put(T, budget, Child(T[i], k), k, v), i)
<1> DEFINE fn == CHOOSE f : f = [n \in DOMAIN T |->
                    IF T[n].type = "leaf" THEN putLeaf(T, budget, n, k, v)
                    ELSE LET r == f[Child(T[n], k)]
                         IN  IF r.err # "nil" \/ r.id = 0 THEN r ELSE putChild(r, n)]
<1>1. \A n : put(T, budget, n, k, v) = fn[n]
  BY DEF put
<1>2. DOMAIN T = 1..Len(T)
  BY TreeParts, LenProperties
<1>3. \E f : f = [n \in DOMAIN T |->
                    IF T[n].type = "leaf" THEN putLeaf(T, budget, n, k, v)
                    ELSE LET r == f[Child(T[n], k)]
                         IN  IF r.err # "nil" \/ r.id = 0 THEN r ELSE putChild(r, n)]
  <2>0. PICK f : PutFn(T, budget, k, v, f)
    BY PutExists
  <2>1. f = [n \in 1..Len(T) |-> PutStep(T, budget, k, v, f, n)]
    BY <2>0 DEF PutFn
  <2>2. \A n : PutStep(T, budget, k, v, f, n) =
                    IF T[n].type = "leaf" THEN putLeaf(T, budget, n, k, v)
                    ELSE LET r == f[Child(T[n], k)]
                         IN  IF r.err # "nil" \/ r.id = 0 THEN r ELSE putChild(r, n)
    BY DEF PutStep, After
  <2>3. f = [n \in DOMAIN T |->
                    IF T[n].type = "leaf" THEN putLeaf(T, budget, n, k, v)
                    ELSE LET r == f[Child(T[n], k)]
                         IN  IF r.err # "nil" \/ r.id = 0 THEN r ELSE putChild(r, n)]
    <3>1. f = [n \in DOMAIN T |-> PutStep(T, budget, k, v, f, n)]
      BY <1>2, <2>1
    <3> QED
      BY <2>2, <3>1
  <2> QED
    BY <2>3, Zenon
<1>4. fn = [n \in DOMAIN T |->
                    IF T[n].type = "leaf" THEN putLeaf(T, budget, n, k, v)
                    ELSE LET r == fn[Child(T[n], k)]
                         IN  IF r.err # "nil" \/ r.id = 0 THEN r ELSE putChild(r, n)]
  BY <1>3, Zenon
<1> HIDE DEF fn
<1>5. fn[i] = IF T[i].type = "leaf" THEN putLeaf(T, budget, i, k, v) ELSE After(fn[Child(T[i], k)], i)
  BY <1>2, <1>4 DEF After
<1> QED
  BY <1>1, <1>5

-----------------------------------------------------------------------------
(* What a Put comes to at node c.  T is the tree once the value is written  *)
(* and the splits below have reached their parents.                        *)

\* T holds the value and is otherwise as T0.
Effect(T0, T, k, v) ==
    /\ Good(T, rootID) /\ Len(T0) <= Len(T)
    /\ \A x \in Key : get(T, rootID, x) = IF x = k THEN v ELSE get(T0, rootID, x)
    /\ Linked(T0, rootID) => Linked(T, rootID)

\* No node but c is full.
FullOnly(T, c) == \A m \in 1..Len(T) : m # c => ~IsFull(T[m])

\* The Put is through.
Done(T0, r, k, v) ==
    /\ r.err = "nil" /\ r.id = 0 /\ Effect(T0, r.bs, k, v)
    /\ NoneFull(T0) => NoneFull(r.bs)

\* Node c was split and its parent does not know yet.
Pending(T0, lvl, c, r, k, v) == \E T :
    /\ Effect(T0, T, k, v) /\ c # rootID /\ Splits(T[c])
    /\ r.err = "nil" /\ r.bs = Apart(T, c) /\ r.id = Len(T) + 1 /\ r.sep = Sep(T[c])
    /\ NoneFull(T0) => FullOnly(T, c)
    /\ \A m \in 1..Len(T0) : lvl[c] < lvl[m] => T[m] = T0[m]

\* The root was split and has a root above it.
Raised(T0, r, k, v) == \E T :
    /\ Effect(T0, T, k, v) /\ Splits(T[rootID])
    /\ r.err = "nil" /\ r.bs = Top(T, rootID) /\ r.id = Len(T) + 2
    /\ NoneFull(T0) => FullOnly(T, rootID)

\* An allocation failed or a full node refused; the last split may not have
\* reached the parent.
Failed(T0, r, k, v) == \E T :
    /\ T = T0 \/ Effect(T0, T, k, v)
    /\ r.err = "error"
    /\ r.bs = T \/ \E d \in 1..Len(T) : Splits(T[d]) /\ r.bs = Apart(T, d)

Outcome(T0, lvl, c, r, k, v) ==
    \/ Done(T0, r, k, v) \/ Failed(T0, r, k, v) \/ Pending(T0, lvl, c, r, k, v)
    \/ c = rootID /\ Raised(T0, r, k, v)

\* What a Result consists of.
LEMMA ResultParts ==
    ASSUME NEW bs, NEW budget, NEW id, NEW sep, NEW err, NEW r, r = Result(bs, budget, id, sep, err)
    PROVE  r.bs = bs /\ r.budget = budget /\ r.id = id /\ r.sep = sep /\ r.err = err
BY DEF Result

\* Both ways to split a node.
SplitNode(T, budget, c) == IF T[c].type = "leaf" THEN splitLeaf(T, budget, c) ELSE splitInternal(T, budget, c)

\* Splitting a leaf and splitting an internal node do the same to the blocks.
LEMMA SplitNodeIs ==
    ASSUME NEW T, NEW budget, NEW c
    PROVE  SplitNode(T, budget, c) = IF budget = 0 THEN Error(T)
                                     ELSE Result(Apart(T, c), budget - 1, Len(T) + 1, Sep(T[c]), "nil")
<1>1. Split(T[c], Len(T) + 1)[3] = Sep(T[c])
  BY SepSame
<1>2. CASE T[c].type = "leaf"
  <2>1. PICK s : s = LeafSplit(T[c], Len(T) + 1)
    OBVIOUS
  <2>2. Split(T[c], Len(T) + 1) = <<s[1], s[2], s[2].keys[1]>>
    BY <1>2, <2>1 DEF Split
  <2>3. /\ Split(T[c], Len(T) + 1)[1] = s[1] /\ Split(T[c], Len(T) + 1)[2] = s[2]
        /\ s[2].keys[1] = Sep(T[c])
    BY <1>1, <2>2
  <2>4. Apart(T, c) = Append([T EXCEPT ![c] = s[1]], s[2])
    BY <2>3 DEF Apart
  <2>5. splitLeaf(T, budget, c) =
          IF budget = 0 THEN Error(T)
          ELSE Result(Append([T EXCEPT ![c] = s[1]], s[2]), budget - 1, Len(T) + 1, s[2].keys[1], "nil")
    BY <2>1 DEF splitLeaf
  <2> QED
    BY <1>2, <2>3, <2>4, <2>5 DEF SplitNode
<1>3. CASE T[c].type # "leaf"
  <2>1. Split(T[c], Len(T) + 1) = InternalSplit(T[c])
    BY <1>3 DEF Split
  <2> QED
    BY <1>1, <1>3, <2>1 DEF SplitNode, splitInternal, Apart
<1> QED
  BY <1>2, <1>3

\* A full node is split, and the root gets a root above it.
LEMMA GrownOutcome ==
    ASSUME NEW T0, NEW lvl, NEW T, NEW k, NEW v, Effect(T0, T, k, v), NEW c \in 1..Len(T), Splits(T[c]),
           NoneFull(T0) => FullOnly(T, c),
           \A m \in 1..Len(T0) : lvl[c] < lvl[m] => T[m] = T0[m], NEW budget
    PROVE  Outcome(T0, lvl, c, Grown(SplitNode(T, budget, c), c), k, v)
<1> DEFINE U == Apart(T, c)
           s == SplitNode(T, budget, c)
           g == Grown(s, c)
<1>1. CASE budget = 0
  <2>1. s = Error(T)
    BY <1>1, SplitNodeIs
  <2>2. s.err = "error" /\ s.bs = T
    BY <2>1 DEF Error, Result
  <2>3. g = s
    BY <2>2 DEF Grown
  <2> HIDE DEF s, g
  <2>4. Failed(T0, g, k, v)
    BY <2>2, <2>3 DEF Failed
  <2> QED
    BY <2>4 DEF Outcome, g, s
<1>2. CASE budget # 0
  <2>1. s = Result(U, budget - 1, Len(T) + 1, Sep(T[c]), "nil")
    BY <1>2, SplitNodeIs
  <2> HIDE DEF s, U
  <2>2. s.bs = U /\ s.budget = budget - 1 /\ s.id = Len(T) + 1 /\ s.sep = Sep(T[c]) /\ s.err = "nil"
    BY <2>1, ResultParts
  <2>3. CASE c # rootID
    <3>1. g = s
      BY <2>3 DEF Grown
    <3> HIDE DEF g
    <3>2. Pending(T0, lvl, c, g, k, v)
      BY <2>2, <2>3, <3>1 DEF Pending, U
    <3> QED
      BY <3>2 DEF Outcome, g, s
  <2>4. CASE c = rootID
    <3>1. g = createRoot(U, budget - 1, c, Len(T) + 1, Sep(T[c]))
      BY <2>2, <2>4 DEF Grown
    <3>2. CASE budget - 1 = 0
      <4>1. g = Error(U)
        BY <3>1, <3>2 DEF createRoot
      <4>2. g.err = "error" /\ g.bs = U
        BY <4>1 DEF Error, Result
      <4> HIDE DEF g
      <4>3. Failed(T0, g, k, v)
        BY <4>2 DEF Failed, U
      <4> QED
        BY <4>3 DEF Outcome, g, s
    <3>3. CASE budget - 1 # 0
      <4>1. g = Result(Append(U, Internal(<<Sep(T[c])>>, <<c, Len(T) + 1>>)), (budget - 1) - 1, Len(U) + 1, 0, "nil")
        BY <3>1, <3>3 DEF createRoot
      <4>2. Append(U, Internal(<<Sep(T[c])>>, <<c, Len(T) + 1>>)) = Top(T, c)
        BY DEF Top, U
      <4>3. Len(U) + 1 = Len(T) + 2
        <5>1. PICK H, L, K : TreeOK(T, rootID, H, L, K)
          BY DEF Effect, Good
        <5>2. T \in Seq(Node) /\ Len(T) \in Nat /\ NodeOK(T[c])
          BY <5>1, TreeParts, TreeNode
        <5>3. Len(U) = Len(T) + 1
          BY <5>2, ApartIs DEF U
        <5> QED
          BY <5>2, <5>3
      <4> HIDE DEF g
      <4>4. g.bs = Top(T, c) /\ g.id = Len(T) + 2 /\ g.err = "nil"
        <5>1. g = Result(Top(T, c), (budget - 1) - 1, Len(T) + 2, 0, "nil")
          BY <4>1, <4>2, <4>3
        <5> QED
          BY <5>1 DEF Result
      <4>5. Raised(T0, g, k, v)
        BY <2>4, <4>4 DEF Raised
      <4> QED
        BY <2>4, <4>5 DEF Outcome, g, s
    <3> QED
      BY <3>2, <3>3
  <2> QED
    BY <2>3, <2>4
<1> QED
  BY <1>1, <1>2

\* What a Put comes to at the leaf of its key.
LEMMA LeafOutcome ==
    ASSUME NEW T0, NEW H, NEW lvl, NEW K, TreeOK(T0, rootID, H, lvl, K), NEW k \in Key, NEW v \in Value,
           NEW c \in On(T0, rootID, k), T0[c].type = "leaf", NEW budget
    PROVE  Outcome(T0, lvl, c, putLeaf(T0, budget, c, k, v), k, v)
<1> DEFINE n == LeafInsert(T0[c], k, v)
           T == Write(T0, c, n)
           K2 == GrownKeys(T0, rootID, K, k)
           p == putLeaf(T0, budget, c, k, v)
<1>1. p = IF LeafIsFull(T0[c]) THEN Error(T0)
          ELSE IF LeafIsFull(n) THEN Grown(splitLeaf(T, budget, c), c)
          ELSE Result(T, budget, 0, 0, "nil")
  BY DEF putLeaf, Write
<1>2. c \in 1..Len(T0) /\ LeafFor(T0, rootID, k) = c
  BY OnStep, OnLeafFor
<1>3. CASE LeafIsFull(T0[c])
  <2>1. p = Error(T0)
    BY <1>1, <1>3
  <2>2. p.err = "error" /\ p.bs = T0
    BY <2>1 DEF Error, Result
  <2> HIDE DEF p
  <2>3. Failed(T0, p, k, v)
    BY <2>2 DEF Failed
  <2> QED
    BY <2>3 DEF Outcome, p
<1>4. CASE ~LeafIsFull(T0[c])
  <2>1. LeafOK(T0[c]) /\ KeysOf(T0[c]) \subseteq K[c]
    BY <1>2, TreeNode, NodeKeys
  <2>2. /\ LeafOK(n) /\ n.right = T0[c].right /\ KeysOf(n) \subseteq KeysOf(T0[c]) \cup {k}
        /\ \A x \in Key : LeafGet(n, x) = IF x = k THEN v ELSE LeafGet(T0[c], x)
    BY <1>4, <2>1, LeafInsertSpec
  <2> HIDE DEF n
  <2>3. TreeOK(T0, rootID, H, lvl, K2)
    BY GrowTree
  <2>4. KeysOf(n) \subseteq K2[c]
    <3>1. K2[c] = K[c] \cup {k}
      BY <1>2 DEF GrownKeys
    <3> QED
      BY <2>1, <2>2, <3>1
  <2> HIDE DEF K2
  <2>5. TreeOK(T, rootID, H, lvl, K2) /\ Written(T0, T, c, n)
    BY <1>2, <2>2, <2>3, <2>4, WriteTree
  <2>6. Len(T) = Len(T0) /\ T[c] = n /\ \A m \in 1..Len(T0) : m # c => T[m] = T0[m]
    BY <2>5 DEF Written
  <2>7. ASSUME NEW x \in Key
        PROVE  get(T, rootID, x) = IF x = k THEN v ELSE get(T0, rootID, x)
    <3>1. get(T, rootID, x) = IF LeafFor(T0, rootID, x) = c THEN LeafGet(n, x) ELSE get(T0, rootID, x)
      <4> HIDE DEF T
      <4>1. T = Write(T0, c, n)
        BY DEF T
      <4> QED
        BY <1>2, <2>2, <2>3, <2>4, <4>1, WriteGet
    <3>2. get(T0, rootID, x) = LeafGet(T0[LeafFor(T0, rootID, x)], x)
      BY DEF get
    <3> QED
      BY <1>2, <2>2, <3>1, <3>2
  <2>8. Linked(T0, rootID) => Linked(T, rootID)
    <3> HIDE DEF T
    <3>1. T = Write(T0, c, n)
      BY DEF T
    <3> QED
      BY <1>2, <2>2, <2>3, <2>4, <3>1, WriteLinked
  <2>9. Len(T0) \in Nat /\ n.type = "leaf"
    BY <2>2, TreeParts, LeafParts
  <2> HIDE DEF T
  <2>10. Effect(T0, T, k, v)
    BY <2>5, <2>6, <2>7, <2>8, <2>9 DEF Effect, Good
  <2>11. NoneFull(T0) => FullOnly(T, c)
    BY <2>6 DEF NoneFull, FullOnly
  <2>12. CASE LeafIsFull(n)
    <3>1. p = Grown(SplitNode(T, budget, c), c)
      BY <1>1, <1>4, <2>6, <2>9, <2>12 DEF SplitNode
    <3>2. Splits(T[c])
      <4>1. NodeOK(n) /\ IsFull(n)
        BY <2>2, <2>9, <2>12 DEF NodeOK, IsFull
      <4> QED
        BY <2>6, <4>1, FullSplits
    <3>3. \A m \in 1..Len(T0) : lvl[c] < lvl[m] => T[m] = T0[m]
      <4>1. lvl[c] \in Nat
        BY <1>2, TreeNode
      <4> QED
        BY <2>6, <4>1
    <3>4. c \in 1..Len(T)
      BY <1>2, <2>6
    <3>5. Outcome(T0, lvl, c, Grown(SplitNode(T, budget, c), c), k, v)
      BY <2>10, <2>11, <3>2, <3>3, <3>4, GrownOutcome
    <3> QED
      BY <3>1, <3>5
  <2>13. CASE ~LeafIsFull(n)
    <3>1. p = Result(T, budget, 0, 0, "nil")
      BY <1>1, <1>4, <2>13
    <3>2. p.bs = T /\ p.id = 0 /\ p.err = "nil"
      BY <3>1 DEF Result
    <3>3. NoneFull(T0) => NoneFull(T)
      BY <2>6, <2>9, <2>13 DEF NoneFull, IsFull
    <3> HIDE DEF p
    <3>4. Done(T0, p, k, v)
      BY <2>10, <3>2, <3>3 DEF Done
    <3> QED
      BY <3>4 DEF Outcome, p
  <2> QED
    BY <2>12, <2>13
<1> QED
  BY <1>3, <1>4

\* What a Put comes to at a node whose child was split.
LEMMA NodeOutcome ==
    ASSUME NEW T0, NEW H, NEW lvl, NEW K, TreeOK(T0, rootID, H, lvl, K), NEW k \in Key, NEW v \in Value,
           NEW c \in 1..Len(T0), T0[c].type # "leaf", NEW r, Pending(T0, lvl, Child(T0[c], k), r, k, v)
    PROVE  Outcome(T0, lvl, c, putChild(r, c), k, v)
<1> DEFINE ch == Child(T0[c], k)
           j == FindChild(T0[c], k)
           p == putChild(r, c)
<1>1. ch \in 1..Len(T0) /\ lvl[c] = lvl[ch] + 1 /\ j \in Kids(T0[c]) /\ ch = T0[c].children[j]
  BY ChildIn
<1> HIDE DEF ch, j
<1>2. \A m \in 1..Len(T0) : lvl[m] \in Nat
  BY TreeNode
<1>3. lvl[ch] < lvl[c] /\ ch # c /\ \A m \in 1..Len(T0) : lvl[c] < lvl[m] => lvl[ch] < lvl[m] /\ m # ch /\ m # c
  <2>1. lvl[ch] \in Nat /\ lvl[c] \in Nat /\ lvl[ch] < lvl[c] /\ ch # c
    BY <1>1, <1>2
  <2>2. ASSUME NEW m \in 1..Len(T0), lvl[c] < lvl[m]
        PROVE  lvl[ch] < lvl[m] /\ m # ch /\ m # c
    <3>1. lvl[m] \in Nat
      BY <1>2
    <3> QED
      BY ONLY <2>1, <2>2, <3>1
  <2> QED
    BY <2>1, <2>2
<1>4. PICK T : /\ Effect(T0, T, k, v) /\ Splits(T[ch])
               /\ r.err = "nil" /\ r.bs = Apart(T, ch) /\ r.id = Len(T) + 1 /\ r.sep = Sep(T[ch])
               /\ NoneFull(T0) => FullOnly(T, ch)
               /\ \A m \in 1..Len(T0) : lvl[ch] < lvl[m] => T[m] = T0[m]
  BY DEF Pending, ch
<1>5. PICK H1, L1, K1 : TreeOK(T, rootID, H1, L1, K1)
  BY <1>4 DEF Effect, Good
<1>6. T \in Seq(Node) /\ Len(T) \in Nat /\ Len(T0) \in Nat /\ Len(T0) <= Len(T)
  BY <1>4, <1>5, TreeParts DEF Effect
<1>7. /\ \A m \in 1..Len(T0) : m \in 1..Len(T)
      /\ c \in 1..Len(T) /\ ch \in 1..Len(T) /\ T[c] = T0[c] /\ T[c].type # "leaf"
      /\ j \in Kids(T[c]) /\ T[c].children[j] = ch
  <2>1. \A m \in 1..Len(T0) : m \in 1..Len(T)
    BY <1>6
  <2>2. T[c] = T0[c]
    BY <1>3, <1>4
  <2> QED
    BY <1>1, <2>1, <2>2
<1>8. NodeOK(T[ch])
  BY <1>5, <1>7, TreeNode
<1>9. r.bs[c] = T[c]
  BY <1>3, <1>4, <1>6, <1>7, <1>8, ApartIs
<1> DEFINE n == InternalInsert(T[c], Sep(T[ch]), Len(T) + 1)
           V == Join(T, ch, c)
<1>10. p = IF InternalIsFull(T[c]) THEN Error(r.bs)
           ELSE IF InternalIsFull(n) THEN Grown(splitInternal(V, r.budget, c), c)
           ELSE Result(V, r.budget, 0, 0, "nil")
  BY <1>4, <1>9 DEF putChild, Join
<1>11. CASE InternalIsFull(T[c])
  <2>1. p = Error(r.bs)
    BY <1>10, <1>11
  <2>2. p.err = "error" /\ p.bs = Apart(T, ch)
    BY <1>4, <2>1 DEF Error, Result
  <2> HIDE DEF p
  <2>3. Failed(T0, p, k, v)
    BY <1>4, <1>7, <2>2 DEF Failed
  <2> QED
    BY <2>3 DEF Outcome, p
<1>12. CASE ~InternalIsFull(T[c])
  <2>1. PICK L2, K2 : TreeOK(V, rootID, H1, L2, K2)
    BY <1>4, <1>5, <1>7, <1>12, JoinTree
  <2>2. Moved(T, rootID, V, rootID, ch)
    BY <1>4, <1>5, <1>7, <1>12, JoinMoved
  <2>3. /\ Len(V) = Len(T) + 1 /\ V[ch] = Left(T, ch) /\ V[Len(T) + 1] = Right(T, ch)
        /\ \A m \in 1..Len(T) : m # ch /\ m # c => V[m] = T[m]
        /\ Widened(T[c], V[c], Sep(T[ch]), Len(T) + 1, j)
    BY <1>4, <1>5, <1>7, <1>12, JoinIs
  <2>4. V[c] = n
    <3>1. Len(Apart(T, ch)) = Len(T) + 1 /\ Apart(T, ch) \in Seq(Node)
      BY <1>4, <1>6, <1>7, <1>8, ApartIs
    <3>2. c \in DOMAIN Apart(T, ch)
      BY <1>6, <1>7, <3>1, LenProperties
    <3> QED
      BY <3>2 DEF Join
  <2> HIDE DEF n, V
  <2>5. V[c].type # "leaf"
    BY <2>3, InternalParts DEF Widened
  <2>6. Effect(T0, V, k, v)
    <3>1. \A x \in Key : get(V, rootID, x) = get(T, rootID, x)
      BY <1>4, <1>5, <1>7, <2>2, MovedGet
    <3>2. Linked(T, rootID) => Linked(V, rootID)
      BY <1>4, <1>5, <1>7, <2>2, MovedLinked
    <3>3. /\ \A x \in Key : get(T, rootID, x) = IF x = k THEN v ELSE get(T0, rootID, x)
          /\ Linked(T0, rootID) => Linked(T, rootID)
      BY <1>4 DEF Effect
    <3>4. Good(V, rootID)
      BY <2>1 DEF Good
    <3>5. Len(T0) <= Len(V)
      BY <1>6, <2>3
    <3> QED
      BY <3>1, <3>2, <3>3, <3>4, <3>5 DEF Effect
  <2>7. NoneFull(T0) => FullOnly(V, c)
    <3> SUFFICES ASSUME NoneFull(T0), NEW m \in 1..Len(V), m # c
                 PROVE  ~IsFull(V[m])
      BY DEF FullOnly
    <3>1. FullOnly(T, ch)
      BY <1>4
    <3>2. ~IsFull(Left(T, ch)) /\ ~IsFull(Right(T, ch))
      BY <1>4, <1>6, <1>7, <1>8, HalvesNotFull
    <3>3. m = Len(T) + 1 \/ m \in 1..Len(T)
      BY <1>6, <2>3
    <3> QED
      BY <2>3, <3>1, <3>2, <3>3 DEF FullOnly
  <2>8. c \in 1..Len(V)
    BY <1>6, <1>7, <2>3
  <2>9. CASE InternalIsFull(n)
    <3>1. p = Grown(SplitNode(V, r.budget, c), c)
      BY <1>10, <1>12, <2>5, <2>9 DEF SplitNode
    <3>2. Splits(V[c])
      <4>1. NodeOK(V[c])
        BY <2>1, <2>8, TreeNode
      <4>2. IsFull(V[c])
        BY <2>4, <2>5, <2>9 DEF IsFull
      <4> QED
        BY <4>1, <4>2, FullSplits
    <3>3. \A m \in 1..Len(T0) : lvl[c] < lvl[m] => V[m] = T0[m]
      BY <1>3, <1>4, <1>7, <2>3
    <3>4. Outcome(T0, lvl, c, Grown(SplitNode(V, r.budget, c), c), k, v)
      BY <2>6, <2>7, <2>8, <3>2, <3>3, GrownOutcome
    <3> QED
      BY <3>1, <3>4
  <2>10. CASE ~InternalIsFull(n)
    <3>1. p = Result(V, r.budget, 0, 0, "nil")
      BY <1>10, <1>12, <2>10
    <3>2. p.bs = V /\ p.id = 0 /\ p.err = "nil"
      BY <3>1 DEF Result
    <3>3. NoneFull(T0) => NoneFull(V)
      <4>1. ~IsFull(V[c])
        BY <2>4, <2>5, <2>10 DEF IsFull
      <4> QED
        BY <2>7, <4>1 DEF NoneFull, FullOnly
    <3> HIDE DEF p
    <3>4. Done(T0, p, k, v)
      BY <2>6, <3>2, <3>3 DEF Done
    <3> QED
      BY <3>4 DEF Outcome, p
  <2> QED
    BY <2>9, <2>10
<1> QED
  BY <1>11, <1>12

\* What a Put comes to, by induction from the leaf of its key up to the root.
LEMMA PutOutcome ==
    ASSUME NEW T0, NEW H, NEW lvl, NEW K, TreeOK(T0, rootID, H, lvl, K), NEW k \in Key, NEW v \in Value, NEW budget
    PROVE  Outcome(T0, lvl, rootID, put(T0, budget, rootID, k, v), k, v)
<1> DEFINE S == {c \in 1..Len(T0) : c \in On(T0, rootID, k) => Outcome(T0, lvl, c, put(T0, budget, c, k, v), k, v)}
<1>1. ASSUME NEW c \in 1..Len(T0), \A d \in 1..Len(T0) : lvl[d] < lvl[c] => d \in S
      PROVE  c \in S
  <2> SUFFICES ASSUME c \in On(T0, rootID, k)
               PROVE  Outcome(T0, lvl, c, put(T0, budget, c, k, v), k, v)
    OBVIOUS
  <2>1. put(T0, budget, c, k, v) = IF T0[c].type = "leaf" THEN putLeaf(T0, budget, c, k, v)
                                   ELSE After(put(T0, budget, Child(T0[c], k), k, v), c)
    BY PutIs
  <2>2. CASE T0[c].type = "leaf"
    BY <2>1, <2>2, LeafOutcome
  <2>3. CASE T0[c].type # "leaf"
    <3> DEFINE ch == Child(T0[c], k)
               r == put(T0, budget, ch, k, v)
    <3>1. ch \in 1..Len(T0) /\ lvl[c] = lvl[ch] + 1 /\ ch # rootID
      BY <2>3, ChildIn
    <3>2. ch \in On(T0, rootID, k)
      BY <2>3, OnStep
    <3>3. lvl[ch] \in Nat
      BY <3>1, TreeNode
    <3>4. Outcome(T0, lvl, ch, r, k, v)
      <4>1. lvl[ch] < lvl[c]
        BY <3>1, <3>3
      <4> QED
        BY <1>1, <3>1, <3>2, <4>1
    <3>5. put(T0, budget, c, k, v) = After(r, c)
      BY <2>1, <2>3
    <3> HIDE DEF r
    <3>6. CASE Done(T0, r, k, v)
      <4>1. After(r, c) = r
        BY <3>6 DEF Done, After
      <4> QED
        BY <3>5, <3>6, <4>1 DEF Outcome
    <3>7. CASE Failed(T0, r, k, v)
      <4>1. After(r, c) = r
        BY <3>7 DEF Failed, After
      <4> QED
        BY <3>5, <3>7, <4>1 DEF Outcome
    <3>8. CASE Pending(T0, lvl, ch, r, k, v)
      <4>1. r.err = "nil" /\ r.id # 0
        <5>1. PICK T : Effect(T0, T, k, v) /\ r.err = "nil" /\ r.id = Len(T) + 1
          BY <3>8 DEF Pending
        <5>2. Len(T) \in Nat
          BY <5>1, TreeParts DEF Effect, Good
        <5> QED
          BY <5>1, <5>2
      <4>2. After(r, c) = putChild(r, c)
        BY <4>1 DEF After
      <4>3. Outcome(T0, lvl, c, putChild(r, c), k, v)
        BY <2>3, <3>8, NodeOutcome
      <4> QED
        BY <3>5, <4>2, <4>3
    <3> QED
      BY <3>1, <3>4, <3>6, <3>7, <3>8 DEF Outcome
  <2> QED
    BY <2>2, <2>3
<1> HIDE DEF S
<1>2. 1..Len(T0) \subseteq S
  BY <1>1, BottomUp
<1>3. rootID \in 1..Len(T0) /\ rootID \in On(T0, rootID, k)
  BY TreeParts, OnStep
<1> QED
  BY <1>2, <1>3 DEF S

\* W with root R holds the value and is otherwise as T0.
PutDone(T0, W, R, k, v) ==
    /\ Good(W, R)
    /\ \A x \in Key : get(W, R, x) = IF x = k THEN v ELSE get(T0, rootID, x)
    /\ Linked(T0, rootID) => Linked(W, R)
    /\ NoneFull(T0) => NoneFull(W)

\* A Put that reports no error has stored its value, and nothing else has changed.
LEMMA PutSucceeds ==
    ASSUME NEW T0, Good(T0, rootID), NEW k \in Key, NEW v \in Value, NEW budget,
           NEW r, r = put(T0, budget, rootID, k, v), r.err = "nil",
           NEW R, R = IF r.id = 0 THEN rootID ELSE r.id
    PROVE  PutDone(T0, r.bs, R, k, v)
<1>1. PICK H, lvl, K : TreeOK(T0, rootID, H, lvl, K)
  BY DEF Good
<1>2. Outcome(T0, lvl, rootID, r, k, v)
  BY <1>1, PutOutcome
<1>3. ~Failed(T0, r, k, v) /\ ~Pending(T0, lvl, rootID, r, k, v)
  BY DEF Failed, Pending
<1>4. CASE Done(T0, r, k, v)
  <2>1. R = rootID
    BY <1>4 DEF Done
  <2> QED
    BY <1>4, <2>1 DEF Done, Effect, PutDone
<1>5. CASE Raised(T0, r, k, v)
  <2>1. PICK T : /\ Effect(T0, T, k, v) /\ Splits(T[rootID])
                 /\ r.bs = Top(T, rootID) /\ r.id = Len(T) + 2
                 /\ NoneFull(T0) => FullOnly(T, rootID)
    BY <1>5 DEF Raised
  <2>2. PICK H1, L1, K1 : TreeOK(T, rootID, H1, L1, K1)
    BY <2>1 DEF Effect, Good
  <2>3. Len(T) \in Nat /\ rootID \in 1..Len(T) /\ NodeOK(T[rootID])
    BY <2>2, TreeParts, TreeNode
  <2>4. R = Len(T) + 2
    BY <2>1, <2>3
  <2> DEFINE W == Top(T, rootID)
  <2>5. Good(W, Len(T) + 2)
    BY <2>1, <2>2, TopTree DEF Good
  <2>6. Moved(T, rootID, W, Len(T) + 2, rootID)
    BY <2>1, <2>2, TopMoved
  <2>7. PICK W1 : W1 = W
    OBVIOUS
  <2>8. /\ Len(W1) = Len(T) + 2 /\ W1[rootID] = Left(T, rootID) /\ W1[Len(T) + 1] = Right(T, rootID)
        /\ \A m \in 1..Len(T) : m # rootID => W1[m] = T[m]
        /\ W1[Len(T) + 2] = Internal(<<Sep(T[rootID])>>, <<rootID, Len(T) + 1>>)
    <3>1. Topped(T, rootID, W1)
      BY <2>1, <2>2, <2>7, TopIs
    <3> QED
      BY <3>1 DEF Topped
  <2> HIDE DEF W
  <2>9. ASSUME NEW x \in Key
        PROVE  get(W, Len(T) + 2, x) = IF x = k THEN v ELSE get(T0, rootID, x)
    <3>1. get(W, Len(T) + 2, x) = get(T, rootID, x)
      BY <2>1, <2>2, <2>3, <2>6, MovedGet
    <3> QED
      BY <2>1, <3>1 DEF Effect
  <2>10. Linked(T0, rootID) => Linked(W, Len(T) + 2)
    <3>1. Linked(T, rootID) => Linked(W, Len(T) + 2)
      BY <2>1, <2>2, <2>3, <2>6, MovedLinked
    <3> QED
      BY <2>1, <3>1 DEF Effect
  <2>11. NoneFull(T0) => NoneFull(W1)
    <3> SUFFICES ASSUME NoneFull(T0), NEW m \in 1..Len(W1)
                 PROVE  ~IsFull(W1[m])
      BY DEF NoneFull
    <3>1. m = Len(T) + 1 \/ m = Len(T) + 2 \/ m \in 1..Len(T)
      BY <2>3, <2>8
    <3>2. ~IsFull(Left(T, rootID)) /\ ~IsFull(Right(T, rootID))
      BY <2>1, <2>3, HalvesNotFull
    <3>3. ~IsFull(W1[Len(T) + 2])
      <4>1. Sep(T[rootID]) \in Key
        BY <2>1, <2>2, <2>3, SepBelow
      <4>2. rootID \in Nat /\ Len(T) + 1 \in Nat
        BY <2>3
      <4>3. W1[Len(T) + 2].type = "internal" /\ Len(W1[Len(T) + 2].children) = 2
        BY <2>8 DEF Internal
      <4>4. ~(2 >= MaxInternalKeys + 1)
        OBVIOUS
      <4> QED
        BY <4>3, <4>4 DEF IsFull, InternalIsFull
    <3>4. FullOnly(T, rootID)
      BY <2>1
    <3> QED
      BY <2>8, <3>1, <3>2, <3>3, <3>4 DEF FullOnly
  <2> QED
    BY <2>1, <2>4, <2>5, <2>7, <2>9, <2>10, <2>11 DEF PutDone, W
<1> QED
  BY <1>2, <1>3, <1>4, <1>5 DEF Outcome

\* W holds the value or not and has lost at most the keys of one range.
Loses(T0, W, k, v) ==
    /\ get(W, rootID, k) \in {v, get(T0, rootID, k), None}
    /\ \A x \in Key \ {k} : get(W, rootID, x) \in {get(T0, rootID, x), None}
    /\ \A x, y, z \in Key :
         /\ get(T0, rootID, x) # None /\ get(W, rootID, x) = None
         /\ get(T0, rootID, y) # None /\ get(W, rootID, y) = None
         /\ x < z /\ z < y
         => get(W, rootID, z) = None

\* A Put that reports an error has stored its value or not, and has lost at
\* most the keys of one range.
LEMMA PutFails ==
    ASSUME NEW T0, Good(T0, rootID), NEW k \in Key, NEW v \in Value, NEW budget,
           NEW r, r = put(T0, budget, rootID, k, v), r.err # "nil"
    PROVE  Good(r.bs, rootID) /\ Loses(T0, r.bs, k, v)
<1>1. PICK H, lvl, K : TreeOK(T0, rootID, H, lvl, K)
  BY DEF Good
<1>2. Outcome(T0, lvl, rootID, r, k, v)
  BY <1>1, PutOutcome
<1>3. Failed(T0, r, k, v)
  BY <1>2 DEF Outcome, Done, Pending, Raised
<1>4. PICK T : /\ T = T0 \/ Effect(T0, T, k, v)
               /\ r.bs = T \/ \E d \in 1..Len(T) : Splits(T[d]) /\ r.bs = Apart(T, d)
  BY <1>3 DEF Failed
<1>5. Good(T, rootID)
  BY <1>4 DEF Effect
<1>6. \A x \in Key : \/ get(T, rootID, x) = get(T0, rootID, x)
                     \/ x = k /\ get(T, rootID, x) = v
  BY <1>4 DEF Effect
<1>7. v # None
  OBVIOUS
<1>8. CASE r.bs = T
  BY <1>5, <1>6, <1>7, <1>8 DEF Loses
<1>9. ASSUME NEW d \in 1..Len(T), Splits(T[d]), r.bs = Apart(T, d)
      PROVE  Good(r.bs, rootID) /\ Loses(T0, r.bs, k, v)
  <2>1. PICK H1, L1, K1 : TreeOK(T, rootID, H1, L1, K1)
    BY <1>5 DEF Good
  <2>2. Good(r.bs, rootID)
    BY <1>9, <2>1, SplitTree DEF Good
  <2> DEFINE gone(x) == d \in On(T, rootID, x) /\ ~(x < Sep(T[d]))
  <2>3. ASSUME NEW x \in Key
        PROVE  get(r.bs, rootID, x) = IF gone(x) THEN None ELSE get(T, rootID, x)
    BY <1>9, <2>1, ApartGet
  <2>4. ASSUME NEW x \in Key, NEW y \in Key, NEW z \in Key, gone(x), gone(y), x < z, z < y
        PROVE  gone(z)
    <3>1. Sep(T[d]) \in Int
      BY <1>9, <2>1, SepBelow
    <3>2. x \in Int /\ y \in Int /\ z \in Int
      OBVIOUS
    <3>3. x <= z /\ z <= y /\ ~(z < Sep(T[d]))
      BY <2>4, <3>1, <3>2
    <3> QED
      BY <2>1, <2>4, <3>3, OnConvex
  <2> HIDE DEF gone
  <2>5. \A x \in Key : get(T0, rootID, x) # None /\ get(r.bs, rootID, x) = None => gone(x)
    BY <1>6, <1>7, <2>3
  <2>6. Loses(T0, r.bs, k, v)
    BY <1>6, <2>3, <2>4, <2>5 DEF Loses
  <2> QED
    BY <2>2, <2>6
<1> QED
  BY <1>4, <1>8, <1>9

-----------------------------------------------------------------------------
(* The invariant of the tree, for Put and Delete.                           *)

\* The inductive invariant.
TreeInv ==
    /\ Good(blocks, rootID) /\ Len(blocks) <= MaxBlock
    /\ lastErr \in BOOLEAN /\ failed \in BOOLEAN
    /\ ~failed => Linked(blocks, rootID) /\ NoneFull(blocks)

\* A Delete removes its key, if it is there, and nothing else.
Deleted(T, W, rt, k) ==
    /\ Good(W, rt) /\ Len(W) = Len(T)
    /\ \A x \in Key : get(W, rt, x) = IF x = k THEN None ELSE get(T, rt, x)
    /\ Linked(T, rt) => Linked(W, rt)
    /\ NoneFull(T) => NoneFull(W)

\* What Delete writes removes its key and nothing else.
LEMMA DeleteSpec ==
    ASSUME NEW T, NEW rt, Good(T, rt), NEW k \in Key, NEW id, id = LeafFor(T, rt, k),
           NEW W, W = IF Has(T[id], k) THEN Write(T, id, LeafDelete(T[id], k)) ELSE T
    PROVE  Deleted(T, W, rt, k)
<1>1. PICK H, lvl, K : TreeOK(T, rt, H, lvl, K)
  BY DEF Good
<1>2. rt \in 1..Len(T)
  BY <1>1, TreeParts
<1>3. id \in 1..Len(T) /\ T[id].type = "leaf"
  BY <1>1, <1>2, LeafForIn
<1>4. LeafOK(T[id]) /\ KeysOf(T[id]) \subseteq K[id]
  BY <1>1, <1>3, TreeNode, NodeKeys
<1>5. get(T, rt, k) = LeafGet(T[id], k)
  BY DEF get
<1>6. CASE ~Has(T[id], k)
  <2>1. get(T, rt, k) = None
    BY <1>4, <1>5, <1>6, HasSpec, LeafGetSpec
  <2> QED
    BY <1>6, <2>1 DEF Deleted
<1>7. CASE Has(T[id], k)
  <2>1. PICK o : o = LeafDelete(T[id], k)
    OBVIOUS
  <2>2. /\ LeafOK(o) /\ o.right = T[id].right
        /\ Len(o.keys) = Len(T[id].keys) - 1
        /\ KeysOf(o) \subseteq KeysOf(T[id])
        /\ \A x \in Key : LeafGet(o, x) = IF x = k THEN None ELSE LeafGet(T[id], x)
    BY <1>4, <1>7, <2>1, LeafDeleteSpec
  <2>3. W = Write(T, id, o) /\ KeysOf(o) \subseteq K[id]
    BY <1>4, <1>7, <2>1, <2>2
  <2>4. TreeOK(W, rt, H, lvl, K) /\ Written(T, W, id, o)
    BY <1>1, <1>3, <2>2, <2>3, WriteTree
  <2>5. ASSUME NEW x \in Key
        PROVE  get(W, rt, x) = IF x = k THEN None ELSE get(T, rt, x)
    <3>1. get(W, rt, x) = IF LeafFor(T, rt, x) = id THEN LeafGet(o, x) ELSE get(T, rt, x)
      BY <1>1, <1>3, <2>2, <2>3, WriteGet
    <3>2. LeafFor(T, rt, x) = id => get(T, rt, x) = LeafGet(T[id], x)
      BY DEF get
    <3> QED
      BY <2>2, <3>1, <3>2
  <2>6. Linked(T, rt) => Linked(W, rt)
    BY <1>1, <1>3, <2>2, <2>3, WriteLinked
  <2>7. NoneFull(T) => NoneFull(W)
    <3> SUFFICES ASSUME NoneFull(T), NEW m \in 1..Len(W)
                 PROVE  ~IsFull(W[m])
      BY DEF NoneFull
    <3>1. m \in 1..Len(T) /\ ~IsFull(T[m])
      BY <2>4 DEF Written, NoneFull
    <3>2. CASE m # id
      BY <2>4, <3>1, <3>2 DEF Written
    <3>3. CASE m = id
      <4>1. W[m] = o /\ o.type = "leaf"
        BY <2>2, <2>4, <3>3, LeafParts DEF Written
      <4>2. ~(Len(T[id].keys) >= MaxLeafKeys)
        BY <1>3, <3>1, <3>3 DEF IsFull, LeafIsFull
      <4>3. Len(T[id].keys) \in Nat
        BY <1>4, LeafParts
      <4>4. ~(Len(o.keys) >= MaxLeafKeys)
        BY <2>2, <4>2, <4>3
      <4> QED
        BY <4>1, <4>4 DEF IsFull, LeafIsFull
    <3> QED
      BY <3>2, <3>3
  <2> QED
    BY <2>4, <2>5, <2>6, <2>7 DEF Deleted, Good, Written
<1> QED
  BY <1>6, <1>7

\* The empty tree.
LEMMA InitTree ==
    Init => /\ TreeInv
            /\ \A x \in Key : Get(x) = None
<1> SUFFICES ASSUME Init
             PROVE  /\ TreeInv
                    /\ \A x \in Key : Get(x) = None
  OBVIOUS
<1>1. blocks = <<NewLeafNode>> /\ rootID = 1 /\ lastErr = FALSE /\ failed = FALSE
  BY DEF Init, New
<1>2. PICK n : n = NewLeafNode
  OBVIOUS
<1>3. LeafOK(n) /\ n.keys = <<>> /\ n.right = 0 /\ n.type = "leaf"
  <2>1. <<>> \in Seq(Key) /\ <<>> \in Seq(Value) /\ Len(<<>>) = 0
    OBVIOUS
  <2>2. Ascending(<<>>) /\ Len(<<>>) <= MaxLeafKeys
    BY <2>1 DEF Ascending
  <2> QED
    <3>1. n = [type |-> "leaf", keys |-> <<>>, values |-> <<>>, right |-> 0]
      BY <1>2 DEF NewLeafNode, Leaf
    <3>2. n \in LeafNode
      BY <2>1, <3>1 DEF LeafNode
    <3> QED
      BY <2>1, <2>2, <3>1, <3>2 DEF LeafOK, LeafShape
<1>4. KeysOf(n) = {} /\ Len(n.keys) = 0
  BY <1>3 DEF KeysOf
<1>5. blocks \in Seq(Node) /\ Len(blocks) = 1 /\ blocks[1] = n
  <2>1. n \in Node
    BY <1>3 DEF LeafOK, Node
  <2>2. blocks = <<n>>
    BY <1>1, <1>2
  <2> QED
    BY <2>1, <2>2
<1>6. 1..Len(blocks) = {1}
  BY <1>5
<1> DEFINE lvl == [m \in 1..Len(blocks) |-> 0]
           K == [m \in 1..Len(blocks) |-> {}]
<1>7. TreeOK(blocks, rootID, 0, lvl, K)
  <2>1. TreeType(blocks, rootID, 0, lvl, K)
    BY <1>1, <1>5 DEF TreeType
  <2>2. TreeNodes(blocks) /\ TreeKeys(blocks, K)
    BY <1>3, <1>4, <1>5, <1>6 DEF TreeNodes, TreeKeys, NodeOK
  <2>3. TreeChildren(blocks, rootID, lvl, K) /\ TreeSlots(blocks) /\ TreeLeaves(blocks, lvl)
    BY <1>3, <1>5, <1>6 DEF TreeChildren, TreeSlots, TreeLeaves
  <2> HIDE DEF lvl, K
  <2> QED
    BY <2>1, <2>2, <2>3 DEF TreeOK
<1> HIDE DEF lvl, K
<1>8. ASSUME NEW x \in Key
      PROVE  LeafFor(blocks, rootID, x) = 1
  <2>1. LeafFor(blocks, rootID, x) \in 1..Len(blocks)
    BY <1>1, <1>6, <1>7, LeafForIn
  <2> QED
    BY <1>6, <2>1
<1>9. ASSUME NEW x \in Key
      PROVE  Get(x) = None
  <2>1. Get(x) = LeafGet(n, x)
    BY <1>5, <1>8 DEF Get, get
  <2> QED
    BY <1>3, <1>4, <2>1, LeafGetSpec
<1>10. Linked(blocks, rootID)
  <2> SUFFICES ASSUME NEW x \in Key PROVE LinkedAt(blocks, rootID, x)
    BY LinkedIs
  <2>1. Beyond(blocks, rootID, x) = {}
    BY <1>8 DEF Beyond
  <2> QED
    BY <1>3, <1>5, <1>8, <2>1 DEF LinkedAt
<1>11. NoneFull(blocks)
  <2>1. ~(0 >= MaxLeafKeys)
    OBVIOUS
  <2> QED
    BY <1>3, <1>4, <1>5, <1>6, <2>1 DEF NoneFull, IsFull, LeafIsFull
<1>12. Len(blocks) <= MaxBlock
  BY <1>5
<1> QED
  BY <1>1, <1>7, <1>9, <1>10, <1>11, <1>12 DEF TreeInv, Good

\* Put keeps the invariant, and stores its value or reports an error.
LEMMA PutTree ==
    ASSUME TreeInv, NEW k \in Key, NEW v \in Value, Put(k, v)
    PROVE  /\ TreeInv'
           /\ \/ /\ ~lastErr' /\ lastErr' \in BOOLEAN
                 /\ \A x \in Key : get(blocks', rootID', x) = IF x = k THEN v ELSE Get(x)
              \/ lastErr' = TRUE /\ rootID' = rootID /\ Loses(blocks, blocks', k, v)
<1>1. PICK budget \in Budgets :
        LET r == put(blocks, budget, rootID, k, v)
        IN  /\ Len(r.bs) <= MaxBlock
            /\ blocks' = r.bs
            /\ rootID' = IF r.err # "nil" \/ r.id = 0 THEN rootID ELSE r.id
            /\ lastErr' = (r.err # "nil")
            /\ failed' = (failed \/ r.err # "nil")
  BY DEF Put
<1> DEFINE r == put(blocks, budget, rootID, k, v)
<1>2. /\ Len(r.bs) <= MaxBlock /\ blocks' = r.bs
      /\ rootID' = IF r.err # "nil" \/ r.id = 0 THEN rootID ELSE r.id
      /\ lastErr' = (r.err # "nil")
      /\ failed' = (failed \/ r.err # "nil")
  BY <1>1
<1>3. r = put(blocks, budget, rootID, k, v)
  OBVIOUS
<1> HIDE DEF r
<1>4. Good(blocks, rootID)
  BY DEF TreeInv
<1>5. CASE r.err = "nil"
  <2>1. rootID' = IF r.id = 0 THEN rootID ELSE r.id
    BY <1>2, <1>5
  <2>2. PICK R : R = rootID'
    OBVIOUS
  <2>3. PutDone(blocks, r.bs, R, k, v)
    BY <1>3, <1>4, <1>5, <2>1, <2>2, PutSucceeds
  <2>4. PutDone(blocks, blocks', rootID', k, v)
    BY <1>2, <2>2, <2>3
  <2>5. lastErr' = FALSE /\ failed' = failed
    BY <1>2, <1>5 DEF TreeInv
  <2>6. Good(blocks', rootID') /\ Len(blocks') <= MaxBlock
    BY <1>2, <2>4 DEF PutDone
  <2>7. ~failed => Linked(blocks', rootID') /\ NoneFull(blocks')
    BY <2>4 DEF PutDone, TreeInv
  <2>8. TreeInv'
    BY <2>5, <2>6, <2>7 DEF TreeInv
  <2>9. \A x \in Key : get(blocks', rootID', x) = IF x = k THEN v ELSE Get(x)
    BY <2>4 DEF PutDone, Get
  <2> QED
    BY <2>5, <2>8, <2>9
<1>6. CASE r.err # "nil"
  <2>1. rootID' = rootID /\ lastErr' = TRUE /\ failed' = TRUE
    BY <1>2, <1>6
  <2>2. Good(r.bs, rootID) /\ Loses(blocks, r.bs, k, v)
    BY <1>3, <1>4, <1>6, PutFails
  <2>3. TreeInv'
    BY <1>2, <2>1, <2>2 DEF TreeInv
  <2> QED
    BY <1>2, <2>1, <2>2, <2>3
<1> QED
  BY <1>5, <1>6

\* Delete keeps the invariant and removes its key.
LEMMA DeleteTree ==
    ASSUME TreeInv, NEW k \in Key, Delete(k)
    PROVE  /\ TreeInv' /\ lastErr' = FALSE
           /\ \A x \in Key : get(blocks', rootID', x) = IF x = k THEN None ELSE Get(x)
<1>1. PICK id : id = LeafFor(blocks, rootID, k)
  OBVIOUS
<1>2. /\ blocks' = IF Has(blocks[id], k) THEN [blocks EXCEPT ![id] = LeafDelete(@, k)] ELSE blocks
      /\ lastErr' = FALSE /\ rootID' = rootID /\ failed' = failed
  BY <1>1 DEF Delete
<1>3. PICK W : W = blocks'
  OBVIOUS
<1>4. W = IF Has(blocks[id], k) THEN Write(blocks, id, LeafDelete(blocks[id], k)) ELSE blocks
  BY <1>2, <1>3 DEF Write
<1>5. Deleted(blocks, W, rootID, k)
  BY <1>1, <1>4, DeleteSpec DEF TreeInv
<1>6. Deleted(blocks, blocks', rootID', k)
  BY <1>2, <1>3, <1>5
<1>7. TreeInv'
  BY <1>2, <1>3, <1>5 DEF TreeInv, Deleted
<1>8. \A x \in Key : get(blocks', rootID', x) = IF x = k THEN None ELSE Get(x)
  BY <1>2, <1>3, <1>5 DEF Deleted, Get
<1> QED
  BY <1>2, <1>7, <1>8

\* The invariant of the tree: it has levels and key sets (Good), whatever has
\* failed, and its links and its room as long as nothing has.
THEOREM TreeInvariant == Spec => []TreeInv
<1>1. Init => TreeInv
  BY InitTree
<1>2. TreeInv /\ [Next]_vars => TreeInv'
  <2> SUFFICES ASSUME TreeInv, [Next]_vars PROVE TreeInv'
    OBVIOUS
  <2>1. CASE Next
    BY <2>1, PutTree, DeleteTree DEF Next
  <2>2. CASE UNCHANGED vars
    BY <2>2 DEF TreeInv, vars
  <2> QED
    BY <2>1, <2>2
<1> QED
  BY <1>1, <1>2, PTL DEF Spec

\* The level of a node is its height.
LEMMA HeightIs ==
    ASSUME NEW T, NEW rt, NEW H, NEW lvl, NEW K, TreeOK(T, rt, H, lvl, K), NEW i \in 1..Len(T)
    PROVE  Height(T, i) = lvl[i]
<1> DEFINE fn == CHOOSE f : f = [n \in DOMAIN T |-> IF T[n].type = "leaf" THEN 0 ELSE 1 + f[T[n].children[1]]]
<1>1. \A n : Height(T, n) = fn[n]
  BY DEF Height
<1>2. DOMAIN T = 1..Len(T) /\ lvl \in [1..Len(T) -> 0..H]
  BY TreeParts, LenProperties
<1>3. ASSUME NEW n \in 1..Len(T), T[n].type # "leaf"
      PROVE  /\ T[n].children[1] \in 1..Len(T) /\ lvl[T[n].children[1]] \in Nat
             /\ lvl[n] = lvl[T[n].children[1]] + 1
  <2>1. InternalOK(T[n])
    BY <1>3, TreeNode, NodeKeys
  <2>2. Len(T[n].children) \in Nat /\ Len(T[n].keys) \in Nat /\ Len(T[n].children) = Len(T[n].keys) + 1
    BY <2>1, InternalParts
  <2>3. 1 \in Kids(T[n])
    BY <2>2 DEF Kids
  <2>4. PICK c : c = T[n].children[1]
    OBVIOUS
  <2>5. c \in 1..Len(T) /\ lvl[n] = lvl[c] + 1
    BY <1>3, <2>3, <2>4, TreeDown
  <2>6. lvl[c] \in Nat
    BY <2>5, TreeNode
  <2> QED
    BY <2>4, <2>5, <2>6
<1>4. \A n \in 1..Len(T) : lvl[n] = IF T[n].type = "leaf" THEN 0 ELSE 1 + lvl[T[n].children[1]]
  BY <1>3, TreeNode
<1>5. lvl = [n \in DOMAIN T |-> IF T[n].type = "leaf" THEN 0 ELSE 1 + lvl[T[n].children[1]]]
  <2>1. lvl = [n \in 1..Len(T) |-> lvl[n]]
    BY <1>2
  <2> QED
    BY <1>2, <1>4, <2>1, Zenon
<1>6. fn = [n \in DOMAIN T |-> IF T[n].type = "leaf" THEN 0 ELSE 1 + fn[T[n].children[1]]]
  BY <1>5, Zenon
<1> HIDE DEF fn
<1>7. \A n \in 1..Len(T) : fn[n] = IF T[n].type = "leaf" THEN 0 ELSE 1 + fn[T[n].children[1]]
  BY <1>2, <1>6
<1> DEFINE S == {n \in 1..Len(T) : fn[n] = lvl[n]}
<1>8. ASSUME NEW n \in 1..Len(T), \A c \in 1..Len(T) : lvl[c] < lvl[n] => c \in S
      PROVE  n \in S
  <2>1. CASE T[n].type = "leaf"
    BY <1>4, <1>7, <2>1
  <2>2. CASE T[n].type # "leaf"
    <3>1. PICK c : c = T[n].children[1]
      OBVIOUS
    <3>2. c \in 1..Len(T) /\ lvl[c] \in Nat /\ lvl[n] = lvl[c] + 1
      BY <1>3, <2>2, <3>1
    <3>3. lvl[c] < lvl[n]
      BY <3>2
    <3>4. fn[c] = lvl[c]
      BY <1>8, <3>2, <3>3
    <3> QED
      BY <1>7, <2>2, <3>1, <3>2, <3>4
  <2> QED
    BY <2>1, <2>2
<1> HIDE DEF S
<1>9. 1..Len(T) \subseteq S
  BY <1>8, BottomUp
<1> QED
  BY <1>1, <1>9 DEF S

\* A tree has the shape that TypeOK asks for and equally deep leaves.
LEMMA TreeShape ==
    ASSUME NEW T, NEW rt, Good(T, rt)
    PROVE  /\ T \in Seq(Node) /\ rt \in DOMAIN T
           /\ \A i \in DOMAIN T : IF T[i].type = "leaf" THEN LeafShape(T[i]) ELSE InternalShape(T, T[i])
           /\ \A i \in DOMAIN T : T[i].type = "internal" =>
                \A j \in DOMAIN T[i].children : Height(T, T[i].children[j]) = Height(T, i) - 1
<1>1. PICK H, lvl, K : TreeOK(T, rt, H, lvl, K)
  BY DEF Good
<1>2. T \in Seq(Node) /\ rt \in 1..Len(T) /\ DOMAIN T = 1..Len(T)
  BY <1>1, TreeParts, LenProperties
<1>3. ASSUME NEW i \in 1..Len(T), T[i].type = "leaf"
      PROVE  LeafShape(T[i])
  BY <1>1, <1>3, TreeNode, NodeKeys DEF LeafOK
<1>4. ASSUME NEW i \in 1..Len(T), T[i].type # "leaf"
      PROVE  /\ InternalShape(T, T[i])
             /\ \A j \in DOMAIN T[i].children : Height(T, T[i].children[j]) = Height(T, i) - 1
  <2>1. InternalOK(T[i])
    BY <1>1, <1>4, TreeNode, NodeKeys
  <2>2. DOMAIN T[i].children = Kids(T[i])
    BY <2>1, InternalParts DEF Kids
  <2>3. ASSUME NEW j \in Kids(T[i])
        PROVE  T[i].children[j] \in 1..Len(T) /\ Height(T, T[i].children[j]) = Height(T, i) - 1
    <3>1. PICK c : c = T[i].children[j]
      OBVIOUS
    <3>2. c \in 1..Len(T) /\ lvl[i] = lvl[c] + 1
      BY <1>1, <1>4, <3>1, TreeDown
    <3>3. Height(T, c) = lvl[c] /\ Height(T, i) = lvl[i] /\ lvl[c] \in Nat
      BY <1>1, <3>2, HeightIs, TreeNode
    <3> QED
      BY <3>1, <3>2, <3>3
  <2>4. InternalShape(T, T[i])
    BY <1>2, <2>1, <2>2, <2>3 DEF InternalShape, InternalOK
  <2> QED
    BY <2>2, <2>3, <2>4
<1> QED
  BY <1>2, <1>3, <1>4

\* The invariant says what Balanced says.
LEMMA TreeInvBalanced == TreeInv => Balanced
<1> SUFFICES ASSUME TreeInv PROVE Balanced
  OBVIOUS
<1>1. Good(blocks, rootID)
  BY DEF TreeInv
<1>2. /\ blocks \in Seq(Node) /\ rootID \in DOMAIN blocks
      /\ \A i \in DOMAIN blocks : IF blocks[i].type = "leaf" THEN LeafShape(blocks[i])
                                  ELSE InternalShape(blocks, blocks[i])
      /\ \A i \in DOMAIN blocks : blocks[i].type = "internal" =>
           \A j \in DOMAIN blocks[i].children :
             Height(blocks, blocks[i].children[j]) = Height(blocks, i) - 1
  BY <1>1, TreeShape
<1>3. TypeOK
  BY <1>2 DEF TypeOK, TreeInv
<1>4. ~failed => Linked(blocks, rootID) /\ \A i \in DOMAIN blocks : ~IsFull(blocks[i])
  BY <1>2, LenProperties DEF TreeInv, NoneFull
<1> QED
  BY <1>2, <1>3, <1>4 DEF Balanced

\* The tree of internal/btree stays balanced: no Put, Delete or failed allocation
\* leaves a node with the wrong number of values or children or a leaf at another
\* depth; as long as no allocation has failed no node is left full and the right
\* links of the leaves follow the order of the keys.
THEOREM BalancedHolds == Spec => []Balanced
BY TreeInvariant, TreeInvBalanced, PTL

-----------------------------------------------------------------------------
(* The tree as the map of KVMap.                                            *)

\* get finds nothing but values.
LEMMA GetIn ==
    ASSUME NEW T, NEW rt, Good(T, rt), NEW x \in Key
    PROVE  get(T, rt, x) \in Value \cup {None}
<1>1. PICK H, lvl, K : TreeOK(T, rt, H, lvl, K)
  BY DEF Good
<1>2. PICK m : m = LeafFor(T, rt, x)
  OBVIOUS
<1>3. m \in 1..Len(T) /\ T[m].type = "leaf"
  BY <1>1, <1>2, TreeParts, LeafForIn
<1>4. LeafOK(T[m])
  BY <1>1, <1>3, TreeNode, NodeKeys
<1>5. get(T, rt, x) = LeafGet(T[m], x)
  BY <1>2 DEF get
<1> QED
  BY <1>4, <1>5, LeafGetSpec

\* The empty tree is the empty map.
LEMMA MapInit == Init => Map!Init
<1> SUFFICES ASSUME Init PROVE Map!Init
  OBVIOUS
<1>1. \A x \in Key : Get(x) = None
  BY InitTree
<1>2. lastErr = FALSE
  BY DEF Init
<1> QED
  BY <1>1, <1>2 DEF Map!Init

\* Delete of the tree is Delete of the map.
LEMMA MapDelete ==
    ASSUME TreeInv, NEW k \in Key, Delete(k)
    PROVE  Map!Delete(k)
<1>1. lastErr' = FALSE /\ \A x \in Key : get(blocks', rootID', x) = IF x = k THEN None ELSE Get(x)
  BY DeleteTree
<1>2. [x \in Key |-> get(blocks', rootID', x)] = [[x \in Key |-> Get(x)] EXCEPT ![k] = None]
  BY <1>1
<1> QED
  BY <1>1, <1>2 DEF Map!Delete, Get

\* Put of the tree is Put of the map, or fails as the map allows.
LEMMA MapPut ==
    ASSUME TreeInv, NEW k \in Key, NEW v \in Value, Put(k, v)
    PROVE  Map!Put(k, v) \/ Map!PutFails(k, v)
<1>1. \/ /\ ~lastErr' /\ lastErr' \in BOOLEAN
         /\ \A x \in Key : get(blocks', rootID', x) = IF x = k THEN v ELSE Get(x)
      \/ lastErr' = TRUE /\ rootID' = rootID /\ Loses(blocks, blocks', k, v)
  BY PutTree
<1>2. CASE /\ ~lastErr' /\ lastErr' \in BOOLEAN
           /\ \A x \in Key : get(blocks', rootID', x) = IF x = k THEN v ELSE Get(x)
  <2>1. [x \in Key |-> get(blocks', rootID', x)] = [[x \in Key |-> Get(x)] EXCEPT ![k] = v]
    BY <1>2
  <2> QED
    BY <1>2, <2>1 DEF Map!Put, Get
<1>3. CASE lastErr' = TRUE /\ rootID' = rootID /\ Loses(blocks, blocks', k, v)
  <2>1. Loses(blocks, blocks', k, v)
    BY <1>3
  <2> DEFINE a == [x \in Key |-> get(blocks, rootID, x)]
             b == [x \in Key |-> get(blocks', rootID', x)]
  <2>2. b = [x \in Key |-> get(blocks', rootID, x)]
    BY <1>3
  <2>3. \A x \in Key : a[x] = get(blocks, rootID, x) /\ b[x] = get(blocks', rootID, x)
    BY <2>2
  <2>4. [x \in Key |-> Get(x)] = a /\ [x \in Key |-> Get(x)]' = b
    BY DEF Get
  <2> HIDE DEF a, b
  <2>5. b[k] \in {v, a[k], None} /\ \A x \in Key \ {k} : b[x] \in {a[x], None}
    BY <2>1, <2>3 DEF Loses
  <2>6. \A x, y, z \in Key : a[x] # None /\ b[x] = None /\ a[y] # None /\ b[y] = None /\ x < z /\ z < y => b[z] = None
    BY <2>1, <2>3 DEF Loses
  <2>7. \A x, y \in {u \in Key : a[u] # None /\ b[u] = None} : \A z \in Key : x < z /\ z < y => b[z] = None
    BY <2>6
  <2> QED
    BY <1>3, <2>4, <2>5, <2>7 DEF Map!PutFails, Map!Lost
<1> QED
  BY <1>1, <1>2, <1>3

\* The tree implements the map of KVMap: Get changes only by Put and Delete of its
\* key, through all splits of leaves, internal nodes and roots, and a Put whose
\* allocation failed loses at most one range of keys.
THEOREM TreeIsMap == Spec => ImplementsMap
<1>1. Init => Map!Init
  BY MapInit
<1>2. TreeInv /\ [Next]_vars => [Map!Next]_(Map!vars)
  <2> SUFFICES ASSUME TreeInv, [Next]_vars PROVE [Map!Next]_(Map!vars)
    OBVIOUS
  <2>1. CASE Next
    <3>1. ASSUME NEW k \in Key, Delete(k) PROVE Map!Next
      BY <3>1, MapDelete DEF Map!Next
    <3>2. ASSUME NEW k \in Key, NEW v \in Value, Put(k, v) PROVE Map!Next
      BY <3>2, MapPut DEF Map!Next
    <3> QED
      BY <2>1, <3>1, <3>2 DEF Next
  <2>2. CASE UNCHANGED vars
    <3>1. blocks' = blocks /\ rootID' = rootID /\ lastErr' = lastErr
      BY <2>2 DEF vars
    <3>2. [x \in Key |-> Get(x)]' = [x \in Key |-> Get(x)]
      BY <3>1 DEF Get
    <3> QED
      BY <3>1, <3>2 DEF Map!vars
  <2> QED
    BY <2>1, <2>2
<1> QED
  BY <1>1, <1>2, TreeInvariant, PTL DEF Spec, ImplementsMap, Map!Spec

-----------------------------------------------------------------------------
(* Scan.                                                                    *)

\* The entries of a scan, and the bounds.
Pair == Key \X Value

Within(x, lo, hi) == lo <= x /\ (hi = None \/ x <= hi)

\* In the order of their keys.
Sorted(s) == \A p, q \in 1..Len(s) : p < q => s[p][1] < s[q][1]

\* s lists the entries that look finds between the bounds.
Lists(s, look, lo, hi) ==
    /\ s \in Seq(Pair) /\ Sorted(s)
    /\ \A x \in Key, w \in Value :
         <<x, w>> \in ToSet(s) <=> look[x] = w /\ Within(x, lo, hi)

\* The entries from first to stop - 1 are listed, and they are the ones up to hi.
Stops(n, lo, hi, first, stop) ==
    /\ LeafScan(n, lo, hi) = [i \in 1..(stop - first) |-> <<n.keys[first + i - 1], n.values[first + i - 1]>>]
    /\ \A i \in first..Len(n.keys) : i < stop <=> (hi = None \/ n.keys[i] <= hi)

\* The loop over a leaf stops at the first key above hi.
LEMMA LeafScanStop ==
    ASSUME NEW n, LeafOK(n), NEW lo \in Key, NEW hi \in Key \cup {None}, NEW first, first = findKey(n, lo)
    PROVE  \E stop \in first..(Len(n.keys) + 1) : Stops(n, lo, hi, first, stop)
<1> DEFINE m == Len(n.keys)
           above == {i \in first..Len(n.keys) : hi # None /\ n.keys[i] > hi}
           stop == IF above = {} THEN Len(n.keys) + 1 ELSE Min(above)
<1>1. LeafScan(n, lo, hi) = [i \in 1..(stop - first) |-> <<n.keys[first + i - 1], n.values[first + i - 1]>>]
  BY DEF LeafScan
<1>2. m \in Nat /\ first \in 1..(m + 1) /\ \A i \in 1..m : n.keys[i] \in Int
  BY HasSpec, LeafParts
<1>3. hi # None => hi \in Int
  OBVIOUS
<1>4. \A i \in above : i \in first..m /\ hi # None /\ hi < n.keys[i]
  BY <1>2, <1>3
<1>5. ASSUME NEW i \in first..m, i \notin above
      PROVE  hi = None \/ n.keys[i] <= hi
  <2>1. i \in 1..m /\ n.keys[i] \in Int
    BY <1>2
  <2> QED
    BY <1>3, <1>5, <2>1
<1>6. CASE above = {}
  <2>1. stop = m + 1 /\ stop \in first..(m + 1)
    BY <1>2, <1>6
  <2>2. \A i \in first..m : i < stop
    BY <1>2, <2>1
  <2> HIDE DEF stop, above
  <2>3. \A i \in first..m : i < stop <=> (hi = None \/ n.keys[i] <= hi)
    BY <1>5, <1>6, <2>2
  <2> QED
    BY <1>1, <2>1, <2>3 DEF Stops
<1>7. CASE above # {}
  <2>0. stop = Min(above)
    BY <1>7
  <2> HIDE DEF above
  <2>1. above \subseteq Int /\ \A y \in above : 0 < y
    BY <1>2, <1>4
  <2>2. Min(above) \in above /\ \A y \in above : Min(above) <= y
    <3>1. PICK S, x : S = above /\ x = 0
      OBVIOUS
    <3>2. S \subseteq Int /\ x \in Int /\ S # {} /\ \A y \in S : x < y
      BY <1>7, <2>1, <3>1
    <3>3. Min(S) \in S /\ \A y \in S : Min(S) <= y
      BY ONLY <3>2, MinAbove
    <3> QED
      BY <3>1, <3>3
  <2>3. stop \in above /\ \A y \in above : stop <= y
    BY <2>0, <2>2
  <2> HIDE DEF stop
  <2>4. stop \in first..m /\ hi # None /\ hi < n.keys[stop]
    BY <1>4, <2>3
  <2>5. stop \in first..(m + 1)
    BY <1>2, <2>4
  <2>6. ASSUME NEW i \in first..m
        PROVE  i < stop <=> (hi = None \/ n.keys[i] <= hi)
    <3>1. i \in 1..m /\ stop \in 1..m /\ n.keys[i] \in Int /\ n.keys[stop] \in Int
      BY <1>2, <2>4
    <3>2. CASE i < stop
      <4>1. i \notin above
        BY <2>3, <3>1, <3>2
      <4> QED
        BY <1>5, <3>2, <4>1
    <3>3. CASE i = stop
      BY <1>3, <2>4, <3>1, <3>3
    <3>4. CASE stop < i
      <4>1. n.keys[stop] < n.keys[i]
        BY <3>1, <3>4, LeafParts DEF Ascending
      <4> QED
        BY <1>3, <2>4, <3>1, <3>4, <4>1
    <3> QED
      BY <3>1, <3>2, <3>3, <3>4
  <2> QED
    BY <1>1, <2>5, <2>6 DEF Stops
<1> QED
  BY <1>6, <1>7

\* What a leaf contributes to a scan.
LEMMA LeafScanSpec ==
    ASSUME NEW n, LeafOK(n), NEW lo \in Key, NEW hi \in Key \cup {None}, NEW look,
           \A x \in Key : look[x] = LeafGet(n, x)
    PROVE  Lists(LeafScan(n, lo, hi), look, lo, hi)
<1>1. PICK first : first = findKey(n, lo)
  OBVIOUS
<1>0. PICK stop \in first..(Len(n.keys) + 1) : Stops(n, lo, hi, first, stop)
  BY <1>1, LeafScanStop
<1>2. /\ LeafScan(n, lo, hi) = [i \in 1..(stop - first) |-> <<n.keys[first + i - 1], n.values[first + i - 1]>>]
      /\ \A i \in first..Len(n.keys) : i < stop <=> (hi = None \/ n.keys[i] <= hi)
  BY <1>0 DEF Stops
<1>3. PICK s, m, z : s = LeafScan(n, lo, hi) /\ m = Len(n.keys) /\ z = stop - first
  OBVIOUS
<1>4. /\ m \in Nat /\ first \in 1..(m + 1) /\ lo \in Int
      /\ \A i \in 1..m : n.keys[i] \in Key /\ n.keys[i] \in Int /\ n.values[i] \in Value
      /\ \A i \in 1..m : n.keys[i] < lo <=> i < first
  BY <1>1, <1>3, HasSpec, LeafParts
<1>5. stop \in first..(m + 1) /\ stop \in Int /\ first \in Int /\ z \in Nat /\ z = stop - first
  BY <1>0, <1>3, <1>4
<1>6. ASSUME NEW i \in 1..z
      PROVE  first + i - 1 \in first..m /\ first + i - 1 \in 1..m /\ first + i - 1 < stop
  BY <1>3, <1>4, <1>5
<1>7. \A i \in 1..z : s[i] = <<n.keys[first + i - 1], n.values[first + i - 1]>>
  BY <1>2, <1>3
<1>8. s \in Seq(Pair) /\ Len(s) = z
  <2>1. \A i \in 1..z : <<n.keys[first + i - 1], n.values[first + i - 1]>> \in Pair
    BY <1>4, <1>6 DEF Pair
  <2>2. s = [i \in 1..z |-> <<n.keys[first + i - 1], n.values[first + i - 1]>>]
    BY <1>2, <1>3
  <2>3. s \in [1..z -> Pair]
    BY <2>1, <2>2
  <2> QED
    BY <1>5, <2>3, SeqDef
<1>9. Sorted(s)
  <2> SUFFICES ASSUME NEW p \in 1..z, NEW q \in 1..z, p < q
               PROVE  s[p][1] < s[q][1]
    BY <1>8 DEF Sorted
  <2>1. first + p - 1 \in 1..m /\ first + q - 1 \in 1..m /\ first + p - 1 < first + q - 1
    BY <1>4, <1>5, <1>6
  <2>2. n.keys[first + p - 1] < n.keys[first + q - 1]
    BY <1>3, <2>1, LeafParts DEF Ascending
  <2> QED
    BY <1>7, <2>2
<1>10. DOMAIN s = 1..z
  BY <1>2, <1>3
<1>11. ASSUME NEW x \in Key, NEW w \in Value
       PROVE  <<x, w>> \in ToSet(s) <=> look[x] = w /\ Within(x, lo, hi)
  <2>1. ASSUME <<x, w>> \in ToSet(s)
        PROVE  look[x] = w /\ Within(x, lo, hi)
    <3>1. PICK i \in 1..z : s[i] = <<x, w>>
      BY <1>10, <2>1 DEF ToSet
    <3>2. PICK p : p = first + i - 1
      OBVIOUS
    <3>3. p \in 1..m /\ p \in first..m /\ p < stop /\ n.keys[p] = x /\ n.values[p] = w
      BY <1>6, <1>7, <3>1, <3>2
    <3>4. LeafGet(n, x) = w
      BY <1>3, <3>3, LeafGetSpec
    <3>5. lo <= x
      <4>1. ~(p < first) /\ x \in Int
        BY <1>5, <3>3
      <4>2. ~(x < lo)
        BY <1>4, <3>3, <4>1
      <4> QED
        BY <1>4, <4>1, <4>2
    <3>6. hi = None \/ x <= hi
      BY <1>2, <1>3, <3>3
    <3> QED
      BY <3>4, <3>5, <3>6 DEF Within
  <2>2. ASSUME look[x] = w, Within(x, lo, hi)
        PROVE  <<x, w>> \in ToSet(s)
    <3>1. LeafGet(n, x) = w /\ w # None
      BY <2>2
    <3>2. x \in KeysOf(n)
      BY <3>1, LeafGetSpec
    <3>3. PICK p \in 1..m : n.keys[p] = x
      BY <1>3, <3>2 DEF KeysOf
    <3>4. n.values[p] = w
      BY <1>3, <3>1, <3>3, LeafGetSpec
    <3>5. ~(p < first)
      <4>1. x \in Int /\ lo <= x
        BY <2>2 DEF Within
      <4> QED
        BY <1>4, <3>3, <4>1
    <3>6. p \in first..m
      BY <1>5, <3>3, <3>5
    <3>7. p < stop
      BY <1>2, <1>3, <2>2, <3>3, <3>6 DEF Within
    <3>8. PICK i : i = p - first + 1
      OBVIOUS
    <3>9. i \in 1..z /\ first + i - 1 = p
      BY <1>5, <3>6, <3>7, <3>8
    <3>10. s[i] = <<x, w>>
      BY <1>7, <3>3, <3>4, <3>9
    <3> QED
      BY <1>10, <3>9, <3>10 DEF ToSet
  <2> QED
    BY <2>1, <2>2
<1>12. Lists(s, look, lo, hi)
  BY <1>8, <1>9, <1>11 DEF Lists
<1> QED
  BY <1>3, <1>12

\* One list after another.
LEMMA ConcatSorted ==
    ASSUME NEW s \in Seq(Pair), NEW t \in Seq(Pair), Sorted(s), Sorted(t),
           \A e \in ToSet(s), f \in ToSet(t) : e[1] < f[1]
    PROVE  s \o t \in Seq(Pair) /\ Sorted(s \o t) /\ \A e : e \in ToSet(s \o t) <=> e \in ToSet(s) \/ e \in ToSet(t)
<1>1. PICK u, a, b : u = s \o t /\ a = Len(s) /\ b = Len(t)
  OBVIOUS
<1>2. a \in Nat /\ b \in Nat /\ DOMAIN s = 1..a /\ DOMAIN t = 1..b
  BY <1>1, LenProperties
<1>3. /\ u \in Seq(Pair) /\ Len(u) = a + b
      /\ \A i \in 1..(a + b) : u[i] = IF i <= a THEN s[i] ELSE t[i - a]
  BY <1>1, ConcatProperties
<1>4. DOMAIN u = 1..(a + b)
  BY <1>3, LenProperties
<1>5. \A i \in 1..a : s[i] \in ToSet(s)
  BY <1>2 DEF ToSet
<1>6. \A i \in 1..b : t[i] \in ToSet(t)
  BY <1>2 DEF ToSet
<1>7. Sorted(u)
  <2> SUFFICES ASSUME NEW p \in 1..(a + b), NEW q \in 1..(a + b), p < q
               PROVE  u[p][1] < u[q][1]
    BY <1>3 DEF Sorted
  <2>1. CASE q <= a
    <3>1. p \in 1..a /\ q \in 1..a /\ p <= a
      BY <1>2, <2>1
    <3> QED
      BY <1>1, <1>3, <2>1, <3>1 DEF Sorted
  <2>2. CASE ~(q <= a) /\ p <= a
    <3>1. p \in 1..a /\ q - a \in 1..b
      BY <1>2, <2>2
    <3> QED
      BY <1>3, <1>5, <1>6, <2>2, <3>1
  <2>3. CASE ~(p <= a)
    <3>1. p - a \in 1..b /\ q - a \in 1..b /\ p - a < q - a /\ ~(q <= a)
      BY <1>2, <2>3
    <3>2. t[p - a][1] < t[q - a][1]
      BY <1>1, <3>1 DEF Sorted
    <3> QED
      BY <1>3, <2>3, <3>1, <3>2
  <2> QED
    BY <2>1, <2>2, <2>3
<1>8. ASSUME NEW e
      PROVE  e \in ToSet(u) <=> e \in ToSet(s) \/ e \in ToSet(t)
  <2>1. ASSUME e \in ToSet(u)
        PROVE  e \in ToSet(s) \/ e \in ToSet(t)
    <3>1. PICK i \in 1..(a + b) : e = u[i]
      BY <1>4, <2>1 DEF ToSet
    <3>2. CASE i <= a
      <4>1. i \in 1..a
        BY <1>2, <3>2
      <4> QED
        BY <1>3, <1>5, <3>1, <3>2, <4>1
    <3>3. CASE ~(i <= a)
      <4>1. i - a \in 1..b
        BY <1>2, <3>3
      <4> QED
        BY <1>3, <1>6, <3>1, <3>3, <4>1
    <3> QED
      BY <3>2, <3>3
  <2>2. ASSUME e \in ToSet(s)
        PROVE  e \in ToSet(u)
    <3>1. PICK i \in 1..a : e = s[i]
      BY <1>2, <2>2 DEF ToSet
    <3>2. i \in 1..(a + b) /\ i <= a
      BY <1>2
    <3>3. u[i] = e
      BY <1>3, <3>1, <3>2
    <3> QED
      BY <1>4, <3>2, <3>3 DEF ToSet
  <2>3. ASSUME e \in ToSet(t)
        PROVE  e \in ToSet(u)
    <3>1. PICK i \in 1..b : e = t[i]
      BY <1>2, <2>3 DEF ToSet
    <3>2. i + a \in 1..(a + b) /\ ~(i + a <= a) /\ (i + a) - a = i
      BY <1>2
    <3>3. u[i + a] = e
      BY <1>3, <3>1, <3>2
    <3> QED
      BY <1>4, <3>2, <3>3 DEF ToSet
  <2> QED
    BY <2>1, <2>2, <2>3
<1> QED
  BY <1>1, <1>3, <1>7, <1>8

\* The body of FlattenSeq.
FlatStep(ss, f, i) == IF i = 1 THEN ss[i] ELSE f[i - 1] \o ss[i]

FlatFn(ss, f) == f = [i \in 1..Len(ss) |-> FlatStep(ss, f, i)]

\* The recursive function of FlattenSeq exists.
LEMMA FlatExists ==
    ASSUME NEW ss, Len(ss) \in Nat
    PROVE  \E f : FlatFn(ss, f)
<1> DEFINE D == 1..Len(ss)
           P == {h \in Nat : \E f : f = [i \in D |-> f[i]] /\ \A i \in D : i <= h => f[i] = FlatStep(ss, f, i)}
<1>1. 0 \in P
  <2> DEFINE f == [i \in D |-> i]
  <2>1. f = [i \in D |-> f[i]]
    OBVIOUS
  <2>2. \A i \in D : ~(i <= 0)
    OBVIOUS
  <2> QED
    BY <2>1, <2>2
<1>2. ASSUME NEW h \in Nat, h \in P
      PROVE  h + 1 \in P
  <2>1. PICK f : f = [i \in D |-> f[i]] /\ \A i \in D : i <= h => f[i] = FlatStep(ss, f, i)
    BY <1>2
  <2> DEFINE g == [i \in D |-> FlatStep(ss, f, i)]
  <2>2. \A i \in D : g[i] = FlatStep(ss, f, i)
    OBVIOUS
  <2>3. g = [i \in D |-> g[i]]
    OBVIOUS
  <2> HIDE DEF g
  <2>4. ASSUME NEW i \in D, i <= h + 1
        PROVE  g[i] = FlatStep(ss, g, i)
    <3>1. CASE i = 1
      BY <2>2, <3>1 DEF FlatStep
    <3>2. CASE i # 1
      <4>1. i - 1 \in D /\ i - 1 <= h
        BY <2>4, <3>2
      <4>2. f[i - 1] = g[i - 1]
        BY <2>1, <2>2, <4>1
      <4> QED
        BY <2>2, <3>2, <4>2 DEF FlatStep
    <3> QED
      BY <3>1, <3>2
  <2>5. h + 1 \in Nat
    OBVIOUS
  <2> QED
    BY <2>3, <2>4, <2>5
<1> HIDE DEF P
<1>3. Len(ss) \in P
  BY <1>1, <1>2, UpFromZero
<1>4. PICK f : f = [i \in D |-> f[i]] /\ \A i \in D : i <= Len(ss) => f[i] = FlatStep(ss, f, i)
  BY <1>3 DEF P
<1>5. \A i \in D : f[i] = FlatStep(ss, f, i)
  BY <1>4
<1>6. f = [i \in D |-> FlatStep(ss, f, i)]
  BY <1>4, <1>5, Zenon
<1> QED
  BY <1>6 DEF FlatFn

\* FlattenSeq appends one sequence after another.
LEMMA FlattenIs ==
    ASSUME NEW ss, Len(ss) \in Nat, Len(ss) # 0
    PROVE  \E f : FlattenSeq(ss) = f[Len(ss)] /\ \A i \in 1..Len(ss) : f[i] = FlatStep(ss, f, i)
<1> DEFINE fn == CHOOSE f : f = [i \in 1..Len(ss) |-> IF i = 1 THEN ss[i] ELSE f[i - 1] \o ss[i]]
<1>1. FlattenSeq(ss) = fn[Len(ss)]
  BY DEF FlattenSeq
<1>2. \E f : f = [i \in 1..Len(ss) |-> IF i = 1 THEN ss[i] ELSE f[i - 1] \o ss[i]]
  <2>1. PICK f : FlatFn(ss, f)
    BY FlatExists
  <2>2. f = [i \in 1..Len(ss) |-> IF i = 1 THEN ss[i] ELSE f[i - 1] \o ss[i]]
    BY <2>1, Zenon DEF FlatFn, FlatStep
  <2> QED
    BY <2>2, Zenon
<1>3. fn = [i \in 1..Len(ss) |-> IF i = 1 THEN ss[i] ELSE fn[i - 1] \o ss[i]]
  BY <1>2, Zenon
<1> HIDE DEF fn
<1>4. \A i \in 1..Len(ss) : fn[i] = FlatStep(ss, fn, i)
  BY <1>3 DEF FlatStep
<1> QED
  BY <1>1, <1>4

\* s is the first i of the sequences ss, one after another.
Flat(s, ss, i) ==
    /\ s \in Seq(Pair) /\ Sorted(s)
    /\ \A e : e \in ToSet(s) <=> \E a \in 1..i : e \in ToSet(ss[a])

\* Sorted lists in the order of their keys, one after another.
LEMMA FlattenSpec ==
    ASSUME NEW ss, Len(ss) \in Nat, Len(ss) # 0,
           \A a \in 1..Len(ss) : ss[a] \in Seq(Pair) /\ Sorted(ss[a]),
           \A a, b \in 1..Len(ss) : a < b => \A e \in ToSet(ss[a]), f \in ToSet(ss[b]) : e[1] < f[1]
    PROVE  Flat(FlattenSeq(ss), ss, Len(ss))
<1>1. PICK f : FlattenSeq(ss) = f[Len(ss)] /\ \A i \in 1..Len(ss) : f[i] = FlatStep(ss, f, i)
  BY FlattenIs
<1> DEFINE P == {h \in Nat : h \in 1..Len(ss) => Flat(f[h], ss, h)}
<1>2. 0 \in P
  OBVIOUS
<1>3. ASSUME NEW h \in Nat, h \in P
      PROVE  h + 1 \in P
  <2> SUFFICES ASSUME h + 1 \in 1..Len(ss)
               PROVE  Flat(f[h + 1], ss, h + 1)
    OBVIOUS
  <2>1. f[h + 1] = FlatStep(ss, f, h + 1)
    BY <1>1
  <2>2. CASE h = 0
    <3>1. f[h + 1] = ss[1] /\ h + 1 = 1 /\ 1 \in 1..Len(ss)
      BY <2>1, <2>2 DEF FlatStep
    <3>2. \A e : e \in ToSet(ss[1]) <=> \E a \in 1..1 : e \in ToSet(ss[a])
      OBVIOUS
    <3> QED
      BY <3>1, <3>2 DEF Flat
  <2>3. CASE h # 0
    <3>1. PICK s, t, j : s = f[h] /\ t = ss[h + 1] /\ j = h + 1
      OBVIOUS
    <3>2. j # 1 /\ j - 1 = h /\ h \in 1..Len(ss) /\ j \in 1..Len(ss)
      BY <2>3, <3>1
    <3>3. f[j] = s \o t
      BY <2>1, <3>1, <3>2 DEF FlatStep
    <3>4. Flat(s, ss, h)
      BY <1>3, <3>1, <3>2
    <3>5. t \in Seq(Pair) /\ Sorted(t)
      BY <3>1, <3>2
    <3>6. ASSUME NEW e \in ToSet(s), NEW d \in ToSet(t)
          PROVE  e[1] < d[1]
      <4>1. PICK a \in 1..h : e \in ToSet(ss[a])
        BY <3>4 DEF Flat
      <4>2. a \in 1..Len(ss) /\ a < j
        BY <3>1, <3>2
      <4> QED
        BY <3>1, <3>2, <4>1, <4>2
    <3>7. /\ s \o t \in Seq(Pair) /\ Sorted(s \o t)
          /\ \A e : e \in ToSet(s \o t) <=> e \in ToSet(s) \/ e \in ToSet(t)
      BY <3>4, <3>5, <3>6, ConcatSorted DEF Flat
    <3>8. ASSUME NEW e
          PROVE  e \in ToSet(s \o t) <=> \E a \in 1..j : e \in ToSet(ss[a])
      <4>1. e \in ToSet(s) <=> \E a \in 1..h : e \in ToSet(ss[a])
        BY <3>4 DEF Flat
      <4>2. \A a : a \in 1..j <=> a \in 1..h \/ a = j
        BY <3>1, <3>2
      <4> QED
        BY <3>1, <3>7, <4>1, <4>2
    <3>9. Flat(f[j], ss, j)
      BY <3>3, <3>7, <3>8 DEF Flat
    <3> QED
      BY <3>1, <3>9
  <2> QED
    BY <2>2, <2>3
<1> HIDE DEF P
<1>4. Len(ss) \in P
  BY <1>2, <1>3, UpFromZero
<1>5. Len(ss) \in 1..Len(ss)
  OBVIOUS
<1> QED
  BY <1>1, <1>4, <1>5 DEF P

\* The children that a scan visits.
Rest(n, lo) == From(n.children, FindChild(n, lo))

\* What the children that a scan visits contribute.
Visits(n, lo, f) == [j \in DOMAIN Rest(n, lo) |-> f[Rest(n, lo)[j]]]

ScanStep(T, lo, hi, f, i) ==
    IF T[i].type = "leaf" THEN LeafScan(T[i], lo, hi) ELSE FlattenSeq(Visits(T[i], lo, f))

\* The children from position fc on.
RestOf(T, lvl, i, fc, rest, m) ==
    /\ m \in Nat /\ fc \in 1..m /\ Len(rest) = m - fc + 1 /\ DOMAIN rest = 1..(m - fc + 1)
    /\ \A j \in 1..(m - fc + 1) :
         /\ fc + j - 1 \in Kids(T[i]) /\ rest[j] = T[i].children[fc + j - 1]
         /\ rest[j] \in 1..Len(T) /\ lvl[rest[j]] < lvl[i]

\* The children that a scan visits are nodes at lower levels.
LEMMA RestIs ==
    ASSUME NEW T, NEW rt, NEW H, NEW lvl, NEW K, TreeOK(T, rt, H, lvl, K), NEW lo \in Key,
           NEW i \in 1..Len(T), T[i].type # "leaf", NEW fc, fc = FindChild(T[i], lo), NEW rest, rest = Rest(T[i], lo),
           NEW m, m = Len(T[i].children)
    PROVE  RestOf(T, lvl, i, fc, rest, m)
<1>1. InternalOK(T[i])
  BY TreeNode, NodeKeys
<1>2. T[i].children \in Seq(Nat) /\ m \in Nat
  BY <1>1, InternalParts
<1>3. fc \in 1..m
  BY ChildIn DEF Kids
<1>4. PICK p : p = fc - 1
  OBVIOUS
<1>5. p \in 0..m /\ p + 1 = fc /\ p \in Int /\ fc \in Int /\ m - fc + 1 = m - p
  BY <1>2, <1>3, <1>4
<1>6. rest = From(T[i].children, p + 1)
  BY <1>5 DEF Rest
<1>7. rest \in Seq(Nat) /\ Len(rest) = m - p /\ \A q \in 1..(m - p) : rest[q] = T[i].children[p + q]
  <2>1. PICK s : s = T[i].children
    OBVIOUS
  <2>2. s \in Seq(Nat) /\ p \in 0..Len(s)
    BY <1>2, <1>5, <2>1
  <2>3. /\ From(s, p + 1) \in Seq(Nat) /\ Len(From(s, p + 1)) = Len(s) - p
        /\ \A q \in 1..(Len(s) - p) : From(s, p + 1)[q] = s[p + q]
    BY <2>2, HalvesSpec
  <2> QED
    BY <1>6, <2>1, <2>3
<1>8. DOMAIN rest = 1..(m - p)
  BY <1>7, LenProperties
<1>9. ASSUME NEW j \in 1..(m - p)
      PROVE  /\ fc + j - 1 \in Kids(T[i]) /\ rest[j] = T[i].children[fc + j - 1]
             /\ rest[j] \in 1..Len(T) /\ lvl[rest[j]] < lvl[i]
  <2>0. m \in Int /\ j \in Int /\ p \in Int /\ 1 <= j /\ j <= m - p /\ 0 <= p /\ p + 1 = fc
    BY <1>2, <1>5
  <2>1. fc + j - 1 = p + j /\ p + j \in 1..m
    BY ONLY <2>0
  <2>2. p + j \in Kids(T[i])
    BY <2>1 DEF Kids
  <2>3. PICK c : c = T[i].children[p + j]
    OBVIOUS
  <2>4. c \in 1..Len(T) /\ lvl[i] = lvl[c] + 1
    BY <2>2, <2>3, TreeDown
  <2>5. lvl[c] \in Nat
    BY <2>4, TreeNode
  <2>6. lvl[c] < lvl[i]
    BY <2>4, <2>5
  <2> QED
    BY <1>7, <2>1, <2>2, <2>3, <2>4, <2>6
<1> QED
  BY <1>2, <1>3, <1>5, <1>7, <1>8, <1>9 DEF RestOf

ScanFn(T, lo, hi, f) == f = [i \in 1..Len(T) |-> ScanStep(T, lo, hi, f, i)]

\* The recursive function of scan exists.
LEMMA ScanExists ==
    ASSUME NEW T, NEW rt, NEW H, NEW lvl, NEW K, TreeOK(T, rt, H, lvl, K), NEW lo \in Key, NEW hi
    PROVE  \E f : ScanFn(T, lo, hi, f)
<1> DEFINE D == 1..Len(T)
           P == {h \in Nat : \E f : f = [i \in D |-> f[i]] /\ \A i \in D : lvl[i] <= h => f[i] = ScanStep(T, lo, hi, f, i)}
<1>1. \A i \in D : lvl[i] \in Nat /\ lvl[i] <= H /\ H \in Nat
  BY TreeNode, TreeParts
<1>2. ASSUME NEW i \in D, T[i].type # "leaf", NEW j \in DOMAIN Rest(T[i], lo)
      PROVE  Rest(T[i], lo)[j] \in D /\ lvl[Rest(T[i], lo)[j]] < lvl[i]
  <2>1. PICK fc, rest, m : fc = FindChild(T[i], lo) /\ rest = Rest(T[i], lo) /\ m = Len(T[i].children)
    OBVIOUS
  <2>2. RestOf(T, lvl, i, fc, rest, m)
    BY <1>2, <2>1, RestIs
  <2> QED
    BY <2>1, <2>2 DEF RestOf
<1>3. 0 \in P
  <2> DEFINE f == [i \in D |-> LeafScan(T[i], lo, hi)]
  <2>1. f = [i \in D |-> f[i]]
    OBVIOUS
  <2>2. ASSUME NEW i \in D, lvl[i] <= 0
        PROVE  f[i] = ScanStep(T, lo, hi, f, i)
    <3>1. T[i].type = "leaf"
      <4> SUFFICES ASSUME T[i].type # "leaf" PROVE FALSE
        OBVIOUS
      <4>1. PICK c : c = Child(T[i], lo)
        OBVIOUS
      <4>2. c \in 1..Len(T) /\ lvl[i] = lvl[c] + 1
        BY <4>1, ChildIn
      <4>3. lvl[c] \in Nat /\ lvl[i] \in Nat
        BY <1>1, <4>2
      <4> QED
        BY <2>2, <4>2, <4>3
    <3> QED
      BY <3>1 DEF ScanStep
  <2> QED
    BY <2>1, <2>2
<1>4. ASSUME NEW h \in Nat, h \in P
      PROVE  h + 1 \in P
  <2>1. PICK f : f = [i \in D |-> f[i]] /\ \A i \in D : lvl[i] <= h => f[i] = ScanStep(T, lo, hi, f, i)
    BY <1>4
  <2> DEFINE g == [i \in D |-> ScanStep(T, lo, hi, f, i)]
  <2>2. \A i \in D : g[i] = ScanStep(T, lo, hi, f, i)
    OBVIOUS
  <2>3. g = [i \in D |-> g[i]]
    OBVIOUS
  <2> HIDE DEF g
  <2>4. ASSUME NEW i \in D, lvl[i] <= h + 1
        PROVE  g[i] = ScanStep(T, lo, hi, g, i)
    <3>1. CASE T[i].type = "leaf"
      BY <2>2, <3>1 DEF ScanStep
    <3>2. CASE T[i].type # "leaf"
      <4>1. ASSUME NEW j \in DOMAIN Rest(T[i], lo)
            PROVE  f[Rest(T[i], lo)[j]] = g[Rest(T[i], lo)[j]]
        <5>1. PICK c : c = Rest(T[i], lo)[j]
          OBVIOUS
        <5>2. c \in D /\ lvl[c] < lvl[i]
          BY <1>2, <3>2, <5>1
        <5>3. lvl[c] <= h
          BY <1>1, <2>4, <5>2
        <5> QED
          BY <2>1, <2>2, <5>1, <5>2, <5>3
      <4>2. Visits(T[i], lo, f) = Visits(T[i], lo, g)
        BY <4>1 DEF Visits
      <4> QED
        BY <2>2, <3>2, <4>2 DEF ScanStep
    <3> QED
      BY <3>1, <3>2
  <2>5. h + 1 \in Nat
    OBVIOUS
  <2> QED
    BY <2>3, <2>4, <2>5
<1> HIDE DEF P
<1>5. H \in P
  BY <1>3, <1>4, TreeParts, UpFromZero
<1>6. PICK f : f = [i \in D |-> f[i]] /\ \A i \in D : lvl[i] <= H => f[i] = ScanStep(T, lo, hi, f, i)
  BY <1>5 DEF P
<1>7. \A i \in D : f[i] = ScanStep(T, lo, hi, f, i)
  BY <1>1, <1>6
<1>8. f = [i \in D |-> ScanStep(T, lo, hi, f, i)]
  BY <1>6, <1>7, Zenon
<1> QED
  BY <1>8 DEF ScanFn

\* scan unfolds to the scans of its children.
LEMMA ScanUnfolds ==
    ASSUME NEW T, NEW rt, NEW H, NEW lvl, NEW K, TreeOK(T, rt, H, lvl, K), NEW lo \in Key, NEW hi
    PROVE  \E f : \A i \in 1..Len(T) : scan(T, i, lo, hi) = f[i] /\ f[i] = ScanStep(T, lo, hi, f, i)
<1> DEFINE fn == CHOOSE f : f = [n \in DOMAIN T |->
                    IF T[n].type = "leaf" THEN LeafScan(T[n], lo, hi)
                    ELSE LET rest == From(T[n].children, FindChild(T[n], lo))
                         IN  FlattenSeq([j \in DOMAIN rest |-> f[rest[j]]])]
<1>1. \A n : scan(T, n, lo, hi) = fn[n]
  BY DEF scan
<1>2. DOMAIN T = 1..Len(T)
  BY TreeParts, LenProperties
<1>3. \E f : f = [n \in DOMAIN T |->
                    IF T[n].type = "leaf" THEN LeafScan(T[n], lo, hi)
                    ELSE LET rest == From(T[n].children, FindChild(T[n], lo))
                         IN  FlattenSeq([j \in DOMAIN rest |-> f[rest[j]]])]
  <2>1. PICK f : ScanFn(T, lo, hi, f)
    BY ScanExists
  <2>2. f = [n \in DOMAIN T |-> ScanStep(T, lo, hi, f, n)]
    BY <1>2, <2>1 DEF ScanFn
  <2>3. f = [n \in DOMAIN T |->
                    IF T[n].type = "leaf" THEN LeafScan(T[n], lo, hi)
                    ELSE LET rest == From(T[n].children, FindChild(T[n], lo))
                         IN  FlattenSeq([j \in DOMAIN rest |-> f[rest[j]]])]
    BY <2>2, Zenon DEF ScanStep, Visits, Rest
  <2> QED
    BY <2>3, Zenon
<1>4. fn = [n \in DOMAIN T |->
                    IF T[n].type = "leaf" THEN LeafScan(T[n], lo, hi)
                    ELSE LET rest == From(T[n].children, FindChild(T[n], lo))
                         IN  FlattenSeq([j \in DOMAIN rest |-> fn[rest[j]]])]
  BY <1>3, Zenon
<1> HIDE DEF fn
<1>5. fn = [n \in DOMAIN T |-> ScanStep(T, lo, hi, fn, n)]
  BY <1>4, Zenon DEF ScanStep, Visits, Rest
<1>6. \A i \in 1..Len(T) : fn[i] = ScanStep(T, lo, hi, fn, i)
  BY <1>2, <1>5
<1> QED
  BY <1>1, <1>6

\* What get finds from node i.
Look(T, i) == [x \in Key |-> get(T, i, x)]

\* get goes on to the child.
LEMMA GetStep ==
    ASSUME NEW T, NEW rt, NEW H, NEW lvl, NEW K, TreeOK(T, rt, H, lvl, K), NEW x \in Key, NEW i \in 1..Len(T)
    PROVE  get(T, i, x) = IF T[i].type = "leaf" THEN LeafGet(T[i], x) ELSE get(T, Child(T[i], x), x)
<1>1. LeafFor(T, i, x) = IF T[i].type = "leaf" THEN i ELSE LeafFor(T, Child(T[i], x), x)
  BY LeafForStep
<1> QED
  BY <1>1 DEF get

\* A value below a child is found by going on to that child.
LEMMA FoundBelow ==
    ASSUME NEW T, NEW rt, NEW H, NEW lvl, NEW K, TreeOK(T, rt, H, lvl, K), NEW x \in Key,
           NEW i \in 1..Len(T), T[i].type # "leaf", NEW q \in Kids(T[i]), NEW c, c = T[i].children[q],
           NEW w \in Value, get(T, c, x) = w
    PROVE  FindChild(T[i], x) = q /\ get(T, i, x) = w
<1>1. c \in 1..Len(T) /\ \A y \in K[c] : FindChild(T[i], y) = q
  BY TreeDown
<1>2. x \in K[c]
  <2> SUFFICES ASSUME x \notin K[c] PROVE FALSE
    OBVIOUS
  <2>1. get(T, c, x) = None
    BY <1>1, GetNothing
  <2> QED
    BY <2>1
<1>3. FindChild(T[i], x) = q
  BY <1>1, <1>2
<1>4. Child(T[i], x) = c
  BY <1>3 DEF Child
<1> QED
  BY <1>3, <1>4, GetStep

\* An internal node lists what its children list.
LEMMA ScanNode ==
    ASSUME NEW T, NEW rt, NEW H, NEW lvl, NEW K, TreeOK(T, rt, H, lvl, K), NEW lo \in Key, NEW hi,
           NEW i \in 1..Len(T), T[i].type # "leaf", NEW f,
           \A c \in 1..Len(T) : lvl[c] < lvl[i] => Lists(f[c], Look(T, c), lo, hi)
    PROVE  Lists(FlattenSeq(Visits(T[i], lo, f)), Look(T, i), lo, hi)
<1>1. PICK fc, rest, m, ss : /\ fc = FindChild(T[i], lo) /\ rest = Rest(T[i], lo) /\ m = Len(T[i].children)
                             /\ ss = Visits(T[i], lo, f)
  OBVIOUS
<1>2. RestOf(T, lvl, i, fc, rest, m)
  BY <1>1, RestIs
<1>3. PICK z : z = m - fc + 1
  OBVIOUS
<1>4. /\ m \in Nat /\ fc \in 1..m /\ fc \in Int /\ DOMAIN rest = 1..z /\ z \in Nat /\ z # 0
      /\ \A j \in 1..z :
           /\ fc + j - 1 \in Kids(T[i]) /\ rest[j] = T[i].children[fc + j - 1]
           /\ rest[j] \in 1..Len(T) /\ lvl[rest[j]] < lvl[i]
  BY <1>2, <1>3 DEF RestOf
<1>5. ss = [j \in 1..z |-> f[rest[j]]]
  BY <1>1, <1>4 DEF Visits
<1>6. Len(ss) = z /\ \A j \in 1..z : ss[j] = f[rest[j]]
  BY <1>4, <1>5
<1>7. ASSUME NEW j \in 1..z
      PROVE  /\ ss[j] \in Seq(Pair) /\ Sorted(ss[j])
             /\ \A x \in Key, w \in Value :
                  <<x, w>> \in ToSet(ss[j]) <=> get(T, rest[j], x) = w /\ Within(x, lo, hi)
  <2>1. Lists(f[rest[j]], Look(T, rest[j]), lo, hi)
    BY <1>4
  <2>2. \A x \in Key : Look(T, rest[j])[x] = get(T, rest[j], x)
    BY DEF Look
  <2> QED
    BY <1>6, <2>1, <2>2 DEF Lists
<1>8. ASSUME NEW j \in 1..z, NEW x \in Key, NEW w \in Value, <<x, w>> \in ToSet(ss[j])
      PROVE  FindChild(T[i], x) = fc + j - 1 /\ get(T, i, x) = w /\ Within(x, lo, hi)
  <2>1. get(T, rest[j], x) = w /\ Within(x, lo, hi)
    BY <1>7, <1>8
  <2>2. PICK q, c : q = fc + j - 1 /\ c = rest[j]
    OBVIOUS
  <2>3. q \in Kids(T[i]) /\ c = T[i].children[q] /\ get(T, c, x) = w
    BY <1>4, <2>1, <2>2
  <2>4. FindChild(T[i], x) = q /\ get(T, i, x) = w
    BY <2>3, FoundBelow
  <2> QED
    BY <2>1, <2>2, <2>4
<1>9. ASSUME NEW j \in 1..z, NEW e \in ToSet(ss[j])
      PROVE  e[1] \in Key /\ e[2] \in Value /\ e = <<e[1], e[2]>>
  <2>1. ss[j] \in Seq(Pair)
    BY <1>7
  <2>2. e \in Pair
    <3>1. PICK p \in DOMAIN ss[j] : e = ss[j][p]
      BY DEF ToSet
    <3> QED
      BY <2>1, <3>1
  <2> QED
    BY <2>2 DEF Pair
<1>10. T[i].keys \in Seq(Key) /\ Ascending(T[i].keys)
  BY TreeNode, NodeKeys
<1>11. ASSUME NEW a \in 1..z, NEW b \in 1..z, a < b, NEW e \in ToSet(ss[a]), NEW g \in ToSet(ss[b])
       PROVE  e[1] < g[1]
  <2>1. PICK x, y : x = e[1] /\ y = g[1]
    OBVIOUS
  <2>2. x \in Key /\ y \in Key /\ x \in Int /\ y \in Int
    BY <1>9, <2>1
  <2>3. <<x, e[2]>> \in ToSet(ss[a]) /\ <<y, g[2]>> \in ToSet(ss[b]) /\ e[2] \in Value /\ g[2] \in Value
    BY <1>9, <2>1
  <2>4. FindChild(T[i], x) = fc + a - 1 /\ FindChild(T[i], y) = fc + b - 1
    BY <1>8, <2>2, <2>3
  <2>5. ~(y <= x)
    <3> SUFFICES ASSUME y <= x PROVE FALSE
      OBVIOUS
    <3>1. FindChild(T[i], y) <= FindChild(T[i], x)
      BY <1>10, <2>2, FindChildMono
    <3>2. fc + b - 1 <= fc + a - 1
      BY <2>4, <3>1
    <3> QED
      BY <1>4, <1>11, <3>2
  <2> QED
    BY <2>1, <2>2, <2>5
<1>12. Flat(FlattenSeq(ss), ss, z)
  <2>1. \A a \in 1..Len(ss) : ss[a] \in Seq(Pair) /\ Sorted(ss[a])
    BY <1>6, <1>7
  <2>2. \A a, b \in 1..Len(ss) : a < b => \A e \in ToSet(ss[a]), g \in ToSet(ss[b]) : e[1] < g[1]
    BY <1>6, <1>11
  <2>3. Len(ss) \in Nat /\ Len(ss) # 0
    BY <1>4, <1>6
  <2>4. Flat(FlattenSeq(ss), ss, Len(ss))
    BY <2>1, <2>2, <2>3, FlattenSpec
  <2> QED
    BY <1>6, <2>4
<1>13. ASSUME NEW x \in Key, NEW w \in Value
       PROVE  <<x, w>> \in ToSet(FlattenSeq(ss)) <=> Look(T, i)[x] = w /\ Within(x, lo, hi)
  <2>1. Look(T, i)[x] = get(T, i, x)
    BY DEF Look
  <2>2. <<x, w>> \in ToSet(FlattenSeq(ss)) <=> \E a \in 1..z : <<x, w>> \in ToSet(ss[a])
    BY <1>12 DEF Flat
  <2>3. ASSUME get(T, i, x) = w, Within(x, lo, hi)
        PROVE  \E a \in 1..z : <<x, w>> \in ToSet(ss[a])
    <3>1. PICK q : q = FindChild(T[i], x)
      OBVIOUS
    <3>2. q \in Kids(T[i]) /\ Child(T[i], x) = T[i].children[q]
      BY <3>1, ChildIn
    <3>3. q \in 1..m
      BY <1>1, <3>2 DEF Kids
    <3>4. fc <= q
      <4>1. lo <= x
        BY <2>3 DEF Within
      <4> QED
        BY <1>1, <1>10, <3>1, <4>1, FindChildMono
    <3>5. PICK a : a = q - fc + 1
      OBVIOUS
    <3>6. a \in 1..z /\ fc + a - 1 = q
      <4>1. q \in Int /\ m \in Int /\ fc \in Int /\ q <= m
        BY <1>4, <3>3
      <4> QED
        BY ONLY <1>3, <3>4, <3>5, <4>1
    <3>7. rest[a] = Child(T[i], x)
      BY <1>4, <3>2, <3>6
    <3>8. get(T, rest[a], x) = w
      BY <2>3, <3>7, GetStep
    <3> QED
      BY <1>7, <2>3, <3>6, <3>8
  <2> QED
    BY <1>8, <2>1, <2>2, <2>3
<1>14. Lists(FlattenSeq(ss), Look(T, i), lo, hi)
  BY <1>12, <1>13 DEF Lists, Flat
<1> QED
  BY <1>1, <1>14

\* scan lists what get finds, from every node.
LEMMA ScanLists ==
    ASSUME NEW T, NEW rt, Good(T, rt), NEW lo \in Key, NEW hi \in Key \cup {None}
    PROVE  Lists(scan(T, rt, lo, hi), Look(T, rt), lo, hi)
<1>1. PICK H, lvl, K : TreeOK(T, rt, H, lvl, K)
  BY DEF Good
<1>2. PICK f : \A i \in 1..Len(T) : scan(T, i, lo, hi) = f[i] /\ f[i] = ScanStep(T, lo, hi, f, i)
  BY <1>1, ScanUnfolds
<1> DEFINE S == {i \in 1..Len(T) : Lists(f[i], Look(T, i), lo, hi)}
<1>3. ASSUME NEW i \in 1..Len(T), \A c \in 1..Len(T) : lvl[c] < lvl[i] => c \in S
      PROVE  i \in S
  <2>1. f[i] = ScanStep(T, lo, hi, f, i)
    BY <1>2
  <2>2. CASE T[i].type = "leaf"
    <3>1. f[i] = LeafScan(T[i], lo, hi)
      BY <2>1, <2>2 DEF ScanStep
    <3>2. LeafOK(T[i])
      BY <1>1, <2>2, TreeNode, NodeKeys
    <3>3. PICK look : look = Look(T, i)
      OBVIOUS
    <3>4. \A x \in Key : look[x] = LeafGet(T[i], x)
      <4> SUFFICES ASSUME NEW x \in Key PROVE get(T, i, x) = LeafGet(T[i], x)
        BY <3>3 DEF Look
      <4> QED
        BY <1>1, <2>2, GetStep
    <3>5. Lists(LeafScan(T[i], lo, hi), look, lo, hi)
      BY <3>2, <3>4, LeafScanSpec
    <3> QED
      BY <3>1, <3>3, <3>5
  <2>3. CASE T[i].type # "leaf"
    <3>1. f[i] = FlattenSeq(Visits(T[i], lo, f))
      BY <2>1, <2>3 DEF ScanStep
    <3>2. \A c \in 1..Len(T) : lvl[c] < lvl[i] => Lists(f[c], Look(T, c), lo, hi)
      BY <1>3
    <3>3. Lists(FlattenSeq(Visits(T[i], lo, f)), Look(T, i), lo, hi)
      BY <1>1, <2>3, <3>2, ScanNode
    <3> QED
      BY <3>1, <3>3
  <2> QED
    BY <2>2, <2>3
<1> HIDE DEF S
<1>4. 1..Len(T) \subseteq S
  BY <1>1, <1>3, BottomUp
<1>5. rt \in 1..Len(T)
  BY <1>1, TreeParts
<1>6. Lists(f[rt], Look(T, rt), lo, hi)
  BY <1>4, <1>5 DEF S
<1> QED
  BY <1>2, <1>5, <1>6

\* The invariant says that Scan lists what Get finds.
LEMMA TreeInvScan == TreeInv => ScanIsGet
<1> SUFFICES ASSUME TreeInv PROVE ScanIsGet
  OBVIOUS
<1> DEFINE found == {e \in {<<k, Get(k)>> : k \in Key} : e[2] # None}
<1>1. ASSUME NEW lo \in Key, NEW hi \in Key \cup {None}
      PROVE  /\ ToSet(Scan(lo, hi)) = {e \in found : lo <= e[1] /\ (hi = None \/ e[1] <= hi)}
             /\ \A i \in 1..(Len(Scan(lo, hi)) - 1) : Scan(lo, hi)[i][1] < Scan(lo, hi)[i + 1][1]
  <2>1. PICK got : got = Scan(lo, hi)
    OBVIOUS
  <2>2. Lists(got, Look(blocks, rootID), lo, hi)
    BY <2>1, ScanLists DEF Scan, TreeInv
  <2>3. got \in Seq(Pair) /\ Sorted(got) /\ Len(got) \in Nat
    BY <2>2, LenProperties DEF Lists
  <2>4. \A x \in Key, w \in Value : <<x, w>> \in ToSet(got) <=> Get(x) = w /\ Within(x, lo, hi)
    <3>1. \A x \in Key : Look(blocks, rootID)[x] = Get(x)
      BY DEF Look, Get
    <3> QED
      BY <2>2, <3>1 DEF Lists
  <2>5. ASSUME NEW e \in ToSet(got)
        PROVE  e \in found /\ Within(e[1], lo, hi)
    <3>1. e \in Pair
      <4>1. PICK p \in DOMAIN got : e = got[p]
        BY DEF ToSet
      <4> QED
        BY <2>3, <4>1
    <3>2. e[1] \in Key /\ e[2] \in Value /\ e = <<e[1], e[2]>> /\ e[2] # None
      BY <3>1 DEF Pair
    <3>3. Get(e[1]) = e[2] /\ Within(e[1], lo, hi)
      BY <2>4, <3>2
    <3> QED
      BY <3>2, <3>3
  <2>6. ASSUME NEW e \in found, Within(e[1], lo, hi)
        PROVE  e \in ToSet(got)
    <3>1. PICK x \in Key : e = <<x, Get(x)>>
      OBVIOUS
    <3>2. Get(x) # None /\ e[1] = x
      BY <3>1
    <3>3. Get(x) \in Value
      BY <3>2, GetIn DEF Get, TreeInv
    <3> QED
      BY <2>4, <2>6, <3>1, <3>2, <3>3
  <2> HIDE DEF found
  <2>7. ToSet(got) = {e \in found : Within(e[1], lo, hi)}
    BY <2>5, <2>6
  <2>8. ASSUME NEW i \in 1..(Len(got) - 1)
        PROVE  got[i][1] < got[i + 1][1]
    <3>1. i \in 1..Len(got) /\ i + 1 \in 1..Len(got) /\ i < i + 1
      BY <2>3
    <3> QED
      BY <2>3, <3>1 DEF Sorted
  <2> QED
    BY <2>1, <2>7, <2>8 DEF Within
<1> QED
  BY <1>1 DEF ScanIsGet

\* Scan of internal/btree returns every key between its bounds that Get finds, with
\* its value, in ascending order and nothing else, whatever has been put, deleted
\* or has failed before.
THEOREM ScanIsGetHolds == Spec => []ScanIsGet
BY TreeInvariant, TreeInvScan, PTL
=============================================================================
