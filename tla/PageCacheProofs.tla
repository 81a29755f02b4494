-------------------------- MODULE PageCacheProofs --------------------------
(***************************************************************************)
(* Proofs about the page cache (PageCache): the map and the list agree,    *)
(* clean blocks are in the file, ids are fresh, and the cache implements   *)
(* the store of blocks of BlockStore, whatever fails and whenever the      *)
(* process ends.                                                           *)
(*                                                                         *)
(* The list is only looked at through two functions of it: the ids it has  *)
(* and the element an id stands for.  The first lemmas say what every      *)
(* change of the list does to these.                                       *)
(***************************************************************************)
EXTENDS PageCache, SequenceTheorems, FiniteSetTheorems, TLAPS

Ids(l) == {l[i].id : i \in 1..Len(l)}

Distinct(l) == \A i, j \in 1..Len(l) : l[i].id = l[j].id => i = j

EntryOf(l, id) == l[CHOOSE i \in 1..Len(l) : l[i].id = id /\ \A j \in 1..(i - 1) : l[j].id # id]

\* The map and the list.
ListInv == Len(lru) <= MaxSize /\ cache = Ids(lru) /\ Distinct(lru)

\* A clean element is in the file.
CleanInv ==
    \A id \in cache : EntryOf(lru, id).dirty \/ EntryOf(lru, id).block = file[id]

\* What a goroutine in a method may rely on.
AddInv(t) ==
    LET c == call[t] IN
    c.stage = "add" =>
        /\ c.id \in Id /\ c.id \notin cache
        /\ \/ c.method = "Get" /\ c.id \in known /\ c.block = file[c.id] /\ ~c.dirty
           \/ c.method = "Put" /\ c.id \in known /\ c.dirty
           \/ c.method = "Allocate"

AllocateInv(t) ==
    LET c == call[t] IN
    /\ c.stage = "written" => c.method = "Allocate"
    /\ c.method = "Allocate" =>
        /\ c.id \in Id \ known /\ c.id < nextID /\ c.id < size
        /\ c.block \in Value /\ c.block = file[c.id] /\ ~c.dirty
        /\ disk[c.id] \subseteq {Zero, c.block}

FlushInv(t) ==
    LET c == call[t] IN
    /\ c.stage = "flush" =>
        /\ c.pos >= 1 /\ c.method \in {"Flush", "Close"}
        /\ \A i \in 1..Len(lru) : i < c.pos => ~lru[i].dirty
    /\ c.stage = "flushed" => c.method = "Close"
    /\ c.method = "Close" => t \in Closer

CallsInv ==
    \A t \in Thread :
        /\ call[t].stage \in {"add", "flush"} => mu = t
        /\ AddInv(t) /\ AllocateInv(t) /\ FlushInv(t)

\* Allocate gives an id to one goroutine.
OwnIds ==
    \A t, u \in Thread :
        call[t].method = "Allocate" /\ call[u].method = "Allocate" /\ call[t].id = call[u].id => t = u

\* Ids, slots and the end of the file.
FileInv ==
    /\ cache \subseteq known
    /\ \A id \in known : id < nextID /\ id < size
    /\ \A i \in Slot : file[i] \in disk[i]
    /\ \A i \in Slot : i >= nextID => disk[i] = {Zero}

\* What a crash may leave of a block is accounted for.
SurviveInv ==
    /\ \A id \in known : disk[id] \subseteq survive[id] /\ Contents(id) \in survive[id]
    /\ \A id \in Id : id \notin known \/ id >= synced => Absent \in survive[id]

CacheInv == TypeOK /\ ListInv /\ CleanInv /\ CallsInv /\ OwnIds /\ FileInv /\ SurviveInv

USE BlockAssumption, CacheAssumption

-----------------------------------------------------------------------------
(* The list.                                                               *)

\* With distinct ids, an id stands for the element that has it.
LEMMA EntryIs ==
    ASSUME NEW l \in Seq(CacheEntry), Distinct(l), NEW i \in 1..Len(l)
    PROVE  l[i].id \in Ids(l) /\ EntryOf(l, l[i].id) = l[i]
<1> DEFINE At(k) == l[k].id = l[i].id /\ \A j \in 1..(k - 1) : l[j].id # l[i].id
           k0 == CHOOSE k \in 1..Len(l) : At(k)
<1>1. Len(l) \in Nat
  BY LenProperties
<1>2. \A j \in 1..(i - 1) : j \in 1..Len(l) /\ j # i
  BY <1>1
<1>3. At(i)
  BY <1>2 DEF Distinct
<1>4. k0 \in 1..Len(l) /\ At(k0)
  BY <1>3
<1>5. k0 = i
  BY <1>4 DEF Distinct
<1> QED
  BY <1>5 DEF EntryOf, Ids

LEMMA EntryHas ==
    ASSUME NEW l \in Seq(CacheEntry), Distinct(l), NEW id \in Ids(l)
    PROVE  /\ \E i \in 1..Len(l) : l[i].id = id /\ EntryOf(l, id) = l[i]
           /\ EntryOf(l, id) \in CacheEntry /\ EntryOf(l, id).id = id
<1>1. PICK i \in 1..Len(l) : l[i].id = id
  BY DEF Ids
<1>2. EntryOf(l, id) = l[i]
  BY <1>1, EntryIs
<1>3. l[i] \in CacheEntry
  BY ElementOfSeq
<1> QED
  BY <1>1, <1>2, <1>3

\* The list is as long as the map has ids.
LEMMA ListSize ==
    ASSUME NEW l \in Seq(CacheEntry), Distinct(l)
    PROVE  Cardinality(Ids(l)) = Len(l)
<1> DEFINE f == [i \in 1..Len(l) |-> l[i].id]
<1>1. Len(l) \in Nat
  BY LenProperties
<1>2. f \in Bijection(1..Len(l), Ids(l))
  <2>1. f \in [1..Len(l) -> Ids(l)]
    BY DEF Ids
  <2>2. \A a, b \in 1..Len(l) : f[a] = f[b] => a = b
    BY DEF Distinct
  <2>3. \A id \in Ids(l) : \E a \in 1..Len(l) : f[a] = id
    BY DEF Ids
  <2> QED
    BY <2>1, <2>2, <2>3 DEF Bijection, Injection, Surjection, IsInjective
<1>3. ExistsBijection(1..Len(l), Ids(l))
  BY <1>2 DEF ExistsBijection
<1> QED
  BY <1>1, <1>3, FS_CountingElements

\* RemoveAt, element by element.
LEMMA RemoveAtIs ==
    ASSUME NEW l \in Seq(CacheEntry), NEW i \in 1..Len(l)
    PROVE  /\ RemoveAt(l, i) \in Seq(CacheEntry) /\ Len(l) \in Nat \ {0}
           /\ Len(RemoveAt(l, i)) = Len(l) - 1
           /\ \A k \in 1..(Len(l) - 1) : RemoveAt(l, i)[k] = IF k < i THEN l[k] ELSE l[k + 1]
<1> DEFINE a == SubSeq(l, 1, i - 1)
           b == SubSeq(l, i + 1, Len(l))
<1>1. Len(l) \in Nat /\ Len(l) >= 1
  BY LenProperties
<1>2. \A k \in 1..Len(l) : l[k] \in CacheEntry
  BY ElementOfSeq
<1>3. /\ a \in Seq(CacheEntry) /\ Len(a) = i - 1
      /\ \A k \in 1..(i - 1) : a[k] = l[k]
  <2>1. 1 \in Int /\ i - 1 \in Int /\ \A k \in 1..(i - 1) : l[k] \in CacheEntry
    BY <1>1, <1>2
  <2>2. /\ a \in Seq(CacheEntry) /\ Len(a) = (IF 1 <= i - 1 THEN (i - 1) - 1 + 1 ELSE 0)
        /\ \A k \in 1..((i - 1) - 1 + 1) : a[k] = l[1 + k - 1]
    BY <2>1, SubSeqProperties
  <2> QED
    BY <1>1, <2>2
<1>4. /\ b \in Seq(CacheEntry) /\ Len(b) = Len(l) - i
      /\ \A k \in 1..(Len(l) - i) : b[k] = l[i + k]
  <2>1. i + 1 \in Int /\ Len(l) \in Int /\ \A k \in (i + 1)..Len(l) : l[k] \in CacheEntry
    BY <1>1, <1>2
  <2>2. /\ b \in Seq(CacheEntry) /\ Len(b) = (IF i + 1 <= Len(l) THEN Len(l) - (i + 1) + 1 ELSE 0)
        /\ \A k \in 1..(Len(l) - (i + 1) + 1) : b[k] = l[i + 1 + k - 1]
    BY <2>1, SubSeqProperties
  <2> QED
    BY <1>1, <2>2
<1>5. RemoveAt(l, i) = a \o b
  BY DEF RemoveAt
<1> HIDE DEF a, b
<1>6. /\ a \o b \in Seq(CacheEntry) /\ Len(a \o b) = Len(a) + Len(b)
      /\ \A k \in 1..(Len(a) + Len(b)) : (a \o b)[k] = IF k <= Len(a) THEN a[k] ELSE b[k - Len(a)]
  BY <1>3, <1>4, ConcatProperties
<1>7. Len(a) + Len(b) = Len(l) - 1
  BY <1>1, <1>3, <1>4
<1>8. ASSUME NEW k \in 1..(Len(l) - 1)
      PROVE  RemoveAt(l, i)[k] = IF k < i THEN l[k] ELSE l[k + 1]
  <2>1. RemoveAt(l, i)[k] = IF k <= i - 1 THEN a[k] ELSE b[k - (i - 1)]
    BY <1>3, <1>5, <1>6, <1>7
  <2>2. CASE k < i
    BY <1>1, <1>3, <2>1, <2>2
  <2>3. CASE k >= i
    <3>1. k - (i - 1) \in 1..(Len(l) - i) /\ i + (k - (i - 1)) = k + 1
      BY <1>1, <2>3
    <3>2. b[k - (i - 1)] = l[k + 1]
      BY <1>4, <3>1
    <3> QED
      BY <1>1, <2>1, <2>3, <3>2
  <2> QED
    BY <1>1, <2>2, <2>3
<1> QED
  BY <1>1, <1>5, <1>6, <1>7, <1>8

LEMMA PushFrontIs ==
    ASSUME NEW l \in Seq(CacheEntry), NEW e \in CacheEntry
    PROVE  /\ PushFront(e, l) \in Seq(CacheEntry) /\ Len(l) \in Nat
           /\ Len(PushFront(e, l)) = Len(l) + 1 /\ PushFront(e, l)[1] = e
           /\ \A k \in 2..(Len(l) + 1) : PushFront(e, l)[k] = l[k - 1]
<1>1. <<e>> \in Seq(CacheEntry) /\ Len(<<e>>) = 1 /\ <<e>>[1] = e /\ Len(l) \in Nat
  BY LenProperties
<1>2. /\ <<e>> \o l \in Seq(CacheEntry) /\ Len(<<e>> \o l) = 1 + Len(l)
      /\ \A k \in 1..(1 + Len(l)) : (<<e>> \o l)[k] = IF k <= 1 THEN <<e>>[k] ELSE l[k - 1]
  BY <1>1, ConcatProperties
<1> QED
  BY <1>1, <1>2 DEF PushFront
LEMMA SameEntry ==
    ASSUME NEW l \in Seq(CacheEntry), Distinct(l), NEW m \in Seq(CacheEntry), Distinct(m),
           NEW i \in 1..Len(l), NEW k \in 1..Len(m), m[k] = l[i]
    PROVE  EntryOf(m, l[i].id) = EntryOf(l, l[i].id)
BY EntryIs

\* An element is taken out.
LEMMA Removed ==
    ASSUME NEW l \in Seq(CacheEntry), Distinct(l), NEW i \in 1..Len(l)
    PROVE  LET m == RemoveAt(l, i) IN
           /\ m \in Seq(CacheEntry) /\ Len(l) \in Nat \ {0} /\ Len(m) = Len(l) - 1
           /\ Distinct(m) /\ Ids(m) = Ids(l) \ {l[i].id}
           /\ \A id \in Ids(m) : EntryOf(m, id) = EntryOf(l, id)
<1> DEFINE m == RemoveAt(l, i)
           at(k) == IF k < i THEN k ELSE k + 1
<1>1. /\ m \in Seq(CacheEntry) /\ Len(l) \in Nat \ {0} /\ Len(m) = Len(l) - 1
      /\ \A k \in 1..(Len(l) - 1) : m[k] = IF k < i THEN l[k] ELSE l[k + 1]
  BY RemoveAtIs
<1> HIDE DEF m
<1>2. \A k \in 1..Len(m) : at(k) \in 1..Len(l) /\ at(k) # i /\ m[k] = l[at(k)]
  BY <1>1
<1>3. \A j, k \in 1..Len(m) : at(j) = at(k) => j = k
  BY <1>1
<1>4. \A j \in 1..Len(l) : j # i => \E k \in 1..Len(m) : at(k) = j
  <2> SUFFICES ASSUME NEW j \in 1..Len(l), j # i
               PROVE  \E k \in 1..Len(m) : at(k) = j
    OBVIOUS
  <2>1. CASE j < i
    BY <1>1, <2>1
  <2>2. CASE j > i
    <3>1. j - 1 \in 1..Len(m) /\ at(j - 1) = j
      BY <1>1, <2>2
    <3> QED
      BY <3>1
  <2> QED
    BY <1>1, <2>1, <2>2
<1> HIDE DEF at
<1>5. Distinct(m)
  BY <1>2, <1>3 DEF Distinct
<1>6. Ids(m) = Ids(l) \ {l[i].id}
  <2>1. \A id \in Ids(m) : id \in Ids(l) /\ id # l[i].id
    BY <1>2 DEF Ids, Distinct
  <2>2. \A id \in Ids(l) : id # l[i].id => id \in Ids(m)
    BY <1>2, <1>4 DEF Ids
  <2> QED
    BY <2>1, <2>2
<1>7. ASSUME NEW id \in Ids(m)
      PROVE  EntryOf(m, id) = EntryOf(l, id)
  <2>1. PICK k \in 1..Len(m) : m[k].id = id
    BY DEF Ids
  <2> QED
    BY <1>1, <1>2, <1>5, <2>1, SameEntry
<1> QED
  BY <1>1, <1>5, <1>6, <1>7 DEF m

\* A new element comes to the front.
LEMMA Pushed ==
    ASSUME NEW l \in Seq(CacheEntry), Distinct(l), NEW e \in CacheEntry, e.id \notin Ids(l)
    PROVE  LET m == PushFront(e, l) IN
           /\ m \in Seq(CacheEntry) /\ Len(l) \in Nat /\ Len(m) = Len(l) + 1
           /\ Distinct(m) /\ Ids(m) = Ids(l) \cup {e.id} /\ EntryOf(m, e.id) = e
           /\ \A id \in Ids(l) : EntryOf(m, id) = EntryOf(l, id)
<1> DEFINE m == PushFront(e, l)
<1>1. /\ m \in Seq(CacheEntry) /\ Len(l) \in Nat /\ Len(m) = Len(l) + 1 /\ m[1] = e
      /\ \A k \in 2..(Len(l) + 1) : m[k] = l[k - 1]
  BY PushFrontIs
<1> HIDE DEF m
<1>2. \A k \in 1..Len(m) : k # 1 => k - 1 \in 1..Len(l) /\ m[k] = l[k - 1] /\ m[k].id \in Ids(l)
  BY <1>1 DEF Ids
<1>3. \A j \in 1..Len(l) : j + 1 \in 1..Len(m) /\ m[j + 1] = l[j]
  BY <1>1
<1>4. 1 \in 1..Len(m)
  BY <1>1
<1>5. Distinct(m)
  <2> SUFFICES ASSUME NEW j \in 1..Len(m), NEW k \in 1..Len(m), m[j].id = m[k].id
               PROVE  j = k
    BY DEF Distinct
  <2>1. CASE j = 1 \/ k = 1
    BY <1>1, <1>2, <2>1
  <2>2. CASE j # 1 /\ k # 1
    <3>1. j - 1 = k - 1
      BY <1>2, <2>2 DEF Distinct
    <3> QED
      BY <1>1, <3>1
  <2> QED
    BY <2>1, <2>2
<1>6. Ids(m) = Ids(l) \cup {e.id}
  <2>1. \A id \in Ids(m) : id \in Ids(l) \cup {e.id}
    BY <1>1, <1>2 DEF Ids
  <2>2. \A id \in Ids(l) : id \in Ids(m)
    BY <1>3 DEF Ids
  <2>3. e.id \in Ids(m)
    BY <1>1, <1>4 DEF Ids
  <2> QED
    BY <2>1, <2>2, <2>3
<1>7. EntryOf(m, e.id) = e
  BY <1>1, <1>4, <1>5, EntryIs
<1>8. ASSUME NEW id \in Ids(l)
      PROVE  EntryOf(m, id) = EntryOf(l, id)
  <2>1. PICK k \in 1..Len(l) : l[k].id = id
    BY DEF Ids
  <2> QED
    BY <1>1, <1>3, <1>5, <2>1, SameEntry
<1> QED
  BY <1>1, <1>5, <1>6, <1>7, <1>8 DEF m

\* An element comes to the front, as it was or rewritten.
LEMMA Moved ==
    ASSUME NEW l \in Seq(CacheEntry), Distinct(l), NEW i \in 1..Len(l),
           NEW e \in CacheEntry, e.id = l[i].id
    PROVE  LET m == PushFront(e, RemoveAt(l, i)) IN
           /\ m \in Seq(CacheEntry) /\ Len(m) = Len(l)
           /\ Distinct(m) /\ Ids(m) = Ids(l) /\ EntryOf(m, e.id) = e
           /\ \A id \in Ids(l) \ {e.id} : EntryOf(m, id) = EntryOf(l, id)
<1> DEFINE r == RemoveAt(l, i)
<1>1. /\ r \in Seq(CacheEntry) /\ Len(l) \in Nat \ {0} /\ Len(r) = Len(l) - 1
      /\ Distinct(r) /\ Ids(r) = Ids(l) \ {e.id}
      /\ \A id \in Ids(r) : EntryOf(r, id) = EntryOf(l, id)
  BY Removed
<1> HIDE DEF r
<1> DEFINE m == PushFront(e, r)
<1>2. /\ m \in Seq(CacheEntry) /\ Len(m) = Len(r) + 1
      /\ Distinct(m) /\ Ids(m) = Ids(r) \cup {e.id} /\ EntryOf(m, e.id) = e
      /\ \A id \in Ids(r) : EntryOf(m, id) = EntryOf(r, id)
  BY <1>1, Pushed
<1> HIDE DEF m
<1>3. e.id \in Ids(l)
  BY EntryIs
<1>4. Ids(m) = Ids(l) /\ Len(m) = Len(l)
  BY <1>1, <1>2, <1>3
<1>5. \A id \in Ids(l) \ {e.id} : EntryOf(m, id) = EntryOf(l, id)
  BY <1>1, <1>2
<1> QED
  BY <1>2, <1>4, <1>5 DEF m, r

\* The element at the back is dropped.
LEMMA DroppedLast ==
    ASSUME NEW l \in Seq(CacheEntry), Distinct(l), l # <<>>
    PROVE  LET m == SubSeq(l, 1, Len(l) - 1)
               e == l[Len(l)]
           IN  /\ m \in Seq(CacheEntry) /\ Len(l) \in Nat \ {0} /\ Len(m) = Len(l) - 1 /\ Distinct(m)
               /\ e \in CacheEntry /\ e.id \in Ids(l) /\ EntryOf(l, e.id) = e
               /\ Ids(m) = Ids(l) \ {e.id}
               /\ \A id \in Ids(m) : EntryOf(m, id) = EntryOf(l, id)
<1> DEFINE m == SubSeq(l, 1, Len(l) - 1)
           e == l[Len(l)]
<1>1. Len(l) \in Nat \ {0}
  BY EmptySeq
<1>2. Len(l) \in 1..Len(l) /\ e \in CacheEntry
  BY <1>1, ElementOfSeq
<1>3. e.id \in Ids(l) /\ EntryOf(l, e.id) = e
  BY <1>2, EntryIs
<1>4. /\ m \in Seq(CacheEntry) /\ Len(m) = Len(l) - 1
      /\ \A k \in 1..(Len(l) - 1) : m[k] = l[k]
  <2> DEFINE n == Len(l) - 1
  <2>1. 1 \in Int /\ n \in Nat /\ \A k \in 1..n : l[k] \in CacheEntry
    BY <1>1, ElementOfSeq
  <2> HIDE DEF n
  <2> DEFINE a == SubSeq(l, 1, n)
  <2>2. /\ a \in Seq(CacheEntry) /\ Len(a) = (IF 1 <= n THEN n - 1 + 1 ELSE 0)
        /\ \A k \in 1..(n - 1 + 1) : a[k] = l[1 + k - 1]
    BY <2>1, SubSeqProperties
  <2> HIDE DEF a
  <2>3. a \in Seq(CacheEntry) /\ Len(a) = n /\ \A k \in 1..n : a[k] = l[k]
    BY <2>1, <2>2
  <2> QED
    BY <2>3 DEF a, n
<1> HIDE DEF m
<1>5. \A k \in 1..Len(m) : k \in 1..Len(l) /\ k # Len(l) /\ m[k] = l[k]
  BY <1>1, <1>4
<1>6. \A k \in 1..Len(l) : k # Len(l) => k \in 1..Len(m)
  BY <1>1, <1>4
<1>7. Distinct(m)
  BY <1>5 DEF Distinct
<1>8. Ids(m) = Ids(l) \ {e.id}
  <2>1. \A id \in Ids(m) : id \in Ids(l) /\ id # e.id
    BY <1>2, <1>5 DEF Ids, Distinct
  <2>2. \A id \in Ids(l) : id # e.id => id \in Ids(m)
    BY <1>5, <1>6 DEF Ids
  <2> QED
    BY <2>1, <2>2
<1>9. ASSUME NEW id \in Ids(m)
      PROVE  EntryOf(m, id) = EntryOf(l, id)
  <2>1. PICK k \in 1..Len(m) : m[k].id = id
    BY DEF Ids
  <2>2. k \in 1..Len(l) /\ m[k] = l[k] /\ l[k].id = id
    BY <1>5, <2>1
  <2> QED
    BY <1>4, <1>7, <2>2, SameEntry
<1> QED
  BY <1>1, <1>2, <1>3, <1>4, <1>7, <1>8, <1>9 DEF m

\* An element is marked as clean.
LEMMA Cleaned ==
    ASSUME NEW l \in Seq(CacheEntry), Distinct(l), NEW i \in 1..Len(l)
    PROVE  LET m == [l EXCEPT ![i].dirty = FALSE] IN
           /\ m \in Seq(CacheEntry) /\ Len(m) = Len(l) /\ Distinct(m) /\ Ids(m) = Ids(l)
           /\ EntryOf(m, l[i].id).block = l[i].block /\ ~EntryOf(m, l[i].id).dirty /\ ~m[i].dirty
           /\ \A k \in 1..Len(l) : k # i => m[k] = l[k]
           /\ \A id \in Ids(l) \ {l[i].id} : EntryOf(m, id) = EntryOf(l, id)
<1> DEFINE e == [l[i] EXCEPT !.dirty = FALSE]
           m == [l EXCEPT ![i] = e]
<1>1. l[i] \in CacheEntry
  BY ElementOfSeq
<1>2. e \in CacheEntry /\ e.id = l[i].id /\ e.block = l[i].block /\ e.dirty = FALSE
  BY <1>1 DEF CacheEntry
<1> HIDE DEF e
<1>3. /\ m \in Seq(CacheEntry) /\ Len(m) = Len(l)
      /\ \A j \in 1..Len(l) : m[j] = IF j = i THEN e ELSE l[j]
  BY <1>2, ExceptSeq
<1>4. m = [l EXCEPT ![i].dirty = FALSE]
  BY DEF e
<1> HIDE DEF m
<1>5. \A j \in 1..Len(l) : m[j].id = l[j].id
  BY <1>2, <1>3
<1>6. Distinct(m) /\ Ids(m) = Ids(l)
  BY <1>3, <1>5 DEF Distinct, Ids
<1>7. EntryOf(m, l[i].id) = e
  BY <1>2, <1>3, <1>6, EntryIs
<1>8. ASSUME NEW id \in Ids(l) \ {l[i].id}
      PROVE  EntryOf(m, id) = EntryOf(l, id)
  <2>1. PICK k \in 1..Len(l) : l[k].id = id
    BY DEF Ids
  <2>2. m[k] = l[k]
    BY <1>3, <2>1
  <2> QED
    BY <1>3, <1>6, <2>1, <2>2, SameEntry
<1> QED
  BY <1>2, <1>3, <1>4, <1>6, <1>7, <1>8
-----------------------------------------------------------------------------
(* The calls.                                                              *)

LEMMA CallFields ==
    ASSUME NEW c \in Call
    PROVE  /\ c.stage \in {"idle", "written", "add", "flush", "flushed"}
           /\ c.method \in {"none", "Get", "Put", "Allocate", "Flush", "Close"}
           /\ c.id \in 0..MaxBlock /\ c.block \in Content /\ c.dirty \in BOOLEAN /\ c.pos \in Nat
BY DEF Call

LEMMA IdleIs ==
    /\ Idle \in Call /\ Idle.stage = "idle" /\ Idle.method = "none"
BY DEF Idle, Call, Content

\* What a read finds, through the functions of the list.
LEMMA ContentsIs ==
    ASSUME NEW id
    PROVE  Contents(id) = IF id \in cache THEN EntryOf(lru, id).block ELSE file[id]
BY DEF Contents, ElementOf, EntryOf

LEMMA ContentsNext ==
    ASSUME NEW id
    PROVE  Contents(id)' = IF id \in cache' THEN EntryOf(lru', id).block ELSE file'[id]
BY DEF Contents, ElementOf, EntryOf

\* While a goroutine has the lock, or nobody has it, no other is where the lock
\* is needed.
LEMMA OthersOut ==
    ASSUME CallsInv, NEW t \in Thread, mu \in {NoThread, t}, NEW u \in Thread, u # t
    PROVE  call[u].stage \notin {"add", "flush"}
BY DEF CallsInv

\* A step with the lock leaves the calls of the others right: they are outside
\* the lock, and what they have allocated is nobody else's.
LEMMA LockedStep ==
    ASSUME CacheInv, NEW t \in Thread, mu \in {NoThread, t},
           NEW c \in Call, call' = [call EXCEPT ![t] = c],
           c.method = "Allocate" => call[t].method = "Allocate" /\ c.id = call[t].id,
           c.stage \in {"add", "flush"} => mu' = t,
           \A id \in known' : id \in known \/ (call[t].method = "Allocate" /\ id = call[t].id),
           nextID' = nextID, size' \in Nat, size' >= size,
           \A id \in Id \ known : file'[id] = file[id] /\ disk'[id] \subseteq disk[id],
           AddInv(t)', AllocateInv(t)', FlushInv(t)'
    PROVE  CallsInv' /\ OwnIds' /\ call' \in [Thread -> Call]
<1>1. TypeOK /\ CallsInv /\ OwnIds
  BY DEF CacheInv
<1>2. /\ call' \in [Thread -> Call] /\ call'[t] = c
      /\ \A u \in Thread \ {t} : call'[u] = call[u]
  BY <1>1 DEF TypeOK
<1>3. ASSUME NEW u \in Thread, u # t
      PROVE  /\ call'[u].stage \in {"add", "flush"} => mu' = u
             /\ AddInv(u)' /\ AllocateInv(u)' /\ FlushInv(u)'
  <2>1. call'[u] = call[u] /\ call[u] \in Call /\ call[u].stage \notin {"add", "flush"}
    BY <1>1, <1>2, <1>3, OthersOut DEF TypeOK
  <2>2. AddInv(u)'
    BY <2>1 DEF AddInv
  <2>3. FlushInv(u)'
    BY <1>1, <2>1 DEF CallsInv, FlushInv
  <2>4. AllocateInv(u)'
    <3>1. AllocateInv(u)
      BY <1>1 DEF CallsInv
    <3>2. CASE call[u].method # "Allocate"
      BY <2>1, <3>1, <3>2 DEF AllocateInv
    <3>3. CASE call[u].method = "Allocate"
      <4>1. call[u].id \in Id \ known /\ call[u].id < nextID /\ call[u].id < size
        BY <3>1, <3>3 DEF AllocateInv
      <4>2. call[u].id \notin known'
        BY <1>1, <1>3, <3>3, <4>1 DEF OwnIds
      <4>3. call[u].id < size'
        BY <1>1, <4>1 DEF TypeOK, FileTypeOK, Id
      <4> QED
        BY <2>1, <3>1, <3>3, <4>1, <4>2, <4>3 DEF AllocateInv
    <3> QED
      BY <3>2, <3>3
  <2> QED
    BY <2>1, <2>2, <2>3, <2>4
<1>4. CallsInv'
  BY <1>2, <1>3 DEF CallsInv
<1>5. OwnIds'
  <2> SUFFICES ASSUME NEW u \in Thread, NEW v \in Thread, call'[u].method = "Allocate",
                      call'[v].method = "Allocate", call'[u].id = call'[v].id
               PROVE  u = v
    BY DEF OwnIds
  <2>1. \A w \in {u, v} : call'[w].method = "Allocate" =>
                            call[w].method = "Allocate" /\ call'[w].id = call[w].id
    BY <1>2
  <2> QED
    BY <1>1, <2>1 DEF OwnIds
<1> QED
  BY <1>2, <1>4, <1>5

\* A goroutine takes the lock (to add a block that a read or a write missed, to
\* go on with Allocate, or to flush), goes on under it, or gives it back, and
\* changes nothing else.
LEMMA OnlyCall ==
    ASSUME CacheInv, NEW t \in Thread, mu \in {NoThread, t}, mu' \in {NoThread, t},
           NEW c \in Call, call' = [call EXCEPT ![t] = c],
           c.stage \in {"add", "flush"} => mu' = t,
           c.method = "Allocate" => call[t].method = "Allocate" /\ c.id = call[t].id,
           UNCHANGED <<fileVars, cacheVars, open, known, done, survive>>,
           AddInv(t)', AllocateInv(t)', FlushInv(t)'
    PROVE  CacheInv' /\ UNCHANGED <<[id \in Id |-> Present(id)], survive, done>>
<1>1. UNCHANGED <<file, size, nextID, disk, synced, lru, cache>>
  BY DEF fileVars, cacheVars
<1>2. TypeOK /\ ListInv /\ CleanInv /\ FileInv /\ SurviveInv
  BY DEF CacheInv
<1>3. size \in Nat /\ size >= size
  BY <1>2 DEF TypeOK, FileTypeOK
<1>4. CallsInv' /\ OwnIds' /\ call' \in [Thread -> Call]
  BY <1>1, <1>3, LockedStep
<1>5. TypeOK'
  BY <1>1, <1>2, <1>4 DEF TypeOK, FileTypeOK
<1>6. ListInv' /\ CleanInv' /\ FileInv'
  BY <1>1, <1>2 DEF ListInv, CleanInv, FileInv
<1>7. \A id : Contents(id)' = Contents(id)
  BY <1>1, ContentsIs, ContentsNext
<1>8. SurviveInv'
  BY <1>1, <1>2, <1>7 DEF SurviveInv
<1>9. UNCHANGED [id \in Id |-> Present(id)]
  BY <1>7 DEF Present
<1> QED
  BY <1>4, <1>5, <1>6, <1>8, <1>9 DEF CacheInv
\* The store that the cache stands for, and what a step does to it.
StoreNow == [id \in Id |-> Present(id)]

StoreStep == Store!Next \/ UNCHANGED <<StoreNow, survive, done>>

LEMMA MissKeeps ==
    ASSUME CacheInv, NEW t \in Thread, NEW id \in Id,
           GetMiss(t, id) \/ \E v \in Value : PutMiss(t, id, v)
    PROVE  CacheInv' /\ StoreStep
<1>1. PICK m \in {"Get", "Put"}, v \in Content, d \in BOOLEAN :
        /\ Enters(t) /\ id \in known \ cache /\ mu' = t
        /\ call' = [call EXCEPT ![t] = Adding(m, id, v, d)]
        /\ m = "Get" => v = file[id] /\ d = FALSE
        /\ m = "Put" => d = TRUE
        /\ UNCHANGED <<fileVars, cacheVars, open, known, done, survive>>
  <2>1. CASE GetMiss(t, id)
    <3>1. file[id] \in Content
      BY DEF CacheInv, TypeOK, FileTypeOK, Id, Slot
    <3>2. /\ Enters(t) /\ id \in known \ cache /\ mu' = t
          /\ call' = [call EXCEPT ![t] = Adding("Get", id, file[id], FALSE)]
          /\ UNCHANGED <<fileVars, cacheVars, open, known, done, survive>>
      BY <2>1 DEF GetMiss, SetCall
    <3> QED
      BY <3>1, <3>2, Zenon
  <2>2. ASSUME NEW v \in Value, PutMiss(t, id, v)
        PROVE  \E m \in {"Get", "Put"}, w \in Content, d \in BOOLEAN :
                /\ Enters(t) /\ id \in known \ cache /\ mu' = t
                /\ call' = [call EXCEPT ![t] = Adding(m, id, w, d)]
                /\ m = "Get" => w = file[id] /\ d = FALSE
                /\ m = "Put" => d = TRUE
                /\ UNCHANGED <<fileVars, cacheVars, open, known, done, survive>>
    <3>1. v \in Content
      BY DEF Content
    <3>2. /\ Enters(t) /\ id \in known \ cache /\ mu' = t
          /\ call' = [call EXCEPT ![t] = Adding("Put", id, v, TRUE)]
          /\ UNCHANGED <<fileVars, cacheVars, open, known, done, survive>>
      BY <2>2 DEF PutMiss, SetCall
    <3> QED
      BY <3>1, <3>2, Zenon
  <2> QED
    BY <2>1, <2>2
<1> DEFINE c == Adding(m, id, v, d)
<1>2. /\ c \in Call /\ c.stage = "add" /\ c.method = m /\ c.id = id /\ c.block = v /\ c.dirty = d
  BY DEF Adding, Call, Id
<1>3. call' = [call EXCEPT ![t] = c]
  BY <1>1
<1> HIDE DEF c
<1>4. call'[t] = c /\ UNCHANGED <<file, cache, known>>
  BY <1>1, <1>3 DEF CacheInv, TypeOK, fileVars, cacheVars
<1>5. AddInv(t)'
  BY <1>1, <1>2, <1>4 DEF AddInv
<1>6. AllocateInv(t)' /\ FlushInv(t)'
  BY <1>1, <1>2, <1>4 DEF AllocateInv, FlushInv
<1>7. c.method # "Allocate" /\ mu = NoThread
  BY <1>1, <1>2 DEF Enters
<1> QED
  BY <1>1, <1>2, <1>3, <1>5, <1>6, <1>7, OnlyCall DEF StoreStep, StoreNow

LEMMA AllocateLocksKeeps ==
    ASSUME CacheInv, NEW t \in Thread, AllocateLocks(t)
    PROVE  CacheInv' /\ StoreStep
<1> DEFINE c == [call[t] EXCEPT !.stage = "add"]
<1>1. call[t] \in Call /\ call[t].stage = "written"
  BY DEF CacheInv, TypeOK, AllocateLocks
<1>2. /\ c \in Call /\ c.stage = "add" /\ c.method = call[t].method /\ c.id = call[t].id
      /\ c.block = call[t].block /\ c.dirty = call[t].dirty
  BY <1>1 DEF Call
<1>3. /\ mu = NoThread /\ mu' = t /\ call' = [call EXCEPT ![t] = c]
      /\ UNCHANGED <<fileVars, cacheVars, open, known, done, survive>>
  BY DEF AllocateLocks, SetCall
<1> HIDE DEF c
<1>4. /\ call'[t] = c /\ UNCHANGED <<file, size, nextID, disk, lru, cache, known>>
  BY <1>3 DEF CacheInv, TypeOK, fileVars, cacheVars
<1>5. AllocateInv(t) /\ call[t].method = "Allocate" /\ cache \subseteq known
  BY <1>1 DEF CacheInv, CallsInv, AllocateInv, FileInv
<1>6. AddInv(t)'
  BY <1>2, <1>4, <1>5 DEF AddInv, AllocateInv
<1>7. AllocateInv(t)'
  BY <1>2, <1>4, <1>5 DEF AllocateInv
<1>8. FlushInv(t)'
  BY <1>2, <1>4, <1>5 DEF FlushInv
<1> QED
  BY <1>2, <1>3, <1>5, <1>6, <1>7, <1>8, OnlyCall DEF StoreStep, StoreNow

LEMMA FlushBeginsKeeps ==
    ASSUME CacheInv, NEW t \in Thread, NEW m \in {"Flush", "Close"}, FlushBegins(t, m)
    PROVE  CacheInv' /\ StoreStep
<1> DEFINE c == Flushing(m, 1)
<1>1. c \in Call /\ c.stage = "flush" /\ c.method = m /\ c.pos = 1
  BY IdleIs DEF Flushing, Call, Idle
<1>2. /\ mu = NoThread /\ mu' = t /\ call' = [call EXCEPT ![t] = c]
      /\ UNCHANGED <<fileVars, cacheVars, open, known, done, survive>>
      /\ m = "Close" => t \in Closer
  BY DEF FlushBegins, Enters, SetCall
<1> HIDE DEF c
<1>3. call'[t] = c
  BY <1>2 DEF CacheInv, TypeOK
<1>4. AddInv(t)' /\ AllocateInv(t)'
  BY <1>1, <1>3 DEF AddInv, AllocateInv
<1>5. FlushInv(t)'
  <2>1. \A i \in 1..Len(lru') : ~(i < 1)
    OBVIOUS
  <2> QED
    BY <1>1, <1>2, <1>3, <2>1 DEF FlushInv
<1> QED
  BY <1>1, <1>2, <1>4, <1>5, OnlyCall DEF StoreStep, StoreNow
-----------------------------------------------------------------------------
(* Hits.                                                                   *)

LEMMA ElementIs ==
    ASSUME CacheInv, NEW id \in cache
    PROVE  /\ ElementOf(id) \in 1..Len(lru) /\ lru[ElementOf(id)].id = id
           /\ lru[ElementOf(id)] = EntryOf(lru, id) /\ EntryOf(lru, id) \in CacheEntry
<1>1. lru \in Seq(CacheEntry) /\ Distinct(lru) /\ id \in Ids(lru)
  BY DEF CacheInv, TypeOK, ListInv
<1>2. PICK i \in 1..Len(lru) : lru[i].id = id
  BY <1>1 DEF Ids
<1>3. \A j \in 1..(i - 1) : j \in 1..Len(lru) /\ j # i
  BY <1>1, LenProperties
<1>4. lru[i].id = id /\ \A j \in 1..(i - 1) : lru[j].id # id
  BY <1>1, <1>2, <1>3 DEF Distinct
<1>5. ElementOf(id) \in 1..Len(lru) /\ lru[ElementOf(id)].id = id
  BY <1>2, <1>4 DEF ElementOf
<1> QED
  BY <1>1, <1>5, EntryHas DEF ElementOf, EntryOf

\* An element comes to the front, with the block it had or a new one that is
\* dirty.
LEMMA HitKeeps ==
    ASSUME CacheInv, NEW t \in Thread, NEW id \in Id, NEW v \in Content,
           Enters(t), id \in known \cap cache,
           NEW e \in CacheEntry, e.id = id, e.block = v,
           e.dirty \/ e = EntryOf(lru, id),
           lru' = PushFront(e, RemoveAt(lru, ElementOf(id))),
           survive' \in [Id -> SUBSET (Content \cup {Absent})],
           v \in survive'[id], \A x \in Id : survive[x] \subseteq survive'[x],
           done' = [id |-> id, block |-> v],
           UNCHANGED <<fileVars, cache, open, mu, call, known>>
    PROVE  /\ CacheInv'
           /\ \A x \in Id : Present(x)' = IF x = id THEN v ELSE Present(x)
<1>1. TypeOK /\ ListInv /\ CleanInv /\ CallsInv /\ OwnIds /\ FileInv /\ SurviveInv
  BY DEF CacheInv
<1>2. UNCHANGED <<file, size, nextID, disk, synced>>
  BY DEF fileVars
<1>3. lru \in Seq(CacheEntry) /\ Distinct(lru) /\ cache = Ids(lru)
  BY <1>1 DEF TypeOK, ListInv
<1>4. ElementOf(id) \in 1..Len(lru) /\ lru[ElementOf(id)].id = id
  BY ElementIs
<1>5. /\ lru' \in Seq(CacheEntry) /\ Len(lru') = Len(lru)
      /\ Distinct(lru') /\ Ids(lru') = Ids(lru) /\ EntryOf(lru', id) = e
      /\ \A x \in Ids(lru) \ {id} : EntryOf(lru', x) = EntryOf(lru, x)
  BY <1>3, <1>4, Moved
<1>6. TypeOK'
  <2>1. done' \in [id : 0..MaxBlock, block : Content \cup {Absent}]
    BY DEF Id
  <2> QED
    BY <1>1, <1>2, <1>5, <2>1 DEF TypeOK, FileTypeOK
<1>7. ListInv'
  BY <1>1, <1>5 DEF ListInv
<1>8. CleanInv'
  BY <1>1, <1>2, <1>3, <1>5 DEF CleanInv
<1>9. CallsInv' /\ OwnIds'
  <2>1. \A u \in Thread : call[u].stage \notin {"add", "flush"}
    BY <1>1 DEF CallsInv, Enters
  <2>2. \A u \in Thread : AddInv(u)'
    BY <2>1 DEF AddInv
  <2>3. \A u \in Thread : AllocateInv(u)'
    BY <1>1, <1>2 DEF CallsInv, AllocateInv
  <2>4. \A u \in Thread : FlushInv(u)'
    BY <1>1, <2>1 DEF CallsInv, FlushInv
  <2> QED
    BY <1>1, <2>1, <2>2, <2>3, <2>4 DEF CallsInv, OwnIds
<1>10. FileInv'
  BY <1>1, <1>2 DEF FileInv
<1>11. \A x \in Id : Contents(x)' = IF x = id THEN v ELSE Contents(x)
  BY <1>2, <1>3, <1>5, ContentsIs, ContentsNext
<1>12. SurviveInv'
  <2>1. known \subseteq Id
    BY <1>1 DEF TypeOK
  <2>2. \A x \in known : disk'[x] \subseteq survive'[x] /\ Contents(x)' \in survive'[x]
    BY <1>1, <1>2, <1>11, <2>1 DEF SurviveInv
  <2>3. \A x \in Id : x \notin known \/ x >= synced => Absent \in survive'[x]
    BY <1>1 DEF SurviveInv
  <2> QED
    BY <1>2, <2>2, <2>3 DEF SurviveInv
<1>13. \A x \in Id : Present(x)' = IF x = id THEN v ELSE Present(x)
  BY <1>11 DEF Present
<1> QED
  BY <1>6, <1>7, <1>8, <1>9, <1>10, <1>12, <1>13 DEF CacheInv

LEMMA GetHitKeeps ==
    ASSUME CacheInv, NEW t \in Thread, NEW id \in Id, GetHit(t, id)
    PROVE  CacheInv' /\ StoreStep
<1> DEFINE e == lru[ElementOf(id)]
           v == e.block
<1>1. /\ e = EntryOf(lru, id) /\ e \in CacheEntry /\ e.id = id
  BY ElementIs DEF GetHit
<1>2. v \in Content
  BY <1>1 DEF CacheEntry
<1>3. /\ Enters(t) /\ id \in known \cap cache
      /\ lru' = PushFront(e, RemoveAt(lru, ElementOf(id)))
      /\ done' = [id |-> id, block |-> v]
      /\ UNCHANGED <<fileVars, cache, open, mu, call, known, survive>>
  BY DEF GetHit
<1>4. Contents(id) = v
  BY <1>1, <1>3, ContentsIs
<1>5. /\ v \in survive[id] /\ survive \in [Id -> SUBSET (Content \cup {Absent})]
  BY <1>3, <1>4 DEF CacheInv, SurviveInv, TypeOK
<1> HIDE DEF e, v
<1>6. e.block = v
  BY DEF v
<1>7. CacheInv' /\ \A x \in Id : Present(x)' = IF x = id THEN v ELSE Present(x)
  BY <1>1, <1>2, <1>3, <1>5, <1>6, HitKeeps
<1>8. Present(id) = v /\ v # Absent
  BY <1>2, <1>3, <1>4 DEF Present
<1>9. StoreNow' = StoreNow
  BY <1>7, <1>8 DEF StoreNow
<1>10. Store!Get(id)
  BY <1>3, <1>8, <1>9 DEF Store!Get, StoreNow
<1> QED
  BY <1>7, <1>10 DEF StoreStep, Store!Next

LEMMA PutHitKeeps ==
    ASSUME CacheInv, NEW t \in Thread, NEW id \in Id, NEW v \in Value, PutHit(t, id, v)
    PROVE  CacheInv' /\ StoreStep
<1> DEFINE e == Rewrite(lru[ElementOf(id)], v)
<1>1. lru[ElementOf(id)] \in CacheEntry /\ lru[ElementOf(id)].id = id /\ v \in Content
  BY ElementIs DEF PutHit, Content
<1>2. e \in CacheEntry /\ e.id = id /\ e.block = v /\ e.dirty = TRUE
  BY <1>1 DEF Rewrite, CacheEntry
<1>3. /\ Enters(t) /\ id \in known \cap cache
      /\ lru' = PushFront(e, RemoveAt(lru, ElementOf(id)))
      /\ survive' = [survive EXCEPT ![id] = @ \cup {v}]
      /\ done' = [id |-> id, block |-> v]
      /\ UNCHANGED <<fileVars, cache, open, mu, call, known>>
  BY DEF PutHit
<1> HIDE DEF e
<1>4. survive \in [Id -> SUBSET (Content \cup {Absent})]
  BY DEF CacheInv, TypeOK
<1>5. /\ survive' \in [Id -> SUBSET (Content \cup {Absent})]
      /\ v \in survive'[id] /\ \A x \in Id : survive[x] \subseteq survive'[x]
  BY <1>1, <1>3, <1>4
<1>6. CacheInv' /\ \A x \in Id : Present(x)' = IF x = id THEN v ELSE Present(x)
  BY <1>1, <1>2, <1>3, <1>5, HitKeeps
<1>7. Present(id) # Absent
  <2>1. lru[ElementOf(id)] = EntryOf(lru, id)
    BY <1>3, ElementIs
  <2>2. lru[ElementOf(id)].block \in Content
    BY <1>1 DEF CacheEntry
  <2> QED
    BY <1>3, <2>1, <2>2, ContentsIs DEF Present
<1>8. StoreNow' = [StoreNow EXCEPT ![id] = v]
  BY <1>6 DEF StoreNow
<1>9. Store!Put(id, v)
  BY <1>3, <1>7, <1>8 DEF Store!Put, StoreNow
<1> QED
  BY <1>6, <1>9 DEF StoreStep, Store!Next
-----------------------------------------------------------------------------
(* Allocate.                                                               *)

LEMMA WriteEffect ==
    ASSUME FileTypeOK, NEW id \in Id, NEW v \in Content, WriteSlot(id, v)
    PROVE  /\ file' \in [Slot -> Content] /\ file'[id] = v
           /\ \A i \in Slot \ {id} : file'[i] = file[i] /\ disk'[i] = disk[i]
           /\ disk' \in [Slot -> SUBSET Content] /\ disk'[id] = disk[id] \cup {v}
           /\ size' \in 0..(MaxBlock + 1) /\ size' >= size /\ id < size'
           /\ synced' = synced /\ id \in Slot
<1>1. id \in Slot /\ id \in 1..MaxBlock /\ size \in 0..(MaxBlock + 1)
  BY DEF Id, Slot, FileTypeOK
<1>2. size' \in 0..(MaxBlock + 1) /\ size' >= size /\ id < size'
  <2>1. CASE id >= size
    BY <1>1, <2>1 DEF WriteSlot
  <2>2. CASE ~(id >= size)
    BY <1>1, <2>2 DEF WriteSlot
  <2> QED
    BY <2>1, <2>2
<1> QED
  BY <1>1, <1>2 DEF WriteSlot, FileTypeOK

\* Nobody uses the slot of a new id before Allocate returns it.
LEMMA AllocateKeeps ==
    ASSUME CacheInv, NEW t \in Thread, NEW v \in Value, Allocate(t, v)
    PROVE  CacheInv' /\ StoreStep
<1>1. TypeOK /\ ListInv /\ CleanInv /\ CallsInv /\ OwnIds /\ FileInv /\ SurviveInv
  BY DEF CacheInv
<1>2. UNCHANGED <<lru, cache, open, mu, known, done, survive>>
  BY DEF Allocate, cacheVars
<1>3. nextID \in Id /\ nextID' = nextID + 1 /\ v \in Content /\ FileTypeOK
  BY <1>1 DEF TypeOK, FileTypeOK, Allocate, Id, BlockWriteNew, BlockWriteNewFails, Content
<1>4. known \subseteq Id /\ cache \subseteq known /\ \A x \in known : x < nextID /\ x \in Slot /\ x # nextID
  BY <1>1, <1>3 DEF TypeOK, FileInv, Id, Slot
<1>5. \A u \in Thread : /\ call[u] \in Call
                        /\ call[u].stage = "add" \/ call[u].method = "Allocate" =>
                              call[u].id \in Slot /\ call[u].id # nextID /\ call[u].id < nextID'
  <2> SUFFICES ASSUME NEW u \in Thread
               PROVE  /\ call[u] \in Call
                      /\ call[u].stage = "add" \/ call[u].method = "Allocate" =>
                            call[u].id \in Slot /\ call[u].id # nextID /\ call[u].id < nextID'
    OBVIOUS
  <2>1. call[u] \in Call /\ AddInv(u) /\ AllocateInv(u)
    BY <1>1 DEF TypeOK, CallsInv
  <2>2. call[u].stage = "add" \/ call[u].method = "Allocate" => call[u].id \in Id /\ call[u].id < nextID
    BY <1>4, <2>1 DEF AddInv, AllocateInv
  <2> QED
    BY <1>3, <2>1, <2>2 DEF Id, Slot
<1>6. CASE BlockWriteNew(v) /\ SetCall(t, [Adding("Allocate", nextID, v, FALSE) EXCEPT !.stage = "written"])
  <2> DEFINE c == [Adding("Allocate", nextID, v, FALSE) EXCEPT !.stage = "written"]
  <2>1. /\ c \in Call /\ c.stage = "written" /\ c.method = "Allocate" /\ c.id = nextID
        /\ c.block = v /\ c.dirty = FALSE
    <3> DEFINE a == Adding("Allocate", nextID, v, FALSE)
    <3>1. /\ a \in Call /\ a.method = "Allocate" /\ a.id = nextID /\ a.block = v /\ a.dirty = FALSE
      BY <1>3 DEF Adding, Call, Id
    <3>2. c = [a EXCEPT !.stage = "written"]
      OBVIOUS
    <3> HIDE DEF a, c
    <3> QED
      BY <3>1, <3>2 DEF Call
  <2>2. call' = [call EXCEPT ![t] = c] /\ WriteSlot(nextID, v)
    BY <1>6 DEF SetCall, BlockWriteNew
  <2> HIDE DEF c
  <2>3. /\ call' \in [Thread -> Call] /\ call'[t] = c
        /\ \A u \in Thread \ {t} : call'[u] = call[u]
    BY <1>1, <2>1, <2>2 DEF TypeOK
  <2>4. /\ file' \in [Slot -> Content] /\ file'[nextID] = v
        /\ \A i \in Slot \ {nextID} : file'[i] = file[i] /\ disk'[i] = disk[i]
        /\ disk' \in [Slot -> SUBSET Content] /\ disk'[nextID] = disk[nextID] \cup {v}
        /\ size' \in 0..(MaxBlock + 1) /\ size' >= size /\ nextID < size'
        /\ synced' = synced /\ nextID \in Slot
    BY <1>3, <2>2, WriteEffect
  <2>5. TypeOK'
    BY <1>1, <1>2, <1>3, <2>3, <2>4 DEF TypeOK, FileTypeOK, Id
  <2>6. ListInv' /\ CleanInv'
    BY <1>1, <1>2, <1>4, <2>4 DEF ListInv, CleanInv
  <2>7. disk[nextID] = {Zero}
    BY <1>1, <2>4 DEF FileInv, TypeOK, FileTypeOK
  <2>8. size \in Nat /\ nextID \in Nat
    BY <1>1 DEF TypeOK, FileTypeOK
  <2>9. ASSUME NEW u \in Thread
        PROVE  /\ call'[u].stage \in {"add", "flush"} => mu' = u
               /\ AddInv(u)' /\ AllocateInv(u)' /\ FlushInv(u)'
    <3>1. CASE u = t
      <4>1. AllocateInv(t)'
        BY <1>2, <1>3, <1>4, <2>1, <2>3, <2>4, <2>7, <2>8 DEF AllocateInv
      <4> QED
        BY <2>1, <2>3, <3>1, <4>1 DEF AddInv, FlushInv
    <3>2. CASE u # t
      <4>1. call'[u] = call[u]
        BY <2>3, <3>2
      <4>2. call[u].stage \in {"add", "flush"} => mu = u
        BY <1>1 DEF CallsInv
      <4>3. AddInv(u)'
        <5>1. AddInv(u)
          BY <1>1 DEF CallsInv
        <5> QED
          BY <1>2, <1>5, <2>4, <4>1, <5>1 DEF AddInv
      <4>4. AllocateInv(u)'
        <5>1. AllocateInv(u)
          BY <1>1 DEF CallsInv
        <5>2. call[u].method = "Allocate" => call[u].id < size'
          BY <1>5, <2>4, <2>8, <5>1 DEF AllocateInv, Slot
        <5> QED
          BY <1>2, <1>5, <2>4, <4>1, <5>1, <5>2 DEF AllocateInv
      <4>5. FlushInv(u)'
        BY <1>1, <1>2, <4>1 DEF CallsInv, FlushInv
      <4> QED
        BY <1>2, <4>1, <4>2, <4>3, <4>4, <4>5
    <3> QED
      BY <3>1, <3>2
  <2>10. CallsInv'
    BY <2>9 DEF CallsInv
  <2>11. OwnIds'
    BY <1>1, <1>5, <2>1, <2>3 DEF OwnIds
  <2>12. FileInv'
    <3>1. \A x \in known : x < nextID' /\ x < size'
      BY <1>1, <1>3, <1>4, <2>4, <2>8 DEF FileInv, Id
    <3>2. \A i \in Slot : file'[i] \in disk'[i]
      BY <1>1, <2>4 DEF FileInv
    <3>3. \A i \in Slot : i >= nextID' => i # nextID /\ i >= nextID
      BY <1>3, <2>8 DEF Slot
    <3>4. \A i \in Slot : i >= nextID' => disk'[i] = {Zero}
      BY <1>1, <2>4, <3>3 DEF FileInv
    <3> QED
      BY <1>2, <1>4, <3>1, <3>2, <3>4 DEF FileInv
  <2>13. \A x \in known : Contents(x)' = Contents(x)
    BY <1>2, <1>4, <2>4, ContentsIs, ContentsNext
  <2>14. SurviveInv'
    BY <1>1, <1>2, <1>4, <2>4, <2>13 DEF SurviveInv
  <2>15. StoreNow' = StoreNow
    BY <1>2, <2>13 DEF StoreNow, Present
  <2> QED
    BY <1>2, <2>5, <2>6, <2>10, <2>11, <2>12, <2>14, <2>15 DEF CacheInv, StoreStep
<1>7. CASE BlockWriteNewFails /\ UNCHANGED call
  <2>1. UNCHANGED <<file, size, disk, synced, call>>
    BY <1>7 DEF BlockWriteNewFails
  <2>2. TypeOK'
    BY <1>1, <1>2, <1>3, <2>1 DEF TypeOK, FileTypeOK, Id
  <2>3. ListInv' /\ CleanInv' /\ OwnIds'
    BY <1>1, <1>2, <2>1 DEF ListInv, CleanInv, OwnIds
  <2>4. CallsInv'
    <3>1. \A u \in Thread : AddInv(u)'
      BY <1>1, <1>2, <2>1 DEF CallsInv, AddInv
    <3>2. \A u \in Thread : AllocateInv(u)'
      BY <1>1, <1>2, <1>5, <2>1 DEF CallsInv, AllocateInv
    <3>3. \A u \in Thread : FlushInv(u)'
      BY <1>1, <1>2, <2>1 DEF CallsInv, FlushInv
    <3> QED
      BY <1>1, <1>2, <2>1, <3>1, <3>2, <3>3 DEF CallsInv
  <2>5. FileInv'
    <3>1. \A i \in Slot : i >= nextID' => i >= nextID
      BY <1>3 DEF Slot, Id
    <3>2. \A x \in known : x < nextID'
      BY <1>3, <1>4 DEF Id
    <3> QED
      BY <1>1, <1>2, <2>1, <3>1, <3>2 DEF FileInv
  <2>6. \A x : Contents(x)' = Contents(x)
    BY <1>2, <2>1, ContentsIs, ContentsNext
  <2>7. SurviveInv'
    BY <1>1, <1>2, <2>1, <2>6 DEF SurviveInv
  <2>8. StoreNow' = StoreNow
    BY <1>2, <2>6 DEF StoreNow, Present
  <2> QED
    BY <1>2, <2>2, <2>3, <2>4, <2>5, <2>7, <2>8 DEF CacheInv, StoreStep
<1> QED
  BY <1>6, <1>7 DEF Allocate
-----------------------------------------------------------------------------
(* Writes to blocks that callers have.                                     *)

\* What the file keeps when a step with the lock writes to it.
FileKept ==
    /\ FileTypeOK' /\ nextID' = nextID /\ size' \in Nat /\ size' >= size /\ synced' = synced
    /\ \A x \in known : x < nextID' /\ x < size'
    /\ \A i \in Slot : file'[i] \in disk'[i]
    /\ \A i \in Slot : i >= nextID' => disk'[i] = {Zero}
    /\ \A x \in Id \ known : file'[x] = file[x] /\ disk'[x] \subseteq disk[x]

LEMMA KnownWrite ==
    ASSUME CacheInv, NEW id \in known, NEW v \in Content, BlockWrite(id, v)
    PROVE  /\ FileKept /\ file'[id] = v /\ disk'[id] = disk[id] \cup {v}
           /\ \A x \in Slot \ {id} : file'[x] = file[x] /\ disk'[x] = disk[x]
<1>1. FileTypeOK /\ FileInv /\ known \subseteq Id
  BY DEF CacheInv, TypeOK
<1>2. WriteSlot(id, v) /\ nextID' = nextID
  BY DEF BlockWrite
<1>3. /\ file' \in [Slot -> Content] /\ file'[id] = v
      /\ \A i \in Slot \ {id} : file'[i] = file[i] /\ disk'[i] = disk[i]
      /\ disk' \in [Slot -> SUBSET Content] /\ disk'[id] = disk[id] \cup {v}
      /\ size' \in 0..(MaxBlock + 1) /\ size' >= size
      /\ synced' = synced /\ id \in Slot
  BY <1>1, <1>2, WriteEffect
<1>4. size \in Nat /\ \A x \in known : x \in Nat /\ x < nextID /\ x < size
  BY <1>1 DEF FileInv, FileTypeOK, Id
<1>5. \A x \in known : x < nextID' /\ x < size'
  BY <1>2, <1>3, <1>4
<1>6. \A i \in Slot : file'[i] \in disk'[i]
  BY <1>1, <1>3 DEF FileInv
<1>7. \A i \in Slot : i >= nextID => i # id
  BY <1>1, <1>4 DEF Slot, FileTypeOK
<1>8. \A i \in Slot : i >= nextID' => disk'[i] = {Zero}
  BY <1>1, <1>2, <1>3, <1>7 DEF FileInv
<1>9. \A x \in Id \ known : x \in Slot \ {id}
  BY DEF Id, Slot
<1>10. FileTypeOK'
  BY <1>1, <1>2, <1>3 DEF FileTypeOK
<1> QED
  BY <1>2, <1>3, <1>5, <1>6, <1>8, <1>9, <1>10 DEF FileKept

LEMMA NoWrite ==
    ASSUME CacheInv, UNCHANGED fileVars
    PROVE  FileKept /\ \A x \in Slot : file'[x] = file[x] /\ disk'[x] = disk[x]
<1>1. FileTypeOK /\ FileInv
  BY DEF CacheInv, TypeOK
<1>2. UNCHANGED <<file, size, nextID, disk, synced>>
  BY DEF fileVars
<1>3. size \in Nat /\ FileTypeOK'
  BY <1>1, <1>2 DEF FileTypeOK
<1> QED
  BY <1>1, <1>2, <1>3 DEF FileKept, FileInv

\* A block may fall back to an older value when it may be lost: every value it
\* can have is one that a crash may leave.
LEMMA StoreSurvives ==
    ASSUME CacheInv', survive' = survive
    PROVE  StoreNow' \in Store!Survivor
<1>1. /\ survive \in [Id -> SUBSET (Content \cup {Absent})]
      /\ \A id \in known' : Contents(id)' \in survive[id]
      /\ \A id \in Id : id \notin known' => Absent \in survive[id]
  BY DEF CacheInv, TypeOK, SurviveInv
<1>2. \A id \in Id : Present(id)' \in survive[id]
  BY <1>1 DEF Present
<1>3. \A id \in Id : Present(id)' \in Value \cup {Zero, Absent}
  BY <1>1, <1>2 DEF Content
<1> QED
  BY <1>2, <1>3 DEF Store!Survivor, StoreNow

LEMMA Loses ==
    ASSUME CacheInv', UNCHANGED <<survive, done>>, Faulty \/ Closer # {}
    PROVE  StoreStep
<1>1. StoreNow' \in Store!Survivor
  BY StoreSurvives
<1>2. Store!Lose
  BY <1>1 DEF Store!Lose, StoreNow
<1> QED
  BY <1>2 DEF StoreStep, Store!Next

\* Eviction takes a block that is in the file or writes it there; when that
\* fails it is lost.
LEMMA evictKeeps ==
    ASSUME CacheInv, NEW t \in Thread, evict(t)
    PROVE  CacheInv' /\ StoreStep
<1> DEFINE e == lru[Len(lru)]
           c == call[t]
<1>1. TypeOK /\ ListInv /\ CleanInv /\ CallsInv /\ OwnIds /\ FileInv /\ SurviveInv
  BY DEF CacheInv
<1>2. lru \in Seq(CacheEntry) /\ Distinct(lru) /\ cache = Ids(lru) /\ cache \subseteq known /\ known \subseteq Id
  BY <1>1 DEF TypeOK, ListInv, FileInv
<1>3. /\ mu = t /\ c.stage = "add" /\ lru # <<>> /\ WriteBack(e)
      /\ cache' = cache \ {e.id} /\ lru' = SubSeq(lru, 1, Len(lru) - 1)
      /\ UNCHANGED <<open, mu, call, known, done, survive>>
  BY DEF evict, Unmap
<1>4. /\ lru' \in Seq(CacheEntry) /\ Len(lru) \in Nat \ {0} /\ Len(lru') = Len(lru) - 1 /\ Distinct(lru')
      /\ e \in CacheEntry /\ e.id \in Ids(lru) /\ EntryOf(lru, e.id) = e
      /\ Ids(lru') = Ids(lru) \ {e.id}
      /\ \A id \in Ids(lru') : EntryOf(lru', id) = EntryOf(lru, id)
  BY <1>2, <1>3, DroppedLast
<1> HIDE DEF e
<1>5. e.id \in known /\ e.id \in cache /\ e.id \in Id /\ e.block \in Content
  BY <1>2, <1>4 DEF CacheEntry
<1>6. /\ FileKept
      /\ \A x \in Slot \ {e.id} : file'[x] = file[x] /\ disk'[x] = disk[x]
      /\ \/ file'[e.id] = e.block /\ disk'[e.id] = disk[e.id] \cup {e.block}
         \/ file'[e.id] = file[e.id] /\ disk'[e.id] = disk[e.id] /\ (~e.dirty \/ Faulty)
  <2>1. CASE BlockWrite(e.id, e.block)
    BY <1>5, <2>1, KnownWrite
  <2>2. CASE (~e.dirty \/ Faulty) /\ UNCHANGED fileVars
    <3>1. e.id \in Slot
      BY <1>5 DEF Id, Slot
    <3> QED
      BY <2>2, <3>1, NoWrite
  <2> QED
    BY <1>3, <2>1, <2>2 DEF WriteBack
<1>7. c \in Call /\ call' = [call EXCEPT ![t] = c] /\ call'[t] = c
  BY <1>1, <1>3 DEF TypeOK
<1>8. AddInv(t)' /\ AllocateInv(t)' /\ FlushInv(t)'
  <2>1. AddInv(t) /\ AllocateInv(t) /\ FlushInv(t)
    BY <1>1 DEF CallsInv
  <2>2. c.id \in Id /\ c.id \notin cache /\ c.id \in Slot \ {e.id}
    BY <1>3, <1>5, <2>1 DEF AddInv, Id, Slot
  <2>3. file'[c.id] = file[c.id] /\ disk'[c.id] = disk[c.id]
    BY <1>6, <2>2
  <2>4. AddInv(t)'
    BY <1>3, <1>7, <2>1, <2>2, <2>3 DEF AddInv
  <2>5. AllocateInv(t)'
    <3>1. c.method = "Allocate" => c.id < size'
      BY <1>1, <1>6, <2>1, <2>2 DEF AllocateInv, FileKept, TypeOK, FileTypeOK, Id
    <3> QED
      BY <1>3, <1>6, <1>7, <2>1, <2>3, <3>1 DEF AllocateInv, FileKept
  <2>6. FlushInv(t)'
    BY <1>3, <1>7, <2>1 DEF FlushInv
  <2> QED
    BY <2>4, <2>5, <2>6
<1>9. CallsInv' /\ OwnIds' /\ call' \in [Thread -> Call]
  BY <1>3, <1>6, <1>7, <1>8, LockedStep DEF FileKept
<1>10. TypeOK'
  BY <1>1, <1>3, <1>4, <1>6, <1>9 DEF TypeOK, FileKept
<1>11. ListInv'
  BY <1>1, <1>2, <1>3, <1>4 DEF ListInv
<1>12. \A x \in cache' : x \in cache /\ x \in Slot \ {e.id}
  BY <1>2, <1>3 DEF Id, Slot
<1>13. CleanInv'
  BY <1>1, <1>2, <1>3, <1>4, <1>6, <1>12 DEF CleanInv
<1>14. FileInv'
  BY <1>2, <1>3, <1>6 DEF FileInv, FileKept
<1>15. \A x \in known : x # e.id => Contents(x)' = Contents(x) /\ x \in Slot \ {e.id}
  BY <1>2, <1>3, <1>4, <1>6, ContentsIs, ContentsNext DEF Id, Slot
<1>16. PICK k \in known : k = e.id
  BY <1>5
<1>17. Contents(k) = e.block /\ Contents(k)' = file'[k]
  <2>1. Contents(k) = EntryOf(lru, k).block
    BY <1>5, <1>16, ContentsIs
  <2>2. Contents(k)' = file'[k]
    BY <1>3, <1>16, ContentsNext
  <2> QED
    BY <1>4, <1>16, <2>1, <2>2
<1>18. SurviveInv'
  <2>1. disk[k] \subseteq survive[k] /\ e.block \in survive[k]
    BY <1>1, <1>17 DEF SurviveInv
  <2>2. disk'[k] \subseteq survive[k] /\ file'[k] \in survive[k]
    <3>1. file'[k] \in disk'[k]
      BY <1>2, <1>6 DEF FileKept, Id, Slot
    <3> QED
      BY <1>6, <1>16, <2>1, <3>1
  <2>3. ASSUME NEW x \in known, x # k
        PROVE  disk'[x] \subseteq survive[x] /\ Contents(x)' \in survive[x]
    BY <1>1, <1>6, <1>15, <1>16, <2>3 DEF SurviveInv
  <2>4. \A x \in known : disk'[x] \subseteq survive[x] /\ Contents(x)' \in survive[x]
    BY <1>17, <2>2, <2>3
  <2> QED
    BY <1>1, <1>3, <1>6, <2>4 DEF SurviveInv, FileKept
<1>19. CacheInv'
  BY <1>9, <1>10, <1>11, <1>13, <1>14, <1>18 DEF CacheInv
<1>20. CASE file'[e.id] = e.block
  <2>1. \A x \in known : Contents(x)' = Contents(x)
    BY <1>15, <1>16, <1>20, <1>17
  <2>2. StoreNow' = StoreNow
    BY <1>3, <2>1 DEF StoreNow, Present
  <2> QED
    BY <1>3, <1>19, <2>2 DEF StoreStep
<1>21. CASE file'[e.id] # e.block
  <2>1. file[e.id] = e.block \/ e.dirty
    BY <1>1, <1>4, <1>5 DEF CleanInv
  <2>2. Faulty
    BY <1>6, <1>21, <2>1
  <2> QED
    BY <1>3, <1>19, <2>2, Loses
<1> QED
  BY <1>20, <1>21

-----------------------------------------------------------------------------
(* addToCache.                                                             *)

\* Whichever method called addToCache, the block it adds is the one a caller
\* may see, and it is either dirty or in the file.
LEMMA addToCacheKeeps ==
    ASSUME CacheInv, NEW t \in Thread, addToCache(t)
    PROVE  CacheInv' /\ StoreStep
<1>1. TypeOK /\ ListInv /\ CleanInv /\ CallsInv /\ OwnIds /\ FileInv /\ SurviveInv
  BY DEF CacheInv
<1>2. lru \in Seq(CacheEntry) /\ Distinct(lru) /\ cache = Ids(lru) /\ cache \subseteq known /\ known \subseteq Id
  BY <1>1 DEF TypeOK, ListInv, FileInv
<1>3. call[t] \in Call /\ call[t].stage = "add" /\ mu = t
  BY <1>1 DEF TypeOK, addToCache
<1>4. AddInv(t) /\ AllocateInv(t)
  BY <1>1 DEF CallsInv
<1>5. PICK id \in Id, v \in Content, d \in BOOLEAN, m \in {"Get", "Put", "Allocate"} :
        call[t].id = id /\ call[t].block = v /\ call[t].dirty = d /\ call[t].method = m
  <2>1. call[t].id \in Id /\ call[t].method \in {"Get", "Put", "Allocate"}
    BY <1>3, <1>4 DEF AddInv
  <2>2. call[t].block \in Content /\ call[t].dirty \in BOOLEAN
    BY <1>3, CallFields
  <2> QED
    BY <2>1, <2>2
<1>6. /\ id \notin cache
      /\ m = "Get" => id \in known /\ v = file[id]
      /\ m = "Put" => id \in known /\ d
      /\ m = "Allocate" => /\ id \notin known /\ id < nextID /\ id < size
                           /\ v \in Value /\ v = file[id] /\ disk[id] \subseteq {Zero, v}
  BY <1>3, <1>4, <1>5 DEF AddInv, AllocateInv
<1> DEFINE e == [id |-> id, block |-> v, dirty |-> d]
           written == CASE m = "Get" -> {} [] m = "Put" -> {v} [] m = "Allocate" -> {v, Zero}
<1>7. /\ HasRoom /\ lru' = PushFront(e, lru) /\ cache' = cache \cup {id} /\ known' = known \cup {id}
      /\ done' = [id |-> id, block |-> v] /\ survive' = [survive EXCEPT ![id] = @ \cup written]
      /\ mu' = NoThread /\ call' = [call EXCEPT ![t] = Idle]
      /\ UNCHANGED <<file, size, nextID, disk, synced, open>>
  BY <1>5 DEF addToCache, SetCall, fileVars
<1>8. e \in CacheEntry /\ e.id = id /\ e.block = v /\ e.dirty = d
  BY DEF CacheEntry
<1>9. /\ m = "Get" => written = {}
      /\ m = "Put" => written = {v}
      /\ m = "Allocate" => written = {v, Zero}
      /\ written \subseteq Content
  BY DEF Content
<1> HIDE DEF e, written
<1>10. /\ lru' \in Seq(CacheEntry) /\ Len(lru) \in Nat /\ Len(lru') = Len(lru) + 1
       /\ Distinct(lru') /\ Ids(lru') = Ids(lru) \cup {id} /\ EntryOf(lru', id) = e
       /\ \A x \in Ids(lru) : EntryOf(lru', x) = EntryOf(lru, x)
  BY <1>2, <1>6, <1>7, <1>8, Pushed
<1>11. /\ survive' \in [Id -> SUBSET (Content \cup {Absent})] /\ survive'[id] = survive[id] \cup written
       /\ \A x \in Id \ {id} : survive'[x] = survive[x]
  BY <1>1, <1>7, <1>9 DEF TypeOK
<1>12. CallsInv' /\ OwnIds' /\ call' \in [Thread -> Call]
  <2>1. Idle \in Call /\ Idle.stage = "idle" /\ Idle.method = "none" /\ call'[t] = Idle
    BY <1>1, <1>7, IdleIs DEF TypeOK
  <2>2. AddInv(t)' /\ AllocateInv(t)' /\ FlushInv(t)'
    BY <2>1 DEF AddInv, AllocateInv, FlushInv
  <2>3. size \in Nat /\ size >= size
    BY <1>1 DEF TypeOK, FileTypeOK
  <2>4. \A x \in known' : x \in known \/ (call[t].method = "Allocate" /\ x = call[t].id)
    BY <1>5, <1>6, <1>7
  <2> QED
    BY <1>3, <1>7, <2>1, <2>2, <2>3, <2>4, LockedStep
<1>13. TypeOK'
  <2>1. cache' \subseteq Id /\ known' \subseteq Id
    BY <1>2, <1>7
  <2>2. done' \in [id : 0..MaxBlock, block : Content \cup {Absent}]
    <3>1. id \in 0..MaxBlock
      BY DEF Id
    <3> QED
      BY <1>7, <3>1
  <2> QED
    BY <1>1, <1>7, <1>10, <1>11, <1>12, <2>1, <2>2 DEF TypeOK, FileTypeOK
<1>14. ListInv'
  <2>1. Len(lru) < MaxSize
    BY <1>2, <1>7, ListSize DEF HasRoom
  <2> QED
    BY <1>2, <1>7, <1>10, <2>1 DEF ListInv
<1>15. CleanInv'
  <2>1. d \/ v = file[id]
    BY <1>6
  <2> QED
    BY <1>1, <1>2, <1>7, <1>8, <1>10, <2>1 DEF CleanInv
<1>16. FileInv'
  BY <1>1, <1>2, <1>6, <1>7 DEF FileInv
<1>17. Contents(id)' = v
  BY <1>7, <1>8, <1>10, ContentsNext
<1>18. \A x \in known : x # id => Contents(x)' = Contents(x)
  BY <1>2, <1>7, <1>10, ContentsIs, ContentsNext
<1>19. id \in known => Contents(id) = file[id]
  BY <1>6, ContentsIs
<1>20. SurviveInv'
  <2>1. disk[id] \subseteq survive'[id] /\ v \in survive'[id]
    <3>1. CASE m = "Allocate"
      BY <1>6, <1>9, <1>11, <3>1
    <3>2. CASE m = "Put"
      BY <1>1, <1>6, <1>9, <1>11, <3>2 DEF SurviveInv
    <3>3. CASE m = "Get"
      BY <1>1, <1>6, <1>11, <1>19, <3>3 DEF SurviveInv
    <3> QED
      BY <3>1, <3>2, <3>3
  <2>2. \A x \in known : x # id => disk[x] \subseteq survive'[x] /\ Contents(x)' \in survive'[x]
    BY <1>1, <1>2, <1>11, <1>18 DEF SurviveInv
  <2>3. \A x \in Id : x \notin known' \/ x >= synced => Absent \in survive'[x]
    BY <1>1, <1>7, <1>11 DEF SurviveInv
  <2> QED
    BY <1>7, <1>17, <2>1, <2>2, <2>3 DEF SurviveInv
<1>21. CacheInv'
  BY <1>12, <1>13, <1>14, <1>15, <1>16, <1>20 DEF CacheInv
<1>22. \A x \in Id : Present(x)' = IF x = id THEN v ELSE Present(x)
  BY <1>7, <1>17, <1>18 DEF Present
<1>23. StoreNow' = [StoreNow EXCEPT ![id] = v]
  BY <1>22 DEF StoreNow
<1>24. v # Absent
  OBVIOUS
<1>25. CASE m = "Get"
  <2>1. Present(id) = v
    BY <1>6, <1>19, <1>25 DEF Present
  <2>2. StoreNow' = StoreNow /\ StoreNow[id] = v
    BY <1>23, <2>1 DEF StoreNow
  <2>3. survive' = survive
    BY <1>1, <1>7, <1>9, <1>25 DEF TypeOK
  <2>4. Store!Get(id)
    BY <1>7, <1>24, <2>2, <2>3 DEF Store!Get, StoreNow
  <2> QED
    BY <1>21, <2>4 DEF StoreStep, Store!Next
<1>26. CASE m = "Put"
  <2>1. Contents(id) \in Content /\ id \in known
    <3>1. file[id] \in Content
      BY <1>1 DEF TypeOK, FileTypeOK, Id, Slot
    <3> QED
      BY <1>6, <1>19, <1>26, <3>1
  <2>2. StoreNow[id] # Absent
    BY <2>1 DEF StoreNow, Present
  <2>3. Store!Put(id, v)
    BY <1>7, <1>9, <1>23, <1>26, <2>2 DEF Store!Put, StoreNow
  <2>4. v \in Value \cup {Zero}
    BY DEF Content
  <2> QED
    BY <1>21, <2>3, <2>4 DEF StoreStep, Store!Next
<1>27. CASE m = "Allocate"
  <2>1. StoreNow[id] = Absent
    BY <1>6, <1>27 DEF StoreNow, Present
  <2>2. Store!Allocate(id, v)
    BY <1>7, <1>9, <1>23, <1>27, <2>1 DEF Store!Allocate, StoreNow
  <2> QED
    BY <1>6, <1>21, <1>27, <2>2 DEF StoreStep, Store!Next
<1> QED
  BY <1>25, <1>26, <1>27

-----------------------------------------------------------------------------
(* Delete.                                                                 *)

LEMMA KnownIsPresent ==
    ASSUME CacheInv, NEW id \in known
    PROVE  Contents(id) \in Content /\ id \in Id /\ id \in Slot /\ StoreNow[id] = Contents(id)
           /\ StoreNow[id] # Absent
<1>1. id \in Id /\ id \in Slot
  BY DEF CacheInv, TypeOK, Id, Slot
<1>2. Contents(id) \in Content
  <2>1. CASE id \in cache
    BY <2>1, ElementIs, ContentsIs DEF CacheEntry
  <2>2. CASE id \notin cache
    BY <1>1, <2>2, ContentsIs DEF CacheInv, TypeOK, FileTypeOK
  <2> QED
    BY <2>1, <2>2
<1> QED
  BY <1>1, <1>2 DEF StoreNow, Present

\* The block is dropped and then overwritten; when the second fails, a block
\* that was dirty is lost.
LEMMA DeleteKeeps ==
    ASSUME CacheInv, NEW t \in Thread, NEW id \in Id, Delete(t, id)
    PROVE  CacheInv' /\ StoreStep
<1>1. TypeOK /\ ListInv /\ CleanInv /\ CallsInv /\ OwnIds /\ FileInv /\ SurviveInv
  BY DEF CacheInv
<1>2. lru \in Seq(CacheEntry) /\ Distinct(lru) /\ cache = Ids(lru) /\ cache \subseteq known /\ known \subseteq Id
  BY <1>1 DEF TypeOK, ListInv, FileInv
<1>3. /\ mu = NoThread /\ call[t] = Idle /\ id \in known /\ cache' = cache \ {id}
      /\ lru' = IF id \in cache THEN RemoveAt(lru, ElementOf(id)) ELSE lru
      /\ UNCHANGED <<open, mu, call, known>>
  BY DEF Delete, Enters, Unmap
<1>4. /\ lru' \in Seq(CacheEntry) /\ Distinct(lru') /\ Len(lru') \in Nat /\ Len(lru) \in Nat
      /\ Len(lru') <= Len(lru) /\ Ids(lru') = Ids(lru) \ {id}
      /\ \A x \in Ids(lru') : EntryOf(lru', x) = EntryOf(lru, x)
  <2>1. CASE id \in cache
    <3>1. ElementOf(id) \in 1..Len(lru) /\ lru[ElementOf(id)].id = id
      BY <2>1, ElementIs
    <3>2. /\ lru' \in Seq(CacheEntry) /\ Len(lru) \in Nat \ {0} /\ Len(lru') = Len(lru) - 1
          /\ Distinct(lru') /\ Ids(lru') = Ids(lru) \ {id}
          /\ \A x \in Ids(lru') : EntryOf(lru', x) = EntryOf(lru, x)
      BY <1>2, <1>3, <2>1, <3>1, Removed
    <3> QED
      BY <3>2
  <2>2. CASE id \notin cache
    BY <1>2, <1>3, <2>2, LenProperties
  <2> QED
    BY <2>1, <2>2
<1>5. \/ /\ BlockWrite(id, Zero) /\ survive' = [survive EXCEPT ![id] = @ \cup {Zero}]
         /\ done' = [id |-> id, block |-> Zero]
      \/ Faulty /\ UNCHANGED <<fileVars, survive, done>>
  BY DEF Delete, BlockDelete
<1>6. Zero \in Content /\ id \in Slot
  BY DEF Content, Id, Slot
<1>7. /\ FileKept
      /\ \A x \in Slot \ {id} : file'[x] = file[x] /\ disk'[x] = disk[x]
  BY <1>3, <1>5, <1>6, KnownWrite, NoWrite
<1>8. CallsInv' /\ OwnIds' /\ call' \in [Thread -> Call]
  <2>1. /\ Idle \in Call /\ Idle.stage = "idle" /\ Idle.method = "none" /\ call'[t] = Idle
        /\ call' = [call EXCEPT ![t] = Idle]
    BY <1>1, <1>3, IdleIs DEF TypeOK
  <2>2. AddInv(t)' /\ AllocateInv(t)' /\ FlushInv(t)'
    BY <2>1 DEF AddInv, AllocateInv, FlushInv
  <2> QED
    BY <1>3, <1>7, <2>1, <2>2, LockedStep DEF FileKept
<1>9. /\ survive' \in [Id -> SUBSET (Content \cup {Absent})] /\ \A x \in Id : survive[x] \subseteq survive'[x]
      /\ done' \in [id : 0..MaxBlock, block : Content \cup {Absent}]
  <2>1. survive \in [Id -> SUBSET (Content \cup {Absent})] /\ done \in [id : 0..MaxBlock, block : Content \cup {Absent}]
    BY <1>1 DEF TypeOK
  <2>2. id \in 0..MaxBlock
    BY DEF Id
  <2> QED
    BY <1>5, <1>6, <2>1, <2>2
<1>10. TypeOK'
  BY <1>1, <1>3, <1>4, <1>7, <1>8, <1>9 DEF TypeOK, FileKept
<1>11. ListInv'
  BY <1>1, <1>2, <1>3, <1>4 DEF ListInv
<1>12. \A x \in known : x # id => x \in Slot \ {id} /\ file'[x] = file[x] /\ disk'[x] = disk[x]
  <2>1. \A x \in known : x \in Slot
    BY KnownIsPresent
  <2> QED
    BY <1>7, <2>1
<1>13. CleanInv'
  BY <1>1, <1>2, <1>3, <1>4, <1>12 DEF CleanInv
<1>14. FileInv'
  BY <1>2, <1>3, <1>7 DEF FileInv, FileKept
<1>15. \A x \in known : x # id => Contents(x)' = Contents(x)
  BY <1>2, <1>3, <1>4, <1>12, ContentsIs, ContentsNext
<1>16. Contents(id)' = file'[id]
  BY <1>3, ContentsNext
<1>17. disk'[id] \subseteq survive'[id]
  <2>1. disk[id] \subseteq survive[id] /\ survive \in [Id -> SUBSET (Content \cup {Absent})]
    BY <1>1, <1>3 DEF SurviveInv, TypeOK
  <2>2. CASE BlockWrite(id, Zero) /\ survive' = [survive EXCEPT ![id] = @ \cup {Zero}]
    <3>1. disk'[id] = disk[id] \cup {Zero}
      BY <1>3, <1>6, <2>2, KnownWrite
    <3> QED
      BY <2>1, <2>2, <3>1
  <2>3. CASE UNCHANGED <<fileVars, survive, done>>
    BY <1>6, <2>1, <2>3, NoWrite
  <2> QED
    BY <1>5, <2>2, <2>3
<1>18. SurviveInv'
  <2>1. file'[id] \in disk'[id]
    BY <1>6, <1>7 DEF FileKept
  <2>2. \A x \in known : disk'[x] \subseteq survive'[x] /\ Contents(x)' \in survive'[x]
    BY <1>1, <1>2, <1>9, <1>12, <1>15, <1>16, <1>17, <2>1 DEF SurviveInv
  <2>3. \A x \in Id : x \notin known \/ x >= synced => Absent \in survive'[x]
    BY <1>1, <1>9 DEF SurviveInv
  <2> QED
    BY <1>3, <1>7, <2>2, <2>3 DEF SurviveInv, FileKept
<1>19. CacheInv'
  BY <1>8, <1>10, <1>11, <1>13, <1>14, <1>18 DEF CacheInv
<1>20. CASE /\ BlockWrite(id, Zero) /\ survive' = [survive EXCEPT ![id] = @ \cup {Zero}]
            /\ done' = [id |-> id, block |-> Zero]
  <2>1. file'[id] = Zero
    BY <1>3, <1>6, <1>20, KnownWrite
  <2>2. \A x \in Id : Present(x)' = IF x = id THEN Zero ELSE Present(x)
    BY <1>3, <1>15, <1>16, <2>1 DEF Present
  <2>3. StoreNow' = [StoreNow EXCEPT ![id] = Zero]
    BY <2>2 DEF StoreNow
  <2>4. StoreNow[id] # Absent
    BY <1>3, KnownIsPresent
  <2>5. Store!Put(id, Zero)
    BY <1>20, <2>3, <2>4 DEF Store!Put, StoreNow
  <2> QED
    BY <1>19, <2>5 DEF StoreStep, Store!Next
<1>21. CASE Faulty /\ UNCHANGED <<fileVars, survive, done>>
  BY <1>19, <1>21, Loses
<1> QED
  BY <1>5, <1>20, <1>21

-----------------------------------------------------------------------------
(* Flush.                                                                  *)

LEMMA FlushingIs ==
    ASSUME NEW m \in {"Flush", "Close"}, NEW i \in Nat
    PROVE  /\ Flushing(m, i) \in Call /\ Flushing(m, i).stage = "flush"
           /\ Flushing(m, i).method = m /\ Flushing(m, i).pos = i
BY IdleIs DEF Flushing, Call, Idle

\* A method that gives up leaves the cache as it is.
LEMMA FailsKeeps ==
    ASSUME CacheInv, NEW t \in Thread, mu = t, Fails(t),
           UNCHANGED <<fileVars, cacheVars, open, known, done, survive>>
    PROVE  CacheInv' /\ StoreStep
<1>1. /\ mu' = NoThread /\ call' = [call EXCEPT ![t] = Idle]
      /\ Idle \in Call /\ Idle.stage = "idle" /\ Idle.method = "none"
  BY IdleIs DEF Fails, SetCall
<1>2. call'[t] = Idle
  BY <1>1 DEF CacheInv, TypeOK
<1>3. AddInv(t)' /\ AllocateInv(t)' /\ FlushInv(t)'
  BY <1>1, <1>2 DEF AddInv, AllocateInv, FlushInv
<1> QED
  BY <1>1, <1>3, OnlyCall DEF StoreStep, StoreNow

\* A round of the loop writes an element that is dirty and marks it as clean:
\* what a read finds is the same, and the elements passed are all clean.
LEMMA FlushOneKeeps ==
    ASSUME CacheInv, NEW t \in Thread, FlushOne(t)
    PROVE  CacheInv' /\ StoreStep
<1>1. TypeOK /\ ListInv /\ CleanInv /\ CallsInv /\ OwnIds /\ FileInv /\ SurviveInv
  BY DEF CacheInv
<1>2. lru \in Seq(CacheEntry) /\ Distinct(lru) /\ cache = Ids(lru) /\ cache \subseteq known /\ known \subseteq Id
  BY <1>1 DEF TypeOK, ListInv, FileInv
<1>3. call[t] \in Call /\ call[t].stage = "flush" /\ mu = t /\ FlushInv(t)
  BY <1>1 DEF TypeOK, FlushOne, CallsInv
<1>4. PICK i \in 1..Len(lru), m \in {"Flush", "Close"} : call[t].pos = i /\ call[t].method = m
  <2>1. call[t].pos \in Nat /\ call[t].pos >= 1 /\ call[t].method \in {"Flush", "Close"}
    BY <1>3, CallFields DEF FlushInv
  <2>2. call[t].pos <= Len(lru) /\ Len(lru) \in Nat
    BY <1>2, LenProperties DEF FlushOne
  <2>3. call[t].pos \in 1..Len(lru)
    BY <2>1, <2>2
  <2> QED
    BY <2>1, <2>3
<1>5. /\ m = "Close" => t \in Closer
      /\ \A k \in 1..Len(lru) : k < i => ~lru[k].dirty
  BY <1>3, <1>4 DEF FlushInv
<1>6. PICK id \in Id, v \in Content : lru[i].id = id /\ lru[i].block = v
  <2>1. lru[i] \in CacheEntry
    BY <1>2, ElementOfSeq
  <2> QED
    BY <2>1 DEF CacheEntry
<1>7. i + 1 \in Nat /\ i + 1 >= 1 /\ \A k \in 1..Len(lru) : k < i + 1 => k < i \/ k = i
  BY <1>2, LenProperties
<1> DEFINE c == Flushing(m, i + 1)
<1>8. c \in Call /\ c.stage = "flush" /\ c.method = m /\ c.pos = i + 1
  BY <1>7, FlushingIs
<1> HIDE DEF c
<1>9. UNCHANGED <<cache, open, known, done, survive>>
  BY DEF FlushOne
<1>10. CASE /\ lru[i].dirty /\ BlockWrite(id, v) /\ lru' = [lru EXCEPT ![i].dirty = FALSE]
            /\ call' = [call EXCEPT ![t] = c] /\ mu' = mu
  <2>1. id \in cache /\ id \in known /\ EntryOf(lru, id) = lru[i] /\ id \in Slot
    <3>1. id \in Ids(lru) /\ EntryOf(lru, id) = lru[i]
      BY <1>2, <1>6, EntryIs
    <3>2. id \in Slot
      BY DEF Id, Slot
    <3> QED
      BY <1>2, <3>1, <3>2
  <2>2. /\ FileKept /\ file'[id] = v /\ disk'[id] = disk[id] \cup {v}
        /\ \A x \in Slot \ {id} : file'[x] = file[x] /\ disk'[x] = disk[x]
    BY <1>10, <2>1, KnownWrite
  <2>3. /\ lru' \in Seq(CacheEntry) /\ Len(lru') = Len(lru) /\ Distinct(lru') /\ Ids(lru') = Ids(lru)
        /\ EntryOf(lru', id).block = v /\ ~EntryOf(lru', id).dirty /\ ~lru'[i].dirty
        /\ \A k \in 1..Len(lru) : k # i => lru'[k] = lru[k]
        /\ \A x \in Ids(lru) \ {id} : EntryOf(lru', x) = EntryOf(lru, x)
    <3> DEFINE n == [lru EXCEPT ![i].dirty = FALSE]
    <3>1. /\ n \in Seq(CacheEntry) /\ Len(n) = Len(lru) /\ Distinct(n) /\ Ids(n) = Ids(lru)
          /\ EntryOf(n, lru[i].id).block = lru[i].block /\ ~EntryOf(n, lru[i].id).dirty /\ ~n[i].dirty
          /\ \A k \in 1..Len(lru) : k # i => n[k] = lru[k]
          /\ \A x \in Ids(lru) \ {lru[i].id} : EntryOf(n, x) = EntryOf(lru, x)
      BY <1>2, Cleaned, Zenon
    <3>2. lru' = n
      BY <1>10
    <3> HIDE DEF n
    <3> QED
      BY <1>6, <3>1, <3>2
  <2>4. call'[t] = c
    BY <1>1, <1>10 DEF TypeOK
  <2>5. FlushInv(t)'
    <3>1. \A k \in 1..Len(lru') : k < i + 1 => ~lru'[k].dirty
      BY <1>5, <1>7, <2>3
    <3> QED
      BY <1>5, <1>7, <1>8, <2>4, <3>1 DEF FlushInv
  <2>6. AddInv(t)' /\ AllocateInv(t)'
    BY <1>8, <2>4 DEF AddInv, AllocateInv
  <2>7. CallsInv' /\ OwnIds' /\ call' \in [Thread -> Call]
    BY <1>3, <1>8, <1>9, <1>10, <2>2, <2>5, <2>6, LockedStep DEF FileKept
  <2>8. TypeOK'
    BY <1>1, <1>9, <1>10, <2>2, <2>3, <2>7 DEF TypeOK, FileKept
  <2>9. ListInv'
    BY <1>1, <1>9, <2>3 DEF ListInv
  <2>10. \A x \in known : x # id => x \in Slot \ {id} /\ file'[x] = file[x] /\ disk'[x] = disk[x]
    <3>1. \A x \in known : x \in Slot
      BY KnownIsPresent
    <3> QED
      BY <2>2, <3>1
  <2>11. CleanInv'
    BY <1>1, <1>2, <1>9, <2>2, <2>3, <2>10 DEF CleanInv
  <2>12. FileInv'
    BY <1>2, <1>9, <2>2 DEF FileInv, FileKept
  <2>13. Contents(id) = v /\ Contents(id)' = v
    BY <1>6, <1>9, <2>1, <2>3, ContentsIs, ContentsNext
  <2>14. \A x \in known : x # id => Contents(x)' = Contents(x)
    BY <1>2, <1>9, <2>3, <2>10, ContentsIs, ContentsNext
  <2>15. SurviveInv'
    <3>1. disk'[id] \subseteq survive[id]
      BY <1>1, <2>1, <2>2, <2>13 DEF SurviveInv
    <3>2. \A x \in known : disk'[x] \subseteq survive[x] /\ Contents(x)' \in survive[x]
      BY <1>1, <2>10, <2>13, <2>14, <3>1 DEF SurviveInv
    <3> QED
      BY <1>1, <1>9, <2>2, <3>2 DEF SurviveInv, FileKept
  <2>16. StoreNow' = StoreNow
    BY <1>9, <2>13, <2>14 DEF StoreNow, Present
  <2> QED
    BY <1>9, <2>7, <2>8, <2>9, <2>11, <2>12, <2>15, <2>16 DEF CacheInv, StoreStep
<1>11. CASE ~lru[i].dirty /\ call' = [call EXCEPT ![t] = c] /\ UNCHANGED <<fileVars, lru, mu>>
  <2>1. call'[t] = c
    BY <1>1, <1>11 DEF TypeOK
  <2>2. FlushInv(t)'
    <3>1. \A k \in 1..Len(lru') : k < i + 1 => ~lru'[k].dirty
      BY <1>5, <1>7, <1>11
    <3> QED
      BY <1>5, <1>7, <1>8, <2>1, <3>1 DEF FlushInv
  <2>3. AddInv(t)' /\ AllocateInv(t)'
    BY <1>8, <2>1 DEF AddInv, AllocateInv
  <2> QED
    BY <1>3, <1>8, <1>9, <1>11, <2>2, <2>3, OnlyCall DEF StoreStep, StoreNow, cacheVars
<1>12. CASE Fails(t) /\ UNCHANGED <<fileVars, lru>>
  BY <1>3, <1>9, <1>12, FailsKeeps DEF cacheVars
<1> QED
  BY <1>4, <1>6, <1>10, <1>11, <1>12 DEF FlushOne, SetCall, c

\* When the loop has passed every element the file has every block that a read
\* finds, and the sync keeps it.
LEMMA FlushEndsKeeps ==
    ASSUME CacheInv, NEW t \in Thread, FlushEnds(t)
    PROVE  CacheInv' /\ StoreStep
<1>1. TypeOK /\ ListInv /\ CleanInv /\ CallsInv /\ OwnIds /\ FileInv /\ SurviveInv
  BY DEF CacheInv
<1>2. lru \in Seq(CacheEntry) /\ Distinct(lru) /\ cache = Ids(lru) /\ cache \subseteq known /\ known \subseteq Id
  BY <1>1 DEF TypeOK, ListInv, FileInv
<1>3. call[t] \in Call /\ call[t].stage = "flush" /\ mu = t /\ FlushInv(t) /\ UNCHANGED <<lru, cache, open, known, done>>
  BY <1>1 DEF TypeOK, FlushEnds, CallsInv, cacheVars
<1>4. CASE /\ Sync /\ survive' = [id \in Id |-> {Present(id)}] /\ mu' = NoThread
           /\ SetCall(t, IF call[t].method = "Close" THEN [call[t] EXCEPT !.stage = "flushed"] ELSE Idle)
  <2> DEFINE c == IF call[t].method = "Close" THEN [call[t] EXCEPT !.stage = "flushed"] ELSE Idle
  <2>1. /\ c \in Call /\ c.stage \in {"idle", "flushed"} /\ c.method \in {"none", "Close"}
        /\ c.method = "Close" => call[t].method = "Close"
        /\ c.stage = "flushed" => c.method = "Close"
    <3>1. CASE call[t].method = "Close"
      <4> DEFINE d == [call[t] EXCEPT !.stage = "flushed"]
      <4>1. d \in Call /\ d.stage = "flushed" /\ d.method = "Close"
        BY <1>3, <3>1 DEF Call
      <4> HIDE DEF d
      <4>2. c = d
        BY <3>1 DEF d
      <4> HIDE DEF c
      <4> QED
        BY <3>1, <4>1, <4>2
    <3>2. CASE call[t].method # "Close"
      BY <3>2, IdleIs
    <3> QED
      BY <3>1, <3>2
  <2>2. call' = [call EXCEPT ![t] = c]
    BY <1>4 DEF SetCall
  <2> HIDE DEF c
  <2>3. call'[t] = c
    BY <1>1, <2>2 DEF TypeOK
  <2>4. /\ disk' = [i \in Slot |-> {file[i]}] /\ synced' = size /\ UNCHANGED <<file, size, nextID>>
    BY <1>4 DEF Sync
  <2>5. AddInv(t)' /\ AllocateInv(t)' /\ FlushInv(t)'
    BY <1>3, <2>1, <2>3 DEF AddInv, AllocateInv, FlushInv
  <2>6. \A x \in Slot : disk'[x] = {file[x]} /\ disk'[x] \subseteq disk[x]
    BY <1>1, <2>4 DEF FileInv
  <2>7. CallsInv' /\ OwnIds' /\ call' \in [Thread -> Call]
    <3>1. size \in Nat /\ size >= size
      BY <1>1 DEF TypeOK, FileTypeOK
    <3>2. \A x \in Id \ known : file'[x] = file[x] /\ disk'[x] \subseteq disk[x]
      BY <2>4, <2>6 DEF Id, Slot
    <3> QED
      BY <1>3, <2>1, <2>2, <2>4, <2>5, <3>1, <3>2, LockedStep
  <2>8. \A x \in known : x \in Id /\ x \in Slot /\ Contents(x) = file[x] /\ Contents(x)' = file[x]
                         /\ Present(x) = file[x]
    <3> SUFFICES ASSUME NEW x \in known
                 PROVE  x \in Id /\ x \in Slot /\ Contents(x) = file[x] /\ Contents(x)' = file[x]
                        /\ Present(x) = file[x]
      OBVIOUS
    <3>1. x \in cache => EntryOf(lru, x).block = file[x]
      <4> SUFFICES ASSUME x \in cache
                   PROVE  EntryOf(lru, x).block = file[x]
        OBVIOUS
      <4>1. PICK k \in 1..Len(lru) : EntryOf(lru, x) = lru[k]
        BY <1>2, EntryHas
      <4>2. k < call[t].pos
        <5>1. call[t].pos > Len(lru) /\ call[t].pos \in Nat /\ Len(lru) \in Nat
          BY <1>2, <1>3, CallFields, LenProperties DEF FlushEnds
        <5> QED
          BY <5>1
      <4>3. ~lru[k].dirty
        BY <1>3, <4>2 DEF FlushInv
      <4> QED
        BY <1>1, <4>1, <4>3 DEF CleanInv
    <3>2. Contents(x) = file[x]
      BY <3>1, ContentsIs
    <3>3. Contents(x)' = file[x]
      BY <1>3, <2>4, <3>1, ContentsNext
    <3> QED
      BY <3>2, <3>3, KnownIsPresent DEF Present
  <2>9. \A x \in Id : survive'[x] = {Present(x)} /\ Present(x) \in Content \cup {Absent}
    <3>1. \A x \in known : file[x] \in Content
      BY <1>1, <2>8 DEF TypeOK, FileTypeOK
    <3> QED
      BY <1>4, <2>8, <3>1 DEF Present
  <2>10. TypeOK'
    <3>1. survive' \in [Id -> SUBSET (Content \cup {Absent})]
      BY <1>4, <2>9
    <3>2. disk' \in [Slot -> SUBSET Content]
      BY <1>1, <2>4 DEF TypeOK, FileTypeOK
    <3> QED
      BY <1>1, <1>3, <1>4, <2>4, <2>7, <3>1, <3>2 DEF TypeOK, FileTypeOK
  <2>11. ListInv' /\ CleanInv'
    BY <1>1, <1>3, <2>4 DEF ListInv, CleanInv
  <2>12. FileInv'
    BY <1>1, <1>3, <2>4, <2>6 DEF FileInv
  <2>13. SurviveInv'
    <3>1. \A x \in known : disk'[x] \subseteq survive'[x] /\ Contents(x)' \in survive'[x]
      BY <2>6, <2>8, <2>9
    <3>2. \A x \in known : ~(x >= size)
      BY <1>1, <1>2 DEF FileInv, TypeOK, FileTypeOK, Id
    <3>3. \A x \in Id : x \notin known => Absent \in survive'[x]
      BY <2>9 DEF Present
    <3> QED
      BY <1>3, <2>4, <3>1, <3>2, <3>3 DEF SurviveInv
  <2>14. StoreNow' = StoreNow
    BY <1>3, <2>8 DEF StoreNow, Present
  <2>15. Store!Flush
    BY <1>3, <1>4, <2>14 DEF Store!Flush, StoreNow
  <2> QED
    BY <2>7, <2>10, <2>11, <2>12, <2>13, <2>15 DEF CacheInv, StoreStep, Store!Next
<1>5. CASE Fails(t) /\ UNCHANGED <<fileVars, survive>>
  BY <1>3, <1>5, FailsKeeps DEF cacheVars
<1> QED
  BY <1>4, <1>5 DEF FlushEnds

-----------------------------------------------------------------------------
(* Close and the end of the process.                                       *)

LEMMA EmptyList ==
    <<>> \in Seq(CacheEntry) /\ Len(<<>>) = 0 /\ Distinct(<<>>) /\ Ids(<<>>) = {}
<1>1. <<>> \in Seq(CacheEntry) /\ Len(<<>>) = 0
  BY EmptySeq
<1>2. 1..Len(<<>>) = {}
  BY <1>1
<1> QED
  BY <1>1, <1>2 DEF Distinct, Ids

\* Close drops what was put into the cache after its flush.
LEMMA CloseEndsKeeps ==
    ASSUME CacheInv, NEW t \in Thread, CloseEnds(t)
    PROVE  CacheInv' /\ StoreStep
<1>1. TypeOK /\ ListInv /\ CleanInv /\ CallsInv /\ OwnIds /\ FileInv /\ SurviveInv
  BY DEF CacheInv
<1>2. /\ mu = NoThread /\ call[t].stage = "flushed" /\ open' = FALSE /\ lru' = <<>> /\ cache' = {}
      /\ call' = [call EXCEPT ![t] = Idle]
      /\ UNCHANGED <<file, size, nextID, disk, synced, mu, known, done, survive>>
  BY DEF CloseEnds, SetCall, fileVars
<1>3. t \in Closer
  BY <1>1, <1>2 DEF CallsInv, FlushInv
<1>4. CallsInv' /\ OwnIds' /\ call' \in [Thread -> Call]
  <2>1. Idle \in Call /\ Idle.stage = "idle" /\ Idle.method = "none" /\ call'[t] = Idle
    BY <1>1, <1>2, IdleIs DEF TypeOK
  <2>2. AddInv(t)' /\ AllocateInv(t)' /\ FlushInv(t)'
    BY <2>1 DEF AddInv, AllocateInv, FlushInv
  <2>3. size \in Nat /\ size >= size
    BY <1>1 DEF TypeOK, FileTypeOK
  <2> QED
    BY <1>2, <2>1, <2>2, <2>3, LockedStep
<1>5. TypeOK'
  BY <1>1, <1>2, <1>4, EmptyList DEF TypeOK, FileTypeOK
<1>6. ListInv' /\ CleanInv'
  BY <1>2, EmptyList DEF ListInv, CleanInv
<1>7. FileInv'
  BY <1>1, <1>2 DEF FileInv
<1>8. \A x \in known : Contents(x)' = file[x] /\ file[x] \in disk[x]
  BY <1>1, <1>2, ContentsNext, KnownIsPresent DEF FileInv
<1>9. SurviveInv'
  BY <1>1, <1>2, <1>8 DEF SurviveInv
<1>10. CacheInv'
  BY <1>4, <1>5, <1>6, <1>7, <1>9 DEF CacheInv
<1> QED
  BY <1>2, <1>3, <1>10, Loses

\* What is left is, block by block, something that was flushed or written
\* since; a block that no sync has covered may be gone.
LEMMA RestartKeeps ==
    ASSUME CacheInv, Restart
    PROVE  CacheInv' /\ StoreStep
<1>1. TypeOK /\ FileInv /\ SurviveInv
  BY DEF CacheInv
<1>2. /\ lru' = <<>> /\ cache' = {} /\ open' = TRUE /\ mu' = NoThread
      /\ call' = [t \in Thread |-> Idle] /\ known' = {id \in known : id < size'}
      /\ survive' = [id \in Id |-> {IF id \in known' THEN file'[id] ELSE Absent}]
      /\ done' = done
  BY DEF Restart
<1>3. PICK s \in synced..size :
        /\ file' \in [Slot -> Content]
        /\ \A i \in Slot : IF i < s THEN file'[i] \in disk[i] ELSE file'[i] = Zero
        /\ size' = s /\ nextID' = NextId(s) /\ disk' = [i \in Slot |-> {file'[i]}] /\ synced' = s
  BY DEF Restart, NewFileSerializer
<1>4. s \in 0..(MaxBlock + 1) /\ s \in Nat /\ s >= synced /\ synced \in Nat
  BY <1>1, <1>3 DEF TypeOK, FileTypeOK
<1>5. nextID' \in 1..(MaxBlock + 1) /\ nextID' >= s
  <2>1. nextID' = IF s = 0 THEN 1 ELSE s
    BY <1>3 DEF NextId
  <2>2. CASE s = 0
    BY <2>1, <2>2
  <2>3. CASE s # 0
    BY <1>4, <2>1, <2>3
  <2> QED
    BY <2>2, <2>3
<1>6. \A x \in known : x \in Id /\ x \in Slot /\ x \in Nat
  <2>1. \A x \in known : x \in Id /\ x \in Slot
    BY KnownIsPresent
  <2>2. \A x \in Id : x \in Nat
    BY DEF Id
  <2> QED
    BY <2>1, <2>2
<1>7. known' \subseteq known /\ \A x \in known : x \in known' <=> x < s
  BY <1>2, <1>3
<1>8. \A x \in known : x \in known' => file'[x] \in disk[x]
  BY <1>3, <1>6, <1>7
<1>9. \A x \in Id : survive'[x] = {IF x \in known' THEN file'[x] ELSE Absent}
  BY <1>2
<1>10. TypeOK'
  <2>1. FileTypeOK'
    <3>1. disk' \in [Slot -> SUBSET Content]
      BY <1>3
    <3> QED
      BY <1>3, <1>4, <1>5, <3>1 DEF FileTypeOK
  <2>2. \A x \in known' : file'[x] \in Content
    BY <1>3, <1>6, <1>7
  <2>3. survive' \in [Id -> SUBSET (Content \cup {Absent})]
    BY <1>2, <1>9, <2>2
  <2>4. call' \in [Thread -> Call]
    BY <1>2, IdleIs
  <2>5. lru' \in Seq(CacheEntry) /\ cache' \subseteq Id /\ known' \subseteq Id
    BY <1>2, <1>6, <1>7, EmptyList
  <2> QED
    BY <1>1, <1>2, <2>1, <2>3, <2>4, <2>5 DEF TypeOK
<1>11. ListInv' /\ CleanInv'
  BY <1>2, EmptyList DEF ListInv, CleanInv
<1>12. CallsInv' /\ OwnIds'
  <2>1. \A t \in Thread : call'[t] = Idle /\ Idle.stage = "idle" /\ Idle.method = "none"
    BY <1>2, IdleIs
  <2>2. \A t \in Thread : AddInv(t)' /\ AllocateInv(t)' /\ FlushInv(t)'
    BY <2>1 DEF AddInv, AllocateInv, FlushInv
  <2> QED
    BY <2>1, <2>2 DEF CallsInv, OwnIds
<1>13. FileInv'
  <2>1. \A x \in known' : x < nextID' /\ x < size'
    BY <1>3, <1>4, <1>5, <1>6, <1>7
  <2>2. \A i \in Slot : file'[i] \in disk'[i]
    BY <1>3
  <2>3. \A i \in Slot : i >= nextID' => ~(i < s)
    BY <1>4, <1>5 DEF Slot
  <2>4. \A i \in Slot : i >= nextID' => disk'[i] = {Zero}
    BY <1>3, <2>3
  <2> QED
    BY <1>2, <2>1, <2>2, <2>4 DEF FileInv
<1>14. \A x \in Id : Present(x)' = IF x \in known' THEN file'[x] ELSE Absent
  BY <1>2, ContentsNext DEF Present
<1>15. SurviveInv'
  <2>1. \A x \in known' : Contents(x)' = file'[x] /\ disk'[x] = {file'[x]} /\ survive'[x] = {file'[x]}
    BY <1>2, <1>3, <1>6, <1>7, <1>9, ContentsNext
  <2>2. \A x \in Id : x \notin known' \/ x >= synced' => x \notin known'
    BY <1>3, <1>4, <1>6, <1>7
  <2> QED
    BY <1>9, <2>1, <2>2 DEF SurviveInv
<1>16. CacheInv'
  BY <1>10, <1>11, <1>12, <1>13, <1>15 DEF CacheInv
<1>17. ASSUME NEW x \in Id
       PROVE  Present(x)' \in survive[x]
  <2>1. CASE x \in known'
    BY <1>1, <1>7, <1>8, <1>14, <2>1 DEF SurviveInv
  <2>2. CASE x \notin known'
    <3>1. x \notin known \/ x >= synced
      BY <1>4, <1>6, <1>7, <2>2
    <3> QED
      BY <1>1, <1>14, <2>2, <3>1 DEF SurviveInv
  <2> QED
    BY <2>1, <2>2
<1>18. StoreNow' \in Store!Survivor
  <2>1. \A x \in Id : survive[x] \subseteq Value \cup {Zero, Absent}
    BY <1>1 DEF TypeOK, Content
  <2> QED
    BY <1>17, <2>1 DEF Store!Survivor, StoreNow
<1>19. Store!Restart
  <2>1. survive' = [id \in Id |-> {StoreNow'[id]}]
    BY <1>2, <1>14 DEF StoreNow
  <2> QED
    BY <1>2, <1>18, <2>1 DEF Store!Restart, StoreNow
<1> QED
  BY <1>16, <1>19 DEF StoreStep, Store!Next

-----------------------------------------------------------------------------
(* The theorems.                                                           *)

LEMMA InitKeeps ==
    ASSUME Init
    PROVE  CacheInv /\ Store!Init
<1>1. TypeOK
  <2>1. FileTypeOK
    BY DEF Init, FileInit, FileTypeOK, Content
  <2>2. call \in [Thread -> Call] /\ lru \in Seq(CacheEntry)
    BY IdleIs, EmptyList DEF Init
  <2> QED
    BY <2>1, <2>2 DEF Init, TypeOK
<1>2. ListInv /\ CleanInv
  BY EmptyList DEF Init, ListInv, CleanInv
<1>3. CallsInv /\ OwnIds
  <2>1. \A t \in Thread : call[t] = Idle /\ Idle.stage = "idle" /\ Idle.method = "none"
    BY IdleIs DEF Init
  <2>2. \A t \in Thread : AddInv(t) /\ AllocateInv(t) /\ FlushInv(t)
    BY <2>1 DEF AddInv, AllocateInv, FlushInv
  <2> QED
    BY <2>1, <2>2 DEF CallsInv, OwnIds
<1>4. FileInv /\ SurviveInv
  BY DEF Init, FileInit, FileInv, SurviveInv
<1>5. Store!Init
  BY DEF Init, Store!Init, Present
<1> QED
  BY <1>1, <1>2, <1>3, <1>4, <1>5 DEF CacheInv

LEMMA StutterKeeps ==
    ASSUME CacheInv, UNCHANGED vars
    PROVE  CacheInv' /\ StoreStep
<1>1. UNCHANGED <<file, size, nextID, disk, synced, lru, cache, open, mu, call, known, done, survive>>
  BY DEF vars, fileVars, cacheVars
<1>2. TypeOK' /\ ListInv' /\ CleanInv' /\ OwnIds' /\ FileInv'
  BY <1>1 DEF CacheInv, TypeOK, FileTypeOK, ListInv, CleanInv, OwnIds, FileInv
<1>3. CallsInv'
  BY <1>1 DEF CacheInv, CallsInv, AddInv, AllocateInv, FlushInv
<1>4. \A x : Contents(x)' = Contents(x)
  BY <1>1, ContentsIs, ContentsNext
<1>5. SurviveInv'
  BY <1>1, <1>4 DEF CacheInv, SurviveInv
<1>6. StoreNow' = StoreNow
  BY <1>1, <1>4 DEF StoreNow, Present
<1> QED
  BY <1>1, <1>2, <1>3, <1>5, <1>6 DEF CacheInv, StoreStep

LEMMA StepKeeps ==
    ASSUME CacheInv, [Next]_vars
    PROVE  CacheInv' /\ StoreStep
<1>1. ASSUME NEW t \in Thread, ThreadStep(t)
      PROVE  CacheInv' /\ StoreStep
  <2>1. CASE \E id \in Id : \/ GetHit(t, id) \/ GetMiss(t, id) \/ Delete(t, id)
                            \/ \E v \in Value : PutHit(t, id, v) \/ PutMiss(t, id, v)
    BY <2>1, GetHitKeeps, PutHitKeeps, MissKeeps, DeleteKeeps
  <2>2. CASE \E v \in Value : Allocate(t, v)
    BY <2>2, AllocateKeeps
  <2>3. CASE AllocateLocks(t) \/ evict(t) \/ addToCache(t)
    BY <2>3, AllocateLocksKeeps, evictKeeps, addToCacheKeeps
  <2>4. CASE \E m \in {"Flush", "Close"} : FlushBegins(t, m)
    BY <2>4, FlushBeginsKeeps
  <2>5. CASE FlushOne(t) \/ FlushEnds(t) \/ CloseEnds(t)
    BY <2>5, FlushOneKeeps, FlushEndsKeeps, CloseEndsKeeps
  <2> QED
    BY <1>1, <2>1, <2>2, <2>3, <2>4, <2>5 DEF ThreadStep
<1> QED
  BY <1>1, RestartKeeps, StutterKeeps DEF Next

\* The invariant of the page cache (page_cache.go): the list and the map, what
\* the goroutine with the lock relies on, the ids, and what a crash may leave.
THEOREM CacheInvariant == Spec => []CacheInv
<1>1. Init => CacheInv
  BY InitKeeps
<1>2. CacheInv /\ [Next]_vars => CacheInv'
  BY StepKeeps
<1> QED
  BY <1>1, <1>2, PTL DEF Spec

\* The map and the list of page_cache.go agree, element by element, and the
\* cache never outgrows its size.
THEOREM OneElementEachHolds == Spec => []OneElementEach
<1>1. CacheInv => OneElementEach
  BY DEF CacheInv, ListInv, OneElementEach, Ids, Distinct
<1> QED
  BY <1>1, CacheInvariant, PTL

\* A block that is not marked as dirty is the one in the file, so that evict
\* may drop it.
THEOREM CleanIsWrittenHolds == Spec => []CleanIsWritten
<1>1. CacheInv => CleanIsWritten
  <2> SUFFICES ASSUME CacheInv, NEW i \in 1..Len(lru)
               PROVE  lru[i].dirty \/ lru[i].block = file[lru[i].id]
    BY DEF CleanIsWritten
  <2>1. lru \in Seq(CacheEntry) /\ Distinct(lru) /\ cache = Ids(lru) /\ CleanInv
    BY DEF CacheInv, TypeOK, ListInv
  <2>2. lru[i].id \in cache /\ EntryOf(lru, lru[i].id) = lru[i]
    BY <2>1, EntryIs
  <2> QED
    BY <2>1, <2>2 DEF CleanInv
<1> QED
  BY <1>1, CacheInvariant, PTL

\* Allocate never returns an id that a caller has, although NewFileSerializer
\* derives the next id from what a crash left of the file.
THEOREM FreshIdsHolds == Spec => []FreshIds
<1>1. CacheInv => FreshIds
  BY DEF CacheInv, CallsInv, AllocateInv, FreshIds
<1> QED
  BY <1>1, CacheInvariant, PTL

\* The cache implements the store of blocks: whatever the goroutines, the
\* evictions, the failures and the crashes, a read finds the last value written,
\* and a crash leaves of every block the value of the last Flush or a later one.
THEOREM ImplementsStoreHolds == Spec => ImplementsStore
<1>1. Init => Store!Init
  BY InitKeeps
<1>2. CacheInv /\ [Next]_vars => [Store!Next]_<<StoreNow, survive, done>>
  BY StepKeeps DEF StoreStep
<1>3. CacheInv /\ [Next]_vars => [Store!Next]_<<[id \in Id |-> Present(id)], survive, done>>
  BY <1>2 DEF StoreNow
<1> QED
  BY <1>1, <1>3, CacheInvariant, PTL DEF Spec, ImplementsStore, Store!Spec
=============================================================================
