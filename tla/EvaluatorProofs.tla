-------------------------- MODULE EvaluatorProofs --------------------------
(***************************************************************************)
(* Proofs about the evaluator (Evaluator): one Table for all queries of a  *)
(* name, keys that stay, documents that are shared only when a query asks  *)
(* for it, for any number of queries, databases, tables and documents.     *)
(*                                                                         *)
(* The parts of the invariant have the variables as parameters, so that    *)
(* what a change of one of them does can be said for all actions that make *)
(* it.  dbs, tbs, dt, mp, dc, u, qq stand for databases, Tables, Data,     *)
(* maps, docs, used and q.                                                 *)
(***************************************************************************)
EXTENDS Evaluator, TLAPS

\* What a query of d.t finds.
Now(dbs, tbs, d, t) == IF dbs[d] = 0 THEN 0 ELSE tbs[dbs[d]][t]

\* Databases and tables exist, and have one name each.
CatalogOK(dbs, tbs, u) ==
    /\ dbs \in [Db -> 0..MaxDb] /\ tbs \in [1..MaxDb -> [Tab -> 0..MaxTable]]
    /\ u \in Counts
    /\ \A d \in Db : dbs[d] <= u.db
    /\ \A d, e \in Db : dbs[d] = dbs[e] /\ dbs[d] # 0 => d = e
    /\ \A o \in 1..MaxDb, t \in Tab : tbs[o][t] <= u.table /\ (tbs[o][t] # 0 => o <= u.db)
    /\ \A o, p \in 1..MaxDb, t, v \in Tab :
            tbs[o][t] = tbs[p][v] /\ tbs[o][t] # 0 => o = p /\ t = v

\* A table has a map of its own, and documents are stored in maps that exist.
StoreOK(dt, mp, dc, u) ==
    /\ dt \in [1..MaxTable -> 0..MaxMap] /\ mp \in [1..MaxMap -> [AnyKey -> 0..MaxDoc]]
    /\ dc \in [1..MaxDoc -> Document]
    /\ u \in Counts
    /\ \A o \in 1..MaxTable : dt[o] <= u.map /\ (dt[o] = 0 <=> o > u.table)
    /\ \A o, p \in 1..MaxTable : dt[o] = dt[p] /\ dt[o] # 0 => o = p
    /\ \A m \in 1..MaxMap, k \in AnyKey : mp[m][k] <= u.doc /\ (mp[m][k] # 0 => m <= u.map)

\* An insertion between its two steps, and queries that are at no map.
Pending(c) == c.kind = "insert" /\ c.stage = "write"
Quiet(c) == c.stage # "round" /\ ~Pending(c)

\* What a query has at each stage.
Shape(c, u, dc) ==
    /\ c.dbo <= u.db /\ c.table <= u.table /\ c.map <= u.map /\ c.doc <= u.doc
    /\ c.kind \in OnCatalog => c.dbo # 0 /\ c.table = 0 /\ c.stage = "run"
    /\ c.stage \in {"lookup", "create", "again", "table", "make"} => c.table = 0
    /\ c.stage \in {"table", "make"} => c.dbo # 0
    /\ c.stage \in {"run", "write", "round"} => c.kind \in OnCatalog \/ c.table # 0
    /\ c.kind \in OnDoc => c.key # NoKey
    /\ c.stage = "write" => c.doc # 0
    /\ Pending(c) => c.key # NoKey
    /\ c.stage = "round" => c.kind \in {"updateAll", "replaceAll"} /\ c.map # 0
    /\ c.stage = "round" /\ c.kind = "replaceAll" => c.doc # 0 /\ dc[c.doc].shared

\* The objects that a query has found are known by its names and no other, and
\* by them as long as nothing was dropped.
Current(c, dbs, tbs) ==
    /\ c.dbo # 0 => \A d \in Db : dbs[d] = c.dbo => d = c.db
    /\ c.table # 0 => \A d \in Db, t \in Tab : Now(dbs, tbs, d, t) = c.table => d = c.db /\ t = c.tab
    /\ c.stage \in {"table", "make"} => c.dropped \/ dbs[c.db] = c.dbo
    /\ c.stage = "again" => c.dropped \/ dbs[c.db] # 0
    /\ c.table # 0 => c.dropped \/ Now(dbs, tbs, c.db, c.tab) = c.table

QueriesOK(qq, u, dc, dbs, tbs) ==
    /\ qq \in [Session -> Query]
    /\ \A s \in Session : Shape(qq[s], u, dc) /\ Current(qq[s], dbs, tbs)

\* The maps that belong to a table: the one it has, and those that a sweep of it
\* goes through.
Holds(dt, qq, m, o) ==
    \/ dt[o] = m
    \/ \E s \in Session : qq[s].stage = "round" /\ qq[s].map = m /\ qq[s].table = o

\* A map belongs to one table, and a document that is not shared has one table
\* and one key.
OneOwner(dt, qq) ==
    \A m \in 1..MaxMap, o, p \in 1..MaxTable : Holds(dt, qq, m, o) /\ Holds(dt, qq, m, p) => o = p
OneHome(dt, mp, dc, qq) ==
    \A m, n \in 1..MaxMap, o, p \in 1..MaxTable, k, l \in AnyKey :
        /\ Holds(dt, qq, m, o) /\ Holds(dt, qq, n, p)
        /\ mp[m][k] = mp[n][l] /\ mp[m][k] # 0
        => dc[mp[m][k]].shared \/ (o = p /\ k = l)
HomeOK(dt, mp, dc, qq) == OneOwner(dt, qq) /\ OneHome(dt, mp, dc, qq)

\* The document of an insertion is in no map yet, unless it is shared.
FreshOK(mp, dc, qq) ==
    /\ \A s \in Session : Pending(qq[s]) /\ ~dc[qq[s].doc].shared =>
            \A m \in 1..MaxMap, k \in AnyKey : mp[m][k] # qq[s].doc
    /\ \A s, r \in Session : Pending(qq[s]) /\ Pending(qq[r]) /\ qq[s].doc = qq[r].doc =>
            s = r \/ dc[qq[s].doc].shared

AckOK(ack, dbs, tbs, dt, mp) ==
    /\ ack \subseteq Db \X Tab \X AnyKey
    /\ \A a \in ack : LET o == Now(dbs, tbs, a[1], a[2]) IN o # 0 /\ mp[dt[o]][a[3]] # 0

EvalInv ==
    /\ CatalogOK(databases, Tables, used)
    /\ StoreOK(Data, maps, docs, used)
    /\ QueriesOK(q, used, docs, databases, Tables)
    /\ HomeOK(Data, maps, docs, q)
    /\ FreshOK(maps, docs, q)
    /\ AckOK(acked, databases, Tables, Data, maps)

USE EvaluatorAssumption

-----------------------------------------------------------------------------
(* Records.                                                                *)

LEMMA QueryFields ==
    ASSUME NEW c \in Query
    PROVE  /\ c.kind \in OnTable \cup OnDoc \cup OnCatalog \cup {"none"}
           /\ c.db \in Db /\ c.tab \in Tab /\ c.key \in AnyKey \cup {NoKey} /\ c.val \in Value
           /\ c.dbo \in 0..MaxDb /\ c.table \in 0..MaxTable /\ c.map \in 0..MaxMap
           /\ c.doc \in 0..MaxDoc /\ c.dropped \in BOOLEAN /\ c.calls \in 0..2
           /\ c.todo \subseteq AnyKey /\ c.seen \subseteq AnyKey
BY DEF Query

LEMMA IdleIs ==
    /\ Idle \in Query /\ Idle.kind = "none" /\ Idle.stage = "idle" /\ Idle.key = NoKey
    /\ Idle.dbo = 0 /\ Idle.table = 0 /\ Idle.map = 0 /\ Idle.doc = 0 /\ Idle.calls = 0
    /\ Idle.todo = {} /\ Idle.seen = {} /\ Idle.dropped = FALSE
<1>1. (CHOOSE d \in Db : TRUE) \in Db /\ (CHOOSE t \in Tab : TRUE) \in Tab
      /\ (CHOOSE v \in Value : TRUE) \in Value
  OBVIOUS
<1> QED
  BY <1>1 DEF Idle, Query, AnyKey

LEMMA CountFields ==
    ASSUME NEW u \in Counts
    PROVE  u.db \in 0..MaxDb /\ u.table \in 0..MaxTable /\ u.map \in 0..MaxMap /\ u.doc \in 0..MaxDoc
BY DEF Counts

\* One more object of a kind, or of two.
LEMMA CountDb ==
    ASSUME NEW u \in Counts, u.db < MaxDb, NEW w, w = [u EXCEPT !.db = @ + 1]
    PROVE  w \in Counts /\ w.db = u.db + 1 /\ w.table = u.table /\ w.map = u.map /\ w.doc = u.doc
BY DEF Counts

LEMMA CountMap ==
    ASSUME NEW u \in Counts, u.map < MaxMap, NEW w, w = [u EXCEPT !.map = @ + 1]
    PROVE  w \in Counts /\ w.db = u.db /\ w.table = u.table /\ w.map = u.map + 1 /\ w.doc = u.doc
BY DEF Counts

LEMMA CountDoc ==
    ASSUME NEW u \in Counts, u.doc < MaxDoc, NEW w, w = [u EXCEPT !.doc = @ + 1]
    PROVE  w \in Counts /\ w.db = u.db /\ w.table = u.table /\ w.map = u.map /\ w.doc = u.doc + 1
BY DEF Counts

LEMMA CountTable ==
    ASSUME NEW u \in Counts, u.table < MaxTable, u.map < MaxMap,
           NEW w, w = [u EXCEPT !.table = @ + 1, !.map = @ + 1]
    PROVE  w \in Counts /\ w.db = u.db /\ w.table = u.table + 1 /\ w.map = u.map + 1 /\ w.doc = u.doc
<1> DEFINE v == [u EXCEPT !.table = @ + 1]
<1>1. v \in Counts /\ v.db = u.db /\ v.table = u.table + 1 /\ v.map = u.map /\ v.doc = u.doc
  BY DEF Counts
<1>2. w = [v EXCEPT !.map = @ + 1]
  BY DEF Counts
<1>3. v \in Counts /\ v.map < MaxMap
  BY <1>1
<1> HIDE DEF v
<1>4. w \in Counts /\ w.db = v.db /\ w.table = v.table /\ w.map = v.map + 1 /\ w.doc = v.doc
  BY <1>2, <1>3, CountMap
<1> QED
  BY <1>1, <1>4

\* The next stage of a query.
AtStage(c, g) == [c EXCEPT !.stage = g]

LEMMA StageIs ==
    ASSUME NEW c \in Query, NEW g \in {"again", "make"}
    PROVE  LET b == AtStage(c, g) IN
           /\ b \in Query /\ b.stage = g
           /\ b.kind = c.kind /\ b.db = c.db /\ b.tab = c.tab /\ b.key = c.key /\ b.calls = c.calls
           /\ b.dbo = c.dbo /\ b.table = c.table /\ b.map = c.map /\ b.doc = c.doc
           /\ b.dropped = c.dropped
BY DEF Query, AtStage

Dropped(c) == [c EXCEPT !.dropped = TRUE]

LEMMA DroppedIs ==
    ASSUME NEW c \in Query
    PROVE  LET b == Dropped(c) IN
           /\ b \in Query /\ b.stage = c.stage
           /\ b.kind = c.kind /\ b.db = c.db /\ b.tab = c.tab /\ b.key = c.key
           /\ b.dbo = c.dbo /\ b.table = c.table /\ b.map = c.map /\ b.doc = c.doc
           /\ b.dropped = TRUE
BY DEF Query, Dropped

-----------------------------------------------------------------------------
(* What the parts of the invariant depend on.                              *)

SameWork(b, c) ==
    /\ b.kind = c.kind /\ b.stage = c.stage /\ b.key = c.key
    /\ b.map = c.map /\ b.table = c.table /\ b.doc = c.doc

\* Queries that end, or go on with what they have, take nothing that others rely
\* on.
LEMMA WorkKept ==
    ASSUME NEW dt, NEW mp, NEW dc, NEW qq, NEW rr,
           \A s \in Session : Quiet(rr[s]) \/ SameWork(rr[s], qq[s]),
           HomeOK(dt, mp, dc, qq), FreshOK(mp, dc, qq)
    PROVE  HomeOK(dt, mp, dc, rr) /\ FreshOK(mp, dc, rr)
<1>1. \A m, o : Holds(dt, rr, m, o) => Holds(dt, qq, m, o)
  BY DEF Holds, Quiet, SameWork
<1>2. HomeOK(dt, mp, dc, rr)
  BY <1>1 DEF HomeOK, OneOwner, OneHome
<1>3. FreshOK(mp, dc, rr)
  BY DEF FreshOK, Quiet, SameWork, Pending
<1> QED
  BY <1>2, <1>3

\* More objects are no harm.
LEMMA ShapeKept ==
    ASSUME NEW c \in Query, NEW u \in Counts, NEW w \in Counts, NEW dc, NEW de,
           Shape(c, u, dc),
           u.db <= w.db /\ u.table <= w.table /\ u.map <= w.map /\ u.doc <= w.doc,
           \A o \in 1..u.doc : dc[o].shared => de[o].shared
    PROVE  Shape(c, w, de)
<1>1. c.dbo <= w.db /\ c.table <= w.table /\ c.map <= w.map /\ c.doc <= w.doc
  BY QueryFields, CountFields DEF Shape
<1>2. c.doc # 0 => c.doc \in 1..u.doc
  BY QueryFields, CountFields DEF Shape
<1> QED
  BY <1>1, <1>2 DEF Shape, Pending

LEMMA NowType ==
    ASSUME NEW dbs, NEW tbs, NEW u, CatalogOK(dbs, tbs, u), NEW d \in Db, NEW t \in Tab
    PROVE  /\ Now(dbs, tbs, d, t) \in 0..MaxTable /\ Now(dbs, tbs, d, t) <= u.table
           /\ Now(dbs, tbs, d, t) # 0 =>
                dbs[d] \in 1..MaxDb /\ Now(dbs, tbs, d, t) = tbs[dbs[d]][t]
BY CountFields DEF Now, CatalogOK

\* A table is found by one name.
LEMMA OneName ==
    ASSUME NEW dbs, NEW tbs, NEW u, CatalogOK(dbs, tbs, u),
           NEW d \in Db, NEW e \in Db, NEW t \in Tab, NEW v \in Tab,
           Now(dbs, tbs, d, t) = Now(dbs, tbs, e, v), Now(dbs, tbs, d, t) # 0
    PROVE  d = e /\ t = v
<1>1. /\ dbs[d] \in 1..MaxDb /\ dbs[e] \in 1..MaxDb
      /\ tbs[dbs[d]][t] = tbs[dbs[e]][v] /\ tbs[dbs[d]][t] # 0
  BY NowType
<1>2. dbs[d] = dbs[e] /\ t = v
  BY <1>1 DEF CatalogOK
<1> QED
  BY <1>1, <1>2 DEF CatalogOK

-----------------------------------------------------------------------------
(* Changes of the catalog.                                                 *)

\* g is f with another value at one place.
Changed(A, C, f, g, a, v) == g \in [A -> C] /\ \A x \in A : g[x] = IF x = a THEN v ELSE f[x]
Changed2(A, B, C, f, g, a, b, v) ==
    /\ g \in [A -> [B -> C]]
    /\ \A x \in A, y \in B : g[x][y] = IF x = a /\ y = b THEN v ELSE f[x][y]

\* One entry of a function of functions.
Entered(f, a, b, v) == [f EXCEPT ![a][b] = v]

LEMMA EntryIs ==
    ASSUME NEW A, NEW B, NEW C, NEW f \in [A -> [B -> C]], NEW a \in A, NEW b \in B, NEW v \in C
    PROVE  Changed2(A, B, C, f, Entered(f, a, b, v), a, b, v)
<1> DEFINE row == [f[a] EXCEPT ![b] = v]
<1>1. row \in [B -> C] /\ \A y \in B : row[y] = IF y = b THEN v ELSE f[a][y]
  OBVIOUS
<1>2. Entered(f, a, b, v) = [f EXCEPT ![a] = row]
  BY DEF Entered
<1> HIDE DEF row
<1> QED
  BY <1>1, <1>2 DEF Changed2

\* A new database has no tables, so that no query finds another table.
LEMMA NewDatabaseOK ==
    ASSUME NEW dbs, NEW tbs, NEW u, CatalogOK(dbs, tbs, u), NEW d \in Db, dbs[d] = 0,
           u.db < MaxDb, NEW w \in Counts, w.db = u.db + 1, w.table = u.table,
           NEW ds, Changed(Db, 0..MaxDb, dbs, ds, d, u.db + 1),
           NEW dc
    PROVE  /\ CatalogOK(ds, tbs, w)
           /\ \A e \in Db, t \in Tab : Now(ds, tbs, e, t) = Now(dbs, tbs, e, t)
           /\ \A c \in Query : Shape(c, u, dc) /\ Current(c, dbs, tbs) => Current(c, ds, tbs)
           /\ ds[d] # 0
<1>1. w \in Counts /\ w.db = u.db + 1 /\ w.table = u.table /\ u \in Counts
  BY DEF CatalogOK
<1>2. /\ u.db \in 0..MaxDb /\ dbs \in [Db -> 0..MaxDb] /\ ds \in [Db -> 0..MaxDb]
      /\ tbs \in [1..MaxDb -> [Tab -> 0..MaxTable]]
  BY <1>1, CountFields DEF CatalogOK, Changed
<1>3. \A e \in Db : ds[e] = IF e = d THEN u.db + 1 ELSE dbs[e]
  BY DEF Changed
<1>4. \A t \in Tab : tbs[u.db + 1][t] = 0
  <2> TAKE t \in Tab
  <2>1. u.db + 1 \in 1..MaxDb /\ ~(u.db + 1 <= u.db)
    BY <1>2
  <2> QED
    BY <2>1 DEF CatalogOK
<1>5. CatalogOK(ds, tbs, w)
  <2>1. ASSUME NEW e \in Db PROVE ds[e] <= w.db
    <3>1. dbs[e] \in Nat /\ dbs[e] <= u.db /\ w.db = u.db + 1 /\ u.db \in Nat
      BY <1>2 DEF CatalogOK
    <3>2. ds[e] = u.db + 1 \/ ds[e] = dbs[e]
      BY <1>3
    <3> QED
      BY <3>1, <3>2
  <2>2. \A e, f \in Db : ds[e] = ds[f] /\ ds[e] # 0 => e = f
    <3>1. \A e \in Db : dbs[e] \in Nat /\ dbs[e] <= u.db /\ dbs[e] # u.db + 1
      BY <1>2 DEF CatalogOK
    <3>2. \A e, f \in Db : dbs[e] = dbs[f] /\ dbs[e] # 0 => e = f
      BY DEF CatalogOK
    <3>3. \A e \in Db : (e = d => ds[e] = u.db + 1) /\ (e # d => ds[e] = dbs[e])
      BY <1>3
    <3>4. ASSUME NEW e \in Db, NEW f \in Db, ds[e] = ds[f], ds[e] # 0 PROVE e = f
      <4>1. CASE e = d \/ f = d
        BY <3>1, <3>3, <3>4, <4>1
      <4>2. CASE e # d /\ f # d
        BY <3>2, <3>3, <3>4, <4>2
      <4> QED
        BY <4>1, <4>2
    <3> QED
      BY <3>4
  <2>3. \A o \in 1..MaxDb, t \in Tab : tbs[o][t] <= w.table /\ (tbs[o][t] # 0 => o <= w.db)
    BY <1>1, <1>2 DEF CatalogOK
  <2> QED
    BY <1>1, <1>2, <2>1, <2>2, <2>3 DEF CatalogOK
<1>6. \A e \in Db, t \in Tab : Now(ds, tbs, e, t) = Now(dbs, tbs, e, t)
  BY <1>2, <1>3, <1>4 DEF Now
<1>7. ASSUME NEW c \in Query, Shape(c, u, dc), Current(c, dbs, tbs)
      PROVE  Current(c, ds, tbs)
  <2>1. c.db \in Db /\ c.tab \in Tab /\ c.dbo \in Nat /\ c.dbo # u.db + 1
    BY <1>2, <1>7, QueryFields DEF Shape
  <2>6. c.stage \in {"table", "make"} => c.dbo # 0
    BY <1>7 DEF Shape
  <2>2. \A e \in Db : ds[e] = c.dbo => dbs[e] = c.dbo
    BY <1>3, <2>1
  <2>3. dbs[c.db] = c.dbo /\ c.dbo # 0 => ds[c.db] = c.dbo
    BY <1>3, <2>1
  <2>4. dbs[c.db] # 0 => ds[c.db] # 0
    BY <1>3, <2>1
  <2>5. c.dbo # 0 => \A e \in Db : ds[e] = c.dbo => e = c.db
    BY <1>7, <2>2 DEF Current
  <2>7. c.table # 0 =>
            \A e \in Db, t \in Tab : Now(ds, tbs, e, t) = c.table => e = c.db /\ t = c.tab
    BY <1>6, <1>7 DEF Current
  <2>8. Now(ds, tbs, c.db, c.tab) = Now(dbs, tbs, c.db, c.tab)
    BY <1>6, <2>1
  <2>9. c.stage \in {"table", "make"} => c.dropped \/ ds[c.db] = c.dbo
    BY <1>7, <2>3, <2>6, Zenon DEF Current
  <2>10. c.stage = "again" => c.dropped \/ ds[c.db] # 0
    BY <1>7, <2>4, Zenon DEF Current
  <2>11. c.table # 0 => c.dropped \/ Now(ds, tbs, c.db, c.tab) = c.table
    BY <1>7, <2>8, Zenon DEF Current
  <2> QED
    BY <2>5, <2>7, <2>9, <2>10, <2>11, Zenon DEF Current
<1>8. ds[d] # 0
  BY <1>2, <1>3
<1> QED
  BY <1>5, <1>6, <1>7, <1>8

\* A new table is found by the name it was made for, where no table was.
TableMade(tbs, u, o, t, w, ts) ==
    /\ o \in 1..MaxDb /\ o <= u.db /\ t \in Tab /\ tbs[o][t] = 0 /\ u.table < MaxTable
    /\ w \in Counts /\ w.db = u.db /\ w.table = u.table + 1
    /\ Changed2(1..MaxDb, Tab, 0..MaxTable, tbs, ts, o, t, u.table + 1)

LEMMA NewTableOK ==
    ASSUME NEW dbs, NEW tbs, NEW u, CatalogOK(dbs, tbs, u), NEW o, NEW t, NEW w, NEW ts,
           TableMade(tbs, u, o, t, w, ts)
    PROVE  /\ CatalogOK(dbs, ts, w)
           /\ \A d \in Db, v \in Tab :
                Now(dbs, ts, d, v) = IF dbs[d] = o /\ v = t THEN u.table + 1 ELSE Now(dbs, tbs, d, v)
           /\ \A c \in Query : c.table <= u.table /\ Current(c, dbs, tbs) => Current(c, dbs, ts)
<1>1. w \in Counts /\ w.db = u.db /\ w.table = u.table + 1 /\ u \in Counts
      /\ o \in 1..MaxDb /\ o <= u.db /\ t \in Tab
  BY DEF CatalogOK, TableMade
<1>2. /\ u.table \in 0..MaxTable /\ u.table + 1 \in 0..MaxTable
      /\ dbs \in [Db -> 0..MaxDb] /\ tbs \in [1..MaxDb -> [Tab -> 0..MaxTable]]
  <2>1. u.table \in 0..MaxTable
    BY <1>1, CountFields
  <2>2. u.table < MaxTable
    BY DEF TableMade
  <2> QED
    BY <2>1, <2>2 DEF CatalogOK
<1>3. /\ ts \in [1..MaxDb -> [Tab -> 0..MaxTable]]
      /\ \A p \in 1..MaxDb, v \in Tab : ts[p][v] = IF p = o /\ v = t THEN u.table + 1 ELSE tbs[p][v]
  BY DEF TableMade, Changed2
<1>4. ASSUME NEW p \in 1..MaxDb, NEW v \in Tab
      PROVE  /\ tbs[p][v] \in Nat /\ tbs[p][v] <= u.table /\ tbs[p][v] # u.table + 1
             /\ tbs[p][v] # 0 => p <= u.db
  <2>1. tbs[p][v] \in 0..MaxTable
    BY <1>2
  <2>2. tbs[p][v] <= u.table /\ (tbs[p][v] # 0 => p <= u.db)
    BY DEF CatalogOK
  <2> QED
    BY <1>2, <2>1, <2>2
<1>5. CatalogOK(dbs, ts, w)
  <2>1. ASSUME NEW p \in 1..MaxDb, NEW v \in Tab
        PROVE  ts[p][v] <= w.table /\ (ts[p][v] # 0 => p <= w.db)
    <3>1. CASE p = o /\ v = t
      BY <1>1, <1>2, <1>3, <3>1
    <3>2. CASE ~(p = o /\ v = t)
      <4>1. ts[p][v] = tbs[p][v]
        BY <1>3, <3>2
      <4>2. /\ tbs[p][v] \in Nat /\ tbs[p][v] <= u.table
            /\ tbs[p][v] # 0 => p <= u.db
        BY <1>4
      <4>3. u.table \in Nat /\ w.table = u.table + 1 /\ w.db = u.db
        BY <1>1, <1>2
      <4>4. tbs[p][v] <= w.table
        BY <4>2, <4>3
      <4> QED
        BY <4>1, <4>2, <4>3, <4>4
    <3> QED
      BY <3>1, <3>2
  <2>2. ASSUME NEW p \in 1..MaxDb, NEW r \in 1..MaxDb, NEW v \in Tab, NEW x \in Tab,
               ts[p][v] = ts[r][x], ts[p][v] # 0
        PROVE  p = r /\ v = x
    <3>1. CASE (p = o /\ v = t) \/ (r = o /\ x = t)
      BY <1>3, <1>4, <2>2, <3>1
    <3>2. CASE ~(p = o /\ v = t) /\ ~(r = o /\ x = t)
      <4>1. tbs[p][v] = tbs[r][x] /\ tbs[p][v] # 0
        BY <1>3, <2>2, <3>2
      <4> QED
        BY <4>1 DEF CatalogOK
    <3> QED
      BY <3>1, <3>2
  <2>3. /\ \A d \in Db : dbs[d] <= w.db
        /\ \A d, e \in Db : dbs[d] = dbs[e] /\ dbs[d] # 0 => d = e
    BY <1>1 DEF CatalogOK
  <2>4. \A p \in 1..MaxDb, v \in Tab : ts[p][v] <= w.table /\ (ts[p][v] # 0 => p <= w.db)
    BY <2>1
  <2>5. \A p, r \in 1..MaxDb, v, x \in Tab : ts[p][v] = ts[r][x] /\ ts[p][v] # 0 => p = r /\ v = x
    BY <2>2
  <2>6. /\ dbs \in [Db -> 0..MaxDb] /\ ts \in [1..MaxDb -> [Tab -> 0..MaxTable]]
        /\ w \in Counts
    BY <1>1, <1>2, <1>3
  <2> QED
    BY <2>3, <2>4, <2>5, <2>6, Zenon DEF CatalogOK
<1>6. ASSUME NEW d \in Db, NEW v \in Tab
      PROVE  Now(dbs, ts, d, v) = IF dbs[d] = o /\ v = t THEN u.table + 1 ELSE Now(dbs, tbs, d, v)
  <2>1. CASE dbs[d] = 0
    BY <1>1, <2>1 DEF Now
  <2>2. CASE dbs[d] # 0
    <3>1. dbs[d] \in 1..MaxDb
      BY <1>2, <2>2
    <3> QED
      BY <1>3, <2>2, <3>1 DEF Now
  <2> QED
    BY <2>1, <2>2
<1>7. ASSUME NEW c \in Query, c.table <= u.table, Current(c, dbs, tbs)
      PROVE  Current(c, dbs, ts)
  <2>1. c.db \in Db /\ c.tab \in Tab /\ c.table \in Nat /\ c.table # u.table + 1
    BY <1>2, <1>7, QueryFields
  <2>2. \A d \in Db, v \in Tab : Now(dbs, ts, d, v) = c.table => Now(dbs, tbs, d, v) = c.table
    BY <1>6, <2>1
  <2>3. Now(dbs, tbs, c.db, c.tab) = c.table /\ c.table # 0 => Now(dbs, ts, c.db, c.tab) = c.table
    <3>1. tbs[o][t] = 0
      BY DEF TableMade
    <3> QED
      BY <1>1, <1>6, <2>1, <3>1 DEF Now
  <2>4. c.table # 0 => \A d \in Db, v \in Tab : Now(dbs, ts, d, v) = c.table => d = c.db /\ v = c.tab
    BY <1>7, <2>2 DEF Current
  <2>5. c.table # 0 => c.dropped \/ Now(dbs, ts, c.db, c.tab) = c.table
    BY <1>7, <2>3, Zenon DEF Current
  <2> QED
    BY <1>7, <2>4, <2>5, Zenon DEF Current
<1> QED
  BY <1>5, <1>6, <1>7

\* What is dropped is found no more, and the queries that found it are marked.
LEMMA DropDatabaseOK ==
    ASSUME NEW dbs, NEW tbs, NEW u, CatalogOK(dbs, tbs, u), NEW d \in Db,
           NEW ds, Changed(Db, 0..MaxDb, dbs, ds, d, 0)
    PROVE  /\ CatalogOK(ds, tbs, u)
           /\ \A e \in Db, t \in Tab : Now(ds, tbs, e, t) = IF e = d THEN 0 ELSE Now(dbs, tbs, e, t)
           /\ \A c \in Query : Current(c, dbs, tbs) /\ (c.db = d => c.dropped = TRUE)
                                => Current(c, ds, tbs)
<1>1. ds \in [Db -> 0..MaxDb] /\ \A e \in Db : ds[e] = IF e = d THEN 0 ELSE dbs[e]
  BY DEF Changed
<1>2. CatalogOK(ds, tbs, u)
  <2>1. ASSUME NEW e \in Db PROVE ds[e] <= u.db
    <3>1. u.db \in Nat /\ dbs[e] <= u.db
      BY CountFields DEF CatalogOK
    <3> QED
      BY <1>1, <3>1
  <2> QED
    BY <1>1, <2>1 DEF CatalogOK
<1>3. \A e \in Db, t \in Tab : Now(ds, tbs, e, t) = IF e = d THEN 0 ELSE Now(dbs, tbs, e, t)
  BY <1>1 DEF Now
<1>4. ASSUME NEW c \in Query, Current(c, dbs, tbs), c.db = d => c.dropped = TRUE
      PROVE  Current(c, ds, tbs)
  <2>1. c.db \in Db /\ c.tab \in Tab
    BY QueryFields
  <2>2. c.dbo # 0 => \A e \in Db : ds[e] = c.dbo => e = c.db
    BY <1>1, <1>4 DEF Current
  <2>3. c.table # 0 => \A e \in Db, t \in Tab : Now(ds, tbs, e, t) = c.table => e = c.db /\ t = c.tab
    BY <1>3, <1>4 DEF Current
  <2>4. CASE c.db = d
    BY <1>4, <2>2, <2>3, <2>4, Zenon DEF Current
  <2>5. CASE c.db # d
    <3>1. ds[c.db] = dbs[c.db] /\ Now(ds, tbs, c.db, c.tab) = Now(dbs, tbs, c.db, c.tab)
      BY <1>1, <1>3, <2>1, <2>5
    <3> QED
      BY <1>4, <2>2, <2>3, <3>1, Zenon DEF Current
  <2> QED
    BY <2>4, <2>5
<1> QED
  BY <1>2, <1>3, <1>4

LEMMA DropTableOK ==
    ASSUME NEW dbs, NEW tbs, NEW u, CatalogOK(dbs, tbs, u), NEW o \in 1..MaxDb, NEW t \in Tab,
           NEW ts, Changed2(1..MaxDb, Tab, 0..MaxTable, tbs, ts, o, t, 0)
    PROVE  /\ CatalogOK(dbs, ts, u)
           /\ \A d \in Db, v \in Tab :
                Now(dbs, ts, d, v) = IF dbs[d] = o /\ v = t THEN 0 ELSE Now(dbs, tbs, d, v)
           /\ \A c \in Query :
                /\ Current(c, dbs, tbs)
                /\ dbs[c.db] = o /\ c.tab = t /\ c.table # 0 =>
                        c.dropped = TRUE \/ Now(dbs, tbs, c.db, c.tab) # c.table
                => Current(c, dbs, ts)
<1>1. /\ dbs \in [Db -> 0..MaxDb] /\ tbs \in [1..MaxDb -> [Tab -> 0..MaxTable]]
      /\ 0 \in 0..MaxTable
  BY DEF CatalogOK
<1>2. /\ ts \in [1..MaxDb -> [Tab -> 0..MaxTable]]
      /\ \A p \in 1..MaxDb, v \in Tab : ts[p][v] = IF p = o /\ v = t THEN 0 ELSE tbs[p][v]
  BY DEF Changed2
<1>3. CatalogOK(dbs, ts, u)
  <2>1. ASSUME NEW p \in 1..MaxDb, NEW v \in Tab
        PROVE  ts[p][v] <= u.table /\ (ts[p][v] # 0 => p <= u.db)
    <3>1. u.table \in Nat
      BY CountFields DEF CatalogOK
    <3>2. tbs[p][v] <= u.table /\ (tbs[p][v] # 0 => p <= u.db)
      BY DEF CatalogOK
    <3> QED
      BY <1>2, <3>1, <3>2
  <2>2. ASSUME NEW p \in 1..MaxDb, NEW r \in 1..MaxDb, NEW v \in Tab, NEW x \in Tab,
               ts[p][v] = ts[r][x], ts[p][v] # 0
        PROVE  p = r /\ v = x
    <3>1. ts[p][v] = tbs[p][v] /\ ts[r][x] = tbs[r][x]
      BY <1>2, <2>2
    <3>2. tbs[p][v] = tbs[r][x] /\ tbs[p][v] # 0
      BY <2>2, <3>1
    <3> QED
      BY <3>2 DEF CatalogOK
  <2>3. \A p, r \in 1..MaxDb, v, x \in Tab : ts[p][v] = ts[r][x] /\ ts[p][v] # 0 => p = r /\ v = x
    BY <2>2
  <2>4. u \in Counts /\ (\A d \in Db : dbs[d] <= u.db)
        /\ \A d, e \in Db : dbs[d] = dbs[e] /\ dbs[d] # 0 => d = e
    BY DEF CatalogOK
  <2> QED
    BY <1>1, <1>2, <2>1, <2>3, <2>4 DEF CatalogOK
<1>4. ASSUME NEW d \in Db, NEW v \in Tab
      PROVE  Now(dbs, ts, d, v) = IF dbs[d] = o /\ v = t THEN 0 ELSE Now(dbs, tbs, d, v)
  <2>1. CASE dbs[d] = 0
    BY <2>1 DEF Now
  <2>2. CASE dbs[d] # 0
    <3>1. dbs[d] \in 1..MaxDb
      BY <1>1, <2>2
    <3> QED
      BY <1>2, <2>2, <3>1 DEF Now
  <2> QED
    BY <2>1, <2>2
<1>5. ASSUME NEW c \in Query, Current(c, dbs, tbs),
             dbs[c.db] = o /\ c.tab = t /\ c.table # 0 =>
                c.dropped = TRUE \/ Now(dbs, tbs, c.db, c.tab) # c.table
      PROVE  Current(c, dbs, ts)
  <2>1. c.db \in Db /\ c.tab \in Tab
    BY QueryFields
  <2>2. c.table # 0 => \A d \in Db, v \in Tab : Now(dbs, ts, d, v) = c.table => d = c.db /\ v = c.tab
    BY <1>4, <1>5 DEF Current
  <2>3. c.table # 0 => c.dropped \/ Now(dbs, ts, c.db, c.tab) = c.table
    <3>1. CASE dbs[c.db] = o /\ c.tab = t
      BY <1>5, <3>1, Zenon DEF Current
    <3>2. CASE ~(dbs[c.db] = o /\ c.tab = t)
      <4>1. Now(dbs, ts, c.db, c.tab) = Now(dbs, tbs, c.db, c.tab)
        BY <1>4, <2>1, <3>2
      <4> QED
        BY <1>5, <4>1, Zenon DEF Current
    <3> QED
      BY <3>1, <3>2
  <2> QED
    BY <1>5, <2>2, <2>3, Zenon DEF Current
<1> QED
  BY <1>3, <1>4, <1>5

-----------------------------------------------------------------------------
(* Changes of maps and documents.                                          *)

LEMMA StoreKept ==
    ASSUME NEW dt, NEW mp, NEW dc, NEW u, StoreOK(dt, mp, dc, u), NEW w \in Counts,
           w.table = u.table, w.map = u.map, w.doc = u.doc
    PROVE  StoreOK(dt, mp, dc, w)
BY DEF StoreOK

\* The maps that belong to a table exist.
LEMMA HeldExists ==
    ASSUME NEW dt, NEW mp, NEW dc, NEW u, NEW qq, NEW dbs, NEW tbs,
           StoreOK(dt, mp, dc, u), QueriesOK(qq, u, dc, dbs, tbs),
           NEW m \in 1..MaxMap, NEW o \in 1..MaxTable, Holds(dt, qq, m, o)
    PROVE  m <= u.map /\ o <= u.table
<1>1. CASE dt[o] = m
  <2>1. u.table \in Nat
    BY CountFields DEF StoreOK
  <2> QED
    BY <1>1, <2>1 DEF StoreOK
<1>2. CASE \E s \in Session : qq[s].stage = "round" /\ qq[s].map = m /\ qq[s].table = o
  BY <1>2 DEF QueriesOK, Shape
<1> QED
  BY <1>1, <1>2 DEF Holds

\* A table gets a new map, which is empty: when it is made, and when all its
\* documents are deleted.
MapMade(dt, u, o, w, d2) ==
    /\ u.map < MaxMap /\ o \in 1..MaxTable
    /\ w \in Counts /\ w.map = u.map + 1 /\ w.doc = u.doc
    /\ \/ o <= u.table /\ w.table = u.table
       \/ o = u.table + 1 /\ w.table = u.table + 1
    /\ Changed(1..MaxTable, 0..MaxMap, dt, d2, o, u.map + 1)

LEMMA NewMapOK ==
    ASSUME NEW dt, NEW mp, NEW dc, NEW u, NEW qq, NEW dbs, NEW tbs,
           StoreOK(dt, mp, dc, u), QueriesOK(qq, u, dc, dbs, tbs), HomeOK(dt, mp, dc, qq),
           NEW o, NEW w, NEW d2, MapMade(dt, u, o, w, d2)
    PROVE  StoreOK(d2, mp, dc, w) /\ HomeOK(d2, mp, dc, qq)
<1>1. u \in Counts /\ u.map \in Nat /\ u.table \in Nat /\ u.map + 1 \in 1..MaxMap
  <2>1. u \in Counts /\ u.map < MaxMap
    BY DEF StoreOK, MapMade
  <2> QED
    BY <2>1, CountFields
<1>2. /\ dt \in [1..MaxTable -> 0..MaxMap] /\ d2 \in [1..MaxTable -> 0..MaxMap]
      /\ \A p \in 1..MaxTable : d2[p] = IF p = o THEN u.map + 1 ELSE dt[p]
  BY <1>1 DEF StoreOK, MapMade, Changed
<1>3. \A p \in 1..MaxTable : dt[p] \in Nat /\ dt[p] <= u.map /\ dt[p] # u.map + 1
  BY <1>1, <1>2 DEF StoreOK
<1>4. \A k \in AnyKey : mp[u.map + 1][k] = 0
  BY <1>1 DEF StoreOK
<1>5. StoreOK(d2, mp, dc, w)
  <2>0. /\ w \in Counts /\ w.map = u.map + 1 /\ w.doc = u.doc /\ o \in 1..MaxTable
        /\ \/ o <= u.table /\ w.table = u.table
           \/ o = u.table + 1 /\ w.table = u.table + 1
    BY DEF MapMade
  <2>1. ASSUME NEW p \in 1..MaxTable PROVE d2[p] <= w.map /\ (d2[p] = 0 <=> p > w.table)
    <3>1. dt[p] \in Nat /\ dt[p] <= u.map /\ (dt[p] = 0 <=> p > u.table)
      BY <1>3 DEF StoreOK
    <3>2. CASE p = o
      <4>1. d2[p] = u.map + 1
        BY <1>2, <3>2
      <4> QED
        BY <1>1, <2>0, <3>2, <4>1
    <3>3. CASE p # o
      <4>1. d2[p] = dt[p]
        BY <1>2, <3>3
      <4>2. p > u.table <=> p > w.table
        BY <1>1, <2>0, <3>3
      <4> QED
        BY <1>1, <2>0, <3>1, <4>1, <4>2
    <3> QED
      BY <3>2, <3>3
  <2>3. \A p, r \in 1..MaxTable : d2[p] = d2[r] /\ d2[p] # 0 => p = r
    BY <1>2, <1>3 DEF StoreOK
  <2>4. \A m \in 1..MaxMap, k \in AnyKey : mp[m][k] <= w.doc /\ (mp[m][k] # 0 => m <= w.map)
    BY <1>1, <2>0 DEF StoreOK
  <2> QED
    BY <1>2, <2>0, <2>1, <2>3, <2>4 DEF StoreOK
<1>6. ASSUME NEW m \in 1..MaxMap, NEW p \in 1..MaxTable, Holds(d2, qq, m, p)
      PROVE  (m = u.map + 1 /\ p = o) \/ (m # u.map + 1 /\ Holds(dt, qq, m, p))
  <2>1. CASE d2[p] = m
    BY <1>2, <1>3, <2>1 DEF Holds
  <2>2. CASE \E s \in Session : qq[s].stage = "round" /\ qq[s].map = m /\ qq[s].table = p
    <3>1. Holds(dt, qq, m, p)
      BY <2>2 DEF Holds
    <3>2. m <= u.map
      BY <3>1, HeldExists
    <3> QED
      BY <1>1, <3>1, <3>2
  <2> QED
    BY <1>6, <2>1, <2>2 DEF Holds
<1>7. \A m \in 1..MaxMap, p, r \in 1..MaxTable : Holds(d2, qq, m, p) /\ Holds(d2, qq, m, r) => p = r
  BY <1>6 DEF HomeOK, OneOwner
<1>8. ASSUME NEW m \in 1..MaxMap, NEW n \in 1..MaxMap, NEW p \in 1..MaxTable, NEW r \in 1..MaxTable,
             NEW k \in AnyKey, NEW l \in AnyKey, Holds(d2, qq, m, p), Holds(d2, qq, n, r),
             mp[m][k] = mp[n][l], mp[m][k] # 0
      PROVE  dc[mp[m][k]].shared \/ (p = r /\ k = l)
  <2>1. m # u.map + 1 /\ n # u.map + 1
    BY <1>4, <1>8
  <2>2. Holds(dt, qq, m, p) /\ Holds(dt, qq, n, r)
    BY <1>6, <1>8, <2>1
  <2> QED
    BY <1>8, <2>2, Zenon DEF HomeOK, OneHome
<1>9. HomeOK(d2, mp, dc, qq)
  <2>1. OneOwner(d2, qq)
    BY <1>7 DEF OneOwner
  <2>2. OneHome(d2, mp, dc, qq)
    BY <1>8, ZenonT(60) DEF OneHome
  <2> QED
    BY <2>1, <2>2 DEF HomeOK
<1> QED
  BY <1>5, <1>9

LEMMA HomeOf ==
    ASSUME NEW dt, NEW mp, NEW dc, NEW qq, OneHome(dt, mp, dc, qq),
           NEW m \in 1..MaxMap, NEW n \in 1..MaxMap, NEW o \in 1..MaxTable, NEW p \in 1..MaxTable,
           NEW k \in AnyKey, NEW l \in AnyKey, Holds(dt, qq, m, o), Holds(dt, qq, n, p),
           mp[m][k] = mp[n][l], mp[m][k] # 0
    PROVE  dc[mp[m][k]].shared \/ (o = p /\ k = l)
BY Zenon DEF OneHome

\* Only whether documents are shared matters, and more may be.
LEMMA SharedKept ==
    ASSUME NEW dt, NEW mp, NEW dc, NEW de, NEW u, NEW qq,
           StoreOK(dt, mp, dc, u), HomeOK(dt, mp, dc, qq),
           \A o \in 1..u.doc : dc[o].shared => de[o].shared
    PROVE  HomeOK(dt, mp, de, qq)
<1>1. \A m \in 1..MaxMap, k \in AnyKey : mp[m][k] # 0 => mp[m][k] \in 1..u.doc
  <2>1. u.doc \in Nat
    BY CountFields DEF StoreOK
  <2>2. \A m \in 1..MaxMap, k \in AnyKey : mp[m][k] \in Nat /\ mp[m][k] <= u.doc
    BY DEF StoreOK
  <2> QED
    BY <2>1, <2>2
<1>2. \A m \in 1..MaxMap, k \in AnyKey : mp[m][k] # 0 /\ dc[mp[m][k]].shared => de[mp[m][k]].shared
  BY <1>1
<1>3. ASSUME NEW m \in 1..MaxMap, NEW n \in 1..MaxMap, NEW p \in 1..MaxTable, NEW r \in 1..MaxTable,
             NEW k \in AnyKey, NEW l \in AnyKey, Holds(dt, qq, m, p), Holds(dt, qq, n, r),
             mp[m][k] = mp[n][l], mp[m][k] # 0
      PROVE  de[mp[m][k]].shared \/ (p = r /\ k = l)
  <2>1. dc[mp[m][k]].shared \/ (p = r /\ k = l)
    BY <1>3, Zenon DEF HomeOK, OneHome
  <2> QED
    BY <1>2, <1>3, <2>1, Zenon
<1>4. OneHome(dt, mp, de, qq)
  BY <1>3, ZenonT(60) DEF OneHome
<1> QED
  BY <1>4 DEF HomeOK

\* A new document is in no map.
LEMMA NewDocOK ==
    ASSUME NEW dt, NEW mp, NEW dc, NEW u, NEW qq,
           StoreOK(dt, mp, dc, u), HomeOK(dt, mp, dc, qq), u.doc < MaxDoc,
           NEW w \in Counts,
           w.table = u.table, w.map = u.map, w.doc = u.doc + 1,
           NEW de \in [1..MaxDoc -> Document], \A o \in 1..u.doc : de[o] = dc[o]
    PROVE  /\ StoreOK(dt, mp, de, w) /\ HomeOK(dt, mp, de, qq)
           /\ \A o \in 1..u.doc : dc[o].shared => de[o].shared
           /\ u.doc + 1 \in 1..MaxDoc
           /\ \A m \in 1..MaxMap, k \in AnyKey : mp[m][k] # u.doc + 1
<1>1. u \in Counts
  BY DEF StoreOK
<1>2. u.doc \in Nat /\ u.doc + 1 \in 1..MaxDoc
  BY <1>1, CountFields
<1>3. w \in Counts /\ w.table = u.table /\ w.map = u.map /\ w.doc = u.doc + 1
  OBVIOUS
<1>6. \A o \in 1..u.doc : dc[o].shared => de[o].shared
  OBVIOUS
<1>7. \A m \in 1..MaxMap, k \in AnyKey : mp[m][k] \in Nat /\ mp[m][k] <= u.doc
  BY DEF StoreOK
<1>8. StoreOK(dt, mp, de, w)
  <2>1. \A m \in 1..MaxMap, k \in AnyKey : mp[m][k] <= w.doc
    BY <1>2, <1>3, <1>7
  <2> QED
    BY <1>3, <2>1 DEF StoreOK
<1>9. HomeOK(dt, mp, de, qq)
  BY <1>6, SharedKept
<1> QED
  BY <1>2, <1>6, <1>7, <1>8, <1>9

\* A document is stored in the map that a table has.  What it needs is that no
\* other table or key has it.
OnlyAt(dt, mp, dc, qq, T, k, o) ==
    \A n \in 1..MaxMap, p \in 1..MaxTable, l \in AnyKey :
        Holds(dt, qq, n, p) /\ mp[n][l] = o => dc[o].shared \/ (p = T /\ l = k)

LEMMA PutDocOK ==
    ASSUME NEW dt, NEW mp, NEW dc, NEW u, NEW qq,
           StoreOK(dt, mp, dc, u), HomeOK(dt, mp, dc, qq),
           NEW T \in 1..MaxTable, T <= u.table, NEW k \in AnyKey, NEW o \in 1..MaxDoc, o <= u.doc,
           OnlyAt(dt, mp, dc, qq, T, k, o),
           NEW m2, Changed2(1..MaxMap, AnyKey, 0..MaxDoc, mp, m2, dt[T], k, o)
    PROVE  /\ StoreOK(dt, m2, dc, u) /\ HomeOK(dt, m2, dc, qq)
           /\ dt[T] \in 1..MaxMap
<1>1. dt[T] \in 1..MaxMap /\ dt[T] <= u.map
  <2>1. u.table \in Nat /\ dt[T] \in 0..MaxMap
    BY CountFields DEF StoreOK
  <2> QED
    BY <2>1 DEF StoreOK
<1>2. /\ m2 \in [1..MaxMap -> [AnyKey -> 0..MaxDoc]]
      /\ \A m \in 1..MaxMap, l \in AnyKey : m2[m][l] = IF m = dt[T] /\ l = k THEN o ELSE mp[m][l]
  BY DEF Changed2
<1>3. StoreOK(dt, m2, dc, u)
  <2>1. \A m \in 1..MaxMap, l \in AnyKey : m2[m][l] <= u.doc /\ (m2[m][l] # 0 => m <= u.map)
    BY <1>1, <1>2 DEF StoreOK
  <2> QED
    BY <1>2, <2>1 DEF StoreOK
<1>4. Holds(dt, qq, dt[T], T)
  BY DEF Holds
<1>5. \A m \in 1..MaxMap, p, r \in 1..MaxTable : Holds(dt, qq, m, p) /\ Holds(dt, qq, m, r) => p = r
  BY DEF HomeOK, OneOwner
<1>6. \A m \in 1..MaxMap, p \in 1..MaxTable : Holds(dt, qq, m, p) /\ m = dt[T] => p = T
  BY <1>1, <1>4, <1>5
<1>7. ASSUME NEW m \in 1..MaxMap, NEW n \in 1..MaxMap, NEW p \in 1..MaxTable, NEW r \in 1..MaxTable,
             NEW j \in AnyKey, NEW l \in AnyKey, Holds(dt, qq, m, p), Holds(dt, qq, n, r),
             m2[m][j] = m2[n][l], m2[m][j] # 0
      PROVE  dc[m2[m][j]].shared \/ (p = r /\ j = l)
  <2>1. CASE m = dt[T] /\ j = k /\ n = dt[T] /\ l = k
    BY <1>6, <1>7, <2>1
  <2>2. CASE m = dt[T] /\ j = k /\ ~(n = dt[T] /\ l = k)
    <3>1. m2[m][j] = o /\ mp[n][l] = o /\ p = T
      BY <1>2, <1>6, <1>7, <2>2
    <3>2. dc[o].shared \/ (r = T /\ l = k)
      BY <1>7, <3>1 DEF OnlyAt
    <3> QED
      BY <2>2, <3>1, <3>2, Zenon
  <2>3. CASE ~(m = dt[T] /\ j = k) /\ n = dt[T] /\ l = k
    <3>1. m2[m][j] = o /\ mp[m][j] = o /\ r = T
      BY <1>2, <1>6, <1>7, <2>3
    <3>2. dc[o].shared \/ (p = T /\ j = k)
      BY <1>7, <3>1 DEF OnlyAt
    <3> QED
      BY <2>3, <3>1, <3>2, Zenon
  <2>4. CASE ~(m = dt[T] /\ j = k) /\ ~(n = dt[T] /\ l = k)
    <3>1. m2[m][j] = mp[m][j] /\ m2[n][l] = mp[n][l]
      BY <1>2, <2>4
    <3>2. mp[m][j] = mp[n][l] /\ mp[m][j] # 0
      BY <1>7, <3>1
    <3>3. dc[mp[m][j]].shared \/ (p = r /\ j = l)
      BY <1>7, <3>2, Zenon DEF HomeOK, OneHome
    <3> QED
      BY <3>1, <3>3, Zenon
  <2> QED
    BY <2>1, <2>2, <2>3, <2>4
<1>8. HomeOK(dt, m2, dc, qq)
  <2>1. OneHome(dt, m2, dc, qq)
    BY <1>7 DEF OneHome
  <2> QED
    BY <2>1 DEF HomeOK
<1> QED
  BY <1>1, <1>2, <1>3, <1>8

-----------------------------------------------------------------------------
(* Queries that change nothing but themselves.                             *)

LEMMA IdleOK ==
    ASSUME NEW u \in Counts, NEW dc, NEW dbs, NEW tbs
    PROVE  Shape(Idle, u, dc) /\ Current(Idle, dbs, tbs) /\ Quiet(Idle)
<1>1. 0 <= u.db /\ 0 <= u.table /\ 0 <= u.map /\ 0 <= u.doc
  BY CountFields
<1>2. Shape(Idle, u, dc) /\ Quiet(Idle)
  BY <1>1, IdleIs DEF Shape, Quiet, Pending, OnCatalog, OnDoc
<1>3. Current(Idle, dbs, tbs)
  BY IdleIs DEF Current
<1> QED
  BY <1>2, <1>3

LEMMA OnlyQuery ==
    ASSUME EvalInv, NEW s \in Session, NEW c \in Query, SetQ(s, c),
           UNCHANGED <<databases, Tables, Data, heap, used, acked>>,
           Shape(c, used, docs), Current(c, databases, Tables),
           Quiet(c) \/ SameWork(c, q[s])
    PROVE  EvalInv'
<1>1. UNCHANGED <<databases, Tables, Data, maps, docs, used, acked>>
  BY DEF heap
<1>2. q' \in [Session -> Query] /\ \A r \in Session : q'[r] = IF r = s THEN c ELSE q[r]
  BY DEF EvalInv, QueriesOK, SetQ
<1>3. QueriesOK(q', used, docs, databases, Tables)
  BY <1>2 DEF EvalInv, QueriesOK
<1>4. \A r \in Session : Quiet(q'[r]) \/ SameWork(q'[r], q[r])
  BY <1>2 DEF SameWork
<1>5. HomeOK(Data, maps, docs, q') /\ FreshOK(maps, docs, q')
  BY <1>4, WorkKept DEF EvalInv
<1> QED
  BY <1>1, <1>3, <1>5 DEF EvalInv

LEMMA ReturnsKeeps ==
    ASSUME EvalInv, NEW s \in Session, Returns(s),
           UNCHANGED <<databases, Tables, Data, heap, used, acked>>
    PROVE  EvalInv'
BY OnlyQuery, IdleIs, IdleOK DEF Returns, EvalInv, CatalogOK

\* What a query is when it begins.
Started(kind, d, t, k, v) ==
    [Idle EXCEPT !.kind = kind, !.db = d, !.tab = t, !.key = k, !.val = v,
                 !.stage = "lookup", !.calls = 2]

LEMMA StartIs ==
    ASSUME NEW kind \in OnTable \cup OnDoc, NEW d \in Db, NEW t \in Tab,
           NEW k \in Key \cup {NoKey}, NEW v \in Value
    PROVE  LET b == Started(kind, d, t, k, v) IN
           /\ b \in Query /\ b.kind = kind /\ b.db = d /\ b.tab = t /\ b.key = k
           /\ b.stage = "lookup" /\ b.dbo = 0 /\ b.table = 0 /\ b.map = 0 /\ b.doc = 0
           /\ b.calls = 2
<1> DEFINE a == [Idle EXCEPT !.kind = kind, !.db = d, !.tab = t, !.key = k, !.val = v]
           b == Started(kind, d, t, k, v)
<1>1. /\ a \in Query /\ a.kind = kind /\ a.db = d /\ a.tab = t /\ a.key = k
      /\ a.dbo = 0 /\ a.table = 0 /\ a.map = 0 /\ a.doc = 0
  BY IdleIs DEF Query, AnyKey
<1>2. b = [a EXCEPT !.stage = "lookup", !.calls = 2]
  BY IdleIs DEF Query, Started
<1>3. 2 \in 0..2
  OBVIOUS
<1> HIDE DEF a, b
<1>4. /\ b \in Query /\ b.kind = kind /\ b.db = d /\ b.tab = t /\ b.key = k
      /\ b.stage = "lookup" /\ b.dbo = 0 /\ b.table = 0 /\ b.map = 0 /\ b.doc = 0
      /\ b.calls = 2
  BY <1>1, <1>2, <1>3 DEF Query
<1> QED
  BY <1>4 DEF b

Finding(kind, d, t, o) ==
    [Idle EXCEPT !.kind = kind, !.db = d, !.tab = t, !.dbo = o, !.stage = "run"]

LEMMA FindIs ==
    ASSUME NEW kind \in OnCatalog, NEW d \in Db, NEW t \in Tab, NEW o \in 0..MaxDb
    PROVE  LET b == Finding(kind, d, t, o) IN
           /\ b \in Query /\ b.kind = kind /\ b.db = d /\ b.tab = t
           /\ b.stage = "run" /\ b.dbo = o /\ b.table = 0 /\ b.map = 0 /\ b.doc = 0
BY IdleIs DEF Query, AnyKey, Finding

LookedUp(c, o, g) == [c EXCEPT !.dbo = o, !.dropped = FALSE, !.stage = g]

LEMMA LookedUpIs ==
    ASSUME NEW c \in Query, NEW o \in 0..MaxDb, NEW g \in {"create", "table"}
    PROVE  LET b == LookedUp(c, o, g) IN
           /\ b \in Query /\ b.kind = c.kind /\ b.db = c.db /\ b.tab = c.tab /\ b.key = c.key
           /\ b.stage = g /\ b.dbo = o /\ b.table = c.table /\ b.map = c.map /\ b.doc = c.doc
           /\ b.calls = c.calls
BY DEF Query, LookedUp

LEMMA FoundIs ==
    ASSUME NEW c \in Query, NEW o \in 1..MaxTable, c.table = 0
    PROVE  /\ Found(c, o) \in Query /\ Found(c, o).kind = c.kind
           /\ Found(c, o).db = c.db /\ Found(c, o).tab = c.tab /\ Found(c, o).key = c.key
           /\ Found(c, o).dbo = 0 /\ Found(c, o).map = c.map /\ Found(c, o).doc = c.doc
           /\ Found(c, o).dropped = c.dropped
           /\ \/ Found(c, o).stage = "lookup" /\ Found(c, o).table = 0
              \/ Found(c, o).stage = "run" /\ Found(c, o).table = o
<1>0. 0 \in 0..2 /\ 1 \in 0..2 /\ o \in 0..MaxTable /\ 0 \in 0..MaxDb
  OBVIOUS
<1>1. CASE c.calls = 2
  <2> DEFINE b == [c EXCEPT !.calls = 1, !.dbo = 0, !.stage = "lookup"]
  <2>1. /\ b \in Query /\ b.kind = c.kind /\ b.db = c.db /\ b.tab = c.tab /\ b.key = c.key
        /\ b.stage = "lookup" /\ b.dbo = 0 /\ b.table = c.table /\ b.map = c.map /\ b.doc = c.doc
        /\ b.dropped = c.dropped
    <3> DEFINE a == [c EXCEPT !.calls = 1, !.dbo = 0]
    <3>1. /\ a \in Query /\ a.kind = c.kind /\ a.db = c.db /\ a.tab = c.tab /\ a.key = c.key
          /\ a.dbo = 0 /\ a.table = c.table /\ a.map = c.map /\ a.doc = c.doc
          /\ a.dropped = c.dropped
      BY <1>0, ZenonT(90) DEF Query
    <3>2. b = [a EXCEPT !.stage = "lookup"]
      BY DEF Query
    <3> HIDE DEF a, b
    <3> QED
      BY <3>1, <3>2 DEF Query
  <2>2. Found(c, o) = b
    BY <1>1 DEF Found
  <2> HIDE DEF b
  <2> QED
    BY <2>1, <2>2
<1>2. CASE c.calls # 2
  <2> DEFINE b == [c EXCEPT !.calls = 0, !.dbo = 0, !.table = o, !.stage = "run"]
  <2>1. /\ b \in Query /\ b.kind = c.kind /\ b.db = c.db /\ b.tab = c.tab /\ b.key = c.key
        /\ b.stage = "run" /\ b.dbo = 0 /\ b.table = o /\ b.map = c.map /\ b.doc = c.doc
        /\ b.dropped = c.dropped
    <3> DEFINE a == [c EXCEPT !.calls = 0, !.dbo = 0]
    <3>1. /\ a \in Query /\ a.kind = c.kind /\ a.db = c.db /\ a.tab = c.tab /\ a.key = c.key
          /\ a.dbo = 0 /\ a.table = c.table /\ a.map = c.map /\ a.doc = c.doc
          /\ a.dropped = c.dropped
      BY <1>0, ZenonT(90) DEF Query
    <3>2. b = [a EXCEPT !.table = o, !.stage = "run"]
      BY DEF Query
    <3> HIDE DEF a, b
    <3> QED
      BY <1>0, <3>1, <3>2 DEF Query
  <2>2. Found(c, o) = b
    BY <1>2 DEF Found
  <2> HIDE DEF b
  <2> QED
    BY <2>1, <2>2
<1> QED
  BY <1>1, <1>2

\* A query goes on with the table that it has found.
LEMMA FoundOK ==
    ASSUME NEW dbs, NEW tbs, NEW u, CatalogOK(dbs, tbs, u), NEW c \in Query, NEW dc,
           Shape(c, u, dc), Current(c, dbs, tbs), c.stage \in {"table", "make"},
           c.kind \in OnTable \cup OnDoc, tbs[c.dbo][c.tab] # 0
    PROVE  LET b == Found(c, tbs[c.dbo][c.tab])
           IN  b \in Query /\ Shape(b, u, dc) /\ Current(b, dbs, tbs) /\ Quiet(b)
<1> DEFINE o == tbs[c.dbo][c.tab]
           b == Found(c, o)
<1>1. u \in Counts /\ c.table = 0 /\ c.dbo \in 1..MaxDb /\ c.tab \in Tab /\ c.db \in Db
  BY QueryFields DEF CatalogOK, Shape
<1>2. o \in 1..MaxTable /\ o <= u.table
  BY <1>1 DEF CatalogOK
<1>3. /\ b \in Query /\ b.kind = c.kind /\ b.db = c.db /\ b.tab = c.tab /\ b.key = c.key
      /\ b.dbo = 0 /\ b.map = c.map /\ b.doc = c.doc /\ b.dropped = c.dropped
      /\ \/ b.stage = "lookup" /\ b.table = 0
         \/ b.stage = "run" /\ b.table = o
  BY <1>1, <1>2, FoundIs
<1>4. ASSUME NEW d \in Db, NEW t \in Tab, Now(dbs, tbs, d, t) = o
      PROVE  d = c.db /\ t = c.tab
  <2>1. dbs[d] \in 1..MaxDb /\ tbs[dbs[d]][t] = o
    BY <1>2, <1>4, NowType
  <2>2. dbs[d] = c.dbo /\ t = c.tab
    BY <1>1, <1>2, <2>1 DEF CatalogOK
  <2> QED
    BY <1>1, <2>2 DEF Current
<1>5. dbs[c.db] = c.dbo => Now(dbs, tbs, c.db, c.tab) = o
  BY <1>1 DEF Now
<1>6. c.dropped \/ dbs[c.db] = c.dbo
  BY Zenon DEF Current
<1> HIDE DEF b, o
<1>7. Quiet(b)
  BY <1>3 DEF Quiet, Pending
<1>8. Shape(b, u, dc)
  <2>1. b.dbo <= u.db /\ b.table <= u.table /\ b.map <= u.map /\ b.doc <= u.doc
    BY <1>1, <1>2, <1>3, CountFields DEF Shape
  <2>2. c.kind \in OnDoc => c.key # NoKey
    BY DEF Shape
  <2>3. b.kind \notin OnCatalog
    BY <1>3 DEF OnCatalog, OnTable, OnDoc
  <2>4. o # 0
    BY <1>2
  <2> QED
    BY <1>3, <1>7, <2>1, <2>2, <2>3, <2>4 DEF Shape, Quiet
<1>9. Current(b, dbs, tbs)
  <2>1. CASE b.table = 0
    BY <1>3, <2>1 DEF Current
  <2>2. CASE b.table # 0
    <3>1. b.table = o /\ b.stage = "run"
      BY <1>3, <2>2
    <3>2. \A d \in Db, t \in Tab : Now(dbs, tbs, d, t) = b.table => d = b.db /\ t = b.tab
      BY <1>3, <1>4, <3>1
    <3>3. b.dropped \/ Now(dbs, tbs, b.db, b.tab) = b.table
      BY <1>3, <1>5, <1>6, <3>1, Zenon
    <3> QED
      BY <1>3, <3>1, <3>2, <3>3, Zenon DEF Current
  <2> QED
    BY <2>1, <2>2
<1> QED
  BY <1>3, <1>7, <1>8, <1>9 DEF b, o

LEMMA QueryOf ==
    ASSUME EvalInv, NEW s \in Session
    PROVE  /\ q[s] \in Query /\ Shape(q[s], used, docs) /\ Current(q[s], databases, Tables)
           /\ used \in Counts /\ databases \in [Db -> 0..MaxDb]
           /\ q[s].db \in Db /\ q[s].tab \in Tab
           /\ databases[q[s].db] \in 0..MaxDb
<1>1. q[s] \in Query /\ Shape(q[s], used, docs) /\ Current(q[s], databases, Tables)
  BY DEF EvalInv, QueriesOK
<1>2. used \in Counts /\ databases \in [Db -> 0..MaxDb]
  BY DEF EvalInv, CatalogOK
<1> QED
  BY <1>1, <1>2, QueryFields

LEMMA StartKeeps ==
    ASSUME EvalInv, NEW s \in Session, NEW kind \in OnTable \cup OnDoc, NEW d \in Db, NEW t \in Tab,
           NEW k \in Key \cup {NoKey}, NEW v \in Value, Start(s, kind, d, t, k, v)
    PROVE  EvalInv'
<1> DEFINE b == Started(kind, d, t, k, v)
<1>1. /\ b \in Query /\ b.kind = kind /\ b.db = d /\ b.tab = t /\ b.key = k
      /\ b.stage = "lookup" /\ b.dbo = 0 /\ b.table = 0 /\ b.map = 0 /\ b.doc = 0
  BY StartIs
<1>2. SetQ(s, b) /\ UNCHANGED <<databases, Tables, Data, heap, used, acked>>
  BY DEF Start, Started
<1>3. k = NoKey => kind \notin OnDoc
  BY DEF Start
<1> HIDE DEF b
<1>4. Shape(b, used, docs)
  <2>1. b.dbo <= used.db /\ b.table <= used.table /\ b.map <= used.map /\ b.doc <= used.doc
    BY <1>1, QueryOf, CountFields
  <2> QED
    BY <1>1, <1>3, <2>1 DEF Shape, Pending, OnCatalog, OnTable, OnDoc
<1>5. Current(b, databases, Tables) /\ Quiet(b)
  BY <1>1 DEF Current, Quiet, Pending
<1> QED
  BY <1>1, <1>2, <1>4, <1>5, OnlyQuery

LEMMA FindDatabaseKeeps ==
    ASSUME EvalInv, NEW s \in Session, NEW kind \in OnCatalog, NEW d \in Db, NEW t \in Tab,
           FindDatabase(s, kind, d, t)
    PROVE  EvalInv'
<1> DEFINE b == Finding(kind, d, t, databases[d])
<1>1. databases[d] \in 0..MaxDb /\ databases[d] # 0 /\ databases[d] <= used.db
  BY DEF FindDatabase, EvalInv, CatalogOK
<1>2. /\ b \in Query /\ b.kind = kind /\ b.db = d /\ b.tab = t
      /\ b.stage = "run" /\ b.dbo = databases[d] /\ b.table = 0 /\ b.map = 0 /\ b.doc = 0
  BY <1>1, FindIs
<1>3. SetQ(s, b) /\ UNCHANGED <<databases, Tables, Data, heap, used, acked>>
  BY DEF FindDatabase, Finding
<1> HIDE DEF b
<1>4. Shape(b, used, docs)
  <2>1. b.dbo <= used.db /\ b.table <= used.table /\ b.map <= used.map /\ b.doc <= used.doc
    BY <1>1, <1>2, QueryOf, CountFields
  <2>2. b.kind \notin OnDoc
    BY <1>2 DEF OnCatalog, OnDoc
  <2> QED
    BY <1>1, <1>2, <2>1, <2>2 DEF Shape, Pending
<1>5. Current(b, databases, Tables)
  <2>1. \A e \in Db : databases[e] = b.dbo => e = b.db
    BY <1>1, <1>2 DEF EvalInv, CatalogOK
  <2> QED
    BY <1>2, <2>1 DEF Current
<1>6. Quiet(b)
  BY <1>2 DEF Quiet, Pending
<1> QED
  BY <1>2, <1>3, <1>4, <1>5, <1>6, OnlyQuery

LEMMA LookupDatabaseKeeps ==
    ASSUME EvalInv, NEW s \in Session, LookupDatabase(s) \/ LookupAgain(s)
    PROVE  EvalInv'
<1> DEFINE c == q[s]
           o == databases[c.db]
           g == IF o = 0 THEN "create" ELSE "table"
           b == LookedUp(c, o, g)
<1>1. /\ c \in Query /\ Shape(c, used, docs) /\ used \in Counts
      /\ c.db \in Db /\ c.tab \in Tab /\ o \in 0..MaxDb /\ g \in {"create", "table"}
  BY QueryOf
<1>2. c.kind \in OnTable \cup OnDoc /\ c.stage \in {"lookup", "again"}
  BY DEF LookupDatabase, LookupAgain, InCall
<1>3. UNCHANGED <<databases, Tables, Data, heap, used, acked>>
  BY DEF LookupDatabase, LookupAgain
<1>4. SetQ(s, b)
  <2>1. CASE LookupDatabase(s)
    BY <2>1 DEF LookupDatabase, LookedUp
  <2>2. CASE LookupAgain(s)
    BY <2>2 DEF LookupAgain, LookedUp
  <2> QED
    BY <2>1, <2>2
<1>5. /\ b \in Query /\ b.kind = c.kind /\ b.db = c.db /\ b.tab = c.tab /\ b.key = c.key
      /\ b.stage = g /\ b.dbo = o /\ b.table = c.table /\ b.map = c.map /\ b.doc = c.doc
  <2> HIDE DEF c, o, g
  <2> QED
    BY <1>1, LookedUpIs
<1>6. o <= used.db /\ \A d \in Db : databases[d] = o /\ o # 0 => d = c.db
  BY <1>1 DEF EvalInv, CatalogOK
<1>7. g = "table" => o # 0
  OBVIOUS
<1> HIDE DEF b, c, o, g
<1>8. c.table = 0 /\ c.map <= used.map /\ c.doc <= used.doc /\ (c.kind \in OnDoc => c.key # NoKey)
  BY <1>1, <1>2 DEF Shape
<1>9. b.kind \notin OnCatalog /\ b.stage \in {"create", "table"}
  BY <1>1, <1>2, <1>5 DEF OnTable, OnDoc, OnCatalog
<1>10. Quiet(b)
  BY <1>9 DEF Quiet, Pending
<1>11. Shape(b, used, docs)
  <2>1. b.dbo <= used.db /\ b.table <= used.table /\ b.map <= used.map /\ b.doc <= used.doc
    BY <1>1, <1>5, <1>6, <1>8, CountFields
  <2> QED
    BY <1>5, <1>7, <1>8, <1>9, <2>1 DEF Shape, Pending
<1>12. Current(b, databases, Tables)
  <2>1. b.dbo # 0 => \A d \in Db : databases[d] = b.dbo => d = b.db
    BY <1>5, <1>6
  <2>2. b.table = 0 /\ databases[b.db] = b.dbo
    BY <1>5, <1>8 DEF o
  <2>3. b.stage # "again"
    BY <1>9
  <2> QED
    BY <2>1, <2>2, <2>3 DEF Current
<1> QED
  BY <1>3, <1>4, <1>5, <1>10, <1>11, <1>12, OnlyQuery

LEMMA LookupTableKeeps ==
    ASSUME EvalInv, NEW s \in Session, LookupTable(s)
    PROVE  EvalInv'
<1> DEFINE c == q[s]
           o == Tables[c.dbo][c.tab]
<1>1. /\ c \in Query /\ Shape(c, used, docs) /\ Current(c, databases, Tables)
      /\ used \in Counts
  BY QueryOf
<1>2. c.kind \in OnTable \cup OnDoc /\ c.stage = "table"
  BY DEF LookupTable, InCall
<1>3. UNCHANGED <<databases, Tables, Data, heap, used, acked>>
  BY DEF LookupTable
<1>4. CASE o # 0
  <2>1. SetQ(s, Found(c, o))
    BY <1>4 DEF LookupTable
  <2>2. /\ Found(c, o) \in Query /\ Shape(Found(c, o), used, docs)
        /\ Current(Found(c, o), databases, Tables) /\ Quiet(Found(c, o))
    BY <1>1, <1>2, <1>4, FoundOK DEF EvalInv
  <2> QED
    BY <1>3, <2>1, <2>2, OnlyQuery
<1>5. CASE o = 0
  <2> DEFINE b == AtStage(c, "make")
  <2>1. SetQ(s, b)
    BY <1>5 DEF LookupTable, AtStage
  <2>2. /\ b \in Query /\ b.stage = "make"
        /\ b.kind = c.kind /\ b.db = c.db /\ b.tab = c.tab /\ b.key = c.key
        /\ b.dbo = c.dbo /\ b.table = c.table /\ b.map = c.map /\ b.doc = c.doc
        /\ b.dropped = c.dropped
    BY <1>1, StageIs
  <2> HIDE DEF b, c
  <2>3. Shape(b, used, docs) /\ Quiet(b)
    BY <1>1, <1>2, <2>2 DEF Shape, Quiet, Pending, OnTable, OnDoc, OnCatalog
  <2>4. Current(b, databases, Tables)
    <3>1. c.dropped \/ databases[c.db] = c.dbo
      BY <1>1, <1>2, Zenon DEF Current
    <3>2. c.table = 0
      BY <1>1, <1>2 DEF Shape
    <3>3. b.dbo # 0 => \A d \in Db : databases[d] = b.dbo => d = b.db
      BY <1>1, <2>2 DEF Current
    <3>4. b.dropped \/ databases[b.db] = b.dbo
      BY <2>2, <3>1, Zenon
    <3> QED
      BY <2>2, <3>2, <3>3, <3>4, Zenon DEF Current
  <2> QED
    BY <1>3, <2>1, <2>2, <2>3, <2>4, OnlyQuery
<1> QED
  BY <1>4, <1>5

\* A query has its table, and the table a map.
LEMMA TableOf ==
    ASSUME EvalInv, NEW s \in Session, q[s].kind \notin OnCatalog,
           q[s].stage \in {"run", "write", "round"}
    PROVE  /\ q[s].table \in 1..MaxTable /\ q[s].table <= used.table
           /\ Data[q[s].table] \in 1..MaxMap /\ Data[q[s].table] <= used.map
<1>1. q[s] \in Query /\ Shape(q[s], used, docs) /\ used \in Counts
  BY QueryOf
<1>2. q[s].table \in 1..MaxTable /\ q[s].table <= used.table
  BY <1>1, QueryFields DEF Shape
<1>3. used.table \in Nat /\ Data \in [1..MaxTable -> 0..MaxMap]
  BY <1>1, CountFields DEF EvalInv, StoreOK
<1> QED
  BY <1>2, <1>3 DEF EvalInv, StoreOK

Got(c, o) == [c EXCEPT !.doc = o, !.stage = "write"]

LEMMA evalGetKeeps ==
    ASSUME EvalInv, NEW s \in Session, evalGet(s)
    PROVE  EvalInv'
<1> DEFINE c == q[s]
           o == maps[Data[c.table]][c.key]
           b == Got(c, o)
<1>1. c \in Query /\ Shape(c, used, docs) /\ Current(c, databases, Tables) /\ used \in Counts
  BY QueryOf
<1>2. c.kind \in OnDoc /\ c.stage = "run"
  BY DEF evalGet, Running
<1>3. UNCHANGED <<databases, Tables, Data, heap, used, acked>>
  BY DEF evalGet
<1>4. CASE o = 0
  BY <1>3, <1>4, ReturnsKeeps DEF evalGet
<1>5. CASE o # 0
  <2>1. SetQ(s, b)
    BY <1>5 DEF evalGet, Got
  <2>2. c.kind \notin OnCatalog /\ c.key \in AnyKey
    BY <1>1, <1>2, QueryFields DEF OnDoc, OnCatalog, Shape
  <2>3. Data[c.table] \in 1..MaxMap /\ c.table \in 1..MaxTable
    BY <1>2, <2>2, TableOf
  <2>4. o \in 0..MaxDoc /\ o <= used.doc
    BY <2>2, <2>3 DEF EvalInv, StoreOK
  <2>5. /\ b \in Query /\ b.stage = "write" /\ b.doc = o
        /\ b.kind = c.kind /\ b.db = c.db /\ b.tab = c.tab /\ b.key = c.key
        /\ b.dbo = c.dbo /\ b.table = c.table /\ b.map = c.map
        /\ b.dropped = c.dropped
    <3> HIDE DEF c, o
    <3> QED
      BY <1>1, <2>4 DEF Query, Got
  <2> HIDE DEF b, c, o
  <2>6. Quiet(b)
    BY <1>2, <2>5 DEF Quiet, Pending, OnDoc
  <2>7. Shape(b, used, docs)
    <3>1. c.dbo <= used.db /\ c.table <= used.table /\ c.map <= used.map /\ c.table # 0
          /\ c.key # NoKey
      BY <1>1, <1>2, <2>2 DEF Shape
    <3> QED
      BY <1>2, <1>5, <2>2, <2>4, <2>5, <2>6, <3>1 DEF Shape, Quiet
  <2>8. Current(b, databases, Tables)
    BY <1>1, <2>5, Zenon DEF Current
  <2> QED
    BY <1>3, <2>1, <2>5, <2>6, <2>7, <2>8, OnlyQuery
<1> QED
  BY <1>4, <1>5

-----------------------------------------------------------------------------
(* Steps that change the catalog.                                          *)

LEMMA CatalogChange ==
    ASSUME EvalInv, UNCHANGED heap, q' \in [Session -> Query], used'.doc = used.doc,
           CatalogOK(databases', Tables', used'), StoreOK(Data', maps, docs, used'),
           HomeOK(Data', maps, docs, q),
           \A r \in Session : /\ Shape(q'[r], used', docs) /\ Current(q'[r], databases', Tables')
                              /\ Quiet(q'[r]) \/ SameWork(q'[r], q[r]),
           AckOK(acked', databases', Tables', Data', maps)
    PROVE  EvalInv'
<1>1. maps' = maps /\ docs' = docs
  BY DEF heap
<1>2. QueriesOK(q', used', docs, databases', Tables')
  BY DEF QueriesOK
<1>3. FreshOK(maps, docs, q)
  BY DEF EvalInv
<1>4. HomeOK(Data', maps, docs, q') /\ FreshOK(maps, docs, q')
  BY <1>3, WorkKept
<1> QED
  BY <1>1, <1>2, <1>4 DEF EvalInv

\* What NewDatabase leaves of the invariant, whatever the queries do.
LEMMA NewDatabaseKeeps ==
    ASSUME EvalInv, NEW d \in Db, databases[d] = 0, NewDatabase(d), UNCHANGED <<Tables, Data, heap, acked>>
    PROVE  /\ CatalogOK(databases', Tables', used') /\ StoreOK(Data', maps, docs, used')
           /\ HomeOK(Data', maps, docs, q)
           /\ used'.doc = used.doc
           /\ \A r \in Session : Shape(q[r], used', docs) /\ Current(q[r], databases', Tables')
           /\ AckOK(acked', databases', Tables', Data', maps)
           /\ databases'[d] # 0
<1>1. used \in Counts /\ CatalogOK(databases, Tables, used) /\ used.db < MaxDb
  BY DEF EvalInv, CatalogOK, NewDatabase
<1>2. /\ used' \in Counts /\ used'.db = used.db + 1
      /\ used'.table = used.table /\ used'.map = used.map /\ used'.doc = used.doc
  BY <1>1, CountDb DEF NewDatabase
<1>3. /\ CatalogOK(databases', Tables, used')
      /\ \A e \in Db, t \in Tab : Now(databases', Tables, e, t) = Now(databases, Tables, e, t)
      /\ \A c \in Query : Shape(c, used, docs) /\ Current(c, databases, Tables)
                            => Current(c, databases', Tables)
      /\ databases'[d] # 0
  <2>1. Changed(Db, 0..MaxDb, databases, databases', d, used.db + 1)
    BY <1>1, CountFields DEF NewDatabase, CatalogOK, Changed
  <2> QED
    BY <1>1, <1>2, <2>1, NewDatabaseOK
<1>4. StoreOK(Data, maps, docs, used')
  BY <1>2, StoreKept DEF EvalInv
<1>5. used.db <= used'.db /\ used.table <= used'.table /\ used.map <= used'.map /\ used.doc <= used'.doc
  BY <1>1, <1>2, CountFields
<1>6. \A r \in Session : Shape(q[r], used', docs) /\ Current(q[r], databases', Tables)
  BY <1>1, <1>2, <1>3, <1>5, ShapeKept DEF EvalInv, QueriesOK
<1>7. AckOK(acked, databases', Tables, Data, maps)
  <2>1. \A a \in acked : a[1] \in Db /\ a[2] \in Tab
    BY DEF EvalInv, AckOK
  <2> QED
    BY <1>3, <2>1 DEF EvalInv, AckOK
<1> QED
  BY <1>2, <1>3, <1>4, <1>6, <1>7 DEF EvalInv, heap

LEMMA evalDBCreateKeeps ==
    ASSUME EvalInv, NEW s \in Session, NEW d \in Db, evalDBCreate(s, d)
    PROVE  EvalInv'
<1>1. databases[d] = 0 /\ NewDatabase(d) /\ UNCHANGED <<Tables, Data, heap, acked>> /\ q' = q
  BY DEF evalDBCreate
<1>2. q \in [Session -> Query] /\ \A r \in Session : SameWork(q[r], q[r])
  BY DEF EvalInv, QueriesOK, SameWork
<1> QED
  BY <1>1, <1>2, NewDatabaseKeeps, CatalogChange

LEMMA CreateDatabaseKeeps ==
    ASSUME EvalInv, NEW s \in Session, CreateDatabase(s)
    PROVE  EvalInv'
<1> DEFINE c == q[s]
           b == AtStage(c, "again")
<1>1. /\ c \in Query /\ c.db \in Db /\ c.tab \in Tab
      /\ Shape(c, used, docs) /\ Current(c, databases, Tables)
  BY QueryOf
<1>2. c.kind \in OnTable \cup OnDoc /\ c.stage = "create"
  BY DEF CreateDatabase, InCall
<1>3. SetQ(s, b) /\ UNCHANGED <<Tables, Data, heap, acked>> /\ AutoCreate(c.db)
  BY DEF CreateDatabase, AtStage
<1>4. /\ b \in Query /\ b.stage = "again"
      /\ b.kind = c.kind /\ b.db = c.db /\ b.tab = c.tab /\ b.key = c.key
      /\ b.dbo = c.dbo /\ b.table = c.table /\ b.map = c.map /\ b.doc = c.doc
      /\ b.dropped = c.dropped
  BY <1>1, StageIs
<1> HIDE DEF b
<1>5. q' \in [Session -> Query] /\ \A r \in Session : q'[r] = IF r = s THEN b ELSE q[r]
  BY <1>3, <1>4 DEF EvalInv, QueriesOK, SetQ
<1>6. Quiet(b)
  BY <1>4 DEF Quiet, Pending
<1>7. \A u : Shape(c, u, docs) => Shape(b, u, docs)
  <2> HIDE DEF c
  <2> QED
    BY <1>2, <1>4 DEF Shape, Pending, OnTable, OnDoc, OnCatalog
<1>8. ASSUME NEW ds, ds[c.db] # 0, Current(c, ds, Tables) PROVE Current(b, ds, Tables)
  <2>1. c.table = 0
    BY <1>1, <1>2 DEF Shape
  <2>2. b.dbo # 0 => \A d \in Db : ds[d] = b.dbo => d = b.db
    BY <1>4, <1>8 DEF Current
  <2> QED
    BY <1>4, <1>8, <2>1, <2>2 DEF Current
<1>9. CASE databases[c.db] = 0
  <2>1. NewDatabase(c.db)
    BY <1>3, <1>9 DEF AutoCreate
  <2>2. /\ CatalogOK(databases', Tables', used') /\ StoreOK(Data', maps, docs, used')
        /\ HomeOK(Data', maps, docs, q)
        /\ used'.doc = used.doc
        /\ \A r \in Session : Shape(q[r], used', docs) /\ Current(q[r], databases', Tables')
        /\ AckOK(acked', databases', Tables', Data', maps)
        /\ databases'[c.db] # 0
    BY <1>1, <1>3, <1>9, <2>1, NewDatabaseKeeps
  <2>3. Shape(b, used', docs) /\ Current(b, databases', Tables')
    BY <1>3, <1>7, <1>8, <2>2
  <2>4. \A r \in Session : /\ Shape(q'[r], used', docs) /\ Current(q'[r], databases', Tables')
                           /\ Quiet(q'[r]) \/ SameWork(q'[r], q[r])
    BY <1>5, <1>6, <2>2, <2>3 DEF SameWork
  <2> QED
    BY <1>3, <1>5, <2>2, <2>4, CatalogChange
<1>10. CASE databases[c.db] # 0
  <2>1. UNCHANGED <<databases, used>>
    BY <1>3, <1>10 DEF AutoCreate
  <2>2. UNCHANGED <<databases, Tables, Data, heap, used, acked>>
    BY <1>3, <2>1
  <2>3. Shape(b, used, docs) /\ Current(b, databases, Tables)
    BY <1>1, <1>7, <1>8, <1>10
  <2> QED
    BY <1>3, <1>4, <1>6, <2>2, <2>3, OnlyQuery
<1> QED
  BY <1>9, <1>10

\* A query whose table or database is dropped goes on with it.
LEMMA MarkedOK ==
    ASSUME NEW c \in Query, NEW u, NEW dc, NEW dbs, NEW tbs,
           Shape(c, u, dc), Current(c, dbs, tbs)
    PROVE  LET b == Dropped(c) IN
           /\ b \in Query /\ Shape(b, u, dc) /\ Current(b, dbs, tbs) /\ SameWork(b, c)
           /\ b.dropped = TRUE /\ b.db = c.db /\ b.tab = c.tab
<1> DEFINE b == Dropped(c)
<1>1. /\ b \in Query /\ b.stage = c.stage
      /\ b.kind = c.kind /\ b.db = c.db /\ b.tab = c.tab /\ b.key = c.key
      /\ b.dbo = c.dbo /\ b.table = c.table /\ b.map = c.map /\ b.doc = c.doc
      /\ b.dropped = TRUE
  BY DroppedIs
<1> HIDE DEF b
<1>2. Shape(b, u, dc) /\ SameWork(b, c)
  BY <1>1 DEF Shape, Pending, SameWork
<1>3. Current(b, dbs, tbs)
  <2>1. b.dbo # 0 => \A d \in Db : dbs[d] = b.dbo => d = b.db
    BY <1>1 DEF Current
  <2>2. b.table # 0 => \A d \in Db, t \in Tab : Now(dbs, tbs, d, t) = b.table => d = b.db /\ t = b.tab
    BY <1>1 DEF Current
  <2> QED
    BY <1>1, <2>1, <2>2, Zenon DEF Current
<1> QED
  BY <1>1, <1>2, <1>3 DEF b

LEMMA evalDBDropKeeps ==
    ASSUME EvalInv, NEW s \in Session, NEW d \in Db, evalDBDrop(s, d)
    PROVE  EvalInv'
<1>1. UNCHANGED <<Tables, Data, heap, used>> /\ acked' = {a \in acked : a[1] # d}
  BY DEF evalDBDrop
<1>2. q' = [r \in Session |-> IF q[r] # Idle /\ q[r].db = d THEN Dropped(q[r]) ELSE q[r]]
  BY DEF evalDBDrop, Dropped
<1>3. Changed(Db, 0..MaxDb, databases, databases', d, 0)
  BY DEF evalDBDrop, EvalInv, CatalogOK, Changed
<1>4. /\ CatalogOK(databases', Tables, used)
      /\ \A e \in Db, t \in Tab :
            Now(databases', Tables, e, t) = IF e = d THEN 0 ELSE Now(databases, Tables, e, t)
      /\ \A c \in Query : Current(c, databases, Tables) /\ (c.db = d => c.dropped = TRUE)
                            => Current(c, databases', Tables)
  BY <1>3, DropDatabaseOK DEF EvalInv
<1>5. ASSUME NEW r \in Session
      PROVE  /\ q'[r] \in Query /\ Shape(q'[r], used, docs) /\ Current(q'[r], databases', Tables)
             /\ SameWork(q'[r], q[r])
  <2>1. q[r] \in Query /\ Shape(q[r], used, docs) /\ Current(q[r], databases, Tables) /\ used \in Counts
    BY QueryOf
  <2>2. SameWork(q[r], q[r])
    BY DEF SameWork
  <2>3. CASE q[r] = Idle
    <3>1. q'[r] = Idle
      BY <1>2, <2>3
    <3> QED
      BY <2>1, <2>2, <2>3, <3>1, IdleOK
  <2>4. CASE q[r] # Idle /\ q[r].db = d
    <3>1. q'[r] = Dropped(q[r])
      BY <1>2, <2>4
    <3>2. /\ Dropped(q[r]) \in Query /\ Shape(Dropped(q[r]), used, docs)
          /\ Current(Dropped(q[r]), databases, Tables) /\ SameWork(Dropped(q[r]), q[r])
          /\ Dropped(q[r]).dropped = TRUE
      BY <2>1, MarkedOK
    <3>3. Current(Dropped(q[r]), databases', Tables)
      BY <1>4, <3>2
    <3> QED
      BY <3>1, <3>2, <3>3
  <2>5. CASE q[r].db # d
    <3>1. q'[r] = q[r]
      BY <1>2, <2>5
    <3>2. Current(q[r], databases', Tables)
      BY <1>4, <2>1, <2>5
    <3> QED
      BY <2>1, <2>2, <3>1, <3>2
  <2> QED
    BY <2>3, <2>4, <2>5
<1>6. q' \in [Session -> Query]
  BY <1>2, <1>5
<1>7. AckOK(acked', databases', Tables, Data, maps)
  <2>1. \A a \in acked' : a \in acked /\ a[1] \in Db /\ a[2] \in Tab /\ a[1] # d
    BY <1>1 DEF EvalInv, AckOK
  <2>2. \A a \in acked' : Now(databases', Tables, a[1], a[2]) = Now(databases, Tables, a[1], a[2])
    BY <1>4, <2>1
  <2> QED
    BY <2>1, <2>2 DEF EvalInv, AckOK
<1>8. StoreOK(Data, maps, docs, used) /\ HomeOK(Data, maps, docs, q)
  BY DEF EvalInv
<1> QED
  BY <1>1, <1>4, <1>5, <1>6, <1>7, <1>8, CatalogChange

\* What NewTable leaves of the invariant.
LEMMA NewTableKeeps ==
    ASSUME EvalInv, NEW o \in 1..MaxDb, o <= used.db, NEW t \in Tab, Tables[o][t] = 0,
           NewTable(o, t), UNCHANGED <<databases, heap, acked>>
    PROVE  /\ CatalogOK(databases', Tables', used') /\ StoreOK(Data', maps, docs, used')
           /\ HomeOK(Data', maps, docs, q)
           /\ used'.doc = used.doc
           /\ \A r \in Session : Shape(q[r], used', docs) /\ Current(q[r], databases', Tables')
           /\ AckOK(acked', databases', Tables', Data', maps)
           /\ Tables'[o][t] = used.table + 1
<1>1. used \in Counts /\ used.table < MaxTable /\ used.map < MaxMap
  BY DEF EvalInv, CatalogOK, NewTable
<1>2. used.table \in Nat /\ used.map \in Nat /\ used.table + 1 \in 1..MaxTable /\ used.map + 1 \in 1..MaxMap
  BY <1>1, CountFields
<1>3. /\ used' \in Counts /\ used'.db = used.db /\ used'.table = used.table + 1
      /\ used'.map = used.map + 1 /\ used'.doc = used.doc
  BY <1>1, CountTable DEF NewTable
<1>4. Changed2(1..MaxDb, Tab, 0..MaxTable, Tables, Tables', o, t, used.table + 1)
  <2>1. Tables \in [1..MaxDb -> [Tab -> 0..MaxTable]]
    BY DEF EvalInv, CatalogOK
  <2>2. Tables' = Entered(Tables, o, t, used.table + 1)
    BY DEF NewTable, Entered
  <2>3. used.table + 1 \in 0..MaxTable
    BY <1>2
  <2> QED
    BY <2>1, <2>2, <2>3, EntryIs
<1>5. Changed(1..MaxTable, 0..MaxMap, Data, Data', used.table + 1, used.map + 1)
  BY <1>2 DEF NewTable, EvalInv, StoreOK, Changed
<1>6. TableMade(Tables, used, o, t, used', Tables')
  BY <1>1, <1>3, <1>4 DEF TableMade
<1>7. MapMade(Data, used, used.table + 1, used', Data')
  BY <1>1, <1>2, <1>3, <1>5 DEF MapMade
<1>8. /\ CatalogOK(databases, Tables', used')
      /\ \A d \in Db, v \in Tab :
            Now(databases, Tables', d, v)
                = IF databases[d] = o /\ v = t THEN used.table + 1 ELSE Now(databases, Tables, d, v)
      /\ \A c \in Query : c.table <= used.table /\ Current(c, databases, Tables)
                            => Current(c, databases, Tables')
  BY <1>6, NewTableOK DEF EvalInv
<1>9. StoreOK(Data', maps, docs, used') /\ HomeOK(Data', maps, docs, q)
  BY <1>7, NewMapOK DEF EvalInv
<1>10. used.db <= used'.db /\ used.table <= used'.table /\ used.map <= used'.map /\ used.doc <= used'.doc
  BY <1>1, <1>3, CountFields
<1>11. ASSUME NEW r \in Session
       PROVE  Shape(q[r], used', docs) /\ Current(q[r], databases, Tables')
  <2>1. q[r] \in Query /\ Shape(q[r], used, docs) /\ Current(q[r], databases, Tables)
    BY QueryOf
  <2>2. q[r].table <= used.table
    BY <2>1 DEF Shape
  <2>3. Current(q[r], databases, Tables')
    BY <1>8, <2>1, <2>2
  <2> QED
    BY <1>1, <1>3, <1>10, <2>1, <2>3, ShapeKept
<1>12. ASSUME NEW a \in acked
       PROVE  /\ Now(databases, Tables', a[1], a[2]) # 0
              /\ maps[Data'[Now(databases, Tables', a[1], a[2])]][a[3]] # 0
  <2> DEFINE x == Now(databases, Tables, a[1], a[2])
  <2>1. a[1] \in Db /\ a[2] \in Tab /\ x # 0 /\ maps[Data[x]][a[3]] # 0
    BY DEF EvalInv, AckOK
  <2>2. x \in 0..MaxTable /\ x <= used.table /\ databases[a[1]] \in 1..MaxDb
        /\ x = Tables[databases[a[1]]][a[2]]
    BY <2>1, NowType DEF EvalInv
  <2>3. ~(databases[a[1]] = o /\ a[2] = t)
    BY <2>1, <2>2
  <2>4. Now(databases, Tables', a[1], a[2]) = x
    BY <1>8, <2>1, <2>3
  <2> HIDE DEF x
  <2>5. x \in 1..MaxTable /\ x # used.table + 1
    BY <1>2, <2>1, <2>2
  <2>6. Data'[x] = Data[x]
    BY <1>5, <2>5 DEF Changed
  <2> QED
    BY <2>1, <2>4, <2>6
<1>13. AckOK(acked, databases, Tables', Data', maps)
  BY <1>12 DEF EvalInv, AckOK
<1>14. Tables'[o][t] = used.table + 1
  BY <1>4 DEF Changed2
<1> QED
  BY <1>3, <1>8, <1>9, <1>11, <1>13, <1>14

\* TABLE_CREATE looks its table up once more.
Reread(c) == [c EXCEPT !.kind = "read", !.dbo = 0, !.calls = 1, !.stage = "lookup"]

LEMMA RereadIs ==
    ASSUME NEW c \in Query
    PROVE  LET b == Reread(c) IN
           /\ b \in Query /\ b.kind = "read" /\ b.stage = "lookup" /\ b.dbo = 0
           /\ b.table = c.table /\ b.map = c.map /\ b.doc = c.doc
<1>1. 1 \in 0..2 /\ 0 \in 0..MaxDb
  OBVIOUS
<1> QED
  BY <1>1 DEF Query, Reread, OnTable

LEMMA CreateTableKeeps ==
    ASSUME EvalInv, NEW s \in Session, CreateTable(s)
    PROVE  EvalInv'
<1> DEFINE c == q[s]
           b == Reread(c)
<1>1. c \in Query /\ c.db \in Db /\ c.tab \in Tab /\ Shape(c, used, docs) /\ used \in Counts
  BY QueryOf
<1>2. c.kind = "tableCreate" /\ c.stage = "run" /\ UNCHANGED <<databases, heap, acked>>
  BY DEF CreateTable
<1>3. CASE Tables[c.dbo][c.tab] # 0
  <2>1. Returns(s) /\ UNCHANGED <<Tables, Data, used>>
    BY <1>3 DEF CreateTable, Exists
  <2>2. UNCHANGED <<databases, Tables, Data, heap, used, acked>>
    BY <1>2, <2>1
  <2> QED
    BY <2>1, <2>2, ReturnsKeeps
<1>4. CASE Tables[c.dbo][c.tab] = 0
  <2>1. NewTable(c.dbo, c.tab) /\ SetQ(s, b)
    BY <1>4 DEF CreateTable, Exists, Reread
  <2>2. c.dbo \in 1..MaxDb /\ c.dbo <= used.db /\ c.table = 0 /\ c.map <= used.map /\ c.doc <= used.doc
    BY <1>1, <1>2, QueryFields DEF Shape, OnCatalog
  <2>3. /\ CatalogOK(databases', Tables', used') /\ StoreOK(Data', maps, docs, used')
        /\ HomeOK(Data', maps, docs, q)
        /\ used'.doc = used.doc
        /\ \A r \in Session : Shape(q[r], used', docs) /\ Current(q[r], databases', Tables')
        /\ AckOK(acked', databases', Tables', Data', maps)
    BY <1>1, <1>2, <1>4, <2>1, <2>2, NewTableKeeps
  <2>4. /\ b \in Query /\ b.kind = "read" /\ b.stage = "lookup" /\ b.dbo = 0
        /\ b.table = c.table /\ b.map = c.map /\ b.doc = c.doc
    BY <1>1, RereadIs
  <2> HIDE DEF b
  <2>5. q' \in [Session -> Query] /\ \A r \in Session : q'[r] = IF r = s THEN b ELSE q[r]
    BY <2>1, <2>4 DEF EvalInv, QueriesOK, SetQ
  <2>6. Quiet(b) /\ Current(b, databases', Tables')
    BY <2>2, <2>4 DEF Quiet, Pending, Current
  <2>7. Shape(b, used', docs)
    <3>1. Shape(c, used', docs) /\ used' \in Counts
      BY <2>3 DEF CatalogOK
    <3>2. b.dbo <= used'.db /\ b.table <= used'.table /\ b.map <= used'.map /\ b.doc <= used'.doc
      BY <2>4, <3>1, CountFields DEF Shape
    <3> QED
      BY <2>2, <2>4, <3>2 DEF Shape, Pending, OnCatalog, OnDoc
  <2>8. \A r \in Session : /\ Shape(q'[r], used', docs) /\ Current(q'[r], databases', Tables')
                           /\ Quiet(q'[r]) \/ SameWork(q'[r], q[r])
    BY <2>3, <2>5, <2>6, <2>7 DEF SameWork
  <2> QED
    BY <1>2, <2>3, <2>5, <2>8, CatalogChange
<1> QED
  BY <1>3, <1>4

LEMMA MakeTableKeeps ==
    ASSUME EvalInv, NEW s \in Session, MakeTable(s)
    PROVE  EvalInv'
<1> DEFINE c == q[s]
<1>1. /\ c \in Query /\ c.db \in Db /\ c.tab \in Tab
      /\ Shape(c, used, docs) /\ Current(c, databases, Tables) /\ used \in Counts
  BY QueryOf
<1>2. c.kind \in OnTable \cup OnDoc /\ c.stage = "make" /\ UNCHANGED <<databases, heap, acked>>
  BY DEF MakeTable, InCall
<1>3. CASE Tables[c.dbo][c.tab] # 0
  <2> DEFINE b == Found(c, Tables[c.dbo][c.tab])
  <2>1. SetQ(s, b) /\ UNCHANGED <<Tables, Data, used>>
    BY <1>3 DEF MakeTable, Misses
  <2>2. UNCHANGED <<databases, Tables, Data, heap, used, acked>>
    BY <1>2, <2>1
  <2>3. b \in Query /\ Shape(b, used, docs) /\ Current(b, databases, Tables) /\ Quiet(b)
    BY <1>1, <1>2, <1>3, FoundOK DEF EvalInv
  <2> QED
    BY <2>1, <2>2, <2>3, OnlyQuery
<1>4. CASE Tables[c.dbo][c.tab] = 0
  <2> DEFINE b == Found(c, used.table + 1)
  <2>1. NewTable(c.dbo, c.tab) /\ SetQ(s, b)
    BY <1>4 DEF MakeTable, Misses
  <2>2. c.dbo \in 1..MaxDb /\ c.dbo <= used.db
    BY <1>1, <1>2, QueryFields DEF Shape
  <2>3. /\ CatalogOK(databases', Tables', used') /\ StoreOK(Data', maps, docs, used')
        /\ HomeOK(Data', maps, docs, q)
        /\ used'.doc = used.doc
        /\ \A r \in Session : Shape(q[r], used', docs) /\ Current(q[r], databases', Tables')
        /\ AckOK(acked', databases', Tables', Data', maps)
        /\ Tables'[c.dbo][c.tab] = used.table + 1
    BY <1>1, <1>2, <1>4, <2>1, <2>2, NewTableKeeps
  <2>4. used.table + 1 # 0
    BY <1>1, CountFields
  <2>5. b \in Query /\ Shape(b, used', docs) /\ Current(b, databases', Tables') /\ Quiet(b)
    <3>1. b = Found(c, Tables'[c.dbo][c.tab])
      BY <2>3
    <3>2. Shape(c, used', docs) /\ Current(c, databases', Tables') /\ c.stage \in {"table", "make"}
          /\ Tables'[c.dbo][c.tab] # 0
      BY <1>2, <2>3, <2>4
    <3> HIDE DEF b, c
    <3> QED
      BY <1>1, <1>2, <2>3, <3>1, <3>2, FoundOK
  <2> HIDE DEF b
  <2>6. q' \in [Session -> Query] /\ \A r \in Session : q'[r] = IF r = s THEN b ELSE q[r]
    BY <2>1, <2>5 DEF EvalInv, QueriesOK, SetQ
  <2>7. \A r \in Session : /\ Shape(q'[r], used', docs) /\ Current(q'[r], databases', Tables')
                           /\ Quiet(q'[r]) \/ SameWork(q'[r], q[r])
    BY <2>3, <2>5, <2>6 DEF SameWork
  <2> QED
    BY <1>2, <2>3, <2>6, <2>7, CatalogChange
<1> QED
  BY <1>3, <1>4

LEMMA DropTableKeeps ==
    ASSUME EvalInv, NEW s \in Session, DropTable(s)
    PROVE  EvalInv'
<1> DEFINE c == q[s]
           o == c.dbo
           t == c.tab
<1>1. /\ c \in Query /\ c.db \in Db /\ t \in Tab
      /\ Shape(c, used, docs) /\ Current(c, databases, Tables) /\ used \in Counts
  BY QueryOf
<1>2. c.kind = "tableDrop" /\ c.stage = "run" /\ UNCHANGED <<databases, Data, heap, used>>
  BY DEF DropTable
<1>3. o \in 1..MaxDb
  BY <1>1, <1>2, QueryFields DEF Shape, OnCatalog
<1>4. \A d \in Db : databases[d] = o => d = c.db
  BY <1>1, <1>3 DEF Current
<1>5. q' = [r \in Session |-> IF r = s THEN Idle
                              ELSE IF q[r] # Idle /\ Hits(c, q[r]) THEN Dropped(q[r]) ELSE q[r]]
  BY DEF DropTable, Dropped
<1>6. Changed2(1..MaxDb, Tab, 0..MaxTable, Tables, Tables', o, t, 0)
  <2>1. Tables \in [1..MaxDb -> [Tab -> 0..MaxTable]] /\ 0 \in 0..MaxTable
    BY DEF EvalInv, CatalogOK
  <2>2. Tables' = Entered(Tables, o, t, 0)
    BY DEF DropTable, Entered
  <2> QED
    BY <1>1, <1>3, <2>1, <2>2, EntryIs
<1>7. acked' = {a \in acked : ~Hits(c, [db |-> a[1], tab |-> a[2]])}
  BY DEF DropTable
<1> HIDE DEF c, o, t
<1>8. /\ CatalogOK(databases, Tables', used)
      /\ \A d \in Db, v \in Tab :
            Now(databases, Tables', d, v)
                = IF databases[d] = o /\ v = t THEN 0 ELSE Now(databases, Tables, d, v)
      /\ \A x \in Query :
            /\ Current(x, databases, Tables)
            /\ databases[x.db] = o /\ x.tab = t /\ x.table # 0 =>
                    x.dropped = TRUE \/ Now(databases, Tables, x.db, x.tab) # x.table
            => Current(x, databases, Tables')
  BY <1>1, <1>3, <1>6, DropTableOK DEF EvalInv
<1>9. ASSUME NEW r \in Session
      PROVE  /\ q'[r] \in Query /\ Shape(q'[r], used, docs) /\ Current(q'[r], databases, Tables')
             /\ Quiet(q'[r]) \/ SameWork(q'[r], q[r])
  <2>1. /\ q[r] \in Query /\ Shape(q[r], used, docs) /\ Current(q[r], databases, Tables)
        /\ q[r].db \in Db /\ q[r].tab \in Tab
    BY QueryOf
  <2>2. CASE r = s \/ q[r] = Idle
    <3>1. q'[r] = Idle
      BY <1>5, <2>2
    <3> QED
      BY <1>1, <3>1, IdleIs, IdleOK
  <2>3. CASE r # s /\ q[r] # Idle /\ Hits(c, q[r])
    <3>1. q'[r] = Dropped(q[r])
      BY <1>5, <2>3
    <3>2. /\ Dropped(q[r]) \in Query /\ Shape(Dropped(q[r]), used, docs)
          /\ Current(Dropped(q[r]), databases, Tables) /\ SameWork(Dropped(q[r]), q[r])
          /\ Dropped(q[r]).dropped = TRUE
      BY <2>1, MarkedOK
    <3>3. Current(Dropped(q[r]), databases, Tables')
      BY <1>8, <3>2
    <3> QED
      BY <3>1, <3>2, <3>3
  <2>4. CASE r # s /\ q[r] # Idle /\ ~Hits(c, q[r])
    <3>1. q'[r] = q[r]
      BY <1>5, <2>4
    <3>2. ASSUME databases[q[r].db] = o, q[r].tab = t, q[r].table # 0
          PROVE  Now(databases, Tables, q[r].db, q[r].tab) # q[r].table
      <4>1. q[r].db = c.db
        BY <1>4, <2>1, <3>2
      <4>2. Tables[o][t] = 0
        BY <2>4, <3>2, <4>1 DEF Hits, o, t
      <4> QED
        BY <3>2, <4>2 DEF Now
    <3>3. Current(q[r], databases, Tables')
      BY <1>8, <2>1, <3>2
    <3> QED
      BY <2>1, <3>1, <3>3 DEF SameWork
  <2> QED
    BY <2>2, <2>3, <2>4
<1>10. q' \in [Session -> Query]
  BY <1>5, <1>9
<1>11. AckOK(acked', databases, Tables', Data, maps)
  <2>1. ASSUME NEW a \in acked'
        PROVE  /\ a \in acked
               /\ Now(databases, Tables', a[1], a[2]) = Now(databases, Tables, a[1], a[2])
    <3>1. /\ a \in acked /\ a[1] \in Db /\ a[2] \in Tab
          /\ Now(databases, Tables, a[1], a[2]) # 0
      BY <1>7 DEF EvalInv, AckOK
    <3>2. ~Hits(c, [db |-> a[1], tab |-> a[2]])
      BY <1>7
    <3>3. ~(databases[a[1]] = o /\ a[2] = t)
      <4>1. SUFFICES ASSUME databases[a[1]] = o, a[2] = t PROVE FALSE
        OBVIOUS
      <4>2. a[1] = c.db
        BY <1>4, <3>1, <4>1
      <4>3. Tables[o][t] # 0
        BY <3>1, <4>1 DEF Now
      <4> QED
        BY <3>2, <4>1, <4>2, <4>3 DEF Hits, o, t
    <3> QED
      BY <1>8, <3>1, <3>3
  <2> QED
    BY <2>1 DEF EvalInv, AckOK
<1>12. StoreOK(Data, maps, docs, used) /\ HomeOK(Data, maps, docs, q)
  BY DEF EvalInv
<1> QED
  BY <1>2, <1>8, <1>9, <1>10, <1>11, <1>12, CatalogChange

-----------------------------------------------------------------------------
(* Steps that change maps and documents.                                   *)

\* What DELETE of a whole table leaves: the ids that were reported as stored in
\* it go with its map.
LEMMA DeleteAllKeeps ==
    ASSUME EvalInv, NEW s \in Session, DeleteAll(s)
    PROVE  EvalInv'
<1> DEFINE c == q[s]
           o == c.table
<1>1. /\ c \in Query /\ c.db \in Db /\ c.tab \in Tab
      /\ Shape(c, used, docs) /\ Current(c, databases, Tables) /\ used \in Counts
  BY QueryOf
<1>2. c.kind = "deleteAll" /\ c.stage = "run" /\ UNCHANGED <<databases, Tables, heap>> /\ used.map < MaxMap
  BY DEF DeleteAll, Running
<1>3. o \in 1..MaxTable /\ o <= used.table
  BY <1>2, TableOf DEF OnCatalog
<1>4. /\ used' \in Counts /\ used'.db = used.db /\ used'.table = used.table
      /\ used'.map = used.map + 1 /\ used'.doc = used.doc
  BY <1>1, <1>2, CountMap DEF DeleteAll
<1>5. used.map + 1 \in 0..MaxMap
  BY <1>1, <1>2, CountFields
<1>6. Changed(1..MaxTable, 0..MaxMap, Data, Data', o, used.map + 1)
  BY <1>5 DEF DeleteAll, EvalInv, StoreOK, Changed
<1>7. MapMade(Data, used, o, used', Data')
  BY <1>2, <1>3, <1>4, <1>6 DEF MapMade
<1>8. StoreOK(Data', maps, docs, used') /\ HomeOK(Data', maps, docs, q)
  BY <1>7, NewMapOK DEF EvalInv
<1>9. CatalogOK(databases, Tables, used')
  BY <1>4 DEF EvalInv, CatalogOK
<1>10. used.db <= used'.db /\ used.table <= used'.table /\ used.map <= used'.map /\ used.doc <= used'.doc
  BY <1>1, <1>4, CountFields
<1>11. q' \in [Session -> Query] /\ \A r \in Session : q'[r] = IF r = s THEN Idle ELSE q[r]
  BY IdleIs DEF DeleteAll, Returns, SetQ, EvalInv, QueriesOK
<1>12. ASSUME NEW r \in Session
       PROVE  /\ Shape(q'[r], used', docs) /\ Current(q'[r], databases, Tables)
              /\ Quiet(q'[r]) \/ SameWork(q'[r], q[r])
  <2>1. CASE r = s
    BY <1>4, <1>11, <2>1, IdleOK
  <2>2. CASE r # s
    <3>1. q[r] \in Query /\ Shape(q[r], used, docs) /\ Current(q[r], databases, Tables)
      BY QueryOf
    <3>2. Shape(q[r], used', docs)
      BY <1>1, <1>4, <1>10, <3>1, ShapeKept
    <3> QED
      BY <1>11, <2>2, <3>1, <3>2 DEF SameWork
  <2> QED
    BY <2>1, <2>2
<1>13. acked' = IF Now(databases, Tables, c.db, c.tab) = o
                THEN {a \in acked : <<a[1], a[2]>> # <<c.db, c.tab>>} ELSE acked
  BY DEF DeleteAll, TableNow, Now
<1>14. \A d \in Db, t \in Tab : Now(databases, Tables, d, t) = o => d = c.db /\ t = c.tab
  BY <1>1, <1>3 DEF Current
<1> HIDE DEF c, o
<1>15. ASSUME NEW a \in acked'
       PROVE  /\ a \in acked /\ Now(databases, Tables, a[1], a[2]) # 0
              /\ maps[Data'[Now(databases, Tables, a[1], a[2])]][a[3]] # 0
  <2> DEFINE x == Now(databases, Tables, a[1], a[2])
  <2>1. a \in acked
    BY <1>13
  <2>2. a[1] \in Db /\ a[2] \in Tab /\ x # 0 /\ maps[Data[x]][a[3]] # 0
    BY <2>1 DEF EvalInv, AckOK
  <2>3. x \in 0..MaxTable
    BY <2>2, NowType DEF EvalInv
  <2>4. x # o
    <3>1. SUFFICES ASSUME x = o PROVE FALSE
      OBVIOUS
    <3>2. a[1] = c.db /\ a[2] = c.tab
      BY <1>14, <2>2, <3>1
    <3>3. <<a[1], a[2]>> = <<c.db, c.tab>> /\ Now(databases, Tables, c.db, c.tab) = o
      BY <3>1, <3>2
    <3> QED
      BY <1>13, <3>3
  <2> HIDE DEF x
  <2>5. Data'[x] = Data[x]
    BY <1>6, <2>2, <2>3, <2>4 DEF Changed
  <2>6. x # 0 /\ maps[Data'[x]][a[3]] # 0
    BY <2>2, <2>5
  <2> QED
    BY <2>1, <2>6 DEF x
<1>16. AckOK(acked', databases, Tables, Data', maps)
  <2>1. acked' \subseteq acked
    BY <1>15
  <2> QED
    BY <1>15, <2>1 DEF EvalInv, AckOK
<1> QED
  BY <1>2, <1>4, <1>8, <1>9, <1>11, <1>12, <1>16, CatalogChange

\* Queries that are at no other maps leave these to the same tables.
LEMMA HomeKept ==
    ASSUME NEW dt, NEW mp, NEW dc, NEW qq, NEW rr, HomeOK(dt, mp, dc, qq),
           \A m \in 1..MaxMap, o \in 1..MaxTable : Holds(dt, rr, m, o) => Holds(dt, qq, m, o)
    PROVE  HomeOK(dt, mp, dc, rr)
BY DEF HomeOK, OneOwner, OneHome

\* Insertions keep what is theirs when more documents are shared.
LEMMA FreshKept ==
    ASSUME EvalInv, NEW de, \A o \in 1..used.doc : docs[o].shared => de[o].shared
    PROVE  FreshOK(maps, de, q)
<1>1. ASSUME NEW r \in Session, Pending(q[r]), ~de[q[r].doc].shared
      PROVE  ~docs[q[r].doc].shared
  <2>1. q[r].doc \in 1..used.doc
    BY <1>1, QueryOf, QueryFields, CountFields DEF Shape, Pending
  <2> QED
    BY <1>1, <2>1
<1> QED
  BY <1>1 DEF EvalInv, FreshOK

\* One query goes on, perhaps with a document more; the others have what they had.
LEMMA OthersOK ==
    ASSUME EvalInv, NEW s \in Session, NEW b \in Query, SetQ(s, b),
           NEW w \in Counts, w.db = used.db, w.table = used.table, w.map = used.map, used.doc <= w.doc,
           NEW de, \A o \in 1..used.doc : docs[o].shared => de[o].shared,
           Shape(b, w, de), Current(b, databases, Tables)
    PROVE  /\ CatalogOK(databases, Tables, w) /\ QueriesOK(q', w, de, databases, Tables)
           /\ \A r \in Session : q'[r] = IF r = s THEN b ELSE q[r]
<1>1. q' \in [Session -> Query] /\ \A r \in Session : q'[r] = IF r = s THEN b ELSE q[r]
  BY DEF EvalInv, QueriesOK, SetQ
<1>2. CatalogOK(databases, Tables, w)
  BY DEF EvalInv, CatalogOK
<1>3. used.db <= w.db /\ used.table <= w.table /\ used.map <= w.map /\ used.doc <= w.doc /\ used \in Counts
  <2>1. used \in Counts
    BY DEF EvalInv, CatalogOK
  <2> QED
    BY <2>1, CountFields
<1>4. ASSUME NEW r \in Session PROVE Shape(q'[r], w, de) /\ Current(q'[r], databases, Tables)
  <2>1. CASE r = s
    BY <1>1, <2>1
  <2>2. CASE r # s
    <3>1. q[r] \in Query /\ Shape(q[r], used, docs) /\ Current(q[r], databases, Tables)
      BY QueryOf
    <3>2. Shape(q[r], w, de)
      BY <1>3, <3>1, ShapeKept
    <3> QED
      BY <1>1, <2>2, <3>1, <3>2
  <2> QED
    BY <2>1, <2>2
<1> QED
  BY <1>1, <1>2, <1>4 DEF QueriesOK

\* Storing a document in the map of a table.
LEMMA PutKeeps ==
    ASSUME EvalInv, NEW T \in 1..MaxTable, T <= used.table, NEW k \in AnyKey,
           NEW o \in 1..MaxDoc, o <= used.doc,
           OnlyAt(Data, maps, docs, q, T, k, o), maps' = Entered(maps, Data[T], k, o)
    PROVE  /\ StoreOK(Data, maps', docs, used) /\ HomeOK(Data, maps', docs, q)
           /\ AckOK(acked, databases, Tables, Data, maps')
           /\ \A m \in 1..MaxMap, l \in AnyKey : maps'[m][l] = o \/ maps'[m][l] = maps[m][l]
           /\ maps'[Data[T]][k] = o
<1>1. maps \in [1..MaxMap -> [AnyKey -> 0..MaxDoc]] /\ o \in 0..MaxDoc
  BY DEF EvalInv, StoreOK
<1>2. Data[T] \in 1..MaxMap
  <2>1. used.table \in Nat /\ Data[T] \in 0..MaxMap
    BY CountFields DEF EvalInv, StoreOK
  <2> QED
    BY <2>1 DEF EvalInv, StoreOK
<1>3. Changed2(1..MaxMap, AnyKey, 0..MaxDoc, maps, maps', Data[T], k, o)
  BY <1>1, <1>2, EntryIs
<1>4. StoreOK(Data, maps', docs, used) /\ HomeOK(Data, maps', docs, q)
  BY <1>3, PutDocOK DEF EvalInv
<1>5. \A m \in 1..MaxMap, l \in AnyKey :
            maps'[m][l] = IF m = Data[T] /\ l = k THEN o ELSE maps[m][l]
  BY <1>3 DEF Changed2
<1>6. ASSUME NEW a \in acked
      PROVE  LET x == Now(databases, Tables, a[1], a[2]) IN x # 0 /\ maps'[Data[x]][a[3]] # 0
  <2> DEFINE x == Now(databases, Tables, a[1], a[2])
  <2>1. a[1] \in Db /\ a[2] \in Tab /\ a[3] \in AnyKey /\ x # 0 /\ maps[Data[x]][a[3]] # 0
    BY DEF EvalInv, AckOK
  <2>2. x \in 1..MaxTable /\ x <= used.table
    <3>1. x \in 0..MaxTable /\ x <= used.table
      BY <2>1, NowType DEF EvalInv
    <3> QED
      BY <2>1, <3>1
  <2> HIDE DEF x
  <2>3. Data[x] \in 1..MaxMap
    <3>1. used.table \in Nat /\ Data[x] \in 0..MaxMap
      BY <2>2, CountFields DEF EvalInv, StoreOK
    <3> QED
      BY <2>2, <3>1 DEF EvalInv, StoreOK
  <2>4. maps'[Data[x]][a[3]] # 0
    BY <1>5, <2>1, <2>3
  <2> QED
    BY <2>1, <2>4 DEF x
<1>7. AckOK(acked, databases, Tables, Data, maps')
  BY <1>6 DEF EvalInv, AckOK
<1> QED
  BY <1>2, <1>4, <1>5, <1>7

LEMMA ToStoreIs ==
    ASSUME NEW c \in Query, NEW k \in AnyKey, NEW o \in 0..MaxDoc
    PROVE  LET b == ToStore(c, k, o) IN
           /\ b \in Query /\ b.stage = "write" /\ b.doc = o /\ b.key = k
           /\ b.kind = c.kind /\ b.db = c.db /\ b.tab = c.tab
           /\ b.dbo = c.dbo /\ b.table = c.table /\ b.map = c.map
           /\ b.dropped = c.dropped
BY DEF Query, ToStore

\* The documents that maps hold exist.
LEMMA HeldDocs ==
    ASSUME EvalInv, NEW o \in Held
    PROVE  o \in 1..MaxDoc /\ o <= used.doc
<1>1. PICK m \in 1..MaxMap, k \in AnyKey : o = maps[m][k] /\ o # 0
  BY DEF Held
<1>2. maps[m][k] \in 0..MaxDoc /\ maps[m][k] <= used.doc
  BY DEF EvalInv, StoreOK
<1> QED
  BY <1>1, <1>2

\* A query has got the object that it will store: a new one, or one that a map
\* holds and that counts as shared from now on.
Given(o, w, de) ==
    /\ w \in Counts /\ w.db = used.db /\ w.table = used.table /\ w.map = used.map
    /\ used.doc <= w.doc /\ o \in 1..MaxDoc /\ o <= w.doc
    /\ StoreOK(Data, maps, de, w) /\ HomeOK(Data, maps, de, q) /\ FreshOK(maps, de, q)
    /\ \A x \in 1..used.doc : docs[x].shared => de[x].shared

LEMMA NewIsGiven ==
    ASSUME EvalInv, NEW v \in Value, NEW sh \in BOOLEAN, NewDoc(v, sh)
    PROVE  /\ Given(used.doc + 1, used', docs') /\ docs'[used.doc + 1].shared = sh
           /\ \A m \in 1..MaxMap, k \in AnyKey : maps[m][k] # used.doc + 1
<1> DEFINE n == used.doc + 1
           e == [val |-> v, shared |-> sh]
<1>1. used \in Counts /\ used.doc < MaxDoc /\ docs \in [1..MaxDoc -> Document]
  BY DEF EvalInv, StoreOK, NewDoc
<1>2. used.doc \in Nat /\ n \in 1..MaxDoc /\ \A x \in 1..used.doc : x \in 1..MaxDoc /\ x # n
  BY <1>1, CountFields
<1>3. /\ used' \in Counts /\ used'.db = used.db /\ used'.table = used.table
      /\ used'.map = used.map /\ used'.doc = n
  BY <1>1, CountDoc DEF NewDoc
<1>4. e \in Document /\ e.shared = sh /\ docs' = [docs EXCEPT ![n] = e]
  BY DEF Document, NewDoc
<1> HIDE DEF e
<1>5. /\ docs' \in [1..MaxDoc -> Document] /\ \A x \in 1..used.doc : docs'[x] = docs[x]
      /\ docs'[n] = e
  BY <1>1, <1>2, <1>4
<1>6. /\ StoreOK(Data, maps, docs', used') /\ HomeOK(Data, maps, docs', q)
      /\ \A x \in 1..used.doc : docs[x].shared => docs'[x].shared
      /\ \A m \in 1..MaxMap, k \in AnyKey : maps[m][k] # n
  BY <1>1, <1>3, <1>5, NewDocOK DEF EvalInv
<1>7. FreshOK(maps, docs', q)
  BY <1>6, FreshKept
<1>8. used.doc <= used'.doc /\ n <= used'.doc
  BY <1>2, <1>3
<1> QED
  BY <1>2, <1>3, <1>4, <1>5, <1>6, <1>7, <1>8 DEF Given

LEMMA SharedIsGiven ==
    ASSUME EvalInv, NEW o \in Held, Share(o)
    PROVE  Given(o, used', docs') /\ docs'[o].shared
<1> DEFINE e == [docs[o] EXCEPT !.shared = TRUE]
<1>1. used \in Counts /\ docs \in [1..MaxDoc -> Document] /\ used' = used
  BY DEF EvalInv, StoreOK, Share
<1>2. o \in 1..MaxDoc /\ o <= used.doc /\ used.doc \in 0..MaxDoc
  BY <1>1, HeldDocs, CountFields
<1>3. e \in Document /\ e.shared = TRUE
  BY <1>1, <1>2 DEF Document
<1>4. docs' = [docs EXCEPT ![o] = e]
  BY DEF Share
<1> HIDE DEF e
<1>5. docs' \in [1..MaxDoc -> Document] /\ docs'[o] = e
      /\ \A x \in 1..MaxDoc : x # o => docs'[x] = docs[x]
  BY <1>1, <1>2, <1>3, <1>4
<1>6. ASSUME NEW x \in 1..used.doc, docs[x].shared PROVE docs'[x].shared
  <2>1. x \in 1..MaxDoc
    BY <1>2
  <2>2. CASE x = o
    BY <1>3, <1>5, <2>2
  <2>3. CASE x # o
    BY <1>5, <1>6, <2>1, <2>3
  <2> QED
    BY <2>2, <2>3
<1>7. StoreOK(Data, maps, docs', used')
  BY <1>1, <1>5 DEF EvalInv, StoreOK
<1>8. HomeOK(Data, maps, docs', q)
  BY <1>6, SharedKept DEF EvalInv
<1>9. FreshOK(maps, docs', q)
  BY <1>6, FreshKept
<1>10. used.doc <= used.doc /\ docs'[o].shared
  BY <1>2, <1>3, <1>5
<1> QED
  BY <1>1, <1>2, <1>6, <1>7, <1>8, <1>9, <1>10 DEF Given

\* An insertion has its object and its key.
LEMMA ToStoreKeeps ==
    ASSUME EvalInv, NEW s \in Session, q[s].kind = "insert", q[s].stage = "run",
           UNCHANGED <<databases, Tables, Data, maps, acked>>,
           NEW k \in AnyKey, NEW o, Given(o, used', docs'), SetQ(s, ToStore(q[s], k, o)),
           docs'[o].shared \/ o = used.doc + 1
    PROVE  EvalInv'
<1> DEFINE c == q[s]
           b == ToStore(c, k, o)
<1>1. /\ c \in Query /\ Shape(c, used, docs) /\ Current(c, databases, Tables) /\ used \in Counts
  BY QueryOf
<1>2. /\ used' \in Counts /\ used'.db = used.db /\ used'.table = used.table
      /\ used'.map = used.map /\ used.doc <= used'.doc
      /\ o \in 1..MaxDoc /\ o <= used'.doc
      /\ StoreOK(Data, maps, docs', used') /\ HomeOK(Data, maps, docs', q) /\ FreshOK(maps, docs', q)
      /\ \A x \in 1..used.doc : docs[x].shared => docs'[x].shared
  BY DEF Given
<1>3. c.table \in 1..MaxTable /\ c.table <= used.table /\ Data[c.table] \in 1..MaxMap
  BY TableOf DEF OnCatalog
<1>4. /\ b \in Query /\ b.stage = "write" /\ b.doc = o /\ b.key = k
      /\ b.kind = c.kind /\ b.db = c.db /\ b.tab = c.tab
      /\ b.dbo = c.dbo /\ b.table = c.table /\ b.map = c.map
      /\ b.dropped = c.dropped
  <2>1. o \in 0..MaxDoc
    BY <1>2
  <2> HIDE DEF c
  <2> QED
    BY <1>1, <2>1, ToStoreIs
<1>5. SetQ(s, b) /\ c.kind = "insert" /\ k # NoKey
  BY DEF AnyKey
<1> HIDE DEF b, c
<1>6. Shape(b, used', docs')
  <2>1. b.dbo <= used'.db /\ b.table <= used'.table /\ b.map <= used'.map
    BY <1>1, <1>2, <1>4 DEF Shape
  <2>2. b.doc <= used'.doc /\ b.doc # 0
    BY <1>2, <1>4
  <2>3. b.kind \notin OnCatalog /\ b.kind \notin OnDoc /\ b.table # 0
    BY <1>3, <1>4, <1>5 DEF OnCatalog, OnDoc
  <2> QED
    BY <1>4, <1>5, <2>1, <2>2, <2>3 DEF Shape
<1>7. Current(b, databases, Tables)
  BY <1>1, <1>4, Zenon DEF Current
<1>8. /\ CatalogOK(databases, Tables, used') /\ QueriesOK(q', used', docs', databases, Tables)
      /\ \A r \in Session : q'[r] = IF r = s THEN b ELSE q[r]
  BY <1>2, <1>4, <1>5, <1>6, <1>7, OthersOK
<1>9. HomeOK(Data, maps, docs', q')
  <2>1. \A m, p : Holds(Data, q', m, p) => Holds(Data, q, m, p)
    BY <1>4, <1>8 DEF Holds
  <2> QED
    BY <1>2, <2>1, HomeKept
<1>10. used.doc \in Nat
  BY <1>1, CountFields
<1>11. FreshOK(maps, docs', q')
  <2>1. ASSUME NEW r \in Session PROVE q[r].doc # used.doc + 1
    <3>1. q[r].doc \in 0..MaxDoc /\ q[r].doc <= used.doc
      BY QueryOf, QueryFields DEF Shape
    <3> QED
      BY <1>10, <3>1
  <2>2. \A m \in 1..MaxMap, l \in AnyKey : maps[m][l] # used.doc + 1
    <3>1. \A m \in 1..MaxMap, l \in AnyKey : maps[m][l] \in Nat /\ maps[m][l] <= used.doc
      BY DEF EvalInv, StoreOK
    <3> QED
      BY <1>10, <3>1
  <2>3. ASSUME NEW r \in Session, Pending(q'[r]), ~docs'[q'[r].doc].shared,
               NEW m \in 1..MaxMap, NEW l \in AnyKey
        PROVE  maps[m][l] # q'[r].doc
    <3>1. CASE r = s
      <4>1. q'[r].doc = used.doc + 1
        BY <1>4, <1>8, <2>3, <3>1
      <4> QED
        BY <2>2, <4>1
    <3>2. CASE r # s
      <4>1. q'[r] = q[r]
        BY <1>8, <3>2
      <4> QED
        BY <1>2, <2>3, <4>1 DEF FreshOK
    <3> QED
      BY <3>1, <3>2
  <2>4. ASSUME NEW r \in Session, NEW x \in Session, Pending(q'[r]), Pending(q'[x]),
               q'[r].doc = q'[x].doc, r # x, ~docs'[q'[r].doc].shared
        PROVE  FALSE
    <3>1. CASE r = s \/ x = s
      <4>1. q'[s].doc = o
        BY <1>4, <1>8
      <4>2. o = used.doc + 1
        BY <2>4, <3>1, <4>1
      <4>3. q[r].doc = o \/ q[x].doc = o
        BY <1>8, <2>4, <3>1, <4>1
      <4> QED
        BY <2>1, <4>2, <4>3
    <3>2. CASE r # s /\ x # s
      <4>1. q'[r] = q[r] /\ q'[x] = q[x]
        BY <1>8, <3>2
      <4> QED
        BY <1>2, <2>4, <4>1 DEF FreshOK
    <3> QED
      BY <3>1, <3>2
  <2> QED
    BY <2>3, <2>4 DEF FreshOK
<1> QED
  BY <1>2, <1>8, <1>9, <1>11 DEF EvalInv

LEMMA evalInsertKeeps ==
    ASSUME EvalInv, NEW s \in Session, evalInsert(s)
    PROVE  EvalInv'
<1> DEFINE c == q[s]
           auto == AutoId(Data[c.table])
<1>1. /\ c.kind = "insert" /\ c.stage = "run"
      /\ UNCHANGED <<databases, Tables, Data, maps, acked>>
  BY DEF evalInsert, Running
<1>2. c.key \in AnyKey \cup {NoKey} /\ c.val \in Value
  BY QueryOf, QueryFields
<1>3. CASE /\ c.key # NoKey
           /\ NewDoc(c.val, FALSE) /\ SetQ(s, ToStore(c, c.key, used.doc + 1))
  <2>1. Given(used.doc + 1, used', docs') /\ c.key \in AnyKey
    BY <1>2, <1>3, NewIsGiven
  <2> QED
    BY <1>1, <1>3, <2>1, ToStoreKeeps
<1>4. CASE /\ c.key = NoKey /\ auto \in 1..MaxAuto
           /\ NewDoc(c.val, FALSE) /\ SetQ(s, ToStore(c, auto, used.doc + 1))
  <2>1. Given(used.doc + 1, used', docs') /\ auto \in AnyKey
    BY <1>2, <1>4, NewIsGiven DEF AnyKey
  <2> QED
    BY <1>1, <1>4, <2>1, ToStoreKeeps
<1>5. ASSUME NEW o \in Held, NEW k \in AnyKey, Share(o), SetQ(s, ToStore(c, k, o))
      PROVE  EvalInv'
  <2>1. Given(o, used', docs') /\ docs'[o].shared
    BY <1>5, SharedIsGiven
  <2> QED
    BY <1>1, <1>5, <2>1, ToStoreKeeps
<1> QED
  BY <1>3, <1>4, <1>5 DEF evalInsert

LEMMA InsertStoresKeeps ==
    ASSUME EvalInv, NEW s \in Session, InsertStores(s)
    PROVE  EvalInv'
<1> DEFINE c == q[s]
<1>1. /\ c \in Query /\ Shape(c, used, docs) /\ Current(c, databases, Tables) /\ used \in Counts
      /\ c.db \in Db /\ c.tab \in Tab
  BY QueryOf
<1>2. Pending(c) /\ UNCHANGED <<databases, Tables, Data, docs, used>>
  BY DEF InsertStores, Pending
<1>3. c.table \in 1..MaxTable /\ c.table <= used.table /\ Data[c.table] \in 1..MaxMap
  BY <1>2, TableOf DEF OnCatalog, Pending
<1>4. c.key \in AnyKey /\ c.doc \in 1..MaxDoc /\ c.doc <= used.doc
  BY <1>1, <1>2, QueryFields DEF Shape, Pending
<1>6. OnlyAt(Data, maps, docs, q, c.table, c.key, c.doc)
  BY <1>2 DEF OnlyAt, EvalInv, FreshOK
<1>7. maps' = Entered(maps, Data[c.table], c.key, c.doc)
  BY DEF InsertStores, Stored, Entered
<1>8. acked' = IF c.dropped THEN acked ELSE acked \cup {<<c.db, c.tab, c.key>>}
  BY DEF InsertStores
<1>9. Returns(s)
  BY DEF InsertStores
<1> HIDE DEF c
<1>10. /\ StoreOK(Data, maps', docs, used) /\ HomeOK(Data, maps', docs, q)
       /\ AckOK(acked, databases, Tables, Data, maps')
       /\ \A m \in 1..MaxMap, l \in AnyKey : maps'[m][l] = c.doc \/ maps'[m][l] = maps[m][l]
       /\ maps'[Data[c.table]][c.key] = c.doc
  BY <1>3, <1>4, <1>6, <1>7, PutKeeps
<1>11. q' \in [Session -> Query] /\ \A r \in Session : q'[r] = IF r = s THEN Idle ELSE q[r]
  BY <1>9, IdleIs DEF Returns, SetQ, EvalInv, QueriesOK
<1>12. QueriesOK(q', used, docs, databases, Tables)
  BY <1>1, <1>11, IdleOK DEF EvalInv, QueriesOK
<1>13. ~Pending(Idle) /\ Idle.stage # "round"
  BY IdleIs DEF Pending
<1>14. HomeOK(Data, maps', docs, q')
  <2>1. \A m, o : Holds(Data, q', m, o) => Holds(Data, q, m, o)
    BY <1>11, <1>13 DEF Holds
  <2> QED
    BY <1>10, <2>1, HomeKept
<1>16. FreshOK(maps', docs, q')
  <2>1. ASSUME NEW r \in Session, Pending(q'[r])
        PROVE  q'[r] = q[r] /\ r # s /\ Pending(q[r])
    BY <1>11, <1>13, <2>1
  <2>2. ASSUME NEW r \in Session, Pending(q'[r]), ~docs[q'[r].doc].shared,
               NEW m \in 1..MaxMap, NEW l \in AnyKey
        PROVE  maps'[m][l] # q'[r].doc
    <3>1. maps[m][l] # q[r].doc
      BY <2>1, <2>2 DEF EvalInv, FreshOK
    <3>2. q[r].doc # c.doc
      BY <1>2, <2>1, <2>2 DEF EvalInv, FreshOK, c
    <3> QED
      BY <1>10, <2>1, <2>2, <3>1, <3>2
  <2>3. \A r, x \in Session : Pending(q'[r]) /\ Pending(q'[x]) /\ q'[r].doc = q'[x].doc =>
            r = x \/ docs[q'[r].doc].shared
    BY <2>1 DEF EvalInv, FreshOK
  <2> QED
    BY <2>2, <2>3 DEF FreshOK
<1>17. AckOK(acked', databases, Tables, Data, maps')
  <2>1. CASE c.dropped
    BY <1>8, <1>10, <2>1
  <2>2. CASE ~c.dropped
    <3> DEFINE e == <<c.db, c.tab, c.key>>
    <3>1. Now(databases, Tables, c.db, c.tab) = c.table /\ c.table # 0
      BY <1>1, <1>3, <2>2 DEF Current
    <3>2. e \in Db \X Tab \X AnyKey /\ e[1] = c.db /\ e[2] = c.tab /\ e[3] = c.key
      BY <1>1, <1>4
    <3>3. c.doc # 0
      BY <1>4
    <3> HIDE DEF e
    <3>4. Now(databases, Tables, e[1], e[2]) # 0
          /\ maps'[Data[Now(databases, Tables, e[1], e[2])]][e[3]] # 0
      BY <1>10, <3>1, <3>2, <3>3
    <3>5. acked' = acked \cup {e}
      BY <1>8, <2>2 DEF e
    <3> QED
      BY <1>10, <3>2, <3>4, <3>5 DEF AckOK
  <2> QED
    BY <2>1, <2>2
<1> QED
  BY <1>2, <1>10, <1>12, <1>14, <1>16, <1>17 DEF EvalInv

\* An update in place.
Rewritten(dc, o, v) == [dc EXCEPT ![o].val = v]

LEMMA RewrittenIs ==
    ASSUME NEW dc \in [1..MaxDoc -> Document], NEW o \in 1..MaxDoc, NEW v \in Value
    PROVE  /\ Rewritten(dc, o, v) \in [1..MaxDoc -> Document]
           /\ \A x \in 1..MaxDoc : Rewritten(dc, o, v)[x].shared = dc[x].shared
<1> DEFINE e == [dc[o] EXCEPT !.val = v]
<1>1. e \in Document /\ e.shared = dc[o].shared
  BY DEF Document
<1>2. Rewritten(dc, o, v) = [dc EXCEPT ![o] = e]
  BY DEF Rewritten
<1> HIDE DEF e
<1> QED
  BY <1>1, <1>2

\* It is no matter for the store, whatever is stored.
LEMMA RewriteKeeps ==
    ASSUME NEW dt, NEW mp, NEW dc, NEW u, NEW qq, StoreOK(dt, mp, dc, u), HomeOK(dt, mp, dc, qq),
           NEW o \in 1..MaxDoc, NEW v \in Value
    PROVE  /\ StoreOK(dt, mp, Rewritten(dc, o, v), u) /\ HomeOK(dt, mp, Rewritten(dc, o, v), qq)
           /\ \A x \in 1..u.doc : dc[x].shared => Rewritten(dc, o, v)[x].shared
<1>1. dc \in [1..MaxDoc -> Document] /\ u.doc \in 0..MaxDoc
  BY CountFields DEF StoreOK
<1>2. /\ Rewritten(dc, o, v) \in [1..MaxDoc -> Document]
      /\ \A x \in 1..MaxDoc : Rewritten(dc, o, v)[x].shared = dc[x].shared
  BY <1>1, RewrittenIs
<1>3. \A x \in 1..u.doc : x \in 1..MaxDoc
  BY <1>1
<1>4. \A x \in 1..u.doc : dc[x].shared => Rewritten(dc, o, v)[x].shared
  BY <1>2, <1>3, Zenon
<1>5. StoreOK(dt, mp, Rewritten(dc, o, v), u)
  BY <1>2 DEF StoreOK
<1> QED
  BY <1>4, <1>5, SharedKept

LEMMA UpdateOneKeeps ==
    ASSUME EvalInv, NEW s \in Session, UpdateOne(s)
    PROVE  EvalInv'
<1> DEFINE c == q[s]
<1>1. c \in Query /\ Shape(c, used, docs) /\ used \in Counts
  BY QueryOf
<1>2. c.stage = "write" /\ Returns(s) /\ UNCHANGED <<databases, Tables, Data, maps, used, acked>>
  BY DEF UpdateOne
<1>3. docs' = Rewritten(docs, c.doc, c.val)
  BY DEF UpdateOne, Rewritten
<1>4. c.doc \in 1..MaxDoc /\ c.val \in Value
  BY <1>1, <1>2, QueryFields DEF Shape
<1> HIDE DEF c
<1>5. /\ StoreOK(Data, maps, docs', used) /\ HomeOK(Data, maps, docs', q)
      /\ \A x \in 1..used.doc : docs[x].shared => docs'[x].shared
  BY <1>3, <1>4, RewriteKeeps DEF EvalInv
<1>6. SetQ(s, Idle) /\ Idle \in Query /\ Shape(Idle, used, docs') /\ Current(Idle, databases, Tables) /\ Quiet(Idle)
  BY <1>1, <1>2, IdleIs, IdleOK DEF Returns
<1>7. /\ CatalogOK(databases, Tables, used) /\ QueriesOK(q', used, docs', databases, Tables)
      /\ \A r \in Session : q'[r] = IF r = s THEN Idle ELSE q[r]
  <2>1. used.doc <= used.doc
    BY <1>1, CountFields
  <2> QED
    BY <1>1, <1>5, <1>6, <2>1, OthersOK
<1>8. \A r \in Session : Quiet(q'[r]) \/ SameWork(q'[r], q[r])
  BY <1>6, <1>7 DEF SameWork
<1>9. HomeOK(Data, maps, docs', q') /\ FreshOK(maps, docs', q')
  <2>1. FreshOK(maps, docs', q)
    BY <1>5, FreshKept
  <2> QED
    BY <1>5, <1>8, <2>1, WorkKept
<1> QED
  BY <1>2, <1>5, <1>7, <1>9 DEF EvalInv

LEMMA SweepIs ==
    ASSUME NEW c \in Query, NEW m \in 0..MaxMap, NEW o \in 0..MaxDoc
    PROVE  LET b == Sweep(c, m, o) IN
           /\ b \in Query /\ b.stage = "round" /\ b.doc = o /\ b.map = m
           /\ b.kind = c.kind /\ b.db = c.db /\ b.tab = c.tab /\ b.key = c.key
           /\ b.dbo = c.dbo /\ b.table = c.table
           /\ b.dropped = c.dropped
<1>1. KeysOf(m) \in SUBSET AnyKey
  BY DEF KeysOf
<1> QED
  BY <1>1 DEF Query, Sweep

\* A sweep goes through the map that its table has when it begins.
LEMMA SweepStarts ==
    ASSUME EvalInv, NEW s \in Session, q[s].kind \in {"updateAll", "replaceAll"},
           q[s].stage = "run", UNCHANGED <<databases, Tables, Data, maps, acked>>,
           NEW o \in 0..MaxDoc, o <= used'.doc, SetQ(s, Sweep(q[s], Data[q[s].table], o)),
           used' \in Counts, used'.db = used.db, used'.table = used.table,
           used'.map = used.map, used.doc <= used'.doc,
           StoreOK(Data, maps, docs', used'), HomeOK(Data, maps, docs', q),
           FreshOK(maps, docs', q),
           \A x \in 1..used.doc : docs[x].shared => docs'[x].shared,
           q[s].kind = "replaceAll" => o # 0 /\ docs'[o].shared
    PROVE  EvalInv'
<1> DEFINE c == q[s]
           m == Data[c.table]
           b == Sweep(c, m, o)
<1>1. /\ c \in Query /\ Shape(c, used, docs) /\ Current(c, databases, Tables) /\ used \in Counts
  BY QueryOf
<1>2. /\ c.kind \in {"updateAll", "replaceAll"} /\ c.stage = "run"
      /\ UNCHANGED <<databases, Tables, Data, maps, acked>> /\ SetQ(s, b)
  OBVIOUS
<1>3. c.table \in 1..MaxTable /\ c.table <= used.table /\ m \in 1..MaxMap /\ m <= used.map
  BY <1>2, TableOf DEF OnCatalog
<1>5. /\ used' \in Counts /\ used'.db = used.db /\ used'.table = used.table
      /\ used'.map = used.map /\ used.doc <= used'.doc
      /\ o \in 0..MaxDoc /\ o <= used'.doc
      /\ StoreOK(Data, maps, docs', used') /\ HomeOK(Data, maps, docs', q)
      /\ \A x \in 1..used.doc : docs[x].shared => docs'[x].shared
      /\ c.kind = "replaceAll" => o # 0 /\ docs'[o].shared
  OBVIOUS
<1>6. /\ b \in Query /\ b.stage = "round" /\ b.doc = o /\ b.map = m
      /\ b.kind = c.kind /\ b.db = c.db /\ b.tab = c.tab /\ b.key = c.key
      /\ b.dbo = c.dbo /\ b.table = c.table
      /\ b.dropped = c.dropped
  <2>1. m \in 0..MaxMap
    BY <1>3
  <2> HIDE DEF c, m
  <2> QED
    BY <1>1, <1>5, <2>1, SweepIs
<1>7. Holds(Data, q, m, c.table)
  BY DEF Holds
<1> HIDE DEF b, c, m
<1>8. Shape(b, used', docs')
  <2>1. b.dbo <= used'.db /\ b.table <= used'.table /\ b.map <= used'.map /\ b.doc <= used'.doc
    BY <1>1, <1>3, <1>5, <1>6 DEF Shape
  <2>2. b.kind \notin OnCatalog /\ b.kind \notin OnDoc /\ b.table # 0 /\ b.map # 0
    BY <1>2, <1>3, <1>6 DEF OnCatalog, OnDoc
  <2>3. b.kind = "replaceAll" => b.doc # 0 /\ docs'[b.doc].shared
    BY <1>5, <1>6
  <2> QED
    BY <1>2, <1>6, <2>1, <2>2, <2>3 DEF Shape, Pending
<1>9. Current(b, databases, Tables)
  BY <1>1, <1>6, Zenon DEF Current
<1>10. /\ CatalogOK(databases, Tables, used') /\ QueriesOK(q', used', docs', databases, Tables)
       /\ \A r \in Session : q'[r] = IF r = s THEN b ELSE q[r]
  BY <1>2, <1>5, <1>6, <1>8, <1>9, OthersOK
<1>11. HomeOK(Data, maps, docs', q')
  <2>1. ASSUME NEW n \in 1..MaxMap, NEW p \in 1..MaxTable, Holds(Data, q', n, p)
        PROVE  Holds(Data, q, n, p)
    <3>1. CASE Data[p] = n
      BY <3>1 DEF Holds
    <3>2. CASE \E r \in Session : q'[r].stage = "round" /\ q'[r].map = n /\ q'[r].table = p
      <4>1. PICK r \in Session : q'[r].stage = "round" /\ q'[r].map = n /\ q'[r].table = p
        BY <3>2
      <4>2. CASE r = s
        BY <1>6, <1>7, <1>10, <4>1, <4>2
      <4>3. CASE r # s
        BY <1>10, <4>1, <4>3 DEF Holds
      <4> QED
        BY <4>2, <4>3
    <3> QED
      BY <2>1, <3>1, <3>2 DEF Holds
  <2> QED
    BY <1>5, <2>1, HomeKept
<1>12. ~Pending(b)
  BY <1>6 DEF Pending
<1>13. FreshOK(maps, docs', q')
  BY <1>10, <1>12 DEF FreshOK
<1> QED
  BY <1>2, <1>5, <1>10, <1>11, <1>13 DEF EvalInv

\* Nothing is given to an UPDATE; REPLACE has a document that is shared.
LEMMA SweepBeginsKeeps ==
    ASSUME EvalInv, NEW s \in Session, SweepBegins(s)
    PROVE  EvalInv'
<1> DEFINE c == q[s]
           m == Data[c.table]
<1>1. /\ c.kind \in {"updateAll", "replaceAll"} /\ c.stage = "run"
      /\ UNCHANGED <<databases, Tables, Data, maps, acked>>
  BY DEF SweepBegins, Running
<1>2. c.val \in Value
  BY QueryOf, QueryFields
<1>3. CASE c.kind = "updateAll" /\ SetQ(s, Sweep(c, m, 0)) /\ UNCHANGED <<docs, used>>
  <2>1. used \in Counts /\ StoreOK(Data, maps, docs, used) /\ HomeOK(Data, maps, docs, q)
        /\ FreshOK(maps, docs, q)
    BY DEF EvalInv, CatalogOK
  <2>2. used.doc \in Nat /\ 0 <= used.doc /\ used.doc <= used.doc /\ 0 \in 0..MaxDoc
    BY <2>1, CountFields
  <2> QED
    BY <1>1, <1>3, <2>1, <2>2, SweepStarts
<1>4. ASSUME NEW o, c.kind = "replaceAll", Given(o, used', docs'), docs'[o].shared,
             SetQ(s, Sweep(c, m, o))
      PROVE  EvalInv'
  <2>1. o \in 0..MaxDoc /\ o # 0
    BY <1>4 DEF Given
  <2> QED
    BY <1>1, <1>4, <2>1, SweepStarts DEF Given
<1>5. CASE c.kind = "replaceAll" /\ NewDoc(c.val, TRUE) /\ SetQ(s, Sweep(c, m, used.doc + 1))
  <2>1. Given(used.doc + 1, used', docs') /\ docs'[used.doc + 1].shared
    BY <1>2, <1>5, NewIsGiven
  <2> QED
    BY <1>4, <1>5, <2>1
<1>6. CASE c.kind = "replaceAll" /\ \E o \in Held : Share(o) /\ SetQ(s, Sweep(c, m, o))
  BY <1>4, <1>6, SharedIsGiven
<1> QED
  BY <1>3, <1>5, <1>6 DEF SweepBegins

Saw(c, k) == [c EXCEPT !.seen = @ \cup {k}]

LEMMA SawIs ==
    ASSUME NEW c \in Query, NEW k \in AnyKey
    PROVE  LET b == Saw(c, k) IN
           /\ b \in Query /\ b.stage = c.stage
           /\ b.kind = c.kind /\ b.db = c.db /\ b.tab = c.tab /\ b.key = c.key
           /\ b.dbo = c.dbo /\ b.table = c.table /\ b.map = c.map /\ b.doc = c.doc
           /\ b.dropped = c.dropped
BY DEF Query, Saw

\* A round stores what its table had at the key already, or the document that
\* REPLACE shares.
LEMMA SweepRoundKeeps ==
    ASSUME EvalInv, NEW s \in Session, NEW k \in AnyKey, SweepRound(s, k)
    PROVE  EvalInv'
<1> DEFINE c == q[s]
           o == IF c.kind = "replaceAll" THEN c.doc ELSE maps[c.map][k]
           b == Saw(c, k)
<1>1. /\ c \in Query /\ Shape(c, used, docs) /\ Current(c, databases, Tables) /\ used \in Counts
  BY QueryOf
<1>2. c.stage = "round" /\ UNCHANGED <<databases, Tables, Data, used, acked>> /\ SetQ(s, b)
  BY DEF SweepRound, Saw
<1>3. c.kind \in {"updateAll", "replaceAll"} /\ c.map \in 1..MaxMap /\ c.val \in Value
  BY <1>1, <1>2, QueryFields DEF Shape
<1>4. c.table \in 1..MaxTable /\ c.table <= used.table
  BY <1>2, <1>3, TableOf DEF OnCatalog
<1>5. maps[c.map][k] # 0 /\ maps[c.map][k] \in 0..MaxDoc /\ maps[c.map][k] <= used.doc
  BY <1>3 DEF SweepRound, KeysOf, EvalInv, StoreOK
<1>6. c.kind = "replaceAll" => c.doc \in 1..MaxDoc /\ c.doc <= used.doc /\ docs[c.doc].shared
  BY <1>1, <1>2, QueryFields DEF Shape
<1>7. o \in 1..MaxDoc /\ o <= used.doc
  BY <1>5, <1>6
<1>8. maps' = Entered(maps, Data[c.table], k, o)
  BY DEF SweepRound, RoundDoc, Entered
<1>9. docs' = IF c.kind = "updateAll" THEN Rewritten(docs, o, c.val) ELSE docs
  BY DEF SweepRound, RoundDoc, Rewritten
<1>10. Holds(Data, q, c.map, c.table)
  BY <1>2 DEF Holds
<1>11. o = maps[c.map][k] \/ docs[o].shared
  BY <1>6
<1>12. /\ b \in Query /\ b.stage = c.stage
       /\ b.kind = c.kind /\ b.db = c.db /\ b.tab = c.tab /\ b.key = c.key
       /\ b.dbo = c.dbo /\ b.table = c.table /\ b.map = c.map /\ b.doc = c.doc
       /\ b.dropped = c.dropped
  BY <1>1, SawIs
<1> HIDE DEF b, c, o
<1>13. OnlyAt(Data, maps, docs, q, c.table, k, o)
  <2>1. CASE docs[o].shared
    BY <2>1 DEF OnlyAt
  <2>2. CASE o = maps[c.map][k]
    <3>1. ASSUME NEW n \in 1..MaxMap, NEW p \in 1..MaxTable, NEW l \in AnyKey,
                 Holds(Data, q, n, p), maps[n][l] = o
          PROVE  docs[o].shared \/ (p = c.table /\ l = k)
      <4>1. OneHome(Data, maps, docs, q)
        BY DEF EvalInv, HomeOK
      <4>2. maps[c.map][k] = maps[n][l]
        BY <2>2, <3>1
      <4>3. docs[maps[c.map][k]].shared \/ (c.table = p /\ k = l)
        BY <1>3, <1>4, <1>5, <1>10, <3>1, <4>1, <4>2, HomeOf
      <4> QED
        BY <2>2, <4>3, Zenon
    <3> QED
      BY <3>1, Zenon DEF OnlyAt
  <2> QED
    BY <1>11, <2>1, <2>2
<1>15. /\ StoreOK(Data, maps', docs, used) /\ HomeOK(Data, maps', docs, q)
       /\ AckOK(acked, databases, Tables, Data, maps')
       /\ \A m \in 1..MaxMap, l \in AnyKey : maps'[m][l] = o \/ maps'[m][l] = maps[m][l]
  BY <1>4, <1>7, <1>8, <1>13, PutKeeps
<1>16. /\ StoreOK(Data, maps', docs', used) /\ HomeOK(Data, maps', docs', q)
       /\ \A x \in 1..used.doc : docs[x].shared => docs'[x].shared
  <2>1. CASE c.kind = "updateAll"
    <3>1. docs' = Rewritten(docs, o, c.val)
      BY <1>9, <2>1
    <3> QED
      BY <1>3, <1>7, <1>15, <3>1, RewriteKeeps
  <2>2. CASE c.kind # "updateAll"
    BY <1>9, <1>15, <2>2
  <2> QED
    BY <2>1, <2>2
<1>17. SameWork(b, c) /\ Shape(b, used, docs) /\ Current(b, databases, Tables)
  <2>1. SameWork(b, c) /\ Shape(b, used, docs)
    BY <1>1, <1>12 DEF SameWork, Shape, Pending
  <2>2. Current(b, databases, Tables)
    BY <1>1, <1>12, Zenon DEF Current
  <2> QED
    BY <2>1, <2>2
<1>18. used.db <= used.db /\ used.table <= used.table /\ used.map <= used.map /\ used.doc <= used.doc
  BY <1>1, CountFields
<1>19. Shape(b, used, docs')
  BY <1>1, <1>12, <1>16, <1>17, <1>18, ShapeKept
<1>20. /\ CatalogOK(databases, Tables, used) /\ QueriesOK(q', used, docs', databases, Tables)
       /\ \A r \in Session : q'[r] = IF r = s THEN b ELSE q[r]
  BY <1>1, <1>2, <1>12, <1>16, <1>17, <1>18, <1>19, OthersOK
<1>21. FreshOK(maps, docs', q)
  BY <1>16, FreshKept
<1>22. FreshOK(maps', docs', q)
  <2>1. ASSUME NEW r \in Session, Pending(q[r]), ~docs'[q[r].doc].shared
        PROVE  q[r].doc # o
    <3>1. q[r].doc # maps[c.map][k]
      BY <1>3, <1>21, <2>1 DEF FreshOK
    <3>2. docs[o].shared => docs'[o].shared
      BY <1>7, <1>16
    <3> QED
      BY <1>11, <2>1, <3>1, <3>2
  <2>2. ASSUME NEW r \in Session, Pending(q[r]), ~docs'[q[r].doc].shared,
               NEW m \in 1..MaxMap, NEW l \in AnyKey
        PROVE  maps'[m][l] # q[r].doc
    <3>1. maps[m][l] # q[r].doc
      BY <1>21, <2>2 DEF FreshOK
    <3> QED
      BY <1>15, <2>1, <2>2, <3>1
  <2>3. \A r, x \in Session : Pending(q[r]) /\ Pending(q[x]) /\ q[r].doc = q[x].doc =>
            r = x \/ docs'[q[r].doc].shared
    BY <1>21 DEF FreshOK
  <2> QED
    BY <2>2, <2>3 DEF FreshOK
<1>23. \A r \in Session : Quiet(q'[r]) \/ SameWork(q'[r], q[r])
  BY <1>17, <1>20 DEF SameWork, c
<1>24. HomeOK(Data, maps', docs', q') /\ FreshOK(maps', docs', q')
  BY <1>16, <1>22, <1>23, WorkKept
<1> QED
  BY <1>2, <1>15, <1>16, <1>20, <1>24 DEF EvalInv

-----------------------------------------------------------------------------
(* The theorems.                                                           *)

LEMMA StartOK == Init => EvalInv
<1> SUFFICES ASSUME Init PROVE EvalInv
  OBVIOUS
<1>1. /\ databases = [d \in Db |-> IF d = DefaultDb THEN 1 ELSE 0]
      /\ Tables = [o \in 1..MaxDb |-> [t \in Tab |-> 0]]
      /\ Data = [o \in 1..MaxTable |-> 0]
      /\ docs = [o \in 1..MaxDoc |-> NoDoc]
      /\ q = [s \in Session |-> Idle] /\ acked = {}
  BY DEF Init
<1>2. used \in Counts /\ used.db = 1 /\ used.table = 0 /\ used.map = 0 /\ used.doc = 0
  <2>1. 1 \in 0..MaxDb /\ 0 \in 0..MaxTable /\ 0 \in 0..MaxMap /\ 0 \in 0..MaxDoc
    OBVIOUS
  <2> QED
    BY <2>1 DEF Init, Counts
<1>3. /\ maps \in [1..MaxMap -> [AnyKey -> 0..MaxDoc]]
      /\ \A m \in 1..MaxMap, k \in AnyKey : maps[m][k] = 0
  <2>1. EmptyMap \in [AnyKey -> 0..MaxDoc] /\ \A k \in AnyKey : EmptyMap[k] = 0
    BY DEF EmptyMap
  <2> QED
    BY <2>1 DEF Init
<1>4. docs \in [1..MaxDoc -> Document]
  <2>1. (CHOOSE v \in Value : TRUE) \in Value
    OBVIOUS
  <2>2. NoDoc \in Document
    BY <2>1 DEF NoDoc, Document
  <2> QED
    BY <1>1, <2>2
<1>5. CatalogOK(databases, Tables, used)
  <2>1. databases \in [Db -> 0..MaxDb] /\ Tables \in [1..MaxDb -> [Tab -> 0..MaxTable]]
    BY <1>1
  <2>2. \A d \in Db : databases[d] <= used.db
    BY <1>1, <1>2
  <2>3. \A d, e \in Db : databases[d] = databases[e] /\ databases[d] # 0 => d = e
    BY <1>1
  <2>4. \A o \in 1..MaxDb, t \in Tab : Tables[o][t] = 0
    BY <1>1
  <2>5. \A o \in 1..MaxDb, t \in Tab : Tables[o][t] <= used.table /\ (Tables[o][t] # 0 => o <= used.db)
    BY <1>2, <2>4
  <2>6. \A o, p \in 1..MaxDb, t, v \in Tab :
            Tables[o][t] = Tables[p][v] /\ Tables[o][t] # 0 => o = p /\ t = v
    BY <2>4
  <2> QED
    BY <1>2, <2>1, <2>2, <2>3, <2>5, <2>6 DEF CatalogOK
<1>6. StoreOK(Data, maps, docs, used)
  <2>1. Data \in [1..MaxTable -> 0..MaxMap] /\ \A o \in 1..MaxTable : Data[o] = 0
    BY <1>1
  <2>2. \A o \in 1..MaxTable : Data[o] <= used.map /\ (Data[o] = 0 <=> o > used.table)
    BY <1>2, <2>1
  <2>3. \A m \in 1..MaxMap, k \in AnyKey :
            maps[m][k] <= used.doc /\ (maps[m][k] # 0 => m <= used.map)
    BY <1>2, <1>3
  <2>4. \A o, p \in 1..MaxTable : Data[o] = Data[p] /\ Data[o] # 0 => o = p
    BY <2>1
  <2> QED
    BY <1>2, <1>3, <1>4, <2>1, <2>2, <2>3, <2>4 DEF StoreOK
<1>7. \A s \in Session : q[s] = Idle
  BY <1>1
<1>8. ~Pending(Idle) /\ Idle.stage # "round"
  BY IdleIs DEF Pending
<1>9. QueriesOK(q, used, docs, databases, Tables)
  BY <1>1, <1>2, IdleIs, IdleOK DEF QueriesOK
<1>11. HomeOK(Data, maps, docs, q)
  <2>1. \A m \in 1..MaxMap, o \in 1..MaxTable : ~Holds(Data, q, m, o)
    <3>1. \A o \in 1..MaxTable : Data[o] = 0
      BY <1>1
    <3> QED
      BY <1>7, <1>8, <3>1 DEF Holds
  <2> QED
    BY <2>1 DEF HomeOK, OneOwner, OneHome
<1>12. FreshOK(maps, docs, q)
  BY <1>7, <1>8 DEF FreshOK
<1>13. AckOK(acked, databases, Tables, Data, maps)
  BY <1>1 DEF AckOK
<1> QED
  BY <1>5, <1>6, <1>9, <1>11, <1>12, <1>13 DEF EvalInv

LEMMA EvalStep == EvalInv /\ [Next]_vars => EvalInv'
<1> SUFFICES ASSUME EvalInv, [Next]_vars PROVE EvalInv'
  OBVIOUS
<1>1. CASE Crash
  <2>1. Init'
    BY <1>1 DEF Crash, Init
  <2>2. Init' => EvalInv'
    BY StartOK, PTL
  <2> QED
    BY <2>1, <2>2
<1>2. ASSUME NEW s \in Session, NEW d \in Db, NEW t \in Tab, NEW k \in Key \cup {NoKey}, NEW v \in Value,
             NEW kind \in OnTable \cup OnDoc, Start(s, kind, d, t, k, v)
      PROVE  EvalInv'
  BY <1>2, StartKeeps
<1>3. ASSUME NEW s \in Session, CatalogStep(s) PROVE EvalInv'
  <2>1. CASE \E d \in Db : evalDBCreate(s, d)
    BY <2>1, evalDBCreateKeeps
  <2>2. CASE \E d \in Db : evalDBDrop(s, d)
    BY <2>2, evalDBDropKeeps
  <2>3. CASE \E d \in Db, kind \in OnCatalog, t \in Tab : FindDatabase(s, kind, d, t)
    BY <2>3, FindDatabaseKeeps
  <2>4. CASE CreateTable(s)
    BY <2>4, CreateTableKeeps
  <2>5. CASE DropTable(s)
    BY <2>5, DropTableKeeps
  <2> QED
    BY <1>3, <2>1, <2>2, <2>3, <2>4, <2>5 DEF CatalogStep
<1>4. ASSUME NEW s \in Session, LookupStep(s) PROVE EvalInv'
  <2>1. CASE LookupDatabase(s) \/ LookupAgain(s)
    BY <2>1, LookupDatabaseKeeps
  <2>2. CASE CreateDatabase(s)
    BY <2>2, CreateDatabaseKeeps
  <2>3. CASE LookupTable(s)
    BY <2>3, LookupTableKeeps
  <2>4. CASE MakeTable(s)
    BY <2>4, MakeTableKeeps
  <2> QED
    BY <1>4, <2>1, <2>2, <2>3, <2>4 DEF LookupStep
<1>5. ASSUME NEW s \in Session, TermStep(s) PROVE EvalInv'
  <2>1. CASE Read(s)
    BY <2>1, ReturnsKeeps DEF Read
  <2>2. CASE DeleteOne(s)
    BY <2>2, ReturnsKeeps DEF DeleteOne
  <2>3. CASE SweepEnds(s)
    BY <2>3, ReturnsKeeps DEF SweepEnds
  <2>4. CASE evalInsert(s)
    BY <2>4, evalInsertKeeps
  <2>5. CASE InsertStores(s)
    BY <2>5, InsertStoresKeeps
  <2>6. CASE evalGet(s)
    BY <2>6, evalGetKeeps
  <2>7. CASE UpdateOne(s)
    BY <2>7, UpdateOneKeeps
  <2>8. CASE SweepBegins(s)
    BY <2>8, SweepBeginsKeeps
  <2>9. CASE DeleteAll(s)
    BY <2>9, DeleteAllKeeps
  <2>10. CASE \E k \in AnyKey : SweepRound(s, k)
    BY <2>10, SweepRoundKeeps
  <2> QED
    BY <1>5, <2>1, <2>2, <2>3, <2>4, <2>5, <2>6, <2>7, <2>8, <2>9, <2>10 DEF TermStep
<1>6. CASE UNCHANGED vars
  BY <1>6 DEF vars, EvalInv
<1> QED
  BY <1>1, <1>2, <1>3, <1>4, <1>5, <1>6 DEF Next

\* Everything that the properties below rest on holds in every state.
THEOREM EvalInvariant == Spec => []EvalInv
<1> QED
  BY StartOK, EvalStep, PTL DEF Spec

LEMMA NowIs ==
    ASSUME NEW d, NEW t
    PROVE  TableNow(d, t) = Now(databases, Tables, d, t)
BY DEF TableNow, Now

\* Every query that has found a table works on the Table that its name stands
\* for, unless that was dropped, and no query meets a nil database that nobody
\* dropped, whatever number of queries create and drop them
\* (GetOrCreateTableDB).
THEOREM OneTableHolds == Spec => []OneTable
<1>1. EvalInv => OneTable
  <2> SUFFICES ASSUME EvalInv PROVE OneTable
    OBVIOUS
  <2>1. TypeOK
    <3>1. /\ databases \in [Db -> 0..MaxDb] /\ Tables \in [1..MaxDb -> [Tab -> 0..MaxTable]]
          /\ used \in Counts
      BY DEF EvalInv, CatalogOK
    <3>2. /\ Data \in [1..MaxTable -> 0..MaxMap] /\ maps \in [1..MaxMap -> [AnyKey -> 0..MaxDoc]]
          /\ docs \in [1..MaxDoc -> Document]
      BY DEF EvalInv, StoreOK
    <3>3. q \in [Session -> Query] /\ acked \subseteq Db \X Tab \X AnyKey
      BY DEF EvalInv, QueriesOK, AckOK
    <3> QED
      BY <3>1, <3>2, <3>3 DEF TypeOK
  <2>2. ASSUME NEW s \in Session, q[s].table # 0
        PROVE  q[s].dropped \/ TableNow(q[s].db, q[s].tab) = q[s].table
    <3>1. Current(q[s], databases, Tables)
      BY QueryOf
    <3> QED
      BY <2>2, <3>1, NowIs, Zenon DEF Current
  <2>3. ASSUME NEW s \in Session, NilDatabase(s) PROVE q[s].dropped
    <3>1. Current(q[s], databases, Tables)
      BY QueryOf
    <3>2. q[s].stage = "again" /\ databases[q[s].db] = 0
      BY <2>3 DEF NilDatabase, InCall
    <3> QED
      BY <3>1, <3>2, Zenon DEF Current
  <2> QED
    BY <2>1, <2>2, <2>3, Zenon DEF OneTable
<1> QED
  BY <1>1, EvalInvariant, PTL

\* A document is found under the key of every reported insertion until its table
\* is dropped or emptied, whatever runs beside the insertion (evalInsert).
THEOREM ReportedKeyIsFoundHolds == Spec => []ReportedKeyIsFound
<1>1. EvalInv => ReportedKeyIsFound
  <2> SUFFICES ASSUME EvalInv, NEW a \in acked
               PROVE  /\ TableNow(a[1], a[2]) # 0
                      /\ a[3] \in KeysOf(Data[TableNow(a[1], a[2])])
    BY DEF ReportedKeyIsFound
  <2>1. a[3] \in AnyKey
    BY DEF EvalInv, AckOK
  <2>2. LET o == Now(databases, Tables, a[1], a[2]) IN o # 0 /\ maps[Data[o]][a[3]] # 0
    BY DEF EvalInv, AckOK
  <2> QED
    BY <2>1, <2>2, NowIs DEF KeysOf
<1> QED
  BY <1>1, EvalInvariant, PTL

\* A document object stands at two keys only when a query asked for it: a REPLACE
\* of a whole table (evalReplace), or an INSERT of what GET found (evalInsert).
THEOREM SharedOnRequestHolds == Spec => []SharedOnRequest
<1>1. EvalInv => SharedOnRequest
  <2> SUFFICES ASSUME EvalInv, NEW d \in Db, NEW e \in Db, NEW t \in Tab, NEW u \in Tab,
                      TableNow(d, t) # 0, TableNow(e, u) # 0,
                      NEW k \in KeysOf(Data[TableNow(d, t)]), NEW l \in KeysOf(Data[TableNow(e, u)]),
                      maps[Data[TableNow(d, t)]][k] = maps[Data[TableNow(e, u)]][l]
               PROVE  docs[maps[Data[TableNow(d, t)]][k]].shared \/ <<d, t, k>> = <<e, u, l>>
    BY DEF SharedOnRequest
  <2> DEFINE o == TableNow(d, t)
             p == TableNow(e, u)
  <2>1. o = Now(databases, Tables, d, t) /\ p = Now(databases, Tables, e, u)
    BY NowIs
  <2>2. o \in 1..MaxTable /\ p \in 1..MaxTable /\ o <= used.table /\ p <= used.table
    <3>1. /\ o \in 0..MaxTable /\ p \in 0..MaxTable /\ o # 0 /\ p # 0
          /\ o <= used.table /\ p <= used.table
      BY <2>1, NowType DEF EvalInv
    <3> QED
      BY <3>1
  <2>3. k \in AnyKey /\ l \in AnyKey /\ maps[Data[o]][k] # 0 /\ maps[Data[o]][k] = maps[Data[p]][l]
    BY DEF KeysOf
  <2>7. (d = e /\ t = u) \/ o # p
    BY <2>1, OneName DEF EvalInv
  <2> HIDE DEF o, p
  <2>4. Data[o] \in 1..MaxMap /\ Data[p] \in 1..MaxMap
    <3>1. used.table \in Nat /\ Data[o] \in 0..MaxMap /\ Data[p] \in 0..MaxMap
      BY <2>2, CountFields DEF EvalInv, StoreOK
    <3>2. \A x \in 1..MaxTable : Data[x] = 0 <=> x > used.table
      BY DEF EvalInv, StoreOK
    <3>3. Data[o] # 0 /\ Data[p] # 0
      BY <2>2, <3>1, <3>2
    <3> QED
      BY <3>1, <3>3
  <2>5. Holds(Data, q, Data[o], o) /\ Holds(Data, q, Data[p], p)
    BY DEF Holds
  <2>8. OneHome(Data, maps, docs, q)
    BY DEF EvalInv, HomeOK
  <2>6. docs[maps[Data[o]][k]].shared \/ (o = p /\ k = l)
    BY <2>2, <2>3, <2>4, <2>5, <2>8, HomeOf
  <2> QED
    BY <2>6, <2>7, Zenon DEF o
<1> QED
  BY <1>1, EvalInvariant, PTL
=============================================================================
