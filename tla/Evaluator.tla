----------------------------- MODULE Evaluator -----------------------------
(***************************************************************************)
(* The query evaluator of internal/reql: databases, tables and documents,  *)
(* all in memory, and the queries of several connections (the server runs  *)
(* each query in a goroutine of its own).                                  *)
(*                                                                         *)
(* The code shares by pointer: a query holds on to the Database or the     *)
(* Table it has found while others drop it, a document is the object that  *)
(* readers have too.  Databases, tables, maps of documents and documents   *)
(* are therefore objects here, numbered in the order of their creation,    *)
(* and 0 is nil.  The locks of AdminManager and Database cover one lookup  *)
(* or one change each; the maps of documents have none.                    *)
(*                                                                         *)
(* Of a document's fields one is kept.  The sessions modelled are allowed  *)
(* what they ask for; a query that fails changes nothing more.             *)
(***************************************************************************)
EXTENDS Integers, FiniteSets

CONSTANTS
    Session,            \* queries that run at the same time
    Db, DefaultDb,      \* database names
    Tab,                \* table names
    Key, NoKey,         \* ids that clients give to documents, or none
    Value,              \* a field of a document
    MaxDb, MaxTable, MaxMap, MaxDoc,    \* bounds: objects
    MaxAuto                             \* bound: generated ids

ASSUME EvaluatorAssumption ==
    /\ MaxDb \in Nat \ {0} /\ MaxTable \in Nat /\ MaxMap \in Nat /\ MaxDoc \in Nat
    /\ MaxAuto \in Nat /\ NoKey \notin Key \cup (1..MaxAuto)
    /\ Db # {} /\ Tab # {} /\ Value # {}

\* auto_1, auto_2, ... are written 1, 2, ...
AnyKey == Key \cup (1..MaxAuto)

VARIABLES
    databases,          \* AdminManager.databases
    Tables,             \* Database.Tables, by database object
    Data,               \* Table.Data, by table object: a map object
    maps,               \* the map objects: a document object for every key
    docs,               \* the document objects that exist
    used,               \* how many objects of each kind exist
    q,                  \* the query of every session
    acked               \* history: keys whose insertion was reported

vars == <<databases, Tables, Data, maps, docs, used, q, acked>>

\* Queries on one document read it first (GET); "read" stands for the terms
\* that only read documents of a table.
OnTable == {"read", "insert", "updateAll", "replaceAll", "deleteAll"}
OnDoc == {"updateOne", "deleteOne"}
OnCatalog == {"tableCreate", "tableDrop"}

\* stage: the next step.  lookup, create, again, table, make: in
\* GetOrCreateTableDB; run, write, round: in the term itself.
Query == [kind : OnTable \cup OnDoc \cup OnCatalog \cup {"none"},
          db : Db, tab : Tab, key : AnyKey \cup {NoKey}, val : Value,
          stage : {"idle", "lookup", "create", "again", "table", "make",
                   "run", "write", "round"},
          calls : 0..2,         \* calls of GetOrCreateTableDB still to come
          dbo : 0..MaxDb, table : 0..MaxTable, map : 0..MaxMap, doc : 0..MaxDoc,
          todo : SUBSET AnyKey, seen : SUBSET AnyKey,
          dropped : BOOLEAN]    \* history: what it looked up was dropped since

Idle == [kind |-> "none", db |-> CHOOSE d \in Db : TRUE, tab |-> CHOOSE t \in Tab : TRUE,
         key |-> NoKey, val |-> CHOOSE v \in Value : TRUE, stage |-> "idle",
         calls |-> 0, dbo |-> 0, table |-> 0, map |-> 0, doc |-> 0, todo |-> {}, seen |-> {},
         dropped |-> FALSE]

\* shared, history: a query has asked to store this object once more.
Document == [val : Value, shared : BOOLEAN]

Counts == [db : 0..MaxDb, table : 0..MaxTable, map : 0..MaxMap, doc : 0..MaxDoc]

TypeOK ==
    /\ databases \in [Db -> 0..MaxDb]
    /\ Tables \in [1..MaxDb -> [Tab -> 0..MaxTable]]
    /\ Data \in [1..MaxTable -> 0..MaxMap]
    /\ maps \in [1..MaxMap -> [AnyKey -> 0..MaxDoc]]
    /\ docs \in [1..MaxDoc -> Document]
    /\ used \in Counts
    /\ q \in [Session -> Query]
    /\ acked \subseteq Db \X Tab \X AnyKey

EmptyMap == [k \in AnyKey |-> 0]
NoDoc == [val |-> CHOOSE v \in Value : TRUE, shared |-> FALSE]

Init ==
    /\ databases = [d \in Db |-> IF d = DefaultDb THEN 1 ELSE 0]
    /\ Tables = [o \in 1..MaxDb |-> [t \in Tab |-> 0]]
    /\ Data = [o \in 1..MaxTable |-> 0]
    /\ maps = [m \in 1..MaxMap |-> EmptyMap]
    /\ docs = [o \in 1..MaxDoc |-> NoDoc]
    /\ used = [db |-> 1, table |-> 0, map |-> 0, doc |-> 0]
    /\ q = [s \in Session |-> Idle]
    /\ acked = {}

-----------------------------------------------------------------------------
(* Databases and tables.                                                   *)

heap == <<maps, docs>>
SetQ(s, c) == q' = [q EXCEPT ![s] = c]
Returns(s) == SetQ(s, Idle)

NewDatabase(d) ==
    /\ used.db < MaxDb
    /\ used' = [used EXCEPT !.db = @ + 1]
    /\ databases' = [databases EXCEPT ![d] = used.db + 1]

NewTable(o, t) ==
    /\ used.table < MaxTable /\ used.map < MaxMap
    /\ used' = [used EXCEPT !.table = @ + 1, !.map = @ + 1]
    /\ Tables' = [Tables EXCEPT ![o][t] = used.table + 1]
    /\ Data' = [Data EXCEPT ![used.table + 1] = used.map + 1]

evalDBCreate(s, d) ==
    /\ q[s] = Idle
    /\ databases[d] = 0
    /\ NewDatabase(d)
    /\ UNCHANGED <<Tables, Data, heap, q, acked>>

evalDBDrop(s, d) ==
    /\ q[s] = Idle
    /\ databases[d] # 0 /\ d # DefaultDb
    /\ databases' = [databases EXCEPT ![d] = 0]
    /\ q' = [r \in Session |-> IF q[r] # Idle /\ q[r].db = d
                              THEN [q[r] EXCEPT !.dropped = TRUE] ELSE q[r]]
    /\ acked' = {a \in acked : a[1] # d}
    /\ UNCHANGED <<Tables, Data, heap, used>>

\* TABLE_CREATE and TABLE_DROP find the database first, and then lock it.
FindDatabase(s, kind, d, t) ==
    /\ q[s] = Idle
    /\ databases[d] # 0
    /\ SetQ(s, [Idle EXCEPT !.kind = kind, !.db = d, !.tab = t, !.dbo = databases[d],
                           !.stage = "run"])
    /\ UNCHANGED <<databases, Tables, Data, heap, used, acked>>

Exists(c) == Tables[c.dbo][c.tab] # 0

CreateTable(s) ==
    LET c == q[s] IN
    /\ c.kind = "tableCreate" /\ c.stage = "run"
    /\ IF Exists(c)
       THEN Returns(s) /\ UNCHANGED <<Tables, Data, used>>
       ELSE NewTable(c.dbo, c.tab) /\ SetQ(s, [c EXCEPT !.kind = "read", !.dbo = 0,
                                                        !.calls = 1, !.stage = "lookup"])
    /\ UNCHANGED <<databases, heap, acked>>

\* The table dropped is the one that is known by its name.
Hits(c, r) == /\ databases[c.db] = c.dbo /\ Tables[c.dbo][c.tab] # 0
              /\ r.db = c.db /\ r.tab = c.tab

DropTable(s) ==
    LET c == q[s] IN
    /\ c.kind = "tableDrop" /\ c.stage = "run"
    /\ Tables' = [Tables EXCEPT ![c.dbo][c.tab] = 0]
    /\ q' = [r \in Session |->
              IF r = s THEN Idle
              ELSE IF q[r] # Idle /\ Hits(c, q[r]) THEN [q[r] EXCEPT !.dropped = TRUE] ELSE q[r]]
    /\ acked' = {a \in acked : ~Hits(c, [db |-> a[1], tab |-> a[2]])}
    /\ UNCHANGED <<databases, Data, heap, used>>

-----------------------------------------------------------------------------
(* GetOrCreateTableDB.                                                     *)

\* A query arrives.  It looks up its table twice: in TABLE, and in the term
\* that TABLE is an argument of.
Start(s, kind, d, t, k, v) ==
    /\ q[s] = Idle
    /\ k = NoKey => kind \notin OnDoc
    /\ k # NoKey => kind \in OnDoc \cup {"insert"}
    /\ SetQ(s, [Idle EXCEPT !.kind = kind, !.db = d, !.tab = t, !.key = k, !.val = v,
                           !.stage = "lookup", !.calls = 2])
    /\ UNCHANGED <<databases, Tables, Data, heap, used, acked>>

InCall(s, stage) == q[s].kind \in OnTable \cup OnDoc /\ q[s].stage = stage

LookupDatabase(s) ==
    LET o == databases[q[s].db] IN
    /\ InCall(s, "lookup")
    /\ SetQ(s, [q[s] EXCEPT !.dbo = o, !.dropped = FALSE,
                           !.stage = IF o = 0 THEN "create" ELSE "table"])
    /\ UNCHANGED <<databases, Tables, Data, heap, used, acked>>

AutoCreate(d) == IF databases[d] = 0 THEN NewDatabase(d) ELSE UNCHANGED <<databases, used>>

CreateDatabase(s) ==
    /\ InCall(s, "create")
    /\ AutoCreate(q[s].db)
    /\ SetQ(s, [q[s] EXCEPT !.stage = "again"])
    /\ UNCHANGED <<Tables, Data, heap, acked>>

LookupAgain(s) ==
    /\ InCall(s, "again")
    /\ databases[q[s].db] # 0
    /\ SetQ(s, [q[s] EXCEPT !.dbo = databases[q[s].db], !.dropped = FALSE,
                           !.stage = "table"])
    /\ UNCHANGED <<databases, Tables, Data, heap, used, acked>>

\* The call has found its table; the query calls again, or goes on with it.
Found(c, o) == IF c.calls = 2 THEN [c EXCEPT !.calls = 1, !.dbo = 0, !.stage = "lookup"]
               ELSE [c EXCEPT !.calls = 0, !.dbo = 0, !.table = o, !.stage = "run"]

LookupTable(s) ==
    LET o == Tables[q[s].dbo][q[s].tab] IN
    /\ InCall(s, "table")
    /\ SetQ(s, IF o = 0 THEN [q[s] EXCEPT !.stage = "make"] ELSE Found(q[s], o))
    /\ UNCHANGED <<databases, Tables, Data, heap, used, acked>>

\* With the lock held, look again before making one.
MissesUnchecked(c) == TRUE              \* mutant: no second look
Misses(c) == Tables[c.dbo][c.tab] = 0

MakeTable(s) ==
    LET c == q[s] IN
    /\ InCall(s, "make")
    /\ IF Misses(c)
       THEN NewTable(c.dbo, c.tab) /\ SetQ(s, Found(c, used.table + 1))
       ELSE SetQ(s, Found(c, Tables[c.dbo][c.tab])) /\ UNCHANGED <<Tables, Data, used>>
    /\ UNCHANGED <<databases, heap, acked>>

-----------------------------------------------------------------------------
(* The terms, with the table they have found.                              *)

Running(s, kinds) == q[s].kind \in kinds /\ q[s].stage = "run"
KeysOf(m) == {k \in AnyKey : maps[m][k] # 0}

NewDoc(v, shared) ==
    /\ used.doc < MaxDoc
    /\ docs' = [docs EXCEPT ![used.doc + 1] = [val |-> v, shared |-> shared]]
    /\ used' = [used EXCEPT !.doc = @ + 1]

\* The document that INSERT or REPLACE stores may be the result of a GET, which is
\* the object that a table has.  (The lookups of this GET are those of a read,
\* and left to the other sessions.)
Held == {maps[m][k] : m \in 1..MaxMap, k \in AnyKey} \ {0}
Share(o) == docs' = [docs EXCEPT ![o].shared = TRUE] /\ UNCHANGED used

\* GET, GET_ALL and the terms that take a sequence of documents.
Read(s) ==
    /\ Running(s, {"read"})
    /\ Returns(s)
    /\ UNCHANGED <<databases, Tables, Data, heap, used, acked>>

\* INSERT counts the documents, and later stores one more.
AutoId(m) == Cardinality(KeysOf(m)) + 1

ToStore(c, k, o) == [c EXCEPT !.key = k, !.doc = o, !.stage = "write"]

\* The id of a document that a table has is the one it was given there, or what
\* UPDATE made of it since: any.
evalInsert(s) ==
    LET c == q[s]
        auto == AutoId(Data[c.table])
    IN  /\ Running(s, {"insert"})
        /\ \/ /\ c.key # NoKey
              /\ NewDoc(c.val, FALSE) /\ SetQ(s, ToStore(c, c.key, used.doc + 1))
           \/ /\ c.key = NoKey /\ auto \in 1..MaxAuto
              /\ NewDoc(c.val, FALSE) /\ SetQ(s, ToStore(c, auto, used.doc + 1))
           \/ \E o \in Held, k \in AnyKey :
              /\ c.key = NoKey
              /\ Share(o) /\ SetQ(s, ToStore(c, k, o))
        /\ UNCHANGED <<databases, Tables, Data, maps, acked>>

\* mutant: the client's id is not used
StoredByCount(c) == [maps EXCEPT ![Data[c.table]][AutoId(Data[c.table])] = c.doc]
Stored(c) == [maps EXCEPT ![Data[c.table]][c.key] = c.doc]

InsertStores(s) ==
    LET c == q[s] IN
    /\ c.kind = "insert" /\ c.stage = "write"
    /\ maps' = Stored(c)
    /\ acked' = IF c.dropped THEN acked ELSE acked \cup {<<c.db, c.tab, c.key>>}
    /\ Returns(s)
    /\ UNCHANGED <<databases, Tables, Data, docs, used>>

\* GET of the document to update or delete.
evalGet(s) ==
    LET o == maps[Data[q[s].table]][q[s].key] IN
    /\ Running(s, OnDoc)
    /\ IF o = 0 THEN Returns(s) ELSE SetQ(s, [q[s] EXCEPT !.doc = o, !.stage = "write"])
    /\ UNCHANGED <<databases, Tables, Data, heap, used, acked>>

\* The tables searched for the document are those of e.tables, which nothing
\* ever adds to.  UPDATE then changes the document it was given in place,
\* DELETE reports that there was none.
UpdateOne(s) ==
    LET c == q[s] IN
    /\ c.kind = "updateOne" /\ c.stage = "write"
    /\ docs' = [docs EXCEPT ![c.doc].val = c.val]
    /\ Returns(s)
    /\ UNCHANGED <<databases, Tables, Data, maps, used, acked>>

DeleteOne(s) ==
    /\ q[s].kind = "deleteOne" /\ q[s].stage = "write"
    /\ Returns(s)
    /\ UNCHANGED <<databases, Tables, Data, heap, used, acked>>

Sweep(c, m, o) == [c EXCEPT !.map = m, !.todo = KeysOf(m), !.stage = "round", !.doc = o]

\* UPDATE and REPLACE of a whole table go through the map they found, but
\* store into the one that the table has by then.
SweepBegins(s) ==
    LET c == q[s]
        m == Data[c.table]
    IN  /\ Running(s, {"updateAll", "replaceAll"})
        /\ \/ c.kind = "updateAll" /\ SetQ(s, Sweep(c, m, 0)) /\ UNCHANGED <<docs, used>>
           \/ /\ c.kind = "replaceAll"
              /\ NewDoc(c.val, TRUE) /\ SetQ(s, Sweep(c, m, used.doc + 1))
           \/ /\ c.kind = "replaceAll"
              /\ \E o \in Held : Share(o) /\ SetQ(s, Sweep(c, m, o))
        /\ UNCHANGED <<databases, Tables, Data, maps, acked>>

\* mutant: every round has the same document
RoundDocSame(c, k) == maps[c.map][CHOOSE x \in KeysOf(c.map) : TRUE]
RoundDoc(c, k) == maps[c.map][k]

\* One round; a key that was added since the first may be met or missed.
SweepRound(s, k) ==
    LET c == q[s]
        o == IF c.kind = "replaceAll" THEN c.doc ELSE RoundDoc(c, k)
    IN  /\ c.stage = "round"
        /\ k \in KeysOf(c.map) \ c.seen
        /\ docs' = IF c.kind = "updateAll" THEN [docs EXCEPT ![o].val = c.val] ELSE docs
        /\ maps' = [maps EXCEPT ![Data[c.table]][k] = o]
        /\ SetQ(s, [c EXCEPT !.seen = @ \cup {k}])
        /\ UNCHANGED <<databases, Tables, Data, used, acked>>

SweepEnds(s) ==
    /\ q[s].stage = "round" /\ q[s].todo \subseteq q[s].seen
    /\ Returns(s)
    /\ UNCHANGED <<databases, Tables, Data, heap, used, acked>>

\* What a query of d.t finds now.
TableNow(d, t) == IF databases[d] = 0 THEN 0 ELSE Tables[databases[d]][t]

\* DELETE of a whole table gives it a new map.
DeleteAll(s) ==
    LET c == q[s] IN
    /\ Running(s, {"deleteAll"})
    /\ used.map < MaxMap
    /\ used' = [used EXCEPT !.map = @ + 1]
    /\ Data' = [Data EXCEPT ![c.table] = used.map + 1]
    /\ acked' = IF TableNow(c.db, c.tab) = c.table
                THEN {a \in acked : <<a[1], a[2]>> # <<c.db, c.tab>>} ELSE acked
    /\ Returns(s)
    /\ UNCHANGED <<databases, Tables, heap>>

-----------------------------------------------------------------------------
(* What ends the process, and with it everything it has stored.            *)

\* CreateDatabase was undone before GetOrCreateTableDB looked again.
NilDatabase(s) == InCall(s, "again") /\ databases[q[s].db] = 0

\* Two goroutines are at one map, and one of them writes: the runtime may
\* notice.  (UPDATE writes the map that is a document, and INSERT gives it an id.)
MapsOf(c) == IF c.table = 0 THEN {} ELSE {Data[c.table]} \cup ({c.map} \ {0})
Race(s, r) ==
    /\ s # r
    /\ \/ /\ q[s].stage = "round" \/ (q[s].kind = "insert" /\ q[s].stage = "write")
          /\ MapsOf(q[s]) \cap MapsOf(q[r]) # {}
       \/ /\ q[s].kind \in {"updateOne", "insert"} /\ q[s].stage = "write"
          /\ q[r].doc = q[s].doc

Crash ==
    /\ \E s, r \in Session : NilDatabase(s) \/ Race(s, r)
    /\ databases' = [d \in Db |-> IF d = DefaultDb THEN 1 ELSE 0]
    /\ Tables' = [o \in 1..MaxDb |-> [t \in Tab |-> 0]]
    /\ Data' = [o \in 1..MaxTable |-> 0]
    /\ maps' = [m \in 1..MaxMap |-> EmptyMap]
    /\ docs' = [o \in 1..MaxDoc |-> NoDoc]
    /\ used' = [db |-> 1, table |-> 0, map |-> 0, doc |-> 0]
    /\ q' = [s \in Session |-> Idle]
    /\ acked' = {}

-----------------------------------------------------------------------------

CatalogStep(s) ==
    \/ \E d \in Db : \/ evalDBCreate(s, d) \/ evalDBDrop(s, d)
                      \/ \E kind \in OnCatalog, t \in Tab : FindDatabase(s, kind, d, t)
    \/ CreateTable(s) \/ DropTable(s)
LookupStep(s) ==
    \/ LookupDatabase(s) \/ CreateDatabase(s) \/ LookupAgain(s)
    \/ LookupTable(s) \/ MakeTable(s)
TermStep(s) ==
    \/ Read(s) \/ evalInsert(s) \/ InsertStores(s)
    \/ evalGet(s) \/ UpdateOne(s) \/ DeleteOne(s)
    \/ SweepBegins(s) \/ SweepEnds(s) \/ DeleteAll(s)
    \/ \E k \in AnyKey : SweepRound(s, k)

Next ==
    \/ Crash
    \/ \E s \in Session :
          \/ \E d \in Db, t \in Tab, k \in Key \cup {NoKey}, v \in Value :
                \E kind \in OnTable \cup OnDoc : Start(s, kind, d, t, k, v)
          \/ CatalogStep(s) \/ LookupStep(s) \/ TermStep(s)

Spec == Init /\ [][Next]_vars

-----------------------------------------------------------------------------
(* Properties.                                                             *)

\* All queries of a table use one Table, unless what they looked up has been
\* dropped since (GetOrCreateTableDB looks twice before it makes one), and the
\* database it makes on the way is found again, with the same exception: it then
\* follows a nil pointer.  (And every variable has its type.)
OneTable ==
    /\ TypeOK
    /\ \A s \in Session : q[s].table # 0 =>
        q[s].dropped \/ TableNow(q[s].db, q[s].tab) = q[s].table
    /\ \A s \in Session : NilDatabase(s) => q[s].dropped

\* Under the key of every insertion that was reported a document is found, until
\* its table is dropped or emptied, whatever runs beside evalInsert.  It need not
\* be the one inserted: another INSERT may have stored under this key (two at a
\* time generate the same id), REPLACE may have, and an UPDATE of the whole table
\* puts back what it read.
ReportedKeyIsFound ==
    \A a \in acked : TableNow(a[1], a[2]) # 0 /\ a[3] \in KeysOf(Data[TableNow(a[1], a[2])])

\* No document object stands at two keys, so that an update in place changes
\* one document, unless a query asked for it: a REPLACE of a whole table, or an
\* INSERT of what GET found.  In particular a sweep that stores what it finds in
\* a map the table may no longer have makes no second home for it.
SharedOnRequest ==
    \A d, e \in Db, t, u \in Tab : TableNow(d, t) # 0 /\ TableNow(e, u) # 0 =>
        \A k \in KeysOf(Data[TableNow(d, t)]), l \in KeysOf(Data[TableNow(e, u)]) :
            LET o == maps[Data[TableNow(d, t)]][k]
            IN  o = maps[Data[TableNow(e, u)]][l] =>
                    docs[o].shared \/ <<d, t, k>> = <<e, u, l>>
=============================================================================
