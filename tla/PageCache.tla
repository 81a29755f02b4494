----------------------------- MODULE PageCache -----------------------------
(***************************************************************************)
(* The page cache of internal/storage/page_cache.go over blocks.db, used   *)
(* by several goroutines.  c.mu is held by at most one of them; a method   *)
(* that runs a loop while it holds c.mu (addToCache, Flush) is one step    *)
(* per round, since a crash, or the unlocked half of Allocate, may come    *)
(* between the rounds.                                                     *)
(*                                                                         *)
(* Callers use the ids that Allocate returned to them (internal/btree has  *)
(* no other source of ids).  Calls that return an error without having     *)
(* changed anything leave the state alone and have no action.              *)
(***************************************************************************)
EXTENDS BlockFile, Sequences, SequencesExt, FiniteSets

CONSTANTS
    Thread,     \* the goroutines that use the cache
    Closer,     \* those of them that may call Close
    NoThread,
    Absent,     \* no block
    MaxSize,    \* c.maxSize
    Faulty      \* whether writes and syncs may fail

ASSUME CacheAssumption == MaxSize \in Nat /\ NoThread \notin Thread /\ Absent \notin Content

VARIABLES
    lru,        \* c.lru, most recently used first
    cache,      \* the ids in c.cache; an id stands for its foremost element
    open,       \* FALSE once Close has dropped the cache
    mu,         \* who holds c.mu
    call,       \* where each goroutine is
    known,      \* the ids that Allocate has returned
    done,       \* history: the last block that a call returned or wrote
    survive     \* history: what a crash may leave of each block

cacheVars == <<lru, cache>>
vars == <<fileVars, cacheVars, open, mu, call, known, done, survive>>

CacheEntry == [id : Id, block : Content, dirty : BOOLEAN]

\* "written": Allocate has its block in the file but not in the cache;
\* "add": in addToCache; "flush": at element pos of Flush's loop;
\* "flushed": Close has flushed and wants the lock again.
Call == [stage : {"idle", "written", "add", "flush", "flushed"},
         method : {"none", "Get", "Put", "Allocate", "Flush", "Close"},
         id : 0..MaxBlock, block : Content, dirty : BOOLEAN, pos : Nat]
Idle == [stage |-> "idle", method |-> "none", id |-> 0, block |-> Zero,
         dirty |-> FALSE, pos |-> 0]

TypeOK ==
    /\ FileTypeOK
    /\ lru \in Seq(CacheEntry)
    /\ cache \subseteq Id
    /\ open \in BOOLEAN
    /\ mu \in Thread \cup {NoThread}
    /\ call \in [Thread -> Call]
    /\ known \subseteq Id
    /\ done \in [id : 0..MaxBlock, block : Content \cup {Absent}]
    /\ survive \in [Id -> SUBSET (Content \cup {Absent})]

Init ==
    /\ FileInit
    /\ lru = <<>>
    /\ cache = {}
    /\ open = TRUE
    /\ mu = NoThread
    /\ call = [t \in Thread |-> Idle]
    /\ known = {}
    /\ done = [id |-> 0, block |-> Absent]
    /\ survive = [id \in Id |-> {Absent}]

-----------------------------------------------------------------------------

ElementOf(id) == CHOOSE i \in 1..Len(lru) :
                    lru[i].id = id /\ \A j \in 1..(i - 1) : lru[j].id # id

\* What a read of block id finds.
Contents(id) == IF id \in cache THEN lru[ElementOf(id)].block ELSE file[id]
Present(id) == IF id \in known THEN Contents(id) ELSE Absent

PushFront(entry, l) == <<entry>> \o l

\* The goroutine calls a method and gets the lock.
Enters(t) == open /\ mu = NoThread /\ call[t] = Idle
SetCall(t, c) == call' = [call EXCEPT ![t] = c]

\* It goes on to addToCache, or to the loop of Flush, with the lock held.
Adding(m, id, v, d) == [stage |-> "add", method |-> m, id |-> id, block |-> v,
                        dirty |-> d, pos |-> 0]
Flushing(m, i) == [Idle EXCEPT !.stage = "flush", !.method = m, !.pos = i]

GetHit(t, id) ==
    LET i == ElementOf(id) IN
    /\ Enters(t) /\ id \in known \cap cache
    /\ lru' = PushFront(lru[i], RemoveAt(lru, i))
    /\ done' = [id |-> id, block |-> lru[i].block]
    /\ UNCHANGED <<fileVars, cache, open, mu, call, known, survive>>

GetMiss(t, id) ==
    /\ Enters(t) /\ id \in known \ cache
    /\ ~Unreadable(id)
    /\ mu' = t
    /\ SetCall(t, Adding("Get", id, file[id], FALSE))
    /\ UNCHANGED <<fileVars, cacheVars, open, known, done, survive>>

KeepClean(e, v) == [e EXCEPT !.block = v]       \* mutant: not marked as dirty
Rewrite(e, v) == [e EXCEPT !.block = v, !.dirty = TRUE]

PutHit(t, id, v) ==
    LET i == ElementOf(id) IN
    /\ Enters(t) /\ id \in known \cap cache
    /\ lru' = PushFront(Rewrite(lru[i], v), RemoveAt(lru, i))
    /\ survive' = [survive EXCEPT ![id] = @ \cup {v}]
    /\ done' = [id |-> id, block |-> v]
    /\ UNCHANGED <<fileVars, cache, open, mu, call, known>>

PutBlind(t, id, v) ==           \* mutant: no lookup, the block is always added
    /\ Enters(t) /\ id \in known
    /\ mu' = t
    /\ SetCall(t, Adding("Put", id, v, TRUE))
    /\ UNCHANGED <<fileVars, cacheVars, open, known, done, survive>>
PutMiss(t, id, v) ==
    /\ Enters(t) /\ id \in known \ cache
    /\ mu' = t
    /\ SetCall(t, Adding("Put", id, v, TRUE))
    /\ UNCHANGED <<fileVars, cacheVars, open, known, done, survive>>

\* Allocate writes the block before it takes the lock.
Allocate(t, v) ==
    /\ open /\ call[t] = Idle
    /\ nextID <= MaxBlock
    /\ \/ /\ BlockWriteNew(v)
          /\ SetCall(t, [Adding("Allocate", nextID, v, FALSE) EXCEPT !.stage = "written"])
       \/ Faulty /\ BlockWriteNewFails /\ UNCHANGED call
    /\ UNCHANGED <<cacheVars, open, mu, known, done, survive>>

AllocateLocks(t) ==
    /\ open /\ mu = NoThread /\ call[t].stage = "written"
    /\ mu' = t
    /\ SetCall(t, [call[t] EXCEPT !.stage = "add"])
    /\ UNCHANGED <<fileVars, cacheVars, open, known, done, survive>>

-----------------------------------------------------------------------------
(* addToCache.                                                             *)

HasRoom == Cardinality(cache) < MaxSize

\* The victim is written back if it is dirty; an error is ignored.
WriteBackNever(e) == UNCHANGED fileVars             \* mutant: never written back
WriteBack(e) ==
    \/ e.dirty /\ BlockWrite(e.id, e.block)
    \/ (~e.dirty \/ Faulty) /\ UNCHANGED fileVars

Unmap(id) == cache \ {id}

\* One round of addToCache's loop.  (With nothing left to evict it goes
\* round for ever: MaxSize = 0.)
evict(t) ==
    /\ mu = t /\ call[t].stage = "add"
    /\ ~HasRoom
    /\ lru # <<>>
    /\ LET e == lru[Len(lru)]
       IN  /\ WriteBack(e)
           /\ cache' = Unmap(e.id)
           /\ lru' = SubSeq(lru, 1, Len(lru) - 1)
    /\ UNCHANGED <<open, mu, call, known, done, survive>>

\* The rest of addToCache, and of the method that called it.
addToCache(t) ==
    LET c == call[t]
        written == CASE c.method = "Get" -> {} [] c.method = "Put" -> {c.block}
                     [] c.method = "Allocate" -> {c.block, Zero}
    IN  /\ mu = t /\ c.stage = "add"
        /\ HasRoom
        /\ lru' = PushFront([id |-> c.id, block |-> c.block, dirty |-> c.dirty], lru)
        /\ cache' = cache \cup {c.id}
        /\ known' = known \cup {c.id}
        /\ done' = [id |-> c.id, block |-> c.block]
        /\ survive' = [survive EXCEPT ![c.id] = @ \cup written]
        /\ mu' = NoThread
        /\ SetCall(t, Idle)
        /\ UNCHANGED <<fileVars, open>>

-----------------------------------------------------------------------------

\* Delete drops the cached block first, and then may fail.
Delete(t, id) ==
    /\ Enters(t) /\ id \in known
    /\ lru' = IF id \in cache THEN RemoveAt(lru, ElementOf(id)) ELSE lru
    /\ cache' = Unmap(id)
    /\ \/ /\ BlockDelete(id)
          /\ survive' = [survive EXCEPT ![id] = @ \cup {Zero}]
          /\ done' = [id |-> id, block |-> Zero]
       \/ Faulty /\ UNCHANGED <<fileVars, survive, done>>
    /\ UNCHANGED <<open, mu, call, known>>

\* Flush, and the first half of Close.
FlushBegins(t, m) ==
    /\ Enters(t)
    /\ m = "Close" => t \in Closer
    /\ mu' = t
    /\ SetCall(t, Flushing(m, 1))
    /\ UNCHANGED <<fileVars, cacheVars, open, known, done, survive>>

FailsLocked(t) == UNCHANGED mu /\ SetCall(t, Idle)   \* mutant: not unlocked
Fails(t) == mu' = NoThread /\ SetCall(t, Idle)

\* One round of Flush's loop.
FlushOne(t) ==
    LET c == call[t]
        i == c.pos
    IN  /\ mu = t /\ c.stage = "flush"
        /\ i <= Len(lru)
        /\ \/ /\ lru[i].dirty
              /\ BlockWrite(lru[i].id, lru[i].block)
              /\ lru' = [lru EXCEPT ![i].dirty = FALSE]
              /\ SetCall(t, Flushing(c.method, i + 1)) /\ UNCHANGED mu
           \/ /\ ~lru[i].dirty
              /\ SetCall(t, Flushing(c.method, i + 1))
              /\ UNCHANGED <<fileVars, lru, mu>>
           \/ /\ lru[i].dirty /\ Faulty
              /\ Fails(t) /\ UNCHANGED <<fileVars, lru>>
        /\ UNCHANGED <<cache, open, known, done, survive>>

\* The sync; Close goes on without the lock.
FlushEnds(t) ==
    LET c == call[t] IN
    /\ mu = t /\ c.stage = "flush"
    /\ c.pos > Len(lru)
    /\ \/ /\ Sync
          /\ survive' = [id \in Id |-> {Present(id)}]
          /\ mu' = NoThread
          /\ SetCall(t, IF c.method = "Close" THEN [c EXCEPT !.stage = "flushed"] ELSE Idle)
       \/ Faulty /\ Fails(t) /\ UNCHANGED <<fileVars, survive>>
    /\ UNCHANGED <<cacheVars, open, known, done>>

CloseEnds(t) ==
    /\ open /\ mu = NoThread /\ call[t].stage = "flushed"
    /\ open' = FALSE
    /\ lru' = <<>>
    /\ cache' = {}
    /\ SetCall(t, Idle)
    /\ UNCHANGED <<fileVars, mu, known, done, survive>>

\* The process ends, by a crash at any moment or after Close, and opens the
\* file anew; of the ids it was given it can use the ones the file has.
Restart ==
    /\ NewFileSerializer
    /\ lru' = <<>>
    /\ cache' = {}
    /\ open' = TRUE
    /\ mu' = NoThread
    /\ call' = [t \in Thread |-> Idle]
    /\ known' = {id \in known : id < size'}
    /\ survive' = [id \in Id |-> {IF id \in known' THEN file'[id] ELSE Absent}]
    /\ UNCHANGED done

ThreadStep(t) ==
    \/ \E id \in Id : \/ GetHit(t, id) \/ GetMiss(t, id) \/ Delete(t, id)
                      \/ \E v \in Value : PutHit(t, id, v) \/ PutMiss(t, id, v)
    \/ \E v \in Value : Allocate(t, v)
    \/ AllocateLocks(t)
    \/ evict(t) \/ addToCache(t)
    \/ \E m \in {"Flush", "Close"} : FlushBegins(t, m)
    \/ FlushOne(t) \/ FlushEnds(t) \/ CloseEnds(t)

Next == Restart \/ \E t \in Thread : ThreadStep(t)

Spec == Init /\ [][Next]_vars

-----------------------------------------------------------------------------
(* Properties.                                                             *)

\* The map and the list agree: every cached block has exactly one element,
\* and no element outlives its map entry (an element that did would, when
\* evicted, overwrite the file with an old block).  The cache never outgrows its
\* size, which only addToCache guards, and every variable has its type.
OneElementEach ==
    /\ TypeOK
    /\ Len(lru) <= MaxSize
    /\ cache = {lru[i].id : i \in 1..Len(lru)}
    /\ \A i, j \in 1..Len(lru) : lru[i].id = lru[j].id => i = j

\* A block that is not marked as dirty is the one in the file, so dropping
\* it loses nothing.
CleanIsWritten ==
    \A i \in 1..Len(lru) : lru[i].dirty \/ lru[i].block = file[lru[i].id]

\* Allocate never returns an id that a caller has, whatever was lost in a
\* crash between the write and the sync (NewFileSerializer derives nextID
\* from the size of the file).
FreshIds == \A t \in Thread : call[t].method = "Allocate" => call[t].id \notin known

\* The cache implements a store of blocks.
Store == INSTANCE BlockStore
    WITH store <- [id \in Id |-> Present(id)],
         MayLose <- Faulty \/ Closer # {}
ImplementsStore == Store!Spec
=============================================================================
