# A TLA+ model of GoThinkDB

GoThinkDB is a document database in Go with the wire protocol of RethinkDB.
This directory holds TLA+ models of its concurrent and failure-prone parts,
the TLC configurations that check them on small instances, and proofs that
TLAPS checks for every instance. `PROJECT.json` says which definition stands
for which lines of the source, which run checks which property, and which
hazards of the code each property is for.

## The system

| Component | State | Operations | Interacts with | What is hard |
|---|---|---|---|---|
| Raft node (`internal/raft/raft.go`, `types.go`) | term, vote, log, role, commit index, per-peer indices | ticks, `startElection`, `RequestVote`, `AppendEntries`, `Propose`, handling of replies | peers through the transport; one goroutine per call | goroutines touch the node at several moments with the lock released; calls are lost, late and overtake each other |
| Raft transport (`transport.go`) | peer table, listener | one TCP connection per call | Raft handlers | a call may fail before or after it was handled |
| Raft persistence (`wal.go`, `snapshot.go`, `compaction.go`) | WAL file, snapshot file | `Append`, `Truncate`, `Create`, `Load`, `Compact`, `RestoreFromSnapshot` | Raft's log | crash between file operations; positions after compaction |
| Page cache (`internal/storage/page_cache.go`) | map, LRU list, dirty flags | `Get`, `Put`, `Allocate`, `Flush`, `Close`, `Delete`, eviction | block file | unlocked half of `Allocate`, failing writes, crash between writes |
| Block file (`file_serializer.go`) | `blocks.db`, `nextID` | read, write, delete, sync, open, header | page cache | what a power failure leaves; shared file offset |
| B-tree (`internal/btree`) | nodes in blocks, root id | put, get, delete, scan | page cache | splits, node limits, root id not persisted |
| Tables (`internal/reql/btree_table.go`, `index.go`, `changefeed.go`) | documents, secondary indexes, subscriber queues | insert, update, delete, notify | B-tree, evaluator | index maintenance order, bounded queues |
| Catalog and evaluator (`internal/reql/evaluator.go`, `admin.go`, `session.go`) | databases, tables, documents | ReQL terms | protocol server, API | check-then-act on the catalog, unlocked table data |
| Protocol server (`internal/protocol`) | connections, running queries | handshake, query loop, `STOP`, `Stop` | evaluator | responses of concurrent queries, cancellation |
| Membership (`internal/rpc`) | members, status, leader | join, leave, heartbeat, health check, replication | API | timeouts racing heartbeats |
| Joining and removal (`internal/cluster`) | tokens, operations, transfers | create and use tokens, join, remove, transfer, cancel | membership, API | background goroutines overwriting status |
| Users (`internal/auth`) | users, permissions, `auth.json` | create, update, delete, grant, persist, load | API, handshake | agreement of four maps; atomic persistence |
| Transactions (`internal/transaction`) | active transactions | begin, add, commit, abort | - | entries that stay for ever |
| HTTP API (`internal/api`) | WebSocket hub | handlers, broadcast | all of the above | closing of client queues |
| Go driver (`drivers/go`) | connection pool | acquire, release, reap, close | protocol server | limits while dialling, closing what is in use |
| Parser, datum, joins, geometry, configuration, CLI, dashboard, other drivers | - | pure functions, wiring, user interface | - | - |

`cmd/gothinkdb/main.go` wires configuration, evaluator, membership, users, API
and protocol server. Raft, the storage engine, B-tree tables and transactions
are libraries that the tests drive; main does not start them.

What makes each component correct:

* Raft: one vote per node and term, leaders backed by a majority, terms that
  never go back, entries at their indices, elections that end. Its files: what
  was appended is in the log file or in the data of the snapshot; compaction cuts
  nothing that is new.
* Storage: a read finds the last write, no id is handed out twice, a crash
  leaves nothing older than the last flush, every call returns.
* B-tree: the answers of a map, from balanced leaves. Tables: an index finds the
  documents it was told of, the reader of a changefeed knows the documents of
  which it lost no event.
* Evaluator: all queries of a table use one object, under every reported key a
  document is found, an update in place changes one document.
* Protocol: a client that waits reads the answer to its own query, `STOP` finds
  what runs, `Stop` returns unless a client keeps its handler. Pool: never more than `MaxConns`, no connection with
  two users, none that is never closed.
* Membership: who left stays out, who died is noticed, who lives is seen, calls
  end. Joining and removal: a token admits one node, what was accepted ends.
* Users: the maps of the store agree with each other, and with the file unless its
  last write failed; access
  follows the store at once; only the right password opens a session.

## Modules

| Module | Models | Remarks |
|---|---|---|
| `RaftLog` | what `raft.go` computes from a log | pure operators, among them the loop of `AppendEntries` round by round and what it amounts to |
| `Raft` | `raft.go` with the transport | extends `RaftLog` |
| `RaftStore` | `wal.go`, `snapshot.go`, `compaction.go`, `QuorumWrite` | the files of one node, with crashes |
| `RaftProofs` | - | theorems about `Raft` (types, log positions, terms, votes, the backers of a leader, the loop of `AppendEntries`) and `RaftStore` (where an appended entry is, compaction keeps what is new) |
| `MCRaft`, `MCRaftElection`, `MCRaftNode` | - | instances for TLC, fairness |
| `BlockFile` | `file_serializer.go` and what a power failure leaves | used by `PageCache` |
| `PageCache` | `page_cache.go` used by several goroutines | extends `BlockFile`, implements `BlockStore` |
| `BlockStore` | - | what the storage layer promises |
| `PageCacheProofs` | - | theorems about `PageCache`, and that it implements `BlockStore` |
| `MCPageCache` | - | instance for TLC, fairness |
| `KVMap` | - | what the B-tree promises: a map |
| `BTree` | `internal/btree` | implements `KVMap`; recursive functions over the nodes |
| `TableStorage` | `btree_table.go`, `index.go`, `changefeed.go` | uses the tree as `KVMap` |
| `TableProofs` | - | theorems about `TableStorage` and `BTree`, and that `BTree` implements `KVMap` |
| `MCTable` | - | instance for TLC of the two |
| `Evaluator` | databases, tables and documents in `evaluator.go` and `admin.go` | objects shared by pointer |
| `EvaluatorProofs` | - | theorems about `Evaluator` |
| `MCEvaluator` | - | instance for TLC |
| `Auth` | `internal/auth` and the handlers of `internal/api` that use it | store, file, requests, SCRAM |
| `AuthProofs` | - | theorems about `Auth` |
| `MCAuth` | - | instance for TLC |
| `Protocol` | `internal/protocol` and the connection of `drivers/go` | server, handlers, query goroutines, clients |
| `Pool` | `drivers/go/pool.go` | callers, health check, `Close` |
| `ClientProofs` | - | theorems about `Pool` and `Protocol` |
| `MCClients` | - | instance for TLC of the two |
| `Transfers` | `internal/cluster/transfer.go` | the goroutine of a transfer |
| `ClusterOps` | tokens, joining and removal in `internal/cluster`, with their HTTP handlers | extends `Transfers` |
| `ClusterProofs` | - | theorems about `ClusterOps` and `Transfers` |
| `MCClusterOps` | - | instance for TLC of the two |
| `Membership` | `internal/rpc` | member tables, RPC server, health monitor, callers |
| `MembershipProofs` | - | who left stays out |
| `MCMembership` | - | instance for TLC |

Where a run has parts that share no state at this commit (a Raft node and its
files; the tree, a table with indexes and a table with changefeeds; server and
pool; members and transfers) or whose combination is too large for TLC (drops and several
documents in `MCEvaluator`), its MC module has a variable `part` and a behaviour is one of the one or
one of the other: what parts without shared state do to each other is nothing, and the
interleavings would only cost states.
The table and the tree are related differently: `TableStorage` takes the tree as
`KVMap`, which `BTree` is shown to implement.

Operators whose comment begins with "mutant" or "A mutant" are deliberate
mistakes, not part of the model: each one replaces the definition that follows
it, to show that a property notices. `PROJECT.json` pairs them with the
properties.

### Raft

The variables `currentTerm ... matchIndex` are the fields of the `Raft` struct.
`lastApplied` is left out because `raft.go` never writes it.
The goroutines are part of the state:

* `startElection` starts one goroutine per peer and a counter they share. On
  the next tick of a candidate it does so again, with the same term, while the
  old ones may still run; `vc[n][b][p]` is the goroutine for peer `p` of run
  `b`, `votes[n][b]` the counter. `requestVoteFromPeer` reads three fields
  without the lock, hence its three steps. `countVote` is the part after the
  reply.
* `sendHeartbeats` starts one goroutine per peer on every tick and every
  `Propose`; `ae[n][p][l]` is one of them: arguments built under the read lock,
  marshalled after it was released (`SendAppendEntries`), handled by the peer
  (`AppendEntries`), reply handled (`handleAppendReply`). The entries are a
  slice of the log, so an overwrite between the two first steps is seen in
  part: `Reread` lets each entry be the old or the new one.
* A peer handles a request in one step, because the handlers hold `r.mu`.
* Any call may be lost at any stage. There is no action that duplicates one:
  a connection carries one request.

Time is abstracted: a follower may time out at any moment. The bounds are the
number of terms, the log length at which `Propose` stops, the runs of
`startElection` and the `AppendEntries` goroutines that are under way at once.
The theorems hold for all of their values.

`MCRaftElection` asks whether elections end. It leaves out the loss of calls,
so that what keeps a leader away is the algorithm. Fairness is weak fairness
of every candidate's tick and of the goroutines: the ticker of `run` fires every
10 ms and a goroutine that can run does run. No follower has to time out.
Followers may in fact time out in turn for ever, each with a new term before a
candidate has its votes, and no leader comes of that; `LeaderOrSplitVote` is
therefore about the behaviours in which timeouts stop at some moment
(`TimeoutsStop`), and says that then a leader comes or every node is a candidate
of one term for good.

`RaftStore` has the files of one node that leads. `Compact` is a step for each
file operation, between which writers go on proposing and appending: `os.WriteFile`
empties the snapshot file and then writes it, `Truncate` recreates the WAL and
then writes back, entry by entry, what is newer than the snapshot, and only then
is the log in memory cut. Each of these may fail, and the process may end between
any two. An entry is its index, the WAL the set of entries that a replay of its
file finds, and a snapshot has its `LastIndex` and its `Data`, the log that was in
memory when `Compact` began. `walFile` says whether the WAL still takes entries:
a write that failed stays in its encoder, and a `Truncate` that could not open the
file again leaves it closed. Nothing in the repository calls `WAL.Append` or
`Compact` but the tests; the writer that proposes and then appends is the use they
suggest. Three history variables mark the situations in which entries are lost
after all, so that `Durable` and `KeepsNew` say how far the promise goes. `lost` has
the entries whose rewriting was cut short. `dropped` has those that an earlier
compaction had cut from memory when the next one began: the new snapshot has the
log as it is in memory then, and goes over the file that had them. `crowded` says that
more than half the threshold was proposed while `Compact` was at work. While the
snapshot file is not whole, what only the last snapshot had is in memory, and
`Durable` says that too; a crash at that moment loses it. A crash is the end of the
process, not of the machine.
`Raft` itself has no compaction, because its handlers do not survive one: they
take the position in the slice for the index (see the observations below).

### Storage

`BlockFile` has the file as reads and writes see it, and `disk`/`synced`, which
say what a power failure may leave: in each slot any of the values written
since the last sync or the one synced, and any size between the synced and the
current one. `NewFileSerializer` chooses among those. A write that fails leaves
the file as it was.

`PageCache` has `c.mu` explicitly. A method that ends in one critical section
is one step; `addToCache` and `Flush` are one step per round of their loops,
because a crash, or the `BlockWrite` of another goroutine's `Allocate`, which
does not take `c.mu`, may come in between. `cache` is the key set of the map:
the map always refers to the foremost element of an id. Callers use ids that
`Allocate` returned. Calls that return an error without changing anything have
no action. Hit and miss counters are left out. After `Close` every method would
dereference a nil list, so nothing happens until `Restart`.

`BlockStore` is the promise: `store` gives each block's value, `survive` the
values of which a crash may leave one, `done` the block that the last call
returned or wrote (without it, a step that loses a block could pass for a `Put`).
`PageCache` implements it under the mapping of a block to its cached value, or
else to the one in the file; a block is present from the moment `Allocate`
returns its id. With `MayLose`, blocks may at any time fall back to one of the
values that would survive a crash: that weaker promise is all that is kept when
writes may fail or when `Close` is called while others write: a `Put` between
the two halves of `Close` (`page_cache.go:123`-`130`) is dropped with the cache.

### Evaluator

The server runs every query in a goroutine of its own, and everything they
share is reached by pointers: a query goes on with the `Table` it found while
another drops it, and the document that `GET` returns is the object that the
table holds. Databases, tables, Go maps of documents and documents are therefore
numbered objects (0 is nil); `databases`, `Tables`, `Data` and `maps` are the
pointers between them.

A query on a table evaluates `TABLE` first, which calls `GetOrCreateTableDB` for
its side effect, and then calls it again for the table it works on; `calls`
counts them. Each call is up to five steps, one for each section under a lock:
look up the database, create it, look it up again, look up the table, look again
and make it. The terms that follow hold no lock at all. `INSERT` counts the
documents and later stores one; what it stores may be the result of a nested `GET`, and is then the
object that a table has already (`Held`, `Share`), under whatever id it has by now;
the same goes for `REPLACE`. `UPDATE` and `REPLACE` of a table go through a Go
map key by key, and the map may meet or miss keys that were added meanwhile;
`DELETE` of a table gives it a new map.

Two goroutines at one Go map, one of them writing, may end the process, and so
does the nil database of `NilDatabase`. Everything the evaluator holds is in
memory, so `Crash` leads back to the initial state. Within one round of a sweep,
or one store, the unsynchronised accesses are one step.

Left out of the data: all fields of a document but one; its id is the key it is
stored under, and free for an object that is stored once more. Sessions are
allowed what they ask for, since `authorize` refuses before anything changes.
`REPLACE` of one document changes nothing and has no action. `TABLE_CREATE` ends
in `GetOrCreateTableDB`, as a query that reads. The history variable `acked` has
the keys whose insertion was reported, until their table is dropped or
emptied; `shared` marks the objects that a query asked to store once more, `dropped` marks a query whose database or table was dropped after it
looked it up.

### B-tree and tables

`BTree` keeps the nodes by block id. A call is one step, as calls are not
concurrent, but not atomic: a `Put` writes a leaf, splits it, inserts the
separator into the parent and splits that, or makes a new root, and any one of
the allocations on the way may fail (`Budgets`), in every `Put`, and leave the tree as
it is at that moment. `rootID` is kept in memory only. `KVMap` says what remains of the map
then: the `Put` reports an error, its own key may have either value, and one range
of keys may be gone (the right half of a root that was split before `createRoot`
failed). `ScanIsGet` compares `Scan`, which goes through all children of a node from the
one of its lower bound on and does not stop at the upper one, with `Get`, which goes down
to one leaf. Nothing reads the right links of the leaves at this commit (a comment says
they are for range scans); that they are right is part of `Balanced`.

`TableStorage` has the documents in `docs`, through the actions of `KVMap`, each with its
id and one field that indexes are on and that may be missing. `Insert` gets the id as an
argument besides and compares nothing; the model's callers give the id that the
document has, as the tests do, which are its only callers. `InsertDoc`, `UpdateDoc` and
`DeleteDoc` are the methods of `BTreeTable`, each with the changes of the indexes in
the order of the code: `UpdateDoc` merges before it reads the old value, so entries
under the old value stay. A changefeed is a channel of bounded capacity; `Send`
drops an event when it is full. An event has the old and the new value and no id: the
reader takes the id from the value (`About`). A `Put` that fails returns before
anybody is told, although documents may have changed. `listed` (the documents each
index was told of, as long as that is so) and `complete`/`view` (for each feed the
documents of which it lost nothing, and what its reader knows of them) are history:
dropping an event, or a failing `Put`, takes out the documents it was about, or
changed, and no others.

### Users and permissions

`Auth` has the four maps of the store, `users`, `usersByName`, `permissions` and
`userPerms`, and `auth.json`. A function of the store runs under its lock, with the
write of the file, and is one step; any write may fail, any number of them in a row,
and `persist` ignores that, as the code does. What was written is taken to stay: a
crash is the end of the process, since nothing syncs the file or its directory. Setting a password is two steps, since the handshake reads a user's keys
without the lock (`Torn` is what it may see in between, which opens nothing: no
password gives it). A request of the API is
admitted, then checked, then carried out, so that requests cross each other; a
session is a login or a SCRAM exchange with its two messages. A password stands
for the hash and keys derived from it. Signatures and expiry of tokens are left
out. The process may end between any two steps and starts again with `Load` and
`EnsureAdmin`.

### Wire protocol and pool

`Protocol` has the accept loop, one handler for each connection through the
handshake and the query loop, one goroutine for each `START`, and the client's end.
A response is two writes, so two steps, made by whichever goroutine has it. `waits`
are the clients that send the next query after the answer to the last one, which
is what `Conn` of `drivers/go` does, each with a new token; the others send as they
like, use `STOP` and `NOREPLY_WAIT` with any token, one that was used before too, stay
silent, and read garbled frames. `queries` is the map of the query loop by token,
from which the deferred function of a goroutine deletes whatever is under its token by
then. A response that cannot be marshalled is not sent. `Stop` closes the listener and
waits for the handlers; nothing is assumed of the clients, so a handler may wait for
one in the handshake or in a write, where the code has no deadline (`KeptByClient`). `Version` is the protocol the clients speak: with `V0_4`, the one the
drivers in the repository use, the server refuses the handshake.

`Pool` numbers the connections as they are created; `conns` is the set of the numbers
in the slice, which is in the order of creation, so that the first idle one is the
least. `Acquire`, `Release` and the
health check hold `p.mu` from beginning to end, dialling included; `Close` is three
steps, because it waits for the health check without the lock.

### Cluster

`ClusterOps` has the three managers with their locks. Sections of one lock are one
action; `jmu` and `target` say who holds `jm.mu` and `rm.mu` for longer. The goroutine
of a removal is the `pc` of its operation. `Transfers` has the goroutine that raises
the progress of a transfer and stores its end over whatever `CancelTransfer` stored;
`AcceptedEnds` leaves open how a cancelled transfer is reported.

`Membership` has every node's table of members. A call is one TCP connection, from
the health monitor or from a client that joins, forwards or replicates; the peer
answers, or its end closes the connection. A request that was sent arrives although its
sender has ended meanwhile, or is lost: `late` has those on their way, which the
server decodes and handles as any other (`rpc/server.go:96`-`105`). `checkHealth` goes through the members it
read at its beginning (`todo`) while nodes come and go. Addresses that lead nowhere
(`JoinCluster` sends one with two ports) are members outside `dialable`.

## Runs

| Run | Instance | What it shows |
|---|---|---|
| `raft_node` | 2 nodes, 3 terms, 3 entries, 1 lane; files: 2 writers, 4 entries, threshold 2 | entries at their indices, terms monotonic, leaders backed, `nextIndex` at least 1; the loop of `AppendEntries` computes `AppendNew` for every log and request that meet; what was appended is in the WAL or in the snapshot's data through errors and a crash at any step of a compaction, but for `lost` and `dropped`, and compaction keeps in memory what no snapshot has |
| `raft_elections` | 3 nodes, 2 terms, no loss, fairness | one vote per node and term; once timeouts stop, a leader, or all nodes candidates of one term |
| `raft_two_leaders` | 3 nodes, 3 terms | **violated**: two leaders in one term |
| `cache_store` | 2 goroutines, 3 blocks, room for 2 | implements `BlockStore` without `MayLose`; list, map and size are consistent |
| `cache_faulty` | 2 goroutines, 2 blocks, room for 1, failing writes, `Close`, crashes, fairness | implements `BlockStore` with `MayLose`; clean blocks are in the file, ids are fresh, every call returns |
| `table_storage` | tree: 4 keys, 2 values, nodes of 2 keys, 7 blocks, one `Put` that changes the tree and fails; table: 2 documents, 1 index or 1 feed of capacity 2, any `Put` may fail | the tree is balanced and implements `KVMap`, scans agree with lookups; the index finds what it was told of, a reader knows the documents of which no event was dropped |
| `reql_tables` | 2 queries, 1 database beside the default one, 1 table; in one life of the process 2 databases, 2 tables, 2 maps and 1 document, or 2 documents, 1 generated id, nested `GET`s and no drops | one `Table` for all queries, a nil database only after a drop, a document under every reported key, documents shared only where a query asked for it |
| `auth` | 2 users, 2 names, 2 passwords, 1 database, 2 requests, 1 session; two of them at work at a time; no two writes in a row fail | the maps agree, access is current, the file is the store unless its last write failed, a session is opened by a password the user had during the handshake |
| `clients` | 2 clients that wait, with 2 queries each, or 1 that does not, with 3, the third a `STOP`; no fairness of clients; pool: 3 callers, 1 to 2 connections, 5 created in all | answers go to their queries, `STOP` finds its query unless its token was used again, `Stop` returns unless a client keeps its handler; connections are exclusive and none leaks |
| `driver_connects` | the same with `V0_4` | **violated**: `Connect` fails while the server runs |
| `cluster_ops` | 2 nodes, 2 requests, 1 token, 2 removals; 2 transfers of 2 steps; fairness | a token admits one node, removals meet no error, what is under way is listed, what was accepted ends |
| `membership` | 2 nodes that both stop, crash and start, one of them a caller, 1 request of an ended process on its way at a time; fairness | who left stays out, the dead are noticed, the living seen, calls and `Stop` end |

The type invariant of a module, where it has one, is checked too: for `Raft` by
itself, elsewhere as the first conjunct of another invariant.

Why the bounds are enough for the cases of interest. Two nodes suffice for the
log: a leader and a follower that swap roles through three terms meet
conflicting, missing, repeated, torn and stale entries. Votes need three nodes:
with two, nobody can be asked by two candidates. Two leaders need a third term,
since the stale vote has to be outlived by a whole election. With four entries and
a threshold of two, entries are proposed before, during and between two compactions,
the log is cut, and a second snapshot goes over the first. With three blocks and room for two the cache
evicts blocks it has put and reads back blocks it has evicted; with one value and
the zero block, stale reads are seen. Four keys in leaves of two make a tree of
three levels, with splits of leaves, of inner nodes and of the root. Two queries
are enough for the evaluator's races, which are between pairs; its bounds count
objects, that is the creations in one life of the process: a table can be created,
dropped and created again, or emptied once, and (where nothing is dropped) a document
given by a client stands beside one with a generated id; drops beside several
documents, and a database that is made, dropped and made again in one life, are left to
the theorems. Two events in a channel can be about one
document or about two, and with a third one is dropped. Trees that more than one `Put`
has left half done are left to the theorems too, where any number may fail.
A third query is what a `STOP` needs to meet a token that two queries have used. Requests of the user store race in pairs
too, with a session, and ids are never used twice, so two users are one that is
deleted and one that takes its name. Three callers and two connections make the
pool meet its limit; five connections let each be replaced twice. One token and two
requests are the race for a token, two removals that of a node removed twice.

Fairness is what the Go runtime and the code give:

* A goroutine that can run does run (weak fairness of its steps): tickers of Raft
  and of the health monitor keep firing, handlers and query goroutines go on, every
  query's evaluation ends.
* A goroutine that waits for a mutex gets it (strong fairness of `AllocateLocks`,
  `CloseEnds` and `executeRemoval`): `sync.Mutex` hands the lock over to a goroutine
  that has waited for a millisecond.
* A server that is up handles what arrives, and a peer that ends closes its
  connections.
* The deadline of the query loop's read, ten minutes, passes. A write to a client
  returns once the client has read what was written before or the connection is
  closed; whether a client reads, or goes on with the handshake, is left to it, and
  `StopEnds` names the two places where a client keeps `Stop` waiting for that reason.

In `raft_elections` nothing is concluded from the end of the terms. That followers time
out for ever, each time with a new term, is excluded by the condition of the property
(`TimeoutsStop`), not by the bound; a behaviour in which timeouts stop has a last term,
of which the bound only limits the number. The stuck states are those where every
node is a candidate of one term, and a candidate never starts a new term.

Deadlock is not checked: a bounded run ends at its last term or object.

### Findings

* A vote is counted whatever term it was granted in (`raft.go:156`-`163`):
  `raft_two_leaders`.
* The server refuses the protocol version that its own drivers speak
  (`server.go:266`, `drivers/go/connection.go:101`): `driver_connects`.

### Observations

What the models contain as the code does it, and what therefore no property claims:

* A candidate never starts a new term (`raft.go:127`), so a split vote is for ever, and
  followers may outbid each other for ever: `LeaderOrSplitVote` is as much as holds.
* The fields marked persistent are not persisted (`raft.go:16`): with restarts,
  `VoteOnce` does not hold.
* `Compact` cuts the log of a node whose handlers take positions for indices
  (`compaction.go:79`), and a snapshot's log is not restored (`compaction.go:107`).
* A snapshot has the log as it is in memory, of which the last compaction has cut the
  front (`compaction.go:58`), and goes over the snapshot that had the rest.
* `evict` ignores the error of its write-back (`page_cache.go:172`): a block may
  fall back to its last flushed value, hence `MayLose`.
* `DELETE` of one document searches a table list that nothing fills
  (`evaluator.go:512`) and leaves the document where it is.
* A cancelled transfer goes on and is reported completed (`transfer.go:71`); a
  completed removal is never swept, so that a node can be removed only once
  (`remove.go:40`).
* `ReplicateToAll` reports success whatever happened (`replication.go:158`).
* `UpdateDoc` leaves stale index entries and takes a document out of the index when
  the update does not name the field (`btree_table.go:126`-`134`).
* Nothing advances a leader's `commitIndex` (`raft.go:258`).
* `UPDATE` of a whole table brings back documents that a `DELETE` removed beside it
  (`evaluator.go:429`), and generated ids count the documents, so that two `INSERT`s at
  a time may overwrite each other (`evaluator.go:307`). `INSERT` of what `GET` found puts
  one object at two keys (`evaluator.go:302`), and an update of the one changes the other.
* A `Put` that fails may have changed documents of which no index and no changefeed is
  told (`btree_table.go:60`, `148`).
* A heartbeat waits without a deadline once it is connected (`rpc/server.go:265`): a
  peer that hangs without closing stops the health monitor.
* A request keeps the user it was admitted with (`api/middleware.go:19`), and the last
  administrator may be deleted (`auth/store.go:218`). A write of `auth.json` that fails is
  reported as a success (`auth/store.go:152`).
* `STOP` cancels a context nobody looks at (`server.go:374`), and `NOREPLY_WAIT` is
  answered at once (`server.go:384`). A query that ends deletes the entry of its token,
  also when a later query has it (`server.go:350`), which no `STOP` finds then.
* A client that is silent in the handshake (`server.go:135`), or reads nothing
  (`server.go:416`), keeps `Stop` waiting.

## Proofs

A theorem holds for every value of its module's constants: any number of nodes,
goroutines, connections, blocks, users and requests, and any value of the bounds.
Bounds are constants: they limit how many objects, messages or steps there are, in the
guard of what would make one more. A restriction that is meant for TLC alone (one failing
`Put` in `MCTable`, what the third query is in `MCClients`, drops or several documents in
`MCEvaluator`, two requests at work and no two failing writes in a row in `MCAuth`) is in the MC module, and no theorem has it.

| Module | Theorem | States |
|---|---|---|
| `RaftProofs` | `TypeCorrect` | `Spec => []TypeOK` |
| `RaftProofs` | `PositionsCorrect` | `Spec => []IndexIsPosition` |
| `RaftProofs` | `TermsCorrect` | `Spec => TermMonotonic` |
| `RaftProofs` | `VotesCorrect` | `Spec => []VoteOnce` |
| `RaftProofs` | `LeadersCorrect` | `Spec => []LeaderHasBackers` |
| `RaftProofs` | `LoopCorrect` | `Spec => []LoopComputesAppendNew` |
| `RaftProofs` | `DurableHolds`, `KeepsNewHolds` | `StoreSpec => []Durable`, `[]KeepsNew` |
| `PageCacheProofs` | `ImplementsStoreHolds` | `Spec => ImplementsStore`, the refinement of `BlockStore` |
| `PageCacheProofs` | `OneElementEachHolds`, `CleanIsWrittenHolds`, `FreshIdsHolds` | `Spec => []OneElementEach`, `[]CleanIsWritten`, `[]FreshIds` |
| `TableProofs` | `IndexFindsHolds`, `FeedKnowsHolds` | `TableSpec => []IndexFinds`, `[]FeedKnows` |
| `TableProofs` | `BalancedHolds`, `ScanIsGetHolds` | `Spec => []Balanced`, `[]ScanIsGet` of `BTree` |
| `TableProofs` | `TreeIsMap` | `Spec => ImplementsMap`, the refinement of `KVMap` |
| `ClusterProofs` | `TokenAdmitsOneHolds`, `RemovalNeverFailsHolds`, `UnderWayIsListedHolds` | `Spec => []TokenAdmitsOne`, `[]RemovalNeverFails`, `[]UnderWayIsListed` |
| `MembershipProofs` | `LeftStaysOutHolds` | `Spec => []LeftStaysOut` |
| `EvaluatorProofs` | `OneTableHolds`, `ReportedKeyIsFoundHolds`, `SharedOnRequestHolds` | `Spec => []OneTable`, `[]ReportedKeyIsFound`, `[]SharedOnRequest` |
| `AuthProofs` | `MapsAgreeHolds`, `AccessIsCurrentHolds`, `FileIsCurrentHolds`, `OpenedByPasswordHolds` | `AuthSpec => []` of the four invariants |
| `ClientProofs` | `ExclusiveHolds`, `NoneLeaksHolds` | `PoolSpec => []Exclusive`, `[]NoneLeaks` |
| `ClientProofs` | `AnswerIsOwnHolds`, `StopFindsHolds` | `ProtoSpec => []AnswerIsOwn`, `[]StopFinds` |

Each component has one inductive invariant, proved by a theorem or lemma of its own
(`ClusterInvariant`, `PoolInvariant`, `PortInvariant`, `StoreInvariant`,
`CacheInvariant`, `EvalInvariant`, `AuthInvariant`, `TreeInvariant`), of which the listed ones are consequences.

### Assumptions

The assumptions are the `ASSUME`s of the modules; TLC evaluates them in every run
that extends the module. They say that bounds are naturals, that a subset is one
(`Admin` of `User`, `Callers` of `Node`), that `Node` of `Raft` is finite, that a
snapshot threshold is at least 2 (half of it is kept), that a node of the tree has room for
two keys (50 and 250 in the code) and the tree for one block, that keys are integers (the
code's are byte strings, of which the tree only uses the order), that `Evaluator` has a name for a
database and for a table, a value and room for the default database, that the administrator of the
configuration has a name and a password, and that the values that stand for
"nothing" (`None`, `Missing`, `NoVote`, `NoThread`, `Absent`, `Torn`) are none of the values they
are distinguished from. Nothing is assumed of the code.

### Arguments

* **Raft, types and positions** are proved together: `LogInv == TypeOK /\
  IndexIsPosition`. Neither is inductive alone. `AppendEntries` looks an entry
  up by `PrevLogIndex` as a position, so a follower's log stays well formed
  only because the entries of the request stand at consecutive positions; those
  are a slice of the leader's log that was taken earlier, possibly torn by
  conflicting truncations since, so `IndexIsPosition` also speaks of the
  requests in flight. Lemmas about `SubSeq` and concatenation (a log cut by
  `prevIndex` and continued by the request has no gap) carry the argument.
* **Terms**: each action leaves the term alone, raises it by one, or sets it to
  one it has just compared with; `TypeOK` makes the comparison meaningful.
* **Votes**: `VoteInv` adds `NoSelfCalls` (no goroutine asks its own node),
  `VotesForSelf` (candidates and leaders have voted for themselves),
  `GrantsAreCurrent` (a grant is of a term the voter has reached, and if it is
  the voter's current term, the voter is a follower whose `votedFor` is that
  candidate) and `GrantsAreUnique`. The strengthening is needed because
  `AppendEntries` resets `votedFor` without changing the term: the reset only
  meets candidates, and `GrantsAreCurrent` says that those have granted nothing
  in that term.
* **Leaders**: `BackInv` adds that a call carries a term its candidate has
  reached (`CallTerms`), that a goroutine about to count, or done counting, has a
  grant in some such term (`GrantedCalls`), and that the counter of an election
  is at most one more than the goroutines that have counted (`CountsBounded`).
  A majority in the counter is then a majority of distinct backers. The
  theorem says no more than that, since the code does not: the votes may come
  from different terms, which is what `raft_two_leaders` exhibits.
* **The loop of `AppendEntries`**: `AppendLoop` is a recursive function of the rounds, and
  what it computes is shown by induction over them. The induction principle is derived
  in the module (`RoundsInduction`): a claim, as a set of numbers, that is not all of them has
  a least exception, by `WFMin` and the order of the naturals. After round `i` the log is what
  `AppendNew` gives for the first `i` entries of the request (`RoundComputesAppendNew`).
* **Raft's files**: `CompactInv` says that the snapshot being written goes as far as
  the one before it, and that the WAL is cut only up to the snapshot that
  is in the file; so what left the WAL is not newer than the snapshot (`Indexed`). That it is
  in the snapshot's data is `DataInv`: a whole file has every entry up to its last
  index but for those dropped, and while the file is not whole the log in memory has them,
  since the log is cut only after the file was written. `StoreLogInv` says that the
  log in memory has no gap, ends with the last entry proposed and begins at most one
  after the last snapshot, unless the node is `crowded`: the cut of `Compact` counts
  the entries to keep from the end of a log that has grown since.
* **Page cache**: `ListInv` (map and list agree) and `CleanInv` are not inductive,
  since a method is between its steps elsewhere. `CallsInv` says of every goroutine
  what it may rely on: one that is adding holds `c.mu` and has an id that is not
  cached, with the block that is in the file if it read it; one that allocates has an
  id nobody else has (`OwnIds`), below `nextID` and inside the file; one that flushes has
  left nothing dirty behind it. `FileInv` says that slots from `nextID` on have never been
  written, so that an id is fresh whatever the size a crash leaves. `SurviveInv`
  accounts for what the disk may hold of each block.
* **Page cache implements `BlockStore`**: `InitKeeps` maps initial states;
  then the lemma of each action (`GetHitKeeps` ... `RestartKeeps`), which shows that it
  preserves `CacheInv`, also shows that it is the step of `BlockStore` it stands for or
  a stutter: a `Get` reads the mapped value by `CleanInv`,
  eviction leaves it since it drops clean blocks or writes them back, a failing write
  is a `Lose`, which `MayLose` allows, a crash chooses one of `survive` by `SurviveInv`.
  The invariant and the steps are combined by `PTL`.
* **Table storage**: `TableInv == TableTypeOK /\ IndexFinds /\ FeedInv`. What adding an id to a
  value's list and taking it out again do to the sets of ids is proved for lists as
  values (`AddFinds`, `RemoveFinds`); each change of a document then keeps what every index
  was told of (`Kept`). For feeds, `Told` says that the last waiting event about a document
  is its current state, or that none waits and the reader's view is; appending an event and
  reading the first one both keep it (`ToldAppend`, `ToldTail`), so the length of the channel
  does not matter. It is said of one document at a time, so a dropped event, or a `Put` that failed
  (`FailureTells`), costs what the reader knows of the documents concerned and of no others;
  what is forgotten is about those only (`ForgetKeeps`). That the value in an event names the document
  (`AboutId`) needs that a document is stored under its own id, which is part of the types.
* **B-tree, the invariant**: `TreeInv` says that the tree is `Good`: there are a level and a set
  of keys for every node (`TreeOK`) such that the children of a node are one level below it, a child's keys are keys of the
  node that lead to this child, the node's own keys are among its set with one below each
  separator (so that no half of a split is empty), and no node is the child of two. The right half of a split whose parent was never told (`Orphan`) is a node
  like any other, so `Good` also holds after failures; while nothing has failed, `TreeInv` adds
  that the leaves are linked in the order of their keys and no node is full. `Balanced` follows
  since a level is a `Height`.
* **B-tree, recursive functions**: `LeafFor`, `put`, `scan` and `Height` recurse along the
  children, not along numbers. For each the module proves that the function exists, by its
  values level by level, and only then unfolds it; claims about nodes are shown from the leaves
  up (`BottomUp`). `On` is the set of nodes on the way of a key.
* **B-tree, `Put`**: at each node on the way of the key the call below returns one of four
  outcomes (`Outcome`): the tree is done, a full node waits for its half to be told to the parent
  (`Pending`), a new root was put on top (`Raised`), or an allocation failed (`Failed`); `PutOutcome`
  carries that one level up. What a split does is proved once for both kinds of node
  (`Apart`), told to the parent (`Join`) or under a new root (`Top`). A split moves only keys from its
  separator on (`Moved`), and the keys whose way leads through one node are an interval
  (`OnConvex`): therefore a failed `Put` loses one range and nothing else (`PutFails`), and a
  successful one nothing.
* **B-tree, `Scan`**: `Lists` says that a sequence has exactly the entries between two bounds, in
  order. A leaf's slice is such a list; lists of consecutive children, flattened, are the list of
  their parent (`ScanNode`), as no key of a child is at or above the next separator.
* **Joining and removal**: a token that let a node in is gone or marked, and its name
  is never issued again (`TokensInv`); the request between validating and
  admitting holds `jm.mu`, its node is no member and its token unused (`JoinsInv`). A
  removal's operation is in the table while its goroutine runs (`OpsInv`), which
  is why no second removal finds the member gone. That a new operation is a fresh object
  needs that the objects in use come first (`UsedInv`).
* **Membership**: `LeftStaysOut` is inductive with the types. One lemma per operation of
  `ClusterManager` says what it does to the table; only `AddNode` enters an absent node. What a
  server does for a request is the same whether its sender still lives (`DispatchEffect`),
  so `LateKeepsLeft` follows as for the others.
* **Pool**: `PoolPhase` ties the health check and the counters to the life of the pool.
  That `Cardinality` stays within `MaxConns` is arithmetic of finite sets. That
  `Acquire` finds the first idle connection uses the least-number principle
  (`LeastNumber`, from `WFMin` of the library): where there is an idle one, there is a
  least.
* **Protocol**: a client that waits is in one of the stages of the handshake (`Shaking`)
  or of a query (`Asking`), each of which fixes the client's and the handler's place and
  the at most two messages between them; `OneAtATime` says that one goroutine at
  most has something to send. `AnswerIsOwn` is read off; it could not be proved alone, as
  a second query under way would break it. Of every other client too it is said that queries are
  numbered and have no token before they are read (`Numbered`), and that a goroutine's query stands in
  the map under its token unless the token was read twice (`Found`); `StopFinds` is read off.
  `Numbered` is needed because the goroutine of a query must not exist when the query is read.
* **Evaluator**: `EvalInv` has six parts, each with the variables as parameters, so
  that one lemma on values (`NewTableOK`, `DropTableOK`, `NewMapOK`, `PutDocOK`, ...) serves
  every action that makes the change. `CatalogOK` and `StoreOK` say that an object has one
  name and one owner and that objects not made yet are nowhere. `Current` says that the
  database or table a query holds is known by the query's own names and no other, even
  after it was dropped: that is why `DELETE` of a table that is not the current one loses
  nothing reported, and why a `TABLE_DROP` marks all who held what it dropped. `OneHome` is
  the strengthening of `SharedOnRequest`: it also speaks of the old maps that sweeps
  still go through (`Holds`), since a sweep stores what it finds there into the map its table
  has by then. `FreshOK` says that the document of an insertion is in no map before it is
  stored, and in no other insertion, unless it is shared. Whether an insertion or a sweep got a new
  object or one that a table has, what follows is one argument (`Given`, `NewIsGiven`,
  `SharedIsGiven`).
* **Users**: what each change does to the maps is proved for maps as values
  (`CreateOK`, `DeleteOK`, `GrantOK`, `RevokeOK`, `LoadOK`), apart from who makes it
  and when; so the same lemmas serve the request, `EnsureAdmin` and the restart. `MapsAgree`
  speaks of the union of the lists; the invariant says of each list that it has
  exactly its user's keys, which `Delete` needs. The handshake reads keys
  without the lock: `SessionInv` says that what it read is a password the user had or
  got since it began, or `Torn`, which opens nothing.

### Only model-checked

* Liveness (`LeaderOrSplitVote`, `CallsReturn`, `AcceptedEnds`, `DeadIsNoticed`,
  `LiveIsSeen`, `CallsEnd`, `StopEnds`): fairness and `ENABLED` are beyond the prover.
* `ElectionSafety` and `DriverConnects`, which do not hold (Findings): a counterexample of
  TLC is what there is to show.

Every invariant and every step property that a passing run checks is a theorem.

## The plan

1. The WebSocket hub of `internal/api` and the manager of transactions.
2. Direct readers of the block file on its shared offset, and its header.
3. The order on values (`pkg/datum`), joins and aggregations as operators against a
   reference.

## Not modelled

* The parser, geometry, joins and aggregations: pure translation of terms.
* `pkg/datum` and configuration: conversion of values; nothing that two steps
  could get wrong between them.
* Transactions: a state and a list of operations under one lock; `Commit` applies
  nothing at this commit.
* The WebSocket hub: one goroutine owns its state.
* HTTP handlers other than those of users, permissions, tokens and nodes: each
  translates a request into one call of a component.
* The rebalancer, which plans no transfers at this commit.
* The command line, the dashboard and the drivers in TypeScript and Rust.
* Cryptography: a password stands for what is derived from it.
* Sizes: a node of the tree fits its block, a message fits its limit.
