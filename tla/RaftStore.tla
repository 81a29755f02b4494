----------------------------- MODULE RaftStore -----------------------------
(***************************************************************************)
(* What a Raft node keeps in files: the write-ahead log, the snapshot and  *)
(* the compaction that moves the one into the other, with a crash or an    *)
(* error at every step.                                                    *)
(*                                                                         *)
(* One leader of one term proposes; an entry is its index.  Nothing in the *)
(* repository calls WAL.Append: a writer that proposes and then appends is *)
(* what its tests suggest.  A behaviour ends with the start after a crash, *)
(* since nothing reads the write-ahead log back.  A crash is the end of    *)
(* the process: what was written stays, synced or not.  The file of the    *)
(* WAL is the set of its entries: an index is appended once, and their     *)
(* order, which is the one the writers got the lock in, is left open.      *)
(***************************************************************************)
EXTENDS Integers, SequencesExt, FiniteSetsExt

CONSTANTS
    Writer,
    SnapshotThreshold,
    MaxIndex            \* bound: entries

ASSUME RaftStoreAssumption ==
    SnapshotThreshold \in Nat \ {0, 1} /\ MaxIndex \in Nat

VARIABLES
    node,               \* "up", "down", "restored"
    entries,            \* r.log, by index
    pending,            \* the entry of a writer that is not in the WAL yet, or 0
    acked,              \* entries that WAL.Append has returned for
    wal,                \* the entries in the file of the WAL
    walFile,            \* "ok"; "stuck": the encoder keeps a write error; "closed"
    snapshot,           \* LastIndex (0: none) and Data of the last snapshot written, and whether the file is whole
    lastSnapshotIndex,
    commit,             \* r.commitIndex
    compact,            \* where Compact is, and its variables
    lost, dropped, crowded  \* history; see the properties

storeVars == <<node, entries, pending, acked, wal, walFile, snapshot, lastSnapshotIndex,
               commit, compact, lost, dropped, crowded>>

CompactState == [at : {"idle", "create", "write", "truncate", "rewrite", "cut"},
                 last : 0..MaxIndex, data : SUBSET (1..MaxIndex), rest : SUBSET (1..MaxIndex)]

NoCompact == [at |-> "idle", last |-> 0, data |-> {}, rest |-> {}]

StoreInit ==
    /\ node = "up" /\ entries = <<>> /\ commit = 0
    /\ pending = [w \in Writer |-> 0] /\ acked = {}
    /\ wal = {} /\ walFile = "ok" /\ lastSnapshotIndex = 0
    /\ snapshot = [last |-> 0, data |-> {}, whole |-> TRUE]
    /\ compact = NoCompact /\ lost = {} /\ dropped = {} /\ crowded = FALSE

LastIndex == IF entries = <<>> THEN 0 ELSE Last(entries)

-----------------------------------------------------------------------------
(* Writers.                                                                *)

\* QuorumWrite returns after Propose: the leader alone has the entry.
QuorumWrite(w) ==
    /\ node = "up" /\ pending[w] = 0 /\ LastIndex < MaxIndex
    /\ entries' = Append(entries, LastIndex + 1)
    /\ pending' = [pending EXCEPT ![w] = LastIndex + 1]
    /\ UNCHANGED <<node, acked, wal, walFile, snapshot, lastSnapshotIndex, commit, compact, lost, dropped, crowded>>

\* w.mu is free: Truncate is not at work.
WALFree == compact.at # "rewrite"

\* Written and synced, and only then acknowledged.  An error of the write stays
\* in the encoder, which refuses from then on; an error of Sync is returned too,
\* but the entry is in the file.
WALAppend(w) ==
    /\ node = "up" /\ pending[w] # 0 /\ WALFree
    /\ \/ walFile = "ok" /\ wal' = wal \cup {pending[w]} /\ acked' \in {acked, acked \cup {pending[w]}} /\ UNCHANGED walFile
       \/ walFile = "ok" /\ walFile' = "stuck" /\ UNCHANGED <<wal, acked>>
       \/ walFile # "ok" /\ UNCHANGED <<wal, acked, walFile>>
    /\ pending' = [pending EXCEPT ![w] = 0]
    /\ UNCHANGED <<node, entries, snapshot, lastSnapshotIndex, commit, compact, lost, dropped, crowded>>

-----------------------------------------------------------------------------
(* Compact.  Its steps hold cm.mu; r.mu is held in the first and the last. *)

\* ShouldCompact is asked by the caller, and may be left out: any time will do.
\* The snapshot is to have the log as it is now, of which an earlier Compact may
\* have cut the front.
Compact ==
    /\ node = "up" /\ compact = NoCompact
    /\ compact' = [at |-> "create", last |-> LastIndex, data |-> ToSet(entries), rest |-> {}]
    /\ dropped' = dropped \cup ((1..LastIndex) \ ToSet(entries))
    /\ UNCHANGED <<node, entries, pending, acked, wal, walFile, snapshot, lastSnapshotIndex, commit, lost, crowded>>

\* os.WriteFile opens the file and empties it before it writes.
CreateTruncates ==
    /\ node = "up" /\ compact.at = "create"
    /\ \/ snapshot' = [snapshot EXCEPT !.whole = FALSE] /\ compact' = [compact EXCEPT !.at = "write"]
       \/ compact' = NoCompact /\ UNCHANGED snapshot
    /\ UNCHANGED <<node, entries, pending, acked, wal, walFile, lastSnapshotIndex, commit, lost, dropped, crowded>>

\* When the write fails the file stays cut off and Compact returns.
Create ==
    /\ node = "up" /\ compact.at = "write"
    /\ \/ /\ snapshot' = [last |-> compact.last, data |-> compact.data, whole |-> TRUE]
          /\ compact' = [compact EXCEPT !.at = "truncate"]
       \/ compact' = NoCompact /\ UNCHANGED snapshot
    /\ UNCHANGED <<node, entries, pending, acked, wal, walFile, lastSnapshotIndex, commit, lost, dropped, crowded>>

\* A mutant: everything up to now is taken to be in the snapshot.
RemainingNow(index) == {i \in wal : i > LastIndex}

Remaining(index) == {i \in wal : i > index}

\* The file is read and recreated, empty, with a new encoder.  When that fails it
\* stays as it was, but closed.
Truncate ==
    /\ node = "up" /\ compact.at = "truncate"
    /\ \/ walFile = "closed" /\ compact' = NoCompact /\ UNCHANGED <<wal, walFile>>
       \/ /\ walFile # "closed" /\ walFile' = "ok" /\ wal' = {}
          /\ compact' = [compact EXCEPT !.at = "rewrite", !.rest = Remaining(compact.last)]
       \/ walFile # "closed" /\ walFile' = "closed" /\ compact' = NoCompact /\ UNCHANGED wal
    /\ UNCHANGED <<node, entries, pending, acked, snapshot, lastSnapshotIndex, commit, lost, dropped, crowded>>

\* What remains is written again, one entry after the other, and synced; an error
\* gives up the rest and the compaction.
Rewrite ==
    /\ node = "up" /\ compact.at = "rewrite"
    /\ \/ /\ compact.rest = {} /\ compact' \in {NoCompact, [compact EXCEPT !.at = "cut"]}
          /\ UNCHANGED <<wal, walFile, lost>>
       \/ \E i \in compact.rest :
            /\ wal' = wal \cup {i} /\ compact' = [compact EXCEPT !.rest = @ \ {i}]
            /\ UNCHANGED <<walFile, lost>>
       \/ /\ compact.rest # {} /\ lost' = lost \cup compact.rest
          /\ walFile' = "stuck" /\ compact' = NoCompact /\ UNCHANGED wal
    /\ UNCHANGED <<node, entries, pending, acked, snapshot, lastSnapshotIndex, commit, dropped, crowded>>

\* A mutant: one entry too few is kept.
KeptTooFew == SubSeq(entries, Len(entries) - SnapshotThreshold \div 2 + 2, Len(entries))

\* The last threshold/2 entries.
Kept == SubSeq(entries, Len(entries) - SnapshotThreshold \div 2 + 1, Len(entries))

CutLog ==
    /\ node = "up" /\ compact.at = "cut"
    /\ entries' = IF Len(entries) > SnapshotThreshold THEN Kept ELSE entries
    /\ crowded' = (crowded \/ LastIndex - compact.last > SnapshotThreshold \div 2)
    /\ lastSnapshotIndex' = compact.last
    /\ compact' = NoCompact
    /\ UNCHANGED <<node, pending, acked, wal, walFile, snapshot, commit, lost, dropped>>

-----------------------------------------------------------------------------
(* A crash, and the start after it.                                        *)

CrashNode ==
    /\ node = "up" /\ node' = "down"
    /\ lost' = IF compact.at = "rewrite" THEN lost \cup compact.rest ELSE lost
    /\ entries' = <<>> /\ commit' = 0 /\ lastSnapshotIndex' = 0
    /\ compact' = NoCompact /\ pending' = [w \in Writer |-> 0]
    /\ UNCHANGED <<acked, wal, walFile, snapshot, dropped, crowded>>

\* A snapshot that is cut off is an error, and nothing is restored.  The log of
\* a snapshot is decoded as generic JSON, which is no log: it stays empty.
RestoreFromSnapshot ==
    /\ node = "down" /\ snapshot.whole
    /\ node' = "restored"
    /\ commit' = snapshot.last
    /\ lastSnapshotIndex' = snapshot.last
    /\ UNCHANGED <<entries, pending, acked, wal, walFile, snapshot, compact, lost, dropped, crowded>>

StoreNext ==
    \/ \E w \in Writer : QuorumWrite(w) \/ WALAppend(w)
    \/ Compact \/ CreateTruncates \/ Create \/ Truncate \/ Rewrite \/ CutLog
    \/ CrashNode \/ RestoreFromSnapshot

StoreSpec == StoreInit /\ [][StoreNext]_storeVars

-----------------------------------------------------------------------------
(* Properties.                                                             *)

\* An entry that WAL.Append has returned for is in the WAL or in the data of the
\* snapshot, whatever fails, whenever the node crashes and however the writers are
\* ordered.  While the file of the snapshot is not whole, what only the snapshot
\* before had is in memory, from where the next one takes it, and a crash loses
\* it.  Two kinds of entries are excepted: those newer than the snapshot whose
\* rewriting was cut short (lost), and those that an earlier compaction had cut
\* from memory when the last one began (dropped): its snapshot goes over the one
\* that had them.
Durable ==
    \A i \in acked \ (lost \cup dropped) :
        \/ i \in wal \cup compact.rest
        \/ snapshot.whole /\ i \in snapshot.data
        \/ ~snapshot.whole /\ i <= snapshot.last /\ (node = "up" => i \in ToSet(entries))

\* The log in memory ends with the last entry proposed and has every entry that
\* no snapshot covers, as long as not more than half the threshold was proposed
\* while Compact was at work (crowded); beyond that, entries are dropped that
\* were neither sent nor put into the snapshot.
KeepsNew ==
    node = "up" /\ ~crowded =>
        /\ \A i \in DOMAIN entries : entries[i] = LastIndex - Len(entries) + i
        /\ \A i \in acked : i <= LastIndex
        /\ (lastSnapshotIndex + 1)..LastIndex \subseteq ToSet(entries)
=============================================================================
