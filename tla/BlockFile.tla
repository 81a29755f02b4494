----------------------------- MODULE BlockFile -----------------------------
(***************************************************************************)
(* blocks.db, as internal/storage/file_serializer.go reads and writes it.  *)
(* Every method of FileSerializer that writes holds s.mu for all of its    *)
(* seek and write, so each is one step.  A block is a value: nothing in    *)
(* this layer looks into one.                                              *)
(*                                                                         *)
(* The file is what read and write see.  What a power failure leaves of it *)
(* is up to the operating system: disk[i] is the set of values that slot i *)
(* may then hold, synced the number of slots that are then sure to exist.  *)
(***************************************************************************)
EXTENDS Integers

CONSTANTS
    Value,      \* what callers store in blocks
    Zero,       \* a block of zeros: a hole of the file, a deleted block
    MaxBlock    \* bound: block ids

ASSUME BlockAssumption == MaxBlock \in Nat /\ Zero \notin Value

Content == Value \cup {Zero}
Slot == 0..MaxBlock             \* slot 0 is never a block: InvalidBlockID
Id == 1..MaxBlock

VARIABLES
    file, size, nextID,         \* the slots, how many exist, s.nextID
    disk, synced                \* external: what outlives a power failure

fileVars == <<file, size, nextID, disk, synced>>

FileTypeOK ==
    /\ file \in [Slot -> Content]
    /\ size \in 0..(MaxBlock + 1)
    /\ nextID \in 1..(MaxBlock + 1)
    /\ disk \in [Slot -> SUBSET Content]
    /\ synced \in 0..(MaxBlock + 1)

FileInit ==
    /\ file = [i \in Slot |-> Zero]
    /\ size = 0
    /\ nextID = 1
    /\ disk = [i \in Slot |-> {Zero}]
    /\ synced = 0

\* Seek and write: a write behind the end of the file makes it longer.
WriteSlot(id, v) ==
    /\ file' = [file EXCEPT ![id] = v]
    /\ size' = IF id >= size THEN id + 1 ELSE size
    /\ disk' = [disk EXCEPT ![id] = @ \cup {v}]
    /\ UNCHANGED synced

\* BlockWrite of a block that has an id, and with InvalidBlockID.
BlockWrite(id, v) == WriteSlot(id, v) /\ UNCHANGED nextID
BlockWriteNew(v) == WriteSlot(nextID, v) /\ nextID' = nextID + 1

\* The write fails, when the id has been taken already.
BlockWriteNewFails == nextID' = nextID + 1 /\ UNCHANGED <<file, size, disk, synced>>

\* BlockRead refuses these ids; it finds a slot behind the end to be missing.
Unreadable(id) == id = 0 \/ id >= nextID \/ id >= size

BlockDelete(id) == BlockWrite(id, Zero)

\* Flush: file.Sync().
SkipSync == UNCHANGED fileVars      \* mutant: the file is not synced
Sync ==
    /\ disk' = [i \in Slot |-> {file[i]}]
    /\ synced' = size
    /\ UNCHANGED <<file, size, nextID>>

\* After a crash or power failure the file is opened anew, with s slots.
NextIdOneLess(s) == IF s <= 1 THEN 1 ELSE s - 1     \* mutant: the last block's id
NextId(s) == IF s = 0 THEN 1 ELSE s
NewFileSerializer ==
    \E s \in synced..size :
        /\ file' \in {f \in [Slot -> Content] :
                        \A i \in Slot : IF i < s THEN f[i] \in disk[i]
                                        ELSE f[i] = Zero}
        /\ size' = s
        /\ nextID' = NextId(s)
        /\ disk' = [i \in Slot |-> {file'[i]}]
        /\ synced' = s
=============================================================================
