------------------------------- MODULE BTree -------------------------------
(***************************************************************************)
(* The B-tree of internal/btree over the blocks of the page cache.         *)
(*                                                                         *)
(* One call runs at a time.  Reading and writing a cached block does not   *)
(* fail here; Allocate does when the block file cannot grow, and the tree  *)
(* then stays as the call left it.  A node is kept as its keys, values and *)
(* children: every entry is assumed to fit into its block, as MaxLeafKeys  *)
(* does (NewBlockFromData cuts longer data off).                           *)
(*                                                                         *)
(* Positions count from 1, and the binary searches are the counts they     *)
(* compute on sorted keys.                                                 *)
(***************************************************************************)
EXTENDS Integers, Sequences, SequencesExt, FiniteSets

CONSTANTS
    Key, Value, None,
    MaxLeafKeys,        \* 50 in the code
    MaxInternalKeys,    \* 250 in the code
    MaxBlock            \* bound: blocks

ASSUME BTreeAssumption ==
    /\ Key \subseteq Int /\ None \notin Value
    /\ MaxLeafKeys \in Nat \ {0, 1} /\ MaxInternalKeys \in Nat \ {0, 1}
    /\ MaxBlock \in Nat \ {0}

VARIABLES
    blocks,     \* the nodes, by block id
    rootID,     \* BTree.rootID
    lastErr,    \* whether the last call returned an error
    failed      \* history: whether a Put has failed

vars == <<blocks, rootID, lastErr, failed>>

Leaf(keys, values, right) == [type |-> "leaf", keys |-> keys, values |-> values, right |-> right]

Internal(keys, children) == [type |-> "internal", keys |-> keys, children |-> children]

NewLeafNode == Leaf(<<>>, <<>>, 0)

New == blocks = <<NewLeafNode>> /\ rootID = 1

-----------------------------------------------------------------------------
(* Nodes.                                                                  *)

LeafIsFull(n) == Len(n.keys) >= MaxLeafKeys

InternalIsFull(n) == Len(n.children) >= MaxInternalKeys + 1

findKey(n, k) == Cardinality({i \in DOMAIN n.keys : n.keys[i] < k}) + 1

Has(n, k) == findKey(n, k) \in DOMAIN n.keys /\ n.keys[findKey(n, k)] = k

\* A mutant: the separator itself is looked for on the left.
FindChildLeft(n, k) == Cardinality({i \in DOMAIN n.keys : n.keys[i] < k}) + 1

FindChild(n, k) == Cardinality({i \in DOMAIN n.keys : n.keys[i] <= k}) + 1

\* The child that a key is looked for in.
Child(n, k) == n.children[FindChild(n, k)]

LeafInsert(n, k, v) ==
    LET pos == findKey(n, k)
    IN  IF Has(n, k) THEN Leaf(n.keys, [n.values EXCEPT ![pos] = v], n.right)
        ELSE Leaf(InsertAt(n.keys, pos, k), InsertAt(n.values, pos, v), n.right)

LeafDelete(n, k) ==
    LET pos == findKey(n, k)
    IN  Leaf(RemoveAt(n.keys, pos), RemoveAt(n.values, pos), n.right)

LeafGet(n, k) == IF Has(n, k) THEN n.values[findKey(n, k)] ELSE None

From(s, i) == SubSeq(s, i, Len(s))

\* A mutant: the right half does not take over the link.
LeafSplitUnlinked(n, rightID) ==
    LET mid == Len(n.keys) \div 2
    IN  << Leaf(SubSeq(n.keys, 1, mid), SubSeq(n.values, 1, mid), rightID),
           Leaf(From(n.keys, mid + 1), From(n.values, mid + 1), 0) >>

\* <<left, right>>
LeafSplit(n, rightID) ==
    LET mid == Len(n.keys) \div 2
    IN  << Leaf(SubSeq(n.keys, 1, mid), SubSeq(n.values, 1, mid), rightID),
           Leaf(From(n.keys, mid + 1), From(n.values, mid + 1), n.right) >>

InternalInsert(n, k, rightChild) ==
    LET pos == FindChild(n, k)
    IN  Internal(InsertAt(n.keys, pos, k), InsertAt(n.children, pos + 1, rightChild))

\* <<left, right, promoted key>>
InternalSplit(n) ==
    LET mid == Len(n.children) \div 2
    IN  << Internal(SubSeq(n.keys, 1, mid - 1), SubSeq(n.children, 1, mid)),
           Internal(From(n.keys, mid + 1), From(n.children, mid + 1)),
           n.keys[mid] >>

-----------------------------------------------------------------------------
(* The tree.  A call works on the blocks, bs, and hands them on; budget is  *)
(* the number of allocations that will succeed.                            *)

\* The leaf that get and delete come to from node id.
LeafFor(bs, id, k) ==
    LET leafFor[i \in DOMAIN bs] == IF bs[i].type = "leaf" THEN i ELSE leafFor[Child(bs[i], k)]
    IN  leafFor[id]

get(bs, id, k) == LeafGet(bs[LeafFor(bs, id, k)], k)

Get(k) == get(blocks, rootID, k)

\* What a call returns: the blocks, the allocations left, the new child (0 for
\* none) with its separator, and the error.
Result(bs, budget, id, sep, err) == [bs |-> bs, budget |-> budget, id |-> id, sep |-> sep, err |-> err]

Error(bs) == Result(bs, 0, 0, 0, "error")

createRoot(bs, budget, leftID, rightID, sep) ==
    IF budget = 0 THEN Error(bs)
    ELSE Result(Append(bs, Internal(<<sep>>, <<leftID, rightID>>)),
                budget - 1, Len(bs) + 1, 0, "nil")

splitLeaf(bs, budget, id) ==
    LET rightID == Len(bs) + 1
        s == LeafSplit(bs[id], rightID)
    IN  IF budget = 0 THEN Error(bs)
        ELSE Result(Append([bs EXCEPT ![id] = s[1]], s[2]), budget - 1, rightID, s[2].keys[1], "nil")

splitInternal(bs, budget, id) ==
    LET s == InternalSplit(bs[id])
    IN  IF budget = 0 THEN Error(bs)
        ELSE Result(Append([bs EXCEPT ![id] = s[1]], s[2]), budget - 1, Len(bs) + 1, s[3], "nil")

\* The root that was split gets a new root above it.
Grown(r, id) ==
    IF r.err # "nil" \/ id # rootID THEN r ELSE createRoot(r.bs, r.budget, id, r.id, r.sep)

putLeaf(bs, budget, id, k, v) ==
    LET n == LeafInsert(bs[id], k, v)
        written == [bs EXCEPT ![id] = n]
    IN  IF LeafIsFull(bs[id]) THEN Error(bs)
        ELSE IF LeafIsFull(n) THEN Grown(splitLeaf(written, budget, id), id)
        ELSE Result(written, budget, 0, 0, "nil")

\* The child was split.
putChild(r, id) ==
    LET n == InternalInsert(r.bs[id], r.sep, r.id)
        written == [r.bs EXCEPT ![id] = n]
    IN  IF InternalIsFull(r.bs[id]) THEN Error(r.bs)
        ELSE IF InternalIsFull(n) THEN Grown(splitInternal(written, r.budget, id), id)
        ELSE Result(written, r.budget, 0, 0, "nil")

put(bs, budget, id, k, v) ==
    LET putAt[i \in DOMAIN bs] ==
            IF bs[i].type = "leaf" THEN putLeaf(bs, budget, i, k, v)
            ELSE LET r == putAt[Child(bs[i], k)]
                 IN  IF r.err # "nil" \/ r.id = 0 THEN r ELSE putChild(r, i)
    IN  putAt[id]

\* The allocations of one Put that succeed before one fails: any number there is
\* room for.
Budgets == 0..(MaxBlock - Len(blocks))

Put(k, v) ==
    \E budget \in Budgets :
        LET r == put(blocks, budget, rootID, k, v)
        IN  /\ Len(r.bs) <= MaxBlock
            /\ blocks' = r.bs
            /\ rootID' = IF r.err # "nil" \/ r.id = 0 THEN rootID ELSE r.id
            /\ lastErr' = (r.err # "nil")
            /\ failed' = (failed \/ r.err # "nil")

Delete(k) ==
    LET id == LeafFor(blocks, rootID, k)
    IN  /\ blocks' = IF Has(blocks[id], k) THEN [blocks EXCEPT ![id] = LeafDelete(@, k)] ELSE blocks
        /\ lastErr' = FALSE
        /\ UNCHANGED <<rootID, failed>>

\* The entries of a leaf from lo up to the first one above hi; hi = None stands
\* for no upper bound.
LeafScan(n, lo, hi) ==
    LET first == findKey(n, lo)
        above == {i \in first..Len(n.keys) : hi # None /\ n.keys[i] > hi}
        stop == IF above = {} THEN Len(n.keys) + 1 ELSE Min(above)
    IN  [i \in 1..(stop - first) |-> <<n.keys[first + i - 1], n.values[first + i - 1]>>]

scan(bs, id, lo, hi) ==
    LET scanAt[i \in DOMAIN bs] ==
            IF bs[i].type = "leaf" THEN LeafScan(bs[i], lo, hi)
            ELSE LET rest == From(bs[i].children, FindChild(bs[i], lo))
                 IN  FlattenSeq([j \in DOMAIN rest |-> scanAt[rest[j]]])
    IN  scanAt[id]

Scan(lo, hi) == scan(blocks, rootID, lo, hi)

Init == New /\ lastErr = FALSE /\ failed = FALSE

Next == \E k \in Key : Delete(k) \/ \E v \in Value : Put(k, v)

Spec == Init /\ [][Next]_vars

-----------------------------------------------------------------------------
(* Properties.                                                             *)

LeafNode == [type : {"leaf"}, keys : Seq(Key), values : Seq(Value), right : Nat]

InternalNode == [type : {"internal"}, keys : Seq(Key), children : Seq(Nat)]

Node == LeafNode \cup InternalNode

LeafShape(n) == Len(n.values) = Len(n.keys) /\ Len(n.keys) <= MaxLeafKeys

InternalShape(bs, n) ==
    /\ Len(n.children) = Len(n.keys) + 1 /\ Len(n.children) <= MaxInternalKeys + 1
    /\ \A j \in DOMAIN n.children : n.children[j] \in DOMAIN bs

TypeOK ==
    /\ blocks \in Seq(Node) /\ Len(blocks) <= MaxBlock
    /\ rootID \in DOMAIN blocks /\ lastErr \in BOOLEAN /\ failed \in BOOLEAN
    /\ \A i \in DOMAIN blocks : IF blocks[i].type = "leaf" THEN LeafShape(blocks[i])
                                ELSE InternalShape(blocks, blocks[i])

\* How far the leaves are below a node, along its first children.
Height(bs, id) ==
    LET height[i \in DOMAIN bs] == IF bs[i].type = "leaf" THEN 0 ELSE 1 + height[bs[i].children[1]]
    IN  height[id]

IsFull(n) == IF n.type = "leaf" THEN LeafIsFull(n) ELSE InternalIsFull(n)

\* The right link of every key's leaf leads to the leaf of the next key that has
\* another one.
Linked(bs, root) ==
    \A x \in Key :
        LET leaf == LeafFor(bs, root, x)
            above == {y \in Key : x < y /\ LeafFor(bs, root, y) # leaf}
        IN  bs[leaf].right = IF above = {} THEN 0 ELSE LeafFor(bs, root, Min(above))

\* Every node has as many values or children as its keys need, and no more
\* than fit, and all leaves are equally deep, whatever allocations have failed.
\* As long as none has, Put never leaves a node full (a full node refuses every
\* later Put), and the right links put the leaves in the order of their keys.
Balanced ==
    /\ TypeOK
    /\ \A i \in DOMAIN blocks : blocks[i].type = "internal" =>
        \A j \in DOMAIN blocks[i].children :
            Height(blocks, blocks[i].children[j]) = Height(blocks, i) - 1
    /\ ~failed => Linked(blocks, rootID) /\ \A i \in DOMAIN blocks : ~IsFull(blocks[i])

\* Scan returns what Get finds, in the order of the keys and nothing else, also
\* after allocations have failed and for bounds that no key has.
ScanIsGet ==
    LET found == {e \in {<<k, Get(k)>> : k \in Key} : e[2] # None}
    IN  \A lo \in Key, hi \in Key \cup {None} :
            LET got == Scan(lo, hi)
            IN  /\ ToSet(got) = {e \in found : lo <= e[1] /\ (hi = None \/ e[1] <= hi)}
                /\ \A i \in 1..(Len(got) - 1) : got[i][1] < got[i + 1][1]

\* The tree is the map of KVMap: what Get finds changes only by Put and Delete
\* of that key, through all splits; a Put whose allocation failed may cut off a
\* range of keys (createRoot after splitLeaf) and nothing else.
Map == INSTANCE KVMap WITH kv <- [k \in Key |-> Get(k)], err <- lastErr

ImplementsMap == Map!Spec
=============================================================================
