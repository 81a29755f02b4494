---------------------------- MODULE TableStorage ----------------------------
(***************************************************************************)
(* BTreeTable of internal/reql with its secondary indexes and changefeeds. *)
(*                                                                         *)
(* The documents are in a B-tree, taken here as the map it implements      *)
(* (KVMap), with the Puts that fail.  Of a document's fields its id and    *)
(* the one that the indexes are on are kept; the latter may be missing.    *)
(* Insert is given the id a second time and compares nothing: the callers  *)
(* give the id the document has, and no update changes it.  One call runs  *)
(* at a time beside the readers of the changefeeds.                        *)
(***************************************************************************)
EXTENDS Integers, Sequences, SequencesExt

CONSTANTS
    Id,             \* ids of documents, in the order of the tree
    FieldValue,     \* values of the indexed field
    Missing,        \* a field that is not there, a document that is not there
    Index, Feed,    \* indexes and changefeeds of the table
    FeedCap,        \* capacity of a changefeed's channel: 100 in the code
    MaxEntries      \* bound: entries of an index under one value

Doc == [id : Id, f : FieldValue \cup {Missing}]

ASSUME TableAssumption ==
    /\ Id \subseteq Int /\ Missing \notin FieldValue /\ Missing \notin Doc
    /\ FeedCap \in Nat /\ MaxEntries \in Nat

VARIABLES
    docs,       \* the tree: a document or Missing
    putErr,     \* whether the last call of the tree failed
    idx,        \* Index.Data: the ids under every value; Missing: no such index
    feeds,      \* Changefeed.Events, or Missing
    closed,     \* Changefeed.closed
    view,       \* history: the documents as the reader of a feed knows them
    complete,   \* history: the documents of which a feed got every change
    listed      \* history: the documents every index was told of

tableVars == <<docs, putErr, idx, feeds, closed, view, complete, listed>>

Updates == [f : FieldValue \cup {Missing}]

Tree == INSTANCE KVMap WITH Key <- Id, Value <- Doc, None <- Missing, kv <- docs, err <- putErr

\* A ChangeEvent does not name its document: the reader finds the id in one of
\* the two values.
Event == {e \in [old : Doc \cup {Missing}, new : Doc \cup {Missing}] : e.old # Missing \/ e.new # Missing}

About(e) == IF e.new = Missing THEN e.old.id ELSE e.new.id

TableTypeOK ==
    /\ docs \in [Id -> Doc \cup {Missing}] /\ putErr \in BOOLEAN
    /\ \A d \in Id : docs[d] # Missing => docs[d].id = d
    /\ idx \in [Index -> [FieldValue -> Seq(Id)] \cup {Missing}]
    /\ feeds \in [Feed -> Seq(Event) \cup {Missing}]
    /\ \A f \in Feed : feeds[f] = Missing \/ Len(feeds[f]) <= FeedCap
    /\ closed \subseteq Feed /\ complete \in [Feed -> SUBSET Id]
    /\ view \in [Feed -> [Id -> Doc \cup {Missing}]]
    /\ listed \in [Index -> SUBSET Id]

TableInit ==
    /\ Tree!Init
    /\ idx = [i \in Index |-> Missing]
    /\ feeds = [f \in Feed |-> Missing] /\ closed = {}
    /\ complete = [f \in Feed |-> {}]
    /\ view = [f \in Feed |-> [d \in Id |-> Missing]]
    /\ listed = [i \in Index |-> {}]

-----------------------------------------------------------------------------
(* Indexes.                                                                *)

IndexAdd(data, d, v) == [data EXCEPT ![v] = Append(@, d)]

\* The first entry of the document under the value, if there is one.
IndexRemove(data, d, v) ==
    [data EXCEPT ![v] = IF \E p \in DOMAIN @ : @[p] = d
                        THEN RemoveAt(@, CHOOSE p \in DOMAIN @ : @[p] = d /\ \A q \in 1..(p - 1) : @[q] # d)
                        ELSE @]

\* A mutant: the new entry comes first, and the old one may be the same.
IndexUpdateSwapped(data, d, old, new) == IndexRemove(IndexAdd(data, d, new), d, old)

IndexUpdate(data, d, old, new) == IndexAdd(IndexRemove(data, d, old), d, new)

Indexes == {i \in Index : idx[i] # Missing}

\* Change(data) is made to every index.
ForAllIndexes(Change(_)) == idx' = [i \in Index |-> IF i \in Indexes THEN Change(idx[i]) ELSE idx[i]]

Room == \A i \in Indexes : \A v \in FieldValue : Len(idx[i][v]) < MaxEntries

CreateIndex(i) ==
    /\ idx[i] = Missing
    /\ idx' = [idx EXCEPT ![i] = [v \in FieldValue |-> <<>>]]
    /\ listed' = [listed EXCEPT ![i] = {}]
    /\ UNCHANGED <<docs, putErr, feeds, closed, view, complete>>

DropIndex(i) ==
    /\ idx[i] # Missing
    /\ idx' = [idx EXCEPT ![i] = Missing]
    /\ listed' = [listed EXCEPT ![i] = {}]
    /\ UNCHANGED <<docs, putErr, feeds, closed, view, complete>>

-----------------------------------------------------------------------------
(* Changefeeds.                                                            *)

NewChangefeed(f) ==
    /\ feeds[f] = Missing
    /\ feeds' = [feeds EXCEPT ![f] = <<>>]
    /\ view' = [view EXCEPT ![f] = docs]
    /\ complete' = [complete EXCEPT ![f] = Id]
    /\ UNCHANGED <<docs, putErr, idx, closed, listed>>

Full(f) == Len(feeds[f]) >= FeedCap

Takes(f) == feeds[f] # Missing /\ f \notin closed /\ ~Full(f)

\* What a reader knows of the other documents does not matter any more.
Forget == view' = [f \in Feed |-> [d \in Id |-> IF d \in complete'[f] THEN view[f][d] ELSE Missing]]

\* Send drops the event when the channel is full, and when it is closed.
notifyChangefeeds(d, old, new) ==
    /\ feeds' = [f \in Feed |-> IF Takes(f) THEN Append(feeds[f], [old |-> old, new |-> new]) ELSE feeds[f]]
    /\ complete' = [f \in Feed |-> IF Takes(f) THEN complete[f] ELSE complete[f] \ {d}]
    /\ Forget

NotifyNobody == UNCHANGED <<feeds, complete, view>>

Receive(f) ==
    /\ feeds[f] # Missing /\ feeds[f] # <<>>
    /\ LET e == Head(feeds[f])
       IN  view' = IF About(e) \in complete[f] THEN [view EXCEPT ![f][About(e)] = e.new] ELSE view
    /\ feeds' = [feeds EXCEPT ![f] = Tail(@)]
    /\ UNCHANGED <<docs, putErr, idx, closed, complete, listed>>

Close(f) ==
    /\ feeds[f] # Missing /\ f \notin closed
    /\ closed' = closed \cup {f}
    /\ UNCHANGED <<docs, putErr, idx, feeds, view, complete, listed>>

-----------------------------------------------------------------------------
(* Documents.                                                              *)

\* A Put that fails ends the call: nothing is notified, although documents may
\* have changed.
PutFailed(d, doc) ==
    /\ docs' \in [Id -> Doc \cup {Missing}]
    /\ Tree!PutFails(d, doc)
    /\ complete' = [f \in Feed |-> {x \in complete[f] : docs'[x] = docs[x]}]
    /\ Forget
    /\ UNCHANGED <<feeds, closed>>

\* What an insertion leaves under the old value stays there.
InsertDoc(d, doc) ==
    /\ Room /\ doc.id = d
    /\ \/ /\ Tree!Put(d, doc)
          /\ ForAllIndexes(LAMBDA data : IF doc.f = Missing THEN data ELSE IndexAdd(data, d, doc.f))
          /\ listed' = [i \in Index |-> IF i \in Indexes THEN listed[i] \cup {d} ELSE listed[i]]
          /\ notifyChangefeeds(d, Missing, doc)
          /\ UNCHANGED closed
       \/ /\ PutFailed(d, doc)
          /\ listed' = [i \in Index |-> IF docs'[d] = docs[d] THEN listed[i] ELSE listed[i] \ {d}]
          /\ UNCHANGED idx

Merged(doc, updates) == IF updates.f = Missing THEN doc ELSE [doc EXCEPT !.f = updates.f]

\* The updates are merged into the document before its old value is read, so
\* the old entry stays; and an update without the field takes the entry out.
UpdatedIndex(data, d, doc, updates) ==
    LET old == Merged(doc, updates).f
    IN  IF old = Missing THEN data
        ELSE IF updates.f = Missing THEN IndexRemove(data, d, old)
        ELSE IndexUpdate(data, d, old, updates.f)

\* The indexes are changed before the document is written.
UpdateDoc(d, updates) ==
    /\ Room /\ docs[d] # Missing
    /\ LET merged == Merged(docs[d], updates)
       IN  /\ ForAllIndexes(LAMBDA data : UpdatedIndex(data, d, docs[d], updates))
           /\ \/ /\ Tree!Put(d, merged)
                 /\ listed' = [i \in Index |-> IF i \in Indexes /\ updates.f # Missing
                                               THEN listed[i] \cup {d} ELSE listed[i] \ {d}]
                 /\ notifyChangefeeds(d, Missing, merged)
                 /\ UNCHANGED closed
              \/ /\ PutFailed(d, merged)
                 /\ listed' = [i \in Index |-> IF updates.f # Missing THEN listed[i] ELSE listed[i] \ {d}]

\* A mutant: the feeds are not told.
DeleteDocSilently(d) ==
    /\ Tree!Delete(d)
    /\ ForAllIndexes(LAMBDA data : IF docs[d] = Missing THEN data
                                   ELSE IF docs[d].f = Missing THEN data ELSE IndexRemove(data, d, docs[d].f))
    /\ listed' = [i \in Index |-> listed[i] \ {d}]
    /\ NotifyNobody
    /\ UNCHANGED closed

DeleteDoc(d) ==
    /\ Tree!Delete(d)
    /\ ForAllIndexes(LAMBDA data : IF docs[d] = Missing THEN data
                                   ELSE IF docs[d].f = Missing THEN data ELSE IndexRemove(data, d, docs[d].f))
    /\ listed' = [i \in Index |-> listed[i] \ {d}]
    /\ IF docs[d] = Missing THEN NotifyNobody ELSE notifyChangefeeds(d, docs[d], Missing)
    /\ UNCHANGED closed

TableNext ==
    \/ \E i \in Index : CreateIndex(i) \/ DropIndex(i)
    \/ \E f \in Feed : NewChangefeed(f) \/ Receive(f) \/ Close(f)
    \/ \E d \in Id : \/ DeleteDoc(d) \/ \E doc \in Doc : InsertDoc(d, doc)
                     \/ \E updates \in Updates : UpdateDoc(d, updates)

TableSpec == TableInit /\ [][TableNext]_tableVars

-----------------------------------------------------------------------------
(* Properties.                                                             *)

\* An index finds every document that was inserted, or updated in its field,
\* since the index was created, under the value the document has now: through
\* overwrites, stale and doubled entries, and through an Update that changed the
\* indexes before its Put failed.  Not listed any more is a document that an
\* update without the field took out of the index, and one that an Insert has
\* changed although it failed: it returns before it tells the indexes.
IndexFinds ==
    \A i \in Indexes : \A d \in listed[i] :
        docs[d] # Missing /\ docs[d].f # Missing => d \in ToSet(idx[i][docs[d].f])

\* What the reader of feed f knows of document d once it has read what waits in
\* the channel: the last event about d tells it, or else what it has read before.
Learns(f, d, doc) ==
    LET about == {p \in DOMAIN feeds[f] : About(feeds[f][p]) = d}
    IN  \/ about = {} /\ doc = view[f][d]
        \/ \E p \in about : (\A q \in about : q <= p) /\ doc = feeds[f][p].new

\* A reader knows every document of which no event was dropped, because its
\* channel was full or closed: what it has read and what waits in the channel, in
\* order, tell what the table holds.  Left out are the documents that a failing
\* Put changed all the same, of which nothing is sent.
\* (And every variable has its type.)
FeedKnows ==
    /\ TableTypeOK
    /\ \A f \in Feed : \A d \in complete[f] : Learns(f, d, docs[d])
=============================================================================
