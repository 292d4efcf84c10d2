---------------------------- MODULE ClientStore ----------------------------
(***************************************************************************)
(* The client's store, src/client/store.ts, over a durable adapter         *)
(* (src/client/storage/indexeddb.ts, memory.ts): pending operations, the   *)
(* rows they were applied to, and the chain of writes to storage.          *)
(*                                                                         *)
(* An operation is a number, its place in the order in which the device    *)
(* made them.  What a row holds is the set of operations it reflects.  A   *)
(* store is a record, and every method takes one to the next.  A queued    *)
(* write names pending operations, it does not copy them: the code queues  *)
(* the objects, which are copied when the write is made.                   *)
(***************************************************************************)
EXTENDS Naturals, Sequences, FiniteSets, SequencesExt

CONSTANTS Ops, Rows,
          RowOf,     \* the row of each operation
          KindOf,    \* insert, update or delete
          BatchOf    \* the batch of each operation, 0 for none

ASSUME ClientStoreAssumption ==
  /\ Ops \subseteq Nat \ {0} /\ IsFiniteSet(Ops)
  /\ IsFiniteSet(Rows)
  /\ RowOf \in [Ops -> Rows]
  /\ KindOf \in [Ops -> {"insert", "update", "delete"}]
  /\ BatchOf \in [Ops -> Nat]

LocalRow == [at : {"none", "tomb", "row"}, has : SUBSET Ops]
NoRow    == [at |-> "none", has |-> {}]
Tomb     == [at |-> "tomb", has |-> {}]

\* PendingOp: rejected, and the row as it was before the op (preState).
PendingOp == [rejected : BOOLEAN, pre : LocalRow]

Write == [do : {"append", "remove", "update", "put"}, ids : Seq(Ops)]
           \cup [do : {"rows"}, rows : [Rows -> LocalRow]]

Store == [pend : Seq(Ops), obj : [Ops -> PendingOp], rows : [Rows -> LocalRow], chain : Seq(Write)]
Disk  == [pend : Seq(Ops), obj : [Ops -> PendingOp], rows : [Rows -> LocalRow]]

Blank     == [o \in Ops |-> [rejected |-> FALSE, pre |-> NoRow]]
EmptyDisk == [pend |-> <<>>, obj |-> Blank, rows |-> [r \in Rows |-> NoRow]]

-----------------------------------------------------------------------------
Enqueue(s, w) == [s EXCEPT !.chain = Append(@, w)]

\* Writes of rows that follow one another are taken as one: what matters is
\* their place among the writes of the queue.
EnqueueRows(s) ==
  LET w == [do |-> "rows", rows |-> s.rows] IN
  IF s.chain # <<>> /\ Last(s.chain).do = "rows"
  THEN [s EXCEPT !.chain = Append(Front(@), w)] ELSE Enqueue(s, w)

SetRow(s, r, row) == EnqueueRows([s EXCEPT !.rows[r] = row])

\* Tombstones stay in the map and are hidden from readers.
GetRow(s, r) == IF s.rows[r].at = "row" THEN s.rows[r] ELSE NoRow

GetPendingOps(s) == SelectSeq(s.pend, LAMBDA o : ~s.obj[o].rejected)

\* The new op joins the queue with a snapshot of its row.
AddPendingOp(s, o) ==
  Enqueue([s EXCEPT !.pend = Append(@, o),
                    !.obj[o] = [rejected |-> FALSE, pre |-> GetRow(s, RowOf[o])]],
          [do |-> "append", ids |-> <<o>>])

\* An insert merges over a row that is there, an update of a missing row is
\* nothing, a delete leaves a tombstone.
ApplyOptimistic(s, o) ==
  LET held == GetRow(s, RowOf[o])
      with == [at |-> "row", has |-> held.has \cup {o}] IN
  CASE KindOf[o] = "delete" -> SetRow(s, RowOf[o], Tomb)
    [] KindOf[o] = "update" /\ held = NoRow -> s
    [] OTHER -> SetRow(s, RowOf[o], with)

Without(q, ids) == SelectSeq(q, LAMBDA o : o \notin ids)

MarkSynced(s, ids) ==
  Enqueue([s EXCEPT !.pend = Without(@, Range(ids))], [do |-> "remove", ids |-> ids])

\* Rejected ops older than a minute are dropped, whichever call they are met in.
AutoTrimRejected(s, old) ==
  LET kept == SelectSeq(s.pend, LAMBDA o : ~s.obj[o].rejected \/ o \notin old) IN
  IF kept = s.pend THEN s
  ELSE Enqueue([s EXCEPT !.pend = kept], [do |-> "put", ids |-> kept])

Rejecting(s, ids) ==
  IF ids = <<>> THEN s
  ELSE Enqueue([s EXCEPT !.obj = [o \in Ops |-> IF o \in Range(ids)
                                                THEN [s.obj[o] EXCEPT !.rejected = TRUE]
                                                ELSE s.obj[o]]],
               [do |-> "update", ids |-> ids])

MarkRejected(s, o, old) ==
  AutoTrimRejected(Rejecting(s, SelectSeq(s.pend, LAMBDA p : p = o)), old)

RejectBatch(s, b, old) ==
  AutoTrimRejected(Rejecting(s, SelectSeq(s.pend, LAMBDA p : BatchOf[p] = b)), old)

\* One of the ops that stay: its snapshot is taken again, then it is replayed.
Replayed(s, o) ==
  LET t == [s EXCEPT !.obj[o].pre = GetRow(s, RowOf[o])] IN
  IF s.obj[o].rejected THEN t ELSE ApplyOptimistic(t, o)

\* The row the rejected op is reverted to: the server's, if it sent one, else
\* what was there before the first op still tracked for the row.
RevertedRow(s, first, serverRow) ==
  IF serverRow # NoRow THEN serverRow ELSE s.obj[first].pre

\* Mutant: the snapshots taken again are not written.
RevertOpUnnoted(s, o, serverRow) ==
  LET chain == SelectSeq(s.pend, LAMBDA p : RowOf[p] = RowOf[o])
      base  == SetRow(s, RowOf[o], RevertedRow(s, Head(chain), serverRow))
      again == FoldLeft(Replayed, base, Without(chain, {o}))
  IN  IF o \notin Range(s.pend) THEN s
      ELSE Enqueue([again EXCEPT !.pend = Without(@, {o})], [do |-> "remove", ids |-> <<o>>])

RevertOp(s, o, serverRow) ==
  LET chain == SelectSeq(s.pend, LAMBDA p : RowOf[p] = RowOf[o])
      rest  == Without(chain, {o})
      base  == SetRow(s, RowOf[o], RevertedRow(s, Head(chain), serverRow))
      again == FoldLeft(Replayed, base, rest)
      noted == IF rest = <<>> THEN again ELSE Enqueue(again, [do |-> "update", ids |-> rest])
  IN  IF o \notin Range(s.pend) THEN s
      ELSE Enqueue([noted EXCEPT !.pend = Without(@, {o})], [do |-> "remove", ids |-> <<o>>])

ClearTable(s) ==
  EnqueueRows([s EXCEPT !.rows = [r \in Rows |-> NoRow]])

\* The rows the server sent replace the table's, then what is pending is
\* applied again over them.
ApplySnapshot(s, rows) ==
  LET sent == SetToSeq({r \in Rows : rows[r] # NoRow})
      shown == FoldLeft(LAMBDA t, r : SetRow(t, r, rows[r]), ClearTable(s), sent)
  IN  FoldLeft(ApplyOptimistic, shown, GetPendingOps(s))

-----------------------------------------------------------------------------
\* What the adapter makes of a write.  The op objects are those of the store.
Put(d, s, ids) ==
  [d EXCEPT !.pend = @ \o Without(ids, Range(@)),
            !.obj = [o \in Ops |-> IF o \in Range(ids) THEN s.obj[o] ELSE d.obj[o]]]

Written(d, s, w) ==
  CASE w.do \in {"append", "update"} -> Put(d, s, w.ids)
    [] w.do = "remove" -> [d EXCEPT !.pend = Without(@, Range(w.ids))]
    [] w.do = "put"    -> Put([d EXCEPT !.pend = <<>>], s, w.ids)
    [] w.do = "rows"   -> [d EXCEPT !.rows = w.rows]

\* hydrate: the rows and the pending ops, these in the order of the adapter.
Hydrate(d, order) ==
  [pend |-> order, obj |-> d.obj, rows |-> d.rows, chain |-> <<>>]

\* Storage holds what memory does; of ops that are not pending nothing is asked.
Agrees(d, s) ==
  /\ Range(d.pend) = Range(s.pend)
  /\ d.rows = s.rows
  /\ \A o \in Range(s.pend) : d.obj[o] = s.obj[o]
=============================================================================
