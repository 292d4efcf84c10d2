----------------------------- MODULE Broadcast -----------------------------
(***************************************************************************)
(* How a write of one client reaches the others: the consistent broadcast  *)
(* of src/server/broadcast-engine.ts over src/server/result-cache.ts, the  *)
(* bootstrap of src/server/handler.ts, and the client store's rules for    *)
(* deltas, snapshots and its own optimistic writes (src/client/store.ts).  *)
(*                                                                         *)
(* One query returns the whole of one table, shared by every client, whose *)
(* rows have one column.  A client applies its write at once and sends it; *)
(* the server decides it (lww), mutates the database, notes in the         *)
(* writer's cached result what the writer now holds, stamps a broadcast,   *)
(* runs the query, and for every other client diffs the result with the    *)
(* client's cached result, sends the difference and commits the result to  *)
(* the cache.  Messages of one client are handled one at a time, those of  *)
(* several clients interleave at every await.                              *)
(*                                                                         *)
(* HLCs are numbers: a server stamp is even, a client's odd.               *)
(***************************************************************************)
EXTENDS Naturals, Sequences, FiniteSets, SequencesExt

CONSTANTS Clients, Rows, Vals,
          NoRow,        \* null: the row does not exist
          Mine,         \* the rows each client writes
          There,        \* the rows that may exist at the start
          Serial,       \* the server finishes one message before the next
          InOrder,      \* query results come back in the order of the stamps
          Partial,      \* a send may fail after others of its broadcast went out
          Turns,        \* a client writes only when everything has settled
          Lead,         \* how far a client's clock runs ahead of the server's
          Writes,       \* bound: client writes
          Bootstraps,   \* bound: bootstraps
          Losses        \* bound: sends that fail

ASSUME BroadcastAssumption ==
  /\ IsFiniteSet(Rows) /\ Vals # {} /\ NoRow \notin Vals
  /\ Mine \in [Clients -> SUBSET Rows]
  /\ There \subseteq SUBSET Rows
  /\ {Serial, InOrder, Partial, Turns} \subseteq BOOLEAN
  /\ {Lead, Writes, Bootstraps, Losses} \subseteq Nat

VARIABLES
  db,        \* the application's database
  mirror,    \* the HLC of each mirror row, 0 when there is none
  clock,     \* the server's clock
  srv,       \* the message of each client that the server is handling
  cache,     \* ResultCache: what each client is believed to hold
  lock,      \* the broadcasts waiting for each client's critical section
  sending,   \* the first of them has sent its deltas and not committed yet
  missed,    \* history: the last broadcast to the client failed
  local,     \* the rows each client holds
  pending,   \* its unacknowledged ops
  up, net,   \* messages to the server, and to the client
  writes, bootstraps, losses

server == <<db, mirror, clock, srv, cache, lock, sending, missed>>
client == <<local, pending, up>>
budget == <<writes, bootstraps, losses>>
vars   == <<server, client, net, budget>>

Content == Vals \cup {NoRow}
Table   == [Rows -> Content]
\* A row as a client holds it: its value, serverHlc and colClocks, 0 for none.
\* NoRow with an HLC is a tombstone; it keeps no column clock.
Held    == [v : Vals, hlc : Nat, clock : Nat] \cup [v : {NoRow}, hlc : Nat, clock : {0}]
Absent  == [v |-> NoRow, hlc |-> 0, clock |-> 0]
Kinds   == {"insert", "update", "delete"}
Ops     == [kind : Kinds, row : Rows, v : Content, hlc : Nat]
Bootstrap == [kind |-> "bootstrap"]

Idle  == [stage |-> "idle"]
Tasks == {Idle} \cup [stage : {"mutated"}, op : Ops]
           \cup [stage : {"query"}, op : Ops, stamp : Nat]
           \cup [stage : {"result", "fanout"}, op : Ops, stamp : Nat, rows : Table]
           \cup [stage : {"snapshot", "snapshotSent"}, rows : Table]

Messages == [type : {"delta"}, op : Kinds, row : Rows, v : Content, hlc : Nat]
              \cup [type : {"snapshot"}, rows : Table, hlc : Nat]
              \cup [type : {"ack"}, op : Ops] \cup [type : {"reject"}, op : Ops, row : Content]

TypeOK ==
  /\ db \in Table /\ mirror \in [Rows -> Nat] /\ clock \in Nat
  /\ srv \in [Clients -> Tasks]
  /\ cache \in [Clients -> Table]
  /\ lock \in [Clients -> Seq(Clients)]
  /\ sending \in [Clients -> BOOLEAN] /\ missed \in [Clients -> BOOLEAN]
  /\ local \in [Clients -> [Rows -> Held]]
  /\ pending \in [Clients -> Seq([op : Ops, pre : Held])]
  /\ up \in [Clients -> Seq(Ops \cup {Bootstrap})]
  /\ net \in [Clients -> Seq(Messages)]
  /\ {writes, bootstraps, losses} \subseteq Nat

Snapped(rows, hlc) ==
  [r \in Rows |-> IF rows[r] = NoRow THEN Absent ELSE [v |-> rows[r], hlc |-> hlc, clock |-> 0]]

\* Every client is connected and has bootstrapped; some rows exist.
Init ==
  /\ db \in {[r \in Rows |-> IF r \in there THEN CHOOSE v \in Vals : TRUE ELSE NoRow] :
               there \in There}
  /\ mirror = [r \in Rows |-> IF db[r] = NoRow THEN 0 ELSE 1]
  /\ clock = 1
  /\ srv = [c \in Clients |-> Idle]
  /\ cache = [c \in Clients |-> db]
  /\ lock = [c \in Clients |-> << >>]
  /\ sending = [c \in Clients |-> FALSE] /\ missed = sending
  /\ local = [c \in Clients |-> Snapped(db, 2)]
  /\ pending = [c \in Clients |-> << >>] /\ up = pending /\ net = pending
  /\ writes = Writes /\ bootstraps = Bootstraps /\ losses = Losses

Quiet ==
  \A c \in Clients :
    srv[c] = Idle /\ lock[c] = << >> /\ up[c] = << >> /\ net[c] = << >> /\ pending[c] = << >>

Visible(held) == held.v # NoRow            \* LocalStore.getRow hides tombstones
Known(held)   == held # Absent             \* getRowEntry shows them
Shown(held)   == IF Visible(held) THEN held ELSE Absent

-----------------------------------------------------------------------------
(* The client writes.                                                      *)

\* applyOptimistic: a write over a row the client has keeps the row's clocks.
Optimistic(held, op) ==
  CASE op.kind = "delete" -> [v |-> NoRow, hlc |-> op.hlc, clock |-> 0]
    [] op.kind # "delete" /\ Visible(held) -> [held EXCEPT !.v = op.v]
    [] op.kind = "insert" /\ ~Visible(held) -> [v |-> op.v, hlc |-> op.hlc, clock |-> 0]
    [] op.kind = "update" /\ ~Visible(held) -> held

Elements(s) == {s[j] : j \in DOMAIN s}
Used == {mirror[r] : r \in Rows} \cup {p.op.hlc : p \in UNION {Elements(pending[d]) : d \in Clients}}

\* The client's own clock advances with every op, is anywhere up to Lead ahead
\* of the server's, and stamps what no other client does.
NextHlc(c) == {h \in {2 * k + 1 : k \in 0 .. clock + Lead} \ Used :
                 \A p \in Elements(pending[c]) : p.op.hlc < h}

\* insert, update or delete: snapshot the row, apply the op, send it.
Write(c) ==
  /\ writes > 0 /\ (Turns => Quiet)
  /\ \E r \in Mine[c], v \in Content, hlc \in NextHlc(c) :
       LET held == local[c][r]
           op   == [kind |-> IF v = NoRow THEN "delete" ELSE IF Visible(held) THEN "update" ELSE "insert",
                    row |-> r, v |-> v, hlc |-> hlc]
       IN  /\ v # held.v
           /\ pending' = [pending EXCEPT ![c] = Append(@, [op |-> op, pre |-> Shown(held)])]
           /\ local' = [local EXCEPT ![c][r] = Optimistic(@, op)]
           /\ up' = [up EXCEPT ![c] = Append(@, op)]
  /\ writes' = writes - 1
  /\ UNCHANGED <<server, net, bootstraps, losses>>

\* The client asks for a fresh snapshot: a further sync(), a bad text patch.
AskBootstrap(c) ==
  /\ bootstraps > 0 /\ (Turns => Quiet)
  /\ bootstraps' = bootstraps - 1
  /\ up' = [up EXCEPT ![c] = Append(@, Bootstrap)]
  /\ UNCHANGED <<server, local, pending, net, writes, losses>>

-----------------------------------------------------------------------------
(* The client receives.                                                    *)

AtLeast(a, b) == IF a >= b THEN a ELSE b

\* applyDelta: a delete or an insert must be newer than the row, an update
\* newer than the column, if the column has a clock at all.
ApplyDelta(held, m) ==
  IF m.op = "delete"
  THEN IF m.hlc <= held.hlc THEN held ELSE [v |-> NoRow, hlc |-> m.hlc, clock |-> 0]
  ELSE IF m.op = "insert" \/ ~Known(held)
  THEN IF m.hlc <= held.hlc THEN held
       ELSE [v |-> m.v, hlc |-> m.hlc, clock |-> IF m.op = "insert" THEN 0 ELSE m.hlc]
  ELSE IF held.clock # 0 /\ m.hlc <= held.clock THEN held
       ELSE [v |-> m.v, hlc |-> AtLeast(held.hlc, m.hlc), clock |-> m.hlc]

\* Pending ops applied again, in order, to a row.
Replay(held, tracked) == FoldLeft(LAMBDA h, p : Optimistic(h, p.op), held, tracked)
OfRow(tracked, r)     == SelectSeq(tracked, LAMBDA p : p.op.row = r)
Without(tracked, op)  == SelectSeq(tracked, LAMBDA p : p.op # op)

\* revertOp: a rejected op's row is rebuilt from the row as the server last
\* told it, or as it was before the first op tracked for it.
RevertBase(c, m) ==
  IF m.row # NoRow THEN [Shown(local[c][m.op.row]) EXCEPT !.v = m.row]
  ELSE Head(OfRow(pending[c], m.op.row)).pre

\* The ops still tracked for the row get the state they now stand on.
Refreshed(tracked, r, base) ==
  [j \in DOMAIN tracked |->
     IF tracked[j].op.row # r THEN tracked[j]
     ELSE [tracked[j] EXCEPT !.pre = Shown(Replay(base, OfRow(SubSeq(tracked, 1, j - 1), r)))]]

Deliver(c, type) ==
  /\ net[c] # << >> /\ Head(net[c]).type = type
  /\ net' = [net EXCEPT ![c] = Tail(@)]
  /\ UNCHANGED <<server, up, budget>>

ReceiveDelta(c) ==
  /\ Deliver(c, "delta")
  /\ LET m == Head(net[c]) IN local' = [local EXCEPT ![c][m.row] = ApplyDelta(@, m)]
  /\ UNCHANGED pending

\* Mutant: the pending ops are not applied again.
ReceiveSnapshotWipes(c) ==
  /\ Deliver(c, "snapshot")
  /\ local' = [local EXCEPT ![c] = Snapped(Head(net[c]).rows, Head(net[c]).hlc)]
  /\ UNCHANGED pending

\* applySnapshot: the rows are replaced, the pending ops applied on top.
ReceiveSnapshot(c) ==
  /\ Deliver(c, "snapshot")
  /\ LET rows == Snapped(Head(net[c]).rows, Head(net[c]).hlc)
     IN  local' = [local EXCEPT ![c] = [r \in Rows |-> Replay(rows[r], OfRow(pending[c], r))]]
  /\ UNCHANGED pending

ReceiveAck(c) ==
  /\ Deliver(c, "ack")
  /\ pending' = [pending EXCEPT ![c] = Without(@, Head(net[c]).op)]
  /\ UNCHANGED local

ReceiveReject(c) ==
  /\ Deliver(c, "reject")
  /\ LET m    == Head(net[c])
         base == RevertBase(c, m)
         rest == Without(pending[c], m.op)
     IN  /\ local' = [local EXCEPT ![c][m.op.row] = Replay(base, OfRow(rest, m.op.row))]
         /\ pending' = [pending EXCEPT ![c] = Refreshed(rest, m.op.row, base)]

Receive(c) == ReceiveDelta(c) \/ ReceiveSnapshot(c) \/ ReceiveAck(c) \/ ReceiveReject(c)

-----------------------------------------------------------------------------
(* The server handles a message of client c.                               *)

Starts(c) ==
  /\ srv[c] = Idle /\ up[c] # << >>
  /\ Serial => \A d \in Clients : srv[d] = Idle
Stage(c, stage) == srv[c].stage = stage

\* A newer op, or one on a row the mirror does not have, wins and is written
\* to the database; an older one is rejected with the row the client was last
\* told.  Ops on one row wait for each other.
Decide(c) ==
  LET op == Head(up[c])
  IN  /\ Starts(c) /\ op # Bootstrap
      /\ \A d \in Clients : Stage(d, "mutated") => srv[d].op.row # op.row
      /\ clock' = AtLeast(clock, op.hlc \div 2)
      /\ up' = [up EXCEPT ![c] = Tail(@)]
      /\ \/ /\ mirror[op.row] = 0 \/ mirror[op.row] < op.hlc
            /\ db' = [db EXCEPT ![op.row] = op.v]
            /\ srv' = [srv EXCEPT ![c] = [stage |-> "mutated", op |-> op]]
            /\ UNCHANGED net
         \/ /\ mirror[op.row] # 0 /\ op.hlc < mirror[op.row]
            /\ net' = [net EXCEPT ![c] =
                         Append(@, [type |-> "reject", op |-> op, row |-> cache[c][op.row]])]
            /\ UNCHANGED <<db, srv>>
      /\ UNCHANGED <<mirror, cache, lock, sending, missed, local, pending, budget>>

\* recordWriterColumns patches a row the cache has; forgetWriterRow evicts it.
HeldByWriter(c, op) ==
  IF op.kind = "delete" \/ cache[c][op.row] # NoRow
  THEN [cache[c] EXCEPT ![op.row] = op.v]
  ELSE cache[c]

\* The mirror is written, and the broadcast stamped.
Settle(c) ==
  LET op == srv[c].op
  IN  /\ Stage(c, "mutated")
      /\ mirror' = [mirror EXCEPT ![op.row] = IF op.v = NoRow THEN 0 ELSE op.hlc]
      /\ cache' = [cache EXCEPT ![c] = HeldByWriter(c, op)]
      /\ clock' = clock + 1
      /\ srv' = [srv EXCEPT ![c] = [stage |-> "query", op |-> op, stamp |-> 2 * clock']]
      /\ UNCHANGED <<db, lock, sending, missed, client, net, budget>>

\* No broadcast stamped before c's is in one of these stages.
First(c, stages) ==
  InOrder => \A d \in Clients : srv[d].stage \in stages => srv[c].stamp <= srv[d].stamp

\* The query of the broadcast reads the database.
ReadDb(c) ==
  /\ Stage(c, "query") /\ First(c, {"query"})
  /\ srv' = [srv EXCEPT ![c] = [stage |-> "result", op |-> @.op, stamp |-> @.stamp, rows |-> db]]
  /\ UNCHANGED <<db, mirror, clock, cache, lock, sending, missed, client, net, budget>>

\* Its result is in: the section of every client but the writer is queued.
FanOut(c) ==
  /\ Stage(c, "result") /\ First(c, {"query", "result"})
  /\ srv' = [srv EXCEPT ![c].stage = "fanout"]
  /\ lock' = [d \in Clients |-> IF d = c THEN lock[d] ELSE Append(lock[d], c)]
  /\ UNCHANGED <<db, mirror, clock, cache, sending, missed, client, net, budget>>

\* Mutant: a send that failed on the way fails the whole message.
AcknowledgeUnlessMissed(c) ==
  /\ Stage(c, "fanout") /\ \A d \in Clients : c \notin Elements(lock[d]) /\ ~missed[d]
  /\ net' = [net EXCEPT ![c] = Append(@, [type |-> "ack", op |-> srv[c].op])]
  /\ srv' = [srv EXCEPT ![c] = Idle]
  /\ UNCHANGED <<db, mirror, clock, cache, lock, sending, missed, client, budget>>

\* handleOps ends once every section is through, failed sends or not: the ack
\* goes out.
Acknowledge(c) ==
  /\ Stage(c, "fanout") /\ \A d \in Clients : c \notin Elements(lock[d])
  /\ net' = [net EXCEPT ![c] = Append(@, [type |-> "ack", op |-> srv[c].op])]
  /\ srv' = [srv EXCEPT ![c] = Idle]
  /\ UNCHANGED <<db, mirror, clock, cache, lock, sending, missed, client, budget>>

-----------------------------------------------------------------------------
(* sendToSubscriber, in client c's critical section.                       *)

Result(c) == srv[Head(lock[c])].rows
Stamp(c)  == srv[Head(lock[c])].stamp

\* diffOnly: what turns the cached result into the new one.
Diff(c) ==
  {[type |-> "delta",
    op   |-> IF cache[c][r] = NoRow THEN "insert" ELSE IF Result(c)[r] = NoRow THEN "delete" ELSE "update",
    row  |-> r, v |-> Result(c)[r], hlc |-> Stamp(c)] :
   r \in {x \in Rows : cache[c][x] # Result(c)[x]}}

\* The next broadcast waiting for c's section gets its turn.
Leave(c) == lock' = [lock EXCEPT ![c] = Tail(@)]

Sectioned(c) == lock[c] # << >> /\ ~sending[c]

\* Nothing changed for this client: the result is committed as it is.
NothingNew(c) ==
  /\ Sectioned(c) /\ Diff(c) = {}
  /\ missed' = [missed EXCEPT ![c] = FALSE]
  /\ Leave(c)
  /\ UNCHANGED <<db, mirror, clock, srv, cache, sending, client, net, budget>>

SendDeltas(c) ==
  /\ Sectioned(c) /\ Diff(c) # {}
  /\ net' = [net EXCEPT ![c] = @ \o SetToSeq(Diff(c))]
  /\ sending' = [sending EXCEPT ![c] = TRUE]
  /\ UNCHANGED <<db, mirror, clock, srv, cache, lock, missed, client, budget>>

\* Some send rejects: the frames before it are out, nothing is committed.
SendFails(c) ==
  LET frames == SetToSeq(Diff(c))
  IN  /\ Sectioned(c) /\ losses > 0 /\ frames # << >>
      /\ losses' = losses - 1
      /\ \E n \in 0 .. IF Partial THEN Len(frames) - 1 ELSE 0 : net' = [net EXCEPT ![c] = @ \o SubSeq(frames, 1, n)]
      /\ missed' = [missed EXCEPT ![c] = TRUE]
      /\ Leave(c)
      /\ UNCHANGED <<db, mirror, clock, srv, cache, sending, client, writes, bootstraps>>

\* Mutant: the cached result does not follow.
CommitForgets(c) ==
  /\ sending[c]
  /\ sending' = [sending EXCEPT ![c] = FALSE]
  /\ missed' = [missed EXCEPT ![c] = FALSE]
  /\ Leave(c)
  /\ UNCHANGED <<db, mirror, clock, srv, cache, client, net, budget>>

\* Every frame is out: the result becomes the cached one.
Commit(c) ==
  /\ sending[c]
  /\ cache' = [cache EXCEPT ![c] = Result(c)]
  /\ sending' = [sending EXCEPT ![c] = FALSE]
  /\ missed' = [missed EXCEPT ![c] = FALSE]
  /\ Leave(c)
  /\ UNCHANGED <<db, mirror, clock, srv, client, net, budget>>

-----------------------------------------------------------------------------
(* handleBootstrap.                                                        *)

ReadSnapshot(c) ==
  /\ Starts(c) /\ Head(up[c]) = Bootstrap
  /\ up' = [up EXCEPT ![c] = Tail(@)]
  /\ srv' = [srv EXCEPT ![c] = [stage |-> "snapshot", rows |-> db]]
  /\ UNCHANGED <<db, mirror, clock, cache, lock, sending, missed, local, pending, net, budget>>

\* Its rows carry the clock as it is now.
SendSnapshot(c) ==
  /\ Stage(c, "snapshot")
  /\ net' = [net EXCEPT ![c] =
               Append(@, [type |-> "snapshot", rows |-> srv[c].rows, hlc |-> 2 * clock])]
  /\ srv' = [srv EXCEPT ![c].stage = "snapshotSent"]
  /\ UNCHANGED <<db, mirror, clock, cache, lock, sending, missed, client, budget>>

\* Once it is delivered the cache follows; bootstrap_complete is stamped.
CommitSnapshot(c) ==
  /\ Stage(c, "snapshotSent")
  /\ cache' = [cache EXCEPT ![c] = srv[c].rows]
  /\ missed' = [missed EXCEPT ![c] = FALSE]
  /\ clock' = clock + 1
  /\ srv' = [srv EXCEPT ![c] = Idle]
  /\ UNCHANGED <<db, mirror, lock, sending, client, net, budget>>

Handle(c) ==
  \/ Decide(c) \/ Settle(c) \/ ReadDb(c) \/ FanOut(c) \/ Acknowledge(c)
  \/ ReadSnapshot(c) \/ SendSnapshot(c) \/ CommitSnapshot(c)
Section(c) == NothingNew(c) \/ SendDeltas(c) \/ SendFails(c) \/ Commit(c)

Next == \E c \in Clients : Write(c) \/ AskBootstrap(c) \/ Receive(c) \/ Handle(c) \/ Section(c)

Spec == Init /\ [][Next]_vars

\* Promises settle and frames that were sent arrive; nobody has to write.
FairSpec ==
  Spec /\ \A c \in Clients : WF_vars(Receive(c)) /\ WF_vars(Handle(c)) /\ WF_vars(Section(c))
-----------------------------------------------------------------------------
(* Properties.                                                             *)

View(c) == [r \in Rows |-> local[c][r].v]
Readers == {c \in Clients : Mine[c] = {}}

\* "edits in one appear in the other" (README.md:352): once everything is
\* delivered and acknowledged, every client that only reads shows the
\* database, unless the last broadcast to it failed (broadcast-engine.ts,
\* result-cache.ts, applyDelta).
ReadersConverge == Quiet => \A c \in Readers : missed[c] \/ View(c) = db

\* The same of every client, those included that wrote: what they applied
\* optimistically and were not told again is what the server decided.
Converge == Quiet => \A c \in Clients : missed[c] \/ View(c) = db

\* The frames about row r on their way to client c.
Coming(c, r) == {j \in DOMAIN net[c] : net[c][j].type = "delta" /\ net[c][j].row = r}

\* The cached result a reader is diffed against is what the last frame on its
\* way tells it of a row, or what it holds when there is none; and each frame
\* is newer than all it will meet, so the reader refuses none.  The critical
\* section and the commit after the sends keep the server's belief true while
\* broadcasts overlap (withLock, commit).
CacheIsWhatReadersHold ==
  \A c \in Readers, r \in Rows :
    LET told == (IF sending[c] THEN Result(c) ELSE cache[c])[r]
    IN  /\ Coming(c, r) = {} => local[c][r].v = told
        /\ \A j \in Coming(c, r) :
             /\ local[c][r].hlc < net[c][j].hlc
             /\ \A k \in Coming(c, r) : k < j => net[c][k].hlc < net[c][j].hlc
             /\ (\A k \in Coming(c, r) : k <= j) => net[c][j].v = told

\* Every op is answered, every section left, every frame received, and then
\* the readers show the database for good; a failed send to one client holds
\* up nobody ("A prior failure must not poison the queue", withLock).
EventuallyConverged == <>[](Quiet /\ ReadersConverge)

\* What the server believes of the clients that only read, and what they show,
\* each as stated above.
ReadersAgree == ReadersConverge /\ CacheIsWhatReadersHold

\* Where the server finishes one message before the next.
SerialAgree == TypeOK /\ Converge
=============================================================================
