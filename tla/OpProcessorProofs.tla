-------------------------- MODULE OpProcessorProofs --------------------------
(***************************************************************************)
(* Theorems about OpProcessor, for any number of instances, requests, ops  *)
(* and rows, and for every conflict policy.  The second half is about what *)
(* the write path leaves in the mirror, the log and the database.  It      *)
(* rests on one fact: where ops of a row take turns (one instance), or     *)
(* where the compare-and-swap guards it (any number of instances), the     *)
(* mirror only changes by an op being resolved against the very row it     *)
(* replaces.                                                               *)
(***************************************************************************)
EXTENDS OpProcessor, SequenceTheorems, TLAPS

-----------------------------------------------------------------------------
(* Conflict resolution returns a verdict.                                  *)

\* Stamping some columns of a row's clocks gives clocks (buildColClocks).
LEMMA StampedTyped ==
  ASSUME NEW clocks \in Clocks, NEW cols, NEW hlc \in Nat
  PROVE  Stamped(clocks, cols, hlc) \in Clocks
  BY DEF Stamped, Clocks

\* The clocks of a row that is not there are clocks.
LEMMA MissingTyped == Missing \in Existing
  BY DEF Missing, Existing, Clocks

\* Accepting a row of data, or none, with clocks is a verdict.
LEMMA AcceptTyped ==
  ASSUME NEW row \in Data \cup {NoRow}, NEW clocks \in Clocks
  PROVE  Accept(row, clocks) \in Verdict
  BY DEF Accept, Verdict

\* So is rejecting in favour of the row that is there.
LEMMA RejectTyped ==
  ASSUME NEW existing \in Existing
  PROVE  Reject(existing) \in Verdict
  BY DEF Reject, Verdict, Existing

\* Laying a payload over a row of data gives a row of data.
LEMMA OverlayTyped ==
  ASSUME NEW row \in Data, NEW in \in Incoming
  PROVE  Overlay(row, in) \in Data
<1>1. \A c \in Touched(in) : in.payload \in Data /\ c \in Cols
  BY DEF Touched, Incoming
<1> QED BY <1>1 DEF Overlay, Data

\* An op that meets no row becomes the row.
LEMMA UnopposedTyped ==
  ASSUME NEW in \in Incoming
  PROVE  Unopposed(in) \in Verdict
<1>1. Missing.clocks \in Clocks
  BY MissingTyped DEF Existing
<1>2. BuildColClocks(in) \in Clocks
  BY <1>1, StampedTyped DEF BuildColClocks, Incoming
<1> QED BY <1>2, AcceptTyped DEF Unopposed, Incoming

\* resolveLww returns a verdict.
LEMMA LwwTyped ==
  ASSUME NEW in \in Incoming, NEW existing \in Existing
  PROVE  ResolveLww(in, existing) \in Verdict
<1>1. CASE existing.row = NoRow \/ existing.hlc = 0
  BY <1>1, UnopposedTyped DEF ResolveLww
<1>2. CASE ~(existing.row = NoRow \/ existing.hlc = 0) /\ in.hlc <= existing.hlc
  BY <1>2, RejectTyped DEF ResolveLww
<1>3. CASE ~(existing.row = NoRow \/ existing.hlc = 0) /\ ~(in.hlc <= existing.hlc)
  <2> DEFINE row == CASE in.kind = "delete" -> NoRow
                      [] in.kind = "update" -> Overlay(existing.row, in)
                      [] in.kind = "insert" -> in.payload
             clocks == Stamped(existing.clocks, Touched(in) \cup {RowClock}, in.hlc)
  <2>1. row \in Data \cup {NoRow}
    BY <1>3, OverlayTyped DEF Existing, Incoming, Kinds
  <2>2. clocks \in Clocks
    BY StampedTyped DEF Existing, Incoming
  <2>3. ResolveLww(in, existing) = Accept(row, clocks)
    BY <1>3 DEF ResolveLww
  <2> HIDE DEF row, clocks
  <2> QED BY <2>1, <2>2, <2>3, AcceptTyped
<1> QED BY <1>1, <1>2, <1>3

\* resolveMerge returns a verdict.
LEMMA MergeTyped ==
  ASSUME NEW in \in Incoming, NEW existing \in Existing
  PROVE  ResolveMerge(in, existing) \in Verdict
<1> DEFINE won == {c \in Touched(in) : in.hlc > existing.clocks[c]}
           row == IF in.hlc > existing.clocks[RowClock] THEN {RowClock} ELSE {}
           merged == [c \in Cols |-> IF c \in won THEN in.payload[c] ELSE existing.row[c]]
<1>1. CASE existing.row = NoRow \/ existing.hlc = 0
  BY <1>1, UnopposedTyped DEF ResolveMerge
<1>2. CASE ~(existing.row = NoRow \/ existing.hlc = 0) /\ in.kind = "delete"
  <2>1. Stamped(existing.clocks, {RowClock}, in.hlc) \in Clocks
    BY StampedTyped DEF Existing, Incoming
  <2> QED BY <1>2, <2>1, AcceptTyped, RejectTyped DEF ResolveMerge
<1>3. CASE ~(existing.row = NoRow \/ existing.hlc = 0) /\ in.kind # "delete"
  <2>1. \A c \in won : in.payload \in Data
    BY DEF Touched, Incoming
  <2>2. merged \in Data
    BY <1>3, <2>1 DEF Data, Existing
  <2>3. Stamped(existing.clocks, won \cup row, in.hlc) \in Clocks
    BY StampedTyped DEF Existing, Incoming
  <2>4. ResolveMerge(in, existing)
          = IF won = {} THEN Reject(existing)
            ELSE Accept(merged, Stamped(existing.clocks, won \cup row, in.hlc))
    BY <1>3 DEF ResolveMerge
  <2> HIDE DEF won, row, merged
  <2> QED BY <2>2, <2>3, <2>4, AcceptTyped, RejectTyped
<1> QED BY <1>1, <1>2, <1>3

\* resolveCustom returns a verdict, whatever the resolver merges.
LEMMA CustomTyped ==
  ASSUME NEW in \in Incoming, NEW existing \in Existing
  PROVE  ResolveCustom(in, existing) \in Verdict
<1>1. CASE existing.row = NoRow
  BY <1>1, UnopposedTyped DEF ResolveCustom
<1>2. CASE existing.row # NoRow
  <2> DEFINE row == UnionResolver(in, existing)
             changed == {c \in Cols : row[c] # existing.row[c]}
             stamp == IF changed = {} THEN {} ELSE changed \cup {RowClock}
  <2>1. \A c \in Touched(in) : in.payload \in Data /\ c \in Cols
    BY DEF Touched, Incoming
  <2>2. row \in Data
    BY <1>2, <2>1 DEF UnionResolver, Data, Existing
  <2>3. Stamped(existing.clocks, stamp, in.hlc) \in Clocks
    BY StampedTyped DEF Existing, Incoming
  <2>4. ResolveCustom(in, existing) = Accept(row, Stamped(existing.clocks, stamp, in.hlc))
    BY <1>2 DEF ResolveCustom
  <2> HIDE DEF row, stamp
  <2> QED BY <2>2, <2>3, <2>4, AcceptTyped
<1> QED BY <1>1, <1>2

\* Whatever the policy, the op and the row, resolveConflict returns a verdict
\* with a row of data, or none, and clocks for its columns.
LEMMA ResolveTyped ==
  ASSUME NEW in \in Incoming, NEW existing \in Existing, NEW policy \in Policies
  PROVE  ResolveConflict(policy, in, existing) \in Verdict
<1>1. ResolveServer(in, existing) \in Verdict
  BY UnopposedTyped, RejectTyped DEF ResolveServer
<1> QED BY <1>1, LwwTyped, MergeTyped, CustomTyped DEF ResolveConflict, Policies

-----------------------------------------------------------------------------
(* Type correctness.                                                       *)

\* The request is between joining a row's queue and its op's answer.
Working(q) == pc[q] \in {"queued", "mutate", "apply"}

\* A request at work has an op to work on: nothing answers an op twice.
OnOp == \A q \in Requests : Working(q) => at(q) \in DOMAIN Req[q].ops

TypeInv == TypeOK /\ OnOp

\* A request waits only in the queue of its current op's row, once.
InLine ==
  \A i \in Instances, r \in Rows, q \in Requests : \A k \in DOMAIN queue[i][r] :
    queue[i][r][k] = q => Working(q) /\ Inst(q) = i /\ Row(q) = r

WaitsOnce ==
  \A i \in Instances, r \in Rows : \A j, k \in DOMAIN queue[i][r] :
    queue[i][r][j] = queue[i][r][k] => j = k

\* Only the head of the queue is past resolving its op.
AtHead == \A q \in Requests : pc[q] \in {"mutate", "apply"} => Holds(q)

QueueInv == InLine /\ WaitsOnce /\ AtHead

\* A request with a current op has it from the ops there are.
LEMMA CurTyped ==
  ASSUME NEW q \in Requests, at(q) \in DOMAIN Req[q].ops
  PROVE  /\ Cur(q) \in OpIds /\ Row(q) \in Rows /\ Inst(q) \in Instances
         /\ Op[Cur(q)].hlc \in Nat \ {0} /\ In(Cur(q)) \in Incoming
<1>1. Req[q].ops \in Seq(OpIds) /\ Inst(q) \in Instances
  BY OpProcessorAssumption DEF Inst
<1>2. Cur(q) \in OpIds
  BY <1>1 DEF Cur
<1>3. Row(q) \in Rows /\ Op[Cur(q)].hlc \in Nat \ {0} /\ Op[Cur(q)].kind \in Kinds
  BY <1>2, OpProcessorAssumption DEF Row
<1>4. In(Cur(q)) \in Incoming
  BY <1>2, <1>3, OpProcessorAssumption DEF In, Incoming, Data
<1> QED BY <1>1, <1>2, <1>3, <1>4

\* The row a request resolves against is one storage or its batch holds.
LEMMA ReadRowTyped ==
  ASSUME TypeOK, NEW q \in Requests, Row(q) \in Rows
  PROVE  ReadRow(q) \in Existing
<1>1. Mirrored \subseteq Existing
  BY MissingTyped DEF Mirrored, Existing
<1> QED BY <1>1 DEF TypeOK, ReadRow

\* The initial state is typed, and no request is at an op.
LEMMA TypeInit == Init => TypeInv
<1> SUFFICES ASSUME Init PROVE TypeInv
  OBVIOUS
<1>1. Missing \in Existing /\ Missing \in Mirrored
  BY MissingTyped DEF Mirrored
<1>2. Reject(Missing) \in Verdict
  BY <1>1, RejectTyped
<1>3. TypeOK
  BY <1>1, <1>2, OpProcessorAssumption DEF Init, TypeOK
<1>4. OnOp
  BY DEF Init, OnOp, Working
<1> QED BY <1>3, <1>4 DEF TypeInv

\* Every step keeps the types, and a request that is at an op inside its
\* message (handleOps, processClientOp).
LEMMA TypeStep == TypeInv /\ QueueInv /\ [Next]_vars => TypeInv'
<1> SUFFICES ASSUME TypeOK, OnOp, QueueInv, [Next]_vars
             PROVE  TypeOK' /\ OnOp'
  BY DEF TypeInv
<1>1. ASSUME NEW q \in Requests, Reserve(q)
      PROVE  TypeOK' /\ OnOp'
  <2>1. Ops(q) \subseteq OpIds
    BY OpProcessorAssumption DEF Ops
  <2> QED BY <1>1, <2>1 DEF Reserve, TypeOK, OnOp, Working, at, attempt
<1>2. ASSUME NEW q \in Requests, Prefetch(q)
      PROVE  TypeOK' /\ OnOp'
  <2>1. Mirrored \subseteq Existing
    BY MissingTyped DEF Mirrored, Existing
  <2>2. \A r \in Rows : mirror[r] \in Existing /\ cache[q][r] \in Existing \cup {Unread}
    BY <2>1 DEF TypeOK
  <2>3. cache' \in [Requests -> [Rows -> Existing \cup {Unread}]]
    <3> DEFINE got == [r \in Rows |-> IF \E o \in fresh[q] : Op[o].row = r
                                      THEN mirror[r] ELSE cache[q][r]]
    <3>1. cache' = [cache EXCEPT ![q] = got] \/ cache' = cache
      BY <1>2 DEF Prefetch
    <3>2. got \in [Rows -> Existing \cup {Unread}]
      BY <2>2
    <3> HIDE DEF got
    <3> QED BY <3>1, <3>2 DEF TypeOK
  <2>4. pc' = [pc EXCEPT ![q] = "next"] /\ UNCHANGED <<storage, db, queue, fresh, stale, attempt,
                                                      verdict, crashes>>
    BY <1>2 DEF Prefetch
  <2> QED BY <2>3, <2>4 DEF TypeOK, OnOp, Working, at, attempt, storage
<1>3. ASSUME NEW q \in Requests, RejectRest(q)
      PROVE  TypeOK' /\ OnOp'
  BY <1>3 DEF RejectRest, Answer, TypeOK, OnOp, Working, at, attempt, storage, batch, Outcomes
<1>4. ASSUME NEW q \in Requests, Replay(q)
      PROVE  TypeOK' /\ OnOp'
  BY <1>4 DEF Replay, Answer, TypeOK, OnOp, Working, at, attempt, storage, batch, Outcomes
<1>5. ASSUME NEW q \in Requests, Enqueue(q)
      PROVE  TypeOK' /\ OnOp'
  <2>1. Row(q) \in Rows /\ Inst(q) \in Instances
    BY <1>5, CurTyped DEF Enqueue, More
  <2>2. queue' \in [Instances -> [Rows -> Seq(Requests)]]
    BY <1>5, <2>1 DEF Enqueue, TypeOK
  <2>3. /\ fresh' \in [Requests -> SUBSET OpIds] /\ tries' \in [Requests -> Nat]
        /\ pc' = [pc EXCEPT ![q] = "queued"] /\ at(q) \in DOMAIN Req[q].ops
        /\ UNCHANGED <<storage, db, cache, stale, cur, out, verdict, crashes>>
    BY <1>5 DEF Enqueue, More, TypeOK
  <2> QED BY <2>2, <2>3 DEF TypeOK, OnOp, Working, at, storage
<1>6. ASSUME NEW q \in Requests, Finish(q)
      PROVE  TypeOK' /\ OnOp'
  BY <1>6 DEF Finish, TypeOK, OnOp, Working, at, attempt, storage, batch
<1>7. ASSUME NEW q \in Requests, Resolve(q)
      PROVE  TypeOK' /\ OnOp'
  <2>1. Row(q) \in Rows /\ Inst(q) \in Instances /\ In(Cur(q)) \in Incoming
    BY <1>7, CurTyped DEF Resolve, OnOp, Working
  <2>2. ReadRow(q) \in Existing
    BY <2>1, ReadRowTyped
  <2>3. ResolveConflict(Policy[Row(q)], In(Cur(q)), ReadRow(q)) \in Verdict
    BY <2>1, <2>2, ResolveTyped, OpProcessorAssumption
  <2>4. Holds(q) /\ queue[Inst(q)][Row(q)] \in Seq(Requests)
    BY <1>7, <2>1 DEF Resolve, TypeOK
  <2>5. Tail(queue[Inst(q)][Row(q)]) \in Seq(Requests)
    BY <2>4 DEF Holds, Queue
  <2>6. cur' \in [Requests -> Existing]
    BY <1>7, <2>2 DEF Resolve, TypeOK
  <2>7. /\ cache' \in [Requests -> [Rows -> Existing \cup {Unread}]]
        /\ stale' \in [Requests -> SUBSET Rows]
    <3> DEFINE read == ReadRow(q)
    <3>1. \/ UNCHANGED <<cache, stale>>
          \/ /\ cache' = [cache EXCEPT ![q] = [cache[q] EXCEPT ![Row(q)] = read]]
             /\ stale' = [stale EXCEPT ![q] = stale[q] \ {Row(q)}]
      BY <1>7 DEF Resolve
    <3>2. read \in Existing /\ cache[q] \in [Rows -> Existing \cup {Unread}]
      BY <2>2 DEF TypeOK
    <3> HIDE DEF read
    <3>3. [cache[q] EXCEPT ![Row(q)] = read] \in [Rows -> Existing \cup {Unread}]
      BY <3>2
    <3>4. /\ cache \in [Requests -> [Rows -> Existing \cup {Unread}]]
          /\ stale \in [Requests -> SUBSET Rows]
      BY DEF TypeOK
    <3> QED BY <3>1, <3>3, <3>4
  <2>8. UNCHANGED <<storage, db, fresh, tries, crashes>>
    BY <1>7 DEF Resolve
  <2>9. CASE /\ out' = [out EXCEPT ![q] = ResolveConflict(Policy[Row(q)], In(Cur(q)), ReadRow(q))]
             /\ pc' = [pc EXCEPT ![q] = "mutate"]
             /\ UNCHANGED <<queue, verdict>>
    <3>1. pc[q] = "queued"
      BY <1>7 DEF Resolve
    <3> QED BY <2>3, <2>6, <2>7, <2>8, <2>9, <3>1 DEF TypeOK, OnOp, Working, at, storage
  <2>10. CASE /\ \E v \in Outcomes : Answer(q, v)
              /\ LeaveQueue(q) /\ UNCHANGED out
    <3>1. queue' \in [Instances -> [Rows -> Seq(Requests)]]
      BY <2>1, <2>5, <2>10 DEF LeaveQueue, TypeOK
    <3> QED BY <2>6, <2>7, <2>8, <2>10, <3>1
            DEF Answer, TypeOK, OnOp, Working, at, storage, Outcomes
  <2> QED BY <1>7, <2>9, <2>10 DEF Resolve, Outcomes
<1>8. ASSUME NEW q \in Requests, Mutate(q)
      PROVE  TypeOK' /\ OnOp'
  <2>1. Row(q) \in Rows
    BY <1>8, CurTyped DEF Mutate, OnOp, Working
  <2> QED BY <1>8, <2>1 DEF Mutate, TypeOK, OnOp, Working, at, attempt, storage, batch, Verdict
<1>9. ASSUME NEW q \in Requests, LeaveQueue(q), Working(q), Holds(q)
      PROVE  queue' \in [Instances -> [Rows -> Seq(Requests)]]
  <2>1. Row(q) \in Rows /\ Inst(q) \in Instances
    BY <1>9, CurTyped DEF OnOp
  <2>2. queue[Inst(q)][Row(q)] \in Seq(Requests) /\ queue[Inst(q)][Row(q)] # << >>
    BY <1>9, <2>1 DEF TypeOK, Holds, Queue
  <2>3. Tail(queue[Inst(q)][Row(q)]) \in Seq(Requests)
    BY <2>2
  <2> QED BY <1>9, <2>1, <2>3 DEF LeaveQueue, TypeOK
<1>10. ASSUME NEW q \in Requests, MutateThrows(q)
       PROVE  TypeOK' /\ OnOp'
  <2>1. queue' \in [Instances -> [Rows -> Seq(Requests)]]
    BY <1>10, <1>9 DEF MutateThrows, Working, QueueInv, AtHead
  <2> QED BY <1>10, <2>1
          DEF MutateThrows, Answer, TypeOK, OnOp, Working, at, attempt, storage, batch, Outcomes
<1>11. ASSUME NEW q \in Requests, Apply(q)
       PROVE  TypeOK' /\ OnOp'
  <2>1. queue' \in [Instances -> [Rows -> Seq(Requests)]]
    BY <1>11, <1>9 DEF Apply, Working, QueueInv, AtHead
  <2>2. Cur(q) \in OpIds /\ Row(q) \in Rows /\ Op[Cur(q)].hlc \in Nat \ {0}
    BY <1>11, CurTyped DEF Apply, OnOp, Working
  <2> DEFINE written == [row |-> out[q].row, hlc |-> Op[Cur(q)].hlc, clocks |-> out[q].clocks]
  <2>3. written \in Existing /\ Stored(Cur(q), out[q]) \in Mirrored
    BY <2>2 DEF TypeOK, Stored, Mirrored, Existing, Verdict
  <2>4. mirror' \in [Rows -> Mirrored] /\ log' \in Seq(OpIds)
    BY <1>11, <2>2, <2>3 DEF Apply, TypeOK
  <2>5. cache' = [cache EXCEPT ![q] = [cache[q] EXCEPT ![Row(q)] = written]]
    BY <1>11 DEF Apply, RecordBatchWrite
  <2>6. stale' \in [Requests -> SUBSET Rows]
    BY <1>11, <2>2 DEF Apply, RecordBatchWrite, TypeOK
  <2> HIDE DEF written
  <2>7. [cache[q] EXCEPT ![Row(q)] = written] \in [Rows -> Existing \cup {Unread}]
    BY <2>3 DEF TypeOK
  <2>8. cache' \in [Requests -> [Rows -> Existing \cup {Unread}]]
    BY <2>5, <2>7 DEF TypeOK
  <2>9. Answer(q, "applied") /\ UNCHANGED <<reserved, db, fresh, attempt, crashes>>
    BY <1>11 DEF Apply
  <2> QED BY <2>1, <2>4, <2>6, <2>8, <2>9
          DEF Answer, TypeOK, OnOp, Working, at, attempt, Outcomes
<1>12. ASSUME NEW q \in Requests, LoseRace(q)
       PROVE  TypeOK' /\ OnOp'
  <2>1. CASE /\ tries' = [tries EXCEPT ![q] = @ + 1]
             /\ pc' = [pc EXCEPT ![q] = "queued"]
             /\ UNCHANGED <<queue, verdict>>
    BY <1>12, <2>1 DEF LoseRace, TypeOK, OnOp, Working, at, storage, batch
  <2>2. CASE Answer(q, "rejected") /\ LeaveQueue(q) /\ UNCHANGED tries
    <3>1. queue' \in [Instances -> [Rows -> Seq(Requests)]]
      BY <1>12, <1>9, <2>2 DEF LoseRace, Working, QueueInv, AtHead
    <3> QED BY <1>12, <2>2, <3>1
            DEF LoseRace, Answer, TypeOK, OnOp, Working, at, storage, batch, Outcomes
  <2> QED BY <1>12, <2>1, <2>2 DEF LoseRace
<1>13. ASSUME NEW q \in Requests, ApplyThrows(q)
       PROVE  TypeOK' /\ OnOp'
  <2>1. queue' \in [Instances -> [Rows -> Seq(Requests)]]
    BY <1>13, <1>9 DEF ApplyThrows, Working, QueueInv, AtHead
  <2> QED BY <1>13, <2>1
          DEF ApplyThrows, TypeOK, OnOp, Working, at, attempt, storage, batch
<1>14. ASSUME NEW i \in Instances, Crash(i)
       PROVE  TypeOK' /\ OnOp'
  <2>1. queue' \in [Instances -> [Rows -> Seq(Requests)]] /\ crashes' \in Nat
    BY <1>14 DEF Crash, TypeOK
  <2> QED BY <1>14, <2>1 DEF Crash, TypeOK, OnOp, Working, at, attempt, storage, batch
<1>15. CASE UNCHANGED vars
  BY <1>15 DEF vars, TypeOK, OnOp, Working, at, attempt, storage, batch
<1> QED
  BY <1>1, <1>2, <1>3, <1>4, <1>5, <1>6, <1>7, <1>8, <1>10, <1>11, <1>12, <1>13, <1>14, <1>15
  DEF Next, Handle

-----------------------------------------------------------------------------
(* The queues of the rows.                                                 *)

\* A step of a request that is in no queue, before it or after it, leaves the
\* queues as they are.
LEMMA QueueAside ==
  ASSUME TypeOK, QueueInv, NEW q \in Requests, ~Working(q), queue' = queue, ~Working(q)',
         \A p \in Requests \ {q} : pc'[p] = pc[p] /\ verdict'[p] = verdict[p]
  PROVE  QueueInv'
<1>1. \A i \in Instances, r \in Rows : \A k \in DOMAIN queue[i][r] :
        queue[i][r][k] \in Requests \ {q}
  BY DEF TypeOK, QueueInv, InLine
<1>2. InLine'
  BY <1>1 DEF QueueInv, InLine, Working, Row, Cur, at
<1>3. WaitsOnce'
  BY DEF QueueInv, WaitsOnce
<1>4. AtHead'
  BY DEF QueueInv, AtHead, Holds, Queue, Working, Row, Cur, at
<1> QED BY <1>2, <1>3, <1>4 DEF QueueInv

\* A step of the head of a queue that goes on with its op leaves them too.
LEMMA QueueStays ==
  ASSUME TypeOK, QueueInv, NEW q \in Requests, Working(q), Holds(q), Working(q)',
         queue' = queue, verdict' = verdict,
         \A p \in Requests \ {q} : pc'[p] = pc[p]
  PROVE  QueueInv'
<1>1. InLine'
  <2>1. \A i \in Instances, r \in Rows : \A k \in DOMAIN queue[i][r] : queue[i][r][k] \in Requests
    BY DEF TypeOK
  <2>2. \A p \in Requests : Row(p)' = Row(p) /\ (Working(p) => Working(p)')
    BY DEF Row, Cur, at, Working
  <2> QED BY <2>1, <2>2 DEF QueueInv, InLine, Inst
<1>2. WaitsOnce'
  BY DEF QueueInv, WaitsOnce
<1>3. AtHead'
  BY DEF QueueInv, AtHead, Holds, Queue, Working, Row, Cur, at
<1> QED BY <1>1, <1>2, <1>3 DEF QueueInv

\* When the head of a queue is through with its op it leaves, and the next
\* one in line is the head.
LEMMA QueueLeaves ==
  ASSUME TypeOK, OnOp, QueueInv, NEW q \in Requests, Working(q), Holds(q), ~Working(q)',
         LeaveQueue(q),
         \A p \in Requests \ {q} : pc'[p] = pc[p] /\ verdict'[p] = verdict[p]
  PROVE  QueueInv'
<1> DEFINE line == queue[Inst(q)][Row(q)]
<1>1. Row(q) \in Rows /\ Inst(q) \in Instances
  BY CurTyped DEF OnOp
<1>2. line \in Seq(Requests) /\ line # << >> /\ line[1] = q
  BY <1>1 DEF TypeOK, Holds, Queue
<1> DEFINE rest == Tail(line)
<1>3. /\ rest \in Seq(Requests) /\ Len(rest) = Len(line) - 1
      /\ \A k \in DOMAIN rest : k \in Nat /\ k + 1 \in DOMAIN line /\ rest[k] = line[k + 1]
  BY <1>2, HeadTailProperties
<1>4. \A i \in Instances, r \in Rows :
        queue'[i][r] = IF i = Inst(q) /\ r = Row(q) THEN rest ELSE queue[i][r]
  BY <1>1 DEF LeaveQueue, TypeOK
<1>5. \A k \in DOMAIN rest : rest[k] # q
  <2> SUFFICES ASSUME NEW k \in DOMAIN rest, rest[k] = q PROVE FALSE
    OBVIOUS
  <2>1. k \in Nat \ {0} /\ k + 1 \in DOMAIN line /\ line[k + 1] = line[1] /\ 1 \in DOMAIN line
    BY <1>2, <1>3
  <2>2. k + 1 = 1
    BY <1>1, <2>1 DEF QueueInv, WaitsOnce
  <2> QED BY <2>1, <2>2
<1> HIDE DEF rest
<1>6. \A p \in Requests \ {q} : Row(p)' = Row(p) /\ Working(p)' = Working(p)
  BY DEF Row, Cur, at, Working
<1>7. ASSUME NEW i \in Instances, NEW r \in Rows, NEW k \in DOMAIN queue'[i][r],
             NEW p \in Requests, queue'[i][r][k] = p
      PROVE  /\ Working(p)' /\ Inst(p) = i /\ Row(p)' = r
             /\ \A j \in DOMAIN queue'[i][r] : queue'[i][r][j] = p => j = k
  <2>1. CASE i = Inst(q) /\ r = Row(q)
    <3>1. queue'[i][r] = rest /\ line = queue[i][r]
      BY <1>4, <2>1
    <3>2. rest[k] \in Requests \ {q} /\ k + 1 \in DOMAIN line /\ rest[k] = line[k + 1]
      BY <1>3, <1>5, <3>1
    <3>3. Working(p) /\ Inst(p) = i /\ Row(p) = r /\ p # q
      BY <1>7, <3>1, <3>2 DEF QueueInv, InLine
    <3>4. ASSUME NEW j \in DOMAIN rest, rest[j] = p
          PROVE  j = k
      <4>1. j \in Nat /\ k \in Nat /\ j + 1 \in DOMAIN line /\ line[j + 1] = line[k + 1]
        BY <1>3, <1>7, <3>1, <3>2, <3>4
      <4>2. j + 1 = k + 1
        BY <3>1, <3>2, <4>1 DEF QueueInv, WaitsOnce
      <4> QED BY <4>1, <4>2
    <3> QED BY <1>6, <3>1, <3>3, <3>4
  <2>2. CASE ~(i = Inst(q) /\ r = Row(q))
    <3>1. queue'[i][r] = queue[i][r]
      BY <1>4, <2>2
    <3>2. Working(p) /\ Inst(p) = i /\ Row(p) = r /\ p # q
      BY <1>7, <2>2, <3>1 DEF QueueInv, InLine
    <3>3. \A j \in DOMAIN queue[i][r] : queue[i][r][j] = p => j = k
      BY <1>7, <3>1 DEF QueueInv, WaitsOnce
    <3> QED BY <1>6, <3>1, <3>2, <3>3
  <2> QED BY <2>1, <2>2
<1>8. InLine'
  BY <1>7 DEF InLine, Inst
<1>9. WaitsOnce'
  <2>1. ASSUME NEW i \in Instances, NEW r \in Rows
        PROVE  queue'[i][r] \in Seq(Requests)
    <3>1. queue[i][r] \in Seq(Requests)
      BY DEF TypeOK
    <3> QED BY <1>3, <1>4, <3>1
  <2> QED BY <1>7, <2>1 DEF WaitsOnce
<1>10. AtHead'
  <2> SUFFICES ASSUME NEW p \in Requests, pc'[p] \in {"mutate", "apply"}
               PROVE  Holds(p)'
    BY DEF AtHead
  <2>1. p # q /\ pc[p] \in {"mutate", "apply"} /\ Row(p)' = Row(p)
    BY DEF Working, Row, Cur, at
  <2>2. Holds(p) /\ Inst(p) \in Instances /\ Row(p) \in Rows
    BY <2>1, CurTyped DEF QueueInv, AtHead, OnOp, Working
  <2>3. ~(Inst(p) = Inst(q) /\ Row(p) = Row(q))
    BY <2>1, <2>2 DEF Holds, Queue
  <2> QED BY <1>4, <2>1, <2>2, <2>3 DEF Holds, Queue, Inst
<1> QED BY <1>8, <1>9, <1>10 DEF QueueInv

\* A request that joins a queue joins it last.
LEMMA QueueJoins ==
  ASSUME TypeOK, OnOp, QueueInv, NEW q \in Requests, Enqueue(q)
  PROVE  QueueInv'
<1> DEFINE line == queue[Inst(q)][Row(q)]
<1>1. Row(q) \in Rows /\ Inst(q) \in Instances /\ ~Working(q)
  BY CurTyped DEF Enqueue, More, Working
<1>2. line \in Seq(Requests)
  BY <1>1 DEF TypeOK
<1> DEFINE longer == Append(line, q)
<1>3. /\ longer \in Seq(Requests)
      /\ DOMAIN line = 1 .. Len(line) /\ DOMAIN longer = 1 .. Len(line) + 1 /\ Len(line) \in Nat
      /\ \A k \in DOMAIN line : longer[k] = line[k] /\ k \in DOMAIN longer
      /\ longer[Len(line) + 1] = q
  BY <1>2, AppendProperties
<1>4. \A i \in Instances, r \in Rows :
        queue'[i][r] = IF i = Inst(q) /\ r = Row(q) THEN longer ELSE queue[i][r]
  BY <1>1 DEF Enqueue, TypeOK
<1> HIDE DEF longer
<1>5. \A i \in Instances, r \in Rows : \A k \in DOMAIN queue[i][r] :
        queue[i][r][k] \in Requests \ {q}
  BY <1>1 DEF TypeOK, QueueInv, InLine
<1>6. /\ \A p \in Requests : Row(p)' = Row(p) /\ (Working(p) => Working(p)')
      /\ \A p \in Requests \ {q} : pc'[p] = pc[p]
      /\ pc'[q] = "queued" /\ Working(q)'
  BY DEF Enqueue, Row, Cur, at, TypeOK, Working
<1>7. ASSUME NEW i \in Instances, NEW r \in Rows, NEW k \in DOMAIN queue'[i][r],
             NEW p \in Requests, queue'[i][r][k] = p
      PROVE  /\ Working(p)' /\ Inst(p) = i /\ Row(p)' = r
             /\ \A j \in DOMAIN queue'[i][r] : queue'[i][r][j] = p => j = k
  <2>1. CASE i = Inst(q) /\ r = Row(q)
    <3>1. queue'[i][r] = longer /\ line = queue[i][r]
      BY <1>4, <2>1
    <3>2. \A j \in DOMAIN line : longer[j] = line[j] /\ longer[j] \in Requests \ {q}
      BY <1>3, <1>5, <3>1
    <3>3. \A j \in DOMAIN longer : j = Len(line) + 1 \/ j \in DOMAIN line
      BY <1>3
    <3>4. CASE k = Len(line) + 1
      <4>1. p = q
        BY <1>3, <1>7, <3>1, <3>4
      <4> QED BY <1>6, <2>1, <3>1, <3>2, <3>3, <3>4, <4>1
    <3>5. CASE k # Len(line) + 1
      <4>1. k \in DOMAIN line /\ line[k] = p /\ p # q
        BY <1>7, <3>1, <3>2, <3>3, <3>5
      <4>2. Working(p) /\ Inst(p) = i /\ Row(p) = r
        BY <3>1, <4>1 DEF QueueInv, InLine
      <4>3. ASSUME NEW j \in DOMAIN longer, longer[j] = p
            PROVE  j = k
        <5>1. j \in DOMAIN line /\ line[j] = line[k]
          BY <1>3, <3>2, <3>3, <4>1, <4>3
        <5> QED BY <3>1, <4>1, <5>1 DEF QueueInv, WaitsOnce
      <4> QED BY <1>6, <3>1, <4>2, <4>3
    <3> QED BY <3>4, <3>5
  <2>2. CASE ~(i = Inst(q) /\ r = Row(q))
    <3>1. queue'[i][r] = queue[i][r]
      BY <1>4, <2>2
    <3>2. Working(p) /\ Inst(p) = i /\ Row(p) = r
      BY <1>7, <3>1 DEF QueueInv, InLine
    <3>3. \A j \in DOMAIN queue[i][r] : queue[i][r][j] = p => j = k
      BY <1>7, <3>1 DEF QueueInv, WaitsOnce
    <3> QED BY <1>6, <3>1, <3>2, <3>3
  <2> QED BY <2>1, <2>2
<1>8. InLine'
  BY <1>7 DEF InLine, Inst
<1>9. WaitsOnce'
  <2>1. ASSUME NEW i \in Instances, NEW r \in Rows
        PROVE  queue'[i][r] \in Seq(Requests)
    <3>1. queue[i][r] \in Seq(Requests)
      BY DEF TypeOK
    <3> QED BY <1>3, <1>4, <3>1
  <2> QED BY <1>7, <2>1 DEF WaitsOnce
<1>10. AtHead'
  <2> SUFFICES ASSUME NEW p \in Requests, pc'[p] \in {"mutate", "apply"}
               PROVE  Holds(p)'
    BY DEF AtHead
  <2>1. pc[p] \in {"mutate", "apply"}
    BY <1>6
  <2>2. Holds(p) /\ Inst(p) \in Instances /\ Row(p) \in Rows
    BY <2>1, CurTyped DEF QueueInv, AtHead, OnOp, Working
  <2>3. CASE Inst(p) = Inst(q) /\ Row(p) = Row(q)
    <3>1. line # << >> /\ Head(line) = p
      BY <2>2, <2>3 DEF Holds, Queue, line
    <3>2. longer # << >> /\ Head(longer) = p
      BY <1>2, <1>3, <3>1
    <3> QED BY <1>4, <1>6, <2>2, <2>3, <3>2 DEF Holds, Queue, Inst
  <2>4. CASE ~(Inst(p) = Inst(q) /\ Row(p) = Row(q))
    BY <1>4, <1>6, <2>2, <2>4 DEF Holds, Queue, Inst
  <2> QED BY <2>3, <2>4
<1> QED BY <1>8, <1>9, <1>10 DEF QueueInv

\* At the start every queue is empty.
LEMMA QueueInit == Init => QueueInv
  BY DEF Init, QueueInv, InLine, WaitsOnce, AtHead

\* Every step keeps the row queues consistent: a request waits in the queue of
\* its own row only, once, and works on the row at the head only (onRow).
LEMMA QueueStep == TypeInv /\ QueueInv /\ [Next]_vars => QueueInv'
<1> SUFFICES ASSUME TypeOK, OnOp, QueueInv, [Next]_vars
             PROVE  QueueInv'
  BY DEF TypeInv
<1>1. ASSUME NEW q \in Requests, \/ Reserve(q) \/ Prefetch(q) \/ RejectRest(q) \/ Replay(q)
                                 \/ Finish(q)
      PROVE  QueueInv'
  <2>1. ~Working(q) /\ queue' = queue
    BY <1>1 DEF Reserve, Prefetch, RejectRest, Replay, Finish, More, Working
  <2>2. ~Working(q)'
    BY <1>1 DEF Reserve, Prefetch, RejectRest, Replay, Finish, Answer, Working, TypeOK
  <2>3. \A p \in Requests \ {q} : pc'[p] = pc[p] /\ verdict'[p] = verdict[p]
    BY <1>1 DEF Reserve, Prefetch, RejectRest, Replay, Finish, Answer, TypeOK
  <2> QED BY <2>1, <2>2, <2>3, QueueAside
<1>2. ASSUME NEW q \in Requests, Enqueue(q)
      PROVE  QueueInv'
  BY <1>2, QueueJoins
<1>3. ASSUME NEW q \in Requests, Resolve(q)
      PROVE  QueueInv'
  <2>1. Working(q) /\ Holds(q)
    BY <1>3 DEF Resolve, Working
  <2>2. CASE pc' = [pc EXCEPT ![q] = "mutate"] /\ UNCHANGED <<queue, verdict>>
    BY <2>1, <2>2, QueueStays DEF TypeOK, Working
  <2>3. CASE (\E v \in Outcomes : Answer(q, v)) /\ LeaveQueue(q)
    BY <2>1, <2>3, QueueLeaves DEF TypeOK, Working, Answer
  <2> QED BY <1>3, <2>2, <2>3 DEF Resolve, Outcomes
<1>4. ASSUME NEW q \in Requests, Mutate(q)
      PROVE  QueueInv'
  <2>1. Working(q) /\ Holds(q)
    BY <1>4 DEF Mutate, Working, QueueInv, AtHead
  <2> QED BY <1>4, <2>1, QueueStays DEF Mutate, TypeOK, Working
<1>5. ASSUME NEW q \in Requests, MutateThrows(q) \/ Apply(q) \/ ApplyThrows(q)
      PROVE  QueueInv'
  <2>1. Working(q) /\ Holds(q) /\ LeaveQueue(q)
    BY <1>5 DEF MutateThrows, Apply, ApplyThrows, Working, QueueInv, AtHead
  <2>2. ~Working(q)' /\ \A p \in Requests \ {q} : pc'[p] = pc[p] /\ verdict'[p] = verdict[p]
    BY <1>5 DEF MutateThrows, Apply, ApplyThrows, Answer, TypeOK, Working
  <2> QED BY <2>1, <2>2, QueueLeaves
<1>6. ASSUME NEW q \in Requests, LoseRace(q)
      PROVE  QueueInv'
  <2>1. Working(q) /\ Holds(q)
    BY <1>6 DEF LoseRace, Working, QueueInv, AtHead
  <2>2. CASE pc' = [pc EXCEPT ![q] = "queued"] /\ UNCHANGED <<queue, verdict>>
    BY <2>1, <2>2, QueueStays DEF TypeOK, Working
  <2>3. CASE Answer(q, "rejected") /\ LeaveQueue(q)
    BY <2>1, <2>3, QueueLeaves DEF TypeOK, Working, Answer
  <2> QED BY <1>6, <2>2, <2>3 DEF LoseRace
<1>7. ASSUME NEW c \in Instances, Crash(c)
      PROVE  QueueInv'
  <2>1. \A q \in Requests : Row(q)' = Row(q) /\ (Inst(q) # c => pc'[q] = pc[q])
    BY <1>7 DEF Crash, Row, Cur, at, TypeOK
  <2>2. \A i \in Instances, r \in Rows : queue'[i][r] = IF i = c THEN << >> ELSE queue[i][r]
    BY <1>7 DEF Crash, TypeOK
  <2>3. InLine'
    BY <2>1, <2>2 DEF QueueInv, InLine, Inst, Working
  <2>4. WaitsOnce'
    BY <2>2 DEF QueueInv, WaitsOnce
  <2>5. ASSUME NEW q \in Requests, pc'[q] \in {"mutate", "apply"}
        PROVE  Holds(q)'
    <3>1. Inst(q) # c /\ pc[q] \in {"mutate", "apply"}
      BY <1>7, <2>5 DEF Crash, Active, TypeOK
    <3>2. Holds(q) /\ Inst(q) \in Instances /\ Row(q) \in Rows
      BY <3>1, CurTyped DEF QueueInv, AtHead, OnOp, Working
    <3> QED BY <2>1, <2>2, <3>1, <3>2 DEF Holds, Queue, Inst
  <2> QED BY <2>3, <2>4, <2>5 DEF QueueInv, AtHead
<1>8. CASE UNCHANGED vars
  <2>1. queue' = queue /\ pc' = pc /\ verdict' = verdict
    BY <1>8 DEF vars
  <2>2. \A q \in Requests : /\ Row(q)' = Row(q) /\ Working(q)' = Working(q)
                            /\ Holds(q)' = Holds(q)
    BY <2>1 DEF Row, Cur, at, Working, Holds, Queue
  <2> QED BY <2>1, <2>2 DEF QueueInv, InLine, WaitsOnce, AtHead, Inst
<1> QED
  BY <1>1, <1>2, <1>3, <1>4, <1>5, <1>6, <1>7, <1>8 DEF Next, Handle

\* The state of every server, storage and request keeps to its types, and a
\* row's queue holds each request working on it once, the one past resolving
\* at its head: leaving a queue always takes the right request out.
THEOREM TypeCorrect == Spec => []TypeOK
<1>1. Spec => [](TypeInv /\ QueueInv)
  BY TypeInit, TypeStep, QueueInit, QueueStep, PTL DEF Spec
<1>2. TypeInv => TypeOK
  BY DEF TypeInv
<1> QED BY <1>1, <1>2, PTL

-----------------------------------------------------------------------------
(* An op is applied at most once.                                          *)

\* The ops a request may still apply: those it has fresh, and the one it is
\* working on.
Claimed(q) == fresh[q] \cup (IF Working(q) THEN {Cur(q)} ELSE {})

\* No two requests have a claim on the same op, and none has one on an op
\* that is applied.  This is what makes AtMostOnce inductive.
ClaimInv ==
  /\ Entries \subseteq reserved
  /\ \A q \in Requests : Claimed(q) \subseteq reserved \ Entries
  /\ \A p, q \in Requests : p # q => Claimed(p) \cap Claimed(q) = {}
  /\ \A q \in Requests : Working(q) => Cur(q) \notin fresh[q]
  /\ AtMostOnce

\* A step that applies nothing and claims nothing new keeps it.
LEMMA ClaimQuiet ==
  ASSUME ClaimInv, log' = log, reserved \subseteq reserved',
         \A q \in Requests : /\ Claimed(q)' \subseteq Claimed(q)
                             /\ Working(q)' => (Cur(q) \notin fresh[q])'
  PROVE  ClaimInv'
  BY DEF ClaimInv, Entries, AtMostOnce

\* What the steps of other requests leave of a request's claim.
LEMMA ClaimFrame ==
  ASSUME NEW q \in Requests, pc'[q] = pc[q], verdict'[q] = verdict[q], fresh'[q] = fresh[q]
  PROVE  Claimed(q)' = Claimed(q) /\ Working(q)' = Working(q) /\ Cur(q)' = Cur(q)
  BY DEF Claimed, Working, Cur, at

\* Every step keeps each op reserved by at most one of: a batch that has not
\* come to it, a request at work on it, the log (reserveOps, freshOpIds).
LEMMA ClaimStep == TypeInv /\ QueueInv /\ ClaimInv /\ [Next]_vars => ClaimInv'
<1> SUFFICES ASSUME TypeOK, OnOp, ClaimInv, [Next]_vars
             PROVE  ClaimInv'
  BY DEF TypeInv
<1> DEFINE Others(q) == \A p \in Requests \ {q} :
                          pc'[p] = pc[p] /\ verdict'[p] = verdict[p] /\ fresh'[p] = fresh[p]
<1>0. ASSUME NEW q \in Requests, Others(q), log' = log, reserved' = reserved,
             Claimed(q)' \subseteq Claimed(q), Working(q)' => (Cur(q) \notin fresh[q])'
      PROVE  ClaimInv'
  <2>1. \A p \in Requests \ {q} : Claimed(p)' = Claimed(p) /\ Working(p)' = Working(p)
                                    /\ Cur(p)' = Cur(p) /\ fresh'[p] = fresh[p]
    BY <1>0, ClaimFrame
  <2> QED BY <1>0, <2>1, ClaimQuiet DEF ClaimInv
<1>1. ASSUME NEW q \in Requests, Reserve(q)
      PROVE  ClaimInv'
  <2>1. Claimed(q)' = Ops(q) \ reserved /\ ~Working(q)' /\ Others(q)
    BY <1>1 DEF Reserve, Claimed, Working, TypeOK
  <2>2. \A p \in Requests \ {q} : Claimed(p)' = Claimed(p) /\ Working(p)' = Working(p)
                                    /\ Cur(p)' = Cur(p) /\ fresh'[p] = fresh[p]
    BY <2>1, ClaimFrame
  <2>3. log' = log /\ reserved' = reserved \cup Ops(q)
    BY <1>1 DEF Reserve
  <2> HIDE DEF Others
  <2> QED BY <2>1, <2>2, <2>3 DEF ClaimInv, Entries, AtMostOnce
<1>2. ASSUME NEW q \in Requests, \/ Prefetch(q) \/ RejectRest(q) \/ Replay(q) \/ Finish(q)
                                 \/ MutateThrows(q) \/ ApplyThrows(q)
      PROVE  ClaimInv'
  <2>1. ~Working(q)' /\ Others(q) /\ fresh'[q] = fresh[q]
    BY <1>2 DEF Prefetch, RejectRest, Replay, Finish, MutateThrows, ApplyThrows, Answer, batch,
                Working, TypeOK
  <2>2. log' = log /\ reserved' = reserved
    BY <1>2 DEF Prefetch, RejectRest, Replay, Finish, MutateThrows, ApplyThrows, storage
  <2>3. Claimed(q)' \subseteq Claimed(q)
    BY <2>1 DEF Claimed
  <2> QED BY <1>0, <2>1, <2>2, <2>3
<1>3. ASSUME NEW q \in Requests, Enqueue(q)
      PROVE  ClaimInv'
  <2>1. Cur(q)' = Cur(q) /\ fresh'[q] = fresh[q] \ {Cur(q)} /\ Cur(q) \in fresh[q] /\ Others(q)
    BY <1>3 DEF Enqueue, Cur, at, TypeOK
  <2>2. Claimed(q)' \subseteq Claimed(q)
    BY <2>1 DEF Claimed
  <2> QED BY <1>0, <1>3, <2>1, <2>2 DEF Enqueue, storage
<1>4. ASSUME NEW q \in Requests, Resolve(q) \/ Mutate(q) \/ LoseRace(q)
      PROVE  ClaimInv'
  <2>1. Working(q) /\ Others(q) /\ fresh'[q] = fresh[q] /\ log' = log /\ reserved' = reserved
    BY <1>4 DEF Resolve, Mutate, LoseRace, Answer, Working, batch, storage, TypeOK
  <2>2. Working(q)' => verdict'[q] = verdict[q]
    BY <1>4 DEF Resolve, Mutate, LoseRace, Answer, Working, TypeOK
  <2>3. Working(q)' => Cur(q)' = Cur(q)
    BY <2>2 DEF Cur, at
  <2>4. Claimed(q)' \subseteq Claimed(q)
    BY <2>1, <2>3 DEF Claimed
  <2> QED BY <1>0, <2>1, <2>3, <2>4 DEF ClaimInv
<1>5. ASSUME NEW q \in Requests, Apply(q)
      PROVE  ClaimInv'
  <2> DEFINE o == Cur(q)
  <2>1. /\ Working(q) /\ ~Working(q)' /\ Others(q) /\ fresh'[q] = fresh[q]
        /\ log' = Append(log, o) /\ reserved' = reserved
    BY <1>5 DEF Apply, Answer, Working, TypeOK
  <2>2. o \in Claimed(q) /\ o \notin fresh[q] /\ Claimed(q)' = fresh[q]
    BY <2>1 DEF Claimed, ClaimInv
  <2>3. \A p \in Requests \ {q} : Claimed(p)' = Claimed(p) /\ Working(p)' = Working(p)
                                    /\ Cur(p)' = Cur(p) /\ fresh'[p] = fresh[p]
    BY <2>1, ClaimFrame
  <2>4. log \in Seq(OpIds) /\ o \in OpIds
    BY <2>1, CurTyped DEF TypeOK, OnOp
  <2> HIDE DEF o, Others
  <2>5. /\ DOMAIN log = 1 .. Len(log) /\ DOMAIN log' = 1 .. Len(log) + 1 /\ Len(log) \in Nat
        /\ \A k \in DOMAIN log : log'[k] = log[k]
        /\ log'[Len(log) + 1] = o
    BY <2>1, <2>4, AppendProperties
  <2>6. Entries' = Entries \cup {o} /\ o \notin Entries
    BY <2>2, <2>5 DEF Entries, ClaimInv
  <2>7. AtMostOnce'
    BY <2>5, <2>6 DEF AtMostOnce, ClaimInv, Entries
  <2>8. \A p \in Requests : Claimed(p)' \subseteq Claimed(p) \ {o}
    BY <2>2, <2>3 DEF ClaimInv, Claimed
  <2>9. o \in reserved
    BY <2>2 DEF ClaimInv
  <2> QED BY <2>1, <2>3, <2>6, <2>7, <2>8, <2>9 DEF ClaimInv
<1>6. ASSUME NEW i \in Instances, Crash(i)
      PROVE  ClaimInv'
  <2>1. \A q \in Requests : /\ Working(q)' => Working(q)
                            /\ Cur(q)' = Cur(q) /\ fresh'[q] = fresh[q]
    BY <1>6 DEF Crash, Working, Cur, at, batch, TypeOK
  <2>2. log' = log /\ reserved' = reserved
    BY <1>6 DEF Crash, storage
  <2>3. \A q \in Requests : Claimed(q)' \subseteq Claimed(q)
    BY <2>1 DEF Claimed
  <2> QED BY <2>1, <2>2, <2>3, ClaimQuiet DEF ClaimInv
<1>7. CASE UNCHANGED vars
  BY <1>7 DEF vars, storage, batch, ClaimInv, Claimed, Working, Cur, at, Entries, AtMostOnce
<1> QED
  BY <1>1, <1>2, <1>3, <1>4, <1>5, <1>6, <1>7 DEF Next, Handle

\* At the start nothing is reserved.
LEMMA ClaimInit == Init => ClaimInv
  BY DEF Init, ClaimInv, Claimed, Working, Entries, AtMostOnce

\* Whatever is sent again, to whichever instance, and whichever instance dies
\* where, an op id enters the mirror and the log at most once: a reservation
\* is handed to one request, which consumes it before it applies the op.
THEOREM AppliedAtMostOnce == Spec => []AtMostOnce
<1>1. Spec => [](TypeInv /\ QueueInv /\ ClaimInv)
  BY TypeInit, TypeStep, QueueInit, QueueStep, ClaimInit, ClaimStep, PTL DEF Spec
<1>2. ClaimInv => AtMostOnce
  BY DEF ClaimInv
<1> QED BY <1>1, <1>2, PTL

-----------------------------------------------------------------------------
(* On one instance an op is decided on the row it is written over.         *)

SingleInstance == \A p, q \in Requests : Inst(p) = Inst(q)

\* A row a batch may use without reading it again is the mirror's.
CacheInv ==
  \A q \in Requests, r \in Rows :
    Active(q) /\ r \notin stale[q] /\ cache[q][r] # Unread => SameRow(cache[q][r], mirror[r])

NothingCached == \A q \in Requests : pc[q] = "idle" => \A r \in Rows : cache[q][r] = Unread

LatestInv == DecidedOnLatest /\ CacheInv /\ NothingCached

\* Two requests past resolving an op on one instance are on different rows.
LEMMA OnePerRow ==
  ASSUME SingleInstance, QueueInv, NEW p \in Requests, NEW q \in Requests, p # q,
         pc[p] \in {"mutate", "apply"}, pc[q] \in {"mutate", "apply"}
  PROVE  Row(p) # Row(q)
  BY DEF SingleInstance, QueueInv, AtHead, Holds, Queue

\* What a request resolves against is the mirror's row.
LEMMA ReadsLatest ==
  ASSUME LatestInv, NEW q \in Requests, Active(q), Row(q) \in Rows
  PROVE  SameRow(ReadRow(q), mirror[Row(q)])
  BY DEF LatestInv, CacheInv, ReadRow, SameRow

\* At the start no request has read a row.
LEMMA LatestInit == Init => LatestInv
  BY DEF Init, LatestInv, DecidedOnLatest, CacheInv, NothingCached, Active

\* On one instance every step keeps the copies a batch may use, and the row an
\* op was resolved against, equal to the mirror (readRow, recordBatchWrite).
LEMMA LatestStep ==
  ASSUME SingleInstance
  PROVE  TypeInv /\ QueueInv /\ LatestInv /\ [Next]_vars => LatestInv'
<1> SUFFICES ASSUME TypeOK, OnOp, QueueInv, LatestInv, [Next]_vars
             PROVE  LatestInv'
  BY DEF TypeInv
<1>0. ASSUME mirror' = mirror, cache' = cache, stale' = stale, cur' = cur,
             \A q \in Requests :
               /\ pc'[q] \in {"mutate", "apply"} =>
                    pc[q] \in {"mutate", "apply"} /\ verdict'[q] = verdict[q]
               /\ Active(q)' => Active(q) \/ pc[q] = "idle"
               /\ pc'[q] = "idle" => pc[q] = "idle"
      PROVE  LatestInv'
  <2>1. DecidedOnLatest'
    BY <1>0 DEF LatestInv, DecidedOnLatest, Row, Cur, at
  <2>2. CacheInv' /\ NothingCached'
    BY <1>0 DEF LatestInv, CacheInv, NothingCached
  <2> QED BY <2>1, <2>2 DEF LatestInv
<1>1. ASSUME NEW q \in Requests, \/ Reserve(q) \/ RejectRest(q) \/ Replay(q) \/ Enqueue(q)
                                 \/ Finish(q) \/ MutateThrows(q) \/ LoseRace(q) \/ ApplyThrows(q)
      PROVE  LatestInv'
  <2>1. mirror' = mirror /\ cache' = cache /\ stale' = stale /\ cur' = cur
    BY <1>1 DEF Reserve, RejectRest, Replay, Enqueue, Finish, MutateThrows, LoseRace, ApplyThrows,
                storage, batch, attempt
  <2>2. /\ \A p \in Requests \ {q} : pc'[p] = pc[p] /\ verdict'[p] = verdict[p]
        /\ pc'[q] \notin {"mutate", "apply", "idle"}
        /\ Active(q) \/ pc[q] = "idle"
    BY <1>1 DEF Reserve, RejectRest, Replay, Enqueue, Finish, MutateThrows, LoseRace, ApplyThrows,
                Answer, More, Active, TypeOK
  <2> QED BY <1>0, <2>1, <2>2 DEF Active
<1>2. ASSUME NEW q \in Requests, Prefetch(q)
      PROVE  LatestInv'
  <2>1. /\ mirror' = mirror /\ stale' = stale /\ cur' = cur /\ verdict' = verdict
        /\ \A p \in Requests \ {q} : pc'[p] = pc[p] /\ cache'[p] = cache[p]
        /\ Active(q) /\ pc'[q] = "next"
        /\ \A r \in Rows : cache'[q][r] \in {mirror[r], cache[q][r]}
    BY <1>2 DEF Prefetch, storage, attempt, Active, TypeOK
  <2>2. DecidedOnLatest'
    BY <2>1 DEF LatestInv, DecidedOnLatest, Row, Cur, at
  <2>3. CacheInv'
    BY <2>1 DEF LatestInv, CacheInv, Active, SameRow
  <2>4. NothingCached'
    BY <2>1 DEF LatestInv, NothingCached
  <2> QED BY <2>2, <2>3, <2>4 DEF LatestInv
<1>3. ASSUME NEW q \in Requests, Resolve(q)
      PROVE  LatestInv'
  <2>1. Row(q) \in Rows /\ Active(q)
    BY <1>3, CurTyped DEF Resolve, OnOp, Working, Active
  <2> DEFINE read == ReadRow(q)
  <2>2. SameRow(read, mirror[Row(q)])
    BY <2>1, ReadsLatest
  <2>3. /\ mirror' = mirror /\ cur' = [cur EXCEPT ![q] = read]
        /\ \A p \in Requests \ {q} : pc'[p] = pc[p] /\ verdict'[p] = verdict[p]
        /\ pc'[q] # "idle" /\ (pc'[q] \in {"mutate", "apply"} => verdict'[q] = verdict[q])
    BY <1>3 DEF Resolve, Answer, storage, TypeOK
  <2>4. \/ UNCHANGED <<cache, stale>>
        \/ /\ cache' = [cache EXCEPT ![q] = [cache[q] EXCEPT ![Row(q)] = read]]
           /\ stale' = [stale EXCEPT ![q] = stale[q] \ {Row(q)}]
    BY <1>3 DEF Resolve
  <2> HIDE DEF read
  <2>5. /\ \A p \in Requests \ {q} : cache'[p] = cache[p] /\ stale'[p] = stale[p]
        /\ \A r \in Rows : \/ cache'[q][r] = cache[q][r] /\ (r \in stale[q] => r \in stale'[q])
                           \/ r = Row(q) /\ cache'[q][r] = read
    <3>1. /\ cache \in [Requests -> [Rows -> Existing \cup {Unread}]]
          /\ stale \in [Requests -> SUBSET Rows]
      BY DEF TypeOK
    <3> QED BY <2>4, <3>1
  <2>6. DecidedOnLatest'
    <3> SUFFICES ASSUME NEW p \in Requests, pc'[p] \in {"mutate", "apply"}
                 PROVE  SameRow(cur'[p], mirror'[Row(p)'])
      BY DEF DecidedOnLatest
    <3>1. Row(p)' = Row(p)
      BY <2>3 DEF Row, Cur, at
    <3>2. CASE p = q
      BY <2>2, <2>3, <3>1, <3>2 DEF TypeOK
    <3>3. CASE p # q
      BY <2>3, <3>1, <3>3 DEF LatestInv, DecidedOnLatest, TypeOK
    <3> QED BY <3>2, <3>3
  <2>7. CacheInv'
    BY <2>1, <2>2, <2>3, <2>5 DEF LatestInv, CacheInv, Active
  <2>8. NothingCached'
    BY <2>3, <2>5 DEF LatestInv, NothingCached
  <2> QED BY <2>6, <2>7, <2>8 DEF LatestInv
<1>4. ASSUME NEW q \in Requests, Mutate(q)
      PROVE  LatestInv'
  <2>1. mirror' = mirror /\ cache' = cache /\ stale' = stale /\ cur' = cur /\ verdict' = verdict
    BY <1>4 DEF Mutate, storage, batch, attempt
  <2>2. pc[q] = "mutate" /\ pc' = [pc EXCEPT ![q] = "apply"]
    BY <1>4 DEF Mutate
  <2> QED BY <1>0, <2>1, <2>2 DEF Active, TypeOK
<1>5. ASSUME NEW q \in Requests, Apply(q)
      PROVE  LatestInv'
  <2> DEFINE r == Row(q)
             stored == Stored(Cur(q), out[q])
             written == [row |-> out[q].row, hlc |-> Op[Cur(q)].hlc, clocks |-> out[q].clocks]
  <2>1. r \in Rows /\ pc[q] = "apply"
    BY <1>5, CurTyped DEF Apply, OnOp, Working
  <2>2. SameRow(written, stored)
    BY DEF SameRow, Stored, Missing
  <2>3. /\ mirror' = [mirror EXCEPT ![r] = stored]
        /\ cache' = [cache EXCEPT ![q] = [cache[q] EXCEPT ![r] = written]]
        /\ cur' = cur
        /\ \A p \in Requests \ {q} : pc'[p] = pc[p] /\ verdict'[p] = verdict[p]
        /\ pc'[q] = "next"
    BY <1>5 DEF Apply, RecordBatchWrite, Answer, attempt, TypeOK
  <2>4. \A p \in Requests :
          stale'[p] = IF p = q THEN stale[p] \ {r}
                      ELSE IF Active(p) THEN stale[p] \cup {r} ELSE stale[p]
    BY <1>5 DEF Apply, RecordBatchWrite, SingleInstance
  <2> HIDE DEF r, stored, written
  <2>5. /\ \A s \in Rows : mirror'[s] = IF s = r THEN stored ELSE mirror[s]
        /\ \A p \in Requests \ {q} : cache'[p] = cache[p]
        /\ \A s \in Rows : cache'[q][s] = IF s = r THEN written ELSE cache[q][s]
    <3>1. mirror \in [Rows -> Mirrored] /\ cache \in [Requests -> [Rows -> Existing \cup {Unread}]]
      BY DEF TypeOK
    <3> QED BY <2>3, <3>1
  <2>6. DecidedOnLatest'
    <3> SUFFICES ASSUME NEW p \in Requests, pc'[p] \in {"mutate", "apply"}
                 PROVE  SameRow(cur'[p], mirror'[Row(p)'])
      BY DEF DecidedOnLatest
    <3>1. p # q /\ pc[p] \in {"mutate", "apply"} /\ Row(p)' = Row(p)
      BY <2>3 DEF Row, Cur, at
    <3>2. Row(p) # r /\ Row(p) \in Rows
      BY <2>1, <3>1, OnePerRow, CurTyped DEF r, OnOp, Working
    <3> QED BY <2>3, <2>5, <3>1, <3>2 DEF LatestInv, DecidedOnLatest
  <2>7. CacheInv'
    <3> SUFFICES ASSUME NEW p \in Requests, NEW s \in Rows,
                        Active(p)', s \notin stale'[p], cache'[p][s] # Unread
                 PROVE  SameRow(cache'[p][s], mirror'[s])
      BY DEF CacheInv
    <3>1. CASE p = q
      <4>1. Active(q)
        BY <2>1 DEF Active
      <4> QED BY <2>2, <2>4, <2>5, <3>1, <4>1 DEF LatestInv, CacheInv
    <3>2. CASE p # q
      <4>1. Active(p) /\ s # r /\ s \notin stale[p]
        BY <2>3, <2>4, <3>2 DEF Active
      <4> QED BY <2>5, <3>2, <4>1 DEF LatestInv, CacheInv
    <3> QED BY <3>1, <3>2
  <2>8. NothingCached'
    BY <2>3, <2>5 DEF LatestInv, NothingCached
  <2> QED BY <2>6, <2>7, <2>8 DEF LatestInv
<1>6. ASSUME NEW i \in Instances, Crash(i)
      PROVE  LatestInv'
  <2>1. mirror' = mirror /\ cache' = cache /\ stale' = stale /\ cur' = cur /\ verdict' = verdict
    BY <1>6 DEF Crash, storage, batch, attempt
  <2>2. \A q \in Requests : pc'[q] \in {pc[q], "lost"}
    BY <1>6 DEF Crash, TypeOK
  <2> QED BY <1>0, <2>1, <2>2 DEF Active
<1>7. CASE UNCHANGED vars
  BY <1>0, <1>7 DEF vars, storage, batch, attempt, Active
<1> QED
  BY <1>1, <1>2, <1>3, <1>4, <1>5, <1>6, <1>7 DEF Next, Handle

\* With one server instance and any number of rows, clients and ops in
\* flight, from resolving an op to writing it the mirror's row is the one it
\* was resolved against: row queues and stale marks leave no window in which
\* another batch's write is overlooked.
THEOREM DecidesOnLatest ==
  ASSUME SingleInstance
  PROVE  Spec => []DecidedOnLatest
<1>1. TypeInv /\ QueueInv /\ LatestInv /\ [Next]_vars => (TypeInv /\ QueueInv /\ LatestInv)'
  BY TypeStep, QueueStep, LatestStep
<1>2. Init => TypeInv /\ QueueInv /\ LatestInv
  BY TypeInit, QueueInit, LatestInit
<1>3. LatestInv => DecidedOnLatest
  BY DEF LatestInv
<1> QED BY <1>1, <1>2, <1>3, PTL DEF Spec

-----------------------------------------------------------------------------
(* What the steps do to the mirror, the log and the database.              *)

Past(q) == pc[q] \in {"mutate", "apply"}       \* past resolving its op

Resolved(q) == ResolveConflict(Policy[Row(q)], In(Cur(q)), cur[q])

Alone(q) ==
  \A p \in Requests \ {q} :
    pc'[p] = pc[p] /\ verdict'[p] = verdict[p] /\ cur'[p] = cur[p] /\ out'[p] = out[p]

\* The request leaves its op, or goes on to another, and decides on none by a
\* policy.
Rests(q) ==
  /\ UNCHANGED <<mirror, log, db>> /\ Alone(q)
  /\ ~Past(q)' /\ pc[q] # "lost"
  /\ pc[q] = "apply" => Checked(Row(q)) \/ (pc'[q] = "lost" /\ verdict'[q] = verdict[q])
  /\ \/ verdict'[q] = verdict[q]
     \/ \E v \in {"replayed", "refused", "rejected"} :
          /\ at(q) \in DOMAIN Req[q].ops
          /\ verdict'[q] = Append(verdict[q], v)
          /\ v = "rejected" => Checked(Row(q))

\* Its policy rejects the op.
Declines(q) ==
  /\ UNCHANGED <<mirror, log, db>> /\ Alone(q)
  /\ pc[q] = "queued" /\ ~Past(q)'
  /\ verdict'[q] = Append(verdict[q], "rejected")
  /\ ~ResolveConflict(Policy[Row(q)], In(Cur(q)), ReadRow(q)).accepted

\* Its policy accepts the op.
Accepts(q) ==
  /\ UNCHANGED <<mirror, log, db>> /\ Alone(q)
  /\ pc[q] = "queued" /\ pc'[q] = "mutate" /\ verdict'[q] = verdict[q]
  /\ cur'[q] = ReadRow(q)
  /\ out'[q] = ResolveConflict(Policy[Row(q)], In(Cur(q)), cur'[q])
  /\ out'[q].accepted

\* Its row is given to the database.
Persists(q) ==
  /\ UNCHANGED <<mirror, log>> /\ Alone(q)
  /\ pc[q] = "mutate" /\ pc'[q] = "apply" /\ verdict'[q] = verdict[q]
  /\ cur'[q] = cur[q] /\ out'[q] = out[q]
  /\ db' = [db EXCEPT ![Row(q)] = out[q].row]

\* Its row is written to the mirror.
Writes(q) ==
  /\ UNCHANGED db /\ Alone(q)
  /\ pc[q] = "apply" /\ pc'[q] = "next"
  /\ Checked(Row(q)) => mirror[Row(q)].hlc = cur[q].hlc
  /\ mirror' = [mirror EXCEPT ![Row(q)] = Stored(Cur(q), out[q])]
  /\ log' = Append(log, Cur(q))
  /\ verdict'[q] = Append(verdict[q], "applied")

\* Nothing happens, or requests die where they are.
Halts ==
  /\ UNCHANGED <<mirror, log, db, verdict, cur, out>>
  /\ \A q \in Requests : pc'[q] = pc[q] \/ (pc'[q] = "lost" /\ Active(q))

\* Every step is one of these.
LEMMA StepKinds ==
  ASSUME TypeInv, [Next]_vars
  PROVE  \/ \E q \in Requests : Rests(q) \/ Declines(q) \/ Accepts(q) \/ Persists(q) \/ Writes(q)
         \/ Halts
<1> USE DEF TypeInv
<1>1. ASSUME NEW q \in Requests, Reserve(q) \/ Prefetch(q) \/ Finish(q) \/ Enqueue(q)
      PROVE  Rests(q)
  <2>1. /\ UNCHANGED <<mirror, log, db, verdict, cur, out>>
        /\ pc[q] \in {"idle", "fetch", "next"}
        /\ \E s \in {"fetch", "next", "done", "queued"} : pc' = [pc EXCEPT ![q] = s]
    BY <1>1 DEF Reserve, Prefetch, Finish, Enqueue, More, storage, attempt
  <2> QED BY <2>1 DEF Rests, Alone, Past, TypeOK
<1>2. ASSUME NEW q \in Requests, RejectRest(q) \/ Replay(q)
      PROVE  Rests(q)
  <2>1. /\ UNCHANGED <<mirror, log, db, cur, out>>
        /\ pc[q] = "next" /\ at(q) \in DOMAIN Req[q].ops
        /\ \E v \in {"refused", "replayed"} : Answer(q, v)
    BY <1>2 DEF RejectRest, Replay, More, storage, attempt
  <2> QED BY <2>1 DEF Rests, Alone, Past, TypeOK, Answer
<1>3. ASSUME NEW q \in Requests, MutateThrows(q)
      PROVE  Rests(q)
  <2>1. /\ UNCHANGED <<mirror, log, db, cur, out>>
        /\ pc[q] = "mutate" /\ Answer(q, "refused") /\ at(q) \in DOMAIN Req[q].ops
    BY <1>3 DEF MutateThrows, OnOp, Working, storage, attempt
  <2> QED BY <2>1 DEF Rests, Alone, Past, TypeOK, Answer
<1>4. ASSUME NEW q \in Requests, LoseRace(q)
      PROVE  Rests(q)
  <2>1. /\ UNCHANGED <<mirror, log, db, cur, out>>
        /\ pc[q] = "apply" /\ Checked(Row(q)) /\ at(q) \in DOMAIN Req[q].ops
        /\ \/ pc' = [pc EXCEPT ![q] = "queued"] /\ verdict' = verdict
           \/ Answer(q, "rejected")
    BY <1>4 DEF LoseRace, OnOp, Working, storage
  <2> QED BY <2>1 DEF Rests, Alone, Past, TypeOK, Answer
<1>5. ASSUME NEW q \in Requests, ApplyThrows(q)
      PROVE  Rests(q)
  BY <1>5 DEF ApplyThrows, Rests, Alone, Past, TypeOK, storage, attempt
<1>6. ASSUME NEW q \in Requests, Resolve(q)
      PROVE  Rests(q) \/ Declines(q) \/ Accepts(q)
  <2> DEFINE read == ReadRow(q)
             result == ResolveConflict(Policy[Row(q)], In(Cur(q)), read)
  <2>1. /\ UNCHANGED <<mirror, log, db>> /\ pc[q] = "queued" /\ at(q) \in DOMAIN Req[q].ops
        /\ cur' = [cur EXCEPT ![q] = read]
        /\ \/ /\ result.accepted
              /\ out' = [out EXCEPT ![q] = result] /\ pc' = [pc EXCEPT ![q] = "mutate"]
              /\ verdict' = verdict
           \/ result.accepted /\ Answer(q, "refused") /\ UNCHANGED out
           \/ ~result.accepted /\ Answer(q, "rejected") /\ UNCHANGED out
    BY <1>6 DEF Resolve, OnOp, Working, storage
  <2> HIDE DEF read, result
  <2>2. /\ \A p \in Requests \ {q} : cur'[p] = cur[p]
        /\ cur'[q] = read
    BY <2>1 DEF TypeOK
  <2>3. CASE /\ result.accepted
             /\ out' = [out EXCEPT ![q] = result] /\ pc' = [pc EXCEPT ![q] = "mutate"]
             /\ verdict' = verdict
    <3>1. Alone(q) /\ out'[q] = result /\ pc'[q] = "mutate"
      BY <2>2, <2>3 DEF Alone, TypeOK
    <3> QED BY <2>1, <2>2, <2>3, <3>1 DEF Accepts, read, result
  <2>4. CASE result.accepted /\ Answer(q, "refused") /\ UNCHANGED out
    BY <2>1, <2>2, <2>4 DEF Rests, Alone, Past, Answer, TypeOK
  <2>5. CASE ~result.accepted /\ Answer(q, "rejected") /\ UNCHANGED out
    <3>1. Alone(q) /\ pc'[q] = "next" /\ verdict'[q] = Append(verdict[q], "rejected")
      BY <2>2, <2>5 DEF Alone, Answer, TypeOK
    <3> QED BY <2>1, <2>5, <3>1 DEF Declines, Past, read, result
  <2> QED BY <2>1, <2>3, <2>4, <2>5
<1>7. ASSUME NEW q \in Requests, Mutate(q)
      PROVE  Persists(q)
  BY <1>7 DEF Mutate, Persists, Alone, TypeOK, storage, attempt
<1>8. ASSUME NEW q \in Requests, Apply(q)
      PROVE  Writes(q)
  BY <1>8 DEF Apply, Writes, Alone, Answer, TypeOK, attempt
<1>9. ASSUME NEW i \in Instances, Crash(i)
      PROVE  Halts
  BY <1>9 DEF Crash, Halts, TypeOK, storage, attempt
<1>10. ASSUME UNCHANGED vars
       PROVE  Halts
  BY <1>10 DEF vars, Halts, storage, attempt
<1> QED
  BY <1>1, <1>2, <1>3, <1>4, <1>5, <1>6, <1>7, <1>8, <1>9, <1>10 DEF Next, Handle

-----------------------------------------------------------------------------
(* Every write resolves its op against the row it replaces.                *)

\* The verdict a request carries is the one its policy gave on the row it
\* read, and accepts the op.
OutInv == \A q \in Requests : Past(q) => out[q] = Resolved(q) /\ out[q].accepted

\* At the start no request has a verdict.
LEMMA OutInit == Init => OutInv
  BY DEF Init, OutInv, Past

\* A verdict is only made by resolving, and kept until the row is written
\* (attemptConsistentOp).
LEMMA OutStep == TypeInv /\ OutInv /\ [Next]_vars => OutInv'
<1> SUFFICES ASSUME TypeInv, OutInv, [Next]_vars,
                    NEW q \in Requests, Past(q)'
             PROVE  (out[q] = Resolved(q) /\ out[q].accepted)'
  BY DEF OutInv
<1> USE DEF OutInv, Past, Resolved, Cur, Row, at
<1>1. ASSUME NEW p \in Requests, Rests(p) \/ Declines(p)
      PROVE  (out[q] = Resolved(q) /\ out[q].accepted)'
  BY <1>1 DEF Rests, Declines, Alone
<1>2. ASSUME NEW p \in Requests, Accepts(p)
      PROVE  (out[q] = Resolved(q) /\ out[q].accepted)'
  BY <1>2 DEF Accepts, Alone
<1>3. ASSUME NEW p \in Requests, Persists(p)
      PROVE  (out[q] = Resolved(q) /\ out[q].accepted)'
  <2>1. Past(q) /\ verdict'[q] = verdict[q] /\ cur'[q] = cur[q] /\ out'[q] = out[q]
    BY <1>3 DEF Persists, Alone
  <2> QED BY <2>1
<1>4. ASSUME NEW p \in Requests, Writes(p)
      PROVE  (out[q] = Resolved(q) /\ out[q].accepted)'
  BY <1>4 DEF Writes, Alone
<1>5. ASSUME Halts
      PROVE  (out[q] = Resolved(q) /\ out[q].accepted)'
  BY <1>5 DEF Halts
<1> QED BY <1>1, <1>2, <1>3, <1>4, <1>5, StepKinds

\* The mirror's row r is replaced by op o, resolved against that row.
WriteOf(o, r) ==
  /\ Op[o].row = r /\ o \notin Entries
  /\ ResolveConflict(Policy[r], In(o), mirror[r]).accepted
  /\ mirror' = [mirror EXCEPT ![r] = Stored(o, ResolveConflict(Policy[r], In(o), mirror[r]))]
  /\ log' = Append(log, o)

\* A policy does not tell two copies of a row apart that agree on the row and,
\* if there is one, on its HLC and its clocks.
LEMMA SameVerdict ==
  ASSUME NEW a, NEW b, SameRow(a, b), NEW in, NEW policy \in Policies
  PROVE  ResolveConflict(policy, in, a) = ResolveConflict(policy, in, b)
<1>1. CASE a.row # NoRow
  BY <1>1 DEF SameRow
<1>2. CASE a.row = NoRow
  <2>1. b.row = NoRow
    BY <1>2 DEF SameRow
  <2> QED BY <1>2, <2>1
          DEF ResolveConflict, Policies, ResolveLww, ResolveMerge, ResolveServer, ResolveCustom
<1> QED BY <1>1, <1>2

\* What WriteOf asks of a request that writes: the row it was resolved against
\* is still the mirror's.
LEMMA WriteIsOf ==
  ASSUME TypeInv, ClaimInv, OutInv, NEW q \in Requests, Writes(q),
         SameRow(cur[q], mirror[Row(q)])
  PROVE  Cur(q) \in OpIds /\ Row(q) \in Rows /\ WriteOf(Cur(q), Row(q))
<1>1. Working(q) /\ Past(q)
  BY DEF Writes, Working, Past
<1>2. Cur(q) \in OpIds /\ Row(q) \in Rows
  BY <1>1, CurTyped DEF TypeInv, OnOp
<1>3. Cur(q) \notin Entries
  BY <1>1 DEF ClaimInv, Claimed
<1>4. out[q] = ResolveConflict(Policy[Row(q)], In(Cur(q)), mirror[Row(q)]) /\ out[q].accepted
  <2>1. Policy[Row(q)] \in Policies
    BY <1>2, OpProcessorAssumption
  <2> QED BY <1>1, <2>1, SameVerdict DEF OutInv, Resolved
<1> QED BY <1>2, <1>3, <1>4 DEF Writes, WriteOf, Row

WriteSteps ==
  \/ UNCHANGED <<mirror, log>>
  \/ \E o \in OpIds, r \in Rows : WriteOf(o, r)

\* One instance: the ops of a row take turns.
LEMMA WritesInTurn ==
  ASSUME TypeInv, ClaimInv, OutInv, LatestInv, [Next]_vars
  PROVE  WriteSteps
<1>1. ASSUME NEW q \in Requests, Writes(q)
      PROVE  WriteSteps
  <2>1. SameRow(cur[q], mirror[Row(q)])
    BY <1>1 DEF LatestInv, DecidedOnLatest, Writes
  <2> QED BY <1>1, <2>1, WriteIsOf DEF WriteSteps
<1> QED BY <1>1, StepKinds DEF WriteSteps, Rests, Declines, Accepts, Persists, Halts

\* Any number of instances: what a copy of row r may be, so that one whose HLC
\* is the mirror's is the mirror's row.
KnownCopy(c, r) ==
  /\ c.hlc = 0 => c.row = NoRow
  /\ c.hlc # 0 => \E o \in Entries : Op[o].hlc = c.hlc
  /\ c.hlc = mirror[r].hlc => SameRow(c, mirror[r])

CopyInv ==
  /\ \A r \in Rows : KnownCopy(mirror[r], r)
  /\ \A q \in Requests, r \in Rows : cache[q][r] # Unread => KnownCopy(cache[q][r], r)
  /\ \A q \in Requests : Past(q) => KnownCopy(cur[q], Row(q))

\* At the start there is no row, and no copy.
LEMMA CopyInit == Init => CopyInv
  BY DEF Init, CopyInv, KnownCopy, Past, SameRow, Missing

\* A write gives the row an HLC no copy of it has yet, or takes the row away.
LEMMA CopyWritten ==
  ASSUME TypeOK, CopyInv, NEW o \in OpIds, NEW s \in Rows, NEW v \in Verdict, o \notin Entries,
         mirror' = [mirror EXCEPT ![s] = Stored(o, v)], log' = Append(log, o)
  PROVE  /\ \A r \in Rows : \A c : KnownCopy(c, r) => KnownCopy(c, r)'
         /\ KnownCopy(Stored(o, v), s)'
         /\ KnownCopy([row |-> v.row, hlc |-> Op[o].hlc, clocks |-> v.clocks], s)'
<1>1. Entries' = Entries \cup {o}
  <2>1. log \in Seq(OpIds)
    BY DEF TypeOK
  <2>2. /\ DOMAIN log = 1 .. Len(log) /\ DOMAIN log' = 1 .. Len(log) + 1 /\ Len(log) \in Nat
        /\ \A k \in DOMAIN log : log'[k] = log[k]
        /\ log'[Len(log) + 1] = o
    BY <2>1, AppendProperties
  <2> QED BY <2>2 DEF Entries
<1>2. Entries \subseteq OpIds
  BY DEF TypeOK, Entries
<1>3. Op[o].hlc \in Nat \ {0} /\ \A p \in Entries : Op[p].hlc # Op[o].hlc
  BY <1>2, OpProcessorAssumption
<1>4. \A r \in Rows : mirror'[r] = IF r = s THEN Stored(o, v) ELSE mirror[r]
  BY DEF TypeOK
<1>5. Stored(o, v).hlc \in {0, Op[o].hlc} /\ (Stored(o, v).hlc = 0 => Stored(o, v).row = NoRow)
  BY <1>3 DEF Stored, Missing
<1>6. ASSUME NEW r \in Rows, NEW c, KnownCopy(c, r)
      PROVE  KnownCopy(c, r)'
  <2>1. CASE r # s
    BY <1>1, <1>4, <1>6, <2>1 DEF KnownCopy
  <2>2. CASE r = s
    <3>1. c.hlc # Op[o].hlc
      BY <1>3, <1>6 DEF KnownCopy
    <3>2. c.hlc = 0 /\ Stored(o, v).hlc = 0 => SameRow(c, Stored(o, v))
      BY <1>5, <1>6 DEF KnownCopy, SameRow
    <3> QED BY <1>1, <1>4, <1>5, <1>6, <2>2, <3>1, <3>2 DEF KnownCopy
  <2> QED BY <2>1, <2>2
<1>7. KnownCopy(Stored(o, v), s)'
  BY <1>1, <1>3, <1>4, <1>5 DEF KnownCopy, SameRow
<1>8. KnownCopy([row |-> v.row, hlc |-> Op[o].hlc, clocks |-> v.clocks], s)'
  BY <1>1, <1>3, <1>4 DEF KnownCopy, SameRow, Stored, Missing
<1> QED BY <1>6, <1>7, <1>8

\* Every step keeps the copies so: one that is taken is the mirror's row, and
\* an op is written under its own HLC, which it has not been before (readRow,
\* recordBatchWrite, reserveOps).
LEMMA CopyStep ==
  TypeInv /\ QueueInv /\ ClaimInv /\ CopyInv /\ [Next]_vars => CopyInv'
<1> SUFFICES ASSUME TypeOK, OnOp, ClaimInv, CopyInv, [Next]_vars
             PROVE  CopyInv'
  BY DEF TypeInv
<1>1. ASSUME UNCHANGED <<mirror, log, cache>>,
             \A q \in Requests : Past(q)' => Past(q) /\ cur'[q] = cur[q] /\ verdict'[q] = verdict[q]
      PROVE  CopyInv'
  <2>1. \A c, r : KnownCopy(c, r) => KnownCopy(c, r)'
    BY <1>1 DEF KnownCopy, Entries
  <2>2. \A q \in Requests : Past(q)' => KnownCopy(cur[q], Row(q)) /\ cur'[q] = cur[q] /\ Row(q)' = Row(q)
    BY SMTT(30), <1>1 DEF CopyInv, Past, Row, Cur, at
  <2>3. \A q \in Requests : Past(q)' => KnownCopy(cur[q], Row(q))'
    BY <1>1, <2>2 DEF KnownCopy, Entries
  <2> QED BY <1>1, <2>1, <2>3 DEF CopyInv
<1>2. ASSUME NEW q \in Requests, \/ Reserve(q) \/ RejectRest(q) \/ Replay(q) \/ Enqueue(q)
                                 \/ Finish(q) \/ Mutate(q) \/ MutateThrows(q) \/ LoseRace(q)
                                 \/ ApplyThrows(q)
      PROVE  CopyInv'
  <2>1. UNCHANGED <<mirror, log, cache, cur>>
    BY <1>2 DEF Reserve, RejectRest, Replay, Enqueue, Finish, Mutate, MutateThrows, LoseRace,
                ApplyThrows, storage, batch, attempt
  <2>2. \A p \in Requests : Past(p)' => Past(p) /\ verdict'[p] = verdict[p]
    BY <1>2 DEF Reserve, RejectRest, Replay, Enqueue, Finish, Mutate, MutateThrows, LoseRace,
                ApplyThrows, Answer, Past, TypeOK
  <2> QED BY <1>1, <2>1, <2>2
<1>3. ASSUME NEW q \in Requests, Prefetch(q)
      PROVE  CopyInv'
  <2>1. UNCHANGED <<mirror, log, cur, verdict>> /\ \A p \in Requests : Past(p)' => Past(p)
    BY <1>3 DEF Prefetch, storage, attempt, Past, TypeOK
  <2>2. \A p \in Requests, r \in Rows : cache'[p][r] \in {cache[p][r], mirror[r]}
    <3>1. cache \in [Requests -> [Rows -> Existing \cup {Unread}]]
      BY DEF TypeOK
    <3> QED BY <1>3, <3>1 DEF Prefetch
  <2>3. \A c : \A r \in Rows : KnownCopy(c, r)' = KnownCopy(c, r)
    BY <2>1 DEF KnownCopy, Entries
  <2>4. \A p \in Requests : Past(p)' => KnownCopy(cur[p], Row(p))'
    BY SMTT(30), <2>1 DEF CopyInv, KnownCopy, Entries, Row, Cur, at
  <2> QED BY <2>1, <2>2, <2>3, <2>4 DEF CopyInv
<1>4. ASSUME NEW q \in Requests, Resolve(q)
      PROVE  CopyInv'
  <2> DEFINE read == ReadRow(q)
  <2>1. Row(q) \in Rows
    BY <1>4, CurTyped DEF Resolve, OnOp, Working
  <2>2. KnownCopy(read, Row(q))
    BY <2>1 DEF CopyInv, ReadRow
  <2>3. /\ UNCHANGED <<mirror, log>>
        /\ cur' = [cur EXCEPT ![q] = read]
        /\ \/ cache' = cache
           \/ cache' = [cache EXCEPT ![q] = [cache[q] EXCEPT ![Row(q)] = read]]
        /\ \A p \in Requests : Past(p)' => (p = q \/ Past(p)) /\ verdict'[p] = verdict[p]
    BY <1>4 DEF Resolve, Answer, storage, Past, TypeOK
  <2> HIDE DEF read
  <2>4. \A p \in Requests, r \in Rows :
          cache'[p][r] = cache[p][r] \/ (r = Row(q) /\ cache'[p][r] = read)
    <3>1. cache \in [Requests -> [Rows -> Existing \cup {Unread}]]
      BY DEF TypeOK
    <3> QED BY <2>3, <3>1
  <2>5. \A p \in Requests : cur'[p] = cur[p] \/ (p = q /\ cur'[p] = read)
    BY <2>3 DEF TypeOK
  <2>6. cur'[q] = read
    BY <2>3 DEF TypeOK
  <2>7. \A c : \A r : KnownCopy(c, r)' = KnownCopy(c, r)
    BY <2>3 DEF KnownCopy, Entries
  <2>8. ASSUME NEW p \in Requests, Past(p)'
        PROVE  KnownCopy(cur[p], Row(p))'
    <3>1. PICK s : s = Row(p)
      OBVIOUS
    <3>2. Row(p)' = s
      BY <2>3, <2>8, <3>1 DEF Row, Cur, at
    <3>3. PICK c : c = cur'[p]
      OBVIOUS
    <3>4. KnownCopy(c, s)
      BY <2>2, <2>3, <2>5, <2>6, <2>8, <3>1, <3>3 DEF CopyInv
    <3>5. KnownCopy(c, s)'
      BY <2>7, <3>4
    <3> QED BY <3>2, <3>3, <3>5 DEF KnownCopy
  <2> QED BY <2>1, <2>2, <2>3, <2>4, <2>7, <2>8 DEF CopyInv
<1>5. ASSUME NEW q \in Requests, Apply(q)
      PROVE  CopyInv'
  <2>1. PICK r \in Rows, o \in OpIds, v \in Verdict : r = Row(q) /\ o = Cur(q) /\ v = out[q]
    BY <1>5, CurTyped DEF Apply, OnOp, Working, TypeOK
  <2>2. o \notin Entries
    BY <1>5, <2>1 DEF Apply, ClaimInv, Claimed, Working
  <2> DEFINE stored == Stored(o, v)
             written == [row |-> v.row, hlc |-> Op[o].hlc, clocks |-> v.clocks]
  <2>3. /\ mirror' = [mirror EXCEPT ![r] = stored]
        /\ log' = Append(log, o) /\ cur' = cur
        /\ cache' = [cache EXCEPT ![q] = [cache[q] EXCEPT ![r] = written]]
        /\ \A p \in Requests : Past(p)' => Past(p) /\ verdict'[p] = verdict[p]
    BY <1>5, <2>1 DEF Apply, RecordBatchWrite, Answer, attempt, Past, TypeOK
  <2>4. /\ \A s \in Rows : \A c : KnownCopy(c, s) => KnownCopy(c, s)'
        /\ KnownCopy(stored, r)' /\ KnownCopy(written, r)'
    BY <2>2, <2>3, CopyWritten
  <2> HIDE DEF written, stored
  <2>5. /\ cache \in [Requests -> [Rows -> Existing \cup {Unread}]]
        /\ mirror \in [Rows -> Mirrored]
    BY DEF TypeOK
  <2>6. /\ \A p \in Requests, s \in Rows :
            cache'[p][s] = cache[p][s] \/ (s = r /\ cache'[p][s] = written)
        /\ \A s \in Rows : mirror'[s] = IF s = r THEN stored ELSE mirror[s]
    BY <2>3, <2>5
  <2>7. ASSUME NEW p \in Requests, Past(p)'
        PROVE  KnownCopy(cur[p], Row(p))'
    <3>1. PICK s, c : s = Row(p) /\ c = cur[p]
      OBVIOUS
    <3>2. Row(p)' = s /\ s \in Rows
      BY <2>3, <2>7, <3>1, CurTyped DEF Row, Cur, at, OnOp, Working, Past
    <3>3. KnownCopy(c, s)'
      BY <2>3, <2>4, <2>7, <3>1, <3>2 DEF CopyInv
    <3> QED BY <2>3, <3>1, <3>2, <3>3 DEF KnownCopy
  <2>8. PICK d, e : d = stored /\ e = written
    OBVIOUS
  <2>9. KnownCopy(d, r)' /\ KnownCopy(e, r)'
    BY <2>4, <2>8 DEF stored, written
  <2>10. ASSUME NEW s \in Rows
         PROVE  KnownCopy(mirror[s], s)'
    <3>1. PICK c : c = mirror'[s]
      OBVIOUS
    <3>2. KnownCopy(c, s)'
      BY <2>4, <2>6, <2>8, <2>9, <3>1 DEF CopyInv
    <3> QED BY <3>1, <3>2 DEF KnownCopy
  <2>11. ASSUME NEW p \in Requests, NEW s \in Rows, cache'[p][s] # Unread
         PROVE  KnownCopy(cache[p][s], s)'
    <3>1. PICK c : c = cache'[p][s]
      OBVIOUS
    <3>2. KnownCopy(c, s)'
      BY <2>4, <2>6, <2>8, <2>9, <2>11, <3>1 DEF CopyInv
    <3> QED BY <3>1, <3>2 DEF KnownCopy
  <2> QED BY <2>7, <2>10, <2>11 DEF CopyInv
<1>6. ASSUME NEW i \in Instances, Crash(i)
      PROVE  CopyInv'
  <2>1. UNCHANGED <<mirror, log, cache, cur, verdict>> /\ \A q \in Requests : Past(q)' => Past(q)
    BY <1>6 DEF Crash, storage, batch, attempt, Past, TypeOK
  <2> QED BY <1>1, <2>1
<1>7. CASE UNCHANGED vars
  BY <1>1, <1>7 DEF vars, storage, batch, attempt, Past
<1> QED
  BY <1>2, <1>3, <1>4, <1>5, <1>6, <1>7 DEF Next, Handle

-----------------------------------------------------------------------------
(* Any number of instances, rows guarded by the compare-and-swap.          *)

CheckedRows == \A r \in Rows : Checked(r)

SharedInv == TypeInv /\ QueueInv /\ ClaimInv /\ OutInv /\ CopyInv

\* What a request writes over, where it must find the HLC it read, is the row
\* it read (applyOpIf).
LEMMA FindsWhatItRead ==
  ASSUME SharedInv, NEW q \in Requests, Writes(q), Checked(Row(q))
  PROVE  SameRow(cur[q], mirror[Row(q)])
  BY DEF SharedInv, CopyInv, KnownCopy, Writes, Past

\* So where every row is guarded the mirror only changes by such writes.
LEMMA WritesChecked ==
  ASSUME CheckedRows, SharedInv, [Next]_vars
  PROVE  WriteSteps
<1>1. ASSUME NEW q \in Requests, Writes(q)
      PROVE  WriteSteps
  <2>1. Row(q) \in Rows
    BY <1>1, CurTyped DEF Writes, SharedInv, TypeInv, OnOp, Working
  <2>2. SameRow(cur[q], mirror[Row(q)])
    BY <1>1, <2>1, FindsWhatItRead DEF CheckedRows
  <2> QED BY <1>1, <2>2, WriteIsOf DEF WriteSteps, SharedInv
<1> QED BY <1>1, StepKinds DEF WriteSteps, Rests, Declines, Accepts, Persists, Halts, SharedInv

\* The invariant of any number of instances holds throughout.
LEMMA SharedAlways == Spec => []SharedInv
<1>1. Init => SharedInv
  BY TypeInit, QueueInit, ClaimInit, OutInit, CopyInit DEF SharedInv
<1>2. SharedInv /\ [Next]_vars => SharedInv'
  BY TypeStep, QueueStep, ClaimStep, OutStep, CopyStep DEF SharedInv
<1> QED BY <1>1, <1>2, PTL DEF Spec

\* Whatever instances share the store and whichever of them dies, a write that
\* the compare-and-swap lets through replaces the very row its op was resolved
\* against: an HLC stands for one row for good (applyOpIf, RETRY_WRITE).
THEOREM AlwaysAppliedOnWhatItRead ==
  ASSUME CheckedRows
  PROVE  Spec => AppliedOnWhatItRead
<1> DEFINE Step == \A q \in Requests :
                     pc[q] = "apply" /\ Len(log') > Len(log) /\ pc'[q] = "next" =>
                       SameRow(cur[q], mirror[Row(q)])
<1>1. ASSUME SharedInv, [Next]_vars
      PROVE  Step
  <2> SUFFICES ASSUME NEW q \in Requests,
                      pc[q] = "apply", Len(log') > Len(log), pc'[q] = "next"
               PROVE  SameRow(cur[q], mirror[Row(q)])
    OBVIOUS
  <2>1. log \in Seq(OpIds) /\ Row(q) \in Rows
    BY <1>1, CurTyped DEF SharedInv, TypeInv, TypeOK, OnOp, Working
  <2>2. log' # log
    BY <2>1
  <2>3. PICK p \in Requests : Writes(p)
    BY <1>1, <2>2, StepKinds DEF SharedInv, Rests, Declines, Accepts, Persists, Halts
  <2>4. p = q
    BY <2>3 DEF Writes, Alone
  <2> QED BY <1>1, <2>1, <2>3, <2>4, FindsWhatItRead DEF CheckedRows
<1>2. SharedInv /\ [Next]_vars => [Step]_vars
  BY <1>1
<1> QED BY <1>2, SharedAlways, PTL DEF Spec, AppliedOnWhatItRead

\* A row of data is a row.
LEMMA DataIsRow == NoRow \notin Data
  BY ConflictAssumption DEF Data

\* What an op's payload names are its columns, each with the op as its value;
\* a delete names none.
LEMMA InTouches ==
  ASSUME NEW o \in OpIds
  PROVE  /\ In(o) \in Incoming /\ In(o).hlc = Op[o].hlc /\ In(o).hlc \in Nat \ {0}
         /\ In(o).kind = Op[o].kind
         /\ Touched(In(o)) = Op[o].cols /\ Op[o].cols \subseteq Cols
         /\ \A c \in Op[o].cols : In(o).payload[c] = {o}
         /\ In(o).payload = NoRow <=> Op[o].kind = "delete"
         /\ Op[o].kind # "delete" =>
              In(o).payload \in Data /\ \A c \in Cols \ Op[o].cols : In(o).payload[c] = {}
<1>1. /\ Op[o].cols \in SUBSET Cols /\ Op[o].kind \in Kinds /\ Op[o].hlc \in Nat \ {0}
      /\ Op[o].kind = "delete" => Op[o].cols = {}
      /\ o \in Edits
  BY OpProcessorAssumption
<1>2. CASE Op[o].kind = "delete"
  BY <1>1, <1>2 DEF In, Touched, Incoming
<1>3. CASE Op[o].kind # "delete"
  <2> DEFINE p == [c \in Cols |-> IF c \in Op[o].cols THEN {o} ELSE {}]
  <2>1. In(o).payload = p /\ p \in Data
    BY <1>1, <1>3 DEF In, Data
  <2>2. p # NoRow
    BY <2>1, DataIsRow
  <2>3. Touched(In(o)) = {c \in Cols : p[c] # {}}
    BY <2>1, <2>2 DEF Touched
  <2>4. Touched(In(o)) = Op[o].cols
    BY <1>1, <2>3
  <2> QED BY <1>1, <1>3, <2>1, <2>2, <2>4 DEF In, Incoming
<1> QED BY <1>2, <1>3

\* Every edit that was logged is in the row, which is there.  It is what the
\* next write of the row starts from.
EditsKept ==
  \A o \in Entries : \A c \in Op[o].cols :
    mirror[Op[o].row].row # NoRow /\ o \in mirror[Op[o].row].row[c]

\* The merging resolver keeps what the row has and adds what the op brings.
LEMMA CustomKeeps ==
  ASSUME NEW o \in OpIds, NEW existing \in Existing
  PROVE  /\ existing.row # NoRow =>
              /\ ResolveCustom(In(o), existing).row # NoRow
              /\ \A c \in Cols : existing.row[c] \subseteq ResolveCustom(In(o), existing).row[c]
         /\ \A c \in Op[o].cols : /\ ResolveCustom(In(o), existing).row # NoRow
                                  /\ o \in ResolveCustom(In(o), existing).row[c]
<1>1. CASE existing.row = NoRow
  BY <1>1, InTouches, OpProcessorAssumption, DataIsRow DEF ResolveCustom, Unopposed, Accept
<1>2. CASE existing.row # NoRow
  <2>1. ResolveCustom(In(o), existing).row = UnionResolver(In(o), existing)
    BY <1>2 DEF ResolveCustom, Accept
  <2>2. \A c \in Cols : UnionResolver(In(o), existing)[c]
                          = existing.row[c] \cup (IF c \in Op[o].cols THEN {o} ELSE {})
    BY InTouches DEF UnionResolver
  <2>3. UnionResolver(In(o), existing) \in Data
    <3>1. existing.row \in Data /\ o \in Edits
      BY <1>2, OpProcessorAssumption DEF Existing
    <3>2. \A c \in Cols :
            existing.row[c] \cup (IF c \in Op[o].cols THEN {o} ELSE {}) \in SUBSET Edits
      BY <3>1 DEF Data
    <3> QED BY <3>2, InTouches DEF UnionResolver, Data
  <2> QED BY <2>1, <2>2, <2>3, DataIsRow, InTouches
<1> QED BY <1>1, <1>2

\* A write that starts from a row with every edit leaves one with every edit.
LEMMA EditsStep ==
  ASSUME CheckedRows, SharedInv, EditsKept, [Next]_vars
  PROVE  EditsKept'
<1>1. CASE UNCHANGED <<mirror, log>>
  BY <1>1 DEF EditsKept, Entries
<1>2. ASSUME NEW o \in OpIds, NEW r \in Rows, WriteOf(o, r)
      PROVE  EditsKept'
  <2>1. log \in Seq(OpIds) /\ mirror \in [Rows -> Mirrored] /\ mirror[r] \in Existing
    BY MissingTyped DEF SharedInv, TypeInv, TypeOK, Mirrored, Existing
  <2>2. Entries' = Entries \cup {o} /\ Entries \subseteq OpIds
    <3>1. /\ DOMAIN log = 1 .. Len(log) /\ DOMAIN log' = 1 .. Len(log) + 1 /\ Len(log) \in Nat
          /\ \A k \in DOMAIN log : log'[k] = log[k]
          /\ log'[Len(log) + 1] = o
      BY <1>2, <2>1, AppendProperties DEF WriteOf
    <3> QED BY <2>1, <3>1 DEF Entries
  <2> DEFINE v == ResolveCustom(In(o), mirror[r])
  <2>3. Policy[r] = "custom"
    BY DEF CheckedRows, Checked
  <2>4. mirror' = [mirror EXCEPT ![r] = Stored(o, v)] /\ Op[o].row = r
    BY <1>2, <2>3 DEF WriteOf, ResolveConflict
  <2>5. /\ mirror[r].row # NoRow => /\ v.row # NoRow
                                    /\ \A c \in Cols : mirror[r].row[c] \subseteq v.row[c]
        /\ \A c \in Op[o].cols : v.row # NoRow /\ o \in v.row[c]
    BY <2>1, CustomKeeps
  <2> HIDE DEF v
  <2>6. v.row # NoRow => Stored(o, v).row = v.row
    BY DEF Stored
  <2>7. \A s \in Rows : mirror'[s] = IF s = r THEN Stored(o, v) ELSE mirror[s]
    BY <2>1, <2>4
  <2>8. ASSUME NEW p \in Entries', NEW c \in Op[p].cols
        PROVE  mirror'[Op[p].row].row # NoRow /\ p \in mirror'[Op[p].row].row[c]
    <3>1. Op[p].row \in Rows /\ c \in Cols
      BY <2>2, <2>8, OpProcessorAssumption
    <3>2. CASE p = o
      BY <2>4, <2>5, <2>6, <2>7, <2>8, <3>1, <3>2
    <3>3. CASE p # o
      <4>1. mirror[Op[p].row].row # NoRow /\ p \in mirror[Op[p].row].row[c]
        BY <2>2, <2>8, <3>3 DEF EditsKept
      <4> QED BY <2>5, <2>6, <2>7, <3>1, <4>1
    <3> QED BY <3>2, <3>3
  <2> QED BY <2>8 DEF EditsKept
<1> QED BY <1>1, <1>2, WritesChecked DEF WriteSteps

\* With a resolver that merges content no accepted edit is ever lost from its
\* row, however many instances write it at once and however often each has to
\* decide again.
THEOREM NoEditIsLost ==
  ASSUME CheckedRows
  PROVE  Spec => []NoEditLost
<1>1. Init => EditsKept
  BY DEF Init, EditsKept, Entries
<1>2. SharedInv /\ EditsKept /\ [Next]_vars => EditsKept'
  BY EditsStep
<1>3. EditsKept => NoEditLost
  BY DEF EditsKept, NoEditLost
<1> QED BY <1>1, <1>2, <1>3, SharedAlways, PTL DEF Spec

-----------------------------------------------------------------------------
(* One instance: lww and server rows.                                      *)

SoloInv == TypeInv /\ QueueInv /\ ClaimInv /\ OutInv /\ LatestInv

\* The invariant of one instance holds at the start.
LEMMA SoloInit == Init => SoloInv
  BY TypeInit, QueueInit, ClaimInit, OutInit, LatestInit DEF SoloInv

\* Every step of one instance keeps it.
LEMMA SoloStep ==
  ASSUME SingleInstance
  PROVE  SoloInv /\ [Next]_vars => SoloInv'
  BY TypeStep, QueueStep, ClaimStep, OutStep, LatestStep DEF SoloInv

\* So it holds throughout.
LEMMA SoloAlways ==
  ASSUME SingleInstance
  PROVE  Spec => []SoloInv
<1>1. SoloInv /\ [Next]_vars => SoloInv'
  BY SoloStep
<1> QED BY <1>1, SoloInit, PTL DEF Spec

\* Under it the mirror only changes by an op resolved against the row it replaces.
LEMMA SoloWrites ==
  ASSUME SoloInv, [Next]_vars
  PROVE  WriteSteps
  BY WritesInTurn DEF SoloInv

\* What a write leaves of the log and of the other rows.
LEMMA WriteFrame ==
  ASSUME TypeOK, NEW o \in OpIds, NEW r \in Rows, WriteOf(o, r)
  PROVE  /\ Entries' = Entries \cup {o} /\ Entries \subseteq OpIds
         /\ Len(log) \in Nat /\ DOMAIN log = 1 .. Len(log) /\ DOMAIN log' = 1 .. Len(log) + 1
         /\ Len(log') = Len(log) + 1
         /\ \A k \in DOMAIN log : log'[k] = log[k]
         /\ log'[Len(log) + 1] = o
         /\ mirror[r] \in Existing /\ mirror[r] \in Mirrored
         /\ \A s \in Rows \ {r} : mirror'[s] = mirror[s]
         /\ mirror'[r] = Stored(o, ResolveConflict(Policy[r], In(o), mirror[r]))
<1>1. log \in Seq(OpIds) /\ mirror \in [Rows -> Mirrored] /\ mirror[r] \in Existing
  BY MissingTyped DEF TypeOK, Mirrored, Existing
<1>2. /\ DOMAIN log = 1 .. Len(log) /\ DOMAIN log' = 1 .. Len(log) + 1 /\ Len(log) \in Nat
      /\ Len(log') = Len(log) + 1
      /\ \A k \in DOMAIN log : log'[k] = log[k]
      /\ log'[Len(log) + 1] = o
  BY <1>1, AppendProperties DEF WriteOf
<1>3. Entries' = Entries \cup {o} /\ Entries \subseteq OpIds
  BY <1>1, <1>2 DEF Entries
<1> QED BY <1>1, <1>2, <1>3 DEF WriteOf

\* The mirror holds rows of data.
LEMMA MirrorTyped ==
  ASSUME SoloInv, NEW r \in Rows
  PROVE  mirror[r] \in Mirrored /\ mirror[r] \in Existing /\ mirror[r].hlc \in Nat
<1>1. mirror[r] \in Mirrored
  BY DEF SoloInv, TypeInv, TypeOK
<1>2. mirror[r] \in Existing
  BY <1>1, MissingTyped DEF Mirrored, Existing
<1> QED BY <1>1, <1>2 DEF Existing

\* A server row that is not there has only had deletes; what replaces it is
\* the first write, and stays.
ServerRowInv ==
  /\ FirstWriteStays
  /\ \A r \in Rows : Policy[r] = "server" /\ mirror[r].row = NoRow =>
       \A o \in Entries : Op[o].row = r => Op[o].kind = "delete"

\* A write of a server row that is there would have been rejected (resolveServer).
LEMMA ServerRowStep ==
  ASSUME SoloInv, ServerRowInv, [Next]_vars
  PROVE  ServerRowInv'
<1>1. CASE UNCHANGED <<mirror, log>>
  BY <1>1 DEF ServerRowInv, FirstWriteStays, Entries
<1>2. ASSUME NEW o \in OpIds, NEW r \in Rows, WriteOf(o, r)
      PROVE  ServerRowInv'
  <2> DEFINE v == ResolveConflict(Policy[r], In(o), mirror[r])
  <2>1. /\ Entries' = Entries \cup {o} /\ Entries \subseteq OpIds
        /\ Len(log) \in Nat /\ DOMAIN log = 1 .. Len(log) /\ DOMAIN log' = 1 .. Len(log) + 1
        /\ \A k \in DOMAIN log : log'[k] = log[k]
        /\ log'[Len(log) + 1] = o
        /\ \A s \in Rows \ {r} : mirror'[s] = mirror[s]
        /\ mirror'[r] = Stored(o, v)
    BY <1>2, WriteFrame DEF SoloInv, TypeInv
  <2>2. Op[o].row = r /\ v.accepted
    BY <1>2 DEF WriteOf
  <2>3. Policy[r] = "server" =>
          /\ mirror[r].row = NoRow
          /\ v.row = NoRow => Op[o].kind = "delete"
    <3>1. ASSUME Policy[r] = "server"
          PROVE  mirror[r].row = NoRow /\ v = Unopposed(In(o))
      BY <2>2, <3>1 DEF ResolveConflict, ResolveServer, Reject
    <3>2. Unopposed(In(o)).row = NoRow => Op[o].kind = "delete"
      BY InTouches DEF Unopposed, Accept
    <3> QED BY <3>1, <3>2
  <2> HIDE DEF v
  <2>4. Stored(o, v).row = NoRow => v.row = NoRow
    BY DEF Stored
  <2>5. FirstWriteStays'
    <3> SUFFICES ASSUME NEW j \in DOMAIN log', NEW k \in DOMAIN log', j < k,
                        Op[log'[j]].row = Op[log'[k]].row, Policy[Op[log'[j]].row] = "server"
                 PROVE  Op[log'[j]].kind = "delete"
      BY DEF FirstWriteStays
    <3>1. j \in DOMAIN log /\ log'[j] = log[j]
      BY <2>1
    <3>2. CASE k \in DOMAIN log
      BY <2>1, <3>1, <3>2 DEF ServerRowInv, FirstWriteStays
    <3>3. CASE k = Len(log) + 1
      BY <2>1, <2>2, <2>3, <3>1, <3>3 DEF ServerRowInv, Entries
    <3> QED BY <2>1, <3>2, <3>3
  <2>6. ASSUME NEW s \in Rows, Policy[s] = "server", mirror'[s].row = NoRow,
               NEW p \in Entries', Op[p].row = s
        PROVE  Op[p].kind = "delete"
    <3>1. CASE s # r
      BY <2>1, <2>2, <2>6, <3>1 DEF ServerRowInv
    <3>2. CASE s = r
      BY <2>1, <2>3, <2>4, <2>6, <3>2 DEF ServerRowInv
    <3> QED BY <3>1, <3>2
  <2> QED BY <2>5, <2>6 DEF ServerRowInv
<1> QED BY <1>1, <1>2, SoloWrites DEF WriteSteps

\* At the start nothing is logged.
LEMMA ServerRowInit == Init => ServerRowInv
  BY DEF Init, ServerRowInv, FirstWriteStays, Entries

-----------------------------------------------------------------------------
(* The HLCs of a row only go forward.                                      *)

\* No op deletes a row whose columns are merged one by one.
NoMergedDelete == \A o \in OpIds : Op[o].kind = "delete" => Policy[Op[o].row] # "merge"

\* The columns of an lww row are no newer than the row.
ClocksBehind ==
  \A r \in Rows : Policy[r] = "lww" => \A c \in Cols : mirror[r].clocks[c] <= mirror[r].hlc

\* An lww verdict is newer than the row it replaces, and so are its columns.
LEMMA LwwForward ==
  ASSUME NEW o \in OpIds, NEW m \in Mirrored, ResolveLww(In(o), m).accepted,
         \A c \in Cols : m.clocks[c] <= m.hlc
  PROVE  /\ m.row # NoRow => m.hlc < Op[o].hlc
         /\ \A c \in Cols : ResolveLww(In(o), m).clocks[c] <= Op[o].hlc
<1>1. In(o).hlc = Op[o].hlc /\ Op[o].hlc \in Nat \ {0}
  BY InTouches
<1>2. m \in Existing /\ (m.row # NoRow => m.hlc # 0)
  BY MissingTyped DEF Mirrored, Existing, Missing
<1>3. CASE m.row = NoRow
  <2>1. ResolveLww(In(o), m).clocks = BuildColClocks(In(o))
    BY <1>3 DEF ResolveLww, Unopposed, Accept
  <2>2. \A c \in Cols : BuildColClocks(In(o))[c] \in {0, Op[o].hlc}
    BY <1>1 DEF BuildColClocks, Stamped, Missing
  <2>3. ASSUME NEW c \in Cols
        PROVE  BuildColClocks(In(o))[c] <= Op[o].hlc
    <3>1. BuildColClocks(In(o))[c] = 0 \/ BuildColClocks(In(o))[c] = Op[o].hlc
      BY <2>2
    <3> QED BY <1>1, <3>1
  <2> QED BY <1>3, <2>1, <2>3
<1>4. CASE m.row # NoRow
  <2>1. ~(In(o).hlc <= m.hlc)
    BY <1>2, <1>4 DEF ResolveLww, Reject
  <2>2. m.hlc \in Nat /\ m.hlc < Op[o].hlc /\ m.clocks \in Clocks
    BY <1>1, <1>2, <2>1 DEF Existing
  <2>3. ResolveLww(In(o), m).clocks = Stamped(m.clocks, Touched(In(o)) \cup {RowClock}, In(o).hlc)
    BY <1>2, <1>4, <2>1 DEF ResolveLww, Accept
  <2>4. \A c \in Cols : ResolveLww(In(o), m).clocks[c] \in {m.clocks[c], Op[o].hlc}
    BY <1>1, <2>3 DEF Stamped
  <2>5. \A c \in Cols : m.clocks[c] \in Nat
    BY <2>2 DEF Clocks
  <2>6. ASSUME NEW c \in Cols
        PROVE  ResolveLww(In(o), m).clocks[c] <= Op[o].hlc
    <3>1. m.clocks[c] <= m.hlc
      OBVIOUS
    <3>2. m.clocks[c] <= Op[o].hlc
      BY <1>1, <2>2, <2>5, <3>1
    <3> QED BY <1>1, <2>4, <3>2
  <2> QED BY <2>2, <2>6
<1> QED BY <1>3, <1>4

\* At the start no row has a clock.
LEMMA ClocksBehindInit == Init => ClocksBehind
  BY DEF Init, ClocksBehind, Missing

\* A write of an lww row stamps its columns with the HLC it stores the row under.
LEMMA ClocksBehindStep ==
  ASSUME SoloInv, ClocksBehind, [Next]_vars
  PROVE  ClocksBehind'
<1>1. CASE UNCHANGED <<mirror, log>>
  BY <1>1 DEF ClocksBehind
<1>2. ASSUME NEW o \in OpIds, NEW r \in Rows, WriteOf(o, r)
      PROVE  ClocksBehind'
  <2> DEFINE v == ResolveConflict(Policy[r], In(o), mirror[r])
  <2>1. /\ mirror[r] \in Mirrored
        /\ \A s \in Rows \ {r} : mirror'[s] = mirror[s]
        /\ mirror'[r] = Stored(o, v) /\ v.accepted
    BY ZenonT(40), <1>2, WriteFrame DEF SoloInv, TypeInv, WriteOf
  <2>2. Policy[r] = "lww" => \A c \in Cols : v.clocks[c] <= Op[o].hlc
    BY <2>1, LwwForward DEF ResolveConflict, ClocksBehind
  <2> HIDE DEF v
  <2>3. Policy[r] = "lww" => \A c \in Cols : mirror'[r].clocks[c] <= mirror'[r].hlc
    BY <2>1, <2>2 DEF Stored, Missing
  <2> QED BY <2>1, <2>3 DEF ClocksBehind
<1> QED BY <1>1, <1>2, SoloWrites DEF WriteSteps

\* The columns a merging op wins.
Won(o, m) == {c \in Op[o].cols : Op[o].hlc > m.clocks[c]}

\* A merging op that does not delete takes the columns it wins, with their
\* clocks, and leaves the others.
LEMMA MergeTakes ==
  ASSUME NEW o \in OpIds, NEW m \in Mirrored, m.row # NoRow, Op[o].kind # "delete"
  PROVE  /\ ResolveMerge(In(o), m).accepted <=> Won(o, m) # {}
         /\ ResolveMerge(In(o), m).accepted =>
              /\ ResolveMerge(In(o), m).row \in Data
              /\ \A c \in Cols :
                   /\ ResolveMerge(In(o), m).row[c] = IF c \in Won(o, m) THEN {o} ELSE m.row[c]
                   /\ ResolveMerge(In(o), m).clocks[c]
                        = IF c \in Won(o, m) THEN Op[o].hlc ELSE m.clocks[c]
<1>1. /\ In(o).hlc = Op[o].hlc /\ Op[o].hlc \in Nat \ {0} /\ In(o).kind # "delete"
      /\ Touched(In(o)) = Op[o].cols /\ Op[o].cols \subseteq Cols
      /\ \A c \in Op[o].cols : In(o).payload[c] = {o}
  BY InTouches
<1>2. m.hlc # 0 /\ m.row \in Data
  <2>1. m.hlc # 0 /\ m.row \in Data
    BY DEF Mirrored, Missing
  <2> QED BY <2>1, <1>1
<1> DEFINE won == {c \in Touched(In(o)) : In(o).hlc > m.clocks[c]}
           row == IF In(o).hlc > m.clocks[RowClock] THEN {RowClock} ELSE {}
           merged == [c \in Cols |-> IF c \in won THEN In(o).payload[c] ELSE m.row[c]]
<1>3. won = Won(o, m)
  BY <1>1 DEF Won
<1>4. ResolveMerge(In(o), m) = IF won = {} THEN Reject(m)
                               ELSE Accept(merged, Stamped(m.clocks, won \cup row, In(o).hlc))
  BY <1>1, <1>2 DEF ResolveMerge
<1>5. \A c \in won : c \in Op[o].cols
  BY <1>1
<1>6. merged \in Data /\ \A c \in Cols : merged[c] = IF c \in won THEN {o} ELSE m.row[c]
  <2>1. o \in Edits
    BY OpProcessorAssumption
  <2> QED BY <1>1, <1>2, <1>5, <2>1 DEF Data
<1> HIDE DEF won, merged
<1>7. ResolveMerge(In(o), m).accepted <=> won # {}
  BY <1>4 DEF Accept, Reject
<1>8. ASSUME won # {}
      PROVE  /\ ResolveMerge(In(o), m).row = merged
             /\ ResolveMerge(In(o), m).clocks = Stamped(m.clocks, won \cup row, In(o).hlc)
  BY <1>4, <1>8 DEF Accept
<1>9. \A c \in Cols : c \notin row
  BY ConflictAssumption
<1> HIDE DEF row
<1>10. \A c \in Cols : Stamped(m.clocks, won \cup row, In(o).hlc)[c]
                         = IF c \in won THEN Op[o].hlc ELSE m.clocks[c]
  BY <1>1, <1>9 DEF Stamped
<1>11. ASSUME won # {}
       PROVE  /\ ResolveMerge(In(o), m).row \in Data
              /\ \A c \in Cols :
                   /\ ResolveMerge(In(o), m).row[c] = IF c \in won THEN {o} ELSE m.row[c]
                   /\ ResolveMerge(In(o), m).clocks[c]
                        = IF c \in won THEN Op[o].hlc ELSE m.clocks[c]
  BY <1>6, <1>8, <1>10, <1>11
<1> QED BY <1>3, <1>7, <1>11

\* On one instance no write undoes a newer one: the row of an lww query is only
\* replaced by a newer op, and a delete is newer than every column it takes
\* away.  A merged row is left out of the second half by NoMergedDelete: its
\* stored HLC is its last op's, which may be older than a column of it.
THEOREM WritesNeverGoBack ==
  ASSUME SingleInstance, NoMergedDelete
  PROVE  Spec => NeverBackwards
<1> DEFINE Forward == \A r \in Rows :
                        Policy[r] = "lww" /\ mirror[r].row # NoRow /\ mirror'[r].row # NoRow =>
                          mirror[r].hlc <= mirror'[r].hlc
           Latest == \A r \in Rows : mirror[r].row # NoRow /\ mirror'[r].row = NoRow =>
                        \A c \in Cols : mirror[r].clocks[c] < Op[log'[Len(log')]].hlc
<1>1. ASSUME SoloInv, ClocksBehind, [Next]_vars
      PROVE  Forward /\ Latest
  <2>1. CASE UNCHANGED <<mirror, log>>
    <3>1. \A r \in Rows : mirror[r].hlc \in Nat
      BY <1>1, MirrorTyped
    <3> QED BY <2>1, <3>1
  <2>2. ASSUME NEW o \in OpIds, NEW s \in Rows, WriteOf(o, s)
        PROVE  Forward /\ Latest
    <3> DEFINE m == mirror[s]
               v == ResolveConflict(Policy[s], In(o), m)
    <3>1. /\ m \in Mirrored /\ m \in Existing
          /\ \A r \in Rows \ {s} : mirror'[r] = mirror[r]
          /\ mirror'[s] = Stored(o, v) /\ v.accepted /\ Op[o].row = s
          /\ log'[Len(log')] = o
          /\ \A r \in Rows : mirror[r].hlc \in Nat
      <4>1. \A r \in Rows : mirror[r].hlc \in Nat
        BY <1>1, MirrorTyped
      <4> QED BY <1>1, <2>2, <4>1, WriteFrame DEF SoloInv, TypeInv, WriteOf
    <3>2. v.row # NoRow => Stored(o, v).row = v.row /\ Stored(o, v).hlc = Op[o].hlc
      BY DEF Stored
    <3>3. Op[o].hlc \in Nat
      BY OpProcessorAssumption
    <3>4. Policy[s] = "lww" /\ m.row # NoRow => m.hlc < Op[o].hlc
      BY <1>1, <3>1, LwwForward DEF ResolveConflict, ClocksBehind
    <3>5. ASSUME m.row # NoRow, v.row = NoRow
          PROVE  Policy[s] = "lww"
      <4>1. Policy[s] # "server"
        BY <3>1, <3>5 DEF ResolveConflict, ResolveServer, Reject
      <4>2. Policy[s] # "custom"
        BY <3>1, <3>5, CustomKeeps DEF ResolveConflict
      <4>3. ASSUME Policy[s] = "merge"
            PROVE  FALSE
        <5>1. Op[o].kind # "delete"
          BY <3>1, <4>3 DEF NoMergedDelete
        <5>2. v = ResolveMerge(In(o), m)
          BY <4>3 DEF ResolveConflict
        <5>3. v.row \in Data
          BY ZenonT(40), <3>1, <3>5, <5>1, <5>2, MergeTakes
        <5> QED BY <3>5, <5>3, DataIsRow
      <4> QED BY <4>1, <4>2, <4>3, OpProcessorAssumption DEF Policies
    <3> HIDE DEF v
    <3>6. Stored(o, v).row = NoRow => v.row = NoRow
      BY DEF Stored
    <3>7. Stored(o, v).row # NoRow => Stored(o, v).hlc = Op[o].hlc
      BY DEF Stored, Missing
    <3>8. Forward
      <4> SUFFICES ASSUME NEW r \in Rows, Policy[r] = "lww", mirror[r].row # NoRow,
                          mirror'[r].row # NoRow
                   PROVE  mirror[r].hlc <= mirror'[r].hlc
        OBVIOUS
      <4>1. CASE r = s
        BY <3>1, <3>3, <3>4, <3>7, <4>1
      <4>2. CASE r # s
        BY <3>1, <4>2
      <4> QED BY <4>1, <4>2
    <3>9. Latest
      <4> SUFFICES ASSUME NEW r \in Rows, mirror[r].row # NoRow, mirror'[r].row = NoRow,
                          NEW c \in Cols
                   PROVE  mirror[r].clocks[c] < Op[log'[Len(log')]].hlc
        OBVIOUS
      <4>1. r = s
        BY <3>1
      <4>2. Policy[s] = "lww"
        BY <3>1, <3>5, <3>6, <4>1
      <4>3. m.clocks[c] <= m.hlc /\ m.hlc < Op[o].hlc
        BY <1>1, <3>4, <4>1, <4>2 DEF ClocksBehind
      <4>4. m.clocks[c] \in Nat
        BY <3>1 DEF Existing, Clocks
      <4> QED BY <3>1, <3>3, <4>1, <4>3, <4>4
    <3> QED BY <3>8, <3>9
  <2> QED BY <1>1, <2>1, <2>2, SoloWrites DEF WriteSteps
<1>2. SoloInv /\ ClocksBehind /\ [Next]_vars => [Forward]_vars /\ [Latest]_vars
  BY <1>1
<1>3. SoloInv /\ ClocksBehind /\ [Next]_vars => ClocksBehind'
  BY ClocksBehindStep
<1> QED
  BY <1>2, <1>3, SoloAlways, ClocksBehindInit, PTL
  DEF Spec, NeverBackwards, RowHlcForward, DeleteIsNewest

-----------------------------------------------------------------------------
(* One instance, rows written without the compare-and-swap: the database   *)
(* and the mirror.                                                         *)

UncheckedRows == \A r \in Rows : ~Checked(r)

NoRetry == \A q \in Requests : tries[q] = 0

\* At the start nothing is tried again.
LEMMA NoRetryInit == Init => NoRetry
  BY DEF Init, NoRetry

\* Only a lost compare-and-swap makes a request try its op again.
LEMMA NoRetryStep ==
  ASSUME UncheckedRows
  PROVE  TypeInv /\ NoRetry /\ [Next]_vars => NoRetry'
<1> SUFFICES ASSUME TypeOK, OnOp, NoRetry, [Next]_vars
             PROVE  NoRetry'
  BY DEF TypeInv
<1>1. ASSUME NEW q \in Requests, \/ Reserve(q) \/ Prefetch(q) \/ RejectRest(q) \/ Replay(q)
                                 \/ Finish(q) \/ Resolve(q) \/ Mutate(q) \/ MutateThrows(q)
                                 \/ Apply(q) \/ ApplyThrows(q)
      PROVE  NoRetry'
  BY <1>1 DEF Reserve, Prefetch, RejectRest, Replay, Finish, Resolve, Mutate, MutateThrows, Apply,
              ApplyThrows, attempt, NoRetry
<1>2. ASSUME NEW q \in Requests, Enqueue(q)
      PROVE  NoRetry'
  BY <1>2 DEF Enqueue, NoRetry, TypeOK
<1>3. ASSUME NEW q \in Requests, LoseRace(q)
      PROVE  FALSE
  <2>1. Row(q) \in Rows
    BY <1>3, CurTyped DEF LoseRace, OnOp, Working
  <2> QED BY <1>3, <2>1 DEF LoseRace, UncheckedRows
<1>4. ASSUME NEW i \in Instances, Crash(i)
      PROVE  NoRetry'
  BY <1>4 DEF Crash, attempt, NoRetry
<1>5. CASE UNCHANGED vars
  BY <1>5 DEF vars, attempt, NoRetry
<1> QED BY <1>1, <1>2, <1>3, <1>4, <1>5 DEF Next, Handle

\* The request has given its row to the database and not to the mirror.
Unsettled(q) == pc[q] = "apply" \/ (pc[q] = "lost" /\ at(q) \in DOMAIN Req[q].ops)

\* Without retries a row is in doubt exactly when some request on it is unsettled.
LEMMA InDoubtIs ==
  ASSUME NoRetry, NEW r
  PROVE  InDoubt(r) <=> \E q \in Requests : Unsettled(q) /\ Row(q) = r
  BY DEF InDoubt, Unsettled, NoRetry

\* What is in the database and not in the mirror is what a request is about to
\* write there.
DbInv ==
  /\ \A r \in Rows : (\A q \in Requests : Unsettled(q) => Row(q) # r) => db[r] = mirror[r].row
  /\ \A q \in Requests : pc[q] = "apply" => db[Row(q)] = out[q].row

\* At the start both are empty.
LEMMA DbInit == Init => DbInv
  BY DEF Init, DbInv, Missing

\* A step that writes neither, and settles nothing, keeps it.
LEMMA DbQuiet ==
  ASSUME DbInv, UNCHANGED <<mirror, db>>,
         \A q \in Requests :
           /\ Unsettled(q) => Unsettled(q)' /\ Row(q)' = Row(q)
           /\ pc'[q] = "apply" => pc[q] = "apply" /\ out'[q] = out[q] /\ Row(q)' = Row(q)
  PROVE  DbInv'
<1>1. ASSUME NEW r \in Rows, \A q \in Requests : Unsettled(q)' => Row(q)' # r
      PROVE  db'[r] = mirror'[r].row
  <2>1. \A q \in Requests : Unsettled(q) => Row(q) # r
    BY <1>1
  <2> QED BY <2>1 DEF DbInv
<1>2. ASSUME NEW q \in Requests, pc'[q] = "apply"
      PROVE  db'[Row(q)'] = out'[q].row
  BY <1>2 DEF DbInv
<1> QED BY <1>1, <1>2 DEF DbInv

\* Of the requests on a row one at a time is between its database and its
\* mirror write, and it writes both the same row (mutate, applyOp).
LEMMA DbStep ==
  ASSUME SingleInstance, UncheckedRows
  PROVE  SoloInv /\ DbInv /\ [Next]_vars => DbInv'
<1> SUFFICES ASSUME SoloInv, DbInv, [Next]_vars
             PROVE  DbInv'
  OBVIOUS
<1> USE DEF Unsettled
<1>0. TypeInv /\ QueueInv
  BY DEF SoloInv
<1>1. ASSUME NEW q \in Requests, Rests(q)
      PROVE  DbInv'
  <2>1. pc[q] = "apply" =>
          pc'[q] = "lost" /\ verdict'[q] = verdict[q] /\ at(q) \in DOMAIN Req[q].ops
    <3>1. pc[q] = "apply" => Row(q) \in Rows /\ at(q) \in DOMAIN Req[q].ops
      BY <1>0, CurTyped DEF TypeInv, OnOp, Working
    <3> QED BY <1>1, <3>1 DEF Rests, UncheckedRows
  <2>2. \A p \in Requests \ {q} : pc'[p] = pc[p] /\ verdict'[p] = verdict[p] /\ out'[p] = out[p]
    BY <1>1 DEF Rests, Alone
  <2>3. pc'[q] # "apply" /\ pc[q] # "lost"
    BY <1>1 DEF Rests, Past
  <2>4. \A p \in Requests : Unsettled(p) => Unsettled(p)' /\ Row(p)' = Row(p)
    BY <2>1, <2>2, <2>3 DEF Row, Cur, at
  <2>5. \A p \in Requests : pc'[p] = "apply" =>
                              pc[p] = "apply" /\ out'[p] = out[p] /\ Row(p)' = Row(p)
    BY <2>2, <2>3 DEF Row, Cur, at
  <2> QED BY <1>1, <2>4, <2>5, DbQuiet DEF Rests
<1>2. ASSUME NEW q \in Requests, Declines(q) \/ Accepts(q)
      PROVE  DbInv'
  <2>1. \A p \in Requests \ {q} : pc'[p] = pc[p] /\ verdict'[p] = verdict[p] /\ out'[p] = out[p]
    BY <1>2 DEF Declines, Accepts, Alone
  <2>2. pc[q] = "queued" /\ pc'[q] # "apply"
    BY <1>2 DEF Declines, Accepts, Past
  <2>3. \A p \in Requests : /\ Unsettled(p) => Unsettled(p)' /\ Row(p)' = Row(p)
                            /\ pc'[p] = "apply" => pc[p] = "apply" /\ out'[p] = out[p]
                                                   /\ Row(p)' = Row(p)
    BY <2>1, <2>2 DEF Row, Cur, at
  <2> QED BY <1>2, <2>3, DbQuiet DEF Declines, Accepts
<1>3. ASSUME NEW q \in Requests, Persists(q)
      PROVE  DbInv'
  <2>1. /\ \A p \in Requests : verdict'[p] = verdict[p] /\ out'[p] = out[p]
        /\ \A p \in Requests \ {q} : pc'[p] = pc[p]
        /\ pc[q] = "mutate" /\ pc'[q] = "apply" /\ mirror' = mirror
        /\ db' = [db EXCEPT ![Row(q)] = out[q].row]
    BY <1>3 DEF Persists, Alone
  <2>2. \A p \in Requests : Row(p)' = Row(p)
    BY <2>1 DEF Row, Cur, at
  <2>3. Row(q) \in Rows /\ db \in [Rows -> Data \cup {NoRow}]
    BY <1>0, <2>1, CurTyped DEF TypeInv, TypeOK, OnOp, Working
  <2>4. db'[Row(q)] = out[q].row /\ \A r \in Rows \ {Row(q)} : db'[r] = db[r]
    BY <2>1, <2>3
  <2>5. ASSUME NEW r \in Rows, \A p \in Requests : Unsettled(p)' => Row(p)' # r
        PROVE  db'[r] = mirror'[r].row
    <3>1. r # Row(q) /\ \A p \in Requests : Unsettled(p) => Row(p) # r
      BY <2>1, <2>2, <2>5 DEF at
    <3> QED BY <2>1, <2>4, <3>1 DEF DbInv
  <2>6. ASSUME NEW p \in Requests, pc'[p] = "apply"
        PROVE  db'[Row(p)'] = out'[p].row
    <3>1. CASE p = q
      BY <2>1, <2>2, <2>4, <3>1
    <3>2. CASE p # q
      <4>1. Row(p) # Row(q) /\ Row(p) \in Rows /\ pc[p] = "apply"
        BY <1>0, <2>1, <2>6, <3>2, OnePerRow, CurTyped DEF TypeInv, OnOp, Working
      <4> QED BY <2>1, <2>2, <2>4, <4>1 DEF DbInv
    <3> QED BY <3>1, <3>2
  <2> QED BY <2>5, <2>6 DEF DbInv
<1>4. ASSUME NEW q \in Requests, Writes(q)
      PROVE  DbInv'
  <2>1. /\ \A p \in Requests \ {q} : pc'[p] = pc[p] /\ verdict'[p] = verdict[p] /\ out'[p] = out[p]
        /\ pc[q] = "apply" /\ pc'[q] = "next" /\ db' = db
        /\ mirror' = [mirror EXCEPT ![Row(q)] = Stored(Cur(q), out[q])]
    BY <1>4 DEF Writes, Alone
  <2>2. Row(q) \in Rows /\ mirror \in [Rows -> Mirrored]
    BY <1>0, <2>1, CurTyped DEF TypeInv, TypeOK, OnOp, Working
  <2>3. Stored(Cur(q), out[q]).row = out[q].row
    BY DEF Stored, Missing
  <2>4. mirror'[Row(q)].row = out[q].row /\ \A r \in Rows \ {Row(q)} : mirror'[r] = mirror[r]
    BY <2>1, <2>2, <2>3
  <2>5. db[Row(q)] = out[q].row
    BY <2>1 DEF DbInv
  <2>6. \A p \in Requests \ {q} : Row(p)' = Row(p) /\ at(p)' = at(p)
    BY <2>1 DEF Row, Cur, at
  <2>7. ASSUME NEW r \in Rows, \A p \in Requests : Unsettled(p)' => Row(p)' # r
        PROVE  db'[r] = mirror'[r].row
    <3>1. CASE r = Row(q)
      BY <2>1, <2>4, <2>5, <3>1
    <3>2. CASE r # Row(q)
      <4>1. \A p \in Requests : Unsettled(p) => Row(p) # r
        BY <2>1, <2>6, <2>7, <3>2
      <4> QED BY <2>1, <2>4, <3>2, <4>1 DEF DbInv
    <3> QED BY <3>1, <3>2
  <2>8. ASSUME NEW p \in Requests, pc'[p] = "apply"
        PROVE  db'[Row(p)'] = out'[p].row
    BY <2>1, <2>6, <2>8 DEF DbInv
  <2> QED BY <2>7, <2>8 DEF DbInv
<1>5. ASSUME Halts
      PROVE  DbInv'
  <2>1. \A q \in Requests : pc'[q] = pc[q] \/ (pc'[q] = "lost" /\ pc[q] # "lost")
    BY <1>5 DEF Halts, Active
  <2>2. \A q \in Requests : pc[q] = "apply" => at(q) \in DOMAIN Req[q].ops
    BY <1>0 DEF TypeInv, OnOp, Working
  <2>3. \A p \in Requests : Row(p)' = Row(p) /\ at(p)' = at(p) /\ out'[p] = out[p]
    BY <1>5 DEF Halts, Row, Cur, at
  <2>4. \A p \in Requests : /\ Unsettled(p) => Unsettled(p)' /\ Row(p)' = Row(p)
                            /\ pc'[p] = "apply" => pc[p] = "apply" /\ out'[p] = out[p]
                                                   /\ Row(p)' = Row(p)
    BY <2>1, <2>2, <2>3
  <2> QED BY <1>5, <2>4, DbQuiet DEF Halts
<1> QED BY <1>0, <1>1, <1>2, <1>3, <1>4, <1>5, StepKinds

\* On one instance, on rows of the built-in policies, the database and the
\* mirror hold the same row whenever no write of it is under way or was broken
\* off; and of a server row the first write stays.  A resolver of the
\* application's is left out by UncheckedRows: a write that has lost a race and
\* is then refused has reached the database and not the mirror.
THEOREM RowsAlwaysTell ==
  ASSUME SingleInstance, UncheckedRows
  PROVE  Spec => []RowsTell
<1> DEFINE Inv == SoloInv /\ DbInv /\ NoRetry /\ ServerRowInv
<1>1. Init => Inv
  BY SoloInit, DbInit, NoRetryInit, ServerRowInit
<1>2. Inv /\ [Next]_vars => Inv'
  <2>1. SoloInv => TypeInv
    BY DEF SoloInv
  <2> QED BY <2>1, SoloStep, DbStep, NoRetryStep, ServerRowStep
<1>3. Inv => RowsTell
  BY InDoubtIs DEF RowsTell, DbAgrees, DbInv, ServerRowInv
<1> QED BY <1>1, <1>2, <1>3, PTL DEF Spec

-----------------------------------------------------------------------------
(* One instance: the columns of a merged row.                              *)

\* A request that answers an op with v has decided on it if v is a verdict of
\* its policy.
LEMMA AnswerDecides ==
  ASSUME TypeInv, NEW q \in Requests, Alone(q), NEW v, at(q) \in DOMAIN Req[q].ops,
         verdict'[q] = Append(verdict[q], v)
  PROVE  \A o : Decided(o)' <=> Decided(o) \/ (o = Cur(q) /\ v \in {"applied", "rejected"})
<1>1. verdict[q] \in Seq(Outcomes)
  BY DEF TypeInv, TypeOK
<1>2. /\ DOMAIN verdict[q] = 1 .. Len(verdict[q]) /\ Len(verdict[q]) \in Nat
      /\ DOMAIN verdict'[q] = 1 .. Len(verdict[q]) + 1
      /\ \A k \in DOMAIN verdict[q] : verdict'[q][k] = verdict[q][k]
      /\ verdict'[q][Len(verdict[q]) + 1] = v
  <2>1. verdict[q] \in Seq(Outcomes \cup {v})
    BY <1>1
  <2> QED BY <2>1, AppendProperties
<1>3. Cur(q) = Req[q].ops[Len(verdict[q]) + 1]
  BY DEF Cur, at
<1>4. \A o, w : Gave(q, o, w)' <=> Gave(q, o, w) \/ (o = Cur(q) /\ w = v)
  <2> SUFFICES ASSUME NEW o, NEW w
               PROVE  Gave(q, o, w)' <=> Gave(q, o, w) \/ (o = Cur(q) /\ w = v)
    OBVIOUS
  <2>1. ASSUME Gave(q, o, w)' PROVE Gave(q, o, w) \/ (o = Cur(q) /\ w = v)
    <3>1. PICK k \in 1 .. Len(verdict[q]) + 1 : Req[q].ops[k] = o /\ verdict'[q][k] = w
      BY <1>2, <2>1 DEF Gave
    <3>2. CASE k = Len(verdict[q]) + 1
      BY <1>2, <1>3, <3>1, <3>2
    <3>3. CASE k \in 1 .. Len(verdict[q])
      BY <1>2, <3>1, <3>3 DEF Gave
    <3> QED BY <1>2, <3>1, <3>2, <3>3
  <2>2. ASSUME Gave(q, o, w) PROVE Gave(q, o, w)'
    <3>1. PICK k \in 1 .. Len(verdict[q]) : Req[q].ops[k] = o /\ verdict[q][k] = w
      BY <1>2, <2>2 DEF Gave
    <3>2. k \in DOMAIN verdict'[q] /\ verdict'[q][k] = w
      BY <1>2, <3>1
    <3> QED BY <3>1, <3>2 DEF Gave
  <2>3. ASSUME o = Cur(q), w = v PROVE Gave(q, o, w)'
    <3>1. Len(verdict[q]) + 1 \in DOMAIN verdict'[q]
      BY <1>2
    <3> QED BY <1>2, <1>3, <2>3, <3>1 DEF Gave
  <2> QED BY <2>1, <2>2, <2>3
<1>5. \A p \in Requests \ {q} : \A o, w : Gave(p, o, w)' <=> Gave(p, o, w)
  BY DEF Alone, Gave
<1> QED BY <1>4, <1>5 DEF Decided

\* Where no request answers, nothing is decided.
LEMMA DecidedKept ==
  ASSUME \A q \in Requests : verdict'[q] = verdict[q]
  PROVE  \A o : Decided(o)' <=> Decided(o)
  BY DEF Decided, Gave

Owns(o, r, c) == Op[o].row = r /\ c \in Op[o].cols /\ Decided(o)

\* The column has the newest op decided on, with its clock, or none has
\* touched it.
ColumnInv(r, c) ==
  \/ /\ mirror[r].row[c] = {} /\ mirror[r].clocks[c] = 0
     /\ \A o \in OpIds : ~Owns(o, r, c)
  \/ \E o \in OpIds :
       /\ Owns(o, r, c)
       /\ mirror[r].row[c] = {o} /\ mirror[r].clocks[c] = Op[o].hlc
       /\ \A p \in OpIds : Owns(p, r, c) => Op[p].hlc <= Op[o].hlc

\* A merged row that is not there has had no op decided on.
MergeInv ==
  \A r \in Rows : Policy[r] = "merge" =>
    /\ mirror[r].row = NoRow => \A o \in OpIds : Op[o].row = r => ~Decided(o)
    /\ mirror[r].row # NoRow => \A c \in Cols : ColumnInv(r, c)

\* At the start there is no row, and nothing is decided.
LEMMA MergeInit == Init => MergeInv
  BY DEF Init, MergeInv, Decided, Gave, Missing

\* Nothing is written, and nothing decided on an op of row r.
LEMMA MergeQuiet ==
  ASSUME MergeInv, mirror' = mirror, NEW r \in Rows, Policy[r] = "merge",
         \A o \in OpIds : Op[o].row = r => (Decided(o)' <=> Decided(o))
  PROVE  /\ mirror'[r].row = NoRow => \A o \in OpIds : Op[o].row = r => ~Decided(o)'
         /\ mirror'[r].row # NoRow => \A c \in Cols : ColumnInv(r, c)'
<1>1. \A c \in Cols : ColumnInv(r, c) => ColumnInv(r, c)'
  BY DEF ColumnInv, Owns
<1> QED BY <1>1 DEF MergeInv

\* What becomes of a column when an op is decided on: the op has it, if it is
\* newer, and else the column is as it was.
LEMMA ColumnStep ==
  ASSUME NEW r \in Rows, NEW c \in Cols, NEW o \in OpIds, Op[o].row = r,
         mirror[r].row # NoRow => ColumnInv(r, c),
         mirror[r].row = NoRow => \A p \in OpIds : ~Owns(p, r, c),
         \A p \in OpIds : Decided(p)' <=> Decided(p) \/ p = o,
         \/ /\ c \in Op[o].cols
            /\ mirror[r].row # NoRow => mirror[r].clocks[c] < Op[o].hlc
            /\ mirror'[r].row[c] = {o} /\ mirror'[r].clocks[c] = Op[o].hlc
         \/ /\ c \notin Op[o].cols \/ Op[o].hlc <= mirror[r].clocks[c]
            /\ mirror[r].row # NoRow
            /\ mirror'[r].row[c] = mirror[r].row[c] /\ mirror'[r].clocks[c] = mirror[r].clocks[c]
         \/ /\ c \notin Op[o].cols /\ mirror[r].row = NoRow
            /\ mirror'[r].row[c] = {} /\ mirror'[r].clocks[c] = 0
  PROVE  ColumnInv(r, c)'
<1> USE OpProcessorAssumption
<1>0. \A p \in OpIds : /\ Owns(p, r, c)' <=> Owns(p, r, c) \/ (p = o /\ c \in Op[o].cols)
                       /\ Op[p].hlc \in Nat \ {0}
  BY DEF Owns
<1>1. CASE /\ c \in Op[o].cols
           /\ mirror[r].row # NoRow => mirror[r].clocks[c] < Op[o].hlc
           /\ mirror'[r].row[c] = {o} /\ mirror'[r].clocks[c] = Op[o].hlc
  <2>1. \A p \in OpIds : Owns(p, r, c) => Op[p].hlc <= Op[o].hlc
    BY <1>0, <1>1 DEF ColumnInv
  <2> QED BY <1>0, <1>1, <2>1 DEF ColumnInv
<1>2. CASE /\ c \notin Op[o].cols \/ Op[o].hlc <= mirror[r].clocks[c]
           /\ mirror[r].row # NoRow
           /\ mirror'[r].row[c] = mirror[r].row[c] /\ mirror'[r].clocks[c] = mirror[r].clocks[c]
  <2>1. CASE c \notin Op[o].cols
    BY <1>0, <1>2, <2>1 DEF ColumnInv
  <2>2. CASE c \in Op[o].cols /\ Op[o].hlc <= mirror[r].clocks[c]
    BY <1>0, <1>2, <2>2 DEF ColumnInv
  <2> QED BY <1>2, <2>1, <2>2
<1>3. CASE /\ c \notin Op[o].cols /\ mirror[r].row = NoRow
           /\ mirror'[r].row[c] = {} /\ mirror'[r].clocks[c] = 0
  BY <1>0, <1>3 DEF ColumnInv
<1> QED BY <1>1, <1>2, <1>3

\* A merged row only changes by an op taking the columns in which it is newer,
\* and an op that is rejected is newer in none (resolveMerge).
LEMMA MergeStep ==
  ASSUME SingleInstance, NoMergedDelete
  PROVE  SoloInv /\ MergeInv /\ [Next]_vars => MergeInv'
<1> SUFFICES ASSUME SoloInv, MergeInv, [Next]_vars, NEW r \in Rows, Policy[r] = "merge"
             PROVE  /\ mirror'[r].row = NoRow => \A o \in OpIds : Op[o].row = r => ~Decided(o)'
                    /\ mirror'[r].row # NoRow => \A c \in Cols : ColumnInv(r, c)'
  BY DEF MergeInv
<1> DEFINE Goal == /\ mirror'[r].row = NoRow => \A o \in OpIds : Op[o].row = r => ~Decided(o)'
                   /\ mirror'[r].row # NoRow => \A c \in Cols : ColumnInv(r, c)'
           m == mirror[r]
<1>0. /\ TypeInv /\ m \in Mirrored /\ m \in Existing
      /\ \A o \in OpIds : Op[o].row = r => Op[o].kind # "delete"
      /\ \A q \in Requests : Working(q) => /\ Cur(q) \in OpIds /\ Row(q) \in Rows
                                          /\ at(q) \in DOMAIN Req[q].ops /\ Op[Cur(q)].row = Row(q)
  BY MirrorTyped, CurTyped DEF SoloInv, TypeInv, OnOp, NoMergedDelete, Row
<1>1. ASSUME mirror' = mirror, \A p \in Requests : verdict'[p] = verdict[p]
      PROVE  Goal
  BY <1>1, DecidedKept, MergeQuiet
<1>2. ASSUME NEW q \in Requests, Rests(q)
      PROVE  Goal
  <2>1. CASE verdict'[q] = verdict[q]
    BY <1>1, <1>2, <2>1 DEF Rests, Alone
  <2>2. ASSUME NEW v \in {"replayed", "refused", "rejected"}, at(q) \in DOMAIN Req[q].ops,
               verdict'[q] = Append(verdict[q], v), v = "rejected" => Checked(Row(q))
        PROVE  Goal
    <3>1. \A o : Decided(o)' <=> Decided(o) \/ (o = Cur(q) /\ v \in {"applied", "rejected"})
      BY <1>0, <1>2, <2>2, AnswerDecides DEF Rests
    <3>2. v = "rejected" => Op[Cur(q)].row # r
      BY <2>2 DEF Row, Checked
    <3> QED BY <1>2, <3>1, <3>2, MergeQuiet DEF Rests
  <2> QED BY <1>2, <2>1, <2>2 DEF Rests
<1>3. ASSUME NEW q \in Requests, Declines(q)
      PROVE  Goal
  <2>1. PICK o \in OpIds : o = Cur(q) /\ Op[o].row = Row(q)
    BY <1>0, <1>3 DEF Declines, Working
  <2>2. \A p : Decided(p)' <=> Decided(p) \/ p = o
    BY <1>0, <1>3, <2>1, AnswerDecides DEF Declines, Working
  <2>3. CASE Row(q) # r
    BY <1>3, <2>1, <2>2, <2>3, MergeQuiet DEF Declines
  <2>4. CASE Row(q) = r
    <3>1. SameRow(ReadRow(q), m)
      BY <1>3, <2>4, ReadsLatest DEF SoloInv, Declines, Active
    <3>2. ~ResolveMerge(In(o), m).accepted
      BY <1>3, <2>1, <2>4, <3>1, SameVerdict DEF Declines, ResolveConflict, Policies
    <3>3. m.row # NoRow
      BY <3>2 DEF ResolveMerge, Unopposed, Accept
    <3>4. Op[o].kind # "delete"
      BY <1>0, <2>1, <2>4
    <3>5. Won(o, m) = {}
      BY <1>0, <3>2, <3>3, <3>4, MergeTakes
    <3>6. mirror' = mirror
      BY <1>3 DEF Declines
    <3>7. ASSUME NEW c \in Cols
          PROVE  ColumnInv(r, c)'
      <4>1. ColumnInv(r, c)
        BY <3>3 DEF MergeInv
      <4>2. m.clocks[c] \in Nat /\ Op[o].hlc \in Nat
        BY <1>0, OpProcessorAssumption DEF Existing, Clocks
      <4>3. c \notin Op[o].cols \/ Op[o].hlc <= m.clocks[c]
        BY <3>5, <4>2 DEF Won
      <4> QED BY <2>1, <2>2, <2>4, <3>3, <3>6, <4>1, <4>3, ColumnStep
    <3> QED BY <3>3, <3>6, <3>7
  <2> QED BY <2>3, <2>4
<1>4. ASSUME NEW q \in Requests, Accepts(q) \/ Persists(q)
      PROVE  Goal
  BY <1>1, <1>4 DEF Accepts, Persists, Alone
<1>5. ASSUME NEW q \in Requests, Writes(q)
      PROVE  Goal
  <2>1. PICK o \in OpIds : o = Cur(q) /\ Op[o].row = Row(q) /\ Row(q) \in Rows
    BY <1>0, <1>5 DEF Writes, Working
  <2>2. \A p : Decided(p)' <=> Decided(p) \/ p = o
    BY <1>0, <1>5, <2>1, AnswerDecides DEF Writes, Working
  <2>3. WriteOf(o, Row(q))
    <3>1. SameRow(cur[q], mirror[Row(q)])
      BY <1>5 DEF SoloInv, LatestInv, DecidedOnLatest, Writes
    <3> QED BY <1>5, <2>1, <3>1, WriteIsOf DEF SoloInv
  <2>4. CASE Row(q) # r
    <3>1. mirror'[r] = mirror[r]
      BY <1>0, <2>1, <2>3, <2>4, WriteFrame DEF TypeInv
    <3>2. \A p \in OpIds : Op[p].row = r => (Decided(p)' <=> Decided(p))
      BY <2>1, <2>2, <2>4
    <3>3. \A c \in Cols : ColumnInv(r, c) => ColumnInv(r, c)'
      BY <3>1, <3>2 DEF ColumnInv, Owns
    <3> QED BY <3>1, <3>2, <3>3 DEF MergeInv
  <2>5. CASE Row(q) = r
    <3> DEFINE v == ResolveMerge(In(o), m)
    <3>1. mirror'[r] = Stored(o, v) /\ v.accepted
      <4>1. ResolveConflict(Policy[r], In(o), m) = v
        BY DEF ResolveConflict
      <4> HIDE DEF v
      <4>2. mirror' = [mirror EXCEPT ![r] = Stored(o, v)] /\ v.accepted
        BY <2>3, <2>5, <4>1 DEF WriteOf
      <4>3. mirror \in [Rows -> Mirrored]
        BY <1>0 DEF TypeInv, TypeOK, Mirrored
      <4> QED BY <4>2, <4>3
    <3>2. Op[o].kind # "delete" /\ Op[o].row = r /\ Op[o].hlc \in Nat
      BY <1>0, <2>1, <2>5, OpProcessorAssumption
    <3>3. \A c \in Cols : m.clocks[c] \in Nat
      BY <1>0 DEF Existing, Clocks
    <3>4. CASE m.row = NoRow
      <4>1. v.row = In(o).payload /\ v.clocks = BuildColClocks(In(o))
        BY <3>2, <3>4, InTouches DEF ResolveMerge, Unopposed, Accept
      <4>2. v.row \in Data /\ v.row # NoRow
        BY <3>2, <4>1, InTouches, DataIsRow
      <4>3. \A c \in Cols : /\ v.row[c] = IF c \in Op[o].cols THEN {o} ELSE {}
                            /\ v.clocks[c] = IF c \in Op[o].cols THEN Op[o].hlc ELSE 0
        <5>1. \A c \in Cols : v.row[c] = IF c \in Op[o].cols THEN {o} ELSE {}
          <6>1. /\ \A c \in Op[o].cols : In(o).payload[c] = {o}
                /\ \A c \in Cols \ Op[o].cols : In(o).payload[c] = {}
            BY <3>2, InTouches
          <6> HIDE DEF v
          <6> QED BY <4>1, <6>1
        <5>2. \A c \in Cols : v.clocks[c] = IF c \in Op[o].cols THEN Op[o].hlc ELSE 0
          BY <4>1, InTouches, ConflictAssumption DEF BuildColClocks, Stamped, Missing
        <5> QED BY <5>1, <5>2
      <4> HIDE DEF v
      <4>4. mirror'[r].row = v.row /\ mirror'[r].clocks = v.clocks
        BY <3>1, <4>2 DEF Stored
      <4>5. ASSUME NEW c \in Cols
            PROVE  ColumnInv(r, c)'
        <5>1. \A p \in OpIds : ~Owns(p, r, c)
          BY <3>4 DEF MergeInv, Owns
        <5> QED BY <2>2, <3>2, <3>4, <4>3, <4>4, <5>1, ColumnStep
      <4> QED BY <4>2, <4>4, <4>5
    <3>5. CASE m.row # NoRow
      <4>1. /\ v.row \in Data
            /\ \A c \in Cols : /\ v.row[c] = IF c \in Won(o, m) THEN {o} ELSE m.row[c]
                               /\ v.clocks[c] = IF c \in Won(o, m) THEN Op[o].hlc ELSE m.clocks[c]
        BY <1>0, <3>1, <3>2, <3>5, MergeTakes
      <4> HIDE DEF v
      <4>2. v.row # NoRow
        BY <4>1, DataIsRow
      <4>3. mirror'[r].row = v.row /\ mirror'[r].clocks = v.clocks
        BY <3>1, <4>2 DEF Stored
      <4>4. ASSUME NEW c \in Cols
            PROVE  ColumnInv(r, c)'
        <5>1. ColumnInv(r, c)
          BY <3>5 DEF MergeInv
        <5>2. CASE c \in Won(o, m)
          <6>1. c \in Op[o].cols /\ m.clocks[c] < Op[o].hlc
            BY <3>2, <3>3, <5>2 DEF Won
          <6> QED BY <2>2, <3>2, <3>5, <4>1, <4>3, <5>1, <5>2, <6>1, ColumnStep
        <5>3. CASE c \notin Won(o, m)
          <6>1. c \notin Op[o].cols \/ Op[o].hlc <= m.clocks[c]
            BY <3>2, <3>3, <5>3 DEF Won
          <6> QED BY <2>2, <3>2, <3>5, <4>1, <4>3, <5>1, <5>3, <6>1, ColumnStep
        <5> QED BY <5>2, <5>3
      <4> QED BY <4>2, <4>3, <4>4
    <3> QED BY <3>4, <3>5
  <2> QED BY <2>4, <2>5
<1>6. ASSUME Halts
      PROVE  Goal
  BY <1>1, <1>6 DEF Halts
<1> QED BY <1>0, <1>2, <1>3, <1>4, <1>5, <1>6, StepKinds

\* merge keeps both sides of a concurrent edit: on one instance, of a row no op
\* deletes, each column has the newest op that touched it, in whatever order
\* and however interleaved the ops came.
THEOREM BothArePreserved ==
  ASSUME SingleInstance, NoMergedDelete
  PROVE  Spec => []BothPreserved
<1>1. SoloInv /\ MergeInv /\ [Next]_vars => MergeInv'
  BY MergeStep
<1>2. MergeInv => BothPreserved
  <2> SUFFICES ASSUME MergeInv, NEW r \in Rows, Policy[r] = "merge", mirror[r].row # NoRow,
                      NEW c \in Cols
               PROVE  mirror[r].row[c] = Newest(r, c)
    BY DEF BothPreserved
  <2>1. ColumnInv(r, c)
    BY DEF MergeInv
  <2>2. Newest(r, c) = {o \in OpIds : Owns(o, r, c)
                                      /\ \A p \in OpIds : Owns(p, r, c) => Op[p].hlc <= Op[o].hlc}
    BY DEF Newest, Owns
  <2>3. CASE mirror[r].row[c] = {} /\ \A o \in OpIds : ~Owns(o, r, c)
    BY <2>2, <2>3
  <2>4. ASSUME NEW o \in OpIds, Owns(o, r, c), mirror[r].row[c] = {o},
               \A p \in OpIds : Owns(p, r, c) => Op[p].hlc <= Op[o].hlc
        PROVE  mirror[r].row[c] = Newest(r, c)
    <3>1. ASSUME NEW p \in OpIds, Owns(p, r, c),
                 \A s \in OpIds : Owns(s, r, c) => Op[s].hlc <= Op[p].hlc
          PROVE  p = o
      <4>1. Op[p].hlc <= Op[o].hlc /\ Op[o].hlc <= Op[p].hlc
        BY <2>4, <3>1
      <4> QED BY <4>1, OpProcessorAssumption
    <3> QED BY <2>2, <2>4, <3>1
  <2> QED BY <2>1, <2>3, <2>4 DEF ColumnInv
<1> QED BY <1>1, <1>2, SoloAlways, MergeInit, PTL DEF Spec
=============================================================================
