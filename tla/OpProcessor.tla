---------------------------- MODULE OpProcessor ----------------------------
(***************************************************************************)
(* The consistent write path of the server: src/server/op-processor.ts     *)
(* driven by MessageHandler.handleOps, over the storage adapter            *)
(* (src/server/storage/sqlite.ts, and postgres.ts alike) and the           *)
(* application's own database.                                             *)
(*                                                                         *)
(* A request is one `ops' message being handled by one server instance.    *)
(* Its op ids are reserved and its rows prefetched in one go; then its ops *)
(* run one after the other, each in the queue of its row: read, resolve,   *)
(* mutate the database, write the mirror.  Every await is a step of its    *)
(* own, so requests of several clients and several instances interleave.   *)
(* A client that reconnects sends its unacknowledged ops again: another    *)
(* request naming the same op ids.                                         *)
(***************************************************************************)
EXTENDS Conflict, Sequences, FiniteSets

CONSTANTS Instances, Rows, OpIds, Requests,
          Op,            \* what each op is: [row, kind, cols, hlc, batch]
          Req,           \* what each request is: [inst, ops]
          Batches,       \* ids of client batches
          NoBatch,       \* an op sent on its own
          Unread,        \* a row the batch context does not hold
          Policy,        \* the conflict policy of each row's query
          MaxAttempts,   \* MAX_WRITE_ATTEMPTS
          Gates,         \* enforcement may reject an op
          Throws,        \* authorize or mutate may throw
          FetchFails,    \* the prefetch read may fail
          StorageFails,  \* the storage write may throw
          Crashes        \* bound: instance crashes

ASSUME OpProcessorAssumption ==
  /\ OpIds = Edits
  /\ Op \in [OpIds -> [row : Rows, kind : Kinds, cols : SUBSET Cols, hlc : Nat \ {0},
                       batch : Batches \cup {NoBatch}]]
  /\ \A o, p \in OpIds : Op[o].hlc = Op[p].hlc => o = p
  /\ \A o \in OpIds : Op[o].kind = "delete" => Op[o].cols = {}
  /\ Req \in [Requests -> [inst : Instances, ops : Seq(OpIds)]]
  /\ Unread \notin Existing
  /\ Policy \in [Rows -> Policies] /\ MaxAttempts \in Nat /\ Crashes \in Nat
  /\ {Gates, Throws, FetchFails, StorageFails} \subseteq BOOLEAN

VARIABLES
  mirror,    \* storage: _reflectdb_rows
  log,       \* storage: _reflectdb_oplog, the ops applied, in order
  reserved,  \* storage: _reflectdb_processed_ops
  db,        \* the application's database, written by mutate
  queue,     \* rowQueues of each instance: the holder, then the waiters
  pc,        \* where each request is
  fresh,     \* batch.freshOpIds
  cache,     \* batch.rows
  stale,     \* batch.stale
  cur,       \* the row its current op was resolved against
  out,       \* the verdict on its current op
  tries,     \* attempts its current op has lost
  verdict,   \* the outcomes of its ops so far
  crashes    \* crashes left

storage == <<mirror, log, reserved>>
batch   == <<fresh, cache, stale>>
attempt == <<cur, out, tries>>
vars    == <<storage, db, queue, pc, batch, attempt, verdict, crashes>>

Active(q) == pc[q] \notin {"idle", "done", "lost"}       \* in activeBatches
Inst(q)   == Req[q].inst
Ops(q)    == {Req[q].ops[k] : k \in DOMAIN Req[q].ops}
at(q)     == Len(verdict[q]) + 1                           \* the position of its current op
Cur(q)    == Req[q].ops[at(q)]
Row(q)    == Op[Cur(q)].row
Queue(q)  == queue[Inst(q)][Row(q)]

\* Mutant: ops of one row do not wait for each other.
HoldsAtOnce(q) == \E k \in DOMAIN Queue(q) : Queue(q)[k] = q

\* onRow: the op runs once everything queued on its row before it is through.
Holds(q) == Queue(q) # << >> /\ Head(Queue(q)) = q

\* The op as conflict resolution sees it, its value being the op itself.
In(o) ==
  [kind    |-> Op[o].kind,
   payload |-> IF Op[o].kind = "delete" THEN NoRow
               ELSE [c \in Cols |-> IF c \in Op[o].cols THEN {o} ELSE {}],
   hlc     |-> Op[o].hlc]

\* A mirror row: its columns, the HLC of the op that wrote it, its clocks.
Mirrored == {Missing} \cup [row : Data, hlc : Nat \ {0}, clocks : Clocks]
Outcomes == {"applied", "replayed", "rejected", "refused"}   \* refused: for another reason than a conflict

TypeOK ==
  /\ mirror \in [Rows -> Mirrored]
  /\ log \in Seq(OpIds)
  /\ reserved \in SUBSET OpIds
  /\ db \in [Rows -> Data \cup {NoRow}]
  /\ queue \in [Instances -> [Rows -> Seq(Requests)]]
  /\ pc \in [Requests -> {"idle", "fetch", "next", "queued", "mutate", "apply", "done", "lost"}]
  /\ fresh \in [Requests -> SUBSET OpIds]
  /\ cache \in [Requests -> [Rows -> Existing \cup {Unread}]]
  /\ stale \in [Requests -> SUBSET Rows]
  /\ cur \in [Requests -> Existing]
  /\ out \in [Requests -> Verdict]
  /\ tries \in [Requests -> Nat]
  /\ verdict \in [Requests -> Seq(Outcomes)]
  /\ crashes \in Nat

Init ==
  /\ mirror = [r \in Rows |-> Missing]
  /\ log = << >>
  /\ reserved = {}
  /\ db = [r \in Rows |-> NoRow]
  /\ queue = [i \in Instances |-> [r \in Rows |-> << >>]]
  /\ pc = [q \in Requests |-> "idle"]
  /\ fresh = [q \in Requests |-> {}]
  /\ cache = [q \in Requests |-> [r \in Rows |-> Unread]]
  /\ stale = [q \in Requests |-> {}]
  /\ cur = [q \in Requests |-> Missing]
  /\ out = [q \in Requests |-> Reject(Missing)]
  /\ tries = [q \in Requests |-> 0]
  /\ verdict = [q \in Requests |-> << >>]
  /\ crashes = Crashes

-----------------------------------------------------------------------------
(* prefetchBatch.                                                          *)

\* Mutant: every op of the message is taken for a new one.
ReserveAll(q) ==
  /\ pc[q] = "idle"
  /\ fresh' = [fresh EXCEPT ![q] = Ops(q)]
  /\ reserved' = reserved \cup Ops(q)
  /\ pc' = [pc EXCEPT ![q] = "fetch"]
  /\ UNCHANGED <<mirror, log, db, queue, cache, stale, attempt, verdict, crashes>>

\* The storage reserves the batch's ids in one transaction and returns the
\* ones it had not seen.
Reserve(q) ==
  /\ pc[q] = "idle"
  /\ fresh' = [fresh EXCEPT ![q] = Ops(q) \ reserved]
  /\ reserved' = reserved \cup Ops(q)
  /\ pc' = [pc EXCEPT ![q] = "fetch"]
  /\ UNCHANGED <<mirror, log, db, queue, cache, stale, attempt, verdict, crashes>>

\* One read brings in every row the fresh ops touch; when it fails, rows are
\* read one by one as their op comes up.
Prefetch(q) ==
  /\ pc[q] = "fetch"
  /\ \/ cache' = [cache EXCEPT ![q] =
                    [r \in Rows |-> IF \E o \in fresh[q] : Op[o].row = r THEN mirror[r] ELSE @[r]]]
     \/ FetchFails /\ UNCHANGED cache
  /\ pc' = [pc EXCEPT ![q] = "next"]
  /\ UNCHANGED <<storage, db, queue, fresh, stale, attempt, verdict, crashes>>

-----------------------------------------------------------------------------
(* handleOps: one op after the other.                                      *)

\* The request has an answer for its current op and moves to the next.
Answer(q, outcome) ==
  /\ verdict' = [verdict EXCEPT ![q] = Append(@, outcome)]
  /\ pc' = [pc EXCEPT ![q] = "next"]

BatchFailed(q) ==
  /\ Op[Cur(q)].batch # NoBatch
  /\ \E k \in DOMAIN verdict[q] :
       /\ Op[Req[q].ops[k]].batch = Op[Cur(q)].batch
       /\ verdict[q][k] \in {"rejected", "refused"}

More(q) == pc[q] = "next" /\ at(q) \in DOMAIN Req[q].ops

\* An earlier op of the same client batch failed: this one is not tried.
RejectRest(q) ==
  /\ More(q) /\ BatchFailed(q)
  /\ Answer(q, "refused")
  /\ UNCHANGED <<storage, db, queue, batch, attempt, crashes>>

\* An id reserved before is taken for a replay and accepted unseen.
Replay(q) ==
  /\ More(q) /\ ~BatchFailed(q)
  /\ Cur(q) \notin fresh[q]
  /\ Answer(q, "replayed")
  /\ UNCHANGED <<storage, db, queue, batch, attempt, crashes>>

\* The op consumes its reservation and joins the queue of its row.
Enqueue(q) ==
  /\ More(q) /\ ~BatchFailed(q)
  /\ Cur(q) \in fresh[q]
  /\ fresh' = [fresh EXCEPT ![q] = @ \ {Cur(q)}]
  /\ queue' = [queue EXCEPT ![Inst(q)][Row(q)] = Append(@, q)]
  /\ tries' = [tries EXCEPT ![q] = 0]
  /\ pc' = [pc EXCEPT ![q] = "queued"]
  /\ UNCHANGED <<storage, db, cache, stale, cur, out, verdict, crashes>>

\* The acknowledgements and the rejections go out.
Finish(q) ==
  /\ pc[q] = "next" /\ at(q) \notin DOMAIN Req[q].ops
  /\ pc' = [pc EXCEPT ![q] = "done"]
  /\ UNCHANGED <<storage, db, queue, batch, attempt, verdict, crashes>>

-----------------------------------------------------------------------------
(* attemptConsistentOp, at the head of the row's queue.                    *)

LeaveQueue(q) == queue' = [queue EXCEPT ![Inst(q)][Row(q)] = Tail(@)]

\* readRow: the batch's own copy unless another batch wrote the row since,
\* and never after a lost race.
ReadRow(q) ==
  IF tries[q] > 0 \/ Row(q) \in stale[q] \/ cache[q][Row(q)] = Unread
  THEN mirror[Row(q)]
  ELSE cache[q][Row(q)]

\* The row is read and the op resolved against it.
Resolve(q) ==
  LET existing == ReadRow(q)
      result   == ResolveConflict(Policy[Row(q)], In(Cur(q)), existing)
  IN  /\ pc[q] = "queued" /\ Holds(q)
      /\ cur' = [cur EXCEPT ![q] = existing]
      /\ IF tries[q] > 0 THEN UNCHANGED <<cache, stale>>
         ELSE /\ cache' = [cache EXCEPT ![q][Row(q)] = existing]
              /\ stale' = [stale EXCEPT ![q] = @ \ {Row(q)}]
      /\ \/ /\ result.accepted
            /\ out' = [out EXCEPT ![q] = result]
            /\ pc' = [pc EXCEPT ![q] = "mutate"]
            /\ UNCHANGED <<queue, verdict>>
         \/ /\ Gates \/ ~result.accepted
            /\ Answer(q, IF result.accepted THEN "refused" ELSE "rejected")
            /\ LeaveQueue(q)
            /\ UNCHANGED out
      /\ UNCHANGED <<storage, db, fresh, tries, crashes>>

\* The application's mutate persists the resolved row as it is given.
Mutate(q) ==
  /\ pc[q] = "mutate"
  /\ db' = [db EXCEPT ![Row(q)] = out[q].row]
  /\ pc' = [pc EXCEPT ![q] = "apply"]
  /\ UNCHANGED <<storage, queue, batch, attempt, verdict, crashes>>

\* Mutant: a throwing callback leaves the row's queue blocked.
MutateThrowsInQueue(q) ==
  /\ Throws
  /\ pc[q] = "mutate"
  /\ Answer(q, "refused")
  /\ UNCHANGED <<storage, db, queue, batch, attempt, crashes>>

\* authorize or mutate throws: the op is rejected.
MutateThrows(q) ==
  /\ Throws
  /\ pc[q] = "mutate"
  /\ Answer(q, "refused")
  /\ LeaveQueue(q)
  /\ UNCHANGED <<storage, db, batch, attempt, crashes>>

\* Mutant: the other batches go on with the row they prefetched.
RecordOwnWrite(q, r, written) ==
  /\ stale' = [stale EXCEPT ![q] = @ \ {r}]
  /\ cache' = [cache EXCEPT ![q][r] = written]

\* recordBatchWrite: the other batches of the instance must read the row
\* again; this one keeps what it wrote.
RecordBatchWrite(q, r, written) ==
  /\ stale' = [p \in Requests |->
                 IF p = q THEN stale[p] \ {r}
                 ELSE IF Active(p) /\ Inst(p) = Inst(q) THEN stale[p] \cup {r}
                 ELSE stale[p]]
  /\ cache' = [cache EXCEPT ![q][r] = written]

\* Mutant: a deleted row stays behind with its HLC.
StoredTombstone(o, result) ==
  [row |-> result.row, hlc |-> Op[o].hlc, clocks |-> result.clocks]

\* putRow keeps the row under the op's HLC; a null row is deleted.
Stored(o, result) ==
  IF result.row = NoRow THEN Missing
  ELSE [row |-> result.row, hlc |-> Op[o].hlc, clocks |-> result.clocks]

\* Mutant: no policy is checked.
CheckedNever(r) == FALSE

Checked(r) == Policy[r] = "custom"     \* typeof conflict === "object": applyOpIf

\* The mirror row and its log entry commit together.
Apply(q) ==
  LET r == Row(q)
  IN  /\ pc[q] = "apply"
      /\ Checked(r) => mirror[r].hlc = cur[q].hlc
      /\ mirror' = [mirror EXCEPT ![r] = Stored(Cur(q), out[q])]
      /\ log' = Append(log, Cur(q))
      /\ RecordBatchWrite(q, r, [row |-> out[q].row, hlc |-> Op[Cur(q)].hlc,
                                 clocks |-> out[q].clocks])
      /\ Answer(q, "applied")
      /\ LeaveQueue(q)
      /\ UNCHANGED <<reserved, db, fresh, attempt, crashes>>

\* The compare-and-swap lost: another instance wrote the row since it was
\* read.  Decide again, or give up.
LoseRace(q) ==
  /\ pc[q] = "apply" /\ Checked(Row(q))
  /\ mirror[Row(q)].hlc # cur[q].hlc
  /\ \/ /\ tries[q] + 1 < MaxAttempts
        /\ tries' = [tries EXCEPT ![q] = @ + 1]
        /\ pc' = [pc EXCEPT ![q] = "queued"]
        /\ UNCHANGED <<queue, verdict>>
     \/ /\ tries[q] + 1 >= MaxAttempts
        /\ Answer(q, "rejected")
        /\ LeaveQueue(q)
        /\ UNCHANGED tries
  /\ UNCHANGED <<storage, db, batch, cur, out, crashes>>

\* The storage call throws: the message handler logs it and the client gets
\* no answer; the next op in the row's queue goes ahead.
ApplyThrows(q) ==
  /\ StorageFails
  /\ pc[q] = "apply"
  /\ pc' = [pc EXCEPT ![q] = "lost"]
  /\ LeaveQueue(q)
  /\ UNCHANGED <<storage, db, batch, attempt, verdict, crashes>>

-----------------------------------------------------------------------------
\* An instance dies with the requests it was handling.
Crash(i) ==
  /\ crashes > 0
  /\ \E q \in Requests : Inst(q) = i /\ Active(q)
  /\ crashes' = crashes - 1
  /\ pc' = [q \in Requests |-> IF Inst(q) = i /\ Active(q) THEN "lost" ELSE pc[q]]
  /\ queue' = [queue EXCEPT ![i] = [r \in Rows |-> << >>]]
  /\ UNCHANGED <<storage, db, batch, attempt, verdict>>

Handle(q) ==
  \/ Prefetch(q) \/ RejectRest(q) \/ Replay(q) \/ Enqueue(q) \/ Finish(q)
  \/ Resolve(q) \/ Mutate(q) \/ MutateThrows(q) \/ Apply(q) \/ LoseRace(q) \/ ApplyThrows(q)

Next ==
  \/ \E q \in Requests : Reserve(q) \/ Handle(q)
  \/ \E i \in Instances : Crash(i)

Spec == Init /\ [][Next]_vars

\* A promise that can settle does: every started request keeps moving.
FairSpec == Spec /\ \A q \in Requests : WF_vars(Handle(q))
-----------------------------------------------------------------------------
(* Properties.                                                             *)

Entries == {log[k] : k \in DOMAIN log}

\* An op enters the mirror and the log at most once, however often its
\* message is sent, to whichever instance, and wherever an instance dies
\* (ReplayDetector, storage.reserveOps, BatchContext.freshOpIds).
AtMostOnce == \A j, k \in DOMAIN log : log[j] = log[k] => j = k

SameRow(a, b) == a.row = b.row /\ (a.row # NoRow => a = b)

\* On one instance, from the moment an op is resolved to the moment it is
\* written the row is the one it was resolved against: neither another
\* client's write, nor the batch's own prefetched copy, comes in between
\* (onRow, readRow, recordBatchWrite).
DecidedOnLatest ==
  \A q \in Requests : pc[q] \in {"mutate", "apply"} => SameRow(cur[q], mirror[Row(q)])

\* With the compare-and-swap, on any number of instances, a write replaces
\* exactly the row it was computed from (applyOpIf, RETRY_WRITE).
AppliedOnWhatItRead ==
  [][\A q \in Requests :
       pc[q] = "apply" /\ Len(log') > Len(log) /\ pc'[q] = "next" =>
         SameRow(cur[q], mirror[Row(q)])]_vars

\* Some request has run mutate on the row and not yet settled the mirror, or
\* its mirror write threw.
InDoubt(r) ==
  \E q \in Requests :
    /\ \/ pc[q] = "apply"
       \/ pc[q] \in {"queued", "mutate"} /\ tries[q] > 0
       \/ pc[q] = "lost" /\ at(q) \in DOMAIN Req[q].ops
    /\ Row(q) = r

\* "The two agree as long as every write goes through reflectdb and mutate
\* persists the resolved payload verbatim" (README.md:1890): the database and
\* the mirror hold the same row whenever no write of it is under way, and
\* none was broken off by storage that threw.
DbAgrees == \A r \in Rows : ~InDoubt(r) => db[r] = mirror[r].row

\* Request q gave op o the outcome v.
Gave(q, o, v) == \E k \in DOMAIN verdict[q] : Req[q].ops[k] = o /\ verdict[q][k] = v

Decided(o) == \E q \in Requests : Gave(q, o, "applied") \/ Gave(q, o, "rejected")

\* The op that must own column c of row r: the newest decided on.
Newest(r, c) ==
  LET touching == {o \in OpIds : Op[o].row = r /\ c \in Op[o].cols /\ Decided(o)}
  IN  {o \in touching : \A p \in touching : Op[p].hlc <= Op[o].hlc}

\* merge keeps "both": each column holds the newest op that touched it, in
\* whatever order the ops came and however they interleaved (resolveMerge,
\* README.md:1537 and 1544).  For histories without deletes.
BothPreserved ==
  \A r \in Rows : Policy[r] = "merge" /\ mirror[r].row # NoRow =>
    \A c \in Cols : mirror[r].row[c] = Newest(r, c)

\* lww: the stored HLC of a row that stays never goes back, so a write is
\* never undone by an older one that resolved earlier (resolveLww).
RowHlcForward ==
  [][\A r \in Rows :
       Policy[r] = "lww" /\ mirror[r].row # NoRow /\ mirror'[r].row # NoRow =>
         mirror[r].hlc <= mirror'[r].hlc]_vars

\* A delete is only applied to a row nothing in which is newer than it
\* ("Delete uses row-level HLC comparison (same as LWW)", resolveMerge).
DeleteIsNewest ==
  [][\A r \in Rows : mirror[r].row # NoRow /\ mirror'[r].row = NoRow =>
       \A c \in Cols : mirror[r].clocks[c] < Op[log'[Len(log')]].hlc]_vars

\* A merging resolver loses no accepted edit: what was applied stays in the
\* row ("Merges stay correct on any number of machines", README.md:526).
NoEditLost ==
  \A o \in Entries : \A c \in Op[o].cols : o \in mirror[Op[o].row].row[c]

\* server: the first write of a row is the only one applied (resolveServer).
\* All that can be logged before it is the delete of a row that is not there.
FirstWriteStays ==
  \A j, k \in DOMAIN log :
    j < k /\ Op[log[j]].row = Op[log[k]].row /\ Policy[Op[log[j]].row] = "server" =>
      Op[log[j]].kind = "delete"

\* A replay is accepted silently as "idempotent" (processClientOp): the op it
\* repeats did take effect.
ReplayedWasApplied ==
  (\A q \in Requests : ~Active(q)) =>
    \A q \in Requests, o \in OpIds : Gave(q, o, "replayed") => o \in Entries

\* Every message that was taken up is answered, or its handling died: the
\* queue of a row never stays blocked behind an op that was rejected, threw,
\* or lost a race (onRow).
Answered ==
  \A q \in Requests : Active(q) ~> ~Active(q)

\* Of every row the database, the mirror and the log tell the same story, each as
\* stated above.
RowsTell == DbAgrees /\ FirstWriteStays

\* No write undoes a newer one: neither by putting an older row in its place nor
\* by deleting it, each as stated above.
NeverBackwards == RowHlcForward /\ DeleteIsNewest
=============================================================================
