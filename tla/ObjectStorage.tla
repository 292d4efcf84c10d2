--------------------------- MODULE ObjectStorage ---------------------------
(***************************************************************************)
(* A room kept in an object store: src/server/storage/object, in its       *)
(* default mode, one writer per room.                                      *)
(*                                                                         *)
(* A process holds the room in memory, appends every write to a buffer,    *)
(* and flushes the buffer with a loop of its own: it takes the lease, PUTs *)
(* a segment under a name used once, and commits by replacing the manifest *)
(* that lists the segments, on the condition that it is still the one last *)
(* seen.  Only then is the write acknowledged.  After a flush the loop may *)
(* replace the segments by a snapshot of its memory, and delete what older *)
(* manifests listed.  Processes crash, restart, and run on when another    *)
(* has taken over; the store is slow, fails, and loses answers.            *)
(*                                                                         *)
(* The room is one row, whose value is the set of writes it reflects: a    *)
(* write stores what its process had in memory, and itself.  A manifest's  *)
(* etag is its commitSeq, which every PUT that succeeds counts up.         *)
(***************************************************************************)
EXTENDS Naturals, Sequences, FiniteSets

CONSTANTS Procs,          \* processes; each one boots once
          Writers,        \* writer ids
          WriterIds,      \* who may have which; a restarted process may keep its own
          Nobody,         \* the lease of no writer
          None,           \* no snapshot
          Records,        \* the writes
          AfterSegments,  \* compaction.afterSegments
          Overlap,        \* a process may boot while another of its writer id runs
          GivesUp,        \* a manifest PUT that took effect may be reported as failed
          Mishaps         \* bound: failed calls, lost answers, leases let go for want of writes

ASSUME ObjectStorageAssumption ==
  /\ WriterIds \subseteq [Procs -> Writers] /\ Nobody \notin Writers \cup Procs
  /\ None \notin [kind : {"wal", "snap"}, epoch : Nat, n : Nat]
  /\ AfterSegments \in Nat \ {0} /\ Mishaps \in Nat
  /\ {Overlap, GivesUp} \subseteq BOOLEAN

VARIABLES
  manifest,  \* the store: the room's manifest
  objects,   \* the store: segments and snapshots, the row each leaves behind
  lease,     \* the store: the lease, and the process that knows its etag
  lapsed,    \* expiresAt has passed
  writerId,  \* the writer id of each process
  pc,        \* where each process, and its flush loop, is
  cached,    \* the manifest as the process knows it
  mem,       \* the row in memory
  buffer,    \* writes not flushed yet
  flight,    \* what the loop is committing: an object, the writes in it, or keys deleted;
             \* and whether the PUT took effect, unanswered
  epoch,     \* leaseEpoch
  held,      \* held
  leased,    \* leaseEtag is not null
  fenced,    \* fenceReason is set
  seq,       \* next segment number, and the epoch it counts for
  snapSeq,   \* next snapshot number
  acked,     \* history: the writes that were acknowledged
  mishaps

store   == <<manifest, objects>>
leasing == <<lease, lapsed, epoch, held, leased>>
loop    == <<cached, mem, flight, seq, snapSeq>>
vars    == <<writerId, store, leasing, loop, pc, buffer, fenced, acked, mishaps>>

Row      == SUBSET Records
Key      == [kind : {"wal", "snap"}, epoch : Nat, n : Nat]
Manifest == [commitSeq : Nat, epoch : Nat, lastWriter : Writers \cup {Nobody},
             segs : Seq(Key), snap : Key \cup {None}, gc : SUBSET Key]
Stages   == {"down", "load", "idle", "put", "commit", "compact", "swap", "collect", "forget", "stopped"}

Empty    == [commitSeq |-> 0, epoch |-> 0, lastWriter |-> Nobody, segs |-> << >>, snap |-> None, gc |-> {}]
Nothing  == [key |-> None, n |-> 0, gone |-> {}, tried |-> FALSE]

TypeOK ==
  /\ manifest \in Manifest
  /\ DOMAIN objects \subseteq Key /\ \A k \in DOMAIN objects : objects[k] \in Row
  /\ lease \in [owner : Writers \cup {Nobody}, epoch : Nat, by : Procs \cup {Nobody}]
  /\ lapsed \in BOOLEAN
  /\ writerId \in WriterIds /\ pc \in [Procs -> Stages] /\ cached \in [Procs -> Manifest] /\ mem \in [Procs -> Row]
  /\ buffer \in [Procs -> Seq([id : Records, row : Row])]
  /\ flight \in [Procs -> [key : Key \cup {None}, n : Nat, gone : SUBSET Key, tried : BOOLEAN]]
  /\ epoch \in [Procs -> Nat] /\ seq \in [Procs -> [epoch : Nat, n : Nat]] /\ snapSeq \in [Procs -> Nat]
  /\ {held, leased, fenced} \subseteq [Procs -> BOOLEAN]
  /\ acked \in SUBSET Records /\ mishaps \in Nat

Init ==
  /\ manifest = Empty /\ objects = << >>
  /\ lease = [owner |-> Nobody, epoch |-> 0, by |-> Nobody] /\ lapsed = TRUE
  /\ writerId \in WriterIds
  /\ pc = [p \in Procs |-> "down"]
  /\ cached = [p \in Procs |-> Empty]
  /\ mem = [p \in Procs |-> {}]
  /\ buffer = [p \in Procs |-> << >>]
  /\ flight = [p \in Procs |-> Nothing]
  /\ epoch = [p \in Procs |-> 0] /\ snapSeq = epoch
  /\ seq = [p \in Procs |-> [epoch |-> 0, n |-> 0]]
  /\ held = [p \in Procs |-> FALSE] /\ leased = held /\ fenced = held
  /\ acked = {}
  /\ mishaps = Mishaps

Named(m) == {m.segs[k] : k \in DOMAIN m.segs} \cup (IF m.snap = None THEN {} ELSE {m.snap})

\* The row a manifest stands for: its snapshot with every segment replayed,
\* that is, what the last write of the last segment left.
Replayed(m) ==
  IF m.segs # << >> THEN objects[m.segs[Len(m.segs)]]
  ELSE IF m.snap # None THEN objects[m.snap] ELSE {}

Up(p)      == pc[p] \notin {"down", "load", "stopped"}
At(p, s)   == pc[p] = s
Goto(p, s) == pc' = [pc EXCEPT ![p] = s]

-----------------------------------------------------------------------------
(* Boot and writes.                                                        *)

\* load: the manifest is read.
Boot(p) ==
  /\ At(p, "down")
  /\ Overlap \/ \A q \in Procs \ {p} : writerId[q] = writerId[p] => pc[q] \in {"down", "stopped"}
  /\ cached' = [cached EXCEPT ![p] = manifest]
  /\ epoch' = [epoch EXCEPT ![p] = manifest.epoch]
  /\ Goto(p, "load")
  /\ UNCHANGED <<writerId, store, lease, lapsed, held, leased, mem, flight, seq, snapSeq, buffer, fenced, acked, mishaps>>

\* The snapshot and the segments it names are fetched; when one is missing the
\* boot fails, and the next call boots again.
Load(p) ==
  /\ At(p, "load")
  /\ \/ /\ Named(cached[p]) \subseteq DOMAIN objects
        /\ mem' = [mem EXCEPT ![p] = Replayed(cached[p])]
        /\ Goto(p, "idle")
     \/ /\ ~(Named(cached[p]) \subseteq DOMAIN objects)
        /\ Goto(p, "down")
        /\ UNCHANGED mem
  /\ UNCHANGED <<writerId, store, leasing, cached, flight, seq, snapSeq, buffer, fenced, acked, mishaps>>

\* A write changes the memory and joins the buffer, while the loop is anywhere.
Submit(p, r) ==
  /\ Up(p) /\ r \notin acked /\ \A q \in Procs : r \notin mem[q]
  /\ mem' = [mem EXCEPT ![p] = @ \cup {r}]
  /\ buffer' = [buffer EXCEPT ![p] = Append(@, [id |-> r, row |-> mem[p] \cup {r}])]
  /\ UNCHANGED <<writerId, store, leasing, cached, flight, seq, snapSeq, pc, fenced, acked, mishaps>>

-----------------------------------------------------------------------------
(* The end of a process, or of its writing: the writes that wait are       *)
(* rejected and no more are taken.  Nothing of it is read again, so all of *)
(* it is reset.                                                            *)

Gone(p) ==
  /\ Goto(p, "stopped")
  /\ cached' = [cached EXCEPT ![p] = Empty]
  /\ mem' = [mem EXCEPT ![p] = {}]
  /\ buffer' = [buffer EXCEPT ![p] = << >>]
  /\ flight' = [flight EXCEPT ![p] = Nothing]
  /\ epoch' = [epoch EXCEPT ![p] = 0]
  /\ seq' = [seq EXCEPT ![p] = [epoch |-> 0, n |-> 0]]
  /\ snapSeq' = [snapSeq EXCEPT ![p] = 0]
  /\ held' = [held EXCEPT ![p] = FALSE]
  /\ leased' = [leased EXCEPT ![p] = FALSE]
  /\ fenced' = [fenced EXCEPT ![p] = FALSE]

Crash(p) ==
  /\ pc[p] \notin {"down", "stopped"}
  /\ Gone(p)
  /\ UNCHANGED <<writerId, store, lease, lapsed, acked, mishaps>>

\* release: an unowned lease that keeps the epoch.
Released(e) == [owner |-> Nobody, epoch |-> e, by |-> Nobody]

\* close, after a drain that may have timed out: the loop is abandoned wherever
\* it is, and the lease given up when the store still has this process's.
Close(p) ==
  /\ Up(p)
  /\ IF held[p] /\ lease.by = p
     THEN lease' = Released(epoch[p]) /\ lapsed' = TRUE
     ELSE UNCHANGED <<lease, lapsed>>
  /\ Gone(p)
  /\ UNCHANGED <<writerId, store, acked, mishaps>>

-----------------------------------------------------------------------------
(* The lease.                                                              *)

Wants(p) == \/ At(p, "idle") /\ buffer[p] # << >>
            \/ (pc[p] \in {"commit", "swap", "forget"} /\ ~flight[p].tried)

\* What becomes of the loop when it finds it is not the writer: a flush fails
\* for good, maintenance is given up.
\* Mutant: taken for an error that passes.
NotWriterRetries(p) ==
  /\ Goto(p, "idle") /\ flight' = [flight EXCEPT ![p] = Nothing]
  /\ UNCHANGED <<epoch, held, leased, cached, mem, buffer, fenced, seq, snapSeq>>

NotWriter(p) ==
  IF pc[p] \in {"idle", "commit"}
  THEN Gone(p)
  ELSE /\ Goto(p, "idle") /\ flight' = [flight EXCEPT ![p] = Nothing]
       /\ UNCHANGED <<epoch, held, leased, cached, mem, buffer, fenced, seq, snapSeq>>

\* What becomes of it after an error of the store: it begins again.
Retry(p) ==
  /\ mishaps > 0 /\ mishaps' = mishaps - 1
  /\ Goto(p, "idle") /\ flight' = [flight EXCEPT ![p] = Nothing]
  /\ UNCHANGED <<cached, mem, buffer, acked>>

\* Mutant: the name alone makes the lease one's own.
OursByName(p) == lease.owner = writerId[p] /\ ~lapsed

\* A lease this instance has taken before, and the store still has, keeps its
\* epoch; any other is taken with a new one.
Ours(p) == lease.owner = writerId[p] /\ ~lapsed /\ leased[p]
NextEpoch(p) == IF Ours(p) THEN lease.epoch
                ELSE (IF lease.epoch > epoch[p] THEN lease.epoch ELSE epoch[p]) + 1
Taken(p) == lease.owner \notin {writerId[p], Nobody} /\ ~lapsed

\* ensureWriter, and doCommit after an idle lapse.
Acquire(p) ==
  /\ Wants(p) /\ ~held[p] /\ ~fenced[p] /\ ~Taken(p)
  /\ lease' = [owner |-> writerId[p], epoch |-> NextEpoch(p), by |-> p]
  /\ lapsed' = FALSE
  /\ epoch' = [epoch EXCEPT ![p] = NextEpoch(p)]
  /\ held' = [held EXCEPT ![p] = TRUE]
  /\ leased' = [leased EXCEPT ![p] = TRUE]
  /\ Goto(p, IF At(p, "idle") THEN "put" ELSE pc[p])
  /\ UNCHANGED <<writerId, store, loop, buffer, fenced, acked, mishaps>>

\* The PUT fails, after or before it took effect.  After it did, the driver's own
\* retry may find the lease changed, by that very PUT.
AcquireFails(p) ==
  /\ Wants(p) /\ ~held[p] /\ ~fenced[p] /\ ~Taken(p)
  /\ \/ Retry(p) /\ UNCHANGED <<store, leasing, fenced, seq, snapSeq>>
     \/ /\ lease' = [owner |-> writerId[p], epoch |-> NextEpoch(p), by |-> Nobody]
        /\ lapsed' = FALSE
        /\ \/ Retry(p) /\ UNCHANGED <<epoch, held, leased, fenced, seq, snapSeq>>
           \/ mishaps > 0 /\ mishaps' = mishaps - 1 /\ NotWriter(p) /\ UNCHANGED acked
        /\ UNCHANGED store
  /\ UNCHANGED writerId

\* Another writer has the lease, or this one is fenced.
Refused(p) ==
  /\ Wants(p) /\ (fenced[p] \/ (~held[p] /\ Taken(p)))
  /\ NotWriter(p)
  /\ UNCHANGED <<writerId, store, lease, lapsed, acked, mishaps>>

Expire ==
  /\ ~lapsed /\ lapsed' = TRUE
  /\ UNCHANGED <<writerId, store, lease, epoch, held, leased, loop, pc, buffer, fenced, acked, mishaps>>

\* onRenewTick without a write since the last: the lease is let go.
Lapse(p) ==
  /\ Up(p) /\ held[p] /\ mishaps > 0
  /\ held' = [held EXCEPT ![p] = FALSE]
  /\ mishaps' = mishaps - 1
  /\ UNCHANGED <<writerId, store, lease, lapsed, epoch, leased, loop, pc, buffer, fenced, acked>>

Fence(p) ==
  /\ fenced' = [fenced EXCEPT ![p] = TRUE]
  /\ held' = [held EXCEPT ![p] = FALSE]

\* onRenewTick: renewed; or another's lease is found, or its own of a PUT whose
\* answer was lost; or the lease expired while renewals failed.
Renew(p) ==
  /\ Up(p) /\ held[p]
  /\ \/ /\ lease.by = p /\ lapsed /\ lapsed' = FALSE
        /\ UNCHANGED <<lease, held, fenced, mishaps>>
     \/ /\ lease.by # p /\ Fence(p)
        /\ UNCHANGED <<lease, lapsed, mishaps>>
     \/ /\ mishaps > 0 /\ mishaps' = mishaps - 1
        /\ \/ lapsed /\ Fence(p) /\ UNCHANGED <<lease, lapsed>>
           \/ /\ lease.by = p /\ lease' = [lease EXCEPT !.by = Nobody] /\ lapsed' = FALSE
              /\ UNCHANGED <<held, fenced>>
  /\ UNCHANGED <<writerId, store, epoch, leased, loop, pc, buffer, acked>>

-----------------------------------------------------------------------------
(* The loop: flush, compact, collect.                                      *)

PutObject(k, row) == objects' = [x \in DOMAIN objects \cup {k} |-> IF x = k THEN row ELSE objects[x]]

\* A PUT of an object: done, and the loop goes on to stage s with f; or failed,
\* after it took effect or without.
Puts(p, k, row, s, f) ==
  \/ /\ PutObject(k, row)
     /\ Goto(p, s) /\ flight' = [flight EXCEPT ![p] = f]
     /\ UNCHANGED <<cached, mem, buffer, acked, mishaps>>
  \/ PutObject(k, row) /\ Retry(p)
  \/ UNCHANGED objects /\ Retry(p)

\* The number of a segment: it begins again with each epoch.
NextSeq(p) == IF seq[p].epoch = epoch[p] THEN seq[p].n ELSE 0

\* flushOnce: some of the buffer is PUT, under a name that is used up first.
PutSegment(p) ==
  /\ At(p, "put") \/ (At(p, "idle") /\ buffer[p] # << >> /\ held[p])
  /\ seq' = [seq EXCEPT ![p] = [epoch |-> epoch[p], n |-> NextSeq(p) + 1]]
  /\ \E n \in 1..Len(buffer[p]) :
       LET k == [kind |-> "wal", epoch |-> epoch[p], n |-> NextSeq(p)]
       IN Puts(p, k, buffer[p][n].row, "commit", [Nothing EXCEPT !.key = k, !.n = n])
  /\ UNCHANGED <<writerId, manifest, leasing, fenced, snapSeq>>

\* doCommit's conditional PUT of the manifest, changed by m.
Built(p, m) ==
  [m EXCEPT !.commitSeq = cached[p].commitSeq + 1, !.epoch = epoch[p], !.lastWriter = writerId[p]]

\* adoptOwnCommit: the manifest read back passes for the one that was tried.
Own(p) == /\ manifest.lastWriter = writerId[p] /\ manifest.epoch = epoch[p]
          /\ manifest.commitSeq = cached[p].commitSeq + 1

Unchanged(p) == manifest.commitSeq = cached[p].commitSeq

\* The PUT is answered, or it was made earlier and is taken for this one.
\* Mutant: the PUT has no condition.
CommitsBlindly(p, m) ==
  manifest' = Built(p, m) /\ cached' = [cached EXCEPT ![p] = manifest']

Commits(p, m) ==
  \/ Unchanged(p) /\ manifest' = Built(p, m) /\ cached' = [cached EXCEPT ![p] = manifest']
  \/ ~Unchanged(p) /\ Own(p) /\ cached' = [cached EXCEPT ![p] = manifest] /\ UNCHANGED manifest

\* The answer is lost, or there was no effect, or another's manifest is found.
\* The driver repeats a PUT, which then meets its own; whether it may give up
\* in between is a parameter.
CommitFails(p, m) ==
  \/ /\ Unchanged(p) /\ mishaps > 0 /\ mishaps' = mishaps - 1
     /\ manifest' = Built(p, m)
     /\ flight' = [flight EXCEPT ![p].tried = TRUE]
     /\ UNCHANGED <<pc, epoch, held, leased, cached, mem, buffer, fenced, seq, snapSeq, acked>>
  \/ /\ GivesUp \/ ~flight[p].tried
     /\ Retry(p) /\ UNCHANGED <<manifest, epoch, held, leased, fenced, seq, snapSeq>>
  \/ /\ ~Unchanged(p) /\ ~Own(p) /\ UNCHANGED <<manifest, acked, mishaps>>
     /\ IF At(p, "commit") THEN Gone(p)
        ELSE /\ Goto(p, "idle") /\ Fence(p) /\ flight' = [flight EXCEPT ![p] = Nothing]
             /\ UNCHANGED <<epoch, leased, cached, mem, buffer, seq, snapSeq>>

\* The manifest with the segment in it.  The batch is acknowledged, and leaves
\* the buffer.
WithSegment(p) == [cached[p] EXCEPT !.segs = Append(@, flight[p].key)]

\* Mutant: the buffer is taken to be the batch.
AckBatchAll(p) ==
  /\ acked' = acked \cup {buffer[p][k].id : k \in DOMAIN buffer[p]}
  /\ buffer' = [buffer EXCEPT ![p] = << >>]

AckBatch(p) ==
  /\ acked' = acked \cup {buffer[p][k].id : k \in 1..flight[p].n}
  /\ buffer' = [buffer EXCEPT ![p] = SubSeq(@, flight[p].n + 1, Len(@))]

CommitSegment(p) ==
  /\ At(p, "commit") /\ (held[p] \/ flight[p].tried)
  /\ \/ /\ Commits(p, WithSegment(p)) /\ AckBatch(p)
        /\ Goto(p, "compact") /\ flight' = [flight EXCEPT ![p] = Nothing]
        /\ UNCHANGED <<epoch, held, leased, mem, fenced, seq, snapSeq, mishaps>>
     \/ CommitFails(p, WithSegment(p))
  /\ UNCHANGED <<writerId, objects, lease, lapsed>>

Due(p) == Len(cached[p].segs) >= AfterSegments

\* compactIfDue: the memory, which may be ahead of what was committed, is PUT.
PutSnapshot(p) ==
  /\ At(p, "compact") /\ Due(p)
  /\ snapSeq' = [snapSeq EXCEPT ![p] = @ + 1]
  /\ LET k == [kind |-> "snap", epoch |-> epoch[p], n |-> snapSeq[p]]
     IN Puts(p, k, mem[p], "swap", [Nothing EXCEPT !.key = k])
  /\ UNCHANGED <<writerId, manifest, leasing, fenced, seq>>

\* The snapshot takes the place of all that the manifest named.
WithSnapshot(p) ==
  [cached[p] EXCEPT !.gc = @ \cup Named(cached[p]), !.segs = << >>, !.snap = flight[p].key]

SwapManifest(p) ==
  /\ At(p, "swap") /\ (held[p] \/ flight[p].tried)
  /\ \/ /\ Commits(p, WithSnapshot(p))
        /\ Goto(p, "collect") /\ flight' = [flight EXCEPT ![p] = Nothing]
        /\ UNCHANGED <<epoch, held, leased, mem, buffer, fenced, seq, snapSeq, acked, mishaps>>
     \/ CommitFails(p, WithSnapshot(p))
  /\ UNCHANGED <<writerId, objects, lease, lapsed>>

\* collectGarbage: some keys are past their grace; none that is named is deleted.
Collect(p) ==
  /\ At(p, "collect") \/ (At(p, "compact") /\ ~Due(p))
  /\ \E S \in SUBSET cached[p].gc :
       \/ /\ S = {} /\ Goto(p, "idle")
          /\ UNCHANGED <<objects, flight, cached, mem, buffer, acked, mishaps>>
       \/ /\ S # {}
          /\ objects' = [k \in DOMAIN objects \ (S \ Named(cached[p])) |-> objects[k]]
          /\ \/ /\ Goto(p, "forget")
                /\ flight' = [flight EXCEPT ![p] = [Nothing EXCEPT !.gone = S]]
                /\ UNCHANGED <<cached, mem, buffer, acked, mishaps>>
             \/ Retry(p)
  /\ UNCHANGED <<writerId, manifest, leasing, fenced, seq, snapSeq>>

\* And they are forgotten only after that.
WithoutGone(p) == [cached[p] EXCEPT !.gc = @ \ flight[p].gone]

Forget(p) ==
  /\ At(p, "forget") /\ (held[p] \/ flight[p].tried)
  /\ \/ /\ Commits(p, WithoutGone(p))
        /\ Goto(p, "idle") /\ flight' = [flight EXCEPT ![p] = Nothing]
        /\ UNCHANGED <<epoch, held, leased, mem, buffer, fenced, seq, snapSeq, acked, mishaps>>
     \/ CommitFails(p, WithoutGone(p))
  /\ UNCHANGED <<writerId, objects, lease, lapsed>>

-----------------------------------------------------------------------------
Step(p) ==
  \/ Load(p) \/ Acquire(p) \/ AcquireFails(p) \/ Refused(p)
  \/ PutSegment(p) \/ CommitSegment(p)
  \/ PutSnapshot(p) \/ SwapManifest(p) \/ Collect(p) \/ Forget(p)

Next ==
  \/ \E p \in Procs : Boot(p) \/ Step(p) \/ Lapse(p) \/ Renew(p) \/ Crash(p) \/ Close(p)
  \/ \E p \in Procs, r \in Records : Submit(p, r)
  \/ Expire

Spec == Init /\ [][Next]_vars

\* The loop of a process that runs goes on, and the store answers in time.
FairSpec == Spec /\ \A p \in Procs : WF_vars(Step(p))

-----------------------------------------------------------------------------
(* Properties.                                                             *)

\* What the manifest names is there: objects are PUT before they are named and
\* deleted only when no longer named (index.ts:492-506).  A missing one stops
\* every later boot (index.ts:270-280).
NamedExists == Named(manifest) \subseteq DOMAIN objects

\* Segments and snapshots are write-once: no process, however long it has been
\* cut off, PUTs another body under a name in use (wal.ts:426-440).
WriteOnce ==
  [][\A k \in DOMAIN objects \cap DOMAIN objects' : objects'[k] = objects[k]]_vars

\* A process whose next commit would be taken has in memory all that is stored,
\* so that neither a row it writes nor a snapshot it makes leaves a write out.
AuthoritativeMemory ==
  \A p \in Procs : Up(p) /\ Unchanged(p) => Replayed(manifest) \subseteq mem[p]

\* An acknowledged write survives: a process that boots finds it.
AckedIsStored == acked \subseteq Replayed(manifest)

\* The store is durable in the sense of DurableStore: a write is acknowledged
\* only when the manifest stands for it, and none that is ever leaves it.  One
\* that is not may: a snapshot is of a memory ahead of what was flushed
\* (index.ts:404-420), and the segment of an earlier write that waited then
\* leaves the row without it.
Durable == INSTANCE DurableStore WITH stored <- Replayed(manifest)
ImplementsDurable == Durable!Spec

\* No write waits for ever: it is acknowledged, or rejected with its writer
\* (wal.ts:499-533).
EventuallySettled == \A p \in Procs : []<>(buffer[p] = << >>)

\* A room survives in what the manifest names, and the process that may commit
\* to it has all of it in memory, each as stated above.
RoomIsKept == TypeOK /\ NamedExists /\ AuthoritativeMemory
=============================================================================
