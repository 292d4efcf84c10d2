------------------------- MODULE ObjectStorageProofs -------------------------
(***************************************************************************)
(* Theorems about ObjectStorage, for any number of processes, writer ids   *)
(* and writes, provided no two processes of one writer id run at a time    *)
(* (~Overlap) and the driver never reports as failed a PUT of the manifest *)
(* that took effect (~GivesUp): the run ObjAdopt shows what is lost if not.*)
(*                                                                         *)
(* Every step of a process is one of a few kinds (Kinds), by what it does  *)
(* to the manifest and the objects; the parts of the invariant that are    *)
(* not about the lease are shown for each kind.                            *)
(***************************************************************************)
EXTENDS ObjectStorage, SequenceTheorems, TLAPS

-----------------------------------------------------------------------------
(* The inductive invariant.                                                *)

Runs(p) == pc[p] \notin {"down", "stopped"}

\* No two processes of a writer id run, and one that is not up has nothing.
Bare(p) == /\ mem[p] = {} /\ buffer[p] = << >> /\ flight[p] = Nothing
           /\ ~held[p] /\ ~leased[p] /\ ~fenced[p]

Sole ==
  \A p \in Procs :
    /\ \A q \in Procs : Runs(p) /\ Runs(q) /\ writerId[p] = writerId[q] => p = q
    /\ ~Up(p) => Bare(p)

\* An epoch is that of one process, which had the lease: who may PUT has taken it.
Busy == {"put", "commit", "compact", "swap", "collect", "forget"}

Leases ==
  \A p \in Procs :
    /\ held[p] \/ pc[p] \in Busy => leased[p]
    /\ leased[p] =>
         /\ epoch[p] <= lease.epoch
         /\ \A q \in Procs : leased[q] /\ epoch[q] = epoch[p] => q = p
         /\ epoch[p] = lease.epoch => lease.owner \in {writerId[p], Nobody}
         /\ lease.by = p => epoch[p] = lease.epoch

\* The names that are or were in use, as far as anyone can tell.
Listed(m) == Named(m) \cup m.gc

Known(k) ==
  \/ k \in DOMAIN objects \/ k \in Listed(manifest)
  \/ \E p \in Procs : Runs(p) /\ (k \in Listed(cached[p]) \/ k = flight[p].key)

\* The names of a process to come are new.
Fresh(p, k) ==
  k.epoch = epoch[p] =>
    IF k.kind = "wal" THEN seq[p].epoch = epoch[p] /\ k.n < seq[p].n ELSE k.n < snapSeq[p]

Names ==
  \A k \in Key : Known(k) =>
    /\ k.epoch <= lease.epoch
    /\ \A p \in Procs : leased[p] =>
         /\ Fresh(p, k)
         /\ lease.owner = writerId[p] /\ epoch[p] # lease.epoch => k.epoch # lease.epoch

\* What a process in flight is changing the manifest it knows to.
Target(p) ==
  IF pc[p] = "commit" THEN WithSegment(p)
  ELSE IF pc[p] = "swap" THEN WithSnapshot(p) ELSE WithoutGone(p)

\* An etag stands for one manifest.  One a process does not know and that bears its
\* name is of its own PUT, unanswered.
Etags ==
  \A p \in Procs : Runs(p) =>
    /\ cached[p].commitSeq <= manifest.commitSeq
    /\ Unchanged(p) => cached[p] = manifest
    /\ ~Unchanged(p) /\ manifest.lastWriter = writerId[p] =>
         flight[p].tried /\ manifest = Built(p, Target(p))
    /\ flight[p].tried => pc[p] \in {"commit", "swap", "forget"} /\ ~Unchanged(p)
    /\ pc[p] \in {"compact", "swap", "collect", "forget"} /\ Unchanged(p) =>
         manifest.lastWriter = writerId[p]

\* What the manifest names is there and on no list of what may go; an object on its
\* way into the manifest is there and on no list at all.
Lists ==
  /\ NamedExists
  /\ Named(manifest) \cap manifest.gc = {}
  /\ \A p \in Procs : Runs(p) =>
       /\ Named(manifest) \cap cached[p].gc = {}
       /\ flight[p].key # None <=> pc[p] \in {"commit", "swap"}
       /\ flight[p].key # None /\ ~flight[p].tried =>
            /\ flight[p].key \in DOMAIN objects
            /\ flight[p].key \notin Listed(manifest)
            /\ \A q \in Procs : Runs(q) => flight[p].key \notin Listed(cached[q])
       /\ flight[p].key # None =>
            \A q \in Procs : Runs(q) /\ flight[q].key = flight[p].key => q = p

\* Whose commit may be taken.
Current(p) == Unchanged(p) \/ manifest.lastWriter = writerId[p]

\* What such a process has in memory, in its buffer and on its way.
Content ==
  /\ acked \subseteq Replayed(manifest)
  /\ \A p \in Procs : Up(p) =>
       /\ \A i \in 1..Len(buffer[p]) :
            /\ buffer[p][i].row \subseteq mem[p]
            /\ \A j \in i..Len(buffer[p]) : buffer[p][i].id \in buffer[p][j].row
       /\ pc[p] = "commit" =>
            /\ flight[p].n \in 1..Len(buffer[p])
            /\ flight[p].key \in DOMAIN objects => objects[flight[p].key] = buffer[p][flight[p].n].row
       /\ pc[p] = "swap" /\ flight[p].key \in DOMAIN objects => objects[flight[p].key] \subseteq mem[p]
       /\ Current(p) =>
            /\ Replayed(manifest) \subseteq mem[p]
            /\ \A i \in 1..Len(buffer[p]) : acked \subseteq buffer[p][i].row
            /\ manifest.lastWriter # writerId[p] =>
                 \A i \in 1..Len(buffer[p]) : Replayed(manifest) \subseteq buffer[p][i].row
            /\ pc[p] = "swap" /\ flight[p].key \in DOMAIN objects => acked \subseteq objects[flight[p].key]

ObjIInv == TypeOK /\ Sole /\ Leases /\ Names /\ Etags /\ Lists /\ Content

-----------------------------------------------------------------------------
(* Every step keeps the types.                                             *)

Flights == [key : Key \cup {None}, n : Nat, gone : SUBSET Key, tried : BOOLEAN]

\* The first manifest is one, and nothing in flight is a flight.
LEMMA EmptyTyped == Empty \in Manifest /\ Nothing \in Flights
<1>1. << >> \in Seq(Key)
  OBVIOUS
<1> QED BY <1>1 DEF Empty, Manifest, Nothing, Flights

\* The names of a manifest are keys.
LEMMA NamedTyped ==
  ASSUME NEW m \in Manifest PROVE Named(m) \subseteq Key
<1>1. \A k \in DOMAIN m.segs : m.segs[k] \in Key
  BY DEF Manifest
<1>2. m.snap \in Key \cup {None}
  BY DEF Manifest
<1> QED BY <1>1, <1>2 DEF Named

\* The row a manifest stands for is a row, when what it names is there.
LEMMA ReplayedTyped ==
  ASSUME TypeOK, NEW m \in Manifest, Named(m) \subseteq DOMAIN objects PROVE Replayed(m) \in Row
<1>1. CASE m.segs # << >>
  <2>1. Len(m.segs) \in DOMAIN m.segs
    BY <1>1, EmptySeq DEF Manifest
  <2>2. m.segs[Len(m.segs)] \in Named(m)
    BY <2>1 DEF Named
  <2> QED BY <1>1, <2>2 DEF Replayed, TypeOK
<1>2. CASE m.segs = << >> /\ m.snap # None
  BY <1>2 DEF Replayed, Named, TypeOK
<1>3. CASE m.segs = << >> /\ m.snap = None
  BY <1>3 DEF Replayed, Row
<1> QED BY <1>1, <1>2, <1>3

\* What the manifest stands for is a set of records.
LEMMA StoredTyped == TypeOK /\ NamedExists => Replayed(manifest) \in Row
  BY ReplayedTyped DEF TypeOK, NamedExists

\* The types, variable by variable.
Writes == [id : Records, row : Row]

StoreTyped ==
  /\ manifest \in Manifest
  /\ DOMAIN objects \subseteq Key /\ \A k \in DOMAIN objects : objects[k] \in Row
  /\ lease \in [owner : Writers \cup {Nobody}, epoch : Nat, by : Procs \cup {Nobody}]
  /\ lapsed \in BOOLEAN
  /\ writerId \in WriterIds /\ writerId \in [Procs -> Writers]

LoopTyped ==
  /\ pc \in [Procs -> Stages] /\ cached \in [Procs -> Manifest] /\ mem \in [Procs -> Row]
  /\ buffer \in [Procs -> Seq(Writes)] /\ flight \in [Procs -> Flights]

TermTyped ==
  /\ epoch \in [Procs -> Nat] /\ seq \in [Procs -> [epoch : Nat, n : Nat]] /\ snapSeq \in [Procs -> Nat]
  /\ held \in [Procs -> BOOLEAN] /\ leased \in [Procs -> BOOLEAN] /\ fenced \in [Procs -> BOOLEAN]

AccountTyped == acked \in SUBSET Records /\ mishaps \in Nat

\* The types, taken apart by who changes what.
LEMMA TypesOf == TypeOK <=> StoreTyped /\ LoopTyped /\ TermTyped /\ AccountTyped
<1>1. TypeOK => writerId \in [Procs -> Writers]
  BY ObjectStorageAssumption DEF TypeOK
<1> QED BY <1>1 DEF TypeOK, StoreTyped, LoopTyped, TermTyped, AccountTyped, Flights, Writes

\* Who is gone leaves types alone.
LEMMA GoneTyped ==
  ASSUME LoopTyped, TermTyped, NEW p \in Procs, Gone(p) PROVE LoopTyped' /\ TermTyped'
<1>1. << >> \in Seq(Writes)
  OBVIOUS
<1>2. LoopTyped'
  BY <1>1, EmptyTyped DEF Gone, Goto, LoopTyped, Stages, Row
<1>3. TermTyped'
  BY DEF Gone, TermTyped
<1> QED BY <1>2, <1>3

\* So does one that begins again, for its own reasons or the store's.
LEMMA NotWriterTyped ==
  ASSUME LoopTyped, TermTyped, NEW p \in Procs, NotWriter(p) PROVE LoopTyped' /\ TermTyped'
<1>1. CASE Gone(p)
  BY <1>1, GoneTyped
<1>2. CASE ~Gone(p)
  <2>1. /\ Goto(p, "idle") /\ flight' = [flight EXCEPT ![p] = Nothing]
        /\ UNCHANGED <<epoch, held, leased, cached, mem, buffer, fenced, seq, snapSeq>>
    BY <1>2 DEF NotWriter
  <2>2. LoopTyped'
    BY <2>1, EmptyTyped DEF Goto, LoopTyped, Stages
  <2> QED BY <2>1, <2>2 DEF TermTyped
<1> QED BY <1>1, <1>2

\* A failed try, or the last one, keeps the types.
LEMMA RetryTyped ==
  ASSUME LoopTyped, AccountTyped, NEW p \in Procs, Retry(p) PROVE LoopTyped' /\ AccountTyped'
<1>1. LoopTyped'
  BY EmptyTyped DEF Retry, Goto, LoopTyped, Stages
<1> QED BY <1>1 DEF Retry, AccountTyped

\* A PUT of an object.
ObjectsTyped == DOMAIN objects \subseteq Key /\ \A k \in DOMAIN objects : objects[k] \in Row

\* So does an object that is put.
LEMMA PutTyped ==
  ASSUME ObjectsTyped, NEW k \in Key, NEW row \in Row, PutObject(k, row) PROVE ObjectsTyped'
  BY DEF ObjectsTyped, PutObject

\* So does a PUT, whatever becomes of it.
LEMMA PutsTyped ==
  ASSUME ObjectsTyped, LoopTyped, AccountTyped, NEW p \in Procs, NEW k \in Key, NEW row \in Row,
         NEW s \in Stages, NEW f \in Flights, Puts(p, k, row, s, f)
  PROVE  ObjectsTyped' /\ LoopTyped' /\ AccountTyped'
<1>1. CASE /\ PutObject(k, row) /\ Goto(p, s) /\ flight' = [flight EXCEPT ![p] = f]
           /\ UNCHANGED <<cached, mem, buffer, acked, mishaps>>
  <2>1. LoopTyped' /\ AccountTyped'
    BY <1>1 DEF LoopTyped, AccountTyped, Goto
  <2> QED BY <1>1, <2>1, PutTyped
<1>2. CASE PutObject(k, row) /\ Retry(p)
  BY <1>2, PutTyped, RetryTyped
<1>3. CASE UNCHANGED objects /\ Retry(p)
  BY <1>3, RetryTyped DEF ObjectsTyped
<1> QED BY <1>1, <1>2, <1>3 DEF Puts

\* What a process builds.
LEMMA BuiltTyped ==
  ASSUME StoreTyped, LoopTyped, TermTyped, NEW p \in Procs, NEW m \in Manifest
  PROVE  Built(p, m) \in Manifest
<1>1. cached[p] \in Manifest
  BY DEF LoopTyped
<1>2. cached[p].commitSeq + 1 \in Nat
  BY <1>1 DEF Manifest
<1>3. epoch[p] \in Nat /\ writerId[p] \in Writers \cup {Nobody}
  BY DEF StoreTyped, TermTyped
<1> QED BY <1>2, <1>3 DEF Built, Manifest

\* So does a manifest PUT that lands.
LEMMA CommitsTyped ==
  ASSUME StoreTyped, LoopTyped, TermTyped, NEW p \in Procs, NEW m \in Manifest, Commits(p, m)
  PROVE  manifest' \in Manifest /\ cached' \in [Procs -> Manifest]
<1>1. manifest' \in Manifest
  BY BuiltTyped DEF Commits, StoreTyped
<1>2. cached' = [cached EXCEPT ![p] = manifest']
  BY DEF Commits
<1> QED BY <1>1, <1>2 DEF LoopTyped

\* So does one that fails.
LEMMA CommitFailsTyped ==
  ASSUME StoreTyped, LoopTyped, TermTyped, AccountTyped, NEW p \in Procs, NEW m \in Manifest,
         CommitFails(p, m)
  PROVE  manifest' \in Manifest /\ LoopTyped' /\ TermTyped' /\ AccountTyped'
<1>1. CASE /\ Unchanged(p) /\ mishaps > 0 /\ mishaps' = mishaps - 1
           /\ manifest' = Built(p, m)
           /\ flight' = [flight EXCEPT ![p].tried = TRUE]
           /\ UNCHANGED <<pc, epoch, held, leased, cached, mem, buffer, fenced, seq, snapSeq, acked>>
  <2>1. manifest' \in Manifest
    BY <1>1, BuiltTyped
  <2> DEFINE f == [flight[p] EXCEPT !.tried = TRUE]
  <2>2. flight[p] \in Flights /\ f \in Flights
    BY DEF LoopTyped, Flights
  <2>3. flight' = [flight EXCEPT ![p] = f]
    BY <1>1 DEF LoopTyped
  <2> HIDE DEF f
  <2>4. LoopTyped' /\ TermTyped' /\ AccountTyped'
    <3>1. LoopTyped'
      BY <1>1, <2>2, <2>3 DEF LoopTyped
    <3>2. TermTyped'
      BY <1>1 DEF TermTyped
    <3>3. AccountTyped'
      BY <1>1 DEF AccountTyped
    <3> QED BY <3>1, <3>2, <3>3
  <2> QED BY <2>1, <2>4
<1>2. CASE Retry(p) /\ UNCHANGED <<manifest, epoch, held, leased, fenced, seq, snapSeq>>
  BY <1>2, RetryTyped DEF StoreTyped, TermTyped
<1>3. CASE Gone(p) /\ UNCHANGED <<manifest, acked, mishaps>>
  BY <1>3, GoneTyped DEF StoreTyped, AccountTyped
<1>4. CASE /\ Goto(p, "idle") /\ Fence(p) /\ flight' = [flight EXCEPT ![p] = Nothing]
           /\ UNCHANGED <<manifest, acked, mishaps, epoch, leased, cached, mem, buffer, seq, snapSeq>>
  <2>1. LoopTyped'
    BY <1>4, EmptyTyped DEF LoopTyped, Goto, Stages
  <2> QED BY <1>4, <2>1 DEF StoreTyped, TermTyped, AccountTyped, Fence
<1> QED BY <1>1, <1>2, <1>3, <1>4 DEF CommitFails

\* The manifests a process may try.
LEMMA TargetTyped ==
  ASSUME LoopTyped, NEW p \in Procs
  PROVE  /\ flight[p].key \in Key => WithSegment(p) \in Manifest /\ WithSnapshot(p) \in Manifest
         /\ WithoutGone(p) \in Manifest
<1>1. cached[p] \in Manifest
  BY DEF LoopTyped
<1>2. WithoutGone(p) \in Manifest
  BY <1>1 DEF WithoutGone, Manifest
<1>3. ASSUME flight[p].key \in Key PROVE WithSegment(p) \in Manifest
  <2>1. Append(cached[p].segs, flight[p].key) \in Seq(Key)
    BY <1>1, <1>3 DEF Manifest
  <2> QED BY <1>1, <2>1 DEF WithSegment, Manifest
<1>4. ASSUME flight[p].key \in Key PROVE WithSnapshot(p) \in Manifest
  <2>1. << >> \in Seq(Key) /\ cached[p].gc \cup Named(cached[p]) \in SUBSET Key
    BY <1>1, NamedTyped DEF Manifest
  <2> QED BY <1>1, <1>4, <2>1 DEF WithSnapshot, Manifest
<1> QED BY <1>2, <1>3, <1>4

\* The name of the segment, or of the snapshot, that comes next.
SegmentKey(p) == [kind |-> "wal", epoch |-> epoch[p], n |-> NextSeq(p)]
SnapshotKey(p) == [kind |-> "snap", epoch |-> epoch[p], n |-> snapSeq[p]]

\* The next names of a process are names.
LEMMA NextTyped ==
  ASSUME TermTyped, NEW p \in Procs
  PROVE  NextSeq(p) \in Nat /\ SegmentKey(p) \in Key /\ SnapshotKey(p) \in Key
<1>1. NextSeq(p) \in Nat
  BY DEF TermTyped, NextSeq
<1> QED BY <1>1 DEF TermTyped, SegmentKey, SnapshotKey, Key

\* The epoch a lease is taken with.
LEMMA EpochTyped ==
  ASSUME StoreTyped, TermTyped, NEW p \in Procs
  PROVE  NextEpoch(p) \in Nat
  BY DEF StoreTyped, TermTyped, NextEpoch

\* Every step keeps the types.
LEMMA TypeStep == TypeOK /\ Lists /\ Content /\ Next => TypeOK'
<1> SUFFICES ASSUME TypeOK, Lists, Content, Next PROVE TypeOK'
  OBVIOUS
<1>0. StoreTyped /\ LoopTyped /\ TermTyped /\ AccountTyped
  BY TypesOf
<1> DEFINE Kept == StoreTyped' /\ LoopTyped' /\ TermTyped' /\ AccountTyped'
<1> USE DEF store, leasing, loop
<1>1. ASSUME NEW p \in Procs, Boot(p) PROVE Kept
  <2>1. manifest.epoch \in Nat
    BY <1>0 DEF StoreTyped, Manifest
  <2> QED BY <1>0, <1>1, <2>1 DEF Boot, Goto, StoreTyped, LoopTyped, TermTyped, AccountTyped, Stages
<1>2. ASSUME NEW p \in Procs, Load(p) PROVE Kept
  <2>1. Named(cached[p]) \subseteq DOMAIN objects => Replayed(cached[p]) \in Row
    BY <1>0, ReplayedTyped DEF LoopTyped
  <2>2. LoopTyped'
    BY <1>0, <1>2, <2>1 DEF Load, Goto, LoopTyped, Stages
  <2> QED BY <1>0, <1>2, <2>2 DEF Load, StoreTyped, TermTyped, AccountTyped
<1>3. ASSUME NEW p \in Procs, NEW r \in Records, Submit(p, r) PROVE Kept
  <2>1. mem[p] \cup {r} \in Row /\ [id |-> r, row |-> mem[p] \cup {r}] \in Writes
    BY <1>0 DEF LoopTyped, Row, Writes
  <2>2. Append(buffer[p], [id |-> r, row |-> mem[p] \cup {r}]) \in Seq(Writes)
    BY <1>0, <2>1 DEF LoopTyped
  <2>3. LoopTyped'
    BY <1>0, <1>3, <2>1, <2>2 DEF Submit, LoopTyped
  <2> QED BY <1>0, <1>3, <2>3 DEF Submit, StoreTyped, TermTyped, AccountTyped
<1>4. ASSUME NEW p \in Procs, Crash(p) PROVE Kept
  BY <1>0, <1>4, GoneTyped DEF Crash, StoreTyped, AccountTyped
<1>5. ASSUME NEW p \in Procs, Close(p) PROVE Kept
  <2>1. Released(epoch[p]) \in [owner : Writers \cup {Nobody}, epoch : Nat, by : Procs \cup {Nobody}]
    BY <1>0 DEF Released, TermTyped
  <2> QED BY <1>0, <1>5, <2>1, GoneTyped DEF Close, StoreTyped, AccountTyped
<1>6. ASSUME NEW p \in Procs, Acquire(p) PROVE Kept
  <2>1. NextEpoch(p) \in Nat
    BY <1>0, EpochTyped
  <2>2. LoopTyped'
    BY <1>0, <1>6 DEF Acquire, Goto, LoopTyped, Stages
  <2>3. StoreTyped'
    BY <1>0, <1>6, <2>1 DEF Acquire, StoreTyped
  <2> QED BY <1>0, <1>6, <2>1, <2>2, <2>3 DEF Acquire, TermTyped, AccountTyped
<1>7. ASSUME NEW p \in Procs, AcquireFails(p) PROVE Kept
  <2>1. NextEpoch(p) \in Nat
    BY <1>0, EpochTyped
  <2>2. StoreTyped'
    <3>1. \/ UNCHANGED <<store, lease, lapsed>>
          \/ /\ lease' = [owner |-> writerId[p], epoch |-> NextEpoch(p), by |-> Nobody]
             /\ lapsed' = FALSE /\ UNCHANGED store
      BY <1>7 DEF AcquireFails
    <3>2. writerId' = writerId
      BY <1>7 DEF AcquireFails
    <3>3. writerId[p] \in Writers
      BY <1>0 DEF StoreTyped
    <3>4. /\ lease' \in [owner : Writers \cup {Nobody}, epoch : Nat, by : Procs \cup {Nobody}]
          /\ lapsed' \in BOOLEAN /\ UNCHANGED <<manifest, objects>>
      <4>1. [owner |-> writerId[p], epoch |-> NextEpoch(p), by |-> Nobody]
              \in [owner : Writers \cup {Nobody}, epoch : Nat, by : Procs \cup {Nobody}]
        BY <2>1, <3>3
      <4> QED BY <1>0, <3>1, <4>1 DEF StoreTyped
    <3> QED BY <1>0, <3>2, <3>4 DEF StoreTyped
  <2>3. CASE Retry(p) /\ UNCHANGED <<epoch, held, leased, fenced, seq, snapSeq>>
    BY <1>0, <2>2, <2>3, RetryTyped DEF TermTyped
  <2>4. CASE NotWriter(p) /\ mishaps > 0 /\ mishaps' = mishaps - 1 /\ UNCHANGED acked
    BY <1>0, <2>2, <2>4, NotWriterTyped DEF AccountTyped
  <2> QED BY <1>7, <2>3, <2>4 DEF AcquireFails
<1>8. ASSUME NEW p \in Procs, Refused(p) PROVE Kept
  BY <1>0, <1>8, NotWriterTyped DEF Refused, StoreTyped, AccountTyped
<1>9. ASSUME NEW p \in Procs, Lapse(p) PROVE Kept
  BY <1>0, <1>9 DEF Lapse, StoreTyped, LoopTyped, TermTyped, AccountTyped
<1>10. ASSUME NEW p \in Procs, Renew(p) PROVE Kept
  <2>1. TermTyped'
    BY <1>0, <1>10 DEF Renew, Fence, TermTyped
  <2>2. StoreTyped'
    BY <1>0, <1>10 DEF Renew, StoreTyped
  <2>3. AccountTyped'
    BY <1>0, <1>10 DEF Renew, AccountTyped
  <2> QED BY <1>0, <1>10, <2>1, <2>2, <2>3 DEF Renew, LoopTyped
<1>11. ASSUME NEW p \in Procs, PutSegment(p) PROVE Kept
  <2>1. PICK n \in 1..Len(buffer[p]) :
          Puts(p, SegmentKey(p), buffer[p][n].row, "commit", [Nothing EXCEPT !.key = SegmentKey(p), !.n = n])
    BY <1>11 DEF PutSegment, SegmentKey
  <2>2. SegmentKey(p) \in Key /\ NextSeq(p) \in Nat /\ NextSeq(p) + 1 \in Nat
    BY <1>0, NextTyped
  <2>3. buffer[p] \in Seq(Writes)
    BY <1>0 DEF LoopTyped
  <2>4. buffer[p][n].row \in Row /\ n \in Nat
    <3>1. buffer[p][n] \in Writes
      BY <2>3
    <3> QED BY <3>1 DEF Writes
  <2>5. [Nothing EXCEPT !.key = SegmentKey(p), !.n = n] \in Flights
    BY <2>2, <2>4 DEF Nothing, Flights
  <2>6. ObjectsTyped' /\ LoopTyped' /\ AccountTyped'
    BY <1>0, <2>1, <2>2, <2>4, <2>5, PutsTyped DEF StoreTyped, ObjectsTyped, Stages
  <2>7. TermTyped'
    BY <1>0, <1>11, <2>2 DEF PutSegment, TermTyped
  <2> QED BY <1>0, <1>11, <2>6, <2>7 DEF PutSegment, StoreTyped, ObjectsTyped
<1>12. ASSUME NEW p \in Procs, PutSnapshot(p) PROVE Kept
  <2>1. Puts(p, SnapshotKey(p), mem[p], "swap", [Nothing EXCEPT !.key = SnapshotKey(p)])
    BY <1>12 DEF PutSnapshot, SnapshotKey
  <2>2. SnapshotKey(p) \in Key
    BY <1>0, NextTyped
  <2>3. [Nothing EXCEPT !.key = SnapshotKey(p)] \in Flights
    BY <2>2 DEF Nothing, Flights
  <2>4. ObjectsTyped' /\ LoopTyped' /\ AccountTyped'
    BY <1>0, <2>1, <2>2, <2>3, PutsTyped DEF StoreTyped, LoopTyped, ObjectsTyped, Stages
  <2>5. TermTyped'
    BY <1>0, <1>12 DEF PutSnapshot, TermTyped
  <2> QED BY <1>0, <1>12, <2>4, <2>5 DEF PutSnapshot, StoreTyped, ObjectsTyped
<1>13. ASSUME NEW p \in Procs, CommitSegment(p) PROVE Kept
  <2>1. flight[p].key \in Key /\ flight[p] \in Flights
    BY <1>0, <1>13 DEF CommitSegment, At, Lists, Runs, LoopTyped, Flights
  <2>2. WithSegment(p) \in Manifest
    BY <1>0, <2>1, TargetTyped
  <2>3. CASE CommitFails(p, WithSegment(p))
    BY <1>0, <1>13, <2>2, <2>3, CommitFailsTyped DEF CommitSegment, StoreTyped
  <2>4. CASE /\ Commits(p, WithSegment(p)) /\ AckBatch(p)
             /\ Goto(p, "compact") /\ flight' = [flight EXCEPT ![p] = Nothing]
             /\ UNCHANGED <<epoch, held, leased, mem, fenced, seq, snapSeq, mishaps>>
    <3>1. buffer[p] \in Seq(Writes) /\ flight[p].n \in Nat
      BY <1>0, <2>1 DEF LoopTyped, Flights
    <3>2. SubSeq(buffer[p], flight[p].n + 1, Len(buffer[p])) \in Seq(Writes)
      BY <3>1
    <3>3. manifest' \in Manifest /\ cached' \in [Procs -> Manifest]
      BY <1>0, <2>2, <2>4, CommitsTyped
    <3>4. LoopTyped'
      BY <1>0, <2>4, <3>2, <3>3, EmptyTyped DEF AckBatch, Goto, LoopTyped, Stages
    <3>5. flight[p].n \in 1..Len(buffer[p])
      BY <1>13 DEF CommitSegment, At, Content, Up
    <3>6. \A k \in 1..flight[p].n : buffer[p][k] \in Writes
      BY <3>1, <3>5
    <3>7. AccountTyped'
      BY <1>0, <2>4, <3>6 DEF AckBatch, AccountTyped, Writes
    <3>8. TermTyped'
      BY <1>0, <2>4 DEF TermTyped
    <3>9. StoreTyped'
      BY <1>0, <1>13, <3>3 DEF CommitSegment, StoreTyped
    <3> QED BY <3>4, <3>7, <3>8, <3>9
  <2> QED BY <1>13, <2>3, <2>4 DEF CommitSegment
<1>14. ASSUME NEW p \in Procs, SwapManifest(p) PROVE Kept
  <2>1. flight[p].key \in Key /\ flight[p] \in Flights
    BY <1>0, <1>14 DEF SwapManifest, At, Lists, Runs, LoopTyped, Flights
  <2>2. WithSnapshot(p) \in Manifest
    BY <1>0, <2>1, TargetTyped
  <2>3. CASE CommitFails(p, WithSnapshot(p))
    BY <1>0, <1>14, <2>2, <2>3, CommitFailsTyped DEF SwapManifest, StoreTyped
  <2>4. CASE /\ Commits(p, WithSnapshot(p))
             /\ Goto(p, "collect") /\ flight' = [flight EXCEPT ![p] = Nothing]
             /\ UNCHANGED <<epoch, held, leased, mem, buffer, fenced, seq, snapSeq, acked, mishaps>>
    <3>1. manifest' \in Manifest /\ cached' \in [Procs -> Manifest]
      BY <1>0, <2>2, <2>4, CommitsTyped
    <3>2. LoopTyped'
      BY <1>0, <2>4, <3>1, EmptyTyped DEF Goto, LoopTyped, Stages
    <3> QED BY <1>0, <1>14, <2>4, <3>1, <3>2 DEF SwapManifest, StoreTyped, TermTyped, AccountTyped
  <2> QED BY <1>14, <2>3, <2>4 DEF SwapManifest
<1>15. ASSUME NEW p \in Procs, Forget(p) PROVE Kept
  <2>1. WithoutGone(p) \in Manifest
    BY <1>0, TargetTyped
  <2>2. CASE CommitFails(p, WithoutGone(p))
    BY <1>0, <1>15, <2>1, <2>2, CommitFailsTyped DEF Forget, StoreTyped
  <2>3. CASE /\ Commits(p, WithoutGone(p))
             /\ Goto(p, "idle") /\ flight' = [flight EXCEPT ![p] = Nothing]
             /\ UNCHANGED <<epoch, held, leased, mem, buffer, fenced, seq, snapSeq, acked, mishaps>>
    <3>1. manifest' \in Manifest /\ cached' \in [Procs -> Manifest]
      BY <1>0, <2>1, <2>3, CommitsTyped
    <3>2. LoopTyped'
      BY <1>0, <2>3, <3>1, EmptyTyped DEF Goto, LoopTyped, Stages
    <3> QED BY <1>0, <1>15, <2>3, <3>1, <3>2 DEF Forget, StoreTyped, TermTyped, AccountTyped
  <2> QED BY <1>15, <2>2, <2>3 DEF Forget
<1>16. ASSUME NEW p \in Procs, Collect(p) PROVE Kept
  <2>1. PICK S \in SUBSET cached[p].gc :
       \/ /\ S = {} /\ Goto(p, "idle")
          /\ UNCHANGED <<objects, flight, cached, mem, buffer, acked, mishaps>>
       \/ /\ S # {}
          /\ objects' = [k \in DOMAIN objects \ (S \ Named(cached[p])) |-> objects[k]]
          /\ \/ /\ Goto(p, "forget")
                /\ flight' = [flight EXCEPT ![p] = [Nothing EXCEPT !.gone = S]]
                /\ UNCHANGED <<cached, mem, buffer, acked, mishaps>>
             \/ Retry(p)
    BY <1>16 DEF Collect
  <2>2. cached[p] \in Manifest /\ S \subseteq Key
    BY <1>0 DEF LoopTyped, Manifest
  <2>3. [Nothing EXCEPT !.gone = S] \in Flights
    BY <2>2 DEF Nothing, Flights
  <2>4. ObjectsTyped'
    BY <1>0, <2>1 DEF StoreTyped, ObjectsTyped
  <2>5. StoreTyped' /\ TermTyped'
    BY <1>0, <1>16, <2>4 DEF Collect, StoreTyped, ObjectsTyped, TermTyped
  <2>6. CASE Retry(p)
    BY <1>0, <2>5, <2>6, RetryTyped
  <2>7. CASE ~Retry(p)
    <3>1. LoopTyped'
      BY <1>0, <2>1, <2>3, <2>7 DEF LoopTyped, Goto, Stages
    <3>2. AccountTyped'
      BY <1>0, <2>1, <2>7 DEF AccountTyped
    <3> QED BY <2>5, <3>1, <3>2
  <2> QED BY <2>6, <2>7
<1>17. ASSUME Expire PROVE Kept
  <2>1. StoreTyped'
    BY <1>0, <1>17 DEF Expire, StoreTyped
  <2>2. LoopTyped'
    BY <1>0, <1>17 DEF Expire, LoopTyped
  <2>3. TermTyped' /\ AccountTyped'
    BY <1>0, <1>17 DEF Expire, TermTyped, AccountTyped
  <2> QED BY <2>1, <2>2, <2>3
<1> HIDE DEF Kept
<1>18. Kept
  BY <1>1, <1>2, <1>3, <1>4, <1>5, <1>6, <1>7, <1>8, <1>9, <1>10, <1>11, <1>12, <1>13, <1>14, <1>15,
     <1>16, <1>17 DEF Next, Step
<1>19. StoreTyped' /\ LoopTyped' /\ TermTyped' /\ AccountTyped'
  BY <1>18 DEF Kept
<1> QED BY <1>19, TypesOf, PTL

-----------------------------------------------------------------------------
(* A step is of one process and leaves the others alone.                   *)

Acts(p) ==
  \/ Boot(p) \/ Step(p) \/ Lapse(p) \/ Renew(p) \/ Crash(p) \/ Close(p)
  \/ \E r \in Records : Submit(p, r)

Alone(p) ==
  /\ writerId' = writerId
  /\ \A q \in Procs : q # p =>
       /\ pc'[q] = pc[q] /\ cached'[q] = cached[q] /\ mem'[q] = mem[q] /\ buffer'[q] = buffer[q]
       /\ flight'[q] = flight[q]
       /\ epoch'[q] = epoch[q] /\ seq'[q] = seq[q] /\ snapSeq'[q] = snapSeq[q]
       /\ held'[q] = held[q] /\ leased'[q] = leased[q] /\ fenced'[q] = fenced[q]

\* What of a process a manifest commit that fails, or anything but its buffers, may change.
LEMMA GoneAlone ==
  ASSUME LoopTyped, TermTyped, NEW p \in Procs, Gone(p), writerId' = writerId PROVE Alone(p)
  BY DEF Gone, Goto, Alone, LoopTyped, TermTyped

\* Finding out that one is not the writer any more concerns nobody else.
LEMMA NotWriterAlone ==
  ASSUME LoopTyped, TermTyped, NEW p \in Procs, NotWriter(p), writerId' = writerId PROVE Alone(p)
<1>1. CASE Gone(p)
  BY <1>1, GoneAlone
<1>2. CASE ~Gone(p)
  BY <1>2 DEF NotWriter, Goto, Alone, LoopTyped, TermTyped
<1> QED BY <1>1, <1>2

\* Nor does trying again.
LEMMA RetryAlone ==
  ASSUME LoopTyped, TermTyped, NEW p \in Procs, Retry(p), writerId' = writerId,
         UNCHANGED <<epoch, held, leased, fenced>>,
         \A q \in Procs : q # p => seq'[q] = seq[q] /\ snapSeq'[q] = snapSeq[q]
  PROVE  Alone(p)
  BY DEF Retry, Goto, Alone, LoopTyped, TermTyped

\* Nor does an object PUT.
LEMMA PutsAlone ==
  ASSUME LoopTyped, TermTyped, NEW p \in Procs, NEW k, NEW row, NEW s, NEW f, Puts(p, k, row, s, f),
         writerId' = writerId, UNCHANGED <<epoch, held, leased, fenced>>,
         \A q \in Procs : q # p => seq'[q] = seq[q] /\ snapSeq'[q] = snapSeq[q]
  PROVE  Alone(p)
<1>1. CASE Retry(p)
  BY <1>1, RetryAlone
<1>2. CASE ~Retry(p)
  BY <1>2 DEF Puts, Goto, Alone, LoopTyped, TermTyped
<1> QED BY <1>1, <1>2

\* Nor does a manifest PUT that fails.
LEMMA CommitFailsAlone ==
  ASSUME LoopTyped, TermTyped, NEW p \in Procs, NEW m, CommitFails(p, m), writerId' = writerId
  PROVE  Alone(p)
<1>1. CASE /\ flight' = [flight EXCEPT ![p].tried = TRUE]
           /\ UNCHANGED <<pc, epoch, held, leased, cached, mem, buffer, fenced, seq, snapSeq, acked>>
  BY <1>1 DEF Alone, LoopTyped
<1>2. CASE Retry(p) /\ UNCHANGED <<manifest, epoch, held, leased, fenced, seq, snapSeq>>
  BY <1>2, RetryAlone
<1>3. CASE Gone(p)
  BY <1>3, GoneAlone
<1>4. CASE /\ Goto(p, "idle") /\ Fence(p) /\ flight' = [flight EXCEPT ![p] = Nothing]
           /\ UNCHANGED <<epoch, leased, cached, mem, buffer, seq, snapSeq>>
  BY <1>4 DEF Goto, Fence, Alone, LoopTyped, TermTyped
<1> QED BY <1>1, <1>2, <1>3, <1>4 DEF CommitFails

\* No step of a process touches another's memory.
LEMMA ActsAlone ==
  ASSUME TypeOK, NEW p \in Procs, Acts(p) PROVE Alone(p)
<1>0. LoopTyped /\ TermTyped
  BY TypesOf
<1> USE <1>0 DEF leasing, loop
<1>1. CASE Boot(p) \/ Load(p)
  BY <1>1 DEF Boot, Load, Goto, Alone, LoopTyped, TermTyped
<1>2. CASE Lapse(p) \/ Acquire(p)
  BY <1>2 DEF Lapse, Acquire, Goto, Alone, LoopTyped, TermTyped
<1>3. CASE Renew(p)
  BY <1>3 DEF Renew, Fence, Alone, LoopTyped, TermTyped
<1>4. CASE Crash(p) \/ Close(p)
  BY <1>4, GoneAlone DEF Crash, Close
<1>5. ASSUME NEW r \in Records, Submit(p, r) PROVE Alone(p)
  BY <1>5 DEF Submit, Alone, LoopTyped
<1>6. CASE AcquireFails(p)
  <2>1. writerId' = writerId
    BY <1>6 DEF AcquireFails
  <2>2. CASE NotWriter(p)
    BY <2>1, <2>2, NotWriterAlone
  <2>3. CASE Retry(p) /\ UNCHANGED <<epoch, held, leased, fenced, seq, snapSeq>>
    BY <2>1, <2>3, RetryAlone
  <2> QED BY <1>6, <2>2, <2>3 DEF AcquireFails
<1>7. CASE Refused(p)
  BY <1>7, NotWriterAlone DEF Refused
<1>8. CASE PutSegment(p)
  <2>1. PICK n \in 1..Len(buffer[p]) :
          Puts(p, SegmentKey(p), buffer[p][n].row, "commit", [Nothing EXCEPT !.key = SegmentKey(p), !.n = n])
    BY <1>8 DEF PutSegment, SegmentKey
  <2>2. \A q \in Procs : q # p => seq'[q] = seq[q] /\ snapSeq'[q] = snapSeq[q]
    BY <1>8 DEF PutSegment, TermTyped
  <2> QED BY <1>8, <2>1, <2>2, PutsAlone DEF PutSegment
<1>9. CASE PutSnapshot(p)
  <2>1. Puts(p, SnapshotKey(p), mem[p], "swap", [Nothing EXCEPT !.key = SnapshotKey(p)])
    BY <1>9 DEF PutSnapshot, SnapshotKey
  <2>2. \A q \in Procs : q # p => seq'[q] = seq[q] /\ snapSeq'[q] = snapSeq[q]
    BY <1>9 DEF PutSnapshot, TermTyped
  <2> QED BY <1>9, <2>1, <2>2, PutsAlone DEF PutSnapshot
<1>10. CASE CommitSegment(p)
  <2>1. CASE CommitFails(p, WithSegment(p))
    BY <1>10, <2>1, CommitFailsAlone DEF CommitSegment
  <2>2. CASE ~CommitFails(p, WithSegment(p))
    BY <1>10, <2>2 DEF CommitSegment, Commits, AckBatch, Goto, Alone, LoopTyped, TermTyped
  <2> QED BY <2>1, <2>2
<1>11. CASE SwapManifest(p)
  <2>1. CASE CommitFails(p, WithSnapshot(p))
    BY <1>11, <2>1, CommitFailsAlone DEF SwapManifest
  <2>2. CASE ~CommitFails(p, WithSnapshot(p))
    BY <1>11, <2>2 DEF SwapManifest, Commits, Goto, Alone, LoopTyped, TermTyped
  <2> QED BY <2>1, <2>2
<1>12. CASE Forget(p)
  <2>1. CASE CommitFails(p, WithoutGone(p))
    BY <1>12, <2>1, CommitFailsAlone DEF Forget
  <2>2. CASE ~CommitFails(p, WithoutGone(p))
    BY <1>12, <2>2 DEF Forget, Commits, Goto, Alone, LoopTyped, TermTyped
  <2> QED BY <2>1, <2>2
<1>13. CASE Collect(p)
  <2>1. CASE Retry(p)
    BY <1>13, <2>1, RetryAlone DEF Collect
  <2>2. CASE ~Retry(p)
    BY <1>13, <2>2 DEF Collect, Goto, Alone, LoopTyped, TermTyped
  <2> QED BY <2>1, <2>2
<1> QED BY <1>1, <1>2, <1>3, <1>4, <1>5, <1>6, <1>7, <1>8, <1>9, <1>10, <1>11, <1>12, <1>13 DEF Acts, Step

\* Every step is a lease that expires or the step of one process.
LEMMA NextActs == Next => Expire \/ \E p \in Procs : Acts(p)
  BY DEF Next, Acts

-----------------------------------------------------------------------------
(* One process of a writer id runs.                                        *)

\* Who is gone is bare.
LEMMA GoneBare ==
  ASSUME LoopTyped, TermTyped, NEW p \in Procs, Gone(p)
  PROVE  pc'[p] = "stopped" /\ Bare(p)'
  BY DEF Gone, Goto, LoopTyped, TermTyped, Bare

\* A process is up after a step of the loop, or gone.
Stays(p) == Up(p) /\ (Up(p)' \/ (pc'[p] = "stopped" /\ Bare(p)'))

\* A process that finds out it is not the writer stays up.
LEMMA NotWriterStays ==
  ASSUME LoopTyped, TermTyped, NEW p \in Procs, Up(p), NotWriter(p) PROVE Stays(p)
<1>1. CASE Gone(p)
  BY <1>1, GoneBare DEF Stays
<1>2. CASE ~Gone(p)
  BY <1>2 DEF NotWriter, Goto, Stays, Up, LoopTyped
<1> QED BY <1>1, <1>2

\* So does one that tries again.
LEMMA RetryStays ==
  ASSUME LoopTyped, NEW p \in Procs, Up(p), Retry(p) PROVE Stays(p)
  BY DEF Retry, Goto, Stays, Up, LoopTyped

\* So does one that puts an object.
LEMMA PutsStays ==
  ASSUME LoopTyped, NEW p \in Procs, Up(p), NEW k, NEW row, NEW s \in Busy, NEW f, Puts(p, k, row, s, f)
  PROVE  Stays(p)
  BY RetryStays DEF Puts, Goto, Stays, Up, LoopTyped, Busy

\* So does one whose manifest PUT fails.
LEMMA CommitFailsStays ==
  ASSUME LoopTyped, TermTyped, NEW p \in Procs, Up(p), NEW m, CommitFails(p, m) PROVE Stays(p)
<1>1. CASE UNCHANGED pc
  BY <1>1 DEF Stays, Up
<1>2. CASE Retry(p)
  BY <1>2, RetryStays
<1>3. CASE Gone(p)
  BY <1>3, GoneBare DEF Stays
<1>4. CASE Goto(p, "idle")
  BY <1>4 DEF Goto, Stays, Up, LoopTyped
<1> QED BY <1>1, <1>2, <1>3, <1>4 DEF CommitFails

\* The steps of a process that is up.
LEMMA ActsStays ==
  ASSUME TypeOK, NEW p \in Procs, Acts(p), ~Boot(p), ~Load(p), ~Crash(p) PROVE Stays(p)
<1>0. LoopTyped /\ TermTyped
  BY TypesOf
<1> USE <1>0
<1>1. CASE Acquire(p) \/ AcquireFails(p) \/ Refused(p)
  <2>1. Up(p)
    BY <1>1 DEF Acquire, AcquireFails, Refused, Wants, At, Up
  <2>2. Acquire(p) => Stays(p)
    BY <2>1 DEF Acquire, Goto, Stays, Up, LoopTyped
  <2> QED BY <1>1, <2>1, <2>2, RetryStays, NotWriterStays DEF AcquireFails, Refused
<1>2. CASE PutSegment(p)
  <2>1. Up(p) /\ "commit" \in Busy
    BY <1>2 DEF PutSegment, At, Up, Busy
  <2>2. PICK k, row, f : Puts(p, k, row, "commit", f)
    BY <1>2 DEF PutSegment
  <2> QED BY <2>1, <2>2, PutsStays
<1>3. CASE PutSnapshot(p)
  <2>1. Up(p) /\ "swap" \in Busy
    BY <1>3 DEF PutSnapshot, At, Up, Busy
  <2>2. PICK k, row, f : Puts(p, k, row, "swap", f)
    BY <1>3 DEF PutSnapshot
  <2> QED BY <2>1, <2>2, PutsStays
<1>4. CASE CommitSegment(p) \/ SwapManifest(p) \/ Forget(p)
  <2>1. Up(p)
    BY <1>4 DEF CommitSegment, SwapManifest, Forget, At, Up
  <2>2. CASE \E m : CommitFails(p, m)
    BY <2>1, <2>2, CommitFailsStays
  <2>3. CASE ~ \E m : CommitFails(p, m)
    BY <1>4, <2>1, <2>3 DEF CommitSegment, SwapManifest, Forget, Goto, Stays, Up, LoopTyped
  <2> QED BY <2>2, <2>3
<1>5. CASE Collect(p)
  <2>1. Up(p)
    BY <1>5 DEF Collect, At, Up
  <2>2. CASE Retry(p)
    BY <2>1, <2>2, RetryStays
  <2>3. CASE ~Retry(p)
    BY <1>5, <2>1, <2>3 DEF Collect, Goto, Stays, Up, LoopTyped
  <2> QED BY <2>2, <2>3
<1>6. CASE Lapse(p) \/ Renew(p)
  BY <1>6 DEF Lapse, Renew, loop, Stays, Up
<1>7. CASE Close(p)
  BY <1>7, GoneBare DEF Close, Stays
<1>8. ASSUME NEW r \in Records, Submit(p, r) PROVE Stays(p)
  BY <1>8 DEF Submit, Stays, Up
<1> QED BY <1>1, <1>2, <1>3, <1>4, <1>5, <1>6, <1>7, <1>8 DEF Acts, Step

\* What one step does to whether its process runs.
LEMMA ActsSole ==
  ASSUME ~Overlap, TypeOK, Sole, NEW p \in Procs, Acts(p)
  PROVE  /\ Runs(p)' => Runs(p) \/ \A q \in Procs \ {p} : writerId[q] = writerId[p] => ~Runs(q)
         /\ ~Up(p)' => Bare(p)'
<1>0. LoopTyped /\ TermTyped
  BY TypesOf
<1>1. CASE Boot(p)
  <2>1. pc[p] = "down" /\ pc'[p] = "load"
    BY <1>0, <1>1 DEF Boot, At, Goto, LoopTyped
  <2>2. Bare(p)'
    BY <1>1, <2>1 DEF Boot, Sole, Up, Bare
  <2> QED BY <1>1, <2>2 DEF Boot, Runs
<1>2. CASE Load(p)
  <2>1. pc[p] = "load" /\ pc'[p] \in {"idle", "down"}
    BY <1>0, <1>2 DEF Load, At, Goto, LoopTyped
  <2>2. pc'[p] = "down" => mem' = mem
    BY <1>0, <1>2 DEF Load, Goto, LoopTyped
  <2>3. pc'[p] = "down" => Bare(p)'
    BY <1>2, <2>1, <2>2 DEF Load, leasing, Sole, Up, Bare
  <2> QED BY <2>1, <2>3 DEF Runs, Up
<1>3. CASE Crash(p)
  BY <1>0, <1>3, GoneBare DEF Crash, Runs
<1>4. CASE ~Boot(p) /\ ~Load(p) /\ ~Crash(p)
  BY <1>4, ActsStays DEF Stays, Up, Runs
<1> QED BY <1>1, <1>2, <1>3, <1>4

\* Without overlap, one process runs under a writer id, and one that is down has nothing.
LEMMA SoleStep ==
  ASSUME ~Overlap, TypeOK, Sole, NEW p \in Procs, Acts(p) PROVE Sole'
<1>1. Alone(p)
  BY ActsAlone
<1>2. \A q \in Procs : q # p => (Runs(q)' <=> Runs(q)) /\ (Up(q)' <=> Up(q)) /\ (Bare(q)' <=> Bare(q))
  BY <1>1 DEF Alone, Runs, Up, Bare
<1> QED BY <1>1, <1>2, ActsSole DEF Sole, Alone

-----------------------------------------------------------------------------
(* An epoch is that of one process.                                        *)

\* The ways a step leaves the lease that do not give it to anyone who can know.
LeaseLeft(p) ==
  \/ lease' = lease
  \/ lease' = [owner |-> Nobody, epoch |-> lease.epoch, by |-> Nobody]
  \/ lease' = [owner |-> lease.owner, epoch |-> lease.epoch, by |-> Nobody]
  \/ lease' = [owner |-> writerId[p], epoch |-> NextEpoch(p), by |-> Nobody]

\* The ways it leaves what its process has of it.
TermLeft(p) ==
  /\ leased'[p] => leased[p] /\ epoch'[p] = epoch[p]
  /\ held'[p] \/ pc'[p] \in Busy => leased'[p]

\* A lease taken keeps its epoch if it is one's own, and has a new one otherwise.
LEMMA EpochTaken ==
  ASSUME TypeOK, Sole, Leases, NEW p \in Procs, Up(p)
  PROVE  /\ NextEpoch(p) \in Nat /\ lease.epoch \in Nat /\ lease.epoch <= NextEpoch(p)
         /\ NextEpoch(p) = lease.epoch => Ours(p)
         /\ \A q \in Procs : leased[q] /\ epoch[q] = NextEpoch(p) => q = p
<1>1. StoreTyped /\ TermTyped
  BY TypesOf
<1>2. lease.epoch \in Nat /\ epoch[p] \in Nat /\ writerId[p] \in Writers /\ writerId[p] # Nobody
  BY <1>1, ObjectStorageAssumption DEF StoreTyped, TermTyped
<1>3. CASE Ours(p)
  <2>1. NextEpoch(p) = lease.epoch /\ lease.owner = writerId[p] /\ leased[p]
    BY <1>3 DEF NextEpoch, Ours
  <2>2. ASSUME NEW q \in Procs, leased[q], epoch[q] = lease.epoch PROVE q = p
    <3>1. writerId[q] = writerId[p]
      BY <1>2, <2>1, <2>2 DEF Leases
    <3>2. Runs(p) /\ Runs(q)
      BY <2>1, <2>2 DEF Sole, Bare, Up, Runs
    <3> QED BY <3>1, <3>2 DEF Sole
  <2> QED BY <1>2, <1>3, <2>1, <2>2
<1>4. CASE ~Ours(p)
  <2>1. NextEpoch(p) \in Nat /\ lease.epoch < NextEpoch(p)
    BY <1>2, <1>4 DEF NextEpoch
  <2>2. \A q \in Procs : leased[q] => epoch[q] <= lease.epoch /\ epoch[q] \in Nat
    BY <1>1 DEF Leases, TermTyped
  <2> QED BY <1>2, <2>1, <2>2
<1> QED BY <1>3, <1>4

\* A step that gives no lease keeps the epochs.
LEMMA LeasesKept ==
  ASSUME TypeOK, Sole, Leases, NEW p \in Procs, Up(p) \/ lease' = lease, Alone(p), LeaseLeft(p), TermLeft(p)
  PROVE  Leases'
<1>0. StoreTyped /\ TermTyped
  BY TypesOf
<1>1. \A q \in Procs : leased'[q] => leased[q] /\ epoch'[q] = epoch[q] /\ epoch[q] \in Nat
  BY <1>0 DEF Alone, TermLeft, TermTyped
<1>2. \A q \in Procs : held'[q] \/ pc'[q] \in Busy => leased'[q]
  BY DEF Alone, TermLeft, Leases
<1>3. lease.epoch \in Nat /\ lease'.epoch \in Nat /\ lease.epoch <= lease'.epoch
  BY <1>0, EpochTaken DEF LeaseLeft, StoreTyped
<1>4. ASSUME NEW q \in Procs, leased'[q]
      PROVE  /\ epoch'[q] = lease'.epoch => lease'.owner \in {writerId[q], Nobody}
             /\ lease'.by = q => epoch'[q] = lease'.epoch
  <2>1. q # Nobody
    BY ObjectStorageAssumption
  <2>2. CASE lease' = [owner |-> writerId[p], epoch |-> NextEpoch(p), by |-> Nobody] /\ lease' # lease
    <3>1. epoch'[q] = NextEpoch(p) => q = p
      BY <1>1, <1>4, <2>2, EpochTaken
    <3> QED BY <2>1, <2>2, <3>1
  <2>3. CASE lease' \in {lease, [owner |-> Nobody, epoch |-> lease.epoch, by |-> Nobody],
                         [owner |-> lease.owner, epoch |-> lease.epoch, by |-> Nobody]}
    BY <1>1, <1>4, <2>1, <2>3 DEF Leases
  <2> QED BY <2>2, <2>3 DEF LeaseLeft
<1>5. \A q \in Procs : leased'[q] => epoch'[q] <= lease'.epoch
  BY <1>1, <1>3 DEF Leases
<1>6. \A q, r \in Procs : leased'[q] /\ leased'[r] /\ epoch'[q] = epoch'[r] => q = r
  BY <1>1 DEF Leases
<1> QED BY <1>2, <1>4, <1>5, <1>6 DEF Leases, Alone

\* Taking the lease does too.
LEMMA LeasesAcquire ==
  ASSUME TypeOK, Sole, Leases, NEW p \in Procs, Acquire(p) PROVE Leases'
<1>0. StoreTyped /\ TermTyped /\ LoopTyped
  BY TypesOf
<1>1. Up(p) /\ Alone(p)
  BY ActsAlone DEF Acquire, Wants, At, Up, Acts, Step
<1>2. /\ lease'.owner = writerId[p] /\ lease'.epoch = NextEpoch(p) /\ lease'.by = p
      /\ epoch'[p] = NextEpoch(p) /\ leased'[p]
  BY <1>0 DEF Acquire, TermTyped
<1>3. \A q \in Procs : q # p =>
        leased'[q] = leased[q] /\ epoch'[q] = epoch[q] /\ held'[q] = held[q] /\ pc'[q] = pc[q]
  BY <1>1 DEF Alone
<1>4. \A q \in Procs : epoch[q] \in Nat
  BY <1>0 DEF TermTyped
<1>5. ASSUME NEW q \in Procs, q # p, leased[q]
      PROVE  epoch[q] <= NextEpoch(p) /\ epoch[q] # NextEpoch(p)
  BY <1>1, <1>4, <1>5, EpochTaken DEF Leases
<1>6. NextEpoch(p) \in Nat
  BY <1>1, EpochTaken
<1>7. \A q \in Procs : leased'[q] =>
        /\ epoch'[q] <= lease'.epoch
        /\ epoch'[q] = lease'.epoch => lease'.owner \in {writerId[q], Nobody}
        /\ lease'.by = q => epoch'[q] = lease'.epoch
  BY <1>2, <1>3, <1>5, <1>6
<1>8. \A q, r \in Procs : leased'[q] /\ leased'[r] /\ epoch'[q] = epoch'[r] => q = r
  BY <1>2, <1>3, <1>5 DEF Leases
<1>9. \A q \in Procs : held'[q] \/ pc'[q] \in Busy => leased'[q]
  BY <1>2, <1>3 DEF Leases
<1> QED BY <1>1, <1>7, <1>8, <1>9 DEF Leases, Alone

\* What a step that is not taking the lease leaves of it.
LEMMA GoneTerm ==
  ASSUME LoopTyped, TermTyped, NEW p \in Procs, Gone(p) PROVE TermLeft(p)
  BY DEF Gone, Goto, TermLeft, LoopTyped, TermTyped, Busy

\* A process that goes back to waiting has at most the lease it had.
LEMMA IdleTerm ==
  ASSUME LoopTyped, TermTyped, NEW p \in Procs, Leases, Goto(p, "idle"), UNCHANGED <<epoch, leased>>,
         held'[p] => held[p]
  PROVE  TermLeft(p)
  BY DEF Goto, TermLeft, LoopTyped, Busy, Leases

\* A step leaves the lease as it is, or is that of who takes it or has it.
LEMMA ActsLeases ==
  ASSUME TypeOK, Sole, Leases, NEW p \in Procs, Acts(p), ~Acquire(p)
  PROVE  LeaseLeft(p) /\ TermLeft(p) /\ (Up(p) \/ lease' = lease)
<1>0. StoreTyped /\ LoopTyped /\ TermTyped
  BY TypesOf
<1> USE <1>0 DEF leasing
<1>1. CASE Boot(p) \/ Load(p)
  <2>1. ~Up(p) /\ UNCHANGED <<lease, held, leased>> /\ pc'[p] \in {"load", "idle", "down"}
    BY <1>1 DEF Boot, Load, At, Goto, Up, LoopTyped
  <2> QED BY <2>1 DEF LeaseLeft, TermLeft, Sole, Bare, Busy
<1>2. CASE Crash(p)
  BY <1>2, GoneTerm DEF Crash, LeaseLeft
<1>3. CASE Close(p)
  <2>1. lease' = lease \/ (lease.by = p /\ held[p] /\ lease' = Released(epoch[p]))
    BY <1>3 DEF Close
  <2>2. LeaseLeft(p)
    BY <2>1 DEF LeaseLeft, Released, Leases
  <2> QED BY <1>3, <2>2, GoneTerm DEF Close
<1>4. CASE AcquireFails(p)
  <2>1. LeaseLeft(p) /\ Up(p)
    BY <1>4 DEF AcquireFails, LeaseLeft, Wants, At, Up
  <2>2. CASE Gone(p)
    BY <2>1, <2>2, GoneTerm
  <2>3. CASE ~Gone(p)
    BY <1>4, <2>1, <2>3, IdleTerm DEF AcquireFails, Retry, NotWriter
  <2> QED BY <2>2, <2>3
<1>5. CASE Refused(p)
  <2>1. CASE Gone(p)
    BY <1>5, <2>1, GoneTerm DEF Refused, LeaseLeft
  <2>2. CASE ~Gone(p)
    BY <1>5, <2>2, IdleTerm DEF Refused, LeaseLeft, NotWriter
  <2> QED BY <2>1, <2>2
<1>6. CASE Lapse(p)
  BY <1>6 DEF Lapse, LeaseLeft, TermLeft, Leases, TermTyped
<1>7. CASE Renew(p)
  <2>1. TermLeft(p)
    BY <1>7 DEF Renew, Fence, TermLeft, Leases, TermTyped
  <2>2. LeaseLeft(p)
    BY <1>7 DEF Renew, LeaseLeft, StoreTyped
  <2> QED BY <1>7, <2>1, <2>2 DEF Renew
<1>8. CASE PutSegment(p) \/ PutSnapshot(p) \/ Collect(p)
  <2>1. UNCHANGED <<lease, epoch, held, leased>> /\ leased[p]
    BY <1>8 DEF PutSegment, PutSnapshot, Collect, At, Leases, Busy
  <2> QED BY <2>1 DEF LeaseLeft, TermLeft
<1>9. ASSUME NEW m, CommitFails(p, m), leased[p], UNCHANGED lease
      PROVE  LeaseLeft(p) /\ TermLeft(p) /\ (Up(p) \/ lease' = lease)
  <2>1. CASE Gone(p)
    BY <1>9, <2>1, GoneTerm DEF LeaseLeft
  <2>2. CASE ~Gone(p)
    BY <1>9, <2>2 DEF CommitFails, Retry, Fence, LeaseLeft, TermLeft, TermTyped
  <2> QED BY <2>1, <2>2
<1>10. CASE CommitSegment(p) \/ SwapManifest(p) \/ Forget(p)
  <2>1. UNCHANGED lease /\ leased[p]
    BY <1>10 DEF CommitSegment, SwapManifest, Forget, At, Leases, Busy
  <2>2. CASE \E m : CommitFails(p, m)
    BY <1>9, <2>1, <2>2
  <2>3. CASE ~ \E m : CommitFails(p, m)
    BY <1>10, <2>1, <2>3 DEF CommitSegment, SwapManifest, Forget, LeaseLeft, TermLeft
  <2> QED BY <2>2, <2>3
<1>11. ASSUME NEW r \in Records, Submit(p, r)
       PROVE  LeaseLeft(p) /\ TermLeft(p) /\ (Up(p) \/ lease' = lease)
  BY <1>11 DEF Submit, LeaseLeft, TermLeft, Leases
<1> QED BY <1>1, <1>2, <1>3, <1>4, <1>5, <1>6, <1>7, <1>8, <1>10, <1>11 DEF Acts, Step

\* Every step keeps an epoch that of one process, which had the lease.
LEMMA LeasesStep ==
  ASSUME TypeOK, Sole, Leases, NEW p \in Procs, Acts(p) PROVE Leases'
<1>1. CASE Acquire(p)
  BY <1>1, LeasesAcquire
<1>2. CASE ~Acquire(p)
  BY <1>2, ActsAlone, ActsLeases, LeasesKept
<1> QED BY <1>1, <1>2
-----------------------------------------------------------------------------
(* What a step does to the manifest, the objects and what its process      *)
(* makes of them, whatever it does to the lease.                           *)

Calm == UNCHANGED <<manifest, objects, acked>>
Keeps(p) == cached'[p] = cached[p] /\ mem'[p] = mem[p] /\ buffer'[p] = buffer[p]
Clear(p) == flight'[p].key = None /\ ~flight'[p].tried

\* Nothing, or the lease is taken for a flush.
Rests(p) ==
  /\ Calm /\ Keeps(p) /\ flight'[p] = flight[p]
  /\ pc'[p] = pc[p] \/ (pc[p] = "idle" /\ pc'[p] = "put")
  /\ flight[p].tried => epoch'[p] = epoch[p]

Submits(p) ==
  /\ Calm /\ Up(p) /\ cached'[p] = cached[p] /\ flight'[p] = flight[p] /\ pc'[p] = pc[p] /\ epoch'[p] = epoch[p]
  /\ \E r \in Records :
       /\ mem'[p] = mem[p] \cup {r}
       /\ buffer'[p] = Append(buffer[p], [id |-> r, row |-> mem[p] \cup {r}])

Boots(p) ==
  /\ Calm /\ pc[p] = "down" /\ pc'[p] = "load"
  /\ cached'[p] = manifest /\ flight'[p] = flight[p]

Loads(p) ==
  /\ Calm /\ pc[p] = "load" /\ pc'[p] \in {"idle", "down"}
  /\ cached'[p] = cached[p] /\ buffer'[p] = buffer[p] /\ flight'[p] = flight[p] /\ epoch'[p] = epoch[p]
  /\ pc'[p] = "idle" => mem'[p] = Replayed(cached[p])

\* The loop begins again.
Resets(p) ==
  /\ Calm /\ Up(p) /\ Keeps(p) /\ pc'[p] = "idle" /\ Clear(p)
  /\ flight[p].tried => manifest.lastWriter # writerId[p]

Vanishes(p) == Calm /\ pc'[p] = "stopped"

\* An object is PUT, under a name no one knows, and is in flight if that is known.
Flies(p, k, s, n) ==
  \/ pc'[p] = "idle" /\ Clear(p)
  \/ pc'[p] = s /\ flight'[p].key = k /\ flight'[p].n = n /\ ~flight'[p].tried

Saves(p) ==
  /\ UNCHANGED <<manifest, acked>> /\ Up(p) /\ Keeps(p) /\ pc[p] \in {"idle", "put", "compact"}
  /\ leased[p] /\ lease' = lease
  /\ \E k \in Key :
       /\ ~Known(k) /\ k.epoch = epoch[p] /\ Fresh(p, k)'
       /\ \/ \E n \in 1..Len(buffer[p]) : PutObject(k, buffer[p][n].row) /\ Flies(p, k, "commit", n)
          \/ PutObject(k, mem[p]) /\ Flies(p, k, "swap", 0) /\ pc[p] = "compact"

Deletes(p) ==
  /\ UNCHANGED <<manifest, acked>> /\ Keeps(p) /\ Clear(p)
  /\ pc[p] \in {"compact", "collect"} /\ pc'[p] \in {"idle", "forget"}
  /\ \E S \in SUBSET cached[p].gc : objects' = [k \in DOMAIN objects \ (S \ Named(cached[p])) |-> objects[k]]

\* A commit is made, or was made before, and the writes in it acknowledged.
Tells(p) ==
  /\ Clear(p) /\ mem'[p] = mem[p] /\ UNCHANGED objects
  /\ \/ /\ pc[p] = "commit" /\ pc'[p] = "compact"
        /\ acked' = acked \cup {buffer[p][k].id : k \in 1..flight[p].n}
        /\ buffer'[p] = SubSeq(buffer[p], flight[p].n + 1, Len(buffer[p]))
     \/ /\ pc[p] \in {"swap", "forget"} /\ pc'[p] \in {"collect", "idle"}
        /\ acked' = acked /\ buffer'[p] = buffer[p]

Answered(p) ==
  /\ Unchanged(p) /\ manifest' = Built(p, Target(p)) /\ cached'[p] = manifest'
  /\ Tells(p)

Adopts(p) ==
  /\ ~Unchanged(p) /\ manifest.lastWriter = writerId[p] /\ manifest' = manifest /\ cached'[p] = manifest
  /\ Tells(p)

\* A commit is made that is not answered.
Unanswered(p) ==
  /\ Unchanged(p) /\ manifest' = Built(p, Target(p)) /\ pc[p] \in {"commit", "swap", "forget"}
  /\ UNCHANGED <<objects, acked>> /\ Keeps(p) /\ pc'[p] = pc[p] /\ epoch'[p] = epoch[p]
  /\ flight'[p] = [flight[p] EXCEPT !.tried = TRUE]

Kinds(p) ==
  \/ Rests(p) \/ Submits(p) \/ Boots(p) \/ Loads(p) \/ Resets(p) \/ Vanishes(p)
  \/ Saves(p) \/ Deletes(p) \/ Answered(p) \/ Adopts(p) \/ Unanswered(p)

\* The next names of a process that has the lease are unknown.
LEMMA NextIsNew ==
  ASSUME TypeOK, Names, NEW p \in Procs, leased[p]
  PROVE  ~Known(SegmentKey(p)) /\ ~Known(SnapshotKey(p))
<1>1. TermTyped
  BY TypesOf
<1>2. SegmentKey(p) \in Key /\ SnapshotKey(p) \in Key
  BY <1>1, NextTyped
<1>3. ~Fresh(p, SegmentKey(p))
  BY <1>1 DEF Fresh, SegmentKey, NextSeq, TermTyped
<1>4. ~Fresh(p, SnapshotKey(p))
  BY <1>1 DEF Fresh, SnapshotKey, TermTyped
<1> QED BY <1>2, <1>3, <1>4 DEF Names

\* A process that goes takes its memory with it.
LEMMA GoneKind ==
  ASSUME LoopTyped, NEW p \in Procs, Gone(p), Calm PROVE Vanishes(p)
  BY DEF Gone, Goto, Vanishes, LoopTyped

\* The loop begins again in the same way everywhere.
LEMMA ResetKind ==
  ASSUME LoopTyped, NEW p \in Procs, Up(p), Calm, Goto(p, "idle"), flight' = [flight EXCEPT ![p] = Nothing],
         UNCHANGED <<cached, mem, buffer>>, flight[p].tried => manifest.lastWriter # writerId[p]
  PROVE  Resets(p)
  BY DEF Goto, Resets, Keeps, Clear, Nothing, LoopTyped

\* An object PUT lands under the name it was for, or leaves all as it was.
LEMMA PutsKind ==
  ASSUME LoopTyped, NEW p \in Procs, Up(p), Etags, NEW k \in Key, NEW row, NEW s \in Stages, NEW n \in Nat,
         NEW f, f.key = k, f.n = n, ~f.tried, Puts(p, k, row, s, f), UNCHANGED manifest,
         pc[p] \in {"idle", "put", "compact"}
  PROVE  Resets(p) \/ (PutObject(k, row) /\ Flies(p, k, s, n) /\ Keeps(p) /\ acked' = acked)
<1>1. ~flight[p].tried
  BY DEF Etags, Up, Runs
<1>2. CASE UNCHANGED objects /\ Retry(p)
  BY <1>1, <1>2, ResetKind DEF Retry, Calm
<1>3. CASE PutObject(k, row) /\ Retry(p)
  BY <1>3 DEF Retry, Goto, Flies, Keeps, Clear, Nothing, LoopTyped
<1>4. CASE /\ PutObject(k, row) /\ Goto(p, s) /\ flight' = [flight EXCEPT ![p] = f]
           /\ UNCHANGED <<cached, mem, buffer, acked, mishaps>>
  BY <1>4 DEF Goto, Flies, Keeps, LoopTyped
<1> QED BY <1>2, <1>3, <1>4 DEF Puts

\* What a manifest that was built says of who built it.
LEMMA BuiltFields ==
  ASSUME NEW p, NEW m, Built(p, m) \in Manifest
  PROVE  /\ Built(p, m).lastWriter = writerId[p] /\ Built(p, m).epoch = epoch[p]
         /\ Built(p, m).commitSeq = cached[p].commitSeq + 1
         /\ Built(p, m).segs = m.segs /\ Built(p, m).snap = m.snap /\ Built(p, m).gc = m.gc
  BY DEF Built, Manifest

\* A commit, and its failures.
LEMMA CommitsKind ==
  ASSUME LoopTyped, NEW p \in Procs, Commits(p, Target(p)), Tells(p)
  PROVE  Answered(p) \/ Adopts(p)
  BY DEF Commits, Own, Answered, Adopts, LoopTyped

\* A manifest PUT that fails without an answer is tried again, or the process gives all up.
LEMMA CommitFailsKind ==
  ASSUME ~GivesUp, TypeOK, Etags, NEW p \in Procs, pc[p] \in {"commit", "swap", "forget"},
         CommitFails(p, Target(p)), UNCHANGED objects
  PROVE  Unanswered(p) \/ Resets(p) \/ Vanishes(p)
<1>0. LoopTyped /\ TermTyped
  BY TypesOf
<1>1. Up(p) /\ Runs(p)
  BY DEF Up, Runs
<1>2. CASE /\ Unchanged(p) /\ manifest' = Built(p, Target(p))
           /\ flight' = [flight EXCEPT ![p].tried = TRUE]
           /\ UNCHANGED <<pc, epoch, held, leased, cached, mem, buffer, fenced, seq, snapSeq, acked>>
  BY <1>0, <1>2 DEF Unanswered, Keeps, LoopTyped
<1>3. CASE ~flight[p].tried /\ Retry(p) /\ UNCHANGED manifest
  BY <1>0, <1>1, <1>3, ResetKind DEF Retry, Calm
<1>4. CASE ~Unchanged(p) /\ ~Own(p) /\ UNCHANGED <<manifest, acked>>
  <2>1. manifest.lastWriter # writerId[p]
    BY <1>1, <1>4, BuiltFields DEF Etags, Own, TypeOK
  <2>2. CASE Gone(p)
    BY <1>0, <1>4, <2>2, GoneKind DEF Calm
  <2>3. CASE /\ Goto(p, "idle") /\ flight' = [flight EXCEPT ![p] = Nothing]
             /\ UNCHANGED <<epoch, leased, cached, mem, buffer, seq, snapSeq>>
    BY <1>0, <1>1, <1>4, <2>1, <2>3, ResetKind DEF Calm
  <2>4. CASE Retry(p)
    BY <1>0, <1>1, <1>4, <2>1, <2>4, ResetKind DEF Retry, Calm
  <2>5. CASE ~Retry(p)
    BY <1>4, <2>2, <2>3, <2>5 DEF CommitFails
  <2> QED BY <2>4, <2>5
<1> QED BY <1>2, <1>3, <1>4 DEF CommitFails

\* Every step of a process is of one of the kinds.
LEMMA ActsKinds ==
  ASSUME ~GivesUp, TypeOK, Sole, Leases, Names, Etags, Lists, NEW p \in Procs, Acts(p)
  PROVE  Kinds(p)
<1>0. StoreTyped /\ LoopTyped /\ TermTyped
  BY TypesOf
<1> USE <1>0 DEF store, leasing, loop
<1>1. CASE Boot(p)
  BY <1>1 DEF Boot, At, Goto, Kinds, Boots, Calm, LoopTyped
<1>2. CASE Load(p)
  BY <1>2 DEF Load, At, Goto, Kinds, Loads, Calm, LoopTyped
<1>3. CASE Crash(p) \/ Close(p)
  BY <1>3, GoneKind DEF Crash, Close, Kinds, Calm
<1>4. ASSUME NEW r \in Records, Submit(p, r) PROVE Kinds(p)
  BY <1>4 DEF Submit, Kinds, Submits, Calm, LoopTyped
<1>5. CASE Lapse(p) \/ Renew(p)
  BY <1>5 DEF Lapse, Renew, Kinds, Rests, Calm, Keeps
<1>6. CASE Acquire(p)
  <2>1. ~flight[p].tried
    BY <1>6 DEF Acquire, Wants, At, Etags, Runs
  <2> QED BY <1>6, <2>1 DEF Acquire, At, Goto, Kinds, Rests, Calm, Keeps, LoopTyped
<1>7. CASE AcquireFails(p) \/ Refused(p)
  <2>1. ~flight[p].tried /\ Up(p) /\ Calm
    BY <1>7 DEF AcquireFails, Refused, Retry, Wants, At, Etags, Runs, Up, Calm
  <2>2. CASE Gone(p)
    BY <2>1, <2>2, GoneKind DEF Kinds
  <2>3. CASE ~Gone(p)
    <3>1. Goto(p, "idle") /\ flight' = [flight EXCEPT ![p] = Nothing] /\ UNCHANGED <<cached, mem, buffer>>
      BY <1>7, <2>3 DEF AcquireFails, Refused, Retry, NotWriter
    <3> QED BY <2>1, <3>1, ResetKind DEF Kinds
  <2> QED BY <2>2, <2>3
<1>8. CASE PutSegment(p)
  <2>1. Up(p) /\ leased[p] /\ pc[p] \in {"idle", "put", "compact"} /\ UNCHANGED <<manifest, lease>>
    BY <1>8 DEF PutSegment, At, Up, Leases, Busy
  <2>2. PICK n \in 1..Len(buffer[p]) :
          Puts(p, SegmentKey(p), buffer[p][n].row, "commit", [Nothing EXCEPT !.key = SegmentKey(p), !.n = n])
    BY <1>8 DEF PutSegment, SegmentKey
  <2>3. SegmentKey(p) \in Key /\ ~Known(SegmentKey(p)) /\ n \in Nat /\ "commit" \in Stages
    BY <2>1, NextIsNew, NextTyped DEF Stages, LoopTyped
  <2>4. Resets(p) \/ (PutObject(SegmentKey(p), buffer[p][n].row) /\ Flies(p, SegmentKey(p), "commit", n)
                      /\ Keeps(p) /\ acked' = acked)
    <3> DEFINE f == [Nothing EXCEPT !.key = SegmentKey(p), !.n = n]
    <3>1. f.key = SegmentKey(p) /\ f.n = n /\ ~f.tried
      BY DEF Nothing
    <3>2. Puts(p, SegmentKey(p), buffer[p][n].row, "commit", f)
      BY <2>2
    <3> HIDE DEF f
    <3> QED BY <2>1, <2>3, <3>1, <3>2, PutsKind
  <2>5. PICK k \in Key : k = SegmentKey(p)
    BY <2>3
  <2>6. k.epoch = epoch[p] /\ Fresh(p, k)'
    BY <1>8, <2>5, NextTyped DEF PutSegment, SegmentKey, Fresh, TermTyped
  <2> QED BY <2>1, <2>3, <2>4, <2>5, <2>6 DEF Kinds, Saves
<1>9. CASE PutSnapshot(p)
  <2>1. Up(p) /\ leased[p] /\ pc[p] = "compact" /\ UNCHANGED <<manifest, lease>>
    BY <1>9 DEF PutSnapshot, At, Up, Leases, Busy
  <2>2. Puts(p, SnapshotKey(p), mem[p], "swap", [Nothing EXCEPT !.key = SnapshotKey(p)])
    BY <1>9 DEF PutSnapshot, SnapshotKey
  <2>3. SnapshotKey(p) \in Key /\ ~Known(SnapshotKey(p)) /\ "swap" \in Stages
    BY <2>1, NextIsNew, NextTyped DEF Stages
  <2>4. Resets(p) \/ (PutObject(SnapshotKey(p), mem[p]) /\ Flies(p, SnapshotKey(p), "swap", 0)
                      /\ Keeps(p) /\ acked' = acked)
    <3> DEFINE f == [Nothing EXCEPT !.key = SnapshotKey(p)]
    <3>1. f.key = SnapshotKey(p) /\ f.n = 0 /\ ~f.tried
      BY DEF Nothing
    <3>2. Puts(p, SnapshotKey(p), mem[p], "swap", f)
      BY <2>2
    <3> HIDE DEF f
    <3> QED BY <2>1, <2>3, <3>1, <3>2, PutsKind
  <2>5. PICK k \in Key : k = SnapshotKey(p)
    BY <2>3
  <2>6. k.epoch = epoch[p] /\ Fresh(p, k)'
    BY <1>9, <2>5 DEF PutSnapshot, SnapshotKey, Fresh, TermTyped
  <2> QED BY <2>1, <2>3, <2>4, <2>5, <2>6 DEF Kinds, Saves
<1>10. CASE CommitSegment(p)
  <2>1. pc[p] = "commit" /\ Target(p) = WithSegment(p) /\ UNCHANGED objects
    BY <1>10 DEF CommitSegment, At, Target
  <2>2. CASE CommitFails(p, WithSegment(p))
    BY <2>1, <2>2, CommitFailsKind DEF Kinds
  <2>3. CASE ~CommitFails(p, WithSegment(p))
    <3>1. Commits(p, Target(p))
      BY <1>10, <2>1, <2>3 DEF CommitSegment
    <3>2. Tells(p)
      BY <1>10, <2>1, <2>3 DEF CommitSegment, AckBatch, Goto, Tells, Clear, Nothing, LoopTyped
    <3> QED BY <3>1, <3>2, CommitsKind DEF Kinds
  <2> QED BY <2>2, <2>3
<1>11. CASE SwapManifest(p)
  <2>1. pc[p] = "swap" /\ Target(p) = WithSnapshot(p) /\ UNCHANGED objects
    BY <1>11 DEF SwapManifest, At, Target
  <2>2. CASE CommitFails(p, WithSnapshot(p))
    BY <2>1, <2>2, CommitFailsKind DEF Kinds
  <2>3. CASE ~CommitFails(p, WithSnapshot(p))
    <3>1. Commits(p, Target(p))
      BY <1>11, <2>1, <2>3 DEF SwapManifest
    <3>2. Tells(p)
      BY <1>11, <2>1, <2>3 DEF SwapManifest, Goto, Tells, Clear, Nothing, LoopTyped
    <3> QED BY <3>1, <3>2, CommitsKind DEF Kinds
  <2> QED BY <2>2, <2>3
<1>12. CASE Forget(p)
  <2>1. pc[p] = "forget" /\ Target(p) = WithoutGone(p) /\ UNCHANGED objects
    BY <1>12 DEF Forget, At, Target
  <2>2. CASE CommitFails(p, WithoutGone(p))
    BY <2>1, <2>2, CommitFailsKind DEF Kinds
  <2>3. CASE ~CommitFails(p, WithoutGone(p))
    <3>1. Commits(p, Target(p))
      BY <1>12, <2>1, <2>3 DEF Forget
    <3>2. Tells(p)
      BY <1>12, <2>1, <2>3 DEF Forget, Goto, Tells, Clear, Nothing, LoopTyped
    <3> QED BY <3>1, <3>2, CommitsKind DEF Kinds
  <2> QED BY <2>2, <2>3
<1>13. CASE Collect(p)
  <2>1. Runs(p) /\ pc[p] \in {"compact", "collect"} /\ UNCHANGED manifest
    BY <1>13 DEF Collect, At, Runs
  <2>2. flight[p].key = None /\ ~flight[p].tried
    BY <2>1 DEF Lists, Etags
  <2>3. PICK S \in SUBSET cached[p].gc :
       \/ /\ S = {} /\ Goto(p, "idle")
          /\ UNCHANGED <<objects, flight, cached, mem, buffer, acked, mishaps>>
       \/ /\ S # {}
          /\ objects' = [k \in DOMAIN objects \ (S \ Named(cached[p])) |-> objects[k]]
          /\ \/ /\ Goto(p, "forget")
                /\ flight' = [flight EXCEPT ![p] = [Nothing EXCEPT !.gone = S]]
                /\ UNCHANGED <<cached, mem, buffer, acked, mishaps>>
             \/ Retry(p)
    BY <1>13 DEF Collect
  <2>4. CASE S = {} /\ Goto(p, "idle") /\ UNCHANGED <<objects, flight, cached, mem, buffer, acked, mishaps>>
    BY <2>1, <2>2, <2>4 DEF Goto, Kinds, Resets, Calm, Keeps, Clear, Up, LoopTyped
  <2>5. CASE objects' = [k \in DOMAIN objects \ (S \ Named(cached[p])) |-> objects[k]] /\ Retry(p)
    <3>1. Keeps(p) /\ Clear(p) /\ pc'[p] = "idle" /\ acked' = acked
      BY <2>5 DEF Retry, Goto, Keeps, Clear, Nothing, LoopTyped
    <3> QED BY <2>1, <2>5, <3>1 DEF Kinds, Deletes
  <2>6. CASE /\ objects' = [k \in DOMAIN objects \ (S \ Named(cached[p])) |-> objects[k]]
             /\ Goto(p, "forget") /\ flight' = [flight EXCEPT ![p] = [Nothing EXCEPT !.gone = S]]
             /\ UNCHANGED <<cached, mem, buffer, acked, mishaps>>
    <3>1. Keeps(p) /\ Clear(p) /\ pc'[p] = "forget" /\ acked' = acked
      BY <2>6 DEF Goto, Keeps, Clear, Nothing, LoopTyped
    <3> QED BY <2>1, <2>6, <3>1 DEF Kinds, Deletes
  <2> QED BY <2>3, <2>4, <2>5, <2>6
<1> HIDE DEF Kinds
<1> QED BY <1>1, <1>2, <1>3, <1>4, <1>5, <1>6, <1>7, <1>8, <1>9, <1>10, <1>11, <1>12, <1>13 DEF Acts, Step

-----------------------------------------------------------------------------
(* A name is used once.                                                    *)

\* What a commit names and lists was named or listed, or is the object in flight.
LEMMA TargetNames ==
  ASSUME TypeOK, Lists, NEW p \in Procs, pc[p] \in {"commit", "swap", "forget"},
         NEW m, m = Built(p, Target(p)), NEW c, c = cached[p]
  PROVE  /\ m \in Manifest
         /\ pc[p] = "commit" => /\ Named(m) = Named(c) \cup {flight[p].key} /\ m.gc = c.gc
                                /\ m.segs # << >> /\ m.segs[Len(m.segs)] = flight[p].key
         /\ pc[p] = "swap" => /\ Named(m) = {flight[p].key} /\ m.gc = c.gc \cup Named(c)
                              /\ m.segs = << >> /\ m.snap = flight[p].key
         /\ pc[p] = "forget" => Named(m) = Named(c) /\ m.gc \subseteq c.gc /\ m.segs = c.segs /\ m.snap = c.snap
<1>0. StoreTyped /\ LoopTyped /\ TermTyped
  BY TypesOf
<1>1. c \in Manifest /\ DOMAIN c = {"commitSeq", "epoch", "lastWriter", "segs", "snap", "gc"} /\ c.segs \in Seq(Key)
  BY <1>0 DEF LoopTyped, Manifest
<1>2. flight[p].key \in Key \cup {None} /\ (flight[p].key # None <=> pc[p] \in {"commit", "swap"})
  BY <1>0 DEF LoopTyped, Flights, Lists, Runs
<1>3. Target(p) \in Manifest
  BY <1>0, <1>2, TargetTyped DEF Target
<1>4. m \in Manifest
  BY <1>0, <1>3, BuiltTyped
<1>5. m.segs = Target(p).segs /\ m.snap = Target(p).snap /\ m.gc = Target(p).gc
  BY <1>4, BuiltFields
<1>6. ASSUME pc[p] = "commit"
      PROVE  /\ Named(m) = Named(c) \cup {flight[p].key} /\ m.gc = c.gc
             /\ m.segs # << >> /\ m.segs[Len(m.segs)] = flight[p].key
  <2>1. m.segs = Append(c.segs, flight[p].key) /\ m.snap = c.snap /\ m.gc = c.gc
    BY <1>1, <1>5, <1>6 DEF Target, WithSegment
  <2>2. /\ DOMAIN m.segs = 1..(Len(c.segs) + 1) /\ Len(m.segs) = Len(c.segs) + 1 /\ Len(c.segs) \in Nat
        /\ DOMAIN c.segs = 1..Len(c.segs) /\ \A i \in 1..Len(c.segs) : m.segs[i] = c.segs[i]
        /\ m.segs[Len(c.segs) + 1] = flight[p].key
    BY <1>1, <1>2, <1>6, <2>1
  <2>3. {m.segs[i] : i \in DOMAIN m.segs} = {c.segs[i] : i \in DOMAIN c.segs} \cup {flight[p].key}
    BY SMTT(30), <2>2
  <2>4. m.segs # << >>
    BY <2>2, <1>4 DEF Manifest
  <2> QED BY <2>1, <2>2, <2>3, <2>4 DEF Named
<1>7. ASSUME pc[p] = "swap"
      PROVE  /\ Named(m) = {flight[p].key} /\ m.gc = c.gc \cup Named(c)
             /\ m.segs = << >> /\ m.snap = flight[p].key
  <2>1. m.segs = << >> /\ m.snap = flight[p].key /\ m.gc = c.gc \cup Named(c)
    BY <1>1, <1>5, <1>7 DEF Target, WithSnapshot
  <2> QED BY <1>2, <1>7, <2>1 DEF Named
<1>8. ASSUME pc[p] = "forget"
      PROVE  Named(m) = Named(c) /\ m.gc \subseteq c.gc /\ m.segs = c.segs /\ m.snap = c.snap
  <2>1. m.segs = c.segs /\ m.snap = c.snap /\ m.gc = c.gc \ flight[p].gone
    BY <1>1, <1>5, <1>8 DEF Target, WithoutGone
  <2> QED BY <2>1 DEF Named
<1> QED BY <1>4, <1>6, <1>7, <1>8

\* A step makes one name known at most, one that was new.
LEMMA KnownStep ==
  ASSUME TypeOK, Sole, Etags, Lists, NEW p \in Procs, Alone(p), Kinds(p), NEW k \in Key, Known(k)'
  PROVE  \/ Known(k)
         \/ leased[p] /\ lease' = lease /\ k.epoch = epoch[p] /\ Fresh(p, k)'
<1>1. \A q \in Procs : q # p => (Runs(q)' <=> Runs(q)) /\ cached'[q] = cached[q] /\ flight'[q] = flight[q]
  BY DEF Alone, Runs
<1>2. k # None
  BY ObjectStorageAssumption DEF Key
<1>3. CASE Rests(p) \/ Submits(p) \/ Resets(p) \/ Vanishes(p)
  <2>1. UNCHANGED <<manifest, objects>>
    BY <1>3 DEF Rests, Submits, Resets, Vanishes, Calm
  <2>2. Runs(p)' => Runs(p) /\ cached'[p] = cached[p] /\ flight'[p].key \in {flight[p].key, None}
    BY <1>3 DEF Rests, Submits, Resets, Vanishes, Keeps, Clear, Runs, Up
  <2>3. Listed(manifest)' = Listed(manifest)
    BY <2>1 DEF Listed, Named
  <2>4. \A q \in Procs : Runs(q)' => Runs(q) /\ Listed(cached[q])' = Listed(cached[q])
    BY <1>1, <2>2 DEF Listed, Named
  <2> QED BY <1>1, <1>2, <2>1, <2>2, <2>3, <2>4 DEF Known
<1>4. CASE Boots(p) \/ Loads(p)
  <2>1. UNCHANGED <<manifest, objects>> /\ flight'[p] = flight[p]
    BY <1>4 DEF Boots, Loads, Calm
  <2>2. Runs(p)' => cached'[p] = manifest \/ (Runs(p) /\ cached'[p] = cached[p])
    BY <1>4 DEF Boots, Loads, Runs
  <2>3. ~Runs(p) => flight[p].key = None
    BY <1>4 DEF Boots, Loads, Runs, Sole, Up, Bare, Nothing
  <2> QED BY <1>1, <1>2, <2>1, <2>2, <2>3 DEF Known, Listed, Named
<1>5. CASE Saves(p)
  <2>1. PICK x \in Key : /\ \E row : PutObject(x, row)
                         /\ x.epoch = epoch[p] /\ Fresh(p, x)'
                         /\ flight'[p].key \in {x, None}
    BY <1>5 DEF Saves, Flies, Clear
  <2>2. leased[p] /\ lease' = lease /\ manifest' = manifest /\ Runs(p) /\ cached'[p] = cached[p]
    BY <1>5 DEF Saves, Keeps, Up, Runs
  <2>3. DOMAIN objects' = DOMAIN objects \cup {x}
    BY <2>1 DEF PutObject
  <2>4. CASE k = x
    BY <2>1, <2>2, <2>4
  <2>5. CASE k # x
    <3>1. Known(k)
      BY <1>1, <1>2, <2>1, <2>2, <2>3, <2>5 DEF Known, Listed, Named
    <3> QED BY <3>1
  <2> QED BY <2>4, <2>5
<1>6. CASE Deletes(p)
  <2>1. manifest' = manifest /\ Runs(p) /\ cached'[p] = cached[p] /\ flight'[p].key = None
    BY <1>6 DEF Deletes, Keeps, Clear, Runs
  <2>2. DOMAIN objects' \subseteq DOMAIN objects
    BY <1>6 DEF Deletes
  <2> QED BY <1>1, <1>2, <2>1, <2>2 DEF Known, Listed, Named
<1>7. CASE Adopts(p)
  <2>1. UNCHANGED <<manifest, objects>> /\ Runs(p) /\ cached'[p] = manifest /\ flight'[p].key = None
    BY <1>7 DEF Adopts, Tells, Clear, Runs
  <2> QED BY <1>1, <1>2, <2>1 DEF Known, Listed, Named
<1>8. CASE Answered(p) \/ Unanswered(p)
  <2>1. /\ pc[p] \in {"commit", "swap", "forget"} /\ Runs(p) /\ manifest' = Built(p, Target(p))
        /\ cached[p] = manifest /\ objects' = objects
    BY <1>8 DEF Answered, Unanswered, Tells, Runs, Etags
  <2>2. cached'[p] \in {manifest', cached[p]} /\ flight'[p].key \in {flight[p].key, None}
    <3>1. LoopTyped
      BY TypesOf
    <3> QED BY <1>8, <3>1 DEF Answered, Unanswered, Tells, Clear, Keeps, LoopTyped, Flights
  <2> DEFINE m == manifest'
  <2>3. Listed(m) \subseteq Listed(manifest) \cup {flight[p].key}
    <3> HIDE DEF m
    <3>1. m = Built(p, Target(p))
      BY <2>1 DEF m
    <3> QED BY <2>1, <3>1, TargetNames DEF Listed
  <2>4. Listed(manifest)' = Listed(m)
    BY DEF Listed, Named
  <2>5. Listed(cached[p])' = Listed(m) \/ Listed(cached[p])' = Listed(manifest)
    BY <2>1, <2>2 DEF Listed, Named
  <2>6. \A q \in Procs : q # p => Listed(cached[q])' = Listed(cached[q])
    BY <1>1 DEF Listed, Named
  <2> HIDE DEF m
  <2> QED BY <1>1, <1>2, <2>1, <2>2, <2>3, <2>4, <2>5, <2>6 DEF Known
<1> QED BY <1>3, <1>4, <1>5, <1>6, <1>7, <1>8 DEF Kinds

\* Who keeps its lease keeps count of its names.
Counts(p) ==
  /\ epoch'[p] = epoch[p]
  /\ seq'[p] = seq[p] \/ seq'[p] = [epoch |-> epoch[p], n |-> NextSeq(p) + 1]
  /\ snapSeq'[p] \in {snapSeq[p], snapSeq[p] + 1}

\* A process that goes has no lease.
LEMMA GoneCounts ==
  ASSUME TermTyped, NEW p \in Procs, Gone(p) PROVE ~leased'[p]
  BY DEF Gone, TermTyped

\* A process under its lease counts its names up, from nought when it takes the lease.
LEMMA ActsCounts ==
  ASSUME TypeOK, Sole, Leases, NEW p \in Procs, Acts(p), leased'[p]
  PROVE  Counts(p) \/ (Acquire(p) /\ seq'[p] = seq[p] /\ snapSeq'[p] = snapSeq[p])
<1>0. StoreTyped /\ LoopTyped /\ TermTyped
  BY TypesOf
<1> USE <1>0 DEF leasing, loop
<1>1. CASE Acquire(p)
  BY <1>1 DEF Acquire
<1>2. CASE UNCHANGED <<epoch, seq, snapSeq>>
  BY <1>2 DEF Counts
<1>3. CASE Boot(p) \/ Crash(p) \/ Close(p)
  <2>1. ~leased'[p]
    BY <1>3, GoneCounts DEF Boot, At, Crash, Close, Sole, Up, Bare
  <2> QED BY <2>1
<1>4. CASE AcquireFails(p) \/ Refused(p)
  BY <1>2, <1>4, GoneCounts DEF AcquireFails, Refused, NotWriter
<1>5. CASE PutSegment(p) \/ PutSnapshot(p)
  BY <1>5 DEF PutSegment, PutSnapshot, Counts, TermTyped
<1>6. CASE CommitSegment(p) \/ SwapManifest(p) \/ Forget(p)
  <2>1. CASE \E m : CommitFails(p, m)
    BY <1>2, <2>1, GoneCounts DEF CommitFails
  <2>2. CASE ~ \E m : CommitFails(p, m)
    BY <1>2, <1>6, <2>2 DEF CommitSegment, SwapManifest, Forget
  <2> QED BY <2>1, <2>2
<1>7. CASE Load(p) \/ Lapse(p) \/ Renew(p) \/ Collect(p) \/ \E r \in Records : Submit(p, r)
  BY <1>2, <1>7 DEF Load, Lapse, Renew, Collect, Submit
<1> QED BY <1>1, <1>3, <1>4, <1>5, <1>6, <1>7 DEF Acts, Step

\* So a name it was yet to use, or did not come to, stays so.
LEMMA FreshKept ==
  ASSUME TypeOK, NEW p \in Procs, Counts(p), NEW k \in Key, Fresh(p, k) PROVE Fresh(p, k)'
<1>1. TermTyped
  BY TypesOf
<1>2. k.n \in Nat /\ seq[p].n \in Nat /\ snapSeq[p] \in Nat /\ epoch[p] \in Nat
  BY <1>1 DEF TermTyped, Key
<1>3. CASE k.epoch = epoch[p] /\ k.kind = "wal"
  BY <1>1, <1>2, <1>3 DEF Fresh, Counts, NextSeq, TermTyped
<1>4. CASE k.epoch = epoch[p] /\ k.kind # "wal"
  BY <1>2, <1>4 DEF Fresh, Counts
<1>5. CASE k.epoch # epoch[p]
  BY <1>5 DEF Fresh, Counts
<1> QED BY <1>3, <1>4, <1>5

\* Another's names are left alone.
LEMMA FreshAlone ==
  ASSUME NEW p \in Procs, Alone(p), NEW q \in Procs \ {p}, NEW k PROVE Fresh(q, k)' <=> Fresh(q, k)
  BY DEF Alone, Fresh

\* An epoch that a writer's lease has left is on no name of another's.
Elsewhere(p, k) == lease.owner = writerId[p] /\ epoch[p] # lease.epoch => k.epoch # lease.epoch

\* Every step gives new objects names that nothing ever had.
LEMMA NamesStep ==
  ASSUME ~GivesUp, ObjIInv, NEW p \in Procs, Acts(p) PROVE Names'
<1>0. /\ TypeOK /\ Sole /\ Leases /\ Names /\ Etags /\ Lists
      /\ StoreTyped /\ LoopTyped /\ TermTyped
  BY TypesOf DEF ObjIInv
<1>1. Alone(p) /\ Kinds(p)
  BY <1>0, ActsAlone, ActsKinds
<1>2. \A q \in Procs : q # p => leased'[q] = leased[q] /\ epoch'[q] = epoch[q]
  BY <1>1 DEF Alone
<1>3. writerId' = writerId /\ \A q \in Procs : writerId[q] # Nobody
  BY <1>0, <1>1, ObjectStorageAssumption DEF Alone, StoreTyped
<1>4. \A q, r \in Procs : leased[q] /\ leased[r] /\ writerId[q] = writerId[r] => q = r
  BY <1>0 DEF Sole, Bare, Up, Runs
<1>5. lease.epoch \in Nat /\ \A q \in Procs : epoch[q] \in Nat
  BY <1>0 DEF StoreTyped, TermTyped
<1> SUFFICES ASSUME NEW k \in Key, Known(k)'
             PROVE  /\ k.epoch <= lease'.epoch
                    /\ \A q \in Procs : leased'[q] => Fresh(q, k)' /\ Elsewhere(q, k)'
  BY DEF Names, Elsewhere
<1>6. k.epoch \in Nat
  BY DEF Key
<1>7. CASE ~Known(k)
  <2>1. leased[p] /\ lease' = lease /\ k.epoch = epoch[p] /\ Fresh(p, k)'
    BY <1>0, <1>1, <1>7, KnownStep
  <2>2. k.epoch <= lease'.epoch
    BY <1>0, <2>1 DEF Leases
  <2>3. ASSUME NEW q \in Procs, leased'[q], q # p PROVE Fresh(q, k)'
    BY <1>0, <1>1, <1>2, <2>1, <2>3, FreshAlone DEF Leases, Fresh
  <2>4. ASSUME NEW q \in Procs, leased'[q], lease'.owner = writerId[q], k.epoch = lease'.epoch
        PROVE  q = p
    <3>1. lease.owner = writerId[p]
      BY <1>0, <1>3, <2>1, <2>4 DEF Leases
    <3>2. CASE q # p
      BY <1>2, <1>4, <2>1, <2>4, <3>1, <3>2
    <3> QED BY <3>2
  <2>5. leased'[p] => epoch'[p] = epoch[p] \/ Acquire(p)
    BY <1>0, ActsCounts DEF Counts
  <2>6. Acquire(p) => epoch'[p] = lease'.epoch
    BY <1>0 DEF Acquire, TermTyped
  <2>7. ASSUME NEW q \in Procs, leased'[q] PROVE Elsewhere(q, k)'
    BY <1>3, <2>1, <2>4, <2>5, <2>6, <2>7 DEF Elsewhere
  <2> QED BY <2>1, <2>2, <2>3, <2>7
<1>8. CASE Known(k) /\ Acquire(p)
  <2>1. Up(p)
    BY <1>8 DEF Acquire, Wants, At, Up
  <2>2. /\ lease'.owner = writerId[p] /\ lease'.epoch = NextEpoch(p) /\ epoch'[p] = NextEpoch(p) /\ leased'[p]
        /\ seq' = seq /\ snapSeq' = snapSeq
    BY <1>0, <1>8 DEF Acquire, loop, TermTyped
  <2>3. NextEpoch(p) \in Nat /\ lease.epoch <= NextEpoch(p) /\ (NextEpoch(p) = lease.epoch => Ours(p))
    BY <1>0, <2>1, EpochTaken
  <2>4. k.epoch <= lease.epoch
    BY <1>0, <1>8 DEF Names
  <2>5. Fresh(p, k)'
    <3>1. CASE k.epoch # NextEpoch(p)
      BY <2>2, <3>1 DEF Fresh
    <3>2. CASE k.epoch = NextEpoch(p)
      <4>1. k.epoch = lease.epoch /\ Ours(p)
        BY <1>5, <1>6, <2>3, <2>4, <3>2
      <4>2. leased[p] /\ lease.owner = writerId[p]
        BY <4>1 DEF Ours
      <4>3. epoch[p] = lease.epoch /\ Fresh(p, k)
        BY <1>0, <1>8, <4>1, <4>2 DEF Names
      <4>4. epoch'[p] = epoch[p]
        BY <2>2, <3>2, <4>1, <4>3
      <4> QED BY <2>2, <4>3, <4>4 DEF Fresh
    <3> QED BY <3>1, <3>2
  <2>6. \A q \in Procs : leased'[q] => Fresh(q, k)'
    BY <1>0, <1>1, <1>2, <1>8, <2>5, FreshAlone DEF Names
  <2>7. ASSUME NEW q \in Procs, leased'[q] PROVE Elsewhere(q, k)'
    <3>1. Runs(p)
      BY <2>1 DEF Up, Runs
    <3>2. q # p => Runs(q)
      BY <1>0, <1>2, <2>7 DEF Sole, Bare, Up, Runs
    <3>3. lease'.owner = writerId[q] => q = p
      BY <1>0, <2>2, <3>1, <3>2 DEF Sole
    <3> QED BY <1>3, <2>2, <3>3 DEF Elsewhere
  <2> QED BY <1>5, <1>6, <2>2, <2>3, <2>4, <2>6, <2>7
<1>9. CASE Known(k) /\ ~Acquire(p)
  <2>1. LeaseLeft(p) /\ TermLeft(p) /\ (Up(p) \/ lease' = lease)
    BY <1>0, <1>9, ActsLeases
  <2>2. k.epoch <= lease.epoch
    BY <1>0, <1>9 DEF Names
  <2>3. Up(p) => NextEpoch(p) \in Nat /\ lease.epoch <= NextEpoch(p) /\ (NextEpoch(p) = lease.epoch => Ours(p))
    BY <1>0, EpochTaken
  <2>4. lease'.epoch \in Nat /\ lease.epoch <= lease'.epoch
    BY <1>5, <2>1, <2>3 DEF LeaseLeft
  <2>5. \A q \in Procs : leased'[q] => leased[q] /\ epoch'[q] = epoch[q]
    BY <1>2, <2>1 DEF TermLeft
  <2>6. ASSUME NEW q \in Procs, leased'[q] PROVE Fresh(q, k)'
    <3>1. Fresh(q, k)
      BY <1>0, <1>9, <2>5, <2>6 DEF Names
    <3>2. CASE q # p
      BY <1>1, <3>1, <3>2, FreshAlone
    <3>3. CASE q = p
      BY <1>0, <1>9, <2>6, <3>1, <3>3, ActsCounts, FreshKept
    <3> QED BY <3>2, <3>3
  <2>7. ASSUME NEW q \in Procs, leased'[q] PROVE Elsewhere(q, k)'
    <3>1. Elsewhere(q, k)
      BY <1>0, <1>9, <2>5, <2>7 DEF Names, Elsewhere
    <3>2. CASE k.epoch # lease'.epoch
      BY <3>2 DEF Elsewhere
    <3>3. CASE k.epoch = lease'.epoch
      <4>1. lease'.epoch = lease.epoch
        BY <1>5, <1>6, <2>2, <2>4, <3>3
      <4>2. lease'.owner \in {lease.owner, Nobody}
        BY <2>1, <2>3, <4>1 DEF LeaseLeft, Ours
      <4> QED BY <1>3, <2>5, <2>7, <3>1, <4>1, <4>2 DEF Elsewhere
    <3> QED BY <3>2, <3>3
  <2> QED BY <1>5, <1>6, <2>2, <2>4, <2>6, <2>7
<1> QED BY <1>7, <1>8, <1>9

-----------------------------------------------------------------------------
(* An etag stands for one manifest.                                        *)

EtagOf(p) ==
  /\ cached[p].commitSeq <= manifest.commitSeq
  /\ Unchanged(p) => cached[p] = manifest
  /\ ~Unchanged(p) /\ manifest.lastWriter = writerId[p] => flight[p].tried /\ manifest = Built(p, Target(p))
  /\ flight[p].tried => pc[p] \in {"commit", "swap", "forget"} /\ ~Unchanged(p)
  /\ pc[p] \in {"compact", "swap", "collect", "forget"} /\ Unchanged(p) => manifest.lastWriter = writerId[p]

\* Another's commit is not one's own.
LEMMA EtagsOthers ==
  ASSUME TypeOK, Sole, Etags, Lists, NEW p \in Procs, Runs(p), Alone(p), NEW q \in Procs, q # p, Runs(q)',
         \/ manifest' = manifest
         \/ manifest' = Built(p, Target(p)) /\ Unchanged(p) /\ pc[p] \in {"commit", "swap", "forget"}
  PROVE  EtagOf(q)'
<1>0. StoreTyped /\ LoopTyped /\ TermTyped
  BY TypesOf
<1>1. /\ writerId' = writerId /\ pc'[q] = pc[q] /\ cached'[q] = cached[q] /\ flight'[q] = flight[q]
      /\ epoch'[q] = epoch[q]
  BY DEF Alone
<1>2. Runs(q) /\ EtagOf(q) /\ writerId[q] # writerId[p]
  BY <1>1 DEF Runs, Etags, EtagOf, Sole
<1>3. Target(q)' = Target(q)
  BY <1>1 DEF Target, WithSegment, WithSnapshot, WithoutGone, Named
<1>4. Built(q, Target(q))' = Built(q, Target(q))
  BY <1>1, <1>3 DEF Built
<1>5. CASE manifest' = manifest
  BY <1>1, <1>2, <1>4, <1>5 DEF EtagOf, Unchanged
<1>6. CASE manifest' = Built(p, Target(p)) /\ Unchanged(p) /\ pc[p] \in {"commit", "swap", "forget"}
  <2>1. Built(p, Target(p)) \in Manifest
    BY <1>6, TargetNames
  <2>2. manifest'.commitSeq = manifest.commitSeq + 1 /\ manifest'.lastWriter = writerId[p]
    BY <1>6, <2>1, BuiltFields DEF Unchanged
  <2>3. manifest.commitSeq \in Nat /\ cached[q].commitSeq \in Nat
    BY <1>0 DEF StoreTyped, LoopTyped, Manifest
  <2>4. cached[q].commitSeq < manifest'.commitSeq
    BY <1>2, <2>2, <2>3 DEF EtagOf
  <2>5. /\ cached'[q].commitSeq <= manifest'.commitSeq /\ ~Unchanged(q)' /\ manifest'.lastWriter # writerId'[q]
        /\ flight'[q].tried => pc'[q] \in {"commit", "swap", "forget"}
    BY <1>1, <1>2, <2>2, <2>3, <2>4 DEF EtagOf, Unchanged
  <2> QED BY <2>5 DEF EtagOf
<1> QED BY <1>5, <1>6

\* A step keeps what the process that takes it knows of the manifest.
LEMMA EtagsOwn ==
  ASSUME ObjIInv, NEW p \in Procs, Alone(p), Kinds(p), Runs(p)'
  PROVE  EtagOf(p)'
<1>0. TypeOK /\ Sole /\ Etags /\ Lists /\ StoreTyped /\ LoopTyped /\ TermTyped
  BY TypesOf DEF ObjIInv
<1>1. manifest.commitSeq \in Nat /\ cached[p].commitSeq \in Nat /\ writerId' = writerId
  BY <1>0 DEF StoreTyped, LoopTyped, Manifest, Alone
<1>2. ~Runs(p) => ~flight[p].tried
  BY <1>0 DEF Sole, Up, Runs, Bare, Nothing
<1>3. CASE Rests(p) \/ Submits(p)
  <2>1. Runs(p) /\ EtagOf(p)
    BY <1>0, <1>3 DEF Rests, Submits, Runs, Up, Etags, EtagOf
  <2>2. manifest' = manifest /\ cached'[p] = cached[p] /\ flight'[p] = flight[p]
    BY <1>3 DEF Rests, Submits, Calm, Keeps
  <2>3. CASE flight[p].tried
    <3>1. pc'[p] = pc[p] /\ epoch'[p] = epoch[p]
      BY <1>3, <2>1, <2>3 DEF Rests, Submits, EtagOf
    <3>2. Target(p)' = Target(p)
      BY <2>2, <3>1 DEF Target, WithSegment, WithSnapshot, WithoutGone, Named
    <3>3. Built(p, Target(p))' = Built(p, Target(p))
      BY <1>1, <2>2, <3>1, <3>2 DEF Built
    <3> QED BY <1>1, <2>1, <2>2, <3>1, <3>3 DEF EtagOf, Unchanged
  <2>4. CASE ~flight[p].tried
    BY <1>1, <1>3, <2>1, <2>2, <2>4 DEF EtagOf, Unchanged, Rests, Submits
  <2> QED BY <2>3, <2>4
<1>4. CASE Boots(p)
  BY <1>1, <1>2, <1>4 DEF Boots, Calm, Runs, EtagOf, Unchanged
<1>5. CASE Loads(p)
  BY <1>0, <1>1, <1>5 DEF Loads, Calm, Runs, Etags, EtagOf, Unchanged
<1>6. CASE Resets(p)
  BY <1>0, <1>1, <1>6 DEF Resets, Calm, Keeps, Clear, Runs, Up, Etags, EtagOf, Unchanged
<1>7. CASE Saves(p)
  <2>1. Runs(p) /\ EtagOf(p) /\ ~flight[p].tried
    BY <1>0, <1>7 DEF Saves, Up, Runs, Etags, EtagOf
  <2>2. /\ manifest' = manifest /\ cached'[p] = cached[p] /\ ~flight'[p].tried
        /\ pc'[p] \in {"idle", "commit"} \/ (pc[p] = "compact" /\ pc'[p] = "swap")
    BY <1>7 DEF Saves, Flies, Clear, Keeps
  <2> QED BY <1>1, <2>1, <2>2 DEF EtagOf, Unchanged
<1>8. CASE Deletes(p)
  BY <1>0, <1>1, <1>8 DEF Deletes, Keeps, Clear, Runs, Etags, EtagOf, Unchanged
<1>9. CASE Adopts(p)
  BY <1>1, <1>9 DEF Adopts, Tells, Clear, EtagOf, Unchanged
<1>10. CASE Answered(p) \/ Unanswered(p)
  <2>1. pc[p] \in {"commit", "swap", "forget"} /\ manifest' = Built(p, Target(p)) /\ Unchanged(p)
    BY <1>10 DEF Answered, Unanswered, Tells
  <2>2. Built(p, Target(p)) \in Manifest
    BY <1>0, <2>1, TargetNames
  <2>3. manifest'.commitSeq = cached[p].commitSeq + 1 /\ manifest'.lastWriter = writerId[p]
    BY <2>1, <2>2, BuiltFields
  <2>4. CASE Answered(p)
    BY <1>1, <2>3, <2>4 DEF Answered, Tells, Clear, EtagOf, Unchanged
  <2>5. CASE Unanswered(p)
    <3>1. pc'[p] = pc[p] /\ epoch'[p] = epoch[p] /\ cached'[p] = cached[p]
      BY <2>5 DEF Unanswered, Keeps
    <3>2. flight'[p].tried /\ flight'[p].key = flight[p].key /\ flight'[p].gone = flight[p].gone
      <4>1. flight[p] \in Flights
        BY <1>0 DEF LoopTyped
      <4> QED BY <2>5, <4>1 DEF Unanswered, Flights
    <3>3. Target(p)' = Target(p)
      BY <3>1, <3>2 DEF Target, WithSegment, WithSnapshot, WithoutGone, Named
    <3>4. Built(p, Target(p))' = Built(p, Target(p))
      BY <1>1, <3>1, <3>3 DEF Built
    <3>5. ~Unchanged(p)' /\ cached'[p].commitSeq <= manifest'.commitSeq
      BY <1>1, <2>3, <3>1 DEF Unchanged
    <3> QED BY <2>1, <3>1, <3>2, <3>4, <3>5 DEF EtagOf
  <2> QED BY <1>10, <2>4, <2>5
<1>11. CASE Vanishes(p)
  BY <1>11 DEF Vanishes, Runs
<1> QED BY <1>3, <1>4, <1>5, <1>6, <1>7, <1>8, <1>9, <1>10, <1>11 DEF Kinds

\* So every step keeps the etags true.
LEMMA EtagsStep ==
  ASSUME ObjIInv, NEW p \in Procs, Alone(p), Kinds(p) PROVE Etags'
<1>0. TypeOK /\ Sole /\ Etags /\ Lists
  BY DEF ObjIInv
<1>1. \/ manifest' = manifest
      \/ manifest' = Built(p, Target(p)) /\ Unchanged(p) /\ pc[p] \in {"commit", "swap", "forget"} /\ Runs(p)
  BY DEF Kinds, Rests, Submits, Boots, Loads, Resets, Vanishes, Saves, Deletes, Adopts, Answered, Unanswered,
         Tells, Calm, Runs
<1>2. ASSUME NEW q \in Procs, q # p, Runs(q)' PROVE EtagOf(q)'
  <2>1. CASE Runs(p)
    BY <1>0, <1>1, <1>2, <2>1, EtagsOthers
  <2>2. CASE ~Runs(p)
    <3>1. /\ manifest' = manifest /\ writerId' = writerId /\ pc'[q] = pc[q] /\ cached'[q] = cached[q]
          /\ flight'[q] = flight[q] /\ epoch'[q] = epoch[q]
      BY <1>1, <1>2, <2>2 DEF Alone
    <3>2. Runs(q) /\ EtagOf(q)
      BY <1>0, <1>2, <3>1 DEF Runs, Etags, EtagOf
    <3>3. Target(q)' = Target(q)
      BY <3>1 DEF Target, WithSegment, WithSnapshot, WithoutGone, Named
    <3>4. Built(q, Target(q))' = Built(q, Target(q))
      BY <3>1, <3>3 DEF Built
    <3> QED BY <3>1, <3>2, <3>4 DEF EtagOf, Unchanged
  <2> QED BY <2>1, <2>2
<1>3. Runs(p)' => EtagOf(p)'
  BY EtagsOwn
<1> QED BY <1>2, <1>3 DEF Etags, EtagOf

-----------------------------------------------------------------------------
(* What the manifest names is kept.                                        *)

Offered(p) == Runs(p) /\ flight[p].key # None

ListsOf(p) ==
  /\ Named(manifest) \cap cached[p].gc = {}
  /\ flight[p].key # None <=> pc[p] \in {"commit", "swap"}

FlightOf(p) ==
  flight[p].key # None /\ ~flight[p].tried =>
    /\ flight[p].key \in DOMAIN objects
    /\ flight[p].key \notin Listed(manifest)

\* What an object in flight is on no list of, and whose it is.
Apart(p, q) ==
  /\ Offered(p) /\ ~flight[p].tried /\ Runs(q) => flight[p].key \notin Listed(cached[q])
  /\ Offered(p) /\ Runs(q) /\ flight[q].key = flight[p].key => q = p

\* The lists, taken apart by process and by pair of processes.
LEMMA ListsAre ==
  Lists <=> /\ NamedExists /\ Named(manifest) \cap manifest.gc = {}
            /\ \A p \in Procs : Runs(p) => ListsOf(p) /\ FlightOf(p)
            /\ \A p, q \in Procs : Apart(p, q)
  BY DEF Lists, ListsOf, FlightOf, Apart, Offered

\* What a process tries that has the manifest as it is.
LEMMA TargetLists ==
  ASSUME ObjIInv, NEW p \in Procs, pc[p] \in {"commit", "swap", "forget"}, Unchanged(p),
         NEW m, m = Built(p, Target(p))
  PROVE  /\ Named(m) \subseteq DOMAIN objects /\ Named(m) \cap m.gc = {}
         /\ Listed(m) \subseteq Listed(manifest) \cup {flight[p].key}
         /\ \A q \in Procs : Runs(q) => Named(m) \cap cached[q].gc = {}
         /\ flight[p].key = None => Listed(m) \subseteq Listed(manifest)
<1>0. TypeOK /\ Sole /\ Etags /\ Lists
  BY DEF ObjIInv
<1>1. Runs(p) /\ cached[p] = manifest /\ ~flight[p].tried
  BY <1>0 DEF Runs, Etags
<1>2. NamedExists /\ Named(manifest) \cap manifest.gc = {} /\ \A q \in Procs : Runs(q) => ListsOf(q)
  BY <1>0, ListsAre
<1>3. CASE pc[p] = "forget"
  <2>1. Named(m) = Named(manifest) /\ m.gc \subseteq manifest.gc
    BY <1>0, <1>1, <1>3, TargetNames
  <2> QED BY <1>2, <2>1 DEF NamedExists, Listed, ListsOf
<1>4. CASE pc[p] \in {"commit", "swap"}
  <2>1. flight[p].key # None
    BY <1>1, <1>2, <1>4 DEF ListsOf
  <2>2. /\ flight[p].key \in DOMAIN objects /\ flight[p].key \notin Listed(manifest)
        /\ \A q \in Procs : Runs(q) => flight[p].key \notin Listed(cached[q])
    BY <1>0, <1>1, <2>1 DEF Lists
  <2>3. \/ Named(m) = Named(manifest) \cup {flight[p].key} /\ m.gc = manifest.gc
        \/ Named(m) = {flight[p].key} /\ m.gc = manifest.gc \cup Named(manifest)
    BY <1>0, <1>1, <1>4, TargetNames
  <2> QED BY <1>2, <2>1, <2>2, <2>3 DEF NamedExists, Listed, ListsOf
<1> QED BY <1>3, <1>4

\* Every step leaves what the manifest names in the store, and off the list of what may go.
LEMMA ListsStep ==
  ASSUME ObjIInv, NEW p \in Procs, Alone(p), Kinds(p) PROVE Lists'
<1>0. /\ TypeOK /\ Sole /\ Etags /\ Lists /\ LoopTyped
      /\ NamedExists /\ Named(manifest) \cap manifest.gc = {}
      /\ \A q \in Procs : Runs(q) => ListsOf(q) /\ FlightOf(q)
      /\ \A q, r \in Procs : Apart(q, r)
  BY ListsAre, TypesOf DEF ObjIInv
<1> DEFINE Kept == /\ NamedExists' /\ (Named(manifest) \cap manifest.gc = {})'
                   /\ \A q \in Procs : Runs(q)' => ListsOf(q)' /\ FlightOf(q)'
                   /\ \A q, r \in Procs : Apart(q, r)'
<1>1. \A q \in Procs : q # p =>
        (Runs(q)' <=> Runs(q)) /\ cached'[q] = cached[q] /\ flight'[q] = flight[q] /\ pc'[q] = pc[q]
  BY DEF Alone, Runs
<1>2. ~Runs(p) => flight[p].key = None
  BY <1>0 DEF Sole, Up, Runs, Bare, Nothing
<1>3. ASSUME Rests(p) \/ Submits(p) \/ Resets(p) \/ Vanishes(p) PROVE Kept
  <2>1. UNCHANGED <<manifest, objects>>
    BY <1>3 DEF Rests, Submits, Resets, Vanishes, Calm
  <2>2. Runs(p)' => /\ Runs(p) /\ cached'[p] = cached[p]
                    /\ \/ flight'[p] = flight[p] /\ (pc'[p] = pc[p] \/ (pc[p] = "idle" /\ pc'[p] = "put"))
                       \/ flight'[p].key = None /\ pc'[p] = "idle"
    BY <1>3 DEF Rests, Submits, Resets, Vanishes, Keeps, Clear, Runs, Up
  <2>3. \A q \in Procs : Runs(q)' => Runs(q) /\ cached'[q] = cached[q]
                          /\ (flight'[q] = flight[q] \/ flight'[q].key = None)
    BY <1>1, <2>2
  <2>4. \A q \in Procs : Runs(q)' => ListsOf(q)'
    BY <1>0, <1>1, <2>1, <2>2 DEF ListsOf, Named
  <2>5. \A q \in Procs : Runs(q)' => FlightOf(q)'
    BY <1>0, <2>1, <2>3 DEF FlightOf, Listed, Named
  <2>6. \A q, r \in Procs : Apart(q, r)'
    BY <1>0, <2>3 DEF Apart, Offered, Listed, Named
  <2> QED BY <1>0, <2>1, <2>4, <2>5, <2>6 DEF NamedExists, Named
<1>4. ASSUME Boots(p) \/ Loads(p) \/ Adopts(p) PROVE Kept
  <2>1. UNCHANGED <<manifest, objects>>
    BY <1>4 DEF Boots, Loads, Adopts, Tells, Calm
  <2>2. Runs(p)' => /\ cached'[p] = manifest \/ (Runs(p) /\ cached'[p] = cached[p])
                    /\ flight'[p].key = None /\ pc'[p] \in {"load", "idle", "compact", "collect"}
    <3>1. CASE Adopts(p)
      BY <3>1 DEF Adopts, Tells, Clear
    <3>2. CASE Boots(p) \/ Loads(p)
      BY <1>0, <3>2 DEF Boots, Loads, Runs, Sole, Up, Bare, Nothing
    <3> QED BY <1>4, <3>1, <3>2
  <2>3. \A q \in Procs : Runs(q)' => /\ cached'[q] = manifest \/ (Runs(q) /\ cached'[q] = cached[q])
                                     /\ flight'[q].key # None => Runs(q) /\ flight'[q] = flight[q]
    BY <1>1, <2>2
  <2>4. \A q \in Procs : Runs(q)' => ListsOf(q)'
    BY <1>0, <1>1, <2>1, <2>2 DEF ListsOf, Named
  <2>5. \A q \in Procs : Runs(q)' => FlightOf(q)'
    BY <1>0, <2>1, <2>3 DEF FlightOf, Listed, Named
  <2>6. \A q, r \in Procs : Apart(q, r)'
    BY <1>0, <2>1, <2>3 DEF Apart, Offered, FlightOf, Listed, Named
  <2> QED BY <1>0, <2>1, <2>4, <2>5, <2>6 DEF NamedExists, Named
<1>5. ASSUME Saves(p) PROVE Kept
  <2>1. PICK k \in Key : /\ ~Known(k) /\ \E row : PutObject(k, row)
                         /\ \/ pc'[p] = "idle" /\ Clear(p)
                            \/ pc'[p] \in {"commit", "swap"} /\ flight'[p].key = k /\ ~flight'[p].tried
    BY <1>5 DEF Saves, Flies
  <2>2. manifest' = manifest /\ Runs(p) /\ cached'[p] = cached[p] /\ k # None
    BY <1>5, ObjectStorageAssumption DEF Saves, Keeps, Up, Runs, Key
  <2>3. DOMAIN objects' = DOMAIN objects \cup {k}
    BY <2>1 DEF PutObject
  <2>4. k \notin Listed(manifest) /\ \A q \in Procs : Runs(q) => k \notin Listed(cached[q]) /\ k # flight[q].key
    BY <2>1 DEF Known
  <2>5. \A q \in Procs : cached'[q] = cached[q] /\ (Runs(q)' => Runs(q))
    BY <1>1, <2>2
  <2>6. \A q \in Procs : Runs(q)' => ListsOf(q)'
    BY <1>0, <1>1, <2>1, <2>2 DEF ListsOf, Named, Clear
  <2>7. \A q \in Procs : Runs(q)' => FlightOf(q)'
    BY <1>0, <1>1, <2>1, <2>2, <2>3, <2>4 DEF FlightOf, Listed, Named, Clear
  <2>8. \A q, r \in Procs : Apart(q, r)'
    BY <1>0, <1>1, <2>1, <2>2, <2>4, <2>5 DEF Apart, Offered, Listed, Named, Clear
  <2> QED BY <1>0, <2>2, <2>3, <2>6, <2>7, <2>8 DEF NamedExists, Named
<1>6. ASSUME Deletes(p) PROVE Kept
  <2>1. /\ manifest' = manifest /\ Runs(p) /\ cached'[p] = cached[p] /\ flight'[p].key = None
        /\ pc'[p] \in {"idle", "forget"}
    BY <1>6 DEF Deletes, Keeps, Clear, Runs
  <2>2. PICK S \in SUBSET cached[p].gc : objects' = [k \in DOMAIN objects \ (S \ Named(cached[p])) |-> objects[k]]
    BY <1>6 DEF Deletes
  <2>3. DOMAIN objects \ cached[p].gc \subseteq DOMAIN objects'
    BY <2>2
  <2>4. Named(manifest) \subseteq DOMAIN objects'
    BY <1>0, <2>1, <2>3 DEF NamedExists, ListsOf
  <2>5. \A q \in Procs : Offered(q) /\ ~flight[q].tried => flight[q].key \in DOMAIN objects'
    BY <1>0, <2>1, <2>3 DEF FlightOf, Apart, Offered, Listed
  <2>6. \A q \in Procs : Runs(q)' => Runs(q) /\ cached'[q] = cached[q]
                          /\ (flight'[q] = flight[q] \/ flight'[q].key = None)
    BY <1>1, <2>1
  <2>7. \A q \in Procs : Runs(q)' => ListsOf(q)'
    BY <1>0, <1>1, <2>1 DEF ListsOf, Named
  <2>8. \A q \in Procs : Runs(q)' => FlightOf(q)'
    BY <1>0, <2>1, <2>5, <2>6 DEF FlightOf, Offered, Listed, Named
  <2>9. \A q, r \in Procs : Apart(q, r)'
    BY <1>0, <2>6 DEF Apart, Offered, Listed, Named
  <2> QED BY <1>0, <2>1, <2>4, <2>7, <2>8, <2>9 DEF NamedExists, Named
<1>7. ASSUME Answered(p) \/ Unanswered(p) PROVE Kept
  <2>1. /\ pc[p] \in {"commit", "swap", "forget"} /\ Runs(p) /\ manifest' = Built(p, Target(p)) /\ Unchanged(p)
        /\ cached[p] = manifest /\ objects' = objects
    BY <1>0, <1>7 DEF Answered, Unanswered, Tells, Runs, Etags
  <2>2. /\ cached'[p] \in {manifest', manifest}
        /\ \/ flight'[p].key = None /\ pc'[p] \in {"compact", "collect", "idle"}
           \/ flight'[p].key = flight[p].key /\ flight'[p].tried /\ pc'[p] = pc[p]
    <3>1. CASE Answered(p)
      BY <3>1 DEF Answered, Tells, Clear
    <3>2. CASE Unanswered(p)
      <4>1. flight[p] \in Flights
        BY <1>0 DEF LoopTyped
      <4> QED BY <2>1, <3>2, <4>1 DEF Unanswered, Keeps, Flights
    <3> QED BY <1>7, <3>1, <3>2
  <2> DEFINE m == manifest'
  <2>3. /\ Named(m) \subseteq DOMAIN objects /\ Named(m) \cap m.gc = {}
        /\ Listed(m) \subseteq Listed(manifest) \cup {flight[p].key}
        /\ \A q \in Procs : Runs(q) => Named(m) \cap cached[q].gc = {}
    <3> HIDE DEF m
    <3>1. m = Built(p, Target(p))
      BY <2>1 DEF m
    <3> QED BY <2>1, <3>1, TargetLists
  <2>4. Named(manifest)' = Named(m) /\ Listed(manifest)' = Listed(m)
    BY DEF Listed, Named
  <2>5. \A q \in Procs : q # p => Listed(cached[q])' = Listed(cached[q])
    BY <1>1 DEF Listed, Named
  <2>6. Listed(cached[p])' \subseteq Listed(manifest) \cup {flight[p].key}
    <3>1. Listed(cached[p])' = Listed(m) \/ Listed(cached[p])' = Listed(manifest)
      BY <2>2 DEF Listed, Named
    <3> QED BY <2>3, <3>1
  <2> HIDE DEF m
  <2>7. ASSUME NEW q \in Procs, Runs(q)' PROVE ListsOf(q)'
    <3>1. CASE q # p
      BY <1>0, <1>1, <2>3, <2>4, <2>7, <3>1 DEF ListsOf
    <3>2. CASE q = p
      <4>1. Named(m) \cap manifest.gc = {} /\ Named(m) \cap m.gc = {}
        BY <2>1, <2>3
      <4>2. Named(m) \cap cached'[p].gc = {}
        BY <2>2, <4>1 DEF m
      <4> QED BY <1>0, <2>1, <2>2, <2>4, <3>2, <4>2 DEF ListsOf
    <3> QED BY <3>1, <3>2
  <2>8. ASSUME NEW q \in Procs, Runs(q)', flight'[q].key # None, ~flight'[q].tried
        PROVE  /\ q # p /\ Runs(q) /\ flight'[q] = flight[q] /\ flight[q].key # flight[p].key
    <3>1. q # p
      BY <2>2, <2>8
    <3>2. Runs(q) /\ flight'[q] = flight[q]
      BY <1>1, <2>8, <3>1
    <3>3. flight[p].key # flight[q].key
      BY <1>0, <2>1, <2>8, <3>1, <3>2 DEF Apart, Offered
    <3> QED BY <3>1, <3>2, <3>3
  <2>9. ASSUME NEW q \in Procs, Runs(q)' PROVE FlightOf(q)'
    <3>1. CASE flight'[q].key # None /\ ~flight'[q].tried
      <4>1. Runs(q) /\ flight'[q] = flight[q] /\ flight[q].key # flight[p].key
        BY <2>8, <2>9, <3>1
      <4>2. flight[q].key \in DOMAIN objects /\ flight[q].key \notin Listed(manifest)
        BY <1>0, <3>1, <4>1 DEF FlightOf
      <4> QED BY <2>1, <2>3, <2>4, <4>1, <4>2 DEF FlightOf
    <3>2. CASE ~(flight'[q].key # None /\ ~flight'[q].tried)
      BY <3>2 DEF FlightOf
    <3> QED BY <3>1, <3>2
  <2>10. ASSUME NEW q \in Procs, NEW r \in Procs PROVE Apart(q, r)'
    <3>1. ASSUME Offered(q)', ~flight'[q].tried, Runs(r)' PROVE flight'[q].key \notin Listed(cached[r])'
      <4>1. Runs(q) /\ flight'[q] = flight[q] /\ flight[q].key # flight[p].key
        BY <2>8, <3>1 DEF Offered
      <4>2. Runs(r) /\ Offered(q)
        BY <1>1, <2>1, <3>1, <4>1 DEF Offered
      <4>3. flight[q].key \notin Listed(cached[r]) /\ flight[q].key \notin Listed(manifest)
        BY <1>0, <3>1, <4>1, <4>2 DEF Apart, FlightOf, Offered
      <4> QED BY <2>5, <2>6, <4>1, <4>3
    <3>2. ASSUME Offered(q)', Runs(r)', flight'[r].key = flight'[q].key PROVE r = q
      BY <1>0, <1>1, <2>1, <2>2, <3>2 DEF Apart, Offered
    <3> QED BY <3>1, <3>2 DEF Apart
  <2> QED BY <2>1, <2>3, <2>4, <2>7, <2>9, <2>10 DEF NamedExists, m
<1> HIDE DEF Kept
<1>8. Kept
  BY <1>3, <1>4, <1>5, <1>6, <1>7 DEF Kinds
<1>9. (/\ NamedExists /\ Named(manifest) \cap manifest.gc = {}
       /\ \A q \in Procs : Runs(q) => ListsOf(q) /\ FlightOf(q)
       /\ \A q, r \in Procs : Apart(q, r))'
  BY <1>8 DEF Kept
<1> QED BY <1>9 DEF Lists, ListsOf, FlightOf, Apart, Offered

-----------------------------------------------------------------------------
(* What is acknowledged is stored.                                         *)

\* A name that is known keeps its object as long as there is one.
LEMMA OnceWritten ==
  ASSUME NEW p \in Procs, Kinds(p), NEW k \in DOMAIN objects', Known(k)
  PROVE  k \in DOMAIN objects /\ objects'[k] = objects[k]
<1>1. CASE UNCHANGED objects
  BY <1>1
<1>2. CASE Saves(p)
  <2>1. PICK x \in Key : ~Known(x) /\ \E row : PutObject(x, row)
    BY <1>2 DEF Saves
  <2> QED BY <2>1 DEF PutObject
<1>3. CASE Deletes(p)
  BY <1>3 DEF Deletes
<1> QED BY <1>1, <1>2, <1>3 DEF Kinds, Rests, Submits, Boots, Loads, Resets, Vanishes, Calm,
                                Answered, Adopts, Unanswered, Tells

\* A manifest that stays stands for what it stood for.
LEMMA ReplayedSame ==
  ASSUME TypeOK, NamedExists', NEW p \in Procs, Kinds(p), manifest' = manifest
  PROVE  Replayed(manifest)' = Replayed(manifest)
<1>1. \A k \in Named(manifest) : k \in DOMAIN objects' /\ Known(k)
  BY DEF NamedExists, Named, Known, Listed
<1>2. \A k \in Named(manifest) : objects'[k] = objects[k]
  BY <1>1, OnceWritten
<1>3. CASE manifest.segs # << >>
  <2>1. Len(manifest.segs) \in DOMAIN manifest.segs
    BY <1>3, EmptySeq DEF TypeOK, Manifest
  <2>2. manifest.segs[Len(manifest.segs)] \in Named(manifest)
    BY <2>1 DEF Named
  <2> QED BY <1>2, <1>3, <2>2 DEF Replayed
<1>4. CASE manifest.segs = << >> /\ manifest.snap # None
  <2>1. manifest.snap \in Named(manifest)
    BY <1>4 DEF Named
  <2> QED BY <1>2, <1>4, <2>1 DEF Replayed
<1>5. CASE manifest.segs = << >> /\ manifest.snap = None
  BY <1>5 DEF Replayed
<1> QED BY <1>3, <1>4, <1>5

\* The rows in a buffer: each has those before it in it.
BufferOf(p) ==
  \A i \in 1..Len(buffer[p]) :
    /\ buffer[p][i].row \subseteq mem[p]
    /\ \A j \in i..Len(buffer[p]) : buffer[p][i].id \in buffer[p][j].row

FlightRow(p) ==
  /\ pc[p] = "commit" =>
       /\ flight[p].n \in 1..Len(buffer[p])
       /\ flight[p].key \in DOMAIN objects => objects[flight[p].key] = buffer[p][flight[p].n].row
  /\ pc[p] = "swap" /\ flight[p].key \in DOMAIN objects => objects[flight[p].key] \subseteq mem[p]

CurrentRow(p) ==
  /\ Replayed(manifest) \subseteq mem[p]
  /\ \A i \in 1..Len(buffer[p]) : acked \subseteq buffer[p][i].row
  /\ manifest.lastWriter # writerId[p] =>
       \A i \in 1..Len(buffer[p]) : Replayed(manifest) \subseteq buffer[p][i].row
  /\ pc[p] = "swap" /\ flight[p].key \in DOMAIN objects => acked \subseteq objects[flight[p].key]

RowsOf(p) == BufferOf(p) /\ FlightRow(p) /\ (Current(p) => CurrentRow(p))

\* What a commit that was taken stands for.
Committed(p, row) ==
  /\ pc[p] = "commit" => row = buffer[p][flight[p].n].row
  /\ pc[p] = "swap" => row = objects[flight[p].key] /\ flight[p].key \in DOMAIN objects
  /\ pc[p] = "forget" => row = Replayed(cached[p])

\* A manifest that lands stands for what was in flight.
LEMMA BuiltReplayed ==
  ASSUME TypeOK, Lists, NEW p \in Procs, pc[p] \in {"commit", "swap", "forget"}, RowsOf(p),
         NEW m, m = Built(p, Target(p)), Named(m) \subseteq DOMAIN objects
  PROVE  Committed(p, Replayed(m))
<1>0. m \in Manifest /\ Named(m) \subseteq Key
  BY TargetNames, NamedTyped
<1>1. CASE pc[p] = "commit"
  BY <1>1, TargetNames DEF Replayed, Committed, RowsOf, FlightRow
<1>2. CASE pc[p] = "swap"
  <2>1. m.segs = << >> /\ m.snap = flight[p].key /\ Named(m) = {flight[p].key}
    BY <1>2, TargetNames
  <2>2. flight[p].key # None
    BY <1>2 DEF Lists, Runs
  <2> QED BY <1>2, <2>1, <2>2 DEF Replayed, Committed
<1>3. CASE pc[p] = "forget"
  BY <1>3, TargetNames DEF Replayed, Committed
<1> QED BY <1>1, <1>2, <1>3

\* The batch a commit acknowledges is in every later row of the buffer.
LEMMA BatchInRows ==
  ASSUME NEW p, RowsOf(p), pc[p] = "commit", NEW i \in 1..Len(buffer[p]), flight[p].n <= i, Len(buffer[p]) \in Nat
  PROVE  {buffer[p][k].id : k \in 1..flight[p].n} \subseteq buffer[p][i].row
<1>1. flight[p].n \in 1..Len(buffer[p])
  BY DEF RowsOf, FlightRow
<1>2. ASSUME NEW k \in 1..flight[p].n PROVE buffer[p][k].id \in buffer[p][i].row
  <2>1. k \in 1..Len(buffer[p]) /\ i \in k..Len(buffer[p])
    BY <1>1
  <2> QED BY <2>1 DEF RowsOf, BufferOf
<1> QED BY <1>2

\* Every step leaves what was acknowledged in what the manifest stands for.
LEMMA AckedStep ==
  ASSUME ObjIInv, NEW p \in Procs, Alone(p), Kinds(p), Lists'
  PROVE  acked \subseteq acked' /\ acked' \subseteq Replayed(manifest)'
<1>0. /\ TypeOK /\ Sole /\ Etags /\ Lists /\ Content /\ LoopTyped /\ NamedExists'
      /\ acked \subseteq Replayed(manifest)
      /\ Up(p) => RowsOf(p)
  BY TypesOf DEF ObjIInv, Content, Lists, RowsOf, BufferOf, FlightRow, CurrentRow
<1>1. CASE manifest' = manifest /\ acked' = acked
  BY <1>0, <1>1, ReplayedSame
<1>2. CASE Answered(p) \/ Unanswered(p)
  <2>1. /\ pc[p] \in {"commit", "swap", "forget"} /\ Up(p) /\ Runs(p) /\ manifest' = Built(p, Target(p))
        /\ cached[p] = manifest /\ objects' = objects /\ Current(p)
    BY <1>0, <1>2 DEF Answered, Unanswered, Tells, Up, Runs, Etags, Current
  <2> DEFINE m == manifest'
  <2>2. Named(m) \subseteq DOMAIN objects
    BY <1>0, <2>1 DEF NamedExists, Named
  <2>3. Replayed(manifest)' = Replayed(m)
    BY <2>1 DEF Replayed
  <2> HIDE DEF m
  <2>4. Committed(p, Replayed(m))
    BY <1>0, <2>1, <2>2, BuiltReplayed DEF m
  <2>5. Len(buffer[p]) \in Nat
    BY <1>0 DEF LoopTyped
  <2>6. pc[p] = "commit" => flight[p].n \in 1..Len(buffer[p])
    BY <1>0, <2>1 DEF RowsOf, FlightRow
  <2>7. acked \subseteq Replayed(m)
    BY <1>0, <2>1, <2>4, <2>6 DEF Committed, RowsOf, CurrentRow
  <2>8. pc[p] = "commit" => {buffer[p][k].id : k \in 1..flight[p].n} \subseteq Replayed(m)
    BY <1>0, <2>1, <2>4, <2>5, <2>6, BatchInRows DEF Committed
  <2> QED BY <1>2, <2>3, <2>7, <2>8 DEF Answered, Unanswered, Tells
<1>3. CASE Adopts(p)
  <2>1. /\ pc[p] \in {"commit", "swap", "forget"} /\ Up(p) /\ Runs(p) /\ manifest = Built(p, Target(p))
        /\ manifest' = manifest /\ objects' = objects
    BY <1>0, <1>3 DEF Adopts, Tells, Up, Runs, Etags
  <2>2. Replayed(manifest)' = Replayed(manifest)
    BY <1>0, <2>1, ReplayedSame
  <2>3. Committed(p, Replayed(manifest))
    BY <1>0, <2>1, BuiltReplayed DEF Lists, NamedExists
  <2>4. Len(buffer[p]) \in Nat
    BY <1>0 DEF LoopTyped
  <2>5. pc[p] = "commit" => flight[p].n \in 1..Len(buffer[p])
    BY <1>0, <2>1 DEF RowsOf, FlightRow
  <2>6. pc[p] = "commit" => {buffer[p][k].id : k \in 1..flight[p].n} \subseteq Replayed(manifest)
    BY <1>0, <2>1, <2>3, <2>4, <2>5, BatchInRows DEF Committed
  <2> QED BY <1>0, <1>3, <2>2, <2>6 DEF Adopts, Tells
<1> QED BY <1>1, <1>2, <1>3 DEF Kinds, Rests, Submits, Boots, Loads, Resets, Vanishes, Saves, Deletes, Calm

\* The content, taken apart by process.
LEMMA ContentIs == Content <=> acked \subseteq Replayed(manifest) /\ \A p \in Procs : Up(p) => RowsOf(p)
  BY DEF Content, RowsOf, BufferOf, FlightRow, CurrentRow

\* A step leaves another's rows as they are, and what they have in common with the store.
LEMMA ContentOthers ==
  ASSUME ObjIInv, NEW p \in Procs, Alone(p), Kinds(p), NamedExists', acked' \subseteq Replayed(manifest)',
         NEW q \in Procs, q # p, Up(q)'
  PROVE  RowsOf(q)'
<1>0. TypeOK /\ Sole /\ Etags /\ Lists /\ Content /\ StoreTyped /\ LoopTyped
  BY TypesOf DEF ObjIInv
<1>1. /\ writerId' = writerId /\ pc'[q] = pc[q] /\ cached'[q] = cached[q] /\ flight'[q] = flight[q]
      /\ mem'[q] = mem[q] /\ buffer'[q] = buffer[q]
  BY DEF Alone
<1>2. Up(q) /\ Runs(q)
  BY <1>1 DEF Up, Runs
<1>3. BufferOf(q) /\ FlightRow(q) /\ (Current(q) => CurrentRow(q)) /\ acked \subseteq Replayed(manifest)
  BY <1>0, <1>2, ContentIs DEF RowsOf
<1>4. flight[q].key \in DOMAIN objects' =>
        flight[q].key \in DOMAIN objects /\ objects'[flight[q].key] = objects[flight[q].key]
  BY <1>2, OnceWritten DEF Known
<1>5. BufferOf(q)'
  BY <1>1, <1>3 DEF BufferOf
<1>6. FlightRow(q)'
  BY <1>1, <1>3, <1>4 DEF FlightRow
<1>7. ASSUME manifest' = manifest, Current(q)' PROVE CurrentRow(q)'
  <2>1. Current(q) /\ CurrentRow(q)
    BY <1>1, <1>3, <1>7 DEF Current, Unchanged
  <2>2. Replayed(manifest)' = Replayed(manifest)
    BY <1>0, <1>7, ReplayedSame
  <2>3. CASE acked' = acked
    BY <1>1, <1>4, <1>7, <2>1, <2>2, <2>3 DEF CurrentRow
  <2>4. CASE Adopts(p)
    <3>1. manifest.lastWriter = writerId[p] /\ Runs(p)
      BY <2>4 DEF Adopts, Tells, Runs
    <3>2. manifest.lastWriter # writerId[q]
      BY <1>0, <1>2, <3>1 DEF Sole
    <3>3. pc[q] # "swap"
      BY <1>0, <1>2, <2>1, <3>2 DEF Current, Etags
    <3>4. \A i \in 1..Len(buffer[q]) : Replayed(manifest) \subseteq buffer[q][i].row
      BY <2>1, <3>2 DEF CurrentRow
    <3> QED BY <1>1, <1>7, <2>1, <2>2, <3>3, <3>4 DEF CurrentRow
  <2>5. CASE Answered(p) \/ Unanswered(p)
    <3>1. manifest'.commitSeq = manifest.commitSeq + 1
      BY <1>0, <2>5, TargetNames, BuiltFields DEF Answered, Unanswered, Tells, Unchanged
    <3>2. manifest.commitSeq \in Nat
      BY <1>0 DEF StoreTyped, Manifest
    <3> QED BY <1>7, <3>1, <3>2
  <2> QED BY <2>3, <2>4, <2>5 DEF Kinds, Rests, Submits, Boots, Loads, Resets, Vanishes, Saves, Deletes, Calm
<1>8. CASE manifest' # manifest
  <2>1. /\ pc[p] \in {"commit", "swap", "forget"} /\ manifest' = Built(p, Target(p)) /\ Unchanged(p)
    BY <1>8 DEF Kinds, Rests, Submits, Boots, Loads, Resets, Vanishes, Saves, Deletes, Adopts, Answered,
                Unanswered, Tells, Calm
  <2>2. manifest'.commitSeq = manifest.commitSeq + 1 /\ manifest'.lastWriter = writerId[p]
    BY <1>0, <2>1, TargetNames, BuiltFields DEF Unchanged
  <2>3. manifest.commitSeq \in Nat /\ cached[q].commitSeq \in Nat /\ cached[q].commitSeq <= manifest.commitSeq
    BY <1>0, <1>2 DEF StoreTyped, LoopTyped, Manifest, Etags
  <2>4. writerId[q] # writerId[p]
    BY <1>0, <1>2, <2>1 DEF Sole, Runs
  <2>5. ~Current(q)'
    BY <1>1, <2>2, <2>3, <2>4 DEF Current, Unchanged
  <2> QED BY <1>5, <1>6, <2>5 DEF RowsOf
<1>9. CASE manifest' = manifest
  BY <1>5, <1>6, <1>7, <1>9 DEF RowsOf
<1> QED BY <1>8, <1>9

\* Nor does it touch its own, but for what it changes.
LEMMA ContentStays ==
  ASSUME ObjIInv, NEW p \in Procs, Alone(p), Kinds(p), NamedExists', Up(p),
         UNCHANGED <<manifest, acked>>, Keeps(p), pc'[p] \notin {"commit", "swap"} \/ (pc'[p] = pc[p] /\ flight'[p] = flight[p])
  PROVE  RowsOf(p)'
<1>0. TypeOK /\ Lists /\ Content /\ writerId' = writerId
  BY DEF ObjIInv, Alone
<1>1. RowsOf(p) /\ Runs(p)
  BY <1>0, ContentIs DEF Up, Runs
<1>2. flight[p].key \in DOMAIN objects' =>
        flight[p].key \in DOMAIN objects /\ objects'[flight[p].key] = objects[flight[p].key]
  BY <1>1, OnceWritten DEF Known
<1>3. Replayed(manifest)' = Replayed(manifest)
  BY <1>0, ReplayedSame
<1>4. BufferOf(p)'
  BY <1>1 DEF RowsOf, BufferOf, Keeps
<1>5. FlightRow(p)'
  BY <1>1, <1>2 DEF RowsOf, FlightRow, Keeps
<1>6. Current(p)' => CurrentRow(p)'
  BY <1>0, <1>1, <1>2, <1>3 DEF RowsOf, Current, Unchanged, CurrentRow, Keeps
<1> QED BY <1>4, <1>5, <1>6 DEF RowsOf

\* A write joins the buffer with all that is in memory.
LEMMA ContentSubmits ==
  ASSUME ObjIInv, NEW p \in Procs, Alone(p), Kinds(p), NamedExists', Submits(p)
  PROVE  RowsOf(p)'
<1>0. TypeOK /\ LoopTyped /\ Content /\ Lists /\ writerId' = writerId
  BY TypesOf DEF ObjIInv, Alone
<1>1. RowsOf(p) /\ Runs(p) /\ acked \subseteq Replayed(manifest)
  BY <1>0, ContentIs DEF Submits, Up, Runs
<1>2. PICK r \in Records : /\ mem'[p] = mem[p] \cup {r}
                           /\ buffer'[p] = Append(buffer[p], [id |-> r, row |-> mem[p] \cup {r}])
  BY DEF Submits
<1>3. /\ UNCHANGED <<manifest, objects, acked>> /\ cached'[p] = cached[p] /\ flight'[p] = flight[p] /\ pc'[p] = pc[p]
  BY DEF Submits, Calm
<1> DEFINE n == Len(buffer[p])
<1>4. n \in Nat /\ buffer[p] \in Seq(Writes)
  BY <1>0 DEF LoopTyped
<1>5. /\ Len(buffer'[p]) = n + 1 /\ \A i \in 1..n : buffer'[p][i] = buffer[p][i]
      /\ buffer'[p][n + 1] = [id |-> r, row |-> mem[p] \cup {r}]
  BY <1>2, <1>4
<1>6. \A i \in 1..(n + 1) : i \in 1..n \/ i = n + 1
  BY <1>4
<1> HIDE DEF n
<1>7. \A i \in 1..n : buffer[p][i].row \subseteq mem[p] /\ \A j \in i..n : buffer[p][i].id \in buffer[p][j].row
  BY <1>1 DEF RowsOf, BufferOf, n
<1>8. ASSUME NEW i \in 1..(n + 1)
      PROVE  /\ buffer'[p][i].row \subseteq mem'[p]
             /\ \A j \in i..(n + 1) : buffer'[p][i].id \in buffer'[p][j].row
  <2>1. CASE i = n + 1
    <3>1. \A j \in i..(n + 1) : j = i
      BY <1>4, <2>1
    <3> QED BY <1>2, <1>5, <2>1, <3>1
  <2>2. CASE i \in 1..n
    <3>1. buffer[p][i].row \subseteq mem[p] /\ buffer[p][i].id \in buffer[p][i].row
      BY <1>4, <1>7, <2>2
    <3>2. ASSUME NEW j \in i..(n + 1) PROVE buffer'[p][i].id \in buffer'[p][j].row
      <4>1. CASE j = n + 1
        BY <1>5, <2>2, <3>1, <4>1
      <4>2. CASE j # n + 1
        <5>1. j \in 1..n /\ j \in i..n
          BY <1>4, <4>2
        <5> QED BY <1>5, <1>7, <2>2, <5>1
      <4> QED BY <4>1, <4>2
    <3> QED BY <1>2, <1>5, <2>2, <3>1, <3>2
  <2> QED BY <1>6, <2>1, <2>2
<1>9. BufferOf(p)'
  BY <1>5, <1>8 DEF BufferOf
<1>10. FlightRow(p)'
  <2>1. pc[p] = "commit" => flight[p].n \in 1..n
    BY <1>1 DEF RowsOf, FlightRow, n
  <2>2. pc[p] = "commit" => flight[p].n \in 1..(n + 1) /\ buffer'[p][flight[p].n] = buffer[p][flight[p].n]
    BY <1>4, <1>5, <2>1
  <2> QED BY <1>1, <1>2, <1>3, <1>5, <2>2 DEF RowsOf, FlightRow
<1>11. Current(p)' => CurrentRow(p)'
  <2>1. Replayed(manifest)' = Replayed(manifest)
    BY <1>0, <1>3, ReplayedSame
  <2>2. Current(p)' => Current(p) /\ CurrentRow(p)
    BY <1>0, <1>1, <1>3 DEF RowsOf, Current, Unchanged
  <2>3. CurrentRow(p) => acked \subseteq mem[p] /\ Replayed(manifest) \subseteq mem[p]
    BY <1>1 DEF CurrentRow
  <2>4. ASSUME CurrentRow(p), NEW i \in 1..(n + 1)
        PROVE  /\ acked \subseteq buffer'[p][i].row
               /\ manifest.lastWriter # writerId[p] => Replayed(manifest) \subseteq buffer'[p][i].row
    BY <1>5, <1>6, <2>3, <2>4 DEF CurrentRow, n
  <2> QED BY <1>0, <1>2, <1>3, <1>5, <2>1, <2>2, <2>3, <2>4 DEF CurrentRow
<1> QED BY <1>9, <1>10, <1>11 DEF RowsOf

\* An object that is PUT is a row of the buffer, or the memory.
LEMMA ContentSaves ==
  ASSUME ObjIInv, NEW p \in Procs, Alone(p), Kinds(p), NamedExists', Saves(p)
  PROVE  RowsOf(p)'
<1>0. TypeOK /\ Content /\ writerId' = writerId
  BY DEF ObjIInv, Alone
<1>1. RowsOf(p) /\ acked \subseteq Replayed(manifest) /\ Up(p)
  BY <1>0, ContentIs DEF Saves
<1>2. UNCHANGED <<manifest, acked>> /\ Keeps(p) /\ Replayed(manifest)' = Replayed(manifest)
  BY <1>0, ReplayedSame DEF Saves
<1>3. PICK k \in Key :
       \/ \E n \in 1..Len(buffer[p]) : PutObject(k, buffer[p][n].row) /\ Flies(p, k, "commit", n)
       \/ PutObject(k, mem[p]) /\ Flies(p, k, "swap", 0)
  BY DEF Saves
<1>4. CASE pc'[p] = "idle"
  BY <1>1, <1>2, <1>4, ContentStays
<1>5. BufferOf(p)'
  BY <1>1, <1>2 DEF RowsOf, BufferOf, Keeps
<1>6. Current(p)' => Current(p) /\ CurrentRow(p)
  BY <1>0, <1>1, <1>2 DEF RowsOf, Current, Unchanged, Keeps
<1>7. ASSUME NEW n \in 1..Len(buffer[p]), PutObject(k, buffer[p][n].row), pc'[p] = "commit",
             flight'[p].key = k, flight'[p].n = n
      PROVE  RowsOf(p)'
  <2>1. objects'[k] = buffer[p][n].row
    BY <1>7 DEF PutObject
  <2>2. FlightRow(p)'
    BY <1>2, <1>7, <2>1 DEF FlightRow, Keeps
  <2>3. CurrentRow(p) => CurrentRow(p)'
    BY <1>0, <1>2, <1>7 DEF CurrentRow, Keeps
  <2> QED BY <1>5, <1>6, <2>2, <2>3 DEF RowsOf
<1>8. ASSUME PutObject(k, mem[p]), pc'[p] = "swap", flight'[p].key = k
      PROVE  RowsOf(p)'
  <2>1. objects'[k] = mem[p]
    BY <1>8 DEF PutObject
  <2>2. FlightRow(p)'
    BY <1>2, <1>8, <2>1 DEF FlightRow, Keeps
  <2>3. CurrentRow(p) => CurrentRow(p)'
    BY <1>0, <1>1, <1>2, <1>8, <2>1 DEF CurrentRow, Keeps
  <2> QED BY <1>5, <1>6, <2>2, <2>3 DEF RowsOf
<1> QED BY <1>3, <1>4, <1>7, <1>8 DEF Flies

\* The memory is what was loaded.
LEMMA ContentLoads ==
  ASSUME ObjIInv, NEW p \in Procs, Alone(p), Kinds(p), NamedExists', Loads(p), Up(p)'
  PROVE  RowsOf(p)'
<1>0. TypeOK /\ Sole /\ Etags /\ writerId' = writerId
  BY DEF ObjIInv, Alone
<1>1. /\ UNCHANGED <<manifest, objects, acked>> /\ pc'[p] = "idle" /\ mem'[p] = Replayed(cached[p])
      /\ cached'[p] = cached[p] /\ buffer'[p] = << >> /\ ~flight[p].tried /\ Runs(p)
  BY <1>0 DEF Loads, Calm, Up, Runs, Sole, Bare, Nothing
<1>2. Replayed(manifest)' = Replayed(manifest)
  BY <1>0, <1>1, ReplayedSame
<1>3. Current(p)' => cached[p] = manifest
  BY <1>0, <1>1 DEF Current, Unchanged, Etags
<1>4. Len(buffer'[p]) = 0
  BY <1>1, EmptySeq
<1> QED BY <1>1, <1>2, <1>3, <1>4 DEF RowsOf, BufferOf, FlightRow, CurrentRow

\* What is left of a buffer once its head is dropped.
LEMMA Dropped ==
  ASSUME NEW S, NEW b \in Seq(S), NEW n \in 1..Len(b), NEW d, d = SubSeq(b, n + 1, Len(b))
  PROVE  /\ Len(d) \in Nat
         /\ \A i \in 1..Len(d) : n + i \in 1..Len(b) /\ d[i] = b[n + i]
<1>1. Len(b) \in Nat /\ n \in Nat /\ n <= Len(b)
  OBVIOUS
<1>2. Len(d) = Len(b) - n /\ \A i \in 1..(Len(b) - n) : d[i] = b[n + i]
  BY <1>1
<1> QED BY <1>1, <1>2

\* What the manifest stands for after a commit is in the memory it was made from.
LEMMA CommitInMemory ==
  ASSUME ObjIInv, NEW p \in Procs, Alone(p), Kinds(p), NamedExists', Answered(p) \/ Adopts(p) \/ Unanswered(p)
  PROVE  /\ Up(p) /\ RowsOf(p) /\ Current(p) /\ CurrentRow(p) /\ manifest'.lastWriter = writerId[p]
         /\ pc[p] \in {"commit", "swap", "forget"}
         /\ Replayed(manifest)' \subseteq mem[p]
<1>0. TypeOK /\ Etags /\ Lists /\ Content /\ writerId' = writerId
  BY DEF ObjIInv, Alone
<1>1. pc[p] \in {"commit", "swap", "forget"} /\ Up(p) /\ Runs(p) /\ Current(p) /\ objects' = objects
  BY DEF Answered, Adopts, Unanswered, Tells, Up, Runs, Current
<1>2. RowsOf(p) /\ CurrentRow(p)
  BY <1>0, <1>1, ContentIs DEF RowsOf
<1>3. CASE Adopts(p)
  <2>1. Replayed(manifest)' = Replayed(manifest)
    BY <1>0, <1>3, ReplayedSame DEF Adopts
  <2> QED BY <1>1, <1>2, <1>3, <2>1 DEF Adopts, CurrentRow
<1>4. CASE Answered(p) \/ Unanswered(p)
  <2>1. manifest' = Built(p, Target(p)) /\ cached[p] = manifest
    BY <1>0, <1>1, <1>4 DEF Answered, Unanswered, Etags
  <2>2. manifest'.lastWriter = writerId[p]
    BY <1>0, <1>1, <2>1, TargetNames, BuiltFields
  <2> DEFINE m == manifest'
  <2>3. Named(m) \subseteq DOMAIN objects /\ Replayed(manifest)' = Replayed(m)
    BY <1>1 DEF NamedExists, Named, Replayed
  <2> HIDE DEF m
  <2>4. Committed(p, Replayed(m))
    BY <1>0, <1>1, <1>2, <2>1, <2>3, BuiltReplayed DEF m
  <2>5. pc[p] = "commit" => flight[p].n \in 1..Len(buffer[p]) /\ buffer[p][flight[p].n].row \subseteq mem[p]
    BY <1>2 DEF RowsOf, FlightRow, BufferOf
  <2>6. Replayed(m) \subseteq mem[p]
    BY <1>1, <1>2, <2>1, <2>4, <2>5 DEF Committed, RowsOf, FlightRow, CurrentRow
  <2> QED BY <1>1, <1>2, <2>2, <2>3, <2>6
<1> QED BY <1>3, <1>4

\* A process that learns what became of its commit has in memory what is stored.
LEMMA ContentTells ==
  ASSUME ObjIInv, NEW p \in Procs, Alone(p), Kinds(p), NamedExists', Answered(p) \/ Adopts(p)
  PROVE  RowsOf(p)'
<1>0. LoopTyped /\ writerId' = writerId
  BY TypesOf DEF ObjIInv, Alone
<1>1. /\ RowsOf(p) /\ CurrentRow(p) /\ manifest'.lastWriter = writerId[p] /\ Replayed(manifest)' \subseteq mem[p]
  BY CommitInMemory
<1>2. Tells(p) /\ pc'[p] \in {"compact", "collect", "idle"} /\ mem'[p] = mem[p]
  BY DEF Answered, Adopts, Tells
<1>3. FlightRow(p)'
  BY <1>2 DEF FlightRow
<1>4. CASE pc[p] # "commit"
  <2>1. acked' = acked /\ buffer'[p] = buffer[p]
    BY <1>2, <1>4 DEF Tells
  <2>2. BufferOf(p)'
    BY <1>1, <1>2, <2>1 DEF RowsOf, BufferOf
  <2> QED BY <1>0, <1>1, <1>2, <1>3, <2>1, <2>2 DEF RowsOf, CurrentRow
<1>5. CASE pc[p] = "commit"
  <2> DEFINE n == flight[p].n
             d == buffer'[p]
             ids == {buffer[p][k].id : k \in 1..n}
  <2>1. acked' = acked \cup ids /\ d = SubSeq(buffer[p], n + 1, Len(buffer[p]))
    BY <1>2, <1>5 DEF Tells
  <2>2. n \in 1..Len(buffer[p]) /\ buffer[p] \in Seq(Writes) /\ Len(buffer[p]) \in Nat
    BY <1>0, <1>1, <1>5 DEF RowsOf, FlightRow, LoopTyped
  <2>3. Len(d) \in Nat /\ \A i \in 1..Len(d) : n + i \in 1..Len(buffer[p]) /\ d[i] = buffer[p][n + i]
    BY <2>1, <2>2, Dropped
  <2>4. ASSUME NEW i \in 1..Len(d) PROVE ids \subseteq buffer[p][n + i].row
    <3>1. n <= n + i /\ n + i \in 1..Len(buffer[p])
      BY <2>2, <2>3
    <3> QED BY <1>1, <1>5, <2>2, <3>1, BatchInRows
  <2> HIDE DEF n, d, ids
  <2>5. ASSUME NEW i \in 1..Len(d)
        PROVE  d[i].row \subseteq mem[p] /\ \A j \in i..Len(d) : d[i].id \in d[j].row
    <3>1. \A j \in i..Len(d) : j \in 1..Len(d) /\ n + j \in (n + i)..Len(buffer[p])
      BY <2>2, <2>3
    <3> QED BY <1>1, <2>3, <3>1 DEF RowsOf, BufferOf
  <2>6. BufferOf(p)'
    BY <1>2, <2>5 DEF BufferOf, d
  <2>7. \A i \in 1..Len(d) : acked' \subseteq d[i].row
    BY <1>1, <2>1, <2>3, <2>4 DEF CurrentRow
  <2>8. CurrentRow(p)'
    BY <1>0, <1>1, <1>2, <2>7 DEF CurrentRow, d
  <2> QED BY <1>3, <2>6, <2>8 DEF RowsOf
<1> QED BY <1>4, <1>5

\* One that does not learn it has in flight what it had.
LEMMA ContentUnanswered ==
  ASSUME ObjIInv, NEW p \in Procs, Alone(p), Kinds(p), NamedExists', Unanswered(p)
  PROVE  RowsOf(p)'
<1>0. LoopTyped /\ writerId' = writerId
  BY TypesOf DEF ObjIInv, Alone
<1>1. /\ RowsOf(p) /\ CurrentRow(p) /\ manifest'.lastWriter = writerId[p] /\ Replayed(manifest)' \subseteq mem[p]
  BY CommitInMemory
<1>2. flight[p] \in Flights
  BY <1>0 DEF LoopTyped
<1>3. /\ flight'[p].key = flight[p].key /\ flight'[p].n = flight[p].n /\ pc'[p] = pc[p]
      /\ UNCHANGED <<objects, acked>> /\ mem'[p] = mem[p] /\ buffer'[p] = buffer[p]
  BY <1>2 DEF Unanswered, Keeps, Flights
<1>4. BufferOf(p)' /\ FlightRow(p)'
  BY <1>1, <1>3 DEF RowsOf, BufferOf, FlightRow
<1>5. CurrentRow(p)'
  BY <1>0, <1>1, <1>3 DEF CurrentRow
<1> QED BY <1>4, <1>5 DEF RowsOf

\* Every step keeps what is in memory, in the buffer and in flight a match for the store.
LEMMA ContentStep ==
  ASSUME ObjIInv, NEW p \in Procs, Alone(p), Kinds(p), Lists' PROVE Content'
<1>0. NamedExists' /\ acked' \subseteq Replayed(manifest)'
  BY AckedStep DEF Lists
<1>1. \A q \in Procs : q # p /\ Up(q)' => RowsOf(q)'
  BY <1>0, ContentOthers
<1>2. ASSUME Up(p)' PROVE RowsOf(p)'
  <2>1. CASE Rests(p) \/ Resets(p) \/ Deletes(p)
    <3>1. Up(p) /\ UNCHANGED <<manifest, acked>> /\ Keeps(p)
      BY <1>2, <2>1 DEF Rests, Resets, Deletes, Calm, Up
    <3>2. pc'[p] \notin {"commit", "swap"} \/ (pc'[p] = pc[p] /\ flight'[p] = flight[p])
      BY <2>1 DEF Rests, Resets, Deletes
    <3> QED BY <1>0, <3>1, <3>2, ContentStays
  <2>2. CASE Boots(p) \/ Vanishes(p)
    BY <1>2, <2>2 DEF Boots, Vanishes, Up
  <2> QED BY <1>0, <1>2, <2>1, <2>2, ContentSubmits, ContentLoads, ContentSaves, ContentTells,
             ContentUnanswered DEF Kinds
<1>3. (acked \subseteq Replayed(manifest) /\ \A q \in Procs : Up(q) => RowsOf(q))'
  BY <1>0, <1>1, <1>2
<1> QED BY <1>3 DEF Content, RowsOf, BufferOf, FlightRow, CurrentRow

-----------------------------------------------------------------------------
(* The theorems.                                                           *)

\* The invariant holds at the start.
LEMMA ObjInit == Init => ObjIInv
<1> SUFFICES ASSUME Init PROVE ObjIInv
  OBVIOUS
<1>1. \A p \in Procs : /\ pc[p] = "down" /\ flight[p] = Nothing /\ mem[p] = {} /\ buffer[p] = << >>
                       /\ ~held[p] /\ ~leased[p] /\ ~fenced[p]
  BY DEF Init
<1>2. \A p \in Procs : ~Runs(p) /\ ~Up(p)
  BY <1>1 DEF Runs, Up
<1>3. manifest = Empty /\ DOMAIN objects = {} /\ acked = {}
  BY DEF Init
<1>4. Named(manifest) = {} /\ manifest.gc = {} /\ Replayed(manifest) = {}
  BY <1>3 DEF Empty, Named, Replayed
<1>5. TypeOK
  <2>1. << >> \in Seq(Writes) /\ manifest \in Manifest
    BY <1>3, EmptyTyped
  <2>2. StoreTyped
    BY <1>3, <2>1, ObjectStorageAssumption DEF Init, StoreTyped
  <2>3. LoopTyped
    BY <2>1, EmptyTyped DEF Init, LoopTyped, Stages, Row
  <2>4. TermTyped /\ AccountTyped
    BY ObjectStorageAssumption DEF Init, TermTyped, AccountTyped
  <2> QED BY <2>2, <2>3, <2>4, TypesOf
<1>6. Sole
  BY <1>1, <1>2 DEF Sole, Bare
<1>7. Leases
  BY <1>1 DEF Leases, Busy
<1>8. Names
  BY <1>2, <1>3, <1>4 DEF Names, Known, Listed
<1>9. Etags
  BY <1>2 DEF Etags
<1>10. Lists
  BY <1>2, <1>4 DEF Lists, NamedExists
<1>11. Content
  BY <1>2, <1>3 DEF Content
<1> QED BY <1>5, <1>6, <1>7, <1>8, <1>9, <1>10, <1>11 DEF ObjIInv

\* A lease that runs out changes nothing but what others make of it.
LEMMA IdleStep ==
  ASSUME ObjIInv, Expire \/ UNCHANGED vars PROVE ObjIInv'
<1>0. TypeOK /\ Sole /\ Leases /\ Names /\ Etags /\ Lists /\ Content
  BY DEF ObjIInv
<1>1. /\ UNCHANGED <<manifest, objects, lease, writerId, pc, cached, mem, buffer, flight, epoch, held, leased,
                     fenced, seq, snapSeq, acked, mishaps>>
      /\ lapsed' \in BOOLEAN
  BY <1>0 DEF Expire, vars, store, leasing, loop, TypeOK
<1>2. Replayed(manifest)' = Replayed(manifest) /\ Named(manifest)' = Named(manifest)
  BY <1>1 DEF Replayed, Named
<1>3. \A p \in Procs : /\ Named(cached[p])' = Named(cached[p]) /\ Built(p, Target(p))' = Built(p, Target(p))
                       /\ (Runs(p)' <=> Runs(p)) /\ (Up(p)' <=> Up(p)) /\ (Unchanged(p)' <=> Unchanged(p))
  BY <1>1 DEF Named, Built, Target, WithSegment, WithSnapshot, WithoutGone, Runs, Up, Unchanged
<1>4. TypeOK'
  BY <1>0, <1>1 DEF TypeOK
<1>5. Sole'
  BY <1>0, <1>1, <1>3 DEF Sole, Bare
<1>6. Leases'
  BY <1>0, <1>1 DEF Leases
<1>7. Names'
  <2>1. \A k : Known(k)' <=> Known(k)
    BY <1>1, <1>2, <1>3 DEF Known, Listed
  <2> QED BY <1>0, <1>1, <2>1 DEF Names, Fresh
<1>8. Etags'
  BY <1>0, <1>1, <1>3 DEF Etags
<1>9. Lists'
  BY <1>0, <1>1, <1>2, <1>3 DEF Lists, NamedExists, Listed
<1>10. Content'
  BY <1>0, <1>1, <1>2, <1>3 DEF Content, Current
<1> QED BY <1>4, <1>5, <1>6, <1>7, <1>8, <1>9, <1>10 DEF ObjIInv

\* Every step keeps it.
LEMMA ObjStep ==
  ASSUME ~Overlap, ~GivesUp, ObjIInv, [Next]_vars PROVE ObjIInv'
<1>0. TypeOK /\ Sole /\ Leases /\ Names /\ Etags /\ Lists /\ Content
  BY DEF ObjIInv
<1>1. CASE Expire \/ UNCHANGED vars
  BY <1>1, IdleStep
<1>2. ASSUME NEW p \in Procs, Acts(p), Next PROVE ObjIInv'
  <2>1. Alone(p) /\ Kinds(p)
    BY <1>0, <1>2, ActsAlone, ActsKinds
  <2>2. TypeOK' /\ Sole' /\ Leases' /\ Names'
    BY <1>0, <1>2, TypeStep, SoleStep, LeasesStep, NamesStep
  <2>3. Etags' /\ Lists'
    BY <2>1, EtagsStep, ListsStep
  <2>4. Content'
    BY <2>1, <2>3, ContentStep
  <2> QED BY <2>2, <2>3, <2>4 DEF ObjIInv
<1> QED BY <1>1, <1>2, NextActs

\* The invariant of the runs: what the manifest names is there, and a process that may
\* still commit has all that is stored in memory (doCommit, index.ts:425-471).
THEOREM RoomAlwaysKept ==
  ASSUME ~Overlap, ~GivesUp PROVE Spec => []RoomIsKept
<1>1. Init => ObjIInv
  BY ObjInit
<1>2. ObjIInv /\ [Next]_vars => ObjIInv'
  BY ObjStep
<1>3. ObjIInv => RoomIsKept
  <2> SUFFICES ASSUME ObjIInv PROVE RoomIsKept
    OBVIOUS
  <2>1. TypeOK /\ NamedExists /\ Content
    BY DEF ObjIInv, Lists
  <2>2. AuthoritativeMemory
    BY <2>1, ContentIs DEF AuthoritativeMemory, RowsOf, CurrentRow, Current
  <2> QED BY <2>1, <2>2 DEF RoomIsKept
<1> QED BY <1>1, <1>2, <1>3, PTL DEF Spec

\* What is acknowledged survives every crash: who boots finds it.
THEOREM AckedAlwaysStored ==
  ASSUME ~Overlap, ~GivesUp PROVE Spec => []AckedIsStored
<1>1. ObjIInv => AckedIsStored
  BY DEF ObjIInv, Content, AckedIsStored
<1>2. ObjIInv /\ [Next]_vars => ObjIInv'
  BY ObjStep
<1> QED BY <1>1, <1>2, ObjInit, PTL DEF Spec

\* No name is PUT twice with different bodies: the epoch of a name is that of one
\* process, which counts (wal.ts:426-440).
THEOREM NamesAreUsedOnce ==
  ASSUME ~Overlap, ~GivesUp PROVE Spec => WriteOnce
<1>1. ObjIInv /\ [Next]_vars => \A k \in DOMAIN objects \cap DOMAIN objects' : objects'[k] = objects[k]
  <2> SUFFICES ASSUME ObjIInv, [Next]_vars, NEW k \in DOMAIN objects \cap DOMAIN objects'
               PROVE  objects'[k] = objects[k]
    OBVIOUS
  <2>1. Known(k)
    BY DEF Known
  <2>2. CASE Expire \/ UNCHANGED vars
    BY <2>2 DEF Expire, vars, store
  <2>3. ASSUME NEW p \in Procs, Acts(p) PROVE objects'[k] = objects[k]
    <3>1. Kinds(p)
      BY <2>3, ActsKinds DEF ObjIInv
    <3> QED BY <2>1, <3>1, OnceWritten
  <2> QED BY <2>2, <2>3, NextActs
<1>2. ObjIInv /\ [Next]_vars => ObjIInv'
  BY ObjStep
<1> QED BY <1>1, <1>2, ObjInit, PTL DEF Spec, WriteOnce

\* The room is a durable store: each step stores, acknowledges what is stored, or
\* does neither.
THEOREM RoomIsDurable ==
  ASSUME ~Overlap, ~GivesUp PROVE Spec => ImplementsDurable
<1>1. Init => Durable!Init
  BY DEF Init, Durable!Init, Replayed, Empty
<1>2. ObjIInv /\ [Next]_vars => [Durable!Next]_<<Replayed(manifest), acked>>
  <2> SUFFICES ASSUME ObjIInv, [Next]_vars PROVE [Durable!Next]_<<Replayed(manifest), acked>>
    OBVIOUS
  <2>1. CASE Expire \/ UNCHANGED vars
    BY <2>1 DEF Expire, vars, store, Replayed
  <2>2. ASSUME NEW p \in Procs, Acts(p), ObjIInv'
        PROVE  Durable!Next
    <3>1. Alone(p) /\ Kinds(p) /\ Lists'
      BY <2>2, ActsAlone, ActsKinds DEF ObjIInv
    <3>2. acked \subseteq acked' /\ acked' \subseteq Replayed(manifest)'
      BY <3>1, AckedStep
    <3>3. Replayed(manifest)' \in SUBSET Records
      <4>1. TypeOK' /\ NamedExists'
        BY <2>2 DEF ObjIInv, Lists
      <4>2. (Replayed(manifest) \in Row)'
        BY <4>1, StoredTyped, PTL
      <4> QED BY <4>2 DEF Row
    <3>4. Durable!Write(Replayed(manifest)')
      <4>1. acked' = acked \cup (acked' \ acked)
        BY <3>2
      <4> QED BY <3>2, <4>1 DEF Durable!Write
    <3> QED BY <3>3, <3>4 DEF Durable!Next
  <2> QED BY <2>1, <2>2, NextActs, ObjStep
<1>3. ObjIInv /\ [Next]_vars => ObjIInv'
  BY ObjStep
<1> QED BY <1>1, <1>2, <1>3, ObjInit, PTL DEF Spec, ImplementsDurable, Durable!Spec
=============================================================================
