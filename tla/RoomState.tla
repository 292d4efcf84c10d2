----------------------------- MODULE RoomState -----------------------------
(*************************************************************************)
(* What a room of the object storage backend keeps in memory             *)
(* (src/server/storage/object/state.ts): the rows, the ring of recent    *)
(* ops, the reserved op ids and their bytes, against the memory limit;   *)
(* and how a boot makes it again from a snapshot and the log (index.ts). *)
(*                                                                       *)
(* One room, one writer.  The log is the records in the order the memory *)
(* was changed; a prefix of it is in segments (wal.ts).  How segments    *)
(* and manifest come to be stored is ObjectStorage.                      *)
(*************************************************************************)
EXTENDS Naturals, Sequences, FiniteSets, FiniteSetsExt

CONSTANTS Cells,        \* the rows
          Stamps,       \* HLCs, numbers
          OpIds,        \* ids to reserve
          RowBytes, OpBytes, IdBytes,   \* what each is charged
          MaxRoomBytes, \* memory.maxRoomBytes
          IdRetention,    \* OP_ID_RETENTION_MS
          RoomBounds    \* bounds: a set of [writes, reserves, ticks, snaps, cuts, crashes, faults]

ASSUME RoomAssumption ==
  /\ Stamps \subseteq Nat \ {0}
  /\ {RowBytes, OpBytes, IdBytes, MaxRoomBytes, IdRetention} \subseteq Nat \ {0}
  /\ \A b \in RoomBounds : \A k \in DOMAIN b : b[k] \in Nat

VARIABLES
  mode,      \* "up", or booting: "boot"
  rows,      \* the value and the stamp of each row, a write's number; 0: none
  ring,      \* the op ring: stamps, in order
  reservedAt,  \* op id -> when
  bytes,     \* roomBytes
  highest,   \* highestHlc
  roomNow,
  log,       \* the records
  flushed,   \* how many of them are in segments
  baseSnapshot,      \* the snapshot: [rows, ids, hlc, from]; from: the records it replaced
  roomCutoff,    \* meta.compactionCutoff
  replayed,  \* while booting: the records replayed
  grantedAt,   \* history: when each id was last granted
  strayed,   \* history: an id was reserved and refused its bytes
  redone,    \* history: a boot without a snapshot failed half-way
  roomLeft

roomVars == <<mode, rows, ring, reservedAt, bytes, highest, roomNow, log, flushed, baseSnapshot, roomCutoff,
              replayed, grantedAt, strayed, redone, roomLeft>>

NoSnapshot == [rows |-> [x \in Cells |-> 0], ids |-> <<>>, hlc |-> 0, from |-> 0]
NoCells      == [x \in Cells |-> 0]

RoomInit ==
  /\ mode = "up" /\ rows = NoCells /\ ring = <<>> /\ reservedAt = <<>> /\ bytes = 0 /\ highest = 0
  /\ roomNow = 0 /\ log = <<>> /\ flushed = 0 /\ baseSnapshot = NoSnapshot /\ roomCutoff = 0 /\ replayed = 0
  /\ grantedAt = [i \in OpIds |-> 0] /\ strayed = FALSE /\ redone = FALSE /\ roomLeft \in RoomBounds

Charge(k) == roomLeft[k] > 0 /\ roomLeft' = [roomLeft EXCEPT ![k] = @ - 1]

Higher(a, b) == IF a > b THEN a ELSE b
With(f, k, v) == [x \in DOMAIN f \cup {k} |-> IF x = k THEN v ELSE f[x]]
Keeping(f, S) == [x \in DOMAIN f \cap S |-> f[x]]

---------------------------------------------------------------------------
(* The parts of the memory.                                                *)

\* appendOp: behind the last op that is not newer.
Pushed(s, h) == SelectSeq(s, LAMBDA g : g <= h) \o <<h>> \o SelectSeq(s, LAMBDA g : g > h)

\* A row replaced is growth by nothing, one deleted is refunded.
RowDelta(m, r) == <<IF r.value # 0 THEN RowBytes ELSE 0, IF m[r.cell] # 0 THEN RowBytes ELSE 0>>

OpCost(r) == IF r.kind \in {"op", "apply"} THEN OpBytes ELSE 0

Sized(d, b) == IF b + d[1] < d[2] THEN 0 ELSE (b + d[1]) - d[2]
Growth(r)   == LET d == RowDelta(rows, r) IN d[1] + OpCost(r) > d[2]
Admitted(r) ==
  LET d == RowDelta(rows, r) IN Growth(r) => bytes + d[1] + OpCost(r) <= MaxRoomBytes + d[2]

\* applyRecord, which the live writes share.
AppliedRecord(r) ==
  /\ rows' = IF r.kind \in {"row", "apply"} THEN [rows EXCEPT ![r.cell] = r.value] ELSE rows
  /\ ring' = IF r.kind \in {"op", "apply"} THEN Pushed(ring, r.hlc) ELSE ring
  /\ bytes' = IF r.kind = "op" THEN bytes + OpBytes
              ELSE Sized(RowDelta(rows, r), bytes) + OpCost(r)
  /\ highest' = Higher(highest, r.hlc)

---------------------------------------------------------------------------
(* The live room.                                                          *)

\* putRow, appendOp, applyOp: refused before anything changes, or done whole.
WriteRecord(kind, x, h, gone) ==
  /\ mode = "up" /\ Charge("writes")
  /\ \A n \in DOMAIN log : log[n].hlc # h
  /\ kind = "row" => ~ gone
  /\ LET r == [kind |-> kind, cell |-> x, hlc |-> h, id |-> "", at |-> 0,
               value |-> IF gone THEN 0 ELSE h]
     IN Admitted(r) /\ AppliedRecord(r) /\ log' = Append(log, r)
  /\ UNCHANGED <<mode, reservedAt, roomNow, flushed, baseSnapshot, roomCutoff, replayed, grantedAt, strayed, redone>>

Expired(at) == at + IdRetention < roomNow

\* reserveOp: swept at times, set, and then charged.  The charge may be refused,
\* and the id stays.  The record rides with the next batch, if there is room.
ReserveId(i) ==
  /\ mode = "up" /\ Charge("reserves")
  /\ \E kept \in {DOMAIN reservedAt, {j \in DOMAIN reservedAt : ~ Expired(reservedAt[j])}} :
       LET freed == Cardinality(DOMAIN reservedAt \ kept) * IdBytes
           b     == IF freed > bytes THEN 0 ELSE bytes - freed
           ids   == Keeping(reservedAt, kept)
       IN IF i \in kept
          THEN /\ reservedAt' = ids /\ bytes' = b
               /\ UNCHANGED <<log, strayed, grantedAt>>
          ELSE /\ reservedAt' = With(ids, i, roomNow) /\ grantedAt' = [grantedAt EXCEPT ![i] = roomNow]
               /\ IF b + IdBytes > MaxRoomBytes
                  THEN bytes' = b /\ strayed' = TRUE /\ UNCHANGED log
                  ELSE /\ bytes' = b + IdBytes
                       /\ log' = Append(log, [kind |-> "reserve", cell |-> CHOOSE x \in Cells : TRUE,
                                              hlc |-> 0, value |-> 0, id |-> i, at |-> roomNow])
                       /\ UNCHANGED strayed
  /\ UNCHANGED <<mode, rows, ring, highest, roomNow, flushed, baseSnapshot, roomCutoff, replayed, redone>>

\* CompactionManager.runCompaction: the cutoff, then deleteOpsBefore.
CutOps(h) ==
  /\ mode = "up" /\ h > roomCutoff /\ Charge("cuts")
  /\ roomCutoff' = h
  /\ ring' = SelectSeq(ring, LAMBDA g : g >= h)
  /\ bytes' = bytes - OpBytes * (Len(ring) - Len(ring'))
  /\ UNCHANGED <<mode, rows, reservedAt, highest, roomNow, log, flushed, baseSnapshot, replayed, grantedAt, strayed, redone>>

\* A batch commits.
FlushLog ==
  /\ mode = "up" /\ \E n \in flushed + 1 .. Len(log) : flushed' = n
  /\ UNCHANGED <<mode, rows, ring, reservedAt, bytes, highest, roomNow, log, baseSnapshot, roomCutoff, replayed,
                 grantedAt, strayed, redone, roomLeft>>

\* Mutant: ops below a snapshot are taken to be still there.
CutoffKept == roomCutoff

\* What makes ops unavailable moves the cutoff.
CutoffAfter == Higher(roomCutoff, highest)

\* compactIfDue, after a flush: the memory as it is, records not yet flushed
\* with it, replaces the segments there are.
TakeSnapshot ==
  /\ mode = "up" /\ flushed > baseSnapshot.from /\ Charge("snaps")
  /\ baseSnapshot' = [rows |-> rows, hlc |-> highest, from |-> flushed,
              ids |-> Keeping(reservedAt, {i \in DOMAIN reservedAt : ~ Expired(reservedAt[i])})]
  /\ roomCutoff' = CutoffAfter
  /\ UNCHANGED <<mode, rows, ring, reservedAt, bytes, highest, roomNow, log, flushed, replayed, grantedAt, strayed,
                 redone>>

TickRoom ==
  /\ Charge("ticks")
  /\ roomNow' = roomNow + 1
  /\ UNCHANGED <<mode, rows, ring, reservedAt, bytes, highest, log, flushed, baseSnapshot, roomCutoff, replayed,
                 grantedAt, strayed, redone>>

---------------------------------------------------------------------------
(* Crash and boot.                                                         *)

HasSnapshot == baseSnapshot.from > 0

\* loadSnapshot resets the memory; without one a boot adds to what is there.
LoadBase ==
  IF HasSnapshot
  THEN /\ rows' = baseSnapshot.rows /\ ring' = <<>> /\ highest' = baseSnapshot.hlc
       /\ reservedAt' = Keeping(baseSnapshot.ids, {i \in DOMAIN baseSnapshot.ids : ~ Expired(baseSnapshot.ids[i])})
       /\ bytes' = RowBytes * Cardinality({x \in Cells : baseSnapshot.rows[x] # 0})
                   + IdBytes * Cardinality(DOMAIN reservedAt')
  ELSE UNCHANGED <<rows, ring, highest, reservedAt, bytes>>

CrashRoom ==
  /\ Charge("crashes")
  /\ mode' = "boot" /\ replayed' = baseSnapshot.from /\ log' = SubSeq(log, 1, flushed)
  /\ IF HasSnapshot THEN LoadBase
     ELSE rows' = NoCells /\ ring' = <<>> /\ highest' = 0 /\ reservedAt' = <<>> /\ bytes' = 0
  /\ strayed' = FALSE /\ redone' = FALSE
  /\ UNCHANGED <<roomNow, flushed, baseSnapshot, roomCutoff, grantedAt>>

\* With the time it was first seen.
Restored(r) == r.at

\* Every record of every segment listed.
Replays(r) == TRUE

\* The next record, as applyRecord has it; a reservation keeps its earliest time.
Replay ==
  /\ mode = "boot" /\ replayed < flushed
  /\ LET r  == log[replayed + 1]
         at == Restored(r)
     IN CASE ~ Replays(r) -> UNCHANGED <<rows, ring, reservedAt, bytes, highest>>
          [] Replays(r) /\ r.kind = "reserve" ->
               /\ IF Expired(at) \/ (r.id \in DOMAIN reservedAt /\ reservedAt[r.id] <= at)
                  THEN UNCHANGED <<reservedAt, bytes>>
                  ELSE /\ reservedAt' = With(reservedAt, r.id, at)
                       /\ bytes' = IF r.id \in DOMAIN reservedAt THEN bytes ELSE bytes + IdBytes
                       /\ bytes' <= MaxRoomBytes
               /\ UNCHANGED <<rows, ring, highest>>
          [] OTHER -> Admitted(r) /\ AppliedRecord(r) /\ UNCHANGED reservedAt
  /\ replayed' = replayed + 1
  /\ UNCHANGED <<mode, roomNow, log, flushed, baseSnapshot, roomCutoff, grantedAt, strayed, redone, roomLeft>>

\* A GET fails; the next call boots again.
BootFails ==
  /\ mode = "boot" /\ replayed < flushed /\ Charge("faults")
  /\ replayed' = baseSnapshot.from
  /\ LoadBase
  /\ redone' = (redone \/ (~ HasSnapshot /\ replayed > 0))
  /\ UNCHANGED <<mode, roomNow, log, flushed, baseSnapshot, roomCutoff, grantedAt, strayed>>

BootEnds ==
  /\ mode = "boot" /\ replayed = flushed
  /\ mode' = "up"
  /\ UNCHANGED <<rows, ring, reservedAt, bytes, highest, roomNow, log, flushed, baseSnapshot, roomCutoff, replayed,
                 grantedAt, strayed, redone, roomLeft>>

---------------------------------------------------------------------------
RoomNext ==
  \/ \E x \in Cells, h \in Stamps, kind \in {"row", "apply"}, gone \in BOOLEAN :
       WriteRecord(kind, x, h, gone)
  \/ \E i \in OpIds : ReserveId(i)
  \/ \E h \in Stamps : CutOps(h)
  \/ FlushLog \/ TakeSnapshot \/ TickRoom
  \/ CrashRoom \/ Replay \/ BootFails \/ BootEnds

RoomSpec == RoomInit /\ [][RoomNext]_roomVars

---------------------------------------------------------------------------
Ordered(s) == \A m, n \in DOMAIN s : m < n => s[m] <= s[n]

\* The ring is in order, as the binary search of getOpsSince needs, and holds no
\* op twice unless a boot was done again over what it had replayed.
RoomTypeOK ==
  /\ mode \in {"up", "boot"} /\ bytes \in Nat
  /\ flushed <= Len(log) /\ baseSnapshot.from <= flushed
  /\ Ordered(ring)
  /\ redone \/ \A m, n \in DOMAIN ring : m # n => ring[m] # ring[n]

\* The limit is held against what the room holds (state.ts: "Charged to the
\* budget on insert, refunded on replace or delete"): but for an id that was
\* refused its bytes and kept all the same.
BytesAreHeld ==
  ~ strayed =>
    /\ bytes = RowBytes * Cardinality({x \in Cells : rows[x] # 0}) + OpBytes * Len(ring)
               + IdBytes * Cardinality(DOMAIN reservedAt)
    /\ bytes <= MaxRoomBytes

LastWrite(x) ==
  LET W == {n \in 1..flushed : log[n].kind # "reserve" /\ log[n].cell = x}
  IN IF W = {} THEN 0 ELSE log[Max(W)].value

\* A room that has booted has, in each row, the last write that was flushed; the
\* snapshot may hold a newer one that was not (state.ts: "replaying any suffix of
\* the log on top of any point-in-time snapshot converges on the same state").
ReplayConverges ==
  mode = "up" /\ Len(log) = flushed =>
    \A x \in Cells :
      \/ rows[x] = LastWrite(x)
      \/ rows[x] = baseSnapshot.rows[x] /\ \A n \in baseSnapshot.from + 1 .. flushed :
                                      log[n].kind = "reserve" \/ log[n].cell # x

\* An op newer than the cutoff is in the ring: a client at or past the cutoff
\* misses nothing (index.ts, compactIfDue).
ResumeIsComplete ==
  mode = "up" =>
    \A n \in DOMAIN log :
      log[n].kind = "apply" /\ log[n].hlc > roomCutoff => \E m \in DOMAIN ring : ring[m] = log[n].hlc

\* An id reserved, and flushed, is refused for the time of its window, and no
\* restart makes that time longer.
WindowIsKept ==
  mode = "up" =>
    /\ \A n \in 1..flushed :
         log[n].kind = "reserve" /\ ~ Expired(log[n].at) => log[n].id \in DOMAIN reservedAt
    /\ \A i \in DOMAIN reservedAt : reservedAt[i] <= grantedAt[i]

\* The memory of a room: its byte count is that of what it holds, a replay of
\* snapshot and segments gives the same rows, a resume is complete or refused,
\* and an op id in its window is known.
\* Each as stated above.
RoomInv == RoomTypeOK /\ BytesAreHeld /\ ReplayConverges /\ ResumeIsComplete /\ WindowIsKept
=============================================================================
