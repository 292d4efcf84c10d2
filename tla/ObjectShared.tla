---------------------------- MODULE ObjectShared ----------------------------
(*************************************************************************)
(* A room in an object store shared by equal instances, `concurrency:    *)
(* "optimistic"` of src/server/storage/object: no lease, every instance  *)
(* writes, and the conditional PUT of the manifest decides each commit.  *)
(* The loser reads the winner's manifest and applies its change to that. *)
(*                                                                       *)
(* What an instance has in memory is what it booted with, its own        *)
(* writes, and what refresh() folded in: it may be behind the manifest   *)
(* it commits against.  The memory is the set of the writes it reflects. *)
(* The default mode, with a lease, is ObjectStorage.                     *)
(*************************************************************************)
EXTENDS Naturals, Sequences, FiniteSets

CONSTANTS Instances,     \* each boots once, under a writerId of its own
          Cards,         \* the writes
          Author,        \* the instance each write is made at
          SharedAfter,   \* compaction.afterSegments
          MaxAttempts,   \* OPTIMISTIC_MAX_ATTEMPTS
          SharedBounds   \* choices of [writes, faults, refreshes, graces]

ASSUME SharedAssumption ==
  /\ Author \in [Cards -> Instances]
  /\ SharedAfter \in Nat \ {0} /\ MaxAttempts \in Nat \ {0}
  /\ SharedBounds \subseteq [writes : Nat, faults : Nat, refreshes : Nat, graces : Nat]

VARIABLES
  index,      \* the store: the manifest
  stored,     \* the store: segments and snapshots, the writes each holds
  stage,      \* where the flush loop of each instance is
  known,      \* the manifest as the instance knows it
  memory,     \* the writes its memory reflects
  waiting,    \* its buffer
  names,      \* the next number of its segments and of its snapshots
  going,      \* what the loop is committing
  folded,     \* appliedSegments
  base,       \* appliedSnapshotKey
  fetching,   \* objects a boot or a refresh has yet to look at: [key, always]
  aged,       \* superseded objects past their grace
  settled,    \* history: acknowledged writes
  aimed,      \* history: per instance, what its last refresh was to bring
  overlooked, \* history: writes a compaction replaced without having them, or
              \* acknowledged on the strength of an earlier commit of the same
              \* instance (the run ObjAdopt)
  sharedLeft

sharedVars == <<index, stored, stage, known, memory, waiting, names, going, folded, base,
                fetching, aged, settled, aimed, overlooked, sharedLeft>>

Fresh   == [seq |-> 0, by |-> "none", segs |-> <<>>, snap |-> <<>>, gc |-> {}]
NoFlight == [key |-> <<>>, n |-> 0, tries |-> 0, gone |-> {}]

SharedInit ==
  /\ index = Fresh /\ stored = <<>>
  /\ stage = [p \in Instances |-> "down"]
  /\ known = [p \in Instances |-> Fresh]
  /\ memory = [p \in Instances |-> {}]
  /\ waiting = [p \in Instances |-> <<>>]
  /\ names = [p \in Instances |-> [wal |-> 0, snap |-> 0]]
  /\ going = [p \in Instances |-> NoFlight]
  /\ folded = [p \in Instances |-> {}]
  /\ base = [p \in Instances |-> <<>>]
  /\ fetching = [p \in Instances |-> <<>>]
  /\ aged = {} /\ settled = {} /\ aimed = [p \in Instances |-> {}] /\ overlooked = {}
  /\ sharedLeft \in SharedBounds

Spend(k) == sharedLeft[k] > 0 /\ sharedLeft' = [sharedLeft EXCEPT ![k] = @ - 1]

SegKeys(m)  == {m.segs[k] : k \in DOMAIN m.segs}
LiveKeys(m) == SegKeys(m) \cup (IF m.snap = <<>> THEN {} ELSE {m.snap})

\* The writes a manifest stands for.
Reflects(m) == UNION {stored[k] : k \in LiveKeys(m) \cap DOMAIN stored}

Put(k, body) == stored' = [x \in DOMAIN stored \cup {k} |-> IF x = k THEN body ELSE stored[x]]

Ready(p) == stage[p] \notin {"down", "boot"}
To(p, s, f) == stage' = [stage EXCEPT ![p] = s] /\ going' = [going EXCEPT ![p] = f]

---------------------------------------------------------------------------
(* Boot and refresh.                                                       *)

\* The segments of a manifest, in order, to be taken in all or only where new.
Listing(m, always) == [i \in DOMAIN m.segs |-> [key |-> m.segs[i], always |-> always]]

\* The snapshot first, then every segment.
Everything(m) ==
  (IF m.snap = <<>> THEN <<>> ELSE <<[key |-> m.snap, always |-> TRUE]>>) \o Listing(m, TRUE)

\* What a refresh passes over: what is folded in already, or one's own.
Skips(p, f) == ~ f.always /\ (f.key \in folded[p] \/ f.key[2] = p)

\* A snapshot other than the one the memory started from: everything again.
Rebuilds(p, m) == m.snap # <<>> /\ m.snap # base[p]

ReadIndex(p, list) ==
  /\ known' = [known EXCEPT ![p] = index]
  /\ fetching' = [fetching EXCEPT ![p] = list]
  /\ aimed' = [aimed EXCEPT ![p] = Reflects(index)]

\* boot: the manifest, then everything it names.
BootShared(p) ==
  /\ stage[p] = "down"
  /\ ReadIndex(p, Everything(index))
  /\ stage' = [stage EXCEPT ![p] = "boot"]
  /\ UNCHANGED <<aged, index, stored, memory, waiting, names, going, folded, base, settled,
                 overlooked, sharedLeft>>

\* refresh: called by the application when it likes.
Refresh(p) ==
  /\ Ready(p) /\ fetching[p] = <<>> /\ Spend("refreshes")
  /\ ReadIndex(p, IF Rebuilds(p, index) THEN Everything(index) ELSE Listing(index, FALSE))
  /\ UNCHANGED <<aged, index, stored, stage, memory, waiting, names, going, folded, base, settled,
                 overlooked>>

\* A segment the refresh has no need of.
HasAlready(p) ==
  /\ fetching[p] # <<>> /\ Skips(p, Head(fetching[p]))
  /\ fetching' = [fetching EXCEPT ![p] = Tail(@)]
  /\ UNCHANGED <<aged, index, stored, stage, known, memory, waiting, names, going, folded, base,
                 settled, aimed, overlooked, sharedLeft>>

\* One object: a snapshot replaces the memory, a segment adds to it.
Fetch(p) ==
  /\ fetching[p] # <<>> /\ ~ Skips(p, Head(fetching[p]))
  /\ LET k == Head(fetching[p]).key
     IN /\ k \in DOMAIN stored
        /\ memory' = [memory EXCEPT ![p] = stored[k] \cup (IF k[1] = "snap" THEN {} ELSE @)]
        /\ folded' = [folded EXCEPT ![p] = IF k[1] = "snap" THEN {} ELSE @ \cup {k}]
        /\ base' = [base EXCEPT ![p] = IF k[1] = "snap" THEN k ELSE @]
  /\ fetching' = [fetching EXCEPT ![p] = Tail(@)]
  /\ UNCHANGED <<aged, index, stored, stage, known, waiting, names, going, settled, aimed,
                 overlooked, sharedLeft>>

\* One that is gone (listed twice, so collected without a second grace) ends the
\* boot, which begins again, or the refresh, half-way.
FetchFails(p) ==
  /\ fetching[p] # <<>> /\ ~ Skips(p, Head(fetching[p]))
  /\ Head(fetching[p]).key \notin DOMAIN stored
  /\ fetching' = [fetching EXCEPT ![p] = <<>>]
  /\ stage' = [stage EXCEPT ![p] = IF @ = "boot" THEN "down" ELSE @]
  /\ aimed' = [aimed EXCEPT ![p] = {}]
  /\ UNCHANGED <<aged, index, stored, known, memory, waiting, names, going, folded, base,
                 settled, overlooked, sharedLeft>>

Booted(p) ==
  /\ stage[p] = "boot" /\ fetching[p] = <<>>
  /\ stage' = [stage EXCEPT ![p] = "idle"]
  /\ UNCHANGED <<aged, index, stored, known, memory, waiting, names, going, folded, base, fetching,
                 settled, aimed, overlooked, sharedLeft>>

---------------------------------------------------------------------------
(* Writes and the flush loop.                                              *)

Submitted == UNION {memory[p] : p \in Instances} \cup UNION {stored[k] : k \in DOMAIN stored}
             \cup UNION {{waiting[p][n] : n \in DOMAIN waiting[p]} : p \in Instances}

\* Memory first, and the buffer with it.
Write(p, c) ==
  /\ Ready(p) /\ Author[c] = p /\ c \notin Submitted /\ c \notin overlooked
  /\ Spend("writes")
  /\ memory' = [memory EXCEPT ![p] = @ \cup {c}]
  /\ waiting' = [waiting EXCEPT ![p] = Append(@, c)]
  /\ UNCHANGED <<aged, index, stored, stage, known, names, going, folded, base, fetching, settled,
                 aimed, overlooked>>

Some(p) == {waiting[p][n] : n \in 1..going[p].n}

\* A name of one's own, used once.
SegmentKey(p) == <<"wal", p, names[p].wal>>

\* flushOnce: the segment is PUT; the PUT may fail, having taken effect or not.
FlushSegment(p) ==
  /\ stage[p] = "idle" /\ waiting[p] # <<>>
  /\ names' = [names EXCEPT ![p].wal = @ + 1]
  /\ \E n \in 1..Len(waiting[p]) :
       LET k == SegmentKey(p)
           body == {waiting[p][m] : m \in 1..n}
       IN \/ Put(k, body) /\ To(p, "segment", [NoFlight EXCEPT !.key = k, !.n = n]) /\ UNCHANGED sharedLeft
          \/ (Put(k, body) \/ UNCHANGED stored) /\ UNCHANGED <<stage, going>> /\ Spend("faults")
  /\ UNCHANGED <<aged, index, known, memory, waiting, folded, base, fetching, settled, aimed, overlooked>>

\* The manifest the loop wants: made again from whatever it now knows.
Wanted(p) ==
  LET m == known[p]
      f == going[p]
  IN [CASE stage[p] = "segment" -> [m EXCEPT !.segs = Append(@, f.key)]
        [] stage[p] = "swap"    -> [m EXCEPT !.gc = @ \cup LiveKeys(m), !.segs = <<>>, !.snap = f.key]
        [] OTHER                -> [m EXCEPT !.gc = @ \ f.gone]
      EXCEPT !.seq = known[p].seq + 1, !.by = p]

\* After the commit.
Concluded(p) ==
  CASE stage[p] = "segment" ->
         /\ settled' = settled \cup Some(p)
         /\ waiting' = [waiting EXCEPT ![p] = SubSeq(@, going[p].n + 1, Len(@))]
         /\ To(p, "maintain", NoFlight)
         /\ UNCHANGED <<folded, base>>
    [] stage[p] = "swap" ->
         /\ folded' = [folded EXCEPT ![p] = {}]
         /\ base' = [base EXCEPT ![p] = going[p].key]
         /\ To(p, "collect", NoFlight)
         /\ UNCHANGED <<settled, waiting>>
    [] OTHER -> To(p, "idle", NoFlight) /\ UNCHANGED <<settled, waiting, folded, base>>

\* The conditional PUT: it takes effect, and its answer arrives or does not; in
\* that case the driver tries again, or has given up.
CommitShared(p) ==
  /\ stage[p] \in {"segment", "swap", "forget"}
  /\ index.seq = known[p].seq
  /\ index' = Wanted(p)
  /\ overlooked' = overlooked \cup
       (IF stage[p] = "swap" THEN Reflects(index) \ stored[going[p].key] ELSE {})
  /\ \/ Concluded(p) /\ known' = [known EXCEPT ![p] = index'] /\ UNCHANGED sharedLeft
     \/ /\ Spend("faults")
        /\ UNCHANGED <<stage, going>> \/ To(p, "idle", NoFlight)
        /\ UNCHANGED <<known, settled, waiting, folded, base>>
  /\ UNCHANGED <<aged, stored, memory, names, fetching, aimed>>

\* Mutant: any manifest with the number that was tried passes for one's own.
AdoptsByNumber(p) == index.seq = known[p].seq + 1

\* adoptOwnCommit.
Adopts(p) == index.seq = known[p].seq + 1 /\ index.by = p

\* A 412: it was this instance's own, or another's, which the next attempt
\* builds on; after MaxAttempts the flush or the maintenance fails.
Contended(p) ==
  /\ stage[p] \in {"segment", "swap", "forget"}
  /\ index.seq # known[p].seq
  /\ known' = [known EXCEPT ![p] = index]
  /\ overlooked' = overlooked \cup
       (IF Adopts(p) /\ index.by = p THEN Some(p) \ Reflects(index) ELSE {})
  /\ IF Adopts(p) THEN Concluded(p)
     ELSE /\ IF going[p].tries + 1 < MaxAttempts
             THEN going' = [going EXCEPT ![p].tries = @ + 1] /\ UNCHANGED stage
             ELSE To(p, "idle", NoFlight)
          /\ UNCHANGED <<settled, waiting, folded, base>>
  /\ UNCHANGED <<aged, index, stored, memory, names, fetching, aimed, sharedLeft>>

---------------------------------------------------------------------------
(* Maintenance, after each flush.                                          *)

SnapshotKey(p) == <<"snap", p, names[p].snap>>

\* compactIfDue, by what this instance knows; the snapshot is its memory.
Compact(p) ==
  /\ stage[p] = "maintain" /\ Len(known[p].segs) >= SharedAfter
  /\ Put(SnapshotKey(p), memory[p])
  /\ names' = [names EXCEPT ![p].snap = @ + 1]
  /\ To(p, "swap", [NoFlight EXCEPT !.key = SnapshotKey(p)])
  /\ UNCHANGED <<aged, index, known, memory, waiting, folded, base, fetching, settled, aimed,
                 overlooked, sharedLeft>>

NotDue(p) ==
  /\ stage[p] = "maintain" /\ Len(known[p].segs) < SharedAfter
  /\ To(p, "collect", NoFlight)
  /\ UNCHANGED <<aged, index, stored, known, memory, waiting, names, folded, base, fetching, settled,
                 aimed, overlooked, sharedLeft>>

Deletable(p, S) == S \ LiveKeys(known[p])

\* gcGraceMs passes.  It is longer than a commit or a read under way lasts.
Grace ==
  /\ \A p \in Instances : stage[p] \in {"down", "idle"} /\ fetching[p] = <<>>
  /\ ~ (index.gc \subseteq aged) /\ Spend("graces")
  /\ aged' = index.gc
  /\ UNCHANGED <<index, stored, stage, known, memory, waiting, names, going, folded, base,
                 fetching, settled, aimed, overlooked>>

\* collectGarbage: what is past its grace, as far as this instance knows.
CollectShared(p) ==
  /\ stage[p] = "collect"
  /\ LET due == known[p].gc \cap aged
     IN IF due = {} THEN To(p, "idle", NoFlight) /\ UNCHANGED stored
        ELSE /\ stored' = [k \in DOMAIN stored \ Deletable(p, due) |-> stored[k]]
             /\ To(p, "forget", [NoFlight EXCEPT !.gone = due])
  /\ UNCHANGED <<aged, index, known, memory, waiting, names, folded, base, fetching, settled,
                 aimed, overlooked, sharedLeft>>

---------------------------------------------------------------------------
SharedNext ==
  \/ Grace
  \/ \E p \in Instances :
      \/ BootShared(p) \/ Refresh(p) \/ HasAlready(p) \/ Fetch(p) \/ FetchFails(p) \/ Booted(p)
      \/ \E c \in Cards : Write(p, c)
      \/ FlushSegment(p) \/ CommitShared(p) \/ Contended(p)
      \/ Compact(p) \/ NotDue(p) \/ CollectShared(p)

SharedSpec == SharedInit /\ [][SharedNext]_sharedVars

---------------------------------------------------------------------------
SharedTypeOK ==
  /\ LiveKeys(index) \subseteq DOMAIN stored     \* what is named exists
  /\ \A p \in Instances :
       /\ memory[p] \subseteq Cards /\ known[p].seq <= index.seq
       /\ going[p].n <= Len(waiting[p]) /\ going[p].tries < MaxAttempts

\* An acknowledged write is in the manifest, but for the two losses the README
\* records: a rival's commit is never taken for one's own (manifest.ts,
\* adoptOwnCommit), and no name is used twice (wal.ts, index.ts).
AckedWasCommitted == settled \subseteq Reflects(index) \cup overlooked

\* A refresh that ended leaves the instance with all that was committed when it
\* began, whatever its own commits did to its view of the manifest meanwhile
\* (index.ts, refresh): its own writes aside, which it holds to have already,
\* and those a compaction overlooked.
RefreshBringsAll ==
  \A p \in Instances :
    fetching[p] = <<>> => aimed[p] \subseteq memory[p] \cup {c \in Cards : Author[c] = p} \cup overlooked

\* Several instances on one prefix in optimistic mode: what was acknowledged is
\* in the manifest somebody committed, and a refresh that ends has brought in
\* everything the manifest stood for when it began.
\* Each as stated above.
SharedInv == SharedTypeOK /\ AckedWasCommitted /\ RefreshBringsAll
=============================================================================
