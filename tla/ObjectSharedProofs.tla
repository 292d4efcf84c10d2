------------------------- MODULE ObjectSharedProofs -------------------------
(*************************************************************************)
(* Theorems about ObjectShared: any number of equal instances on one     *)
(* prefix, whatever they write, refresh, compact and collect.            *)
(*************************************************************************)
EXTENDS ObjectShared, SequenceTheorems, TLAPS

Kinds    == {"wal", "snap"}
Key      == Kinds \X Instances \X Nat
Manifest == [seq : Nat, by : Instances \cup {"none"}, segs : Seq(Key), snap : Key \cup {<<>>},
             gc : SUBSET Key]
Stages   == {"down", "boot", "idle", "segment", "maintain", "swap", "collect", "forget"}
Flight   == [key : Key \cup {<<>>}, n : Nat, tries : Nat, gone : SUBSET Key]
Item     == [key : Key, always : BOOLEAN]

TypeOK ==
  /\ index \in Manifest
  /\ DOMAIN stored \subseteq Key /\ \A k \in DOMAIN stored : stored[k] \subseteq Cards
  /\ stage \in [Instances -> Stages]
  /\ known \in [Instances -> Manifest]
  /\ memory \in [Instances -> SUBSET Cards]
  /\ waiting \in [Instances -> Seq(Cards)]
  /\ names \in [Instances -> [wal : Nat, snap : Nat]]
  /\ going \in [Instances -> Flight]
  /\ folded \in [Instances -> SUBSET Key]
  /\ base \in [Instances -> Key \cup {<<>>}]
  /\ fetching \in [Instances -> Seq(Item)]
  /\ aged \subseteq Key
  /\ aimed \in [Instances -> SUBSET Cards]
  /\ sharedLeft \in [writes : Nat, faults : Nat, refreshes : Nat, graces : Nat]

Own(p) == {c \in Cards : Author[c] = p}
Items(p) == {fetching[p][i].key : i \in DOMAIN fetching[p]}
FirstIsSnap(p) == fetching[p] # <<>> /\ fetching[p][1].key[1] = "snap"

\* The keys whose number was handed out.
Used == {k \in Key : IF k[1] = "wal" THEN k[3] < names[k[2]].wal ELSE k[3] < names[k[2]].snap}

\* Every key there is was handed out, so a new one is nowhere.
KeysTaken ==
  /\ DOMAIN stored \cup SegKeys(index) \cup index.gc \cup aged \subseteq Used
  /\ index.snap # <<>> => index.snap \in Used
  /\ \A p \in Instances :
       /\ folded[p] \cup Items(p) \subseteq Used
       /\ base[p] # <<>> => base[p] \in Used
       /\ going[p].key # <<>> => going[p].key \in Used

\* A manifest lists segments and points at a snapshot, and so does a list to read.
KeysSorted ==
  /\ \A k \in SegKeys(index) : k[1] = "wal"
  /\ index.snap # <<>> => index.snap[1] = "snap"
  /\ \A p \in Instances :
       /\ base[p] # <<>> => base[p][1] = "snap"
       /\ stage[p] = "segment" => going[p].key # <<>> /\ going[p].key[1] = "wal"
       /\ stage[p] = "swap" => going[p].key # <<>> /\ going[p].key[1] = "snap"
       /\ \A i \in DOMAIN fetching[p] :
            fetching[p][i].key[1] = "snap" => i = 1 /\ fetching[p][i].always

\* An instance knows a manifest that was; of one number there is one.
KnownWas ==
  \A p \in Instances :
    /\ known[p].seq <= index.seq
    /\ known[p].seq = index.seq => known[p] = index

\* What the flush loop of an instance is about.
FlightInv ==
  \A p \in Instances :
    /\ going[p].n <= Len(waiting[p]) /\ going[p].tries < MaxAttempts
    /\ stage[p] # "segment" => going[p].n = 0
    /\ stage[p] \in {"segment", "swap"} => going[p].key \in DOMAIN stored \ aged
    /\ stage[p] = "segment" => stored[going[p].key] = Some(p)

\* Writes wait where they were made, and a segment holds its writer's.
OwnWrites ==
  \A p \in Instances :
    /\ \A n \in DOMAIN waiting[p] : waiting[p][n] \in Own(p)
    /\ \A k \in DOMAIN stored : k[1] = "wal" /\ k[2] = p => stored[k] \subseteq Own(p)

\* What the manifest names exists; and what is past its grace and named again is
\* so for an instance about to collect.
NamedExists ==
  /\ LiveKeys(index) \subseteq DOMAIN stored
  /\ \A p \in Instances :
       stage[p] \in {"maintain", "collect"} =>
         (LiveKeys(index) \cap aged) \subseteq LiveKeys(known[p])

\* What an instance has that others wrote was committed, and so was what it is
\* about to read.
Common == Reflects(index) \cup overlooked

Learned ==
  \A p \in Instances :
    /\ memory[p] \subseteq Own(p) \cup Common
    /\ \A k \in Items(p) \cap DOMAIN stored : stored[k] \subseteq Common

\* Where the memory of an instance starts from, once it has read the snapshot at
\* the head of its list.
Start(p) == IF FirstIsSnap(p) THEN fetching[p][1].key ELSE base[p]

\* A snapshot that is not what the instance started from has all that the
\* instance learned and all that it is about to read.
Superseded ==
  \A p \in Instances : index.snap # <<>> =>
    /\ base[p] # index.snap =>
         memory[p] \subseteq stored[index.snap] \cup Own(p) \cup overlooked
    /\ Start(p) # index.snap => \A k \in Items(p) \cap DOMAIN stored :
         stored[k] \subseteq stored[index.snap] \cup overlooked

\* The snapshot a refresh is about to load has all that the memory it replaces has.
Replaceable ==
  \A p \in Instances : Ready(p) /\ FirstIsSnap(p) /\ fetching[p][1].key \in DOMAIN stored =>
    memory[p] \subseteq stored[fetching[p][1].key] \cup Own(p) \cup overlooked

\* What an instance is answerable for.
Has(p) == memory[p] \cup Own(p) \cup overlooked

\* What an instance takes for folded in, it has; and so it has what it snapshots.
FoldedIsHad ==
  \A p \in Instances :
    /\ base[p] \in DOMAIN stored => stored[base[p]] \subseteq Has(p)
    /\ \A k \in folded[p] \cap DOMAIN stored : stored[k] \subseteq Has(p)
    /\ stage[p] = "swap" => stored[going[p].key] \subseteq Has(p)

\* A swap that an instance takes for its own is its own.
SwapIsOwn ==
  \A p \in Instances : index.by = p /\ index.seq = known[p].seq + 1 =>
    /\ stage[p] # "maintain"
    /\ stage[p] = "swap" => index.snap = going[p].key

\* What a refresh will read for certain; and what it has already, if it is not
\* about to replace it.
ToFetch(p) ==
  {fetching[p][i].key : i \in {j \in DOMAIN fetching[p] : ~ Skips(p, fetching[p][j])}}
Kept(p) == (IF FirstIsSnap(p) THEN {} ELSE memory[p]) \cup Own(p) \cup overlooked

\* A refresh under way comes upon an object that is gone, or brings what it is to.
RefreshInv ==
  \A p \in Instances :
    \/ ~ (ToFetch(p) \subseteq DOMAIN stored)
    \/ aimed[p] \subseteq Kept(p) \cup UNION {stored[k] : k \in ToFetch(p)}

ObjInv ==
  /\ TypeOK /\ KeysTaken /\ KeysSorted /\ KnownWas /\ FlightInv /\ OwnWrites /\ NamedExists
  /\ AckedWasCommitted /\ Learned /\ Superseded /\ Replaceable /\ FoldedIsHad /\ SwapIsOwn
  /\ RefreshInv

-----------------------------------------------------------------------------
(* Keys, manifests and lists.                                              *)

\* A key is a triple.
LEMMA KeyParts ==
  ASSUME NEW k \in Key
  PROVE  /\ k[1] \in Kinds /\ k[2] \in Instances /\ k[3] \in Nat
         /\ k = <<k[1], k[2], k[3]>> /\ k # <<>>
<1>1. PICK a \in Kinds, b \in Instances, c \in Nat : k = <<a, b, c>>
  BY DEF Key
<1>2. Len(k) = 3
  BY <1>1
<1> QED BY <1>1, <1>2

\* The segments of a manifest as a list to read.
LEMMA ListingIs ==
  ASSUME NEW m \in Manifest, NEW a \in BOOLEAN
  PROVE  /\ Listing(m, a) \in Seq(Item)
         /\ DOMAIN Listing(m, a) = DOMAIN m.segs
         /\ \A i \in DOMAIN m.segs :
              Listing(m, a)[i].key = m.segs[i] /\ Listing(m, a)[i].always = a
<1>1. m.segs \in Seq(Key)
  BY DEF Manifest
<1>2. DOMAIN m.segs = 1..Len(m.segs) /\ Len(m.segs) \in Nat
  BY <1>1
<1>3. \A i \in 1..Len(m.segs) : [key |-> m.segs[i], always |-> a] \in Item
  BY <1>1 DEF Item
<1>4. [i \in 1..Len(m.segs) |-> [key |-> m.segs[i], always |-> a]] \in Seq(Item)
  BY <1>2, <1>3, IsASeq
<1> QED BY <1>2, <1>4 DEF Listing

\* Everything a manifest names, the snapshot first.
LEMMA EverythingIs ==
  ASSUME NEW m \in Manifest
  PROVE  /\ Everything(m) \in Seq(Item)
         /\ \A i \in DOMAIN Everything(m) : Everything(m)[i].always
         /\ {Everything(m)[i].key : i \in DOMAIN Everything(m)} = LiveKeys(m)
         /\ m.snap # <<>> => Everything(m) # <<>> /\ Everything(m)[1].key = m.snap
         /\ \A i \in DOMAIN Everything(m) :
              Everything(m)[i].key \in SegKeys(m) \/ (i = 1 /\ Everything(m)[i].key = m.snap
                                                       /\ m.snap # <<>>)
<1> DEFINE l == Listing(m, TRUE)
<1>1. /\ l \in Seq(Item) /\ DOMAIN l = DOMAIN m.segs
      /\ \A i \in DOMAIN m.segs : l[i].key = m.segs[i] /\ l[i].always
  BY ListingIs
<1>2. DOMAIN l = 1..Len(l) /\ Len(l) \in Nat
  BY <1>1, LenProperties
<1> HIDE DEF l
<1>3. CASE m.snap = <<>>
  <2>1. Everything(m) = l
    BY <1>1, <1>3, ConcatEmptySeq DEF Everything, l
  <2>2. {l[i].key : i \in DOMAIN l} = SegKeys(m)
    BY <1>1 DEF SegKeys
  <2> QED BY <1>1, <1>3, <2>1, <2>2 DEF LiveKeys
<1>4. CASE m.snap # <<>>
  <2> DEFINE h == [key |-> m.snap, always |-> TRUE]
  <2>1. h \in Item
    BY <1>4 DEF Manifest, Item
  <2>2. Everything(m) = <<h>> \o l
    BY <1>4 DEF Everything, l
  <2>3. <<h>> \in Seq(Item) /\ Len(<<h>>) = 1 /\ <<h>>[1] = h
    BY <2>1
  <2>4. /\ Everything(m) \in Seq(Item) /\ Len(Everything(m)) = 1 + Len(l)
        /\ Everything(m)[1] = h
        /\ \A i \in 2..(1 + Len(l)) : Everything(m)[i] = l[i - 1]
    BY <1>1, <1>2, <2>2, <2>3, ConcatProperties
  <2>5. DOMAIN Everything(m) = 1..(1 + Len(l))
    BY <2>4
  <2>6. \A i \in DOMAIN Everything(m) :
          \/ i = 1 /\ Everything(m)[i] = h
          \/ (i - 1) \in DOMAIN l /\ Everything(m)[i] = l[i - 1]
    BY <1>2, <2>4, <2>5
  <2>7. \A j \in DOMAIN l : (j + 1) \in DOMAIN Everything(m) /\ Everything(m)[j + 1] = l[j]
    BY <1>2, <2>4, <2>5
  <2>8. LiveKeys(m) = {m.segs[j] : j \in DOMAIN m.segs} \cup {m.snap}
    BY <1>4 DEF LiveKeys, SegKeys
  <2>9. \A i \in DOMAIN Everything(m) : Everything(m)[i].key \in LiveKeys(m)
    BY <1>1, <2>6, <2>8
  <2>10. \A k \in LiveKeys(m) : \E i \in DOMAIN Everything(m) : k = Everything(m)[i].key
    <3>1. 1 \in DOMAIN Everything(m) /\ Everything(m)[1].key = m.snap
      BY <1>2, <2>4, <2>5
    <3>2. \A j \in DOMAIN m.segs : Everything(m)[j + 1].key = m.segs[j] /\ (j + 1) \in DOMAIN Everything(m)
      BY <1>1, <2>7
    <3> QED BY <2>8, <3>1, <3>2
  <2>11. \A i \in DOMAIN Everything(m) : Everything(m)[i].always
    BY <1>1, <2>6
  <2>12. \A i \in DOMAIN Everything(m) :
           Everything(m)[i].key \in SegKeys(m) \/ (i = 1 /\ Everything(m)[i].key = m.snap)
    BY <1>1, <2>6 DEF SegKeys
  <2>13. Everything(m) # <<>> /\ Everything(m)[1].key = m.snap
    BY <1>2, <2>4
  <2> QED BY <1>4, <2>4, <2>9, <2>10, <2>11, <2>12, <2>13
<1> QED BY <1>3, <1>4

\* What is left of a list.
LEMMA TailIs ==
  ASSUME NEW s \in Seq(Item), s # <<>>
  PROVE  /\ Tail(s) \in Seq(Item)
         /\ Head(s) = s[1] /\ 1 \in DOMAIN s
         /\ \A i \in DOMAIN Tail(s) : (i + 1) \in DOMAIN s /\ Tail(s)[i] = s[i + 1] /\ i \in Nat
         /\ \A i \in DOMAIN s : i # 1 => (i - 1) \in DOMAIN Tail(s) /\ Tail(s)[i - 1] = s[i]
<1>1. Len(s) \in Nat /\ Len(s) > 0 /\ DOMAIN s = 1..Len(s)
  BY EmptySeq, LenProperties
<1>2. /\ Tail(s) \in Seq(Item) /\ Len(Tail(s)) = Len(s) - 1
      /\ \A i \in 1..Len(Tail(s)) : Tail(s)[i] = s[i + 1]
      /\ Head(s) = s[1]
  BY HeadTailProperties
<1>3. DOMAIN Tail(s) = 1..(Len(s) - 1)
  BY <1>2
<1> QED BY <1>1, <1>2, <1>3

\* The manifest a commit wants.
LEMMA WantedIs ==
  ASSUME TypeOK, NEW p \in Instances, stage[p] \in {"segment", "swap", "forget"},
         stage[p] \in {"segment", "swap"} => going[p].key \in Key
  PROVE  /\ Wanted(p) \in Manifest
         /\ Wanted(p).seq = known[p].seq + 1 /\ Wanted(p).by = p
         /\ stage[p] = "segment" => /\ Wanted(p).segs = Append(known[p].segs, going[p].key)
                                    /\ Wanted(p).snap = known[p].snap
                                    /\ Wanted(p).gc = known[p].gc
         /\ stage[p] = "swap" => /\ Wanted(p).segs = <<>> /\ Wanted(p).snap = going[p].key
                                 /\ Wanted(p).gc = known[p].gc \cup LiveKeys(known[p])
         /\ stage[p] = "forget" => /\ Wanted(p).segs = known[p].segs
                                   /\ Wanted(p).snap = known[p].snap
                                   /\ Wanted(p).gc \subseteq known[p].gc
<1>1. known[p] \in Manifest /\ going[p] \in Flight
  BY DEF TypeOK
<1>2. LiveKeys(known[p]) \subseteq Key
  <2>1. \A i \in DOMAIN known[p].segs : known[p].segs[i] \in Key
    BY <1>1 DEF Manifest
  <2> QED BY <1>1, <2>1 DEF LiveKeys, SegKeys, Manifest
<1>3. known[p].segs \in Seq(Key) /\ known[p].seq \in Nat /\ known[p].gc \subseteq Key
  BY <1>1 DEF Manifest
<1>4. ASSUME NEW c \in Manifest, Wanted(p) = [c EXCEPT !.seq = known[p].seq + 1, !.by = p]
      PROVE  /\ Wanted(p) \in Manifest
             /\ Wanted(p).seq = known[p].seq + 1 /\ Wanted(p).by = p
             /\ Wanted(p).segs = c.segs /\ Wanted(p).snap = c.snap /\ Wanted(p).gc = c.gc
  <2>1. c = [seq |-> c.seq, by |-> c.by, segs |-> c.segs, snap |-> c.snap, gc |-> c.gc]
    BY DEF Manifest
  <2>2. Wanted(p) = [seq |-> known[p].seq + 1, by |-> p, segs |-> c.segs, snap |-> c.snap,
                     gc |-> c.gc]
    BY <1>4, <2>1
  <2>3. known[p].seq + 1 \in Nat /\ p \in Instances \cup {"none"}
    BY <1>3
  <2>4. c.segs \in Seq(Key) /\ c.snap \in Key \cup {<<>>} /\ c.gc \in SUBSET Key
    BY DEF Manifest
  <2> QED BY <2>2, <2>3, <2>4 DEF Manifest
<1>5. CASE stage[p] = "segment"
  <2> DEFINE c == [known[p] EXCEPT !.segs = Append(@, going[p].key)]
  <2>1. Append(known[p].segs, going[p].key) \in Seq(Key)
    BY <1>3, <1>5
  <2>2. /\ c \in Manifest /\ c.segs = Append(known[p].segs, going[p].key)
        /\ c.snap = known[p].snap /\ c.gc = known[p].gc
    BY <1>1, <2>1 DEF Manifest
  <2>3. Wanted(p) = [c EXCEPT !.seq = known[p].seq + 1, !.by = p]
    BY <1>5 DEF Wanted
  <2> HIDE DEF c
  <2> QED BY <1>4, <1>5, <2>2, <2>3
<1>6. CASE stage[p] = "swap"
  <2> DEFINE c == [known[p] EXCEPT !.gc = @ \cup LiveKeys(known[p]), !.segs = <<>>,
                                   !.snap = going[p].key]
  <2>1. <<>> \in Seq(Key)
    OBVIOUS
  <2>2. /\ c \in Manifest /\ c.segs = <<>> /\ c.snap = going[p].key
        /\ c.gc = known[p].gc \cup LiveKeys(known[p])
    BY <1>1, <1>2, <1>3, <1>6, <2>1 DEF Manifest
  <2>3. Wanted(p) = [c EXCEPT !.seq = known[p].seq + 1, !.by = p]
    BY <1>6 DEF Wanted
  <2> HIDE DEF c
  <2> QED BY <1>4, <1>6, <2>2, <2>3
<1>7. CASE stage[p] = "forget"
  <2> DEFINE c == [known[p] EXCEPT !.gc = @ \ going[p].gone]
  <2>1. /\ c \in Manifest /\ c.segs = known[p].segs /\ c.snap = known[p].snap
        /\ c.gc \subseteq known[p].gc
    BY <1>1, <1>3 DEF Manifest
  <2>2. Wanted(p) = [c EXCEPT !.seq = known[p].seq + 1, !.by = p]
    BY <1>7 DEF Wanted
  <2> HIDE DEF c
  <2> QED BY <1>4, <1>7, <2>1, <2>2
<1> QED BY <1>5, <1>6, <1>7

-----------------------------------------------------------------------------
(* Types.                                                                  *)

\* What a manifest names are keys.
LEMMA NamedAreKeys ==
  ASSUME NEW m \in Manifest
  PROVE  /\ SegKeys(m) \subseteq Key /\ LiveKeys(m) \subseteq Key
         /\ SegKeys(m) \subseteq LiveKeys(m)
         /\ m.snap # <<>> => m.snap \in Key /\ m.snap \in LiveKeys(m)
<1>1. m.segs \in Seq(Key) /\ m.snap \in Key \cup {<<>>}
  BY DEF Manifest
<1>2. \A i \in DOMAIN m.segs : m.segs[i] \in Key
  BY <1>1
<1> QED BY <1>1, <1>2 DEF SegKeys, LiveKeys

\* The segments a manifest lists, one more or none.
LEMMA SegsOf ==
  ASSUME NEW m \in Manifest, NEW k, NEW n
  PROVE  /\ k \in Key /\ n.segs = Append(m.segs, k) => SegKeys(n) = SegKeys(m) \cup {k}
         /\ n.segs = <<>> => SegKeys(n) = {}
         /\ n.segs = m.segs => SegKeys(n) = SegKeys(m)
<1>1. m.segs \in Seq(Key) /\ DOMAIN m.segs = 1..Len(m.segs) /\ Len(m.segs) \in Nat
  BY LenProperties DEF Manifest
<1>2. ASSUME k \in Key, n.segs = Append(m.segs, k)
      PROVE  SegKeys(n) = SegKeys(m) \cup {k}
  <2>1. /\ Len(n.segs) = Len(m.segs) + 1 /\ DOMAIN n.segs = 1..(Len(m.segs) + 1)
        /\ n.segs[Len(m.segs) + 1] = k
        /\ \A i \in 1..Len(m.segs) : n.segs[i] = m.segs[i]
    BY <1>1, <1>2, AppendProperties
  <2>2. /\ \A i \in DOMAIN n.segs : n.segs[i] = k \/ (i \in DOMAIN m.segs /\ n.segs[i] = m.segs[i])
        /\ \A i \in DOMAIN m.segs : i \in DOMAIN n.segs /\ m.segs[i] = n.segs[i]
        /\ Len(m.segs) + 1 \in DOMAIN n.segs
    BY <1>1, <2>1
  <2> QED BY <2>1, <2>2 DEF SegKeys
<1>3. n.segs = <<>> => SegKeys(n) = {}
  BY DEF SegKeys
<1>4. n.segs = m.segs => SegKeys(n) = SegKeys(m)
  BY DEF SegKeys
<1> QED BY <1>2, <1>3, <1>4

\* What it stands for are writes.
LEMMA ReflectsCards ==
  ASSUME TypeOK, NEW m
  PROVE  Reflects(m) \subseteq Cards
BY DEF TypeOK, Reflects

\* What is left of the bounds stays a number.
LEMMA SpendIs ==
  ASSUME NEW b \in [writes : Nat, faults : Nat, refreshes : Nat, graces : Nat],
         NEW k \in {"writes", "faults", "refreshes", "graces"}, b[k] > 0
  PROVE  [b EXCEPT ![k] = @ - 1] \in [writes : Nat, faults : Nat, refreshes : Nat, graces : Nat]
<1>1. \A n \in Nat : n > 0 => n - 1 \in Nat
  OBVIOUS
<1>2. CASE k = "writes"
  BY <1>1, <1>2
<1>3. CASE k = "faults"
  BY <1>1, <1>3
<1>4. CASE k = "refreshes"
  BY <1>1, <1>4
<1>5. CASE k = "graces"
  BY <1>1, <1>5
<1> QED BY <1>2, <1>3, <1>4, <1>5

\* One attempt more.
LEMMA TriesIs ==
  ASSUME NEW f \in Flight
  PROVE  [f EXCEPT !.tries = @ + 1] \in Flight
BY DEF Flight

\* What is taken from the head of a buffer.
LEMMA FirstOnes ==
  ASSUME NEW s \in Seq(Cards), NEW n \in 1..Len(s)
  PROVE  {s[m] : m \in 1..n} \subseteq Cards
<1>1. Len(s) \in Nat /\ \A m \in 1..n : m \in 1..Len(s)
  OBVIOUS
<1>2. \A m \in 1..Len(s) : s[m] \in Cards
  BY ElementOfSeq
<1> QED BY <1>1, <1>2

\* The flush loop of an instance goes on.
LEMMA ToIs ==
  ASSUME TypeOK, NEW p \in Instances, NEW s \in Stages, NEW f \in Flight, To(p, s, f)
  PROVE  /\ stage' \in [Instances -> Stages] /\ going' \in [Instances -> Flight]
         /\ stage'[p] = s /\ going'[p] = f
         /\ \A q \in Instances : q # p => stage'[q] = stage[q] /\ going'[q] = going[q]
BY DEF TypeOK, To

\* The next names.
LEMMA NamesAre ==
  ASSUME TypeOK, NEW p \in Instances
  PROVE  /\ SegmentKey(p) \in Key /\ SnapshotKey(p) \in Key
         /\ [names EXCEPT ![p].wal = @ + 1] \in [Instances -> [wal : Nat, snap : Nat]]
         /\ [names EXCEPT ![p].snap = @ + 1] \in [Instances -> [wal : Nat, snap : Nat]]
<1>1. names[p].wal \in Nat /\ names[p].snap \in Nat /\ names[p] \in [wal : Nat, snap : Nat]
  BY DEF TypeOK
<1>2. SegmentKey(p) \in Key /\ SnapshotKey(p) \in Key
  BY <1>1 DEF SegmentKey, SnapshotKey, Key, Kinds
<1>3. /\ [names[p] EXCEPT !.wal = @ + 1] \in [wal : Nat, snap : Nat]
      /\ [names[p] EXCEPT !.snap = @ + 1] \in [wal : Nat, snap : Nat]
  BY <1>1
<1>4. names \in [Instances -> [wal : Nat, snap : Nat]]
  BY DEF TypeOK
<1> QED BY <1>2, <1>3, <1>4

LEMMA TypeNext ==
  ASSUME SharedAssumption, TypeOK, KeysSorted, FlightInv, [SharedNext]_sharedVars
  PROVE  TypeOK'
<1> USE DEF TypeOK
<1>1. CASE UNCHANGED sharedVars
  BY <1>1 DEF sharedVars
<1>2. CASE Grace
  <2>1. index.gc \subseteq Key
    BY DEF Manifest
  <2>2. sharedLeft' \in [writes : Nat, faults : Nat, refreshes : Nat, graces : Nat]
    BY <1>2, SpendIs DEF Grace, Spend
  <2> QED BY <1>2, <2>1, <2>2 DEF Grace
<1>3. ASSUME NEW p \in Instances, BootShared(p)
      PROVE  TypeOK'
  <2>1. Everything(index) \in Seq(Item) /\ Reflects(index) \subseteq Cards
    BY EverythingIs, ReflectsCards
  <2> QED BY <1>3, <2>1 DEF BootShared, ReadIndex, Stages
<1>4. ASSUME NEW p \in Instances, Refresh(p)
      PROVE  TypeOK'
  <2>1. /\ Everything(index) \in Seq(Item) /\ Listing(index, FALSE) \in Seq(Item)
        /\ Reflects(index) \subseteq Cards
    BY EverythingIs, ListingIs, ReflectsCards
  <2>2. sharedLeft' \in [writes : Nat, faults : Nat, refreshes : Nat, graces : Nat]
    BY <1>4, SpendIs DEF Refresh, Spend
  <2> QED BY <1>4, <2>1, <2>2 DEF Refresh, ReadIndex
<1>5. ASSUME NEW p \in Instances, HasAlready(p)
      PROVE  TypeOK'
  <2>1. Tail(fetching[p]) \in Seq(Item)
    BY <1>5, TailIs DEF HasAlready
  <2> QED BY <1>5, <2>1 DEF HasAlready
<1>6. ASSUME NEW p \in Instances, Fetch(p)
      PROVE  TypeOK'
  <2> DEFINE k == Head(fetching[p]).key
  <2>1. fetching[p] \in Seq(Item) /\ fetching[p] # <<>>
    BY <1>6 DEF Fetch
  <2>2. Tail(fetching[p]) \in Seq(Item) /\ Head(fetching[p]) \in Item
    BY <2>1, TailIs
  <2>3. k \in Key /\ k \in DOMAIN stored /\ stored[k] \subseteq Cards
    BY <1>6, <2>2 DEF Fetch, Item
  <2>4. /\ memory' \in [Instances -> SUBSET Cards]
        /\ folded' \in [Instances -> SUBSET Key]
        /\ base' \in [Instances -> Key \cup {<<>>}]
    BY <1>6, <2>3 DEF Fetch
  <2> QED BY <1>6, <2>2, <2>4 DEF Fetch
<1>7. ASSUME NEW p \in Instances, FetchFails(p)
      PROVE  TypeOK'
  <2>1. <<>> \in Seq(Item)
    OBVIOUS
  <2> QED BY <1>7, <2>1 DEF FetchFails, Stages
<1>8. ASSUME NEW p \in Instances, Booted(p)
      PROVE  TypeOK'
  BY <1>8 DEF Booted, Stages
<1>9. ASSUME NEW p \in Instances, NEW c \in Cards, Write(p, c)
      PROVE  TypeOK'
  <2>1. sharedLeft' \in [writes : Nat, faults : Nat, refreshes : Nat, graces : Nat]
    BY <1>9, SpendIs DEF Write, Spend
  <2>2. Append(waiting[p], c) \in Seq(Cards)
    OBVIOUS
  <2> QED BY <1>9, <2>1, <2>2 DEF Write
<1>10. ASSUME NEW p \in Instances, FlushSegment(p)
       PROVE  TypeOK'
  <2>1. /\ SegmentKey(p) \in Key /\ names' \in [Instances -> [wal : Nat, snap : Nat]]
    BY <1>10, NamesAre DEF FlushSegment
  <2>2. PICK n \in 1..Len(waiting[p]) :
          LET body == {waiting[p][m] : m \in 1..n}
          IN \/ /\ Put(SegmentKey(p), body)
                /\ To(p, "segment", [NoFlight EXCEPT !.key = SegmentKey(p), !.n = n])
                /\ UNCHANGED sharedLeft
             \/ /\ Put(SegmentKey(p), body) \/ UNCHANGED stored
                /\ UNCHANGED <<stage, going>> /\ Spend("faults")
    BY <1>10 DEF FlushSegment
  <2>3. waiting[p] \in Seq(Cards) /\ n \in Nat
    OBVIOUS
  <2>4. {waiting[p][m] : m \in 1..n} \subseteq Cards
    BY <2>3, FirstOnes
  <2>5. DOMAIN stored' \subseteq Key /\ \A k \in DOMAIN stored' : stored'[k] \subseteq Cards
    BY <2>1, <2>2, <2>4 DEF Put
  <2>6. [NoFlight EXCEPT !.key = SegmentKey(p), !.n = n] \in Flight
    BY <2>1, <2>3 DEF NoFlight, Flight
  <2>7. stage' \in [Instances -> Stages] /\ going' \in [Instances -> Flight]
    BY <2>2, <2>6, ToIs DEF Stages
  <2>8. sharedLeft' \in [writes : Nat, faults : Nat, refreshes : Nat, graces : Nat]
    BY <2>2, SpendIs DEF Spend
  <2> QED BY <1>10, <2>1, <2>5, <2>7, <2>8 DEF FlushSegment
<1>11. NoFlight \in Flight
  BY DEF NoFlight, Flight
<1>12. ASSUME NEW p \in Instances, Concluded(p),
              stage[p] \in {"segment", "swap"} => going[p].key \in Key
       PROVE  /\ waiting' \in [Instances -> Seq(Cards)]
              /\ stage' \in [Instances -> Stages] /\ going' \in [Instances -> Flight]
              /\ folded' \in [Instances -> SUBSET Key]
              /\ base' \in [Instances -> Key \cup {<<>>}]
  <2>1. CASE stage[p] = "segment"
    <3>1. /\ waiting' = [waiting EXCEPT ![p] = SubSeq(@, going[p].n + 1, Len(@))]
          /\ To(p, "maintain", NoFlight) /\ folded' = folded /\ base' = base
      BY <1>12, <2>1 DEF Concluded
    <3>2. going[p].n \in Nat /\ waiting[p] \in Seq(Cards)
      BY DEF Flight
    <3>3. SubSeq(waiting[p], going[p].n + 1, Len(waiting[p])) \in Seq(Cards)
      BY <3>2, SubSeqProperties
    <3> QED BY <1>11, <3>1, <3>3 DEF To, Stages
  <2>2. CASE stage[p] = "swap"
    <3>1. /\ waiting' = waiting /\ To(p, "collect", NoFlight)
          /\ folded' = [folded EXCEPT ![p] = {}] /\ base' = [base EXCEPT ![p] = going[p].key]
      BY <1>12, <2>2 DEF Concluded
    <3> QED BY <1>11, <1>12, <2>2, <3>1 DEF To, Stages
  <2>3. CASE stage[p] \notin {"segment", "swap"}
    <3>1. /\ waiting' = waiting /\ To(p, "idle", NoFlight) /\ folded' = folded /\ base' = base
      BY <1>12, <2>3 DEF Concluded
    <3> QED BY <1>11, <3>1 DEF To, Stages
  <2> QED BY <2>1, <2>2, <2>3
<1>13. ASSUME NEW p \in Instances
       PROVE  stage[p] \in {"segment", "swap"} => going[p].key \in Key
  BY DEF KeysSorted, Flight
<1>14. ASSUME NEW p \in Instances, CommitShared(p)
       PROVE  TypeOK'
  <2>1. stage[p] \in {"segment", "swap", "forget"} /\ index' = Wanted(p) /\ index' \in Manifest
    BY <1>13, <1>14, WantedIs DEF CommitShared
  <2>2. CASE Concluded(p) /\ known' = [known EXCEPT ![p] = index'] /\ UNCHANGED sharedLeft
    BY <1>12, <1>13, <1>14, <2>1, <2>2 DEF CommitShared
  <2>3. CASE /\ Spend("faults")
             /\ UNCHANGED <<stage, going>> \/ To(p, "idle", NoFlight)
             /\ UNCHANGED <<known, settled, waiting, folded, base>>
    <3>1. sharedLeft' \in [writes : Nat, faults : Nat, refreshes : Nat, graces : Nat]
      BY <2>3, SpendIs DEF Spend
    <3>2. stage' \in [Instances -> Stages] /\ going' \in [Instances -> Flight]
      BY <1>11, <2>3, ToIs DEF Stages
    <3> QED BY <1>14, <2>1, <2>3, <3>1, <3>2 DEF CommitShared
  <2> QED BY <1>14, <2>2, <2>3 DEF CommitShared
<1>15. ASSUME NEW p \in Instances, Contended(p)
       PROVE  TypeOK'
  <2>1. CASE Adopts(p)
    BY <1>12, <1>13, <1>15, <2>1 DEF Contended
  <2>2. CASE ~ Adopts(p)
    <3>1. /\ \/ going' = [going EXCEPT ![p].tries = @ + 1] /\ UNCHANGED stage
             \/ To(p, "idle", NoFlight)
          /\ UNCHANGED <<settled, waiting, folded, base>>
      BY <1>15, <2>2 DEF Contended
    <3>2. [going[p] EXCEPT !.tries = @ + 1] \in Flight
      BY TriesIs
    <3>3. stage' \in [Instances -> Stages] /\ going' \in [Instances -> Flight]
      <4>1. CASE going' = [going EXCEPT ![p].tries = @ + 1] /\ UNCHANGED stage
        BY <3>2, <4>1
      <4>2. CASE To(p, "idle", NoFlight)
        BY <1>11, <4>2, ToIs DEF Stages
      <4> QED BY <3>1, <4>1, <4>2
    <3> QED BY <1>15, <2>2, <3>1, <3>3 DEF Contended
  <2> QED BY <2>1, <2>2
<1>16. ASSUME NEW p \in Instances, Compact(p)
       PROVE  TypeOK'
  <2>1. SnapshotKey(p) \in Key /\ names' \in [Instances -> [wal : Nat, snap : Nat]]
    BY <1>16, NamesAre DEF Compact
  <2>2. [NoFlight EXCEPT !.key = SnapshotKey(p)] \in Flight
    BY <2>1 DEF NoFlight, Flight
  <2>3. DOMAIN stored' \subseteq Key /\ \A k \in DOMAIN stored' : stored'[k] \subseteq Cards
    BY <1>16, <2>1 DEF Compact, Put
  <2>4. stage' \in [Instances -> Stages] /\ going' \in [Instances -> Flight]
    BY <1>16, <2>2 DEF Compact, To, Stages
  <2> QED BY <1>16, <2>1, <2>3, <2>4 DEF Compact
<1>17. ASSUME NEW p \in Instances, NotDue(p)
       PROVE  TypeOK'
  <2>1. stage' \in [Instances -> Stages] /\ going' \in [Instances -> Flight]
    BY <1>11, <1>17 DEF NotDue, To, Stages
  <2> QED BY <1>17, <2>1 DEF NotDue
<1>18. ASSUME NEW p \in Instances, CollectShared(p)
       PROVE  TypeOK'
  <2> DEFINE due == known[p].gc \cap aged
  <2>1. [NoFlight EXCEPT !.gone = due] \in Flight
    BY DEF NoFlight, Flight
  <2>2. stage' \in [Instances -> Stages] /\ going' \in [Instances -> Flight]
    <3>1. \/ To(p, "idle", NoFlight) \/ To(p, "forget", [NoFlight EXCEPT !.gone = due])
      BY <1>18 DEF CollectShared
    <3> QED BY <1>11, <2>1, <3>1, ToIs DEF Stages
  <2>3. DOMAIN stored' \subseteq Key /\ \A k \in DOMAIN stored' : stored'[k] \subseteq Cards
    <3>1. \/ stored' = stored
          \/ stored' = [k \in DOMAIN stored \ Deletable(p, due) |-> stored[k]]
      BY <1>18 DEF CollectShared
    <3> QED BY <3>1
  <2> QED BY <1>18, <2>2, <2>3 DEF CollectShared
<1> QED BY <1>1, <1>2, <1>3, <1>4, <1>5, <1>6, <1>7, <1>8, <1>9, <1>10, <1>14, <1>15, <1>16,
           <1>17, <1>18 DEF SharedNext

-----------------------------------------------------------------------------
(* What a step does to the store.                                          *)

\* A name, once handed out, stays so; a new one is handed out with its use.
LEMMA NamesNext ==
  ASSUME TypeOK, [SharedNext]_sharedVars
  PROVE  Used \subseteq Used'
<1>1. CASE names' = names
  BY <1>1 DEF Used
<1>2. ASSUME NEW p \in Instances,
             \/ names' = [names EXCEPT ![p].wal = @ + 1]
             \/ names' = [names EXCEPT ![p].snap = @ + 1]
      PROVE  Used \subseteq Used'
  <2> SUFFICES ASSUME NEW k \in Used
               PROVE  k \in Used'
    OBVIOUS
  <2>1. k[2] \in Instances /\ k[3] \in Nat
    BY KeyParts DEF Used
  <2>2. /\ names \in [Instances -> [wal : Nat, snap : Nat]]
        /\ names[k[2]].wal \in Nat /\ names[k[2]].snap \in Nat
    BY <2>1 DEF TypeOK
  <2>3. names'[k[2]].wal >= names[k[2]].wal /\ names'[k[2]].snap >= names[k[2]].snap
        /\ names'[k[2]].wal \in Nat /\ names'[k[2]].snap \in Nat
    BY <1>2, <2>1, <2>2
  <2> QED BY <2>1, <2>2, <2>3 DEF Used
<1>3. names' = names \/ \E p \in Instances :
        \/ names' = [names EXCEPT ![p].wal = @ + 1]
        \/ names' = [names EXCEPT ![p].snap = @ + 1]
  BY DEF SharedNext, sharedVars, Grace, BootShared, Refresh, HasAlready, Fetch, FetchFails, Booted,
         Write, FlushSegment, CommitShared, Contended, Compact, NotDue, CollectShared
<1> QED BY <1>1, <1>2, <1>3

\* A name yet to be used was not handed out.
LEMMA NewNames ==
  ASSUME TypeOK, NEW p \in Instances
  PROVE  /\ SegmentKey(p) \notin Used /\ SnapshotKey(p) \notin Used
         /\ SegmentKey(p)[1] = "wal" /\ SegmentKey(p)[2] = p
         /\ SnapshotKey(p)[1] = "snap"
<1>1. names[p].wal \in Nat /\ names[p].snap \in Nat
  BY DEF TypeOK
<1> QED BY <1>1 DEF Used, SegmentKey, SnapshotKey

\* One that is being handed out is, from then on.
LEMMA NamesUsed ==
  ASSUME TypeOK, NEW p \in Instances
  PROVE  /\ names' = [names EXCEPT ![p].wal = @ + 1] => SegmentKey(p) \in Used'
         /\ names' = [names EXCEPT ![p].snap = @ + 1] => SnapshotKey(p) \in Used'
<1>1. /\ names[p].wal \in Nat /\ names[p].snap \in Nat
      /\ names \in [Instances -> [wal : Nat, snap : Nat]]
  BY DEF TypeOK
<1>2. SegmentKey(p) \in Key /\ SnapshotKey(p) \in Key
  BY NamesAre
<1>3. ASSUME names' = [names EXCEPT ![p].wal = @ + 1]
      PROVE  SegmentKey(p) \in Used'
  <2>1. names'[p].wal = names[p].wal + 1
    BY <1>1, <1>3
  <2>2. /\ SegmentKey(p)[1] = "wal" /\ SegmentKey(p)[2] = p
        /\ SegmentKey(p)[3] < names'[p].wal
    BY <1>1, <2>1 DEF SegmentKey
  <2> QED BY <1>2, <2>2 DEF Used
<1>4. ASSUME names' = [names EXCEPT ![p].snap = @ + 1]
      PROVE  SnapshotKey(p) \in Used'
  <2>1. names'[p].snap = names[p].snap + 1
    BY <1>1, <1>4
  <2>2. /\ SnapshotKey(p)[1] = "snap" /\ SnapshotKey(p)[2] = p
        /\ SnapshotKey(p)[3] < names'[p].snap
    BY <1>1, <2>1 DEF SnapshotKey
  <2> QED BY <1>2, <2>2 DEF Used
<1> QED BY <1>3, <1>4

\* An object is never written twice; what is deleted was past its grace and is
\* not named.
LEMMA StoredNext ==
  ASSUME TypeOK, KeysTaken, NamedExists, [SharedNext]_sharedVars
  PROVE  /\ \A k \in DOMAIN stored \cap DOMAIN stored' : stored'[k] = stored[k]
         /\ \A k \in DOMAIN stored' \ DOMAIN stored : k \notin Used
         /\ \A k \in DOMAIN stored \ DOMAIN stored' : k \in aged /\ k \notin LiveKeys(index)
<1>1. CASE stored' = stored
  BY <1>1
<1>2. ASSUME NEW k, NEW body, Put(k, body), k \notin Used
      PROVE  /\ \A x \in DOMAIN stored \cap DOMAIN stored' : stored'[x] = stored[x]
             /\ \A x \in DOMAIN stored' \ DOMAIN stored : x \notin Used
             /\ DOMAIN stored \subseteq DOMAIN stored'
  <2>1. k \notin DOMAIN stored
    BY <1>2 DEF KeysTaken
  <2>2. /\ DOMAIN stored' = DOMAIN stored \cup {k}
        /\ \A x \in DOMAIN stored : stored'[x] = stored[x]
    BY <1>2, <2>1 DEF Put
  <2> QED BY <1>2, <2>2
<1>3. ASSUME NEW p \in Instances, FlushSegment(p), stored' # stored
      PROVE  \E body : Put(SegmentKey(p), body)
  BY <1>3 DEF FlushSegment
<1>4. ASSUME NEW p \in Instances, CollectShared(p), stored' # stored
      PROVE  /\ \A x \in DOMAIN stored' : x \in DOMAIN stored /\ stored'[x] = stored[x]
             /\ \A x \in DOMAIN stored \ DOMAIN stored' : x \in aged /\ x \notin LiveKeys(index)
  <2> DEFINE due == known[p].gc \cap aged
  <2>1. /\ stored' = [k \in DOMAIN stored \ Deletable(p, due) |-> stored[k]]
        /\ stage[p] = "collect"
    BY <1>4 DEF CollectShared
  <2>2. Deletable(p, due) \subseteq aged \ LiveKeys(known[p])
    BY DEF Deletable
  <2>3. (LiveKeys(index) \cap aged) \subseteq LiveKeys(known[p])
    BY <2>1 DEF NamedExists
  <2> QED BY <2>1, <2>2, <2>3
<1>5. \/ stored' = stored
      \/ \E p \in Instances : FlushSegment(p) \/ Compact(p) \/ CollectShared(p)
  BY DEF SharedNext, sharedVars, Grace, BootShared, Refresh, HasAlready, Fetch, FetchFails, Booted,
         Write, CommitShared, Contended, NotDue
<1>6. ASSUME NEW p \in Instances, Compact(p)
      PROVE  Put(SnapshotKey(p), memory[p])
  BY <1>6 DEF Compact
<1>7. \A p \in Instances : SegmentKey(p) \notin Used /\ SnapshotKey(p) \notin Used
  BY NewNames
<1> QED BY <1>1, <1>2, <1>3, <1>4, <1>5, <1>6, <1>7

\* The manifest is replaced by one made from it.
LEMMA IndexNext ==
  ASSUME TypeOK, KeysSorted, KnownWas, [SharedNext]_sharedVars
  PROVE  \/ index' = index
         \/ \E p \in Instances :
              /\ CommitShared(p) /\ stage[p] \in {"segment", "swap", "forget"}
              /\ index' \in Manifest /\ index'.seq = index.seq + 1 /\ index'.by = p
              /\ stored' = stored
              /\ stage[p] = "segment" => /\ index'.segs = Append(index.segs, going[p].key)
                                         /\ index'.snap = index.snap
                                         /\ index'.gc = index.gc
              /\ stage[p] = "swap" => /\ index'.segs = <<>> /\ index'.snap = going[p].key
                                      /\ index'.gc = index.gc \cup LiveKeys(index)
              /\ stage[p] = "forget" => /\ index'.segs = index.segs /\ index'.snap = index.snap
                                        /\ index'.gc \subseteq index.gc
<1>1. \/ index' = index
      \/ \E p \in Instances : CommitShared(p)
  BY DEF SharedNext, sharedVars, Grace, BootShared, Refresh, HasAlready, Fetch, FetchFails, Booted,
         Write, FlushSegment, Contended, Compact, NotDue, CollectShared
<1>2. ASSUME NEW p \in Instances, CommitShared(p)
      PROVE  /\ stage[p] \in {"segment", "swap", "forget"} /\ index' = Wanted(p)
             /\ known[p] = index /\ stored' = stored
             /\ stage[p] \in {"segment", "swap"} => going[p].key \in Key
  <2>1. known[p] = index
    BY <1>2 DEF CommitShared, KnownWas
  <2>2. stage[p] \in {"segment", "swap"} => going[p].key \in Key
    BY DEF KeysSorted, Flight, TypeOK
  <2> QED BY <1>2, <2>1, <2>2 DEF CommitShared
<1>3. ASSUME NEW p \in Instances, CommitShared(p)
      PROVE  /\ index' \in Manifest /\ index'.seq = index.seq + 1 /\ index'.by = p
             /\ stage[p] = "segment" => /\ index'.segs = Append(index.segs, going[p].key)
                                        /\ index'.snap = index.snap /\ index'.gc = index.gc
             /\ stage[p] = "swap" => /\ index'.segs = <<>> /\ index'.snap = going[p].key
                                     /\ index'.gc = index.gc \cup LiveKeys(index)
             /\ stage[p] = "forget" => /\ index'.segs = index.segs /\ index'.snap = index.snap
                                       /\ index'.gc \subseteq index.gc
  BY <1>2, <1>3, WantedIs
<1> QED BY <1>1, <1>2, <1>3

\* An instance takes in the manifest and reads on, or keeps what it has and adds
\* to it; what it has folded in is reset by a compaction of its own.
Reads(q) == BootShared(q) \/ Refresh(q) \/ HasAlready(q) \/ Fetch(q) \/ FetchFails(q)

SwapEnds(q) ==
  /\ stage[q] = "swap" /\ folded'[q] = {} /\ base'[q] = going[q].key
  /\ CommitShared(q) \/ (Contended(q) /\ Adopts(q))

LEMMA MemoryNext ==
  ASSUME TypeOK, [SharedNext]_sharedVars, NEW q \in Instances, ~ Reads(q)
  PROVE  /\ fetching'[q] = fetching[q] /\ aimed'[q] = aimed[q]
         /\ memory'[q] = memory[q] \/ \E c \in Own(q) : memory'[q] = memory[q] \cup {c}
         /\ SwapEnds(q) \/ (folded'[q] = folded[q] /\ base'[q] = base[q])
         /\ stage[q] = "down" => stage'[q] = "down"
         /\ stage[q] = "boot" => stage'[q] = "boot" \/ fetching[q] = <<>>
<1> USE DEF TypeOK
<1>1. CASE UNCHANGED sharedVars
  BY <1>1 DEF sharedVars
<1>2. CASE Grace
  BY <1>2 DEF Grace
<1>3. ASSUME NEW p \in Instances, Reads(p)
      PROVE  /\ p # q /\ fetching'[q] = fetching[q] /\ aimed'[q] = aimed[q]
             /\ memory'[q] = memory[q] /\ folded'[q] = folded[q] /\ base'[q] = base[q]
             /\ stage'[q] = stage[q]
  <2>1. p # q
    BY <1>3
  <2>2. CASE BootShared(p)
    BY <2>1, <2>2 DEF BootShared, ReadIndex
  <2>3. CASE Refresh(p)
    BY <2>1, <2>3 DEF Refresh, ReadIndex
  <2>4. CASE HasAlready(p)
    BY <2>1, <2>4 DEF HasAlready
  <2>5. CASE Fetch(p)
    BY <2>1, <2>5 DEF Fetch
  <2>6. CASE FetchFails(p)
    BY <2>1, <2>6 DEF FetchFails
  <2> QED BY <1>3, <2>1, <2>2, <2>3, <2>4, <2>5, <2>6 DEF Reads
<1>4. ASSUME NEW p \in Instances, Booted(p)
      PROVE  /\ UNCHANGED <<fetching, aimed, memory, folded, base>>
             /\ stage[q] = "down" => stage'[q] = "down"
             /\ stage[q] = "boot" => stage'[q] = "boot" \/ fetching[q] = <<>>
  BY <1>4 DEF Booted
<1>5. ASSUME NEW p \in Instances, NEW c \in Cards, Write(p, c)
      PROVE  /\ UNCHANGED <<fetching, aimed, folded, base, stage>>
             /\ memory'[q] = memory[q] \/ \E d \in Own(q) : memory'[q] = memory[q] \cup {d}
  <2>1. Author[c] = p /\ memory' = [memory EXCEPT ![p] = @ \cup {c}]
    BY <1>5 DEF Write
  <2> QED BY <1>5, <2>1 DEF Write, Own
<1>6. ASSUME NEW p \in Instances,
             FlushSegment(p) \/ Compact(p) \/ NotDue(p) \/ CollectShared(p)
      PROVE  /\ UNCHANGED <<fetching, aimed, memory, folded, base>>
             /\ stage[q] \in {"down", "boot"} => stage'[q] = stage[q]
  <2>1. CASE FlushSegment(p)
    BY <2>1 DEF FlushSegment, To
  <2>2. CASE Compact(p) \/ NotDue(p)
    BY <2>2 DEF Compact, NotDue, To
  <2>3. CASE CollectShared(p)
    BY <2>3 DEF CollectShared, To
  <2> QED BY <1>6, <2>1, <2>2, <2>3
<1>7. ASSUME NEW p \in Instances, Concluded(p), stage[p] \notin {"down", "boot"}
      PROVE  /\ stage[q] \in {"down", "boot"} => stage'[q] = stage[q]
             /\ \/ p = q /\ stage[q] = "swap" /\ folded'[q] = {} /\ base'[q] = going[q].key
                \/ folded'[q] = folded[q] /\ base'[q] = base[q]
  BY <1>7 DEF Concluded, To
<1>8. ASSUME NEW p \in Instances, CommitShared(p)
      PROVE  /\ UNCHANGED <<fetching, aimed, memory>>
             /\ SwapEnds(q) \/ (folded'[q] = folded[q] /\ base'[q] = base[q])
             /\ stage[q] \in {"down", "boot"} => stage'[q] = stage[q]
  <2>1. /\ UNCHANGED <<fetching, aimed, memory>> /\ stage[p] \notin {"down", "boot"}
        /\ \/ Concluded(p)
           \/ /\ UNCHANGED <<stage, going>> \/ To(p, "idle", NoFlight)
              /\ UNCHANGED <<folded, base>>
    BY <1>8 DEF CommitShared
  <2>2. CASE Concluded(p)
    BY <1>7, <1>8, <2>1, <2>2 DEF SwapEnds
  <2>3. CASE /\ UNCHANGED <<stage, going>> \/ To(p, "idle", NoFlight)
             /\ UNCHANGED <<folded, base>>
    BY <2>1, <2>3 DEF To
  <2> QED BY <2>1, <2>2, <2>3
<1>9. ASSUME NEW p \in Instances, Contended(p)
      PROVE  /\ UNCHANGED <<fetching, aimed, memory>>
             /\ SwapEnds(q) \/ (folded'[q] = folded[q] /\ base'[q] = base[q])
             /\ stage[q] \in {"down", "boot"} => stage'[q] = stage[q]
  <2>1. UNCHANGED <<fetching, aimed, memory>> /\ stage[p] \notin {"down", "boot"}
    BY <1>9 DEF Contended
  <2>2. CASE Adopts(p)
    <3>1. Concluded(p)
      BY <1>9, <2>2 DEF Contended
    <3> QED BY <1>7, <1>9, <2>1, <2>2, <3>1 DEF SwapEnds
  <2>3. CASE ~ Adopts(p)
    <3>1. /\ UNCHANGED stage \/ To(p, "idle", NoFlight)
          /\ UNCHANGED <<folded, base>>
      BY <1>9, <2>3 DEF Contended
    <3> QED BY <2>1, <3>1 DEF To
  <2> QED BY <2>1, <2>2, <2>3
<1>10. \/ UNCHANGED sharedVars \/ Grace
       \/ \E p \in Instances :
            \/ Reads(p) \/ Booted(p) \/ \E c \in Cards : Write(p, c)
            \/ FlushSegment(p) \/ Compact(p) \/ NotDue(p) \/ CollectShared(p)
            \/ CommitShared(p) \/ Contended(p)
  BY DEF SharedNext, Reads
<1>11. CASE \E p \in Instances : Reads(p)
  BY <1>3, <1>11
<1>12. CASE \E p \in Instances : Booted(p)
  BY <1>4, <1>12
<1>13. CASE \E p \in Instances : \E c \in Cards : Write(p, c)
  BY <1>5, <1>13
<1>14. CASE \E p \in Instances : FlushSegment(p) \/ Compact(p) \/ NotDue(p) \/ CollectShared(p)
  BY <1>6, <1>14
<1>15. CASE \E p \in Instances : CommitShared(p)
  BY <1>8, <1>15
<1>16. CASE \E p \in Instances : Contended(p)
  BY <1>9, <1>16
<1> QED BY <1>1, <1>2, <1>10, <1>11, <1>12, <1>13, <1>14, <1>15, <1>16

\* What is left to read after a step was so before, or is what the manifest
\* names now; a snapshot is only ever at the head.
LEMMA ItemsNext ==
  ASSUME TypeOK, KeysSorted, [SharedNext]_sharedVars, NEW q \in Instances
  PROVE  /\ \A k \in Items(q)' : \/ k \in Items(q)
                                 \/ k \in LiveKeys(index) /\ (BootShared(q) \/ Refresh(q))
         /\ \A i \in DOMAIN fetching'[q] :
              fetching'[q][i].key[1] = "snap" => i = 1 /\ fetching'[q][i].always
<1>1. CASE fetching'[q] = fetching[q]
  BY <1>1 DEF Items, KeysSorted
<1>2. CASE fetching'[q] = <<>>
  BY <1>2 DEF Items
<1>3. CASE fetching[q] # <<>> /\ fetching'[q] = Tail(fetching[q])
  <2>1. fetching[q] \in Seq(Item)
    BY DEF TypeOK
  <2>2. \A i \in DOMAIN fetching'[q] :
          (i + 1) \in DOMAIN fetching[q] /\ fetching'[q][i] = fetching[q][i + 1] /\ i \in Nat
    BY <1>3, <2>1, TailIs
  <2>3. \A i \in DOMAIN fetching'[q] : i \in Nat /\ i > 0
    BY <1>3, <2>1, TailIs
  <2>4. \A i \in DOMAIN fetching'[q] : fetching'[q][i].key[1] # "snap"
    BY <2>2, <2>3 DEF KeysSorted
  <2> QED BY <2>2, <2>4 DEF Items
<1>4. ASSUME BootShared(q) \/ Refresh(q),
             fetching'[q] \in {Everything(index), Listing(index, FALSE)}
      PROVE  /\ \A k \in Items(q)' : k \in LiveKeys(index)
             /\ \A i \in DOMAIN fetching'[q] :
                  fetching'[q][i].key[1] = "snap" => i = 1 /\ fetching'[q][i].always
  <2>1. index \in Manifest
    BY DEF TypeOK
  <2>2. CASE fetching'[q] = Everything(index)
    <3>1. /\ \A i \in DOMAIN Everything(index) : Everything(index)[i].always
          /\ {Everything(index)[i].key : i \in DOMAIN Everything(index)} = LiveKeys(index)
          /\ \A i \in DOMAIN Everything(index) : Everything(index)[i].key \in SegKeys(index) \/ i = 1
      BY <2>1, EverythingIs
    <3>2. \A i \in DOMAIN Everything(index) : Everything(index)[i].key[1] = "snap" => i = 1
      BY <3>1 DEF KeysSorted
    <3> QED BY <2>2, <3>1, <3>2 DEF Items
  <2>3. CASE fetching'[q] = Listing(index, FALSE)
    <3>1. /\ DOMAIN Listing(index, FALSE) = DOMAIN index.segs
          /\ \A i \in DOMAIN index.segs : Listing(index, FALSE)[i].key = index.segs[i]
      BY <2>1, ListingIs
    <3>2. \A i \in DOMAIN index.segs : index.segs[i] \in SegKeys(index) /\ index.segs[i][1] = "wal"
      BY DEF SegKeys, KeysSorted
    <3> QED BY <2>1, <2>3, <3>1, <3>2, NamedAreKeys DEF Items
  <2> QED BY <1>4, <2>2, <2>3
<1>5. CASE ~ Reads(q)
  BY <1>1, <1>5, MemoryNext
<1>6. CASE BootShared(q) \/ Refresh(q)
  <2>1. fetching'[q] \in {Everything(index), Listing(index, FALSE)}
    BY <1>6 DEF BootShared, Refresh, ReadIndex, TypeOK
  <2> QED BY <1>4, <1>6, <2>1
<1>7. CASE HasAlready(q) \/ Fetch(q)
  <2>1. fetching[q] # <<>> /\ fetching'[q] = Tail(fetching[q])
    BY <1>7 DEF HasAlready, Fetch, TypeOK
  <2> QED BY <1>3, <2>1
<1>8. CASE FetchFails(q)
  <2>1. fetching'[q] = <<>>
    BY <1>8 DEF FetchFails, TypeOK
  <2> QED BY <1>2, <2>1
<1> QED BY <1>5, <1>6, <1>7, <1>8 DEF Reads

\* What the flush loop of an instance does, and its buffer.
LEMMA FlightNext ==
  ASSUME SharedAssumption, TypeOK, [SharedNext]_sharedVars, NEW q \in Instances
  PROVE  \/ /\ going'[q] = going[q]
            /\ stage'[q] = stage[q] \/ {stage[q], stage'[q]} \subseteq {"down", "boot", "idle"}
            /\ waiting'[q] = waiting[q] \/ \E c \in Own(q) : waiting'[q] = Append(waiting[q], c)
         \/ /\ going'[q].key = going[q].key /\ going'[q].n = going[q].n
            /\ going'[q].tries < MaxAttempts
            /\ stage'[q] = stage[q] /\ waiting'[q] = waiting[q]
         \/ /\ going'[q].key = <<>> /\ going'[q].n = 0 /\ going'[q].tries = 0
            /\ stage'[q] \notin {"segment", "swap"}
            /\ \/ waiting'[q] = waiting[q]
               \/ waiting'[q] = SubSeq(waiting[q], going[q].n + 1, Len(waiting[q]))
         \/ /\ FlushSegment(q) /\ stage'[q] = "segment" /\ waiting'[q] = waiting[q]
            /\ \E n \in 1..Len(waiting[q]) :
                 /\ going'[q] = [NoFlight EXCEPT !.key = SegmentKey(q), !.n = n]
                 /\ Put(SegmentKey(q), {waiting[q][m] : m \in 1..n})
         \/ /\ Compact(q) /\ stage'[q] = "swap" /\ waiting'[q] = waiting[q]
            /\ going'[q] = [NoFlight EXCEPT !.key = SnapshotKey(q)]
<1> USE DEF TypeOK
<1>1. ASSUME going'[q] = going[q], waiting'[q] = waiting[q],
             stage'[q] = stage[q] \/ {stage[q], stage'[q]} \subseteq {"down", "boot", "idle"}
      PROVE  /\ going'[q] = going[q]
             /\ stage'[q] = stage[q] \/ {stage[q], stage'[q]} \subseteq {"down", "boot", "idle"}
             /\ waiting'[q] = waiting[q] \/ \E c \in Own(q) : waiting'[q] = Append(waiting[q], c)
  BY <1>1
<1>2. CASE UNCHANGED <<going, waiting, stage>>
  BY <1>1, <1>2
<1>3. ASSUME NEW p \in Instances, Reads(p) \/ Booted(p)
      PROVE  /\ UNCHANGED <<going, waiting>>
             /\ stage'[q] = stage[q] \/ {stage[q], stage'[q]} \subseteq {"down", "boot", "idle"}
  <2>1. CASE BootShared(p) \/ FetchFails(p) \/ Booted(p)
    BY <2>1 DEF BootShared, FetchFails, Booted
  <2>2. CASE Refresh(p) \/ HasAlready(p) \/ Fetch(p)
    BY <2>2 DEF Refresh, HasAlready, Fetch
  <2> QED BY <1>3, <2>1, <2>2 DEF Reads
<1>4. ASSUME NEW p \in Instances, NEW c \in Cards, Write(p, c)
      PROVE  /\ going'[q] = going[q] /\ stage'[q] = stage[q]
             /\ waiting'[q] = waiting[q] \/ \E d \in Own(q) : waiting'[q] = Append(waiting[q], d)
  <2>1. Author[c] = p /\ waiting' = [waiting EXCEPT ![p] = Append(@, c)]
    BY <1>4 DEF Write
  <2> QED BY <1>4, <2>1 DEF Write, Own
<1>5. ASSUME NEW p \in Instances, NEW s, To(p, s, NoFlight), s \notin {"segment", "swap"},
             \/ waiting' = waiting
             \/ waiting' = [waiting EXCEPT ![p] = SubSeq(@, going[p].n + 1, Len(@))]
      PROVE  \/ going'[q] = going[q] /\ stage'[q] = stage[q] /\ waiting'[q] = waiting[q]
             \/ /\ going'[q].key = <<>> /\ going'[q].n = 0 /\ going'[q].tries = 0
                /\ stage'[q] \notin {"segment", "swap"}
                /\ \/ waiting'[q] = waiting[q]
                   \/ waiting'[q] = SubSeq(waiting[q], going[q].n + 1, Len(waiting[q]))
  <2>1. CASE p = q
    BY <1>5, <2>1 DEF To, NoFlight
  <2>2. CASE p # q
    BY <1>5, <2>2 DEF To
  <2> QED BY <2>1, <2>2
<1>6. ASSUME NEW p \in Instances, Concluded(p)
      PROVE  \E s : /\ To(p, s, NoFlight) /\ s \notin {"segment", "swap"}
                    /\ \/ waiting' = waiting
                       \/ waiting' = [waiting EXCEPT ![p] = SubSeq(@, going[p].n + 1, Len(@))]
  <2>1. CASE stage[p] = "segment"
    BY <1>6, <2>1 DEF Concluded
  <2>2. CASE stage[p] = "swap"
    BY <1>6, <2>2 DEF Concluded
  <2>3. CASE stage[p] \notin {"segment", "swap"}
    BY <1>6, <2>3 DEF Concluded
  <2> QED BY <2>1, <2>2, <2>3
<1>7. ASSUME NEW p \in Instances, CommitShared(p)
      PROVE  \/ UNCHANGED <<going, waiting, stage>>
             \/ \E s : /\ To(p, s, NoFlight) /\ s \notin {"segment", "swap"}
                       /\ \/ waiting' = waiting
                          \/ waiting' = [waiting EXCEPT ![p] = SubSeq(@, going[p].n + 1, Len(@))]
  <2>1. \/ Concluded(p)
        \/ UNCHANGED <<going, waiting, stage>>
        \/ To(p, "idle", NoFlight) /\ waiting' = waiting
    BY <1>7 DEF CommitShared
  <2> QED BY <1>6, <2>1
<1>8. ASSUME NEW p \in Instances, Contended(p), q = p => going[p].tries + 1 >= MaxAttempts \/ Adopts(p)
      PROVE  \/ going'[q] = going[q] /\ waiting'[q] = waiting[q] /\ stage'[q] = stage[q]
             \/ \E s : /\ To(p, s, NoFlight) /\ s \notin {"segment", "swap"}
                       /\ \/ waiting' = waiting
                          \/ waiting' = [waiting EXCEPT ![p] = SubSeq(@, going[p].n + 1, Len(@))]
  <2>1. CASE Adopts(p)
    BY <1>6, <1>8, <2>1 DEF Contended
  <2>2. CASE ~ Adopts(p) /\ going[p].tries + 1 < MaxAttempts
    <3>1. going' = [going EXCEPT ![p].tries = @ + 1] /\ UNCHANGED <<stage, waiting>>
      BY <1>8, <2>2 DEF Contended
    <3>2. p # q
      <4>1. going[p].tries \in Nat /\ MaxAttempts \in Nat
        BY DEF Flight, SharedAssumption
      <4> QED BY <1>8, <2>2, <4>1
    <3> QED BY <3>1, <3>2
  <2>3. CASE ~ Adopts(p) /\ ~ (going[p].tries + 1 < MaxAttempts)
    BY <1>8, <2>3 DEF Contended
  <2> QED BY <2>1, <2>2, <2>3
<1>9. ASSUME Contended(q), ~ Adopts(q), going[q].tries + 1 < MaxAttempts
      PROVE  /\ going'[q].key = going[q].key /\ going'[q].n = going[q].n
             /\ going'[q].tries < MaxAttempts
             /\ stage'[q] = stage[q] /\ waiting'[q] = waiting[q]
  <2>1. going' = [going EXCEPT ![q].tries = @ + 1] /\ UNCHANGED <<stage, waiting>>
    BY <1>9 DEF Contended
  <2>2. going[q] \in Flight
    OBVIOUS
  <2>3. going'[q] = [going[q] EXCEPT !.tries = @ + 1]
    BY <2>1
  <2>4. /\ going'[q].key = going[q].key /\ going'[q].n = going[q].n
        /\ going'[q].tries = going[q].tries + 1
    BY <2>2, <2>3 DEF Flight
  <2> QED BY <1>9, <2>1, <2>4
<1>10. ASSUME NEW p \in Instances, NotDue(p) \/ CollectShared(p), p # q
       PROVE  going'[q] = going[q] /\ waiting'[q] = waiting[q] /\ stage'[q] = stage[q]
  BY <1>10 DEF NotDue, CollectShared, To
<1>11. ASSUME NotDue(q) \/ CollectShared(q)
       PROVE  /\ going'[q].key = <<>> /\ going'[q].n = 0 /\ going'[q].tries = 0
              /\ stage'[q] \notin {"segment", "swap"} /\ waiting'[q] = waiting[q]
  <2>1. CASE NotDue(q)
    BY <2>1 DEF NotDue, To, NoFlight
  <2>2. CASE CollectShared(q)
    BY <2>2 DEF CollectShared, To, NoFlight
  <2> QED BY <1>11, <2>1, <2>2
<1>12. ASSUME NEW p \in Instances, FlushSegment(p) \/ Compact(p), p # q
       PROVE  going'[q] = going[q] /\ waiting'[q] = waiting[q] /\ stage'[q] = stage[q]
  <2>1. CASE FlushSegment(p)
    BY <1>12, <2>1 DEF FlushSegment, To
  <2>2. CASE Compact(p)
    BY <1>12, <2>2 DEF Compact, To
  <2> QED BY <1>12, <2>1, <2>2
<1>13. ASSUME FlushSegment(q), ~ UNCHANGED <<stage, going>>
       PROVE  /\ stage'[q] = "segment" /\ waiting'[q] = waiting[q]
              /\ \E n \in 1..Len(waiting[q]) :
                   /\ going'[q] = [NoFlight EXCEPT !.key = SegmentKey(q), !.n = n]
                   /\ Put(SegmentKey(q), {waiting[q][m] : m \in 1..n})
  <2>1. PICK n \in 1..Len(waiting[q]) :
          /\ Put(SegmentKey(q), {waiting[q][m] : m \in 1..n})
          /\ To(q, "segment", [NoFlight EXCEPT !.key = SegmentKey(q), !.n = n])
    BY <1>13 DEF FlushSegment
  <2> QED BY <1>13, <2>1 DEF FlushSegment, To
<1>14. ASSUME Compact(q)
       PROVE  /\ stage'[q] = "swap" /\ waiting'[q] = waiting[q]
              /\ going'[q] = [NoFlight EXCEPT !.key = SnapshotKey(q)]
  BY <1>14 DEF Compact, To
<1>15. CASE \E p \in Instances : Reads(p) \/ Booted(p)
  BY <1>1, <1>3, <1>15
<1>16. CASE \E p \in Instances : \E c \in Cards : Write(p, c)
  BY <1>4, <1>16
<1>17. CASE \E p \in Instances : FlushSegment(p) \/ Compact(p)
  <2>1. CASE \E p \in Instances : (FlushSegment(p) \/ Compact(p)) /\ p # q
    BY <1>1, <1>12, <2>1
  <2>2. CASE Compact(q)
    BY <1>14, <2>2
  <2>3. CASE FlushSegment(q) /\ UNCHANGED <<stage, going>>
    BY <1>2, <2>3 DEF FlushSegment
  <2>4. CASE FlushSegment(q) /\ ~ UNCHANGED <<stage, going>>
    BY <1>13, <2>4
  <2> QED BY <1>17, <2>1, <2>2, <2>3, <2>4
<1>18. CASE \E p \in Instances : NotDue(p) \/ CollectShared(p)
  BY <1>1, <1>10, <1>11, <1>18
<1>19. CASE \E p \in Instances : CommitShared(p)
  <2>1. PICK p \in Instances : CommitShared(p)
    BY <1>19
  <2> QED BY <1>2, <1>5, <1>7, <2>1
<1>20. CASE \E p \in Instances : Contended(p)
  <2>1. PICK p \in Instances : Contended(p)
    BY <1>20
  <2>2. CASE q = p /\ ~ (going[p].tries + 1 >= MaxAttempts \/ Adopts(p))
    <3>1. going[q].tries + 1 < MaxAttempts
      BY <2>2 DEF Flight, SharedAssumption
    <3> QED BY <1>9, <2>1, <2>2, <3>1
  <2>3. CASE q = p => going[p].tries + 1 >= MaxAttempts \/ Adopts(p)
    BY <1>1, <1>5, <1>8, <2>1, <2>3
  <2> QED BY <2>2, <2>3
<1>21. CASE Grace \/ UNCHANGED sharedVars
  BY <1>2, <1>21 DEF Grace, sharedVars
<1> QED BY <1>15, <1>16, <1>17, <1>18, <1>19, <1>20, <1>21 DEF SharedNext, Reads

-----------------------------------------------------------------------------
(* The store, the names and the flights.                                   *)

\* All that a step keeps of the store and of the loops that write it.
Frame == TypeOK /\ KeysTaken /\ KeysSorted /\ KnownWas /\ FlightInv /\ OwnWrites /\ NamedExists

\* A key that was handed out: its object is what it was, or there is none.
LEMMA ObjectsStay ==
  ASSUME Frame, [SharedNext]_sharedVars, NEW k, k \in Used, k \in DOMAIN stored'
  PROVE  k \in DOMAIN stored /\ stored'[k] = stored[k]
BY StoredNext DEF Frame

\* What the manifest names stays what it is.
LEMMA LiveStay ==
  ASSUME Frame, [SharedNext]_sharedVars, NEW k \in LiveKeys(index)
  PROVE  k \in DOMAIN stored /\ k \in DOMAIN stored' /\ stored'[k] = stored[k]
<1>1. k \in DOMAIN stored
  BY DEF Frame, NamedExists
<1> QED BY <1>1, StoredNext DEF Frame

LEMMA KeysTakenNext ==
  ASSUME SharedAssumption, Frame, [SharedNext]_sharedVars
  PROVE  KeysTaken'
<1> USE DEF Frame
<1>1. Used \subseteq Used'
  BY NamesNext
<1>2. index \in Manifest /\ index.gc \subseteq Key /\ LiveKeys(index) \subseteq Key
  BY NamedAreKeys DEF TypeOK, Manifest
<1>3. \A k \in LiveKeys(index) : k \in Used
  BY DEF NamedExists, KeysTaken
<1>4. ASSUME NEW p \in Instances, going[p].key # <<>>
      PROVE  going[p].key \in Key /\ going[p].key \in Used /\ going[p].key \in Used'
  <2>1. going[p].key \in Key
    BY <1>4 DEF TypeOK, Flight
  <2> QED BY <1>1, <1>4, <2>1 DEF KeysTaken
<1>5. \A k \in DOMAIN stored' : k \in Used'
  <2> SUFFICES ASSUME NEW k \in DOMAIN stored'
               PROVE  k \in Used'
    OBVIOUS
  <2>1. CASE k \in DOMAIN stored
    BY <1>1, <2>1 DEF TypeOK, KeysTaken
  <2>2. CASE k \notin DOMAIN stored
    <3>1. \/ \E p \in Instances : FlushSegment(p) /\ k = SegmentKey(p)
          \/ \E p \in Instances : Compact(p) /\ k = SnapshotKey(p)
      <4>1. stored' # stored
        BY <2>2
      <4>2. \E p \in Instances : FlushSegment(p) \/ Compact(p) \/ CollectShared(p)
        BY <4>1 DEF SharedNext, sharedVars, Grace, BootShared, Refresh, HasAlready, Fetch, FetchFails,
                    Booted, Write, CommitShared, Contended, NotDue
      <4>3. ASSUME NEW p \in Instances, FlushSegment(p)
            PROVE  k = SegmentKey(p)
        <5>1. \E body : Put(SegmentKey(p), body)
          BY <4>1, <4>3 DEF FlushSegment
        <5> QED BY <2>2, <5>1 DEF Put
      <4>4. ASSUME NEW p \in Instances, Compact(p)
            PROVE  k = SnapshotKey(p)
        BY <2>2, <4>4 DEF Compact, Put
      <4>5. ASSUME NEW p \in Instances, CollectShared(p)
            PROVE  FALSE
        <5>1. stored' = stored \/ DOMAIN stored' \subseteq DOMAIN stored
          BY <4>5 DEF CollectShared
        <5> QED BY <2>2, <4>1, <5>1
      <4> QED BY <4>2, <4>3, <4>4, <4>5
    <3>2. ASSUME NEW p \in Instances, FlushSegment(p), k = SegmentKey(p)
          PROVE  k \in Used'
      <4>1. names' = [names EXCEPT ![p].wal = @ + 1]
        BY <3>2 DEF FlushSegment
      <4> QED BY <3>2, <4>1, NamesUsed
    <3>3. ASSUME NEW p \in Instances, Compact(p), k = SnapshotKey(p)
          PROVE  k \in Used'
      <4>1. names' = [names EXCEPT ![p].snap = @ + 1]
        BY <3>3 DEF Compact
      <4> QED BY <3>3, <4>1, NamesUsed
    <3> QED BY <3>1, <3>2, <3>3
  <2> QED BY <2>1, <2>2
<1>6. /\ \A k \in SegKeys(index') \cup index'.gc : k \in Used'
      /\ index'.snap # <<>> => index'.snap \in Used'
  <2>1. CASE index' = index
    BY <1>1, <1>2, <2>1, NamedAreKeys DEF KeysTaken
  <2>2. CASE index' # index
    <3>1. PICK p \in Instances :
            /\ stage[p] \in {"segment", "swap", "forget"} /\ index' \in Manifest
            /\ stage[p] = "segment" => /\ index'.segs = Append(index.segs, going[p].key)
                                       /\ index'.snap = index.snap
                                       /\ index'.gc = index.gc
            /\ stage[p] = "swap" => /\ index'.segs = <<>> /\ index'.snap = going[p].key
                                    /\ index'.gc = index.gc \cup LiveKeys(index)
            /\ stage[p] = "forget" => /\ index'.segs = index.segs /\ index'.snap = index.snap
                                      /\ index'.gc \subseteq index.gc
      BY <2>2, IndexNext
    <3>2. stage[p] \in {"segment", "swap"} => going[p].key # <<>>
      BY DEF KeysSorted
    <3>3. index'.gc \subseteq index.gc \cup LiveKeys(index)
      BY <3>1
    <3>4. SegKeys(index') \subseteq SegKeys(index) \cup
            (IF stage[p] = "segment" THEN {going[p].key} ELSE {})
      BY <1>2, <1>4, <3>1, <3>2, SegsOf
    <3>5. index'.snap = index.snap \/ (stage[p] = "swap" /\ index'.snap = going[p].key)
      BY <3>1
    <3>6. \A k \in index.gc \cup LiveKeys(index) : k \in Used'
      BY <1>1, <1>2, <1>3 DEF KeysTaken
    <3>7. SegKeys(index) \subseteq LiveKeys(index) /\ (index.snap # <<>> => index.snap \in LiveKeys(index))
      BY <1>2, NamedAreKeys
    <3> QED BY <1>4, <3>2, <3>3, <3>4, <3>5, <3>6, <3>7
  <2> QED BY <2>1, <2>2
<1>7. \A k \in aged' : k \in Used'
  <2>1. aged' = aged \/ aged' = index.gc
    BY DEF SharedNext, sharedVars, Grace, BootShared, Refresh, HasAlready, Fetch, FetchFails,
           Booted, Write, FlushSegment, CommitShared, Contended, Compact, NotDue, CollectShared
  <2>2. aged \subseteq Key
    BY DEF TypeOK
  <2> QED BY <1>1, <1>2, <2>1, <2>2 DEF KeysTaken
<1>8. ASSUME NEW p \in Instances
      PROVE  /\ \A k \in folded'[p] \cup Items(p)' : k \in Used'
             /\ base'[p] # <<>> => base'[p] \in Used'
  <2>1. Items(p) \cup LiveKeys(index) \subseteq Used'
    <3>1. \A i \in DOMAIN fetching[p] : fetching[p][i].key \in Key
      <4>1. fetching[p] \in Seq(Item)
        BY DEF TypeOK
      <4>2. \A i \in DOMAIN fetching[p] : fetching[p][i] \in Item
        BY <4>1
      <4> QED BY <4>2 DEF Item
    <3>2. Items(p) \subseteq Key
      BY <3>1 DEF Items
    <3> QED BY <1>1, <1>2, <1>3, <3>2 DEF KeysTaken
  <2>2. \A k \in Items(p)' : k \in Used'
    BY <2>1, ItemsNext
  <2>3. folded[p] \subseteq Key /\ base[p] \in Key \cup {<<>>}
    BY DEF TypeOK
  <2>4. /\ \A k \in folded'[p] : k \in folded[p] \/ k \in Items(p)
        /\ base'[p] = base[p] \/ base'[p] \in Items(p) \/ SwapEnds(p)
    <3>1. CASE ~ Reads(p)
      BY <3>1, MemoryNext DEF SwapEnds
    <3>2. CASE BootShared(p) \/ Refresh(p) \/ HasAlready(p) \/ FetchFails(p)
      BY <3>2 DEF BootShared, Refresh, HasAlready, FetchFails
    <3>3. CASE Fetch(p)
      <4>1. Head(fetching[p]).key \in Items(p)
        BY <3>3, TailIs DEF Fetch, Items, TypeOK
      <4>2. /\ folded'[p] \subseteq folded[p] \cup {Head(fetching[p]).key}
            /\ base'[p] \in {base[p], Head(fetching[p]).key}
        BY <3>3 DEF Fetch, TypeOK
      <4> QED BY <4>1, <4>2
    <3> QED BY <3>1, <3>2, <3>3 DEF Reads
  <2>5. SwapEnds(p) => base'[p] = going[p].key /\ going[p].key # <<>>
    BY DEF SwapEnds, KeysSorted
  <2> QED BY <1>1, <1>4, <2>1, <2>2, <2>3, <2>4, <2>5 DEF KeysTaken
<1>9. ASSUME NEW p \in Instances, going'[p].key # <<>>
      PROVE  going'[p].key \in Used'
  <2>1. CASE going'[p].key = going[p].key
    BY <1>4, <1>9, <2>1
  <2>2. CASE FlushSegment(p) /\ going'[p].key = SegmentKey(p)
    <3>1. names' = [names EXCEPT ![p].wal = @ + 1]
      BY <2>2 DEF FlushSegment
    <3> QED BY <2>2, <3>1, NamesUsed
  <2>3. CASE Compact(p) /\ going'[p].key = SnapshotKey(p)
    <3>1. names' = [names EXCEPT ![p].snap = @ + 1]
      BY <2>3 DEF Compact
    <3> QED BY <2>3, <3>1, NamesUsed
  <2>4. \/ going'[p].key = going[p].key
        \/ FlushSegment(p) /\ going'[p].key = SegmentKey(p)
        \/ Compact(p) /\ going'[p].key = SnapshotKey(p)
    BY <1>9, FlightNext DEF NoFlight
  <2> QED BY <2>1, <2>2, <2>3, <2>4
<1> QED BY <1>5, <1>6, <1>7, <1>8, <1>9 DEF KeysTaken

LEMMA KeysSortedNext ==
  ASSUME SharedAssumption, Frame, [SharedNext]_sharedVars
  PROVE  KeysSorted'
<1> USE DEF Frame
<1>1. /\ \A k \in SegKeys(index') : k[1] = "wal"
      /\ index'.snap # <<>> => index'.snap[1] = "snap"
  <2>1. CASE index' = index
    BY <2>1 DEF KeysSorted
  <2>2. CASE index' # index
    <3>1. PICK p \in Instances :
            /\ stage[p] \in {"segment", "swap", "forget"}
            /\ stage[p] = "segment" => /\ index'.segs = Append(index.segs, going[p].key)
                                       /\ index'.snap = index.snap
            /\ stage[p] = "swap" => index'.segs = <<>> /\ index'.snap = going[p].key
            /\ stage[p] = "forget" => index'.segs = index.segs /\ index'.snap = index.snap
      BY <2>2, IndexNext
    <3>2. index \in Manifest
      BY DEF TypeOK
    <3>3. SegKeys(index') \subseteq SegKeys(index) \cup
            (IF stage[p] = "segment" THEN {going[p].key} ELSE {})
      <4>1. stage[p] = "segment" => going[p].key \in Key
        BY DEF KeysSorted, TypeOK, Flight
      <4> QED BY <3>1, <3>2, <4>1, SegsOf
    <3> QED BY <3>1, <3>3 DEF KeysSorted
  <2> QED BY <2>1, <2>2
<1>2. ASSUME NEW p \in Instances
      PROVE  base'[p] # <<>> => base'[p][1] = "snap"
  <2>1. CASE ~ Reads(p)
    BY <2>1, MemoryNext DEF SwapEnds, KeysSorted
  <2>2. CASE BootShared(p) \/ Refresh(p) \/ HasAlready(p) \/ FetchFails(p)
    BY <2>2 DEF BootShared, Refresh, HasAlready, FetchFails, KeysSorted
  <2>3. CASE Fetch(p)
    BY <2>3 DEF Fetch, TypeOK, KeysSorted
  <2> QED BY <2>1, <2>2, <2>3 DEF Reads
<1>3. ASSUME NEW p \in Instances
      PROVE  /\ stage'[p] = "segment" => going'[p].key # <<>> /\ going'[p].key[1] = "wal"
             /\ stage'[p] = "swap" => going'[p].key # <<>> /\ going'[p].key[1] = "snap"
  <2>1. /\ SegmentKey(p)[1] = "wal" /\ SnapshotKey(p)[1] = "snap"
        /\ SegmentKey(p) # <<>> /\ SnapshotKey(p) # <<>>
    BY NewNames, NamesAre, KeyParts
  <2>2. \/ /\ going'[p].key = going[p].key
           /\ stage'[p] = stage[p] \/ stage'[p] \in {"down", "boot", "idle"}
        \/ stage'[p] \notin {"segment", "swap"}
        \/ stage'[p] = "segment" /\ going'[p].key = SegmentKey(p)
        \/ stage'[p] = "swap" /\ going'[p].key = SnapshotKey(p)
    BY FlightNext DEF NoFlight
  <2> QED BY <2>1, <2>2 DEF KeysSorted
<1>4. \A p \in Instances : \A i \in DOMAIN fetching'[p] :
        fetching'[p][i].key[1] = "snap" => i = 1 /\ fetching'[p][i].always
  BY ItemsNext
<1> QED BY <1>1, <1>2, <1>3, <1>4 DEF KeysSorted

LEMMA KnownWasNext ==
  ASSUME SharedAssumption, Frame, [SharedNext]_sharedVars
  PROVE  KnownWas'
<1> USE DEF Frame
<1>1. /\ index.seq \in Nat /\ index'.seq \in {index.seq, index.seq + 1}
      /\ index'.seq = index.seq => index' = index
  <2>1. index.seq \in Nat
    BY DEF TypeOK, Manifest
  <2> QED BY <2>1, IndexNext
<1>2. ASSUME NEW p \in Instances
      PROVE  known[p].seq \in Nat /\ known'[p] \in {known[p], index, index'}
  <2>1. known[p].seq \in Nat
    BY DEF TypeOK, Manifest
  <2>2. \/ known' = known
        \/ \E q \in Instances : known' = [known EXCEPT ![q] = index]
        \/ \E q \in Instances : known' = [known EXCEPT ![q] = index']
    BY DEF SharedNext, sharedVars, Grace, BootShared, Refresh, ReadIndex, HasAlready, Fetch,
           FetchFails, Booted, Write, FlushSegment, CommitShared, Contended, Compact, NotDue,
           CollectShared
  <2> QED BY <2>1, <2>2 DEF TypeOK
<1>3. ASSUME NEW p \in Instances
      PROVE  known'[p].seq <= index'.seq /\ (known'[p].seq = index'.seq => known'[p] = index')
  <2>1. CASE known'[p] = known[p]
    BY <1>1, <1>2, <2>1 DEF KnownWas
  <2>2. CASE known'[p] = index \/ known'[p] = index'
    BY <1>1, <2>2
  <2> QED BY <1>2, <2>1, <2>2
<1> QED BY <1>3 DEF KnownWas

\* No object an instance is committing is past its grace, nor was it deleted.
LEMMA FlightKept ==
  ASSUME Frame, [SharedNext]_sharedVars, NEW p \in Instances,
         stage[p] \in {"segment", "swap"}
  PROVE  /\ going[p].key \in DOMAIN stored' \ aged'
         /\ stored'[going[p].key] = stored[going[p].key]
<1> USE DEF Frame
<1>1. going[p].key \in DOMAIN stored \ aged
  BY DEF FlightInv
<1>2. aged' = aged
  <2>1. ~ Grace
    BY DEF Grace
  <2> QED BY <2>1 DEF SharedNext, sharedVars, BootShared, Refresh, HasAlready, Fetch, FetchFails,
               Booted, Write, FlushSegment, CommitShared, Contended, Compact, NotDue, CollectShared
<1> QED BY <1>1, <1>2, StoredNext

LEMMA FlightInvNext ==
  ASSUME SharedAssumption, Frame, [SharedNext]_sharedVars
  PROVE  FlightInv'
<1> USE DEF Frame
<1> SUFFICES ASSUME NEW p \in Instances
             PROVE  /\ going'[p].n <= Len(waiting'[p]) /\ going'[p].tries < MaxAttempts
                    /\ stage'[p] # "segment" => going'[p].n = 0
                    /\ stage'[p] \in {"segment", "swap"} => going'[p].key \in DOMAIN stored' \ aged'
                    /\ stage'[p] = "segment" => stored'[going'[p].key] = Some(p)'
  BY DEF FlightInv
<1>1. /\ going[p].n <= Len(waiting[p]) /\ going[p].tries < MaxAttempts
      /\ stage[p] # "segment" => going[p].n = 0
      /\ stage[p] = "segment" => stored[going[p].key] = Some(p)
  BY DEF FlightInv
<1>2. waiting[p] \in Seq(Cards) /\ going[p].n \in Nat /\ Len(waiting[p]) \in Nat
  BY DEF TypeOK, Flight
<1>3. MaxAttempts \in Nat \ {0}
  BY DEF SharedAssumption
<1>4. aged' = aged \/ aged' = index.gc
  BY DEF SharedNext, sharedVars, Grace, BootShared, Refresh, HasAlready, Fetch, FetchFails,
         Booted, Write, FlushSegment, CommitShared, Contended, Compact, NotDue, CollectShared
<1>5. aged' \subseteq Used
  BY <1>4 DEF KeysTaken
<1>6. ASSUME going'[p].key = going[p].key, going'[p].n = going[p].n,
             going'[p].tries < MaxAttempts,
             stage'[p] = stage[p] \/ {stage[p], stage'[p]} \subseteq {"down", "boot", "idle"},
             waiting'[p] = waiting[p] \/ \E c \in Own(p) : waiting'[p] = Append(waiting[p], c)
      PROVE  /\ going'[p].n <= Len(waiting'[p]) /\ going'[p].tries < MaxAttempts
             /\ stage'[p] # "segment" => going'[p].n = 0
             /\ stage'[p] \in {"segment", "swap"} => going'[p].key \in DOMAIN stored' \ aged'
             /\ stage'[p] = "segment" => stored'[going'[p].key] = Some(p)'
  <2>1. /\ Len(waiting'[p]) >= Len(waiting[p]) /\ Len(waiting'[p]) \in Nat
        /\ \A n \in 1..Len(waiting[p]) : waiting'[p][n] = waiting[p][n]
    <3>1. CASE waiting'[p] = waiting[p]
      BY <1>2, <3>1
    <3>2. CASE \E c \in Own(p) : waiting'[p] = Append(waiting[p], c)
      <4>1. PICK c \in Own(p) : waiting'[p] = Append(waiting[p], c)
        BY <3>2
      <4>2. c \in Cards
        BY DEF Own
      <4> QED BY <1>2, <4>1, <4>2, AppendProperties
    <3> QED BY <1>6, <3>1, <3>2
  <2>2. Some(p)' = Some(p)
    <3>1. \A n \in 1..going[p].n : n \in 1..Len(waiting[p])
      BY <1>1, <1>2
    <3> QED BY <1>6, <2>1, <3>1 DEF Some
  <2>3. stage'[p] \in {"segment", "swap"} => stage[p] = stage'[p]
    BY <1>6
  <2>4. going'[p].n <= Len(waiting'[p])
    BY <1>1, <1>2, <1>6, <2>1
  <2> QED BY <1>1, <1>6, <2>2, <2>3, <2>4, FlightKept
<1>7. CASE /\ going'[p].key = <<>> /\ going'[p].n = 0 /\ going'[p].tries = 0
           /\ stage'[p] \notin {"segment", "swap"}
           /\ \/ waiting'[p] = waiting[p]
              \/ waiting'[p] = SubSeq(waiting[p], going[p].n + 1, Len(waiting[p]))
  <2>1. Len(waiting'[p]) \in Nat
    BY <1>2, <1>7, SubSeqProperties
  <2> QED BY <1>3, <1>7, <2>1
<1>8. CASE /\ FlushSegment(p) /\ stage'[p] = "segment" /\ waiting'[p] = waiting[p]
           /\ \E n \in 1..Len(waiting[p]) :
                /\ going'[p] = [NoFlight EXCEPT !.key = SegmentKey(p), !.n = n]
                /\ Put(SegmentKey(p), {waiting[p][m] : m \in 1..n})
  <2>1. PICK n \in 1..Len(waiting[p]) :
          /\ going'[p] = [NoFlight EXCEPT !.key = SegmentKey(p), !.n = n]
          /\ Put(SegmentKey(p), {waiting[p][m] : m \in 1..n})
    BY <1>8
  <2>2. going'[p].key = SegmentKey(p) /\ going'[p].n = n /\ going'[p].tries = 0
    BY <2>1 DEF NoFlight
  <2>3. SegmentKey(p) \notin aged'
    BY <1>5, NewNames
  <2>4. Some(p)' = {waiting[p][m] : m \in 1..n}
    BY <1>8, <2>2 DEF Some
  <2>5. SegmentKey(p) \in DOMAIN stored' /\ stored'[SegmentKey(p)] = Some(p)'
    BY <2>1, <2>4 DEF Put
  <2> QED BY <1>2, <1>3, <1>8, <2>2, <2>3, <2>5
<1>9. CASE /\ Compact(p) /\ stage'[p] = "swap" /\ waiting'[p] = waiting[p]
           /\ going'[p] = [NoFlight EXCEPT !.key = SnapshotKey(p)]
  <2>1. going'[p].key = SnapshotKey(p) /\ going'[p].n = 0 /\ going'[p].tries = 0
    BY <1>9 DEF NoFlight
  <2>2. SnapshotKey(p) \notin aged' /\ SnapshotKey(p) \in DOMAIN stored'
    BY <1>5, <1>9, NewNames DEF Compact, Put
  <2> QED BY <1>2, <1>3, <1>9, <2>1, <2>2
<1>10. CASE \/ /\ going'[p] = going[p]
               /\ stage'[p] = stage[p] \/ {stage[p], stage'[p]} \subseteq {"down", "boot", "idle"}
               /\ waiting'[p] = waiting[p] \/ \E c \in Own(p) : waiting'[p] = Append(waiting[p], c)
            \/ /\ going'[p].key = going[p].key /\ going'[p].n = going[p].n
               /\ going'[p].tries < MaxAttempts
               /\ stage'[p] = stage[p] /\ waiting'[p] = waiting[p]
  BY <1>1, <1>6, <1>10
<1> QED BY <1>7, <1>8, <1>9, <1>10, FlightNext

LEMMA OwnWritesNext ==
  ASSUME SharedAssumption, Frame, [SharedNext]_sharedVars
  PROVE  OwnWrites'
<1> USE DEF Frame
<1> SUFFICES ASSUME NEW p \in Instances
             PROVE  /\ \A n \in DOMAIN waiting'[p] : waiting'[p][n] \in Own(p)
                    /\ \A k \in DOMAIN stored' :
                         k[1] = "wal" /\ k[2] = p => stored'[k] \subseteq Own(p)
  BY DEF OwnWrites, Own
<1>1. waiting[p] \in Seq(Cards) /\ \A n \in DOMAIN waiting[p] : waiting[p][n] \in Own(p)
  BY DEF TypeOK, OwnWrites
<1>2. going[p].n \in Nat /\ Len(waiting[p]) \in Nat /\ DOMAIN waiting[p] = 1..Len(waiting[p])
  BY <1>1, LenProperties DEF TypeOK, Flight
<1>3. \/ waiting'[p] = waiting[p]
      \/ \E c \in Own(p) : waiting'[p] = Append(waiting[p], c)
      \/ waiting'[p] = SubSeq(waiting[p], going[p].n + 1, Len(waiting[p]))
  BY FlightNext
<1>4. ASSUME NEW c \in Own(p), waiting'[p] = Append(waiting[p], c)
      PROVE  \A n \in DOMAIN waiting'[p] : waiting'[p][n] \in Own(p)
  <2>1. c \in Cards
    BY DEF Own
  <2>2. /\ DOMAIN waiting'[p] = 1..(Len(waiting[p]) + 1)
        /\ waiting'[p][Len(waiting[p]) + 1] = c
        /\ \A n \in 1..Len(waiting[p]) : waiting'[p][n] = waiting[p][n]
    BY <1>1, <1>4, <2>1, AppendProperties
  <2> QED BY <1>1, <1>2, <2>2
<1>5. ASSUME waiting'[p] = SubSeq(waiting[p], going[p].n + 1, Len(waiting[p]))
      PROVE  \A n \in DOMAIN waiting'[p] : waiting'[p][n] \in Own(p)
  <2>1. going[p].n <= Len(waiting[p])
    BY DEF FlightInv
  <2>2. /\ DOMAIN waiting'[p] = 1..(Len(waiting[p]) - going[p].n)
        /\ \A n \in 1..(Len(waiting[p]) - going[p].n) : waiting'[p][n] = waiting[p][going[p].n + n]
    BY SMTT(30), <1>1, <1>2, <1>5, <2>1
  <2>3. \A n \in 1..(Len(waiting[p]) - going[p].n) : (going[p].n + n) \in DOMAIN waiting[p]
    BY <1>2, <2>1
  <2> QED BY <1>1, <2>2, <2>3
<1>6. \A n \in DOMAIN waiting'[p] : waiting'[p][n] \in Own(p)
  BY <1>1, <1>3, <1>4, <1>5
<1>7. ASSUME NEW k \in DOMAIN stored', k[1] = "wal", k[2] = p
      PROVE  stored'[k] \subseteq Own(p)
  <2>1. CASE k \in DOMAIN stored
    BY <1>7, <2>1, StoredNext DEF OwnWrites
  <2>2. CASE k \notin DOMAIN stored
    <3>1. ASSUME NEW q \in Instances, CollectShared(q)
          PROVE  FALSE
      <4>1. stored' = stored \/ DOMAIN stored' \subseteq DOMAIN stored
        BY <3>1 DEF CollectShared
      <4> QED BY <2>2, <4>1
    <3>2. ASSUME NEW q \in Instances, Compact(q)
          PROVE  FALSE
      <4>1. k = SnapshotKey(q)
        BY <2>2, <3>2 DEF Compact, Put
      <4> QED BY <1>7, <4>1, NewNames
    <3>3. ASSUME NEW q \in Instances, FlushSegment(q)
          PROVE  stored'[k] \subseteq Own(p)
      <4>1. PICK n \in 1..Len(waiting[q]) :
              Put(SegmentKey(q), {waiting[q][m] : m \in 1..n}) \/ UNCHANGED stored
        BY <3>3 DEF FlushSegment
      <4>2. k = SegmentKey(q) /\ stored'[k] = {waiting[q][m] : m \in 1..n}
        BY <2>2, <4>1 DEF Put
      <4>3. q = p
        BY <1>7, <4>2, NewNames
      <4>4. \A m \in 1..n : m \in DOMAIN waiting[p]
        BY <1>2, <4>3
      <4> QED BY <1>1, <4>2, <4>3, <4>4
    <3>4. \E q \in Instances : FlushSegment(q) \/ Compact(q) \/ CollectShared(q)
      <4>1. stored' # stored
        BY <2>2
      <4> QED BY <4>1 DEF SharedNext, sharedVars, Grace, BootShared, Refresh, HasAlready, Fetch,
                   FetchFails, Booted, Write, CommitShared, Contended, NotDue
    <3> QED BY <3>1, <3>2, <3>3, <3>4
  <2> QED BY <2>1, <2>2
<1> QED BY <1>6, <1>7

\* What a commit does to the objects the manifest names.
LEMMA LiveNext ==
  ASSUME Frame, [SharedNext]_sharedVars
  PROVE  \/ /\ index'.snap = index.snap /\ SegKeys(index) \subseteq SegKeys(index')
            /\ LiveKeys(index) \subseteq LiveKeys(index')
            /\ \/ LiveKeys(index') = LiveKeys(index)
               \/ \E p \in Instances : /\ stage[p] = "segment" /\ CommitShared(p)
                                       /\ LiveKeys(index') = LiveKeys(index) \cup {going[p].key}
         \/ \E p \in Instances : /\ stage[p] = "swap" /\ CommitShared(p)
                                 /\ index'.snap = going[p].key /\ LiveKeys(index') = {going[p].key}
<1> USE DEF Frame
<1>1. CASE index' = index
  BY <1>1
<1>2. CASE index' # index
  <2>1. PICK p \in Instances :
          /\ CommitShared(p) /\ stage[p] \in {"segment", "swap", "forget"}
          /\ stage[p] = "segment" => /\ index'.segs = Append(index.segs, going[p].key)
                                     /\ index'.snap = index.snap
          /\ stage[p] = "swap" => index'.segs = <<>> /\ index'.snap = going[p].key
          /\ stage[p] = "forget" => index'.segs = index.segs /\ index'.snap = index.snap
    BY <1>2, IndexNext
  <2>2. index \in Manifest
    BY DEF TypeOK
  <2>3. stage[p] \in {"segment", "swap"} => going[p].key \in Key /\ going[p].key # <<>>
    BY DEF KeysSorted, TypeOK, Flight
  <2>4. CASE stage[p] = "segment"
    <3>1. SegKeys(index') = SegKeys(index) \cup {going[p].key} /\ index'.snap = index.snap
      BY <2>1, <2>2, <2>3, <2>4, SegsOf
    <3>2. LiveKeys(index') = LiveKeys(index) \cup {going[p].key}
      BY <3>1 DEF LiveKeys
    <3> QED BY <2>1, <2>4, <3>1, <3>2
  <2>5. CASE stage[p] = "swap"
    <3>1. SegKeys(index') = {} /\ index'.snap = going[p].key /\ index'.snap # <<>>
      BY <2>1, <2>2, <2>3, <2>5, SegsOf
    <3>2. LiveKeys(index') = {going[p].key}
      BY <3>1 DEF LiveKeys
    <3> QED BY <2>1, <2>5, <3>1, <3>2
  <2>6. CASE stage[p] = "forget"
    <3>1. SegKeys(index') = SegKeys(index) /\ index'.snap = index.snap
      BY <2>1, <2>2, <2>6, SegsOf
    <3> QED BY <3>1 DEF LiveKeys
  <2> QED BY <2>1, <2>4, <2>5, <2>6
<1> QED BY <1>1, <1>2

LEMMA NamedExistsNext ==
  ASSUME SharedAssumption, Frame, [SharedNext]_sharedVars
  PROVE  NamedExists'
<1> USE DEF Frame
<1>1. LiveKeys(index') \subseteq DOMAIN stored'
  <2>1. \A k \in LiveKeys(index) : k \in DOMAIN stored'
    BY LiveStay
  <2>2. \A p \in Instances : stage[p] \in {"segment", "swap"} => going[p].key \in DOMAIN stored'
    BY FlightKept
  <2> QED BY <2>1, <2>2, LiveNext
<1>2. ASSUME NEW p \in Instances, stage'[p] \in {"maintain", "collect"}
      PROVE  (LiveKeys(index') \cap aged') \subseteq LiveKeys(known'[p])
  <2>1. ~ Grace
    BY <1>2 DEF Grace
  <2>2. aged' = aged
    BY <2>1 DEF SharedNext, sharedVars, BootShared, Refresh, HasAlready, Fetch, FetchFails, Booted,
                Write, FlushSegment, CommitShared, Contended, Compact, NotDue, CollectShared
  <2>3. (LiveKeys(index') \cap aged) \subseteq LiveKeys(index)
    <3>1. \A q \in Instances : stage[q] \in {"segment", "swap"} => going[q].key \notin aged
      BY DEF FlightInv
    <3> QED BY <3>1, LiveNext
  <2>4. CASE known'[p] = index \/ known'[p] = index'
    BY <2>2, <2>3, <2>4
  <2>5. CASE known'[p] = known[p] /\ stage[p] \in {"maintain", "collect"}
    BY <2>2, <2>3, <2>5 DEF NamedExists
  <2>6. \/ known'[p] \in {index, index'}
        \/ known'[p] = known[p] /\ stage[p] \in {"maintain", "collect"}
    <3> USE DEF TypeOK
    <3>1. CASE UNCHANGED sharedVars
      BY <1>2, <3>1 DEF sharedVars
    <3>2. ASSUME NEW q \in Instances, Reads(q) \/ Booted(q)
          PROVE  \/ known'[p] = index
                 \/ known'[p] = known[p] /\ stage[p] \in {"maintain", "collect"}
      <4>1. CASE BootShared(q) \/ FetchFails(q) \/ Booted(q)
        BY <1>2, <4>1 DEF BootShared, ReadIndex, FetchFails, Booted
      <4>2. CASE Refresh(q) \/ HasAlready(q) \/ Fetch(q)
        BY <1>2, <4>2 DEF Refresh, ReadIndex, HasAlready, Fetch
      <4> QED BY <3>2, <4>1, <4>2 DEF Reads
    <3>3. ASSUME NEW q \in Instances, \/ \E c \in Cards : Write(q, c)
                                      \/ FlushSegment(q) \/ Compact(q) \/ NotDue(q) \/ CollectShared(q)
          PROVE  known'[p] = known[p] /\ stage[p] \in {"maintain", "collect"}
      <4>1. CASE \E c \in Cards : Write(q, c)
        BY <1>2, <4>1 DEF Write
      <4>2. CASE FlushSegment(q)
        BY <1>2, <4>2 DEF FlushSegment, To
      <4>3. CASE Compact(q) \/ NotDue(q)
        BY <1>2, <4>3 DEF Compact, NotDue, To
      <4>4. CASE CollectShared(q)
        BY <1>2, <4>4 DEF CollectShared, To
      <4> QED BY <3>3, <4>1, <4>2, <4>3, <4>4
    <3>4. ASSUME NEW q \in Instances, CommitShared(q)
          PROVE  \/ known'[p] = index'
                 \/ known'[p] = known[p] /\ stage[p] \in {"maintain", "collect"}
      <4>1. CASE q = p
        <5>1. CASE known' = [known EXCEPT ![p] = index']
          BY <5>1
        <5>2. CASE UNCHANGED <<stage, going>> \/ To(p, "idle", NoFlight)
          BY <1>2, <3>4, <4>1, <5>2 DEF CommitShared, To
        <5> QED BY <3>4, <4>1, <5>1, <5>2 DEF CommitShared
      <4>2. CASE q # p
        <5>1. known'[p] = known[p]
          BY <3>4, <4>2 DEF CommitShared
        <5>2. stage'[p] = stage[p]
          BY <3>4, <4>2 DEF CommitShared, Concluded, To
        <5> QED BY <1>2, <5>1, <5>2
      <4> QED BY <4>1, <4>2
    <3>5. ASSUME NEW q \in Instances, Contended(q)
          PROVE  \/ known'[p] = index
                 \/ known'[p] = known[p] /\ stage[p] \in {"maintain", "collect"}
      <4>1. CASE q = p
        BY <3>5, <4>1 DEF Contended
      <4>2. CASE q # p
        <5>1. known'[p] = known[p]
          BY <3>5, <4>2 DEF Contended
        <5>2. stage'[p] = stage[p]
          BY <3>5, <4>2 DEF Contended, Concluded, To
        <5> QED BY <1>2, <5>1, <5>2
      <4> QED BY <4>1, <4>2
    <3>6. \/ UNCHANGED sharedVars
          \/ \E q \in Instances :
               \/ Reads(q) \/ Booted(q)
               \/ \E c \in Cards : Write(q, c)
               \/ FlushSegment(q) \/ Compact(q) \/ NotDue(q) \/ CollectShared(q)
               \/ CommitShared(q) \/ Contended(q)
      BY <2>1 DEF SharedNext, Reads
    <3> QED BY <3>1, <3>2, <3>3, <3>4, <3>5, <3>6
  <2> QED BY <2>4, <2>5, <2>6
<1> QED BY <1>1, <1>2 DEF NamedExists

-----------------------------------------------------------------------------
(* What is committed.                                                      *)

\* Nothing overlooked is forgotten.
LEMMA OverlookedGrows ==
  ASSUME [SharedNext]_sharedVars
  PROVE  overlooked \subseteq overlooked'
BY DEF SharedNext, sharedVars, Grace, BootShared, Refresh, HasAlready, Fetch, FetchFails, Booted,
       Write, FlushSegment, CommitShared, Contended, Compact, NotDue, CollectShared

\* A compaction puts a snapshot in place of everything, and it has all but what
\* it overlooks.
LEMMA SwapCovers ==
  ASSUME Frame, [SharedNext]_sharedVars, NEW p \in Instances, stage[p] = "swap", CommitShared(p)
  PROVE  /\ index'.snap = going[p].key /\ LiveKeys(index') = {going[p].key}
         /\ Common \subseteq stored'[index'.snap] \cup overlooked'
         /\ UNCHANGED <<stored, memory, fetching>>
<1> USE DEF Frame
<1>1. /\ index' = Wanted(p) /\ UNCHANGED <<stored, memory, fetching>>
      /\ overlooked' = overlooked \cup (Reflects(index) \ stored[going[p].key])
  BY DEF CommitShared
<1>2. going[p].key \in Key /\ going[p].key # <<>>
  BY DEF KeysSorted, TypeOK, Flight
<1>3. index'.segs = <<>> /\ index'.snap = going[p].key
  BY <1>1, <1>2, WantedIs
<1>4. LiveKeys(index') = {going[p].key}
  BY <1>2, <1>3 DEF LiveKeys, SegKeys
<1>5. Common \subseteq stored'[index'.snap] \cup overlooked'
  BY <1>1, <1>3 DEF Common
<1> QED BY <1>1, <1>3, <1>4, <1>5

\* Who makes the snapshot that the manifest points at another.
LEMMA SnapNext ==
  ASSUME Frame, [SharedNext]_sharedVars
  PROVE  \/ index'.snap = index.snap /\ LiveKeys(index) \subseteq LiveKeys(index')
         \/ \E p \in Instances : stage[p] = "swap" /\ CommitShared(p)
BY LiveNext

\* What was committed stays so, or was overlooked.
LEMMA CommonGrows ==
  ASSUME Frame, [SharedNext]_sharedVars
  PROVE  Common \subseteq Common'
<1>1. CASE LiveKeys(index) \subseteq LiveKeys(index')
  <2>1. \A k \in LiveKeys(index) : k \in DOMAIN stored' /\ stored'[k] = stored[k]
    BY LiveStay
  <2>2. Reflects(index) \subseteq Reflects(index)'
    BY <1>1, <2>1 DEF Reflects
  <2> QED BY <2>2, OverlookedGrows DEF Common
<1>2. ASSUME NEW p \in Instances, stage[p] = "swap", CommitShared(p)
      PROVE  Common \subseteq Common'
  <2>1. /\ index'.snap = going[p].key /\ LiveKeys(index') = {going[p].key}
        /\ Common \subseteq stored'[index'.snap] \cup overlooked'
    BY <1>2, SwapCovers
  <2>2. going[p].key \in DOMAIN stored'
    BY <1>2, FlightKept
  <2>3. stored'[index'.snap] \subseteq Reflects(index)'
    BY <2>1, <2>2 DEF Reflects
  <2> QED BY <2>1, <2>3 DEF Common
<1> QED BY <1>1, <1>2, SnapNext

\* What the flush loop acknowledges, the manifest has.
LEMMA AckedNext ==
  ASSUME SharedAssumption, Frame, AckedWasCommitted, [SharedNext]_sharedVars
  PROVE  AckedWasCommitted'
<1> USE DEF Frame
<1>1. ASSUME settled' = settled
      PROVE  AckedWasCommitted'
  BY <1>1, CommonGrows DEF AckedWasCommitted, Common
<1>2. ASSUME NEW p \in Instances, Concluded(p), settled' # settled
      PROVE  stage[p] = "segment" /\ settled' = settled \cup Some(p)
  BY <1>2 DEF Concluded
<1>3. ASSUME NEW p \in Instances, CommitShared(p), settled' # settled
      PROVE  AckedWasCommitted'
  <2>1. Concluded(p) /\ index' = Wanted(p) /\ stored' = stored
    BY <1>3 DEF CommitShared
  <2>2. stage[p] = "segment" /\ settled' = settled \cup Some(p)
    BY <1>2, <1>3, <2>1
  <2>3. going[p].key \in Key /\ going[p].key \in DOMAIN stored /\ stored[going[p].key] = Some(p)
    BY <2>2 DEF KeysSorted, FlightInv, TypeOK, Flight
  <2>4. index'.segs = Append(known[p].segs, going[p].key)
    BY <2>1, <2>2, <2>3, WantedIs
  <2>5. going[p].key \in LiveKeys(index')
    <3>1. known[p] \in Manifest
      BY DEF TypeOK
    <3>2. SegKeys(index') = SegKeys(known[p]) \cup {going[p].key}
      BY <2>3, <2>4, <3>1, SegsOf
    <3> QED BY <3>2 DEF LiveKeys
  <2>6. Some(p) \subseteq Reflects(index)'
    BY <2>1, <2>3, <2>5 DEF Reflects
  <2> QED BY <2>2, <2>6, CommonGrows DEF AckedWasCommitted, Common
<1>4. ASSUME NEW p \in Instances, Contended(p), settled' # settled
      PROVE  AckedWasCommitted'
  <2>1. Adopts(p) /\ Concluded(p) /\ UNCHANGED <<index, stored>>
    BY <1>4 DEF Contended
  <2>2. stage[p] = "segment" /\ settled' = settled \cup Some(p)
    BY <1>2, <1>4, <2>1
  <2>3. overlooked' = overlooked \cup (Some(p) \ Reflects(index))
    BY <1>4, <2>1 DEF Contended, Adopts
  <2>4. Reflects(index)' = Reflects(index)
    BY <2>1 DEF Reflects
  <2> QED BY <2>2, <2>3, <2>4 DEF AckedWasCommitted
<1>5. \/ settled' = settled
      \/ \E p \in Instances : CommitShared(p) \/ Contended(p)
  BY DEF SharedNext, sharedVars, Grace, BootShared, Refresh, HasAlready, Fetch, FetchFails, Booted,
         Write, FlushSegment, Compact, NotDue, CollectShared
<1> QED BY <1>1, <1>3, <1>4, <1>5

\* A swap is taken for one's own only where it is.
LEMMA SwapIsOwnNext ==
  ASSUME SharedAssumption, Frame, SwapIsOwn, [SharedNext]_sharedVars
  PROVE  SwapIsOwn'
<1> USE DEF Frame
<1> SUFFICES ASSUME NEW p \in Instances, index'.by = p, index'.seq = known'[p].seq + 1
             PROVE  /\ stage'[p] # "maintain"
                    /\ stage'[p] = "swap" => index'.snap = going'[p].key
  BY DEF SwapIsOwn
<1>1. index.seq \in Nat /\ index'.seq \in Nat /\ known[p].seq \in Nat /\ known'[p].seq \in Nat
  <2>1. TypeOK'
    BY TypeNext
  <2> QED BY <2>1 DEF TypeOK, Manifest
<1>2. known'[p] # index'
  BY <1>1
<1>3. ASSUME index' = index, known'[p] = known[p], stage'[p] = stage[p], going'[p].key = going[p].key
      PROVE  /\ stage'[p] # "maintain"
             /\ stage'[p] = "swap" => index'.snap = going'[p].key
  BY <1>3 DEF SwapIsOwn
<1> USE DEF TypeOK
<1>4. CASE UNCHANGED sharedVars \/ Grace
  BY <1>3, <1>4 DEF sharedVars, Grace
<1>5. ASSUME NEW q \in Instances, Reads(q) \/ Booted(q)
      PROVE  /\ stage'[p] # "maintain"
             /\ stage'[p] = "swap" => index'.snap = going'[p].key
  <2>1. /\ index' = index /\ known'[p] \in {index, known[p]} /\ going' = going
        /\ stage'[p] = stage[p] \/ stage'[p] \in {"down", "boot", "idle"}
    <3>1. CASE BootShared(q) \/ FetchFails(q) \/ Booted(q)
      BY <3>1 DEF BootShared, ReadIndex, FetchFails, Booted
    <3>2. CASE Refresh(q) \/ HasAlready(q) \/ Fetch(q)
      BY <3>2 DEF Refresh, ReadIndex, HasAlready, Fetch
    <3> QED BY <1>5, <3>1, <3>2 DEF Reads
  <2> QED BY <1>2, <1>3, <2>1
<1>6. ASSUME NEW q \in Instances, \/ \E c \in Cards : Write(q, c)
                                  \/ FlushSegment(q) \/ NotDue(q) \/ CollectShared(q)
      PROVE  /\ stage'[p] # "maintain"
             /\ stage'[p] = "swap" => index'.snap = going'[p].key
  <2>1. /\ index' = index /\ known' = known
        /\ \/ stage'[p] = stage[p] /\ going'[p] = going[p]
           \/ stage'[p] \in {"segment", "collect", "idle", "forget"}
    <3>1. CASE \E c \in Cards : Write(q, c)
      BY <3>1 DEF Write
    <3>2. CASE FlushSegment(q)
      BY <3>2 DEF FlushSegment, To
    <3>3. CASE NotDue(q)
      BY <3>3 DEF NotDue, To
    <3>4. CASE CollectShared(q)
      BY <3>4 DEF CollectShared, To
    <3> QED BY <1>6, <3>1, <3>2, <3>3, <3>4
  <2> QED BY <1>3, <2>1
<1>7. ASSUME NEW q \in Instances, Compact(q)
      PROVE  /\ stage'[p] # "maintain"
             /\ stage'[p] = "swap" => index'.snap = going'[p].key
  <2>1. index' = index /\ known' = known /\ stage[q] = "maintain"
    BY <1>7 DEF Compact
  <2>2. q # p
    BY <2>1 DEF SwapIsOwn
  <2>3. stage'[p] = stage[p] /\ going'[p] = going[p]
    BY <1>7, <2>2 DEF Compact, To
  <2> QED BY <1>3, <2>1, <2>3
<1>8. ASSUME NEW q \in Instances, CommitShared(q)
      PROVE  /\ stage'[p] # "maintain"
             /\ stage'[p] = "swap" => index'.snap = going'[p].key
  <2>1. index' = Wanted(q) /\ stage[q] \in {"segment", "swap", "forget"}
    BY <1>8 DEF CommitShared
  <2>2. stage[q] \in {"segment", "swap"} => going[q].key \in Key
    BY DEF KeysSorted, Flight
  <2>3. q = p
    BY <2>1, <2>2, WantedIs
  <2>4. known' # [known EXCEPT ![q] = index']
    BY <1>2, <2>3
  <2>5. UNCHANGED <<stage, going>> \/ To(p, "idle", NoFlight)
    BY <1>8, <2>3, <2>4 DEF CommitShared
  <2>6. stage[p] = "swap" => index'.snap = going[p].key
    BY <2>1, <2>2, <2>3, WantedIs
  <2> QED BY <2>1, <2>3, <2>5, <2>6 DEF To
<1>9. ASSUME NEW q \in Instances, Contended(q)
      PROVE  /\ stage'[p] # "maintain"
             /\ stage'[p] = "swap" => index'.snap = going'[p].key
  <2>1. index' = index /\ known' = [known EXCEPT ![q] = index]
    BY <1>9 DEF Contended
  <2>2. q # p
    BY <1>2, <2>1
  <2>3. stage'[p] = stage[p] /\ going'[p] = going[p]
    BY <1>9, <2>2 DEF Contended, Concluded, To
  <2> QED BY <1>3, <2>1, <2>2, <2>3
<1> QED BY <1>4, <1>5, <1>6, <1>7, <1>8, <1>9 DEF SharedNext, Reads

-----------------------------------------------------------------------------
(* What an instance has in memory.                                         *)

\* What is left to read of what was there is there, and was handed out.
LEMMA ItemsStay ==
  ASSUME Frame, [SharedNext]_sharedVars, NEW p \in Instances, NEW k \in Items(p)',
         k \in DOMAIN stored'
  PROVE  /\ k \in DOMAIN stored /\ stored'[k] = stored[k]
         /\ k \in Items(p) \/ (k \in LiveKeys(index) /\ (BootShared(p) \/ Refresh(p)))
<1> USE DEF Frame
<1>1. k \in Items(p) \/ (k \in LiveKeys(index) /\ (BootShared(p) \/ Refresh(p)))
  BY ItemsNext
<1>2. CASE k \in Items(p)
  <2>1. k \in Used
    BY <1>2 DEF KeysTaken
  <2> QED BY <1>1, <2>1, ObjectsStay
<1>3. CASE k \in LiveKeys(index)
  BY <1>1, <1>3, LiveStay
<1> QED BY <1>1, <1>2, <1>3

\* What an instance reads next, and what it has of it then.
LEMMA Fetched ==
  ASSUME Frame, NEW p \in Instances, Fetch(p), NEW k, k = Head(fetching[p]).key
  PROVE  /\ k \in Items(p) \cap DOMAIN stored /\ k = fetching[p][1].key /\ k \in Key
         /\ fetching'[p] = Tail(fetching[p]) /\ UNCHANGED <<stored, index, overlooked, aimed>>
         /\ \A q \in Instances : q # p => /\ memory'[q] = memory[q] /\ folded'[q] = folded[q]
                                          /\ base'[q] = base[q] /\ fetching'[q] = fetching[q]
         /\ UNCHANGED <<stage, going, waiting, settled>>
         /\ \/ /\ k[1] = "snap" /\ FirstIsSnap(p)
               /\ memory'[p] = stored[k] /\ folded'[p] = {} /\ base'[p] = k
            \/ /\ k[1] # "snap" /\ ~ FirstIsSnap(p)
               /\ memory'[p] = stored[k] \cup memory[p] /\ folded'[p] = folded[p] \cup {k}
               /\ base'[p] = base[p]
<1> USE DEF Frame
<1>1. fetching[p] \in Seq(Item) /\ fetching[p] # <<>>
  BY DEF TypeOK, Fetch
<1>2. /\ Head(fetching[p]) = fetching[p][1] /\ 1 \in DOMAIN fetching[p]
      /\ fetching[p][1] \in Item
  BY <1>1, TailIs
<1>3. k \in Key /\ k \in Items(p) /\ k \in DOMAIN stored /\ k = fetching[p][1].key
  BY <1>2 DEF Item, Items, Fetch
<1>4. FirstIsSnap(p) <=> k[1] = "snap"
  BY <1>1, <1>3 DEF FirstIsSnap
<1>5. /\ memory' = [memory EXCEPT ![p] = stored[k] \cup (IF k[1] = "snap" THEN {} ELSE @)]
      /\ folded' = [folded EXCEPT ![p] = IF k[1] = "snap" THEN {} ELSE @ \cup {k}]
      /\ base' = [base EXCEPT ![p] = IF k[1] = "snap" THEN k ELSE @]
      /\ fetching' = [fetching EXCEPT ![p] = Tail(@)]
      /\ UNCHANGED <<stored, index, overlooked, aimed, stage, going, waiting, settled>>
  BY DEF Fetch
<1>6. /\ memory'[p] = stored[k] \cup (IF k[1] = "snap" THEN {} ELSE memory[p])
      /\ folded'[p] = (IF k[1] = "snap" THEN {} ELSE folded[p] \cup {k})
      /\ base'[p] = (IF k[1] = "snap" THEN k ELSE base[p])
      /\ fetching'[p] = Tail(fetching[p])
      /\ \A q \in Instances : q # p => /\ memory'[q] = memory[q] /\ folded'[q] = folded[q]
                                       /\ base'[q] = base[q] /\ fetching'[q] = fetching[q]
  BY <1>5 DEF TypeOK
<1> QED BY <1>3, <1>4, <1>5, <1>6

\* After a step of its list, an instance has no snapshot at the head of it.
LEMMA TailNoSnap ==
  ASSUME Frame, NEW p \in Instances, fetching[p] # <<>>, fetching'[p] = Tail(fetching[p])
  PROVE  ~ FirstIsSnap(p)'
<1> USE DEF Frame
<1>1. fetching[p] \in Seq(Item)
  BY DEF TypeOK
<1>2. \A i \in DOMAIN Tail(fetching[p]) :
        (i + 1) \in DOMAIN fetching[p] /\ Tail(fetching[p])[i] = fetching[p][i + 1]
  BY <1>1, TailIs
<1>3. Tail(fetching[p]) \in Seq(Item)
  BY <1>1, TailIs
<1>4. ASSUME Tail(fetching[p]) # <<>>
      PROVE  Tail(fetching[p])[1].key[1] # "snap"
  <2>1. 1 \in DOMAIN Tail(fetching[p])
    BY <1>3, <1>4, TailIs
  <2>2. 2 \in DOMAIN fetching[p] /\ Tail(fetching[p])[1] = fetching[p][2]
    BY <1>2, <2>1
  <2> QED BY <2>2 DEF KeysSorted
<1> QED BY <1>4 DEF FirstIsSnap

\* One it passes over is no snapshot either.
LEMMA SkippedIsSegment ==
  ASSUME Frame, NEW p \in Instances, HasAlready(p)
  PROVE  /\ ~ FirstIsSnap(p) /\ fetching[p] # <<>> /\ fetching'[p] = Tail(fetching[p])
         /\ UNCHANGED <<stored, index, overlooked, aimed, memory, folded, base, stage, going>>
         /\ \A q \in Instances : q # p => fetching'[q] = fetching[q]
<1> USE DEF Frame
<1>1. fetching[p] \in Seq(Item) /\ fetching[p] # <<>> /\ Skips(p, Head(fetching[p]))
  BY DEF TypeOK, HasAlready
<1>2. Head(fetching[p]) = fetching[p][1] /\ 1 \in DOMAIN fetching[p]
  BY <1>1, TailIs
<1>3. ~ fetching[p][1].always
  BY <1>1, <1>2 DEF Skips
<1>4. ~ FirstIsSnap(p)
  BY <1>2, <1>3 DEF FirstIsSnap, KeysSorted
<1>5. /\ fetching' = [fetching EXCEPT ![p] = Tail(@)]
      /\ UNCHANGED <<stored, index, overlooked, aimed, memory, folded, base, stage, going>>
  BY DEF HasAlready
<1> QED BY <1>1, <1>4, <1>5 DEF TypeOK

\* What a boot or a refresh sets out to read.
LEMMA ReadsList ==
  ASSUME Frame, NEW p \in Instances, BootShared(p) \/ Refresh(p)
  PROVE  /\ UNCHANGED <<stored, index, overlooked, memory, folded, base, going>>
         /\ aimed'[p] = Reflects(index)
         /\ \A q \in Instances : q # p => /\ fetching'[q] = fetching[q] /\ aimed'[q] = aimed[q]
                                          /\ stage'[q] = stage[q]
         /\ \/ fetching'[p] = Everything(index)
            \/ fetching'[p] = Listing(index, FALSE) /\ ~ Rebuilds(p, index)
         /\ BootShared(p) => stage'[p] = "boot"
         /\ Refresh(p) => Ready(p) /\ stage' = stage
                          /\ (fetching'[p] = Everything(index) => Rebuilds(p, index)
                                \/ fetching'[p] = Listing(index, FALSE))
<1> USE DEF Frame
<1>1. CASE BootShared(p)
  BY <1>1 DEF BootShared, ReadIndex, TypeOK, Refresh, Ready
<1>2. CASE Refresh(p)
  BY <1>2 DEF BootShared, Refresh, ReadIndex, TypeOK, Ready
<1> QED BY <1>1, <1>2

\* A list of the segments alone has no snapshot at the head; with a snapshot,
\* that one is.
LEMMA HeadIs ==
  ASSUME Frame, NEW p \in Instances
  PROVE  /\ fetching'[p] = Listing(index, FALSE) => ~ FirstIsSnap(p)'
         /\ fetching'[p] = Everything(index) /\ index.snap # <<>> =>
              FirstIsSnap(p)' /\ fetching'[p][1].key = index.snap
<1> USE DEF Frame
<1>1. index \in Manifest /\ (index.snap # <<>> => index.snap[1] = "snap")
  BY DEF TypeOK, KeysSorted
<1>2. fetching'[p] = Everything(index) /\ index.snap # <<>> =>
        FirstIsSnap(p)' /\ fetching'[p][1].key = index.snap
  BY <1>1, EverythingIs DEF FirstIsSnap
<1>3. ASSUME Listing(index, FALSE) # <<>>
      PROVE  Listing(index, FALSE)[1].key[1] # "snap"
  <2>1. /\ DOMAIN Listing(index, FALSE) = DOMAIN index.segs
        /\ \A i \in DOMAIN index.segs : Listing(index, FALSE)[i].key = index.segs[i]
        /\ Listing(index, FALSE) \in Seq(Item)
    BY <1>1, ListingIs
  <2>2. 1 \in DOMAIN index.segs
    BY <1>3, <2>1, TailIs
  <2>3. index.segs[1] \in SegKeys(index)
    BY <2>2 DEF SegKeys
  <2>4. index.segs[1][1] = "wal"
    BY <2>3 DEF KeysSorted
  <2> QED BY <2>1, <2>2, <2>4
<1> QED BY <1>2, <1>3 DEF FirstIsSnap

LEMMA LearnedNext ==
  ASSUME SharedAssumption, Frame, Learned, [SharedNext]_sharedVars
  PROVE  Learned'
<1> SUFFICES ASSUME NEW p \in Instances
             PROVE  /\ memory'[p] \subseteq Own(p) \cup Common'
                    /\ \A k \in Items(p)' \cap DOMAIN stored' : stored'[k] \subseteq Common'
  BY DEF Learned, Own
<1>1. /\ memory[p] \subseteq Own(p) \cup Common'
      /\ \A k \in Items(p) \cap DOMAIN stored : stored[k] \subseteq Common'
  BY CommonGrows DEF Learned
<1>2. \A k \in LiveKeys(index) \cap DOMAIN stored : stored[k] \subseteq Common'
  <2>1. \A k \in LiveKeys(index) \cap DOMAIN stored : stored[k] \subseteq Common
    BY DEF Common, Reflects
  <2> QED BY <2>1, CommonGrows
<1>3. \A k \in Items(p)' \cap DOMAIN stored' : stored'[k] \subseteq Common'
  BY <1>1, <1>2, ItemsStay
<1>4. CASE Fetch(p)
  <2> DEFINE k == Head(fetching[p]).key
  <2>1. k \in Items(p) \cap DOMAIN stored /\ memory'[p] \subseteq stored[k] \cup memory[p]
    BY <1>4, Fetched
  <2>2. stored[k] \subseteq Common'
    BY <1>1, <2>1
  <2> HIDE DEF k
  <2> QED BY <1>1, <1>3, <2>1, <2>2
<1>5. CASE Reads(p) /\ ~ Fetch(p)
  <2>1. memory'[p] = memory[p]
    BY <1>5 DEF Reads, BootShared, Refresh, HasAlready, FetchFails
  <2> QED BY <1>1, <1>3, <2>1
<1>6. CASE ~ Reads(p)
  <2>1. memory'[p] = memory[p] \/ \E c \in Own(p) : memory'[p] = memory[p] \cup {c}
    BY <1>6, MemoryNext DEF Frame
  <2> QED BY <1>1, <1>3, <2>1
<1> QED BY <1>4, <1>5, <1>6 DEF Reads

LEMMA SupersededNext ==
  ASSUME SharedAssumption, Frame, Learned, Superseded, SwapIsOwn, [SharedNext]_sharedVars
  PROVE  Superseded'
<1> SUFFICES ASSUME NEW p \in Instances, index'.snap # <<>>
             PROVE  /\ base'[p] # index'.snap =>
                         memory'[p] \subseteq stored'[index'.snap] \cup Own(p) \cup overlooked'
                    /\ Start(p)' # index'.snap => \A k \in Items(p)' \cap DOMAIN stored' :
                         stored'[k] \subseteq stored'[index'.snap] \cup overlooked'
  BY DEF Superseded, Own
<1>1. CASE \E q \in Instances : stage[q] = "swap" /\ CommitShared(q)
  <2>1. /\ Common \subseteq stored'[index'.snap] \cup overlooked'
        /\ memory' = memory /\ fetching' = fetching /\ stored' = stored
    BY <1>1, SwapCovers
  <2>2. Items(p)' = Items(p)
    BY <2>1 DEF Items
  <2> QED BY <2>1, <2>2 DEF Learned
<1>2. CASE /\ ~ \E q \in Instances : stage[q] = "swap" /\ CommitShared(q)
           /\ index'.snap = index.snap
  <2>1. stored'[index'.snap] = stored[index.snap]
    <3>1. index.snap \in LiveKeys(index)
      BY <1>2 DEF LiveKeys
    <3> QED BY <1>2, <3>1, LiveStay
  <2>2. /\ base[p] # index.snap =>
             memory[p] \subseteq stored'[index'.snap] \cup Own(p) \cup overlooked'
        /\ Start(p) # index.snap => \A k \in Items(p) \cap DOMAIN stored :
             stored[k] \subseteq stored'[index'.snap] \cup overlooked'
    BY <1>2, <2>1, OverlookedGrows DEF Superseded
  <2>3. CASE ~ Reads(p)
    <3>1. /\ fetching'[p] = fetching[p]
          /\ memory'[p] = memory[p] \/ \E c \in Own(p) : memory'[p] = memory[p] \cup {c}
          /\ SwapEnds(p) \/ base'[p] = base[p]
      BY <2>3, MemoryNext DEF Frame
    <3>2. SwapEnds(p) => base'[p] = index'.snap
      <4>1. ASSUME stage[p] = "swap", Contended(p), Adopts(p)
            PROVE  index.snap = going[p].key
        BY <4>1 DEF Adopts, SwapIsOwn
      <4> QED BY <1>2, <4>1 DEF SwapEnds
    <3>3. Items(p)' = Items(p) /\ FirstIsSnap(p)' = FirstIsSnap(p)
      BY <3>1 DEF Items, FirstIsSnap
    <3>4. base'[p] = base[p] => Start(p)' = Start(p)
      BY <3>1, <3>3 DEF Start
    <3>5. base'[p] = index'.snap => Start(p)' \in {Start(p), index'.snap}
      BY <3>1, <3>3 DEF Start
    <3>6. \A k \in Items(p)' \cap DOMAIN stored' :
            k \in Items(p) \cap DOMAIN stored /\ stored'[k] = stored[k]
      BY <2>3, ItemsStay DEF Reads
    <3> QED BY <1>2, <2>2, <3>1, <3>2, <3>4, <3>5, <3>6
  <2>4. CASE BootShared(p) \/ Refresh(p)
    <3>1. /\ memory'[p] = memory[p] /\ base'[p] = base[p]
          /\ \/ fetching'[p] = Everything(index)
             \/ fetching'[p] = Listing(index, FALSE) /\ ~ Rebuilds(p, index)
      BY <2>4, ReadsList
    <3>2. Start(p)' = index.snap
      <4>1. CASE fetching'[p] = Everything(index)
        BY <1>2, <4>1, HeadIs DEF Start
      <4>2. CASE fetching'[p] = Listing(index, FALSE) /\ ~ Rebuilds(p, index)
        BY <1>2, <3>1, <4>2, HeadIs DEF Start, Rebuilds
      <4> QED BY <3>1, <4>1, <4>2
    <3> QED BY <1>2, <2>2, <3>1, <3>2
  <2>5. CASE HasAlready(p)
    <3>1. /\ fetching[p] # <<>> /\ fetching'[p] = Tail(fetching[p]) /\ ~ FirstIsSnap(p)
          /\ memory'[p] = memory[p] /\ base'[p] = base[p]
      BY <2>5, SkippedIsSegment
    <3>2. Start(p)' = Start(p)
      BY <3>1, TailNoSnap DEF Start
    <3>3. ~ BootShared(p) /\ ~ Refresh(p)
      <4>1. stage' = stage
        BY <2>5 DEF HasAlready
      <4>2. BootShared(p) => stage[p] = "down" /\ stage'[p] = "boot"
        BY DEF BootShared, Frame, TypeOK
      <4>3. Refresh(p) => fetching[p] = <<>>
        BY DEF Refresh
      <4> QED BY <3>1, <4>1, <4>2, <4>3
    <3> QED BY <1>2, <2>2, <3>1, <3>2, <3>3, ItemsStay
  <2>6. CASE Fetch(p)
    <3> DEFINE k == Head(fetching[p]).key
    <3>1. /\ k \in Items(p) \cap DOMAIN stored /\ k = fetching[p][1].key
          /\ fetching'[p] = Tail(fetching[p])
          /\ \/ /\ FirstIsSnap(p) /\ memory'[p] = stored[k] /\ base'[p] = k
             \/ /\ ~ FirstIsSnap(p) /\ memory'[p] = stored[k] \cup memory[p] /\ base'[p] = base[p]
      BY <2>6, Fetched
    <3>2. fetching[p] # <<>>
      BY <2>6 DEF Fetch
    <3>3. Start(p)' = Start(p) /\ Start(p) = base'[p]
      BY <3>1, <3>2, TailNoSnap DEF Start
    <3>4. Start(p) # index.snap => stored[k] \subseteq stored'[index'.snap] \cup overlooked'
      BY <2>2, <3>1
    <3>5. \A x \in Items(p)' \cap DOMAIN stored' :
            x \in Items(p) \cap DOMAIN stored /\ stored'[x] = stored[x]
      <4>1. ~ BootShared(p) /\ ~ Refresh(p)
        <5>1. known' = known /\ stage' = stage
          BY <2>6 DEF Fetch
        <5>2. Refresh(p) => fetching[p] = <<>>
          BY DEF Refresh
        <5>3. BootShared(p) => stage[p] = "down" /\ stage'[p] = "boot"
          BY DEF BootShared, Frame, TypeOK
        <5> QED BY <3>2, <5>1, <5>2, <5>3
      <4> QED BY <4>1, ItemsStay
    <3> HIDE DEF k
    <3> QED BY <1>2, <2>2, <3>1, <3>3, <3>4, <3>5
  <2>7. CASE FetchFails(p)
    <3>1. /\ fetching'[p] = <<>> /\ memory'[p] = memory[p] /\ base'[p] = base[p]
      BY <2>7 DEF FetchFails, Frame, TypeOK
    <3>2. Items(p)' = {}
      BY <3>1 DEF Items
    <3> QED BY <1>2, <2>2, <3>1, <3>2
  <2> QED BY <2>3, <2>4, <2>5, <2>6, <2>7 DEF Reads
<1> QED BY <1>1, <1>2, SnapNext

LEMMA ReplaceableNext ==
  ASSUME SharedAssumption, Frame, Superseded, Replaceable, [SharedNext]_sharedVars
  PROVE  Replaceable'
<1> SUFFICES ASSUME NEW p \in Instances, Ready(p)', FirstIsSnap(p)',
                    fetching'[p][1].key \in DOMAIN stored'
             PROVE  memory'[p] \subseteq stored'[fetching'[p][1].key] \cup Own(p) \cup overlooked'
  BY DEF Replaceable, Own
<1>1. CASE ~ Reads(p)
  <2>1. /\ fetching'[p] = fetching[p]
        /\ memory'[p] = memory[p] \/ \E c \in Own(p) : memory'[p] = memory[p] \cup {c}
        /\ stage[p] = "down" => stage'[p] = "down"
        /\ stage[p] = "boot" => stage'[p] = "boot" \/ fetching[p] = <<>>
    BY <1>1, MemoryNext DEF Frame
  <2>2. Ready(p) /\ FirstIsSnap(p)
    BY <2>1 DEF Ready, FirstIsSnap
  <2>3. fetching[p][1].key \in Items(p)'
    <3>1. fetching[p] \in Seq(Item) /\ fetching[p] # <<>>
      BY <2>2 DEF Frame, TypeOK, FirstIsSnap
    <3>2. 1 \in DOMAIN fetching[p]
      BY <3>1, TailIs
    <3> QED BY <2>1, <3>2 DEF Items
  <2>4. /\ fetching[p][1].key \in DOMAIN stored
        /\ stored'[fetching[p][1].key] = stored[fetching[p][1].key]
    BY <2>1, <2>3, ItemsStay
  <2> QED BY <2>1, <2>2, <2>4, OverlookedGrows DEF Replaceable
<1>2. CASE BootShared(p)
  BY <1>2, ReadsList DEF Ready
<1>3. CASE Refresh(p)
  <2>1. /\ UNCHANGED <<stored, index, overlooked, memory>> /\ Ready(p)
        /\ \/ fetching'[p] = Everything(index) /\ Rebuilds(p, index)
           \/ fetching'[p] = Listing(index, FALSE)
    BY <1>3, ReadsList
  <2>2. fetching'[p] = Everything(index) /\ Rebuilds(p, index)
    BY <2>1, HeadIs
  <2>3. fetching'[p][1].key = index.snap /\ index.snap # base[p] /\ index.snap # <<>>
    BY <2>2, HeadIs DEF Rebuilds
  <2> QED BY <2>1, <2>3 DEF Superseded
<1>4. CASE HasAlready(p)
  BY <1>4, SkippedIsSegment, TailNoSnap
<1>5. CASE Fetch(p)
  <2>1. fetching[p] # <<>> /\ fetching'[p] = Tail(fetching[p])
    BY <1>5 DEF Fetch, Frame, TypeOK
  <2> QED BY <2>1, TailNoSnap
<1>6. CASE FetchFails(p)
  <2>1. fetching'[p] = <<>>
    BY <1>6 DEF FetchFails, Frame, TypeOK
  <2> QED BY <2>1 DEF FirstIsSnap
<1> QED BY <1>1, <1>2, <1>3, <1>4, <1>5, <1>6 DEF Reads

LEMMA FoldedIsHadNext ==
  ASSUME SharedAssumption, Frame, Replaceable, FoldedIsHad, [SharedNext]_sharedVars
  PROVE  FoldedIsHad'
<1> SUFFICES ASSUME NEW p \in Instances
             PROVE  /\ base'[p] \in DOMAIN stored' => stored'[base'[p]] \subseteq Has(p)'
                    /\ \A k \in folded'[p] \cap DOMAIN stored' : stored'[k] \subseteq Has(p)'
                    /\ stage'[p] = "swap" => stored'[going'[p].key] \subseteq Has(p)'
  BY DEF FoldedIsHad
<1> USE DEF Frame
<1>1. /\ \A k \in folded[p] \cap DOMAIN stored' : stored'[k] = stored[k] /\ k \in DOMAIN stored
      /\ base[p] \in DOMAIN stored' => stored'[base[p]] = stored[base[p]] /\ base[p] \in DOMAIN stored
      /\ stage[p] = "swap" => stored'[going[p].key] = stored[going[p].key]
  <2>1. folded[p] \subseteq Used /\ (base[p] # <<>> => base[p] \in Used)
    BY DEF KeysTaken
  <2>2. <<>> \notin DOMAIN stored'
    <3>1. TypeOK'
      BY TypeNext
    <3>2. <<>> \notin Key
      BY KeyParts
    <3> QED BY <3>1, <3>2 DEF TypeOK
  <2> QED BY <2>1, <2>2, ObjectsStay, FlightKept
<1>2. \/ stage'[p] # "swap"
      \/ stage'[p] = stage[p] /\ going'[p].key = going[p].key
      \/ Compact(p) /\ going'[p].key = SnapshotKey(p)
  BY FlightNext DEF NoFlight
<1>3. ASSUME Compact(p), going'[p].key = SnapshotKey(p)
      PROVE  stored'[going'[p].key] \subseteq Has(p)'
  BY <1>3 DEF Compact, Put, Has
<1>4. ASSUME Has(p) \subseteq Has(p)'
      PROVE  stage'[p] = "swap" => stored'[going'[p].key] \subseteq Has(p)'
  BY <1>1, <1>2, <1>3, <1>4 DEF FoldedIsHad
<1>5. CASE ~ Reads(p)
  <2>1. /\ memory[p] \subseteq memory'[p]
        /\ SwapEnds(p) \/ (folded'[p] = folded[p] /\ base'[p] = base[p])
    BY <1>5, MemoryNext
  <2>2. Has(p) \subseteq Has(p)'
    BY <2>1, OverlookedGrows DEF Has, Own
  <2>3. CASE SwapEnds(p)
    <3>1. folded'[p] = {} /\ base'[p] = going[p].key /\ stage[p] = "swap"
      BY <2>3 DEF SwapEnds
    <3> QED BY <1>1, <1>4, <2>2, <3>1 DEF FoldedIsHad
  <2>4. CASE folded'[p] = folded[p] /\ base'[p] = base[p]
    BY <1>1, <1>4, <2>2, <2>4 DEF FoldedIsHad
  <2> QED BY <2>1, <2>3, <2>4
<1>6. CASE Fetch(p)
  <2> DEFINE k == Head(fetching[p]).key
  <2>1. /\ k \in Items(p) \cap DOMAIN stored /\ k = fetching[p][1].key
        /\ UNCHANGED <<stored, overlooked, stage, going>>
        /\ \/ /\ FirstIsSnap(p) /\ memory'[p] = stored[k] /\ folded'[p] = {} /\ base'[p] = k
           \/ /\ memory'[p] = stored[k] \cup memory[p] /\ folded'[p] = folded[p] \cup {k}
              /\ base'[p] = base[p]
    BY <1>6, Fetched
  <2> HIDE DEF k
  <2>2. CASE FirstIsSnap(p) /\ memory'[p] = stored[k] /\ folded'[p] = {} /\ base'[p] = k
    <3>1. stage[p] = "swap" => Has(p) \subseteq Has(p)'
      <4>1. ASSUME stage[p] = "swap"
            PROVE  memory[p] \subseteq stored[k] \cup Own(p) \cup overlooked
        BY <2>1, <2>2, <4>1 DEF Ready, Replaceable
      <4> QED BY <2>1, <2>2, <4>1 DEF Has, Own
    <3>2. stored[k] \subseteq Has(p)'
      BY <2>2 DEF Has
    <3>3. stage'[p] = "swap" => stored'[going'[p].key] \subseteq Has(p)'
      BY <1>4, <2>1, <3>1
    <3> QED BY <2>1, <2>2, <3>2, <3>3
  <2>3. CASE /\ memory'[p] = stored[k] \cup memory[p] /\ folded'[p] = folded[p] \cup {k}
             /\ base'[p] = base[p]
    <3>1. Has(p) \subseteq Has(p)' /\ stored[k] \subseteq Has(p)'
      BY <2>1, <2>3 DEF Has, Own
    <3> QED BY <1>4, <2>1, <2>3, <3>1 DEF FoldedIsHad
  <2> QED BY <2>1, <2>2, <2>3
<1>7. CASE BootShared(p) \/ Refresh(p) \/ HasAlready(p) \/ FetchFails(p)
  <2>1. UNCHANGED <<stored, memory, folded, base, going, overlooked>>
    BY <1>7 DEF BootShared, Refresh, HasAlready, FetchFails
  <2>2. Has(p)' = Has(p)
    BY <2>1 DEF Has, Own
  <2> QED BY <1>4, <2>1, <2>2 DEF FoldedIsHad
<1> QED BY <1>5, <1>6, <1>7 DEF Reads

-----------------------------------------------------------------------------
(* What a refresh brings.                                                  *)

\* As long as an instance reads nothing, what it is to read can only grow by
\* what it forgets to have read, and nothing it is to have is lost.
LEMMA StillToFetch ==
  ASSUME Frame, [SharedNext]_sharedVars, NEW p \in Instances,
         fetching'[p] = fetching[p], folded'[p] \subseteq folded[p]
  PROVE  ToFetch(p) \subseteq ToFetch(p)'
<1> SUFFICES ASSUME NEW i \in DOMAIN fetching[p], ~ Skips(p, fetching[p][i])
             PROVE  fetching[p][i].key \in ToFetch(p)'
  BY DEF ToFetch
<1>1. ~ (~ fetching'[p][i].always /\ (fetching'[p][i].key \in folded'[p] \/ fetching'[p][i].key[2] = p))
  BY DEF Skips
<1>2. ~ Skips(p, fetching[p][i])'
  BY <1>1 DEF Skips
<1> QED BY <1>2 DEF ToFetch

LEMMA RefreshKept ==
  ASSUME SharedAssumption, Frame, RefreshInv, [SharedNext]_sharedVars, NEW p \in Instances,
         ~ Reads(p)
  PROVE  \/ ~ (ToFetch(p)' \subseteq DOMAIN stored')
         \/ aimed'[p] \subseteq Kept(p)' \cup UNION {stored'[k] : k \in ToFetch(p)'}
<1> USE DEF Frame
<1>1. /\ fetching'[p] = fetching[p] /\ aimed'[p] = aimed[p] /\ memory[p] \subseteq memory'[p]
      /\ folded'[p] \subseteq folded[p]
  BY MemoryNext DEF SwapEnds
<1>2. ToFetch(p) \subseteq ToFetch(p)'
  BY <1>1, StillToFetch
<1>3. ToFetch(p) \subseteq Items(p) /\ Items(p) \subseteq Used
  BY DEF ToFetch, Items, KeysTaken
<1>4. Kept(p) \subseteq Kept(p)'
  BY <1>1, OverlookedGrows DEF Kept, FirstIsSnap, Own
<1>5. SUFFICES ASSUME ToFetch(p)' \subseteq DOMAIN stored'
               PROVE  aimed'[p] \subseteq Kept(p)' \cup UNION {stored'[k] : k \in ToFetch(p)'}
  OBVIOUS
<1>6. \A k \in ToFetch(p) : k \in DOMAIN stored /\ stored'[k] = stored[k]
  BY <1>2, <1>3, <1>5, ObjectsStay
<1>7. aimed[p] \subseteq Kept(p) \cup UNION {stored[k] : k \in ToFetch(p)}
  BY <1>6 DEF RefreshInv
<1>8. UNION {stored[k] : k \in ToFetch(p)} \subseteq UNION {stored'[k] : k \in ToFetch(p)'}
  BY <1>2, <1>6
<1> QED BY <1>1, <1>4, <1>7, <1>8

\* A refresh, or a boot, that begins.
LEMMA RefreshBegins ==
  ASSUME Frame, FoldedIsHad, NEW p \in Instances, BootShared(p) \/ Refresh(p)
  PROVE  aimed'[p] \subseteq Kept(p)' \cup UNION {stored'[k] : k \in ToFetch(p)'}
<1> USE DEF Frame
<1>1. /\ UNCHANGED <<stored, index, overlooked, memory, folded, base>>
      /\ aimed'[p] = Reflects(index)
      /\ \/ fetching'[p] = Everything(index)
         \/ fetching'[p] = Listing(index, FALSE) /\ ~ Rebuilds(p, index)
  BY ReadsList
<1> SUFFICES ASSUME NEW k \in LiveKeys(index) \cap DOMAIN stored
             PROVE  stored[k] \subseteq Kept(p)' \/ k \in ToFetch(p)'
  BY <1>1 DEF Reflects
<1>2. index \in Manifest
  BY DEF TypeOK
<1>3. CASE fetching'[p] = Everything(index)
  <2>1. PICK i \in DOMAIN fetching'[p] : fetching'[p][i].key = k
    BY <1>2, <1>3, EverythingIs
  <2>2. fetching'[p][i].always
    BY <1>2, <1>3, EverythingIs
  <2> QED BY <2>1, <2>2 DEF ToFetch, Skips
<1>4. CASE fetching'[p] = Listing(index, FALSE) /\ ~ Rebuilds(p, index)
  <2>1. Kept(p)' = Has(p)
    <3>1. ~ FirstIsSnap(p)'
      BY <1>4, HeadIs
    <3> QED BY <1>1, <3>1 DEF Kept, Has, Own
  <2>2. CASE k = index.snap /\ index.snap # <<>>
    BY <1>4, <2>1, <2>2 DEF Rebuilds, FoldedIsHad
  <2>3. CASE k \in SegKeys(index)
    <3>1. PICK i \in DOMAIN index.segs : k = index.segs[i]
      BY <2>3 DEF SegKeys
    <3>2. i \in DOMAIN fetching'[p] /\ fetching'[p][i].key = k /\ ~ fetching'[p][i].always
      <4>1. /\ DOMAIN Listing(index, FALSE) = DOMAIN index.segs
            /\ \A j \in DOMAIN index.segs : /\ Listing(index, FALSE)[j].key = index.segs[j]
                                            /\ Listing(index, FALSE)[j].always = FALSE
        BY <1>2, ListingIs
      <4> QED BY <1>4, <3>1, <4>1
    <3>3. CASE k \in folded[p]
      BY <2>1, <3>3 DEF FoldedIsHad
    <3>4. CASE k[2] = p
      <4>1. stored[k] \subseteq Own(p)
        BY <2>3, <3>4 DEF KeysSorted, OwnWrites
      <4> QED BY <2>1, <4>1 DEF Has
    <3>5. CASE k \notin folded[p] /\ k[2] # p
      <4>1. ~ (~ fetching'[p][i].always
                 /\ (fetching'[p][i].key \in folded'[p] \/ fetching'[p][i].key[2] = p))
        BY <1>1, <3>2, <3>5
      <4> QED BY <3>2, <4>1 DEF ToFetch, Skips
    <3> QED BY <3>3, <3>4, <3>5
  <2> QED BY <2>2, <2>3 DEF LiveKeys
<1> QED BY <1>1, <1>3, <1>4

\* One that goes on.
LEMMA RefreshGoesOn ==
  ASSUME Frame, RefreshInv, NEW p \in Instances, HasAlready(p) \/ Fetch(p)
  PROVE  \/ ~ (ToFetch(p)' \subseteq DOMAIN stored')
         \/ aimed'[p] \subseteq Kept(p)' \cup UNION {stored'[k] : k \in ToFetch(p)'}
<1> USE DEF Frame
<1>1. /\ fetching[p] \in Seq(Item) /\ fetching[p] # <<>> /\ fetching'[p] = Tail(fetching[p])
      /\ UNCHANGED <<stored, overlooked, aimed>>
  BY DEF TypeOK, HasAlready, Fetch
<1>2. /\ Head(fetching[p]) = fetching[p][1] /\ 1 \in DOMAIN fetching[p]
      /\ \A i \in DOMAIN fetching[p] : i # 1 =>
           (i - 1) \in DOMAIN fetching'[p] /\ fetching'[p][i - 1] = fetching[p][i]
  BY <1>1, TailIs
<1>3. ~ FirstIsSnap(p)'
  BY <1>1, TailNoSnap
<1>4. ASSUME NEW x \in ToFetch(p), x \notin folded'[p] \ folded[p],
             HasAlready(p) \/ x # Head(fetching[p]).key
      PROVE  x \in ToFetch(p)'
  <2>1. PICK i \in DOMAIN fetching[p] : ~ Skips(p, fetching[p][i]) /\ x = fetching[p][i].key
    BY DEF ToFetch
  <2>2. i # 1
    BY <1>2, <1>4, <2>1 DEF HasAlready
  <2>3. (i - 1) \in DOMAIN fetching'[p] /\ fetching'[p][i - 1] = fetching[p][i]
    BY <1>2, <2>2
  <2>4. ~ (~ fetching'[p][i - 1].always
             /\ (fetching'[p][i - 1].key \in folded'[p] \/ fetching'[p][i - 1].key[2] = p))
    BY <1>4, <2>1, <2>3 DEF Skips
  <2>5. ~ Skips(p, fetching[p][i - 1])'
    BY <2>4 DEF Skips
  <2> QED BY <2>1, <2>3, <2>5 DEF ToFetch
<1>5. CASE HasAlready(p)
  <2>1. Kept(p)' = Kept(p) /\ folded' = folded
    BY <1>3, <1>5, SkippedIsSegment DEF Kept, Own
  <2>2. ToFetch(p) \subseteq ToFetch(p)'
    BY <1>4, <1>5, <2>1
  <2> QED BY <1>1, <2>1, <2>2 DEF RefreshInv
<1>6. CASE Fetch(p)
  <2> DEFINE k == Head(fetching[p]).key
  <2>1. /\ k \in DOMAIN stored /\ stored[k] \subseteq memory'[p]
        /\ folded'[p] \subseteq folded[p] \cup {k}
        /\ FirstIsSnap(p) \/ memory[p] \subseteq memory'[p]
    BY <1>6, Fetched
  <2>2. \A x \in ToFetch(p) : x = k \/ x \in ToFetch(p)'
    BY <1>4, <2>1
  <2> HIDE DEF k
  <2>3. Kept(p) \cup stored[k] \subseteq Kept(p)'
    BY <1>1, <1>3, <2>1 DEF Kept, Own
  <2>4. SUFFICES ASSUME ToFetch(p)' \subseteq DOMAIN stored'
                 PROVE  aimed'[p] \subseteq Kept(p)' \cup UNION {stored'[x] : x \in ToFetch(p)'}
    OBVIOUS
  <2>5. ToFetch(p) \subseteq DOMAIN stored
    BY <1>1, <2>1, <2>2, <2>4
  <2>6. aimed[p] \subseteq Kept(p) \cup UNION {stored[x] : x \in ToFetch(p)}
    BY <2>5 DEF RefreshInv
  <2> QED BY <1>1, <2>2, <2>3, <2>6
<1> QED BY <1>5, <1>6

LEMMA RefreshInvNext ==
  ASSUME SharedAssumption, Frame, FoldedIsHad, RefreshInv, [SharedNext]_sharedVars
  PROVE  RefreshInv'
<1> SUFFICES ASSUME NEW p \in Instances
             PROVE  \/ ~ (ToFetch(p)' \subseteq DOMAIN stored')
                    \/ aimed'[p] \subseteq Kept(p)' \cup UNION {stored'[k] : k \in ToFetch(p)'}
  BY DEF RefreshInv
<1>1. CASE FetchFails(p)
  <2>1. aimed'[p] = {}
    BY <1>1 DEF FetchFails, Frame, TypeOK
  <2> QED BY <2>1
<1> QED BY <1>1, RefreshKept, RefreshBegins, RefreshGoesOn DEF Reads

-----------------------------------------------------------------------------
(* The invariant.                                                          *)

LEMMA ObjInvInit ==
  ASSUME SharedAssumption, SharedInit
  PROVE  ObjInv
<1> USE DEF SharedInit
<1>1. Fresh \in Manifest /\ NoFlight \in Flight /\ <<>> \in Seq(Cards) /\ <<>> \in Seq(Item)
  BY DEF Fresh, NoFlight, Manifest, Flight
<1>2. DOMAIN stored = {} /\ SegKeys(index) = {} /\ LiveKeys(index) = {} /\ Reflects(index) = {}
  BY DEF Fresh, SegKeys, LiveKeys, Reflects
<1>3. TypeOK
  BY <1>1, <1>2 DEF TypeOK, Stages, SharedAssumption
<1>4. \A p \in Instances : Items(p) = {} /\ ~ FirstIsSnap(p) /\ ToFetch(p) = {}
  BY DEF Items, FirstIsSnap, ToFetch
<1>5. KeysTaken /\ KeysSorted /\ KnownWas
  BY <1>2, <1>4 DEF KeysTaken, KeysSorted, KnownWas, Fresh, NoFlight
<1>6. FlightInv /\ OwnWrites /\ NamedExists
  BY <1>2 DEF FlightInv, OwnWrites, NamedExists, NoFlight, SharedAssumption
<1>7. AckedWasCommitted /\ Learned
  BY <1>2, <1>4 DEF AckedWasCommitted, Learned
<1>8. Superseded /\ Replaceable /\ FoldedIsHad
  BY <1>2, <1>4 DEF Superseded, Replaceable, FoldedIsHad, Fresh
<1>9. SwapIsOwn /\ RefreshInv
  BY <1>4 DEF SwapIsOwn, RefreshInv
<1> QED BY <1>3, <1>5, <1>6, <1>7, <1>8, <1>9 DEF ObjInv

LEMMA ObjInvNext ==
  ASSUME SharedAssumption, ObjInv, [SharedNext]_sharedVars
  PROVE  ObjInv'
<1>1. Frame
  BY DEF ObjInv, Frame
<1>2. TypeOK' /\ KeysTaken' /\ KeysSorted' /\ KnownWas'
  BY <1>1, TypeNext, KeysTakenNext, KeysSortedNext, KnownWasNext DEF Frame
<1>3. FlightInv' /\ OwnWrites' /\ NamedExists'
  BY <1>1, FlightInvNext, OwnWritesNext, NamedExistsNext
<1>4. AckedWasCommitted' /\ Learned' /\ Superseded' /\ Replaceable'
  BY <1>1, AckedNext, LearnedNext, SupersededNext, ReplaceableNext DEF ObjInv
<1>5. FoldedIsHad' /\ SwapIsOwn' /\ RefreshInv'
  BY <1>1, FoldedIsHadNext, SwapIsOwnNext, RefreshInvNext DEF ObjInv
<1> QED BY <1>2, <1>3, <1>4, <1>5 DEF ObjInv

LEMMA ObjInvImplies ==
  ASSUME ObjInv
  PROVE  SharedInv
<1> USE DEF ObjInv
<1>1. SharedTypeOK
  BY DEF SharedTypeOK, TypeOK, NamedExists, KnownWas, FlightInv
<1>2. RefreshBringsAll
  <2> SUFFICES ASSUME NEW p \in Instances, fetching[p] = <<>>
               PROVE  aimed[p] \subseteq memory[p] \cup Own(p) \cup overlooked
    BY DEF RefreshBringsAll, Own
  <2>1. ToFetch(p) = {} /\ ~ FirstIsSnap(p)
    BY DEF ToFetch, FirstIsSnap
  <2>2. aimed[p] \subseteq Kept(p)
    BY <2>1 DEF RefreshInv
  <2> QED BY <2>1, <2>2 DEF Kept
<1> QED BY <1>1, <1>2 DEF SharedInv

\* Any number of instances in optimistic mode on one prefix: what was
\* acknowledged is in the manifest or was overlooked by a compaction or an
\* adoption, what the manifest names exists, and a refresh that ends has brought
\* in all that the manifest stood for when it began (index.ts, manifest.ts,
\* wal.ts).
THEOREM SharedAlwaysHolds == SharedSpec => []SharedInv
<1>1. SharedAssumption /\ SharedInit => ObjInv
  BY ObjInvInit
<1>2. SharedAssumption /\ ObjInv /\ [SharedNext]_sharedVars => ObjInv'
  BY ObjInvNext
<1>3. ObjInv => SharedInv
  BY ObjInvImplies
<1>4. SharedAssumption
  BY SharedAssumption
<1> QED BY <1>1, <1>2, <1>3, <1>4, PTL DEF SharedSpec
=============================================================================
