----------------------------- MODULE WalBuffer -----------------------------
(*************************************************************************)
(* The group commit of the object storage backend                        *)
(* (src/server/storage/object/wal.ts, WalWriter): writes are put in a    *)
(* buffer, one loop takes them out in batches, puts each batch as a      *)
(* segment and lists it in the manifest; and the drain of close()        *)
(* (index.ts).                                                           *)
(*                                                                       *)
(* One instance in "single-writer" mode.  What a lease and a manifest    *)
(* are is ObjectStorage; here each call to the store succeeds, fails     *)
(* with or without effect, or says that this is no longer the writer.    *)
(*************************************************************************)
EXTENDS Integers, Sequences, FiniteSets, FiniteSetsExt, SequencesExt

CONSTANTS Records,      \* how many records are written: numbers 1..Records
          Riding,       \* those that are reservations, which nobody awaits
          RecordSize,   \* record -> bytes
          WalMaxBatch,     \* batch.maxBytes
          MaxBuffer,    \* batch.maxBufferBytes
          WalModes,     \* subset of {"reject", "degrade", "buffered"}: onBackpressure, and
                        \* durability "buffered" (with "reject")
          Tries,        \* UNAVAILABLE_AFTER_FAILURES
          Flushers,     \* callers of flush(); close() is one more
          WalFaults     \* bound: faults of the store

ASSUME WalAssumption ==
  /\ {Records, WalMaxBatch, MaxBuffer, Tries, WalFaults} \subseteq Nat /\ Riding \subseteq 1..Records
  /\ \A n \in 1..Records : RecordSize[n] \in Nat \ {0}
  /\ WalModes \subseteq {"reject", "degrade", "buffered"}

VARIABLES
  walMode,
  written,      \* records written so far
  buffer,       \* the records in it
  held,         \* bufferedBytes
  fate,         \* record -> what its write was told: "", "open", "ok", "early", "failed", "refused"
  flushes,      \* flush call -> "", "open", "ok", "failed"
  askedFor,        \* flush call -> the records buffered then
  loop,         \* "off", "idle", "lease", "put", "commit", "cas", "after", "backoff", "end"
  batch,        \* [seq, n]: the segment's number, and how many records are in it
  nextSeq,      \* seq
  segments,     \* seq -> records, what the store holds
  listed,       \* the manifest's walSegs: [seq, body]
  trouble,      \* failures
  pressed,      \* backpressured
  health,
  fenced,       \* terminal
  closing,      \* "no", "drain", "stop", "closed"
  walFaults

walVars == <<walMode, written, buffer, held, fate, flushes, askedFor, loop, batch, nextSeq, segments,
             listed, trouble, pressed, health, fenced, closing, walFaults>>

FlushCalls == Flushers \cup {"close"}
EmptyBatch  == [seq |-> -1, n |-> 0]

WalInit ==
  /\ walMode \in WalModes
  /\ written = 0 /\ buffer = <<>> /\ held = 0 /\ fate = [n \in 1..Records |-> ""]
  /\ flushes = [f \in FlushCalls |-> ""] /\ askedFor = [f \in FlushCalls |-> {}]
  /\ loop = "off" /\ batch = EmptyBatch /\ nextSeq = 0 /\ segments = <<>> /\ listed = <<>>
  /\ trouble = 0 /\ pressed = FALSE /\ health = "healthy" /\ fenced = FALSE /\ closing = "no"
  /\ walFaults = WalFaults

Bytes(s)  == FoldLeft(LAMBDA b, n : b + RecordSize[n], 0, s)
Running   == closing \in {"no", "drain"} /\ ~ fenced
Stopped   == closing \in {"stop", "closed"}
Started   == IF loop = "off" THEN "idle" ELSE loop

---------------------------------------------------------------------------
(* Health.                                                                 *)

\* setBackpressured.
Pressure(p, t, h) == IF p # pressed /\ t = 0 THEN (IF p THEN "degraded" ELSE "healthy") ELSE h

Pressed(p) == pressed' = p /\ health' = Pressure(p, trouble, health)

---------------------------------------------------------------------------
(* The callers.                                                            *)

\* "degrade" takes the write and does not wait on it; "buffered" waits on none.
Promised(full) == IF walMode = "buffered" \/ full THEN "early" ELSE "open"

\* submit, prepare and append.  persistReservations does the same and swallows
\* what they throw.
Submit ==
  /\ written < Records
  /\ written' = written + 1
  /\ LET n    == written + 1
         full == held + RecordSize[n] > MaxBuffer
     IN IF fenced \/ Stopped \/ (closing # "no" /\ n \notin Riding) \/ (full /\ walMode # "degrade")
        THEN fate' = [fate EXCEPT ![n] = "refused"] /\ UNCHANGED <<buffer, held, loop, pressed, health>>
        ELSE /\ buffer' = Append(buffer, n) /\ held' = held + RecordSize[n] /\ loop' = Started
             /\ fate' = [fate EXCEPT ![n] = Promised(full)]
             /\ IF full THEN Pressed(TRUE) ELSE UNCHANGED <<pressed, health>>
  /\ UNCHANGED <<walMode, flushes, askedFor, batch, nextSeq, segments, listed, trouble, fenced, closing,
                 walFaults>>

\* flush().
Asks(f) ==
  /\ flushes' = [flushes EXCEPT ![f] = IF fenced THEN "failed" ELSE IF buffer = <<>> THEN "ok"
                                       ELSE IF Stopped THEN "failed" ELSE "open"]
  /\ askedFor' = [askedFor EXCEPT ![f] = Range(buffer)]

Flush(f) ==
  /\ flushes[f] = "" /\ Asks(f)
  /\ UNCHANGED <<walMode, written, buffer, held, fate, loop, batch, nextSeq, segments, listed, trouble,
                 pressed, health, fenced, closing, walFaults>>

\* Every waiter there is, told so.
Told(verdict) == [f \in FlushCalls |-> IF flushes[f] = "open" THEN verdict ELSE flushes[f]]

---------------------------------------------------------------------------
(* The loop.                                                               *)

\* settleFlushWaiters.
ToldIfEmpty == IF buffer = <<>> THEN Told("ok") ELSE flushes

\* waitNonEmpty is over, and the linger.
Wakes ==
  /\ loop = "idle" /\ (buffer # <<>> \/ ~ Running)
  /\ loop' = IF Running THEN "lease" ELSE "end"
  /\ flushes' = ToldIfEmpty
  /\ UNCHANGED <<walMode, written, buffer, held, fate, askedFor, batch, nextSeq, segments, listed, trouble,
                 pressed, health, fenced, closing, walFaults>>

\* onFlushError, the error being one to try again after.
AfterFailure == IF trouble + 1 >= Tries THEN "unavailable" ELSE "degraded"

Fails ==
  /\ walFaults > 0 /\ walFaults' = walFaults - 1
  /\ trouble' = trouble + 1 /\ health' = AfterFailure
  /\ loop' = "backoff"
  /\ UNCHANGED <<buffer, held, fate, flushes, fenced>>

\* Mutant: the records stay.
DropsKept == buffer
Drops == <<>>

\* fail(): NotWriterError.
Fenced ==
  /\ fenced' = TRUE /\ health' = "unavailable"
  /\ buffer' = Drops /\ held' = 0
  /\ fate' = [n \in 1..Records |-> IF fate[n] = "open" /\ n \in Range(buffer) THEN "failed" ELSE fate[n]]
  /\ flushes' = Told("failed")
  /\ loop' = "end"
  /\ UNCHANGED trouble

IsFenced == walFaults > 0 /\ walFaults' = walFaults - 1 /\ Fenced

\* The longest prefix within maxBytes, one record at least.
Taken == Max({1} \cup {n \in DOMAIN buffer : Bytes(SubSeq(buffer, 1, n)) <= WalMaxBatch})

\* Mutant: the number of a segment is used up by its commit.
NumberKept == nextSeq
NumberBurnt == nextSeq + 1

\* ensureWriter; then the batch is cut and named.
Lease ==
  /\ loop = "lease"
  /\ \/ /\ batch' = [seq |-> nextSeq, n |-> Taken]
        /\ nextSeq' = NumberBurnt
        /\ loop' = "put"
        /\ UNCHANGED <<buffer, held, fate, flushes, trouble, health, fenced, walFaults>>
     \/ (Fails \/ IsFenced) /\ UNCHANGED <<batch, nextSeq>>
  /\ UNCHANGED <<walMode, written, askedFor, segments, listed, pressed, closing>>

Body == SubSeq(buffer, 1, batch.n)

\* driver.put of the segment, which may land and fail.
PutSegment ==
  /\ loop = "put"
  /\ \/ segments' = [s \in DOMAIN segments \cup {batch.seq} |-> IF s = batch.seq THEN Body ELSE segments[s]]
     \/ UNCHANGED segments
  /\ \/ /\ segments' # segments \/ batch.seq \in DOMAIN segments
        /\ loop' = "commit"
        /\ UNCHANGED <<buffer, held, fate, flushes, trouble, health, fenced, walFaults>>
     \/ Fails
  /\ UNCHANGED <<walMode, written, askedFor, batch, nextSeq, listed, pressed, closing>>

\* What was in the batch; more has been buffered since.
Landed == Body

\* The rest of flushOnce, the manifest having taken the segment.
BatchDone ==
  /\ buffer' = SubSeq(buffer, Len(Landed) + 1, Len(buffer))
  /\ held' = held - Bytes(Landed)
  /\ fate' = [n \in 1..Records |-> IF fate[n] = "open" /\ n \in Range(Landed) THEN "ok" ELSE fate[n]]
  /\ pressed' = (pressed /\ held' > MaxBuffer)
  /\ trouble' = 0
  /\ health' = IF pressed' THEN "degraded" ELSE "healthy"
  /\ flushes' = IF buffer' = <<>> THEN Told("ok") ELSE flushes
  /\ loop' = "after"
  /\ UNCHANGED <<fenced, walFaults>>

\* manifest.commit.  A manifest that was stopped refuses before it writes.
CommitBegins ==
  /\ loop = "commit"
  /\ loop' = IF closing = "closed" THEN "backoff" ELSE "cas"
  /\ trouble' = IF closing = "closed" THEN trouble + 1 ELSE trouble
  /\ health' = IF closing = "closed" THEN AfterFailure ELSE health
  /\ UNCHANGED <<walMode, written, buffer, held, fate, flushes, askedFor, batch, nextSeq, segments, listed,
                 pressed, fenced, closing, walFaults>>

\* The manifest is written, or not; the answer comes, or not; or it is another's.
CommitEnds ==
  /\ loop = "cas"
  /\ LET lists == listed' = Append(listed, [seq |-> batch.seq, body |-> Body])
     IN \/ lists /\ BatchDone
        \/ (lists \/ UNCHANGED listed) /\ Fails /\ UNCHANGED pressed
        \/ UNCHANGED listed /\ IsFenced /\ UNCHANGED pressed
  /\ UNCHANGED <<walMode, written, askedFor, batch, nextSeq, segments, closing>>

\* onCommitted (compaction) has ended, or a backoff; stop() cuts a backoff short.
LooksAgain ==
  /\ loop \in {"after", "backoff"}
  /\ loop' = IF ~ Running THEN "end" ELSE IF buffer = <<>> THEN "idle" ELSE "lease"
  /\ flushes' = ToldIfEmpty
  /\ UNCHANGED <<walMode, written, buffer, held, fate, askedFor, batch, nextSeq, segments, listed, trouble,
                 pressed, health, fenced, closing, walFaults>>

---------------------------------------------------------------------------
(* close(): a drain that is bounded in time, then stop(), then the manifest's. *)

CloseBegins ==
  /\ closing = "no" /\ closing' = "drain"
  /\ Asks("close")
  /\ UNCHANGED <<walMode, written, buffer, held, fate, loop, batch, nextSeq, segments, listed, trouble,
                 pressed, health, fenced, walFaults>>

\* The drain is over, or its time is.
DrainEnds ==
  /\ closing = "drain" /\ closing' = "stop"
  /\ UNCHANGED <<walMode, written, buffer, held, fate, flushes, askedFor, loop, batch, nextSeq, segments,
                 listed, trouble, pressed, health, fenced, walFaults>>

\* stop() after its loop has ended, or its time is over: who waits still is told.
Tells == IF buffer # <<>> THEN Told("failed") ELSE flushes

StopEnds ==
  /\ closing = "stop" /\ closing' = "closed"
  /\ flushes' = Tells
  /\ UNCHANGED <<walMode, written, buffer, held, fate, askedFor, loop, batch, nextSeq, segments, listed,
                 trouble, pressed, health, fenced, walFaults>>

---------------------------------------------------------------------------
WalNext ==
  \/ Submit \/ \E f \in Flushers : Flush(f)
  \/ Wakes \/ Lease \/ PutSegment \/ CommitBegins \/ CommitEnds \/ LooksAgain
  \/ CloseBegins \/ DrainEnds \/ StopEnds

WalSpec == WalInit /\ [][WalNext]_walVars

---------------------------------------------------------------------------
Listed == UNION {Range(listed[k].body) : k \in DOMAIN listed}

\* What the buffer is charged is what is in it, within its limit unless writes
\* are taken past it; and health says "healthy" exactly when nothing is wrong.
WalTypeOK ==
  /\ held = Bytes(buffer)
  /\ walMode # "degrade" => held <= MaxBuffer
  /\ health = "healthy" <=> trouble = 0 /\ ~ pressed /\ ~ fenced
  /\ health = "unavailable" <=> trouble >= Tries \/ fenced

\* A write that was told it is durable is in a segment the manifest lists, and
\* so is every record taken before it (the reservation that guards it: index.ts,
\* persistReservations).
AckedIsListed ==
  \A n \in 1..written :
    fate[n] = "ok" => n \in Listed /\ \A m \in 1..n : fate[m] # "refused" => m \in Listed

\* A segment the manifest lists is never written again (wal.ts: the number is
\* burnt "BEFORE the PUT").
ListedIsWriteOnce == \A k \in DOMAIN listed : segments[listed[k].seq] = listed[k].body

\* flush() says what it promises, and nobody is left waiting for an answer by a
\* writer that failed or was closed (wal.ts, stop).
FlushTells ==
  /\ \A f \in FlushCalls : flushes[f] = "ok" => askedFor[f] \subseteq Listed
  /\ closing = "closed" \/ fenced => \A f \in FlushCalls : flushes[f] # "open"

\* The write-ahead buffer: acknowledged records are in a listed segment, a
\* listed segment is never written again, and flush() tells the truth.
\* Each as stated above.
WalInv == WalTypeOK /\ AckedIsListed /\ ListedIsWriteOnce /\ FlushTells
=============================================================================
