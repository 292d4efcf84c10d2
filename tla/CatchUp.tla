------------------------------ MODULE CatchUp ------------------------------
(***************************************************************************)
(* How a client that was away catches up, and what the op log it catches   *)
(* up from contains: the write paths that feed the log (eager, through     *)
(* src/server/eager-buffer.ts, eager-durable, consistent, applyServerOp,   *)
(* and those of another instance), resume and bootstrap of                 *)
(* src/server/handler.ts, compaction-manager.ts, the poll of other         *)
(* instances' writes, and the log of src/server/storage/sqlite.ts.         *)
(*                                                                         *)
(* One client watches one query per table.  What a query returns is the    *)
(* set of writes its table has had.  HLCs are numbers, unlike each other.  *)
(* A frame to a connected client arrives; when the connection is gone it   *)
(* does not.                                                               *)
(***************************************************************************)
EXTENDS Naturals, Sequences, FiniteSets, SequencesExt

CONSTANTS LogWrites,    \* the writes
          TableOf,      \* the table of each
          PathsOf,      \* the paths each may take
          TableOrder,   \* the tables, in the order the buffers were made
          BufferCap,    \* maxBufferSize
          CatchUpBounds \* choices of how many of these writes are made, and of lost
                        \* links, crashes, failed storage writes, compactions, and
                        \* all of these ("mishaps")

Paths == {"eager", "durable", "server", "consistent", "away"}

ASSUME CatchUpAssumption ==
  /\ LogWrites \subseteq Nat /\ IsFiniteSet(LogWrites)
  /\ PathsOf \in [LogWrites -> SUBSET Paths]
  /\ TableOrder \in Seq(Range(TableOf)) /\ Range(TableOrder) = Range(TableOf)
  /\ TableOf \in [LogWrites -> Range(TableOrder)]
  /\ BufferCap \in Nat \ {0}
  /\ \A b \in CatchUpBounds :
       b \in [{"writes", "cuts", "crashes", "failures", "sweeps", "mishaps"} -> Nat]

VARIABLES
  work,       \* each write: its path, HLC and stage
  appDb,      \* the writes the application's database has
  oplog,      \* the writes the op log has
  now,        \* the clock of the instances
  buffers,    \* EagerBuffer: the writes waiting, by table (nothing tells their order)
  flushing,   \* the flush under way: the tables ahead, the writes it took
  due,        \* tables a broadcast is about to be made of
  cutoff,     \* of compaction: in memory, whether that was loaded, in storage
  sweep,      \* a compaction under way, and whose
  mark,       \* the poll's watermark: absent, or an HLC
  polling,    \* this deployment polls
  linked,     \* the client is connected and subscribed
  view,       \* the writes the client has
  since,      \* the client's watermark
  asked,      \* its resume or bootstrap, as far as it is
  late,       \* history: logged below a watermark that had been handed out, or was being made
  unflushed,  \* history: in the buffer when a resume read the log
  swept,      \* history: deleted from the log
  unseen,     \* history: deleted below a cutoff this instance has not heard of
  lost,       \* history: accepted, and never logged
  catchUpLeft

logVars    == <<work, appDb, oplog, now, buffers, flushing, due>>
sweepVars  == <<cutoff, sweep>>
clientVars == <<linked, view, since, asked>>
pastVars   == <<late, unflushed, swept, unseen, lost>>
catchUpVars == <<logVars, sweepVars, mark, polling, clientVars, pastVars, catchUpLeft>>

TablesHere == Range(TableOrder)
NotFlushing == [on |-> FALSE, rest |-> <<>>, batch |-> {}]

CatchUpTypeOK ==
  /\ work \in [LogWrites -> [path : Paths, at : Nat, stage : {"new", "stamped", "done"}]]
  /\ appDb \subseteq LogWrites /\ oplog \subseteq LogWrites /\ view \subseteq LogWrites
  /\ late \subseteq LogWrites /\ unflushed \subseteq LogWrites /\ swept \subseteq LogWrites
  /\ unseen \subseteq LogWrites /\ lost \subseteq LogWrites
  /\ now \in Nat /\ since \in Nat /\ mark \in Nat
  /\ buffers \in [TablesHere -> SUBSET LogWrites]
  /\ \A t \in TablesHere : \A w \in buffers[t] : TableOf[w] = t
  /\ flushing \in [on : BOOLEAN, rest : Seq(TablesHere), batch : SUBSET LogWrites]
  /\ due \subseteq TablesHere
  /\ cutoff \in [mem : Nat, loaded : BOOLEAN, stored : Nat]
  /\ sweep \in [by : {"nobody", "here", "away"}, at : Nat]
  /\ polling \in BOOLEAN /\ linked \in BOOLEAN
  /\ asked \in {"nothing", "flush", "read", "complete", "snapshot"}
  /\ catchUpLeft \in [{"writes", "cuts", "crashes", "failures", "sweeps", "mishaps"} -> Nat]

OldHlc == 1
At(w) == work[w].at
Used == {At(w) : w \in LogWrites} \cup {since, mark}
OfTables(ws, ts) == {w \in ws : TableOf[w] \in ts}
Waiting == UNION {buffers[t] : t \in TablesHere}
SpendCatchUp(b) ==
  /\ catchUpLeft[b] > 0 /\ catchUpLeft["mishaps"] > 0
  /\ catchUpLeft' = [catchUpLeft EXCEPT ![b] = @ - 1, !["mishaps"] = @ - 1]

\* An entry is appended to the log, whatever HLCs have been handed out by then, or
\* are about to be to a client whose rows have been read.
Logged(ws) ==
  /\ oplog' = oplog \cup ws
  /\ late' = late \cup {w \in ws : At(w) < since \/ At(w) < mark \/ asked = "complete"}

-----------------------------------------------------------------------------
(* The paths of a write.                                                   *)

\* A write starts on some path; writes are numbered as they start.  It is
\* stamped by the server, but for a consistent one, which keeps the HLC its
\* client gave it, and that may be an old one.
Stamp(w) ==
  /\ w <= catchUpLeft["writes"]
  /\ work[w].stage = "new" /\ \A x \in LogWrites : x < w => work[x].stage # "new"
  /\ \E path \in PathsOf[w] :
       \E at \in IF path = "consistent" THEN {OldHlc, now + 1} ELSE {now + 1} :
         /\ at \notin Used
         /\ work' = [work EXCEPT ![w] = [path |-> path, at |-> at, stage |-> "stamped"]]
         /\ now' = IF at > now THEN at ELSE now
  /\ UNCHANGED <<appDb, oplog, buffers, flushing, due, sweepVars, mark, polling, clientVars,
                 pastVars, catchUpLeft>>

\* mutate has committed, and the write is on its way to the client if it is there.
Applied(w, path) ==
  /\ work[w].stage = "stamped" /\ work[w].path = path
  /\ work' = [work EXCEPT ![w].stage = "done"]
  /\ appDb' = appDb \cup {w}

Shown(ws) == view' = IF linked THEN view \cup ws ELSE view

\* processEagerOp with a buffer that has room: the entry waits there, the delta
\* goes out at once.
WriteEager(w) ==
  /\ Applied(w, "eager")
  /\ Cardinality(buffers[TableOf[w]]) < BufferCap
  /\ buffers' = [buffers EXCEPT ![TableOf[w]] = @ \cup {w}]
  /\ Shown({w})
  /\ UNCHANGED <<oplog, now, flushing, due, sweepVars, mark, polling, linked, since, asked,
                 pastVars, catchUpLeft>>

\* The buffer filled while mutate ran: storage is written at once; a failure is
\* logged, and the op accepted.
WriteEagerFull(w) ==
  /\ Applied(w, "eager")
  /\ Cardinality(buffers[TableOf[w]]) >= BufferCap
  /\ Shown({w})
  /\ \/ Logged({w}) /\ UNCHANGED <<lost, catchUpLeft>>
     \/ SpendCatchUp("failures") /\ lost' = lost \cup {w} /\ UNCHANGED <<oplog, late>>
  /\ UNCHANGED <<now, buffers, flushing, due, sweepVars, mark, polling, linked, since, asked,
                 unflushed, swept, unseen>>

\* eager-durable: logged before the delta goes out.
WriteDurable(w) ==
  /\ Applied(w, "durable")
  /\ Logged({w}) /\ Shown({w})
  /\ UNCHANGED <<now, buffers, flushing, due, sweepVars, mark, polling, linked, since, asked,
                 unflushed, swept, unseen, lost, catchUpLeft>>

\* The consistent path and applyServerOp: logged, then a broadcast is made.
WriteThenBroadcast(w) ==
  /\ \E path \in {"consistent", "server"} : Applied(w, path)
  /\ Logged({w})
  /\ due' = due \cup {TableOf[w]}
  /\ UNCHANGED <<now, buffers, flushing, sweepVars, mark, polling, clientVars, unflushed,
                 swept, unseen, lost, catchUpLeft>>

\* Another instance's write: its database write first, its log entry some time later.
WriteAway(w) ==
  /\ work[w].stage = "stamped" /\ work[w].path = "away" /\ w \notin appDb
  /\ appDb' = appDb \cup {w}
  /\ UNCHANGED <<work, oplog, now, buffers, flushing, due, sweepVars, mark, polling,
                 clientVars, pastVars, catchUpLeft>>

LogAway(w) ==
  /\ Applied(w, "away") /\ w \in appDb
  /\ Logged({w})
  /\ UNCHANGED <<now, buffers, flushing, due, sweepVars, mark, polling, clientVars, unflushed,
                 swept, unseen, lost, catchUpLeft>>

\* broadcastChanges: the client is sent what it lacks of the table.
BroadcastTable(t) ==
  /\ t \in due /\ due' = due \ {t}
  /\ Shown(OfTables(appDb, {t}))
  /\ UNCHANGED <<work, appDb, oplog, now, buffers, flushing, sweepVars, mark, polling, linked,
                 since, asked, pastVars, catchUpLeft>>

-----------------------------------------------------------------------------
(* EagerBuffer.                                                            *)

FlushFrom(f) == IF f.on THEN f ELSE [on |-> TRUE, rest |-> TableOrder, batch |-> {}]

\* The flush timer.
FlushTick ==
  /\ ~flushing.on /\ \E t \in TablesHere : buffers[t] # {}
  /\ flushing' = FlushFrom(flushing)
  /\ UNCHANGED <<work, appDb, oplog, now, buffers, due, sweepVars, mark, polling, clientVars,
                 pastVars, catchUpLeft>>

\* doFlush takes the buffer of the next table.
FlushTakes ==
  /\ flushing.on /\ flushing.batch = {} /\ flushing.rest # <<>>
  /\ flushing' = [on |-> TRUE, rest |-> Tail(flushing.rest), batch |-> buffers[Head(flushing.rest)]]
  /\ buffers' = [buffers EXCEPT ![Head(flushing.rest)] = {}]
  /\ UNCHANGED <<work, appDb, oplog, now, due, sweepVars, mark, polling, clientVars, pastVars,
                 catchUpLeft>>

\* Mutant: what could not be written is dropped.
FlushForgets ==
  /\ flushing.batch # {}
  /\ \E failed \in SUBSET flushing.batch :
       /\ IF failed = {} THEN UNCHANGED catchUpLeft ELSE SpendCatchUp("failures")
       /\ Logged(flushing.batch \ failed)
  /\ flushing' = [flushing EXCEPT !.batch = {}]
  /\ UNCHANGED <<work, appDb, now, due, buffers, sweepVars, mark, polling, clientVars, unflushed, swept,
                 unseen, lost>>

\* All its writes have settled; those that failed are put back.
FlushWrites ==
  /\ flushing.batch # {}
  /\ \E failed \in SUBSET flushing.batch :
       /\ IF failed = {} THEN UNCHANGED catchUpLeft ELSE SpendCatchUp("failures")
       /\ Logged(flushing.batch \ failed)
       /\ buffers' = [t \in TablesHere |-> buffers[t] \cup OfTables(failed, {t})]
  /\ flushing' = [flushing EXCEPT !.batch = {}]
  /\ UNCHANGED <<work, appDb, now, due, sweepVars, mark, polling, clientVars, unflushed, swept,
                 unseen, lost>>

\* Whoever waited for the flush goes on, also who came when it was under way.
FlushEnds ==
  /\ flushing.on /\ flushing.batch = {} /\ flushing.rest = <<>>
  /\ flushing' = NotFlushing
  /\ asked' = IF asked = "flush" THEN "read" ELSE asked
  /\ UNCHANGED <<work, appDb, oplog, now, buffers, due, sweepVars, mark, polling, linked, view,
                 since, pastVars, catchUpLeft>>

\* The process dies and is started again; its connections, buffer and memory are
\* gone.  Then it reads the cutoff again, and a client that has not caught up past
\* it is told so.
CrashHere ==
  /\ SpendCatchUp("crashes")
  /\ lost' = lost \cup flushing.batch \cup Waiting
               \cup {w \in LogWrites : work[w].path # "away" /\ work[w].stage = "stamped"}
  /\ work' = [w \in LogWrites |->
               IF work[w].path # "away" /\ work[w].stage = "stamped"
               THEN [work[w] EXCEPT !.stage = "done"] ELSE work[w]]
  /\ buffers' = [t \in TablesHere |-> {}] /\ flushing' = NotFlushing /\ due' = {}
  /\ cutoff' = [cutoff EXCEPT !.mem = 0, !.loaded = FALSE]
  /\ sweep' = IF sweep.by = "here" THEN [by |-> "nobody", at |-> 0] ELSE sweep
  /\ mark' = 0 /\ linked' = FALSE /\ asked' = "nothing"
  /\ unseen' = {w \in unseen : At(w) < since}
  /\ UNCHANGED <<appDb, oplog, now, polling, view, since, late, unflushed, swept>>

-----------------------------------------------------------------------------
(* The client comes and goes.                                              *)

\* hello, sync_declare of every table, and a resume, which waits for a flush: a
\* client without a watermark bootstraps.
Reconnect ==
  /\ ~linked /\ linked' = TRUE
  /\ asked' = "flush" /\ flushing' = FlushFrom(flushing)
  /\ UNCHANGED <<work, appDb, oplog, now, buffers, due, sweepVars, mark, polling, view, since,
                 pastVars, catchUpLeft>>

Cut ==
  /\ linked /\ SpendCatchUp("cuts")
  /\ linked' = FALSE /\ asked' = "nothing"
  /\ UNCHANGED <<logVars, sweepVars, mark, polling, view, since, pastVars>>

\* ensureCutoffLoaded: the cutoff is read from storage once.
CutoffLoaded ==
  IF cutoff.loaded THEN cutoff ELSE [cutoff EXCEPT !.mem = cutoff.stored, !.loaded = TRUE]

\* Tables that changed after the watermark; if it names none, all are sent.
ChangedSince(at) == {TableOf[w] : w \in {x \in oplog : At(x) > at}}
SentOnResume == IF ChangedSince(since) = {} THEN TablesHere ELSE ChangedSince(since)

TooOld(at) == at > 0 /\ since < at

ResumeReads ==
  /\ asked = "read" /\ since > 0
  /\ cutoff' = CutoffLoaded
  /\ IF TooOld(cutoff'.mem)
     THEN \* resume_rejected: the client forgets its watermark and bootstraps
          since' = 0 /\ asked' = "snapshot" /\ UNCHANGED <<view, unflushed>>
     ELSE /\ view' = (view \ OfTables(view, SentOnResume)) \cup OfTables(appDb, SentOnResume)
          /\ unflushed' = unflushed \cup Waiting
          /\ asked' = "complete" /\ UNCHANGED since
  /\ UNCHANGED <<logVars, sweep, mark, polling, linked, late, swept, unseen, lost, catchUpLeft>>

\* handleBootstrap: every query, whatever the log says.
BootstrapReads ==
  /\ asked = "snapshot" \/ (asked = "read" /\ since = 0)
  /\ view' = appDb /\ asked' = "complete"
  /\ UNCHANGED <<logVars, sweepVars, mark, polling, linked, since, pastVars, catchUpLeft>>

\* resume_complete, bootstrap_complete: a fresh stamp becomes the watermark.
Completes ==
  /\ asked = "complete" /\ asked' = "nothing"
  /\ now' = now + 1 /\ since' = now + 1
  /\ UNCHANGED <<work, appDb, oplog, buffers, flushing, due, sweepVars, mark, polling, linked,
                 view, pastVars, catchUpLeft>>

-----------------------------------------------------------------------------
(* The poll, and compaction.                                               *)

\* pollRemoteChanges: the first tick adopts the head of the log, a later one
\* broadcasts what changed above the watermark.
PollTick ==
  /\ polling
  /\ \E w \in oplog : At(w) > mark /\ (\A x \in oplog : At(x) <= At(w)) /\ mark' = At(w)
  /\ due' = IF mark = 0 THEN due ELSE due \cup ChangedSince(mark)
  /\ late' = IF mark = 0 THEN late \cup oplog ELSE late
  /\ UNCHANGED <<work, appDb, oplog, now, buffers, flushing, sweepVars, polling, clientVars,
                 unflushed, swept, unseen, lost, catchUpLeft>>

\* MIN_COMPACTION_AGE_MS is far longer than a write, a flush and the interval of
\* the poll: what a cutoff passes has been logged, and seen by the poll.
OldEnough(at) ==
  /\ \A w \in LogWrites : work[w].stage = "stamped" \/ w \in Waiting => At(w) >= at
  /\ polling => at <= mark

\* runCompaction, under the lock: a cutoff above the one this instance knows is
\* committed in memory and in storage ...  Cutoffs are wall clock times: with clocks
\* and ages that agree, one computed later is not below one that is stored.
CutoffMoves(by) ==
  /\ sweep.by = "nobody" /\ SpendCatchUp("sweeps")
  /\ \E at \in OldHlc + 1..now :
       /\ OldEnough(at) /\ at >= cutoff.stored
       /\ by = "here" => at > CutoffLoaded.mem
       /\ sweep' = [by |-> by, at |-> at]
       /\ cutoff' = [(IF by = "here" THEN [CutoffLoaded EXCEPT !.mem = at] ELSE cutoff)
                       EXCEPT !.stored = at]
  /\ UNCHANGED <<logVars, mark, polling, clientVars, pastVars>>

\* ... and then the entries below it are deleted.
SweepDeletes ==
  /\ sweep.by # "nobody" /\ sweep' = [by |-> "nobody", at |-> 0]
  /\ LET gone == {w \in oplog : At(w) < sweep.at} IN
     /\ oplog' = oplog \ gone
     /\ swept' = swept \cup gone
     /\ unseen' = unseen \cup (IF cutoff.loaded /\ cutoff.mem < sweep.at THEN gone ELSE {})
  /\ UNCHANGED <<work, appDb, now, buffers, flushing, due, cutoff, mark, polling, clientVars,
                 late, unflushed, lost, catchUpLeft>>

-----------------------------------------------------------------------------
CatchUpInit ==
  /\ work = [w \in LogWrites |-> [path |-> "eager", at |-> 0, stage |-> "new"]]
  /\ appDb = {} /\ oplog = {} /\ now = OldHlc + 1
  /\ buffers = [t \in TablesHere |-> {}] /\ flushing = NotFlushing /\ due = {}
  /\ cutoff = [mem |-> 0, loaded |-> FALSE, stored |-> 0]
  /\ sweep = [by |-> "nobody", at |-> 0]
  /\ mark = 0 /\ polling \in BOOLEAN
  /\ linked = FALSE /\ view = {} /\ since = 0 /\ asked = "nothing"
  /\ late = {} /\ unflushed = {} /\ swept = {} /\ unseen = {} /\ lost = {}
  /\ catchUpLeft \in CatchUpBounds

WriteStep(w) ==
  Stamp(w) \/ WriteEager(w) \/ WriteEagerFull(w) \/ WriteDurable(w) \/ WriteThenBroadcast(w)
    \/ WriteAway(w) \/ LogAway(w)

CatchUpNext ==
  \/ \E w \in LogWrites : WriteStep(w)
  \/ \E t \in TablesHere : BroadcastTable(t)
  \/ FlushTick \/ FlushTakes \/ FlushWrites \/ FlushEnds
  \/ CrashHere \/ Reconnect \/ Cut \/ ResumeReads \/ BootstrapReads \/ Completes
  \/ PollTick \/ (\E by \in {"here", "away"} : CutoffMoves(by)) \/ SweepDeletes

CatchUpSpec == CatchUpInit /\ [][CatchUpNext]_catchUpVars

-----------------------------------------------------------------------------
\* Everything under way has ended, and the poll has seen the head of the log.
AllDelivered ==
  /\ linked /\ asked = "nothing" /\ due = {} /\ ~flushing.on /\ Waiting = {}
  /\ \A w \in LogWrites : work[w].stage # "stamped"
  /\ polling => \A w \in oplog : At(w) <= mark

\* A client that came back, and has been told everything, shows every write but
\* those that the log could not tell it of: logged below a watermark that had
\* been given out, in the buffer when its resume read the log, below a cutoff
\* this instance has not heard of, lost with a process, or another instance's
\* where nobody polls (handleResume, pollRemoteChanges).
CaughtUp ==
  AllDelivered =>
    \A w \in appDb \ view :
      \/ w \in late \cup unflushed \cup unseen \cup lost
      \/ work[w].path = "away" /\ ~polling

\* An accepted write is in the log, on its way there, or compacted away, unless a
\* crash took it: a failed flush loses none (doFlush puts it back).
AcceptedIsLogged ==
  \A w \in LogWrites : work[w].stage = "done" =>
    w \in oplog \cup swept \cup lost \cup Waiting \cup flushing.batch

\* What was deleted from the log is below the cutoff that a starting instance
\* will read (runCompaction: "Commit cutoff first, then lazily delete ops").
SweptIsBelowCutoff == \A w \in swept : At(w) < cutoff.stored

\* Clients that were away: one that has caught up has every row, an accepted op
\* is in the log or still in the buffer, and only what lies below the cutoff
\* was swept.
\* Each as stated above.
CatchUpInv == CatchUpTypeOK /\ CaughtUp /\ AcceptedIsLogged /\ SweptIsBelowCutoff
=============================================================================
