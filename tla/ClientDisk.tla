----------------------------- MODULE ClientDisk -----------------------------
(***************************************************************************)
(* What a page keeps in IndexedDB between its lives, and what a logout     *)
(* does to it: init, sync, unsync, clear and close of                      *)
(* src/client/sync-client.ts, the write chain and clear of                 *)
(* src/client/store.ts, and src/client/storage/indexeddb.ts.               *)
(*                                                                         *)
(* Rows go to the disk through a chain, one transaction after another; the *)
(* watermark and the subscriptions go beside it, in the order they are     *)
(* issued.  A page may end at any step, and what it has not written is     *)
(* gone.  Operations of the user and the handshake are ClientSync's: here  *)
(* a connection is open once its declares and its resume are sent.         *)
(* A table is its one row, and a row is the clock of its last write.       *)
(***************************************************************************)
EXTENDS Naturals, Sequences, FiniteSets, SequencesExt

CONSTANTS DiskTables,
          SchemaHandlers,  \* what onSchemaChange may do: clear, warn, or migrate
          DiskBound        \* for each of them, bounds: [writes, syncs, drops,
                           \* links, clears (at most one), ends, releases,
                           \* throws]

ASSUME DiskAssumption ==
  /\ IsFiniteSet(DiskTables)
  /\ SchemaHandlers \subseteq {"clear", "warn", "migrate"}
  /\ DiskBound \in [SchemaHandlers -> [{"writes", "syncs", "drops", "links", "clears",
                                       "ends", "releases", "throws"} -> Nat]]
  /\ \A h \in SchemaHandlers : DiskBound[h].clears <= 1

VARIABLES
  truth, serverNow,  \* the server: the clock of each row, and its newest clock
  linked, asked,     \* the connection, and the tables the server sends on it
  frames,            \* what the server has sent on it
  tab,               \* the life of the page
  handler, release,  \* onSchemaChange, and the appSchemaVersion of the code
  held, watermark,   \* rows and serverHlc in memory
  synced,            \* syncedTables
  inited,            \* initialized
  writes, orphans,   \* the write chain, and one that a clear has left behind
  waits,             \* how much of the chain is still awaited
  notes,             \* setMeta and clear transactions, as issued
  stored,            \* what the disk holds
  era, lastCleared,  \* history: clears begun, and the last that resolved
  forgot,            \* history: a clear took the stored version with it
  holes,             \* history: tables of which something may be missed
  renewed,           \* history: tables declared anew with an older answer on its way
  diskLeft           \* what remains of each bound

memory   == <<held, watermark, synced, inited>>
remote   == <<truth, serverNow>>
network  == <<linked, asked, frames>>
queues   == <<writes, orphans, waits, notes>>
told     == <<era, lastCleared, forgot, holes, renewed>>
diskVars == <<remote, network, memory, queues, tab, handler, release, stored, told, diskLeft>>

DiskRow   == [clock : Nat, shape : Nat, era : Nat]
Absent    == [clock |-> 0, shape |-> 0, era |-> 0]
NoRows    == [t \in DiskTables |-> Absent]
BlankDisk == [rows |-> NoRows, since |-> 0, subs |-> {}, version |-> 0]

DiskTypeOK ==
  /\ truth \in [DiskTables -> Nat] /\ serverNow \in Nat
  /\ linked \in BOOLEAN /\ asked \subseteq DiskTables
  /\ tab \in {"off", "check", "call", "record", "hydrate", "stuck", "failed",
              "up", "drain", "wipe", "closing"}
  /\ handler \in SchemaHandlers /\ release \in Nat
  /\ held \in [DiskTables -> DiskRow] /\ watermark \in 0..serverNow
  /\ {synced, holes, renewed} \subseteq SUBSET DiskTables
  /\ {inited, forgot} \subseteq BOOLEAN
  /\ {writes, orphans} \subseteq Seq([t : DiskTables, row : DiskRow])
  /\ waits \in 0..Len(writes)
  /\ stored \in [rows : [DiskTables -> DiskRow], since : 0..serverNow,
                 subs : SUBSET DiskTables, version : 0..release]
  /\ lastCleared \in 0..era
  /\ diskLeft \in [DOMAIN DiskBound[handler] -> Nat]

SpendDisk(b) == diskLeft[b] > 0 /\ diskLeft' = [diskLeft EXCEPT ![b] = @ - 1]

\* Frames are handled while a clear or a close awaits.
Handling == tab \in {"up", "drain", "wipe", "closing"}

-----------------------------------------------------------------------------
(* The server.                                                             *)

RowsFrame(ts, whole) == [f |-> "rows", at |-> [t \in ts |-> truth[t]], whole |-> whole]
CompleteFrame        == [f |-> "complete", now |-> serverNow]

\* A bootstrap sends each table and the clock.
Bootstrapped(ts) == <<RowsFrame(ts, TRUE), CompleteFrame>>

\* A resume sends the tables that are newer than the watermark, or all if none is.
Changed(ts) == LET new == {t \in ts : truth[t] > watermark}
               IN  RowsFrame(IF new = {} THEN ts ELSE new, TRUE)

Resumed(ts) == <<Changed(ts), CompleteFrame>>

Delta(t) == [f |-> "rows", at |-> [u \in {t} |-> serverNow + 1], whole |-> FALSE]

ServerWrites(t) ==
  /\ SpendDisk("writes")
  /\ serverNow' = serverNow + 1
  /\ truth' = [truth EXCEPT ![t] = serverNow + 1]
  /\ frames' = IF t \in asked THEN Append(frames, Delta(t)) ELSE frames
  /\ UNCHANGED <<linked, asked, memory, queues, tab, handler, release, stored, told>>

-----------------------------------------------------------------------------
(* A page begins: init and the schema check.                               *)

\* Subscriptions are read before any read that checks the schema.
ReadSubs ==
  /\ tab \in {"off", "failed"}
  /\ tab' = "check" /\ synced' = stored.subs
  /\ UNCHANGED <<remote, network, held, watermark, inited, queues, handler, release, stored,
                 told, diskLeft>>

Checking(from, to) ==
  /\ tab = from /\ tab' = to
  /\ UNCHANGED <<remote, network, memory, queues, handler, release, told>>

\* A disk that has no version takes the code's; another version asks the app.
CheckVersion ==
  /\ Checking("check", CASE stored.version = 0       -> "record"
                         [] stored.version = release -> "hydrate"
                         [] OTHER                    -> "call")
  /\ UNCHANGED <<stored, diskLeft>>

HandlerThrows == Checking("call", "failed") /\ SpendDisk("throws") /\ UNCHANGED stored

HandlerReturns ==
  /\ handler # "migrate"
  /\ Checking("call", "record")
  /\ stored' = IF handler = "clear" THEN BlankDisk ELSE stored
  /\ UNCHANGED diskLeft

\* A handler that reads rows awaits the check that awaits it.
HandlerReads ==
  handler = "migrate" /\ Checking("call", "stuck") /\ UNCHANGED <<stored, diskLeft>>

RecordVersion ==
  /\ Checking("record", "hydrate")
  /\ stored' = [stored EXCEPT !.version = release]
  /\ UNCHANGED diskLeft

\* Rows of subscribed tables, or of all when there is no subscription.
Hydrated(subs) ==
  /\ held' = [t \in DiskTables |->
                IF (t \in subs \/ subs = {}) /\ stored.rows[t] # Absent
                THEN stored.rows[t] ELSE held[t]]
  /\ watermark' = IF stored.since > 0 THEN stored.since ELSE watermark
  /\ inited' = TRUE

HydrateDisk ==
  /\ tab = "hydrate" /\ tab' = "up"
  /\ Hydrated(synced)
  /\ UNCHANGED <<remote, network, synced, queues, handler, release, stored, told, diskLeft>>

\* connect() after a clear: the same page reads the disk again, when what was
\* noted before is written.
InitAgain ==
  /\ tab = "up" /\ ~inited /\ notes = <<>>
  /\ synced' = synced \cup stored.subs
  /\ Hydrated(synced')
  /\ holes' = holes \cup {writes[i].t : i \in DOMAIN writes}
  /\ UNCHANGED <<remote, network, queues, tab, handler, release, stored, era, lastCleared, forgot,
                 renewed, diskLeft>>

-----------------------------------------------------------------------------
(* Connections and subscriptions.                                          *)

\* What was synced before the connection was there is declared on it, unless a
\* clear or an unsync has dropped it.
Declared == synced

\* connect(), the declares, and a resume or a bootstrap.
Connect ==
  /\ tab = "up" /\ inited /\ ~linked /\ SpendDisk("links")
  /\ linked' = TRUE /\ asked' = Declared
  /\ frames' \in {Bootstrapped(synced)} \cup (IF watermark > 0 THEN {Resumed(synced)} ELSE {})
  /\ UNCHANGED <<remote, memory, queues, tab, handler, release, stored, told>>

LinkLost ==
  /\ linked /\ linked' = FALSE
  /\ asked' = {} /\ frames' = <<>> /\ renewed' = {}
  /\ UNCHANGED <<remote, memory, queues, tab, handler, release, stored, era, lastCleared, forgot,
                 holes, diskLeft>>

Note(n)       == notes' = Append(notes, n)
SubsNote(ts)  == [do |-> "subs", subs |-> ts]
SinceNote(n)  == [do |-> "since", since |-> n]
WipeNote      == [do |-> "wipe"]
Puts(ts, rows) == SetToSeq({[t |-> t, row |-> rows[t]] : t \in ts})

\* What the client takes a frame to tell of: a snapshot or delta of the table, whichever
\* declare it answers.
Tells(m, t)     == m.f = "rows" /\ t \in DOMAIN m.at
OnItsWay(t, fs) == \E i \in DOMAIN fs : Tells(fs[i], t)

\* sync: an open connection declares and bootstraps, else the next one does.
Sync(t) ==
  /\ tab = "up" /\ t \notin synced /\ SpendDisk("syncs")
  /\ synced' = synced \cup {t}
  /\ Note(SubsNote(synced'))
  /\ asked' = IF linked THEN asked \cup {t} ELSE asked
  /\ frames' = IF linked THEN frames \o Bootstrapped(asked') ELSE frames
  /\ holes' = holes \cup {t}
  /\ renewed' = IF t \notin asked /\ OnItsWay(t, frames) THEN renewed \cup {t} ELSE renewed
  /\ UNCHANGED <<remote, linked, held, watermark, inited, writes, orphans, waits, tab, handler,
                 release, stored, era, lastCleared, forgot>>

\* Drop a table: memory at once, the disk along the chain.
Dropped(t) ==
  /\ tab = "up" /\ t \in synced /\ SpendDisk("drops")
  /\ synced' = synced \ {t}
  /\ held' = [held EXCEPT ![t] = Absent]
  /\ writes' = Append(writes, [t |-> t, row |-> Absent])
  /\ UNCHANGED <<remote, linked, frames, watermark, inited, orphans, waits, tab, handler, release,
                 stored, era, lastCleared, forgot>>

Unsync(t) ==
  /\ linked /\ Dropped(t)
  /\ asked' = asked \ {t}
  /\ Note(SubsNote(synced'))
  /\ UNCHANGED <<holes, renewed>>

\* clear({ tables: [t] }): nothing is noted, and the server is not told.
DropTable(t) ==
  /\ Dropped(t)
  /\ holes' = holes \cup {t}
  /\ UNCHANGED <<asked, notes, renewed>>

\* A snapshot is taken whole; a delta unless the row is newer.
Newer(m, t) == t \in DOMAIN m.at /\ (m.whole \/ m.at[t] > held[t].clock)

\* A table declared anew is not yet answered while a later answer for it is on its way.
Superseded(t) ==
  /\ t \in renewed
  /\ \E m \in {Tail(frames)[i] : i \in DOMAIN Tail(frames)} : Tells(m, t) /\ m.whole

ReceiveRows ==
  /\ Handling /\ frames # <<>> /\ Head(frames).f = "rows" /\ frames' = Tail(frames)
  /\ LET m     == Head(frames)
         ts    == {t \in DiskTables : Newer(m, t)}
         whole == IF m.whole THEN ts ELSE {}
         row(t) == [clock |-> m.at[t], shape |-> release, era |-> era]
     IN  /\ held' = [t \in DiskTables |-> IF t \in ts THEN row(t) ELSE held[t]]
         /\ writes' = writes \o Puts(whole, NoRows) \o Puts(ts, [t \in ts |-> row(t)])
         /\ holes' = IF tab \in {"drain", "wipe"} THEN DiskTables
                     ELSE IF orphans = <<>> THEN holes \ {t \in whole : ~Superseded(t)} ELSE holes
  /\ UNCHANGED <<remote, linked, asked, watermark, synced, inited, orphans, waits, notes, tab,
                 handler, release, stored, era, lastCleared, forgot, renewed, diskLeft>>

\* bootstrap_complete and resume_complete: persistMeta does not wait for the chain.
CompleteArrives ==
  /\ Handling /\ frames # <<>> /\ Head(frames).f = "complete" /\ frames' = Tail(frames)
  /\ watermark' = Head(frames).now
  /\ Note(SinceNote(watermark'))
  /\ holes' = IF tab \in {"drain", "wipe"} THEN DiskTables ELSE holes
  /\ UNCHANGED <<remote, linked, asked, held, synced, inited, writes, orphans, waits, tab, handler,
                 release, stored, era, lastCleared, forgot, renewed, diskLeft>>

-----------------------------------------------------------------------------
(* The disk.                                                               *)

Wiping == \E i \in DOMAIN notes : notes[i] = WipeNote

\* The transaction at the head of a chain; a clear issued before it goes first.
WrittenRow(w) ==
  /\ ~Wiping
  /\ stored' = [stored EXCEPT !.rows[w.t] = w.row]
  /\ UNCHANGED <<remote, network, memory, notes, tab, handler, release, told, diskLeft>>

RowWritten ==
  /\ writes # <<>> /\ WrittenRow(Head(writes)) /\ writes' = Tail(writes)
  /\ waits' = IF waits > 0 THEN waits - 1 ELSE 0
  /\ UNCHANGED orphans

OrphanWritten ==
  orphans # <<>> /\ WrittenRow(Head(orphans)) /\ orphans' = Tail(orphans) /\ UNCHANGED <<writes, waits>>

NoteWritten ==
  /\ notes # <<>> /\ Head(notes) # WipeNote /\ notes' = Tail(notes)
  /\ stored' = IF Head(notes).do = "subs" THEN [stored EXCEPT !.subs = Head(notes).subs]
               ELSE [stored EXCEPT !.since = Head(notes).since]
  /\ UNCHANGED <<remote, network, memory, writes, orphans, waits, tab, handler, release, told,
                 diskLeft>>

-----------------------------------------------------------------------------
(* clear(), and the end of a page.                                         *)

\* clear awaits the chain as it stands.
Clear ==
  /\ tab = "up" /\ SpendDisk("clears")
  /\ tab' = "drain" /\ waits' = Len(writes) /\ era' = era + 1
  /\ UNCHANGED <<remote, network, memory, writes, orphans, notes, handler, release, stored,
                 lastCleared, forgot, holes, renewed>>

\* mutant: clear does not await the chain.
WipeStartsAtOnce ==
  /\ tab = "drain" /\ tab' = "wipe"
  /\ held' = NoRows
  /\ orphans' = writes /\ writes' = <<>> /\ waits' = 0
  /\ Note(WipeNote)
  /\ UNCHANGED <<remote, network, watermark, synced, inited, handler, release, stored, told,
                 diskLeft>>

\* Then memory goes, the chain is replaced, and the disk is told to clear.
WipeStarts ==
  /\ tab = "drain" /\ waits = 0 /\ tab' = "wipe"
  /\ held' = NoRows
  /\ orphans' = writes /\ writes' = <<>>
  /\ Note(WipeNote)
  /\ UNCHANGED <<remote, network, watermark, synced, inited, waits, handler, release, stored, told,
                 diskLeft>>

\* When the disk is clear so is the rest of memory.  The connection stays.
Cleared ==
  /\ notes # <<>> /\ Head(notes) = WipeNote /\ notes' = Tail(notes)
  /\ stored' = BlankDisk
  /\ tab' = "up"
  /\ watermark' = 0 /\ synced' = {} /\ inited' = FALSE
  /\ lastCleared' = era /\ forgot' = TRUE
  /\ UNCHANGED <<remote, network, held, writes, orphans, waits, handler, release, era, holes,
                 renewed, diskLeft>>

\* What is not written is lost with the page.
PageEnds ==
  /\ tab' = "off"
  /\ held' = NoRows /\ watermark' = 0 /\ synced' = {} /\ inited' = FALSE
  /\ writes' = <<>> /\ orphans' = <<>> /\ waits' = 0 /\ notes' = <<>>
  /\ linked' = FALSE /\ asked' = {} /\ frames' = <<>>
  /\ holes' = holes \cup {q.t : q \in ToSet(writes) \cup ToSet(orphans)}
                  \cup (stored.subs \ synced)
  /\ renewed' = {}
  /\ UNCHANGED <<remote, handler, release, stored, era, lastCleared, forgot>>

CrashPage == tab # "off" /\ SpendDisk("ends") /\ PageEnds

ClosePage ==
  /\ tab = "up" /\ SpendDisk("ends")
  /\ tab' = "closing" /\ waits' = Len(writes)
  /\ UNCHANGED <<remote, network, memory, writes, orphans, notes, handler, release, stored, told>>

PageCloses == tab = "closing" /\ waits = 0 /\ PageEnds /\ UNCHANGED diskLeft

\* The next page runs newer code.
Release ==
  /\ tab = "off" /\ SpendDisk("releases")
  /\ release' = release + 1
  /\ UNCHANGED <<remote, network, memory, queues, tab, handler, stored, told>>

-----------------------------------------------------------------------------
DiskInit ==
  /\ truth = [t \in DiskTables |-> 1] /\ serverNow = 1
  /\ linked = FALSE /\ asked = {} /\ frames = <<>>
  /\ tab = "off" /\ handler \in SchemaHandlers /\ release = 1
  /\ held = NoRows /\ watermark = 0 /\ synced = {} /\ inited = FALSE
  /\ writes = <<>> /\ orphans = <<>> /\ waits = 0 /\ notes = <<>>
  /\ stored = BlankDisk
  /\ era = 0 /\ lastCleared = 0 /\ forgot = FALSE /\ holes = {} /\ renewed = {}
  /\ diskLeft = DiskBound[handler]

Boots   == \/ ReadSubs \/ CheckVersion \/ HandlerThrows \/ HandlerReturns \/ HandlerReads
           \/ RecordVersion \/ HydrateDisk \/ InitAgain
Uses_   == \E t \in DiskTables : ServerWrites(t) \/ Sync(t) \/ Unsync(t) \/ DropTable(t)
Lives   == Clear \/ WipeStarts \/ Cleared \/ CrashPage \/ ClosePage \/ PageCloses \/ Release
DiskNext == \/ Boots \/ Uses_ \/ Lives \/ Connect \/ LinkLost
            \/ ReceiveRows \/ CompleteArrives \/ RowWritten \/ OrphanWritten \/ NoteWritten

DiskSpec == DiskInit /\ [][DiskNext]_diskVars

-----------------------------------------------------------------------------
(* Properties.                                                             *)

\* No row that came before a clear() was called is in memory or on the disk
\* once it has resolved (the drain in ClientStore.clear).
WipedStaysWiped ==
  \A t \in DiskTables : \A row \in {held[t], stored.rows[t]} :
    row.clock > 0 => row.era >= lastCleared

\* A page whose app clears on a schema change shows no row of an older release,
\* unless a clear() has taken the stored version away (ensureSchemaChecked).
OldShapeUnread ==
  tab = "up" /\ handler = "clear" /\ ~forgot =>
    \A t \in DiskTables : held[t].clock > 0 => held[t].shape = release

\* A connection that has told all it had to tell leaves every synced table as
\* the server has it, after reloads, resumes and logouts too.  The tables of
\* `holes` are excepted: declared and not yet answered (or only by the snapshot
\* of an earlier declare), dropped by a clear of tables, lost with a page (a
\* row, or an unsync) before that was written, or handled while a clear was
\* running.
ResumedIsCurrent ==
  tab = "up" /\ inited /\ linked /\ frames = <<>> =>
    \A t \in synced \cap asked : t \in holes \/ held[t].clock = truth[t]

\* What the client finds on its disk: nothing it wiped, no row of an older
\* schema, and after a resume the rows the server has.
\* Each as stated above.
DiskInv == DiskTypeOK /\ WipedStaysWiped /\ OldShapeUnread /\ ResumedIsCurrent
=============================================================================
