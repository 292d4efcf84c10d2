----------------------------- MODULE ClientSync -----------------------------
(***************************************************************************)
(* One device and its way to the server: src/client/sync-client.ts over    *)
(* the store (ClientStore), the socket of src/transport/ws.ts, and what    *)
(* the message handler of src/server/handler.ts answers.                   *)
(*                                                                         *)
(* A life of the page begins with Boot, which reads the durable store and  *)
(* connects as the bindings do, and ends with a crash or a close.  The     *)
(* user's calls make operations; a push waits for the storage chain and    *)
(* sends what is pending in frames; a lost socket is followed by a timer,  *)
(* a hello, a bootstrap, a resume and a push.  The server decides an       *)
(* operation once: what it has reserved it accepts again without looking.  *)
(*                                                                         *)
(* The wall clock of the device is behind the server's throughout, so the  *)
(* hybrid clocks are counters.  Frames are lost only with their socket.    *)
(***************************************************************************)
EXTENDS ClientStore

CONSTANTS Calls,        \* what the user does: each call makes a sequence of ops
          MaxFrame,     \* MAX_BATCH_SIZE
          Refusable,    \* the ops the server may refuse
          AnyOrder,     \* storage returns the pending ops in any order
          QueueBounds   \* choices of how many calls, lost sockets, crashes, reauth
                        \* answers, resumes refused, failed storage writes, minutes,
                        \* stray frames, and of all but the calls and the resumes
                        \* together ("any")

QueueLimits == {"calls", "losses", "crashes", "bounces", "cutoffs", "failures", "minutes",
                "strays", "any"}

ASSUME ClientSyncAssumption ==
  /\ Calls \in Seq(Seq(Ops))
  /\ MaxFrame \in Nat \ {0}
  /\ Refusable \subseteq Ops
  /\ AnyOrder \in BOOLEAN
  /\ \A b \in QueueBounds : b \in [QueueLimits -> Nat]

VARIABLES
  store, disk,   \* ClientStore, and what storage holds
  meta,          \* the two clocks as they are stored
  life,          \* of the page: off, run, or closing
  state,         \* SyncClientState
  hlc, since,    \* the op creator's clock, serverHlc
  stamp,         \* the HLC of each op
  inflight,      \* inFlightOps: no, new, or older than its time to live
  push,          \* the push that runs, and whether another is asked for
  timer,         \* reconnectTimer is set
  awaiting,      \* who awaits hello_ack: nobody, the app, or the reconnect
  called,        \* calls made
  old,           \* ops more than a minute old
  conn, outq,    \* the socket, and frames waiting for it to open
  c2s, s2c,      \* frames on the socket
  late,          \* ops of lost sockets that the server still reads
  session,       \* of the socket, at the server: new, authed or gone
  reserved, applied, srow, sclock,   \* the server's state
  arrived,       \* history: the ops that first reached the server, by frame
  answered,      \* history: ops acked or rejected
  reverted,      \* history: ops rejected, and taken back
  trimmed,       \* history: ops that left the queue by age, not by revert
  durable,       \* history: ops that were stored
  waiting,       \* history: ops that no push since has been asked to send
  spoilt,        \* history: a storage write failed
  left           \* what remains of each bound, and those a mishap has drawn on

device == <<store, disk, meta, life, state, hlc, since, stamp, inflight, push,
            timer, awaiting, called, old>>
wires  == <<conn, outq, c2s, s2c, late, session>>
server == <<reserved, applied, srow, sclock, arrived>>
past   == <<answered, reverted, trimmed, durable, waiting, spoilt>>
queueVars   == <<device, wires, server, past, left>>

Frames  == [t : {"hello", "bootstrap", "auth", "ephemeral"}]
             \cup [t : {"resume"}, since : Nat] \cup [t : {"ops"}, ids : Seq(Ops)]
Replies == [t : {"hello_ack", "disconnect", "reauth", "resume_rejected"}]
             \cup [t : {"snapshot"}, rows : [Rows -> LocalRow]]
             \cup [t : {"complete"}, hlc : Nat]
             \cup [t : {"ack"}, ids : Seq(Ops)]
             \cup [t : {"reject"}, id : Ops, row : LocalRow]
Frame(t) == [t |-> t]

NoPush == [run |-> "idle", again |-> FALSE, wait |-> 0]
Push   == [run : {"idle", "flush"}, again : BOOLEAN, wait : Nat]

QueueTypeOK ==
  /\ store \in Store /\ disk \in Disk
  /\ meta \in [hlc : Nat, since : Nat]
  /\ life \in {"off", "run", "closing"}
  /\ state \in {"disconnected", "connecting", "connected", "bootstrapping", "synced"}
  /\ {hlc, since, called, sclock} \subseteq Nat
  /\ stamp \in [Ops -> Nat]
  /\ inflight \in [Ops -> {"no", "new", "old"}]
  /\ push \in Push
  /\ {timer, spoilt} \subseteq BOOLEAN
  /\ awaiting \in {"nobody", "app", "timer"}
  /\ conn \in {"down", "opening", "open"}
  /\ {outq, c2s} \subseteq Seq(Frames) /\ s2c \in Seq(Replies)
  /\ late \in Seq(Seq(Ops)) /\ arrived \in Seq(Seq(Ops))
  /\ session \in {"new", "authed", "gone"}
  /\ srow \in [Rows -> LocalRow]
  /\ {reserved, applied, answered, reverted, trimmed, durable, waiting, old} \subseteq SUBSET Ops
  /\ left \in [rest : [QueueLimits -> Nat], used : SUBSET QueueLimits]

Larger(m, n) == IF m > n THEN m ELSE n
Largest(S) == CHOOSE n \in S \cup {0} : \A m \in S : m <= n
Remains(b) == left.rest[b] > 0 /\ left.rest["any"] > 0
Spend(b) ==
  /\ Remains(b)
  /\ left' = [left EXCEPT !.rest[b] = @ - 1, !.rest["any"] = @ - 1, !.used = @ \cup {b}]

-----------------------------------------------------------------------------
(* The socket of the client.                                               *)

\* send: on an open socket the frame goes out, else it waits for one, which is
\* opened if there is none.
Send(fs) ==
  IF conn = "open" THEN c2s' = c2s \o fs /\ UNCHANGED <<conn, outq>>
  ELSE /\ conn' = IF fs = <<>> THEN conn ELSE "opening"
       /\ outq' = outq \o fs
       /\ UNCHANGED c2s

SocketOpens ==
  /\ conn = "opening"
  /\ conn' = "open" /\ session' = "new"
  /\ c2s' = outq /\ outq' = <<>> /\ s2c' = <<>>
  /\ UNCHANGED <<device, late, server, past, left>>

\* What the server may still read of a socket that is gone.
StillRead ==
  LET ops == SelectSeq(c2s, LAMBDA f : f.t = "ops")
      all == IF session = "authed" THEN [i \in DOMAIN ops |-> ops[i].ids] ELSE <<>>
  IN  {late \o SubSeq(all, 1, n) : n \in 0..Len(all)}

\* The disconnect message: what was on the wire is forgotten, connect() fails,
\* and a reconnect is scheduled.  Frames that wait for a socket go on waiting.
Disconnected ==
  /\ conn' = "down" /\ c2s' = <<>> /\ s2c' = <<>>
  /\ late' \in StillRead /\ session' = "gone"
  /\ state' = "disconnected"
  /\ inflight' = [o \in Ops |-> "no"]
  /\ awaiting' = "nobody"
  /\ timer' = (life = "run")
  /\ UNCHANGED <<store, disk, meta, life, hlc, since, stamp, push, called, old, outq,
                 server, past>>

SocketLost ==
  /\ life # "off" /\ conn # "down"
  /\ Spend("losses")
  /\ Disconnected

ReceiveDisconnect ==
  /\ s2c # <<>> /\ Head(s2c).t = "disconnect"
  /\ Disconnected
  /\ UNCHANGED left

-----------------------------------------------------------------------------
(* A life of the page.                                                     *)

\* connect: hello is sent, and its sender waits for the answer.
Connecting(who) == state' = "connecting" /\ awaiting' = who

\* init: the op creator is moved past the pending ops.
RestoredClock == Largest({meta.hlc} \cup {stamp[o] : o \in Range(GetPendingOps(store'))})

\* The order in which storage gives the pending ops back.
Orders == IF AnyOrder THEN SetToSeqs(Range(disk.pend)) ELSE {disk.pend}

\* A binding's start, init then connect: rows, pending ops and clocks are read,
\* and hello waits for the socket.
Boot ==
  /\ life = "off" /\ life' = "run"
  /\ \E order \in Orders : store' = Hydrate(disk, order)
  /\ since' = meta.since
  /\ hlc' = RestoredClock
  /\ Connecting("app")
  /\ conn' = "opening" /\ outq' = <<Frame("hello")>>
  /\ waiting' = Range(GetPendingOps(store'))
  /\ UNCHANGED <<disk, meta, stamp, inflight, push, timer, called, old, c2s, s2c, late,
                 session, server, answered, reverted, trimmed, durable, spoilt, left>>

\* The page is gone, with its memory, its storage chain and its socket.  An op
\* whose answer was not stored yet is pending again, and a revert that was not
\* stored is undone.
Ended ==
  /\ life' = "off" /\ state' = "disconnected"
  /\ store' = Hydrate(disk, disk.pend)
  /\ hlc' = 0 /\ since' = 0
  /\ inflight' = [o \in Ops |-> "no"] /\ push' = NoPush
  /\ timer' = FALSE /\ awaiting' = "nobody"
  /\ conn' = "down" /\ outq' = <<>> /\ c2s' = <<>> /\ s2c' = <<>>
  /\ late' \in StillRead /\ session' = "gone"
  /\ answered' = answered \ Range(disk.pend)
  /\ reverted' = IF store.chain = <<>> /\ ~spoilt THEN reverted ELSE {}
  /\ waiting' = {}
  /\ UNCHANGED <<disk, meta, stamp, called, old, server, trimmed, durable, spoilt>>

Crash == life # "off" /\ Spend("crashes") /\ Ended

\* close: no more reconnects, and the storage chain is drained before the end.
Close ==
  /\ life = "run" /\ Spend("crashes")
  /\ life' = "closing" /\ state' = "disconnected" /\ timer' = FALSE
  /\ UNCHANGED <<store, disk, meta, hlc, since, stamp, inflight, push, awaiting, called,
                 old, wires, server, past>>

Exit == life = "closing" /\ store.chain = <<>> /\ Ended /\ UNCHANGED left

-----------------------------------------------------------------------------
(* Operations, and the push.                                               *)

IsOpen == state \in {"connected", "bootstrapping", "synced"}

\* insert, update, delete, batch: each op is stamped, queued and shown; a push
\* is asked for if the connection is open.
Call ==
  /\ life = "run" /\ called < left.rest["calls"]
  /\ LET ops == Calls[called + 1] IN
     /\ called' = called + 1
     /\ hlc' = hlc + Len(ops)
     /\ stamp' = [o \in Ops |-> IF o \in Range(ops)
                                THEN hlc + CHOOSE i \in DOMAIN ops : ops[i] = o ELSE stamp[o]]
     /\ store' = FoldLeft(LAMBDA s, o : ApplyOptimistic(AddPendingOp(s, o), o), store, ops)
     /\ waiting' = IF IsOpen THEN waiting ELSE waiting \cup Range(ops)
  /\ push' = [push EXCEPT !.again = @ \/ IsOpen]
  /\ UNCHANGED <<disk, meta, life, state, since, inflight, timer, awaiting, old, wires,
                 server, answered, reverted, trimmed, durable, spoilt, left>>

\* doPush begins, when the push before it is done: it waits for the writes that
\* are on the storage chain now.
PushStarts ==
  /\ life # "off" /\ push.again /\ push.run = "idle"
  /\ push' = [NoPush EXCEPT !.run = "flush", !.wait = Len(store.chain)]
  /\ UNCHANGED <<store, disk, meta, life, state, hlc, since, stamp, inflight, timer,
                 awaiting, called, old, wires, server, past, left>>

Unsent == SelectSeq(GetPendingOps(store), LAMBDA o : inflight[o] # "new")

\* Neighbours of one batch stay together.
Runs(ops) ==
  FoldLeft(LAMBDA runs, o :
             IF runs # <<>> /\ BatchOf[o] # 0 /\ BatchOf[Last(Last(runs))] = BatchOf[o]
             THEN Append(Front(runs), Append(Last(runs), o))
             ELSE Append(runs, <<o>>),
           <<>>, ops)

\* A run that does not fit into the current frame begins the next.
Chunks(ops) ==
  FoldLeft(LAMBDA chunks, run :
             IF chunks # <<>> /\ Len(Last(chunks)) + Len(run) <= MaxFrame
             THEN Append(Front(chunks), Last(chunks) \o run)
             ELSE Append(chunks, run),
           <<>>, Runs(ops))

\* The chain has caught up: all that is pending and not on the wire is marked and
\* sent, frame after frame (a socket's send does not wait).
PushReady ==
  /\ life # "off" /\ push.run = "flush" /\ push.wait = 0
  /\ push' = [push EXCEPT !.run = "idle"]
  /\ LET chunks == Chunks(Unsent) IN
     Send([i \in DOMAIN chunks |-> [t |-> "ops", ids |-> chunks[i]]])
  /\ inflight' = [o \in Ops |-> IF o \in Range(Unsent) THEN "new" ELSE inflight[o]]
  /\ waiting' = waiting \ Range(Unsent)
  /\ UNCHANGED <<store, disk, meta, life, state, hlc, since, stamp, timer, awaiting,
                 called, old, s2c, late, session, server, answered, reverted, trimmed, durable,
                 spoilt, left>>

\* The next write of the storage chain is made, or fails and is logged.
StoreWrite ==
  /\ life # "off" /\ store.chain # <<>>
  /\ LET w == Head(store.chain) IN
     \/ /\ disk' = Written(disk, store, w)
        /\ durable' = durable \cup (IF w.do = "append" THEN Range(w.ids) ELSE {})
        /\ UNCHANGED <<spoilt, left>>
     \/ /\ Spend("failures") /\ spoilt' = TRUE
        /\ UNCHANGED <<disk, durable>>
  /\ store' = [store EXCEPT !.chain = Tail(@)]
  /\ push' = [push EXCEPT !.wait = IF @ = 0 THEN 0 ELSE @ - 1]
  /\ UNCHANGED <<meta, life, state, hlc, since, stamp, inflight, timer, awaiting, called,
                 old, wires, server, answered, reverted, trimmed, waiting>>

MinutePasses ==
  /\ life = "run" /\ Spend("minutes")
  /\ old' = {o \in Ops : stamp[o] # 0}
  /\ inflight' = [o \in Ops |-> IF inflight[o] = "new" THEN "old" ELSE inflight[o]]
  /\ UNCHANGED <<store, disk, meta, life, state, hlc, since, stamp, push, timer, awaiting,
                 called, wires, server, past>>

\* sendEphemeral and loadMore do not ask whether the connection is open.
StrayFrame ==
  /\ life = "run" /\ Spend("strays")
  /\ Send(<<Frame("ephemeral")>>)
  /\ UNCHANGED <<device, s2c, late, session, server, past>>

-----------------------------------------------------------------------------
(* Connection and messages.                                                *)

\* The reconnect timer: connect() again.
TimerFires ==
  /\ life = "run" /\ timer
  /\ timer' = FALSE /\ Connecting("timer")
  /\ Send(<<Frame("hello")>>)
  /\ UNCHANGED <<store, disk, meta, life, hlc, since, stamp, inflight, push, called, old,
                 s2c, late, session, server, past, left>>

Receives(t) == life # "off" /\ s2c # <<>> /\ Head(s2c).t = t /\ s2c' = Tail(s2c)

Resume == IF since = 0 THEN Frame("bootstrap") ELSE [t |-> "resume", since |-> since]

\* hello_ack: whoever awaited it declares the table (a frame left out here),
\* which schedules a bootstrap, and resumes; the reconnect then forgets what was on the wire and pushes.
ReceiveHelloAck ==
  /\ Receives("hello_ack")
  /\ awaiting' = "nobody"
  /\ IF awaiting = "nobody" \/ life = "closing"
     THEN state' = "connected" /\ UNCHANGED <<conn, outq, c2s, inflight, push>>
     ELSE /\ state' = "bootstrapping"
          /\ Send(<<Frame("bootstrap"), Resume>>)
          /\ IF awaiting = "timer"
             THEN inflight' = [o \in Ops |-> "no"] /\ push' = [push EXCEPT !.again = TRUE]
             ELSE UNCHANGED <<inflight, push>>
  /\ UNCHANGED <<store, disk, meta, life, hlc, since, stamp, timer, called, old, late,
                 session, server, past, left>>

ReceiveSnapshot ==
  /\ Receives("snapshot")
  /\ store' = ApplySnapshot(store, Head(s2c).rows)
  /\ UNCHANGED <<disk, meta, life, state, hlc, since, stamp, inflight, push, timer,
                 awaiting, called, old, conn, outq, c2s, late, session, server, past, left>>

\* persistMeta does not wait, nor go through the chain: a crash may be sooner.
Persist(clocks) == meta' = clocks \/ (Remains("crashes") /\ meta' = meta)

\* bootstrap_complete, resume_complete: the clocks are merged, and written.
ReceiveComplete ==
  /\ Receives("complete")
  /\ since' = Head(s2c).hlc /\ state' = "synced"
  /\ hlc' = Larger(hlc, Head(s2c).hlc) + 1
  /\ Persist([hlc |-> hlc', since |-> since'])
  /\ UNCHANGED <<store, disk, life, stamp, inflight, push, timer, awaiting, called, old,
                 conn, outq, c2s, late, session, server, past, left>>

ReceiveResumeRejected ==
  /\ Receives("resume_rejected")
  /\ since' = 0 /\ state' = "bootstrapping"
  /\ Persist([meta EXCEPT !.since = 0])
  /\ Send(<<Frame("bootstrap")>>)
  /\ UNCHANGED <<store, disk, life, hlc, stamp, inflight, push, timer, awaiting, called,
                 old, late, session, server, past, left>>

\* The app's onReauth gives a token; nothing is pushed again.
ReceiveReauth ==
  /\ Receives("reauth")
  /\ Send(<<Frame("auth")>>)
  /\ UNCHANGED <<device, late, session, server, past, left>>

ReceiveAck ==
  /\ Receives("ack")
  /\ LET ids == Head(s2c).ids IN
     /\ inflight' = [o \in Ops |-> IF o \in Range(ids) THEN "no" ELSE inflight[o]]
     /\ store' = MarkSynced(store, ids)
     /\ answered' = answered \cup Range(ids)
  /\ UNCHANGED <<disk, meta, life, state, hlc, since, stamp, push, timer, awaiting, called,
                 old, conn, outq, c2s, late, session, server, reverted, trimmed, durable, waiting,
                 spoilt, left>>

\* reject: the op is marked and reverted, then what is still pending of its batch.
ReceiveReject ==
  /\ Receives("reject")
  /\ LET o     == Head(s2c).id
         own   == RevertOp(MarkRejected(store, o, old), o, Head(s2c).row)
         batch == SelectSeq(GetPendingOps(own), LAMBDA p : BatchOf[p] = BatchOf[o])
         ended == IF BatchOf[o] = 0 THEN own
                  ELSE FoldLeft(LAMBDA s, p : RevertOp(s, p, NoRow),
                                RejectBatch(own, BatchOf[o], old), batch)
         gone  == {o} \cup (IF BatchOf[o] = 0 THEN {} ELSE Range(batch))
         aged  == {p \in Range(store.pend) : p \in old /\ (p \in gone \/ store.obj[p].rejected)}
     IN /\ store' = ended
        /\ inflight' = [p \in Ops |-> IF p \in gone THEN "no" ELSE inflight[p]]
        /\ answered' = answered \cup gone
        /\ trimmed' = trimmed \cup aged
        /\ reverted' = reverted \cup ((gone \cap Range(store.pend)) \ aged)
  /\ UNCHANGED <<disk, meta, life, state, hlc, since, stamp, push, timer, awaiting, called,
                 old, conn, outq, c2s, late, session, server, durable, waiting, spoilt, left>>

-----------------------------------------------------------------------------
(* The server: sessions, and the decision of ops (OpProcessor).            *)

\* The ops of a frame that are rejected when `refused' are: the others of a
\* batch follow the first of them, even those that were decided before.
Rejected(ids, refused) ==
  {ids[j] : j \in {k \in DOMAIN ids :
     \/ ids[k] \in refused
     \/ \E i \in 1..(k - 1) : ids[i] \in refused /\ BatchOf[ids[i]] = BatchOf[ids[k]]
                                                 /\ BatchOf[ids[k]] # 0}}

Applied(rows, o) ==
  LET with == [at |-> "row", has |-> rows[RowOf[o]].has \cup {o}] IN
  CASE KindOf[o] = "delete" -> [rows EXCEPT ![RowOf[o]] = NoRow]
    [] KindOf[o] = "update" /\ rows[RowOf[o]] = NoRow -> rows
    [] OTHER -> [rows EXCEPT ![RowOf[o]] = with]

\* A reject may carry the row as the server has it.
Answers(ids, rejected, rows, told) ==
  LET accepted == Without(ids, rejected)
      refused  == SelectSeq(ids, LAMBDA o : o \in rejected)
  IN  (IF accepted = <<>> THEN <<>> ELSE <<[t |-> "ack", ids |-> accepted]>>)
        \o [i \in DOMAIN refused |->
             [t |-> "reject", id |-> refused[i],
              row |-> IF told THEN rows[RowOf[refused[i]]] ELSE NoRow]]

\* handleOps: ops not seen before are reserved and decided, the rest accepted.
Decide(ids, refused) ==
  LET fresh == Without(ids, reserved)
      done  == Without(fresh, Rejected(ids, refused)) IN
  /\ refused \subseteq Range(fresh) \cap Refusable
  /\ reserved' = reserved \cup Range(ids)
  /\ applied' = applied \cup Range(done)
  /\ srow' = FoldLeft(Applied, srow, done)
  /\ sclock' = Largest({sclock} \cup {stamp[o] : o \in Range(ids)}) + 1
  /\ arrived' = IF fresh = <<>> THEN arrived ELSE Append(arrived, fresh)

Reply(ms) == s2c' = s2c \o ms

\* handleMessage takes the next frame of the connection.
Handles(t) ==
  /\ conn = "open" /\ session # "gone" /\ c2s # <<>> /\ Head(c2s).t \in t
  /\ UNCHANGED <<device, conn, outq, late, answered, reverted, trimmed, durable, spoilt>>

HandleHello ==
  /\ Handles({"hello"})
  /\ session' = "authed" /\ Reply(<<Frame("hello_ack")>>)
  /\ c2s' = Tail(c2s) /\ UNCHANGED <<server, waiting, left>>

\* Anything before hello but an auth ends the session.
HandleUnauthenticated ==
  /\ Handles({"bootstrap", "resume", "ops", "ephemeral"}) /\ session = "new"
  /\ session' = "gone" /\ Reply(<<Frame("disconnect")>>)
  /\ c2s' = <<>> /\ UNCHANGED <<server, waiting, left>>

\* auth and ephemeral frames have no answer.
HandleQuietly ==
  /\ Handles({"auth", "ephemeral"}) /\ (session = "authed" \/ Head(c2s).t = "auth")
  /\ c2s' = Tail(c2s) /\ UNCHANGED <<session, s2c, server, waiting, left>>

\* The rows as they are, and the clock that was advanced for them.
HandleBootstrap ==
  /\ Handles({"bootstrap", "resume"}) /\ session = "authed"
  /\ sclock' = sclock + 1
  /\ Reply(<<[t |-> "snapshot", rows |-> srow], [t |-> "complete", hlc |-> sclock']>>)
  /\ c2s' = Tail(c2s) /\ UNCHANGED <<session, reserved, applied, srow, arrived, waiting, left>>

\* The log was compacted past what the client resumes from.
HandleResumeRejected ==
  /\ Handles({"resume"}) /\ session = "authed"
  /\ left.rest["cutoffs"] > 0 /\ left' = [left EXCEPT !.rest["cutoffs"] = @ - 1]
  /\ Reply(<<Frame("resume_rejected")>>)
  /\ c2s' = Tail(c2s) /\ UNCHANGED <<session, server, waiting>>

HandleOps ==
  /\ Handles({"ops"}) /\ session = "authed"
  /\ LET ids == Head(c2s).ids IN
     \E refused \in SUBSET Range(ids), told \in BOOLEAN :
       /\ Decide(ids, refused)
       /\ told => refused # {}
       /\ Reply(Answers(ids, Rejected(ids, refused), srow', told))
  /\ c2s' = Tail(c2s) /\ UNCHANGED <<session, waiting, left>>

\* The token is not good any more: the ops are dropped.
HandleOpsReauth ==
  /\ Handles({"ops"}) /\ session = "authed" /\ Spend("bounces")
  /\ Reply(<<Frame("reauth")>>)
  /\ waiting' = waiting \cup (Range(Head(c2s).ids) \ answered)
  /\ c2s' = Tail(c2s) /\ UNCHANGED <<session, server>>

\* A frame of a lost socket is handled after all; its answers reach nobody.
HandleLate ==
  /\ late # <<>> /\ late' = Tail(late)
  /\ \E refused \in SUBSET Range(Head(late)) : Decide(Head(late), refused)
  /\ UNCHANGED <<device, conn, outq, c2s, s2c, session, past, left>>

-----------------------------------------------------------------------------
QueueInit ==
  /\ disk = EmptyDisk /\ store = Hydrate(EmptyDisk, <<>>)
  /\ meta = [hlc |-> 0, since |-> 0]
  /\ life = "off" /\ state = "disconnected"
  /\ hlc = 0 /\ since = 0 /\ called = 0 /\ sclock = 0
  /\ stamp = [o \in Ops |-> 0] /\ inflight = [o \in Ops |-> "no"]
  /\ push = NoPush /\ timer = FALSE /\ awaiting = "nobody"
  /\ conn = "down" /\ outq = <<>> /\ c2s = <<>> /\ s2c = <<>> /\ late = <<>> /\ session = "gone"
  /\ srow = [r \in Rows |-> NoRow] /\ arrived = <<>>
  /\ reserved = {} /\ applied = {} /\ answered = {} /\ reverted = {} /\ trimmed = {}
  /\ durable = {} /\ waiting = {} /\ old = {} /\ spoilt = FALSE
  /\ \E b \in QueueBounds : left = [rest |-> b, used |-> {}]

Ends == Crash \/ Close \/ Exit
Pushes == PushStarts \/ PushReady
Receive == \/ ReceiveHelloAck \/ ReceiveSnapshot \/ ReceiveComplete \/ ReceiveResumeRejected
           \/ ReceiveReauth \/ ReceiveAck \/ ReceiveReject \/ ReceiveDisconnect

Handle == \/ HandleHello \/ HandleUnauthenticated \/ HandleQuietly \/ HandleBootstrap
          \/ HandleResumeRejected \/ HandleOps \/ HandleOpsReauth

QueueNext == \/ Boot \/ Ends \/ Call \/ Pushes \/ StoreWrite \/ MinutePasses
        \/ StrayFrame \/ SocketOpens \/ SocketLost \/ TimerFires \/ Receive
        \/ Handle \/ HandleLate

QueueSpec == QueueInit /\ [][QueueNext]_queueVars

-----------------------------------------------------------------------------
\* Ops of one row first reach the server in the order the device made them,
\* whatever is resent, restored or rejected (doPush walks the queue in order),
\* unless a frame was turned down with reauth and a later one was not.  Ops that
\* a crash took from the device before they were stored do not count.
RowOrder ==
  "bounces" \notin left.used =>
  LET seen == SelectSeq(FlattenSeq(arrived), LAMBDA o : o \in durable) IN
  \A i, j \in DOMAIN seen : i < j /\ RowOf[seen[i]] = RowOf[seen[j]] => seen[i] < seen[j]

\* The ops of a batch first reach the server in one frame, those apart that a
\* crash took from the device: the server rejects the rest of a batch only
\* within a message (failedBatchIds).
BatchTogether ==
  \A f \in DOMAIN arrived, g \in DOMAIN arrived : f # g =>
    \A o \in Range(arrived[f]) \cap durable, p \in Range(arrived[g]) \cap durable :
      BatchOf[o] # BatchOf[p] \/ BatchOf[o] = 0

\* An op that was stored stays stored until it is answered, or was dropped for
\* its age when it had been rejected.
StoredUntilAnswered == durable \ (answered \cup trimmed) \subseteq Range(disk.pend)

\* When the chain is drained and no write failed, storage holds what memory
\* holds: queue, snapshots and rows (every change of the store is enqueued).
StorageIsMemory == life # "off" /\ store.chain = <<>> /\ ~spoilt => Agrees(disk, store)

\* Among the ops that are pending, a later one has the later stamp, across
\* restarts (init moves the clock past them).
PendingOrdered ==
  \A o, p \in Range(GetPendingOps(store)) : o < p => stamp[o] < stamp[p]

\* A rejected op that was taken back is not shown again, whatever was pending
\* on its row, snapshots and later rejections included (revertOp).
RejectedIsGone == \A o \in reverted : o \notin store.rows[RowOf[o]].has

\* At rest the device shows what the server has: what it shows of its own ops is
\* made of acks, rejects and snapshots of several sockets.  Not so when an op was
\* refused and the device told otherwise, was dropped for its age, was overtaken
\* when its frame was turned down, or was restored over a row that storage did
\* not have yet.
Settled ==
  (/\ left.used \cap {"crashes", "bounces"} = {}
   /\ state = "synced" /\ store.pend = <<>> /\ c2s = <<>> /\ s2c = <<>> /\ late = <<>>
   /\ conn = "open" /\ trimmed = {} /\ reserved \subseteq applied \cup reverted)
  => \A r \in Rows : GetRow(store, r) = srow[r]

\* Nothing is left to do: no socket to open or timer to fire, no write, push,
\* frame or answer under way.
Quiet ==
  /\ life = "run" /\ conn # "opening" /\ ~timer
  /\ store.chain = <<>> /\ push = NoPush
  /\ c2s = <<>> /\ s2c = <<>> /\ late = <<>>

\* When all that is under way has ended, every op that a push was asked to send
\* is answered: after a lost socket the reconnect pushes what is pending.
NoneStranded == Quiet => Range(GetPendingOps(store)) \subseteq waiting

\* The queue of the client and the rows it shows over it: ops of a row and of a
\* batch travel in order, the storage holds what is not answered, a refused op
\* leaves nothing behind, and when all is quiet the client shows what the
\* server has and waits for nothing.
\* Each as stated above.
QueueInv ==
  /\ QueueTypeOK /\ RowOrder /\ BatchTogether /\ PendingOrdered
  /\ StoredUntilAnswered /\ StorageIsMemory /\ RejectedIsGone /\ Settled /\ NoneStranded
=============================================================================
