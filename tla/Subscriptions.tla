---------------------------- MODULE Subscriptions ---------------------------
(***************************************************************************)
(* Who is subscribed to what: the bindings of a user interface (the hooks  *)
(* of react/hooks.ts, the stores of svelte/stores.ts and the bindings of   *)
(* vanilla/sync.ts count the users of a table in the same way), the        *)
(* client's sync, unsync and bootstrap calls (sync-client.ts), the browser *)
(* socket with its queue of frames sent before it opened, and the server's *)
(* handlers of sync_declare, unsync, bootstrap and resume.                 *)
(*                                                                         *)
(* One table is subscribed with parameters out of Params; the rows of a    *)
(* subscription are named by its parameters.  The socket breaks, fails to  *)
(* open, and is opened again by the reconnect timer.                       *)
(***************************************************************************)
EXTENDS Naturals, FiniteSets, Sequences

CONSTANTS
  Uses,        \* the places of the user interface that use the table
  Params,      \* the parameters they ask for
  Bindings,    \* "provider" mounts after the first bootstrap, "stored" before it
               \* with a client that has a store, "direct" whenever the app likes
  UseBounds    \* a behaviour's bounds, [mounts, breaks, deltas |-> ...], and the
               \* parameters the server's authorize refuses in it, [refuses |-> ...]

None == "none"

ASSUME UseAssumption ==
  /\ IsFiniteSet(Uses) /\ None \notin Params
  /\ UseBounds \subseteq [mounts : Nat, breaks : Nat, deltas : Nat, refuses : SUBSET Params]

VARIABLES
  binding,  \* how this behaviour's user interface is bound
  mounted,  \* the parameters each mounted use asked for
  refs,     \* acquireSync: how many uses there are, and the parameters in force
  sc,       \* the client: state, synced, queued, scheduled, watermark, timer ...
  socket,   \* "none", "opening" or "open"
  unsentFrames,  \* frames sent before the socket opened
  up, down, \* frames on the wire
  sv,       \* the server: does the session exist, and its subscription
  useLeft      \* what is left of the behaviour's bounds

useVars == <<binding, mounted, refs, sc, socket, unsentFrames, up, down, sv, useLeft>>

UseFrame(t, p) == [t |-> t, p |-> p]
Once(k) == useLeft[k] > 0 /\ useLeft' = [useLeft EXCEPT ![k] = @ - 1]

UseInit ==
  /\ binding \in Bindings
  /\ mounted = [u \in Uses |-> None]
  /\ refs = [count |-> 0, key |-> None]
  /\ sc = [state |-> "disconnected", synced |-> FALSE, params |-> None, queued |-> FALSE,
           booting |-> FALSE, mark |-> binding = "stored", timer |-> FALSE,
           first |-> TRUE, app |-> FALSE, ready |-> FALSE, whole |-> None, rows |-> {}]
  /\ socket = "none" /\ unsentFrames = <<>> /\ up = <<>> /\ down = <<>>
  /\ sv = [session |-> FALSE, sub |-> None]
  /\ useLeft \in UseBounds

-----------------------------------------------------------------------------
(* The client.                                                              *)

\* createBrowserWsTransport.send: on an open socket at once, else queued, and a
\* socket is made when there is none.
UseSend(fs) ==
  IF socket = "open" THEN up' = up \o fs /\ UNCHANGED <<socket, unsentFrames>>
  ELSE unsentFrames' = unsentFrames \o fs /\ socket' = "opening" /\ UNCHANGED up

UseIsOpen(c) == c.state \in {"connected", "bootstrapping", "synced"}

\* sync(): the declare of an open client goes out, that of any other waits for
\* hello_ack; parameters that are not given do not replace those there were.
Synced(c, p) ==
  LET d == [c EXCEPT !.synced = TRUE, !.params = p]
  IN IF UseIsOpen(c) THEN [d EXCEPT !.booting = TRUE] ELSE [d EXCEPT !.queued = TRUE]
Declares(c, p) == IF UseIsOpen(c) THEN <<UseFrame("declare", p)>> ELSE <<>>

\* unsync(): forgets the table and clears its rows.
Unsynced(c) == [c EXCEPT !.synced = FALSE, !.params = None, !.whole = None, !.rows = {}]
UnsyncFrame == UseFrame("unsync", None)

\* scheduleBootstrap()'s microtask.  The app called connect() in the turn that
\* first used the table, or before.
Bootstrap ==
  /\ sc.booting /\ ~sc.first
  /\ sc' = [sc EXCEPT !.booting = FALSE, !.state = "bootstrapping"]
  /\ UseSend(<<UseFrame("bootstrap", None)>>)
  /\ UNCHANGED <<binding, mounted, refs, down, sv, useLeft>>

\* connect(), called by the app once: the first frame is hello.
Hello == UseFrame("hello", None)
UseConnect ==
  /\ sc.first /\ sc.state # "connecting"
  /\ sc' = [sc EXCEPT !.first = FALSE, !.app = TRUE, !.state = "connecting"]
  /\ UseSend(<<Hello>>)
  /\ UNCHANGED <<binding, mounted, refs, down, sv, useLeft>>

Reconnect ==
  /\ sc.timer /\ ~sc.booting
  /\ sc' = [sc EXCEPT !.timer = FALSE, !.app = FALSE, !.state = "connecting"]
  /\ UseSend(<<Hello>>)
  /\ UNCHANGED <<binding, mounted, refs, down, sv, useLeft>>

\* The "disconnect" of the server or of the transport.
UseDisconnected(c) == [c EXCEPT !.state = "disconnected", !.timer = TRUE]

\* hello_ack: the queued declares go out and, where nothing was bootstrapped yet,
\* a bootstrap is scheduled; then whoever awaited connect() goes on: the provider
\* resumes, the reconnect timer declares its tables again first.  resume()
\* without a watermark is a bootstrap.
DeclareFrames == <<UseFrame("declare", sc.params)>>
Acked ==
  LET flushed == sc.queued /\ sc.synced
      again   == ~sc.app /\ sc.synced
      c == [sc EXCEPT !.queued = FALSE, !.ready = @ \/ sc.app, !.state = "connected",
                      !.booting = @ \/ (sc.queued /\ ~sc.mark) \/ again]
  IN /\ sc' = IF sc.mark THEN c ELSE [c EXCEPT !.state = "bootstrapping"]
     /\ up' = up \o (IF flushed THEN DeclareFrames ELSE <<>>) \o (IF again THEN DeclareFrames ELSE <<>>)
                 \o <<UseFrame(IF sc.mark THEN "resume" ELSE "bootstrap", None)>>

Loaded(c, p) == [c EXCEPT !.whole = p, !.rows = {p}]

\* A snapshot replaces the table's rows; a delta adds to them.  Neither asks
\* whether the table is still synced.
Take(f) ==
  \/ f.t = "hello_ack" /\ Acked
  \/ f.t = "snapshot" /\ sc' = Loaded(sc, f.p) /\ UNCHANGED up
  \/ f.t = "delta" /\ sc' = [sc EXCEPT !.rows = @ \cup {f.p}] /\ UNCHANGED up
  \/ f.t = "complete" /\ sc' = [sc EXCEPT !.state = "synced", !.mark = TRUE] /\ UNCHANGED up

UseReceive ==
  /\ down # <<>> /\ ~sc.booting
  /\ down' = Tail(down)
  /\ IF Head(down).t = "disconnect"
     THEN sc' = UseDisconnected(sc) /\ socket' = "none" /\ up' = <<>>
     ELSE Take(Head(down)) /\ UNCHANGED socket
  /\ UNCHANGED <<binding, mounted, refs, unsentFrames, sv, useLeft>>

-----------------------------------------------------------------------------
(* The socket.                                                              *)

UseSocketOpens ==
  /\ socket = "opening" /\ ~sc.booting
  /\ socket' = "open" /\ up' = unsentFrames /\ unsentFrames' = <<>>
  /\ UNCHANGED <<binding, mounted, refs, sc, down, sv, useLeft>>

\* onclose of a socket that never opened keeps the queue; that of an open one
\* loses what is on the wire, and the server ends the session.
FailsToOpen ==
  /\ socket = "opening" /\ ~sc.booting /\ Once("breaks")
  /\ socket' = "none" /\ sc' = UseDisconnected(sc)
  /\ UNCHANGED <<binding, mounted, refs, unsentFrames, up, down, sv>>
Breaks ==
  /\ socket = "open" /\ ~sc.booting /\ Once("breaks")
  /\ socket' = "none" /\ up' = <<>> /\ down' = <<>>
  /\ sc' = UseDisconnected(sc)
  /\ sv' = [session |-> FALSE, sub |-> None]
  /\ UNCHANGED <<binding, mounted, refs, unsentFrames>>

-----------------------------------------------------------------------------
(* The server.                                                              *)

\* handleMessage takes the frames of a connection one after another.  A first
\* frame that is not hello costs the connection.
RowFrames == IF sv.sub = None THEN <<>> ELSE <<UseFrame("snapshot", sv.sub)>>
Complete == UseFrame("complete", None)
UseHandle(f) ==
  \/ /\ f.t = "hello" /\ sv' = [session |-> TRUE, sub |-> IF sv.session THEN sv.sub ELSE None]
     /\ down' = Append(down, UseFrame("hello_ack", None))
  \/ /\ f.t # "hello" /\ ~sv.session /\ UNCHANGED sv
     /\ down' = Append(down, UseFrame("disconnect", None))
  \/ /\ f.t = "declare" /\ sv.session /\ UNCHANGED down
     /\ sv' = IF f.p \in useLeft.refuses THEN sv ELSE [sv EXCEPT !.sub = f.p]
  \/ f.t = "unsync" /\ sv.session /\ sv' = [sv EXCEPT !.sub = None] /\ UNCHANGED down
  \/ f.t = "bootstrap" /\ sv.session /\ down' = down \o Append(RowFrames, Complete) /\ UNCHANGED sv
  \/ f.t = "resume" /\ sv.session /\ down' = Append(down, Complete) /\ UNCHANGED sv

ServerHandles ==
  /\ socket = "open" /\ up # <<>> /\ ~sc.booting
  /\ ~\E i \in 1 .. Len(down) : down[i].t = "disconnect"
  /\ up' = Tail(up)
  /\ UseHandle(Head(up))
  /\ UNCHANGED <<binding, mounted, refs, sc, socket, unsentFrames, useLeft>>

\* A write is broadcast to the subscriber.
Broadcast ==
  /\ sv.session /\ sv.sub # None /\ ~sc.booting /\ socket = "open" /\ Once("deltas")
  /\ down' = Append(down, UseFrame("delta", sv.sub))
  /\ UNCHANGED <<binding, mounted, refs, sc, socket, unsentFrames, up, sv>>

-----------------------------------------------------------------------------
(* The user interface.                                                      *)

MayMount == (binding = "provider" => sc.ready) /\ (binding = "stored" => ~sc.first)
ParamsChanged(p) == refs.key # None /\ refs.key # p

\* mutant: the subscription that is replaced is not given up
ReplacedFirst(p) == <<>>
GivenUp(p) == IF ParamsChanged(p) THEN <<UnsyncFrame>> ELSE <<>>

\* acquireSync: the first use declares; one with other parameters unsyncs first
\* and takes the subscription over; one with the same only counts.
Mount(u, p) ==
  /\ mounted[u] = None /\ MayMount /\ Once("mounts")
  /\ mounted' = [mounted EXCEPT ![u] = p]
  /\ refs' = [count |-> refs.count + 1, key |-> p]
  /\ IF refs.count = 0 \/ ParamsChanged(p)
     THEN LET c == IF ParamsChanged(p) THEN Unsynced(sc) ELSE sc
          IN /\ sc' = [Synced(c, p) EXCEPT !.booting = TRUE]
             /\ LET fs == GivenUp(p) \o Declares(c, p)
                IN IF fs = <<>> THEN UNCHANGED <<socket, unsentFrames, up>> ELSE UseSend(fs)
     ELSE sc' = [sc EXCEPT !.booting = TRUE] /\ UNCHANGED <<socket, unsentFrames, up>>
  /\ UNCHANGED <<binding, down, sv>>

Fewer == [refs EXCEPT !.count = @ - 1]

\* releaseSync: the last use unsyncs.
Unmount(u) ==
  /\ mounted[u] # None
  /\ mounted' = [mounted EXCEPT ![u] = None]
  /\ IF refs.count = 1
     THEN refs' = [count |-> 0, key |-> None] /\ sc' = Unsynced(sc) /\ UseSend(<<UnsyncFrame>>)
     ELSE refs' = Fewer /\ UNCHANGED <<sc, socket, unsentFrames, up>>
  /\ UNCHANGED <<binding, down, sv, useLeft>>

UseNext ==
  \/ Bootstrap \/ UseConnect \/ Reconnect \/ UseReceive
  \/ UseSocketOpens \/ FailsToOpen \/ Breaks \/ ServerHandles \/ Broadcast
  \/ \E u \in Uses : Unmount(u) \/ \E p \in Params : Mount(u, p)

UseSpec == UseInit /\ [][UseNext]_useVars

-----------------------------------------------------------------------------
UseQuiet == /\ up = <<>> /\ down = <<>> /\ unsentFrames = <<>> /\ socket = "open"
         /\ ~sc.booting /\ ~sc.timer /\ sc.state = "synced"

UseTypeOK ==
  /\ binding \in Bindings /\ mounted \in [Uses -> Params \cup {None}]
  /\ refs.count \in 0 .. Cardinality(Uses) /\ refs.key \in Params \cup {None}
  /\ refs.count = Cardinality({u \in Uses : mounted[u] # None})
  /\ sc.state \in {"disconnected", "connecting", "connected", "bootstrapping", "synced"}
  /\ sc.rows \subseteq Params /\ sc.whole \in Params \cup {None}
  /\ socket \in {"none", "opening", "open"}
  /\ sv.session \in BOOLEAN /\ sv.sub \in Params \cup {None}

\* hooks.ts acquireSync, releaseSync: once nothing is on its way, the server's
\* subscription is that of the user interface: the parameters the last use that
\* changed them asked for, none where the server refuses them, and none when
\* nothing uses the table, through any mounting, unmounting and reconnecting.
SubscriptionFollowsUse ==
  UseQuiet => sv.sub = IF refs.count = 0 \/ refs.key \in useLeft.refuses THEN None ELSE refs.key

\* hooks.ts "Bootstrap to fetch initial data for this subscription": once nothing
\* is on its way, what is mounted shows the whole of its rows and no others.
UsesHaveRows ==
  UseQuiet /\ refs.count > 0 /\ refs.key \notin useLeft.refuses =>
    sc.whole = refs.key /\ sc.rows = {refs.key}

\* A subscription lives as long as something on the page uses it, with the
\* parameters last asked for, and what uses it gets its rows.
\* Each as stated above.
UseInv == UseTypeOK /\ SubscriptionFollowsUse /\ UsesHaveRows
=============================================================================
