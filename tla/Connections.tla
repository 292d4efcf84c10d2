---------------------------- MODULE Connections ----------------------------
(*************************************************************************)
(* Connections, sessions and the queue of frames each client has on the  *)
(* server: the server side of src/transport/{ws,bun-ws,sse,polling}.ts,  *)
(* src/server/session.ts, and of src/server/handler.ts the wiring of the *)
(* transport, the handshake and the cap on a user's connections.         *)
(*                                                                       *)
(* A device opens one connection after another.  Over web sockets each   *)
(* has a client id of its own; over server-sent events and polling the   *)
(* device keeps its id.  A connection is numbered, so that the end of an *)
(* old one, which the server may hear of late, can be told from the new  *)
(* one.                                                                  *)
(*************************************************************************)
EXTENDS Integers, Sequences, FiniteSets, TLC

CONSTANTS Devices,      \* clients
          Accounts,     \* users
          Tokens,       \* per device: the users its tokens name
          Wires,        \* kinds of transport to consider
          Cap,          \* maxConnectionsPerUser
          MaxDepth,     \* MAX_QUEUE_DEPTH
          ConnBound     \* bounds, per wire: [opens, frames, breaks, reaps, refusals]

ASSUME ConnAssumption ==
  /\ Wires \subseteq {"ws", "sse", "polling"}
  /\ Tokens \in [Devices -> SUBSET Accounts]
  /\ "none" \notin Accounts   \* the user of a session that has not authenticated
  /\ Cap \in Nat \ {0} /\ MaxDepth \in Nat \ {0}
  /\ \A w \in Wires : ConnBound[w] \in [{"opens", "frames", "breaks", "reaps", "refusals"} -> Nat]

VARIABLES
  wire,
  streamOf,      \* per device: the number of the connection it holds, 0 for none
  opened,      \* per device: connections opened so far
  acked,       \* devices that have hello_ack on the connection they hold
  greeted,     \* devices that have said hello on it
  mail,        \* per device: frames on their way to it
  registered,  \* the transport's map: id to the connection it writes to
  announcedIds,   \* sse: ids the handler has been told of
  endings,     \* ends of connections the server is yet to hear of
  session,     \* SessionManager.sessions
  births,      \* connectedAt of the last session
  bucket,      \* userSessions
  chains,      \* <<id, n>>: the nth queue of frames of an id
  current,     \* messageQueues: the number of an id's queue, 0 for none
  depth,       \* messageQueueDepths
  drains,      \* overflows waiting for what was queued before them
  overtaken,   \* history: ids given a session while an earlier queue was busy
  connLeft

connDeviceVars == <<streamOf, opened, acked, greeted>>
wireSideVars == <<mail, registered, announcedIds>>
sessVars   == <<session, births, bucket>>
queueVars  == <<chains, current, depth, drains>>
connVars   == <<wire, connDeviceVars, wireSideVars, endings, sessVars, queueVars, overtaken, connLeft>>

MaxOpens == 1 + (LET w == wire IN ConnBound[w].opens)
Ids      == Devices \X (0..MaxOpens)

\* The id a device's nth connection goes by.
IdOf(d, n) == IF wire = "ws" THEN <<d, n>> ELSE <<d, 0>>

Idle == [pc |-> "idle"]

ConnInit ==
  /\ wire \in Wires
  /\ streamOf = [d \in Devices |-> 0] /\ opened = [d \in Devices |-> 0]
  /\ acked = {} /\ greeted = {}
  /\ mail = [d \in Devices |-> <<>>]
  /\ registered = <<>> /\ announcedIds = {} /\ endings = {}
  /\ session = <<>> /\ births = 0
  /\ bucket = [u \in Accounts |-> {}]
  /\ chains = <<>>
  /\ current = [id \in Ids |-> 0] /\ depth = [id \in Ids |-> 0]
  /\ drains = {}
  /\ overtaken = {}
  /\ connLeft = ConnBound[wire]

Use(k) == connLeft[k] > 0 /\ connLeft' = [connLeft EXCEPT ![k] = @ - 1]

With(f, k, v)  == [x \in DOMAIN f \cup {k} |-> IF x = k THEN v ELSE f[x]]
Without(f, k)  == [x \in DOMAIN f \ {k} |-> f[x]]

---------------------------------------------------------------------------
\* SessionManager.

Busy(id) == \E key \in DOMAIN chains :
              key[1] = id /\ (chains[key].task # Idle \/ chains[key].todo # <<>>)

\* connect: a new session under the id, whatever the indexes hold of an old one.
Connected(id) ==
  /\ session' = With(session, id, [user |-> "none", born |-> births + 1, spared |-> FALSE])
  /\ births' = births + 1
  /\ overtaken' = IF Busy(id) THEN overtaken \cup {id} ELSE overtaken

\* disconnect: the session and its place in its user's bucket.
Unbucketed(id) ==
  IF id \in DOMAIN session
  THEN [u \in Accounts |-> IF session[id].user = u THEN bucket[u] \ {id} ELSE bucket[u]]
  ELSE bucket

\* onDisconnect, an eviction's and an overflow's clean-up: the session goes and
\* so does the queue, whose frames are handled all the same.
Forgotten(id) ==
  /\ session' = Without(session, id)
  /\ bucket' = Unbucketed(id)
  /\ current' = [current EXCEPT ![id] = 0]
  /\ depth' = [depth EXCEPT ![id] = 0]

\* setAuth: nothing happens without a session.
SetAuth(id, u) ==
  IF id \in DOMAIN session
  THEN /\ session' = [session EXCEPT ![id].user = u]
       /\ bucket' = [v \in Accounts |-> IF v = u THEN bucket[v] \cup {id} ELSE bucket[v] \ {id}]
  ELSE UNCHANGED <<session, bucket>>

---------------------------------------------------------------------------
\* The transport.

\* trySend: a frame goes to the connection the transport writes to, if any.
Sent(id, kind) ==
  IF id \in DOMAIN registered
  THEN [mail EXCEPT ![id[1]] = Append(@, [on |-> registered[id], kind |-> kind])]
  ELSE mail

\* A notice, and transport.disconnect: a socket or a stream is closed under the
\* device, which the notice has told to go by then; a polling queue is only
\* deleted.  The server hears of a socket's end like of any other; closing a
\* stream itself tells it nothing.
Dismissed(id) ==
  /\ mail' = IF wire = "polling" THEN mail ELSE Sent(id, "bye")
  /\ registered' = Without(registered, id)
  /\ endings' = IF wire = "ws" /\ id \in DOMAIN registered
                THEN endings \cup {<<id, registered[id]>>} ELSE endings

\* handleOpen, handleSubscribe or handleConnect.  An event stream announces an
\* id it believes unknown, the others every time.
Open(d) ==
  LET n == opened[d] + 1
      id == IdOf(d, n)
  IN /\ streamOf[d] = 0 /\ (opened[d] > 0 => Use("opens"))
     /\ opened[d] = 0 => UNCHANGED connLeft
     /\ streamOf' = [streamOf EXCEPT ![d] = n]
     /\ opened' = [opened EXCEPT ![d] = n]
     /\ acked' = acked \ {d} /\ greeted' = greeted \ {d}
     /\ registered' = With(registered, id, n)
     /\ announcedIds' = IF wire = "sse" THEN announcedIds \cup {id} ELSE announcedIds
     /\ IF wire = "sse" /\ id \in announcedIds THEN UNCHANGED <<session, births, overtaken>>
        ELSE Connected(id)
     /\ UNCHANGED <<wire, mail, endings, bucket, queueVars>>

\* The device's side of a connection ends.  Nobody tells a polling server.
Closed(d) ==
  /\ streamOf' = [streamOf EXCEPT ![d] = 0]
  /\ acked' = acked \ {d}
  /\ endings' = IF wire = "polling" THEN endings
                ELSE endings \cup {<<IdOf(d, streamOf[d]), streamOf[d]>>}

\* The network breaks it.
Break(d) ==
  /\ streamOf[d] # 0 /\ Use("breaks")
  /\ Closed(d)
  /\ UNCHANGED <<wire, opened, greeted, wireSideVars, sessVars, queueVars, overtaken>>

\* handleClose, handleDisconnect: told of an end, the transport drops the id,
\* whichever connection it has come to stand for.
Ended(id, n) ==
  /\ <<id, n>> \in endings
  /\ endings' = endings \ {<<id, n>>}
  /\ registered' = Without(registered, id)
  /\ announcedIds' = announcedIds \ {id}
  /\ Forgotten(id)
  /\ UNCHANGED <<wire, connDeviceVars, mail, births, chains, drains, overtaken, connLeft>>

\* polling's reaper: the device has not polled for a while, and may yet.
Reap(d) ==
  LET id == <<d, 0>>
  IN /\ wire = "polling" /\ id \in DOMAIN registered /\ Use("reaps")
     /\ registered' = Without(registered, id)
     /\ Forgotten(id)
     /\ UNCHANGED <<wire, connDeviceVars, mail, announcedIds, endings, births, chains, drains, overtaken>>

\* A frame reaches the device; one for an earlier connection is lost.  Being
\* told to go, or cut off, it closes its connection (scheduleReconnect).
Receive(d) ==
  /\ mail[d] # <<>>
  /\ mail' = [mail EXCEPT ![d] = Tail(@)]
  /\ LET f == Head(mail[d])
     IN CASE f.on # streamOf[d] -> UNCHANGED <<streamOf, acked, endings>>
          [] f.on = streamOf[d] /\ f.kind = "ack" ->
               acked' = acked \cup {d} /\ UNCHANGED <<streamOf, endings>>
          [] OTHER -> Closed(d)
  /\ UNCHANGED <<wire, opened, greeted, registered, announcedIds, sessVars, queueVars, overtaken,
                 connLeft>>

---------------------------------------------------------------------------
\* The queue: one chain of promises per id.

\* Mutant: every frame starts a queue of its own.
EnqueueApart(id, m) ==
  LET n == 1 + Cardinality({k \in DOMAIN chains : k[1] = id})
  IN /\ chains' = With(chains, <<id, n>>, [todo |-> <<m>>, task |-> Idle, put |-> 1, done |-> 0])
     /\ current' = [current EXCEPT ![id] = n]
     /\ depth' = [depth EXCEPT ![id] = @ + 1]
     /\ UNCHANGED drains

\* onMessage.  A full queue drops the frame, and dismisses the client once what
\* was queued is done; a frame that comes in the meantime is queued behind it.
Enqueue(id, m) ==
  IF depth[id] >= MaxDepth
  THEN LET key == <<id, current[id]>>
       IN /\ drains' = drains \cup {[id |-> id, n |-> current[id], upto |-> chains[key].put]}
          /\ UNCHANGED <<chains, current, depth>>
  ELSE LET n == IF current[id] # 0 THEN current[id]
                ELSE 1 + Cardinality({k \in DOMAIN chains : k[1] = id})
           key == <<id, n>>
           old == IF key \in DOMAIN chains THEN chains[key]
                  ELSE [todo |-> <<>>, task |-> Idle, put |-> 0, done |-> 0]
       IN /\ chains' = With(chains, key, [old EXCEPT !.todo = Append(@, m), !.put = @ + 1])
          /\ current' = [current EXCEPT ![id] = n]
          /\ depth' = [depth EXCEPT ![id] = @ + 1]
          /\ UNCHANGED drains

\* A device says hello first; then it works, or presents a new token.
Say(d, m) ==
  /\ streamOf[d] # 0 /\ Use("frames")
  /\ IF m.type = "hello" THEN d \notin greeted ELSE d \in acked
  /\ greeted' = greeted \cup {d}
  /\ Enqueue(IdOf(d, streamOf[d]), m)
  /\ UNCHANGED <<wire, streamOf, opened, acked, wireSideVars, endings, sessVars, overtaken>>

\* The frame at hand is done with: `finally` lowers the depth of whatever queue
\* the id has by now: below zero, when that is not the queue the frame was in.
Finished(key) ==
  /\ chains' = [chains EXCEPT ![key].task = Idle, ![key].done = @ + 1]
  /\ depth' = [depth EXCEPT ![key[1]] = IF current[key[1]] # 0 THEN @ - 1 ELSE @]

Stage(key, task) == chains' = [chains EXCEPT ![key].task = task]

\* handleMessage: without an authenticated session all but the handshake is
\* turned away, and so is the client.
Start(key) ==
  LET id == key[1]
      m == Head(chains[key].todo)
      gated == m.type = "work" /\ (id \notin DOMAIN session \/ session[id].user = "none")
  IN /\ chains[key].task = Idle /\ chains[key].todo # <<>>
     /\ chains' = [chains EXCEPT ![key].todo = Tail(@),
                                 ![key].task = IF gated THEN [pc |-> "gated"]
                                               ELSE IF m.type = "work" THEN [pc |-> "working"]
                                               ELSE [pc |-> "authing", m |-> m]]
     /\ UNCHANGED <<wire, connDeviceVars, wireSideVars, endings, sessVars, current, depth, drains,
                    overtaken, connLeft>>

TurnAway(key) ==
  /\ chains[key].task.pc = "gated"
  /\ Dismissed(key[1]) /\ Finished(key)
  /\ UNCHANGED <<wire, connDeviceVars, announcedIds, sessVars, current, drains, overtaken, connLeft>>

Work(key) ==
  /\ chains[key].task.pc = "working"
  /\ Finished(key)
  /\ UNCHANGED <<wire, connDeviceVars, wireSideVars, endings, sessVars, current, drains, overtaken,
                 connLeft>>

\* handleHello, handleAuth: the auth callback has answered.
Authenticated(key) ==
  /\ chains[key].task.pc = "authing"
  /\ SetAuth(key[1], chains[key].task.m.user)
  /\ Stage(key, [pc |-> "enforce", m |-> chains[key].task.m])
  /\ UNCHANGED <<wire, connDeviceVars, wireSideVars, endings, births, current, depth, drains,
                 overtaken, connLeft>>

\* A token refused: a hello is answered with hello_reject, on which the client
\* gives the connection up; a fresh token dismisses the client.
Refused(key) ==
  /\ chains[key].task.pc = "authing" /\ Use("refusals")
  /\ IF chains[key].task.m.type = "hello"
     THEN mail' = Sent(key[1], "bye") /\ UNCHANGED <<registered, endings>>
     ELSE Dismissed(key[1])
  /\ Finished(key)
  /\ UNCHANGED <<wire, connDeviceVars, announcedIds, sessVars, current, drains, overtaken>>

Sessions(u) == {id \in bucket[u] : id \in DOMAIN session}
Oldest(u)   == CHOOSE id \in Sessions(u) : \A x \in Sessions(u) : session[id].born <= session[x].born

\* enforceConnectionCap's loop: too many, and the oldest is another's.
OverCap(key) ==
  LET u == chains[key].task.m.user
  IN Cardinality(bucket[u]) > Cap /\ Sessions(u) # {} /\ Oldest(u) # key[1]

\* The oldest session is told, and then dismissed with all it had.
Evict(key) ==
  /\ chains[key].task.pc = "enforce" /\ OverCap(key)
  /\ LET victim == Oldest(chains[key].task.m.user)
     IN Stage(key, [pc |-> "evict", m |-> chains[key].task.m, who |-> victim])
  /\ UNCHANGED <<wire, connDeviceVars, wireSideVars, endings, sessVars, current, depth, drains,
                 overtaken, connLeft>>

Evicted(key) ==
  /\ chains[key].task.pc = "evict"
  /\ LET victim == chains[key].task.who
     IN /\ Dismissed(victim)
        /\ Forgotten(victim)
  /\ Stage(key, [pc |-> "enforce", m |-> chains[key].task.m])
  /\ UNCHANGED <<wire, connDeviceVars, announcedIds, births, drains, overtaken, connLeft>>

\* Within the cap, or the oldest session is the one being greeted: it stays.
Welcomes(key) ==
  /\ chains[key].task.pc = "enforce" /\ ~OverCap(key)
  /\ LET id == key[1]
         u == chains[key].task.m.user
     IN /\ session' = IF /\ id \in DOMAIN session /\ Cardinality(bucket[u]) > Cap
                         /\ \A x \in Sessions(u) : session[id].born <= session[x].born
                      THEN [session EXCEPT ![id].spared = TRUE] ELSE session
        /\ mail' = IF chains[key].task.m.type = "hello" THEN Sent(id, "ack") ELSE mail
  /\ Finished(key)
  /\ UNCHANGED <<wire, connDeviceVars, registered, announcedIds, endings, births, bucket, current,
                 drains, overtaken, connLeft>>

\* An overflow's turn: everything queued before it is done.
Drained(r) ==
  /\ r \in drains /\ chains[<<r.id, r.n>>].done >= r.upto
  /\ drains' = drains \ {r}
  /\ Dismissed(r.id)
  /\ Forgotten(r.id)
  /\ UNCHANGED <<wire, connDeviceVars, announcedIds, births, chains, overtaken, connLeft>>

---------------------------------------------------------------------------
ConnNext ==
  \/ \E d \in Devices :
       \/ Open(d) \/ Break(d) \/ Reap(d) \/ Receive(d)
       \/ \E u \in Tokens[d] : \/ Say(d, [type |-> "hello", user |-> u])
                               \/ Say(d, [type |-> "auth", user |-> u])
       \/ Say(d, [type |-> "work"])
  \/ \E e \in endings : Ended(e[1], e[2])
  \/ \E key \in DOMAIN chains :
       \/ Start(key) \/ TurnAway(key) \/ Work(key)
       \/ Authenticated(key) \/ Refused(key)
       \/ Evict(key) \/ Evicted(key) \/ Welcomes(key)
  \/ \E r \in drains : Drained(r)

ConnSpec == ConnInit /\ [][ConnNext]_connVars

---------------------------------------------------------------------------
ConnTypeOK ==
  /\ \A d \in Devices : streamOf[d] \in {0, opened[d]}
  /\ DOMAIN registered \subseteq Ids /\ DOMAIN session \subseteq Ids
  /\ \A u \in Accounts : bucket[u] \subseteq Ids
  /\ \A id \in Ids : depth[id] \in Int /\ depth[id] <= MaxDepth

\* One frame of a session is worked on at a time ("Serialize message processing
\* per client"): a queue forgotten on a disconnect, an eviction or an overflow
\* runs on, but what comes after it finds no session.  The exception is an id
\* that comes back while its old queue is busy, as only event streams and
\* polling do.
OneAtATime ==
  \A id \in Ids \ overtaken :
    Cardinality({k \in DOMAIN chains : k[1] = id /\ chains[k].task.pc = "working"}) <= 1

SessionsOf(u) == {id \in DOMAIN session : session[id].user = u}

\* A user's bucket is the sessions that are authenticated as that user, through
\* changes of identity, evictions and late disconnects.  Polling is left out: a
\* second connect replaces the session and not its place in the bucket.
BucketsAgree ==
  wire # "polling" =>
    \A u \in Accounts : bucket[u] = SessionsOf(u)

\* With no eviction under way a user has no more sessions than the cap, unless
\* one was greeted while it was the oldest itself: the loop then stops.
CapHolds ==
  \A u \in Accounts :
    (/\ \A k \in DOMAIN chains : chains[k].task.pc \notin {"enforce", "evict"}
     /\ Cardinality(SessionsOf(u)) > Cap)
    => \E id \in SessionsOf(u) : session[id].spared

\* A web socket client that has been acknowledged, and to which nothing is on
\* its way that says otherwise, has an authenticated session.
AckMeansSession ==
  wire = "ws" =>
    \A d \in acked :
      LET id == IdOf(d, streamOf[d])
      IN \/ id \in DOMAIN session /\ session[id].user # "none"
         \/ \E k \in DOMAIN mail[d] : mail[d][k].on = streamOf[d] /\ mail[d][k].kind # "ack"

\* Sessions: the frames of a connection are handled one at a time, the per-user
\* buckets list the sessions there are, the cap holds, and what was
\* acknowledged has a session.
\* Each as stated above.
ConnInv == ConnTypeOK /\ OneAtATime /\ BucketsAgree /\ CapHolds /\ AckMeansSession
=============================================================================
