------------------------------ MODULE Presence ------------------------------
(**************************************************************************)
(* Presence on the server: handleEphemeral, sync_declare's snapshot and   *)
(* the delivery of what other instances publish (src/server/handler.ts),  *)
(* over the ephemeral stores of src/server/ephemeral/.                    *)
(*                                                                        *)
(* A fleet of instances, clients that connect to any of them, one channel *)
(* key.  `adapter` is the store the fleet was built with:                 *)
(*   "memory"    one store per instance, no bus, every call synchronous;  *)
(*   "redis"     a shared store of several structures, changed by scripts *)
(*               but read and swept command by command, and a bus;        *)
(*   "postgres"  a shared table changed statement by statement, NOTIFY;   *)
(*   "polled"    the same table, the bus a second table polled by cursor. *)
(* An entry's time to live is abstracted to lapsed or not.                *)
(**************************************************************************)
EXTENDS Naturals, Sequences, FiniteSets, FiniteSetsExt, SequencesExt

CONSTANTS Fleet,          \* instances
          Publishers,     \* clients
          Within,         \* per client: the instances it may be sent to
          Permanent,        \* clients that publish without a time to live
          Scopes,         \* <<query, room>> a client may subscribe to
          NoRoom,         \* the room of a subscription outside every room
          Adapters,       \* adapters to consider
          MaxEntries,     \* the store's ceiling
          PresenceBound   \* bounds, per adapter: [publishes, admits, joins, leaves, lapses,
                          \* purges, faults]

ASSUME PresenceAssumption ==
  /\ Adapters \subseteq {"memory", "redis", "postgres", "polled"}
  /\ MaxEntries \in Nat
  /\ Within \in [Publishers -> SUBSET Fleet]
  /\ \A d \in Adapters : \A k \in DOMAIN PresenceBound[d] : PresenceBound[d][k] \in Nat

VARIABLES
  adapter,
  at,         \* the instance that holds a client's session, "none" without one
  subs,       \* a session's subscriptions, query to room
  task,       \* what the client's message queue is doing
  entries,    \* per store: <<room, client>> to its entry
  clientKeys, \* redis: the rooms under a client's index key
  expiry,     \* redis: the deadlines set, <<room, client>> to "ahead" or "past"
  count,      \* redis: the entry counter
  purged,     \* redis, history: entries dropped by an expiring hash
  forget,     \* removeClient calls under way
  sweep,      \* per instance, redis: entries its sweep read and has yet to remove
  listening,  \* instances whose bus subscription is up
  bus,        \* per instance: published frames on their way to it
  pending,    \* polled: published rows allocated an id and not committed
  busTable,   \* polled: committed rows
  busIds,     \* polled: ids allocated
  cursor,     \* per instance, polled: the last id it has read
  view,       \* per client: peers its bindings show
  missedFrames,     \* history: <<instance, peer>>, a frame of the peer that never came
  ghosts,     \* history: clients one of whose entries outlived its removal
  presLeft    \* what is left of the bounds

sessionVars == <<at, subs>>
indexVars   == <<clientKeys, expiry, count>>
storeVars   == <<entries, indexVars>>
busVars     == <<listening, bus, pending, busTable, busIds, cursor>>
pastVars    == <<purged, missedFrames, ghosts>>
presenceVars == <<adapter, sessionVars, task, storeVars, forget, sweep, busVars,
                  view, pastVars, presLeft>>

SharedStore == "shared"
Rooms  == {s[2] : s \in Scopes} \ {NoRoom}

\* The store an instance writes to, and every store there is.
Store(i) == IF adapter = "memory" THEN i ELSE SharedStore

IdleTask == [pc |-> "idle"]
NoForget == [pc |-> "no", rooms |-> {}, behind |-> FALSE]

PresenceInit ==
  /\ adapter \in Adapters
  /\ at = [c \in Publishers |-> "none"]
  /\ subs = [c \in Publishers |-> <<>>]
  /\ task = [c \in Publishers |-> IdleTask]
  /\ entries = [s \in Fleet \cup {SharedStore} |-> <<>>]
  /\ clientKeys = [c \in Publishers |-> {}]
  /\ expiry = <<>> /\ count = 0 /\ purged = 0
  /\ forget = [c \in Publishers |-> NoForget]
  /\ sweep = [i \in Fleet |-> {}]
  /\ listening = [i \in Fleet |-> FALSE]
  /\ bus = [i \in Fleet |-> <<>>]
  /\ pending = {} /\ busTable = {} /\ busIds = 0
  /\ cursor = [i \in Fleet |-> 0]
  /\ view = [c \in Publishers |-> {}]
  /\ missedFrames = {} /\ ghosts = {}
  /\ presLeft = PresenceBound[adapter]

\* Take one of a bounded resource.
Spend(k) == presLeft[k] > 0 /\ presLeft' = [presLeft EXCEPT ![k] = @ - 1]

\* Functions with finite domains, as the stores use them.
Put(f, k, v)  == [x \in DOMAIN f \cup {k} |-> IF x = k THEN v ELSE f[x]]
Drop(f, ks)   == [x \in DOMAIN f \ ks |-> f[x]]

---------------------------------------------------------------------------
\* Sessions.

\* onConnect, with the handshake done: a new session, nothing subscribed.
Arrive(c, i) ==
  /\ at[c] = "none" /\ task[c] = IdleTask /\ i \in Within[c]
  /\ Spend("joins")
  /\ at' = [at EXCEPT ![c] = i]
  /\ subs' = [subs EXCEPT ![c] = <<>>]
  /\ view' = [view EXCEPT ![c] = {}]
  /\ UNCHANGED <<adapter, task, storeVars, forget, sweep, busVars, pastVars>>

\* The memory store removes at once whatever the client's index names.
ForgottenNow(c, i) ==
  IF adapter = "memory"
  THEN entries' = [entries EXCEPT ![i] = Drop(@, {e \in DOMAIN @ : e[2] = c})]
       /\ UNCHANGED forget
  ELSE forget' = [forget EXCEPT ![c] =
                    [pc |-> "read", rooms |-> {},
                     behind |-> adapter = "redis" /\ task[c].pc = "setting"]]
       /\ UNCHANGED entries

\* onDisconnect: the session goes, removeClient is called and not awaited.
\* What the queue was doing for the client carries on with the session it
\* read; the memory store's calls leave nothing half done.
Depart(c) ==
  /\ at[c] # "none" /\ forget[c] = NoForget
  /\ adapter = "memory" => task[c].pc # "setting"
  /\ Spend("leaves")
  /\ ForgottenNow(c, at[c])
  /\ at' = [at EXCEPT ![c] = "none"]
  /\ subs' = [subs EXCEPT ![c] = <<>>]
  /\ view' = [view EXCEPT ![c] = {}]
  /\ UNCHANGED <<adapter, task, indexVars, sweep, busVars, pastVars>>

\* handleSyncDeclare up to the presence snapshot: subscribed, and the room is
\* asked for.  A query has one subscription: declaring it again moves it.
Admit(c, q, room) ==
  /\ at[c] # "none" /\ task[c] = IdleTask
  /\ Spend("admits")
  /\ subs' = [subs EXCEPT ![c] = Put(@, q, room)]
  /\ task' = IF room = NoRoom THEN task
             ELSE [task EXCEPT ![c] = [pc |-> "reading", room |-> room, on |-> at[c]]]
  /\ UNCHANGED <<adapter, at, storeVars, forget, sweep, busVars, view, pastVars>>

SnapshotIsLocal(i, room, c) ==
  {e[2] : e \in {x \in DOMAIN entries[Store(i)] :
                   x[1] = room /\ x[2] # c /\ at[x[2]] = i /\ ~entries[Store(i)][x].lapsed}}

\* getRoom: the live entries, the reader's own left out.
RoomEntries(i, room, c) ==
  {e[2] : e \in {x \in DOMAIN entries[Store(i)] :
                   x[1] = room /\ x[2] # c /\ ~entries[Store(i)][x].lapsed}}

ReadRoom(c) ==
  /\ task[c].pc = "reading"
  /\ task' = [task EXCEPT ![c] = [pc |-> "snapshot", on |-> @.on,
                                  who |-> RoomEntries(@.on, @.room, c)]]
  /\ UNCHANGED <<adapter, sessionVars, storeVars, forget, sweep, busVars, view,
                 pastVars, presLeft>>

\* The snapshot reaches the client if it is still there.
SendSnapshot(c) ==
  /\ task[c].pc = "snapshot"
  /\ view' = IF at[c] = task[c].on THEN [view EXCEPT ![c] = @ \cup task[c].who] ELSE view
  /\ task' = [task EXCEPT ![c] = IdleTask]
  /\ UNCHANGED <<adapter, sessionVars, storeVars, forget, sweep, busVars, pastVars,
                 presLeft>>

---------------------------------------------------------------------------
\* A client's ephemeral frame.

\* handleEphemeral up to the first set: the targets and rooms of the session.
Publish(c) ==
  /\ at[c] # "none" /\ task[c] = IdleTask
  /\ Spend("publishes")
  /\ LET targets == {<<q, subs[c][q]>> : q \in DOMAIN subs[c]}
         rooms == {t[2] : t \in targets} \ {NoRoom}
     IN task' = [task EXCEPT ![c] =
                   [pc |-> IF rooms = {} THEN "fan" ELSE "setting", on |-> at[c],
                    targets |-> targets, rooms |-> rooms, ttl |-> c \notin Permanent]]
  /\ UNCHANGED <<adapter, sessionVars, storeVars, forget, sweep, busVars, view, pastVars>>

\* How many entries the store says it has, against the ceiling.
StoreSize(s) == IF adapter = "redis" THEN count ELSE Cardinality(DOMAIN entries[s])

HasRoomFor(s, e) == e \in DOMAIN entries[s] \/ StoreSize(s) < MaxEntries

\* SET_SCRIPT's work on the indexes.
IndexEntry(e, ttl, isNew) ==
  /\ clientKeys' = [clientKeys EXCEPT ![e[2]] = @ \cup {e[1]}]
  /\ expiry' = IF ttl THEN Put(expiry, e, "ahead") ELSE Drop(expiry, {e})
  /\ count' = IF isNew THEN count + 1 ELSE count

\* One room's set.  A full store stops the loop: the rooms already written
\* keep the entry, and nobody is told.
SetEntry(c, room) ==
  /\ task[c].pc = "setting" /\ room \in task[c].rooms
  /\ LET e == <<room, c>>
         s == Store(task[c].on)
         left == task[c].rooms \ {room}
     IN IF HasRoomFor(s, e)
        THEN /\ entries' = [entries EXCEPT ![s] = Put(@, e, [ttl |-> task[c].ttl, lapsed |-> FALSE])]
             /\ IF adapter = "redis" THEN IndexEntry(e, task[c].ttl, e \notin DOMAIN entries[s])
                ELSE UNCHANGED indexVars
             /\ task' = [task EXCEPT ![c].rooms = left,
                                     ![c].pc = IF left = {} THEN "fan" ELSE "setting"]
             /\ ghosts' = IF at[c] # task[c].on THEN ghosts \cup {c} ELSE ghosts
             /\ UNCHANGED missedFrames
        ELSE /\ task' = [task EXCEPT ![c] = IdleTask]
             /\ missedFrames' = missedFrames \cup (Fleet \X {c})
             /\ UNCHANGED <<storeVars, ghosts>>
  /\ forget' = [forget EXCEPT ![c].behind = FALSE]
  /\ UNCHANGED <<adapter, sessionVars, sweep, busVars, view, purged, presLeft>>

\* fanOutEphemeral: the clients of an instance with exactly one of the
\* sender's subscriptions, room for room.
Recipients(i, c, targets) ==
  {d \in Publishers \ {c} : at[d] = i /\ \E q \in DOMAIN subs[d] : <<q, subs[d][q]>> \in targets}

ToldOf(ds, c) == [d \in Publishers |-> IF d \in ds THEN view[d] \cup {c} ELSE view[d]]

\* The bus hands a frame to every other instance that listens.
Carried(c, frame) ==
  [i \in Fleet |-> IF i # frame.on /\ listening[i] THEN Append(bus[i], frame) ELSE bus[i]]

Unheard(c, on) == {<<i, c>> : i \in {j \in Fleet \ {on} : ~listening[j]}}

\* Local sockets first, then the bus, whose failure is logged and no more.
FanOut(c, busUp) ==
  /\ task[c].pc = "fan"
  /\ LET frame == [from |-> c, on |-> task[c].on, targets |-> task[c].targets]
         shared == adapter # "memory"
     IN /\ view' = ToldOf(Recipients(frame.on, c, frame.targets), c)
        /\ task' = [task EXCEPT ![c] = IdleTask]
        /\ IF busUp THEN UNCHANGED presLeft ELSE shared /\ Spend("faults")
        /\ CASE ~shared \/ ~busUp ->
                  missedFrames' = (IF shared THEN missedFrames \cup ((Fleet \ {frame.on}) \X {c})
                             ELSE missedFrames)
                  /\ UNCHANGED <<bus, pending, busIds>>
             [] shared /\ busUp /\ adapter = "polled" ->
                  /\ busIds' = busIds + 1
                  /\ pending' = pending \cup {[id |-> busIds + 1, frame |-> frame]}
                  /\ missedFrames' = missedFrames \cup Unheard(c, frame.on)
                  /\ UNCHANGED bus
             [] OTHER ->
                  /\ bus' = Carried(c, frame)
                  /\ missedFrames' = missedFrames \cup Unheard(c, frame.on)
                  /\ UNCHANGED <<pending, busIds>>
  /\ UNCHANGED <<adapter, sessionVars, storeVars, forget, sweep, listening, busTable,
                 cursor, purged, ghosts>>

---------------------------------------------------------------------------
\* The bus.

\* setEphemeralAdapter's attempt to subscribe that succeeds; one that fails is
\* tried again later.  A poller starts at the newest row.
Listen(i) ==
  /\ adapter # "memory" /\ ~listening[i]
  /\ listening' = [listening EXCEPT ![i] = TRUE]
  /\ cursor' = [cursor EXCEPT ![i] = Max({r.id : r \in busTable} \cup {0})]
  /\ missedFrames' = missedFrames \cup {<<i, r.frame.from>> : r \in {x \in pending : x.frame.on # i}}
  /\ UNCHANGED <<adapter, sessionVars, task, storeVars, forget, sweep, bus, pending,
                 busTable, busIds, view, purged, ghosts, presLeft>>

\* deliverRemoteEphemeral.
DeliverRemote(i) ==
  /\ bus[i] # <<>>
  /\ LET frame == Head(bus[i])
     IN view' = ToldOf(Recipients(i, frame.from, frame.targets), frame.from)
  /\ bus' = [bus EXCEPT ![i] = Tail(@)]
  /\ UNCHANGED <<adapter, sessionVars, task, storeVars, forget, sweep, listening, pending,
                 busTable, busIds, cursor, pastVars, presLeft>>

\* The insert commits: a poller whose cursor is past the row's id never sees it.
CommitBusRow(r) ==
  /\ r \in pending
  /\ pending' = pending \ {r}
  /\ busTable' = busTable \cup {r}
  /\ missedFrames' = missedFrames \cup {<<i, r.frame.from>> :
                             i \in {j \in Fleet : j # r.frame.on /\ cursor[j] >= r.id}}
  /\ UNCHANGED <<adapter, sessionVars, task, storeVars, forget, sweep, listening, bus, busIds,
                 cursor, view, purged, ghosts, presLeft>>

\* pollBus: every row after the cursor, in order; an instance drops its own.
PollBus(i) ==
  LET rows == {r \in busTable : r.id > cursor[i]}
      inOrder == SetToSortSeq({r \in rows : r.frame.on # i}, LAMBDA a, b : a.id < b.id)
  IN /\ listening[i] /\ rows # {}
     /\ cursor' = [cursor EXCEPT ![i] = Max({r.id : r \in rows})]
     /\ bus' = [bus EXCEPT ![i] = @ \o [k \in DOMAIN inOrder |-> inOrder[k].frame]]
     /\ UNCHANGED <<adapter, sessionVars, task, storeVars, forget, sweep, listening, pending,
                    busTable, busIds, view, pastVars, presLeft>>

---------------------------------------------------------------------------
\* Removing entries.

\* REMOVE_SCRIPT on redis, one DELETE on postgres.
RemoveScript(es) ==
  LET there == es \cap DOMAIN entries[SharedStore]
  IN /\ entries' = [entries EXCEPT ![SharedStore] = Drop(@, there)]
     /\ expiry' = Drop(expiry, there)
     /\ count' = count - Cardinality(there)

Unindexed(keys, es) == [c \in Publishers |-> keys[c] \ {r \in Rooms : <<r, c>> \in es}]

\* removeClient.  Postgres: one statement.  Redis: the client's index, then
\* each entry it named, then the index itself, whatever it names by then.
ForgetAll(c) ==
  /\ forget[c].pc = "read" /\ adapter \in {"postgres", "polled"}
  /\ entries' = [entries EXCEPT ![SharedStore] = Drop(@, {e \in DOMAIN @ : e[2] = c})]
  /\ forget' = [forget EXCEPT ![c] = NoForget]
  /\ UNCHANGED <<adapter, sessionVars, task, indexVars, sweep, busVars, view, pastVars, presLeft>>

ForgetRead(c) ==
  /\ forget[c].pc = "read" /\ adapter = "redis" /\ ~forget[c].behind
  /\ forget' = [forget EXCEPT ![c].pc = "remove", ![c].rooms = clientKeys[c]]
  /\ UNCHANGED <<adapter, sessionVars, task, storeVars, sweep, busVars, view, pastVars, presLeft>>

ForgetRemove(c, room) ==
  /\ forget[c].pc = "remove" /\ room \in forget[c].rooms
  /\ RemoveScript({<<room, c>>})
  /\ clientKeys' = Unindexed(clientKeys, {<<room, c>>} \cap DOMAIN entries[SharedStore])
  /\ forget' = [forget EXCEPT ![c].rooms = @ \ {room}]
  /\ UNCHANGED <<adapter, sessionVars, task, sweep, busVars, view, pastVars, presLeft>>

ForgetIndex(c) ==
  /\ forget[c].pc = "remove" /\ forget[c].rooms = {}
  /\ ghosts' = IF clientKeys[c] # {} THEN ghosts \cup {c} ELSE ghosts
  /\ clientKeys' = [clientKeys EXCEPT ![c] = {}]
  /\ forget' = [forget EXCEPT ![c] = NoForget]
  /\ UNCHANGED <<adapter, sessionVars, task, entries, expiry, count, sweep, busVars, view,
                 purged, missedFrames, presLeft>>

\* Time passes an entry's deadline; redis keeps the deadline apart.
Lapse(s, e) ==
  /\ e \in DOMAIN entries[s] /\ entries[s][e].ttl /\ ~entries[s][e].lapsed
  /\ Spend("lapses")
  /\ entries' = [entries EXCEPT ![s][e].lapsed = TRUE]
  /\ expiry' = IF e \in DOMAIN expiry THEN [expiry EXCEPT ![e] = "past"] ELSE expiry
  /\ UNCHANGED <<adapter, sessionVars, task, clientKeys, count, forget, sweep, busVars, view, pastVars>>

\* cleanupExpired: one step in memory and on postgres; on redis the deadlines
\* that are past are read, and each entry is removed by a call of its own.
SweepNow(i) ==
  /\ adapter # "redis"
  /\ LET stale == {e \in DOMAIN entries[Store(i)] : entries[Store(i)][e].lapsed}
     IN /\ stale # {}
        /\ entries' = [entries EXCEPT ![Store(i)] = Drop(@, stale)]
  /\ UNCHANGED <<adapter, sessionVars, task, indexVars, forget, sweep, busVars, view, pastVars, presLeft>>

SweepRead(i) ==
  /\ adapter = "redis" /\ sweep[i] = {}
  /\ LET past == {e \in DOMAIN expiry : expiry[e] = "past"}
     IN past # {} /\ sweep' = [sweep EXCEPT ![i] = past]
  /\ UNCHANGED <<adapter, sessionVars, task, storeVars, forget, busVars, view, pastVars, presLeft>>

SweepRemove(i, e) ==
  /\ e \in sweep[i]
  /\ RemoveScript({e})
  /\ clientKeys' = Unindexed(clientKeys, {e} \cap DOMAIN entries[SharedStore])
  /\ sweep' = [sweep EXCEPT ![i] = @ \ {e}]
  /\ UNCHANGED <<adapter, sessionVars, task, forget, busVars, view, purged, missedFrames, ghosts, presLeft>>

\* A room's hash outlives its last write by hashTtlSeconds, no shorter than any
\* entry's own time to live, and then goes with all that is in it: the counter
\* and the deadlines are not told.
PurgeHash(room) ==
  LET es == {e \in DOMAIN entries[SharedStore] : e[1] = room}
  IN /\ adapter = "redis" /\ es # {}
     /\ \A e \in es : entries[SharedStore][e].ttl => entries[SharedStore][e].lapsed
     /\ Spend("purges")
     /\ entries' = [entries EXCEPT ![SharedStore] = Drop(@, es)]
     /\ purged' = purged + Cardinality(es)
     /\ UNCHANGED <<adapter, sessionVars, task, indexVars, forget, sweep, busVars, view,
                    missedFrames, ghosts>>

---------------------------------------------------------------------------
PresenceNext ==
  \/ \E c \in Publishers :
       \/ \E i \in Fleet : Arrive(c, i)
       \/ Publish(c) \/ Depart(c) \/ ReadRoom(c) \/ SendSnapshot(c)
       \/ \E s \in Scopes : Admit(c, s[1], s[2])
       \/ \E room \in Rooms : SetEntry(c, room) \/ ForgetRemove(c, room)
       \/ \E up \in BOOLEAN : FanOut(c, up)
       \/ ForgetAll(c) \/ ForgetRead(c) \/ ForgetIndex(c)
  \/ \E i \in Fleet : \/ Listen(i) \/ DeliverRemote(i) \/ PollBus(i)
                      \/ SweepNow(i) \/ SweepRead(i)
                      \/ \E e \in sweep[i] : SweepRemove(i, e)
  \/ \E r \in pending : CommitBusRow(r)
  \/ \E s \in Fleet \cup {SharedStore} : \E e \in DOMAIN entries[s] : Lapse(s, e)
  \/ \E room \in Rooms : PurgeHash(room)

PresenceSpec == PresenceInit /\ [][PresenceNext]_presenceVars

---------------------------------------------------------------------------
Entry == [ttl : BOOLEAN, lapsed : BOOLEAN]

PresenceTypeOK ==
  /\ adapter \in Adapters
  /\ at \in [Publishers -> Fleet \cup {"none"}]
  /\ \A c \in Publishers : \A q \in DOMAIN subs[c] : <<q, subs[c][q]>> \in Scopes
  /\ \A s \in DOMAIN entries : \A e \in DOMAIN entries[s] :
       e \in Rooms \X Publishers /\ entries[s][e] \in Entry
  /\ count \in Nat
  /\ \A c \in Publishers : view[c] \subseteq Publishers \ {c}

\* The redis counter, which the ceiling is checked against, is the number of
\* entries: whoever removes an entry, a departing client's removeClient or any
\* instance's sweep, counts it once.  Only a hash that expires on its own
\* leaves the counter behind, by what was in it.
CounterCounts ==
  adapter = "redis" => count = Cardinality(DOMAIN entries[SharedStore]) + purged

\* A client that has joined a room is shown everybody who has an entry there:
\* an entry stored before its snapshot was read is in the snapshot, a later one
\* is fanned out to it, on its instance or over the bus.  Nothing is left to
\* arrive, so the only peers it may lack are those whose frame the bus lost or
\* whose set stopped at a full store.
JoinerMissesNobody ==
  \A c \in Publishers, e \in DOMAIN entries[SharedStore] \cup UNION {DOMAIN entries[i] : i \in Fleet} :
    LET i == at[c]
        p == e[2]
    IN (/\ i # "none" /\ p # c
        /\ e \in DOMAIN entries[Store(i)] /\ ~entries[Store(i)][e].lapsed
        /\ \E q \in DOMAIN subs[c] : subs[c][q] = e[1]
        /\ task[c].pc \notin {"reading", "snapshot"}
        /\ task[p].pc \notin {"setting", "fan"}
        /\ \A k \in DOMAIN bus[i] : bus[i][k].from # p
        /\ \A r \in pending \cup {x \in busTable : x.id > cursor[i]} : r.frame.from # p
        /\ <<i, p>> \notin missedFrames)
       => p \in view[c]

\* A client that is gone, and whose removal has finished, has no entry left
\* that says it is here, unless a set of its own reached the store after the
\* removal did or the removal dropped the index of a newer entry.
GoneIsForgotten ==
  \A c \in Publishers :
    (/\ at[c] = "none" /\ forget[c] = NoForget /\ task[c] = IdleTask
     /\ c \notin ghosts)
    => \A s \in Fleet \cup {SharedStore} : \A e \in DOMAIN entries[s] : e[2] # c

\* The ephemeral store: its counter counts its entries, a joiner is told of
\* everyone present, and nothing of a client that has gone stays.
\* Each as stated above.
PresenceInv == PresenceTypeOK /\ CounterCounts /\ JoinerMissesNobody /\ GoneIsForgotten
=============================================================================
