---------------------------- MODULE PresenceHost ----------------------------
(*************************************************************************)
(* The hosted presence service (services/presence): a client that        *)
(* publishes with one POST at a time and reads a stream, an instance of  *)
(* the service that polls the room its streams show, and the table both  *)
(* work on.                                                              *)
(*                                                                       *)
(* One room, one channel, one instance.  A value is the number of the    *)
(* publish; the store's clock is two facts of a row: that it has         *)
(* expired, and that the least interval since its last write has not     *)
(* passed.  Keys are valid; a stream cut on schedule ("bye") is a stream *)
(* that ends.                                                            *)
(*************************************************************************)
EXTENDS Naturals, Sequences, FiniteSets, SequencesExt

CONSTANTS HostClients,
          MaxRoomEntries,   \* project.maxEntriesPerRoom
          PollFailures,     \* MAX_POLL_FAILURES
          HostBounds        \* bounds: a set of [publishes, opens: client -> n, clears, lapses, faults, cuts]
                            \* and clients: project.maxConnections

ASSUME HostAssumption ==
  /\ {MaxRoomEntries, PollFailures} \subseteq Nat \ {0}
  /\ \A b \in HostBounds :
       /\ \A c \in HostClients : {b.publishes[c], b.opens[c]} \subseteq Nat
       /\ {b.clears, b.lapses, b.faults, b.cuts, b.clients} \subseteq Nat

VARIABLES
  entry,     \* client -> its row: [v, live, hot]; v = 0: none
  published,     \* client -> published, the value; 0: none
  number,    \* client -> values given out
  posts,     \* client -> its publishes under way: [v, landed]
  behind,    \* client -> queued, a value; 0: none
  leaves,    \* client -> a leave is under way
  phase,     \* client -> "connecting", "connected", "closed"
  stream,    \* client -> [at, view]: at "none", "asked", "welcomed", "read", "live"
  hostLine,      \* client -> frames on their way
  hostShown,     \* client -> peer -> value
  watch,     \* the watcher: [on, entries, failures]
  polls,     \* its reads under way
  deaf,      \* [coming, here]: streams whose client has gone unnoticed
  loose,     \* history: client -> peers whose snapshot was not what the watcher had
  dropped,   \* history: clients whose last publish was lost, refused or overtaken by a leave
  revived,   \* history: an expired row was written to in a full room
  hostLeft

hostVars == <<entry, published, number, posts, behind, leaves, phase, stream, hostLine, hostShown, watch, polls, deaf,
              loose, dropped, revived, hostLeft>>

NoEntry  == [v |-> 0, live |-> FALSE, hot |-> FALSE]
Nobody   == [c \in HostClients |-> 0]
NoStream == [at |-> "none", view |-> Nobody]
Asleep   == [on |-> FALSE, entries |-> Nobody, failures |-> 0]

HostInit ==
  /\ entry = [c \in HostClients |-> NoEntry] /\ published = Nobody /\ number = Nobody
  /\ posts = [c \in HostClients |-> {}] /\ behind = Nobody /\ leaves = [c \in HostClients |-> FALSE]
  /\ phase = [c \in HostClients |-> "connecting"]
  /\ stream = [c \in HostClients |-> NoStream] /\ hostLine = [c \in HostClients |-> <<>>]
  /\ hostShown = [c \in HostClients |-> Nobody] /\ watch = Asleep /\ polls = <<>>
  /\ deaf = [coming |-> 0, here |-> 0]
  /\ loose = [c \in HostClients |-> {}] /\ dropped = {} /\ revived = FALSE /\ hostLeft \in HostBounds

SpendHost(k) == hostLeft[k] > 0 /\ hostLeft' = [hostLeft EXCEPT ![k] = @ - 1]
SpendHostOf(k, c) == hostLeft[k][c] > 0 /\ hostLeft' = [hostLeft EXCEPT ![k][c] = @ - 1]

Live == {c \in HostClients : stream[c].at = "live"}

clientVars == <<published, number, posts, behind, leaves, phase>>
serverVars == <<stream, watch, polls, deaf, loose>>

---------------------------------------------------------------------------
(* Publishing (client.ts) and the table (store.ts).                          *)

\* Mutant: a publish does not wait for the one before it.
MayPostNow(c) == TRUE

\* One request in flight per channel.
MayPost(c) == posts[c] = {}

\* send().
Sends(c, v) ==
  IF MayPost(c) THEN posts' = [posts EXCEPT ![c] = @ \cup {[v |-> v, landed |-> FALSE]}] /\ UNCHANGED behind
  ELSE behind' = [behind EXCEPT ![c] = v] /\ UNCHANGED posts

PublishOwn(c) ==
  /\ SpendHostOf("publishes", c)
  /\ number' = [number EXCEPT ![c] = @ + 1] /\ published' = [published EXCEPT ![c] = number'[c]]
  /\ IF phase[c] = "closed"
     THEN dropped' = dropped \cup {c} /\ UNCHANGED <<posts, behind>>
     ELSE Sends(c, number'[c]) /\ UNCHANGED dropped
  /\ UNCHANGED <<entry, leaves, phase, hostLine, hostShown, serverVars, revived>>

LiveIn(e)   == {c \in HostClients : e[c].live}

\* WRITE_SQL: who has a row, expired or not, keeps its place.
RoomFits(c) == Cardinality(LiveIn(entry)) < MaxRoomEntries \/ entry[c].v # 0

\* A publish reaches the service: written, refused for its rate, or for want of
\* a place.
PostLands(c) ==
  \E p \in posts[c] :
    /\ ~ p.landed
    /\ posts' = [posts EXCEPT ![c] = (@ \ {p}) \cup {[p EXCEPT !.landed = TRUE]}]
    /\ IF entry[c].hot \/ ~ RoomFits(c)
       THEN /\ dropped' = IF p.v = published[c] THEN dropped \cup {c} ELSE dropped
            /\ UNCHANGED <<entry, revived>>
       ELSE /\ entry' = [entry EXCEPT ![c] = [v |-> p.v, live |-> TRUE, hot |-> TRUE]]
            /\ dropped' = IF p.v = published[c] THEN dropped \ {c} ELSE dropped
            /\ revived' = (revived \/ (entry[c].v # 0 /\ ~ entry[c].live
                                       /\ Cardinality(LiveIn(entry)) >= MaxRoomEntries))
    /\ UNCHANGED <<published, number, behind, leaves, phase, hostLine, hostShown, serverVars, hostLeft>>

\* Its answer comes, or its failure; what was queued behind it goes, unless the
\* client is closed.
PostEnds(c) ==
  \E p \in posts[c] :
    LET next == IF phase[c] # "closed" THEN behind[c] ELSE 0
    IN /\ IF p.landed THEN UNCHANGED hostLeft ELSE SpendHost("faults")
       /\ dropped' = IF (~ p.landed /\ p.v = published[c]) \/ next # behind[c] THEN dropped \cup {c} ELSE dropped
       /\ posts' = [posts EXCEPT ![c] = (@ \ {p}) \cup
                      IF next # 0 THEN {[v |-> next, landed |-> FALSE]} ELSE {}]
       /\ behind' = [behind EXCEPT ![c] = 0]
       /\ UNCHANGED <<entry, published, number, leaves, phase, hostLine, hostShown, serverVars, revived>>

\* A publish under way is not waited for.
Overtaking(c) == dropped' = IF \E p \in posts[c] : ~ p.landed THEN dropped \cup {c} ELSE dropped

\* clear().
Clear(c) ==
  /\ published[c] # 0 /\ phase[c] # "closed" /\ SpendHost("clears")
  /\ published' = [published EXCEPT ![c] = 0] /\ behind' = [behind EXCEPT ![c] = 0]
  /\ leaves' = [leaves EXCEPT ![c] = TRUE] /\ Overtaking(c)
  /\ UNCHANGED <<entry, number, posts, phase, hostLine, hostShown, serverVars, revived>>

\* detach: the last one stops the watcher.
LeftBy(rest) == IF rest THEN watch ELSE Asleep

\* close(), and the page going: the beacon is a leave.
CloseClient(c) ==
  /\ phase[c] # "closed" /\ SpendHost("clears")
  /\ phase' = [phase EXCEPT ![c] = "closed"] /\ leaves' = [leaves EXCEPT ![c] = TRUE] /\ Overtaking(c)
  /\ stream' = [stream EXCEPT ![c] = NoStream] /\ hostLine' = [hostLine EXCEPT ![c] = <<>>]
  /\ deaf' = IF stream[c].at \in {"asked", "welcomed", "read"} THEN [deaf EXCEPT !.coming = @ + 1] ELSE deaf
  /\ watch' = LeftBy(Live \ {c} # {} \/ deaf.here > 0)
  /\ polls' = IF watch'.on THEN polls ELSE <<>>
  /\ UNCHANGED <<entry, published, number, posts, behind, hostShown, loose, revived>>

\* The leave arrives, a DELETE, or is lost.
LeaveLands(c) ==
  /\ leaves[c] /\ leaves' = [leaves EXCEPT ![c] = FALSE]
  /\ \/ entry' = [entry EXCEPT ![c] = NoEntry] /\ UNCHANGED <<hostLeft, dropped>>
     \/ SpendHost("faults") /\ dropped' = dropped \cup {c} /\ UNCHANGED entry
  /\ UNCHANGED <<published, number, posts, behind, phase, hostLine, hostShown, serverVars, revived>>

\* Time passes for a row; sweep() deletes what has expired.
Cools(c) ==
  /\ entry[c].hot /\ entry' = [entry EXCEPT ![c].hot = FALSE]
  /\ UNCHANGED <<clientVars, hostLine, hostShown, serverVars, dropped, revived, hostLeft>>

Lapses(c) ==
  /\ entry[c].live /\ ~ entry[c].hot /\ SpendHost("lapses")
  /\ entry' = [entry EXCEPT ![c].live = FALSE]
  /\ UNCHANGED <<clientVars, hostLine, hostShown, serverVars, dropped, revived>>

Sweeps ==
  /\ watch.on
  /\ \E c \in HostClients : entry[c].v # 0 /\ ~ entry[c].live
  /\ entry' = [c \in HostClients |-> IF entry[c].live THEN entry[c] ELSE NoEntry]
  /\ UNCHANGED <<clientVars, hostLine, hostShown, serverVars, dropped, revived, hostLeft>>

---------------------------------------------------------------------------
(* Streams (service.ts).                                                   *)

Room == [c \in HostClients |-> IF entry[c].live THEN entry[c].v ELSE 0]

Fold(s, m) == FoldLeft(LAMBDA acc, f : IF f.type = "snapshot" THEN f.view
                                       ELSE IF f.type = "peer" THEN [acc EXCEPT ![f.of] = f.v] ELSE acc, m, s)

\* connect().
OpenLine(c) ==
  /\ phase[c] = "connecting" /\ stream[c].at = "none" /\ hostLine[c] = <<>> /\ SpendHostOf("opens", c)
  /\ stream' = [stream EXCEPT ![c] = [at |-> "asked", view |-> Nobody]]
  /\ UNCHANGED <<entry, clientVars, hostLine, hostShown, watch, polls, deaf, loose, dropped, revived>>

\* hasCapacity: a client with live state of its own is not counted again.
HasCapacity(c) == Cardinality(LiveIn(entry)) < hostLeft.clients \/ entry[c].live

Denied(c) ==
  /\ stream' = [stream EXCEPT ![c] = NoStream]
  /\ hostLine' = [hostLine EXCEPT ![c] = Append(@, [type |-> "fatal"])]

\* openStream as far as the welcome; a store that cannot be asked denies.
Welcome(c) ==
  /\ stream[c].at = "asked"
  /\ \/ /\ HasCapacity(c)
        /\ stream' = [stream EXCEPT ![c].at = "welcomed"]
        /\ hostLine' = [hostLine EXCEPT ![c] = Append(@, [type |-> "welcome"])]
        /\ UNCHANGED hostLeft
     \/ ~ HasCapacity(c) /\ Denied(c) /\ UNCHANGED hostLeft
     \/ SpendHost("faults") /\ Denied(c)
  /\ UNCHANGED <<entry, clientVars, hostShown, watch, polls, deaf, loose, dropped, revived>>

\* The room is read fresh, or cannot be.
ReadEntries(c) ==
  /\ stream[c].at = "welcomed"
  /\ \/ /\ stream' = [stream EXCEPT ![c] = [at |-> "read", view |-> Room]]
        /\ UNCHANGED <<hostLine, hostLeft>>
     \/ SpendHost("faults") /\ Denied(c)
  /\ UNCHANGED <<entry, clientVars, hostShown, watch, polls, deaf, loose, dropped, revived>>

But(c, view) == [view EXCEPT ![c] = 0]

Woken == IF watch.on THEN watch ELSE [Asleep EXCEPT !.on = TRUE]

\* The snapshot is sent and the stream joins the watcher, which may have seen
\* more of the room by then, or less.
JoinWatch(c) ==
  /\ stream[c].at = "read"
  /\ stream' = [stream EXCEPT ![c].at = "live"]
  /\ hostLine' = [hostLine EXCEPT ![c] = Append(@, [type |-> "snapshot", view |-> But(c, stream[c].view)])]
  /\ watch' = Woken
  /\ loose' = [loose EXCEPT ![c] = {d \in HostClients \ {c} : stream[c].view[d] # watch'.entries[d]}]
  /\ UNCHANGED <<entry, clientVars, hostShown, polls, deaf, dropped, revived, hostLeft>>

\* poll(): the read; the timer does not wait for the last one.
PollReads ==
  /\ watch.on /\ Len(polls) < 2
  /\ polls' = Append(polls, Room)
  /\ UNCHANGED <<entry, clientVars, hostLine, hostShown, stream, watch, deaf, loose, dropped, revived, hostLeft>>

\* What differs from the last view, what is gone from it too.
Differing(next) == {d \in HostClients : next[d] # watch.entries[d]}

WatcherFrames(next, c) ==
  SetToSeq({[type |-> "peer", of |-> d, v |-> next[d]] : d \in Differing(next) \ {c}})

\* poll(): the rest, for a read that came.  Reads may come in either order.
PollEnds ==
  \E i \in DOMAIN polls :
    /\ hostLine' = [c \in HostClients |-> IF c \in Live THEN hostLine[c] \o WatcherFrames(polls[i], c) ELSE hostLine[c]]
    /\ loose' = [c \in HostClients |-> loose[c] \ (Differing(polls[i]) \ {c})]
    /\ watch' = [watch EXCEPT !.entries = polls[i], !.failures = 0]
    /\ polls' = RemoveAt(polls, i)
    /\ UNCHANGED <<entry, clientVars, hostShown, stream, deaf, dropped, revived, hostLeft>>

\* A read failed; after enough of them every stream is told and closed.
PollFails ==
  \E i \in DOMAIN polls :
    /\ SpendHost("faults")
    /\ IF watch.failures + 1 < PollFailures
       THEN /\ watch' = [watch EXCEPT !.failures = @ + 1] /\ polls' = RemoveAt(polls, i)
            /\ UNCHANGED <<hostLine, stream, deaf>>
       ELSE /\ watch' = Asleep /\ polls' = <<>>
            /\ hostLine' = [c \in HostClients |-> IF c \in Live THEN Append(hostLine[c], [type |-> "fatal"]) ELSE hostLine[c]]
            /\ stream' = [c \in HostClients |-> IF c \in Live THEN NoStream ELSE stream[c]]
            /\ deaf' = [deaf EXCEPT !.here = 0]
    /\ UNCHANGED <<entry, clientVars, hostShown, loose, dropped, revived>>

\* A stream ends: its time is over (55 s), or its client has gone and the
\* instance is told.  The client learns of it after what was sent.
StreamEnds(c) ==
  /\ stream[c].at = "live" /\ SpendHost("cuts")
  /\ stream' = [stream EXCEPT ![c] = NoStream]
  /\ hostLine' = [hostLine EXCEPT ![c] = Append(@, [type |-> "end"])]
  /\ watch' = LeftBy(Live \ {c} # {} \/ deaf.here > 0)
  /\ polls' = IF watch'.on THEN polls ELSE <<>>
  /\ UNCHANGED <<entry, clientVars, hostShown, deaf, loose, dropped, revived>>

\* The connection breaks before the stream is joined: nothing to finish yet, and
\* the stream joins all the same.
BreaksEarly(c) ==
  /\ stream[c].at \in {"asked", "welcomed", "read"} /\ SpendHost("cuts")
  /\ stream' = [stream EXCEPT ![c] = NoStream]
  /\ hostLine' = [hostLine EXCEPT ![c] = <<[type |-> "end"]>>]
  /\ deaf' = [deaf EXCEPT !.coming = @ + 1]
  /\ UNCHANGED <<entry, clientVars, hostShown, watch, polls, loose, dropped, revived>>

DeafJoins ==
  /\ deaf.coming > 0
  /\ deaf' = [coming |-> deaf.coming - 1, here |-> deaf.here + 1]
  /\ watch' = Woken
  /\ UNCHANGED <<entry, clientVars, hostLine, hostShown, stream, polls, loose, dropped, revived, hostLeft>>

\* Its time is over as any other's.
DeafEnds ==
  /\ deaf.here > 0
  /\ deaf' = [deaf EXCEPT !.here = @ - 1]
  /\ watch' = LeftBy(Live # {} \/ deaf.here > 1)
  /\ polls' = IF watch'.on THEN polls ELSE <<>>
  /\ UNCHANGED <<entry, clientVars, hostLine, hostShown, stream, loose, dropped, revived, hostLeft>>

---------------------------------------------------------------------------
(* The client's handle().                                                  *)

HandleFrame(c) ==
  /\ hostLine[c] # <<>> /\ phase[c] # "closed"
  /\ hostLine' = [hostLine EXCEPT ![c] = Tail(@)]
  /\ LET f == Head(hostLine[c])
     IN /\ hostShown' = [hostShown EXCEPT ![c] = Fold(<<f>>, @)]
        /\ phase' = [phase EXCEPT ![c] = CASE f.type = "welcome" -> "connected" [] f.type = "end" -> "connecting"
                                           [] f.type = "fatal" -> "closed" [] OTHER -> @]
        /\ IF f.type = "welcome" /\ published[c] # 0 THEN Sends(c, published[c]) ELSE UNCHANGED <<posts, behind>>
  /\ UNCHANGED <<entry, published, number, leaves, serverVars, dropped, revived, hostLeft>>

---------------------------------------------------------------------------
HostNext ==
  \/ \E c \in HostClients :
       \/ PublishOwn(c) \/ PostLands(c) \/ PostEnds(c) \/ Clear(c) \/ CloseClient(c) \/ LeaveLands(c)
       \/ Cools(c) \/ Lapses(c)
       \/ OpenLine(c) \/ Welcome(c) \/ ReadEntries(c) \/ JoinWatch(c) \/ StreamEnds(c) \/ BreaksEarly(c)
       \/ HandleFrame(c)
  \/ Sweeps \/ PollReads \/ PollEnds \/ PollFails \/ DeafJoins \/ DeafEnds

HostSpec == HostInit /\ [][HostNext]_hostVars

---------------------------------------------------------------------------
\* A watcher polls exactly while a stream wants its room.
HostTypeOK ==
  /\ watch.on <=> Live # {} \/ deaf.here > 0
  /\ ~ watch.on => polls = <<>>
  /\ \A c \in HostClients : entry[c].live => entry[c].v # 0

\* A stream shows, once its frames are handled, what the watcher of its room last
\* saw: the differences the watcher sends are enough (service.ts, poll).  But for
\* peers that were otherwise in the stream's snapshot, until they move.
ShowsTheRoom ==
  \A c \in Live, d \in HostClients :
    d # c /\ d \notin loose[c] => Fold(hostLine[c], hostShown[c])[d] = watch.entries[d]

\* What a client published last is what the table holds of it, unless that has
\* expired, or was refused, lost or left (client.ts: one request in flight, "at
\* most one queued behind it").
LastPublishWins ==
  \A c \in HostClients :
    posts[c] = {} /\ ~ leaves[c] /\ c \notin dropped /\ entry[c].v # 0 => entry[c].v = published[c]

\* A room holds no more than its limit, but for expired rows taken up again.
RoomHasPlaces == ~ revived => Cardinality(LiveIn(entry)) <= MaxRoomEntries

\* The hosted presence service: a client shows the room the service keeps, the
\* last state it published wins, and no room holds more than its places.
\* Each as stated above.
HostInv == HostTypeOK /\ ShowsTheRoom /\ LastPublishWins /\ RoomHasPlaces
=============================================================================
