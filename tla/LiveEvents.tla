----------------------------- MODULE LiveEvents -----------------------------
(***************************************************************************)
(* What a page shows of its peers' ephemeral events: useEphemeral of       *)
(* react/hooks.ts, ephemeral() of svelte/stores.ts and of vanilla/sync.ts, *)
(* over the listeners SyncClient keeps per key (client/sync-client.ts      *)
(* subscribeEphemeral).  A view shows the last event of each peer and,     *)
(* with a ttl, takes it down again that long after.                        *)
(*                                                                         *)
(* Events arrive in the order receiveEphemeral hands them on; an event is  *)
(* the number of its arrival.                                              *)
(***************************************************************************)
EXTENDS Integers, Sequences

CONSTANTS
    Views,
    ViewKind,       \* view -> "react", "svelte" or "vanilla"
    TtlOf,        \* view -> its ttlMs in ticks, 0 when it has none
    EventKeys, EventPeers,
    LiveEnd,      \* time ends here
    LiveBounds    \* records [arrives, opens, closes, rekeys, again]

Unheard == "nothing"

ASSUME LiveConstants ==
    /\ ViewKind \in [Views -> {"react", "svelte", "vanilla"}]
    /\ TtlOf \in [Views -> Nat]
    /\ Unheard \notin EventKeys
    /\ \A b \in LiveBounds :
        b \in [{"arrives", "opens", "closes", "rekeys", "again"} -> Nat]

VARIABLES
    liveNow,
    openViews,    \* views that are mounted, or not destroyed
    viewKey,      \* view -> the key it listens or listened to, or Unheard
    viewSet,      \* view -> the Set of listeners its unsubscribe closes over
    shownEvent,   \* view -> peer -> the event it shows, 0 for none
    takeDown,     \* view -> peer -> when its timer fires, 0 when none is set
    keySet,       \* ephemeralListeners: key -> its Set of listeners, 0 for none
    setMembers,   \* the Sets made so far: the views in each
    arrivedLast,  \* history: view -> peer -> [event, at] of the last arrival since
                  \* it began to listen to its key
    closedTwice,  \* history: some view was destroyed once more
    liveLeft

liveVars == <<liveNow, openViews, viewKey, viewSet, shownEvent, takeDown, keySet, setMembers,
              arrivedLast, closedTwice, liveLeft>>

NoEvent == [event |-> 0, at |-> 0]
NothingShown == [p \in EventPeers |-> 0]
LiveSpends(what) == liveLeft[what] > 0 /\ liveLeft' = [liveLeft EXCEPT ![what] = @ - 1]

LiveInit ==
    /\ liveNow = 1
    /\ openViews = {} /\ closedTwice = FALSE
    /\ viewKey = [v \in Views |-> Unheard]
    /\ viewSet = [v \in Views |-> 0]
    /\ shownEvent = [v \in Views |-> NothingShown]
    /\ takeDown = [v \in Views |-> NothingShown]
    /\ keySet = [k \in EventKeys |-> 0]
    /\ setMembers = <<>>
    /\ arrivedLast = [v \in Views |-> [p \in EventPeers |-> NoEvent]]
    /\ liveLeft \in LiveBounds

-----------------------------------------------------------------------------
(* The client's listeners: [keys, members] before and after. *)

Listeners == [keys |-> keySet, members |-> setMembers]

\* subscribeEphemeral: into the key's Set, a new one when it has none.
Subscribed(ls, v, k) ==
    IF ls.keys[k] # 0 THEN [ls EXCEPT !.members[ls.keys[k]] = @ \cup {v}]
    ELSE [keys |-> [ls.keys EXCEPT ![k] = Len(ls.members) + 1],
          members |-> Append(ls.members, {v})]

\* The unsubscribe it returned: out of the Set it closes over; when that is
\* empty, the key has no listeners any more.
Unsubscribed(ls, v) ==
    [keys |-> IF ls.members[viewSet[v]] \ {v} = {}
              THEN [ls.keys EXCEPT ![viewKey[v]] = 0] ELSE ls.keys,
     members |-> [ls.members EXCEPT ![viewSet[v]] = @ \ {v}]]

SetListeners(ls) == keySet' = ls.keys /\ setMembers' = ls.members

\* A view listens to a key: on mount, or when it is created.
Opens(v, k) ==
    /\ v \notin openViews
    /\ LiveSpends("opens")
    /\ LET ls == Subscribed(Listeners, v, k)
       IN  /\ SetListeners(ls)
           /\ viewSet' = [viewSet EXCEPT ![v] = ls.keys[k]]
    /\ viewKey' = [viewKey EXCEPT ![v] = k]
    /\ shownEvent' = [shownEvent EXCEPT ![v] = NothingShown]
    /\ arrivedLast' = [arrivedLast EXCEPT ![v] = [p \in EventPeers |-> NoEvent]]
    /\ openViews' = openViews \cup {v}
    /\ UNCHANGED <<liveNow, takeDown, closedTwice>>

\* destroy(), or an unmount: it listens no more, and its timers are cleared.
Closes(v) ==
    /\ v \in openViews
    /\ LiveSpends("closes")
    /\ SetListeners(Unsubscribed(Listeners, v))
    /\ openViews' = openViews \ {v}
    /\ takeDown' = [takeDown EXCEPT ![v] = NothingShown]
    /\ UNCHANGED <<liveNow, viewKey, viewSet, shownEvent, arrivedLast, closedTwice>>

\* destroy() once more: the unsubscribe runs again.
ClosesAgain(v) ==
    /\ v \notin openViews /\ viewKey[v] # Unheard /\ ViewKind[v] # "react"
    /\ LiveSpends("again")
    /\ SetListeners(Unsubscribed(Listeners, v))
    /\ closedTwice' = TRUE
    /\ UNCHANGED <<liveNow, openViews, viewKey, viewSet, shownEvent, takeDown, arrivedLast>>

\* A hook rendered with another key: the effect is cleaned up and run again,
\* its events stay.
Rekeys(v, k) ==
    /\ ViewKind[v] = "react" /\ v \in openViews /\ viewKey[v] # k
    /\ LiveSpends("rekeys")
    /\ LET ls == Subscribed(Unsubscribed(Listeners, v), v, k)
       IN  /\ SetListeners(ls)
           /\ viewSet' = [viewSet EXCEPT ![v] = ls.keys[k]]
    /\ viewKey' = [viewKey EXCEPT ![v] = k]
    /\ takeDown' = [takeDown EXCEPT ![v] = NothingShown]
    /\ arrivedLast' = [arrivedLast EXCEPT ![v] = [p \in EventPeers |-> NoEvent]]
    /\ UNCHANGED <<liveNow, openViews, shownEvent, closedTwice>>

-----------------------------------------------------------------------------

\* With a ttl, a timer is set for the peer in place of the one it has.
Rearmed(v, p) ==
    IF TtlOf[v] > 0 THEN [takeDown[v] EXCEPT ![p] = liveNow + TtlOf[v]] ELSE takeDown[v]

\* An event of a peer is handed to every listener of its key.
Hears(k) == IF keySet[k] = 0 THEN {} ELSE setMembers[keySet[k]]
EventArrives(k, p) ==
    LET event == liveLeft.arrives
    IN  /\ LiveSpends("arrives")
        /\ shownEvent' = [v \in Views |->
            IF v \in Hears(k) THEN [shownEvent[v] EXCEPT ![p] = event] ELSE shownEvent[v]]
        /\ takeDown' = [v \in Views |-> IF v \in Hears(k) THEN Rearmed(v, p) ELSE takeDown[v]]
        /\ arrivedLast' = [v \in Views |->
            IF v \in openViews /\ viewKey[v] = k
            THEN [arrivedLast[v] EXCEPT ![p] = [event |-> event, at |-> liveNow]]
            ELSE arrivedLast[v]]
        /\ UNCHANGED <<liveNow, openViews, viewKey, viewSet, keySet, setMembers, closedTwice>>

\* A timer fires: the peer's entry goes.
TakesDown(v, p) ==
    /\ takeDown[v][p] = liveNow
    /\ shownEvent' = [shownEvent EXCEPT ![v][p] = 0]
    /\ takeDown' = [takeDown EXCEPT ![v][p] = 0]
    /\ UNCHANGED <<liveNow, openViews, viewKey, viewSet, keySet, setMembers, arrivedLast,
                   closedTwice, liveLeft>>

LiveTick ==
    /\ liveNow < LiveEnd
    /\ \A v \in Views, p \in EventPeers : takeDown[v][p] # liveNow
    /\ liveNow' = liveNow + 1
    /\ UNCHANGED <<openViews, viewKey, viewSet, shownEvent, takeDown, keySet, setMembers,
                   arrivedLast, closedTwice, liveLeft>>

LiveNext ==
    \/ LiveTick
    \/ \E k \in EventKeys, p \in EventPeers : EventArrives(k, p)
    \/ \E v \in Views :
        \/ Closes(v) \/ ClosesAgain(v)
        \/ \E k \in EventKeys : Opens(v, k) \/ Rekeys(v, k)
        \/ \E p \in EventPeers : TakesDown(v, p)

LiveSpec == LiveInit /\ [][LiveNext]_liveVars

-----------------------------------------------------------------------------

\* Values are of their kind; a Set the client still has for a key is not empty.
LiveTypeOK ==
    /\ viewKey \in [Views -> EventKeys \cup {Unheard}]
    /\ keySet \in [EventKeys -> 0 .. Len(setMembers)]
    /\ \A k \in EventKeys : keySet[k] # 0 => setMembers[keySet[k]] # {}

\* An open view is among the listeners the client has for its key, whichever
\* views of the key came and went, each once.
OpenIsHeard == closedTwice \/ \A v \in openViews : v \in Hears(viewKey[v])

\* An open view shows the last event of a peer until its ttl is over: no timer
\* of an earlier event takes it down.
LastIsShown ==
    closedTwice \/ \A v \in openViews, p \in EventPeers :
        LET last == arrivedLast[v][p]
        IN  (last.event # 0 /\ (TtlOf[v] = 0 \/ liveNow < last.at + TtlOf[v]))
                => shownEvent[v][p] = last.event

\* With a ttl, what an open view shows of a peer that fell silent goes: its
\* timer is running. (What a hook keeps from the key it had before does not, and
\* a view that was destroyed twice may have taken other views' listeners along.)
ShownGoes ==
    closedTwice \/ \A v \in openViews, p \in EventPeers :
        (TtlOf[v] > 0 /\ shownEvent[v][p] # 0 /\ arrivedLast[v][p].event # 0)
            => takeDown[v][p] # 0

\* An open ephemeral hook hears its events, shows the last, and stops showing
\* it when its time is up.
\* Each as stated above.
LiveInv == LiveTypeOK /\ OpenIsHeard /\ LastIsShown /\ ShownGoes
=============================================================================
