---------------------------- MODULE PagesProofs ----------------------------
(***************************************************************************)
(* Theorems about what a page binds to its client: the events of its peers *)
(* (LiveEvents), who is subscribed to what (Subscriptions), the views of   *)
(* htmx (HtmxViews) and what it keeps on its disk (ClientDisk).            *)
(***************************************************************************)
EXTENDS MCPages, FiniteSetTheorems, SequenceTheorems, TLAPS

-----------------------------------------------------------------------------
(* LiveEvents.                                                             *)

LiveParts == {"arrives", "opens", "closes", "rekeys", "again"}
PeerTimes == [EventPeers -> Nat]

\* The client's Sets: each key has its own, never an empty one, and a view's
\* unsubscribe closes over one of the key it listens or listened to.
SetsAreSound(keys, members, vs, vk) ==
  /\ members \in Seq(SUBSET Views) /\ keys \in [EventKeys -> 0..Len(members)]
  /\ vs \in [Views -> 0..Len(members)] /\ vk \in [Views -> EventKeys \cup {Unheard}]
  /\ \A k \in EventKeys : keys[k] # 0 => members[keys[k]] # {}
  /\ \A j, k \in EventKeys : keys[j] = keys[k] /\ keys[j] # 0 => j = k
  /\ \A v \in Views : vk[v] # Unheard => vs[v] # 0
  /\ \A v \in Views, k \in EventKeys : keys[k] # 0 /\ vs[v] = keys[k] => vk[v] = k

\* Each open view is in the Set its key has, and in no other; a closed one in none.
ListenersAreOpen(keys, members, vs, vk, ov) ==
  /\ \A v \in ov : vk[v] \in EventKeys /\ keys[vk[v]] = vs[v] /\ vs[v] # 0 /\ v \in members[vs[v]]
  /\ \A i \in 1..Len(members) : \A v \in members[i] : v \in ov /\ vs[v] = i

LiveShape ==
  /\ liveNow \in Nat /\ liveNow > 0 /\ liveLeft \in [LiveParts -> Nat]
  /\ openViews \subseteq Views /\ \A v \in openViews : viewKey[v] # Unheard
  /\ shownEvent \in [Views -> PeerTimes] /\ takeDown \in [Views -> PeerTimes]
  /\ \A v \in Views, p \in EventPeers : TtlOf[v] = 0 => takeDown[v][p] = 0
  /\ arrivedLast \in [Views -> [EventPeers -> [event : Nat, at : Nat]]]

\* What an open view shows of a peer that has sent something: its last event, with
\* the timer of that event if it has a ttl, or nothing, when that time is over.
EventsAreTimed ==
  \A v \in openViews, p \in EventPeers :
    LET last == arrivedLast[v][p]
    IN  last.event # 0 =>
          \/ TtlOf[v] = 0 /\ shownEvent[v][p] = last.event
          \/ /\ TtlOf[v] > 0 /\ shownEvent[v][p] = last.event
             /\ takeDown[v][p] = last.at + TtlOf[v] /\ takeDown[v][p] >= liveNow
          \/ TtlOf[v] > 0 /\ shownEvent[v][p] = 0 /\ liveNow >= last.at + TtlOf[v]

LiveIInv ==
  /\ LiveShape
  /\ SetsAreSound(keySet, setMembers, viewSet, viewKey)
  /\ closedTwice \/ /\ ListenersAreOpen(keySet, setMembers, viewSet, viewKey, openViews)
                    /\ EventsAreTimed

\* The inductive invariant implies the one the run checks.
LEMMA LiveIInvImplies == LiveIInv => LiveInv
<1> SUFFICES ASSUME LiveIInv PROVE LiveInv
  OBVIOUS
<1> USE DEF LiveIInv
<1>1. LiveTypeOK
  BY DEF LiveTypeOK, SetsAreSound
<1>2. OpenIsHeard
  BY DEF OpenIsHeard, Hears, ListenersAreOpen
<1>3. LastIsShown
  <2> SUFFICES ASSUME ~closedTwice, NEW v \in openViews, NEW p \in EventPeers,
                      arrivedLast[v][p].event # 0,
                      TtlOf[v] = 0 \/ liveNow < arrivedLast[v][p].at + TtlOf[v]
               PROVE  shownEvent[v][p] = arrivedLast[v][p].event
    BY DEF LastIsShown
  <2>1. v \in Views /\ TtlOf[v] \in Nat /\ arrivedLast[v][p].at \in Nat /\ liveNow \in Nat
    BY LiveConstants DEF LiveShape
  <2> QED BY <2>1 DEF EventsAreTimed
<1>4. ShownGoes
  <2> SUFFICES ASSUME ~closedTwice, NEW v \in openViews, NEW p \in EventPeers, TtlOf[v] > 0,
                      shownEvent[v][p] # 0, arrivedLast[v][p].event # 0
               PROVE  takeDown[v][p] # 0
    BY DEF ShownGoes
  <2>1. v \in Views /\ TtlOf[v] \in Nat /\ arrivedLast[v][p].at \in Nat
    BY LiveConstants DEF LiveShape
  <2> QED BY <2>1 DEF EventsAreTimed
<1> QED BY <1>1, <1>2, <1>3, <1>4 DEF LiveInv

\* The invariant holds at the start, when nothing listens.
LEMMA LiveStarts == LiveInit => LiveIInv
<1> SUFFICES ASSUME LiveInit PROVE LiveIInv
  OBVIOUS
<1> USE LiveConstants DEF LiveInit
<1>1. LiveShape
  BY DEF LiveShape, LiveParts, PeerTimes, NothingShown, NoEvent
<1>2. setMembers = <<>> /\ setMembers \in Seq(SUBSET Views) /\ Len(setMembers) = 0
  BY EmptySeq
<1>3. SetsAreSound(keySet, setMembers, viewSet, viewKey)
  BY <1>2 DEF SetsAreSound
<1>4. ListenersAreOpen(keySet, setMembers, viewSet, viewKey, openViews)
  BY <1>2 DEF ListenersAreOpen
<1>5. EventsAreTimed
  BY DEF EventsAreTimed
<1> QED BY <1>1, <1>3, <1>4, <1>5 DEF LiveIInv

ListenerSets == [keys : [EventKeys -> Nat], members : Seq(SUBSET Views)]

\* subscribeEphemeral gives the key a Set that has the view.
LEMMA SubscribedIs ==
  ASSUME NEW ls \in ListenerSets, NEW v \in Views, NEW k \in EventKeys,
         ls.keys[k] \in 0..Len(ls.members)
  PROVE  LET s == Subscribed(ls, v, k)
             n == s.keys[k]
         IN  /\ s.members \in Seq(SUBSET Views) /\ Len(s.members) \in Nat
             /\ n \in 1..Len(s.members) /\ Len(ls.members) <= Len(s.members)
             /\ s.keys = [ls.keys EXCEPT ![k] = n]
             /\ v \in s.members[n]
             /\ \A i \in 1..Len(s.members) : i # n => i \in 1..Len(ls.members) /\ s.members[i] = ls.members[i]
             /\ ls.keys[k] # 0 => n = ls.keys[k] /\ s.members[n] = ls.members[n] \cup {v}
             /\ ls.keys[k] = 0 => n = Len(ls.members) + 1 /\ s.members[n] = {v}
<1> DEFINE s == Subscribed(ls, v, k)
<1>1. Len(ls.members) \in Nat /\ ls.members \in Seq(SUBSET Views) /\ ls.keys \in [EventKeys -> Nat]
  BY LenProperties DEF ListenerSets
<1>2. CASE ls.keys[k] # 0
  <2>1. s = [ls EXCEPT !.members[ls.keys[k]] = @ \cup {v}]
    BY <1>2 DEF Subscribed
  <2>2. s.keys = ls.keys /\ s.members = [ls.members EXCEPT ![ls.keys[k]] = @ \cup {v}]
    BY <2>1 DEF ListenerSets
  <2>3. ls.members[ls.keys[k]] \cup {v} \in SUBSET Views
    BY <1>1, <1>2
  <2>4. s.members \in Seq(SUBSET Views) /\ Len(s.members) = Len(ls.members)
    BY <1>1, <1>2, <2>2, <2>3, ExceptSeq
  <2>5. ls.keys = [ls.keys EXCEPT ![k] = ls.keys[k]]
    BY <1>1
  <2>6. \A i \in 1..Len(s.members) : s.members[i] = IF i = ls.keys[k] THEN ls.members[ls.keys[k]] \cup {v} ELSE ls.members[i]
    <3> DEFINE e == ls.members[ls.keys[k]] \cup {v}
    <3>1. s.members = [ls.members EXCEPT ![ls.keys[k]] = e]
      BY <2>2
    <3>2. e \in SUBSET Views /\ ls.keys[k] \in 1..Len(ls.members)
      BY <1>1, <1>2, <2>3
    <3> HIDE DEF e, s
    <3>3. \A j \in 1..Len(ls.members) : [ls.members EXCEPT ![ls.keys[k]] = e][j] = IF j = ls.keys[k] THEN e ELSE ls.members[j]
      BY <1>1, <3>2, ExceptSeq
    <3> QED BY <2>4, <3>1, <3>3 DEF e
  <2> HIDE DEF s
  <2>7. ls.keys[k] \in 1..Len(ls.members)
    BY <1>1, <1>2
  <2> QED BY <1>1, <1>2, <2>2, <2>4, <2>5, <2>6, <2>7 DEF s
<1>3. CASE ls.keys[k] = 0
  <2>1. s.keys = [ls.keys EXCEPT ![k] = Len(ls.members) + 1] /\ s.members = Append(ls.members, {v})
    BY <1>3 DEF Subscribed
  <2>2. s.members \in Seq(SUBSET Views) /\ Len(s.members) = Len(ls.members) + 1
        /\ s.members[Len(ls.members) + 1] = {v}
        /\ \A i \in 1..Len(ls.members) : s.members[i] = ls.members[i]
    BY <1>1, <2>1, AppendProperties
  <2> HIDE DEF s
  <2>3. s.keys[k] = Len(ls.members) + 1 /\ s.keys = [ls.keys EXCEPT ![k] = s.keys[k]]
    BY <1>1, <2>1
  <2>4. \A i \in 1..Len(s.members) : i # s.keys[k] => i \in 1..Len(ls.members)
    BY <1>1, <2>2, <2>3
  <2> HIDE DEF s
  <2> QED BY <1>1, <1>3, <2>2, <2>3, <2>4 DEF s
<1> QED BY <1>2, <1>3

\* Sets stay sound when a view subscribes, and it is the one more that listens.
LEMMA SubscribingIsSound ==
  ASSUME NEW ls \in ListenerSets, NEW vs, NEW vk, NEW ov, NEW v \in Views, NEW k \in EventKeys,
         SetsAreSound(ls.keys, ls.members, vs, vk)
  PROVE  LET s  == Subscribed(ls, v, k)
             ws == [vs EXCEPT ![v] = s.keys[k]]
             wk == [vk EXCEPT ![v] = k]
         IN  /\ s \in ListenerSets /\ SetsAreSound(s.keys, s.members, ws, wk)
             /\ ListenersAreOpen(ls.keys, ls.members, vs, vk, ov) /\ v \notin ov /\ ov \subseteq Views
                  => ListenersAreOpen(s.keys, s.members, ws, wk, ov \cup {v})
<1> DEFINE s  == Subscribed(ls, v, k)
           n  == s.keys[k]
           ws == [vs EXCEPT ![v] = s.keys[k]]
           wk == [vk EXCEPT ![v] = k]
<1>1. ls.keys[k] \in 0..Len(ls.members)
  BY DEF SetsAreSound
<1>2. /\ s.members \in Seq(SUBSET Views) /\ Len(s.members) \in Nat
      /\ n \in 1..Len(s.members) /\ Len(ls.members) <= Len(s.members)
      /\ s.keys = [ls.keys EXCEPT ![k] = n]
      /\ v \in s.members[n]
      /\ \A i \in 1..Len(s.members) : i # n => i \in 1..Len(ls.members) /\ s.members[i] = ls.members[i]
      /\ ls.keys[k] # 0 => n = ls.keys[k] /\ s.members[n] = ls.members[n] \cup {v}
      /\ ls.keys[k] = 0 => n = Len(ls.members) + 1 /\ s.members[n] = {v}
  BY <1>1, SubscribedIs
<1>3. s = [keys |-> s.keys, members |-> s.members]
  BY DEF Subscribed, ListenerSets
<1>4. Len(ls.members) \in Nat
  BY LenProperties DEF ListenerSets
<1> HIDE DEF s
<1>5. SetsAreSound(s.keys, s.members, ws, wk)
  <2> USE DEF SetsAreSound
  <2>1. s.keys \in [EventKeys -> 0..Len(s.members)] /\ ws \in [Views -> 0..Len(s.members)]
        /\ wk \in [Views -> EventKeys \cup {Unheard}]
    <3>1. 0..Len(ls.members) \subseteq 0..Len(s.members) /\ n \in 0..Len(s.members)
      BY <1>2, <1>4
    <3>2. ws \in [Views -> 0..Len(s.members)] /\ wk \in [Views -> EventKeys \cup {Unheard}]
      BY <3>1
    <3>3. ls.keys \in [EventKeys -> 0..Len(s.members)]
      BY <3>1
    <3>4. [ls.keys EXCEPT ![k] = n] \in [EventKeys -> 0..Len(s.members)]
      BY <3>1, <3>3
    <3> QED BY <1>2, <3>2, <3>4
  <2>2. \A j \in EventKeys : s.keys[j] # 0 => s.members[s.keys[j]] # {}
    <3> SUFFICES ASSUME NEW j \in EventKeys, s.keys[j] # 0 PROVE s.members[s.keys[j]] # {}
      OBVIOUS
    <3>1. CASE s.keys[j] = n
      BY <1>2, <3>1
    <3>2. CASE s.keys[j] # n
      <4>1. s.keys[j] = ls.keys[j] /\ s.keys[j] \in 1..Len(s.members)
        BY <1>2, <2>1, <3>2
      <4>2. s.members[s.keys[j]] = ls.members[ls.keys[j]]
        BY <1>2, <3>2, <4>1
      <4> QED BY <3>2, <4>1, <4>2
    <3> QED BY <3>1, <3>2
  <2>3. \A i, j \in EventKeys : s.keys[i] = s.keys[j] /\ s.keys[i] # 0 => i = j
    <3> SUFFICES ASSUME NEW i \in EventKeys, NEW j \in EventKeys, s.keys[i] = s.keys[j],
                        s.keys[i] # 0, i # j
                 PROVE  FALSE
      OBVIOUS
    <3>1. CASE i # k /\ j # k
      BY <1>2, <3>1
    <3>2. CASE i = k \/ j = k
      <4>1. PICK x \in EventKeys : x # k /\ ls.keys[x] = n
        BY <1>2, <3>2
      <4>2. n \in 1..Len(ls.members)
        BY <1>2, <1>4, <4>1
      <4>3. ls.keys[k] = n
        BY <1>2, <1>4, <4>2
      <4> QED BY <1>2, <4>1, <4>3
    <3> QED BY <3>1, <3>2
  <2>4. \A w \in Views : wk[w] # Unheard => ws[w] # 0
    BY <1>2, <1>4
  <2>5. \A w \in Views, j \in EventKeys : s.keys[j] # 0 /\ ws[w] = s.keys[j] => wk[w] = j
    <3> SUFFICES ASSUME NEW w \in Views, NEW j \in EventKeys, s.keys[j] # 0, ws[w] = s.keys[j]
                 PROVE  wk[w] = j
      OBVIOUS
    <3>1. CASE w = v
      BY <3>1, <2>3
    <3>2. CASE w # v /\ j # k
      BY <1>2, <3>2
    <3>3. CASE w # v /\ j = k
      BY <1>2, <3>3, <1>4
    <3> QED BY <3>1, <3>2, <3>3
  <2> QED BY <1>2, <2>1, <2>2, <2>3, <2>4, <2>5
<1>6. s \in ListenerSets
  BY <1>2, <1>5, <1>3 DEF SetsAreSound, ListenerSets
<1>7. ASSUME ListenersAreOpen(ls.keys, ls.members, vs, vk, ov), v \notin ov, ov \subseteq Views
      PROVE  ListenersAreOpen(s.keys, s.members, ws, wk, ov \cup {v})
  <2>1. \A w \in ov : /\ vk[w] \in EventKeys /\ ls.keys[vk[w]] = vs[w] /\ vs[w] # 0
                        /\ w \in ls.members[vs[w]] /\ w \in Views /\ w # v
                        /\ vs[w] \in 1..Len(ls.members)
    BY <1>4, <1>7 DEF ListenersAreOpen, SetsAreSound
  <2>2. \A w \in ov : /\ wk[w] \in EventKeys /\ s.keys[wk[w]] = ws[w] /\ ws[w] # 0
                        /\ w \in s.members[ws[w]]
    <3> SUFFICES ASSUME NEW w \in ov
                 PROVE  wk[w] \in EventKeys /\ s.keys[wk[w]] = ws[w] /\ ws[w] # 0 /\ w \in s.members[ws[w]]
      OBVIOUS
    <3>1. wk[w] = vk[w] /\ ws[w] = vs[w]
      BY <2>1 DEF SetsAreSound
    <3>2. s.keys[vk[w]] = vs[w]
      BY <1>2, <2>1 DEF SetsAreSound
    <3>3. w \in s.members[vs[w]]
      BY <1>2, <1>4, <2>1
    <3> QED BY <2>1, <3>1, <3>2, <3>3
  <2>3. wk[v] = k /\ ws[v] = n /\ s.keys[k] = n /\ n # 0
    BY <1>2 DEF SetsAreSound
  <2>4. \A i \in 1..Len(s.members) : \A w \in s.members[i] : w \in ov \cup {v} /\ ws[w] = i
    <3> SUFFICES ASSUME NEW i \in 1..Len(s.members), NEW w \in s.members[i]
                 PROVE  w \in ov \cup {v} /\ ws[w] = i
      OBVIOUS
    <3>1. \A j \in 1..Len(ls.members) : \A x \in ls.members[j] : x \in ov /\ vs[x] = j
      BY <1>7 DEF ListenersAreOpen
    <3>2. CASE i # n
      BY <1>2, <3>1, <3>2, <2>1 DEF SetsAreSound
    <3>3. CASE i = n /\ w # v
      BY <1>1, <1>2, <1>4, <3>3, <3>1, <2>1 DEF SetsAreSound
    <3> QED BY <2>3, <3>2, <3>3
  <2> QED BY <1>2, <2>2, <2>3, <2>4 DEF ListenersAreOpen
<1> QED BY <1>5, <1>6, <1>7 DEF s

\* Sets stay sound when an unsubscribe runs, the second time too; the first time it
\* takes the view out of those that listen, and no other.
LEMMA UnsubscribingIsSound ==
  ASSUME NEW ls \in ListenerSets, NEW ov, NEW v \in Views, viewKey[v] # Unheard,
         SetsAreSound(ls.keys, ls.members, viewSet, viewKey)
  PROVE  LET s == Unsubscribed(ls, v)
         IN  /\ s \in ListenerSets /\ SetsAreSound(s.keys, s.members, viewSet, viewKey)
             /\ ListenersAreOpen(ls.keys, ls.members, viewSet, viewKey, ov) /\ v \in ov /\ ov \subseteq Views
                  => ListenersAreOpen(s.keys, s.members, viewSet, viewKey, ov \ {v})
<1> DEFINE s == Unsubscribed(ls, v)
           n == viewSet[v]
<1>1. /\ n \in 1..Len(ls.members) /\ Len(ls.members) \in Nat /\ viewKey[v] \in EventKeys
      /\ ls.members \in Seq(SUBSET Views) /\ ls.keys \in [EventKeys -> 0..Len(ls.members)]
  BY LenProperties DEF ListenerSets, SetsAreSound
<1>2. s.members = [ls.members EXCEPT ![n] = @ \ {v}]
      /\ s.keys = IF ls.members[n] \ {v} = {} THEN [ls.keys EXCEPT ![viewKey[v]] = 0] ELSE ls.keys
  BY DEF Unsubscribed
<1>3. s = [keys |-> s.keys, members |-> s.members]
  BY DEF Unsubscribed
<1>4. ls.members[n] \ {v} \in SUBSET Views
  BY <1>1
<1>5. s.members \in Seq(SUBSET Views) /\ Len(s.members) = Len(ls.members)
  BY <1>1, <1>2, <1>4, ExceptSeq
<1>6. \A i \in 1..Len(ls.members) : s.members[i] = IF i = n THEN ls.members[i] \ {v} ELSE ls.members[i]
  <2> DEFINE e == ls.members[n] \ {v}
  <2>1. s.members = [ls.members EXCEPT ![n] = e]
    BY <1>2
  <2> HIDE DEF e, s
  <2>2. \A j \in 1..Len(ls.members) : [ls.members EXCEPT ![n] = e][j] = IF j = n THEN e ELSE ls.members[j]
    BY <1>4, <1>1, ExceptSeq DEF e
  <2> QED BY <2>1, <2>2 DEF e
<1> HIDE DEF s
<1>7. SetsAreSound(s.keys, s.members, viewSet, viewKey)
  <2>1. s.keys \in [EventKeys -> 0..Len(ls.members)]
    BY <1>1, <1>2
  <2>2. \A j \in EventKeys : s.keys[j] # 0 => s.keys[j] = ls.keys[j]
    BY <1>1, <1>2
  <2>3. \A j \in EventKeys : s.keys[j] # 0 => s.members[s.keys[j]] # {}
    <3> SUFFICES ASSUME NEW j \in EventKeys, s.keys[j] # 0 PROVE s.members[s.keys[j]] # {}
      OBVIOUS
    <3>1. ls.keys[j] = s.keys[j] /\ ls.keys[j] \in 1..Len(ls.members)
      BY <1>1, <2>2
    <3>2. CASE ls.keys[j] # n
      BY <1>6, <3>1, <3>2 DEF SetsAreSound
    <3>3. CASE ls.keys[j] = n
      BY <1>1, <3>1, <3>3, <1>2, <1>6 DEF SetsAreSound
    <3> QED BY <3>2, <3>3
  <2> QED BY <1>5, <2>1, <2>2, <2>3 DEF SetsAreSound
<1>8. s \in ListenerSets
  BY <1>1, <1>5, <1>7, <1>3 DEF SetsAreSound, ListenerSets
<1>9. ASSUME ListenersAreOpen(ls.keys, ls.members, viewSet, viewKey, ov), v \in ov, ov \subseteq Views
      PROVE  ListenersAreOpen(s.keys, s.members, viewSet, viewKey, ov \ {v})
  <2>1. \A i \in 1..Len(s.members) : \A w \in s.members[i] : w \in ov \ {v} /\ viewSet[w] = i
    <3> SUFFICES ASSUME NEW i \in 1..Len(s.members), NEW w \in s.members[i]
                 PROVE  w \in ov \ {v} /\ viewSet[w] = i
      OBVIOUS
    <3>1. i \in 1..Len(ls.members) /\ w \in ls.members[i] /\ (i = n => w # v)
      BY <1>5, <1>6
    <3>2. w \in ov /\ viewSet[w] = i
      BY <1>9, <3>1 DEF ListenersAreOpen
    <3> QED BY <3>1, <3>2
  <2>2. \A w \in ov \ {v} : /\ viewKey[w] \in EventKeys /\ s.keys[viewKey[w]] = viewSet[w]
                              /\ viewSet[w] # 0 /\ w \in s.members[viewSet[w]]
    <3> SUFFICES ASSUME NEW w \in ov \ {v}
                 PROVE  /\ viewKey[w] \in EventKeys /\ s.keys[viewKey[w]] = viewSet[w]
                        /\ viewSet[w] # 0 /\ w \in s.members[viewSet[w]]
      OBVIOUS
    <3>1. /\ viewKey[w] \in EventKeys /\ ls.keys[viewKey[w]] = viewSet[w] /\ viewSet[w] # 0
          /\ w \in ls.members[viewSet[w]] /\ viewSet[w] \in 1..Len(ls.members)
      BY <1>1, <1>9 DEF ListenersAreOpen
    <3>2. w \in s.members[viewSet[w]]
      BY <1>6, <3>1
    <3>3. s.keys[viewKey[w]] = ls.keys[viewKey[w]]
      <4>1. CASE viewKey[w] # viewKey[v]
        BY <1>1, <1>2, <3>1, <4>1
      <4>2. CASE viewKey[w] = viewKey[v]
        BY <1>9, <3>1, <4>2, <1>2 DEF ListenersAreOpen
      <4> QED BY <4>1, <4>2
    <3> QED BY <3>1, <3>2, <3>3
  <2> QED BY <2>1, <2>2 DEF ListenersAreOpen
<1> QED BY <1>7, <1>8, <1>9 DEF s

\* The client's listeners are two of its variables.
LEMMA ListenersAre ==
  ASSUME LiveIInv
  PROVE  /\ Listeners \in ListenerSets /\ Listeners.keys = keySet /\ Listeners.members = setMembers
         /\ SetsAreSound(Listeners.keys, Listeners.members, viewSet, viewKey)
<1>1. setMembers \in Seq(SUBSET Views) /\ keySet \in [EventKeys -> 0..Len(setMembers)]
  BY DEF LiveIInv, SetsAreSound
<1>2. Len(setMembers) \in Nat
  BY <1>1, LenProperties
<1>3. keySet \in [EventKeys -> Nat]
  BY <1>1, <1>2
<1>4. Listeners.keys = keySet /\ Listeners.members = setMembers
  BY DEF Listeners
<1> QED BY <1>1, <1>3, <1>4 DEF Listeners, ListenerSets, LiveIInv

\* What is spent stays a number.
LEMMA SpendingIsShaped ==
  ASSUME LiveIInv, NEW what \in LiveParts, LiveSpends(what)
  PROVE  liveLeft' \in [LiveParts -> Nat]
  BY DEF LiveIInv, LiveShape, LiveSpends

\* A view opens.
LEMMA OpensKeeps ==
  ASSUME LiveIInv, NEW v \in Views, NEW k \in EventKeys, Opens(v, k)
  PROVE  LiveIInv'
<1> DEFINE s == Subscribed(Listeners, v, k)
<1>1. Listeners \in ListenerSets /\ SetsAreSound(Listeners.keys, Listeners.members, viewSet, viewKey)
  BY ListenersAre
<1>2. keySet' = s.keys /\ setMembers' = s.members /\ viewSet' = [viewSet EXCEPT ![v] = s.keys[k]]
      /\ viewKey' = [viewKey EXCEPT ![v] = k]
  BY DEF Opens, SetListeners
<1>3. /\ SetsAreSound(s.keys, s.members, viewSet', viewKey')
      /\ ListenersAreOpen(Listeners.keys, Listeners.members, viewSet, viewKey, openViews)
           => ListenersAreOpen(s.keys, s.members, viewSet', viewKey', openViews \cup {v})
  <2>1. v \notin openViews /\ openViews \subseteq Views
    BY DEF Opens, LiveIInv, LiveShape
  <2> QED BY <1>1, <1>2, <2>1, SubscribingIsSound
<1>4. LiveShape'
  <2>1. liveLeft' \in [LiveParts -> Nat]
    BY SpendingIsShaped DEF Opens, LiveParts
  <2>2. NothingShown \in PeerTimes /\ [p \in EventPeers |-> NoEvent] \in [EventPeers -> [event : Nat, at : Nat]]
    BY DEF NothingShown, PeerTimes, NoEvent
  <2>3. \A w \in openViews' : viewKey'[w] # Unheard
    BY LiveConstants DEF Opens, LiveIInv, LiveShape, SetsAreSound
  <2> QED BY <2>1, <2>2, <2>3 DEF Opens, LiveIInv, LiveShape
<1>5. EventsAreTimed => EventsAreTimed'
  <2> SUFFICES ASSUME EventsAreTimed, NEW w \in openViews', NEW p \in EventPeers,
                      arrivedLast'[w][p].event # 0
               PROVE  w # v /\ w \in openViews
    BY DEF EventsAreTimed, Opens, LiveIInv, LiveShape
  <2> QED BY DEF Opens, LiveIInv, LiveShape, NoEvent
<1>6. openViews' = openViews \cup {v} /\ closedTwice' = closedTwice
  BY DEF Opens
<1> HIDE DEF s
<1> QED BY <1>2, <1>3, <1>4, <1>5, <1>6, ListenersAre DEF LiveIInv

\* A view closes.
LEMMA ClosesKeeps ==
  ASSUME LiveIInv, NEW v \in Views, Closes(v)
  PROVE  LiveIInv'
<1> DEFINE s == Unsubscribed(Listeners, v)
<1>1. Listeners \in ListenerSets /\ SetsAreSound(Listeners.keys, Listeners.members, viewSet, viewKey)
  BY ListenersAre
<1>2. keySet' = s.keys /\ setMembers' = s.members /\ viewSet' = viewSet /\ viewKey' = viewKey
      /\ openViews' = openViews \ {v} /\ closedTwice' = closedTwice
  BY DEF Closes, SetListeners
<1>3. LiveShape'
  BY SpendingIsShaped DEF Closes, LiveParts, NothingShown, PeerTimes, LiveIInv, LiveShape
<1>4. EventsAreTimed => EventsAreTimed'
  BY DEF EventsAreTimed, Closes, LiveIInv, LiveShape
<1>5. viewKey[v] # Unheard
  BY DEF Closes, LiveIInv, LiveShape
<1> HIDE DEF s
<1> QED
  <2>1. /\ SetsAreSound(s.keys, s.members, viewSet, viewKey)
        /\ ListenersAreOpen(Listeners.keys, Listeners.members, viewSet, viewKey, openViews)
             => ListenersAreOpen(s.keys, s.members, viewSet, viewKey, openViews \ {v})
    BY <1>1, <1>5, UnsubscribingIsSound DEF Closes, LiveIInv, LiveShape, s
  <2> QED BY <1>2, <1>3, <1>4, <2>1, ListenersAre DEF LiveIInv

\* A view is destroyed once more.
LEMMA ClosesAgainKeeps ==
  ASSUME LiveIInv, NEW v \in Views, ClosesAgain(v)
  PROVE  LiveIInv'
<1> DEFINE s == Unsubscribed(Listeners, v)
<1>1. Listeners \in ListenerSets /\ SetsAreSound(Listeners.keys, Listeners.members, viewSet, viewKey)
  BY ListenersAre
<1>2. keySet' = s.keys /\ setMembers' = s.members /\ viewSet' = viewSet /\ viewKey' = viewKey
      /\ closedTwice' = TRUE
  BY DEF ClosesAgain, SetListeners
<1>3. LiveShape'
  BY SpendingIsShaped DEF ClosesAgain, LiveParts, LiveIInv, LiveShape
<1>4. SetsAreSound(s.keys, s.members, viewSet, viewKey)
  BY <1>1, UnsubscribingIsSound DEF ClosesAgain, s
<1> HIDE DEF s
<1> QED BY <1>2, <1>3, <1>4 DEF LiveIInv

\* A hook is rendered with another key.
LEMMA RekeysKeeps ==
  ASSUME LiveIInv, NEW v \in Views, NEW k \in EventKeys, Rekeys(v, k)
  PROVE  LiveIInv'
<1> DEFINE r == Unsubscribed(Listeners, v)
           s == Subscribed(r, v, k)
<1>1. Listeners \in ListenerSets /\ SetsAreSound(Listeners.keys, Listeners.members, viewSet, viewKey)
  BY ListenersAre
<1>2. /\ keySet' = s.keys /\ setMembers' = s.members /\ viewSet' = [viewSet EXCEPT ![v] = s.keys[k]]
      /\ viewKey' = [viewKey EXCEPT ![v] = k] /\ openViews' = openViews /\ closedTwice' = closedTwice
  BY DEF Rekeys, SetListeners
<1>3. v \in openViews /\ openViews \subseteq Views /\ viewKey[v] # Unheard
  BY DEF Rekeys, LiveIInv, LiveShape
<1>4. /\ r \in ListenerSets /\ SetsAreSound(r.keys, r.members, viewSet, viewKey)
      /\ ListenersAreOpen(Listeners.keys, Listeners.members, viewSet, viewKey, openViews)
           => ListenersAreOpen(r.keys, r.members, viewSet, viewKey, openViews \ {v})
  BY <1>1, <1>3, UnsubscribingIsSound DEF r
<1> HIDE DEF r
<1>5. /\ SetsAreSound(s.keys, s.members, viewSet', viewKey')
      /\ ListenersAreOpen(r.keys, r.members, viewSet, viewKey, openViews \ {v})
           => ListenersAreOpen(s.keys, s.members, viewSet', viewKey', (openViews \ {v}) \cup {v})
  BY <1>3, <1>2, <1>4, SubscribingIsSound
<1> HIDE DEF s
<1>6. LiveShape'
  BY SpendingIsShaped, LiveConstants
     DEF Rekeys, LiveParts, NothingShown, PeerTimes, NoEvent, LiveIInv, LiveShape, SetsAreSound
<1>7. EventsAreTimed => EventsAreTimed'
  <2> SUFFICES ASSUME EventsAreTimed, NEW w \in openViews', NEW p \in EventPeers,
                      arrivedLast'[w][p].event # 0
               PROVE  w # v
    BY DEF EventsAreTimed, Rekeys, LiveIInv, LiveShape
  <2> QED BY DEF Rekeys, LiveIInv, LiveShape, NoEvent
<1>8. (openViews \ {v}) \cup {v} = openViews'
  BY <1>2, <1>3
<1> QED BY <1>2, <1>4, <1>5, <1>6, <1>7, <1>8, ListenersAre DEF LiveIInv

\* An event arrives.
LEMMA EventArrivesKeeps ==
  ASSUME LiveIInv, NEW k \in EventKeys, NEW p \in EventPeers, EventArrives(k, p)
  PROVE  LiveIInv'
<1> DEFINE event == liveLeft.arrives
<1>1. /\ liveLeft' \in [LiveParts -> Nat] /\ event \in Nat /\ event # 0
  BY SpendingIsShaped DEF EventArrives, LiveParts, LiveIInv, LiveShape, LiveSpends
<1>2. /\ UNCHANGED <<liveNow, openViews, viewKey, viewSet, keySet, setMembers, closedTwice>>
      /\ shownEvent' = [v \in Views |->
            IF v \in Hears(k) THEN [shownEvent[v] EXCEPT ![p] = event] ELSE shownEvent[v]]
      /\ takeDown' = [v \in Views |-> IF v \in Hears(k) THEN Rearmed(v, p) ELSE takeDown[v]]
      /\ arrivedLast' = [v \in Views |->
            IF v \in openViews /\ viewKey[v] = k
            THEN [arrivedLast[v] EXCEPT ![p] = [event |-> event, at |-> liveNow]]
            ELSE arrivedLast[v]]
  BY DEF EventArrives
<1> HIDE DEF event
<1>3. \A v \in Views : Rearmed(v, p) \in PeerTimes
  BY LiveConstants DEF Rearmed, LiveIInv, LiveShape, PeerTimes
<1>4. LiveShape'
  BY <1>1, <1>2, <1>3 DEF LiveIInv, LiveShape, PeerTimes, Rearmed
<1>5. ASSUME ListenersAreOpen(keySet, setMembers, viewSet, viewKey, openViews), EventsAreTimed
      PROVE  EventsAreTimed'
  <2> SUFFICES ASSUME NEW v \in openViews, NEW q \in EventPeers, arrivedLast'[v][q].event # 0
               PROVE  LET last == arrivedLast'[v][q]
                      IN  \/ TtlOf[v] = 0 /\ shownEvent'[v][q] = last.event
                          \/ /\ TtlOf[v] > 0 /\ shownEvent'[v][q] = last.event
                             /\ takeDown'[v][q] = last.at + TtlOf[v] /\ takeDown'[v][q] >= liveNow
                          \/ TtlOf[v] > 0 /\ shownEvent'[v][q] = 0 /\ liveNow >= last.at + TtlOf[v]
    BY <1>2 DEF EventsAreTimed
  <2>1. v \in Views /\ TtlOf[v] \in Nat /\ liveNow \in Nat
    BY LiveConstants DEF LiveIInv, LiveShape
  <2>2. v \in Hears(k) <=> viewKey[v] = k
    BY <1>5, <2>1 DEF Hears, ListenersAreOpen, LiveIInv, SetsAreSound
  <2>3. CASE viewKey[v] = k /\ q = p
    BY <1>2, <2>1, <2>2, <2>3 DEF LiveIInv, LiveShape, PeerTimes, Rearmed
  <2>4. CASE ~(viewKey[v] = k /\ q = p)
    BY <1>2, <2>1, <2>2, <2>4, <1>5 DEF LiveIInv, LiveShape, PeerTimes, Rearmed, EventsAreTimed
  <2> QED BY <2>3, <2>4
<1> QED BY <1>2, <1>4, <1>5 DEF LiveIInv

\* A timer fires.
LEMMA TakesDownKeeps ==
  ASSUME LiveIInv, NEW v \in Views, NEW p \in EventPeers, TakesDown(v, p)
  PROVE  LiveIInv'
<1>1. /\ shownEvent' = [shownEvent EXCEPT ![v][p] = 0] /\ takeDown' = [takeDown EXCEPT ![v][p] = 0]
      /\ takeDown[v][p] = liveNow
      /\ UNCHANGED <<liveNow, openViews, viewKey, viewSet, keySet, setMembers, arrivedLast,
                     closedTwice, liveLeft>>
  BY DEF TakesDown
<1>2. LiveShape'
  BY <1>1 DEF LiveIInv, LiveShape, PeerTimes
<1>3. ASSUME EventsAreTimed PROVE EventsAreTimed'
  <2> SUFFICES ASSUME NEW w \in openViews, NEW q \in EventPeers, arrivedLast[w][q].event # 0
               PROVE  LET last == arrivedLast[w][q]
                      IN  \/ TtlOf[w] = 0 /\ shownEvent'[w][q] = last.event
                          \/ /\ TtlOf[w] > 0 /\ shownEvent'[w][q] = last.event
                             /\ takeDown'[w][q] = last.at + TtlOf[w] /\ takeDown'[w][q] >= liveNow
                          \/ TtlOf[w] > 0 /\ shownEvent'[w][q] = 0 /\ liveNow >= last.at + TtlOf[w]
    BY <1>1 DEF EventsAreTimed
  <2>1. w \in Views /\ TtlOf[w] \in Nat /\ liveNow \in Nat /\ arrivedLast[w][q].at \in Nat
    BY LiveConstants DEF LiveIInv, LiveShape
  <2>2. CASE w = v /\ q = p
    BY <1>1, <2>1, <2>2, <1>3 DEF LiveIInv, LiveShape, PeerTimes, EventsAreTimed
  <2>3. CASE ~(w = v /\ q = p)
    BY <1>1, <2>1, <2>3, <1>3 DEF LiveIInv, LiveShape, PeerTimes, EventsAreTimed
  <2> QED BY <2>2, <2>3
<1> QED BY <1>1, <1>2, <1>3 DEF LiveIInv

\* Time passes.
LEMMA LiveTickKeeps ==
  ASSUME LiveIInv, LiveTick
  PROVE  LiveIInv'
<1>1. /\ liveNow' = liveNow + 1 /\ \A v \in Views, p \in EventPeers : takeDown[v][p] # liveNow
      /\ UNCHANGED <<openViews, viewKey, viewSet, shownEvent, takeDown, keySet, setMembers,
                     arrivedLast, closedTwice, liveLeft>>
  BY DEF LiveTick
<1>2. LiveShape'
  BY <1>1 DEF LiveIInv, LiveShape
<1>3. ASSUME EventsAreTimed PROVE EventsAreTimed'
  <2> SUFFICES ASSUME NEW w \in openViews, NEW q \in EventPeers, arrivedLast[w][q].event # 0
               PROVE  LET last == arrivedLast[w][q]
                      IN  \/ TtlOf[w] = 0 /\ shownEvent[w][q] = last.event
                          \/ /\ TtlOf[w] > 0 /\ shownEvent[w][q] = last.event
                             /\ takeDown[w][q] = last.at + TtlOf[w] /\ takeDown[w][q] >= liveNow'
                          \/ TtlOf[w] > 0 /\ shownEvent[w][q] = 0 /\ liveNow' >= last.at + TtlOf[w]
    BY <1>1 DEF EventsAreTimed
  <2>1. w \in Views /\ TtlOf[w] \in Nat /\ liveNow \in Nat /\ arrivedLast[w][q].at \in Nat
        /\ takeDown[w][q] \in Nat
    BY LiveConstants DEF LiveIInv, LiveShape, PeerTimes
  <2> QED BY <1>1, <1>3, <2>1 DEF EventsAreTimed
<1> QED BY <1>1, <1>2, <1>3 DEF LiveIInv

\* Every step keeps the invariant.
LEMMA LiveStep == LiveIInv /\ [LiveNext]_liveVars => LiveIInv'
<1> SUFFICES ASSUME LiveIInv, [LiveNext]_liveVars PROVE LiveIInv'
  OBVIOUS
<1>1. CASE UNCHANGED liveVars
  BY <1>1 DEF liveVars, LiveIInv, LiveShape, EventsAreTimed
<1>2. CASE LiveNext
  BY <1>2, OpensKeeps, ClosesKeeps, ClosesAgainKeeps, RekeysKeeps, EventArrivesKeeps,
     TakesDownKeeps, LiveTickKeeps DEF LiveNext
<1> QED BY <1>1, <1>2

\* Events of peers, for any views of any kinds and times to live, any keys and peers,
\* however often a view comes, goes or changes its key: an open one hears its key and
\* shows a peer's last event until its time is up, unless some view was destroyed twice
\* (react/hooks.ts useEphemeral, svelte/stores.ts, vanilla/sync.ts, sync-client.ts).
THEOREM LiveAlwaysHolds == LiveSpec => []LiveInv
<1> QED BY LiveStarts, LiveStep, LiveIInvImplies, PTL DEF LiveSpec

-----------------------------------------------------------------------------
(* Subscriptions: queues of frames.                                        *)

UpFrames ==
  {f \in [t : {"hello", "declare", "unsync", "bootstrap", "resume"}, p : Params \cup {None}] :
     f.t = "declare" <=> f.p # None}
DownFrames ==
  {f \in [t : {"hello_ack", "disconnect", "snapshot", "delta", "complete"}, p : Params \cup {None}] :
     f.t \in {"snapshot", "delta"} <=> f.p # None}

\* Some frame of a kind is in a queue.
Some(fs, t) == \E i \in 1..Len(fs) : fs[i].t = t

\* A frame that changes the server's subscription, where it refuses r.
Changes(r, f) == f.t = "unsync" \/ (f.t = "declare" /\ f.p \notin r)

\* The frames of a queue before the i-th take the server's subscription from s to p.
SaysBefore(r, fs, i, s, p) ==
  \/ s = p /\ \A j \in 1..Len(fs) : j < i => ~Changes(r, fs[j])
  \/ \E k \in 1..Len(fs) : /\ k < i /\ Changes(r, fs[k]) /\ fs[k].p = p
                           /\ \A j \in 1..Len(fs) : k < j /\ j < i => ~Changes(r, fs[j])
Says(r, fs, s, p) == SaysBefore(r, fs, Len(fs) + 1, s, p)

\* Frames of a queue that change the subscription change it to p.
Only(r, fs, p) == \A i \in 1..Len(fs) : Changes(r, fs[i]) => fs[i].p = p

\* The rows of p are asked for in a queue, and those of nothing else afterwards.
Asked(r, fs, s, p) ==
  \E i \in 1..Len(fs) :
    /\ fs[i].t = "bootstrap" /\ SaysBefore(r, fs, i, s, p)
    /\ \A j \in 1..Len(fs) : i < j /\ Changes(r, fs[j]) => fs[j].p = p

IsData(f) == f.t = "snapshot" \/ f.t = "delta"

\* After the frames of a queue a client that has the whole of w, and rows, has the
\* whole of p and nothing else.
Brings(fs, w, rows, p) ==
  \E i \in 0..Len(fs) :
    /\ IF i = 0 THEN w = p /\ rows = {p} ELSE fs[i].t = "snapshot" /\ fs[i].p = p
    /\ \A j \in 1..Len(fs) : i < j /\ IsData(fs[j]) => fs[j].p = p

\* What a queue becomes when frames are put at its end, and when its first is taken.
LEMMA QueueEnds ==
  ASSUME NEW S, NEW fs \in Seq(S), NEW gs \in Seq(S)
  PROVE  /\ fs \o gs \in Seq(S) /\ Len(fs) \in Nat /\ Len(gs) \in Nat
         /\ Len(fs \o gs) = Len(fs) + Len(gs)
         /\ \A i \in 1..Len(fs) : (fs \o gs)[i] = fs[i] /\ i \in 1..Len(fs \o gs)
         /\ \A i \in 1..Len(gs) : (fs \o gs)[Len(fs) + i] = gs[i] /\ Len(fs) + i \in 1..Len(fs \o gs)
         /\ \A i \in 1..Len(fs \o gs) : i \in 1..Len(fs) \/ (i - Len(fs) \in 1..Len(gs) /\ (fs \o gs)[i] = gs[i - Len(fs)])
<1>1. /\ fs \o gs \in Seq(S) /\ Len(fs) \in Nat /\ Len(gs) \in Nat
      /\ Len(fs \o gs) = Len(fs) + Len(gs)
      /\ \A i \in 1 .. Len(fs) + Len(gs) : (fs \o gs)[i] = IF i <= Len(fs) THEN fs[i] ELSE gs[i - Len(fs)]
  BY ConcatProperties, LenProperties
<1> QED BY <1>1

\* What a queue is, and what its rest is when its first frame is taken.
LEMMA QueueStarts ==
  ASSUME NEW S, NEW fs \in Seq(S), fs # <<>>
  PROVE  /\ Len(fs) \in Nat \ {0} /\ Head(fs) = fs[1] /\ Head(fs) \in S
         /\ Tail(fs) \in Seq(S) /\ Len(Tail(fs)) = Len(fs) - 1
         /\ \A i \in 1..Len(Tail(fs)) : Tail(fs)[i] = fs[i + 1] /\ i + 1 \in 1..Len(fs)
         /\ \A i \in 1..Len(fs) : i = 1 \/ (i - 1 \in 1..Len(Tail(fs)) /\ Tail(fs)[i - 1] = fs[i])
<1>1. /\ Head(fs) \in S /\ Tail(fs) \in Seq(S) /\ Len(Tail(fs)) = Len(fs)-1
      /\ \A i \in 1 .. Len(Tail(fs)) : Tail(fs)[i] = fs[i+1]
  BY HeadTailProperties
<1>2. Len(fs) \in Nat \ {0}
  BY EmptySeq, LenProperties
<1>3. Head(fs) = fs[1]
  BY <1>2
<1> QED BY <1>1, <1>2, <1>3

\* A kind of frame is in two queues put together where it is in one of them.
LEMMA SomeEnds ==
  ASSUME NEW S, NEW fs \in Seq(S), NEW gs \in Seq(S), NEW t
  PROVE  Some(fs \o gs, t) <=> Some(fs, t) \/ Some(gs, t)
<1>1. Some(fs \o gs, t) => Some(fs, t) \/ Some(gs, t)
  BY QueueEnds DEF Some
<1>2. Some(fs, t) => Some(fs \o gs, t)
  BY QueueEnds DEF Some
<1>3. Some(gs, t) => Some(fs \o gs, t)
  BY QueueEnds DEF Some
<1> QED BY <1>1, <1>2, <1>3

\* A kind of frame is in a queue where it is its first, or in the rest.
LEMMA SomeStarts ==
  ASSUME NEW S, NEW fs \in Seq(S), fs # <<>>, NEW t
  PROVE  Some(fs, t) <=> fs[1].t = t \/ Some(Tail(fs), t)
<1>1. Some(fs, t) => fs[1].t = t \/ Some(Tail(fs), t)
  <2> SUFFICES ASSUME NEW i \in 1..Len(fs), fs[i].t = t, i # 1 PROVE Some(Tail(fs), t)
    BY DEF Some
  <2>1. i - 1 \in 1..Len(Tail(fs)) /\ Tail(fs)[i - 1] = fs[i]
    BY QueueStarts
  <2> QED BY <2>1 DEF Some
<1>2. fs[1].t = t => Some(fs, t)
  BY QueueStarts DEF Some
<1>3. Some(Tail(fs), t) => Some(fs, t)
  BY QueueStarts DEF Some
<1> QED BY <1>1, <1>2, <1>3

\* One frame after the others.
LEMMA SomeOne ==
  ASSUME NEW f, NEW t
  PROVE  /\ Some(<<f>>, t) <=> f.t = t
         /\ ~Some(<<>>, t)
  BY DEF Some

\* An empty queue leaves the subscription as it is.
LEMMA SaysNothing == \A r, s : Says(r, <<>>, s, s)
  BY DEF Says, SaysBefore

\* A single frame says what it changes the subscription to.
LEMMA SaysOne ==
  ASSUME NEW r, NEW f, NEW s
  PROVE  Says(r, <<f>>, s, IF Changes(r, f) THEN f.p ELSE s)
  BY DEF Says, SaysBefore

\* What a queue says goes on with what is put at its end.
LEMMA SaysEnds ==
  ASSUME NEW fs \in Seq(UpFrames), NEW gs \in Seq(UpFrames), NEW r, NEW s, NEW x, NEW p,
         Says(r, fs, s, x), Says(r, gs, x, p)
  PROVE  Says(r, fs \o gs, s, p)
<1> DEFINE hs == fs \o gs
<1>1. /\ hs \in Seq(UpFrames) /\ Len(fs) \in Nat /\ Len(gs) \in Nat
      /\ Len(hs) = Len(fs) + Len(gs)
      /\ \A i \in 1..Len(fs) : hs[i] = fs[i] /\ i \in 1..Len(hs)
      /\ \A i \in 1..Len(gs) : hs[Len(fs) + i] = gs[i] /\ Len(fs) + i \in 1..Len(hs)
      /\ \A i \in 1..Len(hs) : i \in 1..Len(fs) \/ (i - Len(fs) \in 1..Len(gs) /\ hs[i] = gs[i - Len(fs)])
  BY QueueEnds
<1> HIDE DEF hs
<1> SUFFICES Says(r, hs, s, p)
  BY DEF hs
<1>2. CASE \A j \in 1..Len(gs) : ~Changes(r, gs[j])
  <2>1. x = p
    BY <1>1, <1>2 DEF Says, SaysBefore
  <2>2. CASE s = x /\ \A j \in 1..Len(fs) : ~Changes(r, fs[j])
    BY <1>1, <1>2, <2>1, <2>2 DEF Says, SaysBefore
  <2>3. CASE ~(s = x /\ \A j \in 1..Len(fs) : ~Changes(r, fs[j]))
    <3>1. PICK k \in 1..Len(fs) : /\ Changes(r, fs[k]) /\ fs[k].p = x
                                  /\ \A j \in 1..Len(fs) : k < j => ~Changes(r, fs[j])
      BY <1>1, <2>3 DEF Says, SaysBefore
    <3>2. k \in 1..Len(hs) /\ k < Len(hs) + 1 /\ Changes(r, hs[k]) /\ hs[k].p = p
      BY <1>1, <2>1, <3>1
    <3>3. \A j \in 1..Len(hs) : k < j => ~Changes(r, hs[j])
      BY <1>1, <1>2, <3>1
    <3> QED BY <3>2, <3>3 DEF Says, SaysBefore
  <2> QED BY <2>2, <2>3
<1>3. CASE ~\A j \in 1..Len(gs) : ~Changes(r, gs[j])
  <2>1. PICK k \in 1..Len(gs) : /\ Changes(r, gs[k]) /\ gs[k].p = p
                                /\ \A j \in 1..Len(gs) : k < j => ~Changes(r, gs[j])
    BY <1>1, <1>3 DEF Says, SaysBefore
  <2>2. Len(fs) + k \in 1..Len(hs) /\ Len(fs) + k < Len(hs) + 1
        /\ Changes(r, hs[Len(fs) + k]) /\ hs[Len(fs) + k].p = p
    BY <1>1, <2>1
  <2>3. \A j \in 1..Len(hs) : Len(fs) + k < j => ~Changes(r, hs[j])
    <3> SUFFICES ASSUME NEW j \in 1..Len(hs), Len(fs) + k < j PROVE ~Changes(r, hs[j])
      OBVIOUS
    <3>1. j - Len(fs) \in 1..Len(gs) /\ hs[j] = gs[j - Len(fs)] /\ k < j - Len(fs)
      BY <1>1
    <3> QED BY <2>1, <3>1
  <2> QED BY <2>2, <2>3 DEF Says, SaysBefore
<1> QED BY <1>2, <1>3

\* What the first frames of a queue say is not for the last to change.
LEMMA SaysBeforeEnds ==
  ASSUME NEW fs \in Seq(UpFrames), NEW gs \in Seq(UpFrames), NEW r, NEW s, NEW p,
         NEW i \in 1..(Len(fs) + 1), SaysBefore(r, fs, i, s, p)
  PROVE  SaysBefore(r, fs \o gs, i, s, p)
<1> DEFINE hs == fs \o gs
<1>1. /\ Len(fs) \in Nat /\ \A j \in 1..Len(fs) : hs[j] = fs[j] /\ j \in 1..Len(hs)
      /\ \A j \in 1..Len(hs) : j < i => j \in 1..Len(fs)
  BY QueueEnds
<1> HIDE DEF hs
<1>2. SaysBefore(r, hs, i, s, p)
  BY <1>1 DEF SaysBefore
<1> QED BY <1>2 DEF hs

\* The first frame of a queue is handled.
LEMMA SaysStarts ==
  ASSUME NEW fs \in Seq(UpFrames), fs # <<>>, NEW r, NEW s, NEW p,
         NEW i \in 2..(Len(fs) + 1), SaysBefore(r, fs, i, s, p)
  PROVE  SaysBefore(r, Tail(fs), i - 1, IF Changes(r, Head(fs)) THEN Head(fs).p ELSE s, p)
<1> DEFINE gs == Tail(fs)
<1>1. /\ Len(fs) \in Nat \ {0} /\ Head(fs) = fs[1] /\ Len(gs) = Len(fs) - 1
      /\ \A j \in 1..Len(gs) : gs[j] = fs[j + 1] /\ j + 1 \in 1..Len(fs)
      /\ \A j \in 1..Len(fs) : j = 1 \/ (j - 1 \in 1..Len(gs) /\ gs[j - 1] = fs[j])
  BY QueueStarts
<1> HIDE DEF gs
<1> SUFFICES SaysBefore(r, gs, i - 1, IF Changes(r, fs[1]) THEN fs[1].p ELSE s, p)
  BY <1>1 DEF gs
<1>2. CASE \A j \in 1..Len(fs) : j < i => ~Changes(r, fs[j])
  BY <1>1, <1>2 DEF SaysBefore
<1>3. CASE ~\A j \in 1..Len(fs) : j < i => ~Changes(r, fs[j])
  <2>1. PICK k \in 1..Len(fs) : /\ k < i /\ Changes(r, fs[k]) /\ fs[k].p = p
                                /\ \A j \in 1..Len(fs) : k < j /\ j < i => ~Changes(r, fs[j])
    BY <1>3 DEF SaysBefore
  <2>2. CASE k = 1
    BY <1>1, <2>1, <2>2 DEF SaysBefore
  <2>3. CASE k # 1
    BY <1>1, <2>1, <2>3 DEF SaysBefore
  <2> QED BY <2>2, <2>3
<1> QED BY <1>2, <1>3

\* Two queues that say nothing but p say nothing but p together.
LEMMA OnlyEnds ==
  ASSUME NEW fs \in Seq(UpFrames), NEW gs \in Seq(UpFrames), NEW r, NEW p, Only(r, fs, p), Only(r, gs, p)
  PROVE  Only(r, fs \o gs, p)
<1> SUFFICES ASSUME NEW i \in 1..Len(fs \o gs), Changes(r, (fs \o gs)[i])
             PROVE  (fs \o gs)[i].p = p
  BY DEF Only
<1>1. CASE i \in 1..Len(fs)
  <2>1. (fs \o gs)[i] = fs[i]
    BY <1>1, QueueEnds
  <2> QED BY <1>1, <2>1 DEF Only
<1>2. CASE i - Len(fs) \in 1..Len(gs) /\ (fs \o gs)[i] = gs[i - Len(fs)]
  BY <1>2 DEF Only
<1> QED BY <1>1, <1>2, QueueEnds

\* What is said of a queue holds of its first frame and of the rest.
LEMMA OnlyStarts ==
  ASSUME NEW fs \in Seq(UpFrames), fs # <<>>, NEW r, NEW p, Only(r, fs, p)
  PROVE  Only(r, Tail(fs), p) /\ (Changes(r, Head(fs)) => Head(fs).p = p)
  BY QueueStarts DEF Only

\* A request for rows stays in a queue whose end asks for nothing else.
LEMMA AskedEnds ==
  ASSUME NEW fs \in Seq(UpFrames), NEW gs \in Seq(UpFrames), NEW r, NEW s, NEW p,
         Asked(r, fs, s, p), Only(r, gs, p)
  PROVE  Asked(r, fs \o gs, s, p)
<1>1. PICK i \in 1..Len(fs) : /\ fs[i].t = "bootstrap" /\ SaysBefore(r, fs, i, s, p)
                              /\ \A j \in 1..Len(fs) : i < j /\ Changes(r, fs[j]) => fs[j].p = p
  BY DEF Asked
<1>2. SaysBefore(r, fs \o gs, i, s, p)
  BY QueueEnds, <1>1, SaysBeforeEnds
<1>3. i \in 1..Len(fs \o gs) /\ (fs \o gs)[i].t = "bootstrap"
  BY <1>1, QueueEnds
<1>4. \A j \in 1..Len(fs \o gs) : i < j /\ Changes(r, (fs \o gs)[j]) => (fs \o gs)[j].p = p
  <2> SUFFICES ASSUME NEW j \in 1..Len(fs \o gs), i < j, Changes(r, (fs \o gs)[j])
               PROVE  (fs \o gs)[j].p = p
    OBVIOUS
  <2>1. CASE j \in 1..Len(fs)
    BY <1>1, <2>1, QueueEnds
  <2>2. CASE j - Len(fs) \in 1..Len(gs) /\ (fs \o gs)[j] = gs[j - Len(fs)]
    BY <2>2 DEF Only
  <2> QED BY <2>1, <2>2, QueueEnds
<1> QED BY <1>2, <1>3, <1>4 DEF Asked

\* A bootstrap at the end asks for the rows of what the queue says.
LEMMA AskedMade ==
  ASSUME NEW fs \in Seq(UpFrames), NEW f \in UpFrames, f.t = "bootstrap", NEW r, NEW s, NEW p,
         Says(r, fs, s, p)
  PROVE  Asked(r, fs \o <<f>>, s, p)
<1> DEFINE i == Len(fs) + 1
<1>1. /\ <<f>> \in Seq(UpFrames) /\ Len(<<f>>) = 1 /\ <<f>>[1] = f
  OBVIOUS
<1>2. /\ Len(fs) \in Nat /\ Len(fs \o <<f>>) = i /\ (fs \o <<f>>)[i] = f
      /\ i \in 1..Len(fs \o <<f>>) /\ i \in 1..(Len(fs) + 1)
  BY <1>1, QueueEnds
<1>3. SaysBefore(r, fs \o <<f>>, i, s, p)
  BY <1>1, <1>2, SaysBeforeEnds DEF Says
<1>4. \A j \in 1..Len(fs \o <<f>>) : ~(i < j)
  BY <1>2
<1> HIDE DEF i
<1> QED BY <1>2, <1>3, <1>4 DEF Asked

\* The first frame of a queue is handled: the request is still to come, or was it.
LEMMA AskedStarts ==
  ASSUME NEW fs \in Seq(UpFrames), fs # <<>>, NEW r, NEW s, NEW p, Asked(r, fs, s, p)
  PROVE  \/ Asked(r, Tail(fs), IF Changes(r, Head(fs)) THEN Head(fs).p ELSE s, p)
         \/ Head(fs).t = "bootstrap" /\ s = p /\ Only(r, Tail(fs), p)
<1> DEFINE gs == Tail(fs)
           x  == IF Changes(r, Head(fs)) THEN Head(fs).p ELSE s
<1>1. /\ Len(fs) \in Nat \ {0} /\ Head(fs) = fs[1] /\ Len(gs) = Len(fs) - 1
      /\ \A j \in 1..Len(gs) : gs[j] = fs[j + 1] /\ j + 1 \in 1..Len(fs)
      /\ \A j \in 1..Len(fs) : j = 1 \/ (j - 1 \in 1..Len(gs) /\ gs[j - 1] = fs[j])
  BY QueueStarts
<1>2. PICK i \in 1..Len(fs) : /\ fs[i].t = "bootstrap" /\ SaysBefore(r, fs, i, s, p)
                              /\ \A j \in 1..Len(fs) : i < j /\ Changes(r, fs[j]) => fs[j].p = p
  BY DEF Asked
<1>3. CASE i = 1
  <2>1. s = p
    BY <1>1, <1>2, <1>3 DEF SaysBefore
  <2> HIDE DEF gs
  <2>2. Only(r, gs, p)
    BY <1>1, <1>2, <1>3 DEF Only
  <2> QED BY <1>1, <1>2, <1>3, <2>1, <2>2 DEF gs
<1>4. CASE i # 1
  <2>1. SaysBefore(r, gs, i - 1, x, p)
    BY <1>1, <1>4, <1>2, SaysStarts
  <2> HIDE DEF gs, x
  <2>2. i - 1 \in 1..Len(gs) /\ gs[i - 1].t = "bootstrap"
    BY <1>1, <1>2, <1>4
  <2>3. \A j \in 1..Len(gs) : i - 1 < j /\ Changes(r, gs[j]) => gs[j].p = p
    BY <1>1, <1>2
  <2>4. Asked(r, gs, x, p)
    BY <2>1, <2>2, <2>3 DEF Asked
  <2> QED BY <2>4 DEF gs, x
<1> QED BY <1>3, <1>4

\* What a queue brings, when frames are put at its end that bring nothing else.
LEMMA BringsEnds ==
  ASSUME NEW fs \in Seq(DownFrames), NEW gs \in Seq(DownFrames), NEW w, NEW rows, NEW p,
         \A j \in 1..Len(gs) : IsData(gs[j]) => gs[j].p = p,
         \/ Brings(fs, w, rows, p)
         \/ \E j \in 1..Len(gs) : gs[j].t = "snapshot"
  PROVE  Brings(fs \o gs, w, rows, p)
<1> DEFINE hs == fs \o gs
<1>1. /\ hs \in Seq(DownFrames) /\ Len(fs) \in Nat /\ Len(gs) \in Nat
      /\ Len(hs) = Len(fs) + Len(gs)
      /\ \A i \in 1..Len(fs) : hs[i] = fs[i] /\ i \in 1..Len(hs)
      /\ \A i \in 1..Len(gs) : hs[Len(fs) + i] = gs[i] /\ Len(fs) + i \in 1..Len(hs)
      /\ \A i \in 1..Len(hs) : i \in 1..Len(fs) \/ (i - Len(fs) \in 1..Len(gs) /\ hs[i] = gs[i - Len(fs)])
  BY QueueEnds
<1> HIDE DEF hs
<1> SUFFICES Brings(hs, w, rows, p)
  BY DEF hs
<1>2. CASE Brings(fs, w, rows, p)
  <2>1. PICK i \in 0..Len(fs) :
          /\ IF i = 0 THEN w = p /\ rows = {p} ELSE fs[i].t = "snapshot" /\ fs[i].p = p
          /\ \A j \in 1..Len(fs) : i < j /\ IsData(fs[j]) => fs[j].p = p
    BY <1>2 DEF Brings
  <2>2. i \in 0..Len(hs) /\ IF i = 0 THEN w = p /\ rows = {p} ELSE hs[i].t = "snapshot" /\ hs[i].p = p
    BY <1>1, <2>1
  <2>3. \A j \in 1..Len(hs) : i < j /\ IsData(hs[j]) => hs[j].p = p
    <3> SUFFICES ASSUME NEW j \in 1..Len(hs), i < j, IsData(hs[j]) PROVE hs[j].p = p
      OBVIOUS
    <3>1. CASE j \in 1..Len(fs)
      BY <1>1, <2>1, <3>1
    <3>2. CASE j - Len(fs) \in 1..Len(gs) /\ hs[j] = gs[j - Len(fs)]
      BY <3>2
    <3> QED BY <1>1, <3>1, <3>2
  <2> QED BY <2>2, <2>3 DEF Brings
<1>3. CASE \E j \in 1..Len(gs) : gs[j].t = "snapshot"
  <2>1. PICK k \in 1..Len(gs) : gs[k].t = "snapshot"
    BY <1>3
  <2>2. gs[k].p = p
    BY <2>1 DEF IsData
  <2>3. Len(fs) + k \in 0..Len(hs) /\ Len(fs) + k # 0 /\ hs[Len(fs) + k].t = "snapshot" /\ hs[Len(fs) + k].p = p
    BY <1>1, <2>1, <2>2
  <2>4. \A j \in 1..Len(hs) : Len(fs) + k < j /\ IsData(hs[j]) => hs[j].p = p
    <3> SUFFICES ASSUME NEW j \in 1..Len(hs), Len(fs) + k < j, IsData(hs[j]) PROVE hs[j].p = p
      OBVIOUS
    <3>1. j - Len(fs) \in 1..Len(gs) /\ hs[j] = gs[j - Len(fs)]
      BY <1>1
    <3> QED BY <3>1
  <2> QED BY <2>3, <2>4 DEF Brings
<1> QED BY <1>2, <1>3

\* What a queue brings once its first frame was taken.
LEMMA BringsStarts ==
  ASSUME NEW fs \in Seq(DownFrames), fs # <<>>, NEW w, NEW rows, NEW p, Brings(fs, w, rows, p),
         NEW w2, NEW rows2,
         Head(fs).t = "snapshot" => w2 = Head(fs).p /\ rows2 = {Head(fs).p},
         Head(fs).t = "delta" => w2 = w /\ rows2 = rows \cup {Head(fs).p},
         ~IsData(Head(fs)) => w2 = w /\ rows2 = rows
  PROVE  Brings(Tail(fs), w2, rows2, p)
<1> DEFINE gs == Tail(fs)
<1>1. /\ Len(fs) \in Nat \ {0} /\ Head(fs) = fs[1] /\ Len(gs) = Len(fs) - 1
      /\ \A j \in 1..Len(gs) : gs[j] = fs[j + 1] /\ j + 1 \in 1..Len(fs)
      /\ \A j \in 1..Len(fs) : j = 1 \/ (j - 1 \in 1..Len(gs) /\ gs[j - 1] = fs[j])
  BY QueueStarts
<1> HIDE DEF gs
<1> SUFFICES Brings(gs, w2, rows2, p)
  BY DEF gs
<1>2. PICK i \in 0..Len(fs) :
          /\ IF i = 0 THEN w = p /\ rows = {p} ELSE fs[i].t = "snapshot" /\ fs[i].p = p
          /\ \A j \in 1..Len(fs) : i < j /\ IsData(fs[j]) => fs[j].p = p
  BY DEF Brings
<1>3. CASE i = 0
  <2>1. w2 = p /\ rows2 = {p}
    BY <1>1, <1>2, <1>3 DEF IsData
  <2>2. \A j \in 1..Len(gs) : IsData(gs[j]) => gs[j].p = p
    BY <1>1, <1>2, <1>3
  <2>3. 0 \in 0..Len(gs)
    BY <1>1
  <2> QED BY <2>1, <2>2, <2>3 DEF Brings
<1>4. CASE i = 1
  <2>1. w2 = p /\ rows2 = {p}
    BY <1>1, <1>2, <1>4
  <2>2. \A j \in 1..Len(gs) : IsData(gs[j]) => gs[j].p = p
    BY <1>1, <1>2, <1>4
  <2>3. 0 \in 0..Len(gs)
    BY <1>1
  <2> QED BY <2>1, <2>2, <2>3 DEF Brings
<1>5. CASE i > 1
  <2>1. i - 1 \in 0..Len(gs) /\ i - 1 # 0 /\ gs[i - 1].t = "snapshot" /\ gs[i - 1].p = p
    BY <1>1, <1>2, <1>5
  <2>2. \A j \in 1..Len(gs) : i - 1 < j /\ IsData(gs[j]) => gs[j].p = p
    <3> SUFFICES ASSUME NEW j \in 1..Len(gs), i - 1 < j, IsData(gs[j]) PROVE gs[j].p = p
      OBVIOUS
    <3>1. j + 1 \in 1..Len(fs) /\ i < j + 1 /\ gs[j] = fs[j + 1]
      BY <1>1, <1>5
    <3> QED BY <1>2, <3>1
  <2> QED BY <2>1, <2>2 DEF Brings
<1> QED BY <1>3, <1>4, <1>5

\* A frame of a kind is in a queue, but not at its head.
Later(fs, t) == \E i \in 1..Len(fs) : i > 1 /\ fs[i].t = t

\* A later frame of two queues put together is a later one of the first, or in the second.
LEMMA LaterEnds ==
  ASSUME NEW S, NEW fs \in Seq(S), NEW gs \in Seq(S), NEW t, Later(fs \o gs, t)
  PROVE  Later(fs, t) \/ Some(gs, t)
<1>1. PICK i \in 1..Len(fs \o gs) : i > 1 /\ (fs \o gs)[i].t = t
  BY DEF Later
<1>2. CASE i \in 1..Len(fs)
  BY <1>1, <1>2, QueueEnds DEF Later
<1>3. CASE i - Len(fs) \in 1..Len(gs) /\ (fs \o gs)[i] = gs[i - Len(fs)]
  BY <1>1, <1>3 DEF Some
<1> QED BY <1>2, <1>3, QueueEnds

\* A frame in the rest of a queue comes later than its first.
LEMMA LaterStarts ==
  ASSUME NEW S, NEW fs \in Seq(S), fs # <<>>, NEW t
  PROVE  Some(Tail(fs), t) => Later(fs, t)
<1> SUFFICES ASSUME NEW i \in 1..Len(Tail(fs)), Tail(fs)[i].t = t PROVE Later(fs, t)
  BY DEF Some
<1>1. i + 1 \in 1..Len(fs) /\ fs[i + 1] = Tail(fs)[i] /\ i + 1 > 1
  BY QueueStarts
<1> QED BY <1>1 DEF Later

-----------------------------------------------------------------------------
(* Subscriptions: the invariant.                                           *)

UseStates == {"disconnected", "connecting", "connected", "bootstrapping", "synced"}
ParamsOrNone == Params \cup {None}
UseClients ==
  [state : UseStates, synced : BOOLEAN, params : ParamsOrNone, queued : BOOLEAN, booting : BOOLEAN,
   mark : BOOLEAN, timer : BOOLEAN, first : BOOLEAN, app : BOOLEAN, ready : BOOLEAN,
   whole : ParamsOrNone, rows : SUBSET Params]
UseBudgets == [mounts : Nat, breaks : Nat, deltas : Nat, refuses : SUBSET Params]
Refused == useLeft.refuses

\* What the client has sent and the server has not handled.
Pend == IF socket = "open" THEN up ELSE unsentFrames

\* The subscription the page asks of the server.
Wanted == IF refs.count = 0 \/ refs.key \in Refused THEN None ELSE refs.key

\* A hello_ack is on its way, or the hello it answers.
AckComes == Some(Pend, "hello") \/ Some(down, "hello_ack")

\* The connection is about to be ended by the server.
Lost == Some(down, "disconnect") \/ (~sv.session /\ Pend # <<>> /\ Pend[1].t # "hello")

\* Values are of their kind; the client is synced while something uses the table, to
\* the parameters last asked for.
UseShape ==
  /\ binding \in Bindings /\ mounted \in [Uses -> ParamsOrNone]
  /\ refs \in [count : Nat, key : ParamsOrNone]
  /\ refs.count = Cardinality({u \in Uses : mounted[u] # None})
  /\ sc \in UseClients /\ sv \in [session : BOOLEAN, sub : ParamsOrNone]
  /\ socket \in {"none", "opening", "open"} /\ useLeft \in UseBudgets
  /\ up \in Seq(UpFrames) /\ unsentFrames \in Seq(UpFrames) /\ down \in Seq(DownFrames)
  /\ sc.synced <=> refs.count # 0
  /\ sc.params = refs.key /\ (refs.key = None <=> refs.count = 0)

\* Frames are on the wire of an open socket; a session that is none has been told so
\* at most.
SocketHolds ==
  /\ socket # "open" => up = <<>> /\ down = <<>> /\ ~sv.session
  /\ socket = "open" => unsentFrames = <<>>
  /\ ~sv.session => sv.sub = None /\ (down = <<>> \/ (Len(down) = 1 /\ down[1].t = "disconnect"))
  /\ Some(down, "disconnect") => ~sv.session

\* Before the app connects nothing is handled, and what is used waits to be declared;
\* a client that is connecting will be answered, one that is not will try again.
FirstHolds ==
  /\ sc.first => /\ ~sc.timer /\ sc.state = "disconnected" /\ ~sc.mark /\ socket # "open"
                 /\ Pend # <<>> => Pend[1].t # "hello"
                 /\ sc.synced => sc.queued /\ sc.booting
                 /\ (Pend # <<>> \/ socket = "opening") => sc.booting
  /\ sc.state = "connecting" => AckComes
  /\ sc.state = "disconnected" => sc.timer \/ sc.first

\* The connection the app asked for, while it lasts, says hello once, and nothing was
\* bootstrapped before that is answered.
OneHello ==
  sc.app /\ ~sc.timer /\ ~sc.first /\ ~Lost =>
    \/ ~sv.session /\ ~sc.mark /\ Pend # <<>> /\ ~Later(Pend, "hello")
    \/ /\ sv.session /\ ~sc.mark /\ down # <<>> /\ down[1].t = "hello_ack"
       /\ ~Later(down, "hello_ack") /\ ~Some(Pend, "hello")
    \/ sv.session /\ ~AckComes

\* The frames on their way bring the server to the subscription that is wanted, or to
\* none, and then the client will declare it.
SubFollows ==
  ~Lost =>
    \/ Says(Refused, Pend, sv.sub, Wanted)
    \/ /\ Says(Refused, Pend, sv.sub, None) /\ sc.synced
       /\ sc.timer \/ sc.first \/ (AckComes /\ (sc.queued \/ ~sc.app))

\* The rows of what is used are shown, or on their way, or asked for, or will be.
RowsCome ==
  /\ sv.sub = refs.key /\ Only(Refused, Pend, refs.key)
  /\ Brings(down, sc.whole, sc.rows, refs.key)
RowsFollow ==
  ~Lost /\ ~sc.timer /\ refs.count # 0 /\ refs.key \notin Refused =>
    \/ sc.booting
    \/ AckComes /\ (~sc.app \/ (sc.queued /\ ~sc.mark))
    \/ Asked(Refused, Pend, sv.sub, refs.key)
    \/ RowsCome

UseIInv == UseShape /\ SocketHolds /\ FirstHolds /\ OneHello /\ SubFollows /\ RowsFollow

\* The inductive invariant implies the one the run checks.
LEMMA UseIInvImplies == UseIInv => UseInv
<1> SUFFICES ASSUME UseIInv PROVE UseInv
  OBVIOUS
<1>1. UseTypeOK
  <2> DEFINE U == {u \in Uses : mounted[u] # None}
  <2>1. IsFiniteSet(U) /\ Cardinality(U) <= Cardinality(Uses) /\ Cardinality(Uses) \in Nat
    BY UseAssumption, FS_Subset, FS_CardinalityType
  <2>2. refs.count = Cardinality(U)
    BY DEF UseIInv, UseShape
  <2> HIDE DEF U
  <2>3. refs.count \in 0..Cardinality(Uses)
    BY <2>1, <2>2 DEF UseIInv, UseShape
  <2> QED BY <2>2, <2>3 DEF UseIInv, UseShape, UseTypeOK, UseClients, UseStates, ParamsOrNone, U
<1>2. ASSUME UseQuiet PROVE Pend = <<>> /\ down = <<>> /\ ~Lost /\ ~AckComes /\ ~sc.first
  BY <1>2 DEF UseQuiet, Pend, Some, UseIInv, FirstHolds, Lost, AckComes
<1>3. SubscriptionFollowsUse
  <2> SUFFICES ASSUME UseQuiet PROVE sv.sub = Wanted
    BY DEF SubscriptionFollowsUse, Wanted, Refused
  <2>1. Says(Refused, Pend, sv.sub, Wanted)
    BY <1>2 DEF UseIInv, SubFollows, UseQuiet
  <2> QED BY <1>2, <2>1 DEF Says, SaysBefore
<1>4. UsesHaveRows
  <2> SUFFICES ASSUME UseQuiet, refs.count > 0, refs.key \notin Refused
               PROVE  sc.whole = refs.key /\ sc.rows = {refs.key}
    BY DEF UsesHaveRows, Refused
  <2>1. refs.count # 0 /\ ~sc.timer /\ ~sc.booting
    BY DEF UseQuiet, UseIInv, UseShape
  <2>2. Asked(Refused, Pend, sv.sub, refs.key) \/ RowsCome
    BY <1>2, <2>1 DEF UseIInv, RowsFollow
  <2>3. ~Asked(Refused, Pend, sv.sub, refs.key)
    BY <1>2 DEF Asked
  <2>4. Brings(<<>>, sc.whole, sc.rows, refs.key)
    BY <1>2, <2>2, <2>3 DEF RowsCome
  <2> QED BY <2>4 DEF Brings
<1> QED BY <1>1, <1>3, <1>4 DEF UseInv

\* The invariant holds at the start, when nothing is mounted and nothing was sent.
LEMMA UseStarts == "stored" \notin Bindings /\ UseInit => UseIInv
<1> SUFFICES ASSUME "stored" \notin Bindings, UseInit PROVE UseIInv
  OBVIOUS
<1> USE DEF UseInit
<1>1. up = <<>> /\ unsentFrames = <<>> /\ down = <<>> /\ Pend = <<>>
      /\ <<>> \in Seq(UpFrames) /\ <<>> \in Seq(DownFrames)
  BY DEF Pend
<1>2. refs.count = Cardinality({u \in Uses : mounted[u] # None})
  BY FS_EmptySet
<1>3. UseShape
  <2>1. mounted \in [Uses -> ParamsOrNone] /\ refs \in [count : Nat, key : ParamsOrNone]
        /\ sv \in [session : BOOLEAN, sub : ParamsOrNone]
    BY DEF ParamsOrNone
  <2>2. sc \in UseClients
    BY DEF UseClients, ParamsOrNone, UseStates
  <2>3. useLeft \in UseBudgets
    BY UseAssumption DEF UseBudgets
  <2> QED BY <1>1, <1>2, <2>1, <2>2, <2>3 DEF UseShape
<1>4. ~Some(down, "disconnect") /\ ~sv.session /\ sv.sub = None
  BY <1>1 DEF Some
<1>5. SocketHolds /\ FirstHolds /\ OneHello
  BY <1>1, <1>4 DEF SocketHolds, FirstHolds, OneHello
<1>6. SubFollows
  BY <1>1, <1>4, SaysNothing DEF Wanted, SubFollows
<1>7. RowsFollow
  BY DEF RowsFollow
<1> QED BY <1>3, <1>5, <1>6, <1>7 DEF UseIInv

\* The frames the client has sent are frames.
LEMMA PendIsQueue == UseShape => Pend \in Seq(UpFrames) /\ down \in Seq(DownFrames)
  BY DEF UseShape, Pend

\* Frames of the client.
LEMMA FramesAre ==
  /\ UnsyncFrame \in UpFrames /\ UnsyncFrame.t = "unsync" /\ UnsyncFrame.p = None
  /\ Hello \in UpFrames /\ Hello.t = "hello"
  /\ \A t \in {"bootstrap", "resume"} : UseFrame(t, None) \in UpFrames /\ UseFrame(t, None).t = t
  /\ \A p \in Params : UseFrame("declare", p) \in UpFrames /\ UseFrame("declare", p).t = "declare"
                       /\ UseFrame("declare", p).p = p
  BY UseAssumption DEF UnsyncFrame, Hello, UseFrame, UpFrames

\* What send does, whatever the socket.
LEMMA SendIs ==
  ASSUME UseShape, SocketHolds, NEW fs \in Seq(UpFrames), UseSend(fs)
  PROVE  /\ Pend' = Pend \o fs /\ up' \in Seq(UpFrames) /\ unsentFrames' \in Seq(UpFrames)
         /\ socket' = IF socket = "open" THEN "open" ELSE "opening"
         /\ socket # "open" => up' = <<>>
         /\ socket = "open" => unsentFrames' = <<>>
<1>1. up \in Seq(UpFrames) /\ unsentFrames \in Seq(UpFrames)
  BY DEF UseShape
<1>2. CASE socket = "open"
  BY <1>1, <1>2, ConcatProperties DEF UseSend, Pend, SocketHolds
<1>3. CASE socket # "open"
  BY <1>1, <1>3, ConcatProperties DEF UseSend, Pend, SocketHolds
<1> QED BY <1>2, <1>3

\* Frames that are sent after others rescue no connection, and keep what it comes to.
LEMMA SendKeeps ==
  ASSUME UseShape, SocketHolds, NEW fs \in Seq(UpFrames), UseSend(fs), UNCHANGED <<down, sv>>
  PROVE  /\ SocketHolds'
         /\ ~Lost' => ~Lost
         /\ AckComes' <=> AckComes \/ Some(fs, "hello")
         /\ Pend' # <<>> <=> Pend # <<>> \/ fs # <<>>
         /\ Pend # <<>> => Pend'[1] = Pend[1]
         /\ Pend = <<>> => Pend' = fs
         /\ Later(Pend', "hello") => Later(Pend, "hello") \/ Some(fs, "hello")
<1>1. /\ Pend' = Pend \o fs /\ up' \in Seq(UpFrames) /\ unsentFrames' \in Seq(UpFrames)
      /\ socket' = IF socket = "open" THEN "open" ELSE "opening"
      /\ socket # "open" => up' = <<>>
      /\ socket = "open" => unsentFrames' = <<>>
  BY SendIs
<1>2. Pend \in Seq(UpFrames)
  BY PendIsQueue
<1>3. SocketHolds'
  BY <1>1 DEF SocketHolds
<1>4. Pend = <<>> => Pend' = fs
  BY <1>1, <1>2, ConcatEmptySeq
<1>5. Pend # <<>> => Pend' # <<>> /\ Pend'[1] = Pend[1]
  <2> SUFFICES ASSUME Pend # <<>> PROVE Pend \o fs # <<>> /\ (Pend \o fs)[1] = Pend[1]
    BY <1>1
  <2>1. Len(Pend) \in Nat \ {0} /\ 1 \in 1..Len(Pend)
    BY <1>2, QueueStarts
  <2>2. (Pend \o fs)[1] = Pend[1] /\ Len(Pend \o fs) # 0
    BY <1>2, <2>1, QueueEnds
  <2> QED BY <2>2
<1>6. AckComes' <=> AckComes \/ Some(fs, "hello")
  BY <1>2, SomeEnds, <1>1 DEF AckComes
<1>7. ~Lost' => ~Lost
  BY <1>5 DEF Lost
<1>8. Later(Pend', "hello") => Later(Pend, "hello") \/ Some(fs, "hello")
  BY <1>1, <1>2, LaterEnds
<1> QED BY <1>3, <1>4, <1>5, <1>6, <1>7, <1>8

\* What a single frame says.
LEMMA OneFrame ==
  ASSUME NEW f \in UpFrames, NEW r
  PROVE  /\ <<f>> \in Seq(UpFrames) /\ <<f>> # <<>>
         /\ \A t : Some(<<f>>, t) <=> f.t = t
         /\ f.t \notin {"declare", "unsync"} => \A s : Says(r, <<f>>, s, s)
         /\ f.t \notin {"declare", "unsync"} => \A p : Only(r, <<f>>, p)
         /\ f.t = "unsync" => \A s : Says(r, <<f>>, s, f.p)
         /\ f.t = "declare" => \A s : Says(r, <<f>>, s, IF f.p \in r THEN s ELSE f.p)
         /\ f.t = "declare" => Only(r, <<f>>, f.p)
<1>1. <<f>> \in Seq(UpFrames) /\ <<f>> # <<>> /\ Len(<<f>>) = 1 /\ <<f>>[1] = f
  OBVIOUS
<1>2. \A s : Says(r, <<f>>, s, IF Changes(r, f) THEN f.p ELSE s)
  BY SaysOne
<1>3. \A t : Some(<<f>>, t) <=> f.t = t
  BY SomeOne
<1>4. f.t \notin {"declare", "unsync"} => ~Changes(r, f)
  BY DEF Changes
<1> QED BY <1>1, <1>2, <1>3, <1>4 DEF Changes, Only

\* The bootstrap of what was mounted.
LEMMA BootstrapKeeps == UseIInv /\ Bootstrap => UseIInv'
<1> SUFFICES ASSUME UseIInv, Bootstrap PROVE UseIInv'
  OBVIOUS
<1> DEFINE f == UseFrame("bootstrap", None)
<1>1. /\ sc.booting /\ ~sc.first /\ sc' = [sc EXCEPT !.booting = FALSE, !.state = "bootstrapping"]
      /\ UseSend(<<f>>) /\ UNCHANGED <<binding, mounted, refs, down, sv, useLeft>>
  BY DEF Bootstrap
<1>2. f \in UpFrames /\ f.t = "bootstrap"
  BY FramesAre
<1> HIDE DEF f
<1>3. /\ <<f>> \in Seq(UpFrames) /\ ~Some(<<f>>, "hello") /\ \A s : Says(Refused, <<f>>, s, s)
      /\ \A p : Only(Refused, <<f>>, p)
  BY <1>2, OneFrame
<1>4. UseShape /\ SocketHolds /\ FirstHolds /\ OneHello /\ SubFollows /\ RowsFollow
  BY DEF UseIInv
<1>5. /\ Pend' = Pend \o <<f>> /\ up' \in Seq(UpFrames) /\ unsentFrames' \in Seq(UpFrames)
      /\ socket' \in {"opening", "open"}
  BY <1>1, <1>3, <1>4, SendIs
<1>6. /\ SocketHolds' /\ (~Lost' => ~Lost) /\ (AckComes' <=> AckComes)
      /\ Pend # <<>> => Pend' # <<>>
      /\ Later(Pend', "hello") => Later(Pend, "hello")
  BY <1>1, <1>3, <1>4, SendKeeps
<1>7. Some(Pend', "hello") => AckComes
  BY <1>6 DEF AckComes
<1>8. /\ sc' \in UseClients /\ sc'.synced = sc.synced /\ sc'.params = sc.params /\ sc'.queued = sc.queued
      /\ ~sc'.booting /\ sc'.mark = sc.mark /\ sc'.timer = sc.timer /\ ~sc'.first /\ sc'.app = sc.app
      /\ sc'.state = "bootstrapping" /\ sc'.whole = sc.whole /\ sc'.rows = sc.rows
  BY <1>1, <1>4 DEF UseShape, UseClients, UseStates
<1>9. Pend \in Seq(UpFrames) /\ Refused' = Refused /\ Wanted' = Wanted
  BY <1>1, <1>4, PendIsQueue DEF Refused, Wanted
<1>10. UseShape'
  BY <1>1, <1>4, <1>5, <1>8 DEF UseShape
<1>11. FirstHolds'
  BY <1>8 DEF FirstHolds
<1>12. OneHello'
  <2> SUFFICES ASSUME sc'.app, ~sc'.timer, ~Lost'
               PROVE  \/ ~sv.session /\ ~sc'.mark /\ Pend' # <<>> /\ ~Later(Pend', "hello")
                      \/ /\ sv.session /\ ~sc'.mark /\ down # <<>> /\ down[1].t = "hello_ack"
                         /\ ~Later(down, "hello_ack") /\ ~Some(Pend', "hello")
                      \/ sv.session /\ ~AckComes'
    BY <1>1 DEF OneHello
  <2>1. Some(Pend', "hello") => Some(Pend, "hello")
    BY <1>3, <1>5, <1>9, SomeEnds
  <2> QED BY <1>1, <1>4, <1>6, <1>8, <2>1 DEF OneHello
<1>13. \A s, p : Says(Refused, Pend, s, p) => Says(Refused, Pend', s, p)
  BY <1>3, <1>5, <1>9, SaysEnds
<1>14. SubFollows'
  BY <1>1, <1>4, <1>6, <1>8, <1>9, <1>13 DEF SubFollows
<1>15. RowsFollow'
  <2> SUFFICES ASSUME ~Lost', ~sc'.timer, refs.count # 0, refs.key \notin Refused
               PROVE  \/ AckComes' /\ (~sc'.app \/ (sc'.queued /\ ~sc'.mark))
                      \/ Asked(Refused, Pend', sv.sub, refs.key)
    BY <1>1, <1>9 DEF RowsFollow
  <2>1. Wanted = refs.key
    BY DEF Wanted
  <2>2. CASE Says(Refused, Pend, sv.sub, Wanted)
    BY <1>2, <1>5, <1>9, <2>1, <2>2, AskedMade
  <2>3. CASE ~Says(Refused, Pend, sv.sub, Wanted)
    <3>1. AckComes /\ (sc.queued \/ ~sc.app)
      BY <1>1, <1>4, <1>6, <1>8, <2>3 DEF SubFollows
    <3>2. CASE ~sc.app
      BY <1>6, <1>8, <3>1, <3>2
    <3>3. CASE sc.app
      BY <1>1, <1>4, <1>6, <1>8, <3>1, <3>3 DEF OneHello
    <3> QED BY <3>2, <3>3
  <2> QED BY <2>2, <2>3
<1> QED BY <1>6, <1>10, <1>11, <1>12, <1>14, <1>15 DEF UseIInv

\* The app connects.
LEMMA UseConnectKeeps == UseIInv /\ UseConnect => UseIInv'
<1> SUFFICES ASSUME UseIInv, UseConnect PROVE UseIInv'
  OBVIOUS
<1>1. /\ sc.first /\ sc' = [sc EXCEPT !.first = FALSE, !.app = TRUE, !.state = "connecting"]
      /\ UseSend(<<Hello>>) /\ UNCHANGED <<binding, mounted, refs, down, sv, useLeft>>
  BY DEF UseConnect
<1>2. /\ <<Hello>> \in Seq(UpFrames) /\ <<Hello>> # <<>> /\ Some(<<Hello>>, "hello")
      /\ \A s : Says(Refused, <<Hello>>, s, s)
  BY FramesAre, OneFrame
<1>3. UseShape /\ SocketHolds /\ FirstHolds /\ OneHello /\ SubFollows /\ RowsFollow
  BY DEF UseIInv
<1>4. /\ Pend' = Pend \o <<Hello>> /\ up' \in Seq(UpFrames) /\ unsentFrames' \in Seq(UpFrames)
      /\ socket' \in {"opening", "open"}
  BY <1>1, <1>2, <1>3, SendIs
<1>5. /\ SocketHolds' /\ AckComes' /\ (~Lost' => ~Lost)
      /\ Pend # <<>> => Pend' # <<>> /\ Pend'[1] = Pend[1]
      /\ Pend = <<>> => Pend' = <<Hello>>
  BY <1>1, <1>2, <1>3, SendKeeps
<1>6. /\ sc' \in UseClients /\ sc'.synced = sc.synced /\ sc'.params = sc.params /\ sc'.queued = sc.queued
      /\ sc'.booting = sc.booting /\ sc'.mark = sc.mark /\ sc'.timer = sc.timer /\ ~sc'.first /\ sc'.app
      /\ sc'.state = "connecting"
  BY <1>1, <1>3 DEF UseShape, UseClients, UseStates
<1>7. Refused' = Refused /\ Wanted' = Wanted
  BY <1>1 DEF Refused, Wanted
<1>8. ~sv.session /\ sv.sub = None /\ ~sc.mark /\ (sc.synced => sc.queued /\ sc.booting)
  BY <1>1, <1>3 DEF FirstHolds, SocketHolds
<1>9. ~Lost' => Pend' = <<Hello>>
  BY <1>1, <1>3, <1>5, <1>8 DEF FirstHolds, Lost
<1>10. UseShape'
  BY <1>1, <1>3, <1>4, <1>6 DEF UseShape
<1>11. FirstHolds'
  BY <1>5, <1>6 DEF FirstHolds
<1>12. OneHello'
  <2>1. ~Later(<<Hello>>, "hello") /\ <<Hello>> # <<>>
    BY DEF Later
  <2> QED BY <1>1, <1>6, <1>8, <1>9, <2>1 DEF OneHello
<1>13. SubFollows'
  <2> SUFFICES ASSUME ~Lost'
               PROVE  Says(Refused, Pend', sv.sub, Wanted) \/
                      (Says(Refused, Pend', sv.sub, None) /\ sc'.synced /\ AckComes' /\ sc'.queued)
    BY <1>1, <1>7 DEF SubFollows
  <2>1. Says(Refused, Pend', sv.sub, None)
    BY <1>2, <1>8, <1>9
  <2>2. ~sc.synced => Wanted = None
    BY <1>3 DEF UseShape, Wanted
  <2> QED BY <1>5, <1>6, <1>8, <2>1, <2>2
<1>14. RowsFollow'
  BY <1>1, <1>3, <1>6, <1>8 DEF RowsFollow, UseShape
<1> QED BY <1>5, <1>10, <1>11, <1>12, <1>13, <1>14 DEF UseIInv

\* The reconnect timer.
LEMMA ReconnectKeeps == UseIInv /\ Reconnect => UseIInv'
<1> SUFFICES ASSUME UseIInv, Reconnect PROVE UseIInv'
  OBVIOUS
<1>1. /\ sc.timer /\ sc' = [sc EXCEPT !.timer = FALSE, !.app = FALSE, !.state = "connecting"]
      /\ UseSend(<<Hello>>) /\ UNCHANGED <<binding, mounted, refs, down, sv, useLeft>>
  BY DEF Reconnect
<1>2. /\ <<Hello>> \in Seq(UpFrames) /\ Some(<<Hello>>, "hello") /\ \A s : Says(Refused, <<Hello>>, s, s)
  BY FramesAre, OneFrame
<1>3. UseShape /\ SocketHolds /\ FirstHolds /\ OneHello /\ SubFollows /\ RowsFollow
  BY DEF UseIInv
<1>4. /\ Pend' = Pend \o <<Hello>> /\ up' \in Seq(UpFrames) /\ unsentFrames' \in Seq(UpFrames)
      /\ socket' \in {"opening", "open"}
  BY <1>1, <1>2, <1>3, SendIs
<1>5. SocketHolds' /\ AckComes' /\ (~Lost' => ~Lost)
  BY <1>1, <1>2, <1>3, SendKeeps
<1>6. /\ sc' \in UseClients /\ sc'.synced = sc.synced /\ sc'.params = sc.params /\ sc'.queued = sc.queued
      /\ sc'.first = sc.first /\ ~sc'.app /\ sc'.state = "connecting"
  BY <1>1, <1>3 DEF UseShape, UseClients, UseStates
<1>7. Refused' = Refused /\ Wanted' = Wanted /\ Pend \in Seq(UpFrames)
  BY <1>1, <1>3, PendIsQueue DEF Refused, Wanted
<1>8. UseShape'
  BY <1>1, <1>3, <1>4, <1>6 DEF UseShape
<1>9. FirstHolds' /\ OneHello'
  BY <1>1, <1>3, <1>5, <1>6 DEF FirstHolds, OneHello
<1>10. \A s, p : Says(Refused, Pend, s, p) => Says(Refused, Pend', s, p)
  BY <1>2, <1>4, <1>7, SaysEnds
<1>11. SubFollows'
  BY <1>1, <1>3, <1>5, <1>6, <1>7, <1>10 DEF SubFollows
<1>12. RowsFollow'
  BY <1>5, <1>6 DEF RowsFollow
<1> QED BY <1>5, <1>8, <1>9, <1>11, <1>12 DEF UseIInv

\* A socket opens: what waited for it is on the wire.
LEMMA UseSocketOpensKeeps == UseIInv /\ UseSocketOpens => UseIInv'
<1> SUFFICES ASSUME UseIInv, UseSocketOpens PROVE UseIInv'
  OBVIOUS
<1>1. /\ socket = "opening" /\ ~sc.booting /\ socket' = "open" /\ up' = unsentFrames /\ unsentFrames' = <<>>
      /\ UNCHANGED <<binding, mounted, refs, sc, down, sv, useLeft>>
  BY DEF UseSocketOpens
<1>2. UseShape /\ SocketHolds /\ FirstHolds /\ OneHello /\ SubFollows /\ RowsFollow
  BY DEF UseIInv
<1>3. Pend' = Pend
  BY <1>1 DEF Pend
<1>4. Lost' = Lost /\ AckComes' = AckComes /\ Wanted' = Wanted /\ Refused' = Refused
  BY <1>1, <1>3 DEF Lost, AckComes, Wanted, Refused
<1>5. UseShape'
  BY <1>1, <1>2 DEF UseShape
<1>6. SocketHolds'
  BY <1>1, <1>2 DEF SocketHolds
<1>7. FirstHolds'
  BY <1>1, <1>2, <1>4 DEF FirstHolds
<1>8. OneHello' /\ SubFollows'
  BY <1>1, <1>2, <1>3, <1>4 DEF OneHello, SubFollows
<1>9. RowsFollow'
  BY <1>1, <1>2, <1>3, <1>4 DEF RowsFollow, RowsCome
<1> QED BY <1>5, <1>6, <1>7, <1>8, <1>9 DEF UseIInv

\* What a mishap or a message is spent from, and what the server refuses, stay what they are.
LEMMA OnceIs ==
  ASSUME UseShape, NEW k \in {"mounts", "breaks", "deltas"}, Once(k)
  PROVE  useLeft' \in UseBudgets /\ Refused' = Refused
<1>1. useLeft \in UseBudgets
  BY DEF UseShape
<1>2. useLeft[k] > 0 /\ useLeft' = [useLeft EXCEPT ![k] = useLeft[k] - 1]
  BY DEF Once
<1>3. CASE k = "mounts"
  BY <1>2, <1>3, <1>1 DEF UseBudgets, Refused
<1>4. CASE k = "breaks"
  BY <1>2, <1>4, <1>1 DEF UseBudgets, Refused
<1>5. CASE k = "deltas"
  BY <1>2, <1>5, <1>1 DEF UseBudgets, Refused
<1> QED BY <1>3, <1>4, <1>5

\* A client that has lost its connection will try again.
LEMMA DisconnectedIs ==
  ASSUME sc \in UseClients
  PROVE  LET c == UseDisconnected(sc)
         IN  /\ c \in UseClients /\ c.timer /\ c.state = "disconnected" /\ c.synced = sc.synced
             /\ c.params = sc.params /\ c.first = sc.first /\ c.booting = sc.booting
  BY DEF UseDisconnected, UseClients, UseStates

\* A socket fails to open: what waited for it waits on.
LEMMA FailsToOpenKeeps == UseIInv /\ FailsToOpen => UseIInv'
<1> SUFFICES ASSUME UseIInv, FailsToOpen PROVE UseIInv'
  OBVIOUS
<1>1. /\ socket = "opening" /\ ~sc.booting /\ Once("breaks") /\ socket' = "none" /\ sc' = UseDisconnected(sc)
      /\ UNCHANGED <<binding, mounted, refs, unsentFrames, up, down, sv>>
  BY DEF FailsToOpen
<1>2. UseShape /\ SocketHolds /\ FirstHolds /\ OneHello /\ SubFollows /\ RowsFollow
  BY DEF UseIInv
<1>3. Pend' = Pend
  BY <1>1 DEF Pend
<1>4. useLeft' \in UseBudgets /\ Refused' = Refused
  BY <1>1, <1>2, OnceIs
<1>5. Lost' = Lost /\ Wanted' = Wanted
  BY <1>1, <1>3, <1>4 DEF Lost, Wanted
<1>6. /\ sc' \in UseClients /\ sc'.timer /\ sc'.state = "disconnected" /\ sc'.synced = sc.synced
      /\ sc'.params = sc.params /\ sc'.first = sc.first
  BY <1>1, <1>2, DisconnectedIs DEF UseShape
<1>7. UseShape'
  BY <1>1, <1>2, <1>4, <1>6 DEF UseShape
<1>8. SocketHolds'
  BY <1>1, <1>2 DEF SocketHolds
<1>9. FirstHolds'
  BY <1>1, <1>2, <1>6 DEF FirstHolds
<1>10. OneHello' /\ RowsFollow'
  BY <1>6 DEF OneHello, RowsFollow
<1>11. SubFollows'
  BY <1>1, <1>2, <1>3, <1>4, <1>5, <1>6 DEF SubFollows
<1> QED BY <1>7, <1>8, <1>9, <1>10, <1>11 DEF UseIInv

\* With no session and nothing on its way there is no subscription, and the client
\* whose timer runs will ask for what it wants.
LEMMA NothingIsLost ==
  ASSUME UseShape, Pend' = <<>>, down' = <<>>, ~sv'.session, sv'.sub = None, sc'.timer,
         sc'.synced = sc.synced, Refused' = Refused, refs' = refs
  PROVE  SubFollows'
<1>1. ~Lost'
  BY DEF Lost, Some
<1>2. ~sc.synced => Wanted' = None
  BY DEF UseShape, Wanted
<1>3. Says(Refused', Pend', sv'.sub, None)
  BY SaysNothing
<1> QED BY <1>1, <1>2, <1>3 DEF SubFollows

\* An open socket breaks: what was on the wire is gone, and so is the session.
LEMMA BreaksKeeps == UseIInv /\ Breaks => UseIInv'
<1> SUFFICES ASSUME UseIInv, Breaks PROVE UseIInv'
  OBVIOUS
<1>1. /\ socket = "open" /\ Once("breaks") /\ socket' = "none" /\ up' = <<>> /\ down' = <<>>
      /\ sc' = UseDisconnected(sc) /\ sv' = [session |-> FALSE, sub |-> None]
      /\ UNCHANGED <<binding, mounted, refs, unsentFrames>>
  BY DEF Breaks
<1>2. UseShape /\ SocketHolds /\ FirstHolds
  BY DEF UseIInv
<1>3. Pend' = <<>> /\ ~sc.first /\ ~Some(<<>>, "disconnect")
  BY <1>1, <1>2 DEF Pend, SocketHolds, FirstHolds, Some
<1>4. useLeft' \in UseBudgets /\ Refused' = Refused
  BY <1>1, <1>2, OnceIs
<1>5. /\ sc' \in UseClients /\ sc'.timer /\ sc'.state = "disconnected" /\ sc'.synced = sc.synced
      /\ sc'.params = sc.params /\ sc'.first = sc.first
  BY <1>1, <1>2, DisconnectedIs DEF UseShape
<1>6. UseShape'
  BY <1>1, <1>2, <1>4, <1>5 DEF ParamsOrNone, UseShape
<1>7. SocketHolds'
  BY <1>1, <1>3 DEF SocketHolds
<1>8. FirstHolds' /\ OneHello' /\ RowsFollow'
  BY <1>3, <1>5 DEF FirstHolds, OneHello, RowsFollow
<1>9. SubFollows'
  BY <1>1, <1>2, <1>3, <1>4, <1>5, NothingIsLost
<1> QED BY <1>6, <1>7, <1>8, <1>9 DEF UseIInv

\* The server disconnects a client that has no session.
LEMMA DisconnectReceived == UseIInv /\ UseReceive /\ Head(down).t = "disconnect" => UseIInv'
<1> SUFFICES ASSUME UseIInv, UseReceive, Head(down).t = "disconnect" PROVE UseIInv'
  OBVIOUS
<1>1. /\ down # <<>> /\ down' = Tail(down) /\ sc' = UseDisconnected(sc) /\ socket' = "none" /\ up' = <<>>
      /\ UNCHANGED <<binding, mounted, refs, unsentFrames, sv, useLeft>>
  BY DEF UseReceive
<1>2. UseShape /\ SocketHolds /\ FirstHolds
  BY DEF UseIInv
<1>3. down \in Seq(DownFrames) /\ down[1].t = "disconnect" /\ Some(down, "disconnect")
  BY <1>2, <1>1, QueueStarts, SomeStarts DEF UseShape
<1>4. ~sv.session /\ Len(down) = 1 /\ socket = "open" /\ sv.sub = None
  BY <1>1, <1>2, <1>3 DEF SocketHolds
<1>5. down' = <<>>
  BY <1>1, <1>3, <1>4, QueueStarts, EmptySeq
<1>6. Pend' = <<>> /\ unsentFrames = <<>> /\ ~sc.first
  BY <1>1, <1>2, <1>4 DEF Pend, SocketHolds, FirstHolds
<1>7. /\ sc' \in UseClients /\ sc'.timer /\ sc'.state = "disconnected" /\ sc'.synced = sc.synced
      /\ sc'.params = sc.params /\ sc'.first = sc.first
  BY <1>1, <1>2, DisconnectedIs DEF UseShape
<1>8. Refused' = Refused
  BY <1>1 DEF Refused
<1>9. UseShape'
  BY <1>1, <1>2, <1>5, <1>7 DEF UseShape
<1>10. SocketHolds'
  BY <1>1, <1>4, <1>5, <1>6 DEF SocketHolds
<1>11. FirstHolds' /\ OneHello' /\ RowsFollow'
  BY <1>6, <1>7 DEF FirstHolds, OneHello, RowsFollow
<1>12. SubFollows'
  BY <1>1, <1>2, <1>4, <1>5, <1>6, <1>7, <1>8, NothingIsLost
<1> QED BY <1>9, <1>10, <1>11, <1>12 DEF UseIInv

\* What holds when any other frame is received: the connection lives.
LEMMA ReceivedAre ==
  ASSUME UseIInv, UseReceive, Head(down).t # "disconnect"
  PROVE  /\ down # <<>> /\ down \in Seq(DownFrames) /\ Tail(down) \in Seq(DownFrames)
         /\ Head(down) \in DownFrames /\ Head(down) = down[1]
         /\ down' = Tail(down) /\ Take(Head(down)) /\ ~sc.booting /\ ~sc.first
         /\ socket = "open" /\ socket' = "open" /\ unsentFrames = <<>> /\ unsentFrames' = <<>>
         /\ sv.session /\ ~Lost
         /\ Pend = up /\ Pend' = up'
         /\ UNCHANGED <<binding, mounted, refs, sv, useLeft>>
         /\ \A t : Some(down, t) <=> Head(down).t = t \/ Some(Tail(down), t)
<1>1. /\ down # <<>> /\ ~sc.booting /\ down' = Tail(down) /\ Take(Head(down)) /\ socket' = socket
      /\ UNCHANGED <<binding, mounted, refs, unsentFrames, sv, useLeft>>
  BY DEF UseReceive
<1>2. UseShape /\ SocketHolds /\ FirstHolds
  BY DEF UseIInv
<1>3. down \in Seq(DownFrames)
  BY <1>2 DEF UseShape
<1>4. Head(down) \in DownFrames /\ Head(down) = down[1] /\ Tail(down) \in Seq(DownFrames)
  BY <1>1, <1>3, QueueStarts
<1>5. socket = "open" /\ sv.session /\ unsentFrames = <<>>
  BY <1>1, <1>2, <1>4 DEF SocketHolds
<1>6. ~Some(down, "disconnect")
  BY <1>2, <1>5 DEF SocketHolds
<1>7. Pend = up /\ Pend' = up'
  BY <1>1, <1>5 DEF Pend
<1>8. \A t : Some(down, t) <=> Head(down).t = t \/ Some(Tail(down), t)
  BY <1>1, <1>3, <1>4, SomeStarts
<1>9. ~Lost /\ ~sc.first
  BY <1>2, <1>5, <1>6 DEF Lost, FirstHolds
<1> QED BY <1>1, <1>3, <1>4, <1>5, <1>7, <1>8, <1>9

\* Data arrive, or the end of them.
LEMMA DataReceived ==
  ASSUME UseIInv, UseReceive, Head(down).t \in {"snapshot", "delta", "complete"}
  PROVE  UseIInv'
<1> DEFINE f == Head(down)
<1>1. /\ down # <<>> /\ down \in Seq(DownFrames) /\ Tail(down) \in Seq(DownFrames)
      /\ f \in DownFrames /\ f = down[1] /\ down' = Tail(down) /\ Take(f) /\ ~sc.booting /\ ~sc.first
      /\ socket = "open" /\ socket' = "open" /\ unsentFrames = <<>> /\ unsentFrames' = <<>>
      /\ sv.session /\ ~Lost /\ Pend = up /\ Pend' = up'
      /\ UNCHANGED <<binding, mounted, refs, sv, useLeft>>
      /\ \A t : Some(down, t) <=> f.t = t \/ Some(Tail(down), t)
  BY ReceivedAre
<1>2. UseShape /\ SocketHolds /\ FirstHolds /\ OneHello /\ SubFollows /\ RowsFollow
  BY DEF UseIInv
<1> HIDE DEF f
<1>3. f.t \in {"snapshot", "delta", "complete"}
  BY DEF f
<1>4. /\ up' = up
      /\ f.t = "snapshot" => sc' = [sc EXCEPT !.whole = f.p, !.rows = {f.p}]
      /\ f.t = "delta" => sc' = [sc EXCEPT !.rows = @ \cup {f.p}]
      /\ f.t = "complete" => sc' = [sc EXCEPT !.state = "synced", !.mark = TRUE]
  BY <1>1, <1>3 DEF Take, Loaded
<1>5. f.t # "complete" => f.p \in Params
  BY <1>1, <1>3 DEF DownFrames
<1>6. /\ sc' \in UseClients /\ sc'.synced = sc.synced /\ sc'.params = sc.params /\ sc'.queued = sc.queued
      /\ ~sc'.booting /\ sc'.timer = sc.timer /\ ~sc'.first /\ sc'.app = sc.app
      /\ sc'.state \in {"synced", sc.state}
      /\ f.t # "complete" => sc'.mark = sc.mark
      /\ f.t = "snapshot" => sc'.whole = f.p /\ sc'.rows = {f.p}
      /\ f.t = "delta" => sc'.whole = sc.whole /\ sc'.rows = sc.rows \cup {f.p}
      /\ f.t = "complete" => sc'.whole = sc.whole /\ sc'.rows = sc.rows
  <2>1. sc \in UseClients
    BY <1>2 DEF UseShape
  <2>2. CASE f.t = "snapshot"
    <3>1. sc' = [state |-> sc.state, synced |-> sc.synced, params |-> sc.params, queued |-> sc.queued,
                 booting |-> sc.booting, mark |-> sc.mark, timer |-> sc.timer, first |-> sc.first,
                 app |-> sc.app, ready |-> sc.ready, whole |-> f.p, rows |-> {f.p}]
      BY <1>4, <2>1, <2>2 DEF UseClients
    <3>2. f.p \in ParamsOrNone /\ {f.p} \in SUBSET Params
      BY <1>5, <2>2 DEF ParamsOrNone
    <3> QED BY <1>1, <2>1, <2>2, <3>1, <3>2 DEF UseClients
  <2>3. CASE f.t = "delta"
    BY <1>1, <1>4, <1>5, <2>1, <2>3 DEF UseClients, UseStates, ParamsOrNone
  <2>4. CASE f.t = "complete"
    BY ZenonT(40), <1>1, <1>4, <2>1, <2>4 DEF UseClients, UseStates, ParamsOrNone
  <2> QED BY <1>3, <2>2, <2>3, <2>4
<1>7. Pend' = Pend /\ Refused' = Refused /\ Wanted' = Wanted
  BY <1>1, <1>4 DEF Refused, Wanted
<1>8. AckComes' <=> AckComes
  BY <1>1, <1>3, <1>7 DEF AckComes
<1>9. UseShape'
  BY <1>1, <1>2, <1>4, <1>6 DEF UseShape
<1>10. SocketHolds'
  BY <1>1, <1>2 DEF SocketHolds
<1>11. FirstHolds'
  BY <1>1, <1>2, <1>6, <1>8 DEF FirstHolds
<1>12. sc.app /\ ~sc.timer => ~AckComes
  BY <1>1, <1>2, <1>3 DEF OneHello
<1>13. OneHello'
  BY <1>1, <1>6, <1>8, <1>12 DEF OneHello
<1>14. SubFollows'
  BY <1>1, <1>2, <1>6, <1>7, <1>8 DEF SubFollows
<1>15. RowsCome => RowsCome'
  <2> SUFFICES ASSUME RowsCome PROVE Brings(Tail(down), sc'.whole, sc'.rows, refs.key)
    BY <1>1, <1>7 DEF RowsCome
  <2>1. /\ Brings(down, sc.whole, sc.rows, refs.key)
        /\ f.t = "snapshot" => sc'.whole = f.p /\ sc'.rows = {f.p}
        /\ f.t = "delta" => sc'.whole = sc.whole /\ sc'.rows = sc.rows \cup {f.p}
        /\ ~IsData(f) => sc'.whole = sc.whole /\ sc'.rows = sc.rows
    BY <1>3, <1>6 DEF RowsCome, IsData
  <2> QED BY <1>1, <2>1, BringsStarts DEF f
<1>16. RowsFollow'
  BY <1>1, <1>2, <1>6, <1>7, <1>8, <1>12, <1>15 DEF RowsFollow
<1> QED BY <1>9, <1>10, <1>11, <1>13, <1>14, <1>16 DEF UseIInv

\* hello_ack: what the client sends then says what is wanted.
LEMMA AckReceived ==
  ASSUME UseIInv, UseReceive, Head(down).t = "hello_ack"
  PROVE  UseIInv'
<1>1. /\ down # <<>> /\ down \in Seq(DownFrames) /\ Tail(down) \in Seq(DownFrames)
      /\ Head(down) = down[1] /\ down' = Tail(down) /\ Take(Head(down)) /\ ~sc.booting /\ ~sc.first
      /\ socket = "open" /\ socket' = "open" /\ unsentFrames = <<>> /\ unsentFrames' = <<>>
      /\ sv.session /\ ~Lost /\ Pend = up /\ Pend' = up'
      /\ UNCHANGED <<binding, mounted, refs, sv, useLeft>>
      /\ \A t : Some(down, t) <=> Head(down).t = t \/ Some(Tail(down), t)
  BY ReceivedAre
<1>2. UseShape /\ SocketHolds /\ FirstHolds /\ OneHello /\ SubFollows /\ RowsFollow
  BY DEF UseIInv
<1> DEFINE flushed == sc.queued /\ sc.synced
           again   == ~sc.app /\ sc.synced
           ds      == (IF flushed THEN DeclareFrames ELSE <<>>)
           es      == (IF again THEN DeclareFrames ELSE <<>>)
           l       == UseFrame(IF sc.mark THEN "resume" ELSE "bootstrap", None)
           fs      == (ds \o es) \o <<l>>
<1>3. Acked
  BY <1>1 DEF Take
<1>4. /\ l \in UpFrames /\ l.t \in {"resume", "bootstrap"}
      /\ <<l>> \in Seq(UpFrames) /\ ~Some(<<l>>, "hello") /\ \A s : Says(Refused, <<l>>, s, s)
      /\ \A p : Only(Refused, <<l>>, p)
  <2>1. l \in UpFrames /\ l.t \in {"resume", "bootstrap"}
    BY FramesAre
  <2> HIDE DEF l
  <2>2. /\ <<l>> \in Seq(UpFrames) /\ (\A t : Some(<<l>>, t) <=> l.t = t) /\ \A s : Says(Refused, <<l>>, s, s)
        /\ \A p : Only(Refused, <<l>>, p)
    BY <2>1, OneFrame
  <2> QED BY <2>1, <2>2
<1>5. sc.synced => /\ DeclareFrames \in Seq(UpFrames) /\ ~Some(DeclareFrames, "hello")
                   /\ Only(Refused, DeclareFrames, refs.key)
                   /\ \A s : s \in {None, Wanted} => Says(Refused, DeclareFrames, s, Wanted)
  <2> SUFFICES ASSUME sc.synced
               PROVE  /\ DeclareFrames \in Seq(UpFrames) /\ ~Some(DeclareFrames, "hello")
                      /\ Only(Refused, DeclareFrames, refs.key)
                      /\ \A s : s \in {None, Wanted} => Says(Refused, DeclareFrames, s, Wanted)
    OBVIOUS
  <2> DEFINE d == UseFrame("declare", refs.key)
  <2>1. DeclareFrames = <<d>> /\ refs.key \in Params /\ refs.count # 0
    BY <1>2 DEF DeclareFrames, UseShape, ParamsOrNone
  <2>2. d \in UpFrames /\ d.t = "declare" /\ d.p = refs.key
    BY <2>1, FramesAre
  <2> HIDE DEF d
  <2>3. /\ <<d>> \in Seq(UpFrames) /\ (\A t : Some(<<d>>, t) <=> d.t = t)
        /\ \A s : Says(Refused, <<d>>, s, IF d.p \in Refused THEN s ELSE d.p)
        /\ Only(Refused, <<d>>, d.p)
    BY <2>2, OneFrame
  <2>4. Wanted = IF refs.key \in Refused THEN None ELSE refs.key
    BY <2>1 DEF Wanted
  <2>5. \A s : s \in {None, Wanted} => Says(Refused, <<d>>, s, Wanted)
    BY <2>2, <2>3, <2>4
  <2> QED BY <2>1, <2>2, <2>3, <2>5
<1>6. /\ up' = up \o fs
      /\ sc' = [sc EXCEPT !.queued = FALSE, !.ready = @ \/ sc.app,
                          !.state = IF sc.mark THEN "connected" ELSE "bootstrapping",
                          !.booting = @ \/ (sc.queued /\ ~sc.mark) \/ again]
  <2>1. up' = up \o ds \o es \o <<l>>
    BY <1>3 DEF Acked
  <2>2. ds \in Seq(UpFrames) /\ es \in Seq(UpFrames)
    BY <1>5
  <2>3. up \in Seq(UpFrames)
    BY <1>2 DEF UseShape
  <2>4. <<l>> \in Seq(UpFrames) /\ ds \o es \in Seq(UpFrames)
    BY <1>4, <2>2, ConcatProperties
  <2>5. sc' = [sc EXCEPT !.queued = FALSE, !.ready = @ \/ sc.app,
                         !.state = IF sc.mark THEN "connected" ELSE "bootstrapping",
                         !.booting = @ \/ (sc.queued /\ ~sc.mark) \/ again]
    BY <1>2, <1>3 DEF Acked, UseShape, UseClients
  <2> HIDE DEF ds, es, l
  <2>6. (up \o ds) \o es = up \o (ds \o es)
    BY <2>2, <2>3, ConcatAssociative
  <2>7. (up \o (ds \o es)) \o <<l>> = up \o ((ds \o es) \o <<l>>)
    BY <2>3, <2>4, ConcatAssociative
  <2> QED BY <2>1, <2>5, <2>6, <2>7
<1>7. /\ ds \in Seq(UpFrames) /\ ~Some(ds, "hello") /\ Only(Refused, ds, refs.key)
      /\ es \in Seq(UpFrames) /\ ~Some(es, "hello") /\ Only(Refused, es, refs.key)
  BY <1>5 DEF Some, Only
<1>8. /\ \A s : s \in {None, Wanted} => Says(Refused, ds, s, IF flushed THEN Wanted ELSE s)
      /\ \A s : s \in {None, Wanted} => Says(Refused, es, s, IF again THEN Wanted ELSE s)
  BY <1>5, SaysNothing
<1>9. /\ sc' \in UseClients /\ sc'.synced = sc.synced /\ sc'.params = sc.params /\ ~sc'.queued
      /\ (sc'.booting <=> (sc.queued /\ ~sc.mark) \/ again)
      /\ sc'.mark = sc.mark /\ sc'.timer = sc.timer /\ ~sc'.first /\ sc'.app = sc.app
      /\ sc'.state \in {"connected", "bootstrapping"} /\ sc'.whole = sc.whole /\ sc'.rows = sc.rows
  BY <1>2, <1>6, <1>1 DEF UseShape, UseClients, UseStates
<1> HIDE DEF ds, es, l, flushed, again
<1>10. /\ fs \in Seq(UpFrames) /\ ~Some(fs, "hello") /\ Only(Refused, fs, refs.key)
       /\ \A s : s \in {None, Wanted} => Says(Refused, fs, s, IF flushed \/ again THEN Wanted ELSE s)
  <2>1. /\ ds \o es \in Seq(UpFrames) /\ ~Some(ds \o es, "hello") /\ Only(Refused, ds \o es, refs.key)
        /\ \A s : s \in {None, Wanted} => Says(Refused, ds \o es, s, IF flushed \/ again THEN Wanted ELSE s)
    <3>1. ds \o es \in Seq(UpFrames)
      BY <1>7, ConcatProperties
    <3>2. ~Some(ds \o es, "hello")
      BY <1>7, SomeEnds
    <3>3. Only(Refused, ds \o es, refs.key)
      BY <1>7, OnlyEnds
    <3>4. ASSUME NEW s \in {None, Wanted}
          PROVE  Says(Refused, ds \o es, s, IF flushed \/ again THEN Wanted ELSE s)
      <4> DEFINE x == IF flushed THEN Wanted ELSE s
                 y == IF again THEN Wanted ELSE x
      <4>1. Says(Refused, ds, s, x) /\ Says(Refused, es, x, y)
        BY <1>8, <3>4
      <4>2. y = IF flushed \/ again THEN Wanted ELSE s
        OBVIOUS
      <4> HIDE DEF x, y
      <4>3. Says(Refused, ds \o es, s, y)
        BY <1>7, <4>1, SaysEnds
      <4> QED BY <4>2, <4>3
    <3> QED BY <3>1, <3>2, <3>3, <3>4
  <2>2. fs \in Seq(UpFrames) /\ ~Some(fs, "hello") /\ Only(Refused, fs, refs.key)
    BY <1>4, <2>1, ConcatProperties, SomeEnds, OnlyEnds
  <2>3. ASSUME NEW s \in {None, Wanted}
        PROVE  Says(Refused, fs, s, IF flushed \/ again THEN Wanted ELSE s)
    <3> DEFINE y == IF flushed \/ again THEN Wanted ELSE s
    <3>1. Says(Refused, ds \o es, s, y) /\ Says(Refused, <<l>>, y, y)
      BY <1>4, <2>1
    <3> HIDE DEF y
    <3>2. Says(Refused, fs, s, y)
      BY <1>4, <2>1, <3>1, SaysEnds
    <3> QED BY <3>2 DEF y
  <2> QED BY <2>2, <2>3
<1> HIDE DEF fs
<1>11. Pend \in Seq(UpFrames) /\ Pend' = Pend \o fs /\ Refused' = Refused /\ Wanted' = Wanted
  BY <1>1, <1>2, <1>6, PendIsQueue DEF Refused, Wanted
<1>12. UseShape'
  BY <1>1, <1>10, <1>11, ConcatProperties, <1>2, <1>9 DEF UseShape
<1>13. SocketHolds'
  BY <1>1, <1>2 DEF SocketHolds
<1>14. FirstHolds'
  BY <1>9 DEF FirstHolds
<1>15. Some(Pend', "hello") => Some(Pend, "hello")
  BY <1>10, <1>11, SomeEnds
<1>16. OneHello'
  <2> SUFFICES ASSUME sc.app, ~sc.timer PROVE ~AckComes'
    BY <1>1, <1>9 DEF OneHello
  <2>1. /\ ~sc.mark /\ ~Later(down, "hello_ack") /\ ~Some(Pend, "hello")
    BY <1>1, <1>2 DEF AckComes, OneHello
  <2>2. ~Some(Tail(down), "hello_ack")
    BY <1>1, <2>1, LaterStarts
  <2> QED BY <1>1, <1>15, <2>1, <2>2 DEF AckComes
<1>17. \/ Says(Refused, Pend', sv.sub, Wanted)
       \/ Says(Refused, Pend', sv.sub, None) /\ sc.synced /\ sc.timer
  <2>2. CASE Says(Refused, Pend, sv.sub, Wanted)
    BY <1>10, <1>11, <2>2, SaysEnds
  <2>3. CASE ~Says(Refused, Pend, sv.sub, Wanted)
    <3>1. Says(Refused, Pend, sv.sub, None) /\ sc.synced /\ (sc.timer \/ sc.queued \/ ~sc.app)
      BY <1>1, <1>2, <2>3 DEF SubFollows
    <3>2. CASE flushed \/ again
      BY <1>10, <3>2, <1>11, <3>1, SaysEnds
    <3>3. CASE ~(flushed \/ again)
      BY <1>10, <3>3, <3>1, <1>11, SaysEnds DEF flushed, again
    <3> QED BY <3>2, <3>3
  <2> QED BY <2>2, <2>3
<1>18. SubFollows'
  BY <1>1, <1>9, <1>11, <1>17 DEF SubFollows
<1>19. RowsFollow'
  <2> SUFFICES ASSUME ~sc.timer, refs.count # 0, refs.key \notin Refused, ~sc'.booting
               PROVE  Asked(Refused, Pend', sv.sub, refs.key) \/ RowsCome'
    BY <1>1, <1>9, <1>11 DEF RowsFollow
  <2>1. sc.app
    BY <1>2, <1>9 DEF again, UseShape
  <2>2. Asked(Refused, Pend, sv.sub, refs.key) \/ RowsCome
    BY <1>1, <1>2, <1>9, <2>1 DEF RowsFollow
  <2>3. CASE Asked(Refused, Pend, sv.sub, refs.key)
    BY <1>10, <1>11, <2>3, AskedEnds
  <2>4. CASE RowsCome
    BY <1>10, <1>11, <2>4, OnlyEnds, <1>1, BringsStarts, <1>9 DEF RowsCome, IsData
  <2> QED BY <2>2, <2>3, <2>4
<1> QED BY <1>12, <1>13, <1>14, <1>16, <1>18, <1>19 DEF UseIInv

\* What holds when the server takes a frame.
LEMMA HandledAre ==
  ASSUME UseIInv, ServerHandles
  PROVE  /\ Pend # <<>> /\ Pend \in Seq(UpFrames) /\ Tail(Pend) \in Seq(UpFrames) /\ Pend' = Tail(Pend)
         /\ Head(Pend) \in UpFrames /\ Head(Pend) = Pend[1] /\ UseHandle(Head(Pend)) /\ ~sc.first
         /\ socket = "open" /\ unsentFrames = <<>> /\ up' \in Seq(UpFrames)
         /\ down \in Seq(DownFrames) /\ ~Some(down, "disconnect")
         /\ UNCHANGED <<binding, mounted, refs, sc, socket, unsentFrames, useLeft>>
         /\ Refused' = Refused /\ Wanted' = Wanted
         /\ \A t : Some(Pend, t) <=> Head(Pend).t = t \/ Some(Tail(Pend), t)
         /\ Some(Tail(Pend), "hello") => Later(Pend, "hello")
         /\ ~sv.session => down = <<>>
<1>1. /\ socket = "open" /\ up # <<>> /\ up' = Tail(up) /\ UseHandle(Head(up))
      /\ UNCHANGED <<binding, mounted, refs, sc, socket, unsentFrames, useLeft>>
      /\ ~Some(down, "disconnect")
  BY DEF ServerHandles, Some
<1>2. UseShape /\ SocketHolds /\ FirstHolds
  BY DEF UseIInv
<1>3. Pend = up /\ Pend' = up' /\ up \in Seq(UpFrames) /\ down \in Seq(DownFrames) /\ unsentFrames = <<>>
  BY <1>1, <1>2 DEF Pend, UseShape, SocketHolds
<1>4. Head(up) \in UpFrames /\ Head(up) = up[1] /\ Tail(up) \in Seq(UpFrames)
  BY <1>1, <1>3, QueueStarts
<1>5. /\ \A t : Some(up, t) <=> Head(up).t = t \/ Some(Tail(up), t)
      /\ Some(Tail(up), "hello") => Later(up, "hello")
  BY <1>1, <1>3, <1>4, SomeStarts, LaterStarts
<1>6. ~sv.session => down = <<>>
  BY <1>3, SomeStarts, <1>1, <1>2 DEF SocketHolds
<1>7. ~sc.first /\ Refused' = Refused /\ Wanted' = Wanted
  BY <1>1, <1>2 DEF FirstHolds, Refused, Wanted
<1> QED BY <1>1, <1>3, <1>4, <1>5, <1>6, <1>7

\* Frames for the client.
LEMMA DownFramesAre ==
  /\ \A t \in {"hello_ack", "disconnect", "complete"} :
       /\ UseFrame(t, None) \in DownFrames /\ UseFrame(t, None).t = t
       /\ <<UseFrame(t, None)>> \in Seq(DownFrames)
  /\ \A t \in {"snapshot", "delta"}, p \in Params :
       /\ UseFrame(t, p) \in DownFrames /\ UseFrame(t, p).t = t /\ UseFrame(t, p).p = p
       /\ <<UseFrame(t, p)>> \in Seq(DownFrames)
  BY UseAssumption DEF UseFrame, DownFrames

\* A single frame for the client, after others.
LEMMA OneDown ==
  ASSUME NEW ds \in Seq(DownFrames), NEW f \in DownFrames
  PROVE  /\ Append(ds, f) \in Seq(DownFrames) /\ Append(ds, f) # <<>>
         /\ \A t : Some(Append(ds, f), t) <=> Some(ds, t) \/ f.t = t
         /\ ds = <<>> => Len(Append(ds, f)) = 1 /\ Append(ds, f)[1] = f
         /\ ds # <<>> => Append(ds, f)[1] = ds[1]
         /\ \A t : Later(Append(ds, f), t) => Later(ds, t) \/ f.t = t
         /\ \A w, rows, p : Brings(ds, w, rows, p) /\ (IsData(f) => f.p = p)
                              => Brings(Append(ds, f), w, rows, p)
<1>1. Append(ds, f) = ds \o <<f>> /\ <<f>> \in Seq(DownFrames) /\ Len(<<f>>) = 1 /\ <<f>>[1] = f
  BY AppendIsConcat
<1>2. /\ Append(ds, f) \in Seq(DownFrames) /\ Append(ds, f) # <<>>
      /\ Len(Append(ds, f)) = Len(ds) + 1
      /\ \A i \in 1..Len(ds) : Append(ds, f)[i] = ds[i]
      /\ Append(ds, f)[Len(ds) + 1] = f
  BY AppendProperties
<1>3. \A t : Some(Append(ds, f), t) <=> Some(ds, t) \/ f.t = t
  <2> TAKE t
  <2>1. Some(ds \o <<f>>, t) <=> Some(ds, t) \/ Some(<<f>>, t)
    BY <1>1, SomeEnds
  <2>2. Some(<<f>>, t) <=> f.t = t
    BY SomeOne
  <2> QED BY <1>1, <2>1, <2>2
<1>4. ds = <<>> => Len(Append(ds, f)) = 1 /\ Append(ds, f)[1] = f
  BY <1>2
<1>5. ds # <<>> => Append(ds, f)[1] = ds[1]
  BY QueueStarts, <1>2
<1>6. \A t : Later(Append(ds, f), t) => Later(ds, t) \/ f.t = t
  <2> TAKE t
  <2>1. Later(ds \o <<f>>, t) => Later(ds, t) \/ Some(<<f>>, t)
    BY <1>1, LaterEnds
  <2> QED BY <1>1, <2>1, SomeOne
<1>7. ASSUME NEW w, NEW rows, NEW p, Brings(ds, w, rows, p), IsData(f) => f.p = p
      PROVE  Brings(Append(ds, f), w, rows, p)
  <2>1. \A j \in 1..Len(<<f>>) : IsData(<<f>>[j]) => <<f>>[j].p = p
    BY <1>1, <1>7
  <2>2. Brings(ds \o <<f>>, w, rows, p)
    BY <1>1, <1>7, <2>1, BringsEnds
  <2> QED BY <1>1, <2>2
<1> QED BY <1>2, <1>3, <1>4, <1>5, <1>6, <1>7

\* hello begins the session, or goes on with it.
LEMMA HelloHandled ==
  ASSUME UseIInv, ServerHandles, Head(Pend).t = "hello"
  PROVE  UseIInv'
<1>1. /\ Pend # <<>> /\ Pend \in Seq(UpFrames) /\ Tail(Pend) \in Seq(UpFrames) /\ Pend' = Tail(Pend)
      /\ Head(Pend) \in UpFrames /\ Head(Pend) = Pend[1] /\ UseHandle(Head(Pend)) /\ ~sc.first
      /\ socket = "open" /\ unsentFrames = <<>> /\ up' \in Seq(UpFrames)
      /\ down \in Seq(DownFrames) /\ ~Some(down, "disconnect")
      /\ UNCHANGED <<binding, mounted, refs, sc, socket, unsentFrames, useLeft>>
      /\ Refused' = Refused /\ Wanted' = Wanted
      /\ \A t : Some(Pend, t) <=> Head(Pend).t = t \/ Some(Tail(Pend), t)
      /\ Some(Tail(Pend), "hello") => Later(Pend, "hello")
      /\ ~sv.session => down = <<>>
  BY HandledAre
<1>2. UseShape /\ SocketHolds /\ FirstHolds /\ OneHello /\ SubFollows /\ RowsFollow
  BY DEF UseIInv
<1> DEFINE a == UseFrame("hello_ack", None)
<1>3. a \in DownFrames /\ a.t = "hello_ack"
  BY DownFramesAre
<1>4. down' = Append(down, a) /\ sv' = [session |-> TRUE, sub |-> sv.sub]
  BY <1>1, <1>2 DEF UseHandle, SocketHolds
<1> HIDE DEF a
<1>5. /\ down' \in Seq(DownFrames) /\ down' # <<>>
      /\ \A t : Some(down', t) <=> Some(down, t) \/ a.t = t
      /\ down = <<>> => Len(down') = 1 /\ down'[1] = a
      /\ \A w, rows, p : Brings(down, w, rows, p) /\ (IsData(a) => a.p = p) => Brings(down', w, rows, p)
  BY <1>1, <1>3, <1>4, OneDown
<1>6. ~Lost /\ AckComes /\ AckComes' /\ ~Some(down', "disconnect") /\ sv'.session /\ sv'.sub = sv.sub
  BY <1>1, <1>3, <1>4, <1>5 DEF Lost, AckComes
<1>7. UseShape'
  BY <1>1, <1>2, <1>4, <1>5 DEF UseShape
<1>8. SocketHolds'
  BY <1>1, <1>6 DEF SocketHolds
<1>9. FirstHolds'
  BY <1>1, <1>2, <1>6 DEF FirstHolds
<1>10. OneHello'
  <2> SUFFICES ASSUME sc.app, ~sc.timer
               PROVE  /\ ~sc.mark /\ down'[1].t = "hello_ack" /\ ~Later(down', "hello_ack")
                      /\ ~Some(Pend', "hello")
    BY <1>1, <1>5, <1>6 DEF OneHello
  <2>1. ~sv.session /\ ~sc.mark /\ ~Later(Pend, "hello")
    BY <1>1, <1>2, <1>6 DEF OneHello
  <2>2. down = <<>> /\ Len(down') = 1 /\ down'[1] = a
    BY <1>1, <1>5, <2>1
  <2>3. ~Later(down', "hello_ack")
    BY <2>2 DEF Later
  <2> QED BY <1>1, <1>3, <2>1, <2>2, <2>3
<1>11. ~Changes(Refused, Head(Pend))
  BY DEF Changes
<1>12. \A s, p : Says(Refused, Pend, s, p) => Says(Refused, Tail(Pend), s, p)
  <2> SUFFICES ASSUME NEW s, NEW p, Says(Refused, Pend, s, p) PROVE Says(Refused, Tail(Pend), s, p)
    OBVIOUS
  <2>1. Len(Pend) \in Nat \ {0} /\ Len(Tail(Pend)) = Len(Pend) - 1
    BY <1>1, QueueStarts
  <2>2. Len(Pend) + 1 \in 2..(Len(Pend) + 1) /\ Len(Pend) + 1 - 1 = Len(Tail(Pend)) + 1
    BY <2>1
  <2>3. SaysBefore(Refused, Tail(Pend), Len(Pend) + 1 - 1, IF Changes(Refused, Head(Pend)) THEN Head(Pend).p ELSE s, p)
    BY <1>1, <2>2, SaysStarts DEF Says
  <2> QED BY <1>11, <2>2, <2>3 DEF Says
<1>13. SubFollows'
  BY <1>1, <1>2, <1>6, <1>12 DEF SubFollows
<1>14. RowsFollow'
  <2> SUFFICES ASSUME ~sc.timer, refs.count # 0, refs.key \notin Refused
               PROVE  \/ sc.booting
                      \/ ~sc.app \/ (sc.queued /\ ~sc.mark)
                      \/ Asked(Refused, Tail(Pend), sv.sub, refs.key)
                      \/ RowsCome'
    BY <1>1, <1>6 DEF RowsFollow
  <2>1. CASE Asked(Refused, Pend, sv.sub, refs.key)
    BY <1>1, <1>11, <2>1, AskedStarts
  <2>2. CASE RowsCome
    BY <1>1, <2>2, OnlyStarts, <1>3, <1>5, <1>6 DEF RowsCome, IsData
  <2> QED BY <1>2, <1>6, <2>1, <2>2 DEF RowsFollow
<1> QED BY <1>7, <1>8, <1>9, <1>10, <1>13, <1>14 DEF UseIInv

\* Any other first frame costs the connection.
LEMMA StrangerHandled ==
  ASSUME UseIInv, ServerHandles, Head(Pend).t # "hello", ~sv.session
  PROVE  UseIInv'
<1>1. /\ Pend # <<>> /\ Pend' = Tail(Pend) /\ UseHandle(Head(Pend)) /\ ~sc.first
      /\ socket = "open" /\ unsentFrames = <<>> /\ up' \in Seq(UpFrames)
      /\ down \in Seq(DownFrames)
      /\ UNCHANGED <<binding, mounted, refs, sc, socket, unsentFrames, useLeft>>
      /\ \A t : Some(Pend, t) <=> Head(Pend).t = t \/ Some(Tail(Pend), t)
      /\ down = <<>>
  BY HandledAre
<1>2. UseShape /\ SocketHolds /\ FirstHolds
  BY DEF UseIInv
<1> DEFINE d == UseFrame("disconnect", None)
<1>3. d \in DownFrames /\ d.t = "disconnect"
  BY DownFramesAre
<1>4. down' = Append(down, d) /\ sv' = sv
  BY <1>1 DEF UseHandle
<1> HIDE DEF d
<1>5. /\ down' \in Seq(DownFrames) /\ Len(down') = 1 /\ down'[1] = d
      /\ \A t : Some(down', t) <=> Some(down, t) \/ d.t = t
  BY <1>1, <1>3, <1>4, OneDown
<1>6. Lost'
  BY <1>3, <1>5 DEF Lost
<1>7. UseShape'
  BY <1>1, <1>2, <1>4, <1>5 DEF UseShape
<1>8. SocketHolds'
  BY <1>1, <1>2, <1>3, <1>4, <1>5 DEF SocketHolds
<1>9. FirstHolds'
  BY <1>1, <1>2, <1>5 DEF FirstHolds, AckComes
<1>10. OneHello' /\ SubFollows' /\ RowsFollow'
  BY <1>6 DEF OneHello, SubFollows, RowsFollow
<1> QED BY <1>7, <1>8, <1>9, <1>10 DEF UseIInv

\* What a session's frames have in common: what the queue says goes on from what the
\* first frame made of the subscription.
LEMMA SessionHandled ==
  ASSUME UseIInv, ServerHandles, Head(Pend).t # "hello", sv.session,
         sv' = [session |-> TRUE, sub |-> IF Changes(Refused, Head(Pend)) THEN Head(Pend).p ELSE sv.sub],
         down' \in Seq(DownFrames), ~Some(down', "disconnect"),
         Some(down', "hello_ack") <=> Some(down, "hello_ack"),
         Later(down', "hello_ack") => Later(down, "hello_ack"),
         down # <<>> => down' # <<>> /\ down'[1] = down[1],
         RowsCome => Brings(down', sc.whole, sc.rows, refs.key),
         Head(Pend).t = "bootstrap" /\ sv.sub = refs.key /\ refs.key # None
           => Brings(down', sc.whole, sc.rows, refs.key)
  PROVE  UseIInv'
<1>1. /\ Pend # <<>> /\ Pend \in Seq(UpFrames) /\ Tail(Pend) \in Seq(UpFrames) /\ Pend' = Tail(Pend)
      /\ Head(Pend) \in UpFrames /\ Head(Pend) = Pend[1] /\ ~sc.first
      /\ socket = "open" /\ unsentFrames = <<>> /\ up' \in Seq(UpFrames)
      /\ down \in Seq(DownFrames) /\ ~Some(down, "disconnect")
      /\ UNCHANGED <<binding, mounted, refs, sc, socket, unsentFrames, useLeft>>
      /\ Refused' = Refused /\ Wanted' = Wanted
      /\ \A t : Some(Pend, t) <=> Head(Pend).t = t \/ Some(Tail(Pend), t)
  BY HandledAre
<1>2. UseShape /\ SocketHolds /\ FirstHolds /\ OneHello /\ SubFollows /\ RowsFollow
  BY DEF UseIInv
<1> DEFINE x == IF Changes(Refused, Head(Pend)) THEN Head(Pend).p ELSE sv.sub
<1>3. sv'.session /\ sv'.sub = x /\ ~Lost /\ ~Lost' /\ (AckComes' <=> AckComes)
      /\ (Some(Pend', "hello") => Some(Pend, "hello"))
  BY <1>1 DEF Lost, AckComes
<1>4. UseShape'
  BY <1>1, <1>2 DEF UpFrames, UseShape, ParamsOrNone
<1> HIDE DEF x
<1>5. SocketHolds'
  BY <1>1, <1>3 DEF SocketHolds
<1>6. FirstHolds'
  BY <1>1, <1>2, <1>3 DEF FirstHolds
<1>7. OneHello'
  BY <1>1, <1>2, <1>3 DEF OneHello
<1>8. \A p : Says(Refused, Pend, sv.sub, p) => Says(Refused, Tail(Pend), x, p)
  <2> SUFFICES ASSUME NEW p, Says(Refused, Pend, sv.sub, p) PROVE Says(Refused, Tail(Pend), x, p)
    OBVIOUS
  <2>1. Len(Pend) \in Nat \ {0} /\ Len(Tail(Pend)) = Len(Pend) - 1
    BY <1>1, QueueStarts
  <2>2. Len(Pend) + 1 \in 2..(Len(Pend) + 1) /\ Len(Pend) + 1 - 1 = Len(Tail(Pend)) + 1
    BY <2>1
  <2>3. SaysBefore(Refused, Tail(Pend), Len(Pend) + 1 - 1,
                   IF Changes(Refused, Head(Pend)) THEN Head(Pend).p ELSE sv.sub, p)
    <3>1. Pend \in Seq(UpFrames) /\ Pend # <<>> /\ Len(Pend) + 1 \in 2..(Len(Pend) + 1)
          /\ SaysBefore(Refused, Pend, Len(Pend) + 1, sv.sub, p)
      BY <1>1, <2>2 DEF Says
    <3> QED BY SMTT(30), <3>1, SaysStarts
  <2> QED BY <2>2, <2>3 DEF Says, x
<1>9. SubFollows'
  BY <1>1, <1>2, <1>3, <1>8 DEF SubFollows
<1>10. RowsFollow'
  <2> SUFFICES ASSUME ~sc.timer, refs.count # 0, refs.key \notin Refused
               PROVE  \/ sc.booting
                      \/ AckComes /\ (~sc.app \/ (sc.queued /\ ~sc.mark))
                      \/ Asked(Refused, Tail(Pend), x, refs.key)
                      \/ RowsCome'
    BY <1>1, <1>3 DEF RowsFollow
  <2>1. refs.key # None
    BY <1>2 DEF UseShape
  <2>2. CASE Asked(Refused, Pend, sv.sub, refs.key)
    BY <1>1, <2>2, AskedStarts, <1>3, <2>1 DEF x, Changes, RowsCome
  <2>3. CASE RowsCome
    BY <1>1, <2>3, OnlyStarts, <1>3 DEF RowsCome, x
  <2> QED BY <1>2, <1>3, <2>2, <2>3 DEF RowsFollow
<1> QED BY <1>4, <1>5, <1>6, <1>7, <1>9, <1>10 DEF UseIInv

\* Declarations and their end change the subscription and answer nothing.
LEMMA SubscriptionHandled ==
  ASSUME UseIInv, ServerHandles, Head(Pend).t \in {"declare", "unsync"}, sv.session
  PROVE  UseIInv'
<1>1. Head(Pend) \in UpFrames /\ UseHandle(Head(Pend)) /\ down \in Seq(DownFrames) /\ ~Some(down, "disconnect")
  BY HandledAre
<1>2. down' = down
  BY <1>1 DEF UseHandle
<1>3. sv \in [session : BOOLEAN, sub : ParamsOrNone]
  BY DEF UseIInv, UseShape
<1>4. Head(Pend).t = "unsync" => Head(Pend).p = None
  BY <1>1 DEF UpFrames
<1>5. sv' = [session |-> TRUE, sub |-> IF Changes(Refused, Head(Pend)) THEN Head(Pend).p ELSE sv.sub]
  <2>1. CASE Head(Pend).t = "declare"
    BY <1>1, <2>1, <1>3 DEF UseHandle, Refused, Changes
  <2>2. CASE Head(Pend).t = "unsync"
    BY <1>1, <2>2, <1>3, <1>4 DEF UseHandle, Changes
  <2> QED BY <2>1, <2>2
<1>6. RowsCome => Brings(down', sc.whole, sc.rows, refs.key)
  BY <1>2 DEF RowsCome
<1> QED BY <1>1, <1>2, <1>5, <1>6, SessionHandled

\* A bootstrap is answered with the rows of the subscription; a resume is not.
LEMMA RowsHandled ==
  ASSUME UseIInv, ServerHandles, Head(Pend).t \in {"bootstrap", "resume"}, sv.session
  PROVE  UseIInv'
<1>1. Head(Pend) \in UpFrames /\ UseHandle(Head(Pend)) /\ down \in Seq(DownFrames) /\ ~Some(down, "disconnect")
  BY HandledAre
<1>2. sv \in [session : BOOLEAN, sub : ParamsOrNone] /\ sc \in UseClients
  BY DEF UseIInv, UseShape
<1>3. sv' = [session |-> TRUE, sub |-> IF Changes(Refused, Head(Pend)) THEN Head(Pend).p ELSE sv.sub]
  <2>1. sv' = sv
    BY <1>1 DEF UseHandle
  <2> QED BY <1>2, <2>1 DEF Changes
<1>4. Complete \in DownFrames /\ Complete.t = "complete"
  BY DownFramesAre DEF Complete
<1> DEFINE b == Append(down, Complete)
<1>5. CASE Head(Pend).t = "resume" \/ sv.sub = None
  <2>1. down' = b
    <3>1. CASE Head(Pend).t = "resume"
      BY <1>1, <3>1 DEF UseHandle
    <3>2. CASE Head(Pend).t = "bootstrap"
      BY <1>1, <1>5, <3>2, <1>4, AppendIsConcat DEF UseHandle, RowFrames
    <3> QED BY <3>1, <3>2
  <2>2. /\ down' \in Seq(DownFrames) /\ down' # <<>>
        /\ \A t : Some(down', t) <=> Some(down, t) \/ Complete.t = t
        /\ down # <<>> => down'[1] = down[1]
        /\ \A t : Later(down', t) => Later(down, t) \/ Complete.t = t
        /\ \A w, rows, p : Brings(down, w, rows, p) /\ (IsData(Complete) => Complete.p = p)
                             => Brings(down', w, rows, p)
    BY <1>1, <1>4, <2>1, OneDown
  <2>3. RowsCome => Brings(down', sc.whole, sc.rows, refs.key)
    BY <1>4, <2>2 DEF RowsCome, IsData
  <2>4. /\ ~Some(down', "disconnect") /\ (Some(down', "hello_ack") <=> Some(down, "hello_ack"))
        /\ (Later(down', "hello_ack") => Later(down, "hello_ack"))
    BY <1>1, <1>4, <2>2
  <2>5. ~(Head(Pend).t = "bootstrap" /\ sv.sub = refs.key /\ refs.key # None)
    BY <1>5
  <2> HIDE DEF b
  <2> QED BY <1>3, <2>2, <2>3, <2>4, <2>5, SessionHandled
<1>6. CASE Head(Pend).t = "bootstrap" /\ sv.sub # None
  <2> DEFINE n == UseFrame("snapshot", sv.sub)
             c == Append(down, n)
  <2>1. n \in DownFrames /\ n.t = "snapshot" /\ n.p = sv.sub
    BY <1>2, <1>6, DownFramesAre DEF ParamsOrNone
  <2>2. down' = down \o Append(<<n>>, Complete)
    BY <1>1, <1>6 DEF UseHandle, RowFrames
  <2> HIDE DEF n
  <2>3. down' = down \o <<n, Complete>> /\ <<n, Complete>> \in Seq(DownFrames)
    BY <1>4, <2>1, <2>2
  <2>4. \A t : Some(<<n, Complete>>, t) <=> n.t = t \/ Complete.t = t
    <3> TAKE t
    <3>1. Len(<<n, Complete>>) = 2 /\ <<n, Complete>>[1] = n /\ <<n, Complete>>[2] = Complete
      OBVIOUS
    <3> QED BY <3>1 DEF Some
  <2>5. /\ down' \in Seq(DownFrames) /\ down' # <<>>
        /\ \A t : Some(down', t) <=> Some(down, t) \/ Some(<<n, Complete>>, t)
        /\ \A t : Later(down', t) => Later(down, t) \/ Some(<<n, Complete>>, t)
        /\ down # <<>> => down'[1] = down[1]
    <3>1. down' \in Seq(DownFrames) /\ down' # <<>>
      BY <1>1, <2>3, QueueEnds
    <3>2. \A t : Some(down', t) <=> Some(down, t) \/ Some(<<n, Complete>>, t)
      BY <1>1, <2>3, SomeEnds
    <3>3. \A t : Later(down', t) => Later(down, t) \/ Some(<<n, Complete>>, t)
      BY <1>1, <2>3, LaterEnds
    <3>4. down # <<>> => 1 \in 1..Len(down)
      BY <1>1, QueueStarts
    <3>5. down # <<>> => down'[1] = down[1]
      BY <1>1, <2>3, <3>4, QueueEnds
    <3> QED BY <3>1, <3>2, <3>3, <3>5
  <2>6. sv.sub = refs.key => Brings(down', sc.whole, sc.rows, refs.key)
    <3> SUFFICES ASSUME sv.sub = refs.key PROVE Brings(down \o <<n, Complete>>, sc.whole, sc.rows, refs.key)
      BY <2>3
    <3>1. Len(<<n, Complete>>) = 2 /\ <<n, Complete>>[1] = n /\ <<n, Complete>>[2] = Complete
      OBVIOUS
    <3>2. \A j \in 1..Len(<<n, Complete>>) : IsData(<<n, Complete>>[j]) => <<n, Complete>>[j].p = refs.key
      BY <1>4, <2>1, <3>1 DEF IsData
    <3>3. \E j \in 1..Len(<<n, Complete>>) : <<n, Complete>>[j].t = "snapshot"
      BY <2>1, <3>1
    <3> QED BY <1>1, <2>3, <3>2, <3>3, BringsEnds
  <2>7. /\ ~Some(down', "disconnect") /\ (Some(down', "hello_ack") <=> Some(down, "hello_ack"))
        /\ (Later(down', "hello_ack") => Later(down, "hello_ack"))
    BY <1>1, <1>4, <2>1, <2>4, <2>5
  <2>8. RowsCome => Brings(down', sc.whole, sc.rows, refs.key)
    BY <2>6 DEF RowsCome
  <2> QED BY <1>3, <2>5, <2>6, <2>7, <2>8, SessionHandled
<1> QED BY <1>5, <1>6

\* A broadcast is of the subscription.
LEMMA BroadcastKeeps == UseIInv /\ Broadcast => UseIInv'
<1> SUFFICES ASSUME UseIInv, Broadcast PROVE UseIInv'
  OBVIOUS
<1> DEFINE d == UseFrame("delta", sv.sub)
<1>1. /\ sv.session /\ sv.sub # None /\ Once("deltas") /\ socket = "open" /\ down' = Append(down, d)
      /\ UNCHANGED <<binding, mounted, refs, sc, socket, unsentFrames, up, sv>>
  BY DEF Broadcast
<1>2. UseShape /\ SocketHolds /\ FirstHolds /\ OneHello /\ SubFollows /\ RowsFollow
  BY DEF UseIInv
<1>3. d \in DownFrames /\ d.t = "delta" /\ d.p = sv.sub /\ down \in Seq(DownFrames)
  BY <1>1, <1>2, DownFramesAre DEF UseShape, ParamsOrNone
<1> HIDE DEF d
<1>4. /\ down' \in Seq(DownFrames) /\ down' # <<>>
      /\ \A t : Some(down', t) <=> Some(down, t) \/ d.t = t
      /\ down # <<>> => down'[1] = down[1]
      /\ \A t : Later(down', t) => Later(down, t) \/ d.t = t
      /\ \A w, rows, p : Brings(down, w, rows, p) /\ (IsData(d) => d.p = p) => Brings(down', w, rows, p)
  BY <1>1, <1>3, OneDown
<1>5. useLeft' \in UseBudgets /\ Refused' = Refused
  BY <1>1, <1>2, OnceIs
<1>6. Pend' = Pend /\ Wanted' = Wanted
  BY <1>1, <1>5 DEF Pend, Wanted
<1>7. (AckComes' <=> AckComes) /\ (Lost' <=> Lost)
  BY <1>1, <1>3, <1>4, <1>6 DEF AckComes, Lost
<1>8. UseShape'
  BY <1>1, <1>2, <1>4, <1>5 DEF UseShape
<1>9. SocketHolds'
  BY <1>1, <1>2, <1>3, <1>4 DEF SocketHolds
<1>10. FirstHolds'
  BY <1>1, <1>2, <1>6, <1>7 DEF FirstHolds
<1>11. OneHello'
  BY <1>1, <1>2, <1>3, <1>4, <1>6, <1>7 DEF OneHello
<1>12. SubFollows'
  BY <1>1, <1>2, <1>5, <1>6, <1>7 DEF SubFollows
<1>13. RowsCome => RowsCome'
  <2> SUFFICES ASSUME RowsCome PROVE RowsCome'
    OBVIOUS
  <2>1. Brings(down', sc.whole, sc.rows, refs.key)
    BY <1>3, <1>4 DEF RowsCome
  <2> QED BY <1>1, <1>5, <1>6, <2>1 DEF RowsCome
<1>14. RowsFollow'
  BY <1>1, <1>2, <1>5, <1>6, <1>7, <1>13 DEF RowsFollow
<1> QED BY <1>8, <1>9, <1>10, <1>11, <1>12, <1>14 DEF UseIInv

-----------------------------------------------------------------------------
(* Subscriptions: the uses.                                                *)

\* Frames that are sent after others, or none: no hello among them.
LEMMA SentAre ==
  ASSUME UseShape, SocketHolds, NEW fs \in Seq(UpFrames), ~Some(fs, "hello"),
         IF fs = <<>> THEN UNCHANGED <<socket, unsentFrames, up>> ELSE UseSend(fs),
         UNCHANGED <<down, sv>>
  PROVE  /\ Pend' = Pend \o fs /\ up' \in Seq(UpFrames) /\ unsentFrames' \in Seq(UpFrames)
         /\ socket' \in {"none", "opening", "open"} /\ (socket' = "open" <=> socket = "open")
         /\ fs = <<>> => socket' = socket
         /\ SocketHolds' /\ (~Lost' => ~Lost) /\ (AckComes' <=> AckComes)
         /\ Pend # <<>> => Pend' # <<>> /\ Pend'[1] = Pend[1]
         /\ Pend = <<>> => Pend' = fs
         /\ Later(Pend', "hello") => Later(Pend, "hello")
         /\ Some(Pend', "hello") => Some(Pend, "hello")
<1>1. Pend \in Seq(UpFrames)
  BY PendIsQueue
<1>2. CASE fs = <<>>
  BY <1>2, <1>1, ConcatEmptySeq DEF Pend, SocketHolds, Lost, AckComes, UseShape
<1>3. CASE fs # <<>>
  <2>1. UseSend(fs)
    BY <1>3
  <2>2. /\ Pend' = Pend \o fs /\ up' \in Seq(UpFrames) /\ unsentFrames' \in Seq(UpFrames)
        /\ socket' = IF socket = "open" THEN "open" ELSE "opening"
    BY <2>1, SendIs
  <2>3. /\ SocketHolds' /\ (~Lost' => ~Lost) /\ (AckComes' <=> AckComes)
        /\ Pend' # <<>> <=> Pend # <<>> \/ fs # <<>>
        /\ Pend # <<>> => Pend'[1] = Pend[1]
        /\ Pend = <<>> => Pend' = fs
        /\ Later(Pend', "hello") => Later(Pend, "hello")
    BY <2>1, SendKeeps
  <2>4. Some(Pend \o fs, "hello") <=> Some(Pend, "hello") \/ Some(fs, "hello")
    BY <1>1, SomeEnds
  <2> QED BY <1>3, <2>2, <2>3, <2>4
<1> QED BY <1>2, <1>3

\* A client that stays what it is but for what it shows and asks for, after frames
\* that are no hello: the connection's own hello is still the only one.
LEMMA OneHelloStays ==
  ASSUME OneHello, UNCHANGED <<down, sv>>, ~Lost' => ~Lost, AckComes' <=> AckComes,
         sc'.app = sc.app, sc'.timer = sc.timer, sc'.first = sc.first, sc'.mark = sc.mark,
         Pend # <<>> => Pend' # <<>>,
         Later(Pend', "hello") => Later(Pend, "hello"),
         Some(Pend', "hello") => Some(Pend, "hello")
  PROVE  OneHello'
<1> SUFFICES ASSUME sc.app, ~sc.timer, ~sc.first, ~Lost'
             PROVE  \/ ~sv.session /\ ~sc.mark /\ Pend' # <<>> /\ ~Later(Pend', "hello")
                    \/ /\ sv.session /\ ~sc.mark /\ down # <<>> /\ down[1].t = "hello_ack"
                       /\ ~Later(down, "hello_ack") /\ ~Some(Pend', "hello")
                    \/ sv.session /\ ~AckComes'
  BY DEF OneHello
<1> QED BY DEF OneHello

\* The uses of the table that are mounted.
Users == {u \in Uses : mounted[u] # None}

\* One more use, or one fewer.
LEMMA UsersAre ==
  ASSUME UseShape, NEW u \in Uses, NEW p \in ParamsOrNone, mounted' = [mounted EXCEPT ![u] = p]
  PROVE  /\ mounted' \in [Uses -> ParamsOrNone]
         /\ mounted[u] = None /\ p # None => Cardinality(Users') = refs.count + 1
         /\ mounted[u] # None /\ p = None => Cardinality(Users') = refs.count - 1 /\ refs.count # 0
<1>1. mounted \in [Uses -> ParamsOrNone] /\ refs.count = Cardinality(Users) /\ refs.count \in Nat
  BY DEF UseShape, Users
<1>2. IsFiniteSet(Users)
  BY UseAssumption, FS_Subset DEF Users
<1>3. mounted' \in [Uses -> ParamsOrNone]
  BY <1>1
<1>4. ASSUME mounted[u] = None, p # None PROVE Cardinality(Users') = refs.count + 1
  <2>1. Users' = Users \cup {u} /\ u \notin Users
    BY <1>1, <1>4 DEF Users
  <2> QED BY <1>1, <1>2, <2>1, FS_AddElement
<1>5. ASSUME mounted[u] # None, p = None PROVE Cardinality(Users') = refs.count - 1 /\ refs.count # 0
  <2>1. Users' = Users \ {u} /\ u \in Users
    BY <1>1, <1>5 DEF Users
  <2>2. Cardinality(Users \ {u}) = Cardinality(Users) - 1
    BY <1>2, <2>1, FS_RemoveElement
  <2>3. Cardinality(Users) # 0
    BY <1>2, <2>1, FS_EmptySet
  <2> QED BY <1>1, <2>1, <2>2, <2>3
<1> QED BY <1>3, <1>4, <1>5

\* A use goes: others keep the table, and the last one gives it up.
LEMMA UnmountKeeps ==
  ASSUME UseIInv, NEW u \in Uses, Unmount(u)
  PROVE  UseIInv'
<1>1. /\ mounted[u] # None /\ mounted' = [mounted EXCEPT ![u] = None]
      /\ UNCHANGED <<binding, down, sv, useLeft>>
  BY DEF Unmount
<1>2. UseShape /\ SocketHolds /\ FirstHolds /\ OneHello /\ SubFollows /\ RowsFollow
  BY DEF UseIInv
<1>3. /\ mounted' \in [Uses -> ParamsOrNone] /\ Cardinality(Users') = refs.count - 1
      /\ refs.count # 0 /\ refs.count \in Nat /\ Refused' = Refused
  BY <1>1, <1>2, UsersAre DEF ParamsOrNone, UseShape, Refused
<1>4. CASE refs.count = 1
  <2>1. refs' = [count |-> 0, key |-> None] /\ sc' = Unsynced(sc) /\ UseSend(<<UnsyncFrame>>)
    BY <1>4 DEF Unmount
  <2>2. /\ <<UnsyncFrame>> \in Seq(UpFrames) /\ <<UnsyncFrame>> # <<>> /\ ~Some(<<UnsyncFrame>>, "hello")
        /\ \A s : Says(Refused, <<UnsyncFrame>>, s, None)
    BY FramesAre, OneFrame
  <2>3. IF <<UnsyncFrame>> = <<>> THEN UNCHANGED <<socket, unsentFrames, up>> ELSE UseSend(<<UnsyncFrame>>)
    BY <2>1, <2>2
  <2>4. /\ Pend' = Pend \o <<UnsyncFrame>> /\ up' \in Seq(UpFrames) /\ unsentFrames' \in Seq(UpFrames)
        /\ socket' \in {"none", "opening", "open"} /\ (socket' = "open" <=> socket = "open")
        /\ SocketHolds' /\ (~Lost' => ~Lost) /\ (AckComes' <=> AckComes)
        /\ Pend # <<>> => Pend' # <<>> /\ Pend'[1] = Pend[1]
        /\ Pend = <<>> => Pend' = <<UnsyncFrame>>
        /\ Later(Pend', "hello") => Later(Pend, "hello")
        /\ Some(Pend', "hello") => Some(Pend, "hello")
    BY <1>1, <1>2, <2>2, <2>3, SentAre
  <2>5. /\ sc' \in UseClients /\ ~sc'.synced /\ sc'.params = None /\ sc'.queued = sc.queued
        /\ sc'.booting = sc.booting /\ sc'.mark = sc.mark /\ sc'.timer = sc.timer
        /\ sc'.first = sc.first /\ sc'.app = sc.app /\ sc'.state = sc.state
    BY <1>2, <2>1 DEF Unsynced, UseShape, UseClients, ParamsOrNone
  <2>6. UseShape'
    BY <1>3, <1>4, <2>1, <1>1, <1>2, <2>4, <2>5 DEF ParamsOrNone, UseShape, Users
  <2>7. FirstHolds'
    BY <2>4, FramesAre, <1>2, <1>3, <2>5 DEF UseShape, FirstHolds
  <2>8. OneHello'
    BY <1>1, <1>2, <2>4, <2>5, OneHelloStays
  <2>9. SubFollows'
    <3> SUFFICES ASSUME ~Lost' PROVE Says(Refused, Pend', sv.sub, Wanted')
      BY <1>1, <1>3 DEF SubFollows
    <3>1. PICK x : Says(Refused, Pend, sv.sub, x)
      BY <1>2, <2>4 DEF SubFollows
    <3>2. Says(Refused, Pend \o <<UnsyncFrame>>, sv.sub, None)
      BY <1>2, <2>2, <3>1, SaysEnds, PendIsQueue
    <3>3. Wanted' = None
      BY <2>1 DEF Wanted
    <3> QED BY <2>4, <3>2, <3>3
  <2>10. RowsFollow'
    BY <2>1 DEF RowsFollow
  <2> QED BY <2>4, <2>6, <2>7, <2>8, <2>9, <2>10 DEF UseIInv
<1>5. CASE refs.count # 1
  <2>1. refs' = Fewer /\ UNCHANGED <<sc, socket, unsentFrames, up>>
    BY <1>5 DEF Unmount
  <2>2. refs' \in [count : Nat, key : ParamsOrNone] /\ refs'.key = refs.key
        /\ refs'.count = refs.count - 1 /\ refs'.count # 0
    <3>1. refs \in [count : Nat, key : ParamsOrNone] /\ refs.count > 0
      BY <1>2, <1>3 DEF UseShape
    <3>2. refs' = [refs EXCEPT !.count = refs.count - 1]
      BY <2>1 DEF Fewer
    <3>3. refs' = [count |-> refs.count - 1, key |-> refs.key]
      BY <3>1, <3>2
    <3>4. refs.count - 1 \in Nat /\ refs.count - 1 # 0
      BY <1>5, <3>1
    <3> QED BY <3>1, <3>3, <3>4
  <2>3. Pend' = Pend /\ Wanted' = Wanted
    BY <1>1, <1>3, <2>1, <2>2 DEF Pend, Wanted, Refused
  <2>4. Lost' = Lost /\ AckComes' = AckComes
    BY <1>1, <2>1, <2>3 DEF Lost, AckComes
  <2>5. UseShape'
    BY <1>1, <1>2, <1>3, <2>1, <2>2 DEF UseShape, Users
  <2>6. SocketHolds'
    BY <1>1, <1>2, <2>1 DEF SocketHolds
  <2>7. FirstHolds'
    BY <1>2, <2>1, <2>3, <2>4 DEF FirstHolds
  <2>8. OneHello'
    BY <1>1, <1>2, <2>1, <2>3, <2>4 DEF OneHello
  <2>9. SubFollows'
    BY <1>1, <1>2, <1>3, <2>1, <2>3, <2>4 DEF SubFollows
  <2>10. RowsFollow'
    BY <1>1, <1>3, <2>1, <2>2, <2>3, <1>2, <2>4 DEF RowsCome, RowsFollow
  <2> QED BY <2>5, <2>6, <2>7, <2>8, <2>9, <2>10 DEF UseIInv
<1> QED BY <1>4, <1>5

\* What a new use has the client send: the end of the subscription it replaces, and the
\* declare of its own where the client is open.
LEMMA MountSays ==
  ASSUME UseShape, NEW p \in Params
  PROVE  LET fs == GivenUp(p) \o Declares(IF ParamsChanged(p) THEN Unsynced(sc) ELSE sc, p)
         IN  /\ fs \in Seq(UpFrames) /\ ~Some(fs, "hello")
             /\ ~UseIsOpen(sc) => \A s : Says(Refused, fs, s, IF ParamsChanged(p) THEN None ELSE s)
             /\ UseIsOpen(sc) => \A s : Says(Refused, fs, s, IF p \notin Refused THEN p
                                                           ELSE IF ParamsChanged(p) THEN None ELSE s)
<1> DEFINE c == IF ParamsChanged(p) THEN Unsynced(sc) ELSE sc
           g == GivenUp(p)
           d == Declares(c, p)
<1>1. c.state = sc.state
  BY DEF Unsynced, UseShape, UseClients
<1>2. /\ g \in Seq(UpFrames) /\ ~Some(g, "hello")
      /\ \A s : Says(Refused, g, s, IF ParamsChanged(p) THEN None ELSE s)
  <2>1. CASE ParamsChanged(p)
    BY <2>1, FramesAre, OneFrame DEF GivenUp
  <2>2. CASE ~ParamsChanged(p)
    <3>1. g = <<>> /\ ~Some(<<>>, "hello")
      BY <2>2, SomeOne DEF GivenUp
    <3> QED BY <2>2, <3>1, SaysNothing
  <2> QED BY <2>1, <2>2
<1>3. /\ d \in Seq(UpFrames) /\ ~Some(d, "hello")
      /\ \A s : Says(Refused, d, s, IF UseIsOpen(sc) /\ p \notin Refused THEN p ELSE s)
  <2>1. CASE UseIsOpen(sc)
    <3> DEFINE f == UseFrame("declare", p)
    <3>1. d = <<f>>
      BY <1>1, <2>1 DEF Declares, UseIsOpen
    <3>2. f \in UpFrames /\ f.t = "declare" /\ f.p = p
      BY FramesAre
    <3> HIDE DEF d, f
    <3>3. /\ <<f>> \in Seq(UpFrames) /\ ~Some(<<f>>, "hello")
          /\ \A s : Says(Refused, <<f>>, s, IF f.p \in Refused THEN s ELSE f.p)
      BY <3>2, OneFrame
    <3>4. \A s : Says(Refused, d, s, IF UseIsOpen(sc) /\ p \notin Refused THEN p ELSE s)
      <4> TAKE s
      <4>1. Says(Refused, <<f>>, s, IF f.p \in Refused THEN s ELSE f.p)
        BY <3>3
      <4> QED BY <2>1, <3>1, <3>2, <4>1
    <3> QED BY <3>1, <3>3, <3>4
  <2>2. CASE ~UseIsOpen(sc)
    <3>1. d = <<>> /\ ~Some(<<>>, "hello")
      BY <1>1, <2>2, SomeOne DEF Declares, UseIsOpen
    <3>2. <<>> \in Seq(UpFrames) /\ \A s : Says(Refused, <<>>, s, s)
      BY SaysNothing
    <3> HIDE DEF d
    <3>3. \A s : Says(Refused, d, s, IF UseIsOpen(sc) /\ p \notin Refused THEN p ELSE s)
      BY <2>2, <3>1, <3>2
    <3> QED BY <3>1, <3>2, <3>3
  <2> QED BY <2>1, <2>2
<1> HIDE DEF g, d
<1>4. g \o d \in Seq(UpFrames) /\ ~Some(g \o d, "hello")
  BY <1>2, <1>3, SomeEnds, ConcatProperties
<1>5. \A s : Says(Refused, g \o d, s, IF UseIsOpen(sc) /\ p \notin Refused THEN p
                                      ELSE IF ParamsChanged(p) THEN None ELSE s)
  <2> TAKE s
  <2> DEFINE x == IF ParamsChanged(p) THEN None ELSE s
             y == IF UseIsOpen(sc) /\ p \notin Refused THEN p ELSE x
  <2>1. Says(Refused, g, s, x)
    BY <1>2
  <2>2. Says(Refused, d, x, y)
    BY <1>3
  <2> HIDE DEF x, y
  <2>3. Says(Refused, g \o d, s, y)
    BY <1>2, <1>3, <2>1, <2>2, SaysEnds
  <2> QED BY <2>3 DEF x, y
<1>6. ~UseIsOpen(sc) => \A s : Says(Refused, g \o d, s, IF ParamsChanged(p) THEN None ELSE s)
  BY <1>5
<1>7. UseIsOpen(sc) => \A s : Says(Refused, g \o d, s, IF p \notin Refused THEN p
                                                      ELSE IF ParamsChanged(p) THEN None ELSE s)
  BY <1>5
<1> QED BY <1>4, <1>6, <1>7 DEF g, d

\* The client that a use has synced.
LEMMA SyncedIs ==
  ASSUME sc \in UseClients, NEW p \in Params
  PROVE  LET c == IF ParamsChanged(p) THEN Unsynced(sc) ELSE sc
             d == [Synced(c, p) EXCEPT !.booting = TRUE]
         IN  /\ d \in UseClients /\ d.synced /\ d.params = p /\ d.booting
             /\ d.queued = IF UseIsOpen(sc) THEN sc.queued ELSE TRUE
             /\ d.state = sc.state /\ d.mark = sc.mark /\ d.timer = sc.timer
             /\ d.first = sc.first /\ d.app = sc.app
<1> DEFINE c == IF ParamsChanged(p) THEN Unsynced(sc) ELSE sc
           d == [Synced(c, p) EXCEPT !.booting = TRUE]
<1>1. /\ c \in UseClients /\ c.queued = sc.queued /\ c.state = sc.state /\ c.mark = sc.mark
      /\ c.timer = sc.timer /\ c.first = sc.first /\ c.app = sc.app
  BY DEF Unsynced, UseClients, ParamsOrNone
<1> HIDE DEF c
<1>2. UseIsOpen(c) <=> UseIsOpen(sc)
  BY <1>1 DEF UseIsOpen
<1>3. /\ d \in UseClients /\ d.synced /\ d.params = p /\ d.booting
      /\ d.queued = IF UseIsOpen(c) THEN c.queued ELSE TRUE
      /\ d.state = c.state /\ d.mark = c.mark /\ d.timer = c.timer
      /\ d.first = c.first /\ d.app = c.app
  BY <1>1 DEF Synced, UseClients, ParamsOrNone
<1> QED BY <1>1, <1>2, <1>3 DEF c

\* A use comes: the first declares, one with other parameters takes the table over, and
\* any other is counted.
LEMMA MountKeeps ==
  ASSUME UseIInv, NEW u \in Uses, NEW p \in Params, Mount(u, p)
  PROVE  UseIInv'
<1>1. /\ mounted[u] = None /\ Once("mounts") /\ mounted' = [mounted EXCEPT ![u] = p]
      /\ refs' = [count |-> refs.count + 1, key |-> p] /\ UNCHANGED <<binding, down, sv>>
  BY DEF Mount
<1>2. UseShape /\ SocketHolds /\ FirstHolds /\ OneHello /\ SubFollows /\ RowsFollow
  BY DEF UseIInv
<1>3. useLeft' \in UseBudgets /\ Refused' = Refused
  BY <1>1, <1>2, OnceIs
<1>4. /\ mounted' \in [Uses -> ParamsOrNone] /\ Cardinality(Users') = refs.count + 1
      /\ refs.count \in Nat /\ p # None /\ p \in ParamsOrNone
  BY UseAssumption, <1>1, <1>2, UsersAre DEF ParamsOrNone, UseShape
<1>5. /\ refs' \in [count : Nat, key : ParamsOrNone] /\ refs'.count = Cardinality(Users')
      /\ refs'.count # 0 /\ refs'.key = p
  BY <1>1, <1>4
<1>6. Wanted' = IF p \in Refused THEN None ELSE p
  BY <1>3, <1>5 DEF Wanted
<1>7. CASE refs.count = 0 \/ ParamsChanged(p)
  <2> DEFINE c  == IF ParamsChanged(p) THEN Unsynced(sc) ELSE sc
             fs == GivenUp(p) \o Declares(c, p)
  <2>1. /\ sc' = [Synced(c, p) EXCEPT !.booting = TRUE]
        /\ IF fs = <<>> THEN UNCHANGED <<socket, unsentFrames, up>> ELSE UseSend(fs)
    BY <1>7 DEF Mount
  <2>2. /\ sc' \in UseClients /\ sc'.synced /\ sc'.params = p /\ sc'.booting
        /\ sc'.queued = IF UseIsOpen(sc) THEN sc.queued ELSE TRUE
        /\ sc'.state = sc.state /\ sc'.mark = sc.mark /\ sc'.timer = sc.timer
        /\ sc'.first = sc.first /\ sc'.app = sc.app
    BY <1>2, <2>1, SyncedIs DEF UseShape
  <2>3. /\ fs \in Seq(UpFrames) /\ ~Some(fs, "hello")
        /\ ~UseIsOpen(sc) => \A s : Says(Refused, fs, s, IF ParamsChanged(p) THEN None ELSE s)
        /\ UseIsOpen(sc) => \A s : Says(Refused, fs, s, IF p \notin Refused THEN p
                                                      ELSE IF ParamsChanged(p) THEN None ELSE s)
    BY <1>2, MountSays
  <2> HIDE DEF fs, c
  <2>4. /\ Pend' = Pend \o fs /\ up' \in Seq(UpFrames) /\ unsentFrames' \in Seq(UpFrames)
        /\ socket' \in {"none", "opening", "open"} /\ (socket' = "open" <=> socket = "open")
        /\ SocketHolds' /\ (~Lost' => ~Lost) /\ (AckComes' <=> AckComes)
        /\ Pend # <<>> => Pend' # <<>> /\ Pend'[1] = Pend[1]
        /\ Pend = <<>> => Pend' = fs
        /\ Later(Pend', "hello") => Later(Pend, "hello")
        /\ Some(Pend', "hello") => Some(Pend, "hello")
    BY <1>1, <1>2, <2>1, <2>3, SentAre
  <2>5. UseShape'
    BY <1>1, <1>2, <1>3, <1>4, <1>5, <2>2, <2>4 DEF UseShape, Users
  <2>6. FirstHolds'
    <3>1. Pend' # <<>> => (Pend # <<>> /\ Pend'[1] = Pend[1]) \/ Pend'[1].t # "hello"
      <4> SUFFICES ASSUME Pend = <<>>, fs # <<>> PROVE fs[1].t # "hello"
        BY <2>4
      <4>1. 1 \in 1..Len(fs)
        BY <2>3, QueueStarts
      <4> QED BY <2>3, <4>1 DEF Some
    <3>2. sc.state = "disconnected" => ~UseIsOpen(sc)
      BY DEF UseIsOpen
    <3> QED BY <1>2, <2>2, <2>4, <3>1, <3>2 DEF FirstHolds
  <2>7. OneHello'
    BY <1>1, <1>2, <2>2, <2>4, OneHelloStays
  <2>8. SubFollows'
    <3> SUFFICES ASSUME ~Lost'
                 PROVE  \/ Says(Refused, Pend', sv.sub, Wanted')
                        \/ /\ Says(Refused, Pend', sv.sub, None)
                           /\ sc'.timer \/ sc'.first \/ (AckComes' /\ (sc'.queued \/ ~sc'.app))
      BY <1>1, <1>3, <2>2 DEF SubFollows
    <3>1. PICK x : Says(Refused, Pend, sv.sub, x) /\ (refs.count = 0 => x = None)
      BY <1>2, <2>4 DEF Wanted, SubFollows
    <3>2. ~ParamsChanged(p) => x = None
      BY <1>7, <3>1
    <3> DEFINE y == IF ParamsChanged(p) THEN None ELSE x
    <3>3. y = None
      BY <3>2
    <3>4. CASE UseIsOpen(sc)
      <4>1. Says(Refused, fs, x, Wanted')
        BY <2>3, <3>4, <1>6, <3>3
      <4>2. Says(Refused, Pend \o fs, sv.sub, Wanted')
        BY <1>2, <2>3, <3>1, <4>1, SaysEnds, PendIsQueue
      <4> QED BY <2>4, <4>2
    <3>5. CASE ~UseIsOpen(sc)
      <4>1. Says(Refused, fs, x, None)
        BY <2>3, <3>5, <3>3
      <4>2. Says(Refused, Pend \o fs, sv.sub, None)
        BY <1>2, <2>3, <3>1, <4>1, SaysEnds, PendIsQueue
      <4>3. sc.state \in {"disconnected", "connecting"}
        BY <1>2, <3>5 DEF UseIsOpen, UseShape, UseClients, UseStates
      <4>4. sc'.timer \/ sc'.first \/ (AckComes' /\ sc'.queued)
        BY <1>2, <2>2, <2>4, <3>5, <4>3 DEF FirstHolds
      <4> QED BY <2>4, <4>2, <4>4
    <3> QED BY <3>4, <3>5
  <2>9. RowsFollow'
    BY <2>2 DEF RowsFollow
  <2> QED BY <2>4, <2>5, <2>6, <2>7, <2>8, <2>9 DEF UseIInv
<1>8. CASE ~(refs.count = 0 \/ ParamsChanged(p))
  <2>1. sc' = [sc EXCEPT !.booting = TRUE] /\ UNCHANGED <<socket, unsentFrames, up>>
    BY <1>8 DEF Mount
  <2>2. /\ sc' \in UseClients /\ sc'.synced = sc.synced /\ sc'.params = sc.params
        /\ sc'.queued = sc.queued /\ sc'.booting /\ sc'.mark = sc.mark /\ sc'.timer = sc.timer
        /\ sc'.first = sc.first /\ sc'.app = sc.app /\ sc'.state = sc.state
    BY <1>2, <2>1 DEF UseShape, UseClients
  <2>3. refs.key = p /\ refs.count # 0
    BY <1>2, <1>8 DEF ParamsChanged, UseShape
  <2>4. Pend' = Pend /\ Wanted' = Wanted
    BY <1>6, <2>1, <2>3 DEF Pend, Wanted
  <2>5. Lost' = Lost /\ AckComes' = AckComes
    BY <1>1, <2>1, <2>4 DEF Lost, AckComes
  <2>6. UseShape'
    BY <1>1, <1>2, <1>3, <1>4, <1>5, <2>1, <2>2, <2>3 DEF UseShape, Users
  <2>7. SocketHolds'
    BY <1>1, <1>2, <2>1 DEF SocketHolds
  <2>8. FirstHolds'
    BY <1>2, <2>1, <2>2, <2>4, <2>5 DEF FirstHolds
  <2>9. OneHello'
    BY <1>1, <1>2, <2>2, <2>4, <2>5 DEF OneHello
  <2>10. SubFollows'
    BY <1>1, <1>2, <1>3, <2>2, <2>4, <2>5 DEF SubFollows
  <2>11. RowsFollow'
    BY <2>2 DEF RowsFollow
  <2> QED BY <2>6, <2>7, <2>8, <2>9, <2>10, <2>11 DEF UseIInv
<1> QED BY <1>7, <1>8

\* A frame that arrives is the server's word about the connection, rows, or the answer
\* to hello.
LEMMA UseReceiveKeeps == UseIInv /\ UseReceive => UseIInv'
<1> SUFFICES ASSUME UseIInv, UseReceive PROVE UseIInv'
  OBVIOUS
<1>1. Head(down) \in DownFrames
  BY QueueStarts DEF UseReceive, UseIInv, UseShape
<1>2. Head(down).t \in {"hello_ack", "disconnect", "snapshot", "delta", "complete"}
  BY <1>1 DEF DownFrames
<1> QED BY <1>2, DisconnectReceived, DataReceived, AckReceived

\* A frame that the server takes says hello, comes before any hello, or is one of a session's.
LEMMA ServerHandlesKeeps == UseIInv /\ ServerHandles => UseIInv'
<1> SUFFICES ASSUME UseIInv, ServerHandles PROVE UseIInv'
  OBVIOUS
<1>1. Head(Pend).t \in {"hello", "declare", "unsync", "bootstrap", "resume"}
  BY HandledAre DEF UpFrames
<1> QED BY <1>1, HelloHandled, StrangerHandled, SubscriptionHandled, RowsHandled

\* Nothing happens.
LEMMA UseStutters == UseIInv /\ UNCHANGED useVars => UseIInv'
<1> SUFFICES ASSUME UseIInv, UNCHANGED useVars PROVE UseIInv'
  OBVIOUS
<1>1. UNCHANGED <<binding, mounted, refs, sc, socket, unsentFrames, up, down, sv, useLeft>>
  BY DEF useVars
<1>2. Pend' = Pend /\ Wanted' = Wanted /\ Refused' = Refused
  BY <1>1 DEF Pend, Wanted, Refused
<1>3. Lost' = Lost /\ AckComes' = AckComes /\ RowsCome' = RowsCome
  BY <1>1, <1>2 DEF Lost, AckComes, RowsCome
<1> QED BY <1>1, <1>2, <1>3 DEF UseIInv, UseShape, SocketHolds, FirstHolds, OneHello, SubFollows, RowsFollow

\* Every step keeps the invariant.
LEMMA UseStep == UseIInv /\ [UseNext]_useVars => UseIInv'
<1> SUFFICES ASSUME UseIInv, [UseNext]_useVars PROVE UseIInv'
  OBVIOUS
<1>1. ASSUME NEW u \in Uses, Unmount(u) PROVE UseIInv'
  BY <1>1, UnmountKeeps
<1>2. ASSUME NEW u \in Uses, NEW p \in Params, Mount(u, p) PROVE UseIInv'
  BY <1>2, MountKeeps
<1> QED BY <1>1, <1>2, BootstrapKeeps, UseConnectKeeps, ReconnectKeeps, UseReceiveKeeps,
        UseSocketOpensKeeps, FailsToOpenKeeps, BreaksKeeps, ServerHandlesKeeps, BroadcastKeeps,
        UseStutters DEF UseNext

\* A subscription lives as long as something on the page uses it, with the parameters
\* last asked for, and what uses it gets its rows, through any mounting, unmounting,
\* breaking and reconnecting, where nothing mounts over stored rows before hello is
\* answered (hooks.ts acquireSync and releaseSync, sync-client.ts sync and unsync).
THEOREM UseAlwaysHolds == "stored" \notin Bindings => (UseSpec => []UseInv)
<1> SUFFICES ASSUME "stored" \notin Bindings PROVE UseSpec => []UseInv
  OBVIOUS
<1>1. UseInit => UseIInv
  BY UseStarts
<1> QED BY <1>1, UseStep, UseIInvImplies, PTL DEF UseSpec

-----------------------------------------------------------------------------
(* HtmxViews.                                                              *)

HtmxRows  == {r \in [version : Nat, there : BOOLEAN, done : BOOLEAN] : r.done => r.there}
HtmxSwaps == [into : Targets, from : Reads, row : HtmxRows, live : BOOLEAN]
MarkupOf(s) == [from |-> s.from, version |-> s.row.version]
Current(t)  == [from |-> boundTo[t], version |-> rowNow.version]

\* A swap sets the box of its element: one the store caused does always, another where
\* the user has not touched it.
SetsBox(s, t, touched) == s.into = t /\ (s.live \/ ~touched)

\* What an element that shows m will show after the swaps fs, and what its box b.
WillShow(fs, m, t, x) ==
  \E i \in 0..Len(fs) :
    /\ IF i = 0 THEN m = x ELSE fs[i].into = t /\ MarkupOf(fs[i]) = x
    /\ \A j \in 1..Len(fs) : i < j /\ fs[j].into = t => MarkupOf(fs[j]) = x
WillTick(fs, b, t, done) ==
  \E i \in 0..Len(fs) :
    /\ IF i = 0 THEN b.checked = done ELSE SetsBox(fs[i], t, b.touched) /\ fs[i].row.done = done
    /\ \A j \in 1..Len(fs) : i < j /\ SetsBox(fs[j], t, b.touched) => fs[j].row.done = done

\* Values are of their kind, nothing shows a version that is yet to come, and once
\* closed the adapter has no bindings.
HtmxShape ==
  /\ rowNow \in HtmxRows /\ boundTo \in [Targets -> Reads \cup {Unbound}] /\ onPage \subseteq Targets
  /\ markup \in [Targets -> [from : Reads \cup {Unbound}, version : Nat]]
  /\ box \in [Targets -> [checked : BOOLEAN, touched : BOOLEAN]]
  /\ flushing \in BOOLEAN /\ open \in BOOLEAN /\ swaps \in Seq(HtmxSwaps)
  /\ ~open => ~flushing /\ \A t \in Targets : boundTo[t] = Unbound
  /\ \A t \in Targets : markup[t].version <= rowNow.version
  /\ \A i \in 1..Len(swaps) : swaps[i].row.version <= rowNow.version

\* An element that was never read into shows nothing, and nobody has clicked in it.
UnreadIsBlank ==
  \A t \in onPage : open /\ boundTo[t] = Unbound =>
    /\ markup[t].version = 0 /\ ~box[t].touched
    /\ \A i \in 1..Len(swaps) : swaps[i].into # t

\* A bound element will be read again, or the swaps on their way leave it with the rows
\* as they are now, and its box with what the row says.
ViewsFollow ==
  \A t \in OnPageBound : flushing \/
    /\ Answered(boundTo[t]) => WillShow(swaps, markup[t], t, Current(t))
    /\ rowNow.there => WillTick(swaps, box[t], t, rowNow.done)

HtmxIInv == HtmxShape /\ UnreadIsBlank /\ ViewsFollow

\* Swaps at the end of others that are of another element leave what it will show.
LEMMA ShowsStill ==
  ASSUME NEW fs \in Seq(HtmxSwaps), NEW gs \in Seq(HtmxSwaps), NEW m, NEW t, NEW x,
         \A j \in 1..Len(gs) : gs[j].into = t => MarkupOf(gs[j]) = x,
         WillShow(fs, m, t, x) \/ \E j \in 1..Len(gs) : gs[j].into = t
  PROVE  WillShow(fs \o gs, m, t, x)
<1> DEFINE hs == fs \o gs
<1>1. /\ Len(fs) \in Nat /\ Len(gs) \in Nat /\ Len(hs) = Len(fs) + Len(gs)
      /\ \A i \in 1..Len(fs) : hs[i] = fs[i] /\ i \in 1..Len(hs)
      /\ \A i \in 1..Len(gs) : hs[Len(fs) + i] = gs[i] /\ Len(fs) + i \in 1..Len(hs)
      /\ \A i \in 1..Len(hs) : i \in 1..Len(fs) \/ (i - Len(fs) \in 1..Len(gs) /\ hs[i] = gs[i - Len(fs)])
  BY QueueEnds
<1> HIDE DEF hs
<1> SUFFICES WillShow(hs, m, t, x)
  BY DEF hs
<1>2. CASE WillShow(fs, m, t, x)
  <2>1. PICK i \in 0..Len(fs) :
          /\ IF i = 0 THEN m = x ELSE fs[i].into = t /\ MarkupOf(fs[i]) = x
          /\ \A j \in 1..Len(fs) : i < j /\ fs[j].into = t => MarkupOf(fs[j]) = x
    BY <1>2 DEF WillShow
  <2>2. i \in 0..Len(hs) /\ (IF i = 0 THEN m = x ELSE hs[i].into = t /\ MarkupOf(hs[i]) = x)
    <3>1. CASE i = 0
      BY <1>1, <2>1, <3>1
    <3>2. CASE i # 0
      BY <1>1, <3>2, <2>1
    <3> QED BY <3>1, <3>2
  <2>3. \A j \in 1..Len(hs) : i < j /\ hs[j].into = t => MarkupOf(hs[j]) = x
    <3> SUFFICES ASSUME NEW j \in 1..Len(hs), i < j, hs[j].into = t PROVE MarkupOf(hs[j]) = x
      OBVIOUS
    <3>1. CASE j \in 1..Len(fs)
      BY <1>1, <2>1, <3>1
    <3>2. CASE j - Len(fs) \in 1..Len(gs) /\ hs[j] = gs[j - Len(fs)]
      BY <3>2
    <3> QED BY <1>1, <3>1, <3>2
  <2> QED BY <2>2, <2>3 DEF WillShow
<1>3. CASE \E j \in 1..Len(gs) : gs[j].into = t
  <2>1. PICK k \in 1..Len(gs) : gs[k].into = t
    BY <1>3
  <2>2. /\ Len(fs) + k \in 0..Len(hs) /\ Len(fs) + k # 0
        /\ hs[Len(fs) + k].into = t /\ MarkupOf(hs[Len(fs) + k]) = x
    BY <1>1, <2>1
  <2>3. \A j \in 1..Len(hs) : Len(fs) + k < j /\ hs[j].into = t => MarkupOf(hs[j]) = x
    <3> SUFFICES ASSUME NEW j \in 1..Len(hs), Len(fs) + k < j, hs[j].into = t
                 PROVE  MarkupOf(hs[j]) = x
      OBVIOUS
    <3>1. j - Len(fs) \in 1..Len(gs) /\ hs[j] = gs[j - Len(fs)]
      BY <1>1
    <3> QED BY <3>1
  <2> QED BY <2>2, <2>3 DEF WillShow
<1> QED BY <1>2, <1>3

\* And what its box will.
LEMMA TicksStill ==
  ASSUME NEW fs \in Seq(HtmxSwaps), NEW gs \in Seq(HtmxSwaps), NEW b, NEW t, NEW x,
         \A j \in 1..Len(gs) : SetsBox(gs[j], t, b.touched) => gs[j].row.done = x,
         WillTick(fs, b, t, x) \/ \E j \in 1..Len(gs) : SetsBox(gs[j], t, b.touched)
  PROVE  WillTick(fs \o gs, b, t, x)
<1> DEFINE hs == fs \o gs
<1>1. /\ Len(fs) \in Nat /\ Len(gs) \in Nat /\ Len(hs) = Len(fs) + Len(gs)
      /\ \A i \in 1..Len(fs) : hs[i] = fs[i] /\ i \in 1..Len(hs)
      /\ \A i \in 1..Len(gs) : hs[Len(fs) + i] = gs[i] /\ Len(fs) + i \in 1..Len(hs)
      /\ \A i \in 1..Len(hs) : i \in 1..Len(fs) \/ (i - Len(fs) \in 1..Len(gs) /\ hs[i] = gs[i - Len(fs)])
  BY QueueEnds
<1> HIDE DEF hs
<1> SUFFICES WillTick(hs, b, t, x)
  BY DEF hs
<1>2. CASE WillTick(fs, b, t, x)
  <2>1. PICK i \in 0..Len(fs) :
          /\ IF i = 0 THEN b.checked = x ELSE SetsBox(fs[i], t, b.touched) /\ fs[i].row.done = x
          /\ \A j \in 1..Len(fs) : i < j /\ SetsBox(fs[j], t, b.touched) => fs[j].row.done = x
    BY <1>2 DEF WillTick
  <2>2. i \in 0..Len(hs)
        /\ (IF i = 0 THEN b.checked = x ELSE SetsBox(hs[i], t, b.touched) /\ hs[i].row.done = x)
    <3>1. CASE i = 0
      BY <1>1, <2>1, <3>1
    <3>2. CASE i # 0
      BY <1>1, <3>2, <2>1
    <3> QED BY <3>1, <3>2
  <2>3. \A j \in 1..Len(hs) : i < j /\ SetsBox(hs[j], t, b.touched) => hs[j].row.done = x
    <3> SUFFICES ASSUME NEW j \in 1..Len(hs), i < j, SetsBox(hs[j], t, b.touched) PROVE hs[j].row.done = x
      OBVIOUS
    <3>1. CASE j \in 1..Len(fs)
      BY <1>1, <3>1, <2>1
    <3>2. CASE j - Len(fs) \in 1..Len(gs) /\ hs[j] = gs[j - Len(fs)]
      BY <3>2
    <3> QED BY <1>1, <3>1, <3>2
  <2> QED BY <2>2, <2>3 DEF WillTick
<1>3. CASE \E j \in 1..Len(gs) : SetsBox(gs[j], t, b.touched)
  <2>1. PICK k \in 1..Len(gs) : SetsBox(gs[k], t, b.touched)
    BY <1>3
  <2>2. /\ Len(fs) + k \in 0..Len(hs) /\ Len(fs) + k # 0
        /\ SetsBox(hs[Len(fs) + k], t, b.touched) /\ hs[Len(fs) + k].row.done = x
    BY <1>1, <2>1
  <2>3. \A j \in 1..Len(hs) : Len(fs) + k < j /\ SetsBox(hs[j], t, b.touched) => hs[j].row.done = x
    <3> SUFFICES ASSUME NEW j \in 1..Len(hs), Len(fs) + k < j, SetsBox(hs[j], t, b.touched)
                 PROVE  hs[j].row.done = x
      OBVIOUS
    <3>1. j - Len(fs) \in 1..Len(gs) /\ hs[j] = gs[j - Len(fs)]
      BY <1>1
    <3> QED BY <3>1
  <2> QED BY <2>2, <2>3 DEF WillTick
<1> QED BY <1>2, <1>3

\* The first swap is made: what an element will show is what it was.
LEMMA ShowsAfterSwap ==
  ASSUME NEW fs \in Seq(HtmxSwaps), fs # <<>>, NEW m, NEW t, NEW x, WillShow(fs, m, t, x)
  PROVE  WillShow(Tail(fs), IF Head(fs).into = t THEN MarkupOf(Head(fs)) ELSE m, t, x)
<1> DEFINE gs == Tail(fs)
           n  == IF Head(fs).into = t THEN MarkupOf(Head(fs)) ELSE m
<1>1. /\ Len(fs) \in Nat \ {0} /\ Head(fs) = fs[1] /\ Len(gs) = Len(fs) - 1
      /\ \A j \in 1..Len(gs) : gs[j] = fs[j + 1] /\ j + 1 \in 1..Len(fs)
      /\ \A j \in 1..Len(fs) : j = 1 \/ (j - 1 \in 1..Len(gs) /\ gs[j - 1] = fs[j])
  BY QueueStarts
<1>2. PICK i \in 0..Len(fs) :
        /\ IF i = 0 THEN m = x ELSE fs[i].into = t /\ MarkupOf(fs[i]) = x
        /\ \A j \in 1..Len(fs) : i < j /\ fs[j].into = t => MarkupOf(fs[j]) = x
  BY DEF WillShow
<1>3. n = IF fs[1].into = t THEN MarkupOf(fs[1]) ELSE m
  BY <1>1
<1> HIDE DEF gs, n
<1>4. CASE i \in {0, 1}
  BY <1>1, <1>2, <1>3, <1>4 DEF WillShow, gs, n
<1>5. CASE i \notin {0, 1}
  <2>1. i - 1 \in 0..Len(gs) /\ i - 1 # 0 /\ gs[i - 1].into = t /\ MarkupOf(gs[i - 1]) = x
    BY <1>1, <1>2, <1>5
  <2>2. \A j \in 1..Len(gs) : i - 1 < j /\ gs[j].into = t => MarkupOf(gs[j]) = x
    BY <1>1, <1>2
  <2>3. WillShow(gs, n, t, x)
    BY <2>1, <2>2 DEF WillShow
  <2> QED BY <2>3 DEF gs, n
<1> QED BY <1>4, <1>5

\* And its box.
LEMMA TicksAfterSwap ==
  ASSUME NEW fs \in Seq(HtmxSwaps), fs # <<>>, NEW b, NEW c, NEW t, NEW x, WillTick(fs, b, t, x),
         c.touched = b.touched,
         c.checked = IF SetsBox(Head(fs), t, b.touched) THEN Head(fs).row.done ELSE b.checked
  PROVE  WillTick(Tail(fs), c, t, x)
<1> DEFINE gs == Tail(fs)
<1>1. /\ Len(fs) \in Nat \ {0} /\ Head(fs) = fs[1] /\ Len(gs) = Len(fs) - 1
      /\ \A j \in 1..Len(gs) : gs[j] = fs[j + 1] /\ j + 1 \in 1..Len(fs)
      /\ \A j \in 1..Len(fs) : j = 1 \/ (j - 1 \in 1..Len(gs) /\ gs[j - 1] = fs[j])
  BY QueueStarts
<1>2. PICK i \in 0..Len(fs) :
        /\ IF i = 0 THEN b.checked = x ELSE SetsBox(fs[i], t, b.touched) /\ fs[i].row.done = x
        /\ \A j \in 1..Len(fs) : i < j /\ SetsBox(fs[j], t, b.touched) => fs[j].row.done = x
  BY DEF WillTick
<1> HIDE DEF gs
<1>4. CASE i \in {0, 1}
  BY <1>1, <1>2, <1>4 DEF WillTick, gs
<1>5. CASE i \notin {0, 1}
  <2>1. i - 1 \in 0..Len(gs) /\ i - 1 # 0 /\ SetsBox(gs[i - 1], t, c.touched) /\ gs[i - 1].row.done = x
    BY <1>1, <1>2, <1>5
  <2>2. \A j \in 1..Len(gs) : i - 1 < j /\ SetsBox(gs[j], t, c.touched) => gs[j].row.done = x
    BY <1>1, <1>2
  <2>3. WillTick(gs, c, t, x)
    BY <2>1, <2>2 DEF WillTick
  <2> QED BY <2>3 DEF gs
<1> QED BY <1>4, <1>5

\* The inductive invariant implies the one the run checks.
LEMMA HtmxIInvImplies == HtmxIInv => HtmxInv
<1> SUFFICES ASSUME HtmxIInv PROVE HtmxInv
  OBVIOUS
<1>1. HtmxTypeOK
  BY DEF HtmxIInv, HtmxShape, HtmxTypeOK, HtmxRows, OnPageBound
<1>2. ASSUME Still, NEW t \in OnPageBound
      PROVE  /\ Answered(boundTo[t]) => markup[t] = Current(t)
             /\ rowNow.there => box[t].checked = rowNow.done
  BY <1>2 DEF Still, HtmxIInv, ViewsFollow, WillShow, WillTick
<1>3. ViewsAreCurrent /\ BoxesTellTheRow
  BY <1>2 DEF ViewsAreCurrent, BoxesTellTheRow, Answered, Current
<1> QED BY <1>1, <1>3 DEF HtmxInv

\* At the start nothing is bound.
LEMMA HtmxStarts == HtmxInit => HtmxIInv
<1> SUFFICES ASSUME HtmxInit PROVE HtmxIInv
  OBVIOUS
<1>1. HtmxShape
  <2>1. rowNow \in HtmxRows /\ rowNow.version = 0 /\ swaps = <<>> /\ <<>> \in Seq(HtmxSwaps) /\ Len(swaps) = 0
    BY DEF HtmxInit, HtmxRows
  <2>2. /\ markup \in [Targets -> [from : Reads \cup {Unbound}, version : Nat]]
        /\ \A t \in Targets : markup[t].version = 0
    BY DEF HtmxInit, NoMarkup
  <2>3. box \in [Targets -> [checked : BOOLEAN, touched : BOOLEAN]]
    BY DEF HtmxInit
  <2>4. /\ boundTo \in [Targets -> Reads \cup {Unbound}] /\ onPage \subseteq Targets
        /\ flushing \in BOOLEAN /\ open \in BOOLEAN /\ open
    BY DEF HtmxInit
  <2>5. /\ \A t \in Targets : markup[t].version <= rowNow.version
        /\ \A i \in 1..Len(swaps) : swaps[i].row.version <= rowNow.version
    BY <2>1, <2>2
  <2> QED BY <2>1, <2>2, <2>3, <2>4, <2>5 DEF HtmxShape
<1>2. UnreadIsBlank /\ ViewsFollow
  BY DEF HtmxInit, UnreadIsBlank, ViewsFollow, OnPageBound, NoMarkup
<1> QED BY <1>1, <1>2 DEF HtmxIInv

\* Swaps at the end of others.
LEMMA SwapsAdded ==
  ASSUME HtmxShape, NEW gs \in Seq(HtmxSwaps),
         \A i \in 1..Len(gs) : gs[i].row.version <= rowNow.version
  PROVE  /\ swaps \o gs \in Seq(HtmxSwaps)
         /\ \A i \in 1..Len(swaps \o gs) : (swaps \o gs)[i].row.version <= rowNow.version
         /\ \A t : (\A i \in 1..Len(swaps) : swaps[i].into # t) /\ (\A i \in 1..Len(gs) : gs[i].into # t)
                     => \A i \in 1..Len(swaps \o gs) : (swaps \o gs)[i].into # t
<1>1. swaps \in Seq(HtmxSwaps) /\ \A i \in 1..Len(swaps) : swaps[i].row.version <= rowNow.version
  BY DEF HtmxShape
<1> QED BY <1>1, QueueEnds

\* A read: the element is bound to it, and gets the rows there are.
LEMMA ReadKeeps == ASSUME HtmxIInv, NEW t \in Targets, NEW a \in Reads, Read(t, a) PROVE HtmxIInv'
<1> DEFINE s  == Answer(t, a, FALSE)
           gs == IF Answered(a) THEN <<s>> ELSE <<>>
<1>1. /\ open /\ t \in onPage /\ boundTo' = [boundTo EXCEPT ![t] = a]
      /\ UNCHANGED <<rowNow, onPage, markup, box, flushing, open>>
  BY DEF Read
<1>2. HtmxShape /\ UnreadIsBlank /\ ViewsFollow
  BY DEF HtmxIInv
<1>3. s \in HtmxSwaps /\ s.into = t /\ s.from = a /\ s.row = rowNow /\ ~s.live
  BY <1>2 DEF Answer, HtmxSwaps, HtmxShape
<1> HIDE DEF s
<1>4. /\ gs \in Seq(HtmxSwaps) /\ (Answered(a) => Len(gs) = 1 /\ gs[1] = s) /\ (~Answered(a) => Len(gs) = 0)
  BY <1>3
<1>5. swaps' = swaps \o gs
  BY <1>2, <1>3, AppendIsConcat, ConcatEmptySeq DEF HtmxShape, Read, s
<1>6. a # Unbound /\ t \in Targets /\ boundTo'[t] = a /\ \A u \in Targets \ {t} : boundTo'[u] = boundTo[u]
  BY <1>1, <1>2, HtmxAssumption DEF HtmxShape, Reads, Unbound, OneRow
<1> HIDE DEF gs
<1>7. /\ swaps' \in Seq(HtmxSwaps) /\ \A i \in 1..Len(swaps') : swaps'[i].row.version <= rowNow.version
      /\ \A u : (\A i \in 1..Len(swaps) : swaps[i].into # u) /\ (\A i \in 1..Len(gs) : gs[i].into # u)
                     => \A i \in 1..Len(swaps') : swaps'[i].into # u
  <2>1. \A i \in 1..Len(gs) : gs[i].row.version <= rowNow.version
    BY <1>2, <1>3, <1>4 DEF HtmxShape, HtmxRows
  <2> QED BY <1>2, <1>4, <1>5, <2>1, SwapsAdded
<1>8. HtmxShape'
  BY <1>1, <1>2, <1>6, <1>7 DEF HtmxShape
<1>9. UnreadIsBlank'
  <2> SUFFICES ASSUME NEW u \in onPage, boundTo'[u] = Unbound
               PROVE  /\ markup[u].version = 0 /\ ~box[u].touched
                      /\ \A i \in 1..Len(swaps') : swaps'[i].into # u
    BY <1>1 DEF UnreadIsBlank
  <2>1. u \in Targets /\ u # t /\ boundTo[u] = Unbound
    BY <1>2, <1>6 DEF HtmxShape
  <2>2. \A i \in 1..Len(gs) : gs[i].into # u
    BY <1>3, <1>4, <2>1
  <2> QED BY <1>1, <1>2, <1>7, <2>1, <2>2 DEF UnreadIsBlank
<1>10. ViewsFollow'
  <2> SUFFICES ASSUME NEW u \in onPage, boundTo'[u] # Unbound, ~flushing
               PROVE  /\ Answered(boundTo'[u]) => WillShow(swaps \o gs, markup[u], u, [from |-> boundTo'[u], version |-> rowNow.version])
                      /\ rowNow.there => WillTick(swaps \o gs, box[u], u, rowNow.done)
    BY <1>1, <1>5 DEF ViewsFollow, OnPageBound, Current, Answered
  <2>0. swaps \in Seq(HtmxSwaps) /\ u \in Targets
    BY <1>2 DEF HtmxShape
  <2>1. CASE u # t
    <3>1. u \in OnPageBound /\ boundTo'[u] = boundTo[u]
      BY <1>6, <2>0, <2>1 DEF OnPageBound
    <3>2. \A j \in 1..Len(gs) : gs[j].into # u
      BY <1>3, <1>4, <2>1
    <3>3. \A j \in 1..Len(gs) : ~SetsBox(gs[j], u, box[u].touched)
      BY <3>2 DEF SetsBox
    <3>4. /\ Answered(boundTo[u]) => WillShow(swaps, markup[u], u, Current(u))
          /\ rowNow.there => WillTick(swaps, box[u], u, rowNow.done)
      BY <1>2, <3>1 DEF ViewsFollow
    <3>5. Answered(boundTo[u]) => WillShow(swaps \o gs, markup[u], u, Current(u))
      BY <1>4, <2>0, <3>2, <3>4, ShowsStill
    <3>6. rowNow.there => WillTick(swaps \o gs, box[u], u, rowNow.done)
      BY <1>4, <2>0, <3>3, <3>4, TicksStill
    <3> QED BY <3>1, <3>5, <3>6 DEF Current
  <2>2. CASE u = t
    <3> DEFINE x == [from |-> a, version |-> rowNow.version]
    <3>1. MarkupOf(s) = x
      BY <1>3 DEF MarkupOf
    <3> HIDE DEF x
    <3>2. ASSUME Answered(a) PROVE WillShow(swaps \o gs, markup[t], t, x)
      BY <1>4, <3>2, <3>1, <1>3, <2>0, ShowsStill
    <3>3. ASSUME rowNow.there PROVE WillTick(swaps \o gs, box[t], t, rowNow.done)
      <4>1. Len(gs) = 1 /\ gs[1] = s
        BY <1>4, <3>3 DEF Answered
      <4>2. \A j \in 1..Len(gs) : SetsBox(gs[j], t, box[t].touched) => gs[j].row.done = rowNow.done
        BY <1>3, <4>1
      <4>3. CASE box[t].touched
        <5>1. t \in OnPageBound
          BY <1>1, <1>2, <4>3 DEF UnreadIsBlank, OnPageBound
        <5>2. WillTick(swaps, box[t], t, rowNow.done)
          BY <1>2, <3>3, <5>1 DEF ViewsFollow
        <5> QED BY <1>4, <2>0, <4>2, <5>2, TicksStill
      <4>4. CASE ~box[t].touched
        BY <1>3, <4>1, <4>4, <1>4, <2>0, <4>2, TicksStill DEF SetsBox
      <4> QED BY <4>3, <4>4
    <3> QED BY <1>6, <2>2, <3>2, <3>3 DEF x
  <2> QED BY <2>1, <2>2
<1> QED BY <1>8, <1>9, <1>10 DEF HtmxIInv

\* The answers of a flush: one for each bound element that has an answer.
LEMMA RenderedAre ==
  ASSUME HtmxShape, NEW as \in Renders
  PROVE  /\ as \in Seq(HtmxSwaps)
         /\ \A i \in 1..Len(as) : /\ as[i].row = rowNow /\ as[i].live
                                  /\ as[i].into \in OnPageBound /\ as[i].from = boundTo[as[i].into]
                                  /\ Answered(as[i].from)
         /\ \A t \in OnPageBound : Answered(boundTo[t]) => \E i \in 1..Len(as) : as[i].into = t
<1>1. OnPageBound \subseteq Targets /\ \A t \in OnPageBound : boundTo[t] \in Reads
  BY DEF HtmxShape, OnPageBound
<1>2. ASSUME NEW r \in Rendered
      PROVE  /\ r \in HtmxSwaps /\ r.row = rowNow /\ r.live /\ r.into \in OnPageBound
             /\ r.from = boundTo[r.into] /\ Answered(r.from)
  <2>1. PICK t \in OnPageBound : Answered(boundTo[t]) /\ r = Answer(t, boundTo[t], TRUE)
    BY DEF Rendered
  <2>2. r = [into |-> t, from |-> boundTo[t], row |-> rowNow, live |-> TRUE]
    BY <2>1 DEF Answer
  <2>3. r.into = t /\ r.from = boundTo[t] /\ r.row = rowNow /\ r.live
    BY <2>2
  <2>4. t \in Targets /\ boundTo[t] \in Reads /\ rowNow \in HtmxRows
    BY <1>1 DEF HtmxShape
  <2>5. r \in HtmxSwaps
    BY <2>2, <2>4 DEF HtmxSwaps
  <2> QED BY <2>1, <2>3, <2>5
<1>3. Cardinality(Rendered) \in Nat
  <2> DEFINE U == {u \in OnPageBound : Answered(boundTo[u])}
  <2>1. IsFiniteSet(U)
    BY <1>1, HtmxAssumption, FS_Subset
  <2>2. IsFiniteSet(Rendered)
    <3>1. Rendered = {Answer(t, boundTo[t], TRUE) : t \in U}
      BY DEF Rendered
    <3> HIDE DEF U
    <3> DEFINE f == [t \in U |-> Answer(t, boundTo[t], TRUE)]
    <3>2. f \in Surjection(U, Rendered)
      BY <3>1 DEF Surjection
    <3> QED BY <2>1, <3>2, FS_Surjection
  <2> QED BY <2>2, FS_CardinalityType
<1>4. as \in [1..Cardinality(Rendered) -> Rendered] /\ \A r \in Rendered : \E i \in DOMAIN as : as[i] = r
  BY DEF Renders
<1> DEFINE n == Cardinality(Rendered)
<1>5. n \in Nat /\ as \in [1..n -> Rendered] /\ DOMAIN as = 1..n
  BY <1>3, <1>4
<1> HIDE DEF n
<1>6. \A i \in 1..n : as[i] \in Rendered
  BY <1>5
<1>7. as \in Seq(HtmxSwaps) /\ Len(as) = n
  <2>1. \A i \in 1..n : as[i] \in HtmxSwaps
    BY <1>2, <1>6
  <2>2. as \in [1..n -> HtmxSwaps]
    BY <1>5, <2>1
  <2>0. Seq(HtmxSwaps) = UNION {[1..k -> HtmxSwaps] : k \in Nat}
    BY SeqDef
  <2>3. as \in Seq(HtmxSwaps)
    BY <1>5, <2>0, <2>2, Zenon
  <2>4. Len(as) \in Nat /\ DOMAIN as = 1..Len(as)
    BY <2>3, LenProperties
  <2>5. Len(as) = n
    BY <1>5, <2>4
  <2> QED BY <2>3, <2>5
<1>8. ASSUME NEW t \in OnPageBound, Answered(boundTo[t]) PROVE \E i \in 1..Len(as) : as[i].into = t
  <2>1. Answer(t, boundTo[t], TRUE) \in Rendered /\ Answer(t, boundTo[t], TRUE).into = t
    BY <1>8 DEF Rendered, Answer
  <2> QED BY <1>4, <1>5, <1>7, <2>1
<1> QED BY <1>2, <1>6, <1>7, <1>8

\* Whatever was on its way, after a flush each bound element will show the rows.
LEMMA RendersKeep ==
  ASSUME HtmxIInv, NEW as \in Renders, swaps' = swaps \o as, boundTo' = Forgotten,
         UNCHANGED <<rowNow, onPage, markup, box, open>>, flushing' \in {FALSE, flushing}
  PROVE  HtmxIInv'
<1>1. HtmxShape /\ UnreadIsBlank /\ ViewsFollow
  BY DEF HtmxIInv
<1>2. /\ as \in Seq(HtmxSwaps)
      /\ \A i \in 1..Len(as) : /\ as[i].row = rowNow /\ as[i].live
                               /\ as[i].into \in OnPageBound /\ as[i].from = boundTo[as[i].into]
                               /\ Answered(as[i].from)
      /\ \A t \in OnPageBound : Answered(boundTo[t]) => \E i \in 1..Len(as) : as[i].into = t
  BY <1>1, RenderedAre
<1>3. /\ boundTo' \in [Targets -> Reads \cup {Unbound}] /\ \A t \in onPage : boundTo'[t] = boundTo[t]
      /\ \A t \in Targets : boundTo[t] = Unbound => boundTo'[t] = Unbound
  BY <1>1 DEF HtmxShape, Forgotten
<1>4. /\ swaps' \in Seq(HtmxSwaps) /\ \A i \in 1..Len(swaps') : swaps'[i].row.version <= rowNow.version
      /\ \A u : (\A i \in 1..Len(swaps) : swaps[i].into # u) /\ (\A i \in 1..Len(as) : as[i].into # u)
                     => \A i \in 1..Len(swaps') : swaps'[i].into # u
  <2>1. \A i \in 1..Len(as) : as[i].row.version <= rowNow.version
    <3>1. rowNow.version \in Nat
      BY <1>1 DEF HtmxShape, HtmxRows
    <3>2. \A i \in 1..Len(as) : as[i].row = rowNow
      BY <1>2
    <3>3. rowNow.version <= rowNow.version
      BY <3>1
    <3> QED BY <3>2, <3>3
  <2> QED BY <1>1, <1>2, <2>1, SwapsAdded
<1>5. HtmxShape'
  <2>1. ~open => ~flushing' /\ \A t \in Targets : boundTo'[t] = Unbound
    BY <1>1, <1>3 DEF HtmxShape
  <2>2. flushing' \in BOOLEAN
    BY <1>1 DEF HtmxShape
  <2> QED BY <1>1, <1>3, <1>4, <2>1, <2>2 DEF HtmxShape
<1>6. UnreadIsBlank'
  <2> SUFFICES ASSUME NEW u \in onPage, open, boundTo[u] = Unbound
               PROVE  /\ markup[u].version = 0 /\ ~box[u].touched
                      /\ \A i \in 1..Len(swaps') : swaps'[i].into # u
    BY <1>3 DEF UnreadIsBlank
  <2>1. \A i \in 1..Len(as) : as[i].into # u
    BY <1>2 DEF OnPageBound
  <2> QED BY <1>1, <1>4, <2>1 DEF UnreadIsBlank
<1>7. ViewsFollow'
  <2> SUFFICES ASSUME NEW u \in OnPageBound
               PROVE  /\ Answered(boundTo[u]) => WillShow(swaps \o as, markup[u], u, Current(u))
                      /\ rowNow.there => WillTick(swaps \o as, box[u], u, rowNow.done)
    BY <1>1, <1>3 DEF OnPageBound, HtmxShape, ViewsFollow, Current, Answered
  <2>1. swaps \in Seq(HtmxSwaps)
    BY <1>1 DEF HtmxShape
  <2>2. ASSUME Answered(boundTo[u]) PROVE WillShow(swaps \o as, markup[u], u, Current(u))
    <3>1. \A j \in 1..Len(as) : as[j].into = u => MarkupOf(as[j]) = Current(u)
      BY <1>2 DEF MarkupOf, Current
    <3>2. \E j \in 1..Len(as) : as[j].into = u
      BY <1>2, <2>2
    <3> QED BY <1>2, <2>1, <3>1, <3>2, ShowsStill
  <2>3. ASSUME rowNow.there PROVE WillTick(swaps \o as, box[u], u, rowNow.done)
    BY <1>2, <2>3, <2>1, TicksStill DEF SetsBox, Answered
  <2> QED BY <2>2, <2>3
<1> QED BY <1>5, <1>6, <1>7 DEF HtmxIInv

\* The rows change: all that is bound will be read again.
LEMMA ChangesKeep ==
  ASSUME HtmxIInv, NEW there \in BOOLEAN, NEW done \in BOOLEAN, done => there, Becomes(there, done),
         UNCHANGED <<boundTo, onPage, markup, swaps, open>>,
         box' \in [Targets -> [checked : BOOLEAN, touched : BOOLEAN]],
         \A t \in onPage : open /\ boundTo[t] = Unbound => box'[t] = box[t]
  PROVE  HtmxIInv'
<1>1. HtmxShape /\ UnreadIsBlank
  BY DEF HtmxIInv
<1>2. rowNow' = [version |-> rowNow.version + 1, there |-> there, done |-> done] /\ flushing' = (open \/ flushing)
  BY <1>1 DEF Becomes, ScheduleRender, HtmxShape
<1>3. rowNow' \in HtmxRows /\ rowNow'.version = rowNow.version + 1 /\ rowNow.version \in Nat
  BY <1>1, <1>2 DEF HtmxShape, HtmxRows
<1>4. HtmxShape'
  <2>1. \A t \in Targets : markup[t].version \in Nat
    BY <1>1 DEF HtmxShape
  <2>2. \A i \in 1..Len(swaps) : swaps[i].row.version \in Nat
    <3>1. \A i \in 1..Len(swaps) : swaps[i] \in HtmxSwaps
      BY <1>1 DEF HtmxShape
    <3> QED BY <3>1 DEF HtmxSwaps, HtmxRows
  <2>0. /\ \A t \in Targets : markup[t].version <= rowNow.version
        /\ \A i \in 1..Len(swaps) : swaps[i].row.version <= rowNow.version
    BY <1>1 DEF HtmxShape
  <2>3. /\ \A t \in Targets : markup[t].version <= rowNow'.version
        /\ \A i \in 1..Len(swaps) : swaps[i].row.version <= rowNow'.version
    BY <1>3, <2>0, <2>1, <2>2
  <2> QED BY <1>1, <1>2, <1>3, <2>3 DEF HtmxShape
<1>5. UnreadIsBlank'
  BY <1>1 DEF UnreadIsBlank
<1>6. ViewsFollow'
  BY <1>1, <1>2 DEF ViewsFollow, OnPageBound, HtmxShape
<1> QED BY <1>4, <1>5, <1>6 DEF HtmxIInv

\* A write of a form, or of a peer.
LEMMA FormWriteKeeps ==
  ASSUME HtmxIInv, NEW verb \in Verbs, NEW toRow \in BOOLEAN, NEW done \in BOOLEAN, FormWrite(verb, toRow, done)
  PROVE  HtmxIInv'
<1> DEFINE now == After(Kind(verb, toRow), done)
<1>1. Becomes(now.there, now.done) /\ UNCHANGED <<boundTo, onPage, markup, box, swaps, open>>
  BY DEF FormWrite
<1>2. Kind(verb, toRow) \in {"insert", "update", "remove"}
  BY DEF FormWrite
<1>3. now.there \in BOOLEAN /\ now.done \in BOOLEAN /\ (now.done => now.there)
  <2>1. CASE Kind(verb, toRow) = "insert"
    BY <2>1 DEF After
  <2>2. CASE Kind(verb, toRow) = "update"
    BY <2>2 DEF After
  <2>3. CASE Kind(verb, toRow) = "remove"
    BY <2>3 DEF After
  <2> QED BY <1>2, <2>1, <2>2, <2>3
<1>4. box' \in [Targets -> [checked : BOOLEAN, touched : BOOLEAN]]
  BY <1>1 DEF HtmxIInv, HtmxShape
<1> HIDE DEF now
<1> QED BY <1>1, <1>3, <1>4, ChangesKeep

\* A click: the element shows something, so it is bound.
LEMMA ClickKeeps == ASSUME HtmxIInv, NEW t \in Targets, Click(t) PROVE HtmxIInv'
<1>1. /\ open /\ t \in onPage /\ markup[t].version > 0
      /\ box' = [box EXCEPT ![t] = [checked |-> ~box[t].checked, touched |-> TRUE]]
      /\ Becomes(TRUE, ~box[t].checked) /\ UNCHANGED <<boundTo, onPage, markup, swaps, open>>
  BY DEF Click
<1>2. HtmxShape /\ UnreadIsBlank
  BY DEF HtmxIInv
<1>3. boundTo[t] # Unbound
  BY <1>1, <1>2 DEF UnreadIsBlank
<1>4. /\ box' \in [Targets -> [checked : BOOLEAN, touched : BOOLEAN]]
      /\ \A u \in onPage : open /\ boundTo[u] = Unbound => box'[u] = box[u]
      /\ (~box[t].checked) \in BOOLEAN
  BY <1>2, <1>1, <1>3 DEF HtmxShape
<1> QED BY <1>1, <1>4, ChangesKeep

\* An element leaves the page.
LEMMA LeavesKeep == ASSUME HtmxIInv, NEW t \in Targets, Leaves(t) PROVE HtmxIInv'
<1>1. onPage' = onPage \ {t} /\ UNCHANGED <<rowNow, boundTo, markup, box, flushing, swaps, open>>
  BY DEF Leaves
<1>2. OnPageBound' \subseteq OnPageBound
  BY <1>1 DEF OnPageBound
<1> QED BY <1>1, <1>2 DEF HtmxIInv, HtmxShape, UnreadIsBlank, ViewsFollow, Current, Answered

\* The adapter is closed: it has no bindings.
LEMMA CloseHtmxKeeps == ASSUME HtmxIInv, CloseHtmx PROVE HtmxIInv'
<1>1. /\ ~open' /\ open' = FALSE /\ flushing' = FALSE /\ boundTo' = [t \in Targets |-> Unbound]
      /\ UNCHANGED <<rowNow, onPage, markup, box, swaps>>
  BY DEF CloseHtmx
<1>2. OnPageBound' = {}
  BY <1>1 DEF HtmxIInv, HtmxShape, OnPageBound
<1> QED BY <1>1, <1>2 DEF HtmxIInv, HtmxShape, UnreadIsBlank, ViewsFollow

\* A swap is made.
LEMMA SwapKeeps == ASSUME HtmxIInv, Swap PROVE HtmxIInv'
<1> DEFINE s == Head(swaps)
           t == s.into
           morphed == IF box[t].touched THEN box[t] ELSE [box[t] EXCEPT !.checked = s.row.done]
<1>1. /\ swaps # <<>> /\ swaps' = Tail(swaps)
      /\ IF t \in onPage
         THEN /\ markup' = [markup EXCEPT ![t] = [from |-> s.from, version |-> s.row.version]]
              /\ box' = [box EXCEPT ![t] = IF s.live THEN Resynced(morphed, s.row.done) ELSE morphed]
         ELSE UNCHANGED <<markup, box>>
      /\ UNCHANGED <<rowNow, boundTo, onPage, flushing, open>>
  BY DEF Swap
<1>2. HtmxShape /\ UnreadIsBlank /\ ViewsFollow
  BY DEF HtmxIInv
<1>3. /\ swaps \in Seq(HtmxSwaps) /\ s = swaps[1] /\ s \in HtmxSwaps /\ Tail(swaps) \in Seq(HtmxSwaps)
      /\ 1 \in 1..Len(swaps)
      /\ \A i \in 1..Len(Tail(swaps)) : Tail(swaps)[i] = swaps[i + 1] /\ i + 1 \in 1..Len(swaps)
  BY <1>1, <1>2, QueueStarts DEF HtmxShape
<1>4. t \in Targets /\ s.from \in Reads /\ s.row \in HtmxRows /\ s.live \in BOOLEAN
      /\ s.row.version \in Nat /\ s.row.done \in BOOLEAN /\ s.row.version <= rowNow.version
  BY <1>2, <1>3 DEF HtmxSwaps, HtmxRows, HtmxShape
<1> HIDE DEF s, t
<1>5. ASSUME NEW u \in onPage
      PROVE  /\ markup'[u] = IF t = u THEN MarkupOf(s) ELSE markup[u]
             /\ box'[u].touched = box[u].touched
             /\ box'[u].checked = IF SetsBox(s, u, box[u].touched) THEN s.row.done ELSE box[u].checked
  <2>1. /\ u \in Targets /\ markup \in [Targets -> [from : Reads \cup {Unbound}, version : Nat]]
        /\ box \in [Targets -> [checked : BOOLEAN, touched : BOOLEAN]]
    BY <1>2 DEF HtmxShape
  <2>2. CASE u # t
    BY <1>1, <2>1, <2>2 DEF SetsBox, t
  <2>3. CASE u = t
    <3>1. /\ markup'[u] = [from |-> s.from, version |-> s.row.version]
          /\ box'[u] = IF s.live THEN Resynced(morphed, s.row.done) ELSE morphed
      BY <1>1, <2>1, <2>3
    <3>2. morphed = IF box[u].touched THEN box[u] ELSE [box[u] EXCEPT !.checked = s.row.done]
      BY <2>3
    <3>3. box[u] \in [checked : BOOLEAN, touched : BOOLEAN] /\ s.into = u
      BY <2>1, <2>3 DEF t
    <3> HIDE DEF morphed
    <3>4. /\ box'[u].touched = box[u].touched
          /\ box'[u].checked = IF s.live \/ ~box[u].touched THEN s.row.done ELSE box[u].checked
      BY <3>1, <3>2, <3>3 DEF Resynced
    <3> QED BY <2>3, <3>1, <3>3, <3>4 DEF MarkupOf, SetsBox
  <2> QED BY <2>2, <2>3
<1>6. HtmxShape'
  <2>1. /\ markup' \in [Targets -> [from : Reads \cup {Unbound}, version : Nat]]
        /\ \A u \in Targets : markup'[u].version <= rowNow.version
    <3>1. /\ markup \in [Targets -> [from : Reads \cup {Unbound}, version : Nat]]
          /\ \A u \in Targets : markup[u].version <= rowNow.version
      BY <1>2 DEF HtmxShape
    <3> DEFINE m == [from |-> s.from, version |-> s.row.version]
    <3>2. m \in [from : Reads \cup {Unbound}, version : Nat] /\ m.version <= rowNow.version
      BY <1>4
    <3>3. markup' = [markup EXCEPT ![t] = m] \/ markup' = markup
      BY <1>1
    <3> HIDE DEF m
    <3>4. CASE markup' = [markup EXCEPT ![t] = m]
      BY <3>1, <3>4, <3>2
    <3> QED BY <3>1, <3>3, <3>4
  <2>2. box' \in [Targets -> [checked : BOOLEAN, touched : BOOLEAN]]
    <3>1. box[t] \in [checked : BOOLEAN, touched : BOOLEAN]
      BY <1>2, <1>4 DEF HtmxShape
    <3>2. morphed \in [checked : BOOLEAN, touched : BOOLEAN]
      BY <1>4, <3>1
    <3> HIDE DEF morphed
    <3>3. Resynced(morphed, s.row.done) \in [checked : BOOLEAN, touched : BOOLEAN]
      BY <1>4, <3>2 DEF Resynced
    <3>4. box \in [Targets -> [checked : BOOLEAN, touched : BOOLEAN]]
      BY <1>2 DEF HtmxShape
    <3> QED BY <1>1, <3>2, <3>3, <3>4
  <2>3. \A i \in 1..Len(Tail(swaps)) : Tail(swaps)[i].row.version <= rowNow.version
    BY <1>2, <1>3 DEF HtmxShape
  <2> QED BY <1>1, <1>2, <1>3, <2>1, <2>2, <2>3 DEF HtmxShape
<1>7. UnreadIsBlank'
  <2> SUFFICES ASSUME NEW u \in onPage, open, boundTo[u] = Unbound
               PROVE  /\ markup'[u].version = 0 /\ ~box'[u].touched
                      /\ \A i \in 1..Len(Tail(swaps)) : Tail(swaps)[i].into # u
    BY <1>1 DEF UnreadIsBlank
  <2>1. markup[u].version = 0 /\ ~box[u].touched /\ \A i \in 1..Len(swaps) : swaps[i].into # u
    BY <1>2 DEF UnreadIsBlank
  <2>2. t # u
    BY <1>3, <2>1 DEF t
  <2> QED BY <1>3, <1>5, <2>1, <2>2
<1>8. ViewsFollow'
  <2> SUFFICES ASSUME NEW u \in OnPageBound, ~flushing
               PROVE  /\ Answered(boundTo[u]) => WillShow(Tail(swaps), markup'[u], u, Current(u))
                      /\ rowNow.there => WillTick(Tail(swaps), box'[u], u, rowNow.done)
    BY <1>1 DEF OnPageBound, ViewsFollow, Current, Answered
  <2>1. u \in onPage
    BY DEF OnPageBound
  <2>2. /\ Answered(boundTo[u]) => WillShow(swaps, markup[u], u, Current(u))
        /\ rowNow.there => WillTick(swaps, box[u], u, rowNow.done)
    BY <1>2 DEF ViewsFollow
  <2>3. ASSUME Answered(boundTo[u]) PROVE WillShow(Tail(swaps), markup'[u], u, Current(u))
    BY <1>1, <1>3, <2>2, <2>3, ShowsAfterSwap, <1>5, <2>1 DEF s, t
  <2>4. ASSUME rowNow.there PROVE WillTick(Tail(swaps), box'[u], u, rowNow.done)
    <3>1. /\ box'[u].touched = box[u].touched
          /\ box'[u].checked = IF SetsBox(Head(swaps), u, box[u].touched) THEN Head(swaps).row.done
                               ELSE box[u].checked
      BY <1>5, <2>1 DEF s
    <3>2. WillTick(swaps, box[u], u, rowNow.done)
      BY <2>2, <2>4
    <3> DEFINE b == box[u]
               c == box'[u]
    <3>3. /\ swaps \in Seq(HtmxSwaps) /\ swaps # <<>> /\ WillTick(swaps, b, u, rowNow.done)
          /\ c.touched = b.touched
          /\ c.checked = IF SetsBox(Head(swaps), u, b.touched) THEN Head(swaps).row.done ELSE b.checked
      BY <1>1, <1>3, <3>1, <3>2
    <3> HIDE DEF b, c
    <3>4. WillTick(Tail(swaps), c, u, rowNow.done)
      BY <3>3, TicksAfterSwap
    <3> QED BY <3>4 DEF c
  <2> QED BY <2>3, <2>4
<1> QED BY <1>6, <1>7, <1>8 DEF HtmxIInv

\* Every step keeps the invariant.
LEMMA HtmxStep == HtmxIInv /\ [HtmxNext]_htmxVars => HtmxIInv'
<1> SUFFICES ASSUME HtmxIInv, [HtmxNext]_htmxVars PROVE HtmxIInv'
  OBVIOUS
<1>1. CASE UNCHANGED htmxVars
  BY <1>1 DEF htmxVars, HtmxIInv, HtmxShape, UnreadIsBlank, ViewsFollow, OnPageBound, Current, Answered
<1>2. CASE Flush
  <2>1. PICK as \in Renders : swaps' = swaps \o as
    BY <1>2 DEF Flush
  <2> QED BY <1>2, <2>1, RendersKeep DEF Flush
<1>3. CASE Refresh
  <2>1. PICK as \in Renders : swaps' = swaps \o as
    BY <1>3 DEF Refresh
  <2> QED BY <1>3, <2>1, RendersKeep DEF Refresh
<1> QED BY <1>1, <1>2, <1>3, ReadKeeps, FormWriteKeeps, ClickKeeps, LeavesKeep, CloseHtmxKeeps,
           SwapKeeps DEF HtmxNext

\* However reads, writes, clicks and swaps interleave, what is bound and in the document
\* shows the rows as they are once nothing is on its way, and its box tells what the row
\* says (htmx/sync.ts serve, scheduleRender, renderTable, resyncToggles).
THEOREM HtmxAlwaysHolds == HtmxSpec => []HtmxInv
<1> QED BY HtmxStarts, HtmxStep, HtmxIInvImplies, PTL DEF HtmxSpec

\* SetToSeq lists every element of a finite set once.
LEMMA SeqOfSet ==
  ASSUME NEW S, IsFiniteSet(S)
  PROVE  /\ SetToSeq(S) \in Seq(S)
         /\ \A x \in S : \E j \in DOMAIN SetToSeq(S) : SetToSeq(S)[j] = x
         /\ \A j, k \in DOMAIN SetToSeq(S) : SetToSeq(S)[j] = SetToSeq(S)[k] => j = k
<1> DEFINE n == Cardinality(S)
           D == 1 .. n
           s == SetToSeq(S)
<1>1. n \in Nat /\ ExistsBijection(D, S)
  BY FS_CardinalityType
<1>2. \E f \in [D -> S] : IsInjective(f)
  BY <1>1 DEF ExistsBijection, Bijection, Injection
<1>3. s \in [D -> S] /\ IsInjective(s)
  BY <1>2, Zenon DEF SetToSeq
<1>4. s \in Injection(D, S)
  BY <1>3 DEF Injection
<1>5. Cardinality(D) = n
  BY <1>1, FS_Interval
<1>6. s \in Surjection(D, S)
  <2> HIDE DEF D, s, n
  <2>1. Cardinality(D) = Cardinality(S)
    BY <1>5 DEF n
  <2> QED BY <1>4, <2>1, FS_Injection
<1>7. \A x \in S : \E j \in D : s[j] = x
  BY <1>6 DEF Surjection
<1> HIDE DEF s
<1>8. s \in Seq(S) /\ DOMAIN s = D
  BY <1>1, <1>3
<1>9. \A j, k \in DOMAIN s : s[j] = s[k] => j = k
  BY <1>3 DEF IsInjective
<1> QED BY <1>7, <1>8, <1>9 DEF s

-----------------------------------------------------------------------------
(* ClientDisk.                                                             *)

\* What the disk and the notes say of the present: clocks up to which nothing is missed.
SinceNotes == {notes[i].since : i \in {j \in DOMAIN notes : notes[j].do = "since"}}
Marks      == {watermark, stored.since} \cup SinceNotes

FrameKinds == [f : {"rows"}, at : UNION {[ts -> Nat] : ts \in SUBSET DiskTables}, whole : BOOLEAN]
                \cup [f : {"complete"}, now : Nat]
NoteKinds  == [do : {"subs"}, subs : SUBSET DiskTables] \cup [do : {"since"}, since : Nat] \cup {WipeNote}
Puttings   == [t : DiskTables, row : DiskRow]

\* The moment a row must have come to be the present one: the end of the queue, or a
\* "complete" that claims to cover it.
Due(fs, i, x) == i = Len(fs) + 1 \/ (i \in 1..Len(fs) /\ fs[i].f = "complete" /\ x <= fs[i].now)

\* From the value v it has after frame j the row of t is brought to x in time, and never
\* back.
Follows(fs, t, j, v, x) ==
  /\ \A i \in j+1..Len(fs)+1 : Due(fs, i, x) =>
       v = x \/ \E k \in j+1..i-1 : Tells(fs[k], t) /\ fs[k].at[t] = x
  /\ \A k \in j+1..Len(fs) : Tells(fs[k], t) => v <= fs[k].at[t]

\* What the disk will hold of t when the chain is written.
WillKeep(ws, r, t, c) ==
  \E i \in 0..Len(ws) :
    /\ IF i = 0 THEN r.clock = c ELSE ws[i].t = t /\ ws[i].row.clock = c
    /\ \A j \in 1..Len(ws) : i < j /\ ws[j].t = t => ws[j].row.clock = c

\* Whether the disk will say that t is subscribed.
SubsOf(n) == IF n.do = "subs" THEN n.subs ELSE {}
WillSay(ns, s, t) ==
  \E i \in 0..Len(ns) :
    /\ IF i = 0 THEN t \in s ELSE ns[i].do # "since" /\ t \in SubsOf(ns[i])
    /\ \A j \in 1..Len(ns) : i < j => ns[j].do = "since"

\* The tables of the page, and those it takes up when it has to read the disk again.
Live == synced \cup {t \in DiskTables : Handling /\ ~inited /\ WillSay(notes, stored.subs, t)}

DiskShape ==
  /\ truth \in [DiskTables -> Nat \ {0}] /\ serverNow \in Nat /\ \A t \in DiskTables : truth[t] <= serverNow
  /\ linked \in BOOLEAN /\ asked \in SUBSET DiskTables /\ frames \in Seq(FrameKinds)
  /\ ~linked => asked = {} /\ frames = <<>>
  /\ tab \in {"off", "check", "call", "record", "hydrate", "stuck", "failed", "up", "drain", "wipe", "closing"}
  /\ handler \in SchemaHandlers /\ release \in Nat \ {0}
  /\ held \in [DiskTables -> DiskRow] /\ watermark \in Nat
  /\ synced \in SUBSET DiskTables /\ holes \in SUBSET DiskTables /\ renewed \in SUBSET DiskTables
  /\ inited \in BOOLEAN /\ forgot \in BOOLEAN
  /\ writes \in Seq(Puttings) /\ orphans \in Seq(Puttings) /\ waits \in 0..Len(writes)
  /\ notes \in Seq(NoteKinds)
  /\ stored \in [rows : [DiskTables -> DiskRow], since : Nat, subs : SUBSET DiskTables, version : 0..release]
  /\ era \in Nat /\ lastCleared \in 0..era
  /\ diskLeft \in [DOMAIN DiskBound[handler] -> Nat]

\* No clock is ahead of the server's.
NothingIsAhead ==
  /\ \A t \in DiskTables : \A row \in {held[t], stored.rows[t]} : row.clock <= truth[t]
  /\ \A i \in 1..Len(writes) : writes[i].row.clock <= truth[writes[i].t]
  /\ \A i \in 1..Len(orphans) : orphans[i].row.clock <= truth[orphans[i].t]
  /\ \A i \in 1..Len(frames) : frames[i].f = "complete" => frames[i].now <= serverNow
  /\ \A n \in Marks : n <= serverNow

\* A page that does not handle frames has nothing but its subscriptions.
QuietIsEmpty ==
  ~Handling =>
    /\ held = NoRows /\ writes = <<>> /\ orphans = <<>> /\ notes = <<>>
    /\ watermark = 0 /\ ~linked /\ ~inited

\* The clear that is noted is the one that runs, and after it only clocks are noted.
OneWipe ==
  /\ Wiping => tab = "wipe"
  /\ \A i, j \in 1..Len(notes) : notes[i] = WipeNote /\ i < j => notes[j].do = "since"

\* Rows are of the era in which they came: none is older than the last clear, and what is
\* not awaited by a clear that runs is of its own.
Aged(row, n) == row.clock = 0 \/ row.era >= n
ErasHold ==
  /\ \A t \in DiskTables : Aged(held[t], lastCleared) /\ Aged(stored.rows[t], lastCleared)
  /\ \A i \in 1..Len(writes) : Aged(writes[i].row, lastCleared)
  /\ \A i \in 1..Len(orphans) : Aged(orphans[i].row, lastCleared)
  /\ tab \in {"drain", "wipe"} => \A i \in 1..Len(writes) : tab = "wipe" \/ waits < i => Aged(writes[i].row, era)
  /\ tab = "wipe" => /\ \A t \in DiskTables : Aged(held[t], era)
                     /\ \A i \in 1..Len(orphans) : Aged(orphans[i].row, era)

\* What a clear finds to be left behind was handled while it ran.
LateIsExcused ==
  /\ tab = "drain" => Len(writes) = waits \/ holes = DiskTables
  /\ tab = "wipe" => (writes = <<>> /\ orphans = <<>>) \/ holes = DiskTables
  /\ orphans = <<>> \/ holes = DiskTables

\* Where the app clears on a schema change and no clear() took the version: rows on the
\* disk are of its version, which is the code's from the check on.
Shaped(row, n) == row.clock = 0 \/ row.shape = n
ShapesHold ==
  handler = "clear" /\ ~forgot =>
    /\ \A t \in DiskTables : Shaped(stored.rows[t], stored.version) /\ Shaped(held[t], release)
    /\ stored.version = 0 \/ tab = "record" => \A t \in DiskTables : stored.rows[t].clock = 0
    /\ tab = "hydrate" \/ Handling => stored.version = release
    /\ \A i \in 1..Len(writes) : Shaped(writes[i].row, release)
    /\ \A i \in 1..Len(orphans) : Shaped(orphans[i].row, release)

\* Rows on their way: in order, none behind what was covered before it.
InOrder(fs, t, x, ns) ==
  \A j \in 1..Len(fs) : Tells(fs[j], t) =>
    /\ fs[j].at[t] <= x
    /\ \A n \in ns : x <= n => fs[j].at[t] = x
    /\ \A i \in 1..j : fs[i].f = "complete" /\ x <= fs[i].now => fs[j].at[t] = x
    /\ \A i \in 1..j : Tells(fs[i], t) => fs[i].at[t] <= fs[j].at[t]
FramesInOrder == \A t \in DiskTables : InOrder(frames, t, truth[t], Marks)

\* What is synced is asked for.
LiveIsAsked == linked => Live \subseteq asked

\* What is asked for is brought to the present by what is on its way: after each frame,
\* but one of a table that was declared anew and has a later answer coming.
AnswersAll(fs, t, x, excused) ==
  \A j \in 1..Len(fs) : Tells(fs[j], t) =>
    \/ Follows(fs, t, j, fs[j].at[t], x)
    \/ excused /\ \E k \in j+1..Len(fs) : Tells(fs[k], t) /\ fs[k].whole
AnswersFollow == \A t \in asked : AnswersAll(frames, t, truth[t], t \in holes \cap renewed)

\* And what is held, but for the holes, with it; what was covered is held, and what is
\* held will be kept.
TablesFollow ==
  Handling /\ tab # "wipe" => \A t \in Live \ holes :
    /\ linked => Follows(frames, t, 0, held[t].clock, truth[t])
    /\ \A n \in Marks : truth[t] <= n => held[t].clock = truth[t]
    /\ WillKeep(writes, stored.rows[t], t, held[t].clock)

\* So it is on the disk when nobody holds it.
DiskFollows ==
  ~Handling \/ tab = "wipe" => \A t \in (synced \cup (IF Handling THEN {} ELSE stored.subs)) \ holes :
    \A n \in {stored.since} \cup SinceNotes : truth[t] <= n => stored.rows[t].clock = truth[t]

DiskIInv ==
  /\ DiskShape /\ NothingIsAhead /\ QuietIsEmpty /\ OneWipe /\ ErasHold /\ LateIsExcused /\ ShapesHold
  /\ FramesInOrder /\ LiveIsAsked /\ AnswersFollow /\ TablesFollow /\ DiskFollows

\* Frames put at the end, of which those that tell of t tell it as it now is.
LEMMA FollowsEnds ==
  ASSUME NEW fs \in Seq(FrameKinds), NEW gs \in Seq(FrameKinds), NEW t, NEW x \in Nat, NEW y \in Nat,
         NEW j \in 0..Len(fs), NEW v \in Nat, v <= y, Follows(fs, t, j, v, x),
         \A i \in 1..Len(fs) : fs[i].f = "complete" /\ y <= fs[i].now => y = x,
         gs # <<>>, Tells(gs[1], t), \A k \in 1..Len(gs) : Tells(gs[k], t) => gs[k].at[t] = y
  PROVE  Follows(fs \o gs, t, j, v, y)
<1> DEFINE hs == fs \o gs
<1>1. /\ Len(fs) \in Nat /\ Len(gs) \in Nat /\ Len(hs) = Len(fs) + Len(gs)
      /\ \A i \in 1..Len(fs) : hs[i] = fs[i] /\ i \in 1..Len(hs)
      /\ \A i \in 1..Len(gs) : hs[Len(fs) + i] = gs[i] /\ Len(fs) + i \in 1..Len(hs)
      /\ \A i \in 1..Len(hs) : i \in 1..Len(fs) \/ (i - Len(fs) \in 1..Len(gs) /\ hs[i] = gs[i - Len(fs)])
  BY QueueEnds
<1>2. 1 \in 1..Len(gs)
  BY EmptySeq, LenProperties
<1> HIDE DEF hs
<1>3. Tells(hs[Len(fs) + 1], t) /\ hs[Len(fs) + 1].at[t] = y
  BY <1>1, <1>2
<1>4. ASSUME NEW i \in j+1..Len(hs)+1, Due(hs, i, y)
      PROVE  v = y \/ \E k \in j+1..i-1 : Tells(hs[k], t) /\ hs[k].at[t] = y
  <2>1. CASE i \in 1..Len(fs)
    <3>1. hs[i] = fs[i] /\ i # Len(hs) + 1
      BY <1>1, <2>1
    <3>2. fs[i].f = "complete" /\ y <= fs[i].now
      BY <1>4, <3>1 DEF Due
    <3>3. y = x /\ Due(fs, i, x) /\ i \in j+1..Len(fs)+1
      BY <1>1, <2>1, <3>2 DEF Due
    <3>4. v = y \/ \E k \in j+1..i-1 : Tells(fs[k], t) /\ fs[k].at[t] = y
      BY <3>3 DEF Follows
    <3>5. \A k \in j+1..i-1 : hs[k] = fs[k]
      BY <1>1, <2>1
    <3> QED BY <3>4, <3>5
  <2>2. CASE i \notin 1..Len(fs)
    <3>1. i # Len(fs) + 1
      <4>1. SUFFICES ASSUME i = Len(fs) + 1 PROVE FALSE
        OBVIOUS
      <4>2. hs[i].f = "rows" /\ i # Len(hs) + 1
        BY <1>1, <1>2, <1>3, <4>1 DEF Tells
      <4> QED BY <1>4, <4>2 DEF Due
    <3>2. Len(fs) + 1 \in j+1..i-1
      BY <1>1, <2>2, <3>1
    <3> QED BY <1>3, <3>2
  <2> QED BY <2>1, <2>2
<1>5. ASSUME NEW k \in j+1..Len(hs), Tells(hs[k], t) PROVE v <= hs[k].at[t]
  <2>1. CASE k \in 1..Len(fs)
    <3>1. hs[k] = fs[k] /\ k \in j+1..Len(fs)
      BY <1>1, <2>1
    <3> QED BY <1>5, <3>1 DEF Follows
  <2>2. CASE k - Len(fs) \in 1..Len(gs) /\ hs[k] = gs[k - Len(fs)]
    BY <1>5, <2>2
  <2>3. k \in 1..Len(hs)
    BY <1>1
  <2> QED BY <1>1, <2>1, <2>2, <2>3
<1>6. Follows(hs, t, j, v, y)
  BY <1>4, <1>5 DEF Follows
<1> QED BY <1>6 DEF hs

\* Frames put at the end that have nothing to do with t.
LEMMA FollowsStill ==
  ASSUME NEW fs \in Seq(FrameKinds), NEW gs \in Seq(FrameKinds), NEW t, NEW x \in Nat,
         NEW j \in 0..Len(fs), NEW v \in Nat, Follows(fs, t, j, v, x),
         \A k \in 1..Len(gs) : ~Tells(gs[k], t) /\ gs[k].f # "complete"
  PROVE  Follows(fs \o gs, t, j, v, x)
<1> DEFINE hs == fs \o gs
<1>1. /\ Len(fs) \in Nat /\ Len(gs) \in Nat /\ Len(hs) = Len(fs) + Len(gs)
      /\ \A i \in 1..Len(fs) : hs[i] = fs[i] /\ i \in 1..Len(hs)
      /\ \A i \in 1..Len(gs) : hs[Len(fs) + i] = gs[i] /\ Len(fs) + i \in 1..Len(hs)
      /\ \A i \in 1..Len(hs) : i \in 1..Len(fs) \/ (i - Len(fs) \in 1..Len(gs) /\ hs[i] = gs[i - Len(fs)])
  BY QueueEnds
<1> HIDE DEF hs
<1>2. ASSUME NEW i \in j+1..Len(hs)+1, Due(hs, i, x)
      PROVE  v = x \/ \E k \in j+1..i-1 : Tells(hs[k], t) /\ hs[k].at[t] = x
  <2>1. CASE i \in 1..Len(fs)
    <3>1. hs[i] = fs[i] /\ i # Len(hs) + 1
      BY <1>1, <2>1
    <3>2. Due(fs, i, x) /\ i \in j+1..Len(fs)+1
      BY <1>1, <1>2, <2>1, <3>1 DEF Due
    <3>4. v = x \/ \E k \in j+1..i-1 : Tells(fs[k], t) /\ fs[k].at[t] = x
      BY <3>2 DEF Follows
    <3>5. \A k \in j+1..i-1 : hs[k] = fs[k]
      BY <1>1, <2>1
    <3> QED BY <3>4, <3>5
  <2>2. CASE i \notin 1..Len(fs)
    <3>1. i = Len(hs) + 1
      <4>1. SUFFICES ASSUME i # Len(hs) + 1 PROVE FALSE
        OBVIOUS
      <4>2. i \in 1..Len(hs) /\ hs[i].f = "complete"
        BY <1>2, <4>1 DEF Due
      <4>3. i - Len(fs) \in 1..Len(gs) /\ hs[i] = gs[i - Len(fs)]
        BY <1>1, <2>2, <4>2
      <4> QED BY <4>2, <4>3
    <3>2. Due(fs, Len(fs) + 1, x) /\ Len(fs) + 1 \in j+1..Len(fs)+1
      BY <1>1 DEF Due
    <3>3. v = x \/ \E k \in j+1..Len(fs)+1-1 : Tells(fs[k], t) /\ fs[k].at[t] = x
      BY <3>2 DEF Follows
    <3>4. \A k \in j+1..Len(fs)+1-1 : hs[k] = fs[k] /\ k \in j+1..i-1
      BY <1>1, <3>1
    <3> QED BY <3>3, <3>4
  <2> QED BY <2>1, <2>2
<1>5. ASSUME NEW k \in j+1..Len(hs), Tells(hs[k], t) PROVE v <= hs[k].at[t]
  <2>1. CASE k \in 1..Len(fs)
    BY <1>1, <2>1, <1>5 DEF Follows
  <2>2. CASE k - Len(fs) \in 1..Len(gs) /\ hs[k] = gs[k - Len(fs)]
    BY <1>5, <2>2
  <2>3. k \in 1..Len(hs)
    BY <1>1
  <2> QED BY <1>1, <2>1, <2>2, <2>3
<1>6. Follows(hs, t, j, v, x)
  BY <1>2, <1>5 DEF Follows
<1> QED BY <1>6 DEF hs

\* A frame that is followed only by such as tell the same.
LEMMA FollowsLast ==
  ASSUME NEW fs \in Seq(FrameKinds), NEW t, NEW y \in Nat, NEW j \in 0..Len(fs),
         \A k \in j+1..Len(fs) : Tells(fs[k], t) => fs[k].at[t] = y
  PROVE  Follows(fs, t, j, y, y)
BY DEF Follows

\* The first frame is taken: after the others, rows still come as they did.
LEMMA FollowsStarts ==
  ASSUME NEW fs \in Seq(FrameKinds), fs # <<>>, NEW t, NEW x, NEW v, NEW j \in 0..Len(fs),
         Follows(fs, t, j, v, x), j = 0 => ~Tells(Head(fs), t)
  PROVE  Follows(Tail(fs), t, IF j = 0 THEN 0 ELSE j - 1, v, x)
<1> DEFINE gs == Tail(fs)
           l  == IF j = 0 THEN 0 ELSE j - 1
<1>1. /\ Len(fs) \in Nat \ {0} /\ Head(fs) = fs[1] /\ Len(gs) = Len(fs) - 1
      /\ \A k \in 1..Len(gs) : gs[k] = fs[k + 1] /\ k + 1 \in 1..Len(fs)
      /\ \A k \in 1..Len(fs) : k = 1 \/ (k - 1 \in 1..Len(gs) /\ gs[k - 1] = fs[k])
  BY QueueStarts
<1> HIDE DEF gs
<1>2. ASSUME NEW i \in l+1..Len(gs)+1, Due(gs, i, x)
      PROVE  v = x \/ \E k \in l+1..i-1 : Tells(gs[k], t) /\ gs[k].at[t] = x
  <2>1. Due(fs, i + 1, x) /\ i + 1 \in j+1..Len(fs)+1
    BY <1>1, <1>2 DEF Due
  <2>2. v = x \/ \E k \in j+1..i+1-1 : Tells(fs[k], t) /\ fs[k].at[t] = x
    BY <2>1 DEF Follows
  <2>3. ASSUME NEW k \in j+1..i+1-1, Tells(fs[k], t), fs[k].at[t] = x
        PROVE  \E n \in l+1..i-1 : Tells(gs[n], t) /\ gs[n].at[t] = x
    <3>1. k # 1
      BY <1>1, <2>3
    <3>2. k - 1 \in l+1..i-1 /\ gs[k - 1] = fs[k]
      BY <1>1, <2>3, <3>1
    <3> QED BY <2>3, <3>2
  <2> QED BY <2>2, <2>3
<1>3. ASSUME NEW k \in l+1..Len(gs), Tells(gs[k], t) PROVE v <= gs[k].at[t]
  BY <1>1, <1>3 DEF Follows
<1>4. Follows(gs, t, l, v, x)
  BY <1>2, <1>3 DEF Follows
<1> QED BY <1>4 DEF gs

\* Rows come in order.
LEMMA OrderStarts ==
  ASSUME NEW fs \in Seq(FrameKinds), fs # <<>>, NEW t, NEW x, NEW ns, NEW ms, InOrder(fs, t, x, ns),
         \A n \in ms : n \in ns \/ (Head(fs).f = "complete" /\ n = Head(fs).now)
  PROVE  InOrder(Tail(fs), t, x, ms)
<1> DEFINE gs == Tail(fs)
<1>1. /\ Len(fs) \in Nat \ {0} /\ Head(fs) = fs[1] /\ Len(gs) = Len(fs) - 1
      /\ \A k \in 1..Len(gs) : gs[k] = fs[k + 1] /\ k + 1 \in 1..Len(fs)
  BY QueueStarts
<1> HIDE DEF gs
<1>2. ASSUME NEW j \in 1..Len(gs), Tells(gs[j], t)
      PROVE  /\ gs[j].at[t] <= x
             /\ \A n \in ms : x <= n => gs[j].at[t] = x
             /\ \A i \in 1..j : gs[i].f = "complete" /\ x <= gs[i].now => gs[j].at[t] = x
             /\ \A i \in 1..j : Tells(gs[i], t) => gs[i].at[t] <= gs[j].at[t]
  <2>1. gs[j] = fs[j + 1] /\ j + 1 \in 1..Len(fs)
    BY <1>1
  <2>2. /\ gs[j].at[t] <= x
        /\ \A n \in ns : x <= n => gs[j].at[t] = x
        /\ \A i \in 1..j+1 : fs[i].f = "complete" /\ x <= fs[i].now => gs[j].at[t] = x
        /\ \A i \in 1..j+1 : Tells(fs[i], t) => fs[i].at[t] <= gs[j].at[t]
    BY <1>2, <2>1 DEF InOrder
  <2>3. \A i \in 1..j : gs[i] = fs[i + 1] /\ i + 1 \in 1..j+1
    BY <1>1
  <2>4. 1 \in 1..j+1
    OBVIOUS
  <2>5. ASSUME NEW n \in ms, x <= n PROVE gs[j].at[t] = x
    <3>1. CASE n \in ns
      BY <2>2, <2>5, <3>1
    <3>2. CASE Head(fs).f = "complete" /\ n = Head(fs).now
      BY <1>1, <2>2, <2>4, <2>5, <3>2
    <3> QED BY <3>1, <3>2
  <2> QED BY <2>2, <2>3, <2>5
<1>3. InOrder(gs, t, x, ms)
  BY <1>2 DEF InOrder
<1> QED BY <1>3 DEF gs

\* Frames that tell the table as it now is are put at the end in order.
LEMMA OrderEnds ==
  ASSUME NEW fs \in Seq(FrameKinds), NEW gs \in Seq(FrameKinds), NEW t, NEW x \in Nat, NEW y \in Nat, x <= y,
         NEW ns, InOrder(fs, t, x, ns),
         y = x \/ ((\A n \in ns : ~(y <= n)) /\ \A i \in 1..Len(fs) : fs[i].f = "complete" => ~(y <= fs[i].now)),
         \A k \in 1..Len(gs) : Tells(gs[k], t) => gs[k].at[t] = y,
         \A k \in 1..Len(fs) : Tells(fs[k], t) => fs[k].at[t] \in Nat
  PROVE  InOrder(fs \o gs, t, y, ns)
<1> DEFINE hs == fs \o gs
<1>1. /\ Len(fs) \in Nat /\ Len(gs) \in Nat /\ Len(hs) = Len(fs) + Len(gs)
      /\ \A i \in 1..Len(fs) : hs[i] = fs[i] /\ i \in 1..Len(hs)
      /\ \A i \in 1..Len(hs) : i \in 1..Len(fs) \/ (i - Len(fs) \in 1..Len(gs) /\ hs[i] = gs[i - Len(fs)])
  BY QueueEnds
<1> HIDE DEF hs
<1>2. ASSUME NEW j \in 1..Len(hs), Tells(hs[j], t)
      PROVE  /\ hs[j].at[t] <= y
             /\ \A n \in ns : y <= n => hs[j].at[t] = y
             /\ \A i \in 1..j : hs[i].f = "complete" /\ y <= hs[i].now => hs[j].at[t] = y
             /\ \A i \in 1..j : Tells(hs[i], t) => hs[i].at[t] <= hs[j].at[t]
  <2>1. CASE j \in 1..Len(fs)
    <3>1. \A i \in 1..j : hs[i] = fs[i] /\ i \in 1..Len(fs)
      BY <1>1, <2>1
    <3>2. hs[j] = fs[j] /\ fs[j].at[t] \in Nat
      BY <1>2, <2>1, <3>1
    <3>3. /\ hs[j].at[t] <= x
          /\ \A n \in ns : x <= n => hs[j].at[t] = x
          /\ \A i \in 1..j : fs[i].f = "complete" /\ x <= fs[i].now => hs[j].at[t] = x
          /\ \A i \in 1..j : Tells(fs[i], t) => fs[i].at[t] <= hs[j].at[t]
      BY <1>2, <2>1, <3>2 DEF InOrder
    <3>4. hs[j].at[t] <= y
      BY <3>2, <3>3
    <3> QED BY <3>1, <3>3, <3>4
  <2>2. CASE j - Len(fs) \in 1..Len(gs) /\ hs[j] = gs[j - Len(fs)]
    <3>1. hs[j].at[t] = y
      BY <1>2, <2>2
    <3>2. ASSUME NEW i \in 1..j, Tells(hs[i], t) PROVE hs[i].at[t] <= y
      <4>1. CASE i \in 1..Len(fs)
        BY <1>1, <4>1, <3>2 DEF InOrder
      <4>2. CASE i - Len(fs) \in 1..Len(gs) /\ hs[i] = gs[i - Len(fs)]
        BY <3>2, <4>2
      <4>3. i \in 1..Len(hs)
        BY <1>1
      <4> QED BY <1>1, <4>1, <4>2, <4>3
    <3> QED BY <3>1, <3>2
  <2> QED BY <1>1, <2>1, <2>2
<1>3. InOrder(hs, t, y, ns)
  BY <1>2 DEF InOrder
<1> QED BY <1>3 DEF hs

\* And follow.
LEMMA AnswersStart ==
  ASSUME NEW fs \in Seq(FrameKinds), fs # <<>>, NEW t, NEW x, NEW e, NEW h, AnswersAll(fs, t, x, e), e => h
  PROVE  AnswersAll(Tail(fs), t, x, h)
<1> DEFINE gs == Tail(fs)
<1>1. /\ Len(fs) \in Nat \ {0} /\ Head(fs) = fs[1] /\ Len(gs) = Len(fs) - 1
      /\ \A k \in 1..Len(gs) : gs[k] = fs[k + 1] /\ k + 1 \in 1..Len(fs)
      /\ \A k \in 1..Len(fs) : k = 1 \/ (k - 1 \in 1..Len(gs) /\ gs[k - 1] = fs[k])
  BY QueueStarts
<1>2. ASSUME NEW j \in 1..Len(gs), Tells(gs[j], t)
      PROVE  Follows(gs, t, j, gs[j].at[t], x) \/ (h /\ \E k \in j+1..Len(gs) : Tells(gs[k], t) /\ gs[k].whole)
  <2>0. gs[j] = fs[j + 1] /\ j + 1 \in 1..Len(fs)
    BY <1>1
  <2>1. CASE Follows(fs, t, j + 1, fs[j + 1].at[t], x)
    <3> DEFINE l == j + 1
               v == fs[j + 1].at[t]
    <3>1. l \in 0..Len(fs) /\ l # 0 /\ Follows(fs, t, l, v, x)
      BY <2>0, <2>1
    <3> HIDE DEF l, v, gs
    <3>2. Follows(Tail(fs), t, IF l = 0 THEN 0 ELSE l - 1, v, x)
      BY <3>1, FollowsStarts
    <3>3. l - 1 = j
      BY DEF l
    <3>4. Follows(Tail(fs), t, j, v, x)
      BY <3>1, <3>2, <3>3
    <3>5. v = gs[j].at[t]
      BY <2>0 DEF v
    <3> QED BY <3>4, <3>5 DEF gs
  <2>2. CASE e /\ \E k \in j+1+1..Len(fs) : Tells(fs[k], t) /\ fs[k].whole
    <3>1. PICK k \in j+1+1..Len(fs) : Tells(fs[k], t) /\ fs[k].whole
      BY <2>2
    <3> HIDE DEF gs
    <3>2. k - 1 \in j+1..Len(gs) /\ gs[k - 1] = fs[k]
      BY <1>1
    <3> QED BY <2>2, <3>1, <3>2
  <2> QED BY <1>2, <2>0, <2>1, <2>2 DEF AnswersAll
<1> HIDE DEF gs
<1>3. AnswersAll(gs, t, x, h)
  BY <1>2 DEF AnswersAll
<1> QED BY <1>3 DEF gs

\* Each frame is still followed to the present when what tells it is put at the end.
LEMMA AnswersEnd ==
  ASSUME NEW fs \in Seq(FrameKinds), NEW gs \in Seq(FrameKinds), NEW t, NEW x \in Nat, NEW y \in Nat,
         NEW e, NEW h,
         \A i \in 1..Len(fs) : fs[i].f = "complete" /\ y <= fs[i].now => y = x,
         gs # <<>>, Tells(gs[1], t), \A k \in 1..Len(gs) : Tells(gs[k], t) => gs[k].at[t] = y,
         \A k \in 1..Len(fs) : Tells(fs[k], t) => fs[k].at[t] \in Nat /\ fs[k].at[t] <= y,
         \/ h /\ gs[1].whole
         \/ \A k \in 1..Len(fs) : ~Tells(fs[k], t)
         \/ AnswersAll(fs, t, x, e) /\ (e => h)
  PROVE  AnswersAll(fs \o gs, t, y, h)
<1> DEFINE hs == fs \o gs
<1>1. /\ Len(fs) \in Nat /\ Len(gs) \in Nat /\ Len(hs) = Len(fs) + Len(gs) /\ hs \in Seq(FrameKinds)
      /\ \A i \in 1..Len(fs) : hs[i] = fs[i] /\ i \in 1..Len(hs)
      /\ \A i \in 1..Len(gs) : hs[Len(fs) + i] = gs[i] /\ Len(fs) + i \in 1..Len(hs)
      /\ \A i \in 1..Len(hs) : i \in 1..Len(fs) \/ (i - Len(fs) \in 1..Len(gs) /\ hs[i] = gs[i - Len(fs)])
  BY QueueEnds
<1>2. 1 \in 1..Len(gs)
  BY EmptySeq, LenProperties
<1> HIDE DEF hs
<1>3. hs[Len(fs) + 1] = gs[1]
  BY <1>1, <1>2
<1>4. ASSUME NEW j \in 1..Len(hs), Tells(hs[j], t)
      PROVE  Follows(hs, t, j, hs[j].at[t], y) \/ (h /\ \E k \in j+1..Len(hs) : Tells(hs[k], t) /\ hs[k].whole)
  <2>1. CASE j \in 1..Len(fs)
    <3> DEFINE v == hs[j].at[t]
    <3>0. hs[j] = fs[j] /\ v = fs[j].at[t] /\ v \in Nat /\ v <= y /\ Tells(fs[j], t) /\ j \in 0..Len(fs)
      BY <1>1, <1>4, <2>1
    <3>1. CASE h /\ gs[1].whole
      BY <1>1, <1>2, <2>1, <1>3, <3>1
    <3>2. CASE AnswersAll(fs, t, x, e) /\ (e => h)
      <4>1. CASE Follows(fs, t, j, fs[j].at[t], x)
        <5> HIDE DEF v
        <5>1. Follows(fs, t, j, v, x)
          BY <3>0, <4>1
        <5>2. Follows(fs \o gs, t, j, v, y)
          BY <3>0, <5>1, FollowsEnds
        <5> QED BY <5>2 DEF hs, v
      <4>2. CASE e /\ \E k \in j+1..Len(fs) : Tells(fs[k], t) /\ fs[k].whole
        <5>1. PICK k \in j+1..Len(fs) : Tells(fs[k], t) /\ fs[k].whole
          BY <4>2
        <5>2. k \in j+1..Len(hs) /\ hs[k] = fs[k]
          BY <1>1, <2>1
        <5> QED BY <3>2, <4>2, <5>1, <5>2
      <4> QED BY <2>1, <3>0, <3>2, <4>1, <4>2 DEF AnswersAll
    <3> QED BY <2>1, <3>0, <3>1, <3>2
  <2>2. CASE j - Len(fs) \in 1..Len(gs) /\ hs[j] = gs[j - Len(fs)]
    <3>1. hs[j].at[t] = y
      BY <1>4, <2>2
    <3>2. ASSUME NEW k \in j+1..Len(hs), Tells(hs[k], t) PROVE hs[k].at[t] = y
      <4>1. k - Len(fs) \in 1..Len(gs) /\ hs[k] = gs[k - Len(fs)]
        BY <1>1, <2>2
      <4> QED BY <3>2, <4>1
    <3>3. j \in 0..Len(hs)
      BY <1>1
    <3>4. Follows(hs, t, j, y, y)
      BY <1>1, <3>2, <3>3, FollowsLast
    <3> QED BY <3>1, <3>4
  <2> QED BY <1>1, <2>1, <2>2
<1>5. AnswersAll(hs, t, y, h)
  BY <1>4 DEF AnswersAll
<1> QED BY <1>5 DEF hs

\* And when frames are put at the end that neither tell of the table nor cover it.
LEMMA AnswersStay ==
  ASSUME NEW fs \in Seq(FrameKinds), NEW gs \in Seq(FrameKinds), NEW t, NEW x \in Nat, NEW e, NEW h,
         \A k \in 1..Len(gs) : ~Tells(gs[k], t) /\ gs[k].f # "complete",
         \A k \in 1..Len(fs) : Tells(fs[k], t) => fs[k].at[t] \in Nat,
         AnswersAll(fs, t, x, e), e => h
  PROVE  AnswersAll(fs \o gs, t, x, h)
<1> DEFINE hs == fs \o gs
<1>1. /\ Len(fs) \in Nat /\ Len(gs) \in Nat /\ Len(hs) = Len(fs) + Len(gs) /\ hs \in Seq(FrameKinds)
      /\ \A i \in 1..Len(fs) : hs[i] = fs[i] /\ i \in 1..Len(hs)
      /\ \A i \in 1..Len(hs) : i \in 1..Len(fs) \/ (i - Len(fs) \in 1..Len(gs) /\ hs[i] = gs[i - Len(fs)])
  BY QueueEnds
<1> HIDE DEF hs
<1>4. ASSUME NEW j \in 1..Len(hs), Tells(hs[j], t)
      PROVE  Follows(hs, t, j, hs[j].at[t], x) \/ (h /\ \E k \in j+1..Len(hs) : Tells(hs[k], t) /\ hs[k].whole)
  <2> DEFINE v == hs[j].at[t]
  <2>0. j \in 1..Len(fs)
    BY <1>1, <1>4
  <2>1. hs[j] = fs[j] /\ v = fs[j].at[t] /\ v \in Nat /\ Tells(fs[j], t) /\ j \in 0..Len(fs)
    BY <1>1, <1>4, <2>0
  <2>2. CASE Follows(fs, t, j, fs[j].at[t], x)
    <3> HIDE DEF v
    <3>1. Follows(fs, t, j, v, x)
      BY <2>1, <2>2
    <3>2. Follows(fs \o gs, t, j, v, x)
      BY <2>1, <3>1, FollowsStill
    <3> QED BY <3>2 DEF hs, v
  <2>3. CASE e /\ \E k \in j+1..Len(fs) : Tells(fs[k], t) /\ fs[k].whole
    <3>1. PICK k \in j+1..Len(fs) : Tells(fs[k], t) /\ fs[k].whole
      BY <2>3
    <3>2. k \in j+1..Len(hs) /\ hs[k] = fs[k]
      BY <1>1
    <3> QED BY <2>3, <3>1, <3>2
  <2> QED BY <2>0, <2>1, <2>2, <2>3 DEF AnswersAll
<1>5. AnswersAll(hs, t, x, h)
  BY <1>4 DEF AnswersAll
<1> QED BY <1>5 DEF hs

\* What the chain leaves on the disk.
LEMMA KeepsEnds ==
  ASSUME NEW fs \in Seq(Puttings), NEW gs \in Seq(Puttings), NEW r, NEW t, NEW c,
         \A j \in 1..Len(gs) : gs[j].t = t => gs[j].row.clock = c,
         WillKeep(fs, r, t, c) \/ \E j \in 1..Len(gs) : gs[j].t = t
  PROVE  WillKeep(fs \o gs, r, t, c)
<1> DEFINE hs == fs \o gs
<1>1. /\ Len(fs) \in Nat /\ Len(gs) \in Nat /\ Len(hs) = Len(fs) + Len(gs)
      /\ \A i \in 1..Len(fs) : hs[i] = fs[i] /\ i \in 1..Len(hs)
      /\ \A i \in 1..Len(gs) : hs[Len(fs) + i] = gs[i] /\ Len(fs) + i \in 1..Len(hs)
      /\ \A i \in 1..Len(hs) : i \in 1..Len(fs) \/ (i - Len(fs) \in 1..Len(gs) /\ hs[i] = gs[i - Len(fs)])
  BY QueueEnds
<1> HIDE DEF hs
<1> SUFFICES WillKeep(hs, r, t, c)
  BY DEF hs
<1>2. CASE WillKeep(fs, r, t, c)
  <2>1. PICK i \in 0..Len(fs) :
          /\ IF i = 0 THEN r.clock = c ELSE fs[i].t = t /\ fs[i].row.clock = c
          /\ \A j \in 1..Len(fs) : i < j /\ fs[j].t = t => fs[j].row.clock = c
    BY <1>2 DEF WillKeep
  <2>2. i \in 0..Len(hs) /\ (IF i = 0 THEN r.clock = c ELSE hs[i].t = t /\ hs[i].row.clock = c)
    <3>1. CASE i = 0
      BY <1>1, <2>1, <3>1
    <3>2. CASE i # 0
      BY <1>1, <3>2, <2>1
    <3> QED BY <3>1, <3>2
  <2>3. \A j \in 1..Len(hs) : i < j /\ hs[j].t = t => hs[j].row.clock = c
    <3> SUFFICES ASSUME NEW j \in 1..Len(hs), i < j, hs[j].t = t PROVE hs[j].row.clock = c
      OBVIOUS
    <3>1. CASE j \in 1..Len(fs)
      BY <1>1, <3>1, <2>1
    <3>2. CASE j - Len(fs) \in 1..Len(gs) /\ hs[j] = gs[j - Len(fs)]
      BY <3>2
    <3> QED BY <1>1, <3>1, <3>2
  <2> QED BY <2>2, <2>3 DEF WillKeep
<1>3. CASE \E j \in 1..Len(gs) : gs[j].t = t
  <2>1. PICK k \in 1..Len(gs) : gs[k].t = t
    BY <1>3
  <2>2. /\ Len(fs) + k \in 0..Len(hs) /\ Len(fs) + k # 0
        /\ hs[Len(fs) + k].t = t /\ hs[Len(fs) + k].row.clock = c
    BY <1>1, <2>1
  <2>3. \A j \in 1..Len(hs) : Len(fs) + k < j /\ hs[j].t = t => hs[j].row.clock = c
    <3> SUFFICES ASSUME NEW j \in 1..Len(hs), Len(fs) + k < j, hs[j].t = t
                 PROVE  hs[j].row.clock = c
      OBVIOUS
    <3>1. j - Len(fs) \in 1..Len(gs) /\ hs[j] = gs[j - Len(fs)]
      BY <1>1
    <3> QED BY <3>1
  <2> QED BY <2>2, <2>3 DEF WillKeep
<1> QED BY <1>2, <1>3

\* Taking the first of the chain to the disk changes nothing of what it will keep.
LEMMA KeepsStart ==
  ASSUME NEW fs \in Seq(Puttings), fs # <<>>, NEW r, NEW t, NEW c, NEW q, WillKeep(fs, r, t, c),
         q = IF Head(fs).t = t THEN Head(fs).row ELSE r
  PROVE  WillKeep(Tail(fs), q, t, c)
<1> DEFINE gs == Tail(fs)
<1>1. /\ Len(fs) \in Nat \ {0} /\ Head(fs) = fs[1] /\ Len(gs) = Len(fs) - 1
      /\ \A j \in 1..Len(gs) : gs[j] = fs[j + 1] /\ j + 1 \in 1..Len(fs)
      /\ \A j \in 1..Len(fs) : j = 1 \/ (j - 1 \in 1..Len(gs) /\ gs[j - 1] = fs[j])
  BY QueueStarts
<1>2. PICK i \in 0..Len(fs) :
        /\ IF i = 0 THEN r.clock = c ELSE fs[i].t = t /\ fs[i].row.clock = c
        /\ \A j \in 1..Len(fs) : i < j /\ fs[j].t = t => fs[j].row.clock = c
  BY DEF WillKeep
<1>3. q = IF fs[1].t = t THEN fs[1].row ELSE r
  BY <1>1
<1> HIDE DEF gs
<1>4. CASE i \in {0, 1}
  BY <1>1, <1>2, <1>3, <1>4 DEF WillKeep, gs
<1>5. CASE i \notin {0, 1}
  BY <1>1, <1>2, <1>5 DEF WillKeep, gs
<1> QED BY <1>4, <1>5

\* A table of which nothing is to be written is as the disk has it.
LEMMA KeptIsThere ==
  ASSUME NEW fs \in Seq(Puttings), NEW r, NEW t, NEW c, WillKeep(fs, r, t, c),
         \A j \in 1..Len(fs) : fs[j].t # t
  PROVE  r.clock = c
BY LenProperties DEF WillKeep

\* What the notes leave on the disk.
LEMMA SaysLast ==
  ASSUME NEW ns \in Seq(NoteKinds), NEW n \in NoteKinds, NEW s, NEW t, WillSay(Append(ns, n), s, t)
  PROVE  IF n.do = "since" THEN WillSay(ns, s, t) ELSE t \in SubsOf(n)
<1> DEFINE hs == Append(ns, n)
<1>1. /\ Len(ns) \in Nat /\ Len(hs) = Len(ns) + 1 /\ hs[Len(ns) + 1] = n
      /\ \A i \in 1..Len(ns) : hs[i] = ns[i]
  OBVIOUS
<1>2. PICK i \in 0..Len(hs) :
        /\ IF i = 0 THEN t \in s ELSE hs[i].do # "since" /\ t \in SubsOf(hs[i])
        /\ \A j \in 1..Len(hs) : i < j => hs[j].do = "since"
  BY DEF WillSay
<1> HIDE DEF hs
<1>3. CASE n.do = "since"
  BY <1>1, <1>2, <1>3 DEF WillSay
<1>4. CASE n.do # "since"
  BY <1>1, <1>2, <1>4
<1> QED BY <1>3, <1>4

\* Nor does taking the first note change what the disk will say.
LEMMA SaysStart ==
  ASSUME NEW ns \in Seq(NoteKinds), ns # <<>>, NEW s, NEW u, NEW t,
         u = IF Head(ns).do = "since" THEN s ELSE SubsOf(Head(ns)), WillSay(Tail(ns), u, t)
  PROVE  WillSay(ns, s, t)
<1> DEFINE gs == Tail(ns)
<1>1. /\ Len(ns) \in Nat \ {0} /\ Head(ns) = ns[1] /\ Len(gs) = Len(ns) - 1
      /\ \A j \in 1..Len(gs) : gs[j] = ns[j + 1] /\ j + 1 \in 1..Len(ns)
      /\ \A j \in 1..Len(ns) : j = 1 \/ (j - 1 \in 1..Len(gs) /\ gs[j - 1] = ns[j])
  BY QueueStarts
<1>2. PICK i \in 0..Len(gs) :
        /\ IF i = 0 THEN t \in u ELSE gs[i].do # "since" /\ t \in SubsOf(gs[i])
        /\ \A j \in 1..Len(gs) : i < j => gs[j].do = "since"
  BY DEF WillSay
<1> HIDE DEF gs
<1>3. CASE i = 0
  <2>1. CASE Head(ns).do = "since"
    BY <1>1, <1>2, <1>3, <2>1 DEF WillSay
  <2>2. CASE Head(ns).do # "since"
    BY <1>1, <1>2, <1>3, <2>2 DEF WillSay
  <2> QED BY <2>1, <2>2
<1>4. CASE i # 0
  <2>1. i + 1 \in 0..Len(ns) /\ i + 1 # 0 /\ ns[i + 1].do # "since" /\ t \in SubsOf(ns[i + 1])
    BY <1>1, <1>2, <1>4
  <2>2. \A j \in 1..Len(ns) : i + 1 < j => ns[j].do = "since"
    BY <1>1, <1>2, <1>4
  <2> QED BY <2>1, <2>2 DEF WillSay
<1> QED BY <1>3, <1>4

\* Where only clocks are noted, the disk says what it says.
LEMMA SaysOnly ==
  ASSUME NEW ns \in Seq(NoteKinds), NEW s, NEW t, \A j \in 1..Len(ns) : ns[j].do = "since", WillSay(ns, s, t)
  PROVE  t \in s
BY LenProperties DEF WillSay

\* The inductive invariant implies the one the run checks.
LEMMA DiskIInvImplies == DiskIInv => DiskInv
<1> SUFFICES ASSUME DiskIInv PROVE DiskInv
  OBVIOUS
<1>1. DiskShape /\ NothingIsAhead
  BY DEF DiskIInv
<1>2. DiskTypeOK
  <2>1. watermark \in 0..serverNow /\ stored.since \in 0..serverNow
    BY <1>1 DEF DiskShape, NothingIsAhead, Marks
  <2>2. stored \in [rows : [DiskTables -> DiskRow], since : 0..serverNow, subs : SUBSET DiskTables, version : 0..release]
    BY <1>1, <2>1 DEF DiskShape
  <2>3. truth \in [DiskTables -> Nat] /\ release \in Nat
    BY <1>1 DEF DiskShape
  <2> QED BY <1>1, <2>1, <2>2, <2>3 DEF DiskShape, DiskTypeOK, Puttings
<1>3. WipedStaysWiped
  <2> SUFFICES ASSUME NEW t \in DiskTables, NEW row \in {held[t], stored.rows[t]}, row.clock > 0
               PROVE  row.era >= lastCleared
    BY DEF WipedStaysWiped
  <2>1. Aged(row, lastCleared)
    BY DEF DiskIInv, ErasHold
  <2> QED BY <2>1 DEF Aged
<1>4. OldShapeUnread
  <2> SUFFICES ASSUME tab = "up", handler = "clear", ~forgot, NEW t \in DiskTables, held[t].clock > 0
               PROVE  held[t].shape = release
    BY DEF OldShapeUnread
  <2>1. Shaped(held[t], release)
    BY DEF DiskIInv, ShapesHold
  <2> QED BY <2>1 DEF Shaped
<1>5. ResumedIsCurrent
  <2> SUFFICES ASSUME tab = "up", inited, linked, frames = <<>>, NEW t \in synced \cap asked, t \notin holes
               PROVE  held[t].clock = truth[t]
    BY DEF ResumedIsCurrent
  <2>1. Follows(frames, t, 0, held[t].clock, truth[t])
    BY DEF DiskIInv, TablesFollow, Handling, Live
  <2>2. Due(frames, 1, truth[t]) /\ 1 \in 0+1..Len(frames)+1
    BY DEF Due
  <2> QED BY <2>1, <2>2 DEF Follows
<1> QED BY <1>2, <1>3, <1>4, <1>5 DEF DiskInv


\* Where nothing is on its way, and nothing is noted or to be written.
LEMMA NothingComes ==
  ASSUME NEW t, NEW x, NEW ns, NEW e, NEW r, NEW c
  PROVE  /\ InOrder(<<>>, t, x, ns) /\ AnswersAll(<<>>, t, x, e)
         /\ (r.clock = c => WillKeep(<<>>, r, t, c))
<1>1. Len(<<>>) = 0 /\ 1..0 = {}
  OBVIOUS
<1> QED BY <1>1 DEF InOrder, AnswersAll, WillKeep

\* The first state.
LEMMA DiskStarts == DiskInit => DiskIInv
<1> SUFFICES ASSUME DiskInit PROVE DiskIInv
  OBVIOUS
<1> USE DiskAssumption
<1>1. /\ frames = <<>> /\ notes = <<>> /\ writes = <<>> /\ orphans = <<>> /\ ~Handling /\ asked = {}
      /\ synced = {} /\ stored.subs = {} /\ ~linked /\ watermark = 0 /\ stored.since = 0
      /\ held = NoRows /\ stored.rows = NoRows /\ stored.version = 0 /\ ~inited
  BY DEF DiskInit, Handling, BlankDisk
<1>2. NoRows \in [DiskTables -> DiskRow] /\ \A t \in DiskTables : NoRows[t].clock = 0
  BY DEF NoRows, Absent, DiskRow
<1>3. DiskShape
  <2>1. writes \in Seq(Puttings) /\ orphans \in Seq(Puttings) /\ waits \in 0..Len(writes) /\ notes \in Seq(NoteKinds)
         /\ frames \in Seq(FrameKinds)
    BY DEF DiskInit
  <2>2. diskLeft \in [DOMAIN DiskBound[handler] -> Nat]
    BY DEF DiskInit
  <2>3. stored \in [rows : [DiskTables -> DiskRow], since : Nat, subs : SUBSET DiskTables, version : 0..release]
    BY <1>2 DEF DiskInit, BlankDisk
  <2>4. truth \in [DiskTables -> Nat \ {0}] /\ serverNow \in Nat /\ \A t \in DiskTables : truth[t] <= serverNow
    BY DEF DiskInit
  <2>5. release \in Nat \ {0} /\ held \in [DiskTables -> DiskRow] /\ watermark \in Nat /\ inited \in BOOLEAN /\ forgot \in BOOLEAN
        /\ linked \in BOOLEAN
    <3>1. release = 1 /\ watermark = 0
      BY <1>1 DEF DiskInit
    <3>2. inited = FALSE /\ forgot = FALSE /\ linked = FALSE
      BY DEF DiskInit
    <3>3. inited \in BOOLEAN /\ forgot \in BOOLEAN /\ linked \in BOOLEAN
      BY <3>2
    <3>4. release \in Nat \ {0} /\ watermark \in Nat /\ held \in [DiskTables -> DiskRow]
      BY <1>1, <1>2, <3>1
    <3> QED BY <3>3, <3>4
  <2>6. synced \in SUBSET DiskTables /\ holes \in SUBSET DiskTables /\ renewed \in SUBSET DiskTables /\ asked \in SUBSET DiskTables
    BY <1>1 DEF DiskInit
  <2>7. era \in Nat /\ lastCleared \in 0..era /\ handler \in SchemaHandlers /\ tab = "off"
    BY DEF DiskInit
  <2> QED BY <1>1, <2>1, <2>2, <2>3, <2>4, <2>5, <2>6, <2>7 DEF DiskShape
<1>4. NothingIsAhead
  BY <1>1, <1>2, <1>3 DEF Marks, SinceNotes, NothingIsAhead, DiskShape
<1>5. QuietIsEmpty /\ OneWipe /\ LateIsExcused
  BY <1>1 DEF QuietIsEmpty, OneWipe, Wiping, LateIsExcused, DiskInit
<1>6. ErasHold
  BY <1>1, <1>2 DEF ErasHold, Aged, DiskInit
<1>7. ShapesHold
  BY <1>1, <1>2 DEF ShapesHold, Shaped, DiskInit, Handling
<1>8. FramesInOrder /\ AnswersFollow /\ LiveIsAsked
  BY <1>1, NothingComes DEF FramesInOrder, AnswersFollow, LiveIsAsked
<1>9. TablesFollow /\ DiskFollows
  BY <1>1 DEF TablesFollow, DiskFollows
<1> QED BY <1>3, <1>4, <1>5, <1>6, <1>7, <1>8, <1>9 DEF DiskIInv

\* A page that begins, and code that is released when there is none: what a page without
\* memory does to its disk.
LEMMA QuietKeeps ==
  ASSUME DiskIInv, ~Handling, ~Handling', synced' \in {synced, stored.subs},
         UNCHANGED <<remote, network, held, watermark, inited, queues, handler, told>>,
         release' \in {release, release + 1}, release' # release => tab' = "off",
         diskLeft' \in [DOMAIN DiskBound[handler] -> Nat],
         \/ stored' = stored
         \/ stored' = BlankDisk
         \/ stored' = [stored EXCEPT !.version = release] /\ (stored.version # release => tab = "record"),
         tab' \in {"off", "check", "call", "record", "hydrate", "stuck", "failed"},
         tab' = "record" => stored'.version = 0 \/ handler # "clear",
         tab' = "hydrate" => stored'.version = release
  PROVE  DiskIInv'
<1>0. DiskShape /\ QuietIsEmpty /\ NothingIsAhead /\ LateIsExcused /\ ErasHold /\ ShapesHold /\ DiskFollows
  BY DEF DiskIInv
<1>1. /\ frames = <<>> /\ notes = <<>> /\ writes = <<>> /\ orphans = <<>> /\ asked = {} /\ ~linked /\ watermark = 0
      /\ held = NoRows /\ ~inited
  BY <1>0 DEF QuietIsEmpty, DiskShape
<1>2. NoRows \in [DiskTables -> DiskRow] /\ \A t \in DiskTables : NoRows[t] = Absent /\ Absent.clock = 0
  BY DEF NoRows, Absent, DiskRow
<1>3. /\ truth' = truth /\ serverNow' = serverNow /\ linked' = linked /\ asked' = asked /\ frames' = frames
      /\ held' = held /\ watermark' = watermark /\ inited' = inited /\ writes' = writes /\ orphans' = orphans
      /\ waits' = waits /\ notes' = notes /\ handler' = handler /\ era' = era /\ lastCleared' = lastCleared
      /\ forgot' = forgot /\ holes' = holes /\ renewed' = renewed
  BY DEF remote, network, queues, told
<1>4. /\ stored'.rows = stored.rows \/ stored'.rows = NoRows
      /\ stored'.since = stored.since \/ stored'.since = 0
      /\ stored'.subs = stored.subs \/ (stored'.subs = {} /\ stored'.since = 0)
  BY <1>0 DEF DiskShape, BlankDisk
<1>5. DiskShape'
  <2>1. release \in Nat \ {0} /\ release' \in Nat \ {0} /\ 0..release \subseteq 0..release' /\ 0 \in 0..release
         /\ release \in 0..release
    BY <1>0 DEF DiskShape
  <2>2. stored' \in [rows : [DiskTables -> DiskRow], since : Nat, subs : SUBSET DiskTables, version : 0..release]
    <3>1. CASE stored' = stored
      BY <1>0, <3>1 DEF DiskShape
    <3>2. CASE stored' = BlankDisk
      BY <1>2, <2>1, <3>2 DEF BlankDisk
    <3>3. CASE stored' = [stored EXCEPT !.version = release]
      BY <1>0, <3>3, <2>1 DEF DiskShape
    <3> QED BY <3>1, <3>2, <3>3
  <2>3. stored' \in [rows : [DiskTables -> DiskRow], since : Nat, subs : SUBSET DiskTables, version : 0..release']
    BY <2>1, <2>2
  <2>4. synced' \in SUBSET DiskTables
    BY <1>0 DEF DiskShape
  <2> QED BY <1>0, <1>3, <2>1, <2>3, <2>4 DEF DiskShape
<1>6. NothingIsAhead'
  <2>1. \A n \in Marks' : n \in Marks \cup {0}
    BY <1>1, <1>3, <1>4 DEF Marks, SinceNotes
  <2>2. \A t \in DiskTables : stored'.rows[t].clock <= truth[t]
    BY <1>0, <1>2, <1>4 DEF DiskShape, NothingIsAhead
  <2>3. 0 <= serverNow
    BY <1>0 DEF DiskShape
  <2> QED BY <1>0, <1>3, <2>1, <2>2, <2>3 DEF NothingIsAhead
<1>7. QuietIsEmpty' /\ OneWipe' /\ LateIsExcused'
  BY <1>0, <1>1, <1>3 DEF QuietIsEmpty, OneWipe, Wiping, LateIsExcused, Handling
<1>8. ErasHold'
  BY <1>0, <1>2, <1>4, <1>1, <1>3 DEF ErasHold, Aged, Handling
<1>9. ShapesHold'
  <2> SUFFICES ASSUME handler = "clear", ~forgot
               PROVE  /\ \A t \in DiskTables : Shaped(stored'.rows[t], stored'.version) /\ Shaped(held'[t], release')
                      /\ stored'.version = 0 \/ tab' = "record" => \A t \in DiskTables : stored'.rows[t].clock = 0
                      /\ tab' = "hydrate" \/ Handling' => stored'.version = release'
                      /\ \A i \in 1..Len(writes') : Shaped(writes'[i].row, release')
                      /\ \A i \in 1..Len(orphans') : Shaped(orphans'[i].row, release')
    BY <1>3 DEF ShapesHold
  <2>1. \A t \in DiskTables : Shaped(held'[t], release')
    BY <1>1, <1>2, <1>3 DEF Shaped
  <2>2. release' = release \/ tab' = "off"
    OBVIOUS
  <2>3. CASE stored' = stored
    BY <1>0, <1>1, <1>3, <2>1, <2>2, <2>3 DEF ShapesHold
  <2>4. CASE stored' = BlankDisk
    BY <1>1, <1>2, <1>3, <2>1, <2>2, <2>4 DEF BlankDisk, Shaped
  <2>5. CASE stored' = [stored EXCEPT !.version = release] /\ (stored.version # release => tab = "record")
    BY <1>0, <2>5, <1>1, <1>3, <2>1, <2>2 DEF DiskShape, ShapesHold, Shaped
  <2> QED BY <2>3, <2>4, <2>5
<1>10. FramesInOrder' /\ AnswersFollow' /\ LiveIsAsked' /\ TablesFollow'
  BY <1>1, <1>3, NothingComes DEF FramesInOrder, AnswersFollow, LiveIsAsked, TablesFollow
<1>11. DiskFollows'
  <2> SUFFICES ASSUME NEW t \in (synced' \cup stored'.subs) \ holes, NEW n \in {stored'.since}, truth[t] <= n
               PROVE  stored'.rows[t].clock = truth[t]
    BY <1>1, <1>3 DEF SinceNotes, DiskFollows
  <2>0. t \in DiskTables /\ truth[t] \in Nat \ {0}
    BY <1>0, <1>4 DEF DiskShape
  <2>1. n = stored.since /\ stored'.since # 0
    BY <1>4, <2>0
  <2>2. stored'.rows = stored.rows /\ t \in synced \cup stored.subs
    BY <1>0, <1>4, <2>1 DEF BlankDisk, DiskShape
  <2> QED BY <1>0, <2>1, <2>2 DEF DiskFollows
<1> QED BY <1>5, <1>6, <1>7, <1>8, <1>9, <1>10, <1>11 DEF DiskIInv

\* A bound that is spent stays a bound.
LEMMA SpendKeeps ==
  ASSUME DiskShape, NEW b, SpendDisk(b)
  PROVE  diskLeft' \in [DOMAIN DiskBound[handler] -> Nat]
<1> DEFINE D == DOMAIN DiskBound[handler]
<1>1. diskLeft \in [D -> Nat]
  BY DEF DiskShape
<1>2. diskLeft[b] > 0 /\ diskLeft' = [diskLeft EXCEPT ![b] = diskLeft[b] - 1]
  BY DEF SpendDisk
<1> HIDE DEF D
<1>3. diskLeft' \in [D -> Nat]
  <2>1. CASE b \in D
    BY <1>1, <1>2, <2>1
  <2>2. CASE b \notin D
    BY <1>1, <1>2, <2>2
  <2> QED BY <2>1, <2>2
<1> QED BY <1>3 DEF D

\* The steps of a page that has nothing but its subscriptions, and a release between pages.
LEMMA QuietSteps ==
  ASSUME DiskIInv,
         ReadSubs \/ CheckVersion \/ HandlerThrows \/ HandlerReturns \/ HandlerReads \/ RecordVersion \/ Release
  PROVE  DiskIInv'
<1>0. DiskShape /\ QuietIsEmpty /\ ShapesHold
  BY DEF DiskIInv
<1>1. CASE ReadSubs
  BY <1>0, <1>1, QuietKeeps DEF ReadSubs, DiskShape, Handling
<1>2. CASE CheckVersion
  <2>1. diskLeft' \in [DOMAIN DiskBound[handler] -> Nat] /\ stored' = stored /\ release' = release
    BY <1>0, <1>2 DEF CheckVersion, Checking, DiskShape
  <2>2. ~Handling /\ ~Handling' /\ tab' \in {"record", "hydrate", "call"} /\ synced' = synced
    BY <1>2 DEF CheckVersion, Checking, Handling, memory
  <2>3. UNCHANGED <<remote, network, held, watermark, inited, queues, handler, told>>
    BY <1>2 DEF CheckVersion, Checking, memory
  <2>4. (tab' = "record" => stored.version = 0) /\ (tab' = "hydrate" => stored.version = release)
    BY <1>2 DEF CheckVersion, Checking
  <2> QED BY <2>1, <2>2, <2>3, <2>4, QuietKeeps
<1>3. CASE HandlerThrows
  <2>1. diskLeft' \in [DOMAIN DiskBound[handler] -> Nat] /\ stored' = stored /\ release' = release
    BY <1>3, <1>0, SpendKeeps DEF HandlerThrows, Checking
  <2>2. ~Handling /\ ~Handling' /\ tab' = "failed" /\ synced' = synced
    BY <1>3 DEF HandlerThrows, Checking, Handling, memory
  <2>3. UNCHANGED <<remote, network, held, watermark, inited, queues, handler, told>>
    BY <1>3 DEF HandlerThrows, Checking, memory
  <2> QED BY <2>1, <2>2, <2>3, QuietKeeps
<1>4. CASE HandlerReturns
  BY <1>0, <1>4, QuietKeeps DEF HandlerReturns, Checking, DiskShape, Handling, memory, BlankDisk
<1>5. CASE HandlerReads
  BY <1>0, <1>5, QuietKeeps DEF HandlerReads, Checking, DiskShape, Handling, memory
<1>6. CASE RecordVersion
  BY <1>0, <1>6, QuietKeeps DEF RecordVersion, Checking, DiskShape, Handling, memory
<1>7. CASE Release
  <2>1. diskLeft' \in [DOMAIN DiskBound[handler] -> Nat] /\ stored' = stored /\ release' = release + 1
    BY <1>7, <1>0, SpendKeeps DEF Release
  <2>2. ~Handling /\ ~Handling' /\ tab' = "off" /\ synced' = synced
    BY <1>7 DEF Release, Handling, memory
  <2>3. UNCHANGED <<remote, network, held, watermark, inited, queues, handler, told>>
    BY <1>7 DEF Release, memory
  <2> QED BY <2>1, <2>2, <2>3, QuietKeeps
<1> QED BY <1>1, <1>2, <1>3, <1>4, <1>5, <1>6, <1>7

\* The disk is read.
LEMMA HydrateKeeps ==
  ASSUME DiskIInv, HydrateDisk
  PROVE  DiskIInv'
<1>0. DiskShape /\ QuietIsEmpty /\ NothingIsAhead /\ LateIsExcused /\ ErasHold /\ ShapesHold /\ DiskFollows
  BY DEF DiskIInv
<1>1. tab = "hydrate" /\ tab' = "up" /\ ~Handling /\ Handling'
  BY DEF HydrateDisk, Handling
<1>2. /\ frames = <<>> /\ notes = <<>> /\ writes = <<>> /\ orphans = <<>> /\ asked = {} /\ ~linked /\ watermark = 0
      /\ held = NoRows /\ ~inited
  BY <1>0, <1>1 DEF QuietIsEmpty, DiskShape
<1>3. /\ truth' = truth /\ serverNow' = serverNow /\ linked' = linked /\ asked' = asked /\ frames' = frames
      /\ writes' = writes /\ orphans' = orphans /\ synced' = synced /\ release' = release /\ stored' = stored
      /\ waits' = waits /\ notes' = notes /\ handler' = handler /\ era' = era /\ lastCleared' = lastCleared
      /\ forgot' = forgot /\ holes' = holes /\ renewed' = renewed /\ diskLeft' = diskLeft /\ inited' = TRUE
      /\ watermark' \in {stored.since, 0}
  BY <1>2 DEF HydrateDisk, Hydrated, remote, network, queues, told
<1>4. NoRows \in [DiskTables -> DiskRow] /\ \A t \in DiskTables : NoRows[t] = Absent /\ Absent.clock = 0
  BY DEF NoRows, Absent, DiskRow
<1>5. /\ \A t \in DiskTables : held'[t] \in {stored.rows[t], Absent}
      /\ \A t \in synced : stored.rows[t] # Absent => held'[t] = stored.rows[t]
      /\ \A t \in DiskTables : stored.rows[t] = Absent => held'[t] = Absent
      /\ held' \in [DiskTables -> DiskRow]
  BY <1>2, <1>0, <1>4 DEF HydrateDisk, Hydrated, DiskShape
<1>6. DiskShape'
  <2>1. watermark' \in Nat /\ inited' \in BOOLEAN
    BY <1>0, <1>3 DEF DiskShape
  <2> QED BY <1>0, <1>1, <1>3, <1>5, <2>1 DEF DiskShape
<1>7. SinceNotes' = {} /\ Marks' \subseteq {0, stored.since} /\ stored.since \in Marks /\ \A n \in Marks' : n <= serverNow
  BY <1>0, <1>2, <1>3 DEF DiskShape, NothingIsAhead, Marks, SinceNotes
<1>8. NothingIsAhead'
  <2>1. \A t \in DiskTables : held'[t].clock <= truth[t]
    BY <1>0, <1>4, <1>5 DEF DiskShape, NothingIsAhead
  <2> QED BY <1>0, <1>3, <1>7, <2>1 DEF NothingIsAhead
<1>9. QuietIsEmpty' /\ OneWipe' /\ LateIsExcused'
  BY <1>0, <1>1, <1>2, <1>3 DEF QuietIsEmpty, OneWipe, Wiping, LateIsExcused
<1>10. ErasHold'
  BY <1>0, <1>4, <1>5, <1>1, <1>2, <1>3 DEF ErasHold, Aged
<1>11. ShapesHold'
  <2>1. ASSUME handler = "clear", ~forgot PROVE \A t \in DiskTables : Shaped(held'[t], release)
    BY <1>0, <1>1, <1>4, <1>5, <2>1 DEF ShapesHold, Shaped
  <2> QED BY <1>0, <1>1, <1>2, <1>3, <2>1 DEF ShapesHold
<1>12. FramesInOrder' /\ AnswersFollow' /\ LiveIsAsked'
  BY <1>2, <1>3, NothingComes DEF FramesInOrder, AnswersFollow, LiveIsAsked
<1>13. TablesFollow'
  <2>1. Live' = synced
    BY <1>3 DEF Live
  <2> SUFFICES ASSUME NEW t \in synced \ holes
               PROVE  /\ \A n \in Marks' : truth[t] <= n => held'[t].clock = truth[t]
                      /\ WillKeep(writes', stored'.rows[t], t, held'[t].clock)
    BY <1>2, <1>3, <2>1 DEF TablesFollow
  <2>2. t \in DiskTables /\ truth[t] \in Nat \ {0}
    BY <1>0 DEF DiskShape
  <2>3. held'[t] = stored.rows[t]
    BY <1>5, <2>2
  <2>4. stored.since >= truth[t] => stored.rows[t].clock = truth[t]
    BY <1>0, <1>1, <2>2 DEF DiskFollows, DiskShape
  <2>5. ASSUME NEW n \in Marks', truth[t] <= n PROVE held'[t].clock = truth[t]
    <3>1. n = stored.since
      BY <1>7, <2>2, <2>5
    <3>2. stored.since \in Nat
      BY <1>0 DEF DiskShape
    <3> QED BY <2>2, <2>3, <2>4, <2>5, <3>1, <3>2
  <2>6. WillKeep(<<>>, stored.rows[t], t, held'[t].clock)
    BY <2>3, NothingComes
  <2> QED BY <1>2, <1>3, <2>5, <2>6
<1>14. DiskFollows'
  BY <1>1 DEF DiskFollows
<1> QED BY <1>6, <1>8, <1>9, <1>10, <1>11, <1>12, <1>13, <1>14 DEF DiskIInv

\* What else is as it was: clocks that are no longer marked, or too old to matter, and an
\* excuse that is still there.
LEMMA OrderLess ==
  ASSUME NEW fs, NEW t, NEW x, NEW ns, NEW ms, InOrder(fs, t, x, ns), \A n \in ms : n \in ns \/ ~(x <= n)
  PROVE  InOrder(fs, t, x, ms)
BY DEF InOrder

\* More may be excused.
LEMMA AnswersMore ==
  ASSUME NEW fs, NEW t, NEW x, NEW e, NEW h, AnswersAll(fs, t, x, e), e => h
  PROVE  AnswersAll(fs, t, x, h)
BY DEF AnswersAll

\* One more frame is a queue of one put at the end.
LEMMA PutOne ==
  ASSUME NEW S, NEW fs \in Seq(S), NEW g \in S
  PROVE  Append(fs, g) = fs \o <<g>> /\ <<g>> \in Seq(S) /\ Len(<<g>>) = 1 /\ <<g>>[1] = g /\ <<g>> # <<>>
<1>1. <<g>> \in Seq(S) /\ Len(<<g>>) = 1 /\ <<g>>[1] = g
  OBVIOUS
<1>2. Append(fs, g) = fs \o <<g>>
  BY AppendIsConcat
<1> QED BY <1>1, <1>2

\* What a note adds to what is noted.
LEMMA NoteAdds ==
  ASSUME notes \in Seq(NoteKinds), NEW n \in NoteKinds, Note(n)
  PROVE  /\ notes' \in Seq(NoteKinds) /\ Len(notes') = Len(notes) + 1 /\ notes'[Len(notes) + 1] = n
         /\ \A i \in 1..Len(notes) : notes'[i] = notes[i]
         /\ \A x : x \in SinceNotes' <=> x \in SinceNotes \/ (n.do = "since" /\ x = n.since)
         /\ Wiping' => Wiping \/ n = WipeNote
<1>1. /\ notes' \in Seq(NoteKinds) /\ Len(notes') = Len(notes) + 1 /\ notes'[Len(notes) + 1] = n
      /\ \A i \in 1..Len(notes) : notes'[i] = notes[i]
      /\ DOMAIN notes = 1..Len(notes) /\ DOMAIN notes' = 1..Len(notes)+1 /\ Len(notes) \in Nat
  BY DEF Note
<1>2. ASSUME NEW x PROVE x \in SinceNotes' <=> x \in SinceNotes \/ (n.do = "since" /\ x = n.since)
  <2>1. ASSUME x \in SinceNotes' PROVE x \in SinceNotes \/ (n.do = "since" /\ x = n.since)
    <3>1. PICK i \in 1..Len(notes)+1 : notes'[i].do = "since" /\ x = notes'[i].since
      BY <1>1, <2>1 DEF SinceNotes
    <3>2. CASE i = Len(notes) + 1
      BY <1>1, <3>1, <3>2
    <3>3. CASE i \in 1..Len(notes)
      BY <1>1, <3>1, <3>3 DEF SinceNotes
    <3> QED BY <1>1, <3>2, <3>3
  <2>2. ASSUME x \in SinceNotes PROVE x \in SinceNotes'
    <3>1. PICK i \in 1..Len(notes) : notes[i].do = "since" /\ x = notes[i].since
      BY <1>1, <2>2 DEF SinceNotes
    <3>2. notes'[i].do = "since" /\ x = notes'[i].since /\ i \in DOMAIN notes'
      BY <1>1, <3>1
    <3> QED BY <3>2 DEF SinceNotes
  <2>3. ASSUME n.do = "since", x = n.since PROVE x \in SinceNotes'
    BY <1>1, <2>3 DEF SinceNotes
  <2> QED BY <2>1, <2>2, <2>3
<1>3. ASSUME Wiping' PROVE Wiping \/ n = WipeNote
  <2>1. PICK i \in DOMAIN notes' : notes'[i] = WipeNote
    BY <1>3 DEF Wiping, WipeNote
  <2> QED BY <1>1, <2>1 DEF Wiping
<1> QED BY <1>1, <1>2, <1>3

\* A page that has something on its way or to be written handles frames.
LEMMA BusyHandles ==
  ASSUME DiskIInv, linked \/ writes # <<>> \/ orphans # <<>> \/ notes # <<>> \/ inited
  PROVE  Handling
BY DEF DiskIInv, QuietIsEmpty

\* A lost connection takes what is on its way, and what was asked for, with it.
LEMMA LinkLostKeeps ==
  ASSUME DiskIInv, LinkLost
  PROVE  DiskIInv'
<1>0. DiskShape /\ QuietIsEmpty /\ NothingIsAhead /\ LateIsExcused /\ ErasHold /\ ShapesHold /\ DiskFollows /\ OneWipe
      /\ TablesFollow
  BY DEF DiskIInv
<1>1. Handling /\ Handling' /\ tab' = tab
  BY BusyHandles DEF LinkLost, Handling
<1>2. /\ truth' = truth /\ serverNow' = serverNow /\ linked' = FALSE /\ asked' = {} /\ frames' = <<>>
      /\ writes' = writes /\ orphans' = orphans /\ synced' = synced /\ release' = release /\ stored' = stored
      /\ waits' = waits /\ notes' = notes /\ handler' = handler /\ era' = era /\ lastCleared' = lastCleared
      /\ forgot' = forgot /\ holes' = holes /\ renewed' = {} /\ diskLeft' = diskLeft /\ inited' = inited
      /\ watermark' = watermark /\ held' = held
  BY DEF LinkLost, remote, memory, queues
<1>3. DiskShape'
  <2>1. frames' \in Seq(FrameKinds) /\ asked' \in SUBSET DiskTables /\ renewed' \in SUBSET DiskTables
    BY <1>2
  <2>2. linked' \in BOOLEAN
    BY <1>2
  <2> QED BY <1>0, <1>1, <1>2, <2>1, <2>2 DEF DiskShape
<1>4. SinceNotes' = SinceNotes /\ Marks' = Marks /\ Live' = Live
  BY <1>1, <1>2 DEF Marks, SinceNotes, Live
<1>5. NothingIsAhead'
  BY <1>2, <1>0, <1>4 DEF NothingIsAhead
<1>6. QuietIsEmpty' /\ OneWipe' /\ LateIsExcused' /\ ErasHold' /\ ShapesHold'
  BY <1>2, <1>0, <1>1 DEF Wiping, QuietIsEmpty, OneWipe, LateIsExcused, ErasHold, ShapesHold
<1>7. FramesInOrder' /\ AnswersFollow' /\ LiveIsAsked'
  BY <1>2, NothingComes DEF FramesInOrder, AnswersFollow, LiveIsAsked
<1>8. TablesFollow'
  BY <1>0, <1>1, <1>2, <1>4 DEF TablesFollow
<1>9. DiskFollows'
  BY <1>0, <1>1, <1>2, <1>4 DEF DiskFollows
<1> QED BY <1>3, <1>5, <1>6, <1>7, <1>8, <1>9 DEF DiskIInv

\* The tables the chain writes.
WriteTables == {writes[i].t : i \in DOMAIN writes}

\* The disk is read again, by a page that was cleared.
LEMMA InitAgainKeeps ==
  ASSUME DiskIInv, InitAgain
  PROVE  DiskIInv'
<1>0. DiskShape /\ QuietIsEmpty /\ NothingIsAhead /\ LateIsExcused /\ ErasHold /\ ShapesHold /\ OneWipe
      /\ TablesFollow /\ LiveIsAsked /\ AnswersFollow /\ FramesInOrder
  BY DEF DiskIInv
<1>1. tab = "up" /\ tab' = "up" /\ Handling /\ Handling' /\ ~inited /\ notes = <<>>
  BY DEF InitAgain, Handling
<1>2. /\ truth' = truth /\ serverNow' = serverNow /\ linked' = linked /\ asked' = asked /\ frames' = frames
      /\ writes' = writes /\ orphans' = orphans /\ synced' = synced \cup stored.subs /\ release' = release /\ stored' = stored
      /\ waits' = waits /\ notes' = notes /\ handler' = handler /\ era' = era /\ lastCleared' = lastCleared
      /\ forgot' = forgot /\ renewed' = renewed /\ diskLeft' = diskLeft /\ inited' = TRUE
      /\ watermark' \in {stored.since, watermark}
      /\ holes' = holes \cup {writes[i].t : i \in DOMAIN writes}
  BY DEF InitAgain, Hydrated, remote, network, queues
<1>3. /\ \A t \in DiskTables : held'[t] \in {stored.rows[t], held[t]}
      /\ \A t \in DiskTables : stored.rows[t] = Absent => held'[t] = held[t]
      /\ held' \in [DiskTables -> DiskRow]
  BY <1>0 DEF InitAgain, Hydrated, DiskShape
<1>4. \A t \in DiskTables : t \in WriteTables <=> \E i \in 1..Len(writes) : writes[i].t = t
  BY <1>0 DEF DiskShape, WriteTables
<1>5. DiskShape'
  <2>1. watermark' \in Nat
    BY <1>0, <1>2 DEF DiskShape
  <2>2. inited' \in BOOLEAN
    BY <1>2
  <2>3. holes' \in SUBSET DiskTables /\ synced' \in SUBSET DiskTables
    <3>1. \A i \in DOMAIN writes : writes[i].t \in DiskTables
      <4>1. \A i \in DOMAIN writes : writes[i] \in Puttings
        BY <1>0 DEF DiskShape
      <4> QED BY <4>1 DEF Puttings
    <3>2. stored.subs \in SUBSET DiskTables /\ synced \in SUBSET DiskTables /\ holes \in SUBSET DiskTables
      BY <1>0 DEF DiskShape
    <3> QED BY <1>2, <3>1, <3>2
  <2> QED BY <1>0, <1>1, <1>2, <1>3, <2>1, <2>2, <2>3 DEF DiskShape
<1>6. SinceNotes' = SinceNotes /\ Marks' \subseteq Marks /\ stored.since \in Marks /\ Wiping' = Wiping
  BY <1>2 DEF Marks, SinceNotes, Wiping
<1>7. NothingIsAhead'
  BY <1>0, <1>2, <1>3, <1>6 DEF NothingIsAhead
<1>8. QuietIsEmpty' /\ OneWipe' /\ LateIsExcused'
  BY <1>2, <1>5, <1>0, <1>1, <1>6 DEF DiskShape, QuietIsEmpty, OneWipe, LateIsExcused
<1>9. ErasHold'
  BY <1>0, <1>3, <1>1, <1>2 DEF ErasHold
<1>10. ShapesHold'
  <2>1. ASSUME handler = "clear", ~forgot PROVE \A t \in DiskTables : Shaped(held'[t], release)
    BY <1>0, <1>1, <2>1, <1>3 DEF ShapesHold
  <2> QED BY <1>0, <1>1, <1>2, <2>1 DEF ShapesHold
<1>11. Live' = synced' /\ synced' \subseteq Live
  <2>1. \A t : t \in stored.subs => WillSay(notes, stored.subs, t)
    BY <1>1 DEF WillSay
  <2>2. stored.subs \subseteq DiskTables
    BY <1>0 DEF DiskShape
  <2> QED BY <1>1, <1>2, <2>1, <2>2 DEF Live
<1>12. FramesInOrder' /\ LiveIsAsked'
  <2>1. FramesInOrder'
    <3> SUFFICES ASSUME NEW t \in DiskTables PROVE InOrder(frames, t, truth[t], Marks')
      BY <1>2 DEF FramesInOrder
    <3>1. InOrder(frames, t, truth[t], Marks)
      BY <1>0 DEF FramesInOrder
    <3> QED BY <1>6, <3>1, OrderLess
  <2> QED BY <1>0, <1>2, <1>11, <2>1 DEF LiveIsAsked
<1>13. AnswersFollow'
  <2> SUFFICES ASSUME NEW t \in asked PROVE AnswersAll(frames, t, truth[t], t \in holes' \cap renewed)
    BY <1>2 DEF AnswersFollow
  <2>1. AnswersAll(frames, t, truth[t], t \in holes \cap renewed)
    BY <1>0 DEF AnswersFollow
  <2>2. t \in holes \cap renewed => t \in holes' \cap renewed
    BY <1>2
  <2> QED BY <2>1, <2>2 DEF AnswersAll
<1>14. TablesFollow'
  <2> SUFFICES ASSUME NEW t \in synced' \ holes'
               PROVE  /\ linked => Follows(frames, t, 0, held'[t].clock, truth[t])
                      /\ \A n \in Marks' : truth[t] <= n => held'[t].clock = truth[t]
                      /\ WillKeep(writes, stored.rows[t], t, held'[t].clock)
    BY <1>2, <1>11 DEF TablesFollow
  <2>1. t \in Live \ holes /\ t \in DiskTables /\ t \notin WriteTables
    BY <1>2, <1>5, <1>11 DEF WriteTables, DiskShape
  <2>2. /\ linked => Follows(frames, t, 0, held[t].clock, truth[t])
        /\ \A n \in Marks : truth[t] <= n => held[t].clock = truth[t]
        /\ WillKeep(writes, stored.rows[t], t, held[t].clock)
    BY <1>0, <1>1, <2>1 DEF TablesFollow
  <2>3. stored.rows[t].clock = held[t].clock
    <3>1. \A j \in 1..Len(writes) : writes[j].t # t
      BY <1>4, <2>1
    <3>2. writes \in Seq(Puttings)
      BY <1>0 DEF DiskShape
    <3> QED BY <2>2, <3>1, <3>2, KeptIsThere
  <2>4. held'[t].clock = held[t].clock
    BY <1>3, <2>1, <2>3
  <2> QED BY <1>6, <2>2, <2>4
<1>15. DiskFollows'
  BY <1>1 DEF DiskFollows, Handling
<1> QED BY <1>5, <1>7, <1>8, <1>9, <1>10, <1>12, <1>13, <1>14, <1>15 DEF DiskIInv

\* What the server sends of tables and of the clock, when asked.
LEMMA SentFrames ==
  ASSUME DiskShape, NEW us \in SUBSET DiskTables
  PROVE  /\ Bootstrapped(us) \in Seq(FrameKinds) /\ Len(Bootstrapped(us)) = 2 /\ Bootstrapped(us) # <<>>
         /\ Bootstrapped(us)[1].whole /\ Bootstrapped(us)[1].f = "rows"
         /\ Bootstrapped(us)[2].f = "complete" /\ Bootstrapped(us)[2].now = serverNow
         /\ \A t : Tells(Bootstrapped(us)[1], t) <=> t \in us
         /\ \A t : \A k \in 1..2 : Tells(Bootstrapped(us)[k], t) => k = 1 /\ Bootstrapped(us)[k].at[t] = truth[t]
<1> DEFINE at == [t \in us |-> truth[t]]
           gs == Bootstrapped(us)
           a == gs[1]
           b == gs[2]
<1>1. at \in [us -> Nat] /\ DOMAIN at = us /\ \A t \in us : at[t] = truth[t]
  BY DEF DiskShape
<1>2. a = [f |-> "rows", at |-> at, whole |-> TRUE] /\ b = [f |-> "complete", now |-> serverNow]
  BY DEF RowsFrame, CompleteFrame, Bootstrapped
<1>11. Len(gs) = 2 /\ gs # <<>> /\ a = gs[1] /\ b = gs[2]
  BY DEF Bootstrapped
<1>12. gs = <<a, b>>
  BY DEF Bootstrapped
<1> HIDE DEF at, a, b, gs
<1>3. a \in FrameKinds
  BY <1>1, <1>2 DEF FrameKinds
<1>4. b \in FrameKinds
  BY <1>2 DEF FrameKinds, DiskShape
<1>5. gs \in Seq(FrameKinds)
  BY <1>3, <1>4, <1>12
<1>6. \A t : Tells(a, t) <=> t \in us
  BY <1>1, <1>2 DEF Tells
<1>7. \A t : ~Tells(b, t)
  BY <1>2 DEF Tells
<1>8. \A t : Tells(a, t) => a.at[t] = truth[t]
  BY <1>1, <1>2, <1>6
<1>9. ASSUME NEW t, NEW k \in 1..2, Tells(gs[k], t) PROVE k = 1 /\ gs[k].at[t] = truth[t]
  <2>1. CASE k = 1
    BY <1>11, <1>8, <1>9, <2>1
  <2>2. CASE k = 2
    BY <1>11, <1>7, <1>9, <2>2
  <2> QED BY <2>1, <2>2
<1>10. gs[1].whole /\ gs[1].f = "rows" /\ gs[2].f = "complete" /\ gs[2].now = serverNow
  BY <1>2, <1>11
<1> QED BY <1>11, <1>5, <1>6, <1>9, <1>10 DEF gs

\* What is told on a frame is a clock of a table.
LEMMA FrameTells ==
  ASSUME NEW fs \in Seq(FrameKinds), NEW k \in 1..Len(fs), NEW t, Tells(fs[k], t)
  PROVE  /\ t \in DiskTables /\ fs[k].at[t] \in Nat
         /\ fs[k].at \in UNION {[ts -> Nat] : ts \in SUBSET DiskTables} /\ fs[k].whole \in BOOLEAN
<1>1. fs[k] \in FrameKinds /\ fs[k].f = "rows" /\ t \in DOMAIN fs[k].at
  BY DEF Tells
<1>2. fs[k].at \in UNION {[ts -> Nat] : ts \in SUBSET DiskTables} /\ fs[k].whole \in BOOLEAN
  BY <1>1 DEF FrameKinds
<1>3. PICK ts \in SUBSET DiskTables : fs[k].at \in [ts -> Nat]
  BY <1>2
<1>4. t \in ts /\ fs[k].at[t] \in Nat
  BY <1>1, <1>3
<1> QED BY <1>2, <1>4

\* A connection: what is not yet held is sent.
LEMMA ConnectKeeps ==
  ASSUME DiskIInv, Connect
  PROVE  DiskIInv'
<1>0. DiskShape /\ QuietIsEmpty /\ NothingIsAhead /\ LateIsExcused /\ ErasHold /\ ShapesHold /\ OneWipe
      /\ TablesFollow /\ LiveIsAsked /\ AnswersFollow /\ FramesInOrder
  BY DEF DiskIInv
<1>1. tab = "up" /\ tab' = "up" /\ Handling /\ Handling' /\ inited /\ ~linked /\ frames = <<>>
  BY <1>0 DEF Connect, Handling, DiskShape
<1>2. /\ truth' = truth /\ serverNow' = serverNow /\ linked' = TRUE /\ asked' = synced /\ held' = held
      /\ writes' = writes /\ orphans' = orphans /\ synced' = synced /\ release' = release /\ stored' = stored
      /\ waits' = waits /\ notes' = notes /\ handler' = handler /\ era' = era /\ lastCleared' = lastCleared
      /\ forgot' = forgot /\ renewed' = renewed /\ inited' = inited /\ watermark' = watermark /\ holes' = holes
  BY DEF Connect, Declared, remote, memory, queues, told
<1>3. PICK us \in SUBSET DiskTables :
         /\ frames' = Bootstrapped(us)
         /\ us \subseteq synced /\ \A t \in synced \ us : truth[t] <= watermark
  <2>1. synced \in SUBSET DiskTables /\ \A t \in synced : truth[t] \in Nat /\ watermark \in Nat
    BY <1>0 DEF DiskShape
  <2>2. CASE frames' = Bootstrapped(synced)
    BY <2>1, <2>2
  <2>3. CASE frames' = Resumed(synced)
    <3> DEFINE new == {t \in synced : truth[t] > watermark}
    <3>1. frames' = Bootstrapped(IF new = {} THEN synced ELSE new)
      BY <2>3 DEF Resumed, Changed, Bootstrapped
    <3>2. \A t \in synced \ new : truth[t] <= watermark
      BY <2>1
    <3>3. new \in SUBSET DiskTables /\ new \subseteq synced
      BY <2>1
    <3> HIDE DEF new
    <3> QED BY <2>1, <3>1, <3>2, <3>3
  <2> QED BY <2>2, <2>3 DEF Connect
<1> DEFINE gs == frames'
<1>4. /\ gs \in Seq(FrameKinds) /\ Len(gs) = 2 /\ gs # <<>> /\ gs[2].now = serverNow /\ gs[1].f = "rows"
      /\ \A t : Tells(gs[1], t) <=> t \in us
      /\ \A t : \A k \in 1..2 : Tells(gs[k], t) => k = 1 /\ gs[k].at[t] = truth[t]
  <2>1. gs = Bootstrapped(us)
    BY <1>3
  <2>2. DiskShape /\ us \in SUBSET DiskTables
    BY <1>0
  <2> DEFINE b == Bootstrapped(us)
  <2>3. /\ b \in Seq(FrameKinds) /\ Len(b) = 2 /\ b # <<>> /\ b[2].now = serverNow /\ b[1].f = "rows"
        /\ \A t : Tells(b[1], t) <=> t \in us
        /\ \A t : \A k \in 1..2 : Tells(b[k], t) => k = 1 /\ b[k].at[t] = truth[t]
    BY <2>2, SentFrames
  <2> HIDE DEF b
  <2>4. frames' = b
    BY <2>1 DEF b
  <2> QED BY <2>3, <2>4
<1>5. SinceNotes' = SinceNotes /\ Marks' = Marks /\ Wiping' = Wiping /\ Live' = Live /\ Live = synced
  BY <1>1, <1>2 DEF Marks, SinceNotes, Wiping, Live
<1>6. DiskShape'
  <2>1. diskLeft' \in [DOMAIN DiskBound[handler] -> Nat]
    BY <1>0, SpendKeeps DEF Connect
  <2>2. linked' \in BOOLEAN
    BY <1>2
  <2> QED BY <1>0, <1>1, <1>2, <1>4, <2>1, <2>2 DEF DiskShape
<1>7. NothingIsAhead'
  <2>1. \A i \in 1..Len(gs) : gs[i].f = "complete" => gs[i].now <= serverNow
    BY <1>0, <1>4 DEF DiskShape
  <2> QED BY <1>0, <1>2, <1>5, <2>1 DEF NothingIsAhead
<1>8. QuietIsEmpty' /\ OneWipe' /\ LateIsExcused' /\ ErasHold' /\ ShapesHold'
  BY <1>0, <1>1, <1>2, <1>5 DEF QuietIsEmpty, OneWipe, LateIsExcused, ErasHold, ShapesHold
<1>9. LiveIsAsked'
  BY <1>2, <1>5 DEF LiveIsAsked
<1>10. FramesInOrder'
  <2> SUFFICES ASSUME NEW t \in DiskTables PROVE InOrder(gs, t, truth[t], Marks')
    BY <1>2 DEF FramesInOrder
  <2>1. truth[t] \in Nat
    BY <1>0 DEF DiskShape
  <2> QED BY <1>4, <2>1 DEF InOrder
<1>11. AnswersFollow'
  <2> SUFFICES ASSUME NEW t \in synced, NEW j \in 1..2, Tells(gs[j], t)
               PROVE  Follows(gs, t, j, gs[j].at[t], truth[t])
    BY <1>2, <1>4 DEF AnswersFollow, AnswersAll
  <2>1. truth[t] \in Nat /\ j = 1 /\ gs[j].at[t] = truth[t] /\ 1 \in 0..Len(gs)
    BY <1>0, <1>4 DEF DiskShape
  <2>2. \A k \in 1+1..Len(gs) : Tells(gs[k], t) => gs[k].at[t] = truth[t]
    BY <1>4
  <2>3. Follows(gs, t, 1, truth[t], truth[t])
    BY <1>4, <2>1, <2>2, FollowsLast
  <2> QED BY <2>1, <2>3
<1>12. TablesFollow'
  <2> SUFFICES ASSUME NEW t \in synced \ holes
               PROVE  /\ Follows(gs, t, 0, held[t].clock, truth[t])
                      /\ \A n \in Marks : truth[t] <= n => held[t].clock = truth[t]
                      /\ WillKeep(writes, stored.rows[t], t, held[t].clock)
    BY <1>2, <1>5 DEF TablesFollow
  <2>1. /\ \A n \in Marks : truth[t] <= n => held[t].clock = truth[t]
        /\ WillKeep(writes, stored.rows[t], t, held[t].clock)
    BY <1>0, <1>1, <1>5 DEF TablesFollow
  <2> DEFINE v == held[t].clock
  <2>2. t \in DiskTables /\ truth[t] \in Nat /\ v \in Nat /\ v <= truth[t]
    BY <1>0 DEF DiskShape, NothingIsAhead, DiskRow
  <2>3. \A k \in 0+1..Len(gs) : Tells(gs[k], t) => gs[k].at[t] = truth[t]
    BY <1>4
  <2>4. CASE t \notin us
    BY <1>3, <2>1, <2>4, <1>4, <2>2, <2>3, FollowsLast DEF Marks
  <2>5. CASE t \in us
    <3> DEFINE e == <<>>
    <3>1. e \in Seq(FrameKinds) /\ Len(e) = 0 /\ 0 \in 0..Len(e)
      OBVIOUS
    <3>2. \A k \in 0+1..Len(e) : Tells(e[k], t) => e[k].at[t] = v
      BY <3>1
    <3> HIDE DEF e, v, gs
    <3>3. Follows(e, t, 0, v, v)
      BY <2>2, <3>1, <3>2, FollowsLast
    <3>4. /\ \A i \in 1..Len(e) : e[i].f = "complete" /\ truth[t] <= e[i].now => truth[t] = v
          /\ Tells(gs[1], t) /\ \A k \in 1..Len(gs) : Tells(gs[k], t) => gs[k].at[t] = truth[t]
      BY <1>4, <2>3, <2>5, <3>1
    <3>5. Follows(e \o gs, t, 0, v, truth[t])
      BY <1>4, <2>2, <3>1, <3>3, <3>4, FollowsEnds
    <3>6. e \o gs = gs
      BY <1>4, ConcatEmptySeq DEF e
    <3> QED BY <2>1, <3>5, <3>6 DEF v
  <2> QED BY <2>4, <2>5
<1>13. DiskFollows'
  BY <1>1 DEF DiskFollows, Handling
<1> QED BY <1>6, <1>7, <1>8, <1>9, <1>10, <1>11, <1>12, <1>13 DEF DiskIInv

\* Marks are clocks.
LEMMA MarksAreClocks ==
  ASSUME DiskShape
  PROVE  \A n \in Marks : n \in Nat
<1>1. watermark \in Nat /\ stored.since \in Nat
  BY DEF DiskShape
<1>2. ASSUME NEW n \in SinceNotes PROVE n \in Nat
  <2>1. PICK i \in DOMAIN notes : notes[i].do = "since" /\ n = notes[i].since
    BY <1>2 DEF SinceNotes
  <2>2. notes[i] \in NoteKinds
    BY DEF DiskShape
  <2> QED BY <2>1, <2>2 DEF NoteKinds, WipeNote
<1> QED BY <1>1, <1>2 DEF Marks

\* What the server sends of a write.
LEMMA DeltaFrame ==
  ASSUME DiskShape, NEW t \in DiskTables
  PROVE  /\ Delta(t) \in FrameKinds /\ Delta(t).f = "rows" /\ Delta(t).at[t] = serverNow + 1
         /\ \A u : Tells(Delta(t), u) <=> u = t
<1> DEFINE at == [u \in {t} |-> serverNow + 1]
           d == Delta(t)
<1>1. at \in [{t} -> Nat] /\ DOMAIN at = {t} /\ at[t] = serverNow + 1
  BY DEF DiskShape
<1>2. d = [f |-> "rows", at |-> at, whole |-> FALSE]
  BY DEF Delta
<1> HIDE DEF at, d
<1>3. d \in FrameKinds
  BY <1>1, <1>2 DEF FrameKinds
<1>4. d.f = "rows" /\ d.at = at
  BY <1>2
<1>5. \A u : Tells(d, u) <=> u = t
  BY <1>1, <1>4 DEF Tells
<1> QED BY <1>1, <1>3, <1>4, <1>5 DEF d

\* The server writes: its clock is newer than all that was said before.
LEMMA ServerWritesKeeps ==
  ASSUME DiskIInv, NEW t \in DiskTables, ServerWrites(t)
  PROVE  DiskIInv'
<1>0. DiskShape /\ QuietIsEmpty /\ NothingIsAhead /\ LateIsExcused /\ ErasHold /\ ShapesHold /\ OneWipe
      /\ TablesFollow /\ LiveIsAsked /\ AnswersFollow /\ FramesInOrder /\ DiskFollows
  BY DEF DiskIInv
<1>1. /\ truth' = [truth EXCEPT ![t] = serverNow + 1] /\ serverNow' = serverNow + 1
      /\ linked' = linked /\ asked' = asked /\ held' = held /\ tab' = tab
      /\ writes' = writes /\ orphans' = orphans /\ synced' = synced /\ release' = release /\ stored' = stored
      /\ waits' = waits /\ notes' = notes /\ handler' = handler /\ era' = era /\ lastCleared' = lastCleared
      /\ forgot' = forgot /\ renewed' = renewed /\ inited' = inited /\ watermark' = watermark /\ holes' = holes
      /\ Handling' = Handling
  BY DEF ServerWrites, memory, queues, told, Handling
<1> DEFINE gs == IF t \in asked THEN <<Delta(t)>> ELSE <<>>
<1>2. frames' = frames \o gs /\ gs \in Seq(FrameKinds) /\ frames \in Seq(FrameKinds)
  <2>0. frames \in Seq(FrameKinds)
    BY <1>0 DEF DiskShape
  <2> DEFINE d == Delta(t)
  <2>1. d \in FrameKinds
    BY <1>0, DeltaFrame
  <2>2. CASE t \in asked
    <3>1. frames' = Append(frames, d) /\ gs = <<d>>
      BY <2>2 DEF ServerWrites
    <3> HIDE DEF d, gs
    <3>2. Append(frames, d) = frames \o <<d>> /\ <<d>> \in Seq(FrameKinds)
      BY <2>0, <2>1, PutOne
    <3> QED BY <2>0, <3>1, <3>2
  <2>3. CASE t \notin asked
    <3>1. frames' = frames /\ gs = <<>>
      BY <2>3 DEF ServerWrites
    <3> HIDE DEF d, gs
    <3>2. frames \o <<>> = frames
      BY <2>0, ConcatEmptySeq
    <3> QED BY <2>0, <3>1, <3>2
  <2> QED BY <2>2, <2>3
<1>3. /\ t \in asked => gs # <<>> /\ Tells(gs[1], t)
      /\ \A u : \A k \in 1..Len(gs) : Tells(gs[k], u) => u = t /\ gs[k].at[u] = serverNow + 1
      /\ \A k \in 1..Len(gs) : gs[k].f # "complete"
  <2> DEFINE d == Delta(t)
  <2>1. d.f = "rows" /\ d.at[t] = serverNow + 1 /\ \A u : Tells(d, u) <=> u = t
    BY <1>0, DeltaFrame
  <2> HIDE DEF d
  <2>2. CASE t \in asked
    <3>1. gs = <<d>>
      BY <2>2 DEF d
    <3> HIDE DEF gs
    <3>2. Len(gs) = 1 /\ gs[1] = d /\ gs # <<>>
      BY <3>1
    <3> QED BY <2>1, <3>2
  <2>3. CASE t \notin asked
    BY <2>3
  <2> QED BY <2>2, <2>3
<1> HIDE DEF gs
<1>4. /\ truth' \in [DiskTables -> Nat \ {0}] /\ serverNow' \in Nat /\ truth'[t] = serverNow + 1
      /\ \A u \in DiskTables : /\ truth[u] <= truth'[u] /\ truth'[u] <= serverNow' /\ (u # t => truth'[u] = truth[u])
                               /\ truth[u] \in Nat /\ truth'[u] \in Nat
  BY <1>0, <1>1 DEF DiskShape
<1>5. SinceNotes' = SinceNotes /\ Marks' = Marks /\ Wiping' = Wiping /\ Live' = Live
  BY <1>1 DEF Marks, SinceNotes, Wiping, Live
<1>6. DiskShape'
  <2>1. diskLeft' \in [DOMAIN DiskBound[handler] -> Nat]
    BY <1>0, SpendKeeps DEF ServerWrites
  <2>2. frames' \in Seq(FrameKinds)
    BY <1>2, ConcatProperties
  <2>3. ~linked => frames' = <<>>
    <3>1. ASSUME ~linked PROVE t \notin asked
      BY <1>0, <3>1 DEF DiskShape
    <3> QED BY <1>0, <3>1 DEF DiskShape, ServerWrites
  <2> QED BY <1>0, <1>1, <1>4, <2>1, <2>2, <2>3 DEF DiskShape
<1>7. /\ Len(frames) \in Nat /\ Len(gs) \in Nat
      /\ \A i \in 1..Len(frames') : \/ i \in 1..Len(frames) /\ frames'[i] = frames[i]
                                    \/ (i - Len(frames) \in 1..Len(gs) /\ frames'[i] = gs[i - Len(frames)])
  <2> DEFINE hs == frames \o gs
  <2>1. /\ Len(frames) \in Nat /\ Len(gs) \in Nat
        /\ \A i \in 1..Len(frames) : hs[i] = frames[i]
        /\ \A i \in 1..Len(hs) : i \in 1..Len(frames) \/ (i - Len(frames) \in 1..Len(gs) /\ hs[i] = gs[i - Len(frames)])
    BY <1>2, QueueEnds
  <2> HIDE DEF hs
  <2>2. frames' = hs
    BY <1>2 DEF hs
  <2> QED BY <2>1, <2>2
<1>8. NothingIsAhead'
  <2>1. \A i \in 1..Len(frames') : frames'[i].f = "complete" => frames'[i].now <= serverNow + 1
    <3> SUFFICES ASSUME NEW i \in 1..Len(frames'), frames'[i].f = "complete" PROVE frames'[i].now <= serverNow + 1
      OBVIOUS
    <3>1. i \in 1..Len(frames) /\ frames'[i] = frames[i]
      BY <1>3, <1>7
    <3>2. frames[i] \in FrameKinds /\ frames[i].f = "complete" /\ serverNow \in Nat
      BY <1>2, <3>1 DEF DiskShape, DiskIInv
    <3>3. frames[i].now \in Nat /\ frames[i].now <= serverNow
      BY <1>0, <3>1, <3>2 DEF FrameKinds, NothingIsAhead
    <3> QED BY <3>1, <3>2, <3>3
  <2>2. \A n \in Marks : n <= serverNow + 1
    BY <1>0, MarksAreClocks DEF DiskShape, NothingIsAhead
  <2>3. \A u \in DiskTables : \A row \in {held[u], stored.rows[u]} : row.clock <= truth'[u]
    <3> SUFFICES ASSUME NEW u \in DiskTables, NEW row \in {held[u], stored.rows[u]} PROVE row.clock <= truth'[u]
      OBVIOUS
    <3>1. row.clock \in Nat /\ row.clock <= truth[u]
      BY <1>0 DEF DiskShape, NothingIsAhead, DiskRow
    <3> QED BY <1>4, <3>1
  <2>4. ASSUME NEW ws \in {writes, orphans}, NEW i \in 1..Len(ws) PROVE ws[i].row.clock <= truth'[ws[i].t]
    <3>1. ws[i] \in Puttings
      BY <1>0 DEF DiskShape
    <3>2. ws[i].t \in DiskTables /\ ws[i].row.clock \in Nat
      BY <3>1 DEF Puttings, DiskRow
    <3>3. ws[i].row.clock <= truth[ws[i].t]
      BY <1>0 DEF NothingIsAhead
    <3> QED BY <1>4, <3>2, <3>3
  <2> QED BY <1>1, <1>5, <2>1, <2>2, <2>3, <2>4 DEF NothingIsAhead
<1>9. QuietIsEmpty' /\ OneWipe' /\ LateIsExcused' /\ ErasHold' /\ ShapesHold' /\ LiveIsAsked'
  BY <1>0, <1>1, <1>5 DEF QuietIsEmpty, OneWipe, LateIsExcused, LiveIsAsked, ErasHold, ShapesHold
<1>10. /\ \A n \in Marks : ~(truth'[t] <= n)
       /\ \A i \in 1..Len(frames) : frames[i].f = "complete" => ~(truth'[t] <= frames[i].now)
  <2>1. serverNow \in Nat /\ \A n \in Marks : n \in Nat /\ n <= serverNow
    BY <1>0, MarksAreClocks DEF DiskShape, NothingIsAhead
  <2>2. \A i \in 1..Len(frames) : frames[i].f = "complete" => frames[i].now \in Nat /\ frames[i].now <= serverNow
    <3> SUFFICES ASSUME NEW i \in 1..Len(frames), frames[i].f = "complete"
                 PROVE  frames[i].now \in Nat /\ frames[i].now <= serverNow
      OBVIOUS
    <3>1. frames[i] \in FrameKinds
      BY <1>2
    <3> QED BY <1>0, <3>1 DEF FrameKinds, NothingIsAhead
  <2> QED BY <1>4, <2>1, <2>2
<1>11. \A u \in DiskTables : \A k \in 1..Len(frames) : Tells(frames[k], u) =>
         frames[k].at[u] \in Nat /\ frames[k].at[u] <= truth[u] /\ frames[k].at[u] <= truth'[u]
  <2> SUFFICES ASSUME NEW u \in DiskTables, NEW k \in 1..Len(frames), Tells(frames[k], u)
               PROVE  frames[k].at[u] \in Nat /\ frames[k].at[u] <= truth[u] /\ frames[k].at[u] <= truth'[u]
    OBVIOUS
  <2>1. frames[k].at[u] \in Nat
    BY <1>2, FrameTells
  <2>2. frames[k].at[u] <= truth[u]
    BY <1>0 DEF FramesInOrder, InOrder
  <2> QED BY <1>4, <2>1, <2>2
<1>12. FramesInOrder'
  <2> SUFFICES ASSUME NEW u \in DiskTables PROVE InOrder(frames \o gs, u, truth'[u], Marks)
    BY <1>2, <1>5 DEF FramesInOrder
  <2> DEFINE x == truth[u]
             y == truth'[u]
  <2>1. /\ x \in Nat /\ y \in Nat /\ x <= y /\ InOrder(frames, u, x, Marks)
        /\ y = x \/ ((\A n \in Marks : ~(y <= n)) /\ \A i \in 1..Len(frames) : frames[i].f = "complete" => ~(y <= frames[i].now))
        /\ \A k \in 1..Len(gs) : Tells(gs[k], u) => gs[k].at[u] = y
        /\ \A k \in 1..Len(frames) : Tells(frames[k], u) => frames[k].at[u] \in Nat
    BY <1>0, <1>4, <1>10, <1>3, <1>11 DEF FramesInOrder
  <2> HIDE DEF x, y
  <2>2. InOrder(frames \o gs, u, y, Marks)
    BY <1>2, <2>1, OrderEnds
  <2> QED BY <2>2 DEF y
<1>13. ASSUME NEW u \in asked PROVE AnswersAll(frames \o gs, u, truth'[u], u \in holes \cap renewed)
  <2> DEFINE x == truth[u]
             y == truth'[u]
             e == u \in holes \cap renewed
  <2>1. u \in DiskTables /\ x \in Nat /\ y \in Nat /\ AnswersAll(frames, u, x, e) /\ (e => e)
    BY <1>0, <1>4, <1>13 DEF AnswersFollow, DiskShape
  <2>2. CASE u = t
    <3>1. \A i \in 1..Len(frames) : frames[i].f = "complete" /\ y <= frames[i].now => y = x
      BY <1>10, <2>2
    <3>2. gs # <<>> /\ Tells(gs[1], u) /\ \A k \in 1..Len(gs) : Tells(gs[k], u) => gs[k].at[u] = y
      BY <1>3, <1>4, <1>13, <2>2
    <3>3. \A k \in 1..Len(frames) : Tells(frames[k], u) => frames[k].at[u] \in Nat /\ frames[k].at[u] <= y
      BY <1>11, <2>1
    <3> HIDE DEF x, y, e
    <3>4. AnswersAll(frames \o gs, u, y, e)
      BY <1>2, <2>1, <3>1, <3>2, <3>3, AnswersEnd
    <3> QED BY <3>4 DEF y, e
  <2>3. CASE u # t
    <3>1. \A k \in 1..Len(gs) : ~Tells(gs[k], u) /\ gs[k].f # "complete"
      <4> SUFFICES ASSUME NEW k \in 1..Len(gs) PROVE ~Tells(gs[k], u) /\ gs[k].f # "complete"
        OBVIOUS
      <4>1. Tells(gs[k], u) => u = t
        BY <1>3
      <4>2. gs[k].f # "complete"
        BY <1>3
      <4> QED BY <2>3, <4>1, <4>2
    <3>2. \A k \in 1..Len(frames) : Tells(frames[k], u) => frames[k].at[u] \in Nat
      BY <1>11, <2>1
    <3>3. y = x
      BY <1>4, <2>1, <2>3
    <3> HIDE DEF x, y, e
    <3>4. AnswersAll(frames \o gs, u, x, e)
      BY <1>2, <2>1, <3>1, <3>2, AnswersStay
    <3> QED BY <3>3, <3>4 DEF y, e
  <2> QED BY <2>2, <2>3
<1>14. AnswersFollow'
  BY <1>1, <1>2, <1>13 DEF AnswersFollow
<1>15. TablesFollow'
  <2> SUFFICES ASSUME Handling, tab # "wipe", NEW u \in Live \ holes
               PROVE  /\ linked => Follows(frames \o gs, u, 0, held[u].clock, truth'[u])
                      /\ \A n \in Marks : truth'[u] <= n => held[u].clock = truth'[u]
                      /\ WillKeep(writes, stored.rows[u], u, held[u].clock)
    BY <1>1, <1>2, <1>5 DEF TablesFollow
  <2>1. /\ linked => Follows(frames, u, 0, held[u].clock, truth[u])
        /\ \A n \in Marks : truth[u] <= n => held[u].clock = truth[u]
        /\ WillKeep(writes, stored.rows[u], u, held[u].clock)
    BY <1>0 DEF TablesFollow
  <2> DEFINE x == truth[u]
             y == truth'[u]
             v == held[u].clock
  <2>2. u \in DiskTables /\ x \in Nat /\ y \in Nat /\ v \in Nat /\ v <= y
    <3>1. u \in DiskTables /\ held[u] \in DiskRow
      BY <1>0 DEF DiskShape, Live
    <3>2. v <= truth[u] /\ v \in Nat
      BY <1>0, <3>1 DEF NothingIsAhead, DiskRow
    <3> QED BY <1>4, <3>1, <3>2
  <2>3. \A n \in Marks : y <= n => v = y
    BY <1>4, <1>10, <2>1, <2>2
  <2>4. ASSUME linked PROVE Follows(frames \o gs, u, 0, v, y)
    <3>0. u \in asked /\ Follows(frames, u, 0, v, x) /\ 0 \in 0..Len(frames)
      BY <1>0, <1>7, <2>1, <2>4 DEF LiveIsAsked
    <3>1. CASE u = t
      <4>1. \A i \in 1..Len(frames) : frames[i].f = "complete" /\ y <= frames[i].now => y = x
        BY <1>10, <3>1
      <4>2. gs # <<>> /\ Tells(gs[1], u) /\ \A k \in 1..Len(gs) : Tells(gs[k], u) => gs[k].at[u] = y
        BY <1>3, <1>4, <3>0, <3>1
      <4> HIDE DEF x, y, v
      <4> QED BY <1>2, <2>2, <3>0, <4>1, <4>2, FollowsEnds
    <3>2. CASE u # t
      <4>1. \A k \in 1..Len(gs) : ~Tells(gs[k], u) /\ gs[k].f # "complete"
        <5> SUFFICES ASSUME NEW k \in 1..Len(gs) PROVE ~Tells(gs[k], u) /\ gs[k].f # "complete"
          OBVIOUS
        <5>1. Tells(gs[k], u) => u = t
          BY <1>3
        <5>2. gs[k].f # "complete"
          BY <1>3
        <5> QED BY <3>2, <5>1, <5>2
      <4>2. y = x
        BY <1>4, <2>2, <3>2
      <4> HIDE DEF x, y, v
      <4>3. Follows(frames \o gs, u, 0, v, x)
        BY <1>2, <2>2, <3>0, <4>1, FollowsStill
      <4> QED BY <4>2, <4>3
    <3> QED BY <3>1, <3>2
  <2> QED BY <2>1, <2>3, <2>4
<1>16. DiskFollows'
  <2> SUFFICES ASSUME ~Handling \/ tab = "wipe",
                      NEW u \in (synced \cup (IF Handling THEN {} ELSE stored.subs)) \ holes,
                      NEW n \in {stored.since} \cup SinceNotes, truth'[u] <= n
               PROVE  stored.rows[u].clock = truth'[u]
    BY <1>1, <1>5 DEF DiskFollows
  <2>1. u \in DiskTables /\ n \in Marks
    BY <1>0 DEF DiskShape, Marks
  <2>2. truth'[u] = truth[u]
    BY <1>4, <1>10, <2>1
  <2> QED BY <1>0, <2>2 DEF DiskFollows
<1> QED BY <1>6, <1>8, <1>9, <1>12, <1>14, <1>15, <1>16 DEF DiskIInv

\* A change of the subscriptions is noted.
LEMMA SubsNoted ==
  ASSUME DiskShape, OneWipe, tab = "up", NEW ss \in SUBSET DiskTables, Note(SubsNote(ss))
  PROVE  /\ notes' \in Seq(NoteKinds) /\ SinceNotes' = SinceNotes /\ ~Wiping'
         /\ (watermark' = watermark /\ stored' = stored => Marks' = Marks)
         /\ \A t, s : WillSay(notes', s, t) => t \in ss
<1> DEFINE n == SubsNote(ss)
<1>1. n \in NoteKinds /\ n.do = "subs" /\ n # WipeNote /\ SubsOf(n) = ss
  BY DEF SubsNote, NoteKinds, WipeNote, SubsOf
<1>2. notes \in Seq(NoteKinds) /\ Note(n) /\ ~Wiping
  BY DEF DiskShape, OneWipe
<1> HIDE DEF n
<1>3. notes' = Append(notes, n)
  BY <1>2 DEF Note
<1>4. /\ notes' \in Seq(NoteKinds) /\ (Wiping' => Wiping \/ n = WipeNote)
      /\ \A x : x \in SinceNotes' <=> x \in SinceNotes \/ (n.do = "since" /\ x = n.since)
  BY <1>1, <1>2, NoteAdds
<1>5. SinceNotes' = SinceNotes
  BY <1>1, <1>4
<1>6. ASSUME NEW t, NEW s, WillSay(notes', s, t) PROVE t \in ss
  BY <1>3, <1>6, <1>1, <1>2, SaysLast
<1>7. ~Wiping'
  BY <1>1, <1>2, <1>4
<1>8. watermark' = watermark /\ stored' = stored => Marks' = Marks
  BY <1>5 DEF Marks
<1> QED BY <1>4, <1>5, <1>6, <1>7, <1>8

\* A table is declared: the server sends all that is asked for.
LEMMA SyncKeeps ==
  ASSUME DiskIInv, NEW t \in DiskTables, Sync(t)
  PROVE  DiskIInv'
<1>0. DiskShape /\ QuietIsEmpty /\ NothingIsAhead /\ LateIsExcused /\ ErasHold /\ ShapesHold /\ OneWipe
      /\ TablesFollow /\ LiveIsAsked /\ AnswersFollow /\ FramesInOrder /\ DiskFollows
  BY DEF DiskIInv
<1>1. /\ truth' = truth /\ serverNow' = serverNow
      /\ linked' = linked /\ held' = held /\ tab' = tab
      /\ writes' = writes /\ orphans' = orphans /\ release' = release /\ stored' = stored
      /\ waits' = waits /\ handler' = handler /\ era' = era /\ lastCleared' = lastCleared
      /\ forgot' = forgot /\ inited' = inited /\ watermark' = watermark
      /\ tab = "up" /\ Handling /\ Handling'
  BY DEF Sync, remote, Handling
<1>2. /\ synced' = synced \cup {t} /\ holes' = holes \cup {t}
      /\ asked' = IF linked THEN asked \cup {t} ELSE asked
      /\ renewed' = IF t \notin asked /\ OnItsWay(t, frames) THEN renewed \cup {t} ELSE renewed
      /\ frames' = IF linked THEN frames \o Bootstrapped(asked') ELSE frames
  BY DEF Sync
<1>3. /\ synced' \in SUBSET DiskTables /\ holes' \in SUBSET DiskTables /\ asked' \in SUBSET DiskTables
      /\ renewed' \in SUBSET DiskTables
  BY <1>0, <1>2 DEF DiskShape
<1>4. /\ notes' \in Seq(NoteKinds) /\ SinceNotes' = SinceNotes /\ ~Wiping' /\ Marks' = Marks
      /\ \A u, s : WillSay(notes', s, u) => u \in synced'
  <2> DEFINE ss == synced'
  <2>1. ss \in SUBSET DiskTables /\ Note(SubsNote(ss))
    BY <1>3 DEF Sync
  <2> HIDE DEF ss
  <2>2. /\ notes' \in Seq(NoteKinds) /\ SinceNotes' = SinceNotes /\ ~Wiping'
        /\ (watermark' = watermark /\ stored' = stored => Marks' = Marks)
        /\ \A u, s : WillSay(notes', s, u) => u \in ss
    BY <1>0, <1>1, <2>1, SubsNoted
  <2> QED BY <1>1, <2>2 DEF ss
<1>5. Live' = synced' /\ synced \subseteq Live
  BY <1>4 DEF Live
<1> DEFINE gs == IF linked THEN Bootstrapped(asked') ELSE <<>>
<1>6. /\ gs \in Seq(FrameKinds) /\ frames' = frames \o gs /\ frames \in Seq(FrameKinds)
      /\ \A u : \A k \in 1..Len(gs) : Tells(gs[k], u) => gs[k].at[u] = truth[u]
      /\ \A k \in 1..Len(gs) : gs[k].f = "complete" => gs[k].now = serverNow
      /\ linked => gs # <<>> /\ gs[1].whole /\ \A u \in asked' : Tells(gs[1], u)
  <2>0. frames \in Seq(FrameKinds)
    BY <1>0 DEF DiskShape
  <2>1. CASE linked
    <3> DEFINE us == asked'
               b == Bootstrapped(us)
    <3>1. us \in SUBSET DiskTables
      BY <1>3
    <3>2. gs = b /\ frames' = frames \o b
      BY <1>2, <2>1
    <3> HIDE DEF us
    <3>3. /\ b \in Seq(FrameKinds) /\ Len(b) = 2 /\ b # <<>> /\ b[1].whole /\ b[1].f = "rows"
          /\ b[2].f = "complete" /\ b[2].now = serverNow
          /\ \A u : Tells(b[1], u) <=> u \in us
          /\ \A u : \A k \in 1..2 : Tells(b[k], u) => k = 1 /\ b[k].at[u] = truth[u]
      BY <1>0, <3>1, SentFrames
    <3> HIDE DEF b
    <3>4. \A k \in 1..Len(b) : b[k].f = "complete" => b[k].now = serverNow
      BY <3>3
    <3> HIDE DEF gs
    <3> QED BY <2>0, <3>2, <3>3, <3>4 DEF us
  <2>2. CASE ~linked
    <3>1. gs = <<>> /\ frames' = frames /\ Len(gs) = 0
      BY <1>2, <2>2
    <3>2. frames \o <<>> = frames /\ gs \in Seq(FrameKinds)
      <4>1. frames \o <<>> = frames /\ <<>> \in Seq(FrameKinds)
        BY <2>0, ConcatEmptySeq
      <4> QED BY <3>1, <4>1
    <3> HIDE DEF gs
    <3> QED BY <2>0, <2>2, <3>1, <3>2
  <2> QED BY <2>1, <2>2
<1> HIDE DEF gs
<1>7. DiskShape'
  <2>1. diskLeft' \in [DOMAIN DiskBound[handler] -> Nat]
    BY <1>0, SpendKeeps DEF Sync
  <2>2. frames' \in Seq(FrameKinds)
    BY <1>6, ConcatProperties
  <2>3. ~linked => asked' = {} /\ frames' = <<>>
    BY <1>0, <1>2 DEF DiskShape
  <2> QED BY <1>0, <1>1, <1>3, <1>4, <2>1, <2>2, <2>3 DEF DiskShape
<1>8. NothingIsAhead'
  <2> DEFINE hs == frames \o gs
  <2>1. /\ Len(frames) \in Nat /\ Len(gs) \in Nat
        /\ \A i \in 1..Len(frames) : hs[i] = frames[i]
        /\ \A i \in 1..Len(hs) : i \in 1..Len(frames) \/ (i - Len(frames) \in 1..Len(gs) /\ hs[i] = gs[i - Len(frames)])
    BY <1>6, QueueEnds
  <2> HIDE DEF hs
  <2>2. frames' = hs
    BY <1>6 DEF hs
  <2>3. \A i \in 1..Len(frames) : frames[i].f = "complete" => frames[i].now <= serverNow
    BY <1>0 DEF NothingIsAhead
  <2>4. \A i \in 1..Len(hs) : hs[i].f = "complete" => hs[i].now <= serverNow
    <3> SUFFICES ASSUME NEW i \in 1..Len(hs), hs[i].f = "complete" PROVE hs[i].now <= serverNow
      OBVIOUS
    <3>1. CASE i \in 1..Len(frames)
      BY <2>1, <2>3, <3>1
    <3>2. CASE i - Len(frames) \in 1..Len(gs) /\ hs[i] = gs[i - Len(frames)]
      <4>1. hs[i].now = serverNow /\ serverNow \in Nat
        BY <1>0, <1>6, <3>2 DEF DiskShape
      <4> QED BY <4>1
    <3> QED BY <2>1, <3>1, <3>2
  <2> QED BY <1>0, <1>1, <1>4, <2>2, <2>4 DEF NothingIsAhead
<1>9. QuietIsEmpty' /\ OneWipe' /\ LateIsExcused' /\ ErasHold' /\ ShapesHold'
  <2>1. QuietIsEmpty'
    BY <1>1 DEF QuietIsEmpty
  <2>2. OneWipe'
    BY <1>4 DEF OneWipe, Wiping
  <2>3. LateIsExcused'
    BY <1>2, <1>3, <1>0, <1>1 DEF LateIsExcused
  <2> QED BY <1>0, <1>1, <2>1, <2>2, <2>3 DEF ErasHold, ShapesHold
<1>10. LiveIsAsked'
  BY <1>0, <1>1, <1>2, <1>5 DEF LiveIsAsked
<1>11. \A u \in DiskTables : \A k \in 1..Len(frames) : Tells(frames[k], u) =>
         frames[k].at[u] \in Nat /\ frames[k].at[u] <= truth[u]
  <2> SUFFICES ASSUME NEW u \in DiskTables, NEW k \in 1..Len(frames), Tells(frames[k], u)
               PROVE  frames[k].at[u] \in Nat /\ frames[k].at[u] <= truth[u]
    OBVIOUS
  <2>1. frames[k].at[u] \in Nat
    BY <1>6, FrameTells
  <2>2. frames[k].at[u] <= truth[u]
    BY <1>0 DEF FramesInOrder, InOrder
  <2> QED BY <2>1, <2>2
<1>12. FramesInOrder'
  <2> SUFFICES ASSUME NEW u \in DiskTables PROVE InOrder(frames \o gs, u, truth[u], Marks)
    BY <1>1, <1>4, <1>6 DEF FramesInOrder
  <2> DEFINE x == truth[u]
  <2>1. /\ x \in Nat /\ InOrder(frames, u, x, Marks) /\ x <= x
        /\ \A k \in 1..Len(gs) : Tells(gs[k], u) => gs[k].at[u] = x
        /\ \A k \in 1..Len(frames) : Tells(frames[k], u) => frames[k].at[u] \in Nat
    <3>1. x \in Nat /\ InOrder(frames, u, x, Marks)
      BY <1>0 DEF FramesInOrder, DiskShape
    <3>2. \A k \in 1..Len(gs) : Tells(gs[k], u) => gs[k].at[u] = x
      BY <1>6
    <3> QED BY <1>11, <3>1, <3>2
  <2> HIDE DEF x
  <2>2. InOrder(frames \o gs, u, x, Marks)
    BY <1>6, <2>1, OrderEnds
  <2> QED BY <2>2 DEF x
<1>13. ASSUME NEW u \in asked' PROVE AnswersAll(frames \o gs, u, truth[u], u \in holes' \cap renewed')
  <2> DEFINE x == truth[u]
             e == u \in holes \cap renewed
             h == u \in holes' \cap renewed'
  <2>1. linked /\ u \in DiskTables /\ x \in Nat /\ (e => h)
    BY <1>0, <1>2, <1>3, <1>13 DEF DiskShape
  <2>2. gs # <<>> /\ gs[1].whole /\ Tells(gs[1], u) /\ \A k \in 1..Len(gs) : Tells(gs[k], u) => gs[k].at[u] = x
    BY <1>6, <1>13, <2>1
  <2>3. \A k \in 1..Len(frames) : Tells(frames[k], u) => frames[k].at[u] \in Nat /\ frames[k].at[u] <= x
    BY <1>11, <2>1
  <2>4. \/ h /\ gs[1].whole
        \/ \A k \in 1..Len(frames) : ~Tells(frames[k], u)
        \/ AnswersAll(frames, u, x, e) /\ (e => h)
    <3>1. CASE u \in asked
      BY <1>0, <2>1, <3>1 DEF AnswersFollow
    <3>2. CASE u \notin asked
      <4>1. u = t
        BY <1>2, <1>13, <2>1, <3>2
      <4>2. CASE OnItsWay(t, frames)
        BY <1>2, <2>2, <3>2, <4>1, <4>2
      <4>3. CASE ~OnItsWay(t, frames)
        BY <1>6, <4>1, <4>3 DEF OnItsWay
      <4> QED BY <4>2, <4>3
    <3> QED BY <3>1, <3>2
  <2>5. \A i \in 1..Len(frames) : frames[i].f = "complete" /\ x <= frames[i].now => x = x
    OBVIOUS
  <2> HIDE DEF x, e, h
  <2>6. AnswersAll(frames \o gs, u, x, h)
    <3>1. /\ frames \in Seq(FrameKinds) /\ gs \in Seq(FrameKinds) /\ x \in Nat
          /\ \A i \in 1..Len(frames) : frames[i].f = "complete" /\ x <= frames[i].now => x = x
          /\ gs # <<>> /\ Tells(gs[1], u) /\ \A k \in 1..Len(gs) : Tells(gs[k], u) => gs[k].at[u] = x
          /\ \A k \in 1..Len(frames) : Tells(frames[k], u) => frames[k].at[u] \in Nat /\ frames[k].at[u] <= x
          /\ \/ h /\ gs[1].whole
             \/ \A k \in 1..Len(frames) : ~Tells(frames[k], u)
             \/ AnswersAll(frames, u, x, e) /\ (e => h)
      BY <1>6, <2>1, <2>2, <2>3, <2>4, <2>5
    <3> QED BY <3>1, AnswersEnd, Zenon
  <2> QED BY <2>6 DEF x, h
<1>14. AnswersFollow'
  BY <1>1, <1>6, <1>13 DEF AnswersFollow
<1>15. TablesFollow'
  <2> SUFFICES ASSUME NEW u \in synced' \ holes'
               PROVE  /\ linked => Follows(frames \o gs, u, 0, held[u].clock, truth[u])
                      /\ \A n \in Marks : truth[u] <= n => held[u].clock = truth[u]
                      /\ WillKeep(writes, stored.rows[u], u, held[u].clock)
    BY <1>1, <1>4, <1>5, <1>6 DEF TablesFollow
  <2>0. u \in Live \ holes /\ u # t /\ u \in DiskTables /\ u \in synced
    BY <1>2, <1>3, <1>5
  <2>1. /\ linked => Follows(frames, u, 0, held[u].clock, truth[u])
        /\ \A n \in Marks : truth[u] <= n => held[u].clock = truth[u]
        /\ WillKeep(writes, stored.rows[u], u, held[u].clock)
    BY <1>0, <1>1, <2>0 DEF TablesFollow
  <2> DEFINE x == truth[u]
             v == held[u].clock
  <2>2. x \in Nat /\ v \in Nat /\ v <= x
    BY <1>0, <2>0 DEF DiskShape, NothingIsAhead, DiskRow
  <2>3. ASSUME linked PROVE Follows(frames \o gs, u, 0, v, x)
    <3>1. Follows(frames, u, 0, v, x) /\ 0 \in 0..Len(frames) /\ u \in asked'
      BY <1>6, LenProperties, <1>0, <1>2, <2>0, <2>1, <2>3 DEF LiveIsAsked
    <3>2. /\ gs # <<>> /\ Tells(gs[1], u) /\ \A k \in 1..Len(gs) : Tells(gs[k], u) => gs[k].at[u] = x
          /\ \A i \in 1..Len(frames) : frames[i].f = "complete" /\ x <= frames[i].now => x = x
      BY <1>6, <2>3, <3>1
    <3> HIDE DEF x, v
    <3> QED BY <1>6, <2>2, <3>1, <3>2, FollowsEnds
  <2> QED BY <2>1, <2>3
<1>16. DiskFollows'
  BY <1>1 DEF DiskFollows, Handling
<1> QED BY <1>7, <1>8, <1>9, <1>10, <1>12, <1>14, <1>15, <1>16 DEF DiskIInv

\* A table is dropped: from memory at once, from the disk when the chain gets there.
LEMMA DropKeeps ==
  ASSUME DiskIInv, NEW t \in DiskTables, Unsync(t) \/ DropTable(t)
  PROVE  DiskIInv'
<1>0. DiskShape /\ QuietIsEmpty /\ NothingIsAhead /\ LateIsExcused /\ ErasHold /\ ShapesHold /\ OneWipe
      /\ TablesFollow /\ LiveIsAsked /\ AnswersFollow /\ FramesInOrder /\ DiskFollows
  BY DEF DiskIInv
<1> DEFINE a == [t |-> t, row |-> Absent]
<1>1. /\ truth' = truth /\ serverNow' = serverNow /\ frames' = frames
      /\ linked' = linked /\ held' = [held EXCEPT ![t] = Absent] /\ tab' = tab
      /\ writes' = Append(writes, a) /\ orphans' = orphans /\ release' = release /\ stored' = stored
      /\ waits' = waits /\ handler' = handler /\ era' = era /\ lastCleared' = lastCleared
      /\ forgot' = forgot /\ inited' = inited /\ watermark' = watermark /\ renewed' = renewed
      /\ synced' = synced \ {t} /\ tab = "up" /\ Handling /\ Handling' /\ SpendDisk("drops")
  BY DEF Unsync, DropTable, Dropped, remote, Handling
<1>2. /\ synced' \in SUBSET DiskTables /\ asked' \in SUBSET DiskTables /\ asked' \subseteq asked
      /\ holes' \in SUBSET DiskTables /\ holes \subseteq holes'
  BY <1>0, <1>1 DEF Unsync, DropTable, DiskShape
<1>3. /\ notes' \in Seq(NoteKinds) /\ SinceNotes' = SinceNotes /\ ~Wiping' /\ Marks' = Marks
      /\ Live' \subseteq Live /\ (t \in Live' => t \in holes') /\ (linked => Live' \subseteq asked')
  <2>1. CASE Unsync(t)
    <3> DEFINE ss == synced'
    <3>1. ss \in SUBSET DiskTables /\ Note(SubsNote(ss))
      BY <1>2, <2>1 DEF Unsync
    <3> HIDE DEF ss
    <3>2. /\ notes' \in Seq(NoteKinds) /\ SinceNotes' = SinceNotes /\ ~Wiping'
          /\ (watermark' = watermark /\ stored' = stored => Marks' = Marks)
          /\ \A u, s : WillSay(notes', s, u) => u \in ss
      BY <1>0, <1>1, <3>1, SubsNoted
    <3>3. \A u : u \in Live' => u \in synced'
      BY <3>2 DEF Live, ss
    <3>4. synced' \subseteq synced /\ t \notin synced' /\ synced \subseteq Live
      BY <1>1 DEF Live
    <3>5. asked' = asked \ {t} /\ linked
      BY <2>1 DEF Unsync
    <3> QED BY <1>0, <1>1, <3>2, <3>3, <3>4, <3>5 DEF LiveIsAsked
  <2>2. CASE DropTable(t)
    BY <2>2, <1>0, <1>1 DEF DropTable, SinceNotes, Marks, Wiping, OneWipe, Live, LiveIsAsked, DiskShape
  <2> QED BY <2>1, <2>2
<1>4. a \in Puttings /\ a.t = t /\ a.row = Absent /\ a.row.clock = 0 /\ Absent \in DiskRow /\ Absent.clock = 0
  BY DEF Puttings, DiskRow, Absent
<1> HIDE DEF a
<1>5. /\ writes' \in Seq(Puttings) /\ Len(writes') = Len(writes) + 1 /\ Len(writes) \in Nat
      /\ \A i \in 1..Len(writes) : writes'[i] = writes[i]
      /\ writes'[Len(writes) + 1] = a /\ writes \in Seq(Puttings)
      /\ \A i \in 1..Len(writes') : i \in 1..Len(writes) \/ i = Len(writes) + 1
  BY <1>0, <1>1, <1>4 DEF DiskShape
<1>6. held' \in [DiskTables -> DiskRow] /\ held'[t] = Absent /\ \A u \in DiskTables : u # t => held'[u] = held[u]
  BY <1>0, <1>1, <1>4 DEF DiskShape
<1>7. DiskShape'
  <2>1. diskLeft' \in [DOMAIN DiskBound[handler] -> Nat]
    BY <1>0, <1>1, SpendKeeps
  <2>2. waits \in 0..Len(writes')
    BY <1>0, <1>5 DEF DiskShape
  <2>3. ~linked => asked' = {}
    BY <1>0, <1>2 DEF DiskShape
  <2> QED BY <1>0, <1>1, <1>2, <1>3, <1>5, <1>6, <2>1, <2>2, <2>3 DEF DiskShape
<1>8. NothingIsAhead'
  BY <1>0, <1>4, <1>6, <1>5, <1>1, <1>3 DEF DiskShape, NothingIsAhead
<1>9. QuietIsEmpty' /\ OneWipe' /\ LateIsExcused'
  <2>1. OneWipe'
    BY <1>3 DEF OneWipe, Wiping
  <2>2. holes = DiskTables => holes' = DiskTables
    BY <1>2
  <2> QED BY <1>0, <1>1, <2>1, <2>2 DEF QuietIsEmpty, LateIsExcused
<1>10. ErasHold'
  BY <1>0, <1>4, <1>6, <1>5, <1>1 DEF ErasHold, Aged
<1>11. ShapesHold'
  <2> SUFFICES ASSUME handler = "clear", ~forgot
               PROVE  /\ \A u \in DiskTables : Shaped(held'[u], release)
                      /\ \A i \in 1..Len(writes') : Shaped(writes'[i].row, release)
    BY <1>0, <1>1 DEF ShapesHold
  <2>1. \A u \in DiskTables : Shaped(held'[u], release)
    BY <1>0, <1>4, <1>6 DEF ShapesHold, Shaped
  <2>2. \A i \in 1..Len(writes') : Shaped(writes'[i].row, release)
    BY <1>0, <1>4, <1>5 DEF ShapesHold, Shaped
  <2> QED BY <2>1, <2>2
<1>12. LiveIsAsked' /\ FramesInOrder'
  BY <1>0, <1>1, <1>3 DEF LiveIsAsked, FramesInOrder
<1>13. AnswersFollow'
  <2> SUFFICES ASSUME NEW u \in asked' PROVE AnswersAll(frames, u, truth[u], u \in holes' \cap renewed)
    BY <1>1 DEF AnswersFollow
  <2>1. AnswersAll(frames, u, truth[u], u \in holes \cap renewed)
    BY <1>0, <1>2 DEF AnswersFollow
  <2>2. u \in holes \cap renewed => u \in holes' \cap renewed
    BY <1>2
  <2> QED BY <2>1, <2>2 DEF AnswersAll
<1>14. TablesFollow'
  <2> SUFFICES ASSUME NEW u \in Live' \ holes'
               PROVE  /\ linked => Follows(frames, u, 0, held'[u].clock, truth[u])
                      /\ \A n \in Marks : truth[u] <= n => held'[u].clock = truth[u]
                      /\ WillKeep(Append(writes, a), stored.rows[u], u, held'[u].clock)
    BY <1>1, <1>3 DEF TablesFollow
  <2>1. u \in Live \ holes /\ u # t /\ u \in DiskTables
    BY <1>0, <1>2, <1>3 DEF Live, DiskShape
  <2>2. held'[u] = held[u]
    BY <1>6, <2>1
  <2> DEFINE c == held[u].clock
             r == stored.rows[u]
  <2>3. /\ linked => Follows(frames, u, 0, c, truth[u])
        /\ \A n \in Marks : truth[u] <= n => c = truth[u]
        /\ WillKeep(writes, r, u, c)
    BY <1>0, <1>1, <2>1 DEF TablesFollow
  <2> HIDE DEF c, r
  <2>4. Append(writes, a) = writes \o <<a>> /\ <<a>> \in Seq(Puttings) /\ Len(<<a>>) = 1 /\ <<a>>[1] = a
    BY <1>4, <1>5, PutOne
  <2>5. \A j \in 1..Len(<<a>>) : <<a>>[j].t = u => <<a>>[j].row.clock = c
    BY <1>4, <2>1, <2>4
  <2>6. WillKeep(writes \o <<a>>, r, u, c)
    BY <1>5, <2>3, <2>4, <2>5, KeepsEnds
  <2> QED BY <2>2, <2>3, <2>4, <2>6 DEF c, r
<1>15. DiskFollows'
  BY <1>1 DEF DiskFollows, Handling
<1> QED BY <1>7, <1>8, <1>9, <1>10, <1>11, <1>12, <1>13, <1>14, <1>15 DEF DiskIInv

\* A connection has told all, and the clock is noted.
LEMMA CompleteKeeps ==
  ASSUME DiskIInv, CompleteArrives
  PROVE  DiskIInv'
<1>0. DiskShape /\ QuietIsEmpty /\ NothingIsAhead /\ LateIsExcused /\ ErasHold /\ ShapesHold /\ OneWipe
      /\ TablesFollow /\ LiveIsAsked /\ AnswersFollow /\ FramesInOrder /\ DiskFollows
  BY DEF DiskIInv
<1>1. /\ truth' = truth /\ serverNow' = serverNow /\ asked' = asked
      /\ linked' = linked /\ held' = held /\ tab' = tab
      /\ writes' = writes /\ orphans' = orphans /\ release' = release /\ stored' = stored
      /\ waits' = waits /\ handler' = handler /\ era' = era /\ lastCleared' = lastCleared
      /\ forgot' = forgot /\ inited' = inited /\ renewed' = renewed /\ synced' = synced
      /\ diskLeft' = diskLeft /\ Handling /\ Handling'
      /\ frames # <<>> /\ Head(frames).f = "complete" /\ frames' = Tail(frames)
      /\ holes' = IF tab \in {"drain", "wipe"} THEN DiskTables ELSE holes
  BY DEF CompleteArrives, remote, Handling
<1> DEFINE m == Head(frames)
           now == m.now
           n == SinceNote(now)
<1>2. /\ frames \in Seq(FrameKinds) /\ Len(frames) \in Nat \ {0} /\ m = frames[1] /\ m \in FrameKinds
      /\ Tail(frames) \in Seq(FrameKinds) /\ Len(Tail(frames)) = Len(frames) - 1
      /\ \A i \in 1..Len(Tail(frames)) : Tail(frames)[i] = frames[i + 1] /\ i + 1 \in 1..Len(frames)
  BY <1>0, <1>1, QueueStarts DEF DiskShape
<1>3. m.f = "complete" /\ watermark' = now /\ Note(n)
  BY DEF CompleteArrives
<1>4. now \in Nat /\ now <= serverNow /\ \A t : ~Tells(m, t)
  BY <1>2, <1>3, <1>0 DEF FrameKinds, Tells, NothingIsAhead
<1>5. n \in NoteKinds /\ n.do = "since" /\ n # WipeNote /\ n.since = now
  BY <1>4 DEF SinceNote, NoteKinds, WipeNote
<1> HIDE DEF n, m, now
<1>6. /\ notes' \in Seq(NoteKinds) /\ Len(notes') = Len(notes) + 1 /\ notes'[Len(notes) + 1] = n
      /\ \A i \in 1..Len(notes) : notes'[i] = notes[i]
      /\ \A x : x \in SinceNotes' <=> x \in SinceNotes \/ (n.do = "since" /\ x = n.since)
      /\ Wiping' => Wiping \/ n = WipeNote
  BY <1>0, <1>3, <1>5, NoteAdds DEF DiskShape
<1>7. \A x \in Marks' : x \in Marks \/ x = now
  BY <1>1, <1>3, <1>5, <1>6 DEF Marks
<1>8. holes' \in SUBSET DiskTables /\ holes \subseteq holes' /\ (tab \in {"drain", "wipe"} => holes' = DiskTables)
  BY <1>0, <1>1 DEF DiskShape
<1>9. Live' \subseteq Live
  <2>1. ASSUME NEW t, WillSay(notes', stored.subs, t) PROVE WillSay(notes, stored.subs, t)
    <3>1. notes \in Seq(NoteKinds) /\ notes' = Append(notes, n)
      BY <1>0, <1>3 DEF DiskShape, Note
    <3> DEFINE s == stored.subs
    <3>2. WillSay(Append(notes, n), s, t)
      BY <2>1, <3>1
    <3> HIDE DEF s
    <3>3. IF n.do = "since" THEN WillSay(notes, s, t) ELSE t \in SubsOf(n)
      BY <1>5, <3>1, <3>2, SaysLast
    <3> QED BY <1>5, <3>3 DEF s
  <2> QED BY <1>1, <2>1 DEF Live
<1>10. DiskShape'
  BY <1>0, <1>3, <1>4, <1>1, <1>2, <1>6, <1>8 DEF DiskShape
<1>11. NothingIsAhead'
  BY <1>0, <1>4, <1>7, <1>2, <1>1 DEF NothingIsAhead
<1>12. QuietIsEmpty' /\ OneWipe' /\ LateIsExcused'
  <2>1. OneWipe'
    <3>1. Wiping' => tab = "wipe"
      BY <1>0, <1>5, <1>6 DEF OneWipe
    <3>2. ASSUME NEW i \in 1..Len(notes'), NEW j \in 1..Len(notes'), notes'[i] = WipeNote, i < j
          PROVE  notes'[j].do = "since"
      <4>1. Len(notes) \in Nat
        BY <1>0 DEF DiskShape
      <4>2. CASE j = Len(notes) + 1
        BY <1>5, <1>6, <4>2
      <4>3. CASE j # Len(notes) + 1
        BY <1>6, <3>2, <4>1, <4>3, <1>0 DEF OneWipe
      <4> QED BY <4>2, <4>3
    <3> QED BY <1>1, <3>1, <3>2 DEF OneWipe
  <2>2. holes = DiskTables => holes' = DiskTables
    BY <1>8
  <2> QED BY <1>0, <1>1, <2>1, <2>2 DEF QuietIsEmpty, LateIsExcused
<1>13. ErasHold' /\ ShapesHold'
  BY <1>0, <1>1 DEF ErasHold, ShapesHold
<1>14. LiveIsAsked'
  BY <1>0, <1>1, <1>9 DEF LiveIsAsked
<1>15. FramesInOrder'
  <2> SUFFICES ASSUME NEW t \in DiskTables PROVE InOrder(Tail(frames), t, truth[t], Marks')
    BY <1>1 DEF FramesInOrder
  <2> DEFINE x == truth[t]
             ms == Marks'
             ns == Marks
  <2>1. InOrder(frames, t, x, ns)
    BY <1>0 DEF FramesInOrder
  <2>2. \A k \in ms : k \in ns \/ (Head(frames).f = "complete" /\ k = Head(frames).now)
    BY <1>3, <1>7 DEF m, now
  <2> HIDE DEF x, ms, ns
  <2>3. InOrder(Tail(frames), t, x, ms)
    BY <1>1, <1>2, <2>1, <2>2, OrderStarts
  <2> QED BY <2>3 DEF x, ms
<1>16. AnswersFollow'
  <2> SUFFICES ASSUME NEW t \in asked PROVE AnswersAll(Tail(frames), t, truth[t], t \in holes' \cap renewed)
    BY <1>1 DEF AnswersFollow
  <2> DEFINE x == truth[t]
             e == t \in holes \cap renewed
             h == t \in holes' \cap renewed
  <2>1. AnswersAll(frames, t, x, e) /\ (e => h)
    BY <1>0, <1>8 DEF AnswersFollow
  <2> HIDE DEF x, e, h
  <2>2. AnswersAll(Tail(frames), t, x, h)
    BY <1>1, <1>2, <2>1, AnswersStart
  <2> QED BY <2>2 DEF x, h
<1>17. TablesFollow'
  <2> SUFFICES ASSUME tab # "wipe", NEW t \in Live' \ holes'
               PROVE  /\ linked => Follows(Tail(frames), t, 0, held[t].clock, truth[t])
                      /\ \A k \in Marks' : truth[t] <= k => held[t].clock = truth[t]
                      /\ WillKeep(writes, stored.rows[t], t, held[t].clock)
    BY <1>1 DEF TablesFollow
  <2> DEFINE x == truth[t]
             v == held[t].clock
  <2>1. /\ linked => Follows(frames, t, 0, v, x)
        /\ \A k \in Marks : x <= k => v = x
        /\ WillKeep(writes, stored.rows[t], t, v)
    BY <1>0, <1>1, <1>8, <1>9 DEF TablesFollow
  <2>2. linked /\ 0 \in 0..Len(frames) /\ ~Tells(Head(frames), t)
    BY <1>0, <1>1, <1>2, <1>4 DEF DiskShape, m
  <2> HIDE DEF x, v
  <2>3. Follows(Tail(frames), t, 0, v, x)
    <3> DEFINE l == 0
    <3>1. l \in 0..Len(frames) /\ l = 0 /\ Follows(frames, t, l, v, x) /\ (l = 0 => ~Tells(Head(frames), t))
      BY <2>1, <2>2
    <3> HIDE DEF l
    <3>2. Follows(Tail(frames), t, IF l = 0 THEN 0 ELSE l - 1, v, x)
      BY <1>1, <1>2, <3>1, FollowsStarts
    <3> QED BY <3>1, <3>2
  <2>4. x <= now => v = x
    <3> SUFFICES ASSUME x <= now PROVE v = x
      OBVIOUS
    <3>1. 1 \in 0+1..Len(frames)+1 /\ Due(frames, 1, x)
      BY <1>2, <1>3 DEF Due, now
    <3>2. Follows(frames, t, 0, v, x)
      BY <2>1, <2>2
    <3> QED BY <3>1, <3>2 DEF Follows
  <2> QED BY <1>7, <2>1, <2>3, <2>4 DEF x, v
<1>18. DiskFollows'
  <2> SUFFICES ASSUME tab = "wipe", NEW t \in synced \ holes' PROVE FALSE
    BY <1>1 DEF DiskFollows
  <2> QED BY <1>0, <1>8 DEF DiskShape
<1> QED BY <1>10, <1>11, <1>12, <1>13, <1>14, <1>15, <1>16, <1>17, <1>18 DEF DiskIInv

\* A put for each table, in some order.
LEMMA PutsOf ==
  ASSUME NEW ts \in SUBSET DiskTables, NEW rows, \A t \in ts : rows[t] \in DiskRow
  PROVE  /\ Puts(ts, rows) \in Seq(Puttings)
         /\ \A j \in 1..Len(Puts(ts, rows)) : Puts(ts, rows)[j].t \in ts
                                              /\ Puts(ts, rows)[j].row = rows[Puts(ts, rows)[j].t]
         /\ \A t \in ts : \E j \in 1..Len(Puts(ts, rows)) : Puts(ts, rows)[j].t = t
<1> DEFINE put(t) == [t |-> t, row |-> rows[t]]
           S == {put(t) : t \in ts}
           q == SetToSeq(S)
<1>1. IsFiniteSet(ts)
  BY DiskAssumption, FS_Subset
<1>2. IsFiniteSet(S)
  <2> DEFINE f == [t \in ts |-> put(t)]
  <2>1. f \in [ts -> S] /\ \A s \in S : \E t \in ts : f[t] = s
    OBVIOUS
  <2> HIDE DEF f, S
  <2>2. f \in Surjection(ts, S)
    BY <2>1 DEF Surjection
  <2> QED BY <1>1, <2>2, FS_Surjection
<1>3. \A s \in S : s \in Puttings /\ s.t \in ts /\ s.row = rows[s.t]
  BY DEF Puttings
<1>4. \A t \in ts : \E s \in S : s.t = t
  <2> SUFFICES ASSUME NEW t \in ts PROVE \E s \in S : s.t = t
    OBVIOUS
  <2>1. put(t) \in S /\ put(t).t = t
    OBVIOUS
  <2> QED BY <2>1
<1> HIDE DEF S
<1>5. /\ q \in Seq(S) /\ \A x \in S : \E j \in DOMAIN q : q[j] = x
  BY <1>2, SeqOfSet
<1>6. Puts(ts, rows) = q
  BY DEF Puts, S, put
<1> HIDE DEF q
<1>7. DOMAIN q = 1..Len(q) /\ \A j \in 1..Len(q) : q[j] \in S
  BY <1>5
<1>8. q \in Seq(Puttings)
  <2>1. Len(q) \in Nat /\ q = [j \in 1..Len(q) |-> q[j]] /\ \A j \in 1..Len(q) : q[j] \in Puttings
    BY <1>3, <1>5, <1>7, LenProperties
  <2>2. q \in [1..Len(q) -> Puttings]
    BY <2>1
  <2> QED BY <2>1, <2>2, SeqDef, Zenon
<1>9. \A t \in ts : \E j \in 1..Len(q) : q[j].t = t
  BY <1>4, <1>5, <1>7
<1> QED BY <1>3, <1>6, <1>7, <1>8, <1>9

\* A frame of rows.
LEMMA ReceiveKeeps ==
  ASSUME DiskIInv, ReceiveRows
  PROVE  DiskIInv'
<1>0. DiskShape /\ QuietIsEmpty /\ NothingIsAhead /\ LateIsExcused /\ ErasHold /\ ShapesHold /\ OneWipe
      /\ TablesFollow /\ LiveIsAsked /\ AnswersFollow /\ FramesInOrder /\ DiskFollows
  BY DEF DiskIInv
<1> DEFINE m == Head(frames)
           ts == {t \in DiskTables : Newer(m, t)}
           whole == IF m.whole THEN ts ELSE {}
           row(t) == [clock |-> m.at[t], shape |-> release, era |-> era]
           rows == [t \in ts |-> row(t)]
           P == Puts(whole, NoRows)
           Q == Puts(ts, rows)
<1>1. /\ truth' = truth /\ serverNow' = serverNow /\ asked' = asked /\ linked' = linked /\ tab' = tab
      /\ watermark' = watermark /\ notes' = notes
      /\ orphans' = orphans /\ release' = release /\ stored' = stored
      /\ waits' = waits /\ handler' = handler /\ era' = era /\ lastCleared' = lastCleared
      /\ forgot' = forgot /\ inited' = inited /\ renewed' = renewed /\ synced' = synced
      /\ diskLeft' = diskLeft /\ Handling /\ Handling'
      /\ frames # <<>> /\ frames' = Tail(frames)
  BY DEF ReceiveRows, remote, Handling
<1>2. /\ m.f = "rows"
      /\ held' = [t \in DiskTables |-> IF t \in ts THEN row(t) ELSE held[t]]
      /\ writes' = writes \o P \o Q
      /\ holes' = IF tab \in {"drain", "wipe"} THEN DiskTables
                  ELSE IF orphans = <<>> THEN holes \ {t \in whole : ~Superseded(t)} ELSE holes
  BY DEF ReceiveRows
<1>3. /\ frames \in Seq(FrameKinds) /\ Len(frames) \in Nat \ {0} /\ m = frames[1] /\ m \in FrameKinds
      /\ Tail(frames) \in Seq(FrameKinds) /\ Len(Tail(frames)) = Len(frames) - 1
      /\ \A i \in 1..Len(Tail(frames)) : Tail(frames)[i] = frames[i + 1] /\ i + 1 \in 1..Len(frames)
  BY <1>0, <1>1, QueueStarts DEF DiskShape
<1>4. /\ m.whole \in BOOLEAN /\ \A t : Tells(m, t) <=> t \in DOMAIN m.at
      /\ \A t \in DOMAIN m.at : t \in DiskTables /\ m.at[t] \in Nat
  BY <1>2, <1>3, FrameTells DEF Tells, FrameKinds
<1>5. \A t \in DOMAIN m.at : m.at[t] <= truth[t] /\ \A n \in Marks : truth[t] <= n => m.at[t] = truth[t]
  <2> SUFFICES ASSUME NEW t \in DOMAIN m.at
               PROVE  m.at[t] <= truth[t] /\ \A n \in Marks : truth[t] <= n => m.at[t] = truth[t]
    OBVIOUS
  <2>1. InOrder(frames, t, truth[t], Marks) /\ Tells(frames[1], t) /\ 1 \in 1..Len(frames)
    BY <1>0, <1>3, <1>4 DEF FramesInOrder
  <2> QED BY <1>3, <2>1 DEF InOrder
<1>6. /\ ts \in SUBSET DiskTables /\ whole \in SUBSET DiskTables /\ whole \subseteq ts
      /\ \A t \in ts : t \in DOMAIN m.at
      /\ \A t \in DOMAIN m.at : t \in ts \/ (~m.whole /\ ~(m.at[t] > held[t].clock))
      /\ (m.whole => whole = ts) /\ (~m.whole => whole = {})
  BY <1>4 DEF Newer
<1>7. \A t \in ts : row(t) \in DiskRow /\ row(t).clock = m.at[t] /\ row(t).shape = release /\ row(t).era = era
  BY <1>0, <1>4, <1>6 DEF DiskShape, DiskRow
<1>8. NoRows \in [DiskTables -> DiskRow] /\ \A t \in DiskTables : NoRows[t] = Absent /\ NoRows[t].clock = 0
  BY DEF NoRows, Absent, DiskRow
<1>9. \A t \in ts : rows[t] = row(t)
  OBVIOUS
<1> HIDE DEF ts, whole, row, rows, m
<1>10. /\ P \in Seq(Puttings) /\ \A j \in 1..Len(P) : P[j].t \in whole /\ P[j].row.clock = 0
  <2> DEFINE z == NoRows
  <2>1. whole \in SUBSET DiskTables /\ \A t \in whole : z[t] \in DiskRow
    BY <1>6, <1>8
  <2>2. P = Puts(whole, z)
    OBVIOUS
  <2> HIDE DEF P, z
  <2>3. /\ Puts(whole, z) \in Seq(Puttings)
        /\ \A j \in 1..Len(Puts(whole, z)) : Puts(whole, z)[j].t \in whole /\ Puts(whole, z)[j].row = z[Puts(whole, z)[j].t]
    BY <2>1, PutsOf
  <2>4. P \in Seq(Puttings) /\ \A j \in 1..Len(P) : P[j].t \in whole /\ P[j].row = z[P[j].t]
    BY <2>2, <2>3
  <2> QED BY <1>6, <1>8, <2>4 DEF z
<1>11. /\ Q \in Seq(Puttings) /\ \A j \in 1..Len(Q) : Q[j].t \in ts /\ Q[j].row = row(Q[j].t)
       /\ \A t \in ts : \E j \in 1..Len(Q) : Q[j].t = t
  <2>1. \A t \in ts : rows[t] \in DiskRow
    BY <1>7, <1>9
  <2>2. /\ Q \in Seq(Puttings) /\ \A j \in 1..Len(Q) : Q[j].t \in ts /\ Q[j].row = rows[Q[j].t]
        /\ \A t \in ts : \E j \in 1..Len(Q) : Q[j].t = t
    BY <1>6, <2>1, PutsOf
  <2> HIDE DEF Q
  <2> QED BY <1>9, <2>2
<1> HIDE DEF P, Q
<1>12. writes \in Seq(Puttings) /\ writes \o P \in Seq(Puttings)
  BY <1>0, <1>10, QueueEnds DEF DiskShape
<1>13. /\ writes' \in Seq(Puttings) /\ Len(writes') \in Nat /\ Len(writes) \in Nat /\ Len(writes) <= Len(writes')
       /\ \A i \in 1..Len(writes') : \/ i \in 1..Len(writes) /\ writes'[i] = writes[i]
                                     \/ i > Len(writes) /\ writes'[i].row.clock = 0
                                     \/ i > Len(writes) /\ \E t \in ts : writes'[i].t = t /\ writes'[i].row = row(t)
  <2> DEFINE W == writes \o P
             V == W \o Q
  <2>1. /\ Len(W) \in Nat /\ Len(writes) \in Nat /\ Len(P) \in Nat /\ Len(W) = Len(writes) + Len(P)
        /\ \A i \in 1..Len(writes) : W[i] = writes[i]
        /\ \A i \in 1..Len(W) : i \in 1..Len(writes) \/ (i - Len(writes) \in 1..Len(P) /\ W[i] = P[i - Len(writes)])
        /\ Len(P) \in Nat
    BY <1>10, <1>12, QueueEnds
  <2>2. W \in Seq(Puttings)
    BY <1>12
  <2> HIDE DEF W
  <2>3. /\ V \in Seq(Puttings) /\ Len(Q) \in Nat /\ Len(V) = Len(W) + Len(Q)
        /\ \A i \in 1..Len(W) : V[i] = W[i]
        /\ \A i \in 1..Len(V) : i \in 1..Len(W) \/ (i - Len(W) \in 1..Len(Q) /\ V[i] = Q[i - Len(W)])
    BY <1>11, <2>2, QueueEnds
  <2> HIDE DEF V
  <2>4. writes' = V
    BY <1>2 DEF V, W
  <2>5. ASSUME NEW i \in 1..Len(V)
        PROVE  \/ i \in 1..Len(writes) /\ V[i] = writes[i]
               \/ i > Len(writes) /\ V[i].row.clock = 0
               \/ i > Len(writes) /\ \E t \in ts : V[i].t = t /\ V[i].row = row(t)
    <3>1. CASE i \in 1..Len(writes)
      BY <2>1, <3>1, <2>3
    <3>2. CASE i \in 1..Len(W) /\ i \notin 1..Len(writes)
      BY <2>1, <2>3, <3>2, <1>10
    <3>3. CASE i \notin 1..Len(W)
      BY <2>3, <3>3, <2>1, <1>11
    <3> QED BY <3>1, <3>2, <3>3
  <2>6. Len(V) \in Nat /\ Len(writes) <= Len(V)
    BY <2>1, <2>3
  <2> QED BY <2>1, <2>3, <2>4, <2>5, <2>6
<1>14. held' \in [DiskTables -> DiskRow] /\ \A t \in DiskTables : held'[t] = IF t \in ts THEN row(t) ELSE held[t]
  BY <1>0, <1>2, <1>7 DEF DiskShape
<1>15. holes' \in SUBSET DiskTables /\ (tab \in {"drain", "wipe"} => holes' = DiskTables)
  BY <1>0, <1>2 DEF DiskShape
<1>16. SinceNotes' = SinceNotes /\ Marks' = Marks /\ Wiping' = Wiping /\ Live' = Live
  BY <1>1 DEF Marks, SinceNotes, Wiping, Live
<1>17. linked
  BY <1>0, <1>1 DEF DiskShape
<1>18. DiskShape'
  <2>1. waits \in 0..Len(writes')
    BY <1>0, <1>13 DEF DiskShape
  <2>2. frames' \in Seq(FrameKinds)
    BY <1>1, <1>3
  <2> QED BY <1>0, <1>1, <1>13, <1>14, <1>15, <1>17, <2>1, <2>2 DEF DiskShape
<1>19. NothingIsAhead'
  <2>1. \A t \in ts : row(t).clock <= truth[t]
    BY <1>5, <1>6, <1>7
  <2>2. \A t \in DiskTables : held'[t].clock <= truth[t]
    BY <1>0, <1>14, <2>1 DEF NothingIsAhead
  <2>3. \A i \in 1..Len(Tail(frames)) : Tail(frames)[i].f = "complete" => Tail(frames)[i].now <= serverNow
    BY <1>0, <1>3 DEF NothingIsAhead
  <2>4. ASSUME NEW i \in 1..Len(writes') PROVE writes'[i].row.clock <= truth[writes'[i].t]
    <3>1. writes'[i] \in Puttings
      BY <1>13
    <3>2. writes'[i].t \in DiskTables /\ 0 <= truth[writes'[i].t]
      BY <1>0, <3>1 DEF Puttings, DiskShape
    <3>3. CASE i \in 1..Len(writes) /\ writes'[i] = writes[i]
      BY <1>0, <3>3 DEF NothingIsAhead
    <3>4. CASE writes'[i].row.clock = 0
      BY <3>2, <3>4
    <3>5. CASE \E t \in ts : writes'[i].t = t /\ writes'[i].row = row(t)
      BY <2>1, <3>5
    <3> QED BY <1>13, <3>3, <3>4, <3>5
  <2>5. \A t \in DiskTables : stored.rows[t].clock <= truth[t]
    BY <1>0 DEF NothingIsAhead
  <2> QED BY <1>0, <1>1, <1>16, <2>2, <2>3, <2>4, <2>5 DEF NothingIsAhead
<1>20. QuietIsEmpty' /\ OneWipe' /\ LateIsExcused'
  BY <1>0, <1>1, <1>16, <1>2, <1>15 DEF QuietIsEmpty, OneWipe, LateIsExcused
<1>21. ErasHold'
  <2>0. era \in Nat /\ lastCleared \in Nat /\ lastCleared <= era /\ waits \in Nat /\ waits <= Len(writes)
    BY <1>0, <1>13 DEF DiskShape
  <2>1. \A t \in ts : Aged(row(t), era) /\ Aged(row(t), lastCleared)
    BY <1>7, <2>0 DEF Aged
  <2>2. \A t \in DiskTables : Aged(held'[t], lastCleared) /\ (tab = "wipe" => Aged(held'[t], era))
    BY <1>0, <1>14, <2>1 DEF ErasHold
  <2>3. ASSUME NEW i \in 1..Len(writes')
        PROVE  /\ Aged(writes'[i].row, lastCleared)
               /\ (tab \in {"drain", "wipe"} /\ (tab = "wipe" \/ waits < i) => Aged(writes'[i].row, era))
    <3>1. CASE i \in 1..Len(writes) /\ writes'[i] = writes[i]
      BY <1>0, <3>1 DEF ErasHold
    <3>2. CASE writes'[i].row.clock = 0
      BY <3>2 DEF Aged
    <3>3. CASE \E t \in ts : writes'[i].t = t /\ writes'[i].row = row(t)
      BY <2>1, <3>3
    <3> QED BY <1>13, <3>1, <3>2, <3>3
  <2> QED BY <1>0, <1>1, <2>2, <2>3 DEF ErasHold
<1>22. ShapesHold'
  <2> SUFFICES ASSUME handler = "clear", ~forgot
               PROVE  /\ \A t \in DiskTables : Shaped(held'[t], release)
                      /\ \A i \in 1..Len(writes') : Shaped(writes'[i].row, release)
    BY <1>0, <1>1 DEF ShapesHold
  <2>1. \A t \in ts : Shaped(row(t), release)
    BY <1>7 DEF Shaped
  <2>2. \A t \in DiskTables : Shaped(held'[t], release)
    BY <1>0, <1>14, <2>1 DEF ShapesHold
  <2>3. ASSUME NEW i \in 1..Len(writes') PROVE Shaped(writes'[i].row, release)
    <3>1. CASE i \in 1..Len(writes) /\ writes'[i] = writes[i]
      BY <1>0, <3>1 DEF ShapesHold
    <3>2. CASE writes'[i].row.clock = 0
      BY <3>2 DEF Shaped
    <3>3. CASE \E t \in ts : writes'[i].t = t /\ writes'[i].row = row(t)
      BY <2>1, <3>3
    <3> QED BY <1>13, <3>1, <3>2, <3>3
  <2> QED BY <2>2, <2>3
<1>23. LiveIsAsked'
  BY <1>0, <1>1, <1>16 DEF LiveIsAsked
<1>24. FramesInOrder'
  <2> SUFFICES ASSUME NEW t \in DiskTables PROVE InOrder(Tail(frames), t, truth[t], Marks)
    BY <1>1, <1>16 DEF FramesInOrder
  <2> DEFINE x == truth[t]
             ns == Marks
  <2>1. InOrder(frames, t, x, ns) /\ \A k \in ns : k \in ns
    BY <1>0 DEF FramesInOrder
  <2> HIDE DEF x, ns
  <2>3. InOrder(Tail(frames), t, x, ns)
    BY <1>1, <1>3, <2>1, OrderStarts
  <2> QED BY <2>3 DEF x, ns
<1>25. ASSUME NEW t \in holes, t \notin holes'
       PROVE  t \in whole /\ t \in DOMAIN m.at /\ ~Superseded(t) /\ tab \notin {"drain", "wipe"}
  BY <1>0, <1>2, <1>6, <1>15, <1>25 DEF DiskShape
<1>26. AnswersFollow'
  <2> SUFFICES ASSUME NEW t \in asked, NEW j \in 1..Len(Tail(frames)), Tells(Tail(frames)[j], t)
               PROVE  \/ Follows(Tail(frames), t, j, Tail(frames)[j].at[t], truth[t])
                      \/ t \in holes' \cap renewed /\ \E k \in j+1..Len(Tail(frames)) : Tells(Tail(frames)[k], t) /\ Tail(frames)[k].whole
    BY <1>1 DEF AnswersFollow, AnswersAll
  <2> DEFINE x == truth[t]
             e == t \in holes \cap renewed
             gs == Tail(frames)
  <2>1. AnswersAll(frames, t, x, e) /\ (e => e)
    BY <1>0 DEF AnswersFollow
  <2>2. AnswersAll(gs, t, x, e)
    <3> HIDE DEF x, e
    <3> QED BY <1>1, <1>3, <2>1, AnswersStart
  <2>3. CASE e /\ \E k \in j+1..Len(gs) : Tells(gs[k], t) /\ gs[k].whole
    <3>1. CASE t \in holes'
      BY <2>3, <3>1
    <3>2. CASE t \notin holes'
      <4>1. ~Superseded(t) /\ t \in renewed
        BY <1>25, <2>3, <3>2
      <4>2. DOMAIN gs = 1..Len(gs)
        BY <1>3
      <4>3. PICK k \in j+1..Len(gs) : Tells(gs[k], t) /\ gs[k].whole
        BY <2>3
      <4>4. k \in DOMAIN gs
        BY <1>3, <4>2
      <4> QED BY <4>1, <4>3, <4>4 DEF Superseded
    <3> QED BY <3>1, <3>2
  <2> QED BY <2>2, <2>3 DEF AnswersAll
<1>27. TablesFollow'
  <2> SUFFICES ASSUME tab # "wipe", NEW t \in Live \ holes'
               PROVE  /\ Follows(Tail(frames), t, 0, held'[t].clock, truth[t])
                      /\ \A k \in Marks : truth[t] <= k => held'[t].clock = truth[t]
                      /\ WillKeep(writes', stored.rows[t], t, held'[t].clock)
    BY <1>1, <1>16 DEF TablesFollow
  <2> DEFINE x == truth[t]
             v == held[t].clock
             w == held'[t].clock
             r == stored.rows[t]
  <2>0. t \in DiskTables /\ t \in asked /\ v \in Nat
    BY <1>0, <1>17 DEF Live, DiskShape, LiveIsAsked, DiskRow
  <2>1. t \notin holes => /\ Follows(frames, t, 0, v, x)
                          /\ \A k \in Marks : x <= k => v = x
                          /\ WillKeep(writes, r, t, v)
    BY <1>0, <1>1, <1>17 DEF TablesFollow
  <2>2. CASE t \in DOMAIN m.at
    <3>1. w = m.at[t]
      <4>1. CASE t \in ts
        BY <1>7, <1>14, <2>0, <4>1
      <4>2. CASE t \notin ts
        <5>1. ~m.whole /\ ~(m.at[t] > v) /\ w = v /\ t \notin whole
          BY <1>6, <1>14, <2>0, <2>2, <4>2
        <5>2. t \notin holes
          BY <1>25, <5>1
        <5>3. 1 \in 0+1..Len(frames) /\ Tells(frames[1], t)
          BY <1>3, <1>4, <2>2
        <5>4. v <= frames[1].at[t]
          BY <2>1, <5>2, <5>3 DEF Follows
        <5> QED BY <1>3, <1>4, <2>0, <2>2, <5>1, <5>4
      <4> QED BY <4>1, <4>2
    <3>2. Follows(frames, t, 1, w, x)
      <4>1. 1 \in 1..Len(frames) /\ Tells(frames[1], t) /\ frames[1].at[t] = w
        BY <1>3, <1>4, <2>2, <3>1
      <4>2. AnswersAll(frames, t, x, t \in holes \cap renewed)
        BY <1>0, <2>0 DEF AnswersFollow
      <4>3. CASE t \in holes \cap renewed /\ \E k \in 1+1..Len(frames) : Tells(frames[k], t) /\ frames[k].whole
        <5>1. PICK k \in 1+1..Len(frames) : Tells(frames[k], t) /\ frames[k].whole
          BY <4>3
        <5>2. ~Superseded(t) /\ t \in renewed
          BY <1>25, <4>3
        <5>3. k - 1 \in 1..Len(Tail(frames))
          BY <1>3
        <5>4. Tail(frames)[k - 1] = frames[k - 1 + 1] /\ k - 1 + 1 = k /\ k - 1 \in DOMAIN Tail(frames)
          BY <1>3, <5>3
        <5> QED BY <5>1, <5>2, <5>4 DEF Superseded
      <4> HIDE DEF w, x
      <4> QED BY <4>1, <4>2, <4>3 DEF AnswersAll
    <3>3. Follows(Tail(frames), t, 0, w, x)
      <4> DEFINE l == 1
      <4>1. l \in 0..Len(frames) /\ l = 1 /\ Follows(frames, t, l, w, x) /\ (l = 0 => ~Tells(Head(frames), t))
        BY <1>3, <3>2
      <4> HIDE DEF l, w, x
      <4>2. Follows(Tail(frames), t, IF l = 0 THEN 0 ELSE l - 1, w, x)
        BY <1>1, <1>3, <4>1, FollowsStarts
      <4> QED BY <4>1, <4>2
    <3>4. \A k \in Marks : x <= k => w = x
      BY <1>5, <2>2, <3>1
    <3>5. WillKeep(writes \o P \o Q, r, t, w)
      <4>1. CASE t \in ts
        <5>1. \A j \in 1..Len(Q) : Q[j].t = t => Q[j].row.clock = w
          BY <1>7, <1>11, <3>1, <4>1
        <5>2. \E j \in 1..Len(Q) : Q[j].t = t
          BY <1>11, <4>1
        <5> HIDE DEF w, r
        <5> QED BY <1>11, <1>12, <5>1, <5>2, KeepsEnds
      <4>2. CASE t \notin ts
        <5>1. t \notin whole /\ w = v
          BY <1>6, <1>14, <2>0, <4>2
        <5>2. WillKeep(writes, r, t, w)
          BY <1>25, <2>1, <5>1
        <5>3. \A j \in 1..Len(P) : P[j].t = t => P[j].row.clock = w
          BY <1>10, <5>1
        <5>4. \A j \in 1..Len(Q) : Q[j].t = t => Q[j].row.clock = w
          BY <1>11, <4>2
        <5> HIDE DEF w, r
        <5>5. WillKeep(writes \o P, r, t, w)
          BY <1>10, <1>12, <5>2, <5>3, KeepsEnds
        <5> QED BY <1>11, <1>12, <5>4, <5>5, KeepsEnds
      <4> QED BY <4>1, <4>2
    <3> QED BY <1>2, <3>3, <3>4, <3>5
  <2>3. CASE t \notin DOMAIN m.at
    <3>1. t \notin ts /\ t \notin whole /\ t \notin holes /\ w = v
      BY <1>6, <1>14, <1>25, <2>0, <2>3
    <3>2. Follows(Tail(frames), t, 0, v, x)
      <4> DEFINE l == 0
      <4>1. l \in 0..Len(frames) /\ l = 0 /\ Follows(frames, t, l, v, x) /\ (l = 0 => ~Tells(Head(frames), t))
        BY <1>3, <1>4, <2>1, <2>3, <3>1 DEF m
      <4> HIDE DEF l, v, x
      <4>2. Follows(Tail(frames), t, IF l = 0 THEN 0 ELSE l - 1, v, x)
        BY <1>1, <1>3, <4>1, FollowsStarts
      <4> QED BY <4>1, <4>2
    <3>3. WillKeep(writes \o P \o Q, r, t, v)
      <4>1. WillKeep(writes, r, t, v)
        BY <2>1, <3>1
      <4>2. \A j \in 1..Len(P) : P[j].t = t => P[j].row.clock = v
        BY <1>10, <3>1
      <4>3. \A j \in 1..Len(Q) : Q[j].t = t => Q[j].row.clock = v
        BY <1>11, <3>1
      <4> HIDE DEF v, r
      <4>4. WillKeep(writes \o P, r, t, v)
        BY <1>10, <1>12, <4>1, <4>2, KeepsEnds
      <4> QED BY <1>11, <1>12, <4>3, <4>4, KeepsEnds
    <3> QED BY <1>2, <2>1, <3>1, <3>2, <3>3
  <2> QED BY <2>2, <2>3
<1>28. DiskFollows'
  <2> SUFFICES ASSUME tab = "wipe", NEW t \in synced \ holes' PROVE FALSE
    BY <1>1 DEF DiskFollows
  <2> QED BY <1>0, <1>15 DEF DiskShape
<1> QED BY <1>18, <1>19, <1>20, <1>21, <1>22, <1>23, <1>24, <1>26, <1>27, <1>28 DEF DiskIInv

\* The disk takes the row at the head of the chain.
LEMMA RowWrittenKeeps ==
  ASSUME DiskIInv, RowWritten
  PROVE  DiskIInv'
<1>0. DiskShape /\ QuietIsEmpty /\ NothingIsAhead /\ LateIsExcused /\ ErasHold /\ ShapesHold /\ OneWipe
      /\ TablesFollow /\ LiveIsAsked /\ AnswersFollow /\ FramesInOrder /\ DiskFollows
  BY DEF DiskIInv
<1> DEFINE w == Head(writes)
<1>1. /\ truth' = truth /\ serverNow' = serverNow /\ asked' = asked /\ linked' = linked /\ tab' = tab
      /\ watermark' = watermark /\ notes' = notes /\ frames' = frames /\ held' = held /\ holes' = holes
      /\ orphans' = orphans /\ release' = release /\ stored' = [stored EXCEPT !.rows[w.t] = w.row]
      /\ handler' = handler /\ era' = era /\ lastCleared' = lastCleared
      /\ forgot' = forgot /\ inited' = inited /\ renewed' = renewed /\ synced' = synced
      /\ diskLeft' = diskLeft /\ writes # <<>> /\ writes' = Tail(writes) /\ ~Wiping
      /\ waits' = IF waits > 0 THEN waits - 1 ELSE 0
  BY DEF RowWritten, WrittenRow, remote, network, memory, told
<1>2. Handling /\ Handling'
  BY <1>1, BusyHandles DEF Handling
<1>3. /\ writes \in Seq(Puttings) /\ Len(writes) \in Nat \ {0} /\ w = writes[1] /\ w \in Puttings
      /\ Tail(writes) \in Seq(Puttings) /\ Len(Tail(writes)) = Len(writes) - 1
      /\ \A i \in 1..Len(Tail(writes)) : Tail(writes)[i] = writes[i + 1] /\ i + 1 \in 1..Len(writes)
  BY <1>0, <1>1, QueueStarts DEF DiskShape
<1>4. w.t \in DiskTables /\ w.row \in DiskRow
  BY <1>3 DEF Puttings
<1> HIDE DEF w
<1>5. /\ stored'.rows \in [DiskTables -> DiskRow] /\ stored'.since = stored.since /\ stored'.subs = stored.subs
      /\ stored'.version = stored.version
      /\ \A t \in DiskTables : stored'.rows[t] = IF t = w.t THEN w.row ELSE stored.rows[t]
      /\ stored' \in [rows : [DiskTables -> DiskRow], since : Nat, subs : SUBSET DiskTables, version : 0..release]
  <2>1. stored \in [rows : [DiskTables -> DiskRow], since : Nat, subs : SUBSET DiskTables, version : 0..release]
    BY <1>0 DEF DiskShape
  <2> DEFINE rs == [stored.rows EXCEPT ![w.t] = w.row]
  <2>2. stored' = [rows |-> rs, since |-> stored.since, subs |-> stored.subs, version |-> stored.version]
    BY <1>1, <2>1
  <2>3. rs \in [DiskTables -> DiskRow] /\ \A t \in DiskTables : rs[t] = IF t = w.t THEN w.row ELSE stored.rows[t]
    BY <1>4, <2>1
  <2> HIDE DEF rs
  <2> QED BY <2>1, <2>2, <2>3
<1>6. waits \in Nat /\ waits <= Len(writes) /\ waits' \in 0..Len(writes')
  BY <1>0, <1>1, <1>3 DEF DiskShape
<1>7. SinceNotes' = SinceNotes /\ Marks' = Marks /\ Wiping' = Wiping /\ Live' = Live
  BY <1>1, <1>2, <1>5 DEF Marks, SinceNotes, Wiping, Live
<1>8. DiskShape'
  BY <1>0, <1>1, <1>3, <1>5, <1>6 DEF DiskShape
<1>9. NothingIsAhead'
  <2>1. w.row.clock <= truth[w.t]
    BY <1>0, <1>3 DEF NothingIsAhead
  <2>2. \A t \in DiskTables : stored'.rows[t].clock <= truth[t]
    BY <1>0, <1>5, <2>1 DEF NothingIsAhead
  <2>3. \A i \in 1..Len(Tail(writes)) : Tail(writes)[i].row.clock <= truth[Tail(writes)[i].t]
    BY <1>0, <1>3 DEF NothingIsAhead
  <2> QED BY <1>0, <1>1, <1>7, <2>2, <2>3 DEF NothingIsAhead
<1>10. QuietIsEmpty' /\ OneWipe' /\ LateIsExcused'
  BY <1>0, <1>1, <1>2, <1>7, <1>3, <1>6 DEF QuietIsEmpty, OneWipe, LateIsExcused
<1>11. ErasHold'
  <2>1. Aged(w.row, lastCleared) /\ (tab = "wipe" => Aged(w.row, era))
    BY <1>0, <1>3 DEF ErasHold
  <2>2. \A t \in DiskTables : Aged(stored'.rows[t], lastCleared)
    BY <1>0, <1>5, <2>1 DEF ErasHold
  <2>3. \A i \in 1..Len(Tail(writes)) : Aged(Tail(writes)[i].row, lastCleared)
    BY <1>0, <1>3 DEF ErasHold
  <2>4. ASSUME NEW i \in 1..Len(Tail(writes)), tab \in {"drain", "wipe"}, tab = "wipe" \/ waits' < i
        PROVE  Aged(Tail(writes)[i].row, era)
    BY <1>1, <1>6, <2>4, <1>0, <1>3 DEF ErasHold
  <2> QED BY <1>0, <1>1, <2>2, <2>3, <2>4 DEF ErasHold
<1>12. ShapesHold'
  <2> SUFFICES ASSUME handler = "clear", ~forgot
               PROVE  /\ \A t \in DiskTables : Shaped(stored'.rows[t], stored.version)
                      /\ ~(stored.version = 0 \/ tab = "record")
                      /\ \A i \in 1..Len(Tail(writes)) : Shaped(Tail(writes)[i].row, release)
    BY <1>0, <1>1, <1>2, <1>5 DEF ShapesHold
  <2>1. stored.version = release /\ release # 0 /\ tab # "record"
    BY <1>0, <1>2 DEF ShapesHold, Handling, DiskShape
  <2>2. Shaped(w.row, release)
    BY <1>0, <1>3 DEF ShapesHold
  <2>3. \A t \in DiskTables : Shaped(stored'.rows[t], stored.version)
    BY <1>0, <1>5, <2>1, <2>2 DEF ShapesHold
  <2>4. \A i \in 1..Len(Tail(writes)) : Shaped(Tail(writes)[i].row, release)
    BY <1>0, <1>3 DEF ShapesHold
  <2> QED BY <2>1, <2>3, <2>4
<1>13. LiveIsAsked' /\ FramesInOrder' /\ AnswersFollow'
  BY <1>0, <1>1, <1>7 DEF LiveIsAsked, FramesInOrder, AnswersFollow
<1>14. TablesFollow'
  <2> SUFFICES ASSUME tab # "wipe", NEW t \in Live \ holes
               PROVE  WillKeep(Tail(writes), stored'.rows[t], t, held[t].clock)
    BY <1>0, <1>1, <1>2, <1>7 DEF TablesFollow
  <2> DEFINE c == held[t].clock
             r == stored.rows[t]
             q == stored'.rows[t]
  <2>1. WillKeep(writes, r, t, c)
    BY <1>0, <1>2 DEF TablesFollow
  <2>2. q = IF Head(writes).t = t THEN Head(writes).row ELSE r
    BY <1>0, <1>5 DEF Live, DiskShape, w
  <2> HIDE DEF c, r, q
  <2>3. WillKeep(Tail(writes), q, t, c)
    BY <1>1, <1>3, <2>1, <2>2, KeepsStart
  <2> QED BY <2>3 DEF q, c
<1>15. DiskFollows'
  <2> SUFFICES ASSUME tab = "wipe", NEW t \in synced \ holes PROVE FALSE
    BY <1>1, <1>2 DEF DiskFollows
  <2>1. holes = DiskTables
    BY <1>0, <1>1 DEF LateIsExcused
  <2> QED BY <1>0, <2>1 DEF DiskShape
<1> QED BY <1>8, <1>9, <1>10, <1>11, <1>12, <1>13, <1>14, <1>15 DEF DiskIInv

\* And a row of a chain that a clear has left behind: what is there is excused.
LEMMA OrphanWrittenKeeps ==
  ASSUME DiskIInv, OrphanWritten
  PROVE  DiskIInv'
<1>0. DiskShape /\ QuietIsEmpty /\ NothingIsAhead /\ LateIsExcused /\ ErasHold /\ ShapesHold /\ OneWipe
      /\ TablesFollow /\ LiveIsAsked /\ AnswersFollow /\ FramesInOrder /\ DiskFollows
  BY DEF DiskIInv
<1> DEFINE w == Head(orphans)
<1>1. /\ truth' = truth /\ serverNow' = serverNow /\ asked' = asked /\ linked' = linked /\ tab' = tab
      /\ watermark' = watermark /\ notes' = notes /\ frames' = frames /\ held' = held /\ holes' = holes
      /\ writes' = writes /\ release' = release /\ stored' = [stored EXCEPT !.rows[w.t] = w.row]
      /\ handler' = handler /\ era' = era /\ lastCleared' = lastCleared
      /\ forgot' = forgot /\ inited' = inited /\ renewed' = renewed /\ synced' = synced
      /\ diskLeft' = diskLeft /\ orphans # <<>> /\ orphans' = Tail(orphans) /\ ~Wiping /\ waits' = waits
  BY DEF OrphanWritten, WrittenRow, remote, network, memory, told
<1>2. Handling /\ Handling'
  BY <1>1, BusyHandles DEF Handling
<1>3. /\ orphans \in Seq(Puttings) /\ Len(orphans) \in Nat \ {0} /\ w = orphans[1] /\ w \in Puttings
      /\ Tail(orphans) \in Seq(Puttings) /\ Len(Tail(orphans)) = Len(orphans) - 1
      /\ \A i \in 1..Len(Tail(orphans)) : Tail(orphans)[i] = orphans[i + 1] /\ i + 1 \in 1..Len(orphans)
  BY <1>0, <1>1, QueueStarts DEF DiskShape
<1>4. w.t \in DiskTables /\ w.row \in DiskRow
  BY <1>3 DEF Puttings
<1> HIDE DEF w
<1>5. /\ stored'.rows \in [DiskTables -> DiskRow] /\ stored'.since = stored.since /\ stored'.subs = stored.subs
      /\ stored'.version = stored.version
      /\ \A t \in DiskTables : stored'.rows[t] = IF t = w.t THEN w.row ELSE stored.rows[t]
      /\ stored' \in [rows : [DiskTables -> DiskRow], since : Nat, subs : SUBSET DiskTables, version : 0..release]
  <2>1. stored \in [rows : [DiskTables -> DiskRow], since : Nat, subs : SUBSET DiskTables, version : 0..release]
    BY <1>0 DEF DiskShape
  <2> DEFINE rs == [stored.rows EXCEPT ![w.t] = w.row]
  <2>2. stored' = [rows |-> rs, since |-> stored.since, subs |-> stored.subs, version |-> stored.version]
    BY <1>1, <2>1
  <2>3. rs \in [DiskTables -> DiskRow] /\ \A t \in DiskTables : rs[t] = IF t = w.t THEN w.row ELSE stored.rows[t]
    BY <1>4, <2>1
  <2> HIDE DEF rs
  <2> QED BY <2>1, <2>2, <2>3
<1>6. holes = DiskTables /\ Live \subseteq DiskTables
  BY <1>0, <1>1 DEF LateIsExcused, Live, DiskShape
<1>7. SinceNotes' = SinceNotes /\ Marks' = Marks /\ Wiping' = Wiping /\ Live' = Live
  BY <1>1, <1>2, <1>5 DEF Marks, SinceNotes, Wiping, Live
<1>8. DiskShape'
  BY <1>0, <1>1, <1>3, <1>5 DEF DiskShape
<1>9. NothingIsAhead'
  <2>1. w.row.clock <= truth[w.t]
    BY <1>0, <1>3 DEF NothingIsAhead
  <2>2. \A t \in DiskTables : stored'.rows[t].clock <= truth[t]
    BY <1>0, <1>5, <2>1 DEF NothingIsAhead
  <2>3. \A i \in 1..Len(Tail(orphans)) : Tail(orphans)[i].row.clock <= truth[Tail(orphans)[i].t]
    BY <1>0, <1>3 DEF NothingIsAhead
  <2> QED BY <1>0, <1>1, <1>7, <2>2, <2>3 DEF NothingIsAhead
<1>10. QuietIsEmpty' /\ OneWipe' /\ LateIsExcused'
  BY <1>0, <1>1, <1>2, <1>6, <1>7 DEF QuietIsEmpty, OneWipe, LateIsExcused
<1>11. ErasHold'
  BY <1>0, <1>3, <1>5, <1>1 DEF ErasHold
<1>12. ShapesHold'
  <2> SUFFICES ASSUME handler = "clear", ~forgot
               PROVE  /\ \A t \in DiskTables : Shaped(stored'.rows[t], stored.version)
                      /\ ~(stored.version = 0 \/ tab = "record")
                      /\ \A i \in 1..Len(Tail(orphans)) : Shaped(Tail(orphans)[i].row, release)
    BY <1>0, <1>1, <1>2, <1>5 DEF ShapesHold
  <2>1. stored.version = release /\ release # 0 /\ tab # "record"
    BY <1>0, <1>2 DEF ShapesHold, Handling, DiskShape
  <2>2. Shaped(w.row, release)
    BY <1>0, <1>3 DEF ShapesHold
  <2>3. \A t \in DiskTables : Shaped(stored'.rows[t], stored.version)
    BY <1>0, <1>5, <2>1, <2>2 DEF ShapesHold
  <2>4. \A i \in 1..Len(Tail(orphans)) : Shaped(Tail(orphans)[i].row, release)
    BY <1>0, <1>3 DEF ShapesHold
  <2> QED BY <2>1, <2>3, <2>4
<1>13. LiveIsAsked' /\ FramesInOrder' /\ AnswersFollow'
  BY <1>0, <1>1, <1>7 DEF LiveIsAsked, FramesInOrder, AnswersFollow
<1>14. TablesFollow'
  BY <1>1, <1>6, <1>7 DEF TablesFollow
<1>15. DiskFollows'
  BY <1>0, <1>1, <1>2, <1>6 DEF DiskShape, DiskFollows
<1> QED BY <1>8, <1>9, <1>10, <1>11, <1>12, <1>13, <1>14, <1>15 DEF DiskIInv

\* A note is written.
LEMMA NoteWrittenKeeps ==
  ASSUME DiskIInv, NoteWritten
  PROVE  DiskIInv'
<1>0. DiskShape /\ QuietIsEmpty /\ NothingIsAhead /\ LateIsExcused /\ ErasHold /\ ShapesHold /\ OneWipe
      /\ TablesFollow /\ LiveIsAsked /\ AnswersFollow /\ FramesInOrder /\ DiskFollows
  BY DEF DiskIInv
<1> DEFINE n == Head(notes)
<1>1. /\ truth' = truth /\ serverNow' = serverNow /\ asked' = asked /\ linked' = linked /\ tab' = tab
      /\ watermark' = watermark /\ frames' = frames /\ held' = held /\ holes' = holes
      /\ writes' = writes /\ release' = release /\ orphans' = orphans /\ waits' = waits
      /\ handler' = handler /\ era' = era /\ lastCleared' = lastCleared
      /\ forgot' = forgot /\ inited' = inited /\ renewed' = renewed /\ synced' = synced
      /\ diskLeft' = diskLeft /\ notes # <<>> /\ notes' = Tail(notes) /\ n # WipeNote
      /\ stored' = IF n.do = "subs" THEN [stored EXCEPT !.subs = n.subs] ELSE [stored EXCEPT !.since = n.since]
  BY DEF NoteWritten, remote, network, memory, told
<1>2. Handling /\ Handling'
  BY <1>1, BusyHandles DEF Handling
<1>3. /\ notes \in Seq(NoteKinds) /\ Len(notes) \in Nat \ {0} /\ n = notes[1] /\ n \in NoteKinds
      /\ Tail(notes) \in Seq(NoteKinds) /\ Len(Tail(notes)) = Len(notes) - 1
      /\ \A i \in 1..Len(Tail(notes)) : Tail(notes)[i] = notes[i + 1] /\ i + 1 \in 1..Len(notes)
      /\ DOMAIN notes = 1..Len(notes) /\ DOMAIN Tail(notes) = 1..Len(Tail(notes))
  BY <1>0, <1>1, QueueStarts DEF DiskShape
<1>4. \/ n.do = "subs" /\ n.subs \in SUBSET DiskTables
      \/ n.do = "since" /\ n.since \in Nat
  BY <1>1, <1>3 DEF NoteKinds
<1> HIDE DEF n
<1>5. /\ stored'.rows = stored.rows /\ stored'.version = stored.version
      /\ stored'.since = IF n.do = "since" THEN n.since ELSE stored.since
      /\ stored'.subs = IF n.do = "since" THEN stored.subs ELSE SubsOf(n)
      /\ stored' \in [rows : [DiskTables -> DiskRow], since : Nat, subs : SUBSET DiskTables, version : 0..release]
  <2>1. stored \in [rows : [DiskTables -> DiskRow], since : Nat, subs : SUBSET DiskTables, version : 0..release]
    BY <1>0 DEF DiskShape
  <2>2. CASE n.do = "subs" /\ n.subs \in SUBSET DiskTables
    BY <1>1, <2>1, <2>2 DEF SubsOf
  <2>3. CASE n.do = "since" /\ n.since \in Nat
    BY <1>1, <2>1, <2>3
  <2> QED BY <1>4, <2>2, <2>3
<1>6. SinceNotes' \subseteq SinceNotes /\ (n.do = "since" => n.since \in SinceNotes) /\ (Wiping' => Wiping)
  <2>1. ASSUME NEW x \in SinceNotes' PROVE x \in SinceNotes
    <3>1. PICK i \in 1..Len(Tail(notes)) : Tail(notes)[i].do = "since" /\ x = Tail(notes)[i].since
      BY <1>1, <1>3, <2>1 DEF SinceNotes
    <3>2. i + 1 \in DOMAIN notes /\ notes[i + 1].do = "since" /\ x = notes[i + 1].since
      BY <1>3, <3>1
    <3> QED BY <3>2 DEF SinceNotes
  <2>2. n.do = "since" => n.since \in SinceNotes
    BY <1>3 DEF SinceNotes
  <2>3. ASSUME Wiping' PROVE Wiping
    <3>1. PICK i \in 1..Len(Tail(notes)) : Tail(notes)[i] = WipeNote
      BY <1>1, <1>3, <2>3 DEF Wiping, WipeNote
    <3>2. i + 1 \in DOMAIN notes /\ notes[i + 1] = WipeNote
      BY <1>3, <3>1
    <3> QED BY <3>2 DEF Wiping
  <2> QED BY <2>1, <2>2, <2>3
<1>7. Marks' \subseteq Marks /\ {stored'.since} \cup SinceNotes' \subseteq {stored.since} \cup SinceNotes
  BY <1>1, <1>5, <1>6 DEF Marks
<1>8. Live' \subseteq Live
  <2>1. ASSUME NEW t, WillSay(Tail(notes), stored'.subs, t) PROVE WillSay(notes, stored.subs, t)
    <3> DEFINE s == stored.subs
               u == stored'.subs
    <3>1. u = IF Head(notes).do = "since" THEN s ELSE SubsOf(Head(notes))
      BY <1>5 DEF n
    <3>2. WillSay(Tail(notes), u, t)
      BY <2>1
    <3> HIDE DEF s, u
    <3>3. WillSay(notes, s, t)
      BY <1>1, <1>3, <3>1, <3>2, SaysStart
    <3> QED BY <3>3 DEF s
  <2> QED BY <1>1, <1>2, <2>1 DEF Live
<1>9. DiskShape'
  BY <1>0, <1>1, <1>3, <1>5 DEF DiskShape
<1>10. NothingIsAhead'
  BY <1>0, <1>1, <1>5, <1>7 DEF NothingIsAhead
<1>11. QuietIsEmpty' /\ OneWipe' /\ LateIsExcused'
  <2>1. OneWipe'
    <3>1. ASSUME NEW i \in 1..Len(Tail(notes)), NEW j \in 1..Len(Tail(notes)), Tail(notes)[i] = WipeNote, i < j
          PROVE  Tail(notes)[j].do = "since"
      BY <1>3, <3>1, <1>0 DEF OneWipe
    <3> QED BY <1>0, <1>1, <1>6, <3>1 DEF OneWipe
  <2> QED BY <1>0, <1>1, <1>2, <2>1 DEF QuietIsEmpty, LateIsExcused
<1>12. ErasHold' /\ ShapesHold'
  BY <1>0, <1>1, <1>2, <1>5 DEF ErasHold, ShapesHold
<1>13. LiveIsAsked' /\ AnswersFollow'
  BY <1>0, <1>1, <1>8 DEF LiveIsAsked, AnswersFollow
<1>14. FramesInOrder'
  <2> SUFFICES ASSUME NEW t \in DiskTables PROVE InOrder(frames, t, truth[t], Marks')
    BY <1>1 DEF FramesInOrder
  <2>1. InOrder(frames, t, truth[t], Marks)
    BY <1>0 DEF FramesInOrder
  <2> QED BY <1>7, <2>1, OrderLess
<1>15. TablesFollow'
  BY <1>0, <1>1, <1>2, <1>5, <1>7, <1>8 DEF TablesFollow
<1>16. DiskFollows'
  BY <1>0, <1>1, <1>2, <1>5, <1>7 DEF DiskFollows
<1> QED BY <1>9, <1>10, <1>11, <1>12, <1>13, <1>14, <1>15, <1>16 DEF DiskIInv

\* A clear begins, or a close: what the chain holds is awaited.
LEMMA AwaitKeeps ==
  ASSUME DiskIInv, Clear \/ ClosePage
  PROVE  DiskIInv'
<1>0. DiskShape /\ QuietIsEmpty /\ NothingIsAhead /\ LateIsExcused /\ ErasHold /\ ShapesHold /\ OneWipe
      /\ TablesFollow /\ LiveIsAsked /\ AnswersFollow /\ FramesInOrder /\ DiskFollows
  BY DEF DiskIInv
<1>1. /\ truth' = truth /\ serverNow' = serverNow /\ asked' = asked /\ linked' = linked
      /\ watermark' = watermark /\ frames' = frames /\ held' = held /\ holes' = holes
      /\ writes' = writes /\ release' = release /\ orphans' = orphans /\ waits' = Len(writes)
      /\ handler' = handler /\ lastCleared' = lastCleared /\ stored' = stored
      /\ forgot' = forgot /\ inited' = inited /\ renewed' = renewed /\ synced' = synced /\ notes' = notes
      /\ tab = "up" /\ tab' \in {"drain", "closing"} /\ era' \in {era, era + 1}
  BY DEF Clear, ClosePage, remote, network, memory, told
<1>2. Handling /\ Handling'
  BY <1>1 DEF Handling
<1>3. DiskShape'
  <2>1. diskLeft' \in [DOMAIN DiskBound[handler] -> Nat]
    <3>1. CASE SpendDisk("clears")
      BY <1>0, <3>1, SpendKeeps
    <3>2. CASE SpendDisk("ends")
      BY <1>0, <3>2, SpendKeeps
    <3> QED BY <3>1, <3>2 DEF Clear, ClosePage
  <2>2. Len(writes) \in 0..Len(writes)
    BY <1>0 DEF DiskShape
  <2>3. era' \in Nat /\ lastCleared \in 0..era'
    BY <1>0, <1>1 DEF DiskShape
  <2> QED BY <1>0, <1>1, <2>1, <2>2, <2>3 DEF DiskShape
<1>4. SinceNotes' = SinceNotes /\ Marks' = Marks /\ Wiping' = Wiping /\ Live' = Live
  BY <1>1, <1>2 DEF Marks, SinceNotes, Wiping, Live
<1>5. NothingIsAhead' /\ QuietIsEmpty' /\ LateIsExcused' /\ OneWipe'
  BY <1>0, <1>1, <1>2, <1>4 DEF NothingIsAhead, QuietIsEmpty, LateIsExcused, OneWipe
<1>6. ErasHold'
  BY <1>0, <1>1 DEF DiskShape, ErasHold
<1>7. ShapesHold'
  BY <1>0, <1>1, <1>2 DEF ShapesHold
<1>8. LiveIsAsked' /\ AnswersFollow' /\ FramesInOrder'
  BY <1>0, <1>1, <1>4 DEF LiveIsAsked, AnswersFollow, FramesInOrder
<1>9. TablesFollow' /\ DiskFollows'
  BY <1>0, <1>1, <1>2, <1>4 DEF TablesFollow, DiskFollows
<1> QED BY <1>3, <1>5, <1>6, <1>7, <1>8, <1>9 DEF DiskIInv

\* Memory goes, and the disk is told to clear.
LEMMA WipeStartsKeeps ==
  ASSUME DiskIInv, WipeStarts
  PROVE  DiskIInv'
<1>0. DiskShape /\ QuietIsEmpty /\ NothingIsAhead /\ LateIsExcused /\ ErasHold /\ ShapesHold /\ OneWipe
      /\ TablesFollow /\ LiveIsAsked /\ AnswersFollow /\ FramesInOrder /\ DiskFollows
  BY DEF DiskIInv
<1>1. /\ truth' = truth /\ serverNow' = serverNow /\ asked' = asked /\ linked' = linked
      /\ watermark' = watermark /\ frames' = frames /\ held' = NoRows /\ holes' = holes
      /\ writes' = <<>> /\ release' = release /\ orphans' = writes /\ waits' = waits /\ waits = 0
      /\ handler' = handler /\ lastCleared' = lastCleared /\ stored' = stored /\ era' = era
      /\ forgot' = forgot /\ inited' = inited /\ renewed' = renewed /\ synced' = synced /\ diskLeft' = diskLeft
      /\ tab = "drain" /\ tab' = "wipe" /\ Note(WipeNote)
  BY DEF WipeStarts, remote, network, told
<1>2. Handling /\ Handling'
  BY <1>1 DEF Handling
<1>3. NoRows \in [DiskTables -> DiskRow] /\ \A t \in DiskTables : NoRows[t].clock = 0
  BY DEF NoRows, Absent, DiskRow
<1> DEFINE n == WipeNote
<1>4. n \in NoteKinds /\ n.do = "wipe" /\ SubsOf(n) = {} /\ Note(n)
  BY <1>1 DEF NoteKinds, WipeNote, SubsOf
<1> HIDE DEF n
<1>5. /\ notes' \in Seq(NoteKinds) /\ Len(notes') = Len(notes) + 1 /\ notes'[Len(notes) + 1] = n
      /\ \A i \in 1..Len(notes) : notes'[i] = notes[i]
      /\ \A x : x \in SinceNotes' <=> x \in SinceNotes \/ (n.do = "since" /\ x = n.since)
      /\ notes \in Seq(NoteKinds) /\ notes' = Append(notes, n) /\ Len(notes) \in Nat
  BY <1>0, <1>4, NoteAdds DEF DiskShape, Note
<1>6. SinceNotes' = SinceNotes /\ Marks' = Marks
  BY <1>4, <1>5, <1>1 DEF Marks
<1>7. Live' \subseteq synced /\ synced \subseteq Live
  <2>1. ASSUME NEW t, NEW s, WillSay(notes', s, t) PROVE FALSE
    BY <1>5, <2>1, <1>4, SaysLast
  <2> QED BY <1>1, <2>1 DEF Live
<1>8. DiskShape'
  BY <1>1, <1>0, <1>3, <1>5 DEF DiskShape
<1>9. NothingIsAhead'
  BY <1>0, <1>1, <1>3, <1>6 DEF DiskShape, NothingIsAhead
<1>10. writes = <<>> \/ holes = DiskTables
  BY <1>0, EmptySeq, <1>1 DEF DiskShape, LateIsExcused
<1>11. QuietIsEmpty' /\ OneWipe' /\ LateIsExcused'
  <2>1. OneWipe'
    <3>1. ASSUME NEW i \in 1..Len(notes'), NEW j \in 1..Len(notes'), notes'[i] = WipeNote, i < j
          PROVE  FALSE
      BY <1>5, <3>1, <1>0, <1>1 DEF Wiping, OneWipe
    <3> QED BY <1>1, <3>1 DEF OneWipe
  <2> QED BY <1>1, <1>2, <1>10, <2>1 DEF QuietIsEmpty, LateIsExcused
<1>12. ErasHold'
  BY <1>1, <1>3, <1>0 DEF Aged, ErasHold
<1>13. ShapesHold'
  BY <1>1, <1>3, <1>0, <1>2 DEF Shaped, ShapesHold
<1>14. LiveIsAsked' /\ AnswersFollow' /\ FramesInOrder'
  BY <1>0, <1>1, <1>6, <1>7 DEF LiveIsAsked, AnswersFollow, FramesInOrder
<1>15. TablesFollow'
  BY <1>1 DEF TablesFollow
<1>16. DiskFollows'
  <2> SUFFICES ASSUME NEW t \in synced \ holes, NEW k \in {stored.since} \cup SinceNotes, truth[t] <= k
               PROVE  stored.rows[t].clock = truth[t]
    BY <1>1, <1>2, <1>6 DEF DiskFollows
  <2>1. t \in Live \ holes /\ k \in Marks /\ writes = <<>>
    BY <1>0, <1>7, <1>10 DEF Marks, DiskShape
  <2>2. held[t].clock = truth[t] /\ WillKeep(writes, stored.rows[t], t, held[t].clock)
    BY <1>0, <1>1, <1>2, <2>1 DEF TablesFollow
  <2>3. \A j \in 1..Len(writes) : writes[j].t # t
    BY <2>1
  <2>4. writes \in Seq(Puttings)
    BY <1>0 DEF DiskShape
  <2>5. stored.rows[t].clock = held[t].clock
    BY <2>2, <2>3, <2>4, KeptIsThere
  <2> QED BY <2>2, <2>5
<1> QED BY <1>8, <1>9, <1>11, <1>12, <1>13, <1>14, <1>15, <1>16 DEF DiskIInv

\* The disk is clear, and with it the rest of memory.
LEMMA ClearedKeeps ==
  ASSUME DiskIInv, Cleared
  PROVE  DiskIInv'
<1>0. DiskShape /\ QuietIsEmpty /\ NothingIsAhead /\ LateIsExcused /\ ErasHold /\ ShapesHold /\ OneWipe
      /\ TablesFollow /\ LiveIsAsked /\ AnswersFollow /\ FramesInOrder /\ DiskFollows
  BY DEF DiskIInv
<1>1. /\ truth' = truth /\ serverNow' = serverNow /\ asked' = asked /\ linked' = linked
      /\ watermark' = 0 /\ frames' = frames /\ held' = held /\ holes' = holes
      /\ writes' = writes /\ release' = release /\ orphans' = orphans /\ waits' = waits
      /\ handler' = handler /\ lastCleared' = era /\ stored' = BlankDisk /\ era' = era
      /\ forgot' = TRUE /\ inited' = FALSE /\ renewed' = renewed /\ synced' = {} /\ diskLeft' = diskLeft
      /\ tab' = "up" /\ notes # <<>> /\ Head(notes) = WipeNote /\ notes' = Tail(notes)
  BY DEF Cleared, remote, network
<1>2. Handling'
  BY <1>1 DEF Handling
<1>3. NoRows \in [DiskTables -> DiskRow] /\ \A t \in DiskTables : NoRows[t].clock = 0
  BY DEF NoRows, Absent, DiskRow
<1>4. stored'.rows = NoRows /\ stored'.since = 0 /\ stored'.subs = {} /\ stored'.version = 0
  BY <1>1 DEF BlankDisk
<1>5. /\ notes \in Seq(NoteKinds) /\ Len(notes) \in Nat \ {0} /\ notes[1] = WipeNote
      /\ Tail(notes) \in Seq(NoteKinds) /\ Len(Tail(notes)) = Len(notes) - 1
      /\ \A i \in 1..Len(Tail(notes)) : Tail(notes)[i] = notes[i + 1] /\ i + 1 \in 1..Len(notes)
      /\ DOMAIN notes = 1..Len(notes) /\ DOMAIN Tail(notes) = 1..Len(Tail(notes))
  BY <1>0, <1>1, QueueStarts DEF DiskShape
<1>6. tab = "wipe" /\ Handling
  <2>1. Wiping
    BY <1>5 DEF Wiping
  <2> QED BY <1>0, <2>1 DEF OneWipe, Handling
<1>7. \A j \in 1..Len(Tail(notes)) : Tail(notes)[j].do = "since"
  <2> SUFFICES ASSUME NEW j \in 1..Len(Tail(notes)) PROVE Tail(notes)[j].do = "since"
    OBVIOUS
  <2>1. j + 1 \in 1..Len(notes) /\ 1 \in 1..Len(notes) /\ 1 < j + 1 /\ Tail(notes)[j] = notes[j + 1]
    BY <1>5
  <2> QED BY <1>0, <1>5, <2>1 DEF OneWipe
<1>8. ~Wiping' /\ SinceNotes' \subseteq SinceNotes
  <2>1. ~Wiping'
    BY <1>1, <1>5, <1>7 DEF Wiping, WipeNote
  <2>2. ASSUME NEW x \in SinceNotes' PROVE x \in SinceNotes
    <3>1. PICK i \in 1..Len(Tail(notes)) : Tail(notes)[i].do = "since" /\ x = Tail(notes)[i].since
      BY <1>1, <1>5, <2>2 DEF SinceNotes
    <3>2. i + 1 \in DOMAIN notes /\ notes[i + 1].do = "since" /\ x = notes[i + 1].since
      BY <1>5, <3>1
    <3> QED BY <3>2 DEF SinceNotes
  <2> QED BY <2>1, <2>2
<1>9. Live' = {}
  <2>1. ASSUME NEW t, WillSay(notes', stored'.subs, t) PROVE FALSE
    <3> DEFINE ns == Tail(notes)
               s == {}
    <3>1. ns \in Seq(NoteKinds) /\ WillSay(ns, s, t) /\ \A j \in 1..Len(ns) : ns[j].do = "since"
      BY <1>1, <1>4, <1>5, <1>7, <2>1
    <3> HIDE DEF ns, s
    <3>2. t \in s
      BY <3>1, SaysOnly
    <3> QED BY <3>2 DEF s
  <2> QED BY <1>1, <2>1 DEF Live
<1>10. \A n \in Marks' : n \in Marks \/ n = 0
  BY <1>1, <1>4, <1>8 DEF Marks
<1>11. DiskShape'
  <2>1. stored' \in [rows : [DiskTables -> DiskRow], since : Nat, subs : SUBSET DiskTables, version : 0..release]
    BY <1>0, <1>1, <1>3 DEF DiskShape, BlankDisk
  <2>2. inited' \in BOOLEAN /\ forgot' \in BOOLEAN
    BY <1>1
  <2>3. watermark' \in Nat
    BY <1>1
  <2>4. synced' \in SUBSET DiskTables
    BY <1>1
  <2>5. era \in 0..era
    BY <1>0 DEF DiskShape
  <2> QED BY <1>0, <1>1, <1>5, <2>1, <2>2, <2>3, <2>4, <2>5 DEF DiskShape
<1>12. NothingIsAhead'
  <2>1. \A t \in DiskTables : stored'.rows[t].clock <= truth[t]
    BY <1>0, <1>3, <1>4 DEF DiskShape
  <2>2. \A n \in Marks' : n <= serverNow
    BY <1>0, <1>10 DEF DiskShape, NothingIsAhead
  <2>3. \A t \in DiskTables : held[t].clock <= truth[t]
    BY <1>0 DEF NothingIsAhead
  <2> QED BY <1>0, <1>1, <2>1, <2>2, <2>3 DEF NothingIsAhead
<1>13. QuietIsEmpty' /\ OneWipe' /\ LateIsExcused'
  BY <1>1, <1>7, <1>8, <1>0, <1>2 DEF OneWipe, QuietIsEmpty, LateIsExcused
<1>14. ErasHold'
  BY <1>0, <1>3, <1>4, <1>6, <1>1 DEF ErasHold, Aged
<1>15. ShapesHold'
  BY <1>1 DEF ShapesHold
<1>16. LiveIsAsked' /\ AnswersFollow'
  BY <1>0, <1>1, <1>9 DEF LiveIsAsked, AnswersFollow
<1>17. FramesInOrder'
  <2> SUFFICES ASSUME NEW t \in DiskTables PROVE InOrder(frames, t, truth[t], Marks')
    BY <1>1 DEF FramesInOrder
  <2>1. InOrder(frames, t, truth[t], Marks)
    BY <1>0 DEF FramesInOrder
  <2>2. \A n \in Marks' : n \in Marks \/ ~(truth[t] <= n)
    BY <1>0, <1>10 DEF DiskShape
  <2> QED BY <2>1, <2>2, OrderLess
<1>18. TablesFollow' /\ DiskFollows'
  BY <1>1, <1>2, <1>9 DEF TablesFollow, DiskFollows
<1> QED BY <1>11, <1>12, <1>13, <1>14, <1>15, <1>16, <1>17, <1>18 DEF DiskIInv

\* A page is gone: what the disk has not been told of a table is excused.
LEMMA PageEndsKeeps ==
  ASSUME DiskIInv, PageEnds, diskLeft' \in [DOMAIN DiskBound[handler] -> Nat]
  PROVE  DiskIInv'
<1>0. DiskShape /\ QuietIsEmpty /\ NothingIsAhead /\ LateIsExcused /\ ErasHold /\ ShapesHold /\ OneWipe
      /\ TablesFollow /\ LiveIsAsked /\ AnswersFollow /\ FramesInOrder /\ DiskFollows
  BY DEF DiskIInv
<1>1. /\ truth' = truth /\ serverNow' = serverNow /\ asked' = {} /\ linked' = FALSE
      /\ watermark' = 0 /\ frames' = <<>> /\ held' = NoRows
      /\ writes' = <<>> /\ release' = release /\ orphans' = <<>> /\ waits' = 0
      /\ handler' = handler /\ lastCleared' = lastCleared /\ stored' = stored /\ era' = era
      /\ forgot' = forgot /\ inited' = FALSE /\ renewed' = {} /\ synced' = {}
      /\ tab' = "off" /\ notes' = <<>>
      /\ holes' = holes \cup {q.t : q \in ToSet(writes) \cup ToSet(orphans)} \cup (stored.subs \ synced)
  BY DEF PageEnds, remote
<1>2. ~Handling'
  BY <1>1 DEF Handling
<1>3. NoRows \in [DiskTables -> DiskRow] /\ \A t \in DiskTables : NoRows[t].clock = 0
  BY DEF NoRows, Absent, DiskRow
<1>4. writes \in Seq(Puttings) /\ orphans \in Seq(Puttings)
  BY <1>0 DEF DiskShape
<1>5. \A q \in ToSet(writes) \cup ToSet(orphans) : q \in Puttings
  BY <1>4 DEF ToSet
<1>6. \A i \in 1..Len(writes) : writes[i] \in ToSet(writes)
  BY <1>4 DEF ToSet
<1>7. holes' \in SUBSET DiskTables
  BY <1>5, <1>0, <1>1 DEF Puttings, DiskShape
<1>8. SinceNotes' = {} /\ Marks' = {0, stored.since}
  BY <1>1 DEF SinceNotes, Marks
<1>9. DiskShape'
  <2>1. writes' \in Seq(Puttings) /\ orphans' \in Seq(Puttings) /\ notes' \in Seq(NoteKinds) /\ frames' \in Seq(FrameKinds)
        /\ waits' \in 0..Len(writes')
    BY <1>1
  <2>2. inited' \in BOOLEAN /\ linked' \in BOOLEAN
    BY <1>1
  <2>3. synced' \in SUBSET DiskTables /\ renewed' \in SUBSET DiskTables /\ asked' \in SUBSET DiskTables
    BY <1>1
  <2>4. watermark' \in Nat
    BY <1>1
  <2> QED BY <1>0, <1>1, <1>3, <1>7, <2>1, <2>2, <2>3, <2>4 DEF DiskShape
<1>10. NothingIsAhead'
  <2>1. \A t \in DiskTables : NoRows[t].clock <= truth[t] /\ stored.rows[t].clock <= truth[t]
    BY <1>0, <1>3 DEF DiskShape, NothingIsAhead
  <2>2. \A n \in Marks' : n <= serverNow
    <3>1. 0 <= serverNow /\ stored.since <= serverNow
      BY <1>0 DEF DiskShape, NothingIsAhead, Marks
    <3> QED BY <1>8, <3>1
  <2>3. Len(writes') = 0 /\ Len(orphans') = 0 /\ Len(frames') = 0
    BY <1>1
  <2> QED BY <1>1, <2>1, <2>2, <2>3 DEF NothingIsAhead
<1>11. QuietIsEmpty' /\ OneWipe' /\ LateIsExcused'
  BY <1>1 DEF QuietIsEmpty, OneWipe, LateIsExcused, Wiping
<1>12. ErasHold' /\ ShapesHold'
  BY <1>1, <1>3, <1>0, <1>2 DEF Aged, Shaped, ErasHold, ShapesHold
<1>13. FramesInOrder' /\ AnswersFollow' /\ LiveIsAsked' /\ TablesFollow'
  BY <1>1, <1>2, NothingComes DEF FramesInOrder, AnswersFollow, LiveIsAsked, TablesFollow
<1>14. DiskFollows'
  <2> SUFFICES ASSUME NEW t \in stored.subs \ holes', truth[t] <= stored.since
               PROVE  stored.rows[t].clock = truth[t]
    BY <1>1, <1>2, <1>8 DEF DiskFollows
  <2>1. t \in synced \ holes /\ t \in DiskTables
    BY <1>0, <1>1 DEF DiskShape
  <2>2. CASE ~Handling \/ tab = "wipe"
    BY <1>0, <2>1, <2>2 DEF DiskFollows
  <2>3. CASE Handling /\ tab # "wipe"
    BY <2>1, <1>0, <2>3, <1>1, <1>6, <1>4, KeptIsThere DEF Live, Marks, TablesFollow
  <2> QED BY <2>2, <2>3
<1> QED BY <1>9, <1>10, <1>11, <1>12, <1>13, <1>14 DEF DiskIInv

\* One step, for each action.
LEMMA DiskSteps == DiskIInv /\ [DiskNext]_diskVars => DiskIInv'
<1> SUFFICES ASSUME DiskIInv, [DiskNext]_diskVars PROVE DiskIInv'
  OBVIOUS
<1>0. DiskShape
  BY DEF DiskIInv
<1>1. CASE Boots
  BY <1>1, QuietSteps, HydrateKeeps, InitAgainKeeps DEF Boots
<1>2. CASE Uses_
  <2>1. PICK t \in DiskTables : ServerWrites(t) \/ Sync(t) \/ Unsync(t) \/ DropTable(t)
    BY <1>2 DEF Uses_
  <2> QED BY <2>1, ServerWritesKeeps, SyncKeeps, DropKeeps
<1>3. CASE Lives
  <2>1. CASE Clear \/ ClosePage
    BY <2>1, AwaitKeeps
  <2>2. CASE WipeStarts
    BY <2>2, WipeStartsKeeps
  <2>3. CASE Cleared
    BY <2>3, ClearedKeeps
  <2>4. CASE CrashPage
    BY <2>4, <1>0, SpendKeeps, PageEndsKeeps DEF CrashPage
  <2>5. CASE PageCloses
    BY <2>5, <1>0, PageEndsKeeps DEF PageCloses, DiskShape
  <2>6. CASE Release
    BY <2>6, QuietSteps
  <2> QED BY <1>3, <2>1, <2>2, <2>3, <2>4, <2>5, <2>6 DEF Lives
<1>4. CASE Connect
  BY <1>4, ConnectKeeps
<1>5. CASE LinkLost
  BY <1>5, LinkLostKeeps
<1>6. CASE ReceiveRows
  BY <1>6, ReceiveKeeps
<1>7. CASE CompleteArrives
  BY <1>7, CompleteKeeps
<1>8. CASE RowWritten
  BY <1>8, RowWrittenKeeps
<1>9. CASE OrphanWritten
  BY <1>9, OrphanWrittenKeeps
<1>10. CASE NoteWritten
  BY <1>10, NoteWrittenKeeps
<1>11. CASE UNCHANGED diskVars
  <2>1. /\ truth' = truth /\ serverNow' = serverNow /\ asked' = asked /\ linked' = linked
        /\ watermark' = watermark /\ frames' = frames /\ held' = held /\ holes' = holes
        /\ writes' = writes /\ release' = release /\ orphans' = orphans /\ waits' = waits
        /\ handler' = handler /\ lastCleared' = lastCleared /\ stored' = stored /\ era' = era
        /\ forgot' = forgot /\ inited' = inited /\ renewed' = renewed /\ synced' = synced /\ diskLeft' = diskLeft
        /\ tab' = tab /\ notes' = notes
    BY <1>11 DEF diskVars, remote, network, memory, queues, told
  <2>2. Handling' = Handling /\ SinceNotes' = SinceNotes /\ Marks' = Marks /\ Wiping' = Wiping /\ Live' = Live
    BY <2>1 DEF Handling, SinceNotes, Marks, Wiping, Live
  <2>3. DiskShape' /\ NothingIsAhead' /\ QuietIsEmpty' /\ OneWipe' /\ ErasHold' /\ LateIsExcused' /\ ShapesHold'
    BY <2>1, <2>2
       DEF DiskIInv, DiskShape, NothingIsAhead, QuietIsEmpty, OneWipe, ErasHold, LateIsExcused, ShapesHold
  <2>4. FramesInOrder' /\ LiveIsAsked' /\ AnswersFollow' /\ TablesFollow' /\ DiskFollows'
    BY <2>1, <2>2 DEF DiskIInv, FramesInOrder, LiveIsAsked, AnswersFollow, TablesFollow, DiskFollows
  <2> QED BY <2>3, <2>4 DEF DiskIInv
<1> QED BY <1>1, <1>2, <1>3, <1>4, <1>5, <1>6, <1>7, <1>8, <1>9, <1>10, <1>11 DEF DiskNext

\* What a page finds on its disk, and what a logout leaves of it.
THEOREM DiskAlwaysHolds == DiskSpec => []DiskInv
<1>1. DiskInit => DiskIInv
  BY DiskStarts
<1>2. DiskIInv /\ [DiskNext]_diskVars => DiskIInv'
  BY DiskSteps
<1>3. DiskIInv => DiskInv
  BY DiskIInvImplies
<1> QED BY <1>1, <1>2, <1>3, PTL DEF DiskSpec

-----------------------------------------------------------------------------
(* The parts together.                                                     *)

\* A behaviour of the client and its page is a behaviour of each of their parts.
LEMMA PartsAreTheirOwn == Spec => UseSpec /\ LiveSpec /\ HtmxSpec /\ DiskSpec
<1>1. Init => UseInit /\ LiveInit /\ HtmxInit /\ DiskInit
  BY DEF Init
<1>2. Next => [UseNext]_useVars /\ [LiveNext]_liveVars /\ [HtmxNext]_htmxVars /\ [DiskNext]_diskVars
  BY DEF Next, AllBut
<1>3. UNCHANGED <<part, useVars, htmxVars, textVars, liveVars, diskVars, queueVars>>
      => UNCHANGED useVars /\ UNCHANGED liveVars /\ UNCHANGED htmxVars /\ UNCHANGED diskVars
  OBVIOUS
<1> QED BY <1>1, <1>2, <1>3, PTL DEF Spec, UseSpec, LiveSpec, HtmxSpec, DiskSpec

\* What the hooks of a page are given: rows of what is subscribed for as long as
\* something uses it, and the events of peers while their time lasts.
THEOREM HooksAlwaysHold == "stored" \notin Bindings => (Spec => []HooksInv)
<1> SUFFICES ASSUME "stored" \notin Bindings PROVE Spec => []HooksInv
  OBVIOUS
<1>1. UseSpec => []UseInv
  BY UseAlwaysHolds
<1>2. LiveSpec => []LiveInv
  BY LiveAlwaysHolds
<1>3. UseInv /\ LiveInv => HooksInv
  BY DEF HooksInv
<1> QED BY <1>1, <1>2, <1>3, PartsAreTheirOwn, PTL

\* What htmx renders beside the other parts of the client: views of the rows as they are
\* and boxes that tell them, once nothing is on its way.
THEOREM ViewsAlwaysHold == Spec => []HtmxInv
<1> QED BY HtmxAlwaysHolds, PartsAreTheirOwn, PTL

\* What a page finds on its disk beside the other parts of the client: nothing it has
\* wiped, no row of an older schema, and after a resume the rows the server has.
THEOREM DiskAlwaysFollows == Spec => []DiskInv
<1> QED BY DiskAlwaysHolds, PartsAreTheirOwn, PTL
=============================================================================
