----------------------------- MODULE PeerFrames -----------------------------
(*************************************************************************)
(* The route of ephemeral frames when a peer mesh is attached: the       *)
(* router of src/client/webrtc.ts, which sends every frame to the peers  *)
(* it has a direct connection with and a throttled copy to the server,   *)
(* and receiveEphemeral of src/client/sync-client.ts, which drops a      *)
(* frame older than one it has shown.                                    *)
(*                                                                       *)
(* One sender, one key.  A frame is its sequence number.  Direct frames  *)
(* may be lost and overtake each other; the server path is in order.     *)
(*************************************************************************)
EXTENDS Naturals, Sequences, FiniteSets, SequencesExt

CONSTANTS Viewers,      \* the other clients of the room
          MaxFrames,    \* bound: frames sent
          MaxMoves      \* bound: direct connections made and lost, departures

ASSUME FramesAssumption == MaxFrames \in Nat /\ MaxMoves \in Nat

VARIABLES
  frameSeq,    \* the last sequence number given
  autoSeq,     \* history: the last frame sent on route "auto"
  parked,      \* trailing: the frame waiting for the throttle, 0 if none
  recent,      \* a copy went to the server within the last interval
  present,     \* viewers in the room
  aware,       \* known: viewers the mesh has heard of, and not forgotten
  direct,      \* those it has a direct connection with
  inAir,       \* per viewer: direct frames on their way
  upstream,    \* frames on their way to the server
  stored,      \* the server's copy of the key, for who joins; 0 if none
  downstream,  \* per viewer: frames on their way from the server
  seen,        \* per viewer: ephemeralSeen
  shown,       \* per viewer: what its listeners were told last
  movesLeft

routerVars == <<frameSeq, autoSeq, parked, recent>>
wireVars   == <<inAir, upstream, stored, downstream>>
viewerVars == <<seen, shown>>
framesVars == <<routerVars, present, aware, direct, wireVars, viewerVars, movesLeft>>

Frames == 0..MaxFrames

FramesTypeOK ==
  /\ {frameSeq, autoSeq, parked, stored} \subseteq Frames
  /\ {recent} \subseteq BOOLEAN
  /\ direct \subseteq aware \cap present /\ aware \cup present \subseteq Viewers
  /\ inAir \in [Viewers -> SUBSET Frames]
  /\ upstream \in Seq(Frames) /\ downstream \in [Viewers -> Seq(Frames)]
  /\ seen \in [Viewers -> Frames] /\ shown \in [Viewers -> Frames]
  /\ movesLeft \in 0..MaxMoves

-----------------------------------------------------------------------------
\* Every peer the mesh knows of gets frames directly.
EveryoneDirect == aware # {} /\ aware \subseteq direct

ToServer(f) == upstream' = Append(upstream, f)

\* A frame leaves on the direct connections; a congested channel is skipped.
ToPeers(f) ==
  \E taken \in SUBSET direct :
    inAir' = [v \in Viewers |-> IF v \in taken THEN inAir[v] \cup {f} ELSE inAir[v]]

\* Route "p2p": the direct connections and nothing else.
SendDirect ==
  /\ frameSeq < MaxFrames
  /\ frameSeq' = frameSeq + 1
  /\ ToPeers(frameSeq')
  /\ UNCHANGED <<autoSeq, parked, recent, present, aware, direct, upstream, stored, downstream,
                 viewerVars, movesLeft>>

\* The copy to the server: at once while anybody depends on it, and then what is
\* parked is dropped; else at most once an interval, the newest frame parked for
\* the trailing edge.
Throttle(f) ==
  CASE ~EveryoneDirect -> ToServer(f) /\ parked' = 0 /\ recent' = TRUE
    [] EveryoneDirect /\ ~recent /\ parked = 0 -> ToServer(f) /\ recent' = TRUE /\ UNCHANGED parked
    [] OTHER -> parked' = f /\ UNCHANGED <<upstream, recent>>

\* Route "auto": the direct connections, and a copy to the server.
SendAuto ==
  /\ frameSeq < MaxFrames
  /\ frameSeq' = frameSeq + 1 /\ autoSeq' = frameSeq'
  /\ ToPeers(frameSeq') /\ Throttle(frameSeq')
  /\ UNCHANGED <<present, aware, direct, stored, downstream, viewerVars, movesLeft>>

\* The interval ends: the parked frame goes, and starts another.
IntervalEnds ==
  /\ recent \/ parked # 0
  /\ IF parked # 0
     THEN ToServer(parked) /\ parked' = 0 /\ recent' = TRUE
     ELSE recent' = FALSE /\ UNCHANGED <<upstream, parked>>
  /\ UNCHANGED <<frameSeq, autoSeq, present, aware, direct, inAir, stored, downstream, viewerVars,
                 movesLeft>>

\* handleEphemeral: the server keeps the frame, and fans it out.
ServerFansOut ==
  /\ upstream # <<>> /\ upstream' = Tail(upstream)
  /\ stored' = Head(upstream)
  /\ downstream' = [v \in Viewers |->
       IF v \in present THEN Append(downstream[v], Head(upstream)) ELSE downstream[v]]
  /\ UNCHANGED <<routerVars, present, aware, direct, inAir, viewerVars, movesLeft>>

-----------------------------------------------------------------------------
\* Mutant: frames are shown as they come.
ReceiveInTurn(v, f) ==
  /\ seen' = [seen EXCEPT ![v] = f] /\ shown' = [shown EXCEPT ![v] = f]

\* receiveEphemeral: a frame not newer than one delivered is dropped.
ReceiveEphemeral(v, f) ==
  IF f <= seen[v] THEN UNCHANGED viewerVars
  ELSE seen' = [seen EXCEPT ![v] = f] /\ shown' = [shown EXCEPT ![v] = f]

FromPeer(v) ==
  \E f \in inAir[v] :
    /\ inAir' = [inAir EXCEPT ![v] = @ \ {f}]
    /\ ReceiveEphemeral(v, f)
    /\ UNCHANGED <<routerVars, present, aware, direct, upstream, stored, downstream, movesLeft>>

LosesFrame(v) ==
  \E f \in inAir[v] :
    /\ inAir' = [inAir EXCEPT ![v] = @ \ {f}]
    /\ UNCHANGED <<routerVars, present, aware, direct, upstream, stored, downstream, viewerVars,
                   movesLeft>>

FromServer(v) ==
  /\ downstream[v] # <<>>
  /\ downstream' = [downstream EXCEPT ![v] = Tail(@)]
  /\ ReceiveEphemeral(v, Head(downstream[v]))
  /\ UNCHANGED <<routerVars, present, aware, direct, inAir, upstream, stored, movesLeft>>

\* A viewer comes: it is sent what the server has of the key.
Joins(v) ==
  /\ v \notin present /\ movesLeft > 0 /\ movesLeft' = movesLeft - 1
  /\ present' = present \cup {v}
  /\ downstream' = [downstream EXCEPT ![v] = IF stored = 0 THEN <<>> ELSE <<stored>>]
  /\ UNCHANGED <<routerVars, aware, direct, inAir, upstream, stored, viewerVars>>

\* Its presence is heard of; or it has been silent, and is not connected.
Learns(v) ==
  /\ v \in present \ aware /\ aware' = aware \cup {v}
  /\ UNCHANGED <<routerVars, present, direct, wireVars, viewerVars, movesLeft>>

Forgets(v) ==
  /\ v \in aware \ (present \cup direct) /\ aware' = aware \ {v}
  /\ UNCHANGED <<routerVars, present, direct, wireVars, viewerVars, movesLeft>>

\* A viewer goes for good; its connection takes its frames along, and when it had
\* one, peerLeft forgets it.
Departs(v) ==
  /\ v \in present /\ movesLeft > 0 /\ movesLeft' = movesLeft - 1
  /\ present' = present \ {v} /\ direct' = direct \ {v}
  /\ aware' = IF v \in direct THEN aware \ {v} ELSE aware
  /\ inAir' = [inAir EXCEPT ![v] = {}] /\ downstream' = [downstream EXCEPT ![v] = <<>>]
  /\ seen' = [seen EXCEPT ![v] = 0] /\ shown' = [shown EXCEPT ![v] = 0]
  /\ UNCHANGED <<routerVars, upstream, stored>>

\* A direct connection opens, or drops (its frames may still arrive).
Connects(v) ==
  /\ v \in (present \cap aware) \ direct /\ direct' = direct \cup {v}
  /\ movesLeft > 0 /\ movesLeft' = movesLeft - 1
  /\ UNCHANGED <<routerVars, present, aware, wireVars, viewerVars>>

Drops(v) ==
  /\ v \in direct /\ direct' = direct \ {v}
  /\ movesLeft > 0 /\ movesLeft' = movesLeft - 1
  /\ UNCHANGED <<routerVars, present, aware, wireVars, viewerVars>>

-----------------------------------------------------------------------------
FramesInit ==
  /\ frameSeq = 0 /\ autoSeq = 0 /\ parked = 0 /\ recent = FALSE
  /\ present = {} /\ aware = {} /\ direct = {}
  /\ inAir = [v \in Viewers |-> {}] /\ upstream = <<>> /\ stored = 0
  /\ downstream = [v \in Viewers |-> <<>>]
  /\ seen = [v \in Viewers |-> 0] /\ shown = [v \in Viewers |-> 0]
  /\ movesLeft = MaxMoves

FramesNext ==
  \/ SendDirect \/ SendAuto \/ IntervalEnds \/ ServerFansOut
  \/ \E v \in Viewers : FromPeer(v) \/ LosesFrame(v) \/ FromServer(v) \/ Joins(v)
                          \/ Learns(v) \/ Forgets(v) \/ Departs(v) \/ Connects(v) \/ Drops(v)

FramesSpec == FramesInit /\ [][FramesNext]_framesVars

-----------------------------------------------------------------------------
\* With nothing on its way and the throttle at rest, everybody in the room shows
\* the newest frame sent on route "auto" or a later one, whatever was lost on the
\* direct connections (router.send: "the newest frame always reaches the server").
NewestShows ==
  (upstream = <<>> /\ parked = 0) =>
    \A v \in present : downstream[v] = <<>> => shown[v] >= autoSeq

\* What a viewer shows never goes back (receiveEphemeral), whichever way frames
\* overtake each other.
NeverOlder ==
  [][\A v \in present : v \in present' => shown[v] <= shown'[v]]_framesVars

\* Of the frames of a publisher a viewer shows the newest once all is quiet, and
\* never one older than it has shown (handleEphemeral, fanOutEphemeral).
\* Each as stated above.
FramesHold == [](FramesTypeOK /\ NewestShows) /\ NeverOlder
=============================================================================
