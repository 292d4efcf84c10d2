------------------------------ MODULE PeerMesh ------------------------------
(*************************************************************************)
(* Two peer meshes of src/client/webrtc.ts, "lo" with the lower clientId *)
(* and "hi": how they find each other, the perfect negotiation of offers *)
(* and answers, and the life of the connection: opening, ICE restarts,   *)
(* giving up, the peer leaving.                                          *)
(*                                                                       *)
(* One pair: maxPeers is not reached.  ICE candidates are left out: they *)
(* follow their description.  A description is named by the connections  *)
(* it is between; its chunks are left out: a chunk lost is the           *)
(* description lost.  The server passes signals on in order.  What       *)
(* RTCPeerConnection does is modelled from how createPeerMesh drives it. *)
(*************************************************************************)
EXTENDS Naturals, Sequences, FiniteSets, SequencesExt

CONSTANTS MeshBound   \* lost signals, renegotiations, dropped links, closed tabs, connections

ASSUME MeshAssumption ==
  MeshBound \in [{"losses", "changes", "drops", "closes", "opens"} -> Nat]

MeshSides == {"lo", "hi"}
FarSide(s) == IF s = "lo" THEN "hi" ELSE "lo"

VARIABLES
  meshAlive,      \* the meshes not destroyed
  met,     \* known: the meshes that know of the other one
  peer,       \* each mesh's Peer for the other
  signals,      \* signals on their way to a mesh, through the server
  packets,       \* whether packets pass between the current connections
  meshLeft,
  meshLost    \* history: a signal was lost

meshVars == <<meshAlive, met, peer, signals, packets, meshLeft, meshLost>>

\* A Peer: its state; the number of its RTCPeerConnection; what is negotiated
\* (signalingState, the remote connection whose description it has, and whose
\* offer it settled on last); whether a
\* negotiation is needed, an offer is being made, an answer is; its timer; the
\* restarts it has tried; whether its cool-down is over.
NoPeer == [state |-> "none", pc |-> 0, sig |-> "stable", remote |-> 0, last |-> "nobody", need |-> FALSE,
           making |-> FALSE, answering |-> FALSE, timer |-> "none", restarts |-> 0,
           cool |-> FALSE]

Descriptions == [t : {"offer", "answer"}, pc : Nat, of : Nat] \cup [t : {"hello"}]
MaxIceRestarts == 2

MeshTypeOK ==
  /\ meshAlive \subseteq MeshSides /\ met \subseteq MeshSides
  /\ peer \in [MeshSides ->
       [state : {"none", "connecting", "connected", "server-only"}, pc : Nat,
        sig : {"stable", "have-local-offer", "have-remote-offer"}, remote : Nat,
        last : MeshSides \cup {"nobody"}, need : BOOLEAN,
        making : BOOLEAN, answering : BOOLEAN, timer : {"none", "connect", "lost"},
        restarts : 0..MaxIceRestarts, cool : BOOLEAN]]
  /\ signals \in [MeshSides -> Seq(Descriptions)]
  /\ packets \in BOOLEAN /\ meshLost \in BOOLEAN
  /\ meshLeft \in [DOMAIN MeshBound -> Nat]
  /\ \A s \in MeshSides \ meshAlive : peer[s] = NoPeer

SpendMesh(b) == meshLeft[b] > 0 /\ meshLeft' = [meshLeft EXCEPT ![b] = @ - 1]
SetPeer(s, p) == peer' = [peer EXCEPT ![s] = p]
SendSignal(s, m) == signals' = [signals EXCEPT ![FarSide(s)] = Append(@, m)]
Polite(s) == s = "hi"
HasPc(s) == peer[s].state \in {"connecting", "connected"}

\* Each side has the description of the other's connection.
Paired ==
  /\ HasPc("lo") /\ HasPc("hi")
  /\ peer["lo"].remote = peer["hi"].pc /\ peer["hi"].remote = peer["lo"].pc

-----------------------------------------------------------------------------
(* Finding each other.                                                     *)

\* openPeer: a fresh connection; its opener has a data channel to negotiate.
Opened(s) ==
  [NoPeer EXCEPT !.state = "connecting", !.pc = MeshBound["opens"] - meshLeft["opens"] + 1,
                 !.timer = "connect", !.need = (s = "lo")]

\* A peer given up on is tried again once its cool-down has passed.
Retryable(s) == peer[s].state = "server-only" /\ peer[s].cool
Absent(s) == peer[s].state = "none" \/ Retryable(s)

\* onPresence: the lower id opens; the higher says hello to one it did not know.
HearsPresence(s) ==
  /\ meshAlive = MeshSides
  /\ Absent(s) /\ met' = met \cup {s}
  /\ \/ s = "lo" /\ SpendMesh("opens") /\ SetPeer(s, Opened(s)) /\ UNCHANGED signals
     \/ /\ s = "hi" /\ SetPeer(s, NoPeer)
        /\ IF s \in met THEN UNCHANGED signals ELSE SendSignal(s, [t |-> "hello"])
        /\ UNCHANGED meshLeft
  /\ UNCHANGED <<meshAlive, packets, meshLost>>

-----------------------------------------------------------------------------
(* Negotiation.                                                            *)

\* Something about the connection has to be negotiated: a track, say.
Changes(s) ==
  /\ peer[s].state = "connected" /\ ~peer[s].need /\ SpendMesh("changes")
  /\ SetPeer(s, [peer[s] EXCEPT !.need = TRUE])
  /\ UNCHANGED <<meshAlive, met, signals, packets, meshLost>>

\* onnegotiationneeded fires when nothing is being negotiated; createOffer runs.
OfferStarts(s) ==
  /\ HasPc(s) /\ peer[s].need /\ peer[s].sig = "stable" /\ ~peer[s].making
  /\ SetPeer(s, [peer[s] EXCEPT !.need = FALSE, !.making = TRUE])
  /\ UNCHANGED <<meshAlive, met, signals, packets, meshLeft, meshLost>>

\* The offer is made: unless one has come meanwhile, it is set and sent.
OfferMade(s) ==
  /\ peer[s].making
  /\ IF peer[s].sig = "have-remote-offer"
     THEN SetPeer(s, [peer[s] EXCEPT !.making = FALSE, !.need = TRUE]) /\ UNCHANGED signals
     ELSE /\ SetPeer(s, [peer[s] EXCEPT !.making = FALSE, !.sig = "have-local-offer"])
          /\ SendSignal(s, [t |-> "offer", pc |-> peer[s].pc, of |-> 0])
  /\ UNCHANGED <<meshAlive, met, packets, meshLeft, meshLost>>

\* Mutant: a collision is not looked for.
NoCollision(s) == FALSE

Collision(s) == peer[s].making \/ peer[s].sig # "stable"

\* A description of a connection other than the one it was negotiated with fails.
Fits(s, m) == peer[s].remote \in {0, m.pc}

\* applyDescription, an offer: the impolite side ignores one that collides with its
\* own, the polite one rolls its own back, to make it again.
TakesOffer(s, m, p) ==
  IF (Collision(s) /\ ~Polite(s)) \/ p.remote \notin {0, m.pc}
  THEN SetPeer(s, p)
  ELSE SetPeer(s, [p EXCEPT !.sig = "have-remote-offer", !.remote = m.pc, !.answering = TRUE,
                        !.need = @ \/ p.sig = "have-local-offer"])

\* handleSignal, one at a time.
HandleSignal(s) ==
  /\ s \in meshAlive /\ signals[s] # <<>> /\ ~peer[s].answering
  /\ LET m == Head(signals[s]) IN
     /\ signals' = [signals EXCEPT ![s] = Tail(@)]
     /\ \/ \* from a peer given up on, or unknown: dropped, or a connection is opened
           /\ ~HasPc(s)
           /\ \/ /\ Absent(s) /\ \/ m.t = "hello" /\ s = "lo"
                                 \/ m.t = "offer" /\ s = "hi"
                 /\ SpendMesh("opens")
                 /\ IF m.t = "hello" THEN SetPeer(s, Opened(s)) ELSE TakesOffer(s, m, Opened(s))
                 /\ met' = met \cup {s}
              \/ /\ \/ ~Absent(s)
                    \/ m.t = "answer" \/ (m.t = "hello" /\ s = "hi") \/ (m.t = "offer" /\ s = "lo")
                    \/ meshLeft["opens"] = 0
                 /\ SetPeer(s, IF Absent(s) THEN NoPeer ELSE peer[s])
                 /\ UNCHANGED <<met, meshLeft>>
        \/ /\ HasPc(s)
           /\ CASE m.t = "hello" -> UNCHANGED peer
                [] m.t = "offer" -> TakesOffer(s, m, peer[s])
                [] m.t = "answer" ->
                     IF peer[s].sig = "have-local-offer" /\ m.of = peer[s].pc /\ Fits(s, m)
                     THEN SetPeer(s, [peer[s] EXCEPT !.sig = "stable", !.remote = m.pc, !.last = s])
                     ELSE UNCHANGED peer
           /\ UNCHANGED <<met, meshLeft>>
  /\ UNCHANGED <<meshAlive, packets, meshLost>>

\* createAnswer and setLocalDescription.
AnswerMade(s) ==
  /\ peer[s].answering
  /\ SetPeer(s, [peer[s] EXCEPT !.answering = FALSE, !.sig = "stable", !.last = FarSide(s)])
  /\ SendSignal(s, [t |-> "answer", pc |-> peer[s].pc, of |-> peer[s].remote])
  /\ UNCHANGED <<meshAlive, met, packets, meshLeft, meshLost>>

\* A signal is lost: the server's rate limit, a socket that was closed.
LoseSignal(s) ==
  /\ signals[s] # <<>> /\ SpendMesh("losses")
  /\ signals' = [signals EXCEPT ![s] = Tail(@)]
  /\ meshLost' = TRUE
  /\ UNCHANGED <<meshAlive, met, peer, packets>>

-----------------------------------------------------------------------------
(* The connection.                                                         *)

\* ICE finds a way between two connections that know each other ...
PathOpens ==
  /\ ~packets /\ Paired /\ packets' = TRUE
  /\ UNCHANGED <<meshAlive, met, peer, signals, meshLeft, meshLost>>

\* ... and loses it.
PathDrops ==
  /\ packets /\ SpendMesh("drops") /\ packets' = FALSE
  /\ UNCHANGED <<meshAlive, met, peer, signals, meshLost>>

\* onChannelOpen: both channels are open, and the connection is up.
ChannelOpens(s) ==
  /\ packets /\ Paired /\ peer[s].state = "connecting"
  /\ SetPeer(s, [peer[s] EXCEPT !.state = "connected", !.restarts = 0, !.timer = "none"])
  /\ UNCHANGED <<meshAlive, met, signals, packets, meshLeft, meshLost>>

\* onConnectionState, disconnected: off the direct packets, for as long as the timer lets it.
ConnectionLost(s) ==
  /\ ~packets /\ peer[s].state = "connected"
  /\ SetPeer(s, [peer[s] EXCEPT !.state = "connecting", !.timer = "lost"])
  /\ UNCHANGED <<meshAlive, met, signals, packets, meshLeft, meshLost>>

\* onConnectionState, failed: ICE is restarted.
RestartIce(s) ==
  /\ ~packets /\ peer[s].state = "connecting" /\ peer[s].remote # 0
  /\ peer[s].restarts < MaxIceRestarts /\ ~peer[s].need
  /\ SetPeer(s, [peer[s] EXCEPT !.restarts = @ + 1, !.need = TRUE])
  /\ UNCHANGED <<meshAlive, met, signals, packets, meshLeft, meshLost>>

\* connectTimeoutMs: a connection that was never made is given up, one that was
\* made and lost is taken for a peer that left.
TimesOut(s) ==
  /\ peer[s].state = "connecting" /\ peer[s].timer # "none"
  /\ SetPeer(s, IF peer[s].timer = "connect" THEN [NoPeer EXCEPT !.state = "server-only"] ELSE NoPeer)
  /\ met' = IF peer[s].timer = "connect" THEN met ELSE met \ {s}
  /\ packets' = FALSE
  /\ UNCHANGED <<meshAlive, signals, meshLeft, meshLost>>

\* RETRY_AFTER_MS has passed.
CoolsDown(s) ==
  /\ peer[s].state = "server-only" /\ ~peer[s].cool
  /\ SetPeer(s, [peer[s] EXCEPT !.cool = TRUE])
  /\ UNCHANGED <<meshAlive, met, signals, packets, meshLeft, meshLost>>

\* peerLeft: the far connection was closed, which ICE or the channels tell.
FarClosed(s) ==
  /\ HasPc(s) /\ peer[s].remote # 0 /\ peer[FarSide(s)].pc # peer[s].remote
  /\ met' = met \ {s} /\ SetPeer(s, NoPeer)
  /\ UNCHANGED <<meshAlive, signals, packets, meshLeft, meshLost>>

\* destroy: the tab is closed.
Destroy(s) ==
  /\ s \in meshAlive /\ SpendMesh("closes")
  /\ meshAlive' = meshAlive \ {s} /\ SetPeer(s, NoPeer) /\ met' = met \ {s} /\ packets' = FALSE
  /\ signals' = [signals EXCEPT ![s] = <<>>]
  /\ UNCHANGED meshLost

\* The announce interval: a silent peer that is not connected is forgotten.
Prune(s) ==
  /\ s \in meshAlive /\ meshAlive # MeshSides /\ s \in met
  /\ peer[s].state \in {"none", "server-only"}
  /\ met' = met \ {s} /\ SetPeer(s, NoPeer)
  /\ UNCHANGED <<meshAlive, signals, packets, meshLeft, meshLost>>

-----------------------------------------------------------------------------
MeshInit ==
  /\ meshAlive = MeshSides /\ met = {} /\ peer = [s \in MeshSides |-> NoPeer]
  /\ signals = [s \in MeshSides |-> <<>>] /\ packets = FALSE
  /\ meshLeft = MeshBound /\ meshLost = FALSE

MeshNext ==
  \/ PathOpens \/ PathDrops
  \/ \E s \in MeshSides :
       \/ HearsPresence(s) \/ Changes(s) \/ OfferStarts(s) \/ OfferMade(s) \/ HandleSignal(s)
       \/ AnswerMade(s) \/ LoseSignal(s) \/ ChannelOpens(s) \/ ConnectionLost(s) \/ RestartIce(s)
       \/ TimesOut(s) \/ CoolsDown(s) \/ FarClosed(s) \/ Destroy(s) \/ Prune(s)

MeshSpec == MeshInit /\ [][MeshNext]_meshVars

-----------------------------------------------------------------------------
SignalsDelivered ==
  \A s \in MeshSides : signals[s] = <<>> /\ ~peer[s].making /\ ~peer[s].answering

\* Two connections that know each other have settled on the same offer once every
\* signal has been delivered, none lost: offers that meet neither undo each other
\* nor are both taken (applyDescription, "perfect negotiation").
NegotiationSettles ==
  SignalsDelivered /\ Paired /\ ~meshLost =>
    /\ \A s \in MeshSides : peer[s].sig = "stable"
    /\ peer["lo"].last = peer["hi"].last

\* A connection that is not up is waited for with a timer, and one that is up with
\* none: nobody stays "connecting" for ever, nor is torn down while it works
\* (openPeer, onChannelOpen, armLostTimer).
WaitsAreTimed == \A s \in MeshSides : (peer[s].state = "connecting") <=> (peer[s].timer # "none")

\* Two peers that negotiate at once end up agreeing, and a peer that waits for
\* the other has a timer that ends the wait (webrtc.ts).
\* Each as stated above.
MeshInv == MeshTypeOK /\ NegotiationSettles /\ WaitsAreTimed
=============================================================================
