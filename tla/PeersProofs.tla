---------------------------- MODULE PeersProofs ----------------------------
(***************************************************************************)
(* Theorems about what devices say to each other and to the server: frames *)
(* of presence, the mesh between two peers and the credentials it connects *)
(* with, the connections of a server, and what is delivered over them.     *)
(***************************************************************************)
EXTENDS MCPeers, FiniteSetTheorems, SequenceTheorems, WellFoundedInduction, TLAPS

-----------------------------------------------------------------------------
(* PeerFrames.                                                             *)

\* A viewer that is not in the room has no frame on its way, and shows none.
AbsentAreSilent ==
  \A v \in Viewers \ present : inAir[v] = {} /\ downstream[v] = <<>> /\ shown[v] = 0

\* The newest frame for the server is parked, or the last on its way, or stored.
ServerGetsNewest ==
  /\ parked # 0 => parked = autoSeq
  /\ parked = 0 => autoSeq = IF upstream = <<>> THEN stored ELSE upstream[Len(upstream)]

\* What the server stores is the last frame on its way to a viewer, or one it has.
ViewersGetStored ==
  \A v \in present :
    IF downstream[v] = <<>> THEN shown[v] >= stored ELSE downstream[v][Len(downstream[v])] = stored

FramesIInv ==
  /\ FramesTypeOK /\ autoSeq <= frameSeq /\ seen = shown
  /\ AbsentAreSilent /\ ServerGetsNewest /\ ViewersGetStored

\* The inductive invariant implies the one the run checks.
LEMMA FramesIInvImplies == FramesIInv => FramesTypeOK /\ NewestShows
  BY DEF FramesIInv, FramesTypeOK, NewestShows, ServerGetsNewest, ViewersGetStored, Frames

\* The invariant holds at the start, when no frame has been sent.
LEMMA FramesStarts == FramesInit => FramesIInv
<1> SUFFICES ASSUME FramesInit PROVE FramesIInv
  OBVIOUS
<1> USE FramesAssumption DEF FramesInit, Frames
<1>1. FramesTypeOK
  <2>1. {recent} \subseteq BOOLEAN
    BY Zenon
  <2> QED BY <2>1 DEF FramesTypeOK
<1>2. autoSeq <= frameSeq /\ seen = shown
  OBVIOUS
<1>3. AbsentAreSilent /\ ServerGetsNewest /\ ViewersGetStored
  BY DEF AbsentAreSilent, ServerGetsNewest, ViewersGetStored
<1> QED BY <1>1, <1>2, <1>3 DEF FramesIInv

\* What is left of a queue without its first frame ends as it did.
LEMMA TailEnds ==
  ASSUME NEW q \in Seq(Frames), q # <<>>
  PROVE  /\ Head(q) \in Frames /\ Tail(q) \in Seq(Frames)
         /\ Tail(q) = <<>> => q[Len(q)] = Head(q)
         /\ Tail(q) # <<>> => Tail(q)[Len(Tail(q))] = q[Len(q)]
<1>1. Len(q) \in Nat \ {0} /\ Len(Tail(q)) = Len(q) - 1 /\ Tail(q) \in Seq(Frames) /\ Head(q) = q[1]
  BY HeadTailProperties, EmptySeq
<1>2. \A i \in 1..Len(Tail(q)) : Tail(q)[i] = q[i+1]
  BY <1>1, HeadTailProperties
<1>3. Tail(q) = <<>> <=> Len(Tail(q)) = 0
  BY <1>1, EmptySeq
<1>4. 1 \in 1..Len(q) /\ (Len(q) # 1 => Len(q) - 1 \in 1..Len(Tail(q)))
  BY <1>1
<1> QED BY <1>1, <1>2, <1>3, <1>4

\* Appending a frame to a queue makes it the last.
LEMMA AppendEnds ==
  ASSUME NEW q \in Seq(Frames), NEW f \in Frames
  PROVE  Append(q, f) \in Seq(Frames) /\ Append(q, f) # <<>> /\ Append(q, f)[Len(Append(q, f))] = f
  BY AppendProperties

\* Receiving a frame takes a viewer forward, and no further than it goes.
LEMMA ReceiveForward ==
  ASSUME NEW v \in Viewers, NEW f \in Frames, seen = shown, shown \in [Viewers -> Frames],
         ReceiveEphemeral(v, f)
  PROVE  /\ seen' = shown' /\ shown' \in [Viewers -> Frames]
         /\ \A w \in Viewers : shown[w] <= shown'[w]
         /\ \A w \in Viewers \ {v} : shown'[w] = shown[w]
         /\ shown'[v] >= f
  BY DEF ReceiveEphemeral, viewerVars, Frames

\* Every step keeps the inductive invariant, and lets nobody in the room see an older frame.
LEMMA FramesStep ==
  ASSUME FramesIInv, FramesNext
  PROVE  FramesIInv' /\ \A v \in present : v \in present' => shown[v] <= shown'[v]
<1> USE FramesAssumption DEF FramesIInv, FramesTypeOK, Frames, routerVars, viewerVars, wireVars
<1>a. frameSeq < MaxFrames => frameSeq + 1 \in Frames
  OBVIOUS
<1>1. CASE SendDirect
  BY <1>1 DEF SendDirect, ToPeers, AbsentAreSilent, ServerGetsNewest, ViewersGetStored
<1>2. CASE SendAuto
  <2>1. /\ frameSeq' \in Frames /\ autoSeq' = frameSeq'
        /\ inAir' \in [Viewers -> SUBSET Frames]
        /\ \A v \in Viewers \ present : inAir'[v] = inAir[v]
    BY <1>2 DEF SendAuto, ToPeers
  <2>2. /\ Append(upstream, frameSeq') \in Seq(Frames) /\ Append(upstream, frameSeq') # <<>>
        /\ Append(upstream, frameSeq')[Len(Append(upstream, frameSeq'))] = frameSeq'
    BY <2>1, AppendEnds
  <2>3. frameSeq' # 0
    BY <1>2 DEF SendAuto
  <2>4. \/ upstream' = Append(upstream, frameSeq') /\ recent' = TRUE /\ parked' = 0
        \/ UNCHANGED <<upstream, recent>> /\ parked' = frameSeq'
    BY <1>2 DEF SendAuto, Throttle, ToServer
  <2>5. UNCHANGED <<present, aware, direct, stored, downstream, seen, shown, movesLeft>>
    BY <1>2 DEF SendAuto
  <2>9. {recent'} \subseteq BOOLEAN
    BY <2>4, Zenon
  <2>10. upstream' \in Seq(Frames) /\ parked' \in Frames
    <3>1. upstream' \in {Append(upstream, frameSeq'), upstream} /\ parked' \in {0, frameSeq'}
      BY <2>4
    <3>2. Append(upstream, frameSeq') \in Seq(Frames) /\ upstream \in Seq(Frames)
      BY <2>2
    <3>3. frameSeq' \in Frames /\ 0 \in Frames
      BY <2>1
    <3> HIDE DEF Frames
    <3> QED BY <3>1, <3>2, <3>3
  <2>6. FramesTypeOK'
    BY <2>1, <2>5, <2>9, <2>10
  <2>7. AbsentAreSilent' /\ ViewersGetStored'
    BY <2>1, <2>5 DEF AbsentAreSilent, ViewersGetStored
  <2>8. ServerGetsNewest'
    BY <2>1, <2>2, <2>3, <2>4 DEF ServerGetsNewest
  <2> QED BY <2>1, <2>5, <2>6, <2>7, <2>8
<1>3. CASE IntervalEnds
  <2>1. /\ Append(upstream, parked) \in Seq(Frames) /\ Append(upstream, parked) # <<>>
        /\ Append(upstream, parked)[Len(Append(upstream, parked))] = parked
    BY AppendEnds
  <2>4. \/ upstream' = Append(upstream, parked) /\ recent' = TRUE /\ parked' = 0 /\ parked # 0
        \/ UNCHANGED <<upstream, parked>> /\ recent' = FALSE
    BY <1>3 DEF IntervalEnds, ToServer
  <2>5. UNCHANGED <<frameSeq, autoSeq, inAir, present, aware, direct, stored, downstream, seen, shown, movesLeft>>
    BY <1>3 DEF IntervalEnds
  <2>9. {recent'} \subseteq BOOLEAN
    BY <2>4, Zenon
  <2>10. upstream' \in Seq(Frames) /\ parked' \in Frames
    <3>1. upstream' \in {Append(upstream, parked), upstream} /\ parked' \in {0, parked}
      BY <2>4
    <3>2. Append(upstream, parked) \in Seq(Frames) /\ upstream \in Seq(Frames)
      BY <2>1
    <3>3. parked \in Frames /\ 0 \in Frames
      OBVIOUS
    <3> HIDE DEF Frames
    <3> QED BY <3>1, <3>2, <3>3
  <2>6. FramesTypeOK'
    BY <2>5, <2>9, <2>10
  <2>7. AbsentAreSilent' /\ ViewersGetStored'
    BY <2>5 DEF AbsentAreSilent, ViewersGetStored
  <2>8. ServerGetsNewest'
    BY <2>1, <2>4, <2>5 DEF ServerGetsNewest
  <2> QED BY <2>5, <2>6, <2>7, <2>8
<1>4. CASE ServerFansOut
  <2>1. /\ Head(upstream) \in Frames /\ Tail(upstream) \in Seq(Frames)
        /\ Tail(upstream) = <<>> => upstream[Len(upstream)] = Head(upstream)
        /\ Tail(upstream) # <<>> => Tail(upstream)[Len(Tail(upstream))] = upstream[Len(upstream)]
    BY <1>4, TailEnds DEF ServerFansOut
  <2>2. \A v \in Viewers :
          LET q == Append(downstream[v], Head(upstream))
          IN  q \in Seq(Frames) /\ q # <<>> /\ q[Len(q)] = Head(upstream)
    BY <2>1, AppendEnds
  <2>5. /\ UNCHANGED <<routerVars, present, aware, direct, inAir, seen, shown, movesLeft>>
        /\ upstream' = Tail(upstream) /\ stored' = Head(upstream) /\ upstream # <<>>
        /\ downstream' = [v \in Viewers |-> IF v \in present THEN Append(downstream[v], Head(upstream))
                                             ELSE downstream[v]]
    BY <1>4 DEF ServerFansOut
  <2>6. FramesTypeOK'
    BY <2>1, <2>2, <2>5
  <2>7. AbsentAreSilent' /\ ViewersGetStored'
    BY <2>2, <2>5 DEF AbsentAreSilent, ViewersGetStored
  <2>8. ServerGetsNewest'
    BY <2>1, <2>5 DEF ServerGetsNewest
  <2> QED BY <2>5, <2>6, <2>7, <2>8
<1>5. ASSUME NEW v \in Viewers, FromPeer(v) \/ LosesFrame(v)
      PROVE  FramesIInv' /\ \A w \in present : w \in present' => shown[w] <= shown'[w]
  <2>1. PICK f \in inAir[v] : /\ inAir' = [inAir EXCEPT ![v] = @ \ {f}]
                              /\ ReceiveEphemeral(v, f) \/ UNCHANGED viewerVars
    BY <1>5 DEF FromPeer, LosesFrame
  <2>2. UNCHANGED <<routerVars, present, aware, direct, upstream, stored, downstream, movesLeft>>
    BY <1>5 DEF FromPeer, LosesFrame
  <2>3. v \in present /\ f \in Frames
    BY DEF AbsentAreSilent
  <2>4. /\ seen' = shown' /\ shown' \in [Viewers -> Frames]
        /\ \A w \in Viewers : shown[w] <= shown'[w]
        /\ \A w \in Viewers \ {v} : shown'[w] = shown[w]
    BY <2>1, <2>3, ReceiveForward
  <2>6. FramesTypeOK'
    BY <2>1, <2>2, <2>4
  <2>7. AbsentAreSilent'
    BY <2>1, <2>2, <2>3, <2>4 DEF AbsentAreSilent
  <2>9. \A w \in present : {stored, shown[w], shown'[w]} \subseteq Nat /\ shown[w] <= shown'[w]
    BY <2>4
  <2>10. ViewersGetStored'
    BY <2>2, <2>9 DEF ViewersGetStored
  <2>8. ServerGetsNewest'
    BY <2>2 DEF ServerGetsNewest
  <2> QED BY <2>2, <2>4, <2>6, <2>7, <2>8, <2>10
<1>6. ASSUME NEW v \in Viewers, FromServer(v)
      PROVE  FramesIInv' /\ \A w \in present : w \in present' => shown[w] <= shown'[w]
  <2> DEFINE q == downstream[v]
  <2>1. /\ Head(q) \in Frames /\ Tail(q) \in Seq(Frames)
        /\ Tail(q) = <<>> => q[Len(q)] = Head(q)
        /\ Tail(q) # <<>> => Tail(q)[Len(Tail(q))] = q[Len(q)]
    BY <1>6, TailEnds DEF FromServer
  <2>2. v \in present
    BY <1>6 DEF FromServer, AbsentAreSilent
  <2>3. /\ seen' = shown' /\ shown' \in [Viewers -> Frames]
        /\ \A w \in Viewers : shown[w] <= shown'[w]
        /\ \A w \in Viewers \ {v} : shown'[w] = shown[w]
        /\ shown'[v] >= Head(q)
    BY <1>6, <2>1, ReceiveForward DEF FromServer
  <2> QED BY <1>6, <2>1, <2>2, <2>3 DEF FromServer, AbsentAreSilent, ServerGetsNewest, ViewersGetStored
<1>7. ASSUME NEW v \in Viewers, Joins(v)
      PROVE  FramesIInv' /\ \A w \in present : w \in present' => shown[w] <= shown'[w]
  <2>1. <<stored>> \in Seq(Frames) /\ <<>> \in Seq(Frames) /\ <<stored>> # <<>> /\ Len(<<stored>>) = 1 /\ <<stored>>[1] = stored
    OBVIOUS
  <2>2. downstream' \in [Viewers -> Seq(Frames)]
    BY <1>7, <2>1 DEF Joins
  <2>6. FramesTypeOK'
    BY <1>7, <2>2 DEF Joins
  <2>7. AbsentAreSilent' /\ ViewersGetStored'
    BY <1>7, <2>1 DEF Joins, AbsentAreSilent, ViewersGetStored
  <2>8. ServerGetsNewest'
    BY <1>7 DEF Joins, ServerGetsNewest
  <2> QED BY <1>7, <2>6, <2>7, <2>8 DEF Joins
<1>8. ASSUME NEW v \in Viewers, Learns(v) \/ Forgets(v) \/ Connects(v) \/ Drops(v)
      PROVE  FramesIInv' /\ \A w \in present : w \in present' => shown[w] <= shown'[w]
  BY <1>8 DEF Learns, Forgets, Connects, Drops, AbsentAreSilent, ServerGetsNewest, ViewersGetStored
<1>9. ASSUME NEW v \in Viewers, Departs(v)
      PROVE  FramesIInv' /\ \A w \in present : w \in present' => shown[w] <= shown'[w]
  BY <1>9 DEF Departs, AbsentAreSilent, ServerGetsNewest, ViewersGetStored
<1> QED BY <1>1, <1>2, <1>3, <1>4, <1>5, <1>6, <1>7, <1>8, <1>9
        DEF FramesNext, SendDirect, SendAuto, IntervalEnds, ServerFansOut

\* Of one publisher's frames a viewer shows the newest once all is quiet, and never
\* one older than it has shown (receiveEphemeral, the router's throttle).
THEOREM FramesAlwaysHold == FramesSpec => FramesHold
<1>1. FramesIInv /\ UNCHANGED framesVars => FramesIInv'
  BY DEF FramesIInv, FramesTypeOK, framesVars, routerVars, wireVars, viewerVars, AbsentAreSilent,
         ServerGetsNewest, ViewersGetStored
<1>2. FramesIInv /\ [FramesNext]_framesVars => FramesIInv'
  BY <1>1, FramesStep
<1>3. FramesIInv /\ [FramesNext]_framesVars =>
        [\A v \in present : v \in present' => shown[v] <= shown'[v]]_framesVars
  BY FramesStep
<1> QED BY FramesStarts, FramesIInvImplies, <1>2, <1>3, PTL DEF FramesSpec, FramesHold, NeverOlder

-----------------------------------------------------------------------------
(* PeerMesh.                                                               *)

\* How many connections have been opened.
OpensSoFar == MeshBound["opens"] - meshLeft["opens"]

\* Connections are numbered from one; whoever has none has nothing under way, and
\* the higher side opens one for an offer.
SoundPeer(s, p) ==
  /\ (p.state = "connecting") <=> (p.timer # "none")
  /\ IF p.state \in {"connecting", "connected"} THEN p.pc >= 1 /\ (s = "hi" => p.remote >= 1)
     ELSE p.pc = 0 /\ p.remote = 0 /\ p.sig = "stable" /\ ~p.making /\ ~p.answering
  /\ p.answering <=> p.sig = "have-remote-offer"
  /\ p.making => p.sig = "stable" \/ (s = "hi" /\ p.sig = "have-remote-offer")
  /\ p.sig = "have-remote-offer" => p.remote >= 1
  /\ p.remote = 0 => p.last = "nobody"
PeersAreSound == \A s \in MeshSides : SoundPeer(s, peer[s])

\* No number is ahead of the connections opened.
NumbersAreOld ==
  /\ OpensSoFar \in Nat
  /\ \A s \in MeshSides :
       /\ peer[s].pc <= OpensSoFar /\ peer[s].remote <= OpensSoFar
       /\ \A i \in DOMAIN signals[s] : signals[s][i].t # "hello" =>
            signals[s][i].pc \in 1..OpensSoFar /\ signals[s][i].of <= OpensSoFar

\* Where, on the way to s, are the offers of the far side's connection, the answers to
\* an offer of the connection of s, and those of them that the far side's connection made.
Offers(s) ==
  {i \in DOMAIN signals[s] : signals[s][i].t = "offer" /\ signals[s][i].pc = peer[FarSide(s)].pc}
Replies(s) ==
  {i \in DOMAIN signals[s] : signals[s][i].t = "answer" /\ signals[s][i].of = peer[s].pc}
Answers(s) == {i \in Replies(s) : signals[s][i].pc = peer[FarSide(s)].pc}

\* A connection of the lower side that knows no other has made one offer at most, which
\* is on its way, or was taken, or was dropped.
FirstOffer ==
  HasPc("lo") /\ peer["lo"].remote = 0 =>
    /\ \A i, j \in Offers("hi") : i = j
    /\ peer["lo"].sig = "stable" => Offers("hi") = {}
    /\ peer["lo"].sig = "stable" \/ Offers("hi") # {} =>
         peer["hi"].remote # peer["lo"].pc /\ Replies("lo") = {}

\* The higher side's connection was opened for an offer of the lower side's, which knows
\* of no other.
Meeting ==
  /\ HasPc("lo") /\ HasPc("hi")
  /\ peer["hi"].remote = peer["lo"].pc /\ peer["lo"].remote \in {0, peer["hi"].pc}

\* What is on its way between two that meet, each in one order.
InTurn ==
  /\ \A i, j \in Offers("hi") : i = j
  /\ \A i, j \in Answers("hi") : i = j
  /\ \A i \in Answers("hi"), j \in Offers("hi") : i < j
  /\ \A i, j \in Answers("lo") : i = j
  /\ \A i, j \in Offers("lo") : i < j => \E k \in Answers("lo") : i < k /\ k < j

\* An offer of the lower side is on its way, taken, or answered.
LowOffer ==
  LET lo == peer["lo"]
      hi == peer["hi"]
  IN /\ lo.remote = 0 => lo.sig = "have-local-offer" /\ Replies("lo") = Answers("lo")
     /\ Offers("hi") # {} => lo.sig = "have-local-offer" /\ hi.sig # "have-remote-offer" /\ Answers("lo") = {}
     /\ hi.sig = "have-remote-offer" =>
          lo.sig = "have-local-offer" /\ Offers("hi") = {} /\ Answers("hi") = {} /\ Answers("lo") = {}
     /\ Answers("lo") # {} =>
          lo.sig = "have-local-offer" /\ hi.last = "lo" /\ Offers("hi") = {} /\ Answers("hi") = {}
     /\ lo.sig = "have-local-offer" =>
          Offers("hi") # {} \/ hi.sig = "have-remote-offer" \/ Answers("lo") # {}

\* An offer of the higher side is on its way, taken, answered, or bound to be rolled back.
HighOffer ==
  LET lo == peer["lo"]
      hi == peer["hi"]
  IN /\ Answers("hi") # {} =>
          hi.sig = "have-local-offer" /\ lo.last = "hi" /\ Offers("lo") = {} /\ lo.sig # "have-remote-offer"
     /\ lo.sig = "have-remote-offer" =>
          hi.sig = "have-local-offer" /\ Offers("lo") = {} /\ Answers("hi") = {} /\ Answers("lo") = {}
     /\ hi.sig = "have-local-offer" =>
          \/ lo.making \/ lo.sig = "have-remote-offer" \/ Answers("hi") # {} \/ Offers("hi") # {}
          \/ \E i \in Offers("lo") : \A j \in Answers("lo") : j < i
     /\ hi.sig = "stable" => \A i \in Offers("lo") : \E j \in Answers("lo") : i < j

\* With no answer on its way the two have settled on the same offer.
SameOffer == Answers("lo") = {} /\ Answers("hi") = {} => peer["lo"].last = peer["hi"].last

MeetingHolds == ~meshLost /\ Meeting => InTurn /\ LowOffer /\ HighOffer /\ SameOffer

MeshIInv ==
  MeshTypeOK /\ PeersAreSound /\ NumbersAreOld /\ FirstOffer /\ MeetingHolds

MeshPeer == [state : {"none", "connecting", "connected", "server-only"}, pc : Nat,
        sig : {"stable", "have-local-offer", "have-remote-offer"}, remote : Nat,
        last : MeshSides \cup {"nobody"}, need : BOOLEAN,
        making : BOOLEAN, answering : BOOLEAN, timer : {"none", "connect", "lost"},
        restarts : 0..MaxIceRestarts, cool : BOOLEAN]

\* The inductive invariant implies the one the run checks.
LEMMA MeshIInvImplies == MeshIInv => MeshInv
<1> SUFFICES ASSUME MeshIInv PROVE NegotiationSettles
  BY DEF MeshIInv, MeshInv, PeersAreSound, SoundPeer, WaitsAreTimed
<1> SUFFICES ASSUME SignalsDelivered, Paired, ~meshLost
             PROVE /\ \A s \in MeshSides : peer[s].sig = "stable"
                   /\ peer["lo"].last = peer["hi"].last
  BY DEF NegotiationSettles
<1>1. Meeting /\ signals["lo"] = <<>> /\ signals["hi"] = <<>> /\ ~peer["lo"].making
       /\ ~peer["lo"].answering /\ ~peer["hi"].answering
  BY DEF Paired, Meeting, SignalsDelivered, MeshSides
<1>2. Answers("lo") = {} /\ Answers("hi") = {} /\ Offers("lo") = {} /\ Offers("hi") = {}
  BY <1>1 DEF Answers, Replies, Offers
<1>3. MeshTypeOK /\ PeersAreSound /\ LowOffer /\ HighOffer /\ SameOffer
  BY <1>1 DEF MeshIInv, MeetingHolds
<1>4. peer["lo"].sig # "have-remote-offer" /\ peer["hi"].sig # "have-remote-offer"
  BY <1>1, <1>3 DEF PeersAreSound, SoundPeer, MeshSides
<1>5. peer["lo"].sig # "have-local-offer"
  BY <1>2, <1>3, <1>4 DEF LowOffer
<1>7. peer["hi"].sig # "have-local-offer"
  BY <1>1, <1>2, <1>3, <1>4 DEF HighOffer
<1>8. \A s \in MeshSides : peer[s].sig = "stable"
  BY <1>3, <1>4, <1>5, <1>7 DEF MeshTypeOK, MeshSides
<1> QED BY <1>2, <1>3, <1>8 DEF SameOffer

\* What the type invariant says of one peer and of the signals on their way to it.
LEMMA MeshParts ==
  MeshTypeOK => /\ peer \in [MeshSides -> MeshPeer]
                /\ \A s \in MeshSides : peer[s] \in MeshPeer
                /\ signals["lo"] \in Seq(Descriptions) /\ signals["hi"] \in Seq(Descriptions)
BY DEF MeshTypeOK, MeshPeer, MeshSides

\* A mishap uses up one of its budget, which was not empty, and nothing of the others.
LEMMA SpendMeshTyped ==
  ASSUME MeshTypeOK, NEW b \in {"losses", "changes", "drops", "closes", "opens"}, SpendMesh(b)
  PROVE  /\ meshLeft'  \in [DOMAIN MeshBound -> Nat]
         /\ meshLeft' = [meshLeft EXCEPT ![b] = @ - 1] /\ meshLeft[b] >= 1
         /\ meshLeft'[b] = meshLeft[b] - 1
         /\ \A c \in DOMAIN MeshBound : c # b => meshLeft'[c] = meshLeft[c]
         /\ meshLeft["opens"] \in Nat /\ MeshBound["opens"] \in Nat
<1>1. DOMAIN MeshBound = {"losses", "changes", "drops", "closes", "opens"}
  BY MeshAssumption
<1> QED BY <1>1, MeshAssumption DEF MeshTypeOK, SpendMesh

\* The peers getOrCreatePeer and closePeer leave behind are peers.
LEMMA NoPeerTyped ==
  /\ NoPeer \in MeshPeer
  /\ \A t \in {"none", "connecting", "connected", "server-only"} : [NoPeer EXCEPT !.state = t] \in MeshPeer
  /\ \A n \in Nat, b \in BOOLEAN :
       [NoPeer EXCEPT !.state = "connecting", !.pc = n, !.timer = "connect", !.need = b] \in MeshPeer
<1>1. NoPeer \in MeshPeer
  <2>1. 0 \in 0..MaxIceRestarts
    BY DEF MaxIceRestarts
  <2> QED BY <2>1, SMTT(30) DEF NoPeer, MeshPeer
<1> HIDE DEF NoPeer
<1>2. ASSUME NEW t \in {"none", "connecting", "connected", "server-only"}
      PROVE  [NoPeer EXCEPT !.state = t] \in MeshPeer
  BY <1>1 DEF MeshPeer
<1>3. ASSUME NEW n \in Nat, NEW b \in BOOLEAN
      PROVE  [NoPeer EXCEPT !.state = "connecting", !.pc = n, !.timer = "connect", !.need = b] \in MeshPeer
  BY <1>1 DEF MeshPeer
<1> QED BY <1>1, <1>2, <1>3

\* A fresh RTCPeerConnection has a new number, its connect timer, and has described
\* nothing.
LEMMA OpenedTyped ==
  ASSUME MeshTypeOK, NumbersAreOld, NEW s \in MeshSides
  PROVE  /\ Opened(s) \in MeshPeer /\ Opened(s).state = "connecting" /\ Opened(s).pc = OpensSoFar + 1
         /\ Opened(s).timer = "connect" /\ Opened(s).sig = "stable" /\ Opened(s).remote = 0
         /\ Opened(s).last = "nobody" /\ ~Opened(s).making /\ ~Opened(s).answering
<1>1. OpensSoFar \in Nat /\ Opened(s).pc = OpensSoFar + 1
  BY DEF NumbersAreOld, Opened, OpensSoFar, NoPeer
<1>2. Opened(s) = [NoPeer EXCEPT !.state = "connecting", !.pc = OpensSoFar + 1,
                                 !.timer = "connect", !.need = (s = "lo")]
  BY DEF Opened, OpensSoFar
<1>3. (s = "lo") \in BOOLEAN
  OBVIOUS
<1> HIDE DEF OpensSoFar
<1>4. /\ Opened(s).state = "connecting" /\ Opened(s).timer = "connect" /\ Opened(s).sig = "stable"
      /\ Opened(s).remote = 0 /\ Opened(s).last = "nobody"
      /\ ~Opened(s).making /\ ~Opened(s).answering
  BY <1>2 DEF NoPeer
<1>5. Opened(s) \in MeshPeer
  <2> DEFINE b == s = "lo"
  <2>1. OpensSoFar + 1 \in Nat
    BY <1>1 
  <2>2. b \in BOOLEAN
    BY <1>3
  <2>3. Opened(s) = [NoPeer EXCEPT !.state = "connecting", !.pc = OpensSoFar + 1,
                                 !.timer = "connect", !.need = b]
    BY <1>2
  <2> HIDE DEF b
  <2>4. [NoPeer EXCEPT !.state = "connecting", !.pc = OpensSoFar + 1,
                                 !.timer = "connect", !.need = b] \in MeshPeer
    BY <2>1, <2>2, NoPeerTyped, Zenon
  <2> QED BY <2>3, <2>4, Zenon
<1> QED BY <1>1, <1>4, <1>5

\* Setting one mesh's peer leaves the other's alone.
LEMMA OnePeer ==
  ASSUME MeshTypeOK, NEW s \in MeshSides, NEW p \in MeshPeer, SetPeer(s, p)
  PROVE  /\ peer' \in [MeshSides -> MeshPeer] /\ peer'[s] = p /\ peer'[s] \in MeshPeer
         /\ \A r \in MeshSides : r # s => peer'[r] = peer[r]
         /\ FarSide(s) # s /\ FarSide(s) \in MeshSides /\ peer'[FarSide(s)] = peer[FarSide(s)]
BY MeshParts DEF SetPeer, MeshSides, FarSide

\* Sending a signal appends it to the queue of the other side only.
LEMMA OneSignal ==
  ASSUME MeshTypeOK, NEW s \in MeshSides, NEW m \in Descriptions, SendSignal(s, m)
  PROVE  /\ signals' \in [MeshSides -> Seq(Descriptions)]
         /\ signals'[s] = signals[s] /\ signals'[FarSide(s)] = Append(signals[FarSide(s)], m)
         /\ DOMAIN signals'[FarSide(s)] = 1..Len(signals[FarSide(s)]) + 1
         /\ DOMAIN signals[FarSide(s)] = 1..Len(signals[FarSide(s)])
         /\ Len(signals[FarSide(s)]) \in Nat
         /\ signals'[FarSide(s)][Len(signals[FarSide(s)]) + 1] = m
         /\ \A i \in DOMAIN signals[FarSide(s)] : signals'[FarSide(s)][i] = signals[FarSide(s)][i]
<1>1. FarSide(s) # s /\ FarSide(s) \in MeshSides
  BY DEF MeshSides, FarSide
<1>2. signals \in [MeshSides -> Seq(Descriptions)]
  BY DEF MeshTypeOK
<1>3. signals' = [signals EXCEPT ![FarSide(s)] = Append(signals[FarSide(s)], m)]
  BY <1>1, <1>2 DEF SendSignal
<1> DEFINE q == signals[FarSide(s)]
<1>4. q \in Seq(Descriptions)
  BY <1>1, <1>2
<1>5. /\ signals'[s] = signals[s] /\ signals'[FarSide(s)] = Append(q, m)
  BY <1>1, <1>2, <1>3
<1>6. /\ Append(q, m) \in Seq(Descriptions) /\ Len(Append(q, m)) = Len(q) + 1
      /\ Append(q, m)[Len(q) + 1] = m /\ Len(q) \in Nat
      /\ DOMAIN q = 1..Len(q) /\ DOMAIN Append(q, m) = 1..Len(q) + 1
      /\ \A i \in 1..Len(q) : Append(q, m)[i] = q[i]
  BY <1>4
<1>7. signals' \in [MeshSides -> Seq(Descriptions)]
  BY <1>1, <1>2, <1>3, <1>6
<1> QED BY <1>5, <1>6, <1>7

\* Handling a signal takes the first of its queue; each of the others is one place
\* further on.
LEMMA HeadTaken ==
  ASSUME MeshTypeOK, NEW s \in MeshSides, signals[s] # <<>>,
         signals' = [signals EXCEPT ![s] = Tail(@)]
  PROVE  /\ signals' \in [MeshSides -> Seq(Descriptions)]
         /\ signals'[FarSide(s)] = signals[FarSide(s)] /\ signals'[s] = Tail(signals[s])
         /\ Head(signals[s]) = signals[s][1] /\ Head(signals[s]) \in Descriptions
         /\ Len(signals[s]) \in Nat /\ Len(signals[s]) >= 1
         /\ DOMAIN signals[s] = 1..Len(signals[s]) /\ DOMAIN signals'[s] = 1..Len(signals[s]) - 1
         /\ \A i \in DOMAIN signals'[s] : signals'[s][i] = signals[s][i + 1]
<1>1. FarSide(s) # s /\ FarSide(s) \in MeshSides
  BY DEF MeshSides, FarSide
<1>2. signals \in [MeshSides -> Seq(Descriptions)]
  BY DEF MeshTypeOK
<1> DEFINE q == signals[s]
<1>4. q \in Seq(Descriptions) /\ q # <<>>
  BY <1>2
<1>5. signals'[s] = Tail(q) /\ signals'[FarSide(s)] = signals[FarSide(s)]
  BY <1>1, <1>2
<1>6. /\ Tail(q) \in Seq(Descriptions) /\ Len(Tail(q)) = Len(q) - 1 /\ Len(q) \in Nat /\ Len(q) >= 1
      /\ Head(q) = q[1] /\ q[1] \in Descriptions
      /\ DOMAIN q = 1..Len(q) /\ DOMAIN Tail(q) = 1..Len(q) - 1
      /\ \A i \in 1..Len(q) - 1 : Tail(q)[i] = q[i + 1]
  BY <1>4, HeadTailProperties, EmptySeq
<1>7. signals' \in [MeshSides -> Seq(Descriptions)]
  BY <1>1, <1>2, <1>6
<1> QED BY <1>5, <1>6, <1>7

\* A step that changes the peer of s alone.
LEMMA PeerStep ==
  ASSUME MeshIInv, NEW s \in MeshSides, NEW p \in MeshPeer, SetPeer(s, p), SoundPeer(s, p),
         met' \subseteq MeshSides, packets' \in BOOLEAN, meshLost' \in BOOLEAN,
         signals' \in [MeshSides -> Seq(Descriptions)],
         meshLeft' \in [DOMAIN MeshBound -> Nat],
         \/ meshAlive' = meshAlive /\ (s \in meshAlive \/ p = NoPeer)
         \/ meshAlive' = meshAlive \ {s} /\ p = NoPeer
  PROVE  MeshTypeOK' /\ PeersAreSound'
<1>0. MeshTypeOK /\ PeersAreSound
  BY DEF MeshIInv
<1>1. peer' \in [MeshSides -> MeshPeer] /\ peer'[s] = p /\ \A r \in MeshSides : r # s => peer'[r] = peer[r]
  BY <1>0, OnePeer
<1>2. PeersAreSound'
  BY <1>0, <1>1 DEF PeersAreSound
<1>3. \A r \in MeshSides \ meshAlive' : peer'[r] = NoPeer
  BY <1>0, <1>1 DEF MeshTypeOK
<1>4. meshAlive' \subseteq MeshSides
  BY <1>0 DEF MeshTypeOK
<1> QED BY <1>1, <1>2, <1>3, <1>4 DEF MeshTypeOK, MeshPeer

\* Only a mesh that is there has a connection.
LEMMA Alive ==
  ASSUME MeshIInv, NEW s \in MeshSides
  PROVE  /\ peer[s] \in MeshPeer /\ SoundPeer(s, peer[s]) /\ MeshTypeOK /\ PeersAreSound
         /\ meshAlive \subseteq MeshSides /\ met \subseteq MeshSides
         /\ packets \in BOOLEAN /\ meshLost \in BOOLEAN
         /\ signals \in [MeshSides -> Seq(Descriptions)] /\ meshLeft \in [DOMAIN MeshBound -> Nat]
         /\ peer[s].state # "none" => s \in meshAlive
         /\ peer[s].making \/ peer[s].answering => HasPc(s)
         /\ HasPc(s) => s \in meshAlive
         /\ FarSide(s) \in MeshSides /\ FarSide(s) # s
<1>1. MeshTypeOK /\ PeersAreSound
  BY DEF MeshIInv
<1>2. peer[s] \in MeshPeer /\ SoundPeer(s, peer[s])
  BY <1>1, MeshParts DEF PeersAreSound
<1>3. peer[s].state # "none" => s \in meshAlive
  BY <1>1 DEF MeshTypeOK, NoPeer
<1>4. peer[s].making \/ peer[s].answering => HasPc(s)
  BY <1>2 DEF SoundPeer, HasPc
<1>5. HasPc(s) => s \in meshAlive
  BY <1>3 DEF HasPc
<1>6. FarSide(s) \in MeshSides /\ FarSide(s) # s
  BY DEF FarSide, MeshSides
<1> QED BY <1>1, <1>2, <1>3, <1>4, <1>5, <1>6 DEF MeshTypeOK

\* A peer that is closed, or just opened, describes no offer.
LEMMA NoPeerSound == \A s \in MeshSides : /\ SoundPeer(s, NoPeer)
                                         /\ SoundPeer(s, [NoPeer EXCEPT !.state = "server-only"])
BY DEF SoundPeer, NoPeer

\* The steps on one peer that neither send nor take a signal.
LEMMA QuietTyped ==
  ASSUME MeshIInv, NEW s \in MeshSides,
         \/ Changes(s) \/ OfferStarts(s) \/ ChannelOpens(s) \/ ConnectionLost(s) \/ RestartIce(s)
         \/ TimesOut(s) \/ CoolsDown(s) \/ FarClosed(s) \/ Prune(s)
  PROVE  MeshTypeOK' /\ PeersAreSound'
<1> DEFINE p == peer[s]
<1>0. /\ p \in MeshPeer /\ SoundPeer(s, p) /\ MeshTypeOK
      /\ p.state # "none" => s \in meshAlive
      /\ met \subseteq MeshSides /\ packets \in BOOLEAN /\ meshLost \in BOOLEAN
      /\ signals \in [MeshSides -> Seq(Descriptions)] /\ meshLeft \in [DOMAIN MeshBound -> Nat]
  BY Alive
<1>1. CASE Changes(s)
  BY <1>0, <1>1, SpendMeshTyped, PeerStep DEF MeshPeer, SoundPeer, Changes
<1>2. CASE OfferStarts(s)
  <2> DEFINE q == [p EXCEPT !.need = FALSE, !.making = TRUE]
  <2>1. q \in MeshPeer /\ SoundPeer(s, q)
    BY <1>0, <1>2 DEF MeshPeer, SoundPeer, OfferStarts, HasPc
  <2>2. p.state # "none"
    BY <1>2 DEF OfferStarts, HasPc
  <2> QED BY <1>0, <1>2, <2>1, <2>2, PeerStep DEF OfferStarts
<1>3. CASE ChannelOpens(s)
  <2> DEFINE q == [p EXCEPT !.state = "connected", !.restarts = 0, !.timer = "none"]
  <2>1. q \in MeshPeer
    <3>1. 0 \in 0..MaxIceRestarts
      BY DEF MaxIceRestarts
    <3> QED BY <1>0, <3>1 DEF MeshPeer
  <2>2. SoundPeer(s, q)
    BY <1>0, <1>3 DEF MeshPeer, SoundPeer, ChannelOpens
  <2> QED BY <1>0, <1>3, <2>1, <2>2, PeerStep DEF ChannelOpens
<1>4. CASE ConnectionLost(s)
  <2> DEFINE q == [p EXCEPT !.state = "connecting", !.timer = "lost"]
  <2>1. q \in MeshPeer
    BY <1>0, <1>4 DEF MeshPeer
  <2>2. SoundPeer(s, q)
    BY <1>0, <1>4 DEF MeshPeer, SoundPeer, ConnectionLost
  <2> QED BY <1>0, <1>4, <2>1, <2>2, PeerStep DEF ConnectionLost
<1>5. CASE RestartIce(s)
  <2> DEFINE q == [p EXCEPT !.restarts = @ + 1, !.need = TRUE]
  <2>1. q \in MeshPeer
    <3>1. p.restarts + 1 \in 0..MaxIceRestarts
      BY <1>0, <1>5 DEF MeshPeer, MaxIceRestarts, RestartIce
    <3> QED BY <1>0, <3>1 DEF MeshPeer
  <2>2. SoundPeer(s, q)
    BY <1>0, <1>5 DEF MeshPeer, SoundPeer
  <2> QED BY <1>0, <1>5, <2>1, <2>2, PeerStep DEF RestartIce
<1>6. CASE TimesOut(s)
  <2> DEFINE q == IF p.timer = "connect" THEN [NoPeer EXCEPT !.state = "server-only"] ELSE NoPeer
  <2>1. q \in MeshPeer /\ SoundPeer(s, q)
    BY NoPeerTyped, NoPeerSound
  <2>2. met' \subseteq MeshSides
    BY <1>0, <1>6 DEF TimesOut
  <2> QED BY <1>0, <1>6, <2>1, <2>2, PeerStep DEF TimesOut
<1>7. CASE CoolsDown(s)
  BY <1>0, <1>7, PeerStep DEF MeshPeer, SoundPeer, CoolsDown
<1>8. CASE FarClosed(s)
  BY <1>0, <1>8, PeerStep, NoPeerTyped, NoPeerSound DEF FarClosed
<1>9. CASE Prune(s)
  BY <1>0, <1>9, PeerStep, NoPeerTyped, NoPeerSound DEF Prune
<1> QED BY <1>1, <1>2, <1>3, <1>4, <1>5, <1>6, <1>7, <1>8, <1>9

\* The steps that send or take one, and a tab that is closed.
LEMMA LoudTyped ==
  ASSUME MeshIInv, NEW s \in MeshSides,
         \/ HearsPresence(s) \/ OfferMade(s) \/ AnswerMade(s) \/ LoseSignal(s) \/ Destroy(s)
  PROVE  MeshTypeOK' /\ PeersAreSound'
<1> DEFINE p == peer[s]
<1>0. /\ p \in MeshPeer /\ SoundPeer(s, p) /\ MeshTypeOK /\ PeersAreSound /\ NumbersAreOld
      /\ p.state # "none" => s \in meshAlive
      /\ p.making \/ p.answering => s \in meshAlive
      /\ met \subseteq MeshSides /\ packets \in BOOLEAN /\ meshLost \in BOOLEAN
      /\ signals \in [MeshSides -> Seq(Descriptions)] /\ meshLeft \in [DOMAIN MeshBound -> Nat]
  BY Alive DEF MeshIInv
<1>1. CASE HearsPresence(s)
  <2>1. met' \subseteq MeshSides /\ s \in meshAlive
    BY <1>0, <1>1 DEF HearsPresence
  <2>2. CASE s = "lo" /\ SpendMesh("opens") /\ SetPeer(s, Opened(s)) /\ UNCHANGED signals
    <3>1. meshLeft' \in [DOMAIN MeshBound -> Nat]
      BY <1>0, <2>2, SpendMeshTyped
    <3>2. Opened(s) \in MeshPeer /\ SoundPeer(s, Opened(s))
      BY <1>0, <2>2, OpenedTyped DEF SoundPeer, NumbersAreOld
    <3> QED BY <1>0, <1>1, <2>1, <2>2, <3>1, <3>2, PeerStep DEF HearsPresence
  <2>3. CASE /\ SetPeer(s, NoPeer) /\ UNCHANGED meshLeft
             /\ UNCHANGED signals \/ SendSignal(s, [t |-> "hello"])
    <3>1. [t |-> "hello"] \in Descriptions
      BY DEF Descriptions
    <3>2. signals' \in [MeshSides -> Seq(Descriptions)]
      BY <1>0, <2>3, <3>1, OneSignal
    <3>3. meshAlive' = meshAlive /\ packets' = packets /\ meshLost' = meshLost /\ meshLeft' = meshLeft
      BY <1>1, <2>3 DEF HearsPresence
    <3> QED BY <1>0, <2>1, <2>3, <3>2, <3>3, PeerStep, NoPeerTyped, NoPeerSound
  <2> QED BY <1>1, <2>2, <2>3 DEF HearsPresence
<1>2. CASE OfferMade(s)
  <2> DEFINE d == [t |-> "offer", pc |-> p.pc, of |-> 0]
  <2>1. d \in Descriptions
    BY <1>0 DEF Descriptions, MeshPeer
  <2>2. CASE p.sig = "have-remote-offer"
    <3> DEFINE q == [p EXCEPT !.making = FALSE, !.need = TRUE]
    <3>1. q \in MeshPeer /\ SoundPeer(s, q)
      BY <1>0 DEF MeshPeer, SoundPeer
    <3> QED BY <1>0, <1>2, <2>2, <3>1, PeerStep DEF OfferMade
  <2>3. CASE p.sig # "have-remote-offer"
    <3> DEFINE q == [p EXCEPT !.making = FALSE, !.sig = "have-local-offer"]
    <3>1. q \in MeshPeer
      BY <1>0 DEF MeshPeer
    <3>2. SoundPeer(s, q)
      BY <1>0, <1>2, <2>3 DEF MeshPeer, SoundPeer, OfferMade
    <3>3. signals' \in [MeshSides -> Seq(Descriptions)]
      BY <1>0, <1>2, <2>1, <2>3, OneSignal DEF OfferMade
    <3> QED BY <1>0, <1>2, <2>3, <3>1, <3>2, <3>3, PeerStep DEF OfferMade
  <2> QED BY <2>2, <2>3
<1>3. CASE AnswerMade(s)
  <2> DEFINE q == [p EXCEPT !.answering = FALSE, !.sig = "stable", !.last = FarSide(s)]
             d == [t |-> "answer", pc |-> p.pc, of |-> p.remote]
  <2>1. d \in Descriptions
    BY <1>0 DEF Descriptions, MeshPeer
  <2>2. q \in MeshPeer
    BY <1>0, Alive DEF MeshPeer
  <2>3. SoundPeer(s, q)
    BY <1>0, <1>3 DEF MeshPeer, SoundPeer, AnswerMade
  <2>4. signals' \in [MeshSides -> Seq(Descriptions)]
    BY <1>0, <1>3, <2>1, OneSignal DEF AnswerMade
  <2> QED BY <1>0, <1>3, <2>2, <2>3, <2>4, PeerStep DEF AnswerMade
<1>4. CASE LoseSignal(s)
  BY <1>0, <1>4, HeadTaken, SpendMeshTyped DEF LoseSignal, MeshTypeOK, PeersAreSound
<1>5. CASE Destroy(s)
  BY <1>0, <1>5, SpendMeshTyped, EmptySeq, PeerStep, NoPeerTyped, NoPeerSound DEF Destroy
<1> QED BY <1>1, <1>2, <1>3, <1>4, <1>5

\* What an offer makes of a peer that takes it.
LEMMA OfferTaken ==
  ASSUME NEW s \in MeshSides, NEW p \in MeshPeer, NEW n \in Nat
  PROVE  [p EXCEPT !.sig = "have-remote-offer", !.remote = n, !.answering = TRUE,
                   !.need = @ \/ p.sig = "have-local-offer"] \in MeshPeer
<1> DEFINE b == p.need \/ p.sig = "have-local-offer"
<1>1. b \in BOOLEAN
  BY DEF MeshPeer
<1> HIDE DEF b
<1>2. [p EXCEPT !.sig = "have-remote-offer", !.remote = n, !.answering = TRUE, !.need = b] \in MeshPeer
  BY <1>1 DEF MeshPeer
<1> QED BY <1>2 DEF b

\* Handling a signal (handleSignal) leaves sound peers.
LEMMA HandleTyped ==
  ASSUME MeshIInv, NEW s \in MeshSides, HandleSignal(s)
  PROVE  MeshTypeOK' /\ PeersAreSound'
<1> DEFINE p == peer[s]
           m == Head(signals[s])
<1>0. /\ p \in MeshPeer /\ SoundPeer(s, p) /\ MeshTypeOK /\ PeersAreSound /\ NumbersAreOld
      /\ met \subseteq MeshSides /\ packets \in BOOLEAN /\ meshLost \in BOOLEAN
      /\ signals \in [MeshSides -> Seq(Descriptions)] /\ meshLeft \in [DOMAIN MeshBound -> Nat]
  BY Alive DEF MeshIInv
<1>1. /\ s \in meshAlive /\ signals[s] # <<>> /\ ~p.answering
      /\ signals' = [signals EXCEPT ![s] = Tail(@)]
      /\ meshAlive' = meshAlive /\ packets' = packets /\ meshLost' = meshLost
  BY DEF HandleSignal
<1>2. signals' \in [MeshSides -> Seq(Descriptions)] /\ m \in Descriptions /\ m = signals[s][1] /\ 1 \in DOMAIN signals[s]
  BY <1>0, <1>1, HeadTaken
<1>3. m.t # "hello" => m.pc \in Nat /\ m.pc >= 1
  BY <1>0, <1>2 DEF NumbersAreOld
<1>4. met' \subseteq MeshSides /\ meshLeft' \in [DOMAIN MeshBound -> Nat]
  BY <1>0, SpendMeshTyped DEF HandleSignal
<1>5. SUFFICES \E q \in MeshPeer : SetPeer(s, q) /\ SoundPeer(s, q)
  BY <1>1, <1>2, <1>4, <1>0, PeerStep
<1> DEFINE Takes(r) == [r EXCEPT !.sig = "have-remote-offer", !.remote = m.pc, !.answering = TRUE,
                                 !.need = @ \/ r.sig = "have-local-offer"]
<1>6. UNCHANGED peer => SetPeer(s, p)
  BY <1>0 DEF SetPeer, MeshTypeOK
<1>7. CASE ~HasPc(s) /\ m.t = "hello" /\ SetPeer(s, Opened(s)) /\ s = "lo"
  BY <1>0, <1>7, OpenedTyped DEF SoundPeer, NumbersAreOld
<1>8. CASE ~HasPc(s) /\ m.t = "offer" /\ TakesOffer(s, m, Opened(s)) /\ s = "hi"
  <2> DEFINE o == Opened(s)
  <2>1. /\ o \in MeshPeer /\ o.remote = 0 /\ o.sig = "stable" /\ o.state = "connecting" /\ o.timer = "connect"
        /\ o.pc >= 1 /\ ~o.making
    BY <1>0, OpenedTyped DEF NumbersAreOld
  <2> HIDE DEF o
  <2>2. SetPeer(s, Takes(o))
    BY <1>8, <2>1 DEF TakesOffer, Polite, o
  <2>3. Takes(o) \in MeshPeer
    BY <1>3, <1>8, <2>1, OfferTaken
  <2>4. SoundPeer(s, Takes(o))
    BY <1>3, <1>8, <2>1 DEF SoundPeer, MeshPeer
  <2> QED BY <2>2, <2>3, <2>4
<1>9. CASE ~HasPc(s) /\ SetPeer(s, IF Absent(s) THEN NoPeer ELSE peer[s])
  BY <1>0, <1>9, NoPeerTyped, NoPeerSound
<1>10. CASE HasPc(s) /\ m.t = "offer" /\ TakesOffer(s, m, p)
  <2>1. CASE (Collision(s) /\ ~Polite(s)) \/ p.remote \notin {0, m.pc}
    BY <1>10, <2>1, <1>0 DEF TakesOffer
  <2>2. CASE ~((Collision(s) /\ ~Polite(s)) \/ p.remote \notin {0, m.pc})
    <3>1. SetPeer(s, Takes(p))
      BY <1>10, <2>2 DEF TakesOffer
    <3>2. Takes(p) \in MeshPeer
      BY <1>0, <1>3, <1>10, OfferTaken
    <3>3. SoundPeer(s, Takes(p))
      BY <1>0, <1>3, <1>10, <2>2 DEF SoundPeer, MeshPeer, Collision, Polite, HasPc, MeshSides
    <3> QED BY <3>1, <3>2, <3>3
  <2> QED BY <2>1, <2>2
<1>11. CASE /\ HasPc(s) /\ m.t = "answer" /\ p.sig = "have-local-offer"
            /\ SetPeer(s, [p EXCEPT !.sig = "stable", !.remote = m.pc, !.last = s])
  <2> DEFINE q == [p EXCEPT !.sig = "stable", !.remote = m.pc, !.last = s]
  <2>1. q \in MeshPeer
    BY <1>0, <1>3, <1>11 DEF MeshPeer
  <2>2. SoundPeer(s, q)
    BY <1>0, <1>3, <1>11 DEF MeshPeer, SoundPeer
  <2> QED BY <1>11, <2>1, <2>2
<1>12. CASE UNCHANGED peer
  BY <1>0, <1>6, <1>12
<1> QED BY <1>7, <1>8, <1>9, <1>10, <1>11, <1>12, <1>2 DEF HandleSignal, Descriptions

\* What every side keeps of its peer through a step that negotiates nothing.
SameKey(s) ==
  /\ peer'[s].pc = peer[s].pc /\ peer'[s].remote = peer[s].remote
  /\ peer'[s].sig = peer[s].sig /\ peer'[s].last = peer[s].last
  /\ peer'[s].state \in {"connecting", "connected"} <=> peer[s].state \in {"connecting", "connected"}

\* Nothing that the negotiation is about changes.
LEMMA QuietKeeps ==
  ASSUME MeshIInv, signals' = signals, OpensSoFar' = OpensSoFar, meshLost' = meshLost,
         SameKey("lo"), SameKey("hi"), peer["lo"].making => peer'["lo"].making
  PROVE  NumbersAreOld' /\ FirstOffer' /\ MeetingHolds'
<1>1. \A s \in MeshSides : Offers(s)' = Offers(s) /\ Replies(s)' = Replies(s) /\ Answers(s)' = Answers(s)
  BY DEF Offers, Replies, Answers, SameKey, MeshSides, FarSide
<1>2. "lo" \in MeshSides /\ "hi" \in MeshSides
  BY DEF MeshSides
<1>3. NumbersAreOld'
  BY DEF MeshIInv, NumbersAreOld, SameKey, MeshSides
<1>4. FirstOffer'
  BY <1>1, <1>2 DEF MeshIInv, FirstOffer, HasPc, SameKey
<1>5. MeetingHolds'
  <2> SUFFICES ASSUME ~meshLost', Meeting' PROVE (InTurn /\ LowOffer /\ HighOffer /\ SameOffer)'
    BY DEF MeetingHolds
  <2>1. InTurn /\ LowOffer /\ HighOffer /\ SameOffer
    BY DEF MeshIInv, MeetingHolds, Meeting, HasPc, SameKey
  <2>2. InTurn'
    BY <1>1, <1>2, <2>1 DEF InTurn
  <2>3. LowOffer'
    BY <1>1, <1>2, <2>1 DEF LowOffer, SameKey
  <2>4. HighOffer'
    BY <1>1, <1>2, <2>1 DEF HighOffer, SameKey
  <2>5. SameOffer'
    BY <1>1, <1>2, <2>1 DEF SameOffer, SameKey
  <2> QED BY <2>2, <2>3, <2>4, <2>5
<1> QED BY <1>3, <1>4, <1>5

\* The signals on their way to a side are those there were, but for the first or for all.
Fewer(s) ==
  \/ signals'[s] = signals[s]
  \/ signals'[s] = <<>>
  \/ signals[s] # <<>> /\ signals' = [signals EXCEPT ![s] = Tail(@)]

\* Of a queue that lost its first signal, or nothing, each signal was there before.
LEMMA FewerAt ==
  ASSUME MeshTypeOK, MeshTypeOK', NEW s \in MeshSides, Fewer(s)
  PROVE  \E k \in {0, 1} : \A i \in DOMAIN signals'[s] :
           i \in Nat /\ i + k \in DOMAIN signals[s] /\ signals'[s][i] = signals[s][i + k]
<1>1. CASE signals'[s] = signals[s] \/ signals'[s] = <<>>
  BY <1>1 DEF MeshTypeOK
<1>2. CASE signals[s] # <<>> /\ signals' = [signals EXCEPT ![s] = Tail(@)]
  <2>1. \A i \in DOMAIN signals'[s] : i \in Nat /\ i + 1 \in DOMAIN signals[s] /\ signals'[s][i] = signals[s][i + 1]
    <3>1. /\ Len(signals[s]) \in Nat /\ DOMAIN signals[s] = 1..Len(signals[s])
          /\ DOMAIN signals'[s] = 1..Len(signals[s]) - 1
          /\ \A i \in DOMAIN signals'[s] : signals'[s][i] = signals[s][i + 1]
      BY <1>2, HeadTaken
    <3> QED BY <3>1
  <2> QED BY <2>1
<1> QED BY <1>1, <1>2 DEF Fewer

\* Fewer signals at both ends, numbers no larger.
LEMMA FewerNumbers ==
  ASSUME MeshIInv, MeshTypeOK', OpensSoFar' \in Nat, OpensSoFar' >= OpensSoFar,
         \A s \in MeshSides : peer'[s].pc <= OpensSoFar' /\ peer'[s].remote <= OpensSoFar',
         \A s \in MeshSides : \A i \in DOMAIN signals'[s] :
           \/ \E j \in DOMAIN signals[s] : signals'[s][i] = signals[s][j]
           \/ signals'[s][i].t = "hello"
           \/ signals'[s][i].pc \in 1..OpensSoFar' /\ signals'[s][i].of <= OpensSoFar'
  PROVE  NumbersAreOld'
<1>1. NumbersAreOld
  BY DEF MeshIInv
<1>2. \A s \in MeshSides : \A i \in DOMAIN signals'[s] : signals'[s][i].t # "hello" =>
        signals'[s][i].pc \in 1..OpensSoFar' /\ signals'[s][i].of <= OpensSoFar'
  <2> SUFFICES ASSUME NEW s \in MeshSides, NEW i \in DOMAIN signals'[s], signals'[s][i].t # "hello",
                      NEW j \in DOMAIN signals[s], signals'[s][i] = signals[s][j]
               PROVE  signals'[s][i].pc \in 1..OpensSoFar' /\ signals'[s][i].of <= OpensSoFar'
    OBVIOUS
  <2>1. signals[s][j].pc \in 1..OpensSoFar /\ signals[s][j].of <= OpensSoFar /\ OpensSoFar \in Nat
    BY <1>1 DEF NumbersAreOld
  <2>2. signals[s][j] \in Descriptions /\ signals[s][j].t # "hello"
    BY DEF MeshIInv, MeshTypeOK
  <2>3. signals[s][j].of \in Nat
    BY <2>2 DEF Descriptions
  <2> HIDE DEF OpensSoFar
  <2> QED BY <2>1, <2>3
<1> QED BY <1>2 DEF NumbersAreOld

\* The lower side is what it was, and no more is under way for it.
LEMMA FirstOfferKept ==
  ASSUME MeshIInv, MeshTypeOK', Fewer("hi"), SameKey("lo"),
         peer'["hi"].remote = peer["hi"].remote \/ peer'["hi"].remote # peer["lo"].pc,
         Replies("lo") = {} => Replies("lo")' = {}
  PROVE  FirstOffer'
<1>1. MeshTypeOK /\ FirstOffer /\ "hi" \in MeshSides /\ FarSide("hi") = "lo"
  BY DEF MeshIInv, MeshSides, FarSide
<1>2. PICK k \in {0, 1} : \A i \in DOMAIN signals'["hi"] :
        i \in Nat /\ i + k \in DOMAIN signals["hi"] /\ signals'["hi"][i] = signals["hi"][i + k]
  BY <1>1, FewerAt
<1>3. \A i \in Offers("hi")' : i \in Nat /\ i + k \in Offers("hi")
  BY <1>1, <1>2 DEF Offers, SameKey
<1>4. \A i, j \in Nat : i + k = j + k => i = j
  OBVIOUS
<1>5. Offers("hi")' # {} => Offers("hi") # {}
  BY <1>3
<1>6. (\A i, j \in Offers("hi") : i = j) => (\A i, j \in Offers("hi")' : i = j)
  BY <1>3, <1>4
<1> QED BY <1>1, <1>5, <1>6 DEF FirstOffer, SameKey, HasPc

\* Every signal but a greeting was on its way before.
NoMore(s) ==
  \A i \in DOMAIN signals'[s] :
    signals'[s][i].t = "hello" \/ \E j \in DOMAIN signals[s] : signals'[s][i] = signals[s][j]

\* So nothing in it is new.
LEMMA FewerNoMore ==
  ASSUME MeshTypeOK, MeshTypeOK', NEW s \in MeshSides, Fewer(s)
  PROVE  NoMore(s)
BY FewerAt DEF NoMore

\* A greeting goes to the lower side, and describes nothing.
LEMMA GreetNoMore ==
  ASSUME MeshTypeOK, SendSignal("hi", [t |-> "hello"])
  PROVE  NoMore("lo") /\ signals'["hi"] = signals["hi"]
<1>1. [t |-> "hello"] \in Descriptions /\ "hi" \in MeshSides /\ FarSide("hi") = "lo" /\ [t |-> "hello"].t = "hello"
  BY DEF Descriptions, MeshSides, FarSide
<1> DEFINE h == [t |-> "hello"]
<1> HIDE DEF h
<1>2. h \in Descriptions /\ h.t = "hello" /\ SendSignal("hi", h)
  BY <1>1 DEF h
<1>3. /\ signals'["hi"] = signals["hi"] /\ DOMAIN signals'["lo"] = 1..Len(signals["lo"]) + 1
      /\ DOMAIN signals["lo"] = 1..Len(signals["lo"]) /\ Len(signals["lo"]) \in Nat
      /\ signals'["lo"][Len(signals["lo"]) + 1] = h
      /\ \A i \in DOMAIN signals["lo"] : signals'["lo"][i] = signals["lo"][i]
  BY <1>1, <1>2, OneSignal
<1>4. \A i \in DOMAIN signals'["lo"] : i \in DOMAIN signals["lo"] \/ i = Len(signals["lo"]) + 1
  BY <1>3
<1> QED BY <1>2, <1>3, <1>4 DEF NoMore

\* One side has no connection after the step.
LEMMA GoneKeeps ==
  ASSUME MeshIInv, MeshTypeOK', NEW s \in MeshSides, OpensSoFar' = OpensSoFar,
         peer'[s].state \notin {"connecting", "connected"}, peer'[s].pc = 0, peer'[s].remote = 0,
         peer'[FarSide(s)] = peer[FarSide(s)], Fewer("hi"), NoMore("lo")
  PROVE  NumbersAreOld' /\ FirstOffer' /\ MeetingHolds'
<1>1. MeshTypeOK /\ NumbersAreOld /\ PeersAreSound
  BY DEF MeshIInv
<1>2. NoMore("hi")
  BY <1>1, FewerNoMore DEF MeshSides
<1>3. NumbersAreOld'
  <2>1. OpensSoFar' \in Nat /\ OpensSoFar' >= OpensSoFar
    BY <1>1 DEF NumbersAreOld
  <2>2. \A r \in MeshSides : peer'[r].pc <= OpensSoFar' /\ peer'[r].remote <= OpensSoFar'
    BY <1>1, <2>1 DEF NumbersAreOld, MeshSides, FarSide
  <2> HIDE DEF OpensSoFar
  <2> QED BY <1>2, <2>1, <2>2, FewerNumbers DEF NoMore, MeshSides
<1>4. ~Meeting'
  BY DEF Meeting, HasPc, MeshSides
<1>5. FirstOffer'
  <2>1. CASE s = "lo"
    BY <2>1 DEF FirstOffer, HasPc
  <2>2. CASE s = "hi" /\ HasPc("lo")
    BY <1>1, <2>2, FirstOfferKept
       DEF SameKey, FarSide, PeersAreSound, SoundPeer, HasPc, MeshSides, Replies, NoMore
  <2>3. CASE s = "hi" /\ ~HasPc("lo")
    BY <2>3 DEF FirstOffer, HasPc, FarSide
  <2> QED BY <2>1, <2>2, <2>3 DEF MeshSides
<1> QED BY <1>3, <1>4, <1>5 DEF MeetingHolds

\* The lower side opens a connection.
LEMMA LowOpens ==
  ASSUME MeshIInv, MeshTypeOK', OpensSoFar' = OpensSoFar + 1, peer'["lo"] = Opened("lo"),
         peer'["hi"] = peer["hi"], NoMore("hi"), NoMore("lo")
  PROVE  NumbersAreOld' /\ FirstOffer' /\ MeetingHolds'
<1>1. MeshTypeOK /\ NumbersAreOld /\ PeersAreSound /\ OpensSoFar \in Nat
  BY DEF MeshIInv, NumbersAreOld
<1>2. /\ Opened("lo").pc = OpensSoFar + 1 /\ Opened("lo").sig = "stable" /\ Opened("lo").remote = 0
  BY <1>1, OpenedTyped DEF MeshSides
<1>3. peer["hi"].pc <= OpensSoFar /\ peer["hi"].remote <= OpensSoFar /\ peer["hi"].pc \in Nat /\ peer["hi"].remote \in Nat
  BY <1>1 DEF NumbersAreOld, MeshTypeOK, MeshSides
<1> HIDE DEF OpensSoFar
<1>4. NumbersAreOld'
  BY <1>1, <1>2, <1>3, FewerNumbers DEF MeshSides, NoMore
<1>5. peer["hi"].remote # OpensSoFar + 1
  BY <1>1, <1>3
<1>6. ~Meeting'
  BY <1>2, <1>5 DEF Meeting
<1>7. Offers("hi")' = {}
  <2> SUFFICES ASSUME NEW i \in Offers("hi")' PROVE FALSE
    OBVIOUS
  <2>1. i \in DOMAIN signals'["hi"] /\ signals'["hi"][i].t = "offer" /\ signals'["hi"][i].pc = OpensSoFar + 1
    BY <1>2 DEF Offers, FarSide
  <2>2. PICK j \in DOMAIN signals["hi"] : signals'["hi"][i] = signals["hi"][j]
    BY <2>1 DEF NoMore
  <2>3. signals["hi"][j].pc \in 1..OpensSoFar
    BY <1>1, <2>1, <2>2 DEF NumbersAreOld, MeshSides
  <2> QED BY <1>1, <2>1, <2>2, <2>3
<1>8. Replies("lo")' = {}
  <2> SUFFICES ASSUME NEW i \in Replies("lo")' PROVE FALSE
    OBVIOUS
  <2>1. i \in DOMAIN signals'["lo"] /\ signals'["lo"][i].t = "answer" /\ signals'["lo"][i].of = OpensSoFar + 1
    BY <1>2 DEF Replies
  <2>2. PICK j \in DOMAIN signals["lo"] : signals'["lo"][i] = signals["lo"][j]
    BY <2>1 DEF NoMore
  <2>3. signals["lo"][j].of <= OpensSoFar
    BY <1>1, <2>1, <2>2 DEF NumbersAreOld, MeshSides
  <2> QED BY <1>1, <2>1, <2>2, <2>3
<1>9. FirstOffer'
  BY <1>2, <1>5, <1>7, <1>8 DEF FirstOffer
<1> QED BY <1>4, <1>6, <1>9 DEF MeetingHolds

\* Where the offers, replies and answers stand in a queue.
LEMMA Places ==
  ASSUME MeshTypeOK, NEW s \in MeshSides
  PROVE  /\ Offers(s) \subseteq 1..Len(signals[s]) /\ Replies(s) \subseteq 1..Len(signals[s])
         /\ Answers(s) \subseteq Replies(s) /\ Len(signals[s]) \in Nat
BY DEF MeshTypeOK, Offers, Replies, Answers

\* The first signal is taken, between the same connections.
LEMMA TailAt ==
  ASSUME MeshTypeOK, NEW s \in MeshSides, signals[s] # <<>>,
         signals' = [signals EXCEPT ![s] = Tail(@)],
         \A r \in MeshSides : peer'[r].pc = peer[r].pc
  PROVE  /\ \A i : i \in Offers(s)' <=> i \in Nat \ {0} /\ i + 1 \in Offers(s)
         /\ \A i : i \in Replies(s)' <=> i \in Nat \ {0} /\ i + 1 \in Replies(s)
         /\ \A i : i \in Answers(s)' <=> i \in Nat \ {0} /\ i + 1 \in Answers(s)
         /\ Offers(FarSide(s))' = Offers(FarSide(s)) /\ Replies(FarSide(s))' = Replies(FarSide(s))
         /\ Answers(FarSide(s))' = Answers(FarSide(s))
<1>1. /\ Len(signals[s]) \in Nat /\ DOMAIN signals[s] = 1..Len(signals[s])
      /\ DOMAIN signals'[s] = 1..Len(signals[s]) - 1
      /\ \A i \in DOMAIN signals'[s] : signals'[s][i] = signals[s][i + 1]
      /\ signals'[FarSide(s)] = signals[FarSide(s)]
  BY HeadTaken
<1>2. \A i : i \in DOMAIN signals'[s] <=> i \in Nat \ {0} /\ i + 1 \in DOMAIN signals[s]
  BY <1>1
<1>3. FarSide(s) \in MeshSides /\ FarSide(FarSide(s)) = s
  BY DEF MeshSides, FarSide
<1>4. \A i : i \in Offers(s)' <=> i \in Nat \ {0} /\ i + 1 \in Offers(s)
  BY <1>1, <1>2, <1>3 DEF Offers
<1>5. \A i : i \in Replies(s)' <=> i \in Nat \ {0} /\ i + 1 \in Replies(s)
  BY <1>1, <1>2, <1>3 DEF Replies
<1>6. \A i : i \in Answers(s)' <=> i \in Nat \ {0} /\ i + 1 \in Answers(s)
  BY <1>1, <1>2, <1>3, <1>5 DEF Answers, Replies
<1>7. Offers(FarSide(s))' = Offers(FarSide(s)) /\ Replies(FarSide(s))' = Replies(FarSide(s))
  BY <1>1, <1>3 DEF Offers, Replies
<1>8. Answers(FarSide(s))' = Answers(FarSide(s))
  BY <1>1, <1>3, <1>7 DEF Answers
<1> QED BY <1>4, <1>5, <1>6, <1>7, <1>8

\* A signal is sent, between the same connections.
LEMMA SentAt ==
  ASSUME MeshTypeOK, NEW s \in MeshSides, NEW m \in Descriptions, SendSignal(s, m),
         \A r \in MeshSides : peer'[r].pc = peer[r].pc
  PROVE  LET f == FarSide(s)
             n == Len(signals[f]) + 1
         IN /\ n \in Nat /\ \A i \in Offers(f) \cup Answers(f) : i \in Nat /\ i < n
            /\ Offers(f)' = Offers(f) \cup (IF m.t = "offer" /\ m.pc = peer[s].pc THEN {n} ELSE {})
            /\ Replies(f)' = Replies(f) \cup (IF m.t = "answer" /\ m.of = peer[f].pc THEN {n} ELSE {})
            /\ Answers(f)' = Answers(f) \cup (IF m.t = "answer" /\ m.of = peer[f].pc /\ m.pc = peer[s].pc THEN {n} ELSE {})
            /\ Offers(s)' = Offers(s) /\ Replies(s)' = Replies(s) /\ Answers(s)' = Answers(s)
<1> DEFINE f == FarSide(s)
           n == Len(signals[f]) + 1
<1>1. f \in MeshSides /\ FarSide(f) = s
  BY DEF MeshSides, FarSide
<1>2. /\ signals'[s] = signals[s] /\ DOMAIN signals'[f] = 1..n /\ DOMAIN signals[f] = 1..Len(signals[f])
      /\ Len(signals[f]) \in Nat /\ signals'[f][n] = m
      /\ \A i \in DOMAIN signals[f] : signals'[f][i] = signals[f][i]
  BY OneSignal
<1>3. DOMAIN signals'[f] = DOMAIN signals[f] \cup {n} /\ n \notin DOMAIN signals[f] /\ n \in Nat
  BY <1>2
<1>4. \A i \in Offers(f) \cup Answers(f) : i \in Nat /\ i < n
  BY <1>1, <1>2, Places
<1>5. Offers(s)' = Offers(s) /\ Replies(s)' = Replies(s) /\ Answers(s)' = Answers(s)
  BY <1>1, <1>2 DEF Offers, Replies, Answers
<1> HIDE DEF f, n
<1>6. Offers(f)' = Offers(f) \cup (IF m.t = "offer" /\ m.pc = peer[s].pc THEN {n} ELSE {})
  BY <1>1, <1>2, <1>3 DEF Offers
<1>7. Replies(f)' = Replies(f) \cup (IF m.t = "answer" /\ m.of = peer[f].pc THEN {n} ELSE {})
  BY <1>1, <1>2, <1>3 DEF Replies
<1>8. Answers(f)' = Answers(f) \cup (IF m.t = "answer" /\ m.of = peer[f].pc /\ m.pc = peer[s].pc THEN {n} ELSE {})
  BY <1>1, <1>2, <1>3 DEF Answers, Replies
<1> QED BY <1>3, <1>4, <1>5, <1>6, <1>7, <1>8 DEF f, n

\* A step that opens no connection and sends nothing newer keeps the numbers old.
LEMMA SameConnections ==
  ASSUME MeshIInv, MeshTypeOK', OpensSoFar' = OpensSoFar, NoMore("lo"), NoMore("hi"),
         \A s \in MeshSides : peer'[s].pc = peer[s].pc /\ peer'[s].remote <= OpensSoFar
  PROVE  NumbersAreOld'
<1>1. OpensSoFar \in Nat /\ \A s \in MeshSides : peer[s].pc <= OpensSoFar
  BY DEF MeshIInv, NumbersAreOld
<1> HIDE DEF OpensSoFar
<1> QED BY <1>1, FewerNumbers DEF NoMore, MeshSides

\* The higher side opens a connection for an offer.
LEMMA HighOpens ==
  ASSUME MeshIInv, MeshTypeOK', OpensSoFar' = OpensSoFar + 1, ~HasPc("hi"),
         signals["hi"] # <<>>, signals' = [signals EXCEPT !["hi"] = Tail(@)],
         signals["hi"][1].t = "offer",
         peer'["lo"] = peer["lo"],
         peer'["hi"].pc = OpensSoFar + 1, peer'["hi"].remote = signals["hi"][1].pc,
         peer'["hi"].sig = "have-remote-offer", peer'["hi"].last = "nobody"
  PROVE  NumbersAreOld' /\ FirstOffer' /\ MeetingHolds'
<1> DEFINE m == signals["hi"][1]
<1>1. MeshTypeOK /\ NumbersAreOld /\ FirstOffer /\ PeersAreSound /\ OpensSoFar \in Nat
  BY DEF MeshIInv, NumbersAreOld
<1>2. "lo" \in MeshSides /\ "hi" \in MeshSides /\ FarSide("hi") = "lo" /\ FarSide("lo") = "hi"
  BY DEF MeshSides, FarSide
<1>3. /\ signals'["lo"] = signals["lo"] /\ DOMAIN signals["hi"] = 1..Len(signals["hi"])
      /\ 1 \in DOMAIN signals["hi"]
      /\ \A i \in DOMAIN signals'["hi"] : i \in Nat \ {0} /\ i + 1 \in DOMAIN signals["hi"] /\ signals'["hi"][i] = signals["hi"][i + 1]
  <2>1. /\ signals'["lo"] = signals["lo"] /\ DOMAIN signals["hi"] = 1..Len(signals["hi"])
        /\ Len(signals["hi"]) \in Nat /\ Len(signals["hi"]) >= 1
        /\ DOMAIN signals'["hi"] = 1..Len(signals["hi"]) - 1
        /\ \A i \in DOMAIN signals'["hi"] : signals'["hi"][i] = signals["hi"][i + 1]
    BY <1>1, <1>2, HeadTaken
  <2> QED BY <2>1
<1>4. m.pc \in 1..OpensSoFar
  BY <1>1, <1>2, <1>3 DEF NumbersAreOld
<1>5. peer["lo"].pc <= OpensSoFar /\ peer["lo"].remote <= OpensSoFar /\ peer["lo"].pc \in Nat /\ peer["lo"].remote \in Nat
  BY <1>1, <1>2 DEF NumbersAreOld, MeshTypeOK
<1>6. NoMore("hi") /\ NoMore("lo")
  BY <1>3 DEF NoMore
<1> HIDE DEF OpensSoFar, m
<1>7. NumbersAreOld'
  BY <1>1, <1>4, <1>5, <1>6, FewerNumbers DEF MeshSides, m, NoMore
<1>8. Replies("lo")' = Replies("lo")
  BY <1>3 DEF Replies
<1>9. \A i \in Offers("hi")' : i \in Nat \ {0} /\ i + 1 \in Offers("hi")
  BY <1>2, <1>3 DEF Offers
<1>10. m.pc = peer["lo"].pc => 1 \in Offers("hi")
  BY <1>2, <1>3 DEF Offers, m
<1>11. FirstOffer'
  <2> SUFFICES ASSUME HasPc("lo"), peer["lo"].remote = 0
               PROVE  /\ \A i, j \in Offers("hi")' : i = j
                      /\ peer["lo"].sig = "stable" => Offers("hi")' = {}
                      /\ peer["lo"].sig = "stable" \/ Offers("hi")' # {} =>
                           m.pc # peer["lo"].pc /\ Replies("lo")' = {}
    BY DEF FirstOffer, HasPc, m
  <2>1. /\ \A i, j \in Offers("hi") : i = j
        /\ peer["lo"].sig = "stable" => Offers("hi") = {}
        /\ peer["lo"].sig = "stable" \/ Offers("hi") # {} => Replies("lo") = {}
    BY <1>1 DEF FirstOffer
  <2>2. \A i, j \in Offers("hi")' : i = j
    BY <1>9, <2>1
  <2>3. Offers("hi") = {} => Offers("hi")' = {}
    BY <1>9
  <2>4. m.pc = peer["lo"].pc => Offers("hi")' = {} /\ peer["lo"].sig # "stable"
    BY <1>9, <1>10, <2>1
  <2> QED BY <1>8, <2>1, <2>2, <2>3, <2>4
<1>12. MeetingHolds'
  <2> SUFFICES ASSUME Meeting' PROVE (InTurn /\ LowOffer /\ HighOffer /\ SameOffer)'
    BY DEF MeetingHolds
  <2>1. m.pc = peer["lo"].pc /\ HasPc("lo") /\ peer["lo"].remote \in {0, OpensSoFar + 1}
    BY DEF Meeting, HasPc, m
  <2>2. peer["lo"].remote = 0
    BY <1>1, <1>5, <2>1
  <2>3. 1 \in Offers("hi") /\ Replies("lo") = {} /\ peer["lo"].sig # "stable" /\ \A i, j \in Offers("hi") : i = j
    BY <1>1, <1>10, <2>1, <2>2 DEF FirstOffer
  <2>4. peer["lo"].sig = "have-local-offer" /\ peer["lo"].last = "nobody"
    BY <1>1, <1>2, <2>2, <2>3 DEF PeersAreSound, SoundPeer, MeshTypeOK
  <2>5. Offers("hi")' = {}
    BY <1>9, <2>3
  <2>6. Answers("hi")' = {}
    <3> SUFFICES ASSUME NEW i \in Answers("hi")' PROVE FALSE
      OBVIOUS
    <3>1. i \in DOMAIN signals'["hi"] /\ signals'["hi"][i].t = "answer" /\ signals'["hi"][i].of = OpensSoFar + 1
      BY DEF Answers, Replies
    <3>2. signals["hi"][i + 1].of <= OpensSoFar /\ signals'["hi"][i] = signals["hi"][i + 1]
      BY <1>1, <1>2, <1>3, <3>1 DEF NumbersAreOld
    <3> QED BY <1>1, <3>1, <3>2
  <2>7. Offers("lo")' = {}
    <3> SUFFICES ASSUME NEW i \in Offers("lo")' PROVE FALSE
      OBVIOUS
    <3>1. i \in DOMAIN signals["lo"] /\ signals["lo"][i].t = "offer" /\ signals["lo"][i].pc = OpensSoFar + 1
      BY <1>2, <1>3 DEF Offers
    <3>2. signals["lo"][i].pc \in 1..OpensSoFar
      BY <1>1, <1>2, <3>1 DEF NumbersAreOld
    <3> QED BY <1>1, <3>1, <3>2
  <2>8. Replies("lo")' = {} /\ Answers("lo")' = {}
    BY <1>8, <2>3 DEF Answers
  <2>9. InTurn'
    BY <2>5, <2>6, <2>7, <2>8 DEF InTurn
  <2>10. LowOffer'
    BY <2>2, <2>4, <2>5, <2>6, <2>7, <2>8 DEF LowOffer
  <2>11. HighOffer'
    BY <2>2, <2>4, <2>5, <2>6, <2>7, <2>8 DEF HighOffer
  <2>12. SameOffer'
    BY <2>4 DEF SameOffer
  <2> QED BY <2>9, <2>10, <2>11, <2>12
<1> QED BY <1>7, <1>11, <1>12

\* A description is sent: it names connections there are.
LEMMA SentNumbers ==
  ASSUME MeshIInv, MeshTypeOK', NEW s \in MeshSides, NEW m \in Descriptions, SendSignal(s, m),
         meshLeft' = meshLeft,
         \A r \in MeshSides : peer'[r].pc = peer[r].pc /\ peer'[r].remote = peer[r].remote,
         m.pc = peer[s].pc, m.pc >= 1, m.of \in {0, peer[s].remote}
  PROVE  NumbersAreOld'
<1>1. NumbersAreOld /\ MeshTypeOK /\ OpensSoFar' = OpensSoFar /\ OpensSoFar \in Nat
  BY DEF MeshIInv, NumbersAreOld, OpensSoFar
<1>2. \A r \in MeshSides : peer[r].pc <= OpensSoFar /\ peer[r].remote <= OpensSoFar /\ peer[r].pc \in Nat
  BY <1>1, MeshParts DEF NumbersAreOld, MeshPeer
<1>3. m.pc \in 1..OpensSoFar /\ m.of <= OpensSoFar
  BY <1>1, <1>2
<1> DEFINE f == FarSide(s)
<1>4. /\ signals'[s] = signals[s] /\ DOMAIN signals'[f] = 1..Len(signals[f]) + 1
      /\ DOMAIN signals[f] = 1..Len(signals[f]) /\ Len(signals[f]) \in Nat
      /\ signals'[f][Len(signals[f]) + 1] = m
      /\ \A i \in DOMAIN signals[f] : signals'[f][i] = signals[f][i]
  BY <1>1, OneSignal
<1>5. \A i \in DOMAIN signals'[f] : i \in DOMAIN signals[f] \/ i = Len(signals[f]) + 1
  BY <1>4
<1>6. \A r \in MeshSides : r = s \/ r = f
  BY DEF MeshSides, FarSide
<1> HIDE DEF f, OpensSoFar
<1>7. \A r \in MeshSides : \A i \in DOMAIN signals'[r] :
        \/ \E j \in DOMAIN signals[r] : signals'[r][i] = signals[r][j]
        \/ signals'[r][i].pc \in 1..OpensSoFar' /\ signals'[r][i].of <= OpensSoFar'
  BY <1>1, <1>3, <1>4, <1>5, <1>6
<1>8. OpensSoFar' \in Nat /\ OpensSoFar' >= OpensSoFar
  BY <1>1
<1>9. \A r \in MeshSides : peer'[r].pc <= OpensSoFar' /\ peer'[r].remote <= OpensSoFar'
  BY <1>1, <1>2
<1> QED BY <1>7, <1>8, <1>9, FewerNumbers

\* createOffer is done, and no offer has come meanwhile: the lower side's is sent ...
LEMMA LowOffers ==
  ASSUME MeshIInv, MeshTypeOK', meshLeft' = meshLeft, HasPc("lo"), peer["lo"].sig = "stable",
         SetPeer("lo", [peer["lo"] EXCEPT !.making = FALSE, !.sig = "have-local-offer"]),
         SendSignal("lo", [t |-> "offer", pc |-> peer["lo"].pc, of |-> 0]), meshLost' = meshLost
  PROVE  NumbersAreOld' /\ FirstOffer' /\ MeetingHolds'
<1> DEFINE m == [t |-> "offer", pc |-> peer["lo"].pc, of |-> 0]
           lo == peer["lo"]
           hi == peer["hi"]
<1>1. MeshTypeOK /\ NumbersAreOld /\ FirstOffer /\ PeersAreSound /\ MeetingHolds
  BY DEF MeshIInv
<1>2. "lo" \in MeshSides /\ "hi" \in MeshSides /\ FarSide("hi") = "lo" /\ FarSide("lo") = "hi"
  BY DEF MeshSides, FarSide
<1>3. /\ peer'["hi"] = hi /\ peer'["lo"].pc = lo.pc /\ peer'["lo"].remote = lo.remote
      /\ peer'["lo"].sig = "have-local-offer" /\ peer'["lo"].last = lo.last /\ peer'["lo"].state = lo.state
  BY <1>1 DEF SetPeer, MeshTypeOK, MeshSides
<1>4. \A r \in MeshSides : peer'[r].pc = peer[r].pc /\ peer'[r].remote = peer[r].remote
  BY <1>3 DEF MeshSides
<1>5. m \in Descriptions /\ m.t = "offer" /\ m.pc = lo.pc /\ m.of = 0 /\ lo.pc >= 1
  BY <1>1, <1>2, MeshParts DEF Descriptions, MeshPeer, PeersAreSound, SoundPeer, HasPc
<1> HIDE DEF m
<1>6. SendSignal("lo", m)
  BY DEF m
<1>7. NumbersAreOld'
  BY <1>2, <1>4, <1>5, <1>6, SentNumbers
<1> DEFINE n == Len(signals["hi"]) + 1
<1>8. /\ n \in Nat /\ \A i \in Offers("hi") \cup Answers("hi") : i \in Nat /\ i < n
      /\ Offers("hi")' = Offers("hi") \cup {n} /\ Answers("hi")' = Answers("hi")
      /\ Offers("lo")' = Offers("lo") /\ Replies("lo")' = Replies("lo") /\ Answers("lo")' = Answers("lo")
  BY <1>1, <1>2, <1>4, <1>5, <1>6, SentAt
<1> HIDE DEF n
<1>9. FirstOffer'
  BY <1>1, <1>3, <1>8 DEF FirstOffer, HasPc
<1>10. MeetingHolds'
  <2> SUFFICES ASSUME ~meshLost', Meeting' PROVE (InTurn /\ LowOffer /\ HighOffer /\ SameOffer)'
    BY DEF MeetingHolds
  <2>1. InTurn /\ LowOffer /\ HighOffer /\ SameOffer
    BY <1>1, <1>3 DEF MeetingHolds, Meeting, HasPc
  <2>2. lo.remote # 0 /\ Offers("hi") = {} /\ hi.sig # "have-remote-offer" /\ Answers("lo") = {}
    BY <2>1 DEF LowOffer
  <2>3. InTurn'
    BY <1>8, <2>1, <2>2 DEF InTurn
  <2>4. LowOffer'
    BY <1>3, <1>8, <2>1, <2>2 DEF LowOffer
  <2>5. HighOffer'
    BY <1>3, <1>8, <2>1, <2>2 DEF HighOffer
  <2>6. SameOffer'
    BY <1>3, <1>8, <2>1 DEF SameOffer
  <2> QED BY <2>3, <2>4, <2>5, <2>6
<1> QED BY <1>7, <1>9, <1>10

\* ... or the higher side's.
LEMMA HighOffers ==
  ASSUME MeshIInv, MeshTypeOK', meshLeft' = meshLeft, HasPc("hi"), peer["hi"].sig = "stable",
         SetPeer("hi", [peer["hi"] EXCEPT !.making = FALSE, !.sig = "have-local-offer"]),
         SendSignal("hi", [t |-> "offer", pc |-> peer["hi"].pc, of |-> 0]), meshLost' = meshLost
  PROVE  NumbersAreOld' /\ FirstOffer' /\ MeetingHolds'
<1> DEFINE m == [t |-> "offer", pc |-> peer["hi"].pc, of |-> 0]
           lo == peer["lo"]
           hi == peer["hi"]
<1>1. MeshTypeOK /\ NumbersAreOld /\ FirstOffer /\ PeersAreSound /\ MeetingHolds
  BY DEF MeshIInv
<1>2. "lo" \in MeshSides /\ "hi" \in MeshSides /\ FarSide("hi") = "lo" /\ FarSide("lo") = "hi"
  BY DEF MeshSides, FarSide
<1>3. /\ peer'["lo"] = lo /\ peer'["hi"].pc = hi.pc /\ peer'["hi"].remote = hi.remote
      /\ peer'["hi"].sig = "have-local-offer" /\ peer'["hi"].last = hi.last /\ peer'["hi"].state = hi.state
  BY <1>1 DEF SetPeer, MeshTypeOK, MeshSides
<1>4. \A r \in MeshSides : peer'[r].pc = peer[r].pc /\ peer'[r].remote = peer[r].remote
  BY <1>3 DEF MeshSides
<1>5. m \in Descriptions /\ m.t = "offer" /\ m.pc = hi.pc /\ m.of = 0 /\ hi.pc >= 1
  BY <1>1, <1>2, MeshParts DEF Descriptions, MeshPeer, PeersAreSound, SoundPeer, HasPc
<1> HIDE DEF m
<1>6. SendSignal("hi", m)
  BY DEF m
<1>7. NumbersAreOld'
  BY <1>2, <1>4, <1>5, <1>6, SentNumbers
<1> DEFINE n == Len(signals["lo"]) + 1
<1>8. /\ n \in Nat /\ \A i \in Offers("lo") \cup Answers("lo") : i \in Nat /\ i < n
      /\ Offers("lo")' = Offers("lo") \cup {n} /\ Answers("lo")' = Answers("lo") /\ Replies("lo")' = Replies("lo")
      /\ Offers("hi")' = Offers("hi") /\ Replies("hi")' = Replies("hi") /\ Answers("hi")' = Answers("hi")
  <2>1. /\ n \in Nat /\ \A i \in Offers("lo") \cup Answers("lo") : i \in Nat /\ i < n
        /\ Offers("lo")' = Offers("lo") \cup (IF m.t = "offer" /\ m.pc = peer["hi"].pc THEN {n} ELSE {})
        /\ Replies("lo")' = Replies("lo") \cup (IF m.t = "answer" /\ m.of = peer["lo"].pc THEN {n} ELSE {})
        /\ Answers("lo")' = Answers("lo")
             \cup (IF m.t = "answer" /\ m.of = peer["lo"].pc /\ m.pc = peer["hi"].pc THEN {n} ELSE {})
        /\ Offers("hi")' = Offers("hi") /\ Replies("hi")' = Replies("hi") /\ Answers("hi")' = Answers("hi")
    BY <1>1, <1>2, <1>4, <1>5, <1>6, SentAt
  <2> QED BY <1>2, <1>5, <2>1
<1> HIDE DEF n
<1>9. FirstOffer'
  BY <1>1, <1>3, <1>8 DEF FirstOffer, HasPc
<1>10. MeetingHolds'
  <2> SUFFICES ASSUME ~meshLost', Meeting' PROVE (InTurn /\ LowOffer /\ HighOffer /\ SameOffer)'
    BY DEF MeetingHolds
  <2>1. InTurn /\ LowOffer /\ HighOffer /\ SameOffer
    BY <1>1, <1>3 DEF MeetingHolds, Meeting, HasPc
  <2>2. Answers("hi") = {} /\ lo.sig # "have-remote-offer" /\ \A i \in Offers("lo") : \E j \in Answers("lo") : i < j
    BY <2>1 DEF HighOffer
  <2>3. InTurn'
    BY <1>8, <2>1, <2>2 DEF InTurn
  <2>4. LowOffer'
    BY <1>3, <1>8, <2>1, <2>2 DEF LowOffer
  <2>5. HighOffer'
    BY <1>3, <1>8, <2>1, <2>2 DEF HighOffer
  <2>6. SameOffer'
    BY <1>3, <1>8, <2>1 DEF SameOffer
  <2> QED BY <2>3, <2>4, <2>5, <2>6
<1> QED BY <1>7, <1>9, <1>10

\* createAnswer is done, and the lower side answers ...
LEMMA LowAnswers ==
  ASSUME MeshIInv, MeshTypeOK', meshLeft' = meshLeft, peer["lo"].answering,
         SetPeer("lo", [peer["lo"] EXCEPT !.answering = FALSE, !.sig = "stable", !.last = FarSide("lo")]),
         SendSignal("lo", [t |-> "answer", pc |-> peer["lo"].pc, of |-> peer["lo"].remote]),
         meshLost' = meshLost
  PROVE  NumbersAreOld' /\ FirstOffer' /\ MeetingHolds'
<1> DEFINE m == [t |-> "answer", pc |-> peer["lo"].pc, of |-> peer["lo"].remote]
           lo == peer["lo"]
           hi == peer["hi"]
<1>1. MeshTypeOK /\ NumbersAreOld /\ FirstOffer /\ PeersAreSound /\ MeetingHolds
  BY DEF MeshIInv
<1>2. "lo" \in MeshSides /\ "hi" \in MeshSides /\ FarSide("hi") = "lo" /\ FarSide("lo") = "hi"
  BY DEF MeshSides, FarSide
<1>3. /\ peer'["hi"] = hi /\ peer'["lo"].pc = lo.pc /\ peer'["lo"].remote = lo.remote
      /\ peer'["lo"].sig = "stable" /\ peer'["lo"].last = "hi" /\ peer'["lo"].state = lo.state
      /\ peer'["lo"].making = lo.making
  BY <1>1, <1>2 DEF SetPeer, MeshTypeOK
<1>4. \A r \in MeshSides : peer'[r].pc = peer[r].pc /\ peer'[r].remote = peer[r].remote
  BY <1>3 DEF MeshSides
<1>5. lo.sig = "have-remote-offer" /\ HasPc("lo") /\ lo.remote >= 1 /\ lo.pc >= 1
  BY <1>1, <1>2, Alive DEF SoundPeer, HasPc
<1>6. m \in Descriptions /\ m.t = "answer" /\ m.pc = lo.pc /\ m.of = lo.remote
  BY <1>1, <1>2, MeshParts DEF Descriptions, MeshPeer
<1> HIDE DEF m
<1>7. SendSignal("lo", m)
  BY DEF m
<1>8. NumbersAreOld'
  BY <1>2, <1>4, <1>5, <1>6, <1>7, SentNumbers
<1> DEFINE n == Len(signals["hi"]) + 1
<1>9. /\ n \in Nat /\ \A i \in Offers("hi") \cup Answers("hi") : i \in Nat /\ i < n
      /\ Offers("hi")' = Offers("hi")
      /\ Replies("hi")' = Replies("hi") \cup (IF lo.remote = hi.pc THEN {n} ELSE {})
      /\ Answers("hi")' = Answers("hi") \cup (IF lo.remote = hi.pc THEN {n} ELSE {})
      /\ Offers("lo")' = Offers("lo") /\ Replies("lo")' = Replies("lo") /\ Answers("lo")' = Answers("lo")
  <2>1. /\ n \in Nat /\ \A i \in Offers("hi") \cup Answers("hi") : i \in Nat /\ i < n
        /\ Offers("hi")' = Offers("hi") \cup (IF m.t = "offer" /\ m.pc = peer["lo"].pc THEN {n} ELSE {})
        /\ Replies("hi")' = Replies("hi") \cup (IF m.t = "answer" /\ m.of = peer["hi"].pc THEN {n} ELSE {})
        /\ Answers("hi")' = Answers("hi")
             \cup (IF m.t = "answer" /\ m.of = peer["hi"].pc /\ m.pc = peer["lo"].pc THEN {n} ELSE {})
        /\ Offers("lo")' = Offers("lo") /\ Replies("lo")' = Replies("lo") /\ Answers("lo")' = Answers("lo")
    BY ZenonT(40), <1>1, <1>2, <1>4, <1>6, <1>7, SentAt
  <2> QED BY <1>6, <2>1
<1> HIDE DEF n
<1>10. FirstOffer'
  BY <1>1, <1>3, <1>5, <1>9 DEF FirstOffer, HasPc
<1>11. MeetingHolds'
  <2> SUFFICES ASSUME ~meshLost', Meeting' PROVE (InTurn /\ LowOffer /\ HighOffer /\ SameOffer)'
    BY DEF MeetingHolds
  <2>1. InTurn /\ LowOffer /\ HighOffer /\ SameOffer /\ lo.remote = hi.pc
    BY <1>1, <1>3, <1>5 DEF MeetingHolds, Meeting, HasPc
  <2>2. hi.sig = "have-local-offer" /\ Offers("lo") = {} /\ Answers("hi") = {} /\ Answers("lo") = {}
    BY <1>5, <2>1 DEF HighOffer
  <2>3. Offers("hi") = {}
    BY <1>5, <2>1 DEF LowOffer
  <2>4. InTurn'
    BY <1>9, <2>1, <2>2, <2>3 DEF InTurn
  <2>5. LowOffer'
    BY <1>3, <1>5, <1>9, <2>1, <2>2, <2>3 DEF LowOffer
  <2>6. HighOffer'
    BY <1>3, <1>9, <2>1, <2>2, <2>3 DEF HighOffer
  <2>7. SameOffer'
    BY <1>9, <2>1 DEF SameOffer
  <2> QED BY <2>4, <2>5, <2>6, <2>7
<1> QED BY <1>8, <1>10, <1>11

\* ... or the higher side does.
LEMMA HighAnswers ==
  ASSUME MeshIInv, MeshTypeOK', meshLeft' = meshLeft, peer["hi"].answering,
         SetPeer("hi", [peer["hi"] EXCEPT !.answering = FALSE, !.sig = "stable", !.last = FarSide("hi")]),
         SendSignal("hi", [t |-> "answer", pc |-> peer["hi"].pc, of |-> peer["hi"].remote]),
         meshLost' = meshLost
  PROVE  NumbersAreOld' /\ FirstOffer' /\ MeetingHolds'
<1> DEFINE m == [t |-> "answer", pc |-> peer["hi"].pc, of |-> peer["hi"].remote]
           lo == peer["lo"]
           hi == peer["hi"]
<1>1. MeshTypeOK /\ NumbersAreOld /\ FirstOffer /\ PeersAreSound /\ MeetingHolds
  BY DEF MeshIInv
<1>2. "lo" \in MeshSides /\ "hi" \in MeshSides /\ FarSide("hi") = "lo" /\ FarSide("lo") = "hi"
  BY DEF MeshSides, FarSide
<1>3. /\ peer'["lo"] = lo /\ peer'["hi"].pc = hi.pc /\ peer'["hi"].remote = hi.remote
      /\ peer'["hi"].sig = "stable" /\ peer'["hi"].last = "lo" /\ peer'["hi"].state = hi.state
      /\ peer'["hi"].making = hi.making
  BY <1>1, <1>2 DEF SetPeer, MeshTypeOK
<1>4. \A r \in MeshSides : peer'[r].pc = peer[r].pc /\ peer'[r].remote = peer[r].remote
  BY <1>3 DEF MeshSides
<1>5. hi.sig = "have-remote-offer" /\ HasPc("hi") /\ hi.remote >= 1 /\ hi.pc >= 1
  BY <1>1, <1>2, Alive DEF SoundPeer, HasPc
<1>6. m \in Descriptions /\ m.t = "answer" /\ m.pc = hi.pc /\ m.of = hi.remote
  BY <1>1, <1>2, MeshParts DEF Descriptions, MeshPeer
<1> HIDE DEF m
<1>7. SendSignal("hi", m)
  BY DEF m
<1>8. NumbersAreOld'
  BY <1>2, <1>4, <1>5, <1>6, <1>7, SentNumbers
<1> DEFINE n == Len(signals["lo"]) + 1
<1>9. /\ n \in Nat /\ \A i \in Offers("lo") \cup Answers("lo") : i \in Nat /\ i < n
      /\ Offers("lo")' = Offers("lo")
      /\ Replies("lo")' = Replies("lo") \cup (IF hi.remote = lo.pc THEN {n} ELSE {})
      /\ Answers("lo")' = Answers("lo") \cup (IF hi.remote = lo.pc THEN {n} ELSE {})
      /\ Offers("hi")' = Offers("hi") /\ Replies("hi")' = Replies("hi") /\ Answers("hi")' = Answers("hi")
  <2>1. /\ n \in Nat /\ \A i \in Offers("lo") \cup Answers("lo") : i \in Nat /\ i < n
        /\ Offers("lo")' = Offers("lo") \cup (IF m.t = "offer" /\ m.pc = peer["hi"].pc THEN {n} ELSE {})
        /\ Replies("lo")' = Replies("lo") \cup (IF m.t = "answer" /\ m.of = peer["lo"].pc THEN {n} ELSE {})
        /\ Answers("lo")' = Answers("lo")
             \cup (IF m.t = "answer" /\ m.of = peer["lo"].pc /\ m.pc = peer["hi"].pc THEN {n} ELSE {})
        /\ Offers("hi")' = Offers("hi") /\ Replies("hi")' = Replies("hi") /\ Answers("hi")' = Answers("hi")
    BY ZenonT(40), <1>1, <1>2, <1>4, <1>6, <1>7, SentAt
  <2> QED BY <1>6, <2>1
<1> HIDE DEF n
<1>10. FirstOffer'
  BY <1>1, <1>3, <1>5, <1>9 DEF FirstOffer, HasPc
<1>11. MeetingHolds'
  <2> SUFFICES ASSUME ~meshLost', Meeting' PROVE (InTurn /\ LowOffer /\ HighOffer /\ SameOffer)'
    BY DEF MeetingHolds
  <2>1. InTurn /\ LowOffer /\ HighOffer /\ SameOffer /\ hi.remote = lo.pc
    BY <1>1, <1>3, <1>5 DEF MeetingHolds, Meeting, HasPc
  <2>2. lo.sig = "have-local-offer" /\ Offers("hi") = {} /\ Answers("hi") = {} /\ Answers("lo") = {}
    BY <1>5, <2>1 DEF LowOffer
  <2>4. InTurn'
    BY <1>9, <2>1, <2>2 DEF InTurn
  <2>5. LowOffer'
    BY <1>3, <1>9, <2>1, <2>2 DEF LowOffer
  <2>6. HighOffer'
    BY <1>3, <1>9, <2>1, <2>2 DEF HighOffer
  <2>7. SameOffer'
    BY <1>9, <2>1 DEF SameOffer
  <2> QED BY <2>4, <2>5, <2>6, <2>7
<1> QED BY <1>8, <1>10, <1>11

\* What the taking of the first signal does to what is under way.
Taken(s, f, m) ==
  /\ NumbersAreOld' /\ Fewer("lo") /\ Fewer("hi")
  /\ m.t # "hello" => m.pc \in Nat /\ m.pc >= 1
  /\ \A i : i \in Offers(s)' <=> i \in Nat \ {0} /\ i + 1 \in Offers(s)
  /\ \A i : i \in Replies(s)' <=> i \in Nat \ {0} /\ i + 1 \in Replies(s)
  /\ \A i : i \in Answers(s)' <=> i \in Nat \ {0} /\ i + 1 \in Answers(s)
  /\ Offers(f)' = Offers(f) /\ Replies(f)' = Replies(f) /\ Answers(f)' = Answers(f)
  /\ Offers(s) \subseteq Nat \ {0} /\ Replies(s) \subseteq Nat \ {0} /\ Answers(s) \subseteq Replies(s)
  /\ 1 \in Offers(s) <=> m.t = "offer" /\ m.pc = peer[f].pc
  /\ 1 \in Replies(s) <=> m.t = "answer" /\ m.of = peer[s].pc
  /\ 1 \in Answers(s) <=> m.t = "answer" /\ m.of = peer[s].pc /\ m.pc = peer[f].pc

\* The first signal on the way to s is taken, and the connections stay what they are.
LEMMA SignalTaken ==
  ASSUME MeshIInv, MeshTypeOK', meshLeft' = meshLeft, NEW s \in MeshSides,
         NEW f, f = FarSide(s), NEW m, m = signals[s][1],
         signals[s] # <<>>, signals' = [signals EXCEPT ![s] = Tail(@)],
         \A r \in MeshSides : peer'[r].pc = peer[r].pc,
         \A r \in MeshSides : peer'[r].remote = peer[r].remote \/ (m.t # "hello" /\ peer'[r].remote = m.pc)
  PROVE  Taken(s, f, m)
<1>1. MeshTypeOK /\ NumbersAreOld
  BY DEF MeshIInv
<1>2. f \in MeshSides /\ f # s /\ \A r \in MeshSides : r = s \/ r = f
  BY DEF MeshSides, FarSide
<1>3. /\ signals'[f] = signals[f] /\ Len(signals[s]) \in Nat /\ Len(signals[s]) >= 1
      /\ DOMAIN signals[s] = 1..Len(signals[s])
  BY <1>1, HeadTaken
<1>4. 1 \in DOMAIN signals[s]
  BY <1>3
<1>5. Fewer("lo") /\ Fewer("hi")
  BY <1>2, <1>3 DEF Fewer, MeshSides
<1>6. NoMore("lo") /\ NoMore("hi")
  BY <1>1, <1>5, FewerNoMore DEF MeshSides
<1>7. m.t # "hello" => m.pc \in 1..OpensSoFar
  BY <1>1, <1>4 DEF NumbersAreOld
<1>8. NumbersAreOld'
  BY <1>1, <1>7, <1>6, SameConnections DEF NumbersAreOld, OpensSoFar
<1>9. /\ \A i : i \in Offers(s)' <=> i \in Nat \ {0} /\ i + 1 \in Offers(s)
      /\ \A i : i \in Replies(s)' <=> i \in Nat \ {0} /\ i + 1 \in Replies(s)
      /\ \A i : i \in Answers(s)' <=> i \in Nat \ {0} /\ i + 1 \in Answers(s)
      /\ Offers(f)' = Offers(f) /\ Replies(f)' = Replies(f) /\ Answers(f)' = Answers(f)
  BY <1>1, TailAt
<1>10. Offers(s) \subseteq Nat \ {0} /\ Replies(s) \subseteq Nat \ {0} /\ Answers(s) \subseteq Replies(s)
  BY <1>1, Places
<1>11. /\ 1 \in Offers(s) <=> m.t = "offer" /\ m.pc = peer[f].pc
       /\ 1 \in Replies(s) <=> m.t = "answer" /\ m.of = peer[s].pc
       /\ 1 \in Answers(s) <=> m.t = "answer" /\ m.of = peer[s].pc /\ m.pc = peer[f].pc
  BY <1>4 DEF Offers, Replies, Answers
<1>12. m.t # "hello" => m.pc \in Nat /\ m.pc >= 1
  <2>1. OpensSoFar \in Nat
    BY <1>1 DEF NumbersAreOld
  <2> HIDE DEF OpensSoFar
  <2> QED BY <1>7, <2>1
<1> QED BY <1>5, <1>8, <1>9, <1>10, <1>11, <1>12 DEF Taken

\* A signal is ignored by the lower side ...
LEMMA LowIgnores ==
  ASSUME MeshIInv, MeshTypeOK', meshLeft' = meshLeft, meshLost' = meshLost, HasPc("lo"),
         signals["lo"] # <<>>, signals' = [signals EXCEPT !["lo"] = Tail(@)],
         peer' = peer,
         LET m == signals["lo"][1]
             p == peer["lo"]
         IN \/ m.t = "hello"
            \/ m.t = "offer" /\ ((Collision("lo") /\ ~Polite("lo")) \/ p.remote \notin {0, m.pc})
            \/ m.t = "answer" /\ ~(p.sig = "have-local-offer" /\ m.of = p.pc /\ p.remote \in {0, m.pc})
  PROVE  NumbersAreOld' /\ FirstOffer' /\ MeetingHolds'
<1> DEFINE m == signals["lo"][1]
           lo == peer["lo"]
           hi == peer["hi"]
<1>1. MeshTypeOK /\ NumbersAreOld /\ FirstOffer /\ PeersAreSound /\ MeetingHolds
  BY DEF MeshIInv
<1>2. "lo" \in MeshSides /\ "hi" \in MeshSides /\ FarSide("hi") = "lo" /\ FarSide("lo") = "hi"
  BY DEF MeshSides, FarSide
<1>3. peer' = peer
  OBVIOUS
<1>4. /\ \A r \in MeshSides : peer'[r].pc = peer[r].pc
      /\ \A r \in MeshSides : peer'[r].remote = peer[r].remote \/ (m.t # "hello" /\ peer'[r].remote = m.pc)
  BY <1>3 DEF MeshSides
<1>5. /\ NumbersAreOld' /\ Fewer("hi")
      /\ m.t # "hello" => m.pc \in Nat /\ m.pc >= 1
      /\ \A i : i \in Offers("lo")' <=> i \in Nat \ {0} /\ i + 1 \in Offers("lo")
      /\ \A i : i \in Replies("lo")' <=> i \in Nat \ {0} /\ i + 1 \in Replies("lo")
      /\ \A i : i \in Answers("lo")' <=> i \in Nat \ {0} /\ i + 1 \in Answers("lo")
      /\ Offers("hi")' = Offers("hi") /\ Replies("hi")' = Replies("hi") /\ Answers("hi")' = Answers("hi")
      /\ Offers("lo") \subseteq Nat \ {0} /\ Replies("lo") \subseteq Nat \ {0} /\ Answers("lo") \subseteq Replies("lo")
      /\ 1 \in Offers("lo") <=> m.t = "offer" /\ m.pc = hi.pc
      /\ 1 \in Replies("lo") <=> m.t = "answer" /\ m.of = lo.pc
      /\ 1 \in Answers("lo") <=> m.t = "answer" /\ m.of = lo.pc /\ m.pc = hi.pc
  <2>1. Taken("lo", "hi", m)
    BY <1>2, <1>4, SignalTaken
  <2> QED BY <2>1 DEF Taken
<1> HIDE DEF m
<1>6. FirstOffer'
  BY <1>3, <1>5, FirstOfferKept DEF SameKey
<1>7. MeetingHolds'
  <2> SUFFICES ASSUME ~meshLost', Meeting' PROVE (InTurn /\ LowOffer /\ HighOffer /\ SameOffer)'
    BY DEF MeetingHolds
  <2>1. Meeting /\ InTurn /\ LowOffer /\ HighOffer /\ SameOffer
    BY <1>1, <1>3 DEF MeetingHolds, Meeting, HasPc
  <2>2. lo.remote \in {0, hi.pc} /\ HasPc("hi") /\ hi.remote = lo.pc
    BY <2>1 DEF Meeting
  <2>3. 1 \notin Answers("lo")
    <3> SUFFICES ASSUME 1 \in Answers("lo") PROVE FALSE
      OBVIOUS
    <3>1. lo.sig = "have-local-offer"
      BY <2>1 DEF LowOffer
    <3> QED BY <1>5, <2>2, <3>1 DEF m
  <2>4. 1 \in Offers("lo") => lo.making \/ lo.sig # "stable"
    BY <1>5, <2>2 DEF Collision, m
  <2>5. Answers("lo") = {} <=> Answers("lo")' = {}
    <3>1. \A i \in Answers("lo") : i - 1 \in Nat \ {0} /\ (i - 1) + 1 = i
      BY <1>5, <2>3
    <3>2. \A i \in Answers("lo") : i - 1 \in Answers("lo")'
      BY <1>5, <3>1
    <3> QED BY <1>5, <3>2
  <2>6. InTurn'
    <3>1. \A i, j \in Answers("lo")' : i = j
      BY <1>5, <2>1 DEF InTurn
    <3>2. \A i, j \in Offers("lo")' : i < j => \E k \in Answers("lo")' : i < k /\ k < j
      <4> SUFFICES ASSUME NEW i \in Offers("lo")', NEW j \in Offers("lo")', i < j
                   PROVE  \E k \in Answers("lo")' : i < k /\ k < j
        OBVIOUS
      <4>1. i \in Nat \ {0} /\ j \in Nat \ {0} /\ i + 1 \in Offers("lo") /\ j + 1 \in Offers("lo")
        BY <1>5
      <4>2. PICK k \in Answers("lo") : i + 1 < k /\ k < j + 1
        BY <2>1, <4>1 DEF InTurn
      <4>3. k \in Nat \ {0} /\ k - 1 \in Nat \ {0} /\ (k - 1) + 1 = k
        BY <1>5, <4>1, <4>2
      <4>4. k - 1 \in Answers("lo")' /\ i < k - 1 /\ k - 1 < j
        BY <1>5, <4>1, <4>2, <4>3
      <4> QED BY <4>4
    <3> QED BY <1>5, <2>1, <3>1, <3>2 DEF InTurn
  <2>7. LowOffer'
    BY <1>5, <1>3, <2>1, <2>5 DEF LowOffer
  <2>8. HighOffer'
    <3>1. hi.sig = "have-local-offer" =>
            \/ lo.making \/ lo.sig = "have-remote-offer" \/ Answers("hi") # {} \/ Offers("hi") # {}
            \/ \E i \in Offers("lo")' : \A j \in Answers("lo")' : j < i
      <4> SUFFICES ASSUME hi.sig = "have-local-offer", ~lo.making, lo.sig # "have-remote-offer",
                          Answers("hi") = {}, Offers("hi") = {}
                   PROVE  \E i \in Offers("lo")' : \A j \in Answers("lo")' : j < i
        OBVIOUS
      <4>1. PICK i \in Offers("lo") : \A j \in Answers("lo") : j < i
        BY <2>1 DEF HighOffer
      <4>2. i # 1
        <5> SUFFICES ASSUME i = 1 PROVE FALSE
          OBVIOUS
        <5>1. Answers("lo") = {}
          BY <1>5, <4>1
        <5>2. lo.sig = "have-local-offer"
          BY <1>1, <1>2, <2>4, MeshParts DEF MeshPeer
        <5> QED BY <2>1, <5>1, <5>2 DEF LowOffer
      <4>3. i - 1 \in Nat \ {0} /\ (i - 1) + 1 = i /\ i \in Nat
        BY <1>5, <4>2
      <4>4. i - 1 \in Offers("lo")'
        BY <1>5, <4>3
      <4>5. \A j \in Answers("lo")' : j < i - 1
        BY <1>5, <4>1, <4>3
      <4> QED BY <4>4, <4>5
    <3>2. hi.sig = "stable" => \A i \in Offers("lo")' : \E j \in Answers("lo")' : i < j
      <4> SUFFICES ASSUME hi.sig = "stable", NEW i \in Offers("lo")' PROVE \E j \in Answers("lo")' : i < j
        OBVIOUS
      <4>1. i \in Nat \ {0} /\ i + 1 \in Offers("lo")
        BY <1>5
      <4>2. PICK j \in Answers("lo") : i + 1 < j
        BY <2>1, <4>1 DEF HighOffer
      <4>3. j - 1 \in Nat \ {0} /\ (j - 1) + 1 = j /\ i < j - 1
        BY <1>5, <4>1, <4>2
      <4>4. j - 1 \in Answers("lo")'
        BY <1>5, <4>3
      <4> QED BY <4>3, <4>4
    <3>3. Offers("lo") = {} => Offers("lo")' = {}
      BY <1>5
    <3> QED BY <1>3, <1>5, <2>1, <2>5, <3>1, <3>2, <3>3 DEF HighOffer
  <2>9. SameOffer'
    BY <1>3, <1>5, <2>1, <2>5 DEF SameOffer
  <2> QED BY <2>6, <2>7, <2>8, <2>9
<1> QED BY <1>5, <1>6, <1>7

\* ... or by the higher.
LEMMA HighIgnores ==
  ASSUME MeshIInv, MeshTypeOK', meshLeft' = meshLeft, meshLost' = meshLost, HasPc("hi"),
         signals["hi"] # <<>>, signals' = [signals EXCEPT !["hi"] = Tail(@)],
         peer' = peer,
         LET m == signals["hi"][1]
             p == peer["hi"]
         IN \/ m.t = "hello"
            \/ m.t = "offer" /\ ((Collision("hi") /\ ~Polite("hi")) \/ p.remote \notin {0, m.pc})
            \/ m.t = "answer" /\ ~(p.sig = "have-local-offer" /\ m.of = p.pc /\ p.remote \in {0, m.pc})
  PROVE  NumbersAreOld' /\ FirstOffer' /\ MeetingHolds'
<1> DEFINE m == signals["hi"][1]
           lo == peer["lo"]
           hi == peer["hi"]
<1>1. MeshTypeOK /\ NumbersAreOld /\ FirstOffer /\ PeersAreSound /\ MeetingHolds
  BY DEF MeshIInv
<1>2. "lo" \in MeshSides /\ "hi" \in MeshSides /\ FarSide("hi") = "lo" /\ FarSide("lo") = "hi"
  BY DEF MeshSides, FarSide
<1>3. peer' = peer
  OBVIOUS
<1>4. /\ \A r \in MeshSides : peer'[r].pc = peer[r].pc
      /\ \A r \in MeshSides : peer'[r].remote = peer[r].remote \/ (m.t # "hello" /\ peer'[r].remote = m.pc)
  BY <1>3 DEF MeshSides
<1>5. /\ NumbersAreOld' /\ Fewer("hi")
      /\ m.t # "hello" => m.pc \in Nat /\ m.pc >= 1
      /\ \A i : i \in Offers("hi")' <=> i \in Nat \ {0} /\ i + 1 \in Offers("hi")
      /\ \A i : i \in Replies("hi")' <=> i \in Nat \ {0} /\ i + 1 \in Replies("hi")
      /\ \A i : i \in Answers("hi")' <=> i \in Nat \ {0} /\ i + 1 \in Answers("hi")
      /\ Offers("lo")' = Offers("lo") /\ Replies("lo")' = Replies("lo") /\ Answers("lo")' = Answers("lo")
      /\ Offers("hi") \subseteq Nat \ {0} /\ Replies("hi") \subseteq Nat \ {0} /\ Answers("hi") \subseteq Replies("hi")
      /\ 1 \in Offers("hi") <=> m.t = "offer" /\ m.pc = lo.pc
      /\ 1 \in Replies("hi") <=> m.t = "answer" /\ m.of = hi.pc
      /\ 1 \in Answers("hi") <=> m.t = "answer" /\ m.of = hi.pc /\ m.pc = lo.pc
  <2>1. Taken("hi", "lo", m)
    BY <1>2, <1>4, SignalTaken
  <2> QED BY <2>1 DEF Taken
<1> HIDE DEF m
<1>6. FirstOffer'
  BY <1>3, <1>5, FirstOfferKept DEF SameKey
<1>7. MeetingHolds'
  <2> SUFFICES ASSUME ~meshLost', Meeting' PROVE (InTurn /\ LowOffer /\ HighOffer /\ SameOffer)'
    BY DEF MeetingHolds
  <2>1. Meeting /\ InTurn /\ LowOffer /\ HighOffer /\ SameOffer
    BY <1>1, <1>3 DEF MeetingHolds, Meeting, HasPc
  <2>2. hi.remote = lo.pc
    BY <2>1 DEF Meeting
  <2>3. 1 \notin Answers("hi")
    <3> SUFFICES ASSUME 1 \in Answers("hi") PROVE FALSE
      OBVIOUS
    <3>1. hi.sig = "have-local-offer"
      BY <2>1 DEF HighOffer
    <3> QED BY <1>5, <2>2, <3>1 DEF m
  <2>4. 1 \notin Offers("hi")
    BY <1>5, <2>2 DEF Polite, m
  <2>5. \A i \in Answers("hi") : i - 1 \in Answers("hi")' /\ i \in Nat
    BY <1>5, <2>3
  <2>6. \A i \in Offers("hi") : i - 1 \in Offers("hi")' /\ i \in Nat
    BY <1>5, <2>4
  <2>7. (Answers("hi") = {} <=> Answers("hi")' = {}) /\ (Offers("hi") = {} <=> Offers("hi")' = {})
    BY <1>5, <2>5, <2>6
  <2>8. InTurn'
    BY <1>5, <2>1 DEF InTurn
  <2>9. LowOffer'
    BY <1>3, <1>5, <2>1, <2>7 DEF LowOffer
  <2>10. HighOffer'
    BY <1>3, <1>5, <2>1, <2>7 DEF HighOffer
  <2>11. SameOffer'
    BY <1>3, <1>5, <2>1, <2>7 DEF SameOffer
  <2> QED BY <2>8, <2>9, <2>10, <2>11
<1> QED BY <1>5, <1>6, <1>7

\* The answer to its offer reaches the lower side ...
LEMMA LowAccepts ==
  ASSUME MeshIInv, MeshTypeOK', meshLeft' = meshLeft, meshLost' = meshLost, HasPc("lo"),
         signals["lo"] # <<>>, signals' = [signals EXCEPT !["lo"] = Tail(@)],
         signals["lo"][1].t = "answer", peer["lo"].sig = "have-local-offer",
         signals["lo"][1].of = peer["lo"].pc, peer["lo"].remote \in {0, signals["lo"][1].pc},
         SetPeer("lo", [peer["lo"] EXCEPT !.sig = "stable", !.remote = signals["lo"][1].pc, !.last = "lo"])
  PROVE  NumbersAreOld' /\ FirstOffer' /\ MeetingHolds'
<1> DEFINE m == signals["lo"][1]
           lo == peer["lo"]
           hi == peer["hi"]
<1>1. MeshTypeOK /\ NumbersAreOld /\ FirstOffer /\ PeersAreSound /\ MeetingHolds
  BY DEF MeshIInv
<1>2. "lo" \in MeshSides /\ "hi" \in MeshSides /\ FarSide("hi") = "lo" /\ FarSide("lo") = "hi"
  BY DEF MeshSides, FarSide
<1>3. /\ peer'["hi"] = hi /\ peer'["lo"].pc = lo.pc /\ peer'["lo"].remote = m.pc
      /\ peer'["lo"].sig = "stable" /\ peer'["lo"].last = "lo" /\ peer'["lo"].state = lo.state
      /\ peer'["lo"].making = lo.making /\ m.t = "answer" /\ lo.sig = "have-local-offer" /\ m.of = lo.pc
      /\ lo.remote \in {0, m.pc}
  BY <1>1, <1>2 DEF SetPeer, MeshTypeOK
<1>4. /\ \A r \in MeshSides : peer'[r].pc = peer[r].pc
      /\ \A r \in MeshSides : peer'[r].remote = peer[r].remote \/ (m.t # "hello" /\ peer'[r].remote = m.pc)
  BY <1>3 DEF MeshSides
<1>5. /\ NumbersAreOld' /\ Fewer("hi")
      /\ m.t # "hello" => m.pc \in Nat /\ m.pc >= 1
      /\ \A i : i \in Offers("lo")' <=> i \in Nat \ {0} /\ i + 1 \in Offers("lo")
      /\ \A i : i \in Replies("lo")' <=> i \in Nat \ {0} /\ i + 1 \in Replies("lo")
      /\ \A i : i \in Answers("lo")' <=> i \in Nat \ {0} /\ i + 1 \in Answers("lo")
      /\ Offers("hi")' = Offers("hi") /\ Replies("hi")' = Replies("hi") /\ Answers("hi")' = Answers("hi")
      /\ Offers("lo") \subseteq Nat \ {0} /\ Replies("lo") \subseteq Nat \ {0} /\ Answers("lo") \subseteq Replies("lo")
      /\ 1 \in Offers("lo") <=> m.t = "offer" /\ m.pc = hi.pc
      /\ 1 \in Replies("lo") <=> m.t = "answer" /\ m.of = lo.pc
      /\ 1 \in Answers("lo") <=> m.t = "answer" /\ m.of = lo.pc /\ m.pc = hi.pc
  <2>1. Taken("lo", "hi", m)
    BY <1>2, <1>4, SignalTaken
  <2> QED BY <2>1 DEF Taken
<1> HIDE DEF m
<1>6. FirstOffer'
  BY <1>3, <1>5 DEF FirstOffer
<1>7. MeetingHolds'
  <2> SUFFICES ASSUME ~meshLost', Meeting' PROVE (InTurn /\ LowOffer /\ HighOffer /\ SameOffer)'
    BY DEF MeetingHolds
  <2>1. m.pc = hi.pc /\ 1 \in Answers("lo")
    BY <1>3, <1>5 DEF Meeting
  <2>2. InTurn /\ LowOffer /\ HighOffer /\ SameOffer
    BY <1>1, <1>3, <2>1 DEF MeetingHolds, Meeting, HasPc
  <2>3. hi.last = "lo" /\ Offers("hi") = {} /\ Answers("hi") = {} /\ hi.sig # "have-remote-offer"
    BY <2>1, <2>2 DEF LowOffer
  <2>4. Answers("lo")' = {}
    BY <1>5, <2>1, <2>2 DEF InTurn
  <2>5. \A i, j \in Offers("lo")' : ~(i < j)
    <3> SUFFICES ASSUME NEW i \in Offers("lo")', NEW j \in Offers("lo")', i < j PROVE FALSE
      OBVIOUS
    <3>1. i \in Nat \ {0} /\ j \in Nat \ {0} /\ i + 1 \in Offers("lo") /\ j + 1 \in Offers("lo")
      BY <1>5
    <3>2. PICK k \in Answers("lo") : i + 1 < k
      BY <2>2, <3>1 DEF InTurn
    <3>3. k = 1
      BY <2>1, <2>2 DEF InTurn
    <3> QED BY <3>1, <3>2, <3>3
  <2>6. InTurn'
    BY <1>5, <2>3, <2>4, <2>5 DEF InTurn
  <2>7. m.pc # 0
    BY <1>3, <1>5
  <2>8. LowOffer'
    BY <1>3, <1>5, <2>3, <2>4, <2>7 DEF LowOffer
  <2>9. hi.sig # "stable" \/ Offers("lo")' = {}
    <3> SUFFICES ASSUME hi.sig = "stable", NEW i \in Offers("lo")' PROVE FALSE
      OBVIOUS
    <3>1. i \in Nat \ {0} /\ i + 1 \in Offers("lo")
      BY <1>5
    <3>2. PICK j \in Answers("lo") : i + 1 < j
      BY <2>2, <3>1 DEF HighOffer
    <3>3. j = 1
      BY <2>1, <2>2 DEF InTurn
    <3> QED BY <3>1, <3>2, <3>3
  <2>10. hi.sig = "have-local-offer" => Offers("lo")' # {}
    <3> SUFFICES ASSUME hi.sig = "have-local-offer" PROVE Offers("lo")' # {}
      OBVIOUS
    <3>1. ~lo.making
      BY <1>1, <1>2, <1>3 DEF PeersAreSound, SoundPeer
    <3>2. PICK i \in Offers("lo") : \A j \in Answers("lo") : j < i
      BY <1>3, <2>2, <2>3, <3>1 DEF HighOffer
    <3>3. i \in Nat \ {0} /\ 1 < i
      BY <1>5, <2>1, <3>2
    <3>4. i - 1 \in Nat \ {0} /\ (i - 1) + 1 = i
      BY <3>3
    <3> QED BY <1>5, <3>4
  <2>11. HighOffer'
    BY <1>3, <1>5, <2>3, <2>4, <2>9, <2>10 DEF HighOffer
  <2>12. SameOffer'
    BY <1>3, <2>3 DEF SameOffer
  <2> QED BY <2>6, <2>8, <2>11, <2>12
<1> QED BY <1>5, <1>6, <1>7

\* ... or the higher.
LEMMA HighAccepts ==
  ASSUME MeshIInv, MeshTypeOK', meshLeft' = meshLeft, meshLost' = meshLost, HasPc("hi"),
         signals["hi"] # <<>>, signals' = [signals EXCEPT !["hi"] = Tail(@)],
         signals["hi"][1].t = "answer", peer["hi"].sig = "have-local-offer",
         signals["hi"][1].of = peer["hi"].pc, peer["hi"].remote \in {0, signals["hi"][1].pc},
         SetPeer("hi", [peer["hi"] EXCEPT !.sig = "stable", !.remote = signals["hi"][1].pc, !.last = "hi"])
  PROVE  NumbersAreOld' /\ FirstOffer' /\ MeetingHolds'
<1> DEFINE m == signals["hi"][1]
           lo == peer["lo"]
           hi == peer["hi"]
<1>1. MeshTypeOK /\ NumbersAreOld /\ FirstOffer /\ PeersAreSound /\ MeetingHolds
  BY DEF MeshIInv
<1>2. "lo" \in MeshSides /\ "hi" \in MeshSides /\ FarSide("hi") = "lo" /\ FarSide("lo") = "hi"
  BY DEF MeshSides, FarSide
<1>3. /\ peer'["lo"] = lo /\ peer'["hi"].pc = hi.pc /\ peer'["hi"].remote = m.pc
      /\ peer'["hi"].sig = "stable" /\ peer'["hi"].last = "hi" /\ peer'["hi"].state = hi.state
      /\ peer'["hi"].making = hi.making /\ m.t = "answer" /\ hi.sig = "have-local-offer" /\ m.of = hi.pc
      /\ hi.remote \in {0, m.pc}
  BY <1>1, <1>2 DEF SetPeer, MeshTypeOK
<1>4. /\ \A r \in MeshSides : peer'[r].pc = peer[r].pc
      /\ \A r \in MeshSides : peer'[r].remote = peer[r].remote \/ (m.t # "hello" /\ peer'[r].remote = m.pc)
  BY <1>3 DEF MeshSides
<1>5. /\ NumbersAreOld' /\ Fewer("hi")
      /\ m.t # "hello" => m.pc \in Nat /\ m.pc >= 1
      /\ \A i : i \in Offers("hi")' <=> i \in Nat \ {0} /\ i + 1 \in Offers("hi")
      /\ \A i : i \in Replies("hi")' <=> i \in Nat \ {0} /\ i + 1 \in Replies("hi")
      /\ \A i : i \in Answers("hi")' <=> i \in Nat \ {0} /\ i + 1 \in Answers("hi")
      /\ Offers("lo")' = Offers("lo") /\ Replies("lo")' = Replies("lo") /\ Answers("lo")' = Answers("lo")
      /\ Offers("hi") \subseteq Nat \ {0} /\ Replies("hi") \subseteq Nat \ {0} /\ Answers("hi") \subseteq Replies("hi")
      /\ 1 \in Offers("hi") <=> m.t = "offer" /\ m.pc = lo.pc
      /\ 1 \in Replies("hi") <=> m.t = "answer" /\ m.of = hi.pc
      /\ 1 \in Answers("hi") <=> m.t = "answer" /\ m.of = hi.pc /\ m.pc = lo.pc
  <2>1. Taken("hi", "lo", m)
    BY <1>2, <1>4, SignalTaken
  <2> QED BY <2>1 DEF Taken
<1> HIDE DEF m
<1>6. FirstOffer'
  BY <1>3, <1>1, <1>2, <1>5, FirstOfferKept DEF SameKey, PeersAreSound, SoundPeer, HasPc
<1>7. MeetingHolds'
  <2> SUFFICES ASSUME ~meshLost', Meeting' PROVE (InTurn /\ LowOffer /\ HighOffer /\ SameOffer)'
    BY DEF MeetingHolds
  <2>1. hi.remote = m.pc
    BY <1>1, <1>2, <1>3 DEF PeersAreSound, SoundPeer, HasPc
  <2>2. m.pc = lo.pc /\ 1 \in Answers("hi")
    BY <1>3, <1>5 DEF Meeting
  <2>3. InTurn /\ LowOffer /\ HighOffer /\ SameOffer
    BY <1>1, <1>3, <2>1, <2>2 DEF MeetingHolds, Meeting, HasPc
  <2>4. lo.last = "hi" /\ Offers("lo") = {} /\ lo.sig # "have-remote-offer"
    BY <2>2, <2>3 DEF HighOffer
  <2>5. Answers("lo") = {}
    BY <2>2, <2>3 DEF LowOffer
  <2>6. Answers("hi")' = {}
    BY <1>5, <2>2, <2>3 DEF InTurn
  <2>7. Offers("hi") = {} <=> Offers("hi")' = {}
    <3>1. \A i \in Offers("hi") : i \in Nat \ {0} /\ i # 1
      BY <1>3, <1>5
    <3>2. \A i \in Offers("hi") : i - 1 \in Nat \ {0} /\ (i - 1) + 1 = i
      BY <3>1
    <3>3. \A i \in Offers("hi") : i - 1 \in Offers("hi")'
      BY <1>5, <3>2
    <3> QED BY <1>5, <3>3
  <2>8. InTurn'
    BY <1>5, <2>3, <2>4, <2>5, <2>6 DEF InTurn
  <2>9. LowOffer'
    BY <1>3, <1>5, <2>3, <2>5, <2>6, <2>7 DEF LowOffer
  <2>10. HighOffer'
    BY <1>3, <1>5, <2>3, <2>4, <2>6 DEF HighOffer
  <2>11. SameOffer'
    BY <1>3, <2>4 DEF SameOffer
  <2> QED BY <2>8, <2>9, <2>10, <2>11
<1> QED BY <1>5, <1>6, <1>7

\* An offer is taken by the lower side ...
LEMMA LowTakes ==
  ASSUME MeshIInv, MeshTypeOK', meshLeft' = meshLeft, meshLost' = meshLost, HasPc("lo"),
         signals["lo"] # <<>>, signals' = [signals EXCEPT !["lo"] = Tail(@)],
         signals["lo"][1].t = "offer", peer["lo"].remote \in {0, signals["lo"][1].pc},
         ~peer["lo"].making, peer["lo"].sig = "stable",
         \E b \in BOOLEAN :
           SetPeer("lo", [peer["lo"] EXCEPT !.sig = "have-remote-offer", !.remote = signals["lo"][1].pc,
                                            !.answering = TRUE, !.need = b])
  PROVE  NumbersAreOld' /\ FirstOffer' /\ MeetingHolds'
<1> DEFINE m == signals["lo"][1]
           lo == peer["lo"]
           hi == peer["hi"]
<1>1. MeshTypeOK /\ NumbersAreOld /\ FirstOffer /\ PeersAreSound /\ MeetingHolds
  BY DEF MeshIInv
<1>2. "lo" \in MeshSides /\ "hi" \in MeshSides /\ FarSide("hi") = "lo" /\ FarSide("lo") = "hi"
  BY DEF MeshSides, FarSide
<1>3. /\ peer'["hi"] = hi /\ peer'["lo"].pc = lo.pc /\ peer'["lo"].remote = m.pc
      /\ peer'["lo"].sig = "have-remote-offer" /\ peer'["lo"].last = lo.last /\ peer'["lo"].state = lo.state
      /\ m.t = "offer" /\ lo.remote \in {0, m.pc}
  BY <1>1, <1>2 DEF SetPeer, MeshTypeOK
<1>4. /\ \A r \in MeshSides : peer'[r].pc = peer[r].pc
      /\ \A r \in MeshSides : peer'[r].remote = peer[r].remote \/ (m.t # "hello" /\ peer'[r].remote = m.pc)
  BY <1>3 DEF MeshSides
<1>5. /\ NumbersAreOld' /\ Fewer("hi")
      /\ m.t # "hello" => m.pc \in Nat /\ m.pc >= 1
      /\ \A i : i \in Offers("lo")' <=> i \in Nat \ {0} /\ i + 1 \in Offers("lo")
      /\ \A i : i \in Replies("lo")' <=> i \in Nat \ {0} /\ i + 1 \in Replies("lo")
      /\ \A i : i \in Answers("lo")' <=> i \in Nat \ {0} /\ i + 1 \in Answers("lo")
      /\ Offers("hi")' = Offers("hi") /\ Replies("hi")' = Replies("hi") /\ Answers("hi")' = Answers("hi")
      /\ Offers("lo") \subseteq Nat \ {0} /\ Replies("lo") \subseteq Nat \ {0} /\ Answers("lo") \subseteq Replies("lo")
      /\ 1 \in Offers("lo") <=> m.t = "offer" /\ m.pc = hi.pc
      /\ 1 \in Replies("lo") <=> m.t = "answer" /\ m.of = lo.pc
      /\ 1 \in Answers("lo") <=> m.t = "answer" /\ m.of = lo.pc /\ m.pc = hi.pc
  <2>1. Taken("lo", "hi", m)
    BY <1>2, <1>4, SignalTaken
  <2> QED BY <2>1 DEF Taken
<1> HIDE DEF m
<1>6. FirstOffer'
  BY <1>3, <1>5 DEF FirstOffer
<1>7. MeetingHolds'
  <2> SUFFICES ASSUME ~meshLost', Meeting' PROVE (InTurn /\ LowOffer /\ HighOffer /\ SameOffer)'
    BY DEF MeetingHolds
  <2>1. m.pc = hi.pc /\ 1 \in Offers("lo")
    BY <1>3, <1>5 DEF Meeting
  <2>2. InTurn /\ LowOffer /\ HighOffer /\ SameOffer
    BY <1>1, <1>3, <2>1 DEF MeetingHolds, Meeting, HasPc
  <2>3. Offers("hi") = {} /\ hi.sig # "have-remote-offer" /\ Answers("lo") = {}
    BY <2>2 DEF LowOffer
  <2>4. hi.sig = "have-local-offer" /\ Answers("hi") = {}
    BY <2>1, <2>2, <2>3, <1>1, <1>2, MeshParts DEF HighOffer, MeshPeer
  <2>5. Answers("lo")' = {}
    BY <1>5, <2>3
  <2>6. Offers("lo")' = {}
    <3> SUFFICES ASSUME NEW i \in Offers("lo")' PROVE FALSE
      OBVIOUS
    <3>1. i \in Nat \ {0} /\ i + 1 \in Offers("lo") /\ 1 < i + 1
      BY <1>5
    <3> QED BY <2>1, <2>2, <2>3, <3>1 DEF InTurn
  <2>7. InTurn'
    BY <1>5, <2>3, <2>4, <2>5, <2>6 DEF InTurn
  <2>8. m.pc # 0
    BY <1>3, <1>5
  <2>9. LowOffer'
    BY <1>3, <1>5, <2>3, <2>5, <2>8 DEF LowOffer
  <2>10. HighOffer'
    BY <1>3, <1>5, <2>4, <2>5, <2>6 DEF HighOffer
  <2>11. SameOffer'
    BY <1>3, <2>2, <2>3, <2>4 DEF SameOffer
  <2> QED BY <2>7, <2>9, <2>10, <2>11
<1> QED BY <1>5, <1>6, <1>7

\* ... or by the higher.
LEMMA HighTakes ==
  ASSUME MeshIInv, MeshTypeOK', meshLeft' = meshLeft, meshLost' = meshLost, HasPc("hi"),
         signals["hi"] # <<>>, signals' = [signals EXCEPT !["hi"] = Tail(@)],
         signals["hi"][1].t = "offer", peer["hi"].remote \in {0, signals["hi"][1].pc},
         \E b \in BOOLEAN :
           SetPeer("hi", [peer["hi"] EXCEPT !.sig = "have-remote-offer", !.remote = signals["hi"][1].pc,
                                            !.answering = TRUE, !.need = b])
  PROVE  NumbersAreOld' /\ FirstOffer' /\ MeetingHolds'
<1> DEFINE m == signals["hi"][1]
           lo == peer["lo"]
           hi == peer["hi"]
<1>1. MeshTypeOK /\ NumbersAreOld /\ FirstOffer /\ PeersAreSound /\ MeetingHolds
  BY DEF MeshIInv
<1>2. "lo" \in MeshSides /\ "hi" \in MeshSides /\ FarSide("hi") = "lo" /\ FarSide("lo") = "hi"
  BY DEF MeshSides, FarSide
<1>3. /\ peer'["lo"] = lo /\ peer'["hi"].pc = hi.pc /\ peer'["hi"].remote = m.pc
      /\ peer'["hi"].sig = "have-remote-offer" /\ peer'["hi"].last = hi.last /\ peer'["hi"].state = hi.state
      /\ m.t = "offer" /\ hi.remote \in {0, m.pc}
  BY <1>1, <1>2 DEF SetPeer, MeshTypeOK
<1>4. /\ \A r \in MeshSides : peer'[r].pc = peer[r].pc
      /\ \A r \in MeshSides : peer'[r].remote = peer[r].remote \/ (m.t # "hello" /\ peer'[r].remote = m.pc)
  BY <1>3 DEF MeshSides
<1>5. /\ NumbersAreOld' /\ Fewer("hi")
      /\ m.t # "hello" => m.pc \in Nat /\ m.pc >= 1
      /\ \A i : i \in Offers("hi")' <=> i \in Nat \ {0} /\ i + 1 \in Offers("hi")
      /\ \A i : i \in Replies("hi")' <=> i \in Nat \ {0} /\ i + 1 \in Replies("hi")
      /\ \A i : i \in Answers("hi")' <=> i \in Nat \ {0} /\ i + 1 \in Answers("hi")
      /\ Offers("lo")' = Offers("lo") /\ Replies("lo")' = Replies("lo") /\ Answers("lo")' = Answers("lo")
      /\ Offers("hi") \subseteq Nat \ {0} /\ Replies("hi") \subseteq Nat \ {0} /\ Answers("hi") \subseteq Replies("hi")
      /\ 1 \in Offers("hi") <=> m.t = "offer" /\ m.pc = lo.pc
      /\ 1 \in Replies("hi") <=> m.t = "answer" /\ m.of = hi.pc
      /\ 1 \in Answers("hi") <=> m.t = "answer" /\ m.of = hi.pc /\ m.pc = lo.pc
  <2>1. Taken("hi", "lo", m)
    BY <1>2, <1>4, SignalTaken
  <2> QED BY <2>1 DEF Taken
<1> HIDE DEF m
<1>6. FirstOffer'
  BY <1>3, <1>1, <1>2, <1>5, FirstOfferKept DEF SameKey, PeersAreSound, SoundPeer, HasPc
<1>7. MeetingHolds'
  <2> SUFFICES ASSUME ~meshLost', Meeting' PROVE (InTurn /\ LowOffer /\ HighOffer /\ SameOffer)'
    BY DEF MeetingHolds
  <2>1. hi.remote = m.pc
    BY <1>1, <1>2, <1>3 DEF PeersAreSound, SoundPeer, HasPc
  <2>2. m.pc = lo.pc /\ 1 \in Offers("hi")
    BY <1>3, <1>5 DEF Meeting
  <2>3. InTurn /\ LowOffer /\ HighOffer /\ SameOffer
    BY <1>1, <1>3, <2>1, <2>2 DEF MeetingHolds, Meeting, HasPc
  <2>4. lo.sig = "have-local-offer" /\ Answers("lo") = {}
    BY <2>2, <2>3 DEF LowOffer
  <2>5. Offers("hi")' = {}
    BY <1>5, <2>2, <2>3 DEF InTurn
  <2>6. Answers("hi") = {}
    <3> SUFFICES ASSUME NEW i \in Answers("hi") PROVE FALSE
      OBVIOUS
    <3>1. i \in Nat \ {0} /\ i < 1
      BY <1>5, <2>2, <2>3 DEF InTurn
    <3> QED BY <3>1
  <2>7. Answers("hi")' = {}
    BY <1>5, <2>6
  <2>8. InTurn'
    BY <1>5, <2>3, <2>5, <2>7 DEF InTurn
  <2>9. LowOffer'
    BY <1>3, <1>5, <2>3, <2>4, <2>5, <2>7 DEF LowOffer
  <2>10. HighOffer'
    BY <1>3, <2>4, <2>7 DEF HighOffer
  <2>11. SameOffer'
    BY <1>3, <2>3, <2>4, <2>6 DEF SameOffer
  <2> QED BY <2>8, <2>9, <2>10, <2>11
<1> QED BY <1>5, <1>6, <1>7

\* A step on one peer that neither sends nor takes a signal.
LEMMA QuietStep ==
  ASSUME MeshIInv, NEW s \in MeshSides,
         \/ Changes(s) \/ OfferStarts(s) \/ ChannelOpens(s) \/ ConnectionLost(s) \/ RestartIce(s) \/ CoolsDown(s)
  PROVE  MeshIInv'
<1>1. MeshTypeOK' /\ PeersAreSound'
  BY QuietTyped
<1>2. MeshTypeOK
  BY DEF MeshIInv
<1>3. signals' = signals /\ meshLost' = meshLost
  BY DEF Changes, OfferStarts, ChannelOpens, ConnectionLost, RestartIce, CoolsDown
<1>4. meshLeft'["opens"] = meshLeft["opens"]
  <2>1. CASE Changes(s)
    BY MeshAssumption, <1>2, <2>1, SpendMeshTyped DEF Changes
  <2> QED BY <2>1 DEF OfferStarts, ChannelOpens, ConnectionLost, RestartIce, CoolsDown
<1>5. OpensSoFar' = OpensSoFar
  BY <1>4 DEF OpensSoFar
<1>6. peer[s] \in MeshPeer
  BY <1>2, MeshParts
<1>7. \A r \in MeshSides : r # s => peer'[r] = peer[r]
  BY <1>2 DEF Changes, OfferStarts, ChannelOpens, ConnectionLost, RestartIce, CoolsDown, SetPeer, MeshTypeOK
<1>8. SameKey(s) /\ (peer[s].making => peer'[s].making)
  <2>1. CASE Changes(s)
    BY <1>2, <1>6, <2>1 DEF Changes, SetPeer, MeshTypeOK, MeshPeer, SameKey, HasPc
  <2>2. CASE OfferStarts(s)
    BY <1>2, <1>6, <2>2 DEF OfferStarts, SetPeer, MeshTypeOK, MeshPeer, SameKey, HasPc
  <2>3. CASE ChannelOpens(s)
    BY <1>2, <1>6, <2>3 DEF ChannelOpens, SetPeer, MeshTypeOK, MeshPeer, SameKey, HasPc
  <2>4. CASE ConnectionLost(s)
    BY <1>2, <1>6, <2>4 DEF ConnectionLost, SetPeer, MeshTypeOK, MeshPeer, SameKey, HasPc
  <2>5. CASE RestartIce(s)
    BY <1>2, <1>6, <2>5 DEF RestartIce, SetPeer, MeshTypeOK, MeshPeer, SameKey, HasPc
  <2>6. CASE CoolsDown(s)
    BY <1>2, <1>6, <2>6 DEF CoolsDown, SetPeer, MeshTypeOK, MeshPeer, SameKey, HasPc
  <2> QED BY <2>1, <2>2, <2>3, <2>4, <2>5, <2>6
<1>9. SameKey("lo") /\ SameKey("hi") /\ (peer["lo"].making => peer'["lo"].making)
  BY <1>7, <1>8 DEF SameKey, MeshSides
<1> QED BY <1>1, <1>3, <1>5, <1>9, QuietKeeps DEF MeshIInv

\* A step after which a side has no connection.
LEMMA GoneStep ==
  ASSUME MeshIInv, NEW s \in MeshSides, TimesOut(s) \/ FarClosed(s) \/ Destroy(s) \/ Prune(s)
  PROVE  MeshIInv'
<1>1. MeshTypeOK' /\ PeersAreSound'
  BY QuietTyped, LoudTyped
<1>2. MeshTypeOK /\ "lo" \in MeshSides /\ "hi" \in MeshSides
  BY DEF MeshIInv, MeshSides
<1>3. meshLeft'["opens"] = meshLeft["opens"]
  <2>1. CASE Destroy(s)
    BY MeshAssumption, <1>2, <2>1, SpendMeshTyped DEF Destroy
  <2> QED BY <2>1 DEF TimesOut, FarClosed, Prune
<1>4. OpensSoFar' = OpensSoFar
  BY <1>3 DEF OpensSoFar
<1>5. SetPeer(s, NoPeer) \/ SetPeer(s, [NoPeer EXCEPT !.state = "server-only"])
  BY DEF TimesOut, FarClosed, Destroy, Prune
<1>6. peer'[s] = NoPeer \/ peer'[s] = [NoPeer EXCEPT !.state = "server-only"]
  BY <1>2, <1>5 DEF SetPeer, MeshTypeOK
<1>7. peer'[s].state \notin {"connecting", "connected"} /\ peer'[s].pc = 0 /\ peer'[s].remote = 0
  BY <1>6 DEF NoPeer
<1>8. peer'[FarSide(s)] = peer[FarSide(s)]
  BY <1>2, <1>5 DEF SetPeer, MeshTypeOK, MeshSides, FarSide
<1>9. \A r \in MeshSides : signals'[r] = signals[r] \/ signals'[r] = <<>>
  BY <1>2 DEF TimesOut, FarClosed, Destroy, Prune, MeshTypeOK
<1>10. Fewer("lo") /\ Fewer("hi")
  BY <1>2, <1>9 DEF Fewer
<1>11. NoMore("lo")
  BY <1>1, <1>2, <1>10, FewerNoMore
<1> QED BY <1>1, <1>4, <1>7, <1>8, <1>10, <1>11, GoneKeeps DEF MeshIInv

\* The steps that send.
LEMMA SendingStep ==
  ASSUME MeshIInv, NEW s \in MeshSides, OfferMade(s) \/ AnswerMade(s)
  PROVE  MeshIInv'
<1>1. MeshTypeOK' /\ PeersAreSound'
  BY LoudTyped
<1>2. MeshTypeOK /\ "lo" \in MeshSides /\ "hi" \in MeshSides
  BY DEF MeshIInv, MeshSides
<1>3. meshLeft' = meshLeft /\ meshLost' = meshLost /\ s \in {"lo", "hi"}
  BY DEF OfferMade, AnswerMade, MeshSides
<1>4. /\ peer[s] \in MeshPeer /\ SoundPeer(s, peer[s])
      /\ peer[s].making \/ peer[s].answering => HasPc(s)
  BY Alive
<1>5. CASE AnswerMade(s)
  BY <1>1, <1>3, <1>5, LowAnswers, HighAnswers DEF AnswerMade, MeshIInv
<1>6. CASE OfferMade(s) /\ peer[s].sig # "have-remote-offer"
  BY <1>4, <1>6, <1>1, <1>3, LowOffers, HighOffers DEF OfferMade, SoundPeer, MeshIInv
<1>7. CASE OfferMade(s) /\ peer[s].sig = "have-remote-offer"
  <2>1. s = "hi"
    BY <1>3, <1>4, <1>7 DEF OfferMade, SoundPeer
  <2>2. SetPeer("hi", [peer["hi"] EXCEPT !.making = FALSE, !.need = TRUE]) /\ signals' = signals
    BY <1>7, <2>1 DEF OfferMade
  <2>3. /\ SameKey("lo") /\ SameKey("hi") /\ peer'["lo"] = peer["lo"]
    BY <1>2, <2>2, MeshParts DEF SetPeer, SameKey, MeshTypeOK, MeshPeer
  <2>4. OpensSoFar' = OpensSoFar
    BY <1>3 DEF OpensSoFar
  <2> QED BY <1>1, <1>3, <2>2, <2>3, <2>4, QuietKeeps DEF MeshIInv
<1> QED BY <1>5, <1>6, <1>7

\* A peer hears of the other.
LEMMA PresenceStep ==
  ASSUME MeshIInv, NEW s \in MeshSides, HearsPresence(s)
  PROVE  MeshIInv'
<1>1. MeshTypeOK' /\ PeersAreSound'
  BY LoudTyped
<1>2. MeshTypeOK /\ "lo" \in MeshSides /\ "hi" \in MeshSides /\ FarSide("hi") = "lo"
  BY DEF MeshIInv, MeshSides, FarSide
<1>3. CASE s = "lo" /\ SpendMesh("opens") /\ SetPeer(s, Opened(s)) /\ UNCHANGED signals
  <2>1. OpensSoFar' = OpensSoFar + 1
    BY <1>2, <1>3, SpendMeshTyped DEF OpensSoFar
  <2>2. peer'["lo"] = Opened("lo") /\ peer'["hi"] = peer["hi"]
    BY <1>2, <1>3 DEF SetPeer, MeshTypeOK
  <2>3. NoMore("lo") /\ NoMore("hi")
    BY <1>3 DEF NoMore
  <2> QED BY <1>1, <2>1, <2>2, <2>3, LowOpens DEF MeshIInv
<1>4. CASE /\ s = "hi" /\ SetPeer(s, NoPeer) /\ UNCHANGED meshLeft
           /\ UNCHANGED signals \/ SendSignal("hi", [t |-> "hello"])
  <2>1. OpensSoFar' = OpensSoFar
    BY <1>4 DEF OpensSoFar
  <2>2. peer'["hi"] = NoPeer /\ peer'["lo"] = peer["lo"]
    BY <1>2, <1>4 DEF SetPeer, MeshTypeOK
  <2>3. peer'["hi"].state \notin {"connecting", "connected"} /\ peer'["hi"].pc = 0 /\ peer'["hi"].remote = 0
    BY <2>2 DEF NoPeer
  <2>4. CASE UNCHANGED signals
    BY <2>4, <1>1, <1>2, <2>1, <2>2, <2>3, GoneKeeps DEF NoMore, Fewer, MeshIInv
  <2>5. CASE SendSignal("hi", [t |-> "hello"])
    <3>1. NoMore("lo") /\ signals'["hi"] = signals["hi"]
      BY <1>2, <2>5, GreetNoMore
    <3>2. Fewer("hi")
      BY <3>1 DEF Fewer
    <3> QED BY <1>1, <1>2, <2>1, <2>2, <2>3, <3>1, <3>2, GoneKeeps DEF MeshIInv
  <2> QED BY <1>4, <2>4, <2>5
<1> QED BY <1>3, <1>4 DEF HearsPresence

\* A signal is lost.
LEMMA LosingStep ==
  ASSUME MeshIInv, NEW s \in MeshSides, LoseSignal(s)
  PROVE  MeshIInv'
<1>1. MeshTypeOK' /\ PeersAreSound'
  BY LoudTyped
<1>2. MeshTypeOK /\ NumbersAreOld /\ "lo" \in MeshSides /\ "hi" \in MeshSides
  BY DEF MeshIInv, MeshSides
<1>3. meshLeft'["opens"] = meshLeft["opens"]
  BY MeshAssumption, <1>2, SpendMeshTyped DEF LoseSignal
<1>4. OpensSoFar' = OpensSoFar /\ OpensSoFar \in Nat /\ peer' = peer
  BY <1>2, <1>3 DEF OpensSoFar, NumbersAreOld, LoseSignal
<1>5. Fewer("lo") /\ Fewer("hi")
  BY <1>2, HeadTaken DEF LoseSignal, Fewer, FarSide, MeshSides
<1>6. NoMore("lo") /\ NoMore("hi")
  BY <1>1, <1>2, <1>5, FewerNoMore
<1>7. \A r \in MeshSides : peer'[r].pc = peer[r].pc /\ peer'[r].remote <= OpensSoFar
  BY <1>2, <1>4 DEF NumbersAreOld
<1>8. NumbersAreOld'
  BY <1>1, <1>4, <1>6, <1>7, SameConnections
<1>9. SameKey("lo")
  BY <1>4 DEF SameKey
<1>10. Replies("lo") = {} => Replies("lo")' = {}
  BY <1>4, <1>6 DEF Replies, NoMore
<1>11. FirstOffer'
  BY <1>1, <1>4, <1>5, <1>9, <1>10, FirstOfferKept
<1>12. MeetingHolds'
  BY DEF MeetingHolds, LoseSignal
<1> QED BY <1>1, <1>8, <1>11, <1>12 DEF MeshIInv

\* A signal is handled by a peer that has a connection ...
LEMMA ConnectedStep ==
  ASSUME MeshIInv, NEW s \in MeshSides, HandleSignal(s), HasPc(s)
  PROVE  MeshIInv'
<1> DEFINE m == Head(signals[s])
           p == peer[s]
<1>1. MeshTypeOK' /\ PeersAreSound'
  BY HandleTyped
<1>2. /\ MeshTypeOK /\ "lo" \in MeshSides /\ "hi" \in MeshSides /\ s \in {"lo", "hi"}
      /\ p \in MeshPeer /\ SoundPeer(s, p)
  BY Alive DEF MeshSides
<1>3. /\ signals[s] # <<>> /\ ~p.answering /\ signals' = [signals EXCEPT ![s] = Tail(@)]
      /\ meshLeft' = meshLeft /\ meshLost' = meshLost
  BY DEF HandleSignal
<1>4. m = signals[s][1] /\ m \in Descriptions
  BY <1>2, <1>3, HeadTaken
<1>5. m.t \in {"hello", "offer", "answer"}
  BY <1>4 DEF Descriptions
<1>6. CASE /\ peer' = peer
           /\ \/ m.t = "hello"
              \/ m.t = "offer" /\ ((Collision(s) /\ ~Polite(s)) \/ p.remote \notin {0, m.pc})
              \/ m.t = "answer" /\ ~(p.sig = "have-local-offer" /\ m.of = p.pc /\ p.remote \in {0, m.pc})
  <2>1. CASE s = "lo"
    BY <1>1, <1>3, <1>4, <1>6, <2>1, LowIgnores DEF MeshIInv
  <2>2. CASE s = "hi"
    BY <1>1, <1>3, <1>4, <1>6, <2>2, HighIgnores DEF MeshIInv
  <2> QED BY <1>2, <2>1, <2>2
<1>7. CASE /\ m.t = "answer" /\ p.sig = "have-local-offer" /\ m.of = p.pc /\ p.remote \in {0, m.pc}
           /\ SetPeer(s, [p EXCEPT !.sig = "stable", !.remote = m.pc, !.last = s])
  <2>1. CASE s = "lo"
    BY <1>1, <1>3, <1>4, <1>7, <2>1, LowAccepts DEF MeshIInv
  <2>2. CASE s = "hi"
    BY <1>1, <1>3, <1>4, <1>7, <2>2, HighAccepts DEF MeshIInv
  <2> QED BY <1>2, <2>1, <2>2
<1>8. CASE /\ m.t = "offer" /\ TakesOffer(s, m, p)
           /\ ~((Collision(s) /\ ~Polite(s)) \/ p.remote \notin {0, m.pc})
  <2> DEFINE b == p.need \/ p.sig = "have-local-offer"
  <2>1. b \in BOOLEAN
    BY <1>2 DEF MeshPeer
  <2>2. SetPeer(s, [p EXCEPT !.sig = "have-remote-offer", !.remote = m.pc, !.answering = TRUE, !.need = b])
    BY <1>8 DEF TakesOffer
  <2> HIDE DEF b
  <2>3. CASE s = "lo"
    <3>1. ~p.making /\ p.sig = "stable"
      BY <1>8, <2>3 DEF Collision, Polite
    <3> QED BY <1>1, <1>3, <1>4, <1>8, <2>1, <2>2, <2>3, <3>1, LowTakes DEF MeshIInv
  <2>4. CASE s = "hi"
    BY <1>1, <1>3, <1>4, <1>8, <2>1, <2>2, <2>4, HighTakes DEF MeshIInv
  <2> QED BY <1>2, <2>3, <2>4
<1>9. SetPeer(s, p) => peer' = peer
  BY <1>2 DEF SetPeer, MeshTypeOK
<1> QED BY <1>5, <1>6, <1>7, <1>8, <1>9 DEF HandleSignal, TakesOffer, Fits

\* ... or by one that has none.
LEMMA UnconnectedStep ==
  ASSUME MeshIInv, NEW s \in MeshSides, HandleSignal(s), ~HasPc(s)
  PROVE  MeshIInv'
<1> DEFINE m == Head(signals[s])
           p == peer[s]
<1>1. MeshTypeOK' /\ PeersAreSound'
  BY HandleTyped
<1>2. /\ MeshTypeOK /\ NumbersAreOld /\ "lo" \in MeshSides /\ "hi" \in MeshSides /\ s \in {"lo", "hi"}
      /\ FarSide("lo") = "hi" /\ FarSide("hi") = "lo"
      /\ p \in MeshPeer /\ SoundPeer(s, p)
  BY Alive DEF MeshSides, MeshIInv, FarSide
<1>3. /\ signals[s] # <<>> /\ signals' = [signals EXCEPT ![s] = Tail(@)] /\ meshLost' = meshLost
  BY DEF HandleSignal
<1>4. m = signals[s][1] /\ m \in Descriptions /\ signals'[FarSide(s)] = signals[FarSide(s)]
  BY <1>2, <1>3, HeadTaken
<1>5. Fewer("lo") /\ Fewer("hi")
  BY <1>2, <1>3, <1>4 DEF Fewer
<1>6. NoMore("lo") /\ NoMore("hi")
  BY <1>1, <1>2, <1>5, FewerNoMore
<1>7. SpendMesh("opens") => OpensSoFar' = OpensSoFar + 1
  <2> SUFFICES ASSUME SpendMesh("opens") PROVE OpensSoFar' = OpensSoFar + 1
    OBVIOUS
  <2>1. meshLeft["opens"] \in Nat /\ MeshBound["opens"] \in Nat /\ meshLeft'["opens"] = meshLeft["opens"] - 1
    BY <1>2, SpendMeshTyped
  <2> QED BY <2>1 DEF OpensSoFar
<1>8. CASE s = "lo" /\ SpendMesh("opens") /\ SetPeer(s, Opened(s))
  <2>1. peer'["lo"] = Opened("lo") /\ peer'["hi"] = peer["hi"]
    BY <1>2, <1>8 DEF SetPeer, MeshTypeOK
  <2> QED BY <1>1, <1>6, <1>7, <1>8, <2>1, LowOpens DEF MeshIInv
<1>9. CASE s = "hi" /\ SpendMesh("opens") /\ m.t = "offer" /\ TakesOffer(s, m, Opened(s))
  <2> DEFINE o == Opened("hi")
             q == [o EXCEPT !.sig = "have-remote-offer", !.remote = m.pc, !.answering = TRUE,
                            !.need = @ \/ o.sig = "have-local-offer"]
  <2>1. o \in MeshPeer /\ o.remote = 0 /\ o.pc = OpensSoFar + 1 /\ o.last = "nobody"
    BY <1>2, OpenedTyped
  <2> HIDE DEF o
  <2>2. SetPeer("hi", q)
    BY <1>9, <2>1 DEF TakesOffer, Polite, o
  <2>3. /\ q.pc = OpensSoFar + 1 /\ q.remote = m.pc /\ q.sig = "have-remote-offer" /\ q.last = "nobody"
    BY <2>1 DEF MeshPeer
  <2>4. peer'["hi"] = q /\ peer'["lo"] = peer["lo"]
    BY <1>2, <2>2 DEF SetPeer, MeshTypeOK
  <2> HIDE DEF q
  <2> QED BY <1>1, <1>3, <1>4, <1>7, <1>9, <2>3, <2>4, HighOpens DEF MeshIInv
<1>10. CASE SetPeer(s, IF Absent(s) THEN NoPeer ELSE peer[s]) /\ meshLeft' = meshLeft
  <2> DEFINE q == IF Absent(s) THEN NoPeer ELSE peer[s]
  <2>1. q.state \notin {"connecting", "connected"} /\ q.pc = 0 /\ q.remote = 0
    BY <1>2 DEF NoPeer, HasPc, SoundPeer
  <2> HIDE DEF q
  <2>2. peer'[s] = q /\ peer'[FarSide(s)] = peer[FarSide(s)]
    BY <1>2, <1>10 DEF SetPeer, MeshTypeOK, q
  <2>3. OpensSoFar' = OpensSoFar
    BY <1>10 DEF OpensSoFar
  <2> QED BY <1>1, <1>5, <1>6, <2>1, <2>2, <2>3, GoneKeeps DEF MeshIInv
<1> QED BY <1>8, <1>9, <1>10 DEF HandleSignal

\* Every step keeps it.
LEMMA MeshStep == MeshIInv /\ [MeshNext]_meshVars => MeshIInv'
<1> SUFFICES ASSUME MeshIInv, [MeshNext]_meshVars PROVE MeshIInv'
  OBVIOUS
<1>1. CASE UNCHANGED meshVars \/ PathOpens \/ PathDrops
  BY MeshAssumption, <1>1, SpendMeshTyped, QuietKeeps
     DEF MeshIInv, MeshTypeOK, meshVars, PathOpens, PathDrops, PeersAreSound, SameKey, OpensSoFar
<1>2. ASSUME NEW s \in MeshSides, HandleSignal(s) PROVE MeshIInv'
  BY <1>2, ConnectedStep, UnconnectedStep
<1>3. ASSUME NEW s \in MeshSides,
             \/ HearsPresence(s) \/ Changes(s) \/ OfferStarts(s) \/ OfferMade(s)
             \/ AnswerMade(s) \/ LoseSignal(s) \/ ChannelOpens(s) \/ ConnectionLost(s) \/ RestartIce(s)
             \/ TimesOut(s) \/ CoolsDown(s) \/ FarClosed(s) \/ Destroy(s) \/ Prune(s)
      PROVE MeshIInv'
  BY <1>3, QuietStep, GoneStep, SendingStep, PresenceStep, LosingStep
<1> QED BY <1>1, <1>2, <1>3 DEF MeshNext

\* Before the meshes have met there is no peer and no signal.
LEMMA MeshStarts == MeshInit => MeshIInv
<1> SUFFICES ASSUME MeshInit PROVE MeshIInv
  OBVIOUS
<1>1. /\ \A s \in MeshSides : peer[s] = NoPeer /\ signals[s] = <<>>
      /\ OpensSoFar = 0 /\ "lo" \in MeshSides /\ "hi" \in MeshSides
  BY MeshAssumption DEF MeshInit, OpensSoFar, MeshSides
<1>2. MeshTypeOK
  <2>1. peer \in [MeshSides -> MeshPeer]
    BY NoPeerTyped DEF MeshInit
  <2>2. signals \in [MeshSides -> Seq(Descriptions)]
    BY EmptySeq DEF MeshInit
  <2>3. meshLeft \in [DOMAIN MeshBound -> Nat]
    BY MeshAssumption DEF MeshInit
  <2> QED BY <1>1, <2>1, <2>2, <2>3 DEF MeshTypeOK, MeshPeer, MeshInit
<1>3. PeersAreSound
  BY <1>1, NoPeerSound DEF PeersAreSound
<1>4. NumbersAreOld
  BY <1>1 DEF NumbersAreOld, NoPeer
<1>5. ~HasPc("lo")
  BY <1>1 DEF HasPc, NoPeer
<1> QED BY <1>2, <1>3, <1>4, <1>5 DEF MeshIInv, FirstOffer, MeetingHolds, Meeting

\* Two meshes, however their signals are lost, delayed and crossed, settle on one offer
\* and wait for nothing without a timer (webrtc.ts).
THEOREM MeshAlwaysHolds == MeshSpec => []MeshInv
<1>1. MeshInit => MeshIInv
  BY MeshStarts
<1>2. MeshIInv /\ [MeshNext]_meshVars => MeshIInv'
  BY MeshStep
<1>3. MeshIInv => MeshInv
  BY MeshIInvImplies
<1> QED BY <1>1, <1>2, <1>3, PTL DEF MeshSpec

-----------------------------------------------------------------------------
(* IceRefresh.                                                             *)

\* What a request can come to.
IceCreds == {NoAnswer, Lasting} \cup 0 .. IceEnd + Ttl

\* What IceTypeOK leaves unsaid of the server and of the wire.
IceShape ==
  /\ provider \in Providers /\ iceNow \in 0 .. IceEnd /\ minting \in BOOLEAN
  /\ cachedCred \in [refreshAt : 0 .. IceEnd + Ttl, expiresAt : 0 .. IceEnd + Ttl]
  /\ mints \in Seq(0 .. IceEnd)
  /\ iceReplies \in [Meshes -> Seq(IceCreds)]

\* The shared credential is that of the last call, of which there is no other until it
\* has been refreshed for half its lifetime.
CacheIsLast ==
  /\ mints = <<>> => cachedCred.refreshAt = 0
  /\ \A i \in DOMAIN mints : mints[i] + Ttl \div 2 <= cachedCred.refreshAt
  /\ cachedCred.refreshAt > 0 => cachedCred.expiresAt = cachedCred.refreshAt - Ttl \div 2 + Ttl
  /\ minting => cachedCred.refreshAt <= iceNow

\* A mesh that was answered has its refresh ahead, and before its credential expires.
RefreshIsAhead ==
  \A m \in Meshes \ iceDead :
    inUse[m] >= 0 /\ m \notin missedAsk /\ icePhase[m] = "done" => refreshDue[m] \in iceNow .. inUse[m]

IceIInv ==
  /\ IceTypeOK /\ IceShape /\ CacheIsLast /\ RefreshIsAhead
  /\ HandedOutFresh /\ MintsAreSpaced /\ DeadIsQuiet

\* Credentials that were handed out fresh outlast the moment.
LEMMA IceIInvImplies == IceIInv => IceInv
<1> SUFFICES ASSUME IceIInv PROVE CredentialsLast
  BY DEF IceInv, IceIInv
<1> SUFFICES ASSUME NEW m \in Meshes \ iceDead, inUse[m] >= 0, inUse[m] < iceNow, m \notin missedAsk,
                    icePhase[m] = "done"
             PROVE  FALSE
  BY DEF CredentialsLast
<1>1. refreshDue[m] \in iceNow .. inUse[m]
  BY DEF IceIInv, RefreshIsAhead
<1>2. inUse[m] \in Int /\ iceNow \in Int
  <2>1. iceNow \in 0 .. IceEnd /\ IceEnd \in Nat /\ Ttl \in Nat
    BY IceConstants DEF IceIInv, IceShape
  <2>2. inUse[m] \in {NoAnswer, Lasting} \cup 0 .. IceEnd + Ttl
    BY DEF IceIInv, IceTypeOK
  <2> QED BY <2>1, <2>2 DEF NoAnswer, Lasting
<1> QED BY <1>1, <1>2

\* The invariant holds at the start, before anybody asked.
LEMMA IceStarts == IceInit => IceIInv
<1> SUFFICES ASSUME IceInit PROVE IceIInv
  OBVIOUS
<1>1. Ttl \in Nat /\ Ttl >= 1 /\ IceEnd \in Nat
  BY IceConstants
<1>2. IceTypeOK
  BY <1>1 DEF IceInit, IceTypeOK, NoAnswer, Never
<1>3. IceShape
  <2>1. iceReplies \in [Meshes -> Seq(IceCreds)] /\ mints \in Seq(0 .. IceEnd)
    BY EmptySeq DEF IceInit
  <2>2. minting \in BOOLEAN
    BY DEF IceInit
  <2>3. 0 \in 0 .. IceEnd + Ttl /\ 0 \in 0 .. IceEnd
    BY <1>1
  <2> QED BY <2>1, <2>2, <2>3 DEF IceInit, IceShape
<1>4. CacheIsLast
  BY DEF IceInit, CacheIsLast
<1>5. RefreshIsAhead
  BY DEF IceInit, RefreshIsAhead, NoAnswer
<1>6. HandedOutFresh /\ MintsAreSpaced /\ DeadIsQuiet
  BY DEF IceInit, HandedOutFresh, MintsAreSpaced, DeadIsQuiet
<1> QED BY <1>2, <1>3, <1>4, <1>5, <1>6 DEF IceIInv

\* When a refresh is due.
LEMMA DueAtBounds ==
  ASSUME iceNow \in 0 .. IceEnd, NEW cred \in Int, cred > iceNow, cred <= IceEnd + Ttl
  PROVE  DueAt(cred) \in 0 .. IceEnd + Ttl /\ DueAt(cred) \in iceNow .. cred
<1> DEFINE S == {iceNow + Margin, cred - Margin}
<1>1. Ttl \in Nat /\ Ttl >= 1 /\ IceEnd \in Nat /\ iceNow \in Nat
  BY IceConstants
<1>2. \E x \in S : \A y \in S : x >= y
  BY <1>1 DEF Margin
<1>3. Max(S) \in S
  BY <1>2 DEF Max
<1>4. iceNow + Margin \in iceNow .. cred /\ iceNow + Margin \in 0 .. IceEnd + Ttl
  BY <1>1 DEF Margin
<1>5. cred - Margin \in iceNow .. cred /\ cred - Margin \in 0 .. IceEnd + Ttl
  BY <1>1 DEF Margin
<1> QED BY <1>3, <1>4, <1>5 DEF DueAt

\* What is handed out has time left.
Handed(cred) == cred \in IceCreds /\ (cred >= 0 => 2 * (cred - iceNow) >= Ttl)

\* What the server hands out has time left.
LEMMA HandedLasts ==
  ASSUME IceShape, NEW cred, Handed(cred), cred \notin {NoAnswer, Lasting}
  PROVE  cred \in Int /\ cred > iceNow /\ cred <= IceEnd + Ttl
BY IceConstants DEF Handed, IceCreds, IceShape

\* A request that has come to cred.
LEMMA ResolvedKeeps ==
  ASSUME IceIInv, NEW m \in Meshes, NEW cred, Handed(cred), Resolved(m, cred),
         UNCHANGED <<iceNow, cachedCred, minting, mintWaits, mints, iceDead>>
  PROVE  IceTypeOK' /\ RefreshIsAhead' /\ DeadIsQuiet'
<1>1. IceTypeOK /\ IceShape /\ RefreshIsAhead /\ DeadIsQuiet
  BY DEF IceIInv
<1>2. /\ icePhase' \in [Meshes -> {"waiting", "asking", "done"}]
      /\ icePhase' = [icePhase EXCEPT ![m] = "done"] /\ iceReady' = iceReady \cup {m}
  BY <1>1 DEF Resolved, NowReady, IceTypeOK
<1>3. \A r \in Meshes : icePhase'[r] = "done" => r \in iceReady'
  BY <1>1, <1>2 DEF IceTypeOK
<1>4. \A r \in Meshes : r # m => refreshDue'[r] = refreshDue[r] /\ inUse'[r] = inUse[r]
  BY <1>1 DEF Resolved, Arms, IceTypeOK
<1>5. cred \notin {NoAnswer, Lasting} => /\ DueAt(cred) \in 0 .. IceEnd + Ttl /\ DueAt(cred) \in iceNow .. cred
  BY <1>1, HandedLasts, DueAtBounds DEF IceShape
<1>6. inUse' \in [Meshes -> {NoAnswer, Lasting} \cup 0 .. IceEnd + Ttl]
  BY <1>1 DEF Resolved, IceTypeOK, Handed, IceCreds
<1>7. refreshDue' \in [Meshes -> {Never} \cup 0 .. IceEnd + Ttl]
  BY <1>1, <1>5 DEF Resolved, Arms, IceTypeOK
<1>8. IceTypeOK'
  BY <1>1, <1>2, <1>3, <1>6, <1>7 DEF IceTypeOK
<1>9. DeadIsQuiet'
  BY <1>1, <1>4 DEF DeadIsQuiet, Resolved, Arms
<1>10. RefreshIsAhead'
  <2> SUFFICES ASSUME NEW r \in Meshes \ iceDead, inUse'[r] >= 0, r \notin missedAsk', icePhase'[r] = "done"
               PROVE  refreshDue'[r] \in iceNow .. inUse'[r]
    BY DEF RefreshIsAhead
  <2>1. CASE r # m
    BY <1>1, <1>2, <1>4, <2>1 DEF RefreshIsAhead, Resolved, IceTypeOK
  <2>2. CASE r = m
    BY <2>2, <1>1, <1>5 DEF Resolved, IceTypeOK, Lasting, Arms
  <2> QED BY <2>1, <2>2
<1> QED BY <1>8, <1>9, <1>10

\* Nobody's request comes to anything.
LEMMA IceRests ==
  ASSUME IceIInv, UNCHANGED <<iceNow, inUse, icePhase, iceReady, refreshDue, missedAsk, iceDead>>,
         mintWaits' # {} => minting'
  PROVE  IceTypeOK' /\ RefreshIsAhead' /\ DeadIsQuiet'
<1>1. IceTypeOK /\ RefreshIsAhead /\ DeadIsQuiet
  BY DEF IceIInv
<1>2. IceTypeOK'
  BY <1>1 DEF IceTypeOK
<1>3. RefreshIsAhead' /\ DeadIsQuiet'
  BY <1>1 DEF RefreshIsAhead, DeadIsQuiet
<1> QED BY <1>2, <1>3

\* The server does nothing: the answers on their way are among those there were.
LEMMA ServerRests ==
  ASSUME IceIInv, UNCHANGED <<iceNow, provider, cachedCred, mints>>, minting' = minting,
         iceReplies' \in [Meshes -> Seq(IceCreds)],
         \A m \in Meshes : \A i \in DOMAIN iceReplies'[m] : \E j \in DOMAIN iceReplies[m] :
           iceReplies'[m][i] = iceReplies[m][j]
  PROVE  IceShape' /\ CacheIsLast' /\ HandedOutFresh' /\ MintsAreSpaced'
<1>1. IceShape /\ CacheIsLast /\ HandedOutFresh /\ MintsAreSpaced
  BY DEF IceIInv
<1>2. IceShape'
  BY <1>1 DEF IceShape
<1>3. CacheIsLast' /\ MintsAreSpaced'
  BY <1>1 DEF CacheIsLast, MintsAreSpaced
<1>4. HandedOutFresh'
  BY <1>1 DEF HandedOutFresh
<1> QED BY <1>2, <1>3, <1>4

\* Replies that nobody touched are those there were.
LEMMA RepliesSame ==
  ASSUME IceIInv, UNCHANGED iceReplies
  PROVE  /\ iceReplies' \in [Meshes -> Seq(IceCreds)]
         /\ \A m \in Meshes : \A i \in DOMAIN iceReplies'[m] : \E j \in DOMAIN iceReplies[m] :
              iceReplies'[m][i] = iceReplies[m][j]
BY DEF IceIInv, IceShape

\* Time passes only as far as the next timer that is due, so it overtakes no refresh.
LEMMA TickKeeps ==
  ASSUME IceIInv, IceTick
  PROVE  IceIInv'
<1>1. IceTypeOK /\ IceShape /\ CacheIsLast /\ RefreshIsAhead /\ HandedOutFresh /\ MintsAreSpaced /\ DeadIsQuiet
  BY DEF IceIInv
<1>2. /\ iceNow \in Nat /\ iceNow' = iceNow + 1 /\ iceNow' \in 0 .. IceEnd /\ ~minting
      /\ \A m \in Meshes : iceReplies[m] = <<>> /\ refreshDue[m] # iceNow
  BY <1>1, IceConstants DEF IceTick, Pending, IceShape
<1>3. IceTypeOK'
  BY <1>1 DEF IceTick, IceTypeOK
<1>4. IceShape'
  BY <1>1, <1>2 DEF IceTick, IceShape
<1>5. CacheIsLast' /\ MintsAreSpaced' /\ DeadIsQuiet'
  BY <1>1, <1>2 DEF IceTick, CacheIsLast, MintsAreSpaced, DeadIsQuiet
<1>6. HandedOutFresh'
  BY <1>2 DEF IceTick, HandedOutFresh
<1>7. RefreshIsAhead'
  <2> SUFFICES ASSUME NEW m \in Meshes \ iceDead, inUse[m] >= 0, m \notin missedAsk, icePhase[m] = "done"
               PROVE  refreshDue[m] \in iceNow' .. inUse[m]
    BY DEF RefreshIsAhead, IceTick
  <2>1. refreshDue[m] \in iceNow .. inUse[m] /\ refreshDue[m] # iceNow
    BY <1>1, <1>2 DEF RefreshIsAhead
  <2> QED BY <1>2, <2>1
<1> QED BY <1>3, <1>4, <1>5, <1>6, <1>7 DEF IceIInv

\* A request is answered from the cache while it is fresh, and else waits for the mint
\* under way (turn.ts).
LEMMA HandleAskKeeps ==
  ASSUME IceIInv, NEW m \in Meshes, HandleAsk(m)
  PROVE  IceIInv'
<1>1. IceTypeOK /\ IceShape /\ CacheIsLast /\ RefreshIsAhead /\ HandedOutFresh /\ MintsAreSpaced /\ DeadIsQuiet
  BY DEF IceIInv
<1>2. /\ iceNow \in Nat /\ iceNow \in 0 .. IceEnd /\ Ttl \in Nat /\ Ttl >= 1 /\ IceEnd \in Nat
      /\ cachedCred.refreshAt \in Nat /\ cachedCred.expiresAt \in 0 .. IceEnd + Ttl
  BY <1>1, IceConstants DEF IceShape
<1>3. IceTypeOK' /\ RefreshIsAhead' /\ DeadIsQuiet'
  BY <1>1, IceRests DEF HandleAsk, IceTypeOK
<1>4. CASE UNCHANGED iceReplies /\ UNCHANGED minting
  BY <1>4, RepliesSame, ServerRests, <1>3 DEF HandleAsk, IceIInv
<1>5. CASE UNCHANGED iceReplies /\ ~Shared /\ minting' = TRUE
  <2>1. UNCHANGED <<iceNow, provider, cachedCred, mints>>
    BY <1>5 DEF HandleAsk
  <2>2. IceShape' /\ HandedOutFresh' /\ MintsAreSpaced'
    BY <1>1, <1>5, <2>1 DEF IceShape, HandedOutFresh, MintsAreSpaced
  <2>3. CacheIsLast'
    BY <1>1, <1>2, <1>5, <2>1 DEF CacheIsLast, Shared
  <2> QED BY <1>3, <2>2, <2>3 DEF IceIInv
<1>6. ASSUME NEW cred, Handed(cred), ReplyWith(m, cred), UNCHANGED minting
      PROVE  IceIInv'
  <2>1. UNCHANGED <<iceNow, provider, cachedCred, mints>>
    BY DEF HandleAsk
  <2>2. CASE m \notin linked
    BY <1>6, <2>2, <2>1, RepliesSame, ServerRests, <1>3 DEF ReplyWith, IceIInv
  <2>3. CASE m \in linked
    <3> DEFINE q == iceReplies[m]
    <3>1. q \in Seq(IceCreds) /\ cred \in IceCreds
      BY <1>1, <1>6 DEF IceShape, Handed
    <3>2. iceReplies' = [iceReplies EXCEPT ![m] = Append(q, cred)]
      BY <1>6, <2>3 DEF ReplyWith
    <3>3. /\ Append(q, cred) \in Seq(IceCreds) /\ DOMAIN Append(q, cred) = 1 .. Len(q) + 1
          /\ Append(q, cred)[Len(q) + 1] = cred /\ DOMAIN q = 1 .. Len(q) /\ Len(q) \in Nat
          /\ \A i \in 1 .. Len(q) : Append(q, cred)[i] = q[i]
      BY <3>1
    <3>4. \A i \in DOMAIN Append(q, cred) : i \in DOMAIN q \/ i = Len(q) + 1
      BY <3>3
    <3> HIDE DEF q
    <3>5. IceShape'
      BY <1>1, <1>6, <2>1, <3>2, <3>3 DEF IceShape
    <3>6. CacheIsLast' /\ MintsAreSpaced'
      BY <1>1, <1>6, <2>1 DEF CacheIsLast, MintsAreSpaced
    <3>7. \A i \in DOMAIN Append(q, cred) : Append(q, cred)[i] >= 0 => 2 * (Append(q, cred)[i] - iceNow) >= Ttl
      BY <1>1, <1>6, <3>3, <3>4 DEF HandedOutFresh, q, Handed
    <3>8. HandedOutFresh'
      BY <1>1, <2>1, <3>2, <3>7 DEF HandedOutFresh, IceShape
    <3> QED BY <1>3, <3>5, <3>6, <3>8 DEF IceIInv
  <2> QED BY <2>2, <2>3
<1>7. Handed(NoAnswer) /\ Handed(Lasting)
  BY <1>2 DEF Handed, IceCreds, NoAnswer, Lasting
<1>8. Handed(iceNow + Ttl)
  BY <1>2 DEF Handed, IceCreds
<1>9. Shared => Handed(cachedCred.expiresAt)
  <2> SUFFICES ASSUME Shared PROVE Handed(cachedCred.expiresAt)
    OBVIOUS
  <2>1. cachedCred.expiresAt = cachedCred.refreshAt - Ttl \div 2 + Ttl /\ iceNow < cachedCred.refreshAt
    BY <1>1, <1>2 DEF CacheIsLast, Shared
  <2>2. 2 * (cachedCred.expiresAt - iceNow) >= Ttl
    BY <1>2, <2>1
  <2> QED BY <1>2, <2>2 DEF Handed, IceCreds
<1>10. CASE /\ provider # "cloudflare" \/ Shared
            /\ UNCHANGED minting
            /\ ReplyWith(m, CASE provider = "none"       -> NoAnswer
                          [] provider = "static"     -> Lasting
                          [] provider = "secret"     -> iceNow + Ttl
                          [] provider = "cloudflare" -> cachedCred.expiresAt)
  <2>1. provider \in {"cloudflare", "secret", "static", "none"}
    BY <1>1, IceConstants DEF IceShape
  <2>2. CASE provider = "none"
    BY <1>6, <1>7, <1>10, <2>2
  <2>3. CASE provider = "static"
    BY <1>6, <1>7, <1>10, <2>3
  <2>4. CASE provider = "secret"
    BY <1>6, <1>8, <1>10, <2>4
  <2>5. CASE provider = "cloudflare"
    BY <1>6, <1>9, <1>10, <2>5
  <2> QED BY <2>1, <2>2, <2>3, <2>4, <2>5
<1> QED BY <1>4, <1>5, <1>10 DEF HandleAsk

\* A mint that ends answers everyone who waited, and is cached.
LEMMA MintEndsKeeps ==
  ASSUME IceIInv, MintEnds
  PROVE  IceIInv'
<1>1. IceTypeOK /\ IceShape /\ CacheIsLast /\ RefreshIsAhead /\ HandedOutFresh /\ MintsAreSpaced /\ DeadIsQuiet
  BY DEF IceIInv
<1>2. /\ iceNow \in Nat /\ iceNow \in 0 .. IceEnd /\ Ttl \in Nat /\ Ttl >= 1 /\ IceEnd \in Nat
      /\ cachedCred.refreshAt \in Nat /\ cachedCred.expiresAt \in 0 .. IceEnd + Ttl
      /\ cachedCred.refreshAt <= iceNow /\ minting /\ iceNow' = iceNow
  BY <1>1, IceConstants DEF IceShape, CacheIsLast, MintEnds
<1>3. IceTypeOK' /\ RefreshIsAhead' /\ DeadIsQuiet'
  BY IceRests DEF MintEnds
<1>4. ASSUME NEW ms, NEW cred, Handed(cred), ReplyAll(ms, cred)
      PROVE  iceReplies' \in [Meshes -> Seq(IceCreds)] /\ HandedOutFresh'
  <2>1. ASSUME NEW r \in Meshes
        PROVE  /\ iceReplies'[r] \in Seq(IceCreds)
               /\ \A i \in DOMAIN iceReplies'[r] : iceReplies'[r][i] >= 0 => 2 * (iceReplies'[r][i] - iceNow) >= Ttl
    <3> DEFINE q == iceReplies[r]
    <3>1. q \in Seq(IceCreds) /\ cred \in IceCreds
      BY <1>1, <1>4 DEF IceShape, Handed
    <3>2. iceReplies'[r] = q \/ iceReplies'[r] = Append(q, cred)
      BY <1>4 DEF ReplyAll
    <3>3. /\ Append(q, cred) \in Seq(IceCreds) /\ DOMAIN Append(q, cred) = 1 .. Len(q) + 1
          /\ Append(q, cred)[Len(q) + 1] = cred /\ DOMAIN q = 1 .. Len(q) /\ Len(q) \in Nat
          /\ \A i \in 1 .. Len(q) : Append(q, cred)[i] = q[i]
      BY <3>1
    <3>4. \A i \in DOMAIN Append(q, cred) : i \in DOMAIN q \/ i = Len(q) + 1
      BY <3>3
    <3>5. \A i \in DOMAIN q : q[i] >= 0 => 2 * (q[i] - iceNow) >= Ttl
      BY <1>1 DEF HandedOutFresh
    <3> HIDE DEF q
    <3>6. \A i \in DOMAIN Append(q, cred) : Append(q, cred)[i] >= 0 => 2 * (Append(q, cred)[i] - iceNow) >= Ttl
      BY <1>4, <3>3, <3>4, <3>5 DEF Handed
    <3> QED BY <3>1, <3>2, <3>3, <3>5, <3>6
  <2>2. iceReplies' \in [Meshes -> Seq(IceCreds)]
    BY <1>4, <2>1 DEF ReplyAll
  <2> QED BY <1>2, <2>1, <2>2 DEF HandedOutFresh
<1>5. Handed(NoAnswer) /\ Handed(iceNow + Ttl)
  BY <1>2 DEF Handed, IceCreds, NoAnswer
<1>6. CASE ReplyAll(mintWaits, NoAnswer) /\ UNCHANGED <<cachedCred, mints>>
  BY <1>1, <1>2, <1>4, <1>5, <1>6, <1>3 DEF MintEnds, IceShape, CacheIsLast, MintsAreSpaced, IceIInv
<1>7. CASE /\ cachedCred' = [refreshAt |-> iceNow + Ttl \div 2, expiresAt |-> iceNow + Ttl]
           /\ mints' = Append(mints, iceNow) /\ ReplyAll(mintWaits, iceNow + Ttl)
  <2> DEFINE n == Len(mints) + 1
  <2>1. /\ mints' \in Seq(0 .. IceEnd) /\ DOMAIN mints' = 1 .. n /\ DOMAIN mints = 1 .. Len(mints)
        /\ Len(mints) \in Nat /\ mints'[n] = iceNow /\ \A i \in 1 .. Len(mints) : mints'[i] = mints[i]
    BY <1>1, <1>2, <1>7 DEF IceShape
  <2>2. \A i \in DOMAIN mints' : i \in DOMAIN mints \/ i = n
    BY <2>1
  <2>3. \A i \in DOMAIN mints : mints[i] \in Nat /\ mints[i] + Ttl \div 2 <= iceNow
    BY <1>1, <1>2 DEF CacheIsLast, IceShape
  <2>4. Ttl \div 2 \in Nat /\ 2 * (Ttl \div 2) >= Ttl - 1 /\ Ttl \div 2 <= Ttl
    BY <1>2
  <2>5. /\ cachedCred'.refreshAt = iceNow + Ttl \div 2 /\ cachedCred'.expiresAt = iceNow + Ttl
        /\ cachedCred' \in [refreshAt : 0 .. IceEnd + Ttl, expiresAt : 0 .. IceEnd + Ttl]
        /\ ~minting' /\ minting' \in BOOLEAN /\ provider' = provider
    <3>1. iceNow + Ttl \div 2 \in 0 .. IceEnd + Ttl /\ iceNow + Ttl \in 0 .. IceEnd + Ttl
      BY <1>2, <2>4
    <3>2. ~minting' /\ minting' \in BOOLEAN /\ provider' = provider
      BY DEF MintEnds
    <3> QED BY <1>7, <3>1, <3>2
  <2>6. IceShape'
    BY <1>1, <1>2, <1>4, <1>5, <1>7, <2>1, <2>5 DEF IceShape
  <2>7. CacheIsLast'
    <3>1. mints' # <<>>
      BY <2>1
    <3>2. \A i \in DOMAIN mints' : mints'[i] + Ttl \div 2 <= cachedCred'.refreshAt
      BY SMTT(30), <1>2, <2>1, <2>2, <2>3, <2>4, <2>5
    <3>3. cachedCred'.expiresAt = cachedCred'.refreshAt - Ttl \div 2 + Ttl
      BY <1>2, <2>4, <2>5
    <3> QED BY <2>5, <3>1, <3>2, <3>3 DEF CacheIsLast
  <2>8. MintsAreSpaced'
    <3> SUFFICES ASSUME NEW i \in DOMAIN mints', NEW j \in DOMAIN mints', i < j
                 PROVE  2 * (mints'[j] - mints'[i]) >= Ttl - 1
      BY DEF MintsAreSpaced
    <3>1. i \in DOMAIN mints /\ i \in 1 .. Len(mints)
      BY <2>1
    <3>2. CASE j \in DOMAIN mints
      BY <1>1, <2>1, <3>1, <3>2 DEF MintsAreSpaced
    <3>3. CASE j = n
      BY <1>2, <2>1, <2>3, <2>4, <3>1, <3>3
    <3> QED BY <2>2, <3>2, <3>3
  <2> QED BY <1>3, <1>4, <1>5, <1>7, <2>6, <2>7, <2>8 DEF IceIInv
<1> QED BY <1>6, <1>7 DEF MintEnds

\* A step of a mesh or of its connection.
LEMMA MeshSideKeeps ==
  ASSUME IceIInv, NEW m \in Meshes,
         \/ LinkUp(m) \/ LinkDrops(m) \/ Ask(m) \/ TakeReply(m) \/ AskTimesOut(m)
         \/ RefreshFires(m) \/ DestroyMesh(m)
  PROVE  IceIInv'
<1>1. IceTypeOK /\ IceShape /\ CacheIsLast /\ RefreshIsAhead /\ HandedOutFresh /\ MintsAreSpaced /\ DeadIsQuiet
  BY DEF IceIInv
<1>2. UNCHANGED <<iceNow, provider, cachedCred, mints>> /\ minting' = minting
  BY DEF LinkUp, LinkDrops, Ask, TakeReply, AskTimesOut, RefreshFires, DestroyMesh
<1>3. Handed(NoAnswer)
  BY DEF Handed, IceCreds, NoAnswer
<1>4. CASE LinkUp(m)
  BY <1>2, <1>4, IceRests, RepliesSame, ServerRests, <1>1 DEF LinkUp, IceIInv, IceTypeOK
<1>5. CASE LinkDrops(m)
  BY <1>5, EmptySeq, <1>1, IceRests, <1>2, ServerRests DEF LinkDrops, IceShape, IceTypeOK, IceIInv
<1>6. CASE Ask(m) \/ AskTimesOut(m)
  <2>1. UNCHANGED <<iceReplies, mintWaits, iceDead>>
    BY <1>6 DEF Ask, AskTimesOut
  <2>2. IceShape' /\ CacheIsLast' /\ HandedOutFresh' /\ MintsAreSpaced'
    BY <1>2, <2>1, RepliesSame, ServerRests
  <2>3. CASE Resolved(m, NoAnswer)
    BY <1>2, <1>3, <2>1, <2>2, <2>3, ResolvedKeeps DEF IceIInv
  <2>4. CASE /\ icePhase' = [icePhase EXCEPT ![m] = "asking"]
             /\ UNCHANGED <<iceReady, inUse, refreshDue, missedAsk>>
    BY <1>1, <2>4, <1>2, <2>1, <2>2 DEF IceTypeOK, RefreshIsAhead, DeadIsQuiet, IceIInv
  <2> QED BY <1>6, <2>3, <2>4 DEF Ask, AskTimesOut
<1>7. CASE TakeReply(m)
  <2> DEFINE q == iceReplies[m]
  <2>1. q \in Seq(IceCreds) /\ q # <<>> /\ iceReplies' = [iceReplies EXCEPT ![m] = Tail(q)]
    BY <1>1, <1>7 DEF TakeReply, IceShape
  <2>2. /\ Tail(q) \in Seq(IceCreds) /\ Len(q) \in Nat /\ Len(q) >= 1 /\ DOMAIN q = 1 .. Len(q)
        /\ DOMAIN Tail(q) = 1 .. Len(q) - 1 /\ \A i \in 1 .. Len(q) - 1 : Tail(q)[i] = q[i + 1]
        /\ Head(q) = q[1] /\ q[1] \in IceCreds
    BY <2>1, HeadTailProperties, EmptySeq
  <2>3. \A i \in DOMAIN Tail(q) : i + 1 \in DOMAIN q /\ Tail(q)[i] = q[i + 1]
    BY <2>2
  <2>4. 1 \in DOMAIN q
    BY <2>2
  <2>5. Handed(Head(q))
    BY <1>1, <2>2, <2>4 DEF Handed, HandedOutFresh
  <2>6. /\ iceReplies' \in [Meshes -> Seq(IceCreds)]
        /\ \A r \in Meshes : \A i \in DOMAIN iceReplies'[r] : \E j \in DOMAIN iceReplies[r] :
              iceReplies'[r][i] = iceReplies[r][j]
    <3> HIDE DEF q
    <3>1. \A r \in Meshes : r # m => iceReplies'[r] = iceReplies[r]
      BY <1>1, <2>1 DEF IceShape
    <3>2. iceReplies'[m] = Tail(q) /\ iceReplies' \in [Meshes -> Seq(IceCreds)]
      BY <1>1, <2>1, <2>2 DEF IceShape
    <3>3. \A i \in DOMAIN iceReplies'[m] : \E j \in DOMAIN iceReplies[m] : iceReplies'[m][i] = iceReplies[m][j]
      BY <2>3, <3>2 DEF q
    <3> QED BY <3>1, <3>2, <3>3
  <2>7. IceShape' /\ CacheIsLast' /\ HandedOutFresh' /\ MintsAreSpaced'
    BY <1>2, <2>6, ServerRests
  <2>8. UNCHANGED <<mintWaits, iceDead>>
    BY <1>7 DEF TakeReply
  <2>9. CASE Resolved(m, Head(q))
    BY <1>2, <2>5, <2>7, <2>8, <2>9, ResolvedKeeps DEF IceIInv
  <2>10. CASE UNCHANGED <<icePhase, iceReady, inUse, refreshDue, missedAsk>>
    BY <1>1, <1>2, <2>7, <2>8, <2>10, IceRests DEF IceIInv, IceTypeOK
  <2> QED BY <1>7, <2>9, <2>10 DEF TakeReply
<1>8. CASE RefreshFires(m)
  BY <1>2, <1>8, RepliesSame, ServerRests, <1>1
     DEF RefreshFires, IceTypeOK, DeadIsQuiet, RefreshIsAhead, IceIInv
<1>9. CASE DestroyMesh(m)
  BY <1>2, <1>9, RepliesSame, ServerRests, <1>1
     DEF DestroyMesh, IceTypeOK, DeadIsQuiet, RefreshIsAhead, IceIInv
<1> QED BY <1>4, <1>5, <1>6, <1>7, <1>8, <1>9

\* Every step keeps the invariant.
LEMMA IceStep == IceIInv /\ [IceNext]_iceVars => IceIInv'
<1> SUFFICES ASSUME IceIInv, [IceNext]_iceVars PROVE IceIInv'
  OBVIOUS
<1>1. CASE UNCHANGED iceVars
  BY <1>1 DEF iceVars, IceIInv, IceTypeOK, IceShape, CacheIsLast, RefreshIsAhead, HandedOutFresh,
              MintsAreSpaced, DeadIsQuiet
<1> QED BY <1>1, TickKeeps, MintEndsKeeps, HandleAskKeeps, MeshSideKeeps DEF IceNext

\* No mesh is left with credentials that have run out, whatever mints fail (turn.ts,
\* webrtc.ts).
THEOREM IceAlwaysHolds == IceSpec => []IceInv
<1>1. IceInit => IceIInv
  BY IceStarts
<1>2. IceIInv /\ [IceNext]_iceVars => IceIInv'
  BY IceStep
<1>3. IceIInv => IceInv
  BY IceIInvImplies
<1> QED BY <1>1, <1>2, <1>3, PTL DEF IceSpec

-----------------------------------------------------------------------------
(* The parts together.                                                     *)

\* A behaviour of the parts is a behaviour of each.
LEMMA PartsAreTheirOwn == Spec => FramesSpec /\ MeshSpec /\ IceSpec
<1>1. Init => FramesInit /\ MeshInit /\ IceInit
  BY DEF Init
<1>2. Next => [FramesNext]_framesVars /\ [MeshNext]_meshVars /\ [IceNext]_iceVars
  BY DEF Next, AllBut
<1>3. UNCHANGED <<part, framesVars, meshVars, callVars, iceVars, presenceVars, hostVars,
                  connVars, delivVars>>
      => UNCHANGED framesVars /\ UNCHANGED meshVars /\ UNCHANGED iceVars
  OBVIOUS
<1> QED BY <1>1, <1>2, <1>3, PTL DEF Spec, FramesSpec, MeshSpec, IceSpec

\* However messages, offers and losses interleave, two peers agree on the mesh and
\* a peer connects with credentials that hold.
THEOREM LinkAlwaysHolds == Spec => []LinkInv
<1>1. MeshInv /\ IceInv => LinkInv
  BY DEF LinkInv
<1> QED BY <1>1, PartsAreTheirOwn, MeshAlwaysHolds, IceAlwaysHolds, PTL

-----------------------------------------------------------------------------
(* Connections.                                                            *)

ConnBounds == {"opens", "frames", "breaks", "reaps", "refusals"}
ConnGreets == [type : {"hello", "auth"}, user : Accounts]
ConnFrames == ConnGreets \cup [type : {"work"}]
ConnTasks  == [pc : {"idle", "gated", "working"}] \cup [pc : {"authing", "enforce"}, m : ConnGreets]
              \cup [pc : {"evict"}, m : ConnGreets, who : Ids]

\* What ConnTypeOK leaves unsaid.
ConnShape ==
  /\ wire \in Wires /\ births \in Nat
  /\ streamOf \in [Devices -> Nat] /\ opened \in [Devices -> Nat] /\ acked \subseteq Devices
  /\ mail \in [Devices -> Seq([on : Nat, kind : {"ack", "bye"}])]
  /\ registered \in [DOMAIN registered -> Nat] /\ endings \subseteq Ids \X Nat
  /\ session \in [DOMAIN session ->
                    [user : Accounts \cup {"none"}, born : Nat, spared : BOOLEAN]]
  /\ bucket \in [Accounts -> SUBSET Ids]
  /\ DOMAIN chains \subseteq Ids \X (Nat \ {0})
  /\ chains \in [DOMAIN chains ->
                   [todo : Seq(ConnFrames), task : ConnTasks, put : Nat, done : Nat]]
  /\ current \in [Ids -> Nat] /\ depth \in [Ids -> Int]
  /\ connLeft \in [ConnBounds -> Nat]
  /\ connLeft["opens"] < MaxOpens
  /\ \A d \in Devices : opened[d] + connLeft["opens"] <= MaxOpens
  /\ IsFiniteSet(DOMAIN session) /\ IsFiniteSet(DOMAIN chains)
  /\ \A u \in Accounts : IsFiniteSet(bucket[u])

\* An id some connection has gone by: over sockets its own, else the device's.
Gone(id) == IF wire = "ws" THEN id[2] \in 1..opened[id[1]] ELSE id[2] = 0

\* Nothing is about a connection that is yet to be opened.
NothingAhead ==
  /\ \A id \in DOMAIN registered :
       Gone(id) /\ registered[id] \in 1..opened[id[1]] /\ (wire = "ws" => registered[id] = id[2])
  /\ \A id \in DOMAIN session : Gone(id)
  /\ \A key \in DOMAIN chains : Gone(key[1])
  /\ \A e \in endings : Gone(e[1]) /\ (wire = "ws" => e[2] = e[1][2])
  /\ \A d \in Devices : \A k \in DOMAIN mail[d] : mail[d][k].on \in 1..opened[d]

QueuesOf(id) == {key \in DOMAIN chains : key[1] = id}

\* The queues of an id are numbered without a gap.
QueuesCounted ==
  \A id \in Ids :
    /\ current[id] <= Cardinality(QueuesOf(id))
    /\ \A n \in Nat \ {0} : <<id, n>> \in DOMAIN chains <=> n <= Cardinality(QueuesOf(id))

BusyQueue(key) == chains[key].task # Idle \/ chains[key].todo # <<>>
Working(key)   == chains[key].task.pc = "working"

\* A session's queue is the only one of its id that has anything to do, and no two
\* queues of an id are at work, but where an id came back too soon.
OneRuns ==
  \A id \in Ids \ overtaken :
    /\ id \in DOMAIN session =>
         \A key \in QueuesOf(id) : BusyQueue(key) => key[2] = current[id]
    /\ \A k, l \in QueuesOf(id) : Working(k) /\ Working(l) => k = l

\* A user's sessions are in the bucket, and over sockets and streams nothing else; a
\* stream's session is of an id that has been announced; sessions differ in age.
BucketsHold ==
  /\ \A u \in Accounts : SessionsOf(u) \subseteq bucket[u]
  /\ BucketsAgree
  /\ wire = "sse" => DOMAIN session \subseteq announcedIds
  /\ \A id \in DOMAIN session : session[id].born <= births
  /\ \A x, y \in DOMAIN session : session[x].born = session[y].born => x = y

\* Queue key is at the cap of user u.
AtCap(key, u) == chains[key].task.pc \in {"enforce", "evict"} /\ chains[key].task.m.user = u

\* Sessions of u that the cap has been held against, and that were not spared.
Settled(u) ==
  {id \in SessionsOf(u) : ~session[id].spared /\ \A key \in QueuesOf(id) : ~AtCap(key, u)}

CapKept == \A u \in Accounts : Cardinality(Settled(u)) <= Cap

\* A socket's device is told to go, or the server has its connection, and a session for
\* it, which has a user once the handshake is past the token.
ToldToGo(d) == \E k \in DOMAIN mail[d] : mail[d][k].on = streamOf[d] /\ mail[d][k].kind = "bye"
Greeted(d)  ==
  \/ d \in acked
  \/ \E k \in DOMAIN mail[d] : mail[d][k].on = streamOf[d] /\ mail[d][k].kind = "ack"
  \/ \E key \in QueuesOf(<<d, streamOf[d]>>) : chains[key].task.pc \in {"enforce", "evict"}

SocketKnown(d) ==
  streamOf[d] # 0 /\ ~ToldToGo(d) =>
    LET id == <<d, streamOf[d]>>
    IN /\ id \in DOMAIN registered /\ id \in DOMAIN session
       /\ <<id, streamOf[d]>> \notin endings
       /\ Greeted(d) => session[id].user # "none"

SocketsKnown ==
  wire = "ws" => (\A d \in acked : streamOf[d] # 0) /\ \A d \in Devices : SocketKnown(d)

ConnIInv ==
  /\ ConnTypeOK /\ ConnShape /\ NothingAhead /\ QueuesCounted /\ OneRuns /\ BucketsHold
  /\ CapKept /\ SocketsKnown

-----------------------------------------------------------------------------
(* What the parts of a step do.                                            *)

\* A function with a value more, and with one less.
LEMMA WithIs ==
  ASSUME NEW f, NEW k, NEW v
  PROVE  /\ DOMAIN With(f, k, v) = DOMAIN f \cup {k}
         /\ With(f, k, v)[k] = v
         /\ \A x \in DOMAIN f : x # k => With(f, k, v)[x] = f[x]
  BY DEF With

\* Deleting a key of a map leaves the others.
LEMMA WithoutIs ==
  ASSUME NEW f, NEW k
  PROVE  /\ DOMAIN Without(f, k) = DOMAIN f \ {k}
         /\ \A x \in DOMAIN f : x # k => Without(f, k)[x] = f[x]
  BY DEF Without

\* The ids there can be do not change.
LEMMA IdsStay ==
  ASSUME UNCHANGED wire
  PROVE  Ids' = Ids /\ MaxOpens' = MaxOpens /\ ConnTasks' = ConnTasks
  BY DEF Ids, MaxOpens, ConnTasks

\* A queue is of an id.
LEMMA KeyIs ==
  ASSUME ConnShape, NEW key \in DOMAIN chains
  PROVE  /\ key[1] \in Ids /\ key[2] \in Nat \ {0} /\ key = <<key[1], key[2]>>
         /\ chains[key] \in [todo : Seq(ConnFrames), task : ConnTasks, put : Nat, done : Nat]
  BY DEF ConnShape

\* The identity of a connection is its device and its number.
LEMMA IdIs ==
  ASSUME NEW id \in Ids
  PROVE  id[1] \in Devices /\ id[2] \in Nat /\ id = <<id[1], id[2]>>
<1>1. MaxOpens \in Int => 0..MaxOpens \subseteq Nat
  OBVIOUS
<1> QED BY DEF Ids

\* The sets frames and queues are typed with.
ConnMail   == [on : Nat, kind : {"ack", "bye"}]
ConnQueues == [todo : Seq(ConnFrames), task : ConnTasks, put : Nat, done : Nat]

\* Frame f is on its way to device d.
Underway(d, f) == \E k \in DOMAIN mail[d] : mail[d][k] = f

\* A frame sent is carried to the device, if the transport has the id.
LEMMA SentIs ==
  ASSUME ConnShape, DOMAIN registered \subseteq Ids,
         NEW id \in Ids, NEW kind \in {"ack", "bye"}, mail' = Sent(id, kind)
  PROVE  /\ mail' \in [Devices -> Seq(ConnMail)]
         /\ \A d \in Devices : \A f :
              Underway(d, f)' <=> \/ Underway(d, f)
                                 \/ /\ id \in DOMAIN registered /\ d = id[1]
                                    /\ f = [on |-> registered[id], kind |-> kind]
<1>1. mail \in [Devices -> Seq(ConnMail)] /\ id[1] \in Devices
  BY IdIs DEF ConnShape, ConnMail
<1>2. CASE id \notin DOMAIN registered
  BY <1>1, <1>2 DEF Sent, Underway
<1>3. CASE id \in DOMAIN registered
  <2> DEFINE new == [on |-> registered[id], kind |-> kind]
  <2>1. new \in ConnMail
    BY <1>3 DEF ConnShape, ConnMail
  <2>2. mail' = [mail EXCEPT ![id[1]] = Append(@, new)]
    BY <1>3 DEF Sent
  <2> HIDE DEF new
  <2>3. ASSUME NEW q \in Seq(ConnMail)
        PROVE  /\ Append(q, new) \in Seq(ConnMail) /\ DOMAIN Append(q, new) = 1..Len(q) + 1
               /\ DOMAIN q = 1..Len(q) /\ Len(q) \in Nat
               /\ \A i \in 1..Len(q) : Append(q, new)[i] = q[i]
               /\ Append(q, new)[Len(q) + 1] = new
    BY <2>1, <2>3, AppendProperties
  <2>4. \A q \in Seq(ConnMail) : \A f :
          (\E k \in DOMAIN Append(q, new) : Append(q, new)[k] = f)
            <=> (\E k \in DOMAIN q : q[k] = f) \/ f = new
    <3> TAKE q \in Seq(ConnMail)
    <3> TAKE f
    <3>1. Len(q) + 1 \in 1..Len(q) + 1 /\ \A i \in 1..Len(q) + 1 : i # Len(q) + 1 => i \in 1..Len(q)
      BY <2>3
    <3>2. \A i \in 1..Len(q) : i \in 1..Len(q) + 1
      BY <2>3
    <3> QED BY <3>1, <3>2, <2>3
  <2>5. \A d \in Devices : mail'[d] = IF d = id[1] THEN Append(mail[d], new) ELSE mail[d]
    BY <2>2, <1>1
  <2>6. mail' \in [Devices -> Seq(ConnMail)]
    BY <2>2, <2>3, <1>1
  <2>7. \A d \in Devices : \A f : Underway(d, f)' <=> Underway(d, f) \/ (d = id[1] /\ f = new)
    <3> TAKE d \in Devices
    <3> TAKE f
    <3>1. mail[d] \in Seq(ConnMail)
      BY <1>1
    <3>2. (\E k \in DOMAIN Append(mail[d], new) : Append(mail[d], new)[k] = f)
            <=> (\E k \in DOMAIN mail[d] : mail[d][k] = f) \/ f = new
      BY <3>1, <2>4
    <3>3. Underway(d, f)' <=> \E k \in DOMAIN mail'[d] : mail'[d][k] = f
      BY DEF Underway
    <3>4. Underway(d, f) <=> \E k \in DOMAIN mail[d] : mail[d][k] = f
      BY DEF Underway
    <3>5. CASE d = id[1]
      BY <3>2, <3>3, <3>4, <3>5, <2>5
    <3>6. CASE d # id[1]
      BY <3>3, <3>4, <3>6, <2>5
    <3> QED BY <3>5, <3>6
  <2> QED BY <2>6, <2>7, <1>3 DEF new
<1> QED BY <1>2, <1>3

\* A frame received is carried no longer, the others are.
LEMMA ReceivedIs ==
  ASSUME ConnShape, NEW d \in Devices, mail[d] # <<>>, mail' = [mail EXCEPT ![d] = Tail(@)]
  PROVE  /\ mail' \in [Devices -> Seq(ConnMail)]
         /\ Head(mail[d]) \in ConnMail /\ Underway(d, Head(mail[d]))
         /\ \A e \in Devices : \A f :
              /\ Underway(e, f)' => Underway(e, f)
              /\ Underway(e, f) => Underway(e, f)' \/ (e = d /\ f = Head(mail[d]))
<1>1. mail \in [Devices -> Seq(ConnMail)]
  BY DEF ConnShape, ConnMail
<1> DEFINE q == mail[d]
<1>2. q \in Seq(ConnMail) /\ q # <<>>
  BY <1>1
<1>3. /\ Head(q) \in ConnMail /\ Tail(q) \in Seq(ConnMail) /\ Len(q) \in Nat \ {0} /\ Head(q) = q[1]
      /\ DOMAIN q = 1..Len(q) /\ DOMAIN Tail(q) = 1..Len(q) - 1
      /\ \A i \in 1..Len(q) - 1 : Tail(q)[i] = q[i+1]
  BY <1>2, HeadTailProperties, EmptySeq
<1>4. \A e \in Devices : mail'[e] = IF e = d THEN Tail(q) ELSE mail[e]
  BY <1>1
<1>5. mail' \in [Devices -> Seq(ConnMail)]
  BY <1>1, <1>3
<1> HIDE DEF q
<1>6. 1 \in 1..Len(q) /\ \A i \in 1..Len(q) - 1 : i + 1 \in 1..Len(q)
  BY <1>3
<1>7. \A i \in 1..Len(q) : i = 1 \/ (i - 1 \in 1..Len(q) - 1 /\ (i - 1) + 1 = i)
  BY <1>3
<1>8. \A f : /\ (\E k \in DOMAIN Tail(q) : Tail(q)[k] = f) => (\E k \in DOMAIN q : q[k] = f)
             /\ (\E k \in DOMAIN q : q[k] = f) => (\E k \in DOMAIN Tail(q) : Tail(q)[k] = f) \/ f = Head(q)
  <2> TAKE f
  <2>1. ASSUME NEW k \in DOMAIN Tail(q), Tail(q)[k] = f PROVE \E j \in DOMAIN q : q[j] = f
    BY <1>3, <1>6, <2>1
  <2>2. ASSUME NEW k \in DOMAIN q, q[k] = f, f # Head(q) PROVE \E j \in DOMAIN Tail(q) : Tail(q)[j] = f
    BY <1>3, <1>7, <2>2
  <2> QED BY <2>1, <2>2
<1>9. \E k \in DOMAIN q : q[k] = Head(q)
  BY <1>3, <1>6
<1> DEFINE In(s, f) == \E k \in DOMAIN s : s[k] = f
<1>10. \A e \in Devices : \A f : /\ Underway(e, f)' <=> In(mail'[e], f)
                                 /\ Underway(e, f) <=> In(mail[e], f)
  BY DEF Underway
<1>11. mail[d] = q
  BY DEF q
<1>14. \A f : (In(Tail(q), f) => In(q, f)) /\ (In(q, f) => In(Tail(q), f) \/ f = Head(q))
  BY <1>8
<1>15. In(q, Head(q))
  BY <1>9
<1> HIDE DEF In
<1>12. Head(mail[d]) \in ConnMail /\ Underway(d, Head(mail[d]))
  BY <1>3, <1>10, <1>11, <1>15
<1>13. ASSUME NEW e \in Devices, NEW f
       PROVE  /\ Underway(e, f)' => Underway(e, f)
              /\ Underway(e, f) => Underway(e, f)' \/ (e = d /\ f = Head(mail[d]))
  <2>0. (Underway(e, f)' <=> In(mail'[e], f)) /\ (Underway(e, f) <=> In(mail[e], f))
    BY <1>10
  <2>1. CASE e = d
    BY <1>4, <1>11, <2>1, <1>14, <2>0
  <2>2. CASE e # d
    BY <1>4, <2>2, <2>0
  <2> QED BY <2>1, <2>2
<1> QED BY <1>5, <1>12, <1>13

\* Queue key comes to task with todo left; the others rest.
Touched(key, doing, todo) ==
  /\ DOMAIN chains' = DOMAIN chains /\ \A k \in DOMAIN chains \ {key} : chains'[k] = chains[k]
  /\ chains'[key].task = doing /\ chains'[key].todo = todo
  /\ chains' \in [DOMAIN chains -> ConnQueues]

\* A task that goes on to its next stage touches its own chain only.
LEMMA StageIs ==
  ASSUME ConnShape, NEW key \in DOMAIN chains, NEW doing \in ConnTasks, Stage(key, doing)
  PROVE  Touched(key, doing, chains[key].todo)
  BY DEF ConnShape, Stage, Touched, ConnQueues

\* A chain at rest has the idle task.
LEMMA IdleIs == Idle \in ConnTasks
  BY DEF Idle, ConnTasks

\* Being done with a frame lowers a depth, at most.
LEMMA FinishedIs ==
  ASSUME ConnShape, ConnTypeOK, NEW key \in DOMAIN chains, Finished(key)
  PROVE  /\ Touched(key, Idle, chains[key].todo)
         /\ depth' \in [Ids -> Int] /\ \A id \in Ids : depth'[id] <= MaxDepth
<1>1. key[1] \in Ids
  BY KeyIs
<1>2. MaxDepth \in Nat
  BY ConnAssumption
<1>8. chains \in [DOMAIN chains -> ConnQueues]
  BY DEF ConnShape, ConnQueues
<1>9. chains' = [chains EXCEPT ![key] = [chains[key] EXCEPT !.task = Idle, !.done = chains[key].done + 1]]
  BY <1>8 DEF Finished, ConnQueues
<1> DEFINE old == chains[key]
           new == [old EXCEPT !.task = Idle, !.done = old.done + 1]
<1>10. old \in ConnQueues
  BY <1>8
<1>11. new.task = Idle /\ new.todo = old.todo /\ new.put = old.put /\ new.done = old.done + 1
  BY <1>10 DEF ConnQueues
<1>12. new \in ConnQueues
  <2>1. [old EXCEPT !.task = Idle] \in ConnQueues
    BY <1>10, IdleIs DEF ConnQueues
  <2>2. \A q \in ConnQueues : \A n \in Nat : [q EXCEPT !.done = n] \in ConnQueues
    BY DEF ConnQueues
  <2>3. new = [[old EXCEPT !.task = Idle] EXCEPT !.done = old.done + 1]
    BY DEF new
  <2>4. old.done + 1 \in Nat
    BY <1>10 DEF ConnQueues
  <2> QED BY <2>1, <2>2, <2>3, <2>4
<1> HIDE DEF new
<1>13. chains' = [chains EXCEPT ![key] = new]
  BY <1>9 DEF new
<1>3. Touched(key, Idle, chains[key].todo)
  BY <1>8, <1>11, <1>12, <1>13 DEF Touched
<1>4. depth \in [Ids -> Int] /\ \A id \in Ids : depth[id] <= MaxDepth
  BY DEF ConnShape, ConnTypeOK
<1>5. \A id \in Ids : depth'[id] = depth[id] \/ depth'[id] = depth[id] - 1
  BY <1>1, <1>4 DEF Finished
<1>6. depth' \in [Ids -> Int]
  BY <1>1, <1>4 DEF Finished
<1>7. \A id \in Ids : depth'[id] <= MaxDepth
  BY <1>2, <1>4, <1>5
<1> QED BY <1>3, <1>6, <1>7

\* A frame more in queue n of an id, which it may start.
Queued(id, n) ==
  LET key == <<id, n>> IN
  /\ DOMAIN chains' = DOMAIN chains \cup {key}
  /\ \A k \in DOMAIN chains \ {key} : chains'[k] = chains[k]
  /\ chains'[key].task = IF key \in DOMAIN chains THEN chains[key].task ELSE Idle
  /\ chains' \in [DOMAIN chains' -> ConnQueues]
  /\ current' = [current EXCEPT ![id] = n]

\* An id's queues are finitely many.
LEMMA QueuesFinite ==
  ASSUME ConnShape, NEW id
  PROVE  IsFiniteSet(QueuesOf(id)) /\ Cardinality(QueuesOf(id)) \in Nat
<1>1. IsFiniteSet(DOMAIN chains) /\ QueuesOf(id) \in SUBSET DOMAIN chains
  BY DEF ConnShape, QueuesOf
<1>2. IsFiniteSet(QueuesOf(id))
  BY <1>1, FS_Subset
<1> QED BY <1>2, FS_CardinalityType

\* onMessage drops the frame, or puts it in the id's queue, or in a new one.
LEMMA EnqueueIs ==
  ASSUME ConnShape, ConnTypeOK, QueuesCounted, NEW id \in Ids, NEW m \in ConnFrames, Enqueue(id, m)
  PROVE  /\ depth' \in [Ids -> Int] /\ \A x \in Ids : depth'[x] <= MaxDepth
         /\ \/ UNCHANGED <<chains, current>>
            \/ \E n \in Nat \ {0} :
                 /\ Queued(id, n)
                 /\ IF current[id] = 0 THEN n = Cardinality(QueuesOf(id)) + 1 /\ <<id, n>> \notin DOMAIN chains
                    ELSE n = current[id] /\ <<id, n>> \in DOMAIN chains
<1>1. /\ MaxDepth \in Nat /\ depth \in [Ids -> Int] /\ current \in [Ids -> Nat]
      /\ \A x \in Ids : depth[x] <= MaxDepth
      /\ chains \in [DOMAIN chains -> ConnQueues]
  BY ConnAssumption DEF ConnShape, ConnTypeOK, ConnQueues
<1>2. CASE depth[id] >= MaxDepth
  BY <1>1, <1>2 DEF Enqueue
<1>3. CASE ~(depth[id] >= MaxDepth)
  <2> DEFINE C   == Cardinality(QueuesOf(id))
             n   == IF current[id] # 0 THEN current[id] ELSE 1 + C
             key == <<id, n>>
             old == IF key \in DOMAIN chains THEN chains[key]
                    ELSE [todo |-> <<>>, task |-> Idle, put |-> 0, done |-> 0]
             new == [old EXCEPT !.todo = Append(@, m), !.put = @ + 1]
  <2>1. C = Cardinality({k \in DOMAIN chains : k[1] = id})
    BY DEF QueuesOf
  <2>2. /\ chains' = With(chains, key, new)
        /\ current' = [current EXCEPT ![id] = n] /\ depth' = [depth EXCEPT ![id] = @ + 1]
    BY <1>3, <2>1 DEF Enqueue
  <2>3. C \in Nat
    BY QueuesFinite
  <2>4. /\ n \in Nat \ {0}
        /\ IF current[id] = 0 THEN n = C + 1 /\ key \notin DOMAIN chains
           ELSE n = current[id] /\ key \in DOMAIN chains
    BY <1>1, <2>3 DEF QueuesCounted
  <2>5. old \in ConnQueues /\ old.task = IF key \in DOMAIN chains THEN chains[key].task ELSE Idle
    BY IdleIs, <1>1 DEF ConnQueues
  <2> HIDE DEF old, n, C
  <2>6. /\ new.task = old.task /\ new \in ConnQueues
    <3>1. Append(old.todo, m) \in Seq(ConnFrames)
      BY <2>5, AppendProperties DEF ConnQueues
    <3>2. [old EXCEPT !.todo = Append(old.todo, m)] \in ConnQueues
      BY <2>5, <3>1 DEF ConnQueues
    <3>3. \A q \in ConnQueues : \A p \in Nat : [q EXCEPT !.put = p] \in ConnQueues
      BY DEF ConnQueues
    <3>4. old.put + 1 \in Nat
      BY <2>5 DEF ConnQueues
    <3>5. new \in ConnQueues
      BY <3>2, <3>3, <3>4
    <3>6. new.task = old.task
      BY <2>5 DEF ConnQueues
    <3> QED BY <3>5, <3>6
  <2> HIDE DEF new
  <2>7. Queued(id, n)
    <3>1. DOMAIN chains' = DOMAIN chains \cup {key} /\ chains'[key] = new
          /\ \A k \in DOMAIN chains : k # key => chains'[k] = chains[k]
      <4> DEFINE g == With(chains, key, new)
      <4>1. /\ DOMAIN g = DOMAIN chains \cup {key} /\ g[key] = new
            /\ \A k \in DOMAIN chains : k # key => g[k] = chains[k]
        BY DEF With
      <4>2. chains' = g
        BY <2>2
      <4> HIDE DEF g
      <4> QED BY <4>1, <4>2
    <3>2. chains' \in [DOMAIN chains' -> ConnQueues]
      BY <1>1, <2>2, <2>6 DEF With
    <3> QED BY <2>2, <2>5, <2>6, <3>1, <3>2 DEF Queued
  <2>8. depth' \in [Ids -> Int] /\ \A x \in Ids : depth'[x] <= MaxDepth
    BY <1>1, <1>3, <2>2
  <2> QED BY <2>4, <2>7, <2>8 DEF n, C
<1> QED BY <1>2, <1>3

ConnSessions == [user : Accounts \cup {"none"}, born : Nat, spared : BOOLEAN]

\* disconnect: a session less, and a place in a bucket.
LEMMA ForgottenIs ==
  ASSUME ConnShape, ConnTypeOK, NEW id, Forgotten(id)
  PROVE  /\ DOMAIN session' = DOMAIN session \ {id} /\ session' \in [DOMAIN session' -> ConnSessions]
         /\ IsFiniteSet(DOMAIN session')
         /\ \A x \in DOMAIN session' : session'[x] = session[x]
         /\ bucket' = Unbucketed(id) /\ bucket' \in [Accounts -> SUBSET Ids]
         /\ \A u \in Accounts : IsFiniteSet(bucket'[u])
         /\ current' \in [Ids -> Nat] /\ \A x \in Ids : current'[x] = IF x = id THEN 0 ELSE current[x]
         /\ depth' \in [Ids -> Int] /\ \A x \in Ids : depth'[x] <= MaxDepth
<1>1. session \in [DOMAIN session -> ConnSessions] /\ IsFiniteSet(DOMAIN session)
  BY DEF ConnShape, ConnSessions
<1>2. /\ DOMAIN session' = DOMAIN session \ {id} /\ session' \in [DOMAIN session' -> ConnSessions]
      /\ \A x \in DOMAIN session' : session'[x] = session[x]
  BY <1>1 DEF Forgotten, Without
<1>3. IsFiniteSet(DOMAIN session')
  BY <1>1, <1>2, FS_RemoveElement
<1>4. /\ bucket \in [Accounts -> SUBSET Ids] /\ \A u \in Accounts : IsFiniteSet(bucket[u])
  BY DEF ConnShape
<1>5. bucket' = Unbucketed(id) /\ bucket' \in [Accounts -> SUBSET Ids]
      /\ \A u \in Accounts : bucket'[u] \in SUBSET bucket[u]
  BY <1>4 DEF Forgotten, Unbucketed
<1>6. \A u \in Accounts : IsFiniteSet(bucket'[u])
  BY <1>4, <1>5, FS_Subset
<1>7. MaxDepth \in Nat
  BY ConnAssumption
<1>8. /\ current' \in [Ids -> Nat] /\ \A x \in Ids : current'[x] = IF x = id THEN 0 ELSE current[x]
      /\ depth' \in [Ids -> Int] /\ \A x \in Ids : depth'[x] <= MaxDepth
  <2>1. current \in [Ids -> Nat] /\ current' = [current EXCEPT ![id] = 0]
        /\ depth \in [Ids -> Int] /\ depth' = [depth EXCEPT ![id] = 0]
    BY DEF ConnShape, Forgotten
  <2>2. \A x \in Ids : depth[x] <= MaxDepth
    BY DEF ConnTypeOK
  <2>3. \A x \in Ids : depth'[x] = IF x = id THEN 0 ELSE depth[x]
    BY <2>1
  <2>4. current' \in [Ids -> Nat] /\ depth' \in [Ids -> Int]
    <3>1. ASSUME NEW S, NEW T, NEW f \in [S -> T], NEW k, NEW v \in T PROVE [f EXCEPT ![k] = v] \in [S -> T]
      OBVIOUS
    <3>2. 0 \in Nat /\ 0 \in Int
      OBVIOUS
    <3> QED BY <2>1, <3>1, <3>2
  <2>5. \A x \in Ids : current'[x] = IF x = id THEN 0 ELSE current[x]
    BY <2>1
  <2> QED BY <1>7, <2>2, <2>3, <2>4, <2>5
<1> QED BY <1>2, <1>3, <1>5, <1>6, <1>8

\* A dismissed client is told so, unless it polls; the transport forgets its id, and a
\* socket's end will be heard of.
LEMMA DismissedIs ==
  ASSUME ConnShape, ConnTypeOK, NEW id, Dismissed(id)
  PROVE  /\ mail' \in [Devices -> Seq(ConnMail)]
         /\ DOMAIN registered' = DOMAIN registered \ {id} /\ registered' \in [DOMAIN registered' -> Nat]
         /\ \A x \in DOMAIN registered' : registered'[x] = registered[x]
         /\ endings' \subseteq Ids \X Nat
         /\ \A e \in endings' \ endings :
              id \in DOMAIN registered /\ wire = "ws" /\ e = <<id, registered[id]>>
         /\ \A d \in Devices : \A f :
              Underway(d, f)' <=> \/ Underway(d, f)
                                 \/ /\ wire # "polling" /\ id \in DOMAIN registered /\ d = id[1]
                                    /\ f = [on |-> registered[id], kind |-> "bye"]
<1>1. mail \in [Devices -> Seq(ConnMail)] /\ registered \in [DOMAIN registered -> Nat]
      /\ endings \subseteq Ids \X Nat /\ DOMAIN registered \subseteq Ids
  BY DEF ConnShape, ConnTypeOK, ConnMail
<1>2. /\ DOMAIN registered' = DOMAIN registered \ {id} /\ registered' \in [DOMAIN registered' -> Nat]
      /\ \A x \in DOMAIN registered' : registered'[x] = registered[x]
  BY <1>1 DEF Dismissed, Without
<1>3. /\ endings' \subseteq Ids \X Nat
      /\ \A e \in endings' \ endings :
              id \in DOMAIN registered /\ wire = "ws" /\ e = <<id, registered[id]>>
  BY <1>1 DEF Dismissed
<1>4. CASE wire = "polling" \/ id \notin DOMAIN registered
  BY <1>4, <1>1, <1>2, <1>3 DEF Dismissed, Sent, Underway
<1>5. CASE wire # "polling" /\ id \in DOMAIN registered
  BY <1>1, <1>5, SentIs, <1>2, <1>3 DEF Dismissed
<1> QED BY <1>4, <1>5

\* connect: a session more, for nobody yet.
LEMMA ConnectedIs ==
  ASSUME ConnShape, ConnTypeOK, NEW id \in Ids, Connected(id)
  PROVE  /\ DOMAIN session' = DOMAIN session \cup {id} /\ session' \in [DOMAIN session' -> ConnSessions]
         /\ IsFiniteSet(DOMAIN session')
         /\ session'[id] = [user |-> "none", born |-> births + 1, spared |-> FALSE]
         /\ \A x \in DOMAIN session : x # id => session'[x] = session[x]
         /\ births' = births + 1 /\ births' \in Nat
<1>1. session \in [DOMAIN session -> ConnSessions] /\ IsFiniteSet(DOMAIN session) /\ births \in Nat
  BY DEF ConnShape, ConnSessions
<1> DEFINE new == [user |-> "none", born |-> births + 1, spared |-> FALSE]
<1>2. new \in ConnSessions
  BY <1>1 DEF ConnSessions
<1>3. session' = With(session, id, new) /\ births' = births + 1
  BY DEF Connected
<1> HIDE DEF new
<1>4. /\ DOMAIN session' = DOMAIN session \cup {id} /\ session'[id] = new
      /\ \A x \in DOMAIN session : x # id => session'[x] = session[x]
      /\ session' \in [DOMAIN session' -> ConnSessions]
  BY <1>1, <1>2, <1>3 DEF With
<1>5. IsFiniteSet(DOMAIN session')
  BY <1>1, <1>4, FS_AddElement
<1>6. session'[id] = [user |-> "none", born |-> births + 1, spared |-> FALSE]
  BY <1>4 DEF new
<1>7. births' \in Nat
  BY <1>1, <1>3
<1> QED BY <1>3, <1>4, <1>5, <1>6, <1>7

\* setAuth: the session's user, and its place.
LEMMA SetAuthIs ==
  ASSUME ConnShape, ConnTypeOK, NEW id \in Ids, NEW u \in Accounts, SetAuth(id, u)
  PROVE  /\ DOMAIN session' = DOMAIN session /\ session' \in [DOMAIN session -> ConnSessions]
         /\ bucket' \in [Accounts -> SUBSET Ids] /\ \A v \in Accounts : IsFiniteSet(bucket'[v])
         /\ \A x \in DOMAIN session :
              /\ session'[x].born = session[x].born /\ session'[x].spared = session[x].spared
              /\ session'[x].user = IF x = id THEN u ELSE session[x].user
         /\ IF id \in DOMAIN session
            THEN \A v \in Accounts : bucket'[v] = IF v = u THEN bucket[v] \cup {id} ELSE bucket[v] \ {id}
            ELSE bucket' = bucket
<1>1. session \in [DOMAIN session -> ConnSessions] /\ bucket \in [Accounts -> SUBSET Ids]
      /\ \A v \in Accounts : IsFiniteSet(bucket[v])
  BY DEF ConnShape, ConnSessions
<1>2. CASE id \notin DOMAIN session
  BY <1>1, <1>2 DEF SetAuth
<1>3. CASE id \in DOMAIN session
  <2>1. \A v \in Accounts : bucket'[v] = IF v = u THEN bucket[v] \cup {id} ELSE bucket[v] \ {id}
    BY <1>1, <1>3 DEF SetAuth
  <2>2. bucket' \in [Accounts -> SUBSET Ids]
    BY <1>1, <1>3 DEF SetAuth
  <2>3. \A v \in Accounts : IsFiniteSet(bucket'[v])
    <3> TAKE v \in Accounts
    <3>1. IsFiniteSet(bucket[v]) /\ IsFiniteSet(bucket[v] \cup {id}) /\ IsFiniteSet(bucket[v] \ {id})
      BY <1>1, FS_AddElement, FS_RemoveElement
    <3> QED BY <2>1, <3>1
  <2>4. session' = [session EXCEPT ![id] = [session[id] EXCEPT !.user = u]]
    BY <1>3 DEF SetAuth
  <2>5. /\ [session[id] EXCEPT !.user = u] \in ConnSessions
        /\ [session[id] EXCEPT !.user = u].user = u
        /\ [session[id] EXCEPT !.user = u].born = session[id].born
        /\ [session[id] EXCEPT !.user = u].spared = session[id].spared
    BY <1>1, <1>3 DEF ConnSessions
  <2> DEFINE new == [session[id] EXCEPT !.user = u]
  <2> HIDE DEF new
  <2>6. /\ DOMAIN session' = DOMAIN session /\ session'[id] = new
        /\ \A x \in DOMAIN session : x # id => session'[x] = session[x]
    BY <1>1, <1>3, <2>4 DEF new
  <2>7. session' \in [DOMAIN session -> ConnSessions]
    BY <1>1, <1>3, <2>4, <2>5 DEF new
  <2>8. \A x \in DOMAIN session :
              /\ session'[x].born = session[x].born /\ session'[x].spared = session[x].spared
              /\ session'[x].user = IF x = id THEN u ELSE session[x].user
    BY <2>5, <2>6 DEF new
  <2> QED BY <1>3, <2>1, <2>2, <2>3, <2>6, <2>7, <2>8
<1> QED BY <1>2, <1>3

-----------------------------------------------------------------------------
(* Types.                                                                  *)

\* The type of what devices have, of what is under way, of the sessions, of the queues.
DevicesTyped ==
  /\ streamOf \in [Devices -> Nat] /\ opened \in [Devices -> Nat] /\ acked \subseteq Devices
  /\ \A d \in Devices : streamOf[d] \in {0, opened[d]}
  /\ connLeft \in [ConnBounds -> Nat] /\ connLeft["opens"] < MaxOpens
  /\ \A d \in Devices : opened[d] + connLeft["opens"] <= MaxOpens
WiresTyped ==
  /\ mail \in [Devices -> Seq(ConnMail)]
  /\ registered \in [DOMAIN registered -> Nat] /\ DOMAIN registered \subseteq Ids
  /\ endings \subseteq Ids \X Nat
SessionsTyped ==
  /\ session \in [DOMAIN session -> ConnSessions] /\ DOMAIN session \subseteq Ids
  /\ IsFiniteSet(DOMAIN session) /\ births \in Nat
  /\ bucket \in [Accounts -> SUBSET Ids] /\ \A u \in Accounts : IsFiniteSet(bucket[u])
QueuesTyped ==
  /\ DOMAIN chains \subseteq Ids \X (Nat \ {0}) /\ chains \in [DOMAIN chains -> ConnQueues]
  /\ IsFiniteSet(DOMAIN chains)
  /\ current \in [Ids -> Nat]
  /\ depth \in [Ids -> Int] /\ \A id \in Ids : depth[id] <= MaxDepth

\* The types, in four parts that different steps disturb.
LEMMA TypesTogether ==
  /\ ConnTypeOK /\ ConnShape
       => wire \in Wires /\ DevicesTyped /\ WiresTyped /\ SessionsTyped /\ QueuesTyped
  /\ wire \in Wires /\ DevicesTyped /\ WiresTyped /\ SessionsTyped /\ QueuesTyped
       => ConnTypeOK /\ ConnShape
<1>1. ASSUME ConnTypeOK, ConnShape
      PROVE  wire \in Wires /\ DevicesTyped /\ WiresTyped /\ SessionsTyped /\ QueuesTyped
  BY <1>1 DEF ConnTypeOK, ConnShape, DevicesTyped, WiresTyped, SessionsTyped, QueuesTyped, ConnMail,
              ConnSessions, ConnQueues
<1>2. ASSUME wire \in Wires, DevicesTyped, WiresTyped, SessionsTyped, QueuesTyped
      PROVE  ConnTypeOK /\ ConnShape
  <2>1. ConnTypeOK
    BY <1>2 DEF ConnTypeOK, DevicesTyped, WiresTyped, SessionsTyped, QueuesTyped
  <2>2. ConnShape
    BY <1>2 DEF ConnShape, DevicesTyped, WiresTyped, SessionsTyped, QueuesTyped, ConnMail,
              ConnSessions, ConnQueues
  <2> QED BY <2>1, <2>2
<1> QED BY <1>1, <1>2

\* Nothing of the devices changed.
LEMMA DevicesTypedSame ==
  ASSUME DevicesTyped, UNCHANGED <<wire, streamOf, opened, acked, connLeft>> PROVE DevicesTyped'
  BY IdsStay DEF DevicesTyped
\* Nothing on the wires changed.
LEMMA WiresTypedSame ==
  ASSUME WiresTyped, UNCHANGED <<wire, mail, registered, endings>> PROVE WiresTyped'
  BY IdsStay DEF WiresTyped
\* Nothing of the sessions changed.
LEMMA SessionsTypedSame ==
  ASSUME SessionsTyped, UNCHANGED <<wire, session, births, bucket>> PROVE SessionsTyped'
  BY IdsStay DEF SessionsTyped
\* Nothing of the queues changed.
LEMMA QueuesTypedSame ==
  ASSUME QueuesTyped, UNCHANGED <<wire, chains, current, depth>> PROVE QueuesTyped'
<1>1. ConnQueues' = ConnQueues
  BY IdsStay DEF ConnQueues
<1> QED BY <1>1, IdsStay DEF QueuesTyped

\* A bound that is paid for.
LEMMA UseIs ==
  ASSUME DevicesTyped, NEW k \in ConnBounds, Use(k)
  PROVE  /\ connLeft' \in [ConnBounds -> Nat] /\ connLeft'["opens"] <= connLeft["opens"]
         /\ k = "opens" => connLeft["opens"] >= 1 /\ connLeft'["opens"] = connLeft["opens"] - 1
  BY DEF DevicesTyped, Use, ConnBounds

\* Each transport may open a connection at all.
LEMMA BoundIs == ASSUME wire \in Wires PROVE MaxOpens \in Nat \ {0}
  BY ConnAssumption DEF MaxOpens

\* Paying, and a connection that closes or is acknowledged, keep the devices' types.
LEMMA DevicesTypedMore ==
  ASSUME wire \in Wires, DevicesTyped, UNCHANGED <<wire, opened>>,
         (UNCHANGED connLeft) \/ \E k \in ConnBounds : Use(k),
         streamOf' \in [Devices -> Nat], acked' \subseteq Devices,
         \A d \in Devices : streamOf'[d] \in {0, streamOf[d]}
  PROVE  DevicesTyped'
<1>1. connLeft' \in [ConnBounds -> Nat] /\ connLeft'["opens"] <= connLeft["opens"]
      /\ connLeft["opens"] \in Nat /\ connLeft'["opens"] \in Nat
  BY UseIs DEF DevicesTyped, ConnBounds
<1>2. MaxOpens' = MaxOpens
  BY IdsStay
<1>3. MaxOpens \in Nat
  BY BoundIs
<1>4. ASSUME NEW d \in Devices PROVE streamOf'[d] \in {0, opened'[d]}
  BY DEF DevicesTyped
<1>5. ASSUME NEW d \in Devices PROVE opened'[d] + connLeft'["opens"] <= MaxOpens'
  BY <1>1, <1>2, <1>3 DEF DevicesTyped
<1>6. connLeft'["opens"] < MaxOpens' /\ opened' \in [Devices -> Nat]
  BY <1>1, <1>2, <1>3 DEF DevicesTyped
<1> QED BY <1>1, <1>4, <1>5, <1>6 DEF DevicesTyped

\* A step of one chain keeps the queues typed.
LEMMA QueuesTypedTouched ==
  ASSUME QueuesTyped, UNCHANGED <<wire, current>>, NEW key, NEW doing, NEW todo, Touched(key, doing, todo),
         depth' \in [Ids -> Int], \A id \in Ids : depth'[id] <= MaxDepth
  PROVE  QueuesTyped'
<1>1. ConnQueues' = ConnQueues /\ Ids' = Ids
  BY IdsStay DEF ConnQueues
<1> QED BY <1>1 DEF QueuesTyped, Touched

\* What a task carries on.
TaskSound(t) ==
  /\ t.pc \in {"authing", "enforce", "evict"} =>
       t.m \in ConnGreets /\ t.m.user \in Accounts /\ t.m.type \in {"hello", "auth"}
  /\ t.pc = "authing" => [pc |-> "enforce", m |-> t.m] \in ConnTasks
  /\ t.pc = "enforce" => \A id \in Ids : [pc |-> "evict", m |-> t.m, who |-> id] \in ConnTasks
  /\ t.pc = "evict" => t.who \in Ids /\ [pc |-> "enforce", m |-> t.m] \in ConnTasks

\* What is known of the task of a chain.
LEMMA TaskIs == ASSUME ConnShape, NEW key \in DOMAIN chains PROVE TaskSound(chains[key].task)
<1>1. ASSUME NEW t \in ConnTasks PROVE TaskSound(t)
  BY DEF ConnTasks, ConnGreets, TaskSound
<1> QED BY <1>1, KeyIs DEF ConnQueues

\* The type part of the invariant.
TypedAll == wire \in Wires /\ DevicesTyped /\ WiresTyped /\ SessionsTyped /\ QueuesTyped

\* The end of a device's connection.
LEMMA ClosedIs ==
  ASSUME ConnShape, ConnTypeOK, NEW d \in Devices, Closed(d), UNCHANGED <<wire, opened>>
  PROVE  /\ streamOf' \in [Devices -> Nat] /\ acked' = acked \ {d}
         /\ \A e \in Devices : streamOf'[e] = IF e = d THEN 0 ELSE streamOf[e]
         /\ endings' \subseteq Ids \X Nat
         /\ \A e \in endings' \ endings : wire # "polling" /\ e = <<IdOf(d, streamOf[d]), streamOf[d]>>
<1>1. /\ streamOf \in [Devices -> Nat] /\ streamOf[d] \in {0, opened[d]} /\ opened[d] \in Nat
      /\ opened[d] + connLeft["opens"] <= MaxOpens /\ connLeft["opens"] \in Nat /\ MaxOpens \in Nat
      /\ endings \subseteq Ids \X Nat
  BY BoundIs DEF ConnShape, ConnTypeOK, ConnBounds
<1>2. streamOf[d] \in 0..MaxOpens /\ 0 \in 0..MaxOpens
  BY <1>1
<1>3. IdOf(d, streamOf[d]) \in Ids
  BY <1>2 DEF IdOf, Ids
<1>4. endings' \subseteq Ids \X Nat
      /\ \A e \in endings' \ endings : wire # "polling" /\ e = <<IdOf(d, streamOf[d]), streamOf[d]>>
  BY <1>1, <1>3 DEF Closed
<1>5. streamOf' \in [Devices -> Nat]
      /\ \A e \in Devices : streamOf'[e] = IF e = d THEN 0 ELSE streamOf[e]
  BY <1>1 DEF Closed
<1> QED BY <1>4, <1>5 DEF Closed

\* Connections that break, are reaped, receive or end keep the types.
LEMMA StreamsTyped ==
  ASSUME TypedAll, NEW d \in Devices,
         Break(d) \/ Reap(d) \/ Receive(d) \/ \E e \in endings : Ended(e[1], e[2])
  PROVE  TypedAll'
<1>1. ConnTypeOK /\ ConnShape
  BY TypesTogether DEF TypedAll
<1> USE DEF connDeviceVars, wireSideVars, sessVars, queueVars
<1>2. ASSUME Break(d) PROVE TypedAll'
  BY <1>2, <1>1, ClosedIs, DevicesTypedMore, IdsStay, SessionsTypedSame, QueuesTypedSame
     DEF Break, ConnBounds, TypedAll, DevicesTyped, WiresTyped
<1>3. ASSUME Reap(d) PROVE TypedAll'
  <2> DEFINE id == <<d, 0>>
  <2>1. /\ registered' = Without(registered, id) /\ Forgotten(id) /\ Use("reaps") /\ "reaps" \in ConnBounds
        /\ UNCHANGED <<wire, connDeviceVars, mail, announcedIds, endings, births, chains, drains, overtaken>>
    BY <1>3 DEF Reap, ConnBounds
  <2> HIDE DEF id
  <2>2. DevicesTyped'
    BY <2>1, DevicesTypedMore DEF TypedAll, DevicesTyped
  <2>3. WiresTyped'
    BY <2>1, IdsStay DEF TypedAll, WiresTyped, Without
  <2>4. SessionsTyped' /\ QueuesTyped'
    BY <2>1, IdsStay, <1>1, ForgottenIs DEF ConnQueues, TypedAll, SessionsTyped, QueuesTyped
  <2> QED BY <2>1, <2>2, <2>3, <2>4 DEF TypedAll
<1>4. ASSUME NEW e \in endings, Ended(e[1], e[2]) PROVE TypedAll'
  <2>1. /\ registered' = Without(registered, e[1]) /\ Forgotten(e[1]) /\ endings' \subseteq endings
        /\ UNCHANGED <<wire, connDeviceVars, mail, births, chains, drains, overtaken, connLeft>>
    BY <1>4 DEF Ended
  <2>2. DevicesTyped'
    BY <2>1, DevicesTypedSame DEF TypedAll
  <2>3. WiresTyped'
    BY <2>1, IdsStay DEF TypedAll, WiresTyped, Without
  <2>4. SessionsTyped' /\ QueuesTyped'
    BY <2>1, IdsStay, <1>1, ForgottenIs DEF ConnQueues, TypedAll, SessionsTyped, QueuesTyped
  <2> QED BY <2>1, <2>2, <2>3, <2>4 DEF TypedAll
<1>5. ASSUME Receive(d) PROVE TypedAll'
  <2> DEFINE f == Head(mail[d])
  <2>1. /\ mail[d] # <<>> /\ mail' = [mail EXCEPT ![d] = Tail(@)]
        /\ UNCHANGED <<wire, opened, greeted, registered, announcedIds, sessVars, queueVars, overtaken,
                       connLeft>>
        /\ \/ UNCHANGED <<streamOf, acked, endings>>
           \/ acked' = acked \cup {d} /\ UNCHANGED <<streamOf, endings>>
           \/ Closed(d)
    BY <1>5 DEF Receive
  <2>2. mail' \in [Devices -> Seq(ConnMail)]
    BY <1>1, <2>1, ReceivedIs
  <2>3. /\ streamOf' \in [Devices -> Nat] /\ acked' \subseteq Devices
        /\ \A e \in Devices : streamOf'[e] \in {0, streamOf[e]}
        /\ endings' \subseteq Ids \X Nat
    <3>1. CASE Closed(d)
      BY <1>1, <2>1, <3>1, ClosedIs DEF TypedAll, DevicesTyped
    <3>2. CASE UNCHANGED <<streamOf, endings>> /\ acked' \subseteq acked \cup {d}
      BY <3>2 DEF TypedAll, DevicesTyped, WiresTyped
    <3> QED BY <2>1, <3>1, <3>2
  <2>4. DevicesTyped'
    BY <2>1, <2>3, DevicesTypedMore DEF TypedAll
  <2>5. WiresTyped'
    BY <2>1, <2>2, <2>3, IdsStay DEF TypedAll, WiresTyped
  <2>6. SessionsTyped' /\ QueuesTyped'
    BY <2>1, SessionsTypedSame, QueuesTypedSame DEF TypedAll
  <2> QED BY <2>1, <2>4, <2>5, <2>6 DEF TypedAll
<1> QED BY <1>2, <1>3, <1>4, <1>5

\* Opening a connection gives it the next number of its device.
LEMMA OpenTyped ==
  ASSUME TypedAll, NEW d \in Devices, Open(d)
  PROVE  TypedAll' /\ IdOf(d, opened[d] + 1) \in Ids /\ opened'[d] = opened[d] + 1
<1> DEFINE n  == opened[d] + 1
           id == IdOf(d, n)
<1>1. ConnTypeOK /\ ConnShape
  BY TypesTogether DEF TypedAll
<1>2. /\ (opened[d] > 0 => Use("opens")) /\ (opened[d] = 0 => UNCHANGED connLeft)
      /\ streamOf' = [streamOf EXCEPT ![d] = n] /\ opened' = [opened EXCEPT ![d] = n]
      /\ acked' = acked \ {d} /\ registered' = With(registered, id, n)
      /\ (UNCHANGED <<session, births>> \/ Connected(id))
      /\ UNCHANGED <<wire, mail, endings, bucket, queueVars>>
  BY DEF Open
<1>3. /\ opened \in [Devices -> Nat] /\ streamOf \in [Devices -> Nat] /\ MaxOpens \in Nat
      /\ connLeft \in [ConnBounds -> Nat] /\ connLeft["opens"] \in Nat /\ connLeft["opens"] < MaxOpens
      /\ \A e \in Devices : streamOf[e] \in {0, opened[e]} /\ opened[e] + connLeft["opens"] <= MaxOpens
      /\ "opens" \in ConnBounds
  BY BoundIs DEF TypedAll, DevicesTyped, ConnBounds
<1>4. /\ connLeft' \in [ConnBounds -> Nat] /\ connLeft'["opens"] < MaxOpens
      /\ \A e \in Devices : (IF e = d THEN n ELSE opened[e]) + connLeft'["opens"] <= MaxOpens
  <2>1. CASE opened[d] = 0
    BY <1>2, <1>3, <2>1
  <2>2. CASE opened[d] # 0
    BY <1>2, <1>3, <2>2, UseIs DEF TypedAll
  <2> QED BY <2>1, <2>2
<1>5. n \in 0..MaxOpens /\ 0 \in 0..MaxOpens /\ n \in Nat
  BY <1>3, <1>4 DEF ConnBounds
<1>6. id \in Ids
  BY <1>5 DEF IdOf, Ids
<1> HIDE DEF id, n
<1>7. DevicesTyped'
  BY <1>2, IdsStay, <1>3, <1>5, <1>4 DEF TypedAll, DevicesTyped
<1>8. WiresTyped'
  BY <1>2, <1>5, <1>6, IdsStay DEF TypedAll, WiresTyped, With
<1>9. SessionsTyped'
  <2>1. CASE UNCHANGED <<session, births>>
    BY <1>2, <2>1, SessionsTypedSame DEF TypedAll
  <2>2. CASE Connected(id)
    BY <1>1, <1>2, <1>6, <2>2, ConnectedIs, IdsStay DEF TypedAll, SessionsTyped
  <2> QED BY <1>2, <2>1, <2>2
<1>10. QueuesTyped'
  BY <1>2, QueuesTypedSame DEF TypedAll, queueVars
<1>11. opened'[d] = n
  BY <1>2, <1>3
<1>12. TypedAll'
  BY <1>2, <1>7, <1>8, <1>9, <1>10 DEF TypedAll
<1> QED BY <1>6, <1>11, <1>12 DEF id, n

\* Sending a frame keeps the types: the queue was below its depth.
LEMMA SayTyped ==
  ASSUME TypedAll, QueuesCounted, NEW d \in Devices, NEW m \in ConnFrames, Say(d, m)
  PROVE  TypedAll' /\ IdOf(d, streamOf[d]) \in Ids
<1>1. ConnTypeOK /\ ConnShape
  BY TypesTogether DEF TypedAll
<1>2. /\ streamOf[d] # 0 /\ Use("frames") /\ Enqueue(IdOf(d, streamOf[d]), m)
      /\ UNCHANGED <<wire, streamOf, opened, acked, wireSideVars, endings, sessVars, overtaken>>
      /\ "frames" \in ConnBounds
  BY DEF Say, ConnBounds
<1>3. streamOf[d] \in 0..MaxOpens /\ 0 \in 0..MaxOpens
  BY BoundIs DEF TypedAll, DevicesTyped, ConnBounds
<1>4. IdOf(d, streamOf[d]) \in Ids
  BY <1>3 DEF IdOf, Ids
<1> DEFINE id == IdOf(d, streamOf[d])
<1> HIDE DEF id
<1>5. DevicesTyped'
  BY <1>2, DevicesTypedMore DEF TypedAll, DevicesTyped
<1>6. WiresTyped' /\ SessionsTyped'
  BY <1>2, WiresTypedSame, SessionsTypedSame DEF TypedAll, wireSideVars, sessVars
<1>7. /\ depth' \in [Ids -> Int] /\ \A x \in Ids : depth'[x] <= MaxDepth
      /\ \/ UNCHANGED <<chains, current>>
         \/ \E n \in Nat \ {0} : Queued(id, n)
  BY <1>1, <1>2, <1>4, EnqueueIs DEF id
<1>8. ConnQueues' = ConnQueues /\ Ids' = Ids
  BY <1>2, IdsStay DEF ConnQueues
<1>9. CASE UNCHANGED <<chains, current>>
  BY <1>2, <1>4, <1>5, <1>6, <1>7, <1>8, <1>9 DEF TypedAll, QueuesTyped
<1>10. ASSUME NEW n \in Nat \ {0}, Queued(id, n) PROVE QueuesTyped'
  <2>1. /\ DOMAIN chains' = DOMAIN chains \cup {<<id, n>>} /\ chains' \in [DOMAIN chains' -> ConnQueues]
        /\ current' = [current EXCEPT ![id] = n]
    BY <1>10 DEF Queued
  <2>2. IsFiniteSet(DOMAIN chains')
    BY <2>1, FS_AddElement DEF TypedAll, QueuesTyped
  <2>3. DOMAIN chains' \subseteq Ids \X (Nat \ {0})
    BY <1>4, <2>1 DEF TypedAll, QueuesTyped, id
  <2>4. current' \in [Ids -> Nat]
    BY <2>1 DEF TypedAll, QueuesTyped
  <2> QED BY <1>7, <1>8, <2>1, <2>2, <2>3, <2>4 DEF QueuesTyped
<1> QED BY <1>2, <1>4, <1>5, <1>6, <1>7, <1>9, <1>10 DEF TypedAll

\* Among naturals there is a least (induction over the naturals).
LEMMA LeastOf ==
  ASSUME NEW T \in SUBSET Nat, T # {}
  PROVE  \E x \in T : \A y \in T : x <= y
<1> DEFINE R == OpToRel(<, Nat)
<1>1. IsWellFoundedOn(R, Nat)
  BY NatLessThanWellFounded
<1>2. \A x, y \in Nat : y < x => <<y, x>> \in R
  BY DEF OpToRel
<1> HIDE DEF R
<1>3. \E x \in T : \A y \in T : ~ (<<y, x>> \in R)
  BY <1>1, WFMin
<1>4. PICK x \in T : \A y \in T : ~ (<<y, x>> \in R)
  BY <1>3
<1>5. \A y \in T : x <= y
  <2> TAKE y \in T
  <2>1. x \in Nat /\ y \in Nat
    OBVIOUS
  <2>2. ~(y < x)
    BY <1>2, <1>4, <2>1
  <2> QED BY <2>1, <2>2
<1> QED BY <1>5

\* A bucket with sessions has an oldest.
LEMMA OldestIs ==
  ASSUME ConnShape, NEW u, Sessions(u) # {}
  PROVE  /\ Oldest(u) \in Sessions(u) /\ Oldest(u) \in DOMAIN session
         /\ \A x \in Sessions(u) : session[Oldest(u)].born <= session[x].born
<1> DEFINE T == {session[x].born : x \in Sessions(u)}
<1>1. \A x \in Sessions(u) : x \in DOMAIN session /\ session[x].born \in Nat
  BY DEF ConnShape, Sessions
<1>2. T \in SUBSET Nat /\ T # {}
  BY <1>1
<1>3. PICK b \in T : \A y \in T : b <= y
  BY <1>2, LeastOf
<1>4. \E id \in Sessions(u) : \A x \in Sessions(u) : session[id].born <= session[x].born
  BY <1>3
<1> QED BY <1>1, <1>4 DEF Oldest

\* Each stage of handling a frame keeps the types (handler.ts).
LEMMA TasksTyped ==
  ASSUME TypedAll, NEW key \in DOMAIN chains,
         \/ Start(key) \/ TurnAway(key) \/ Work(key) \/ Authenticated(key) \/ Refused(key)
         \/ Evict(key) \/ Evicted(key) \/ Welcomes(key)
  PROVE  TypedAll'
<1>1. ConnTypeOK /\ ConnShape
  BY TypesTogether DEF TypedAll
<1>2. key[1] \in Ids /\ TaskSound(chains[key].task) /\ chains[key] \in ConnQueues
  BY <1>1, KeyIs, TaskIs DEF ConnQueues
<1>3. depth \in [Ids -> Int] /\ \A id \in Ids : depth[id] <= MaxDepth
  BY DEF TypedAll, QueuesTyped
<1> USE DEF connDeviceVars, wireSideVars, sessVars
<1>4. ASSUME Start(key) PROVE TypedAll'
  <2> DEFINE todo == Tail(chains[key].todo)
             doing == chains'[key].task
  <2>1. chains[key].todo \in Seq(ConnFrames) /\ chains[key].todo # <<>>
    BY <1>2, <1>4 DEF Start, ConnQueues
  <2>2. todo \in Seq(ConnFrames) /\ Head(chains[key].todo) \in ConnFrames
    BY <2>1, HeadTailProperties
  <2>3. PICK t \in ConnTasks :
          chains' = [chains EXCEPT ![key] = [chains[key] EXCEPT !.todo = todo, !.task = t]]
    <3> DEFINE m == Head(chains[key].todo)
    <3>1. m.type # "work" => m \in ConnGreets
      BY <2>2 DEF ConnFrames
    <3>2. /\ [pc |-> "gated"] \in ConnTasks /\ [pc |-> "working"] \in ConnTasks
          /\ \A g \in ConnGreets : [pc |-> "authing", m |-> g] \in ConnTasks
      BY DEF ConnTasks
    <3> DEFINE gated == m.type = "work" /\ (key[1] \notin DOMAIN session \/ session[key[1]].user = "none")
               t == IF gated THEN [pc |-> "gated"]
                    ELSE IF m.type = "work" THEN [pc |-> "working"] ELSE [pc |-> "authing", m |-> m]
    <3>3. t \in ConnTasks
      BY <3>1, <3>2
    <3>4. chains' = [chains EXCEPT ![key].todo = Tail(@), ![key].task = t]
      BY <1>4 DEF Start
    <3> HIDE DEF t
    <3>5. chains \in [DOMAIN chains -> ConnQueues]
      BY DEF TypedAll, QueuesTyped
    <3>6. chains' = [chains EXCEPT ![key] = [chains[key] EXCEPT !.todo = todo, !.task = t]]
      BY <3>4, <3>5 DEF ConnQueues
    <3> QED BY <3>3, <3>6
  <2> HIDE DEF todo
  <2>4. [chains[key] EXCEPT !.todo = todo, !.task = t] \in ConnQueues
    BY <2>2, <1>2 DEF ConnQueues
  <2>5. /\ UNCHANGED <<wire, connDeviceVars, wireSideVars, endings, sessVars, current, depth, connLeft>>
    BY <1>4 DEF Start
  <2>6. QueuesTyped'
    BY <2>5, IdsStay, <2>3, <2>4 DEF ConnQueues, TypedAll, QueuesTyped
  <2> QED BY <2>5, <2>6, DevicesTypedSame, WiresTypedSame, SessionsTypedSame DEF TypedAll
<1>5. ASSUME TurnAway(key) \/ Work(key) PROVE TypedAll'
  <2>1. /\ Finished(key)
        /\ Dismissed(key[1]) \/ UNCHANGED <<mail, registered, endings>>
        /\ UNCHANGED <<wire, connDeviceVars, sessVars, current, connLeft>>
    <3>1. CASE TurnAway(key)
      BY <3>1 DEF TurnAway
    <3>2. CASE Work(key)
      BY <3>2 DEF Work
    <3> QED BY <1>5, <3>1, <3>2
  <2>2. QueuesTyped'
    BY <1>1, <2>1, FinishedIs, QueuesTypedTouched DEF TypedAll
  <2>3. WiresTyped'
    <3>1. CASE Dismissed(key[1])
      BY <1>1, <2>1, <3>1, DismissedIs, IdsStay DEF TypedAll, WiresTyped
    <3> QED BY <2>1, <3>1, WiresTypedSame DEF TypedAll
  <2> QED BY <2>1, <2>2, <2>3, DevicesTypedSame, SessionsTypedSame DEF TypedAll
<1>6. ASSUME Authenticated(key) PROVE TypedAll'
  <2>1. /\ chains[key].task.pc = "authing" /\ SetAuth(key[1], chains[key].task.m.user)
        /\ Stage(key, [pc |-> "enforce", m |-> chains[key].task.m])
        /\ UNCHANGED <<wire, connDeviceVars, wireSideVars, endings, births, current, depth, connLeft>>
    BY <1>6 DEF Authenticated
  <2>2. chains[key].task.m.user \in Accounts /\ [pc |-> "enforce", m |-> chains[key].task.m] \in ConnTasks
    BY <1>2, <2>1 DEF TaskSound
  <2>3. SessionsTyped'
    BY <1>1, <1>2, <2>1, <2>2, SetAuthIs, IdsStay DEF TypedAll, SessionsTyped
  <2>4. QueuesTyped'
    BY <1>1, <1>3, <2>1, <2>2, StageIs, QueuesTypedTouched DEF TypedAll
  <2> QED BY <2>1, <2>3, <2>4, DevicesTypedSame, WiresTypedSame DEF TypedAll
<1>7. ASSUME Refused(key) PROVE TypedAll'
  <2>1. /\ Use("refusals") /\ "refusals" \in ConnBounds /\ Finished(key)
        /\ (mail' = Sent(key[1], "bye") /\ UNCHANGED <<registered, endings>>) \/ Dismissed(key[1])
        /\ UNCHANGED <<wire, connDeviceVars, sessVars, current>>
    BY <1>7 DEF Refused, ConnBounds
  <2>2. QueuesTyped'
    BY <1>1, <2>1, FinishedIs, QueuesTypedTouched DEF TypedAll
  <2>3. WiresTyped'
    <3>1. CASE Dismissed(key[1])
      BY <1>1, <2>1, <3>1, DismissedIs, IdsStay DEF TypedAll, WiresTyped
    <3>2. CASE mail' = Sent(key[1], "bye") /\ UNCHANGED <<registered, endings>>
      BY <1>1, <1>2, <2>1, <3>2, SentIs, IdsStay DEF ConnTypeOK, TypedAll, WiresTyped
    <3> QED BY <2>1, <3>1, <3>2
  <2>4. DevicesTyped'
    BY <2>1, DevicesTypedMore DEF TypedAll, DevicesTyped
  <2> QED BY <2>1, <2>2, <2>3, <2>4, SessionsTypedSame DEF TypedAll
<1>8. ASSUME Evict(key) PROVE TypedAll'
  <2> DEFINE u == chains[key].task.m.user
             t == [pc |-> "evict", m |-> chains[key].task.m, who |-> Oldest(u)]
  <2>1. /\ chains[key].task.pc = "enforce" /\ Sessions(u) # {} /\ Stage(key, t)
        /\ UNCHANGED <<wire, connDeviceVars, wireSideVars, endings, sessVars, current, depth, connLeft>>
    BY <1>8 DEF Evict, OverCap
  <2>2. Oldest(u) \in Ids
    BY <1>1, <2>1, OldestIs DEF TypedAll, SessionsTyped
  <2>3. t \in ConnTasks
    BY <1>2, <2>1, <2>2 DEF TaskSound
  <2> HIDE DEF t
  <2>4. QueuesTyped'
    BY <1>1, <1>3, <2>1, <2>3, StageIs, QueuesTypedTouched DEF TypedAll
  <2> QED BY <2>1, <2>4, DevicesTypedSame, WiresTypedSame, SessionsTypedSame DEF TypedAll
<1>9. ASSUME Evicted(key) PROVE TypedAll'
  <2> DEFINE who == chains[key].task.who
             t == [pc |-> "enforce", m |-> chains[key].task.m]
  <2>1. /\ chains[key].task.pc = "evict" /\ Dismissed(who) /\ Forgotten(who) /\ Stage(key, t)
        /\ UNCHANGED <<wire, connDeviceVars, births, connLeft>>
    BY <1>9 DEF Evicted
  <2>2. t \in ConnTasks
    BY <1>2, <2>1 DEF TaskSound
  <2> HIDE DEF t
  <2>3. Touched(key, t, chains[key].todo)
    BY <1>1, <2>1, <2>2, StageIs
  <2>4. QueuesTyped'
    BY <2>1, IdsStay, <1>1, <2>3, ForgottenIs DEF ConnQueues, TypedAll, QueuesTyped, Touched
  <2>5. WiresTyped'
    BY <1>1, <2>1, DismissedIs, IdsStay DEF TypedAll, WiresTyped
  <2>6. SessionsTyped'
    BY <1>1, <2>1, ForgottenIs, IdsStay DEF TypedAll, SessionsTyped
  <2> QED BY <2>1, <2>4, <2>5, <2>6, DevicesTypedSame DEF TypedAll
<1>10. ASSUME Welcomes(key) PROVE TypedAll'
  <2>1. /\ Finished(key)
        /\ session' = session \/ (key[1] \in DOMAIN session /\ session' = [session EXCEPT ![key[1]].spared = TRUE])
        /\ mail' = Sent(key[1], "ack") \/ mail' = mail
        /\ UNCHANGED <<wire, connDeviceVars, registered, endings, births, bucket, current, connLeft>>
    BY <1>10 DEF Welcomes
  <2>2. QueuesTyped'
    BY <1>1, <2>1, FinishedIs, QueuesTypedTouched DEF TypedAll
  <2>3. WiresTyped'
    <3>1. CASE mail' = Sent(key[1], "ack")
      BY <1>1, <1>2, <2>1, <3>1, SentIs, IdsStay DEF ConnTypeOK, TypedAll, WiresTyped
    <3> QED BY <2>1, <3>1, WiresTypedSame DEF TypedAll
  <2>4. SessionsTyped'
    <3>1. session' \in [DOMAIN session -> ConnSessions] /\ DOMAIN session' = DOMAIN session
      BY <2>1 DEF TypedAll, SessionsTyped, ConnSessions
    <3> QED BY <2>1, <3>1, IdsStay DEF TypedAll, SessionsTyped
  <2> QED BY <2>1, <2>2, <2>3, <2>4, DevicesTypedSame DEF TypedAll
<1> QED BY <1>4, <1>5, <1>6, <1>7, <1>8, <1>9, <1>10

\* The end of a disconnect keeps the types.
LEMMA DrainedTyped == ASSUME TypedAll, NEW r \in drains, Drained(r) PROVE TypedAll'
<1>1. ConnTypeOK /\ ConnShape
  BY TypesTogether DEF TypedAll
<1>2. /\ Dismissed(r.id) /\ Forgotten(r.id) /\ UNCHANGED <<wire, connDeviceVars, births, chains, connLeft>>
  BY DEF Drained
<1>3. ConnQueues' = ConnQueues /\ Ids' = Ids
  BY <1>2, IdsStay DEF ConnQueues
<1>4. QueuesTyped' /\ SessionsTyped'
  BY <1>1, <1>2, <1>3, ForgottenIs DEF TypedAll, QueuesTyped, SessionsTyped
<1>5. WiresTyped'
  BY <1>1, <1>2, <1>3, DismissedIs DEF TypedAll, WiresTyped
<1> QED BY <1>2, <1>4, <1>5, DevicesTypedSame DEF TypedAll, connDeviceVars

-----------------------------------------------------------------------------
(* Nothing is about a connection that is yet to be opened.                 *)

\* A step that opens no connection, as far as it goes here: on the lines, and beside them.
LinesAhead ==
  /\ \A id \in DOMAIN registered' : id \in DOMAIN registered /\ registered'[id] = registered[id]
  /\ \A e \in endings' : e \in endings \/ (Gone(e[1]) /\ (wire = "ws" => e[2] = e[1][2]))
  /\ \A d \in Devices : \A f : Underway(d, f)' => Underway(d, f) \/ f.on \in 1..opened[d]

NoneOpened ==
  /\ UNCHANGED <<wire, opened>> /\ LinesAhead
  /\ DOMAIN session' \subseteq DOMAIN session
  /\ \A key \in DOMAIN chains' : key \in DOMAIN chains \/ Gone(key[1])

\* Where no connection is opened, none is ahead of its device.
LEMMA AheadKeeps == ASSUME NothingAhead, NoneOpened PROVE NothingAhead'
<1>1. \A id : Gone(id)' <=> Gone(id)
  BY DEF NoneOpened, LinesAhead, Gone
<1>2. ASSUME NEW d \in Devices, NEW k \in DOMAIN mail'[d] PROVE mail'[d][k].on \in 1..opened'[d]
  <2>1. PICK f : f = mail'[d][k]
    OBVIOUS
  <2>2. Underway(d, f)'
    BY <1>2, <2>1 DEF Underway
  <2>3. Underway(d, f) \/ f.on \in 1..opened[d]
    BY <2>2 DEF NoneOpened, LinesAhead
  <2> QED BY <2>1, <2>3 DEF NoneOpened, LinesAhead, NothingAhead, Underway
<1>3. \A id \in DOMAIN registered' :
        Gone(id)' /\ registered'[id] \in 1..opened'[id[1]] /\ (wire' = "ws" => registered'[id] = id[2])
  BY <1>1 DEF NoneOpened, LinesAhead, NothingAhead
<1>4. (\A id \in DOMAIN session' : Gone(id)') /\ \A key \in DOMAIN chains' : Gone(key[1])'
  BY <1>1 DEF NoneOpened, LinesAhead, NothingAhead
<1>5. \A e \in endings' : Gone(e[1])' /\ (wire' = "ws" => e[2] = e[1][2])
  BY <1>1 DEF NoneOpened, LinesAhead, NothingAhead
<1> QED BY <1>2, <1>3, <1>4, <1>5 DEF NothingAhead

\* With the mail untouched, the same frames are under way.
LEMMA CarriedSame == ASSUME UNCHANGED mail PROVE \A d : \A f : Underway(d, f)' <=> Underway(d, f)
  BY DEF Underway

\* The id of a device's connection has gone by.
LEMMA StreamGone ==
  ASSUME TypedAll, NEW d \in Devices, streamOf[d] # 0
  PROVE  /\ Gone(IdOf(d, streamOf[d])) /\ streamOf[d] = opened[d] /\ opened[d] \in Nat \ {0}
         /\ wire = "ws" => IdOf(d, streamOf[d])[2] = streamOf[d]
  BY DEF TypedAll, DevicesTyped, Gone, IdOf

\* Closing a connection announces the end of that one only.
LEMMA ClosedAhead ==
  ASSUME TypedAll, NEW d \in Devices, streamOf[d] # 0, Closed(d), UNCHANGED <<wire, opened>>
  PROVE  \A e \in endings' : e \in endings \/ (Gone(e[1]) /\ (wire = "ws" => e[2] = e[1][2]))
<1>1. \A e \in endings' \ endings : wire # "polling" /\ e = <<IdOf(d, streamOf[d]), streamOf[d]>>
  BY ClosedIs, TypesTogether DEF TypedAll
<1> QED BY <1>1, StreamGone

\* So does dismissing a client.
LEMMA DismissedAhead ==
  ASSUME TypedAll, NothingAhead, NEW id, Dismissed(id)
  PROVE  /\ \A x \in DOMAIN registered' : x \in DOMAIN registered /\ registered'[x] = registered[x]
         /\ \A e \in endings' : e \in endings \/ (Gone(e[1]) /\ (wire = "ws" => e[2] = e[1][2]))
         /\ \A d \in Devices : \A f : Underway(d, f)' => Underway(d, f) \/ f.on \in 1..opened[d]
<1>1. ConnTypeOK /\ ConnShape
  BY TypesTogether DEF TypedAll
<1>2. \A x \in DOMAIN registered' : x \in DOMAIN registered /\ registered'[x] = registered[x]
  BY <1>1, DismissedIs
<1>3. \A e \in endings' \ endings : id \in DOMAIN registered /\ wire = "ws" /\ e = <<id, registered[id]>>
  BY <1>1, DismissedIs
<1>4. \A e \in endings' : e \in endings \/ (Gone(e[1]) /\ (wire = "ws" => e[2] = e[1][2]))
  BY <1>3 DEF NothingAhead
<1>5. ASSUME NEW d \in Devices, NEW f, Underway(d, f)', ~Underway(d, f) PROVE f.on \in 1..opened[d]
  <2>1. id \in DOMAIN registered /\ d = id[1] /\ f = [on |-> registered[id], kind |-> "bye"]
    BY <1>1, <1>5, DismissedIs
  <2> QED BY <2>1 DEF NothingAhead
<1> QED BY <1>2, <1>4, <1>5

\* A frame the server sends is for a connection that was opened.
LEMMA SentAhead ==
  ASSUME TypedAll, NothingAhead, NEW id \in Ids, NEW kind \in {"ack", "bye"}, mail' = Sent(id, kind)
  PROVE  \A d \in Devices : \A f : Underway(d, f)' => Underway(d, f) \/ f.on \in 1..opened[d]
<1>1. ConnTypeOK /\ ConnShape /\ DOMAIN registered \subseteq Ids
  BY TypesTogether DEF TypedAll, WiresTyped
<1>2. ASSUME NEW d \in Devices, NEW f, Underway(d, f)', ~Underway(d, f) PROVE f.on \in 1..opened[d]
  BY <1>1, <1>2, SentIs DEF NothingAhead
<1> QED BY <1>2

\* A connection that breaks, is reaped, receives or ends opens no other.
LEMMA StreamsAhead ==
  ASSUME TypedAll, NothingAhead, NEW d \in Devices,
         Break(d) \/ Reap(d) \/ Receive(d) \/ \E e \in endings : Ended(e[1], e[2])
  PROVE  NoneOpened
<1>1. ConnTypeOK /\ ConnShape
  BY TypesTogether DEF TypedAll
<1> USE DEF connDeviceVars, wireSideVars, sessVars, queueVars
<1>2. ASSUME Break(d) PROVE NoneOpened
  BY <1>2, ClosedAhead, CarriedSame DEF Break, NoneOpened, LinesAhead
<1>3. ASSUME Reap(d) PROVE NoneOpened
  <2> DEFINE id == <<d, 0>>
  <2>1. /\ registered' = Without(registered, id) /\ Forgotten(id)
        /\ UNCHANGED <<wire, connDeviceVars, mail, endings, chains>>
    BY <1>3 DEF Reap
  <2> HIDE DEF id
  <2> QED BY <1>1, <2>1, CarriedSame, ForgottenIs DEF NoneOpened, LinesAhead, Without
<1>4. ASSUME NEW e \in endings, Ended(e[1], e[2]) PROVE NoneOpened
  BY <1>4, <1>1, CarriedSame, ForgottenIs DEF Ended, NoneOpened, LinesAhead, Without
<1>5. ASSUME Receive(d) PROVE NoneOpened
  <2> DEFINE f == Head(mail[d])
  <2>1. /\ mail[d] # <<>> /\ mail' = [mail EXCEPT ![d] = Tail(@)]
        /\ UNCHANGED <<wire, opened, registered, sessVars, queueVars>>
        /\ \/ UNCHANGED endings
           \/ f.on = streamOf[d] /\ Closed(d)
    BY <1>5 DEF Receive
  <2>2. /\ \A e \in Devices : \A g : Underway(e, g)' => Underway(e, g)
        /\ Underway(d, f)
    BY <1>1, <2>1, ReceivedIs
  <2>3. f.on \in 1..opened[d]
    BY <2>2 DEF NothingAhead, Underway
  <2>4. \A e \in endings' : e \in endings \/ (Gone(e[1]) /\ (wire = "ws" => e[2] = e[1][2]))
    <3>1. CASE f.on = streamOf[d] /\ Closed(d)
      <4>1. streamOf[d] # 0
        BY <2>3, <3>1 DEF TypedAll, DevicesTyped
      <4> QED BY <2>1, <3>1, <4>1, ClosedAhead
    <3> QED BY <2>1, <3>1
  <2> QED BY <2>1, <2>2, <2>4 DEF NoneOpened, LinesAhead
<1> QED BY <1>2, <1>3, <1>4, <1>5

\* Nor does a frame that is sent.
LEMMA SayAhead ==
  ASSUME TypedAll, QueuesCounted, NothingAhead, NEW d \in Devices, NEW m \in ConnFrames, Say(d, m)
  PROVE  NoneOpened
<1>1. ConnTypeOK /\ ConnShape
  BY TypesTogether DEF TypedAll
<1>2. /\ streamOf[d] # 0 /\ Enqueue(IdOf(d, streamOf[d]), m)
      /\ UNCHANGED <<wire, opened, mail, registered, endings, session>>
  BY DEF Say, wireSideVars, sessVars
<1>3. IdOf(d, streamOf[d]) \in Ids /\ Gone(IdOf(d, streamOf[d]))
  BY <1>2, SayTyped, StreamGone
<1>4. \A key \in DOMAIN chains' : key \in DOMAIN chains \/ Gone(key[1])
  <2> DEFINE id == IdOf(d, streamOf[d])
  <2>1. id \in Ids /\ Gone(id) /\ Enqueue(id, m)
    BY <1>2, <1>3
  <2> HIDE DEF id
  <2>2. UNCHANGED chains \/ \E n \in Nat \ {0} : Queued(id, n)
    BY <1>1, <2>1, EnqueueIs
  <2>3. ASSUME NEW n \in Nat \ {0}, Queued(id, n), NEW key \in DOMAIN chains'
        PROVE  key \in DOMAIN chains \/ Gone(key[1])
    BY <2>1, <2>3 DEF Queued
  <2> QED BY <2>2, <2>3
<1> QED BY <1>2, <1>4, CarriedSame DEF NoneOpened, LinesAhead

\* Nor does the handling of one.
LEMMA TasksAhead ==
  ASSUME TypedAll, NothingAhead, NEW key \in DOMAIN chains,
         \/ Start(key) \/ TurnAway(key) \/ Work(key) \/ Authenticated(key) \/ Refused(key)
         \/ Evict(key) \/ Evicted(key) \/ Welcomes(key)
  PROVE  NoneOpened /\ DOMAIN chains' = DOMAIN chains
<1>1. ConnTypeOK /\ ConnShape
  BY TypesTogether DEF TypedAll
<1>2. key[1] \in Ids
  BY <1>1, KeyIs
<1>3. UNCHANGED <<wire, opened>>
  BY DEF Start, TurnAway, Work, Authenticated, Refused, Evict, Evicted, Welcomes, connDeviceVars
<1>4. DOMAIN chains' = DOMAIN chains
  BY DEF Start, TurnAway, Work, Authenticated, Refused, Evict, Evicted, Welcomes, Stage, Finished
<1>5. DOMAIN session' \subseteq DOMAIN session
  <2>1. CASE Authenticated(key)
    BY <2>1 DEF Authenticated, SetAuth
  <2>2. CASE Evicted(key)
    BY <2>2 DEF Evicted, Forgotten, Without
  <2>3. CASE Welcomes(key)
    BY <2>3 DEF Welcomes
  <2> QED BY <2>1, <2>2, <2>3 DEF Start, TurnAway, Work, Refused, Evict, sessVars
<1>6. LinesAhead
  <2>1. ASSUME NEW id, Dismissed(id) PROVE LinesAhead
    BY <2>1, DismissedAhead DEF LinesAhead
  <2>2. ASSUME NEW kind \in {"ack", "bye"}, mail' = Sent(key[1], kind), UNCHANGED <<registered, endings>>
        PROVE  LinesAhead
    BY <1>2, <2>2, SentAhead DEF LinesAhead
  <2>3. ASSUME UNCHANGED <<mail, registered, endings>> PROVE LinesAhead
    BY <2>3, CarriedSame DEF LinesAhead
  <2>4. CASE Start(key) \/ Work(key) \/ Authenticated(key) \/ Evict(key)
    BY <2>3, <2>4 DEF Start, Work, Authenticated, Evict, wireSideVars
  <2>5. CASE TurnAway(key) \/ Evicted(key)
    BY <2>1, <2>5 DEF TurnAway, Evicted
  <2>6. CASE Refused(key)
    BY <2>1, <2>2, <2>6 DEF Refused
  <2>7. CASE Welcomes(key)
    BY <2>2, <2>3, <2>7 DEF Welcomes
  <2> QED BY <2>4, <2>5, <2>6, <2>7
<1> QED BY <1>3, <1>4, <1>5, <1>6 DEF NoneOpened, LinesAhead

\* Nor does the end of a disconnect.
LEMMA DrainedAhead == ASSUME TypedAll, NothingAhead, NEW r \in drains, Drained(r) PROVE NoneOpened
<1>1. ConnTypeOK /\ ConnShape
  BY TypesTogether DEF TypedAll
<1>2. /\ Dismissed(r.id) /\ Forgotten(r.id) /\ UNCHANGED <<wire, connDeviceVars, births, chains, connLeft>>
  BY DEF Drained
<1>3. DOMAIN session' \subseteq DOMAIN session
  BY <1>1, <1>2, ForgottenIs
<1> QED BY <1>1, <1>2, <1>3, DismissedAhead DEF NoneOpened, LinesAhead, connDeviceVars

\* A connection that is opened is the last its device has opened.
LEMMA OpenAhead == ASSUME TypedAll, NothingAhead, NEW d \in Devices, Open(d) PROVE NothingAhead'
<1>0. PICK n, id : n = opened[d] + 1 /\ id = IdOf(d, n)
  OBVIOUS
<1>1. ConnTypeOK /\ ConnShape
  BY TypesTogether DEF TypedAll
<1>2. /\ opened' = [opened EXCEPT ![d] = n] /\ registered' = With(registered, id, n)
      /\ (UNCHANGED <<session, births>> \/ Connected(id))
      /\ UNCHANGED <<wire, mail, endings, chains>>
  BY <1>0 DEF Open, queueVars
<1>3. /\ opened \in [Devices -> Nat] /\ \A e \in Devices : opened'[e] = IF e = d THEN n ELSE opened[e]
  BY <1>2 DEF TypedAll, DevicesTyped
<1>4. id \in Ids /\ id[1] = d /\ (wire = "ws" => id[2] = n) /\ (wire # "ws" => id[2] = 0)
  BY <1>0, OpenTyped DEF IdOf
<1>5. n \in 1..n /\ \A k \in 1..opened[d] : k \in 1..n
  BY <1>0, <1>3
<1>6. \A e \in Devices : \A k \in 1..opened[e] : k \in 1..opened'[e]
  BY <1>3, <1>5
<1>7. \A x \in Ids : Gone(x) => Gone(x)'
  <2> TAKE x \in Ids
  <2>1. x[1] \in Devices
    BY IdIs
  <2> QED BY <1>2, <1>6, <2>1 DEF Gone
<1>8. Gone(id)'
  BY <1>2, <1>3, <1>4, <1>5 DEF Gone
<1>9. /\ DOMAIN registered \subseteq Ids /\ DOMAIN session \subseteq Ids /\ DOMAIN chains \subseteq Ids \X (Nat \ {0})
      /\ endings \subseteq Ids \X Nat
  BY DEF TypedAll, WiresTyped, SessionsTyped, QueuesTyped
<1>10. ASSUME NEW x \in DOMAIN registered'
       PROVE  Gone(x)' /\ registered'[x] \in 1..opened'[x[1]] /\ (wire' = "ws" => registered'[x] = x[2])
  <2>1. DOMAIN registered' = DOMAIN registered \cup {id} /\ registered'[id] = n
        /\ \A y \in DOMAIN registered : y # id => registered'[y] = registered[y]
    BY <1>2 DEF With
  <2>2. CASE x = id
    BY <1>2, <1>3, <1>4, <1>5, <1>8, <2>1, <2>2
  <2>3. CASE x # id
    BY <1>9, <2>1, <2>3, IdIs, <1>2, <1>6, <1>7 DEF NothingAhead
  <2> QED BY <2>2, <2>3
<1>11. \A x \in DOMAIN session' : Gone(x)'
  BY <1>1, <1>2, <1>4, ConnectedIs, <1>7, <1>8, <1>9 DEF NothingAhead
<1>12. \A key \in DOMAIN chains' : Gone(key[1])'
  BY <1>2, <1>7, <1>9 DEF NothingAhead
<1>13. \A e \in endings' : Gone(e[1])' /\ (wire' = "ws" => e[2] = e[1][2])
  BY <1>2, <1>7, <1>9 DEF NothingAhead
<1>14. \A e \in Devices : \A k \in DOMAIN mail'[e] : mail'[e][k].on \in 1..opened'[e]
  BY <1>2, <1>6 DEF NothingAhead
<1> QED BY <1>10, <1>11, <1>12, <1>13, <1>14 DEF NothingAhead

-----------------------------------------------------------------------------
(* The queues of an id are numbered without a gap.                         *)

\* The depth counts the frames that wait, as long as chains neither come nor go.
LEMMA CountedSame ==
  ASSUME QueuesCounted, ConnShape, current \in [Ids -> Nat], current' \in [Ids -> Nat], UNCHANGED wire,
         DOMAIN chains' = DOMAIN chains, \A id \in Ids : current'[id] \in {0, current[id]}
  PROVE  QueuesCounted'
<1>1. Ids' = Ids /\ \A id : QueuesOf(id)' = QueuesOf(id)
  BY IdsStay DEF QueuesOf
<1>2. ASSUME NEW id \in Ids PROVE current'[id] <= Cardinality(QueuesOf(id))
  BY QueuesFinite DEF QueuesCounted
<1>3. \A id \in Ids : \A n \in Nat \ {0} : <<id, n>> \in DOMAIN chains' <=> n <= Cardinality(QueuesOf(id))
  BY DEF QueuesCounted
<1> QED BY <1>1, <1>2, <1>3 DEF QueuesCounted

\* A frame that is queued is counted.
LEMMA SayCounted ==
  ASSUME TypedAll, QueuesCounted, NEW d \in Devices, NEW m \in ConnFrames, Say(d, m)
  PROVE  QueuesCounted'
<1>0. PICK id : id = IdOf(d, streamOf[d])
  OBVIOUS
<1>1. ConnTypeOK /\ ConnShape
  BY TypesTogether DEF TypedAll
<1>2. id \in Ids /\ Enqueue(id, m) /\ UNCHANGED wire
  BY <1>0, SayTyped DEF Say
<1>3. current \in [Ids -> Nat] /\ DOMAIN chains \subseteq Ids \X (Nat \ {0})
  BY DEF TypedAll, QueuesTyped
<1>4. CASE UNCHANGED <<chains, current>>
  BY <1>1, <1>2, <1>3, <1>4, CountedSame
<1>5. ASSUME NEW n \in Nat \ {0}, Queued(id, n),
             IF current[id] = 0 THEN n = Cardinality(QueuesOf(id)) + 1 /\ <<id, n>> \notin DOMAIN chains
             ELSE n = current[id] /\ <<id, n>> \in DOMAIN chains
      PROVE  QueuesCounted'
  <2>1. /\ DOMAIN chains' = DOMAIN chains \cup {<<id, n>>}
        /\ \A x \in Ids : current'[x] = IF x = id THEN n ELSE current[x]
    BY <1>3, <1>5 DEF Queued
  <2>2. CASE <<id, n>> \in DOMAIN chains
    BY <1>5, <2>1, <2>2, <1>3, <1>1, <1>2, CountedSame DEF Queued
  <2>3. CASE <<id, n>> \notin DOMAIN chains
    <3> DEFINE C == Cardinality(QueuesOf(id))
    <3>1. n = C + 1 /\ C \in Nat /\ IsFiniteSet(QueuesOf(id))
      BY <1>1, <1>5, <2>3, QueuesFinite
    <3>2. QueuesOf(id)' = QueuesOf(id) \cup {<<id, n>>} /\ <<id, n>> \notin QueuesOf(id)
          /\ \A x : x # id => QueuesOf(x)' = QueuesOf(x)
      BY <2>1, <2>3 DEF QueuesOf
    <3>3. Cardinality(QueuesOf(id)') = C + 1
      BY <3>1, <3>2, FS_AddElement
    <3> HIDE DEF C
    <3>4. Ids' = Ids
      BY <1>2, IdsStay
    <3>5. ASSUME NEW x \in Ids
          PROVE  /\ current'[x] <= Cardinality(QueuesOf(x)')
                 /\ \A k \in Nat \ {0} : <<x, k>> \in DOMAIN chains' <=> k <= Cardinality(QueuesOf(x)')
      <4>1. CASE x = id
        <5>1. \A k \in Nat \ {0} : <<id, k>> \in DOMAIN chains <=> k <= C
          BY <1>2 DEF QueuesCounted, C
        <5>2. ASSUME NEW k \in Nat \ {0} PROVE <<id, k>> \in DOMAIN chains' <=> k <= C + 1
          BY <2>1, <3>1, <5>1
        <5> QED BY <2>1, <3>1, <3>3, <4>1, <5>2
      <4>2. CASE x # id
        BY <2>1, <3>2, <4>2 DEF QueuesCounted
      <4> QED BY <4>1, <4>2
    <3> QED BY <3>4, <3>5 DEF QueuesCounted
  <2> QED BY <2>2, <2>3
<1>6. \/ UNCHANGED <<chains, current>>
      \/ \E n \in Nat \ {0} :
                 /\ Queued(id, n)
                 /\ IF current[id] = 0 THEN n = Cardinality(QueuesOf(id)) + 1 /\ <<id, n>> \notin DOMAIN chains
                    ELSE n = current[id] /\ <<id, n>> \in DOMAIN chains
  BY <1>1, <1>2, EnqueueIs
<1> QED BY <1>4, <1>5, <1>6

-----------------------------------------------------------------------------
(* One queue of an id runs.                                                *)

\* A step that gives no queue anything to do, and no session to an id.
NoneBusier ==
  /\ DOMAIN chains' = DOMAIN chains
  /\ \A key \in DOMAIN chains : (BusyQueue(key)' => BusyQueue(key)) /\ (Working(key)' => Working(key))
NothingStarts ==
  /\ UNCHANGED <<wire, overtaken>> /\ DOMAIN session' \subseteq DOMAIN session
  /\ NoneBusier
  /\ \A id \in DOMAIN session' : current'[id] = current[id]

\* Where no task starts, at most one of a connection runs.
LEMMA OneRunsStill == ASSUME OneRuns, NothingStarts PROVE OneRuns'
<1>1. Ids' = Ids /\ \A id : QueuesOf(id)' = QueuesOf(id)
  BY IdsStay DEF QueuesOf, NothingStarts, NoneBusier
<1>2. \A id : QueuesOf(id) \subseteq DOMAIN chains
  BY DEF QueuesOf
<1>3. ASSUME NEW id \in Ids \ overtaken, id \in DOMAIN session', NEW key \in QueuesOf(id), BusyQueue(key)'
      PROVE  key[2] = current'[id]
  BY <1>2, <1>3 DEF OneRuns, NothingStarts, NoneBusier
<1>4. ASSUME NEW id \in Ids \ overtaken, NEW k \in QueuesOf(id), NEW l \in QueuesOf(id),
             Working(k)', Working(l)'
      PROVE  k = l
  BY <1>2, <1>4 DEF OneRuns, NothingStarts, NoneBusier
<1>5. overtaken' = overtaken
  BY DEF NothingStarts
<1> QED BY <1>1, <1>3, <1>4, <1>5 DEF OneRuns

\* Whether a queue is busy, and at work, once it is touched.
LEMMA TouchedBusy ==
  ASSUME NEW key \in DOMAIN chains, NEW doing, NEW todo, Touched(key, doing, todo),
         doing # Idle => BusyQueue(key), doing.pc # "working", todo = chains[key].todo
  PROVE  NoneBusier
  BY DEF Touched, BusyQueue, Working, NoneBusier

\* Only the start of a task starts one.
LEMMA TasksStart ==
  ASSUME TypedAll, NEW key \in DOMAIN chains,
         \/ TurnAway(key) \/ Work(key) \/ Authenticated(key) \/ Refused(key)
         \/ Evict(key) \/ Evicted(key) \/ Welcomes(key)
  PROVE  NothingStarts /\ \A id \in Ids : current'[id] \in {0, current[id]}
<1>1. ConnTypeOK /\ ConnShape
  BY TypesTogether DEF TypedAll
<1>2. TaskSound(chains[key].task) /\ current \in [Ids -> Nat]
  BY <1>1, TaskIs DEF TypedAll, QueuesTyped
<1>3. UNCHANGED <<wire, overtaken>>
  BY DEF TurnAway, Work, Authenticated, Refused, Evict, Evicted, Welcomes
<1>4. NoneBusier
  <2>1. CASE Finished(key)
    BY <1>1, <2>1, FinishedIs, TouchedBusy DEF Idle
  <2>2. ASSUME chains[key].task.pc # "idle", NEW t \in ConnTasks, t.pc # "working", Stage(key, t)
        PROVE  NoneBusier
    BY <2>2, <1>1, StageIs, TouchedBusy DEF BusyQueue, Idle
  <2>3. CASE Authenticated(key)
    BY <2>3, <1>2, <2>2 DEF Authenticated, TaskSound
  <2>4. CASE Evict(key)
    <3> DEFINE u == chains[key].task.m.user
    <3>1. /\ chains[key].task.pc = "enforce" /\ Sessions(u) # {}
          /\ Stage(key, [pc |-> "evict", m |-> chains[key].task.m, who |-> Oldest(u)])
      BY <2>4 DEF Evict, OverCap
    <3>2. Oldest(u) \in Ids
      BY <1>1, <3>1, OldestIs DEF TypedAll, SessionsTyped
    <3> QED BY <1>2, <2>2, <3>1, <3>2 DEF TaskSound
  <2>5. CASE Evicted(key)
    BY <2>5, <1>2, <2>2 DEF Evicted, TaskSound
  <2> QED BY <2>1, <2>3, <2>4, <2>5 DEF TurnAway, Work, Refused, Welcomes
<1>5. /\ DOMAIN session' \subseteq DOMAIN session
      /\ \A id \in DOMAIN session' : current'[id] = current[id]
      /\ \A id \in Ids : current'[id] \in {0, current[id]}
  <2>1. CASE Evicted(key)
    <3> DEFINE who == chains[key].task.who
    <3>1. Forgotten(who)
      BY <2>1 DEF Evicted
    <3>2. DOMAIN session' = DOMAIN session \ {who} /\ \A x \in Ids : current'[x] = IF x = who THEN 0 ELSE current[x]
      BY <1>1, <3>1, ForgottenIs
    <3> QED BY <3>2 DEF TypedAll, SessionsTyped
  <2>2. CASE Authenticated(key)
    BY <2>2 DEF Authenticated, SetAuth
  <2>3. CASE Welcomes(key)
    BY <2>3 DEF Welcomes
  <2> QED BY <2>1, <2>2, <2>3 DEF TurnAway, Work, Refused, Evict, sessVars
<1> QED BY <1>3, <1>4, <1>5 DEF NothingStarts

\* Forgetting a session starts nothing.
LEMMA ForgottenStarts ==
  ASSUME TypedAll, NEW id, Forgotten(id), UNCHANGED <<wire, overtaken, chains>>
  PROVE  NothingStarts /\ \A x \in Ids : current'[x] \in {0, current[x]}
<1>1. DOMAIN session' = DOMAIN session \ {id} /\ \A x \in Ids : current'[x] = IF x = id THEN 0 ELSE current[x]
  BY ForgottenIs, TypesTogether DEF TypedAll
<1>2. DOMAIN session \subseteq Ids
  BY DEF TypedAll, SessionsTyped
<1> QED BY <1>1, <1>2 DEF NothingStarts, NoneBusier, BusyQueue, Working

\* Work starts in the queue of a session, so no other of its id is at it.
LEMMA StartOneRuns ==
  ASSUME TypedAll, OneRuns, NEW key \in DOMAIN chains, Start(key)
  PROVE  OneRuns' /\ DOMAIN chains' = DOMAIN chains /\ UNCHANGED <<wire, current>>
<1>1. /\ chains[key].todo # <<>> /\ DOMAIN chains' = DOMAIN chains
      /\ UNCHANGED <<wire, session, current, overtaken>>
      /\ \A k \in DOMAIN chains \ {key} : chains'[k] = chains[k]
  BY DEF Start, sessVars
<1>2. Working(key)' => key[1] \in DOMAIN session
  <2> DEFINE m == Head(chains[key].todo)
             gated == m.type = "work" /\ (key[1] \notin DOMAIN session \/ session[key[1]].user = "none")
             t == IF gated THEN [pc |-> "gated"]
                  ELSE IF m.type = "work" THEN [pc |-> "working"] ELSE [pc |-> "authing", m |-> m]
  <2>1. chains' = [chains EXCEPT ![key].todo = Tail(@), ![key].task = t]
    BY DEF Start
  <2>2. t.pc = "working" => key[1] \in DOMAIN session
    OBVIOUS
  <2> HIDE DEF t
  <2>3. chains \in [DOMAIN chains -> ConnQueues]
    BY DEF TypedAll, QueuesTyped
  <2>4. chains'[key].task = t
    BY <2>1, <2>3 DEF ConnQueues
  <2> QED BY <2>2, <2>4 DEF Working
<1>3. BusyQueue(key)
  BY <1>1 DEF BusyQueue
<1>4. Ids' = Ids /\ \A id : QueuesOf(id)' = QueuesOf(id)
  BY <1>1, IdsStay DEF QueuesOf
<1>5. \A k \in DOMAIN chains \ {key} : (BusyQueue(k)' <=> BusyQueue(k)) /\ (Working(k)' <=> Working(k))
  BY <1>1 DEF BusyQueue, Working
<1>6. \A id : QueuesOf(id) = {k \in DOMAIN chains : k[1] = id}
  BY DEF QueuesOf
<1>7. ASSUME NEW id \in Ids \ overtaken, id \in DOMAIN session, NEW k \in QueuesOf(id), BusyQueue(k)'
      PROVE  k[2] = current[id]
  BY <1>3, <1>5, <1>6, <1>7 DEF OneRuns
<1>8. \A k \in DOMAIN chains : Working(k) => BusyQueue(k)
  BY DEF Working, BusyQueue, Idle
<1>9. \A k, l \in DOMAIN chains : k[1] = l[1] /\ k[2] = l[2] => k = l
  BY KeyIs, TypesTogether DEF TypedAll
<1>10. ASSUME NEW id \in Ids \ overtaken, NEW k \in QueuesOf(id), NEW l \in QueuesOf(id),
              Working(k)', Working(l)'
       PROVE  k = l
  <2>1. CASE k # key /\ l # key
    BY <1>5, <1>6, <1>10, <2>1 DEF OneRuns
  <2>2. CASE k = key \/ l = key
    <3>1. id \in DOMAIN session
      BY <1>2, <1>6, <1>10, <2>2
    <3>2. BusyQueue(k) /\ BusyQueue(l)
      BY <1>3, <1>5, <1>6, <1>8, <1>10
    <3>3. k[2] = current[id] /\ l[2] = current[id]
      BY <3>1, <3>2 DEF OneRuns
    <3> QED BY <1>6, <1>9, <3>3
  <2> QED BY <2>1, <2>2
<1>11. OneRuns'
  BY <1>1, <1>4, <1>7, <1>10 DEF OneRuns
<1> QED BY <1>1, <1>11

\* A frame is queued where its session's frames are, or where nothing is.
LEMMA SayOneRuns ==
  ASSUME TypedAll, QueuesCounted, OneRuns, NEW d \in Devices, NEW m \in ConnFrames, Say(d, m)
  PROVE  OneRuns'
<1>0. PICK id : id = IdOf(d, streamOf[d])
  OBVIOUS
<1>1. ConnTypeOK /\ ConnShape
  BY TypesTogether DEF TypedAll
<1>2. id \in Ids /\ Enqueue(id, m) /\ UNCHANGED <<wire, session, overtaken>>
  BY <1>0, SayTyped DEF Say, sessVars
<1>3. Ids' = Ids /\ current \in [Ids -> Nat]
  BY <1>2, IdsStay DEF TypedAll, QueuesTyped
<1>4. CASE UNCHANGED <<chains, current>>
  BY <1>2, <1>4, OneRunsStill DEF NothingStarts, NoneBusier, BusyQueue, Working
<1>5. ASSUME NEW n \in Nat \ {0}, Queued(id, n),
             current[id] = 0 \/ (n = current[id] /\ <<id, n>> \in DOMAIN chains)
      PROVE  OneRuns'
  <2> DEFINE new == <<id, n>>
  <2>1. /\ DOMAIN chains' = DOMAIN chains \cup {new} /\ \A k \in DOMAIN chains \ {new} : chains'[k] = chains[k]
        /\ chains'[new].task = IF new \in DOMAIN chains THEN chains[new].task ELSE Idle
        /\ \A x \in Ids : current'[x] = IF x = id THEN n ELSE current[x]
    BY <1>3, <1>5 DEF Queued
  <2>2. /\ QueuesOf(id)' = QueuesOf(id) \cup {new} /\ \A x : x # id => QueuesOf(x)' = QueuesOf(x)
        /\ \A x : \A k \in QueuesOf(x) : k \in DOMAIN chains /\ k[1] = x
    BY <2>1 DEF QueuesOf
  <2>3. \A k \in DOMAIN chains \ {new} : (BusyQueue(k)' <=> BusyQueue(k)) /\ (Working(k)' <=> Working(k))
    BY <2>1 DEF BusyQueue, Working
  <2>4. Working(new)' => new \in DOMAIN chains /\ Working(new)
    BY <2>1 DEF Working, Idle
  <2>5. \A k \in DOMAIN chains : k = <<k[1], k[2]>> /\ k[2] # 0
    BY <1>1, KeyIs
  <2>6. new[1] = id /\ new[2] = n
    OBVIOUS
  <2> HIDE DEF new
  <2>7. ASSUME NEW x \in Ids \ overtaken, x \in DOMAIN session, NEW k \in QueuesOf(x)', BusyQueue(k)'
        PROVE  k[2] = current'[x]
    <3>1. CASE x # id
      BY <2>2, <2>6, <3>1, <2>7, <2>1, <2>3 DEF OneRuns
    <3>2. CASE x = id /\ k # new
      <4>1. k \in QueuesOf(id) /\ BusyQueue(k)
        BY <2>2, <2>3, <2>7, <3>2
      <4>2. k[2] = current[id] /\ k[2] # 0
        BY <2>2, <2>5, <2>7, <3>2, <4>1 DEF OneRuns
      <4>3. n = current[id]
        BY <1>5, <4>2
      <4> QED BY <2>1, <1>2, <3>2, <4>2, <4>3
    <3>3. CASE x = id /\ k = new
      BY <1>2, <2>1, <2>6, <3>3
    <3> QED BY <3>1, <3>2, <3>3
  <2>8. ASSUME NEW x \in Ids \ overtaken, NEW k \in QueuesOf(x)', NEW l \in QueuesOf(x)', Working(k)', Working(l)'
        PROVE  k = l
    <3>1. ASSUME NEW j \in QueuesOf(x)', Working(j)' PROVE j \in QueuesOf(x) /\ Working(j)
      <4>1. CASE j = new
        <5>1. new \in DOMAIN chains /\ Working(new)
          BY <2>4, <3>1, <4>1
        <5>2. x = id
          <6>1. CASE x # id
            BY <2>2, <3>1, <6>1, <2>6, <4>1
          <6> QED BY <6>1
        <5> QED BY <2>6, <4>1, <5>1, <5>2 DEF QueuesOf
      <4>2. CASE j # new
        BY <2>2, <2>3, <3>1, <4>2
      <4> QED BY <4>1, <4>2
    <3>2. k \in QueuesOf(x) /\ l \in QueuesOf(x) /\ Working(k) /\ Working(l)
      BY <2>8, <3>1
    <3> QED BY <3>2 DEF OneRuns
  <2> QED BY <1>2, <1>3, <2>7, <2>8 DEF OneRuns
<1> QED BY <1>1, <1>2, <1>4, <1>5, EnqueueIs

\* A session comes to an id while none of its queues is busy, or the id counts as overtaken.
LEMMA OpenOneRuns == ASSUME TypedAll, OneRuns, NEW d \in Devices, Open(d) PROVE OneRuns'
<1>0. PICK id : id = IdOf(d, opened[d] + 1)
  OBVIOUS
<1>1. ConnTypeOK /\ ConnShape
  BY TypesTogether DEF TypedAll
<1>2. /\ UNCHANGED <<session, births, overtaken>> \/ Connected(id)
      /\ UNCHANGED <<wire, chains, current>> /\ id \in Ids
  BY <1>0, OpenTyped DEF Open, queueVars
<1>3. CASE UNCHANGED <<session, births, overtaken>>
  BY <1>2, <1>3, OneRunsStill DEF NothingStarts, NoneBusier, BusyQueue, Working
<1>4. CASE Connected(id)
  <2>1. /\ DOMAIN session' = DOMAIN session \cup {id} /\ overtaken \subseteq overtaken'
        /\ id \in overtaken' \/ ~Busy(id)
    BY <1>1, <1>2, <1>4, ConnectedIs DEF Connected
  <2>2. Ids' = Ids /\ \A x : QueuesOf(x)' = QueuesOf(x)
    BY <1>2, IdsStay DEF QueuesOf
  <2>3. \A k : (BusyQueue(k)' <=> BusyQueue(k)) /\ (Working(k)' <=> Working(k))
    BY <1>2 DEF BusyQueue, Working
  <2>4. ~Busy(id) => \A k \in QueuesOf(id) : ~BusyQueue(k)
    BY DEF Busy, QueuesOf, BusyQueue
  <2>5. ASSUME NEW x \in Ids \ overtaken', x \in DOMAIN session', NEW k \in QueuesOf(x), BusyQueue(k)
        PROVE  k[2] = current[x]
    BY <2>1, <2>4, <2>5 DEF OneRuns
  <2>6. \A x \in Ids \ overtaken' : \A k, l \in QueuesOf(x) : Working(k) /\ Working(l) => k = l
    BY <2>1 DEF OneRuns
  <2> QED BY <1>2, <2>2, <2>3, <2>5, <2>6 DEF OneRuns
<1> QED BY <1>2, <1>3, <1>4

-----------------------------------------------------------------------------
(* Buckets.                                                                *)

\* Sessions as old as they were, announced as they were.
LEMMA BucketsSame ==
  ASSUME TypedAll, BucketsHold, UNCHANGED <<wire, births, bucket>>, DOMAIN session' = DOMAIN session,
         \A x \in DOMAIN session : session'[x].user = session[x].user /\ session'[x].born = session[x].born,
         announcedIds \subseteq announcedIds'
  PROVE  BucketsHold'
<1>1. \A u : SessionsOf(u)' = SessionsOf(u)
  BY DEF SessionsOf
<1>2. BucketsAgree' /\ \A u \in Accounts : SessionsOf(u)' \subseteq bucket'[u]
  BY <1>1 DEF BucketsHold, BucketsAgree
<1>3. (wire' = "sse" => DOMAIN session' \subseteq announcedIds')
  BY DEF BucketsHold
<1>4. /\ \A id \in DOMAIN session' : session'[id].born <= births'
      /\ \A x, y \in DOMAIN session' : session'[x].born = session'[y].born => x = y
  BY DEF BucketsHold
<1> QED BY <1>2, <1>3, <1>4 DEF BucketsHold

\* Forgetting a session takes it out of its bucket.
LEMMA BucketsForgotten ==
  ASSUME TypedAll, BucketsHold, NEW id, Forgotten(id), UNCHANGED <<wire, births>>,
         announcedIds \ {id} \subseteq announcedIds'
  PROVE  BucketsHold'
<1>1. ConnTypeOK /\ ConnShape
  BY TypesTogether DEF TypedAll
<1>2. /\ DOMAIN session' = DOMAIN session \ {id} /\ \A x \in DOMAIN session' : session'[x] = session[x]
      /\ bucket' = Unbucketed(id)
  BY <1>1, ForgottenIs
<1>3. ASSUME NEW u \in Accounts
      PROVE  /\ SessionsOf(u)' = SessionsOf(u) \ {id} /\ bucket'[u] \subseteq bucket[u]
             /\ bucket[u] \ {id} \subseteq bucket'[u]
             /\ id \in SessionsOf(u) => id \notin bucket'[u]
  BY <1>2 DEF SessionsOf, Unbucketed
<1>7. ASSUME NEW u \in Accounts
      PROVE  /\ SessionsOf(u)' \subseteq bucket'[u]
             /\ wire # "polling" => bucket'[u] = SessionsOf(u)'
  <2>1. SessionsOf(u) \subseteq bucket[u] /\ (wire # "polling" => bucket[u] = SessionsOf(u))
    BY DEF BucketsHold, BucketsAgree
  <2>2. id \notin bucket'[u] \/ id \notin SessionsOf(u)
    BY <1>3
  <2>3. \A x \in bucket'[u] : x \in bucket[u]
    BY <1>3
  <2> QED BY <1>3, <2>1, <2>2, <2>3
<1>4. (\A u \in Accounts : SessionsOf(u)' \subseteq bucket'[u]) /\ BucketsAgree'
  BY <1>7 DEF BucketsAgree
<1>5. (wire' = "sse" => DOMAIN session' \subseteq announcedIds')
  BY <1>2 DEF BucketsHold
<1>6. /\ \A x \in DOMAIN session' : session'[x].born <= births'
      /\ \A x, y \in DOMAIN session' : session'[x].born = session'[y].born => x = y
  BY <1>2 DEF BucketsHold
<1> QED BY <1>4, <1>5, <1>6 DEF BucketsHold

\* Authenticating a session moves it to its user's bucket.
LEMMA BucketsAuth ==
  ASSUME TypedAll, BucketsHold, NEW id \in Ids, NEW u \in Accounts, SetAuth(id, u),
         UNCHANGED <<wire, births, announcedIds>>
  PROVE  BucketsHold'
<1>1. ConnTypeOK /\ ConnShape
  BY TypesTogether DEF TypedAll
<1>2. /\ DOMAIN session' = DOMAIN session
      /\ \A x \in DOMAIN session :
           session'[x].born = session[x].born /\ session'[x].user = IF x = id THEN u ELSE session[x].user
      /\ IF id \in DOMAIN session
         THEN \A v \in Accounts : bucket'[v] = IF v = u THEN bucket[v] \cup {id} ELSE bucket[v] \ {id}
         ELSE bucket' = bucket
  <2>1. /\ DOMAIN session' = DOMAIN session
        /\ \A x \in DOMAIN session :
             /\ session'[x].born = session[x].born /\ session'[x].spared = session[x].spared
             /\ session'[x].user = IF x = id THEN u ELSE session[x].user
    BY <1>1, SetAuthIs
  <2>2. IF id \in DOMAIN session
        THEN \A v \in Accounts : bucket'[v] = IF v = u THEN bucket[v] \cup {id} ELSE bucket[v] \ {id}
        ELSE bucket' = bucket
    BY <1>1, SetAuthIs
  <2> QED BY <2>1, <2>2
<1>3. CASE id \notin DOMAIN session
  BY <1>2, <1>3, BucketsSame
<1>4. CASE id \in DOMAIN session
  <2>1. \A v \in Accounts : SessionsOf(v)' = IF v = u THEN SessionsOf(v) \cup {id} ELSE SessionsOf(v) \ {id}
    BY <1>2, <1>4 DEF SessionsOf
  <2>4. ASSUME NEW v \in Accounts
        PROVE  /\ SessionsOf(v)' \subseteq bucket'[v]
               /\ wire # "polling" => bucket'[v] = SessionsOf(v)'
    <3>1. SessionsOf(v) \subseteq bucket[v] /\ (wire # "polling" => bucket[v] = SessionsOf(v))
      BY DEF BucketsHold, BucketsAgree
    <3> QED BY <1>2, <1>4, <2>1, <3>1
  <2>2. (\A v \in Accounts : SessionsOf(v)' \subseteq bucket'[v]) /\ BucketsAgree'
    BY <2>4 DEF BucketsAgree
  <2>3. /\ (wire' = "sse" => DOMAIN session' \subseteq announcedIds')
        /\ \A x \in DOMAIN session' : session'[x].born <= births'
        /\ \A x, y \in DOMAIN session' : session'[x].born = session'[y].born => x = y
    BY <1>2 DEF BucketsHold
  <2> QED BY <2>2, <2>3 DEF BucketsHold
<1> QED BY <1>3, <1>4

\* What connects has no session, but where polls do.
LEMMA OpenBuckets ==
  ASSUME TypedAll, NothingAhead, BucketsHold, NEW d \in Devices, Open(d) PROVE BucketsHold'
<1>0. PICK id : id = IdOf(d, opened[d] + 1)
  OBVIOUS
<1>1. ConnTypeOK /\ ConnShape
  BY TypesTogether DEF TypedAll
<1>2. /\ IF wire = "sse" /\ id \in announcedIds THEN UNCHANGED <<session, births>> ELSE Connected(id)
      /\ announcedIds' = IF wire = "sse" THEN announcedIds \cup {id} ELSE announcedIds
      /\ UNCHANGED <<wire, bucket>> /\ id \in Ids
  BY <1>0, OpenTyped DEF Open
<1>3. CASE UNCHANGED <<session, births>>
  BY <1>2, <1>3, BucketsSame
<1>4. CASE Connected(id) /\ ~(wire = "sse" /\ id \in announcedIds)
  <2>1. /\ DOMAIN session' = DOMAIN session \cup {id}
        /\ session'[id] = [user |-> "none", born |-> births + 1, spared |-> FALSE]
        /\ \A x \in DOMAIN session : x # id => session'[x] = session[x]
        /\ births' = births + 1 /\ births \in Nat
    BY <1>1, <1>2, <1>4, ConnectedIs DEF TypedAll, SessionsTyped
  <2>2. session'[id].user = "none" /\ session'[id].born = births + 1
    BY <2>1
  <2>3. wire # "polling" => id \notin DOMAIN session
    <3>1. CASE wire = "sse"
      BY <1>4, <3>1 DEF BucketsHold
    <3>2. CASE wire = "ws"
      BY <1>0, <3>2 DEF IdOf, TypedAll, DevicesTyped, NothingAhead, Gone
    <3> QED BY <3>1, <3>2, ConnAssumption DEF TypedAll
  <2>4. \A u \in Accounts : SessionsOf(u)' = SessionsOf(u) \ {id}
    BY <2>1, <2>2, ConnAssumption DEF SessionsOf
  <2>5. (\A u \in Accounts : SessionsOf(u)' \subseteq bucket'[u]) /\ BucketsAgree'
    <3>1. ASSUME NEW u \in Accounts
          PROVE  /\ SessionsOf(u)' \subseteq bucket'[u]
                 /\ wire # "polling" => bucket'[u] = SessionsOf(u)'
      BY <1>2, <2>3, <2>4 DEF BucketsHold, BucketsAgree, SessionsOf
    <3> QED BY <1>2, <3>1 DEF BucketsAgree
  <2>6. wire' = "sse" => DOMAIN session' \subseteq announcedIds'
    BY <1>2, <2>1 DEF BucketsHold
  <2>7. \A x \in DOMAIN session : session[x].born \in Nat /\ session[x].born <= births
    BY DEF BucketsHold, TypedAll, SessionsTyped, ConnSessions
  <2>8. \A x \in DOMAIN session' : session'[x].born <= births'
    BY <2>1, <2>2, <2>7
  <2>9. ASSUME NEW x \in DOMAIN session', NEW y \in DOMAIN session', session'[x].born = session'[y].born
        PROVE  x = y
    <3>1. CASE x = id /\ y # id
      BY <2>1, <2>2, <2>7, <3>1, <2>9
    <3>2. CASE y = id /\ x # id
      BY <2>1, <2>2, <2>7, <3>2, <2>9
    <3>3. CASE x # id /\ y # id
      BY <2>1, <2>9, <3>3 DEF BucketsHold
    <3> QED BY <3>1, <3>2, <3>3
  <2> QED BY <2>5, <2>6, <2>8, <2>9 DEF BucketsHold
<1> QED BY <1>2, <1>3, <1>4

\* So each stage of handling a frame keeps the buckets.
LEMMA TasksBuckets ==
  ASSUME TypedAll, BucketsHold, NEW key \in DOMAIN chains,
         \/ Start(key) \/ TurnAway(key) \/ Work(key) \/ Authenticated(key) \/ Refused(key)
         \/ Evict(key) \/ Evicted(key) \/ Welcomes(key)
  PROVE  BucketsHold'
<1>1. ConnTypeOK /\ ConnShape
  BY TypesTogether DEF TypedAll
<1>2. TaskSound(chains[key].task) /\ key[1] \in Ids
  BY <1>1, TaskIs, KeyIs
<1>3. CASE Start(key) \/ TurnAway(key) \/ Work(key) \/ Refused(key) \/ Evict(key)
  BY <1>3, BucketsSame DEF Start, TurnAway, Work, Refused, Evict, wireSideVars, sessVars
<1>4. CASE Authenticated(key)
  BY <1>4, <1>2, BucketsAuth DEF Authenticated, wireSideVars, TaskSound
<1>5. CASE Evicted(key)
  BY <1>5, BucketsForgotten DEF Evicted
<1>6. CASE Welcomes(key)
  BY <1>6, BucketsSame DEF Welcomes, TypedAll, SessionsTyped, ConnSessions
<1> QED BY <1>3, <1>4, <1>5, <1>6

-----------------------------------------------------------------------------
(* The cap.                                                                *)

\* A step settles no session of user u.
SettlesNone(u) ==
  /\ \A x \in DOMAIN session' : session'[x].user = u =>
       \/ x \in DOMAIN session /\ session[x].user = u /\ (session[x].spared => session'[x].spared)
       \/ \E key \in DOMAIN chains' : key[1] = x /\ AtCap(key, u)'
  /\ \A key \in DOMAIN chains : key \in DOMAIN chains' /\ (AtCap(key, u) => AtCap(key, u)')

\* A subset of what was within the cap is within it.
LEMMA SettledFewer ==
  ASSUME ConnShape, NEW u \in Accounts, Cardinality(Settled(u)) <= Cap, Settled(u)' \subseteq Settled(u)
  PROVE  Cardinality(Settled(u)') <= Cap
<1>1. IsFiniteSet(DOMAIN session) /\ Settled(u) \subseteq DOMAIN session
  BY DEF ConnShape, Settled, SessionsOf
<1>2. IsFiniteSet(Settled(u))
  BY <1>1, FS_Subset
<1> DEFINE S == Settled(u)'
<1>3. S \in SUBSET Settled(u)
  OBVIOUS
<1> HIDE DEF S
<1>4. IsFiniteSet(S) /\ Cardinality(S) <= Cardinality(Settled(u))
  BY <1>2, <1>3, FS_Subset
<1>5. Cardinality(S) \in Nat /\ Cardinality(Settled(u)) \in Nat
  BY <1>2, <1>4, FS_CardinalityType
<1>6. Cardinality(S) <= Cap
  BY <1>4, <1>5, ConnAssumption
<1> QED BY <1>6 DEF S

\* A step that settles no session of a user leaves it no more than it had.
LEMMA SettlesNoneIs ==
  ASSUME NEW u \in Accounts, SettlesNone(u) PROVE Settled(u)' \subseteq Settled(u)
<1>1. ASSUME NEW x \in Settled(u)' PROVE x \in Settled(u)
  BY <1>1 DEF Settled, SessionsOf, QueuesOf, SettlesNone
<1> QED BY <1>1

\* A step that settles no session keeps the cap.
LEMMA CapStill ==
  ASSUME TypedAll, CapKept, \A u \in Accounts : SettlesNone(u)
  PROVE  CapKept'
<1>1. ASSUME NEW u \in Accounts PROVE Cardinality(Settled(u)') <= Cap
  BY SettlesNoneIs, SettledFewer, TypesTogether DEF TypedAll, CapKept
<1> QED BY <1>1 DEF CapKept

\* Queues as they were and no session more, or one that nobody has.
LEMMA SettlesSame ==
  ASSUME NEW u \in Accounts, UNCHANGED chains,
         \A x \in DOMAIN session' : (x \in DOMAIN session /\ session'[x] = session[x])
                                      \/ session'[x].user = "none"
  PROVE  SettlesNone(u)
  BY ConnAssumption DEF SettlesNone, AtCap

\* Connections that open, break or end settle none.
LEMMA StreamsCap ==
  ASSUME TypedAll, CapKept, NEW d \in Devices,
         \/ Open(d) \/ Break(d) \/ Reap(d) \/ Receive(d) \/ \E e \in endings : Ended(e[1], e[2])
         \/ \E r \in drains : Drained(r)
  PROVE  CapKept'
<1>1. ConnTypeOK /\ ConnShape
  BY TypesTogether DEF TypedAll
<1>2. UNCHANGED chains
  BY DEF Open, Break, Reap, Receive, Ended, Drained, queueVars
<1>3. ASSUME NEW id, Forgotten(id) PROVE CapKept'
  BY <1>1, <1>2, <1>3, ForgottenIs, SettlesSame, CapStill
<1>4. ASSUME UNCHANGED session PROVE CapKept'
  BY <1>2, <1>4, SettlesSame, CapStill
<1>5. CASE Open(d)
  <2>1. PICK id : id = IdOf(d, opened[d] + 1)
    OBVIOUS
  <2>2. id \in Ids /\ (UNCHANGED session \/ Connected(id))
    BY <1>5, <2>1, OpenTyped DEF Open
  <2>3. ASSUME Connected(id), NEW x \in DOMAIN session'
        PROVE  (x \in DOMAIN session /\ session'[x] = session[x]) \/ session'[x].user = "none"
    <3>1. /\ DOMAIN session' = DOMAIN session \cup {id}
          /\ session'[id] = [user |-> "none", born |-> births + 1, spared |-> FALSE]
          /\ \A y \in DOMAIN session : y # id => session'[y] = session[y]
      BY <1>1, <2>2, <2>3, ConnectedIs
    <3> QED BY <2>3, <3>1
  <2> QED BY <1>2, <1>4, <2>2, <2>3, SettlesSame, CapStill
<1>6. CASE Break(d) \/ Receive(d)
  BY <1>4, <1>6 DEF Break, Receive, sessVars
<1>7. CASE Reap(d) \/ (\E e \in endings : Ended(e[1], e[2])) \/ \E r \in drains : Drained(r)
  BY <1>3, <1>7 DEF Reap, Ended, Drained
<1> QED BY <1>5, <1>6, <1>7

\* A frame that is sent settles none.
LEMMA SayCap ==
  ASSUME TypedAll, QueuesCounted, CapKept, NEW d \in Devices, NEW m \in ConnFrames, Say(d, m)
  PROVE  CapKept'
<1>0. PICK id : id = IdOf(d, streamOf[d])
  OBVIOUS
<1>1. ConnTypeOK /\ ConnShape
  BY TypesTogether DEF TypedAll
<1>2. id \in Ids /\ Enqueue(id, m) /\ UNCHANGED session
  BY <1>0, SayTyped DEF Say, sessVars
<1>3. UNCHANGED chains \/ \E n \in Nat \ {0} : Queued(id, n)
  BY <1>1, <1>2, EnqueueIs
<1>4. \A key \in DOMAIN chains : key \in DOMAIN chains' /\ chains'[key].task = chains[key].task
  BY <1>3 DEF Queued
<1>5. ASSUME NEW u \in Accounts PROVE SettlesNone(u)
  BY <1>2, <1>4 DEF SettlesNone, AtCap
<1> QED BY <1>5, CapStill

\* What a queue that is touched leaves at the cap.
LEMMA TouchedCap ==
  ASSUME NEW u \in Accounts, NEW key \in DOMAIN chains, NEW doing, NEW todo, Touched(key, doing, todo),
         AtCap(key, u) => doing.pc \in {"enforce", "evict"} /\ doing.m.user = u
  PROVE  \A k \in DOMAIN chains : k \in DOMAIN chains' /\ (AtCap(k, u) => AtCap(k, u)')
  BY DEF Touched, AtCap

\* A hello settles a session after it has evicted enough others (enforceSessionCap).
LEMMA TasksCap ==
  ASSUME TypedAll, BucketsHold, CapKept, NEW key \in DOMAIN chains,
         \/ Start(key) \/ TurnAway(key) \/ Work(key) \/ Authenticated(key) \/ Refused(key)
         \/ Evict(key) \/ Evicted(key) \/ Welcomes(key)
  PROVE  CapKept'
<1>1. ConnTypeOK /\ ConnShape
  BY TypesTogether DEF TypedAll
<1>2. TaskSound(chains[key].task) /\ key[1] \in Ids
  BY <1>1, TaskIs, KeyIs
<1> USE DEF sessVars
<1>3. CASE Start(key)
  BY <1>3, CapStill DEF Start, SettlesNone, AtCap, Idle
<1>4. CASE TurnAway(key) \/ Work(key) \/ Refused(key)
  <2>1. chains[key].task.pc \in {"gated", "working", "authing"} /\ Finished(key) /\ UNCHANGED session
    BY <1>4 DEF TurnAway, Work, Refused
  <2>2. Touched(key, Idle, chains[key].todo)
    BY <1>1, <2>1, FinishedIs
  <2>3. ASSUME NEW u \in Accounts PROVE SettlesNone(u)
    BY <2>1, <2>2, TouchedCap DEF AtCap, SettlesNone
  <2> QED BY <2>3, CapStill
<1>5. CASE Authenticated(key)
  <2> DEFINE t == [pc |-> "enforce", m |-> chains[key].task.m]
  <2>1. /\ chains[key].task.pc = "authing" /\ SetAuth(key[1], chains[key].task.m.user) /\ Stage(key, t)
    BY <1>5 DEF Authenticated
  <2>2. chains[key].task.m.user \in Accounts /\ t \in ConnTasks
    BY <1>2, <2>1 DEF TaskSound
  <2>3. t.pc = "enforce" /\ t.m.user = chains[key].task.m.user
    OBVIOUS
  <2> HIDE DEF t
  <2>4. Touched(key, t, chains[key].todo)
    BY <1>1, <2>1, <2>2, StageIs
  <2>5. /\ DOMAIN session' = DOMAIN session
        /\ \A x \in DOMAIN session :
             /\ session'[x].spared = session[x].spared
             /\ session'[x].user = IF x = key[1] THEN chains[key].task.m.user ELSE session[x].user
    BY <1>1, <1>2, <2>1, <2>2, SetAuthIs
  <2>6. ASSUME NEW u \in Accounts PROVE SettlesNone(u)
    BY <2>1, <2>4, TouchedCap, <2>3, <2>5 DEF AtCap, Touched, SettlesNone
  <2> QED BY <2>6, CapStill
<1>6. CASE Evict(key)
  <2> DEFINE t == [pc |-> "evict", m |-> chains[key].task.m, who |-> Oldest(chains[key].task.m.user)]
  <2>1. /\ chains[key].task.pc = "enforce" /\ Sessions(chains[key].task.m.user) # {} /\ Stage(key, t)
        /\ UNCHANGED session
    BY <1>6 DEF Evict, OverCap
  <2>2. Oldest(chains[key].task.m.user) \in Ids
    BY <1>1, <2>1, OldestIs DEF TypedAll, SessionsTyped
  <2>3. t \in ConnTasks
    BY <1>2, <2>1, <2>2 DEF TaskSound
  <2>4. t.pc = "evict" /\ t.m = chains[key].task.m
    OBVIOUS
  <2> HIDE DEF t
  <2>5. Touched(key, t, chains[key].todo)
    BY <1>1, <2>1, <2>3, StageIs
  <2>6. ASSUME NEW u \in Accounts PROVE SettlesNone(u)
    BY <2>4, <2>5, TouchedCap, <2>1 DEF AtCap, SettlesNone
  <2> QED BY <2>6, CapStill
<1>7. CASE Evicted(key)
  <2> DEFINE t == [pc |-> "enforce", m |-> chains[key].task.m]
  <2>1. /\ chains[key].task.pc = "evict" /\ Forgotten(chains[key].task.who) /\ Stage(key, t)
    BY <1>7 DEF Evicted
  <2>2. t \in ConnTasks
    BY <1>2, <2>1 DEF TaskSound
  <2>3. t.pc = "enforce" /\ t.m = chains[key].task.m
    OBVIOUS
  <2> HIDE DEF t
  <2>4. Touched(key, t, chains[key].todo)
    BY <1>1, <2>1, <2>2, StageIs
  <2>5. DOMAIN session' \subseteq DOMAIN session /\ \A x \in DOMAIN session' : session'[x] = session[x]
    BY <1>1, <2>1, ForgottenIs
  <2>6. ASSUME NEW u \in Accounts PROVE SettlesNone(u)
    BY <2>3, <2>4, TouchedCap, <2>5 DEF AtCap, SettlesNone
  <2> QED BY <2>6, CapStill
<1>8. CASE Welcomes(key)
  <2>0. PICK id, u : id = key[1] /\ u = chains[key].task.m.user
    OBVIOUS
  <2>1. /\ chains[key].task.pc = "enforce" /\ ~OverCap(key) /\ Finished(key) /\ UNCHANGED bucket
        /\ session' = IF /\ id \in DOMAIN session /\ Cardinality(bucket[u]) > Cap
                         /\ \A x \in Sessions(u) : session[id].born <= session[x].born
                      THEN [session EXCEPT ![id].spared = TRUE] ELSE session
    BY <1>8, <2>0 DEF Welcomes
  <2>2. u \in Accounts /\ id \in Ids
    BY <1>2, <2>0, <2>1 DEF TaskSound
  <2>3. Touched(key, Idle, chains[key].todo)
    BY <1>1, <2>1, FinishedIs
  <2>4. session \in [DOMAIN session -> ConnSessions]
    BY DEF TypedAll, SessionsTyped
  <2>5. /\ DOMAIN session' = DOMAIN session
        /\ \A x \in DOMAIN session : /\ session'[x].user = session[x].user
                                     /\ session[x].spared => session'[x].spared
    BY <2>1, <2>4 DEF ConnSessions
  <2>6. ASSUME NEW v \in Accounts, v # u PROVE Cardinality(Settled(v)') <= Cap
    <3>1. ~AtCap(key, v)
      BY <2>0, <2>6 DEF AtCap
    <3>2. SettlesNone(v)
      BY <2>3, <2>5, <3>1, TouchedCap DEF SettlesNone
    <3> QED BY <1>1, <3>2, SettlesNoneIs, SettledFewer DEF CapKept
  <2>7. Cardinality(Settled(u)') <= Cap
    <3>1. IsFiniteSet(bucket[u]) /\ Cardinality(bucket[u]) \in Nat /\ Cap \in Nat
      BY <2>2, FS_CardinalityType, ConnAssumption DEF TypedAll, SessionsTyped
    <3>2. SessionsOf(u) \subseteq bucket[u] /\ SessionsOf(u) \subseteq Sessions(u) /\ SessionsOf(u)' = SessionsOf(u)
      BY <2>2, <2>5 DEF BucketsHold, SessionsOf, Sessions
    <3>3. Settled(u)' \subseteq SessionsOf(u)
      BY <3>2 DEF Settled
    <3>4. CASE Cardinality(bucket[u]) <= Cap
      <4> DEFINE S == Settled(u)'
      <4>1. S \in SUBSET bucket[u]
        BY <3>2, <3>3
      <4> HIDE DEF S
      <4>2. Cardinality(S) <= Cardinality(bucket[u]) /\ Cardinality(S) \in Nat
        BY <3>1, <4>1, FS_Subset, FS_CardinalityType
      <4> QED BY <3>1, <3>4, <4>2 DEF S
    <3>5. CASE Sessions(u) = {}
      BY <3>2, <3>3, <3>5, <3>1, FS_EmptySet
    <3>6. CASE Cardinality(bucket[u]) > Cap /\ Sessions(u) # {}
      <4>1. Oldest(u) = id
        BY <2>0, <2>1, <3>6 DEF OverCap
      <4>2. id \in DOMAIN session /\ \A x \in Sessions(u) : session[id].born <= session[x].born
        BY <1>1, <3>6, <4>1, OldestIs
      <4>3. session'[id].spared
        BY <2>1, <2>4, <3>6, <4>2 DEF ConnSessions
      <4>4. ASSUME NEW x \in Settled(u)' PROVE x \in Settled(u)
        BY <4>4, <2>5, <4>3, <2>0, <2>3 DEF Settled, SessionsOf, QueuesOf, Touched, AtCap
      <4> QED BY <1>1, <2>2, <4>4, SettledFewer DEF CapKept
    <3> QED BY <3>1, <3>4, <3>5, <3>6
  <2> QED BY <2>6, <2>7 DEF CapKept
<1> QED BY <1>3, <1>4, <1>5, <1>6, <1>7, <1>8

-----------------------------------------------------------------------------
(* Sockets.                                                                *)

\* The same of what is carried, now and after a step.
LEMMA ToldIs ==
  ASSUME NEW d \in Devices
  PROVE  /\ ToldToGo(d) <=> \E f : Underway(d, f) /\ f.on = streamOf[d] /\ f.kind = "bye"
         /\ ToldToGo(d)' <=> \E f : Underway(d, f)' /\ f.on = streamOf'[d] /\ f.kind = "bye"
  BY DEF ToldToGo, Underway

\* When a device has been greeted, now and after the step.
LEMMA GreetedIs ==
  ASSUME NEW d \in Devices
  PROVE  /\ Greeted(d) <=> \/ d \in acked
                           \/ \E f : Underway(d, f) /\ f.on = streamOf[d] /\ f.kind = "ack"
                           \/ \E key \in DOMAIN chains : /\ key[1] = <<d, streamOf[d]>>
                                                         /\ chains[key].task.pc \in {"enforce", "evict"}
         /\ Greeted(d)' <=> \/ d \in acked'
                            \/ \E f : Underway(d, f)' /\ f.on = streamOf'[d] /\ f.kind = "ack"
                            \/ \E key \in DOMAIN chains' : /\ key[1] = <<d, streamOf'[d]>>
                                                           /\ chains'[key].task.pc \in {"enforce", "evict"}
  BY DEF Greeted, Underway, QueuesOf

\* Nobody is greeted by a step that acknowledges nothing and takes no queue past its token.
LEMMA GreetedLess ==
  ASSUME NEW e \in Devices, streamOf'[e] = streamOf[e], e \in acked' => e \in acked,
         \A f : Underway(e, f)' /\ f.kind = "ack" => Underway(e, f),
         \A key \in DOMAIN chains' :
           key[1] = <<e, streamOf[e]>> /\ chains'[key].task.pc \in {"enforce", "evict"} =>
             key \in DOMAIN chains /\ chains[key].task.pc \in {"enforce", "evict"}
  PROVE  Greeted(e)' => Greeted(e)
<1>1. CASE e \in acked'
  BY <1>1, GreetedIs
<1>2. ASSUME NEW f, Underway(e, f)', f.on = streamOf'[e], f.kind = "ack" PROVE Greeted(e)
  BY <1>2, GreetedIs
<1>3. ASSUME NEW key \in DOMAIN chains', key[1] = <<e, streamOf'[e]>>,
             chains'[key].task.pc \in {"enforce", "evict"}
      PROVE  Greeted(e)
  BY <1>3, GreetedIs
<1> QED BY <1>1, <1>2, <1>3, GreetedIs

\* A device keeps its connection, and is told to go or the server keeps its side of it.
SocketKept(e, id) ==
  /\ streamOf'[e] = streamOf[e]
  /\ ToldToGo(e) => ToldToGo(e)'
  /\ \/ ToldToGo(e)'
     \/ /\ id \in DOMAIN registered => id \in DOMAIN registered'
        /\ id \in DOMAIN session =>
             id \in DOMAIN session' /\ (session[id].user # "none" => session'[id].user # "none")
        /\ <<id, streamOf[e]>> \in endings' => <<id, streamOf[e]>> \in endings
        /\ Greeted(e)' => Greeted(e) \/ (id \in DOMAIN session => session'[id].user # "none")

\* A socket that is kept stays known.
LEMMA SocketStill ==
  ASSUME NEW e \in Devices, NEW id, id = <<e, streamOf[e]>>, SocketKnown(e), SocketKept(e, id)
  PROVE  SocketKnown(e)'
  BY DEF SocketKnown, SocketKept

\* So if each socket is kept or known again, all are.
LEMMA SocketsStill ==
  ASSUME wire = "ws", UNCHANGED wire, SocketsKnown, \A d \in acked' : streamOf'[d] # 0,
         \A e \in Devices : \A id : id = <<e, streamOf[e]>> => SocketKnown(e)' \/ SocketKept(e, id)
  PROVE  SocketsKnown'
<1>1. ASSUME NEW e \in Devices PROVE SocketKnown(e)'
  <2>1. PICK id : id = <<e, streamOf[e]>>
    OBVIOUS
  <2> QED BY <2>1, SocketStill DEF SocketsKnown
<1> QED BY <1>1 DEF SocketsKnown

\* A socket that opens has not been greeted.
LEMMA OpenSockets ==
  ASSUME TypedAll, NothingAhead, SocketsKnown, wire = "ws", NEW d \in Devices, Open(d)
  PROVE  SocketsKnown'
<1>0. PICK n, new : n = opened[d] + 1 /\ new = <<d, n>>
  OBVIOUS
<1>1. ConnTypeOK /\ ConnShape
  BY TypesTogether DEF TypedAll
<1>2. /\ streamOf[d] = 0 /\ streamOf' = [streamOf EXCEPT ![d] = n] /\ acked' = acked \ {d}
      /\ registered' = With(registered, new, n) /\ Connected(new)
      /\ UNCHANGED <<wire, mail, endings, chains>> /\ new \in Ids /\ n \in Nat \ {0}
  <2>1. IdOf(d, opened[d] + 1) = new
    BY <1>0 DEF IdOf
  <2>2. n \in Nat \ {0}
    BY <1>0 DEF TypedAll, DevicesTyped
  <2> QED BY <1>0, <2>1, <2>2, OpenTyped DEF Open, queueVars
<1>3. /\ \A e \in Devices : streamOf'[e] = IF e = d THEN n ELSE streamOf[e]
      /\ opened[d] \in Nat
  BY <1>2 DEF TypedAll, DevicesTyped
<1>4. /\ DOMAIN session' = DOMAIN session \cup {new}
      /\ \A y \in DOMAIN session : y # new => session'[y] = session[y]
      /\ DOMAIN registered' = DOMAIN registered \cup {new}
  BY <1>1, <1>2, ConnectedIs DEF With
<1>5. \A e \in Devices : \A f : Underway(e, f)' <=> Underway(e, f)
  BY <1>2, CarriedSame
<1>6. ~Gone(new) /\ \A k \in 1..opened[d] : k # n
  BY <1>0, <1>3 DEF Gone
<1>7. SocketKnown(d)'
  <2>1. \A f : Underway(d, f) => f.on # n
    BY <1>6 DEF Underway, NothingAhead
  <2>2. ~Greeted(d)'
    <3>1. \A key \in DOMAIN chains' : key[1] # new
      BY <1>2, <1>6 DEF NothingAhead
    <3> QED BY <1>0, <1>2, <1>3, <1>5, <2>1, <3>1, GreetedIs
  <2>3. <<new, n>> \notin endings'
    BY <1>2, <1>6 DEF NothingAhead
  <2>4. streamOf'[d] = n /\ new = <<d, streamOf'[d]>>
    BY <1>0, <1>3
  <2> QED BY <1>4, <2>2, <2>3, <2>4 DEF SocketKnown
<1>8. ASSUME NEW e \in Devices, e # d, NEW id, id = <<e, streamOf[e]>> PROVE SocketKept(e, id)
  <2>1. streamOf'[e] = streamOf[e] /\ (ToldToGo(e) <=> ToldToGo(e)')
    BY <1>3, <1>5, <1>8, ToldIs
  <2>2. Greeted(e)' => Greeted(e)
    BY <1>2, <1>5, <2>1, GreetedLess
  <2>3. id # new
    BY <1>0, <1>8
  <2> QED BY <1>2, <1>4, <2>1, <2>2, <2>3 DEF SocketKept
<1>9. \A e \in acked' : streamOf'[e] # 0
  BY <1>2, <1>3 DEF SocketsKnown, TypedAll, DevicesTyped
<1> QED BY <1>2, <1>7, <1>8, <1>9, SocketsStill

\* A connection that closes is known no longer; the others are.
LEMMA ClosedSockets ==
  ASSUME TypedAll, SocketsKnown, wire = "ws", NEW d \in Devices, Closed(d),
         UNCHANGED <<wire, opened, registered, session, chains>>,
         \A e \in Devices \ {d} : \A f : Underway(e, f)' <=> Underway(e, f)
  PROVE  SocketsKnown'
<1>1. /\ streamOf' \in [Devices -> Nat] /\ acked' = acked \ {d}
      /\ \A e \in Devices : streamOf'[e] = IF e = d THEN 0 ELSE streamOf[e]
      /\ \A e \in endings' \ endings : e = <<<<d, streamOf[d]>>, streamOf[d]>>
  BY ClosedIs, TypesTogether DEF TypedAll, IdOf
<1>2. SocketKnown(d)'
  BY <1>1 DEF SocketKnown
<1>3. ASSUME NEW e \in Devices, e # d, NEW id, id = <<e, streamOf[e]>> PROVE SocketKept(e, id)
  <2>1. streamOf'[e] = streamOf[e] /\ (ToldToGo(e) <=> ToldToGo(e)')
    BY <1>1, <1>3, ToldIs
  <2>2. Greeted(e)' => Greeted(e)
    BY <1>1, <1>3, GreetedIs
  <2>3. <<id, streamOf[e]>> \in endings' => <<id, streamOf[e]>> \in endings
    BY <1>1, <1>3
  <2> QED BY <2>1, <2>2, <2>3 DEF SocketKept
<1>4. \A e \in acked' : streamOf'[e] # 0
  BY <1>1 DEF SocketsKnown, TypedAll, DevicesTyped
<1> QED BY <1>2, <1>3, <1>4, SocketsStill

\* What the hypotheses of GreetedLess say of the queues.
NonePast == \A key \in DOMAIN chains' : chains'[key].task.pc \in {"enforce", "evict"} =>
              key \in DOMAIN chains /\ chains[key].task.pc \in {"enforce", "evict"}

\* A chain that does not go past the evictions brings no greeting.
LEMMA TouchedPast ==
  ASSUME NEW key \in DOMAIN chains, NEW doing, NEW todo, Touched(key, doing, todo),
         doing.pc \in {"enforce", "evict"} => chains[key].task.pc \in {"enforce", "evict"}
  PROVE  NonePast
  BY DEF Touched, NonePast

\* Of the lines of a device nothing is lost but what was for an earlier connection, and the
\* server keeps its side.
LEMMA LinesKept ==
  ASSUME NEW e \in Devices, NEW id, id = <<e, streamOf[e]>>, streamOf'[e] = streamOf[e],
         e \in acked' => e \in acked, NonePast,
         \A f : Underway(e, f)' /\ f.kind = "ack" => Underway(e, f),
         \A f : Underway(e, f) /\ f.on = streamOf[e] => Underway(e, f)',
         id \in DOMAIN registered => id \in DOMAIN registered',
         id \in DOMAIN session =>
             id \in DOMAIN session' /\ (session[id].user # "none" => session'[id].user # "none"),
         <<id, streamOf[e]>> \in endings' => <<id, streamOf[e]>> \in endings
  PROVE  SocketKept(e, id)
<1>1. Greeted(e)' => Greeted(e)
  BY GreetedLess DEF NonePast
<1>2. ToldToGo(e) => ToldToGo(e)'
  BY ToldIs
<1> QED BY <1>1, <1>2 DEF SocketKept

\* A device reads what is on its line.
LEMMA ReceiveSockets ==
  ASSUME TypedAll, NothingAhead, SocketsKnown, wire = "ws", NEW d \in Devices, Receive(d)
  PROVE  SocketsKnown'
<1>0. PICK h : h = Head(mail[d])
  OBVIOUS
<1>1. ConnTypeOK /\ ConnShape
  BY TypesTogether DEF TypedAll
<1>2. /\ mail[d] # <<>> /\ mail' = [mail EXCEPT ![d] = Tail(@)]
      /\ UNCHANGED <<wire, opened, registered, session, chains>>
      /\ \/ h.on # streamOf[d] /\ UNCHANGED <<streamOf, acked, endings>>
         \/ h.on = streamOf[d] /\ h.kind = "ack" /\ acked' = acked \cup {d} /\ UNCHANGED <<streamOf, endings>>
         \/ h.on = streamOf[d] /\ Closed(d)
  BY <1>0 DEF Receive, sessVars, queueVars
<1>3. /\ h \in ConnMail /\ Underway(d, h)
      /\ \A e \in Devices : \A f :
              /\ Underway(e, f)' => Underway(e, f)
              /\ Underway(e, f) => Underway(e, f)' \/ (e = d /\ f = h)
  BY <1>0, <1>1, <1>2, ReceivedIs
<1>4. NonePast
  BY <1>2 DEF NonePast
<1>5. h.on \in 1..opened[d] /\ h.on # 0
  BY <1>3 DEF Underway, NothingAhead
<1>6. CASE h.on # streamOf[d] /\ UNCHANGED <<streamOf, acked, endings>>
  <2>1. ASSUME NEW e \in Devices, NEW id, id = <<e, streamOf[e]>> PROVE SocketKept(e, id)
    BY <1>3, <1>6, <1>2, <1>4, <2>1, LinesKept
  <2>2. \A e \in acked' : streamOf'[e] # 0
    BY <1>6 DEF SocketsKnown
  <2> QED BY <1>2, <2>1, <2>2, SocketsStill
<1>7. CASE h.on = streamOf[d] /\ h.kind = "ack" /\ acked' = acked \cup {d} /\ UNCHANGED <<streamOf, endings>>
  <2>1. ASSUME NEW e \in Devices, NEW id, id = <<e, streamOf[e]>> PROVE SocketKept(e, id)
    <3>1. ToldToGo(e) => ToldToGo(e)'
      <4>1. ASSUME NEW f, Underway(e, f), f.on = streamOf[e], f.kind = "bye" PROVE Underway(e, f)'
        BY <1>3, <1>7, <4>1
      <4> QED BY <1>7, <4>1, ToldIs
    <3>2. Greeted(e)' => Greeted(e)
      <4>1. CASE e = d
        BY <1>3, <1>7, <4>1, GreetedIs
      <4>2. CASE e # d
        BY <1>7, <4>2, <1>3, <1>4, GreetedLess DEF NonePast
      <4> QED BY <4>1, <4>2
    <3> QED BY <1>2, <1>7, <3>1, <3>2 DEF SocketKept
  <2>2. \A e \in acked' : streamOf'[e] # 0
    BY <1>5, <1>7 DEF SocketsKnown
  <2> QED BY <1>2, <2>1, <2>2, SocketsStill
<1>8. CASE h.on = streamOf[d] /\ Closed(d)
  BY <1>3, <1>2, <1>8, ClosedSockets
<1> QED BY <1>2, <1>6, <1>7, <1>8

\* The network breaks a connection, and the server hears of an end.
LEMMA BreakSockets ==
  ASSUME TypedAll, SocketsKnown, wire = "ws", NEW d \in Devices, Break(d) PROVE SocketsKnown'
  BY ClosedSockets, CarriedSame DEF Break, wireSideVars, sessVars, queueVars

\* Nothing is known of a device that is without a connection or told to go.
LEMMA UnknownIs ==
  ASSUME NEW e \in Devices, NEW id, id = <<e, streamOf[e]>>, SocketKnown(e),
         streamOf'[e] = streamOf[e], ToldToGo(e) => ToldToGo(e)', ~(SocketKnown(e)')
  PROVE  /\ streamOf[e] # 0 /\ ~ToldToGo(e) /\ ~(ToldToGo(e)')
         /\ id \in DOMAIN registered /\ id \in DOMAIN session /\ <<id, streamOf[e]>> \notin endings
  BY DEF SocketKnown

\* The end of a socket is that of one its device no longer holds.
LEMMA EndedSockets ==
  ASSUME TypedAll, NothingAhead, SocketsKnown, wire = "ws", NEW x \in endings, Ended(x[1], x[2])
  PROVE  SocketsKnown'
<1>1. ConnTypeOK /\ ConnShape
  BY TypesTogether DEF TypedAll
<1>2. /\ <<x[1], x[2]>> \in endings /\ endings' = endings \ {<<x[1], x[2]>>}
      /\ registered' = Without(registered, x[1]) /\ Forgotten(x[1])
      /\ UNCHANGED <<wire, streamOf, acked, mail, chains>>
  BY DEF Ended, connDeviceVars
<1>3. x[2] = x[1][2]
  BY <1>2 DEF NothingAhead
<1>4. /\ DOMAIN session' = DOMAIN session \ {x[1]} /\ \A y \in DOMAIN session' : session'[y] = session[y]
      /\ DOMAIN registered' = DOMAIN registered \ {x[1]}
  BY <1>1, <1>2, ForgottenIs DEF Without
<1>5. NonePast
  BY <1>2 DEF NonePast
<1>6. ASSUME NEW e \in Devices, NEW id, id = <<e, streamOf[e]>> PROVE SocketKnown(e)' \/ SocketKept(e, id)
  <2>1. \A f : Underway(e, f)' <=> Underway(e, f)
    BY <1>2, CarriedSame
  <2>2. SocketKnown(e) /\ (ToldToGo(e) => ToldToGo(e)')
    BY <1>2, <2>1, ToldIs DEF SocketsKnown
  <2>3. ASSUME ~(SocketKnown(e)') PROVE SocketKept(e, id)
    <3>1. <<id, streamOf[e]>> \notin endings
      BY <1>2, <1>6, <2>2, <2>3, UnknownIs
    <3>2. id # x[1]
      BY <1>2, <1>3, <1>6, <3>1
    <3> QED BY <1>2, <1>4, <1>5, <1>6, <2>1, <3>2, LinesKept
  <2> QED BY <2>3
<1> QED BY <1>2, <1>6, SocketsStill DEF SocketsKnown

\* What comes in queues nothing past its token.
LEMMA SaySockets ==
  ASSUME TypedAll, QueuesCounted, SocketsKnown, wire = "ws", NEW d \in Devices, NEW m \in ConnFrames,
         Say(d, m)
  PROVE  SocketsKnown'
<1>0. PICK x : x = IdOf(d, streamOf[d])
  OBVIOUS
<1>1. ConnTypeOK /\ ConnShape
  BY TypesTogether DEF TypedAll
<1>2. x \in Ids /\ Enqueue(x, m) /\ UNCHANGED <<wire, streamOf, acked, mail, registered, endings, session>>
  BY <1>0, SayTyped DEF Say, sessVars, wireSideVars
<1>3. UNCHANGED chains \/ \E n \in Nat \ {0} : Queued(x, n)
  BY <1>1, <1>2, EnqueueIs
<1>4. NonePast
  <2>1. ASSUME NEW n \in Nat \ {0}, Queued(x, n) PROVE NonePast
    BY <2>1 DEF Queued, Idle, NonePast
  <2> QED BY <1>3, <2>1 DEF NonePast
<1>5. ASSUME NEW e \in Devices, NEW id, id = <<e, streamOf[e]>> PROVE SocketKept(e, id)
  BY <1>2, CarriedSame, <1>4, <1>5, LinesKept
<1> QED BY <1>2, <1>5, SocketsStill DEF SocketsKnown

\* A client that is dismissed is told to go, if the transport has its connection.
LEMMA DismissedKept ==
  ASSUME TypedAll, NothingAhead, wire = "ws", NEW x, Dismissed(x), UNCHANGED streamOf,
         NEW e \in Devices, NEW id, id = <<e, streamOf[e]>>
  PROVE  /\ ToldToGo(e) => ToldToGo(e)'
         /\ \A f : Underway(e, f)' /\ f.kind = "ack" => Underway(e, f)
         /\ \A f : Underway(e, f) => Underway(e, f)'
         /\ \/ ToldToGo(e)'
            \/ /\ id \in DOMAIN registered => id # x /\ id \in DOMAIN registered'
               /\ <<id, streamOf[e]>> \in endings' => <<id, streamOf[e]>> \in endings
<1>1. ConnTypeOK /\ ConnShape
  BY TypesTogether DEF TypedAll
<1>2. /\ DOMAIN registered' = DOMAIN registered \ {x}
      /\ \A y \in endings' \ endings : x \in DOMAIN registered /\ wire = "ws" /\ y = <<x, registered[x]>>
      /\ \A f : Underway(e, f)' <=> \/ Underway(e, f)
                                   \/ /\ wire # "polling" /\ x \in DOMAIN registered /\ e = x[1]
                                      /\ f = [on |-> registered[x], kind |-> "bye"]
  BY <1>1, DismissedIs
<1>3. \A f : Underway(e, f) => Underway(e, f)'
  BY <1>2
<1>4. \A f : Underway(e, f)' /\ f.kind = "ack" => Underway(e, f)
  BY <1>2
<1>5. ToldToGo(e) => ToldToGo(e)'
  BY <1>3, ToldIs
<1>6. CASE x = id /\ x \in DOMAIN registered
  <2>0. PICK bye : bye = [on |-> registered[x], kind |-> "bye"]
    OBVIOUS
  <2>1. registered[x] = x[2] /\ x[1] = e /\ x[2] = streamOf[e] /\ wire # "polling"
    BY <1>6 DEF NothingAhead
  <2>2. Underway(e, bye)' /\ bye.on = streamOf'[e] /\ bye.kind = "bye"
    BY <1>2, <1>6, <2>0, <2>1
  <2>3. ToldToGo(e)'
    BY <2>2, ToldIs
  <2> QED BY <1>3, <1>4, <1>5, <2>3
<1>7. CASE ~(x = id /\ x \in DOMAIN registered)
  BY <1>2, <1>3, <1>4, <1>5, <1>7
<1> QED BY <1>6, <1>7

\* A socket is dismissed with the frame that tells it so.
LEMMA DismissedSockets ==
  ASSUME TypedAll, NothingAhead, SocketsKnown, wire = "ws", NEW x, Dismissed(x), NonePast,
         UNCHANGED <<wire, streamOf, acked>>,
         Forgotten(x) \/ UNCHANGED session
  PROVE  SocketsKnown'
<1>1. ASSUME NEW y \in DOMAIN session, y # x PROVE y \in DOMAIN session' /\ session'[y] = session[y]
  <2>1. CASE Forgotten(x)
    <3>1. DOMAIN session' = DOMAIN session \ {x} /\ \A z \in DOMAIN session' : session'[z] = session[z]
      BY <2>1, ForgottenIs, TypesTogether DEF TypedAll
    <3> QED BY <1>1, <3>1
  <2>2. CASE UNCHANGED session
    BY <1>1, <2>2
  <2> QED BY <2>1, <2>2
<1>2. UNCHANGED session \/ DOMAIN session' = DOMAIN session \ {x}
  BY ForgottenIs, TypesTogether DEF TypedAll
<1>3. ASSUME NEW e \in Devices, NEW id, id = <<e, streamOf[e]>>, ~(SocketKnown(e)') PROVE SocketKept(e, id)
  BY <1>3, DismissedKept, UnknownIs, <1>1, LinesKept DEF SocketsKnown
<1> QED BY <1>3, SocketsStill DEF SocketsKnown

\* Each stage of handling a frame keeps the sockets known.
LEMMA TasksSockets ==
  ASSUME TypedAll, NothingAhead, SocketsKnown, wire = "ws", NEW key \in DOMAIN chains,
         \/ Start(key) \/ TurnAway(key) \/ Work(key) \/ Authenticated(key) \/ Refused(key)
         \/ Evict(key) \/ Evicted(key) \/ Welcomes(key)
  PROVE  SocketsKnown'
<1>1. ConnTypeOK /\ ConnShape /\ DOMAIN registered \subseteq Ids
  BY TypesTogether DEF TypedAll, WiresTyped
<1>2. TaskSound(chains[key].task) /\ key[1] \in Ids /\ chains \in [DOMAIN chains -> ConnQueues]
  BY <1>1, TaskIs, KeyIs DEF TypedAll, QueuesTyped
<1> USE DEF connDeviceVars, wireSideVars, sessVars
<1>3. ASSUME NonePast, UNCHANGED <<wire, streamOf, acked, mail, registered, endings, session>>
      PROVE  SocketsKnown'
  <2>1. ASSUME NEW e \in Devices, NEW id, id = <<e, streamOf[e]>> PROVE SocketKept(e, id)
    BY <1>3, CarriedSame, <2>1, LinesKept
  <2> QED BY <1>3, <2>1, SocketsStill DEF SocketsKnown
<1>4. Finished(key) => NonePast
  <2>1. ASSUME Finished(key) PROVE Touched(key, Idle, chains[key].todo)
    BY <1>1, <2>1, FinishedIs
  <2>2. Idle.pc = "idle"
    BY DEF Idle
  <2> QED BY <2>1, <2>2, TouchedPast
<1>5. CASE Start(key)
  BY <1>2, <1>5, <1>3 DEF Start, ConnQueues, NonePast
<1>6. CASE Work(key)
  BY <1>3, <1>4, <1>6 DEF Work
<1>7. CASE TurnAway(key)
  BY <1>4, <1>7, DismissedSockets DEF TurnAway
<1>8. CASE Authenticated(key)
  <2> DEFINE m == chains[key].task.m
  <2>1. /\ SetAuth(key[1], m.user) /\ Stage(key, [pc |-> "enforce", m |-> m]) /\ m.user \in Accounts
        /\ [pc |-> "enforce", m |-> m] \in ConnTasks
        /\ UNCHANGED <<wire, streamOf, acked, mail, registered, endings>>
    BY <1>2, <1>8 DEF Authenticated, TaskSound
  <2>2. /\ DOMAIN session' = DOMAIN session
        /\ \A x \in DOMAIN session : session'[x].user = IF x = key[1] THEN m.user ELSE session[x].user
    BY <1>1, <1>2, <2>1, SetAuthIs
  <2>3. Touched(key, [pc |-> "enforce", m |-> m], chains[key].todo)
    BY <1>1, <2>1, StageIs
  <2>4. DOMAIN chains' = DOMAIN chains /\ \A k \in DOMAIN chains \ {key} : chains'[k] = chains[k]
    BY <2>3 DEF Touched
  <2>5. m.user # "none"
    BY <2>1, ConnAssumption
  <2> HIDE DEF m
  <2>6. ASSUME NEW e \in Devices, NEW id, id = <<e, streamOf[e]>> PROVE SocketKept(e, id)
    <3>1. \A f : Underway(e, f)' <=> Underway(e, f)
      BY <2>1, CarriedSame
    <3>2. ToldToGo(e) => ToldToGo(e)'
      BY <2>1, <3>1, ToldIs
    <3>3. id \in DOMAIN session => (session[id].user # "none" => session'[id].user # "none")
      BY <2>2, <2>5
    <3>4. CASE id = key[1]
      BY <2>1, <2>2, <2>5, <3>2, <3>4 DEF SocketKept
    <3>5. CASE id # key[1]
      <4>1. \A k \in DOMAIN chains' : k[1] = <<e, streamOf[e]>> => k \in DOMAIN chains /\ chains'[k] = chains[k]
        BY <2>4, <2>6, <3>5
      <4>2. Greeted(e)' => Greeted(e)
        BY <2>1, <3>1, <4>1, GreetedLess
      <4> QED BY <2>1, <2>2, <3>2, <3>3, <4>2 DEF SocketKept
    <3> QED BY <3>4, <3>5
  <2>7. \A e \in acked' : streamOf'[e] # 0
    BY <2>1 DEF SocketsKnown
  <2> QED BY <2>1, <2>6, <2>7, SocketsStill
<1>9. CASE Refused(key)
  <2>1. CASE Dismissed(key[1])
    BY <1>4, <1>9, <2>1, DismissedSockets DEF Refused
  <2>2. CASE mail' = Sent(key[1], "bye") /\ UNCHANGED <<registered, endings>>
    <3>1. UNCHANGED <<wire, streamOf, acked, session>> /\ NonePast
      BY <1>4, <1>9 DEF Refused
    <3>2. \A e \in Devices : \A f : Underway(e, f)' <=> \/ Underway(e, f)
                                 \/ /\ key[1] \in DOMAIN registered /\ e = key[1][1]
                                    /\ f = [on |-> registered[key[1]], kind |-> "bye"]
      BY <1>1, <1>2, <2>2, SentIs
    <3>3. [on |-> registered[key[1]], kind |-> "bye"].kind # "ack"
      OBVIOUS
    <3>4. ASSUME NEW e \in Devices, NEW id, id = <<e, streamOf[e]>> PROVE SocketKept(e, id)
      BY <3>2, <3>3, <2>2, <3>1, <3>4, LinesKept
    <3>5. \A e \in acked' : streamOf'[e] # 0
      BY <3>1 DEF SocketsKnown
    <3> QED BY <3>1, <3>4, <3>5, SocketsStill
  <2> QED BY <1>9, <2>1, <2>2 DEF Refused
<1>10. CASE Evict(key)
  <2> DEFINE t == [pc |-> "evict", m |-> chains[key].task.m, who |-> Oldest(chains[key].task.m.user)]
  <2>1. /\ chains[key].task.pc = "enforce" /\ Stage(key, t) /\ Sessions(chains[key].task.m.user) # {}
        /\ UNCHANGED <<wire, streamOf, acked, mail, registered, endings, session>>
    BY <1>10 DEF Evict, OverCap
  <2>2. t \in ConnTasks
    BY <1>1, <2>1, OldestIs, <1>2 DEF TypedAll, SessionsTyped, TaskSound
  <2>3. NonePast
    BY <1>1, <2>1, <2>2, StageIs, TouchedPast
  <2> QED BY <1>3, <2>1, <2>3
<1>11. CASE Evicted(key)
  <2> DEFINE t == [pc |-> "enforce", m |-> chains[key].task.m]
  <2>1. /\ chains[key].task.pc = "evict" /\ Stage(key, t)
        /\ Dismissed(chains[key].task.who) /\ Forgotten(chains[key].task.who)
        /\ UNCHANGED <<wire, streamOf, acked>>
    BY <1>11 DEF Evicted
  <2>2. t \in ConnTasks
    BY <1>2, <2>1 DEF TaskSound
  <2>3. NonePast
    BY <1>1, <2>1, <2>2, StageIs, TouchedPast
  <2> QED BY <2>1, <2>3, DismissedSockets
<1>12. CASE Welcomes(key)
  <2>1. /\ chains[key].task.pc = "enforce" /\ NonePast
        /\ mail' = Sent(key[1], "ack") \/ mail' = mail
        /\ session' = session \/ (key[1] \in DOMAIN session /\ session' = [session EXCEPT ![key[1]].spared = TRUE])
        /\ UNCHANGED <<wire, streamOf, acked, registered, endings>>
    BY <1>4, <1>12 DEF Welcomes
  <2>2. DOMAIN session' = DOMAIN session /\ \A x \in DOMAIN session : session'[x].user = session[x].user
    BY <2>1 DEF TypedAll, SessionsTyped, ConnSessions
  <2>3. \A e \in Devices : \A f : Underway(e, f)' => \/ Underway(e, f)
                               \/ /\ key[1] \in DOMAIN registered /\ e = key[1][1]
                                  /\ f = [on |-> registered[key[1]], kind |-> "ack"]
    <3>1. CASE mail' = Sent(key[1], "ack")
      BY <1>1, <1>2, <3>1, SentIs
    <3> QED BY <2>1, <3>1, CarriedSame
  <2>4. \A e \in Devices : \A f : Underway(e, f) => Underway(e, f)'
    <3>1. CASE mail' = Sent(key[1], "ack")
      BY <1>1, <1>2, <3>1, SentIs
    <3> QED BY <2>1, <3>1, CarriedSame
  <2>5. ASSUME NEW e \in Devices, NEW id, id = <<e, streamOf[e]>> PROVE SocketKept(e, id)
    <3>1. ToldToGo(e) => ToldToGo(e)'
      BY <2>1, <2>4, ToldIs
    <3>2. Greeted(e)' => Greeted(e)
      <4>1. CASE id = key[1]
        BY <2>1, <2>5, <4>1, GreetedIs
      <4>2. CASE id # key[1]
        <5>1. ASSUME NEW f, Underway(e, f)', f.on = streamOf[e], ~Underway(e, f) PROVE FALSE
          BY <2>3, <5>1, <1>2, IdIs, <2>5, <4>2 DEF NothingAhead
        <5>2. ASSUME NEW f, Underway(e, f)', f.on = streamOf'[e], f.kind = "ack" PROVE Greeted(e)
          BY <2>1, <5>1, <5>2, GreetedIs
        <5>3. ASSUME NEW k \in DOMAIN chains', k[1] = <<e, streamOf'[e]>>, chains'[k].task.pc \in {"enforce", "evict"}
              PROVE  Greeted(e)
          BY <2>1, <5>3, GreetedIs DEF NonePast
        <5>4. e \in acked' => Greeted(e)
          BY <2>1, GreetedIs
        <5> QED BY <5>2, <5>3, <5>4, GreetedIs
      <4> QED BY <4>1, <4>2
    <3> QED BY <2>1, <2>2, <3>1, <3>2 DEF SocketKept
  <2>6. \A e \in acked' : streamOf'[e] # 0
    BY <2>1 DEF SocketsKnown
  <2> QED BY <2>1, <2>5, <2>6, SocketsStill
<1> QED BY <1>5, <1>6, <1>7, <1>8, <1>9, <1>10, <1>11, <1>12

\* So does the end of a disconnect.
LEMMA DrainedSockets ==
  ASSUME TypedAll, NothingAhead, SocketsKnown, wire = "ws", NEW r \in drains, Drained(r)
  PROVE  SocketsKnown'
  BY DismissedSockets DEF Drained, NonePast, connDeviceVars

-----------------------------------------------------------------------------
(* The invariant.                                                          *)

\* At the start no device is connected.
LEMMA ConnStarts == ASSUME ConnInit PROVE ConnIInv
<1>1. /\ wire \in Wires /\ connLeft = ConnBound[wire] /\ MaxOpens = 1 + ConnBound[wire].opens
      /\ connLeft \in [ConnBounds -> Nat]
  BY ConnAssumption DEF ConnInit, MaxOpens, ConnBounds
<1>2. connLeft["opens"] \in Nat /\ connLeft["opens"] < MaxOpens
  BY <1>1 DEF ConnBounds
<1>3. DevicesTyped
  BY <1>1, <1>2 DEF ConnInit, DevicesTyped
<1>4. WiresTyped
  BY EmptySeq DEF ConnInit, WiresTyped
<1>5. DOMAIN session = {} /\ DOMAIN chains = {} /\ DOMAIN registered = {}
  BY DEF ConnInit
<1>6. SessionsTyped
  BY <1>5, FS_EmptySet DEF ConnInit, SessionsTyped
<1>7. QueuesTyped
  BY ConnAssumption, <1>5, FS_EmptySet DEF ConnInit, QueuesTyped
<1>8. ConnTypeOK /\ ConnShape
  BY <1>1, <1>3, <1>4, <1>6, <1>7, TypesTogether
<1>9. NothingAhead
  BY <1>5, EmptySeq DEF ConnInit, NothingAhead
<1>10. \A id : QueuesOf(id) = {}
  BY <1>5 DEF QueuesOf
<1>11. QueuesCounted
  <2>1. \A id : Cardinality(QueuesOf(id)) = 0
    BY <1>10, FS_EmptySet
  <2>2. \A id \in Ids : current[id] = 0
    BY DEF ConnInit
  <2> QED BY <1>5, <2>1, <2>2 DEF QueuesCounted
<1>12. OneRuns
  BY <1>10 DEF OneRuns
<1>13. \A u : SessionsOf(u) = {} /\ Settled(u) = {}
  BY <1>5 DEF SessionsOf, Settled
<1>14. BucketsHold
  BY <1>5, <1>13 DEF ConnInit, BucketsHold, BucketsAgree
<1>15. CapKept
  BY <1>13, FS_EmptySet, ConnAssumption DEF CapKept
<1>16. SocketsKnown
  BY DEF ConnInit, SocketsKnown, SocketKnown
<1> QED BY <1>8, <1>9, <1>11, <1>12, <1>14, <1>15, <1>16 DEF ConnIInv

\* The invariant after a step, from its parts.
LEMMA PartsPrimed ==
  ASSUME TypedAll', NothingAhead', QueuesCounted', OneRuns', BucketsHold', CapKept', SocketsKnown'
  PROVE  ConnIInv'
<1>1. ConnTypeOK'
  BY DEF TypedAll, ConnTypeOK, DevicesTyped, WiresTyped, SessionsTyped, QueuesTyped
<1>2. ConnShape'
  BY DEF TypedAll, ConnShape, DevicesTyped, WiresTyped, SessionsTyped, QueuesTyped, ConnMail,
         ConnSessions, ConnQueues
<1> QED BY <1>1, <1>2 DEF ConnIInv

\* What is under way to open, to close, to read, and to hear of.
LEMMA StreamsKeep ==
  ASSUME ConnIInv, NEW d \in Devices,
         \/ Open(d) \/ Break(d) \/ Reap(d) \/ Receive(d) \/ \E e \in endings : Ended(e[1], e[2])
  PROVE  ConnIInv'
<1>1. TypedAll /\ ConnShape /\ NothingAhead /\ QueuesCounted /\ OneRuns /\ BucketsHold /\ CapKept /\ SocketsKnown
      /\ current \in [Ids -> Nat]
  BY TypesTogether DEF ConnIInv, TypedAll, ConnShape
<1>2. UNCHANGED <<wire, chains>>
  BY DEF Open, Break, Reap, Receive, Ended, queueVars
<1>3. CapKept'
  BY <1>1, StreamsCap
<1>4. CASE Open(d)
  <2>1. TypedAll' /\ NothingAhead' /\ OneRuns' /\ BucketsHold'
    BY <1>1, <1>4, OpenTyped, OpenAhead, OpenOneRuns, OpenBuckets
  <2>2. QueuesCounted'
    BY <1>4, <1>1, <1>2, CountedSame DEF Open, queueVars
  <2>3. SocketsKnown'
    BY <1>1, <1>2, <1>4, OpenSockets DEF SocketsKnown
  <2> QED BY <1>3, <2>1, <2>2, <2>3, PartsPrimed
<1>5. CASE Break(d) \/ Reap(d) \/ Receive(d) \/ \E e \in endings : Ended(e[1], e[2])
  <2>1. TypedAll' /\ NothingAhead'
    BY <1>1, <1>5, StreamsTyped, StreamsAhead, AheadKeeps
  <2>2. CASE Break(d) \/ Receive(d)
    <3>1. UNCHANGED <<session, births, bucket, current, overtaken, announcedIds>>
      BY <2>2 DEF Break, Receive, queueVars, sessVars, wireSideVars
    <3>2. NothingStarts /\ QueuesCounted'
      BY <1>1, <1>2, <3>1, CountedSame DEF NothingStarts, NoneBusier, BusyQueue, Working
    <3>3. OneRuns' /\ BucketsHold'
      BY <1>1, <1>2, <3>1, <3>2, OneRunsStill, BucketsSame
    <3>4. SocketsKnown'
      BY <1>1, <1>2, <2>2, BreakSockets, ReceiveSockets DEF SocketsKnown
    <3> QED BY <1>3, <2>1, <3>2, <3>3, <3>4, PartsPrimed
  <2>3. ASSUME NEW id, Forgotten(id), UNCHANGED <<births, overtaken>>, announcedIds \ {id} \subseteq announcedIds',
               SocketsKnown'
        PROVE  ConnIInv'
    <3>1. NothingStarts /\ QueuesCounted'
      BY <1>1, <1>2, <2>3, ForgottenStarts, <2>1, IdsStay, CountedSame DEF TypedAll, QueuesTyped
    <3>2. OneRuns' /\ BucketsHold'
      BY <1>1, <1>2, <2>3, <3>1, OneRunsStill, BucketsForgotten
    <3> QED BY <1>3, <2>1, <2>3, <3>1, <3>2, PartsPrimed
  <2>4. CASE Reap(d)
    BY <1>2, <2>4, <2>3 DEF Reap, SocketsKnown
  <2>5. ASSUME NEW e \in endings, Ended(e[1], e[2]) PROVE ConnIInv'
    BY <1>1, <1>2, <2>5, EndedSockets, <2>3 DEF SocketsKnown, Ended
  <2> QED BY <1>5, <2>2, <2>4, <2>5
<1> QED BY <1>4, <1>5

\* Sending a frame keeps the invariant.
LEMMA SayKeeps ==
  ASSUME ConnIInv, NEW d \in Devices, NEW m \in ConnFrames, Say(d, m)
  PROVE  ConnIInv'
<1>1. TypedAll /\ ConnShape /\ NothingAhead /\ QueuesCounted /\ OneRuns /\ BucketsHold /\ CapKept /\ SocketsKnown
  BY TypesTogether DEF ConnIInv, TypedAll
<1>2. TypedAll' /\ NothingAhead' /\ QueuesCounted' /\ OneRuns' /\ CapKept'
  BY <1>1, SayTyped, SayAhead, AheadKeeps, SayCounted, SayOneRuns, SayCap
<1>3. UNCHANGED <<wire, session, births, bucket, announcedIds>>
  BY DEF Say, sessVars, wireSideVars
<1>4. BucketsHold'
  BY <1>1, <1>3, BucketsSame
<1>5. SocketsKnown'
  BY <1>1, <1>3, SaySockets DEF SocketsKnown
<1> QED BY <1>2, <1>4, <1>5, PartsPrimed

\* Each stage of handling a frame keeps it.
LEMMA TasksKeep ==
  ASSUME ConnIInv, NEW key \in DOMAIN chains,
         \/ Start(key) \/ TurnAway(key) \/ Work(key) \/ Authenticated(key) \/ Refused(key)
         \/ Evict(key) \/ Evicted(key) \/ Welcomes(key)
  PROVE  ConnIInv'
<1>1. TypedAll /\ ConnShape /\ NothingAhead /\ QueuesCounted /\ OneRuns /\ BucketsHold /\ CapKept /\ SocketsKnown
      /\ current \in [Ids -> Nat]
  BY TypesTogether DEF ConnIInv, TypedAll, ConnShape
<1>2. TypedAll' /\ NoneOpened /\ DOMAIN chains' = DOMAIN chains /\ BucketsHold' /\ CapKept'
  BY <1>1, TasksTyped, TasksAhead, TasksBuckets, TasksCap
<1>3. NothingAhead' /\ UNCHANGED wire
  BY <1>1, <1>2, AheadKeeps DEF NoneOpened
<1>4. Ids' = Ids /\ current' \in [Ids -> Nat]
  BY <1>2, <1>3, IdsStay DEF TypedAll, QueuesTyped
<1>5. OneRuns' /\ \A id \in Ids : current'[id] \in {0, current[id]}
  <2>1. CASE Start(key)
    BY <1>1, <2>1, StartOneRuns
  <2>2. CASE ~Start(key)
    BY <1>1, <2>2, TasksStart, OneRunsStill
  <2> QED BY <2>1, <2>2
<1>6. QueuesCounted'
  BY <1>1, <1>2, <1>3, <1>4, <1>5, CountedSame
<1>7. SocketsKnown'
  BY <1>1, <1>3, TasksSockets DEF SocketsKnown
<1> QED BY <1>2, <1>3, <1>5, <1>6, <1>7, PartsPrimed

\* The end of a disconnect keeps it.
LEMMA DrainedKeeps == ASSUME ConnIInv, NEW r \in drains, Drained(r) PROVE ConnIInv'
<1>1. TypedAll /\ ConnShape /\ NothingAhead /\ QueuesCounted /\ OneRuns /\ BucketsHold /\ CapKept /\ SocketsKnown
      /\ current \in [Ids -> Nat]
  BY TypesTogether DEF ConnIInv, TypedAll, ConnShape
<1>2. TypedAll' /\ NothingAhead'
  BY <1>1, DrainedTyped, DrainedAhead, AheadKeeps
<1>3. Forgotten(r.id) /\ UNCHANGED <<wire, chains, births, overtaken, announcedIds>>
  BY DEF Drained
<1>4. NothingStarts /\ QueuesCounted'
  BY <1>1, <1>2, <1>3, ForgottenStarts, CountedSame, IdsStay DEF TypedAll, QueuesTyped
<1>5. OneRuns' /\ BucketsHold'
  BY <1>1, <1>3, <1>4, OneRunsStill, BucketsForgotten
<1>6. CapKept'
  BY <1>1, <1>3, ForgottenIs, SettlesSame, CapStill, TypesTogether DEF TypedAll
<1>7. SocketsKnown'
  BY <1>1, <1>3, DrainedSockets DEF SocketsKnown
<1> QED BY <1>2, <1>4, <1>5, <1>6, <1>7, PartsPrimed

\* So every step keeps it.
LEMMA ConnKeeps == ASSUME ConnIInv, [ConnNext]_connVars PROVE ConnIInv'
<1>1. ASSUME NEW d \in Devices, Open(d) \/ Break(d) \/ Reap(d) \/ Receive(d) PROVE ConnIInv'
  BY <1>1, StreamsKeep
<1>2. ASSUME NEW d \in Devices, NEW m \in ConnFrames, Say(d, m) PROVE ConnIInv'
  BY <1>2, SayKeeps
<1>3. \A d \in Devices : \A u \in Tokens[d] :
        [type |-> "hello", user |-> u] \in ConnFrames /\ [type |-> "auth", user |-> u] \in ConnFrames
  BY ConnAssumption DEF ConnFrames, ConnGreets
<1>4. [type |-> "work"] \in ConnFrames
  BY DEF ConnFrames
<1>5. ASSUME NEW e \in endings, Ended(e[1], e[2]) PROVE ConnIInv'
  BY IdIs, <1>5, StreamsKeep DEF ConnIInv, ConnShape
<1>6. ASSUME NEW key \in DOMAIN chains,
             \/ Start(key) \/ TurnAway(key) \/ Work(key) \/ Authenticated(key) \/ Refused(key)
             \/ Evict(key) \/ Evicted(key) \/ Welcomes(key)
      PROVE  ConnIInv'
  BY <1>6, TasksKeep
<1>7. ASSUME NEW r \in drains, Drained(r) PROVE ConnIInv'
  BY <1>7, DrainedKeeps
<1>8. CASE UNCHANGED connVars
  <2>1. UNCHANGED <<wire, streamOf, opened, acked, greeted, mail, registered, announcedIds, endings,
                    session, births, bucket, chains, current, depth, drains, overtaken, connLeft>>
    BY <1>8 DEF connVars, connDeviceVars, wireSideVars, sessVars, queueVars
  <2>2. TypedAll /\ NothingAhead /\ QueuesCounted /\ OneRuns /\ BucketsHold /\ CapKept /\ SocketsKnown
        /\ ConnShape /\ current \in [Ids -> Nat]
    BY TypesTogether DEF ConnIInv, TypedAll, ConnShape
  <2>3. TypedAll'
    BY <2>1, <2>2, DevicesTypedSame, WiresTypedSame, SessionsTypedSame, QueuesTypedSame DEF TypedAll
  <2>4. NothingAhead'
    BY <2>1, CarriedSame, <2>2, AheadKeeps DEF NoneOpened, LinesAhead
  <2>5. NothingStarts /\ QueuesCounted'
    BY <2>1, <2>2, CountedSame DEF NothingStarts, NoneBusier, BusyQueue, Working
  <2>6. OneRuns' /\ BucketsHold'
    BY <2>1, <2>2, <2>5, OneRunsStill, BucketsSame
  <2>7. CapKept'
    BY <2>1, <2>2, SettlesSame, CapStill
  <2>8. SocketsKnown'
    BY <2>1, <2>2 DEF SocketsKnown, SocketKnown, ToldToGo, Greeted, QueuesOf
  <2> QED BY <2>3, <2>4, <2>5, <2>6, <2>7, <2>8, PartsPrimed
<1> QED BY <1>1, <1>2, <1>3, <1>4, <1>5, <1>6, <1>7, <1>8 DEF ConnNext

\* What the run checks, of any state the invariant holds in.
LEMMA ConnMeans == ASSUME ConnIInv PROVE ConnInv
<1>1. OneAtATime
  <2> SUFFICES ASSUME NEW id \in Ids \ overtaken
               PROVE  Cardinality({k \in DOMAIN chains : k[1] = id /\ chains[k].task.pc = "working"}) <= 1
    BY DEF OneAtATime
  <2> DEFINE S == {k \in DOMAIN chains : k[1] = id /\ chains[k].task.pc = "working"}
  <2>1. \A k, l \in S : k = l
    BY DEF ConnIInv, OneRuns, QueuesOf, Working
  <2> HIDE DEF S
  <2>2. ASSUME S = {} PROVE Cardinality(S) <= 1
    BY <2>2, FS_EmptySet
  <2>3. ASSUME S # {} PROVE Cardinality(S) <= 1
    <3>1. PICK k : k \in S /\ S = {k}
      <4>1. PICK k \in S : TRUE
        BY <2>3
      <4>2. S = {k}
        BY <2>1, <4>1
      <4> QED BY <4>1, <4>2
    <3>2. Cardinality(S) = 1
      BY <3>1, FS_Singleton
    <3> QED BY <3>2
  <2>4. Cardinality(S) <= 1
    BY <2>2, <2>3
  <2> QED BY <2>4 DEF S
<1>2. CapHolds
  <2> SUFFICES ASSUME NEW u \in Accounts, \A k \in DOMAIN chains : chains[k].task.pc \notin {"enforce", "evict"},
                      Cardinality(SessionsOf(u)) > Cap, \A id \in SessionsOf(u) : ~session[id].spared
               PROVE  FALSE
    BY DEF CapHolds
  <2>1. Settled(u) = SessionsOf(u)
    BY DEF Settled, AtCap, QueuesOf
  <2>2. Cardinality(SessionsOf(u)) <= Cap
    BY <2>1 DEF ConnIInv, CapKept
  <2>3. IsFiniteSet(SessionsOf(u))
    BY FS_Subset DEF ConnIInv, ConnShape, SessionsOf
  <2>4. Cardinality(SessionsOf(u)) \in Nat /\ Cap \in Nat
    BY <2>3, FS_CardinalityType, ConnAssumption
  <2> QED BY <2>2, <2>4
<1>3. AckMeansSession
  <2> SUFFICES ASSUME wire = "ws", NEW d \in acked, ~ToldToGo(d)
               PROVE  LET id == IdOf(d, streamOf[d]) IN id \in DOMAIN session /\ session[id].user # "none"
    <3>1. ASSUME NEW d \in acked, ToldToGo(d)
          PROVE  \E k \in DOMAIN mail[d] : mail[d][k].on = streamOf[d] /\ mail[d][k].kind # "ack"
      BY <3>1 DEF ToldToGo
    <3> QED BY <3>1 DEF AckMeansSession
  <2>1. SocketKnown(d) /\ streamOf[d] # 0 /\ Greeted(d)
    BY DEF ConnIInv, SocketsKnown, ConnShape, Greeted
  <2> QED BY <2>1 DEF SocketKnown, IdOf
<1> QED BY <1>1, <1>2, <1>3 DEF ConnIInv, ConnInv, BucketsHold

\* Sessions hold what is promised of them: a user's sessions are the bucket, no more than
\* the cap unless one was spared; an id's frames are worked on one at a time; and a socket
\* that has its acknowledgement has a session, or is being told to go.
THEOREM ConnAlwaysHolds == ConnSpec => []ConnInv
<1>1. ConnInit => ConnIInv
  BY ConnStarts
<1>2. ConnIInv /\ [ConnNext]_connVars => ConnIInv'
  BY ConnKeeps
<1>3. ConnIInv => ConnInv
  BY ConnMeans
<1> QED BY <1>1, <1>2, <1>3, PTL DEF ConnSpec

-----------------------------------------------------------------------------
(* Delivery.                                                               *)

DelivFrames == [table : Tables, from : Nat]
Kept        == [id : Nat, delivered : BOOLEAN]

\* The types, and that every number is of a frame that was sent.
DelivShape ==
  /\ carrier \in Carriers /\ live \in BOOLEAN /\ hears \in BOOLEAN
  /\ frames \in Seq(DelivFrames) /\ cachedTo \in [Tables -> Nat]
  /\ travelling \in Seq(Nat) /\ buffered \in Seq(Kept) /\ got \in Seq(Nat)
  /\ sink \in Nat /\ answers \in Seq(Seq(Nat)) /\ postings \subseteq DOMAIN answers
  /\ crossed \in BOOLEAN /\ afresh \in BOOLEAN /\ replied \subseteq Nat

NumbersAreSent ==
  /\ \A n \in DOMAIN frames : frames[n].from < n
  /\ \A k \in DOMAIN travelling : travelling[k] \in DOMAIN frames
  /\ \A k \in DOMAIN buffered : buffered[k].id \in DOMAIN frames
  /\ \A p \in DOMAIN answers : \A k \in DOMAIN answers[p] : answers[p][k] \in DOMAIN frames

\* What the carriers have to themselves: only POSTs are answered, a function that
\* answers them has no stream, and what is polled for waits undelivered.
CarriersDiffer ==
  /\ carrier # "serverless" => postings = {}
  /\ carrier = "serverless" => ~live
  /\ carrier = "polling" => live /\ \A k \in DOMAIN buffered : ~buffered[k].delivered

\* Until POSTs overlap there is one, and it collects the replies.
OnePosts == ~crossed => \A p \in postings : postings = {p} /\ sink = p

\* The buffer of an event stream holds the latest frames, and has thrown out the others.
BufferIsLatest ==
  LET before == Len(frames) - Len(buffered) IN
  /\ before >= 0
  /\ \A k \in DOMAIN buffered : buffered[k].id = before + k /\ buffered[k].delivered
  /\ \A n \in 1..before : n \in evicted

\* On an open stream are the frames since the last one received, but for those that
\* were thrown out.
StreamIsLatest ==
  LET before == Len(frames) - Len(travelling) IN
  /\ LastEventId <= before
  /\ \A k \in DOMAIN travelling : travelling[k] = before + k
  /\ got # <<>> \/ ~afresh => \A n \in LastEventId + 1..before : n \in evicted

StreamsResume ==
  carrier = "sse" =>
    /\ BufferIsLatest
    /\ IF hears THEN live /\ StreamIsLatest ELSE travelling = <<>>
    /\ ~afresh => \A n \in 1..LastEventId : Contains(got, n) \/ n \in evicted

DelivIInv ==
  /\ DelivTypeOK /\ DelivShape /\ NumbersAreSent /\ CarriersDiffer /\ OnePosts /\ StreamsResume
  /\ CacheHasLanded /\ RepliesReturn /\ StreamInOrder

-----------------------------------------------------------------------------
(* Sequences.                                                              *)

\* What a sequence holds after an Append.
LEMMA AppendedIs ==
  ASSUME NEW S, NEW s \in Seq(S), NEW x \in S
  PROVE  /\ Append(s, x) \in Seq(S) /\ Len(Append(s, x)) = Len(s) + 1 /\ Len(s) \in Nat
         /\ DOMAIN s = 1..Len(s) /\ DOMAIN Append(s, x) = 1..Len(s) + 1
         /\ \A k \in 1..Len(s) : Append(s, x)[k] = s[k] /\ k \in 1..Len(s) + 1
         /\ Append(s, x)[Len(s) + 1] = x /\ Append(s, x) # <<>>
         /\ \A y : Contains(Append(s, x), y) <=> Contains(s, y) \/ y = x
<1>1. /\ Append(s, x) \in Seq(S) /\ Len(Append(s, x)) = Len(s) + 1 /\ Len(s) \in Nat
      /\ \A k \in 1..Len(s) : Append(s, x)[k] = s[k] /\ k \in 1..Len(s) + 1
      /\ Append(s, x)[Len(s) + 1] = x /\ Len(s) + 1 \in 1..Len(s) + 1
      /\ \A k \in 1..Len(s) + 1 : k \in 1..Len(s) \/ k = Len(s) + 1
  BY AppendProperties
<1>2. Append(s, x) # <<>>
  BY <1>1, EmptySeq
<1>3. \A y : Contains(Append(s, x), y) <=> Contains(s, y) \/ y = x
  BY <1>1 DEF Contains
<1> QED BY <1>1, <1>2, <1>3

\* What is left of a sequence without its head.
LEMMA TailIs ==
  ASSUME NEW S, NEW s \in Seq(S), s # <<>>
  PROVE  /\ Head(s) \in S /\ Head(s) = s[1] /\ Tail(s) \in Seq(S) /\ Len(s) \in Nat \ {0} /\ 1 \in 1..Len(s)
         /\ Len(Tail(s)) = Len(s) - 1
         /\ DOMAIN s = 1..Len(s) /\ DOMAIN Tail(s) = 1..Len(s) - 1
         /\ \A k \in 1..Len(s) - 1 : Tail(s)[k] = s[k + 1] /\ k + 1 \in 1..Len(s)
         /\ \A y : Contains(s, y) <=> Contains(Tail(s), y) \/ y = Head(s)
<1>1. /\ Head(s) \in S /\ Head(s) = s[1] /\ Tail(s) \in Seq(S) /\ Len(s) \in Nat \ {0}
      /\ Len(Tail(s)) = Len(s) - 1 /\ 1 \in 1..Len(s)
      /\ \A k \in 1..Len(s) - 1 : Tail(s)[k] = s[k + 1] /\ k + 1 \in 1..Len(s)
  BY HeadTailProperties, EmptySeq
<1>2. \A k \in 1..Len(s) : k = 1 \/ (k - 1 \in 1..Len(s) - 1 /\ (k - 1) + 1 = k)
  BY <1>1
<1>3. \A y : Contains(s, y) => Contains(Tail(s), y) \/ y = Head(s)
  BY <1>1, <1>2 DEF Contains
<1>4. \A y : Contains(Tail(s), y) \/ y = Head(s) => Contains(s, y)
  BY <1>1 DEF Contains
<1> QED BY <1>1, <1>3, <1>4

\* What two sequences hold together.
LEMMA JoinedIs ==
  ASSUME NEW S, NEW s \in Seq(S), NEW t \in Seq(S)
  PROVE  /\ s \o t \in Seq(S) /\ Len(s \o t) = Len(s) + Len(t) /\ Len(s) \in Nat /\ Len(t) \in Nat
         /\ \A k \in DOMAIN (s \o t) : (s \o t)[k] = IF k <= Len(s) THEN s[k] ELSE t[k - Len(s)]
         /\ \A y : Contains(s \o t, y) <=> Contains(s, y) \/ Contains(t, y)
<1>1. /\ s \o t \in Seq(S) /\ Len(s \o t) = Len(s) + Len(t) /\ Len(s) \in Nat /\ Len(t) \in Nat
      /\ \A k \in 1..Len(s) + Len(t) : (s \o t)[k] = IF k <= Len(s) THEN s[k] ELSE t[k - Len(s)]
      /\ DOMAIN (s \o t) = 1..Len(s) + Len(t)
  BY ConcatProperties
<1>2. \A k \in 1..Len(s) + Len(t) : k \in 1..Len(s) \/ (k > Len(s) /\ k - Len(s) \in 1..Len(t))
  BY <1>1
<1>3. \A k \in 1..Len(s) : k \in 1..Len(s) + Len(t) /\ k <= Len(s)
  BY <1>1
<1>4. \A k \in 1..Len(t) : k + Len(s) \in 1..Len(s) + Len(t) /\ ~(k + Len(s) <= Len(s)) /\ (k + Len(s)) - Len(s) = k
  BY <1>1
<1>5. \A y : Contains(s \o t, y) => Contains(s, y) \/ Contains(t, y)
  BY <1>1, <1>2 DEF Contains
<1>6. \A y : Contains(s, y) => Contains(s \o t, y)
  BY <1>1, <1>3 DEF Contains
<1>7. ASSUME NEW y, Contains(t, y) PROVE Contains(s \o t, y)
  <2>1. PICK k \in 1..Len(t) : t[k] = y
    BY <1>7 DEF Contains
  <2>2. (s \o t)[k + Len(s)] = y /\ k + Len(s) \in 1..Len(s \o t)
    BY <1>1, <1>4, <2>1
  <2> QED BY <2>2 DEF Contains
<1> QED BY <1>1, <1>5, <1>6, <1>7

-----------------------------------------------------------------------------
(* A frame more, and what has landed of it.                                *)

\* Room is made for the frame that is kept.
LEMMA TrimmedIs ==
  ASSUME NEW buf \in Seq(Kept), Len(buf) <= BufferSize + 1
  PROVE  /\ Trimmed(buf) \in Seq(Kept) /\ Len(Trimmed(buf)) <= BufferSize
         /\ IF Overflowing(buf)
            THEN /\ Len(Trimmed(buf)) = Len(buf) - 1 /\ buf # <<>> /\ Head(buf) = buf[1] /\ Len(buf) = BufferSize + 1
                 /\ \A k \in 1..Len(buf) - 1 : Trimmed(buf)[k] = buf[k + 1]
                 /\ \A x : Contains(buf, x) => x = Head(buf) \/ Contains(Trimmed(buf), x)
            ELSE Trimmed(buf) = buf
<1>1. Len(buf) \in Nat /\ BufferSize \in Nat \ {0}
  BY DelivAssumption
<1>2. CASE Overflowing(buf)
  BY <1>1, <1>2, EmptySeq, TailIs DEF Overflowing, Trimmed
<1>3. CASE ~Overflowing(buf)
  BY <1>1, <1>3 DEF Overflowing, Trimmed
<1> QED BY <1>2, <1>3

\* A frame is sent of the table's changes since the cache.
Sending(t) == frames' = Append(frames, [table |-> t, from |-> cachedTo[t]])

\* A frame that is sent gets the next number, and its base was sent before it.
LEMMA SendingIs ==
  ASSUME DelivShape, DelivTypeOK, NumbersAreSent, NEW t \in Tables, Sending(t)
  PROVE  /\ frames' \in Seq(DelivFrames) /\ Len(frames') = Len(frames) + 1 /\ Len(frames) \in Nat
         /\ DOMAIN frames = 1..Len(frames) /\ DOMAIN frames' = 1..Len(frames) + 1
         /\ \A n \in DOMAIN frames : n \in DOMAIN frames' /\ frames'[n] = frames[n] /\ n < Len(frames) + 1
         /\ Len(frames) + 1 \in DOMAIN frames'
         /\ frames'[Len(frames) + 1] = [table |-> t, from |-> cachedTo[t]]
         /\ \A n \in DOMAIN frames' : frames'[n].from < n
<1>1. [table |-> t, from |-> cachedTo[t]] \in DelivFrames /\ cachedTo[t] \in 0..Len(frames)
  BY DEF DelivShape, DelivFrames, DelivTypeOK
<1>2. frames \in Seq(DelivFrames)
  BY DEF DelivShape
<1>3. /\ frames' \in Seq(DelivFrames) /\ Len(frames') = Len(frames) + 1 /\ Len(frames) \in Nat
      /\ DOMAIN frames = 1..Len(frames) /\ DOMAIN frames' = 1..Len(frames) + 1
      /\ \A n \in 1..Len(frames) : frames'[n] = frames[n] /\ n \in 1..Len(frames) + 1
      /\ frames'[Len(frames) + 1] = [table |-> t, from |-> cachedTo[t]]
  BY <1>1, <1>2, AppendedIs DEF Sending
<1>4. Len(frames) + 1 \in 1..Len(frames) + 1 /\ \A n \in 1..Len(frames) : n < Len(frames) + 1
  BY <1>3
<1>5. ASSUME NEW n \in 1..Len(frames) + 1 PROVE frames'[n].from < n
  <2>1. CASE n \in 1..Len(frames)
    BY <1>3, <2>1 DEF NumbersAreSent
  <2>2. CASE n = Len(frames) + 1
    BY <1>1, <1>3, <2>2
  <2> QED BY <1>3, <2>1, <2>2
<1> QED BY <1>3, <1>4, <1>5

\* Frame n has landed, will, or was thrown out.
Settles(n) == Lands(n) \/ n \in evicted
Attends    == live /\ hears /\ ~afresh

\* The cache takes a frame that lands, or what has landed stays.
LEMMA LandedMore ==
  ASSUME DelivShape, DelivTypeOK, NumbersAreSent, CacheHasLanded, NEW t \in Tables, Sending(t),
         NEW id, id = Len(frames) + 1, Attends' => Attends, Attends => \A n \in DOMAIN frames : Settles(n) => Settles(n)',
         \/ cachedTo' = cachedTo
         \/ cachedTo' = [cachedTo EXCEPT ![t] = id] /\ (Attends' => Settles(id)')
  PROVE  CacheHasLanded'
<1>1. /\ DOMAIN frames = 1..Len(frames) /\ DOMAIN frames' = 1..id /\ Len(frames) \in Nat
      /\ \A n \in DOMAIN frames : n \in DOMAIN frames' /\ frames'[n] = frames[n] /\ n < id
      /\ id \in DOMAIN frames' /\ frames'[id] = [table |-> t, from |-> cachedTo[t]]
      /\ frames' \in Seq(DelivFrames) /\ Len(frames') = id
  BY SendingIs
<1>2. \A s \in Tables : cachedTo[s] \in 0..Len(frames)
  BY DEF DelivTypeOK
<1>3. cachedTo \in [Tables -> Nat] /\ \A n \in DOMAIN frames' : frames'[n].table \in Tables
  <2>1. \A n \in DOMAIN frames' : frames'[n] \in DelivFrames
    BY <1>1, ElementOfSeq
  <2>2. \A f \in DelivFrames : f.table \in Tables
    BY DEF DelivFrames
  <2> QED BY <2>1, <2>2 DEF DelivShape
<1>4. ASSUME Attends', NEW n \in DOMAIN frames', n <= cachedTo'[frames'[n].table]
      PROVE  \E m \in DOMAIN frames' : Carries(m, n)' /\ Settles(m)'
  <2>1. CASE n \in DOMAIN frames /\ n <= cachedTo[frames[n].table]
    <3>1. PICK m \in DOMAIN frames : Carries(m, n) /\ Settles(m)
      BY <1>4, <2>1 DEF CacheHasLanded, Attends, Settles
    <3>2. Carries(m, n)' /\ Settles(m)'
      BY <1>1, <1>4, <2>1, <3>1 DEF Carries
    <3> QED BY <1>1, <3>1, <3>2
  <2>2. CASE ~(n \in DOMAIN frames /\ n <= cachedTo[frames[n].table])
    <3>1. n = id \/ (n \in DOMAIN frames /\ frames'[n] = frames[n])
      BY <1>1
    <3>2. /\ cachedTo' = [cachedTo EXCEPT ![t] = id] /\ frames'[n].table = t /\ n > cachedTo[t]
      <4>1. CASE n = id
        BY <1>1, <1>2, <1>4, <4>1
      <4>2. CASE n \in DOMAIN frames /\ frames'[n] = frames[n]
        BY <1>4, <2>2, <4>2, <1>3, <1>1
      <4> QED BY <3>1, <4>1, <4>2
    <3>3. Settles(id)'
      BY <1>4, <3>2, <1>2, <1>1, <1>3
    <3>4. Carries(id, n)'
      BY <1>1, <3>2 DEF Carries
    <3> QED BY <1>1, <3>3, <3>4
  <2> QED BY <2>1, <2>2
<1> QED BY <1>4 DEF CacheHasLanded, Attends, Settles

\* Nothing is sent, and what has landed stays.
LEMMA LandedSame ==
  ASSUME DelivShape, CacheHasLanded, UNCHANGED frames,
         \/ UNCHANGED cachedTo /\ (Attends' => Attends) /\ (\A n \in DOMAIN frames : Settles(n) => Settles(n)')
         \/ cachedTo' = [t \in Tables |-> 0]
  PROVE  CacheHasLanded'
<1>1. DOMAIN frames = 1..Len(frames) /\ \A n \in DOMAIN frames : frames[n].table \in Tables
  <2>1. frames \in Seq(DelivFrames) /\ DOMAIN frames = 1..Len(frames)
    BY DEF DelivShape
  <2>2. \A n \in DOMAIN frames : frames[n] \in DelivFrames
    BY <2>1, ElementOfSeq
  <2>3. \A f \in DelivFrames : f.table \in Tables
    BY DEF DelivFrames
  <2> QED BY <2>1, <2>2, <2>3
<1>2. CASE UNCHANGED cachedTo /\ (Attends' => Attends) /\ (\A n \in DOMAIN frames : Settles(n) => Settles(n)')
  BY <1>1, <1>2 DEF CacheHasLanded, Carries, Attends, Settles
<1>3. CASE cachedTo' = [t \in Tables |-> 0]
  BY <1>1, <1>3 DEF CacheHasLanded
<1> QED BY <1>2, <1>3

-----------------------------------------------------------------------------
(* The steps that send nothing.                                            *)

\* Replies that have come back stay, as do those that will.
LEMMA RepliesStill ==
  ASSUME RepliesReturn, UNCHANGED <<replied, crossed, postings, answers>>,
         \A n : Contains(got, n) => Contains(got, n)'
  PROVE  RepliesReturn'
  BY DEF RepliesReturn

\* A stream nobody read from is still in order.
LEMMA OrderStill ==
  ASSUME StreamInOrder, UNCHANGED <<carrier, got>>, evicted \subseteq evicted'
  PROVE  StreamInOrder'
  BY DEF StreamInOrder

\* With the exchanges untouched, the sink is still that of the one under way.
LEMMA OnePostsStill == ASSUME OnePosts, UNCHANGED <<crossed, postings, sink>> PROVE OnePosts'
  BY DEF OnePosts

\* A frame the client reads goes from the stream to what it has.
LEMMA ArrivesKeeps == ASSUME DelivIInv, Arrives PROVE DelivIInv'
<1>0. PICK x : x = Head(travelling)
  OBVIOUS
<1>1. /\ travelling # <<>> /\ hears /\ got' = Append(got, x) /\ travelling' = Tail(travelling)
      /\ UNCHANGED <<carrier, live, hears, frames, cachedTo, buffered, evicted, postings, sink,
                 answers, crossed, afresh, replied>>
  BY <1>0 DEF Arrives
<1>2. DelivTypeOK /\ DelivShape /\ NumbersAreSent /\ travelling \in Seq(Nat) /\ got \in Seq(Nat)
      /\ Len(frames) \in Nat /\ DOMAIN frames = 1..Len(frames)
  BY DEF DelivIInv, DelivShape
<1>3. /\ x \in Nat /\ x = travelling[1] /\ travelling' \in Seq(Nat) /\ Len(travelling) \in Nat \ {0}
      /\ Len(travelling') = Len(travelling) - 1 /\ 1 \in 1..Len(travelling)
      /\ DOMAIN travelling = 1..Len(travelling) /\ DOMAIN travelling' = 1..Len(travelling) - 1
      /\ \A k \in 1..Len(travelling) - 1 : travelling'[k] = travelling[k + 1] /\ k + 1 \in 1..Len(travelling)
      /\ \A y : Contains(travelling, y) <=> Contains(travelling', y) \/ y = x
  BY <1>0, <1>1, <1>2, TailIs
<1>4. /\ got' \in Seq(Nat) /\ Len(got') = Len(got) + 1 /\ Len(got) \in Nat /\ got' # <<>>
      /\ DOMAIN got = 1..Len(got) /\ DOMAIN got' = 1..Len(got) + 1
      /\ \A k \in 1..Len(got) : got'[k] = got[k] /\ k \in 1..Len(got) + 1
      /\ got'[Len(got) + 1] = x
      /\ \A y : Contains(got', y) <=> Contains(got, y) \/ y = x
  BY <1>1, <1>2, <1>3, AppendedIs
<1>5. x \in DOMAIN frames
  BY <1>2, <1>3 DEF NumbersAreSent
<1>6. DelivTypeOK'
  BY <1>4, <1>1, <1>2, <1>5 DEF DelivTypeOK
<1>7. DelivShape' /\ NumbersAreSent' /\ CarriersDiffer'
  BY <1>1, <1>2, <1>3, <1>4 DEF DelivShape, NumbersAreSent, CarriersDiffer, DelivIInv
<1>8. OnePosts' /\ RepliesReturn'
  BY <1>1, <1>4, OnePostsStill, RepliesStill DEF DelivIInv
<1>9. CacheHasLanded'
  BY <1>1, <1>3, <1>4, <1>2, LandedSame DEF Settles, Lands, DelivIInv, Attends
<1>10. ASSUME carrier = "sse" PROVE StreamsResume' /\ StreamInOrder'
  <2>0. PICK before : before = Len(frames) - Len(travelling)
    OBVIOUS
  <2>1. /\ BufferIsLatest /\ live /\ LastEventId <= before
        /\ \A k \in DOMAIN travelling : travelling[k] = before + k
        /\ got # <<>> \/ ~afresh => \A n \in LastEventId + 1..before : n \in evicted
        /\ ~afresh => \A n \in 1..LastEventId : Contains(got, n) \/ n \in evicted
    BY <1>1, <1>10, <2>0 DEF DelivIInv, StreamsResume, StreamIsLatest
  <2>2. before \in Int /\ x = before + 1
    <3>1. before \in Int /\ 1 \in DOMAIN travelling
      BY <1>2, <1>3, <2>0
    <3>2. travelling[1] = before + 1
      BY <2>1, <3>1
    <3> QED BY <1>3, <3>1, <3>2
  <2>3. LastEventId' = x
    BY <1>4 DEF LastEventId, Last
  <2>4. LastEventId \in Nat
    <3>1. CASE got = <<>>
      BY <3>1 DEF LastEventId
    <3>2. CASE got # <<>>
      BY <1>2, <1>4, <3>2, EmptySeq DEF LastEventId, Last
    <3> QED BY <3>1, <3>2
  <2>5. StreamIsLatest'
    <3>1. Len(frames') - Len(travelling') = x
      BY <1>1, <1>2, <1>3, <2>0, <2>2
    <3>2. \A k \in DOMAIN travelling' : travelling'[k] = x + k
      <4> TAKE k \in DOMAIN travelling'
      <4>1. travelling'[k] = travelling[k + 1] /\ k + 1 \in DOMAIN travelling /\ k \in Nat
        BY <1>3
      <4> QED BY <2>1, <2>2, <4>1
    <3>3. \A n \in x + 1..x : FALSE
      BY <1>3
    <3> QED BY <2>3, <3>1, <3>2, <3>3, <1>3 DEF StreamIsLatest
  <2>6. ASSUME ~afresh, NEW n \in 1..x PROVE Contains(got', n) \/ n \in evicted
    BY <1>3, <2>2, <2>4, <1>4, <2>1, <2>6
  <2>7. BufferIsLatest'
    BY <1>1, <2>1 DEF BufferIsLatest
  <2>8. StreamsResume'
    BY <1>1, <2>1, <2>3, <2>5, <2>6, <2>7 DEF StreamsResume
  <2>9. ASSUME NEW k \in 2..Len(got')
        PROVE  got'[k] > got'[k-1] /\ \A n \in got'[k-1] + 1..got'[k] - 1 : n \in evicted
    <3>1. CASE k <= Len(got)
      BY <1>4, <3>1, <1>10 DEF DelivIInv, StreamInOrder
    <3>2. CASE k > Len(got)
      BY <1>4, <3>2, <2>2, <2>1, <2>4 DEF LastEventId, Last
    <3> QED BY <1>4, <3>1, <3>2
  <2>10. StreamInOrder'
    BY <1>1, <2>9 DEF StreamInOrder
  <2> QED BY <2>8, <2>10
<1>11. StreamsResume' /\ StreamInOrder'
  <2>1. CASE carrier # "sse"
    BY <1>1, <2>1 DEF StreamsResume, StreamInOrder
  <2> QED BY <1>10, <2>1
<1> QED BY <1>6, <1>7, <1>8, <1>9, <1>11 DEF DelivIInv

\* A poll takes the queue along, whole.
LEMMA PollKeeps == ASSUME DelivIInv, Poll PROVE DelivIInv'
<1>1. /\ carrier = "polling" /\ travelling = <<>> /\ buffered' = <<>>
      /\ travelling' = [k \in DOMAIN buffered |-> buffered[k].id]
      /\ UNCHANGED <<carrier, live, hears, frames, cachedTo, got, evicted, postings, sink, answers,
                 crossed, afresh, replied>>
  BY DEF Poll
<1>2. buffered \in Seq(Kept) /\ DOMAIN buffered = 1..Len(buffered) /\ Len(buffered) \in Nat
  BY DEF DelivIInv, DelivShape
<1>3. \A k \in 1..Len(buffered) : buffered[k].id \in Nat
  <2>1. \A k \in 1..Len(buffered) : buffered[k] \in Kept
    BY <1>2, ElementOfSeq
  <2> QED BY <2>1 DEF Kept
<1>4. travelling' \in Seq(Nat) /\ DOMAIN travelling' = 1..Len(buffered) /\ Len(travelling') = Len(buffered)
  BY <1>1, <1>2, <1>3, IsASeq, LenProperties
<1>5. buffered' \in Seq(Kept) /\ DOMAIN buffered' = {} /\ Len(buffered') = 0
  BY <1>1
<1>6. DelivTypeOK'
  BY <1>1, <1>5, DelivAssumption DEF DelivIInv, DelivTypeOK
<1>7. DelivShape'
  BY <1>1, <1>4, <1>5 DEF DelivIInv, DelivShape
<1>8. NumbersAreSent' /\ CarriersDiffer'
  BY <1>1, <1>2, <1>4, <1>5 DEF DelivIInv, NumbersAreSent, CarriersDiffer
<1>9. OnePosts' /\ RepliesReturn' /\ StreamInOrder' /\ StreamsResume'
  BY <1>1, OnePostsStill, RepliesStill, OrderStill DEF DelivIInv, StreamsResume
<1>10. CacheHasLanded'
  BY <1>1, <1>2, <1>4, LandedSame DEF Contains, Settles, Lands, DelivIInv, Attends
<1> QED BY <1>6, <1>7, <1>8, <1>9, <1>10 DEF DelivIInv

\* The line breaks, or is known to have, or polls again.
LEMMA CutKeeps == ASSUME DelivIInv, Cut \/ Noticed \/ Resubscribe PROVE DelivIInv'
<1>1. /\ UNCHANGED <<carrier, frames, buffered, got, evicted, postings, sink, answers, crossed, afresh, replied>>
      /\ \/ hears' = FALSE /\ travelling' = <<>> /\ UNCHANGED <<live, cachedTo>>
         \/ /\ ~hears /\ carrier # "polling" /\ live' = FALSE /\ cachedTo' = [t \in Tables |-> 0]
            /\ UNCHANGED <<hears, travelling>>
         \/ /\ carrier = "polling" /\ ~hears /\ hears' = TRUE /\ cachedTo' = [t \in Tables |-> 0]
            /\ UNCHANGED <<live, travelling>>
  BY DEF Cut, Noticed, Resubscribe
<1>2. DelivShape /\ Len(frames) \in Nat
  BY DEF DelivIInv, DelivShape
<1>3. travelling' \in Seq(Nat) /\ cachedTo' \in [Tables -> Nat] /\ live' \in BOOLEAN /\ hears' \in BOOLEAN
      /\ \A t \in Tables : cachedTo'[t] \in 0..Len(frames)
  <2>1. /\ travelling \in Seq(Nat) /\ <<>> \in Seq(Nat) /\ cachedTo \in [Tables -> Nat]
        /\ [t \in Tables |-> 0] \in [Tables -> Nat] /\ live \in BOOLEAN /\ hears \in BOOLEAN
        /\ \A t \in Tables : cachedTo[t] \in 0..Len(frames)
        /\ \A t \in Tables : [s \in Tables |-> 0][t] \in 0..Len(frames)
    BY <1>2 DEF DelivShape, DelivIInv, DelivTypeOK
  <2> QED BY <1>1, <2>1
<1>4. DelivTypeOK'
  BY <1>1, <1>3 DEF DelivTypeOK, DelivIInv
<1>5. DelivShape'
  BY <1>1, <1>2, <1>3 DEF DelivShape
<1>6. NumbersAreSent'
  BY <1>1 DEF DelivIInv, NumbersAreSent
<1>7. CarriersDiffer'
  BY <1>1 DEF DelivIInv, CarriersDiffer
<1>8. OnePosts' /\ RepliesReturn' /\ StreamInOrder'
  BY <1>1, OnePostsStill, RepliesStill, OrderStill DEF DelivIInv
<1>9. StreamsResume'
  BY <1>1 DEF BufferIsLatest, LastEventId, DelivIInv, StreamsResume
<1>10. CacheHasLanded'
  <2>1. CASE hears' = FALSE
    BY <2>1 DEF CacheHasLanded
  <2>2. CASE cachedTo' = [t \in Tables |-> 0]
    BY <1>1, <1>2, <2>2, LandedSame DEF DelivIInv
  <2> QED BY <1>1, <2>1, <2>2
<1> QED BY <1>4, <1>5, <1>6, <1>7, <1>8, <1>9, <1>10 DEF DelivIInv

\* A request opens its exchange.
LEMMA PostArrivesKeeps == ASSUME DelivIInv, PostArrives PROVE DelivIInv'
<1>0. PICK n : n = Len(answers) + 1
  OBVIOUS
<1>1. /\ carrier = "serverless" /\ postings' = postings \cup {n} /\ sink' = n /\ answers' = Append(answers, <<>>)
      /\ crossed' = (crossed \/ postings # {})
      /\ UNCHANGED <<carrier, live, hears, frames, cachedTo, travelling, buffered, got, evicted,
                 afresh, replied>>
  BY <1>0 DEF PostArrives
<1>2. DelivShape /\ answers \in Seq(Seq(Nat)) /\ <<>> \in Seq(Nat)
  BY DEF DelivIInv, DelivShape
<1>3. /\ answers' \in Seq(Seq(Nat)) /\ Len(answers') = n /\ n \in Nat \ {0} /\ Len(answers) \in Nat
      /\ DOMAIN answers = 1..Len(answers) /\ DOMAIN answers' = 1..n
      /\ \A k \in DOMAIN answers : answers'[k] = answers[k] /\ k \in DOMAIN answers' /\ k # n
      /\ answers'[n] = <<>> /\ n \in DOMAIN answers'
      /\ \A k \in DOMAIN answers' : k \in DOMAIN answers \/ k = n
  BY <1>0, <1>1, <1>2, AppendedIs
<1>4. DelivTypeOK'
  BY <1>1, <1>3 DEF DelivIInv, DelivTypeOK
<1>5. DelivShape'
  BY <1>1, <1>2, <1>3 DEF DelivShape
<1>6. NumbersAreSent' /\ CarriersDiffer'
  BY <1>1, <1>3 DEF DelivIInv, NumbersAreSent, CarriersDiffer
<1>7. OnePosts' /\ StreamInOrder' /\ StreamsResume'
  BY <1>1, OrderStill DEF DelivIInv, OnePosts, StreamsResume
<1>8. RepliesReturn'
  BY <1>1, <1>2, <1>3 DEF DelivIInv, RepliesReturn, DelivShape
<1>9. CacheHasLanded'
  BY <1>1 DEF CacheHasLanded, DelivIInv, CarriersDiffer
<1> QED BY <1>4, <1>5, <1>6, <1>7, <1>8, <1>9 DEF DelivIInv

\* An exchange that ends has its answer read.
LEMMA PostOverKeeps == ASSUME DelivIInv, NEW n \in DOMAIN answers, PostOver(n) PROVE DelivIInv'
<1>1. /\ n \in postings /\ postings' = postings \ {n} /\ sink' = 0 /\ got' = got \o answers[n]
      /\ answers' = [answers EXCEPT ![n] = <<>>]
      /\ UNCHANGED <<carrier, live, hears, frames, cachedTo, travelling, buffered, evicted,
                 crossed, afresh, replied>>
  BY DEF PostOver, Answered
<1>2. DelivShape /\ answers \in Seq(Seq(Nat)) /\ <<>> \in Seq(Nat) /\ got \in Seq(Nat)
      /\ DOMAIN answers = 1..Len(answers) /\ DOMAIN got = 1..Len(got)
  BY DEF DelivIInv, DelivShape
<1>3. answers[n] \in Seq(Nat) /\ DOMAIN answers[n] = 1..Len(answers[n])
  BY <1>2, ElementOfSeq
<1>4. carrier = "serverless" /\ ~live
  BY <1>1 DEF DelivIInv, CarriersDiffer
<1>5. answers' \in Seq(Seq(Nat)) /\ DOMAIN answers' = DOMAIN answers
      /\ \A p \in DOMAIN answers : answers'[p] = IF p = n THEN <<>> ELSE answers[p]
  BY <1>1, <1>2, ExceptSeq
<1>6. /\ got' \in Seq(Nat) /\ Len(got') = Len(got) + Len(answers[n]) /\ Len(got) \in Nat /\ Len(answers[n]) \in Nat
      /\ \A k \in DOMAIN got' : got'[k] = IF k <= Len(got) THEN got[k] ELSE answers[n][k - Len(got)]
      /\ \A y : Contains(got', y) <=> Contains(got, y) \/ Contains(answers[n], y)
      /\ DOMAIN got' = 1..Len(got')
  BY <1>1, <1>2, <1>3, JoinedIs
<1>7. DelivTypeOK'
  <2>1. ASSUME NEW k \in DOMAIN got' PROVE got'[k] \in DOMAIN frames
    <3>1. CASE k <= Len(got)
      BY <1>2, <1>6, <3>1 DEF DelivIInv, DelivTypeOK
    <3>2. CASE ~(k <= Len(got))
      <4>1. k - Len(got) \in DOMAIN answers[n]
        BY <1>3, <1>6, <3>2
      <4> QED BY <1>6, <3>2, <4>1 DEF DelivIInv, NumbersAreSent
    <3> QED BY <3>1, <3>2
  <2> QED BY <1>1, <2>1 DEF DelivIInv, DelivTypeOK
<1>8. DelivShape'
  BY <1>1, <1>2, <1>5, <1>6 DEF DelivShape
<1>9. NumbersAreSent' /\ CarriersDiffer'
  BY <1>1, <1>4, <1>5 DEF DelivIInv, NumbersAreSent, CarriersDiffer
<1>10. OnePosts' /\ StreamInOrder' /\ StreamsResume'
  BY <1>1, <1>4 DEF DelivIInv, OnePosts, StreamsResume, StreamInOrder
<1>11. RepliesReturn'
  <2>1. ASSUME ~crossed, NEW r \in replied PROVE Contains(got', r)
    <3>1. CASE Contains(got, r)
      BY <1>6, <3>1
    <3>2. ASSUME NEW p \in postings, Contains(answers[p], r) PROVE Contains(got', r)
      BY <1>1, <2>1, <3>2, <1>6 DEF DelivIInv, OnePosts
    <3> QED BY <2>1, <3>1, <3>2 DEF DelivIInv, RepliesReturn
  <2> QED BY <1>1, <2>1 DEF RepliesReturn
<1>12. CacheHasLanded'
  BY <1>1, <1>4 DEF CacheHasLanded
<1> QED BY <1>7, <1>8, <1>9, <1>10, <1>11, <1>12 DEF DelivIInv

-----------------------------------------------------------------------------
(* The steps that send.                                                    *)

\* A frame more changes nothing of POSTs and replies.
LEMMA SendingStill ==
  ASSUME DelivIInv, NEW t \in Tables, Sending(t),
         UNCHANGED <<carrier, live, hears, got, postings, sink, answers, crossed, afresh, replied>>
  PROVE  /\ OnePosts' /\ RepliesReturn'
         /\ \A k \in DOMAIN got' : got'[k] \in DOMAIN frames'
         /\ sink' = 0 \/ sink' \in DOMAIN answers'
         /\ \A n \in DOMAIN frames' : frames'[n].from < n
         /\ \A p \in DOMAIN answers' : \A k \in DOMAIN answers'[p] : answers'[p][k] \in DOMAIN frames'
         /\ frames' \in Seq(DelivFrames)
<1>1. DelivShape /\ DelivTypeOK /\ NumbersAreSent
  BY DEF DelivIInv
<1>2. /\ frames' \in Seq(DelivFrames) /\ \A n \in DOMAIN frames : n \in DOMAIN frames'
      /\ \A n \in DOMAIN frames' : frames'[n].from < n
  BY <1>1, SendingIs
<1>3. OnePosts' /\ RepliesReturn'
  BY OnePostsStill, RepliesStill DEF DelivIInv
<1> QED BY <1>1, <1>2, <1>3 DEF DelivTypeOK, NumbersAreSent

\* The cache takes the frame or stays.
LEMMA CommittedIs ==
  ASSUME DelivShape, DelivTypeOK, NEW t \in Tables, NEW id, id = Len(frames) + 1, NEW resolved \in BOOLEAN,
         Committed(t, id, resolved)
  PROVE  /\ cachedTo' \in [Tables -> Nat] /\ \A s \in Tables : cachedTo'[s] \in 0..id
         /\ IF resolved THEN cachedTo' = [cachedTo EXCEPT ![t] = id] ELSE cachedTo' = cachedTo
<1>1. cachedTo \in [Tables -> Nat] /\ \A s \in Tables : cachedTo[s] \in 0..Len(frames)
  BY DEF DelivShape, DelivTypeOK
<1>2. Len(frames) \in Nat /\ id \in Nat
  BY DEF DelivShape
<1>3. IF resolved THEN cachedTo' = [cachedTo EXCEPT ![t] = id] ELSE cachedTo' = cachedTo
  BY DEF Committed
<1>4. CASE cachedTo' = cachedTo
  BY <1>1, <1>2, <1>3, <1>4
<1>5. CASE cachedTo' = [cachedTo EXCEPT ![t] = id]
  BY <1>1, <1>2, <1>3, <1>5
<1> QED BY <1>3, <1>4, <1>5

\* The common part of a frame sent.
LEMMA FrameSentIs ==
  ASSUME DelivIInv, NEW t \in Tables, Sending(t), NEW id, id = Len(frames) + 1,
         UNCHANGED <<carrier, live, hears, got, postings, sink, answers, crossed, afresh, replied>>,
         cachedTo' \in [Tables -> Nat], \A s \in Tables : cachedTo'[s] \in 0..id,
         buffered' \in Seq(Kept), Len(buffered') <= BufferSize,
         \A k \in DOMAIN buffered' : buffered'[k].id \in 1..id,
         carrier = "polling" => \A k \in DOMAIN buffered' : ~buffered'[k].delivered,
         travelling' = travelling \/ travelling' = Append(travelling, id),
         evicted \subseteq evicted'
  PROVE  DelivTypeOK' /\ DelivShape' /\ NumbersAreSent' /\ CarriersDiffer' /\ OnePosts' /\ RepliesReturn' /\ StreamInOrder'
<1>1. DelivShape /\ DelivTypeOK /\ NumbersAreSent /\ travelling \in Seq(Nat) /\ CarriersDiffer /\ StreamInOrder
  BY DEF DelivIInv, DelivShape
<1>2. /\ frames' \in Seq(DelivFrames) /\ Len(frames') = id /\ Len(frames) \in Nat /\ id \in Nat /\ id \in 1..id
      /\ DOMAIN frames = 1..Len(frames) /\ DOMAIN frames' = 1..id
      /\ \A n \in DOMAIN frames : n \in DOMAIN frames'
  <2>1. /\ frames' \in Seq(DelivFrames) /\ Len(frames') = Len(frames) + 1 /\ Len(frames) \in Nat
        /\ DOMAIN frames = 1..Len(frames) /\ DOMAIN frames' = 1..Len(frames) + 1
        /\ \A n \in DOMAIN frames : n \in DOMAIN frames'
    BY <1>1, SendingIs
  <2> QED BY <2>1
<1>3. /\ OnePosts' /\ RepliesReturn'
      /\ \A k \in DOMAIN got' : got'[k] \in DOMAIN frames'
      /\ sink' = 0 \/ sink' \in DOMAIN answers'
      /\ \A n \in DOMAIN frames' : frames'[n].from < n
      /\ \A p \in DOMAIN answers' : \A k \in DOMAIN answers'[p] : answers'[p][k] \in DOMAIN frames'
  BY SendingStill
<1>4. travelling' \in Seq(Nat) /\ \A k \in DOMAIN travelling' : travelling'[k] \in DOMAIN frames'
  <2>1. CASE travelling' = travelling
    BY <1>1, <1>2, <2>1 DEF NumbersAreSent
  <2>2. CASE travelling' = Append(travelling, id)
    BY <1>1, <1>2, <2>2, AppendedIs DEF NumbersAreSent
  <2> QED BY <2>1, <2>2
<1>5. DelivTypeOK'
  BY <1>2, <1>3 DEF DelivTypeOK
<1>6. DelivShape'
  BY <1>1, <1>2, <1>4 DEF DelivShape
<1>7. NumbersAreSent'
  BY <1>2, <1>3, <1>4 DEF NumbersAreSent
<1>8. CarriersDiffer'
  BY <1>1 DEF CarriersDiffer
<1>9. StreamInOrder'
  BY <1>1, OrderStill
<1> QED BY <1>3, <1>5, <1>6, <1>7, <1>8, <1>9

\* A socket.
LEMMA SocketKeeps ==
  ASSUME DelivIInv, NEW t \in Tables, Broadcast(t), carrier = "ws" PROVE DelivIInv'
<1>0. PICK id : id = Len(frames) + 1
  OBVIOUS
<1>1. /\ Sending(t) /\ SendSocket(t, id) /\ live
      /\ UNCHANGED <<carrier, live, hears, got, postings, sink, answers, crossed, afresh, replied, buffered, evicted>>
  BY <1>0 DEF Broadcast, Sending
<1>2. DelivShape /\ DelivTypeOK /\ NumbersAreSent /\ CarriersDiffer /\ travelling \in Seq(Nat) /\ CacheHasLanded
  BY DEF DelivIInv, DelivShape
<1>3. \E resolved \in BOOLEAN :
        /\ Committed(t, id, resolved)
        /\ travelling' = IF resolved /\ hears THEN Append(travelling, id) ELSE travelling
  BY <1>1 DEF SendSocket
<1>4. PICK resolved \in BOOLEAN :
        /\ Committed(t, id, resolved)
        /\ travelling' = IF resolved /\ hears THEN Append(travelling, id) ELSE travelling
  BY <1>3
<1>5. /\ cachedTo' \in [Tables -> Nat] /\ \A s \in Tables : cachedTo'[s] \in 0..id
      /\ IF resolved THEN cachedTo' = [cachedTo EXCEPT ![t] = id] ELSE cachedTo' = cachedTo
  BY <1>0, <1>2, <1>4, CommittedIs
<1>6. /\ DOMAIN frames = 1..Len(frames) /\ Len(frames) \in Nat /\ id \in Nat
  BY <1>0, <1>2 DEF DelivShape
<1>7. DelivTypeOK' /\ DelivShape' /\ NumbersAreSent' /\ CarriersDiffer' /\ OnePosts' /\ RepliesReturn' /\ StreamInOrder'
  <2>1. /\ buffered' \in Seq(Kept) /\ Len(buffered') <= BufferSize
        /\ \A k \in DOMAIN buffered' : buffered'[k].id \in 1..id
        /\ carrier = "polling" => \A k \in DOMAIN buffered' : ~buffered'[k].delivered
    BY <1>0, <1>1, <1>2, <1>6 DEF DelivShape, DelivTypeOK, NumbersAreSent
  <2> QED BY <1>0, <1>1, <1>4, <1>5, <2>1, FrameSentIs
<1>8. travelling' = travelling \/ (\A y : Contains(travelling', y) <=> Contains(travelling, y) \/ y = id)
  BY <1>2, <1>4, <1>6, AppendedIs
<1>9. resolved /\ hears => Contains(travelling', id)
  BY <1>2, <1>4, <1>6, AppendedIs
<1>10. CacheHasLanded'
  BY <1>1, <1>8, <1>9, <1>5, <1>0, <1>2, LandedMore DEF Settles, Lands, Attends
<1>11. StreamsResume'
  BY <1>1 DEF StreamsResume
<1> QED BY <1>7, <1>10, <1>11 DEF DelivIInv

-----------------------------------------------------------------------------
\* The buffer with x, the frame id, in it, and what makes room for it.
MakesRoom(buf, x, id) ==
  /\ Trimmed(buf) \in Seq(Kept) /\ Len(Trimmed(buf)) <= BufferSize
  /\ \A k \in DOMAIN Trimmed(buf) : /\ Trimmed(buf)[k].id \in 1..id
                                    /\ Contains(buffered, Trimmed(buf)[k]) \/ Trimmed(buf)[k] = x
  /\ \A y : Contains(buffered, y) \/ y = x => (Overflowing(buf) /\ y = Head(buf)) \/ Contains(Trimmed(buf), y)
  /\ Overflowing(buf) => Contains(buffered, Head(buf))

\* A frame more is kept, and makes room for itself.
LEMMA KeptMore ==
  ASSUME DelivShape, DelivTypeOK, NumbersAreSent, NEW id, id = Len(frames) + 1,
         NEW x \in Kept, x.id = id, NEW buf, buf = Append(buffered, x)
  PROVE  MakesRoom(buf, x, id)
<1>1. /\ buffered \in Seq(Kept) /\ Len(buffered) \in Nat /\ Len(buffered) <= BufferSize /\ BufferSize \in Nat \ {0}
      /\ Len(frames) \in Nat /\ DOMAIN frames = 1..Len(frames) /\ DOMAIN buffered = 1..Len(buffered)
      /\ \A k \in DOMAIN buffered : buffered[k].id \in DOMAIN frames
  BY DelivAssumption DEF DelivShape, DelivTypeOK, NumbersAreSent
<1>2. /\ buf \in Seq(Kept) /\ Len(buf) = Len(buffered) + 1
      /\ \A k \in 1..Len(buffered) : buf[k] = buffered[k]
      /\ buf[Len(buffered) + 1] = x
      /\ \A y : Contains(buf, y) <=> Contains(buffered, y) \/ y = x
  BY <1>1, AppendedIs
<1>3. /\ Trimmed(buf) \in Seq(Kept) /\ Len(Trimmed(buf)) <= BufferSize
      /\ IF Overflowing(buf)
         THEN /\ Len(Trimmed(buf)) = Len(buf) - 1 /\ buf # <<>> /\ Head(buf) = buf[1] /\ Len(buf) = BufferSize + 1
              /\ \A k \in 1..Len(buf) - 1 : Trimmed(buf)[k] = buf[k + 1]
              /\ \A y : Contains(buf, y) => y = Head(buf) \/ Contains(Trimmed(buf), y)
         ELSE Trimmed(buf) = buf
  <2>1. Len(buf) <= BufferSize + 1
    BY <1>1, <1>2
  <2> QED BY <1>2, <2>1, TrimmedIs
<1>4. \A k \in 1..Len(buf) : Contains(buffered, buf[k]) \/ buf[k] = x
  BY <1>1, <1>2 DEF Contains
<1>5. \A y : Contains(buffered, y) \/ y = x => y.id \in 1..id
  <2>1. ASSUME NEW k \in 1..Len(buffered) PROVE buffered[k].id \in 1..id
    BY <1>1
  <2>2. x.id \in 1..id
    BY <1>1
  <2> QED BY <2>1, <2>2 DEF Contains
<1>6. \A k \in DOMAIN Trimmed(buf) : Contains(buffered, Trimmed(buf)[k]) \/ Trimmed(buf)[k] = x
  <2> TAKE k \in DOMAIN Trimmed(buf)
  <2>1. k \in 1..Len(Trimmed(buf))
    BY <1>3
  <2>2. CASE Overflowing(buf)
    <3>1. k \in 1..Len(buf) - 1 /\ k + 1 \in 1..Len(buf)
      BY <1>1, <1>2, <1>3, <2>1, <2>2
    <3>2. Trimmed(buf)[k] = buf[k + 1]
      BY <1>3, <2>2, <3>1
    <3> QED BY <1>4, <3>1, <3>2
  <2>3. CASE ~Overflowing(buf)
    BY <1>3, <1>4, <2>1, <2>3
  <2> QED BY <2>2, <2>3
<1>7. \A y : Contains(buffered, y) \/ y = x => (Overflowing(buf) /\ y = Head(buf)) \/ Contains(Trimmed(buf), y)
  BY <1>2, <1>3
<1>8. Overflowing(buf) => Contains(buffered, Head(buf))
  <2>1. SUFFICES ASSUME Overflowing(buf) PROVE Contains(buffered, Head(buf))
    OBVIOUS
  <2>2. 1 \in 1..Len(buffered) /\ Head(buf) = buf[1]
    BY <1>1, <1>2, <1>3, <2>1
  <2> QED BY <1>2, <2>2 DEF Contains
<1> QED BY <1>3, <1>5, <1>6, <1>7, <1>8 DEF MakesRoom

\* The polled queue.
LEMMA PolledKeeps ==
  ASSUME DelivIInv, NEW t \in Tables, Broadcast(t), carrier = "polling" PROVE DelivIInv'
<1>0. PICK id : id = Len(frames) + 1
  OBVIOUS
<1>a. PICK x : x = [id |-> id, delivered |-> FALSE]
  OBVIOUS
<1>1. /\ Sending(t) /\ SendPolled(t, id) /\ live
      /\ UNCHANGED <<carrier, live, hears, got, postings, sink, answers, crossed, afresh, replied>>
  BY <1>0 DEF Broadcast, Sending
<1>2. PICK buf : buf = Append(buffered, x)
  OBVIOUS
<1>3. /\ buffered' = Trimmed(buf) /\ evicted' = evicted \cup Lost(buf)
      /\ Committed(t, id, ~Overflowing(buf)) /\ travelling' = travelling
  BY <1>a, <1>1, <1>2 DEF SendPolled
<1>4. DelivShape /\ DelivTypeOK /\ NumbersAreSent /\ CarriersDiffer /\ CacheHasLanded
      /\ Len(frames) \in Nat /\ id \in Nat /\ DOMAIN frames = 1..Len(frames)
      /\ buffered \in Seq(Kept)
  BY <1>0 DEF DelivIInv, DelivShape
<1>5. x \in Kept /\ x.id = id /\ ~x.delivered
  BY <1>a, <1>4 DEF Kept
<1>6. /\ Trimmed(buf) \in Seq(Kept) /\ Len(Trimmed(buf)) <= BufferSize
      /\ \A k \in DOMAIN Trimmed(buf) : /\ Trimmed(buf)[k].id \in 1..id
                                        /\ Contains(buffered, Trimmed(buf)[k]) \/ Trimmed(buf)[k] = x
      /\ \A y : Contains(buffered, y) \/ y = x => (Overflowing(buf) /\ y = Head(buf)) \/ Contains(Trimmed(buf), y)
      /\ Overflowing(buf) => Contains(buffered, Head(buf))
  <2>1. MakesRoom(buf, x, id)
    BY <1>0, <1>2, <1>4, <1>5, KeptMore
  <2> QED BY <2>1 DEF MakesRoom
<1>7. \A y : Contains(buffered, y) => ~y.delivered
  BY <1>4, <1>1 DEF CarriersDiffer, Contains
<1>8. /\ cachedTo' \in [Tables -> Nat] /\ \A s \in Tables : cachedTo'[s] \in 0..id
      /\ IF ~Overflowing(buf) THEN cachedTo' = [cachedTo EXCEPT ![t] = id] ELSE cachedTo' = cachedTo
  BY <1>0, <1>3, <1>4, CommittedIs
<1>9. DelivTypeOK' /\ DelivShape' /\ NumbersAreSent' /\ CarriersDiffer' /\ OnePosts' /\ RepliesReturn' /\ StreamInOrder'
  <2>1. /\ buffered' \in Seq(Kept) /\ Len(buffered') <= BufferSize
        /\ \A k \in DOMAIN buffered' : buffered'[k].id \in 1..id
        /\ carrier = "polling" => \A k \in DOMAIN buffered' : ~buffered'[k].delivered
    BY <1>3, <1>5, <1>6, <1>7
  <2> QED BY <1>0, <1>1, <1>3, <1>8, <2>1, FrameSentIs
<1>10. ASSUME NEW y, Contains(buffered, y) \/ y = x PROVE Settles(y.id)'
  <2>1. CASE Overflowing(buf) /\ y = Head(buf)
    BY <1>3, <1>6, <1>7, <2>1 DEF Lost, Settles
  <2>2. CASE Contains(Trimmed(buf), y)
    <3>1. PICK k \in 1..Len(buffered') : buffered'[k] = y
      BY <1>3, <2>2 DEF Contains
    <3>2. k \in DOMAIN buffered' /\ carrier' = "polling"
      BY <1>1, <1>3, <1>6
    <3>3. \E j \in DOMAIN buffered' : buffered'[j].id = y.id
      BY <3>1, <3>2
    <3>4. PICK n : n = y.id
      OBVIOUS
    <3>5. Settles(n)'
      BY <3>2, <3>3, <3>4 DEF Settles, Lands
    <3> QED BY <3>4, <3>5
  <2> QED BY <1>6, <1>10, <2>1, <2>2
<1>11. CacheHasLanded'
  <2>1. ASSUME NEW n \in DOMAIN frames, Settles(n) PROVE Settles(n)'
    <3>1. CASE \E k \in DOMAIN buffered : buffered[k].id = n
      <4>1. PICK k \in DOMAIN buffered : buffered[k].id = n
        BY <3>1
      <4>2. Contains(buffered, buffered[k])
        BY <1>4, <4>1 DEF Contains
      <4> QED BY <1>10, <4>1, <4>2
    <3>2. CASE ~\E k \in DOMAIN buffered : buffered[k].id = n
      BY <1>1, <1>3, <2>1, <3>2 DEF Settles, Lands
    <3> QED BY <3>1, <3>2
  <2>2. Attends' => Attends
    BY <1>1 DEF Attends
  <2>3. Settles(id)'
    BY <1>10, <1>5
  <2>4. \/ cachedTo' = cachedTo
        \/ cachedTo' = [cachedTo EXCEPT ![t] = id] /\ (Attends' => Settles(id)')
    BY <1>8, <2>3
  <2> QED BY <1>0, <1>1, <1>4, <2>1, <2>2, <2>4, LandedMore
<1>12. StreamsResume'
  BY <1>1 DEF StreamsResume
<1> QED BY <1>9, <1>11, <1>12 DEF DelivIInv

\* A stream in order has landed everything the cache has.
LEMMA StreamLands ==
  ASSUME DelivShape', DelivTypeOK', NumbersAreSent', StreamsResume', (carrier = "sse")'
  PROVE  CacheHasLanded'
<1>0. PICK before : before = Len(frames') - Len(travelling')
  OBVIOUS
<1>1. SUFFICES ASSUME (live /\ hears /\ ~afresh)', NEW n \in DOMAIN frames'
               PROVE  Carries(n, n)' /\ (Lands(n) \/ n \in evicted)'
  BY DEF CacheHasLanded
<1>2. /\ LastEventId' <= before /\ \A k \in DOMAIN travelling' : travelling'[k] = before + k
      /\ \A m \in LastEventId' + 1..before : m \in evicted'
      /\ \A m \in 1..LastEventId' : Contains(got', m) \/ m \in evicted'
  BY <1>0, <1>1 DEF StreamsResume, StreamIsLatest
<1>3. /\ Len(frames') \in Nat /\ DOMAIN frames' = 1..Len(frames') /\ Len(travelling') \in Nat
      /\ DOMAIN travelling' = 1..Len(travelling') /\ got' \in Seq(Nat)
  BY DEF DelivShape
<1>4. LastEventId' \in Nat
  <2>1. CASE got' = <<>>
    BY <2>1 DEF LastEventId
  <2>2. CASE got' # <<>>
    BY <1>3, <2>2, EmptySeq DEF LastEventId, Last
  <2> QED BY <2>1, <2>2
<1>5. n \in Nat /\ (n \in 1..LastEventId' \/ n \in LastEventId' + 1..before \/ n - before \in 1..Len(travelling'))
  BY <1>0, <1>1, <1>2, <1>3, <1>4
<1>6. n - before \in 1..Len(travelling') => Contains(travelling', n)
  <2>1. SUFFICES ASSUME n - before \in 1..Len(travelling') PROVE Contains(travelling', n)
    OBVIOUS
  <2>2. travelling'[n - before] = before + (n - before)
    BY <1>2, <1>3, <2>1
  <2>3. before + (n - before) = n
    BY <1>0, <1>3, <1>5
  <2> QED BY <2>1, <2>2, <2>3 DEF Contains
<1>7. (Lands(n) \/ n \in evicted)'
  BY <1>2, <1>5, <1>6 DEF Lands
<1>8. Carries(n, n)'
  BY <1>1, <1>5 DEF Carries, NumbersAreSent
<1> QED BY <1>7, <1>8

-----------------------------------------------------------------------------
\* An event stream's buffer goes on being of the latest frames.
LEMMA LatestKept ==
  ASSUME DelivShape, DelivTypeOK, BufferIsLatest, NEW id, id = Len(frames) + 1, Len(frames') = id,
         NEW x \in Kept, x.id = id, x.delivered, NEW buf, buf = Append(buffered, x),
         buffered' = Trimmed(buf), evicted \subseteq evicted', Overflowing(buf) => Head(buf).id \in evicted'
  PROVE  BufferIsLatest'
<1>0. PICK before : before = Len(frames) - Len(buffered)
  OBVIOUS
<1>1. /\ buffered \in Seq(Kept) /\ Len(buffered) \in Nat /\ Len(buffered) <= BufferSize /\ BufferSize \in Nat \ {0}
      /\ Len(frames) \in Nat /\ DOMAIN buffered = 1..Len(buffered)
  BY DelivAssumption DEF DelivShape, DelivTypeOK
<1>2. /\ before >= 0 /\ before \in Int
      /\ \A k \in 1..Len(buffered) : buffered[k].id = before + k /\ buffered[k].delivered
      /\ \A n \in 1..before : n \in evicted
  <2>1. /\ before >= 0
        /\ \A k \in DOMAIN buffered : buffered[k].id = before + k /\ buffered[k].delivered
        /\ \A n \in 1..before : n \in evicted
    BY <1>0 DEF BufferIsLatest
  <2>2. before \in Int
    BY <1>0, <1>1
  <2> QED BY <1>1, <2>1, <2>2
<1>3. /\ buf \in Seq(Kept) /\ Len(buf) = Len(buffered) + 1
      /\ \A k \in 1..Len(buffered) : buf[k] = buffered[k]
      /\ buf[Len(buffered) + 1] = x
  BY <1>1, AppendedIs
<1>4. \A k \in 1..Len(buf) : buf[k].id = before + k /\ buf[k].delivered
  <2>1. \A k \in 1..Len(buf) : k \in 1..Len(buffered) \/ k = Len(buffered) + 1
    BY <1>1, <1>3
  <2>2. x.id = before + (Len(buffered) + 1)
    BY <1>0, <1>1
  <2> QED BY <1>2, <1>3, <2>1, <2>2
<1>5. Len(buf) <= BufferSize + 1
  BY <1>1, <1>3
<1>6. /\ Trimmed(buf) \in Seq(Kept)
      /\ IF Overflowing(buf)
         THEN /\ Len(Trimmed(buf)) = Len(buf) - 1 /\ Head(buf) = buf[1]
              /\ \A k \in 1..Len(buf) - 1 : Trimmed(buf)[k] = buf[k + 1]
         ELSE Trimmed(buf) = buf
  BY <1>3, <1>5, TrimmedIs
<1>7. CASE Overflowing(buf)
  <2>1. Len(buffered') = Len(buffered) /\ Len(frames') - Len(buffered') = before + 1 /\ DOMAIN buffered' = 1..Len(buffered)
    <3>1. buffered' \in Seq(Kept) /\ Len(buffered') = Len(buf) - 1
      BY <1>6, <1>7
    <3>2. Len(buf) - 1 = Len(buffered)
      BY <1>1, <1>3
    <3>3. DOMAIN buffered' = 1..Len(buffered')
      BY <3>1
    <3> QED BY <1>0, <1>1, <3>1, <3>2, <3>3
  <2>2. \A k \in 1..Len(buffered) : buffered'[k].id = (before + 1) + k /\ buffered'[k].delivered
    <3> TAKE k \in 1..Len(buffered)
    <3>1. k \in 1..Len(buf) - 1 /\ k + 1 \in 1..Len(buf) /\ k \in Nat
      BY <1>1, <1>3
    <3>2. buffered'[k] = buf[k + 1]
      BY <1>6, <1>7, <3>1
    <3>3. buf[k + 1].id = before + (k + 1) /\ buf[k + 1].delivered
      BY <1>4, <3>1
    <3> QED BY <1>2, <3>1, <3>2, <3>3
  <2>3. before + 1 \in evicted'
    BY <1>1, <1>3, <1>4, <1>6, <1>7
  <2>4. \A n \in 1..before + 1 : n \in evicted'
    BY <1>2, <2>3
  <2>5. before + 1 >= 0
    BY <1>2
  <2> QED BY <2>1, <2>2, <2>4, <2>5 DEF BufferIsLatest
<1>8. CASE ~Overflowing(buf)
  <2>1. buffered' = buf /\ Len(frames') - Len(buffered') = before /\ DOMAIN buffered' = 1..Len(buf)
    BY SMTT(30), <1>0, <1>1, <1>3, <1>6, <1>8
  <2> QED BY <1>2, <1>4, <2>1 DEF BufferIsLatest
<1> QED BY <1>7, <1>8

\* A stream goes on.
LEMMA StreamGoesOn ==
  ASSUME DelivShape, NEW id, id = Len(frames) + 1, Len(frames') = id, StreamIsLatest,
         travelling' = Append(travelling, id), UNCHANGED <<got, afresh>>, evicted \subseteq evicted'
  PROVE  StreamIsLatest'
<1>0. PICK before : before = Len(frames) - Len(travelling)
  OBVIOUS
<1>1. travelling \in Seq(Nat) /\ Len(travelling) \in Nat /\ Len(frames) \in Nat /\ id \in Nat
  BY DEF DelivShape
<1>2. /\ LastEventId <= before
      /\ \A k \in DOMAIN travelling : travelling[k] = before + k
      /\ got # <<>> \/ ~afresh => \A n \in LastEventId + 1..before : n \in evicted
  BY <1>0 DEF StreamIsLatest
<1>3. /\ travelling' \in Seq(Nat) /\ Len(travelling') = Len(travelling) + 1
      /\ DOMAIN travelling = 1..Len(travelling) /\ DOMAIN travelling' = 1..Len(travelling) + 1
      /\ \A k \in 1..Len(travelling) : travelling'[k] = travelling[k]
      /\ travelling'[Len(travelling) + 1] = id
  BY <1>1, AppendedIs
<1>4. Len(frames') - Len(travelling') = before /\ LastEventId' = LastEventId
  BY <1>0, <1>1, <1>3 DEF LastEventId
<1>5. \A k \in DOMAIN travelling' : travelling'[k] = before + k
  BY <1>1, <1>3, <1>0, <1>2
<1> QED BY <1>2, <1>4, <1>5 DEF StreamIsLatest

\* A broadcast into a stream, or into a response that has ended.
LEMMA StreamKeeps ==
  ASSUME DelivIInv, NEW t \in Tables, Broadcast(t), carrier \in {"sse", "serverless"} PROVE DelivIInv'
<1>0. PICK id : id = Len(frames) + 1
  OBVIOUS
<1>a. PICK x : x = [id |-> id, delivered |-> live]
  OBVIOUS
<1>1. /\ Sending(t) /\ SendStream(t, id) /\ (live \/ carrier = "serverless")
      /\ UNCHANGED <<carrier, live, hears, got, postings, sink, answers, crossed, afresh, replied>>
  BY <1>0 DEF Broadcast, Sending
<1>2. PICK buf : buf = Append(buffered, x)
  OBVIOUS
<1>3. /\ buffered' = Trimmed(buf)
      /\ evicted' = evicted \cup (IF Overflowing(buf) THEN {Head(buf).id} ELSE {})
      /\ travelling' = (IF live /\ hears THEN Append(travelling, id) ELSE travelling)
      /\ Committed(t, id, Lost(buf) = {})
  BY <1>a, <1>1, <1>2 DEF SendStream
<1>4. /\ DelivShape /\ DelivTypeOK /\ NumbersAreSent /\ CarriersDiffer /\ CacheHasLanded /\ StreamsResume
      /\ Len(frames) \in Nat /\ id \in Nat /\ DOMAIN frames = 1..Len(frames)
      /\ buffered \in Seq(Kept) /\ live \in BOOLEAN
  BY <1>0 DEF DelivIInv, DelivShape
<1>5. x \in Kept /\ x.id = id /\ x.delivered = live
  BY <1>a, <1>4 DEF Kept
<1>6. MakesRoom(buf, x, id)
  BY <1>0, <1>2, <1>4, <1>5, KeptMore
<1>7. /\ cachedTo' \in [Tables -> Nat] /\ \A s \in Tables : cachedTo'[s] \in 0..id
  BY <1>0, <1>3, <1>4, CommittedIs
<1>8. evicted \subseteq evicted' /\ (Overflowing(buf) => Head(buf).id \in evicted')
  BY <1>3
<1>9. DelivTypeOK' /\ DelivShape' /\ NumbersAreSent' /\ CarriersDiffer' /\ OnePosts' /\ RepliesReturn' /\ StreamInOrder'
  BY <1>3, <1>6, <1>0, <1>1, <1>7, <1>8, FrameSentIs DEF MakesRoom
<1>10. StreamsResume' /\ CacheHasLanded'
  <2>1. CASE carrier = "serverless"
    BY <1>1, <1>4, <2>1 DEF StreamsResume, CacheHasLanded, CarriersDiffer
  <2>2. CASE carrier = "sse"
    <3>1. live /\ BufferIsLatest /\ Len(frames') = id
      BY <1>0, <1>1, <1>4, <2>2, SendingIs DEF StreamsResume
    <3>2. BufferIsLatest'
      BY <1>0, <1>2, <1>3, <1>4, <1>5, <1>8, <3>1, LatestKept
    <3>3. LastEventId' = LastEventId
      BY <1>1 DEF LastEventId
    <3>4. hears => StreamIsLatest'
      <4>1. SUFFICES ASSUME hears PROVE StreamIsLatest'
        OBVIOUS
      <4>2. StreamIsLatest /\ travelling' = Append(travelling, id)
        BY <1>3, <1>4, <2>2, <3>1, <4>1 DEF StreamsResume
      <4> QED BY <1>0, <1>1, <1>4, <1>8, <3>1, <4>2, StreamGoesOn
    <3>5. ~hears => travelling' = <<>>
      BY <1>3, <1>4, <2>2 DEF StreamsResume
    <3>6. ~afresh => \A n \in 1..LastEventId' : Contains(got', n) \/ n \in evicted'
      BY <1>1, <1>4, <1>8, <2>2, <3>3 DEF StreamsResume
    <3>7. StreamsResume'
      BY <1>1, <3>1, <3>2, <3>4, <3>5, <3>6 DEF StreamsResume
    <3>8. (carrier = "sse")'
      BY <1>1, <2>2
    <3> QED BY <1>9, <3>7, <3>8, StreamLands
  <2> QED BY <2>1, <2>2
<1> QED BY <1>9, <1>10 DEF DelivIInv

\* A broadcast keeps the invariant over every carrier.
LEMMA BroadcastKeeps == ASSUME DelivIInv, NEW t \in Tables, Broadcast(t) PROVE DelivIInv'
<1>1. carrier \in {"ws", "sse", "polling", "serverless"}
  BY DelivAssumption DEF DelivIInv, DelivShape
<1> QED BY <1>1, SocketKeeps, PolledKeeps, StreamKeeps

-----------------------------------------------------------------------------
\* A reply to a request does.
LEMMA ReplyKeeps == ASSUME DelivIInv, NEW t \in Tables, Reply(t) PROVE DelivIInv'
<1>0. PICK id : id = Len(frames) + 1
  OBVIOUS
<1>a. PICK x : x = [id |-> id, delivered |-> FALSE]
  OBVIOUS
<1>b. PICK buf : buf = Append(buffered, x)
  OBVIOUS
<1>1. /\ Sending(t) /\ postings # {} /\ Committed(t, id, TRUE) /\ replied' = replied \cup {id}
      /\ IF sink # 0 THEN answers' = [answers EXCEPT ![sink] = Append(@, id)] /\ buffered' = buffered
         ELSE buffered' = Trimmed(buf) /\ answers' = answers
      /\ UNCHANGED <<carrier, live, hears, travelling, got, evicted, postings, sink, crossed, afresh>>
  BY <1>0, <1>a, <1>b DEF Reply, Sending
<1>2. /\ DelivShape /\ DelivTypeOK /\ NumbersAreSent /\ CarriersDiffer /\ OnePosts
      /\ Len(frames) \in Nat /\ id \in Nat \ {0} /\ DOMAIN frames = 1..Len(frames)
      /\ buffered \in Seq(Kept) /\ answers \in Seq(Seq(Nat)) /\ DOMAIN answers = 1..Len(answers)
      /\ postings \subseteq DOMAIN answers /\ Len(answers) \in Nat
  BY <1>0 DEF DelivIInv, DelivShape
<1>3. carrier = "serverless" /\ ~live
  BY <1>1, <1>2 DEF CarriersDiffer
<1>4. x \in Kept /\ x.id = id
  BY <1>a, <1>2 DEF Kept
<1>5. MakesRoom(buf, x, id)
  BY <1>0, <1>b, <1>2, <1>4, KeptMore
<1>6. buffered' \in Seq(Kept) /\ Len(buffered') <= BufferSize /\ \A k \in DOMAIN buffered' : buffered'[k].id \in 1..id
  <2>1. CASE sink # 0
    BY <1>0, <1>1, <1>2, <2>1 DEF DelivTypeOK, NumbersAreSent
  <2>2. CASE sink = 0
    BY <1>1, <1>5, <2>2 DEF MakesRoom
  <2> QED BY <2>1, <2>2
<1>7. cachedTo' \in [Tables -> Nat] /\ \A s \in Tables : cachedTo'[s] \in 0..id
  BY <1>0, <1>1, <1>2, CommittedIs
<1>8. /\ frames' \in Seq(DelivFrames) /\ Len(frames') = id /\ DOMAIN frames' = 1..id
      /\ \A n \in DOMAIN frames : n \in DOMAIN frames'
      /\ \A n \in DOMAIN frames' : frames'[n].from < n
  BY <1>1, <1>2, SendingIs, <1>0
<1>9. /\ answers' \in Seq(Seq(Nat)) /\ DOMAIN answers' = DOMAIN answers
      /\ \A p \in DOMAIN answers' : \A k \in DOMAIN answers'[p] : answers'[p][k] \in 1..id
      /\ \A p \in DOMAIN answers : \A y : Contains(answers'[p], y) <=> Contains(answers[p], y) \/ (p = sink /\ y = id)
  <2>0. \A p \in DOMAIN answers : answers[p] \in Seq(Nat)
    BY <1>2, ElementOfSeq
  <2>1. CASE sink # 0
    <3>1. sink \in DOMAIN answers
      BY <1>2, <2>1 DEF DelivTypeOK
    <3>2. PICK s : s = Append(answers[sink], id)
      OBVIOUS
    <3>3. /\ s \in Seq(Nat) /\ DOMAIN s = 1..Len(answers[sink]) + 1 /\ Len(answers[sink]) \in Nat
          /\ \A k \in 1..Len(answers[sink]) : s[k] = answers[sink][k]
          /\ s[Len(answers[sink]) + 1] = id /\ DOMAIN answers[sink] = 1..Len(answers[sink])
          /\ \A y : Contains(s, y) <=> Contains(answers[sink], y) \/ y = id
      <4>1. PICK a : a = answers[sink]
        OBVIOUS
      <4>2. a \in Seq(Nat) /\ s = Append(a, id) /\ id \in Nat
        BY <1>2, <2>0, <3>1, <3>2, <4>1
      <4>3. /\ s \in Seq(Nat) /\ DOMAIN s = 1..Len(a) + 1 /\ Len(a) \in Nat
            /\ \A k \in 1..Len(a) : s[k] = a[k]
            /\ s[Len(a) + 1] = id /\ DOMAIN a = 1..Len(a)
            /\ \A y : Contains(s, y) <=> Contains(a, y) \/ y = id
        BY <4>2, AppendedIs
      <4> QED BY <4>1, <4>3
    <3>4. answers' = [answers EXCEPT ![sink] = s]
      BY <1>1, <2>1, <3>2
    <3>5. answers' \in Seq(Seq(Nat)) /\ DOMAIN answers' = DOMAIN answers
          /\ \A p \in DOMAIN answers : answers'[p] = IF p = sink THEN s ELSE answers[p]
      BY <1>2, <3>1, <3>3, <3>4, ExceptSeq
    <3>6. \A k \in DOMAIN s : s[k] \in 1..id
      <4>1. \A k \in DOMAIN s : k \in 1..Len(answers[sink]) \/ k = Len(answers[sink]) + 1
        BY <3>3
      <4>2. \A k \in DOMAIN answers[sink] : answers[sink][k] \in 1..Len(frames)
        BY <1>2, <3>1 DEF NumbersAreSent
      <4>3. \A n \in 1..Len(frames) : n \in 1..id
        BY <1>0, <1>2
      <4>4. id \in 1..id
        BY <1>2
      <4> QED BY <3>3, <4>1, <4>2, <4>3, <4>4
    <3>7. \A p \in DOMAIN answers : \A k \in DOMAIN answers[p] : answers[p][k] \in 1..id
      BY <1>0, <1>2 DEF NumbersAreSent
    <3>8. \A p \in DOMAIN answers' : \A k \in DOMAIN answers'[p] : answers'[p][k] \in 1..id
      BY <3>5, <3>6, <3>7
    <3>9. \A p \in DOMAIN answers : \A y : Contains(answers'[p], y) <=> Contains(answers[p], y) \/ (p = sink /\ y = id)
      BY <3>3, <3>5
    <3> QED BY <3>5, <3>8, <3>9
  <2>2. CASE sink = 0
    BY <1>2, <2>2, <1>1, <1>0 DEF NumbersAreSent
  <2> QED BY <2>1, <2>2
<1>10. DelivTypeOK'
  BY <1>1, <1>2, <1>6, <1>7, <1>8, <1>9 DEF DelivTypeOK
<1>11. DelivShape'
  BY <1>1, <1>2, <1>6, <1>7, <1>8, <1>9 DEF DelivShape
<1>12. NumbersAreSent'
  BY <1>1, <1>2, <1>6, <1>8, <1>9 DEF NumbersAreSent
<1>13. CarriersDiffer' /\ OnePosts' /\ StreamsResume' /\ CacheHasLanded' /\ StreamInOrder'
  BY <1>1, <1>2, <1>3, OnePostsStill DEF CarriersDiffer, StreamsResume, CacheHasLanded, StreamInOrder
<1>14. RepliesReturn'
  <2>1. SUFFICES ASSUME ~crossed, NEW n \in replied'
                 PROVE  Contains(got, n) \/ \E p \in postings : Contains(answers'[p], n)
    BY <1>1 DEF RepliesReturn
  <2>2. CASE n \in replied
    BY <2>1, <2>2, <1>2, <1>9 DEF DelivIInv, RepliesReturn
  <2>3. CASE n = id
    <3>1. PICK p \in postings : TRUE
      BY <1>1
    <3>2. sink = p
      BY <1>2, <2>1, <3>1 DEF OnePosts
    <3> QED BY <1>2, <1>9, <2>3, <3>1, <3>2
  <2> QED BY <1>1, <2>2, <2>3
<1> QED BY <1>10, <1>11, <1>12, <1>13, <1>14 DEF DelivIInv

\* A stream that resumes is sent the buffer's frames that are newer, in their order.
LEMMA ReplayIs ==
  ASSUME DelivShape, BufferIsLatest, LastEventId \in 1..Len(frames)
  PROVE  \E p \in 1..Len(buffered) + 1 :
           /\ \A k \in DOMAIN buffered : k >= p <=> buffered[k].id > LastEventId
           /\ Replay = SubSeq(buffered, p, Len(buffered))
<1>0. PICK before : before = Len(frames) - Len(buffered)
  OBVIOUS
<1>1. /\ buffered \in Seq(Kept) /\ Len(buffered) \in Nat /\ DOMAIN buffered = 1..Len(buffered) /\ Len(frames) \in Nat
  BY DEF DelivShape
<1>2. before \in Nat /\ \A k \in DOMAIN buffered : buffered[k].id = before + k
  BY <1>0, <1>1 DEF BufferIsLatest
<1>3. \E p \in 1..Len(buffered) + 1 : \A k \in DOMAIN buffered : k >= p <=> buffered[k].id > LastEventId
  <2>1. PICK p : p = IF LastEventId <= before THEN 1 ELSE LastEventId - before + 1
    OBVIOUS
  <2>2. p \in 1..Len(buffered) + 1
    BY <1>0, <1>1, <1>2, <2>1
  <2>3. \A k \in 1..Len(buffered) : k >= p <=> before + k > LastEventId
    BY <1>0, <1>1, <1>2, <2>1
  <2> QED BY <1>1, <1>2, <2>2, <2>3
<1>4. /\ NewerFrom \in 1..Len(buffered) + 1
      /\ \A k \in DOMAIN buffered : k >= NewerFrom <=> buffered[k].id > LastEventId
  BY <1>3 DEF NewerFrom
<1>5. Replay = SubSeq(buffered, NewerFrom, Len(buffered))
  <2>1. LastEventId # 0
    OBVIOUS
  <2> QED BY <2>1 DEF Replay
<1> QED BY <1>4, <1>5

\* A stream that is opened again is sent what came after its last id (handleSubscribe).
LEMMA ReopenKeeps == ASSUME DelivIInv, Reopen PROVE DelivIInv'
<1>1. /\ carrier = "sse" /\ hears' = TRUE /\ live' = TRUE /\ afresh' = (afresh \/ LastEventId = 0) /\ ~hears
      /\ travelling' = [k \in DOMAIN Replay |-> Replay[k].id]
      /\ buffered' = [k \in DOMAIN buffered |->
                        IF LastEventId # 0 /\ buffered[k].id > LastEventId
                        THEN [buffered[k] EXCEPT !.delivered = TRUE] ELSE buffered[k]]
      /\ UNCHANGED <<carrier, frames, cachedTo, got, evicted, postings, sink, answers, crossed, replied>>
  BY DEF Reopen
<1>2. /\ DelivShape /\ DelivTypeOK /\ NumbersAreSent /\ CarriersDiffer /\ OnePosts /\ RepliesReturn /\ StreamInOrder
      /\ buffered \in Seq(Kept) /\ Len(buffered) \in Nat /\ DOMAIN buffered = 1..Len(buffered)
      /\ Len(frames) \in Nat /\ DOMAIN frames = 1..Len(frames) /\ got \in Seq(Nat) /\ afresh \in BOOLEAN
      /\ BufferIsLatest
  BY <1>1 DEF DelivIInv, DelivShape, StreamsResume
<1>3. PICK before : before = Len(frames) - Len(buffered)
  OBVIOUS
<1>4. /\ before \in Nat /\ \A n \in 1..before : n \in evicted
      /\ \A k \in DOMAIN buffered : buffered[k].id = before + k /\ buffered[k].delivered
  BY <1>2, <1>3 DEF BufferIsLatest
<1>5. buffered' = buffered
  <2>1. \A k \in DOMAIN buffered : buffered[k] \in Kept
    BY <1>2, ElementOfSeq
  <2>2. \A b \in Kept : b.delivered => [b EXCEPT !.delivered = TRUE] = b
    <3> TAKE b \in Kept
    <3> HAVE b.delivered
    <3> QED BY DEF Kept
  <2>3. \A k \in DOMAIN buffered : buffered'[k] = buffered[k]
    BY <1>1, <1>4, <2>1, <2>2
  <2>4. DOMAIN buffered' = DOMAIN buffered /\ buffered' = [k \in DOMAIN buffered |-> buffered'[k]]
    BY <1>1
  <2>5. buffered = [k \in DOMAIN buffered |-> buffered[k]]
    BY <1>2
  <2> QED BY <2>3, <2>4, <2>5
<1>6. LastEventId' = LastEventId /\ (got = <<>> => LastEventId = 0) /\ (got # <<>> => LastEventId \in 1..Len(frames))
  BY <1>2, EmptySeq, <1>1 DEF DelivTypeOK, LastEventId, Last
<1>7. /\ travelling' \in Seq(Nat) /\ \A k \in DOMAIN travelling' : travelling'[k] \in DOMAIN frames
      /\ StreamIsLatest'
  <2>1. CASE got = <<>>
    <3>1. LastEventId = 0 /\ Replay = <<>> /\ DOMAIN Replay = {}
      BY <1>6, <2>1 DEF Replay
    <3>2. travelling' = <<>>
      BY <1>1, <3>1
    <3>3. afresh' /\ got' = <<>> /\ Len(travelling') = 0 /\ DOMAIN travelling' = {}
      BY <1>1, <2>1, <3>1, <3>2
    <3> QED BY <1>1, <1>2, <1>6, <3>1, <3>2, <3>3 DEF StreamIsLatest
  <2>2. CASE got # <<>>
    <3>1. LastEventId \in 1..Len(frames)
      BY <1>6, <2>2
    <3>2. PICK p \in 1..Len(buffered) + 1 :
             /\ \A k \in DOMAIN buffered : k >= p <=> buffered[k].id > LastEventId
             /\ Replay = SubSeq(buffered, p, Len(buffered))
      BY <1>2, <3>1, ReplayIs
    <3>3. PICK more : more = Len(buffered) - p + 1
      OBVIOUS
    <3>4. more \in Nat /\ p \in Nat \ {0} /\ \A k \in 1..more : p + k - 1 \in 1..Len(buffered)
      BY <1>2, <3>2, <3>3
    <3>5. /\ Replay \in Seq(Kept) /\ Len(Replay) = more /\ DOMAIN Replay = 1..more
          /\ \A k \in 1..more : Replay[k] = buffered[p + k - 1]
      <4>1. \A k \in p..Len(buffered) : buffered[k] \in Kept
        BY <1>2, ElementOfSeq, <3>4
      <4>2. /\ SubSeq(buffered, p, Len(buffered)) \in Seq(Kept)
            /\ Len(SubSeq(buffered, p, Len(buffered))) = (IF p <= Len(buffered) THEN Len(buffered) - p + 1 ELSE 0)
            /\ \A k \in 1..Len(buffered) - p + 1 : SubSeq(buffered, p, Len(buffered))[k] = buffered[p + k - 1]
        BY <1>2, <3>2, <3>4, <4>1, SubSeqProperties
      <4> QED BY <1>2, <3>2, <3>3, <3>4, <4>2
    <3>6. \A k \in 1..more : Replay[k].id = before + p + k - 1
      <4> TAKE k \in 1..more
      <4>1. buffered[p + k - 1].id = before + (p + k - 1)
        BY <1>2, <1>4, <3>4
      <4> QED BY <1>4, <3>4, <3>5, <4>1
    <3>7. /\ DOMAIN travelling' = 1..more /\ \A k \in 1..more : travelling'[k] = before + p + k - 1
      BY <1>1, <3>5, <3>6
    <3>8. \A k \in 1..more : before + p + k - 1 \in 1..Len(frames)
      BY <1>2, <1>3, <1>4, <3>3, <3>4, <3>2
    <3>9. travelling' \in Seq(Nat) /\ Len(travelling') = more
      BY <3>6, <3>8, <1>1, <3>5, <3>4, IsASeq, LenProperties
    <3>10. Len(frames') - Len(travelling') = before + p - 1
      BY <1>1, <1>2, <1>3, <1>4, <3>3, <3>4, <3>9
    <3>11. LastEventId <= before + p - 1
      <4>1. CASE p \in DOMAIN buffered
        <5>1. before + p > LastEventId
          BY <1>2, <1>4, <3>2, <4>1
        <5> QED BY <1>4, <3>1, <3>4, <5>1
      <4>2. CASE p \notin DOMAIN buffered
        BY <1>2, <3>2, <4>2, <1>3, <1>4, <3>1
      <4> QED BY <4>1, <4>2
    <3>12. \A n \in LastEventId + 1..before + p - 1 : n \in evicted
      <4> TAKE n \in LastEventId + 1..before + p - 1
      <4>1. n \in Nat /\ n > LastEventId /\ n >= 1
        BY <3>1, <1>4, <3>4
      <4>2. CASE n <= before
        BY <1>4, <4>1, <4>2
      <4>3. CASE n > before
        <5>1. n - before \in 1..Len(buffered) /\ n - before < p
          BY <1>2, <1>4, <3>2, <3>4, <4>1, <4>3
        <5>2. buffered[n - before].id = before + (n - before)
          BY <1>2, <1>4, <5>1
        <5>3. ~(buffered[n - before].id > LastEventId)
          BY <1>2, <3>2, <3>4, <5>1
        <5> QED BY <1>4, <3>1, <4>1, <5>2, <5>3
      <4> QED BY <1>4, <4>1, <4>2, <4>3
    <3>13. \A k \in DOMAIN travelling' : travelling'[k] = (before + p - 1) + k
      BY <1>4, <3>4, <3>7
    <3>14. StreamIsLatest'
      BY <1>1, <1>6, <3>10, <3>11, <3>12, <3>13 DEF StreamIsLatest
    <3> QED BY <1>2, <3>7, <3>8, <3>9, <3>14
  <2> QED BY <2>1, <2>2
<1>8. DelivTypeOK' /\ DelivShape' /\ NumbersAreSent'
  BY <1>1, <1>2, <1>5, <1>7 DEF DelivTypeOK, DelivShape, NumbersAreSent
<1>9. CarriersDiffer' /\ OnePosts' /\ RepliesReturn' /\ StreamInOrder'
  BY <1>1, <1>2, <1>5, OnePostsStill, RepliesStill, OrderStill DEF CarriersDiffer
<1>10. StreamsResume'
  BY <1>1, <1>2, <1>5, <1>6, <1>7 DEF BufferIsLatest, DelivIInv, StreamsResume
<1>11. CacheHasLanded'
  BY <1>1, <1>8, <1>10, StreamLands
<1> QED BY <1>8, <1>9, <1>10, <1>11 DEF DelivIInv

-----------------------------------------------------------------------------
\* Nothing is sent at the start.
LEMMA DelivStarts == ASSUME DelivInit PROVE DelivIInv
<1>1. /\ carrier \in Carriers /\ live = (carrier # "serverless") /\ hears = live
      /\ frames = <<>> /\ cachedTo = [t \in Tables |-> 0]
      /\ travelling = <<>> /\ buffered = <<>> /\ got = <<>> /\ evicted = {}
      /\ postings = {} /\ sink = 0 /\ answers = <<>> /\ crossed = FALSE /\ afresh = FALSE /\ replied = {}
  BY DEF DelivInit
<1>2. /\ DOMAIN frames = {} /\ DOMAIN travelling = {} /\ DOMAIN buffered = {} /\ DOMAIN got = {} /\ DOMAIN answers = {}
      /\ Len(frames) = 0 /\ Len(buffered) = 0 /\ Len(travelling) = 0 /\ Len(got) = 0 /\ BufferSize \in Nat
  BY <1>1, DelivAssumption
<1>3. DelivTypeOK /\ NumbersAreSent /\ CarriersDiffer /\ OnePosts
  <2>1. \A t \in Tables : cachedTo[t] \in 0..Len(frames)
    BY <1>1, <1>2
  <2>2. DelivTypeOK
    BY <1>1, <1>2, <2>1 DEF DelivTypeOK
  <2>3. NumbersAreSent
    BY <1>2 DEF NumbersAreSent
  <2>4. CarriersDiffer
    BY <1>1, <1>2 DEF CarriersDiffer
  <2>5. OnePosts
    BY <1>1 DEF OnePosts
  <2> QED BY <2>2, <2>3, <2>4, <2>5
<1>4. DelivShape
  <2>1. frames \in Seq(DelivFrames) /\ travelling \in Seq(Nat) /\ buffered \in Seq(Kept) /\ got \in Seq(Nat)
    BY <1>1
  <2>2. answers \in Seq(Seq(Nat)) /\ cachedTo \in [Tables -> Nat]
    BY <1>1
  <2>3. live \in BOOLEAN /\ hears \in BOOLEAN
    BY <1>1
  <2> QED BY <1>1, <2>1, <2>2, <2>3 DEF DelivShape
<1>5. BufferIsLatest /\ StreamIsLatest /\ LastEventId = 0
  BY <1>1, <1>2 DEF BufferIsLatest, StreamIsLatest, LastEventId
<1>6. StreamsResume
  BY <1>1, <1>5 DEF StreamsResume
<1>7. CacheHasLanded /\ RepliesReturn /\ StreamInOrder
  BY <1>1, <1>2 DEF CacheHasLanded, RepliesReturn, StreamInOrder
<1> QED BY <1>3, <1>4, <1>6, <1>7 DEF DelivIInv

\* Nothing happens.
LEMMA DelivStutters == ASSUME DelivIInv, UNCHANGED delivVars PROVE DelivIInv'
  BY DEF DelivIInv, delivVars, DelivTypeOK, DelivShape, NumbersAreSent, CarriersDiffer, OnePosts, StreamsResume,
         BufferIsLatest, StreamIsLatest, LastEventId, CacheHasLanded, Carries, Lands, RepliesReturn, StreamInOrder

\* What is counted as delivered has reached the client or is on its way, over every
\* carrier (sse.ts, polling.ts, serverless.ts).
THEOREM DelivAlwaysHolds == DelivSpec => []DelivInv
<1>1. DelivInit => DelivIInv
  BY DelivStarts
<1>2. DelivIInv /\ [DelivNext]_delivVars => DelivIInv'
  BY BroadcastKeeps, ArrivesKeeps, PollKeeps, CutKeeps, ReopenKeeps, PostArrivesKeeps, ReplyKeeps, PostOverKeeps,
     DelivStutters DEF DelivNext
<1>3. DelivIInv => DelivInv
  BY DEF DelivIInv, DelivInv
<1> QED BY <1>1, <1>2, <1>3, PTL DEF DelivSpec
=============================================================================
