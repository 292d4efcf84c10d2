------------------------------ MODULE PeerCall ------------------------------
(*************************************************************************)
(* The calls of a peer mesh (src/client/webrtc.ts): joining and leaving, *)
(* capturing the camera and the screen, and the tracks two connected     *)
(* meshes give each other.                                               *)
(*                                                                       *)
(* A stream is a number; what of it was captured, and by whom, is        *)
(* "source". What one mesh tells the other on the control channel, and   *)
(* the tracks it adds and removes there, arrive in order: a track takes  *)
(* a negotiation through the server, its label one message.              *)
(* Announcements go through the server.  The connection itself is only   *)
(* seen to be lost and found again (PeerMesh has its life).              *)
(*************************************************************************)
EXTENDS Naturals, Sequences, FiniteSets, SequencesExt

CONSTANTS Callers,     \* the two meshes
          CallBound    \* of each: captures, leaves, lost connections, mutings

ASSUME CallAssumption ==
  /\ Cardinality(Callers) = 2
  /\ CallBound \in [Callers -> [{"captures", "leaves", "losses", "mutes"} -> Nat]]

VARIABLES
  call,       \* local: whether in the call, its camera, its screen, muted
  callNo,     \* how many calls this mesh has joined or left: callEpoch, and which "local"
  joining,    \* a camera being opened: under which callEpoch, none if 0
  sharing,    \* a screen being picked: for which call, none if 0
  captured,   \* how many streams have been captured
  lit,        \* those whose device is on
  up,         \* the meshes to which the connection is up
  line,       \* to each mesh: control messages and tracks on their way
  announced,  \* to each mesh: announcements on their way
  remoteCall, \* peer.remoteCall
  senders,    \* streams sent to the peer
  received,   \* remoteStreams, remoteMuted
  wants,      \* history: whether the user asked last for a call
  waited,     \* history: meshes whose call() waited for a capture since cancelled
  missed,     \* history: meshes that heard the peer leave with the connection lost, or
              \* heard of it after the peer had come back
  muffled,    \* history: meshes that left a call muted
  callLeft

callVars == <<call, callNo, joining, sharing, captured, lit, up, line, announced, remoteCall,
              senders, received, wants, waited, missed, muffled, callLeft>>
deviceVars == <<callNo, joining, sharing, captured, lit, wants, waited>>
pastCall == <<wants, waited, missed, muffled>>

NoCall == [on |-> FALSE, camera |-> 0, screen |-> 0, muted |-> FALSE]
Nothing == [streams |-> {}, muted |-> FALSE]
Streams == Nat \ {0}
Peer(s) == CHOOSE p \in Callers : p # s

CallTypeOK ==
  /\ call \in [Callers -> [on : BOOLEAN, camera : Nat, screen : Nat, muted : BOOLEAN]]
  /\ callNo \in [Callers -> Nat \ {0}]
  /\ joining \in [Callers -> Nat] /\ sharing \in [Callers -> Nat]
  /\ captured \in Nat
  /\ lit \subseteq Streams /\ up \subseteq Callers
  /\ remoteCall \in [Callers -> BOOLEAN] /\ senders \in [Callers -> SUBSET Streams]
  /\ received \in [Callers ->
       [streams : SUBSET Streams, muted : BOOLEAN]]
  /\ wants \in [Callers -> BOOLEAN] /\ waited \cup missed \cup muffled \subseteq Callers
  /\ \A s \in Callers : ~call[s].on => call[s] = NoCall

SpendCall(s, b) == callLeft[s][b] > 0 /\ callLeft' = [callLeft EXCEPT ![s][b] = @ - 1]
LocalStreams(s) == {call[s].camera, call[s].screen} \ {0}

-----------------------------------------------------------------------------
(* What one mesh does to the other.                                        *)

Told(s, ms) == line' = [line EXCEPT ![Peer(s)] = @ \o ms]

\* attachStream: a label, then the tracks; detachStream: the tracks, and the label.
Each(t, ids) == [i \in 1..Cardinality(ids) |-> [t |-> t, id |-> SetToSeq(ids)[i]]]
Attached(ids) == Each("stream", ids)
Detached(ids) == Each("unstream", ids)

\* onChannelOpen: a peer that is in the call is told so, and given its streams.
Reintroduced(s) ==
  IF ~call[s].on THEN <<>>
  ELSE <<[t |-> "call", on |-> TRUE], [t |-> "mute", on |-> call[s].muted]>>
         \o (IF remoteCall[s] THEN Attached(LocalStreams(s) \ senders[s]) ELSE <<>>)

\* Mutant: from one who leaves nothing is taken.
RemoteCallKeeps(s, on, told) ==
  /\ remoteCall' = [remoteCall EXCEPT ![s] = on]
  /\ IF remoteCall[s] = on \/ ~call[s].on \/ s \notin up \/ ~on
     THEN line' = told /\ UNCHANGED <<senders, received>>
     ELSE /\ line' = [told EXCEPT ![Peer(s)] = @ \o Attached(LocalStreams(s) \ senders[s])]
          /\ senders' = [senders EXCEPT ![s] = @ \cup LocalStreams(s)]
          /\ UNCHANGED received

\* setRemoteCall: one who comes is given the streams; from one who leaves they are
\* taken.  "told" is what is on the lines already.
RemoteCall(s, on, told) ==
  /\ remoteCall' = [remoteCall EXCEPT ![s] = on]
  /\ IF remoteCall[s] = on \/ ~call[s].on \/ s \notin up
     THEN line' = told /\ UNCHANGED <<senders, received>>
     ELSE IF on
       THEN /\ line' = [told EXCEPT ![Peer(s)] = @ \o Attached(LocalStreams(s) \ senders[s])]
            /\ senders' = [senders EXCEPT ![s] = @ \cup LocalStreams(s)]
            /\ UNCHANGED received
       ELSE /\ line' = [told EXCEPT ![Peer(s)] = @ \o Detached(senders[s])]
            /\ senders' = [senders EXCEPT ![s] = {}]
            /\ received' = [received EXCEPT ![s].streams = {}]

-----------------------------------------------------------------------------
(* The user of a mesh.                                                     *)

\* call(): a capture under way is waited for.
CallStarts(s) ==
  /\ ~call[s].on /\ ~wants[s]
  /\ wants' = [wants EXCEPT ![s] = TRUE]
  /\ IF joining[s] = 0 THEN joining' = [joining EXCEPT ![s] = callNo[s]] /\ UNCHANGED waited
     ELSE waited' = waited \cup {s} /\ UNCHANGED joining
  /\ UNCHANGED <<call, callNo, sharing, captured, lit, up, line, announced, remoteCall, senders,
                 received, missed, muffled, callLeft>>

New == captured + 1

\* The call the capture was for has been left.
CancelledJoin(s) == joining[s] # callNo[s]
CancelledShare(s) == sharing[s] # callNo[s] \/ ~call[s].on \/ call[s].screen # 0

\* The camera is open; unless the call was left meanwhile, the mesh is in it.
CameraOpens(s) ==
  /\ joining[s] # 0 /\ SpendCall(s, "captures")
  /\ joining' = [joining EXCEPT ![s] = 0]
  /\ captured' = New
  /\ IF CancelledJoin(s)
     THEN UNCHANGED <<call, callNo, lit, line, announced, senders>>
     ELSE /\ call' = [call EXCEPT ![s] = [NoCall EXCEPT !.on = TRUE, !.camera = New]]
          /\ callNo' = [callNo EXCEPT ![s] = @ + 1]
          /\ lit' = lit \cup {New}
          /\ announced' = [announced EXCEPT ![Peer(s)] = Append(@, TRUE)]
          /\ IF s \in up
             THEN /\ Told(s, <<[t |-> "call", on |-> TRUE]>>
                               \o (IF remoteCall[s] THEN Attached({New}) ELSE <<>>))
                  /\ senders' = IF remoteCall[s] THEN [senders EXCEPT ![s] = @ \cup {New}] ELSE senders
             ELSE UNCHANGED <<line, senders>>
  /\ UNCHANGED <<sharing, up, remoteCall, received, pastCall>>

\* shareScreen(): the picker is open.
ShareStarts(s) ==
  /\ call[s].on /\ call[s].screen = 0 /\ sharing[s] = 0 /\ callLeft[s]["captures"] > 0
  /\ sharing' = [sharing EXCEPT ![s] = callNo[s]]
  /\ UNCHANGED <<call, callNo, joining, captured, lit, up, line, announced, remoteCall, senders,
                 received, pastCall, callLeft>>

\* The screen is picked; unless the call was left meanwhile, it is shared.
ScreenPicked(s) ==
  /\ sharing[s] # 0 /\ SpendCall(s, "captures")
  /\ sharing' = [sharing EXCEPT ![s] = 0]
  /\ captured' = New
  /\ IF CancelledShare(s)
     THEN UNCHANGED <<call, lit, line, senders>>
     ELSE /\ call' = [call EXCEPT ![s].screen = New]
          /\ lit' = lit \cup {New}
          /\ IF s \in up /\ remoteCall[s]
             THEN Told(s, Attached({New})) /\ senders' = [senders EXCEPT ![s] = @ \cup {New}]
             ELSE UNCHANGED <<line, senders>>
  /\ UNCHANGED <<callNo, joining, up, announced, remoteCall, received, pastCall>>

\* stopScreen, also from the browser's own button.
StopScreen(s) ==
  /\ call[s].screen # 0 /\ SpendCall(s, "leaves")
  /\ call' = [call EXCEPT ![s].screen = 0]
  /\ lit' = lit \ {call[s].screen}
  /\ Told(s, Detached(senders[s] \cap {call[s].screen}))
  /\ senders' = [senders EXCEPT ![s] = @ \ {call[s].screen}]
  /\ UNCHANGED <<callNo, joining, sharing, captured, up, announced, remoteCall, received, pastCall>>

SetMuted(s) ==
  /\ call[s].on /\ SpendCall(s, "mutes")
  /\ call' = [call EXCEPT ![s].muted = ~@]
  /\ IF s \in up THEN Told(s, <<[t |-> "mute", on |-> ~call[s].muted]>>) ELSE UNCHANGED line
  /\ UNCHANGED <<deviceVars, up, announced, remoteCall, senders, received, missed, muffled>>

\* What leaving leaves of a call, and what it switches off.
Left(c) == NoCall
SwitchedOff(s) == LocalStreams(s)

\* leave(): cancels a join under way, too.
Leave(s) ==
  /\ wants[s] /\ SpendCall(s, "leaves")
  /\ wants' = [wants EXCEPT ![s] = FALSE]
  /\ callNo' = [callNo EXCEPT ![s] = @ + 1]
  /\ waited' = waited \ {s}
  /\ call' = [call EXCEPT ![s] = Left(@)]
  /\ lit' = lit \ SwitchedOff(s)
  /\ IF call[s].on
     THEN /\ Told(s, Append(Detached(senders[s]), [t |-> "call", on |-> FALSE]))
          /\ senders' = [senders EXCEPT ![s] = {}]
          /\ received' = [received EXCEPT ![s].streams = {}]
          /\ announced' = [announced EXCEPT ![Peer(s)] = Append(@, FALSE)]
     ELSE UNCHANGED <<line, senders, received, announced>>
  /\ muffled' = IF call[s].muted THEN muffled \cup {s} ELSE muffled
  /\ UNCHANGED <<joining, sharing, captured, up, remoteCall, missed>>

-----------------------------------------------------------------------------
(* What comes from the other mesh.                                         *)

\* The connection is seen to be lost, and to be found again.
Loses(s) ==
  /\ s \in up /\ SpendCall(s, "losses") /\ up' = up \ {s}
  /\ UNCHANGED <<call, deviceVars, line, announced, remoteCall, senders, received, missed, muffled>>

Recovers(s) ==
  /\ s \notin up /\ up' = up \cup {s}
  /\ Told(s, Reintroduced(s))
  /\ senders' = IF call[s].on /\ remoteCall[s]
                THEN [senders EXCEPT ![s] = @ \cup LocalStreams(s)] ELSE senders
  /\ UNCHANGED <<call, deviceVars, announced, remoteCall, received, missed, muffled, callLeft>>

HeardLeaving(s, on) ==
  IF ~on /\ (s \notin up \/ call[Peer(s)].on) THEN missed \cup {s} ELSE missed

\* onPresence.
HearsAnnouncement(s) ==
  /\ announced[s] # <<>>
  /\ announced' = [announced EXCEPT ![s] = Tail(@)]
  /\ missed' = HeardLeaving(s, Head(announced[s]))
  /\ RemoteCall(s, Head(announced[s]), line)
  /\ UNCHANGED <<call, deviceVars, up, muffled, callLeft>>

\* receiveControl, ontrack and onremovetrack.
HearsLine(s) ==
  /\ line[s] # <<>> /\ s \in up
  /\ LET m == Head(line[s])
         taken == [line EXCEPT ![s] = Tail(@)] IN
     IF m.t = "call"
     THEN missed' = HeardLeaving(s, m.on) /\ RemoteCall(s, m.on, taken)
     ELSE /\ line' = taken
          /\ received' = [received EXCEPT ![s] =
               CASE m.t = "mute" -> [@ EXCEPT !.muted = m.on]
                 [] m.t = "stream" -> [@ EXCEPT !.streams = @ \cup {m.id}]
                 [] m.t = "unstream" -> [@ EXCEPT !.streams = @ \ {m.id}]]
          /\ UNCHANGED <<remoteCall, senders, missed>>
  /\ UNCHANGED <<call, deviceVars, up, announced, muffled, callLeft>>

-----------------------------------------------------------------------------
CallInit ==
  /\ call = [s \in Callers |-> NoCall] /\ callNo = [s \in Callers |-> 1]
  /\ joining = [s \in Callers |-> 0] /\ sharing = [s \in Callers |-> 0]
  /\ captured = 0 /\ lit = {} /\ up = Callers
  /\ line = [s \in Callers |-> <<>>] /\ announced = [s \in Callers |-> <<>>]
  /\ remoteCall = [s \in Callers |-> FALSE] /\ senders = [s \in Callers |-> {}]
  /\ received = [s \in Callers |-> Nothing]
  /\ wants = [s \in Callers |-> FALSE] /\ waited = {} /\ missed = {} /\ muffled = {}
  /\ callLeft = CallBound

CallNext ==
  \E s \in Callers :
    \/ CallStarts(s) \/ CameraOpens(s) \/ ShareStarts(s) \/ ScreenPicked(s) \/ StopScreen(s)
    \/ SetMuted(s) \/ Leave(s) \/ Loses(s) \/ Recovers(s) \/ HearsAnnouncement(s) \/ HearsLine(s)

CallSpec == CallInit /\ [][CallNext]_callVars

-----------------------------------------------------------------------------
\* Nothing is on its way, and both meshes see the connection up.
CallAtRest ==
  /\ up = Callers
  /\ \A s \in Callers : line[s] = <<>> /\ announced[s] = <<>> /\ joining[s] = 0 /\ sharing[s] = 0

\* A camera or screen is on exactly as long as it is in its user's call: leaving
\* switches off what was opened, also what was still being opened (leave, call,
\* shareScreen: "release the device rather than leave its light on").
DevicesFollowCall == lit = UNION {LocalStreams(s) : s \in Callers}

\* At rest the user is in the call if and only if they asked for it last, but for
\* a call() that waited for a capture which had been cancelled.
CallAsAsked ==
  \A s \in Callers : CallAtRest /\ s \notin waited => (call[s].on <=> wants[s])

\* At rest each of two in the call shows just the other's streams and its muting; and neither sends anything to one who is not in it.  Not so
\* for one who heard of the other's leaving while the connection was lost, or after
\* it had come back (setRemoteCall then drops streams that are still sent, or keeps
\* sending what the other has dropped), nor for the muting of one who left muted and
\* came back (call() tells nobody that it is over).
CallShown ==
  \A s \in Callers :
    LET p == Peer(s) IN
    CallAtRest /\ missed = {} =>
      IF call[s].on /\ call[p].on
      THEN /\ received[s].streams = LocalStreams(p)
           /\ p \notin muffled => received[s].muted = call[p].muted
      ELSE senders[s] = {}

\* What a call is to the person in it and to the others: the devices that are
\* on are those of the call one is in, and what the others show of it is what
\* it was last said to be (media.ts).
\* Each as stated above.
CallInv == CallTypeOK /\ DevicesFollowCall /\ CallAsAsked /\ CallShown
=============================================================================
