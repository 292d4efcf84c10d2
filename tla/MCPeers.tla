------------------------------ MODULE MCPeers -------------------------------
(***************************************************************************)
(* The server's connections and what devices say to each other through     *)
(* them: presence, calls and the mesh between peers, the credentials it    *)
(* needs, and the frames of a connection.  A behaviour moves one part; the *)
(* others rest.                                                            *)
(***************************************************************************)
EXTENDS PeerFrames, PeerMesh, PeerCall, IceRefresh, Presence, PresenceHost,
        Connections, Delivery

VARIABLE part  \* the one that moves

Pick(S) == CHOOSE x \in S : TRUE

MeshBounds == [losses |-> 1, changes |-> 1, drops |-> 1, closes |-> 1, opens |-> 3]

CallBounds == [a |-> [captures |-> 2, leaves |-> 1, losses |-> 0, mutes |-> 0],
               b |-> [captures |-> 1, leaves |-> 0, losses |-> 1, mutes |-> 1]]

IceRun(d, l, f, s, c) ==
  [drops |-> d, limits |-> l, faults |-> f, slow |-> s, closes |-> c]
IceRuns == {IceRun(1,0,1,0,0), IceRun(0,1,0,1,1), IceRun(0,0,1,1,0), IceRun(1,0,0,0,1)}

Reach    == [a |-> {"i"}, b |-> {"i", "j"}]
TwoRooms == {<<"q", "r">>, <<"p", "s">>}
PresenceRun(p, a, j, l, t, h, f) ==
  [publishes |-> p, admits |-> a, joins |-> j, leaves |-> l, lapses |-> t, purges |-> h,
   faults |-> f]
PresenceRuns == [memory   |-> PresenceRun(2,2,3,1,1,0,0), redis  |-> PresenceRun(2,2,1,1,1,1,0),
                 postgres |-> PresenceRun(2,2,1,1,1,0,1), polled |-> PresenceRun(2,2,2,0,0,0,0)]

HostRun(pa, pb, o, cl, l, f, cu, n) ==
  [publishes |-> [a |-> pa, b |-> pb], opens |-> [a |-> o, b |-> 0], clears |-> cl,
   lapses |-> l, faults |-> f, cuts |-> cu, clients |-> n]
HostRuns == {HostRun(0,2,1,0,1,0,0,1), HostRun(0,1,2,1,0,2,1,2), HostRun(1,2,0,1,1,1,0,2)}

TokensOf == [a |-> {"u", "v"}, b |-> {"u"}]
ConnRun(o, f, b, r, x) ==
  [opens |-> o, frames |-> f, breaks |-> b, reaps |-> r, refusals |-> x]
ConnRuns == [ws |-> ConnRun(1,3,1,0,1), sse |-> ConnRun(1,4,0,0,0), polling |-> ConnRun(1,3,1,1,0)]

DelivRun(f, c, p, r) == [frames |-> f, cuts |-> c, posts |-> p, refusals |-> r]
DelivRuns == [ws      |-> DelivRun(4,1,0,2), sse        |-> DelivRun(5,2,0,0),
              polling |-> DelivRun(5,1,0,0), serverless |-> DelivRun(4,0,3,0)]

-----------------------------------------------------------------------------
Init ==
  /\ part \in {"frames", "mesh", "call", "ice", "presence", "host", "wire", "delivery"}
  /\ FramesInit
  /\ MeshInit
  /\ CallInit
  /\ IceInit /\ (part = "ice" \/ <<provider, iceLeft>> = <<"none", Pick(IceBounds)>>)
  /\ PresenceInit /\ (part = "presence" \/ adapter = "memory")
  /\ HostInit /\ (part = "host" \/ hostLeft = Pick(HostBounds))
  /\ ConnInit /\ (part = "wire" \/ wire = "ws")
  /\ DelivInit /\ (part = "delivery" \/ carrier = "ws")

\* The parts that rest.
AllBut(p) ==
  /\ p # "frames" => UNCHANGED framesVars
  /\ p # "mesh" => UNCHANGED meshVars
  /\ p # "call" => UNCHANGED callVars
  /\ p # "ice" => UNCHANGED iceVars
  /\ p # "presence" => UNCHANGED presenceVars
  /\ p # "host" => UNCHANGED hostVars
  /\ p # "wire" => UNCHANGED connVars
  /\ p # "delivery" => UNCHANGED delivVars

Next ==
  /\ UNCHANGED part
  /\ \/ part = "frames" /\ FramesNext /\ AllBut("frames")
     \/ part = "mesh" /\ MeshNext /\ AllBut("mesh")
     \/ part = "call" /\ CallNext /\ AllBut("call")
     \/ part = "ice" /\ IceNext /\ AllBut("ice")
     \/ part = "presence" /\ PresenceNext /\ AllBut("presence")
     \/ part = "host" /\ HostNext /\ AllBut("host")
     \/ part = "wire" /\ ConnNext /\ AllBut("wire")
     \/ part = "delivery" /\ DelivNext /\ AllBut("delivery")

Spec == Init /\ [][Next]_<<part, framesVars, meshVars, callVars, iceVars, presenceVars, hostVars,
                           connVars, delivVars>>

\* The mesh and the credentials it connects with: each as stated in its module.
LinkInv == MeshInv /\ IceInv
=============================================================================
