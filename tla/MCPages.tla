------------------------------ MODULE MCPages -------------------------------
(***************************************************************************)
(* The client: its queue, its storage and what a page binds to it.  A      *)
(* behaviour moves one part; the others rest.                              *)
(***************************************************************************)
EXTENDS Subscriptions, HtmxViews, TextBinding, LiveEvents, ClientDisk, ClientSync

VARIABLE part  \* the one that moves

Pick(S) == CHOOSE x \in S : TRUE

UseRun(m, b, d, r) == [mounts |-> m, breaks |-> b, deltas |-> d, refuses |-> r]
UseRuns == {UseRun(3,0,0,{}), UseRun(2,1,0,{}), UseRun(2,0,1,{}), UseRun(2,1,0,{"q"})}

HtmxRun(m, b, d) == [reads |-> m, changes |-> b, removals |-> d]
HtmxRuns == {HtmxRun(2,2,1), HtmxRun(2,3,0)}

TextRun(t, e, r, f, d, c, l, k) ==
  [types |-> t, erases |-> e, removes |-> r, refusals |-> f, denials |-> d, cuts |-> c,
   leaves |-> l, closes |-> k]
TextRuns == {TextRun(2,1,0,0,0,0,0,0), TextRun(2,0,1,0,0,0,0,0), TextRun(1,0,1,0,0,1,0,0),
             TextRun(1,1,0,2,0,0,0,0), TextRun(1,1,0,0,1,0,0,0), TextRun(1,0,0,0,0,0,1,0),
             TextRun(2,0,0,0,0,0,0,1)}

LiveKinds == [r |-> "react", s |-> "svelte", w |-> "vanilla"]
LiveTtls  == [r |-> 2, s |-> 2, w |-> 0]
LiveRun(a, o, c, r, d) ==
  [arrives |-> a, opens |-> o, closes |-> c, rekeys |-> r, again |-> d]
LiveRuns == {LiveRun(3,2,0,0,0), LiveRun(1,4,2,0,0), LiveRun(2,2,1,1,0), LiveRun(1,3,1,0,1),
             LiveRun(1,2,1,1,1)}

DiskRun(w, s, d, l, c, e, r, t) ==
  [writes |-> w, syncs |-> s, drops |-> d, links |-> l, clears |-> c, ends |-> e, releases |-> r,
   throws |-> t]
DiskRuns == [clear   |-> DiskRun(0,1,1,1,1,1,1,1), warn |-> DiskRun(1,2,1,1,0,0,0,0),
             migrate |-> DiskRun(2,1,0,2,0,1,1,0)]

SameRow   == [o \in Ops |-> 1]
Kinds     == <<"insert", "update", "delete">>
AndBatch  == <<1, 1, 2>>
ThenBatch == <<<<1, 2>>, <<3>>>>
QueueRun(p, l, x, b, c, f, m, s, n) ==
  [calls |-> p, losses |-> l, crashes |-> x, bounces |-> b, cutoffs |-> c, failures |-> f,
   minutes |-> m, strays |-> s, any |-> n]
QueueRuns == {QueueRun(2,0,1,1,0,1,1,1,1), QueueRun(1,1,0,0,1,0,0,0,1), QueueRun(1,1,1,0,0,0,0,0,2)}

-----------------------------------------------------------------------------
Init ==
  /\ part \in {"use", "htmx", "text", "live", "disk", "queue"}
  /\ UseInit /\ (part = "use" \/ <<binding, useLeft>> = <<"direct", Pick(UseBounds)>>)
  /\ HtmxInit /\ (part = "htmx" \/ budget = Pick(HtmxBounds))
  /\ TextInit /\ (part = "text" \/ textLeft = Pick(TextBounds))
  /\ LiveInit /\ (part = "live" \/ liveLeft = Pick(LiveBounds))
  /\ DiskInit /\ (part = "disk" \/ handler = "clear")
  /\ QueueInit /\ (part = "queue" \/ left.rest = Pick(QueueBounds))

\* The parts that rest.
AllBut(p) ==
  /\ p # "use" => UNCHANGED useVars
  /\ p # "htmx" => UNCHANGED htmxVars
  /\ p # "text" => UNCHANGED textVars
  /\ p # "live" => UNCHANGED liveVars
  /\ p # "disk" => UNCHANGED diskVars
  /\ p # "queue" => UNCHANGED queueVars

Next ==
  /\ UNCHANGED part
  /\ \/ part = "use" /\ UseNext /\ AllBut("use")
     \/ part = "htmx" /\ HtmxNext /\ AllBut("htmx")
     \/ part = "text" /\ TextNext /\ AllBut("text")
     \/ part = "live" /\ LiveNext /\ AllBut("live")
     \/ part = "disk" /\ DiskNext /\ AllBut("disk")
     \/ part = "queue" /\ QueueNext /\ AllBut("queue")

Spec == Init /\ [][Next]_<<part, useVars, htmxVars, textVars, liveVars, diskVars, queueVars>>

\* What the hooks of a page are given, rows and events: each as stated in its module.
HooksInv == UseInv /\ LiveInv
=============================================================================
