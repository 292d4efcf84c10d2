------------------------------ MODULE MCStores ------------------------------
(***************************************************************************)
(* What the server keeps and who works on it: object storage, the SQL      *)
(* stores, the eager buffer, the op log and its compaction, the            *)
(* application's tasks, the gate an op passes, and windowed subscriptions. *)
(* A behaviour moves one part; the others rest.                            *)
(***************************************************************************)
EXTENDS ObjectShared, WalBuffer, RoomState, ObjectDriver, SqlStore, CatchUp,
        ServerTasks, Windows, OpGate

VARIABLE part  \* the one that moves

Pick(S) == CHOOSE x \in S : TRUE

Authors   == [c1 |-> "a", c2 |-> "b", c3 |-> "a"]
SharedRun(w, f, r, g) ==
  [writes |-> w, faults |-> f, refreshes |-> r, graces |-> g]
SharedRuns == {SharedRun(3,1,0,1), SharedRun(3,0,1,1), SharedRun(2,2,1,1)}

Sizes == <<1, 2, 1, 2>>

RoomRun(w, r, t, s, c, x, f) ==
  [writes |-> w, reserves |-> r, ticks |-> t, snaps |-> s, cuts |-> c, crashes |-> x,
   faults |-> f]
RoomRuns == {RoomRun(3,0,0,1,0,1,0), RoomRun(2,1,0,1,1,0,1), RoomRun(2,0,0,1,0,1,1), RoomRun(1,2,2,1,0,1,0)}

StoreRun(s, t, c, f, w) ==
  [sends |-> s, ticks |-> t, crashes |-> c, faults |-> f, sweeps |-> w]
StoreRuns == {StoreRun(3,1,0,0,0), StoreRun(2,0,1,0,0), StoreRun(1,1,0,0,2),
              StoreRun(2,2,0,0,0), StoreRun(0,3,1,1,3)}

LogOrder   == <<"a", "b">>
LogTables  == <<"a", "b", "b">>
LogPaths   == <<{"durable"}, {"away", "eager"}, {"eager", "consistent"}>>
LogRun(w, c, x, f, s, n) ==
  [writes |-> w, cuts |-> c, crashes |-> x, failures |-> f, sweeps |-> s, mishaps |-> n]
LogRuns == {LogRun(3,0,0,1,0,1), LogRun(2,1,1,1,1,2), LogRun(1,1,1,0,2,3), LogRun(2,1,0,0,2,3)}

Mix(x, y, z) == [x |-> x, y |-> y, z |-> z]
TaskMixes ==
  {Mix({"lock"}, {"lock"}, {"tryLock"}), Mix({"atomic"}, {"atomic", "bare"}, {"rest"}),
   Mix({"bare", "rest"}, {"rest"}, {"rest"})}

WindowRun == [writes |-> 2, asks |-> 1, drops |-> 1]

GatedOp(t, b, z, l) == [table |-> t, batch |-> b, size |-> z, late |-> l]
GatedOps ==
  [o1 |-> GatedOp("t","B",2,FALSE), o2 |-> GatedOp("e","B",2,FALSE), o3 |-> GatedOp("t","-",1,FALSE),
   o4 |-> GatedOp("t","-",3,FALSE), o5 |-> GatedOp("e","C",2,TRUE), o6 |-> GatedOp("r","C",2,FALSE),
   o7 |-> GatedOp("e","-",1,FALSE)]
GateSpans == [second |-> 1, minute |-> 2]
Limits(s, m, t) == [second |-> s, minute |-> m, table |-> t]
GateRun(a, b, l, d, r, f, x) ==
  [scripts |-> [a |-> a, b |-> b], limits |-> l, stored |-> d, races |-> r, refusals |-> f,
   losses |-> x]
GateRuns ==
  {GateRun(<<<<"o1", "o2">>, <<"o3">>, <<"o7">>>>, <<<<"o4">>>>, Limits(1,1,0),
           FALSE, 0, 1, 0),
   GateRun(<<<<"o1", "o2">>>>, <<<<"o5", "o6">>>>, Limits(0,0,0), TRUE, 1, 0, 1),
   GateRun(<<<<"o1", "o2">>>>, <<<<"o3">>, <<"o7">>>>, Limits(2,0,1), FALSE, 0, 0, 1)}

-----------------------------------------------------------------------------
Init ==
  /\ part \in {"shared", "wal", "room", "driver", "sql", "log", "tasks", "windows", "gate"}
  /\ SharedInit /\ (part = "shared" \/ sharedLeft = Pick(SharedBounds))
  /\ WalInit /\ (part = "wal" \/ walMode = "reject")
  /\ RoomInit /\ (part = "room" \/ roomLeft = Pick(RoomBounds))
  /\ DriverInit /\ (part = "driver" \/ <<provider, driverJob>> = <<"memory", "cas">>)
  /\ StoreInit /\ (part = "sql" \/ <<dialect, storeLeft>> = <<"sqlite", Pick(StoreBounds)>>)
  /\ CatchUpInit /\ (part = "log" \/ <<polling, catchUpLeft>> = <<FALSE, Pick(CatchUpBounds)>>)
  /\ TasksInit /\ (part = "tasks" \/ kinds = Pick(TaskKinds))
  /\ WindowsInit
  /\ GateInit /\ (part = "gate" \/ gateLeft = Pick(GateBounds))

\* The parts that rest.
AllBut(p) ==
  /\ p # "shared" => UNCHANGED sharedVars
  /\ p # "wal" => UNCHANGED walVars
  /\ p # "room" => UNCHANGED roomVars
  /\ p # "driver" => UNCHANGED driverVars
  /\ p # "sql" => UNCHANGED storeVars
  /\ p # "log" => UNCHANGED catchUpVars
  /\ p # "tasks" => UNCHANGED taskVars
  /\ p # "windows" => UNCHANGED windowVars
  /\ p # "gate" => UNCHANGED gateVars

Next ==
  /\ UNCHANGED part
  /\ \/ part = "shared" /\ SharedNext /\ AllBut("shared")
     \/ part = "wal" /\ WalNext /\ AllBut("wal")
     \/ part = "room" /\ RoomNext /\ AllBut("room")
     \/ part = "driver" /\ DriverNext /\ AllBut("driver")
     \/ part = "sql" /\ StoreNext /\ AllBut("sql")
     \/ part = "log" /\ CatchUpNext /\ AllBut("log")
     \/ part = "tasks" /\ TasksNext /\ AllBut("tasks")
     \/ part = "windows" /\ WindowsNext /\ AllBut("windows")
     \/ part = "gate" /\ GateNext /\ AllBut("gate")

Spec == Init /\ [][Next]_<<part, sharedVars, walVars, roomVars, driverVars, storeVars,
                           catchUpVars, taskVars, windowVars, gateVars>>

\* The segments of a write-ahead log and the driver that PUTs them: each as stated
\* in its module.
SegmentsInv == WalInv /\ DriverInv
=============================================================================
