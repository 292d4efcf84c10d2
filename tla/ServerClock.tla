---------------------------- MODULE ServerClock ----------------------------
(***************************************************************************)
(* The server's durable hybrid logical clock, src/server/server-clock.ts.  *)
(*                                                                         *)
(* Each instance keeps its clock in memory and persists a watermark, a     *)
(* lease ahead of the clock, in one meta entry shared by every instance on *)
(* the same storage.  A stamp or a receive arms a throttle timer; when it  *)
(* fires a flush re-reads the shared watermark, merges it, and writes a    *)
(* new one.  Instances crash, restart, shut down, and their wall clocks    *)
(* step back; every storage call is a step of its own.                     *)
(***************************************************************************)
EXTENDS HLC, Sequences

CONSTANTS Instances,     \* node ranks of the server instances
          Lease,         \* HLC_PERSIST_LEASE_MS, in ticks
          Interval,      \* HLC_PERSIST_INTERVAL_MS, in ticks
          Remotes,       \* clocks that clients and peers may send
          NoMark,        \* no watermark stored yet
          Off,           \* no timer runs
          Timely,        \* timers fire and storage answers within their tick
          ReadsFail,     \* getMeta may throw
          WritesFail,    \* setMeta may throw
          MaxWall,       \* bound: the last tick
          MaxFlights,    \* bound: overlapping flushes of one instance
          Budget,        \* bound: calls that move the clock
          Faults         \* bound: crashes, shutdowns and backward steps

ASSUME ServerClockAssumption ==
  /\ Instances \subseteq Nat
  /\ Lease \in Nat \ {0} /\ Interval \in Nat /\ MaxWall \in Nat
  /\ MaxFlights \in Nat /\ Budget \in Nat /\ Faults \in Nat
  /\ Remotes \subseteq Clock
  /\ NoMark \notin Clock /\ Off \notin Nat
  /\ {Timely, ReadsFail, WritesFail} \subseteq BOOLEAN

VARIABLES
  wall,       \* what Date.now() returns on each instance
  mode,       \* "down", "loading", "up" or "closing"
  hlc,        \* this.hlc
  pending,    \* this.persistPending
  timer,      \* ticks until persistTimer fires, or Off
  flights,    \* flushes in progress, oldest first
  watermark,  \* the stored meta entry, shared
  issued,     \* history: the newest clock stamped since the last boot
  spoilt,     \* history: a watermark write of this life has failed
  stopped,    \* the wall clock when the instance last went down
  calls,      \* calls left of Budget
  faults      \* faults left of Faults

vars == <<wall, mode, hlc, pending, timer, flights, watermark, issued, spoilt, stopped, calls, faults>>

Running(i) == mode[i] \in {"up", "closing"}     \* ensureLoaded has resolved
Merged(i, mark) ==
  IF mark = NoMark THEN hlc[i] ELSE ReceiveHlc(hlc[i], mark, wall[i])

Flight  == [stage : {"read"}]
             \cup [stage : {"merge"}, seen : Clock \cup {NoMark}]
             \cup [stage : {"write"}, mark : Clock]

TypeOK ==
  /\ wall \in [Instances -> Nat]
  /\ mode \in [Instances -> {"down", "loading", "up", "closing"}]
  /\ hlc \in [Instances -> Clock]
  /\ pending \in [Instances -> BOOLEAN]
  /\ timer \in [Instances -> 0 .. Interval \cup {Off}]
  /\ flights \in [Instances -> Seq(Flight)]
  /\ watermark \in Clock \cup {NoMark}
  /\ issued \in [Instances -> Clock]
  /\ spoilt \in [Instances -> BOOLEAN]
  /\ stopped \in [Instances -> Nat]
  /\ calls \in Nat /\ faults \in Nat

Init ==
  /\ wall = [i \in Instances |-> 1]
  /\ mode = [i \in Instances |-> "loading"]
  /\ hlc = [i \in Instances |-> CreateHlc(i)]
  /\ pending = [i \in Instances |-> FALSE]
  /\ timer = [i \in Instances |-> Off]
  /\ flights = [i \in Instances |-> << >>]
  /\ watermark = NoMark
  /\ issued = hlc
  /\ spoilt = [i \in Instances |-> FALSE]
  /\ stopped = wall
  /\ calls = Budget /\ faults = Faults

-----------------------------------------------------------------------------
(* Boot.  setStorage starts the load; no message is served before it ends. *)
(* A restart takes at least a tick, unless the wall clock stepped back.    *)

Boot(i) ==
  /\ mode[i] = "down" /\ wall[i] # stopped[i]
  /\ mode' = [mode EXCEPT ![i] = "loading"]
  /\ hlc' = [hlc EXCEPT ![i] = CreateHlc(i)]
  /\ issued' = [issued EXCEPT ![i] = CreateHlc(i)]
  /\ spoilt' = [spoilt EXCEPT ![i] = FALSE]
  /\ UNCHANGED <<wall, pending, timer, flights, watermark, stopped, calls, faults>>

EnsureLoaded(i) ==
  /\ mode[i] = "loading"
  /\ mode' = [mode EXCEPT ![i] = "up"]
  /\ \/ hlc' = [hlc EXCEPT ![i] = Merged(i, watermark)]
     \/ ReadsFail /\ UNCHANGED hlc
  /\ UNCHANGED <<wall, pending, timer, flights, watermark, issued, spoilt, stopped, calls, faults>>

-----------------------------------------------------------------------------
(* Operation.                                                              *)

\* schedulePersist: note the request; start the timer unless it runs.
SchedulePersist(i) ==
  /\ pending' = [pending EXCEPT ![i] = TRUE]
  /\ timer' = [timer EXCEPT ![i] = IF @ = Off THEN Interval ELSE @]

Call(i) == Running(i) /\ calls > 0 /\ calls' = calls - 1

Stamp(i) ==
  /\ Call(i)
  /\ hlc' = [hlc EXCEPT ![i] = SendHlc(@, wall[i])]
  /\ issued' = [issued EXCEPT ![i] = hlc'[i]]
  /\ SchedulePersist(i)
  /\ UNCHANGED <<wall, mode, flights, watermark, spoilt, stopped, faults>>

Receive(i) ==
  /\ Call(i)
  /\ \E remote \in Remotes : hlc' = [hlc EXCEPT ![i] = ReceiveHlc(@, remote, wall[i])]
  /\ SchedulePersist(i)
  /\ UNCHANGED <<wall, mode, flights, watermark, issued, spoilt, stopped, faults>>

\* The poll loop's refresh: merges the shared watermark, persists nothing.
Refresh(i) ==
  /\ Call(i)
  /\ watermark # NoMark
  /\ hlc' = [hlc EXCEPT ![i] = Merged(i, watermark)]
  /\ UNCHANGED <<wall, mode, pending, timer, flights, watermark, issued, spoilt, stopped, faults>>

-----------------------------------------------------------------------------
(* Persistence.  Flushes of one instance may overlap when storage is slow; *)
(* the storage answers the calls of one instance in the order it made them. *)

\* Mutant: a flush in progress is taken to cover the new request too.
StartFlushUnlessBusy(i) ==
  flights' = [flights EXCEPT ![i] = IF pending[i] /\ @ = << >>
                                    THEN Append(@, [stage |-> "read"]) ELSE @]

\* flush() does nothing unless a write is wanted.
StartFlush(i) ==
  flights' = [flights EXCEPT ![i] = IF pending[i] THEN Append(@, [stage |-> "read"]) ELSE @]

TimerFires(i) ==
  /\ Running(i)
  /\ timer[i] # Off /\ (Timely => timer[i] = 0)
  /\ Len(flights[i]) < MaxFlights
  /\ timer' = [timer EXCEPT ![i] = Off]
  /\ StartFlush(i)
  /\ pending' = [pending EXCEPT ![i] = FALSE]
  /\ UNCHANGED <<wall, mode, hlc, watermark, issued, spoilt, stopped, calls, faults>>

FlushRead(i) ==
  \E k \in DOMAIN flights[i], seen \in {watermark} \cup (IF ReadsFail THEN {NoMark} ELSE {}) :
    /\ flights[i][k].stage = "read" /\ \A j \in 1 .. k - 1 : flights[i][j].stage # "read"
    /\ flights' = [flights EXCEPT ![i][k] = [stage |-> "merge", seen |-> seen]]
    /\ UNCHANGED <<wall, mode, hlc, pending, timer, watermark, issued, spoilt, stopped, calls, faults>>

\* Mutant: the watermark is the bare clock, without the lease.
FlushMergeNoLease(i) ==
  \E k \in DOMAIN flights[i] :
    /\ flights[i][k].stage = "merge" /\ \A j \in 1 .. k - 1 : flights[i][j].stage = "write"
    /\ hlc' = [hlc EXCEPT ![i] = Merged(i, flights[i][k].seen)]
    /\ flights' = [flights EXCEPT ![i][k] =
                     [stage |-> "write",
                      mark |-> [ms |-> hlc'[i].ms, counter |-> 0, node |-> hlc'[i].node]]]
    /\ UNCHANGED <<wall, mode, pending, timer, watermark, issued, spoilt, stopped, calls, faults>>

\* The clock merges what was read, and the watermark to write is computed
\* from the merged clock, a lease ahead.
FlushMerge(i) ==
  \E k \in DOMAIN flights[i] :
    /\ flights[i][k].stage = "merge" /\ \A j \in 1 .. k - 1 : flights[i][j].stage = "write"
    /\ hlc' = [hlc EXCEPT ![i] = Merged(i, flights[i][k].seen)]
    /\ flights' = [flights EXCEPT ![i][k] =
                     [stage |-> "write",
                      mark |-> [ms |-> hlc'[i].ms + Lease, counter |-> 0, node |-> hlc'[i].node]]]
    /\ UNCHANGED <<wall, mode, pending, timer, watermark, issued, spoilt, stopped, calls, faults>>

FlushWrite(i) ==
  /\ flights[i] # << >> /\ Head(flights[i]).stage = "write"
  /\ flights' = [flights EXCEPT ![i] = Tail(@)]
  /\ \/ watermark' = Head(flights[i]).mark /\ UNCHANGED spoilt
     \/ WritesFail /\ spoilt' = [spoilt EXCEPT ![i] = TRUE] /\ UNCHANGED watermark
  /\ UNCHANGED <<wall, mode, hlc, pending, timer, issued, stopped, calls, faults>>

-----------------------------------------------------------------------------
(* Shutdown, crashes and time.                                             *)

Fault == faults > 0 /\ faults' = faults - 1

\* close() cancels the timer and flushes; the handlers it then drains may
\* still stamp before the process exits.
Close(i) ==
  /\ Fault
  /\ mode[i] = "up" /\ Len(flights[i]) < MaxFlights
  /\ mode' = [mode EXCEPT ![i] = "closing"]
  /\ timer' = [timer EXCEPT ![i] = Off]
  /\ StartFlush(i)
  /\ pending' = [pending EXCEPT ![i] = FALSE]
  /\ UNCHANGED <<wall, hlc, watermark, issued, spoilt, stopped, calls>>

Stop(i) ==
  /\ mode' = [mode EXCEPT ![i] = "down"]
  /\ pending' = [pending EXCEPT ![i] = FALSE]
  /\ timer' = [timer EXCEPT ![i] = Off]
  /\ flights' = [flights EXCEPT ![i] = << >>]
  /\ stopped' = [stopped EXCEPT ![i] = wall[i]]
  /\ UNCHANGED <<wall, hlc, watermark, issued, spoilt, calls>>

Exit(i)  == mode[i] = "closing" /\ flights[i] = << >> /\ Stop(i) /\ UNCHANGED faults
Crash(i) == mode[i] # "down" /\ Fault /\ Stop(i)

Settled(i) == timer[i] # 0 /\ flights[i] = << >> /\ mode[i] # "loading"

Tick ==
  /\ \A i \in Instances : wall[i] < MaxWall /\ (Timely => Settled(i))
  /\ wall' = [i \in Instances |-> wall[i] + 1]
  /\ timer' = [i \in Instances |-> IF timer[i] \in {Off, 0} THEN timer[i] ELSE timer[i] - 1]
  /\ UNCHANGED <<mode, hlc, pending, flights, watermark, issued, spoilt, stopped, calls, faults>>

\* A backwards NTP step of one machine's wall clock.
StepBack(i) ==
  /\ Fault
  /\ wall[i] > 0
  /\ wall' = [wall EXCEPT ![i] = @ - 1]
  /\ UNCHANGED <<mode, hlc, pending, timer, flights, watermark, issued, spoilt, stopped, calls>>

Persist(i) == TimerFires(i) \/ FlushRead(i) \/ FlushMerge(i) \/ FlushWrite(i)

Step(i) ==
  \/ Boot(i) \/ EnsureLoaded(i)
  \/ Stamp(i) \/ Receive(i) \/ Refresh(i)
  \/ Persist(i)
  \/ Close(i) \/ Exit(i) \/ Crash(i) \/ StepBack(i)

Next == Tick \/ \E i \in Instances : Step(i)

Spec == Init /\ [][Next]_vars

\* Timers fire and storage calls return: the runtime never drops them.
FairSpec == Spec /\ \A i \in Instances : WF_vars(TimerFires(i)) /\ WF_vars(FlushRead(i))
                                          /\ WF_vars(FlushMerge(i)) /\ WF_vars(FlushWrite(i))
-----------------------------------------------------------------------------
(* Properties.                                                             *)

\* Within one life of an instance every stamp is above the stamps before it,
\* whatever the wall clock, the peers and the stored watermark do: clients
\* drop a delta whose HLC does not advance (ServerClock.stamp).
StampsAdvance ==
  [][\A i \in Instances : Running(i) =>
       issued'[i] = issued[i] \/ Before(issued[i], issued'[i])]_vars

Covered(i) == watermark # NoMark /\ NotAfter(issued[i], watermark)

\* An HLC handed out above the stored watermark always has a write on its
\* way: a running timer or a flush in progress.  Nothing schedulePersist was
\* told is forgotten by overlapping flushes, a shutdown or a drained handler
\* that stamps after close() flushed (schedulePersist, flush, close).  Only
\* a write that failed is not tried again before the next stamp.
UncoveredIsPending ==
  \A i \in Instances :
    Running(i) /\ ~spoilt[i] /\ issued[i] # CreateHlc(i) =>
      Covered(i) \/ timer[i] # Off \/ flights[i] # << >>

\* Every HLC an instance stamped is in time covered by the stored watermark,
\* if it lives and no write of its failed: a restart after that stamps above it, however the
\* flushes overlapped with stamps and a shutdown (schedulePersist, flush).
EventuallyCovered ==
  \A i \in Instances : []<>(~Running(i) \/ spoilt[i] \/ issued[i] = CreateHlc(i) \/ Covered(i))
=============================================================================
