-------------------------- MODULE ServerClockProofs --------------------------
(***************************************************************************)
(* Theorems about HLC and ServerClock, for any number of instances, any    *)
(* lease, interval and drift bound, and whatever the wall clocks, the      *)
(* peers and the storage do.                                               *)
(***************************************************************************)
EXTENDS ServerClock, SequenceTheorems, TLAPS

-----------------------------------------------------------------------------
(* The clock (HLC).                                                        *)

\* Normalize keeps a clock packable, and never moves it back.
LEMMA NormalizeTyped ==
  ASSUME NEW ms \in Nat, NEW counter \in Nat, NEW node \in Nat
  PROVE  Normalize(ms, counter, node) \in Clock
  BY HLCAssumption DEF Normalize, Clock

\* sendHlc returns a clock that packs.
LEMMA SendTyped ==
  ASSUME NEW local \in Clock, NEW at \in Nat
  PROVE  SendHlc(local, at) \in Clock
<1> DEFINE ms == AtLeast(at, local.ms)
           counter == IF ms = local.ms THEN local.counter + 1 ELSE 0
<1>1. ms \in Nat /\ counter \in Nat /\ local.node \in Nat
  BY HLCAssumption DEF Clock, AtLeast
<1>2. SendHlc(local, at) = Normalize(ms, counter, local.node)
  BY DEF SendHlc
<1> HIDE DEF ms, counter
<1> QED BY <1>1, <1>2, NormalizeTyped

\* receiveHlc returns a clock that packs.
LEMMA ReceiveTyped ==
  ASSUME NEW local \in Clock, NEW remote \in Clock, NEW at \in Nat
  PROVE  ReceiveHlc(local, remote, at) \in Clock
<1> DEFINE followed == AtMost(remote.ms, at + MaxDrift)
           ms == AtLeast(AtLeast(at, local.ms), followed)
           counter == CASE ms = local.ms /\ ms = followed ->
                             AtLeast(local.counter, remote.counter) + 1
                        [] ms = local.ms /\ ms # followed -> local.counter + 1
                        [] ms # local.ms /\ ms = followed -> remote.counter + 1
                        [] OTHER -> 0
<1>1. followed \in Nat /\ local.counter \in Nat /\ remote.counter \in Nat /\ local.node \in Nat
  BY HLCAssumption DEF Clock, AtMost
<1>2. ms \in Nat
  BY <1>1 DEF Clock, AtLeast
<1>3. ReceiveHlc(local, remote, at) = Normalize(ms, counter, local.node)
  BY DEF ReceiveHlc
<1> HIDE DEF followed, ms
<1>4. counter \in Nat
  BY <1>1 DEF AtLeast
<1> HIDE DEF counter
<1> QED BY <1>1, <1>2, <1>3, <1>4, NormalizeTyped

\* A stamp is strictly above the clock it is made from, even when the wall
\* clock stepped back or the counter overflowed (sendHlc).
LEMMA SendAdvances ==
  ASSUME NEW local \in Clock, NEW at \in Nat
  PROVE  Before(local, SendHlc(local, at))
  BY HLCAssumption DEF Clock, SendHlc, Normalize, AtLeast, Before

\* Learning of a remote clock moves the local one strictly forward (receiveHlc).
LEMMA ReceiveAdvances ==
  ASSUME NEW local \in Clock, NEW remote \in Clock, NEW at \in Nat
  PROVE  Before(local, ReceiveHlc(local, remote, at))
<1> DEFINE followed == AtMost(remote.ms, at + MaxDrift)
           ms == AtLeast(AtLeast(at, local.ms), followed)
           counter == CASE ms = local.ms /\ ms = followed ->
                             AtLeast(local.counter, remote.counter) + 1
                        [] ms = local.ms /\ ms # followed -> local.counter + 1
                        [] ms # local.ms /\ ms = followed -> remote.counter + 1
                        [] OTHER -> 0
<1>1. followed \in Nat /\ local.counter \in Nat /\ remote.counter \in Nat /\ local.ms \in Nat
  BY HLCAssumption DEF Clock, AtMost
<1>2. ms \in Nat /\ ms >= local.ms
  BY <1>1 DEF AtLeast
<1>3. ReceiveHlc(local, remote, at) = Normalize(ms, counter, local.node)
  BY DEF ReceiveHlc
<1> HIDE DEF followed, ms
<1>4. counter \in Nat /\ (ms = local.ms => counter > local.counter)
  BY <1>1 DEF AtLeast
<1> HIDE DEF counter
<1> QED BY <1>1, <1>2, <1>3, <1>4, HLCAssumption DEF Normalize, Before

\* The order of clocks is transitive (compareHlc).
LEMMA BeforeTransitive ==
  ASSUME NEW a \in Clock, NEW b \in Clock, NEW c \in Clock,
         NotAfter(a, b), Before(b, c)
  PROVE  Before(a, c)
  BY HLCAssumption DEF Clock, NotAfter, Before

\* createHlc returns a clock that packs.
LEMMA CreateTyped ==
  ASSUME NEW i \in Instances
  PROVE  CreateHlc(i) \in Clock
  BY HLCAssumption, ServerClockAssumption DEF CreateHlc, Clock

-----------------------------------------------------------------------------
(* Type correctness.                                                       *)

\* Merging what the storage holds keeps a clock a clock (ensureLoaded, refresh).
LEMMA MergedTyped ==
  ASSUME TypeOK, NEW i \in Instances, NEW mark \in Clock \cup {NoMark}
  PROVE  /\ Merged(i, mark) \in Clock
         /\ Merged(i, mark) = hlc[i] \/ Before(hlc[i], Merged(i, mark))
<1>1. hlc[i] \in Clock /\ wall[i] \in Nat
  BY DEF TypeOK
<1> QED BY <1>1, ReceiveTyped, ReceiveAdvances DEF Merged

\* The stages of a flush, started and moved on.
LEMMA FlightsTyped ==
  ASSUME TypeOK, NEW i \in Instances
  PROVE  /\ StartFlush(i) => flights' \in [Instances -> Seq(Flight)]
         /\ flights[i] # << >> => Tail(flights[i]) \in Seq(Flight)
         /\ \A k \in DOMAIN flights[i], f \in Flight :
              [flights EXCEPT ![i][k] = f] \in [Instances -> Seq(Flight)]
<1>1. flights[i] \in Seq(Flight) /\ flights \in [Instances -> Seq(Flight)]
  BY DEF TypeOK
<1>2. [stage |-> "read"] \in Flight
  BY DEF Flight
<1>3. Append(flights[i], [stage |-> "read"]) \in Seq(Flight)
  BY <1>1, <1>2
<1>4. StartFlush(i) => flights' \in [Instances -> Seq(Flight)]
  BY <1>1, <1>3 DEF StartFlush
<1>5. flights[i] # << >> => Tail(flights[i]) \in Seq(Flight)
  BY <1>1
<1>6. ASSUME NEW k \in DOMAIN flights[i], NEW f \in Flight
      PROVE  [flights EXCEPT ![i][k] = f] \in [Instances -> Seq(Flight)]
  <2>1. [flights[i] EXCEPT ![k] = f] \in Seq(Flight)
    BY <1>1, ExceptSeq
  <2> QED BY <1>1, <2>1
<1> QED BY <1>4, <1>5, <1>6

\* The initial state is typed.
LEMMA TypeInit == Init => TypeOK
  BY CreateTyped, ServerClockAssumption DEF Init, TypeOK

\* Every step keeps the types.
LEMMA TypeStep == TypeOK /\ [Next]_vars => TypeOK'
<1> SUFFICES ASSUME TypeOK, [Next]_vars PROVE TypeOK'
  OBVIOUS
<1> USE ServerClockAssumption
<1>1. CASE Tick
  <2>1. wall' \in [Instances -> Nat] /\ timer' \in [Instances -> 0 .. Interval \cup {Off}]
    BY <1>1 DEF Tick, TypeOK
  <2> QED BY <1>1, <2>1 DEF Tick, TypeOK
<1>2. ASSUME NEW i \in Instances, Boot(i)
      PROVE  TypeOK'
  BY <1>2, CreateTyped DEF Boot, TypeOK
<1>3. ASSUME NEW i \in Instances, EnsureLoaded(i)
      PROVE  TypeOK'
  <2>1. Merged(i, watermark) \in Clock
    BY MergedTyped DEF TypeOK
  <2> QED BY SMTT(30), <1>3, <2>1 DEF EnsureLoaded, TypeOK
<1>4. ASSUME NEW i \in Instances, Stamp(i)
      PROVE  TypeOK'
  <2>1. SendHlc(hlc[i], wall[i]) \in Clock
    BY SendTyped DEF TypeOK
  <2>2. /\ hlc' = [hlc EXCEPT ![i] = SendHlc(hlc[i], wall[i])]
        /\ issued' = [issued EXCEPT ![i] = SendHlc(hlc[i], wall[i])]
    BY <1>4 DEF Stamp, TypeOK
  <2> QED BY <1>4, <2>1, <2>2 DEF Stamp, Call, SchedulePersist, TypeOK
<1>5. ASSUME NEW i \in Instances, Receive(i)
      PROVE  TypeOK'
  <2>1. PICK remote \in Remotes : hlc' = [hlc EXCEPT ![i] = ReceiveHlc(@, remote, wall[i])]
    BY <1>5 DEF Receive
  <2>2. ReceiveHlc(hlc[i], remote, wall[i]) \in Clock
    BY ReceiveTyped DEF TypeOK
  <2> QED BY SMTT(30), <1>5, <2>1, <2>2 DEF Receive, Call, SchedulePersist, TypeOK
<1>6. ASSUME NEW i \in Instances, Refresh(i)
      PROVE  TypeOK'
  <2>1. Merged(i, watermark) \in Clock
    BY MergedTyped DEF TypeOK
  <2> QED BY <1>6, <2>1 DEF Refresh, Call, TypeOK
<1>7. ASSUME NEW i \in Instances, TimerFires(i)
      PROVE  TypeOK'
  <2>1. flights' \in [Instances -> Seq(Flight)]
    BY <1>7, FlightsTyped DEF TimerFires
  <2> QED BY <1>7, <2>1 DEF TimerFires, TypeOK
<1>8. ASSUME NEW i \in Instances, FlushRead(i)
      PROVE  TypeOK'
  <2>1. PICK k \in DOMAIN flights[i], seen \in Clock \cup {NoMark} :
          /\ flights' = [flights EXCEPT ![i][k] = [stage |-> "merge", seen |-> seen]]
          /\ UNCHANGED <<wall, mode, hlc, pending, timer, watermark, issued, spoilt, stopped,
                         calls, faults>>
    BY <1>8 DEF FlushRead, TypeOK
  <2>2. [stage |-> "merge", seen |-> seen] \in Flight
    BY DEF Flight
  <2>3. flights' \in [Instances -> Seq(Flight)]
    BY <2>1, <2>2, FlightsTyped
  <2> QED BY <2>1, <2>3 DEF TypeOK
<1>9. ASSUME NEW i \in Instances, FlushMerge(i)
      PROVE  TypeOK'
  <2>1. PICK k \in DOMAIN flights[i] :
          /\ flights[i][k].stage = "merge"
          /\ hlc' = [hlc EXCEPT ![i] = Merged(i, flights[i][k].seen)]
          /\ flights' = [flights EXCEPT ![i][k] =
               [stage |-> "write",
                mark |-> [ms |-> hlc'[i].ms + Lease, counter |-> 0, node |-> hlc'[i].node]]]
          /\ UNCHANGED <<wall, mode, pending, timer, watermark, issued, spoilt, stopped, calls,
                         faults>>
    BY <1>9 DEF FlushMerge
  <2>2. flights[i][k] \in Flight
    BY DEF TypeOK
  <2>3. flights[i][k].seen \in Clock \cup {NoMark}
    BY <2>1, <2>2 DEF Flight
  <2>4. Merged(i, flights[i][k].seen) \in Clock
    BY <2>3, MergedTyped
  <2>5. hlc' \in [Instances -> Clock] /\ hlc'[i] \in Clock
    BY <2>1, <2>4 DEF TypeOK
  <2>6. [ms |-> hlc'[i].ms + Lease, counter |-> 0, node |-> hlc'[i].node] \in Clock
    BY <2>5, HLCAssumption DEF Clock
  <2>7. flights' \in [Instances -> Seq(Flight)]
    BY <2>1, <2>6, FlightsTyped DEF Flight
  <2> QED BY <2>1, <2>5, <2>7 DEF TypeOK
<1>10. ASSUME NEW i \in Instances, FlushWrite(i)
       PROVE  TypeOK'
  <2>1. Tail(flights[i]) \in Seq(Flight)
    BY <1>10, FlightsTyped DEF FlushWrite
  <2>2. flights' \in [Instances -> Seq(Flight)]
    BY <1>10, <2>1 DEF FlushWrite, TypeOK
  <2>3. Head(flights[i]) \in Flight /\ Head(flights[i]).stage = "write"
    BY <1>10 DEF FlushWrite, TypeOK
  <2>4. Head(flights[i]).mark \in Clock
    BY <2>3 DEF Flight
  <2>5. watermark' \in Clock \cup {NoMark}
    BY <1>10, <2>4 DEF FlushWrite, TypeOK
  <2> QED BY <1>10, <2>2, <2>5 DEF FlushWrite, TypeOK
<1>11. ASSUME NEW i \in Instances, Close(i)
       PROVE  TypeOK'
  <2>1. flights' \in [Instances -> Seq(Flight)]
    BY <1>11, FlightsTyped DEF Close
  <2>2. mode' \in [Instances -> {"down", "loading", "up", "closing"}] /\ faults' \in Nat
    BY <1>11 DEF Close, Fault, TypeOK
  <2>3. timer' \in [Instances -> 0 .. Interval \cup {Off}] /\ pending' \in [Instances -> BOOLEAN]
    BY <1>11 DEF Close, TypeOK
  <2> QED BY <1>11, <2>1, <2>2, <2>3 DEF Close, TypeOK
<1>12. ASSUME NEW i \in Instances, Exit(i) \/ Crash(i)
       PROVE  TypeOK'
  <2>1. Stop(i) /\ faults' \in Nat
    BY <1>12 DEF Exit, Crash, Fault, TypeOK
  <2>2. flights' \in [Instances -> Seq(Flight)]
    BY <2>1 DEF Stop, TypeOK
  <2> QED BY <2>1, <2>2 DEF Stop, TypeOK
<1>13. ASSUME NEW i \in Instances, StepBack(i)
       PROVE  TypeOK'
  BY <1>13 DEF StepBack, Fault, TypeOK
<1>14. CASE UNCHANGED vars
  BY <1>14 DEF vars, TypeOK
<1> QED
  BY <1>1, <1>2, <1>3, <1>4, <1>5, <1>6, <1>7, <1>8, <1>9, <1>10, <1>11, <1>12, <1>13, <1>14
  DEF Next, Step, Persist

\* Every clock the servers hold, store or hand out is one that packs: the
\* counter fits its padding whatever was received, however often a flush
\* overlaps another, and across crashes and restarts.
THEOREM TypeCorrect == Spec => []TypeOK
  BY TypeInit, TypeStep, PTL DEF Spec

-----------------------------------------------------------------------------
(* Stamps advance.                                                         *)

\* An instance's clock is never below what it has stamped.
IssuedInv == \A i \in Instances : NotAfter(issued[i], hlc[i])

\* Steps that only move clocks forward keep that.
LEMMA IssuedForward ==
  ASSUME TypeOK, TypeOK', IssuedInv, issued' = issued,
         \A i \in Instances : hlc'[i] = hlc[i] \/ Before(hlc[i], hlc'[i])
  PROVE  IssuedInv'
<1> SUFFICES ASSUME NEW i \in Instances
             PROVE  NotAfter(issued[i], hlc'[i])
  BY DEF IssuedInv
<1>1. issued[i] \in Clock /\ hlc[i] \in Clock /\ hlc'[i] \in Clock
  BY DEF TypeOK
<1>2. NotAfter(issued[i], hlc[i])
  BY DEF IssuedInv
<1>3. CASE hlc'[i] = hlc[i]
  BY <1>2, <1>3
<1>4. CASE Before(hlc[i], hlc'[i])
  BY <1>1, <1>2, <1>4, BeforeTransitive DEF NotAfter
<1> QED BY <1>3, <1>4

\* At boot the clock has issued nothing above itself.
LEMMA IssuedInit == Init => IssuedInv
  BY DEF Init, IssuedInv, NotAfter

\* No step leaves an issued stamp above the clock that issues the next one
\* (stamp, receive, refresh, flush).
LEMMA IssuedStep ==
  ASSUME TypeOK, TypeOK', IssuedInv, [Next]_vars
  PROVE  /\ IssuedInv'
         /\ \A i \in Instances : Running(i) =>
              issued'[i] = issued[i] \/ Before(issued[i], issued'[i])
<1> USE ServerClockAssumption
<1> DEFINE Forward == \A i \in Instances : hlc'[i] = hlc[i] \/ Before(hlc[i], hlc'[i])
<1>1. ASSUME NEW i \in Instances, Boot(i)
      PROVE  /\ IssuedInv'
             /\ \A j \in Instances : Running(j) => issued'[j] = issued[j]
  <2>1. /\ hlc' = [hlc EXCEPT ![i] = CreateHlc(i)]
        /\ issued' = [issued EXCEPT ![i] = CreateHlc(i)]
        /\ mode[i] = "down"
    BY <1>1 DEF Boot
  <2> QED BY <2>1 DEF IssuedInv, NotAfter, TypeOK, Running
<1>2. ASSUME NEW i \in Instances, Stamp(i)
      PROVE  /\ IssuedInv'
             /\ \A j \in Instances : issued'[j] = issued[j] \/ Before(issued[j], issued'[j])
  <2> DEFINE new == SendHlc(hlc[i], wall[i])
  <2>1. hlc' = [hlc EXCEPT ![i] = new] /\ issued' = [issued EXCEPT ![i] = new]
    BY <1>2 DEF Stamp, TypeOK
  <2>2. new \in Clock /\ Before(hlc[i], new)
    BY SendTyped, SendAdvances DEF TypeOK
  <2>3. Before(issued[i], new)
    BY <2>2, BeforeTransitive DEF IssuedInv, TypeOK
  <2> HIDE DEF new
  <2> QED BY <2>1, <2>3 DEF IssuedInv, NotAfter, TypeOK
<1>3. ASSUME NEW i \in Instances, Receive(i)
      PROVE  Forward /\ issued' = issued
  <2>1. PICK remote \in Remotes : hlc' = [hlc EXCEPT ![i] = ReceiveHlc(@, remote, wall[i])]
    BY <1>3 DEF Receive
  <2>2. Before(hlc[i], ReceiveHlc(hlc[i], remote, wall[i]))
    BY ReceiveAdvances DEF TypeOK
  <2> QED BY <1>3, <2>1, <2>2 DEF Receive, TypeOK
<1>4. ASSUME NEW i \in Instances, NEW mark \in Clock \cup {NoMark},
             hlc' = [hlc EXCEPT ![i] = Merged(i, mark)]
      PROVE  Forward
  BY <1>4, MergedTyped DEF TypeOK
<1>5. ASSUME NEW i \in Instances, EnsureLoaded(i) \/ Refresh(i)
      PROVE  Forward /\ issued' = issued
  BY <1>4, <1>5 DEF EnsureLoaded, Refresh, TypeOK
<1>6. ASSUME NEW i \in Instances, FlushMerge(i)
      PROVE  Forward /\ issued' = issued
  <2>1. PICK k \in DOMAIN flights[i] :
          /\ flights[i][k].stage = "merge"
          /\ hlc' = [hlc EXCEPT ![i] = Merged(i, flights[i][k].seen)]
          /\ issued' = issued
    BY <1>6 DEF FlushMerge
  <2>2. flights[i][k] \in Flight
    BY DEF TypeOK
  <2>3. flights[i][k].seen \in Clock \cup {NoMark}
    BY <2>1, <2>2 DEF Flight
  <2> QED BY <1>4, <2>1, <2>3
<1>7. ASSUME NEW i \in Instances, \/ TimerFires(i) \/ FlushRead(i) \/ FlushWrite(i) \/ Close(i)
                                  \/ Exit(i) \/ Crash(i) \/ StepBack(i)
      PROVE  hlc' = hlc /\ issued' = issued
  BY <1>7 DEF TimerFires, FlushRead, FlushWrite, Close, Exit, Crash, Stop, StepBack
<1>8. Tick => hlc' = hlc /\ issued' = issued
  BY DEF Tick
<1>9. CASE Forward /\ issued' = issued
  BY <1>9, IssuedForward
<1>10. (hlc' = hlc /\ issued' = issued) => Forward /\ issued' = issued
  OBVIOUS
<1>11. UNCHANGED vars => hlc' = hlc /\ issued' = issued
  BY DEF vars
<1> HIDE DEF Forward
<1> QED
  BY <1>1, <1>2, <1>3, <1>5, <1>6, <1>7, <1>8, <1>9, <1>10, <1>11 DEF Next, Step, Persist

\* Within one life of an instance every stamp is strictly above the one
\* before it, whatever the wall clock, the peers and the storage do.
THEOREM StampsAlwaysAdvance == Spec => StampsAdvance
<1>1. Spec => [](TypeOK /\ IssuedInv)
  <2>1. TypeOK /\ IssuedInv /\ [Next]_vars => (TypeOK /\ IssuedInv)'
    BY TypeStep, IssuedStep
  <2> QED BY <2>1, TypeInit, IssuedInit, PTL DEF Spec
<1>2. TypeOK /\ TypeOK' /\ IssuedInv /\ [Next]_vars =>
        [\A i \in Instances : Running(i) =>
           issued'[i] = issued[i] \/ Before(issued[i], issued'[i])]_vars
  BY IssuedStep
<1> QED BY <1>1, <1>2, PTL DEF Spec, StampsAdvance
-----------------------------------------------------------------------------
(* What was handed out is covered, or a write of it is on its way.         *)

\* Between two messages the timer runs exactly when a write is wanted, and an
\* instance that is down or loading has nothing to write (schedulePersist).
TimerInv ==
  \A i \in Instances :
    /\ pending[i] <=> timer[i] # Off
    /\ ~Running(i) => timer[i] = Off /\ flights[i] = << >>
    /\ mode[i] = "loading" => issued[i] = CreateHlc(i)

\* A flush that is yet to merge the clock will write above it; one that has
\* merged carries a mark to compare.
Carries(f, stamp) == f.stage = "write" => NotAfter(stamp, f.mark)

\* With no timer running the last flush in progress carries the newest stamp,
\* or, when there is none, the stored watermark does.
LastCarries(i) ==
  IF flights[i] = << >> THEN Covered(i) ELSE Carries(flights[i][Len(flights[i])], issued[i])
CoverInv ==
  \A i \in Instances :
    Running(i) /\ ~spoilt[i] /\ issued[i] # CreateHlc(i) /\ timer[i] = Off => LastCarries(i)

\* A clock a lease ahead is above the clock (flush).
LEMMA LeaseAhead ==
  ASSUME NEW c \in Clock, NEW stamp \in Clock, NotAfter(stamp, c)
  PROVE  NotAfter(stamp, [ms |-> c.ms + Lease, counter |-> 0, node |-> c.node])
  BY HLCAssumption, ServerClockAssumption DEF Clock, NotAfter, Before

\* The clocks and timers of the start.
LEMMA CoverInit == Init => TimerInv /\ CoverInv
  BY DEF Init, TimerInv, CoverInv, Running

\* No step forgets a request to persist.
LEMMA TimerStep == TypeOK /\ TimerInv /\ [Next]_vars => TimerInv'
<1> SUFFICES ASSUME TypeOK, TimerInv, [Next]_vars PROVE TimerInv'
  OBVIOUS
<1> USE ServerClockAssumption DEF TimerInv, Running
<1>1. CASE Tick
  <2>1. \A i \in Instances : timer'[i] = Off <=> timer[i] = Off
    BY <1>1 DEF Tick, TypeOK
  <2>2. UNCHANGED <<mode, pending, flights, issued>>
    BY <1>1 DEF Tick
  <2> QED BY <2>1, <2>2
<1>2. ASSUME NEW i \in Instances, Boot(i) \/ EnsureLoaded(i)
      PROVE  TimerInv'
  BY <1>2 DEF Boot, EnsureLoaded, TypeOK
<1>3. ASSUME NEW i \in Instances, Stamp(i) \/ Receive(i)
      PROVE  TimerInv'
  <2>1. SchedulePersist(i) /\ UNCHANGED <<mode, flights>> /\ mode[i] \in {"up", "closing"}
    BY <1>3 DEF Stamp, Receive, Call
  <2>2. \A j \in Instances : j # i => issued'[j] = issued[j]
    BY <1>3 DEF Stamp, Receive, TypeOK
  <2> QED BY <2>1, <2>2 DEF SchedulePersist, TypeOK
<1>4. ASSUME NEW i \in Instances, Refresh(i) \/ StepBack(i)
      PROVE  TimerInv'
  BY <1>4 DEF Refresh, StepBack
<1>5. ASSUME NEW i \in Instances, TimerFires(i) \/ Close(i)
      PROVE  TimerInv'
  <2>1. /\ pending' = [pending EXCEPT ![i] = FALSE] /\ timer' = [timer EXCEPT ![i] = Off]
        /\ StartFlush(i) /\ issued' = issued
        /\ mode' = mode \/ mode' = [mode EXCEPT ![i] = "closing"]
        /\ mode[i] \in {"up", "closing"}
    BY <1>5 DEF TimerFires, Close
  <2> QED BY <2>1 DEF StartFlush, TypeOK
<1>6. ASSUME NEW i \in Instances, FlushRead(i) \/ FlushMerge(i) \/ FlushWrite(i)
      PROVE  TimerInv'
  <2>1. UNCHANGED <<mode, pending, timer, issued>>
    BY <1>6 DEF FlushRead, FlushMerge, FlushWrite
  <2>2. flights[i] # << >> /\ \A j \in Instances : j # i => flights'[j] = flights[j]
    BY <1>6 DEF FlushRead, FlushMerge, FlushWrite, TypeOK
  <2> QED BY <2>1, <2>2
<1>7. ASSUME NEW i \in Instances, Exit(i) \/ Crash(i)
      PROVE  TimerInv'
  BY <1>7 DEF Exit, Crash, Stop, TypeOK
<1>8. CASE UNCHANGED vars
  BY <1>8 DEF vars
<1> QED
  BY <1>1, <1>2, <1>3, <1>4, <1>5, <1>6, <1>7, <1>8 DEF Next, Step, Persist
\* A queue whose tail is empty has one element.
LEMMA LastOfOne ==
  ASSUME NEW S, NEW s \in Seq(S), s # << >>, Tail(s) = << >>
  PROVE  s[Len(s)] = Head(s)
<1>1. Len(Tail(s)) = Len(s) - 1 /\ Len(s) \in Nat
  OBVIOUS
<1>2. Len(Tail(s)) = 0
  BY Zenon, EmptySeq
<1>3. Len(s) = 1
  BY <1>1, <1>2
<1> QED BY <1>3

\* No step of a lone instance leaves its newest stamp without a mark above it,
\* stored or on its way.
LEMMA CoverStep ==
  ASSUME NEW i \in Instances, Instances = {i}, TypeOK, TypeOK', IssuedInv, TimerInv, CoverInv,
         [Next]_vars
  PROVE  CoverInv'
<1> USE ServerClockAssumption
<1> DEFINE Owed == Running(i) /\ ~spoilt[i] /\ issued[i] # CreateHlc(i) /\ timer[i] = Off
<1>1. CoverInv <=> (Owed => LastCarries(i))
  BY DEF CoverInv
<1>2. CoverInv' <=> (Owed' => LastCarries(i)')
  BY DEF CoverInv
<1>3. SUFFICES ASSUME Owed' PROVE LastCarries(i)'
  BY <1>2
<1> USE DEF Running
<1>4. CASE UNCHANGED <<mode, issued, flights, watermark, spoilt>> /\ (timer' = timer \/ Tick)
  <2>1. timer[i] = Off
    BY <1>3, <1>4 DEF Tick, TypeOK
  <2>2. Owed
    BY <1>3, <1>4, <2>1
  <2>3. UNCHANGED <<flights[i], watermark, issued[i]>>
    BY <1>4
  <2> QED BY <1>1, <2>2, <2>3 DEF LastCarries, Covered, Carries
<1>5. CASE Boot(i) \/ Exit(i) \/ Crash(i)
  BY <1>3, <1>5 DEF Boot, Exit, Crash, Stop, TypeOK
<1>6. CASE EnsureLoaded(i)
  BY <1>3, <1>6 DEF EnsureLoaded, TimerInv
<1>7. CASE Stamp(i) \/ Receive(i)
  <2>1. timer'[i] # Off
    BY <1>7 DEF Stamp, Receive, SchedulePersist, TypeOK
  <2> QED BY <1>3, <2>1
<1>8. CASE TimerFires(i) \/ Close(i)
  <2>1. StartFlush(i) /\ UNCHANGED <<issued, watermark, spoilt>>
    BY <1>8 DEF TimerFires, Close
  <2>2. CASE pending[i]
    <3>1. flights'[i] = Append(flights[i], [stage |-> "read"]) /\ flights[i] \in Seq(Flight)
      BY <2>1, <2>2 DEF StartFlush, TypeOK
    <3>2. /\ flights'[i] # << >>
          /\ flights'[i][Len(flights'[i])] = [stage |-> "read"]
      BY <3>1
    <3> QED BY <3>2 DEF LastCarries, Carries
  <2>3. CASE ~pending[i]
    <3>1. timer[i] = Off /\ flights'[i] = flights[i]
      BY <2>1, <2>3 DEF TimerInv, StartFlush, TypeOK
    <3>2. mode[i] \in {"up", "closing"}
      BY <1>8 DEF TimerFires, Close
    <3>3. Owed
      BY <1>3, <2>1, <3>1, <3>2
    <3> QED BY <1>1, <2>1, <3>1, <3>3 DEF LastCarries, Covered, Carries
  <2> QED BY <2>2, <2>3
<1>9. CASE FlushRead(i)
  <2>1. PICK k \in DOMAIN flights[i], seen \in Clock \cup {NoMark} :
          /\ flights' = [flights EXCEPT ![i][k] = [stage |-> "merge", seen |-> seen]]
          /\ UNCHANGED <<mode, timer, watermark, issued, spoilt>>
    BY <1>9 DEF FlushRead, TypeOK
  <2>2. Owed /\ flights[i] \in Seq(Flight)
    BY <1>3, <2>1 DEF TypeOK
  <2>3. /\ flights'[i] # << >> /\ flights[i] # << >> /\ Len(flights'[i]) = Len(flights[i])
        /\ \/ flights'[i][Len(flights[i])] = flights[i][Len(flights[i])]
           \/ flights'[i][Len(flights[i])] = [stage |-> "merge", seen |-> seen]
    BY SMTT(30), <2>1, <2>2 DEF TypeOK
  <2> QED BY <1>1, <2>1, <2>2, <2>3 DEF LastCarries, Carries
<1>10. CASE FlushMerge(i)
  <2> DEFINE mark == [ms |-> hlc'[i].ms + Lease, counter |-> 0, node |-> hlc'[i].node]
  <2>1. PICK k \in DOMAIN flights[i] :
          /\ flights[i][k].stage = "merge"
          /\ hlc' = [hlc EXCEPT ![i] = Merged(i, flights[i][k].seen)]
          /\ flights' = [flights EXCEPT ![i][k] = [stage |-> "write", mark |-> mark]]
          /\ UNCHANGED <<mode, timer, watermark, issued, spoilt>>
    BY <1>10 DEF FlushMerge
  <2>2. Owed /\ flights[i] \in Seq(Flight) /\ flights[i][k] \in Flight
    BY <1>3, <2>1 DEF TypeOK
  <2>3. flights[i][k].seen \in Clock \cup {NoMark}
    BY <2>1, <2>2 DEF Flight
  <2>4. hlc'[i] = hlc[i] \/ Before(hlc[i], hlc'[i])
    BY <2>1, <2>3, MergedTyped DEF TypeOK
  <2>5. NotAfter(issued[i], hlc'[i])
    BY <2>4, BeforeTransitive DEF IssuedInv, NotAfter, TypeOK
  <2>6. NotAfter(issued[i], mark)
    BY <2>5, LeaseAhead DEF TypeOK
  <2> HIDE DEF mark
  <2>7. /\ flights'[i] # << >> /\ flights[i] # << >> /\ Len(flights'[i]) = Len(flights[i])
        /\ \/ flights'[i][Len(flights[i])] = flights[i][Len(flights[i])]
           \/ flights'[i][Len(flights[i])] = [stage |-> "write", mark |-> mark]
    BY <2>1, <2>2 DEF TypeOK
  <2> QED BY <1>1, <2>1, <2>2, <2>6, <2>7 DEF LastCarries, Carries
<1>11. CASE FlushWrite(i)
  <2>1. /\ flights[i] # << >> /\ Head(flights[i]).stage = "write"
        /\ flights'[i] = Tail(flights[i])
        /\ UNCHANGED <<mode, timer, issued>>
        /\ flights[i] \in Seq(Flight)
    BY <1>11 DEF FlushWrite, TypeOK
  <2>2. watermark' = Head(flights[i]).mark /\ spoilt' = spoilt
    BY <1>3, <1>11 DEF FlushWrite, TypeOK
  <2>3. Owed
    BY <1>3, <2>1, <2>2
  <2>4. Carries(flights[i][Len(flights[i])], issued[i])
    BY <1>1, <2>1, <2>3 DEF LastCarries
  <2>5. CASE flights'[i] = << >>
    <3>1. flights[i][Len(flights[i])] = Head(flights[i])
      BY <2>1, <2>5, LastOfOne
    <3>2. Head(flights[i]) \in Flight
      BY <2>1
    <3>3. watermark' \in Clock
      BY <2>1, <2>2, <3>2 DEF Flight
    <3> QED BY <2>1, <2>2, <2>4, <2>5, <3>1, <3>3 DEF LastCarries, Covered, Carries
  <2>6. CASE flights'[i] # << >>
    <3>1. flights'[i][Len(flights'[i])] = flights[i][Len(flights[i])]
      BY <2>1, <2>6
    <3> QED BY <2>1, <2>4, <2>6, <3>1 DEF LastCarries, Carries
  <2> QED BY <2>5, <2>6
<1>12. CASE Refresh(i) \/ StepBack(i)
  BY <1>4, <1>12 DEF Refresh, StepBack
<1>13. CASE Tick
  BY <1>4, <1>13 DEF Tick
<1>14. CASE UNCHANGED vars
  BY <1>4, <1>14 DEF vars
<1> QED
  BY <1>5, <1>6, <1>7, <1>8, <1>9, <1>10, <1>11, <1>12, <1>13, <1>14 DEF Next, Step, Persist

\* A lone instance never forgets to persist what it handed out: however its
\* flushes overlap, and through a shutdown whose drained handlers stamp again,
\* a stamp above the stored watermark has a timer or a flush in progress, unless
\* a write of this life failed (schedulePersist, flush, close).  With several
\* instances on one entry the last writer wins, and this does not hold.
THEOREM UncoveredAlwaysPending ==
  ASSUME NEW i \in Instances, Instances = {i}
  PROVE  Spec => []UncoveredIsPending
<1> DEFINE IInv == TypeOK /\ IssuedInv /\ TimerInv /\ CoverInv
<1>1. Init => IInv
  BY TypeInit, IssuedInit, CoverInit
<1>2. IInv /\ [Next]_vars => IInv'
  BY TypeStep, IssuedStep, TimerStep, CoverStep
<1>3. IInv => UncoveredIsPending
  BY DEF CoverInv, LastCarries, UncoveredIsPending
<1> QED BY <1>1, <1>2, <1>3, PTL DEF Spec
=============================================================================
