-------------------------------- MODULE HLC --------------------------------
(***************************************************************************)
(* The hybrid logical clock of src/core/hlc.ts: a wall-clock reading in    *)
(* milliseconds, a counter that orders the events of one millisecond, and  *)
(* the node that stamped.  A clock travels as a zero-padded string whose   *)
(* string order is the lexicographic order of the three fields (as long as *)
(* the counter fits its padding, which Normalize guarantees), so a packed  *)
(* clock is the record here and compareHlc is the lexicographic order.     *)
(* Node identifiers only matter through their string order: `node' is the  *)
(* rank of the identifier in that order.                                   *)
(***************************************************************************)
EXTENDS Naturals

CONSTANTS CounterMax,   \* 10^COUNTER_PAD - 1, the largest counter that packs
          MaxDrift      \* MAX_CLOCK_DRIFT_MS, how far ahead a peer is followed

ASSUME HLCAssumption == CounterMax \in Nat /\ MaxDrift \in Nat

Clock == [ms : Nat, counter : 0 .. CounterMax, node : Nat]

AtLeast(a, b) == IF a >= b THEN a ELSE b      \* Math.max
AtMost(a, b)  == IF a <= b THEN a ELSE b      \* Math.min

CreateHlc(node) == [ms |-> 0, counter |-> 0, node |-> node]

\* Mutant: the counter outgrows its padding instead of rolling over.
NormalizeOverflows(ms, counter, node) ==
  [ms |-> ms, counter |-> counter, node |-> node]

\* A counter that no longer fits rolls the clock into the next millisecond.
Normalize(ms, counter, node) ==
  IF counter > CounterMax
  THEN [ms |-> ms + 1, counter |-> 0, node |-> node]
  ELSE [ms |-> ms, counter |-> counter, node |-> node]

\* Mutant: the wall clock is believed even when it stepped back.
SendHlcTrustsWall(local, wall) ==
  Normalize(wall, IF wall = local.ms THEN local.counter + 1 ELSE 0, local.node)

\* The clock a node moves to, and stamps, when it creates an event at `wall'.
SendHlc(local, wall) ==
  LET ms == AtLeast(wall, local.ms)
  IN  Normalize(ms, IF ms = local.ms THEN local.counter + 1 ELSE 0, local.node)

\* The clock a node moves to when it learns of `remote'.  A remote further
\* than MaxDrift ahead of the local wall clock is followed up to that bound
\* only.
ReceiveHlc(local, remote, wall) ==
  LET followed == AtMost(remote.ms, wall + MaxDrift)
      ms       == AtLeast(AtLeast(wall, local.ms), followed)
      counter  == CASE ms = local.ms /\ ms = followed ->
                         AtLeast(local.counter, remote.counter) + 1
                    [] ms = local.ms /\ ms # followed -> local.counter + 1
                    [] ms # local.ms /\ ms = followed -> remote.counter + 1
                    [] OTHER -> 0
  IN  Normalize(ms, counter, local.node)

\* compareHlc(a, b) < 0
Before(a, b) ==
  \/ a.ms < b.ms
  \/ a.ms = b.ms /\ a.counter < b.counter
  \/ a.ms = b.ms /\ a.counter = b.counter /\ a.node < b.node

NotAfter(a, b) == a = b \/ Before(a, b)
=============================================================================
