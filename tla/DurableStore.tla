---------------------------- MODULE DurableStore ----------------------------
(***************************************************************************)
(* What a durable store promises its callers: what was acknowledged stays  *)
(* stored, and a write is acknowledged only once it is.  How, and on how   *)
(* many instances, is left open.  A write may be stored without having     *)
(* been acknowledged, and then be gone again: its caller sends it again.   *)
(***************************************************************************)
CONSTANT Records

VARIABLES stored, acked

Init == stored = {} /\ acked = {}

\* The store comes to hold S ...
Store(S) == acked \subseteq S /\ stored' = S /\ UNCHANGED acked
\* ... tells that it holds S, or both.
Ack(S)   == S \subseteq stored /\ acked' = acked \cup S /\ UNCHANGED stored
Write(S) == acked \subseteq S /\ stored' = S /\ acked' \in {acked \cup T : T \in SUBSET S}

Next == \E S \in SUBSET Records : Store(S) \/ Ack(S) \/ Write(S)

Spec == Init /\ [][Next]_<<stored, acked>>
=============================================================================
