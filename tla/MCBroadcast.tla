---------------------------- MODULE MCBroadcast ----------------------------
(***************************************************************************)
(* Instances of Broadcast for TLC: clients that write, and one that reads. *)
(***************************************************************************)
EXTENDS Broadcast

\* Each of two writers has a row of its own.
Owned     == [c \in {"w1", "w2", "r"} |-> CASE c = "w1" -> {1} [] c = "w2" -> {2} [] c = "r" -> {}]
\* Two writers share a row, and one has a second.
Contested == [c \in {"w1", "w2", "r"} |-> CASE c = "w1" -> {1} [] c = "w2" -> {1, 2} [] c = "r" -> {}]
\* Two clients write one row; nobody else is there.
Pair      == [c \in {"w1", "w2"} |-> {1}]

Empty == {{}}
Full  == {Rows}
Either == SUBSET Rows
=============================================================================
