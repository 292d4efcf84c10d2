--------------------------- MODULE MCServerClock ---------------------------
(***************************************************************************)
(* Instances of ServerClock for TLC.  A tick is one throttle interval; the *)
(* remote clocks lie within, at and beyond the drift bound.                *)
(***************************************************************************)
EXTENDS ServerClock

MCRemotes == { [ms |-> 2, counter |-> 1, node |-> 9],
               [ms |-> 6, counter |-> 0, node |-> 9] }
=============================================================================
