-------------------------- MODULE MCObjectStorage --------------------------
(* ObjectStorage for TLC.                                                  *)
EXTENDS ObjectStorage, TLC

CONSTANTS p1, p2, w1, w2

\* The second process is another writer, or the first one restarted.
OtherOrRestarted == {(p1 :> w1) @@ (p2 :> w) : w \in {w1, w2}}
OneWriter        == {p1 :> w1}
=============================================================================
