----------------------------- MODULE MCKdSensor -----------------------------
(***************************************************************************)
(* KdSensor for TLC.  No action tells the sockets, the sensors or the      *)
(* files of a node apart.                                                  *)
(***************************************************************************)
EXTENDS KdSensor, TLC

Symmetry ==
    Permutations(Sockets) \cup Permutations(Sensors) \cup Permutations(Files1)
=============================================================================
