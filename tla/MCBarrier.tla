----------------------------- MODULE MCBarrier -----------------------------
(* The chains Barrier is checked on: both joins with stragglers that send  *)
(* work back and a flight past the barrier, and the one loop-back that     *)
(* keeps its rounds apart.                                                 *)
EXTENDS Barrier

Straggling == [join : {"all", "any"}, loop : {"upstream"}, direct : {1}]

AllShapes == Straggling \cup {[join |-> "all", loop |-> "collector", direct |-> 0]}

LateShape == {[join |-> "all", loop |-> "upstream", direct |-> 0]}
=============================================================================
