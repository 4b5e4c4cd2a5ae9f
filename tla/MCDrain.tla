------------------------------ MODULE MCDrain ------------------------------
(* Factories for Drain.  In both, a collector waits for all of its         *)
(* upstreams.  Fan is the shape of docs/routing.md: the planner dispatches *)
(* every upstream itself.  Relay has an agent between the planner and one  *)
(* of them.  Pair is two agents of which every run is one flight's: what   *)
(* two chains compete for.                                                 *)
EXTENDS Drain

FanAgents == {"planner", "a", "b", "collector"}
FanRoutes == {<<"planner", "a">>, <<"planner", "b">>,
              <<"a", "collector">>, <<"b", "collector">>}

RelayAgents == FanAgents \cup {"scout"}
RelayRoutes == {<<"planner", "scout">>, <<"scout", "a">>, <<"planner", "b">>,
                <<"a", "collector">>, <<"b", "collector">>}

PairAgents == {"planner", "collector"}
PairRoutes == {<<"planner", "collector">>}
=============================================================================
