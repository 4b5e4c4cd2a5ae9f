------------------------------ MODULE Barrier ------------------------------
(***************************************************************************)
(* A rendezvous join: the barrier of layover-core/src/barrier.rs as the    *)
(* Tower's `Barriers` holds it for one agent of one chain, among the agents *)
(* of the shape docs/routing.md section 6 draws:                            *)
(*                                                                         *)
(*     planner --> every upstream --> (join) collector                     *)
(*                                                                         *)
(* with a loop-back to the planner that leaves either from the collector   *)
(* or from an upstream.  The barrier itself is `parked`, `seen` and        *)
(* `released`; everything else is the chain around it, reduced to what     *)
(* decides in which order flights reach the barrier.                       *)
(*                                                                         *)
(* A flight is named by its position in `log`, the history of every        *)
(* delivery an upstream made.  `parked[u] = 0` says that u is not a key of *)
(* the map in the source.                                                  *)
(***************************************************************************)
EXTENDS Naturals, Sequences

CONSTANTS
  Upstreams,  \* JoinSpec.upstreams: the senders the barrier names
  Shapes,     \* the chains looked at: how the collector joins ("all" or "any"), whose edge
              \* leads back to the planner ("collector" or "upstream"), and (bound) how many
              \* flights come from a peer the barrier does not name
  MaxRounds   \* bound: how often the planner dispatches the fan-out

ASSUME BarrierAssumption ==
  /\ Upstreams # {}
  /\ \A s \in Shapes : /\ s.join \in {"all", "any"}
                       /\ s.loop \in {"collector", "upstream"}
                       /\ s.direct \in Nat
  /\ MaxRounds \in Nat \ {0}

VARIABLES
  shape,       \* the chain it is, which no step changes
  parked,      \* Barrier.parked: the flight each upstream has waiting, or 0
  seen,        \* Barrier.seen: who has arrived in this wave
  released,    \* Barrier.released: this wave has woken the collector
  delivery,    \* the last Delivery the barrier answered with
  asked,       \* the rounds each upstream still has to work, oldest first
  planning,    \* a flight to the planner is waiting or running
  collecting,  \* the collector's runs that are alive
  round,       \* how many times the fan-out was dispatched
  direct,      \* how many flights reached the collector past the barrier
  log,         \* every delivery by an upstream: who sent it, for which round
  wakes        \* every release: the flights it carried, 0 for none

barrierVars == <<parked, seen, released>>
chainVars   == <<shape, asked, planning, collecting, round, direct>>
vars == <<shape, parked, seen, released, delivery, asked, planning, collecting,
          round, direct, log, wakes>>

Nobody == [u \in Upstreams |-> 0]

join == shape.join   \* JoinSpec.join

-----------------------------------------------------------------------------
(* The barrier.                                                            *)

Init ==
  /\ shape \in Shapes
  /\ parked = Nobody /\ seen = {} /\ released = FALSE
  /\ delivery = "none"
  /\ asked = [u \in Upstreams |-> <<>>]
  /\ planning = TRUE
  /\ collecting = 0
  /\ round = 0
  /\ direct = 0
  /\ log = <<>>
  /\ wakes = <<>>

\* Barrier::waiting_for
WaitingFor == {u \in Upstreams : parked[u] = 0}

\* Mutant: a repeat that keeps what was parked.
ParkedBeforeKept(u)      == parked

\* The wave u's delivery belongs to: a second delivery by u opens a new one.
SeenBefore(u)     == IF u \in seen THEN {} ELSE seen
ReleasedBefore(u) == released /\ u \notin seen
ParkedBefore(u)   == IF u \in seen THEN Nobody ELSE parked

\* Mutant: all but one upstream will do.
CompleteButOne(held) ==
  \/ join = "any"
  \/ \E w \in Upstreams : \A u \in Upstreams \ {w} : held[u] # 0

\* Whether the join's condition is met by what is parked.
Complete(held) ==
  \/ join = "any"
  \/ \A u \in Upstreams : held[u] # 0

\* What would be parked once u's flight, the next of the log, joined it.
Held(u) == [ParkedBefore(u) EXCEPT ![u] = Len(log) + 1]

\* Mutant: a release that leaves its flights behind.
\* The three answers to a sender the barrier names: Delivery::Late,
\* Delivery::Ready and Delivery::Parked.
Late(u) ==
  /\ ReleasedBefore(u)
  /\ delivery' = "late"
  /\ parked' = ParkedBefore(u)
  /\ released' = TRUE
  /\ UNCHANGED <<collecting, wakes>>

Ready(u) ==
  /\ ~ReleasedBefore(u) /\ Complete(Held(u))
  /\ delivery' = "ready"
  /\ parked' = Nobody
  /\ released' = TRUE
  /\ collecting' = collecting + 1
  /\ wakes' = Append(wakes, Held(u))

Park(u) ==
  /\ ~ReleasedBefore(u) /\ ~Complete(Held(u))
  /\ delivery' = "parked"
  /\ parked' = Held(u)
  /\ released' = FALSE
  /\ UNCHANGED <<collecting, wakes>>

\* Barrier::deliver for a flight whose sender the barrier names.
Deliver(u, r) ==
  /\ log' = Append(log, [from |-> u, round |-> r])
  /\ seen' = SeenBefore(u) \cup {u}
  /\ Late(u) \/ Ready(u) \/ Park(u)

\* Barrier::deliver for a peer with an unjoined edge to the collector: the
\* barrier does not name it, so the flight wakes the collector on its own.
DeliverDirect ==
  /\ direct < shape.direct /\ round > 0
  /\ direct' = direct + 1
  /\ delivery' = "direct"
  /\ collecting' = collecting + 1
  /\ UNCHANGED <<shape, barrierVars, asked, planning, round, log, wakes>>

\* Some run that is alive, or about to be, has a path to u in the route graph.
CanStillDeliver(u) ==
  \/ asked[u] # <<>>
  \/ planning
  \/ shape.loop = "collector" /\ collecting > 0
  \/ shape.loop = "upstream" /\ \E v \in Upstreams : asked[v] # <<>>

\* Barrier::is_reachable
IsReachable ==
  \/ WaitingFor = {}
  \/ join = "all" /\ \A u \in WaitingFor : CanStillDeliver(u)
  \/ join = "any" /\ \E u \in WaitingFor : CanStillDeliver(u)

\* Mutant: the barriers still waiting are the ones kept.
AbandonReleased ==
  /\ released
  /\ ~IsReachable
  /\ parked' = Nobody /\ seen' = {} /\ released' = FALSE
  /\ UNCHANGED <<delivery, chainVars, log, wakes>>

\* Barriers::abandon_unreachable: the barrier is dropped with what it holds,
\* and the next delivery makes a fresh one from the route.
Abandon ==
  /\ ~released /\ seen # {}
  /\ ~IsReachable
  /\ parked' = Nobody /\ seen' = {} /\ released' = FALSE
  /\ UNCHANGED <<delivery, chainVars, log, wakes>>

-----------------------------------------------------------------------------
(* The chain around it.                                                    *)

\* The planner fans out: every upstream is asked for one more round.
Dispatch ==
  /\ planning /\ round < MaxRounds
  /\ round' = round + 1
  /\ planning' = FALSE
  /\ asked' = [u \in Upstreams |-> Append(asked[u], round + 1)]
  /\ UNCHANGED <<shape, barrierVars, delivery, collecting, direct, log, wakes>>

\* The chain's rails refuse the planner another turn.
PlannerRefused ==
  /\ planning /\ round = MaxRounds
  /\ planning' = FALSE
  /\ UNCHANGED <<shape, barrierVars, delivery, asked, collecting, round, direct, log, wakes>>

\* An upstream's run for the oldest round it was asked ends: it sends its
\* result to the collector, or the work back to the planner, or nothing.
UpstreamReports(u) ==
  /\ asked[u] # <<>>
  /\ Deliver(u, Head(asked[u]))
  /\ asked' = [asked EXCEPT ![u] = Tail(@)]
  /\ UNCHANGED <<shape, planning, round, direct>>

UpstreamSendsBack(u) ==
  /\ shape.loop = "upstream"
  /\ asked[u] # <<>> /\ ~planning
  /\ asked' = [asked EXCEPT ![u] = Tail(@)]
  /\ planning' = TRUE
  /\ UNCHANGED <<shape, barrierVars, delivery, collecting, round, direct, log, wakes>>

UpstreamFails(u) ==
  /\ asked[u] # <<>>
  /\ asked' = [asked EXCEPT ![u] = Tail(@)]
  /\ UNCHANGED <<shape, barrierVars, delivery, planning, collecting, round, direct, log, wakes>>

\* A run of the collector ends, looping back to the planner or not.
CollectorEnds ==
  /\ collecting > 0
  /\ collecting' = collecting - 1
  /\ \/ shape.loop = "collector" /\ planning' = TRUE
     \/ UNCHANGED planning
  /\ UNCHANGED <<shape, barrierVars, delivery, asked, round, direct, log, wakes>>

Next ==
  \/ \E u \in Upstreams :
        UpstreamReports(u) \/ UpstreamSendsBack(u) \/ UpstreamFails(u)
  \/ DeliverDirect
  \/ Abandon
  \/ Dispatch
  \/ PlannerRefused
  \/ CollectorEnds

Spec == Init /\ [][Next]_vars

\* Runs end (a timeout kills the ones that do not), the coordinator keeps
\* dispatching what is queued, and it checks its barriers after every pass.
Fairness ==
  /\ \A u \in Upstreams :
        WF_vars(UpstreamReports(u) \/ UpstreamSendsBack(u) \/ UpstreamFails(u))
  /\ WF_vars(Dispatch \/ PlannerRefused)
  /\ WF_vars(CollectorEnds)
  /\ WF_vars(Abandon)

FairSpec == Spec /\ Fairness

-----------------------------------------------------------------------------
(* What makes it correct.                                                  *)

Flights == 1..Len(log)
Carried(w) == {u \in Upstreams : w[u] # 0}

\* Every variable keeps its type.
TypeOK ==
  /\ shape \in Shapes
  /\ parked \in [Upstreams -> Nat]
  /\ seen \in SUBSET Upstreams
  /\ released \in BOOLEAN
  /\ delivery \in {"none", "direct", "parked", "ready", "late"}
  /\ asked \in [Upstreams -> Seq(1..MaxRounds)]
  /\ planning \in BOOLEAN
  /\ collecting \in Nat
  /\ round \in 0..MaxRounds
  /\ direct \in 0..shape.direct
  /\ log \in Seq([from : Upstreams, round : 1..MaxRounds])
  /\ wakes \in Seq([Upstreams -> Nat])

\* A wave that has not woken the collector holds exactly what it has seen,
\* and falls short of its join's condition; one that has, holds nothing.
WaveHoldsWhatItSaw ==
  /\ released => parked = Nobody
  /\ ~released => seen = Carried(parked)
  /\ ~Complete(parked) \/ join = "any"
  /\ join = "any" => parked = Nobody

\* "Every upstream must deliver again": between the oldest flight a release
\* carries and the newest one, no upstream delivered twice.  A release never
\* pairs a flight with one that arrived before its sender's earlier delivery.
EveryoneDeliversAgain ==
  \A k \in 1..Len(wakes) : \A u, v \in Carried(wakes[k]) :
     \A i, j \in wakes[k][u]..wakes[k][v] :
        log[i].from = log[j].from => i = j

\* No flight wakes the collector twice, and the flight a release carries for
\* an upstream really came from it.
NoFlightWakesTwice ==
  \A k \in 1..Len(wakes) :
     /\ \A u \in Carried(wakes[k]) : log[wakes[k][u]].from = u
     /\ \A l \in 1..Len(wakes) : \A u \in Carried(wakes[k]) :
           wakes[k][u] = wakes[l][u] => k = l

\* What the flights of a wave under way have in common: from the moment one
\* of them arrived nobody delivered twice, everybody who did is seen, and it
\* has woken nobody.
ParkedInOrder ==
  \A u \in Carried(parked) :
     /\ parked[u] \in Flights /\ log[parked[u]].from = u
     /\ \A i, j \in parked[u]..Len(log) : log[i].from = log[j].from => i = j
     /\ \A i \in parked[u]..Len(log) : log[i].from \in seen
     /\ \A k \in 1..Len(wakes) : wakes[k][u] # parked[u]

WakesCarryFlights ==
  \A k \in 1..Len(wakes) : \A u \in Carried(wakes[k]) : wakes[k][u] \in Flights

\* The inductive invariant behind the three properties above.
WaveInv ==
  /\ TypeOK
  /\ WaveHoldsWhatItSaw
  /\ ParkedInOrder
  /\ WakesCarryFlights
  /\ EveryoneDeliversAgain
  /\ NoFlightWakesTwice

\* routing.md section 3: "a stale result from a sibling branch must not be
\* allowed to satisfy the barrier".  Every result a release carries answers
\* the same dispatch of the fan-out.
SiblingsAreFresh ==
  \A k \in 1..Len(wakes) : \A u, v \in Carried(wakes[k]) :
     log[wakes[k][u]].round = log[wakes[k][v]].round

\* The chain the promise can be kept for: every upstream is waited for, only
\* the collector loops back, and nobody wakes it past the barrier.
Paced == shape = [join |-> "all", loop |-> "collector", direct |-> 0]

NoStaleSibling == Paced => SiblingsAreFresh

\* Why it holds there: a round is over before the next is dispatched, so
\* everything parked answers the current one.
RoundsDoNotOverlap ==
  /\ planning \/ collecting > 0 =>
        parked = Nobody /\ \A u \in Upstreams : asked[u] = <<>>
  /\ planning => collecting = 0
  /\ collecting \in {0, 1}
  /\ \A u \in Upstreams : asked[u] \in {<<>>, <<round>>}
  /\ \A u \in Carried(parked) :
        asked[u] = <<>> /\ log[parked[u]].round = round

\* A parked flight is released, discarded by a new wave or given up loudly:
\* it does not wait for ever.
NothingParkedForever ==
  (\E u \in Upstreams : parked[u] # 0) ~> (\A u \in Upstreams : parked[u] = 0)

=============================================================================
