---------------------------- MODULE RouteProofs ----------------------------
(* Proofs about what routes promise: a join in Barrier, for every set of   *)
(* upstreams and chain shapes, and the reach of chains in Charter, for     *)
(* every set of factories.                                                 *)
EXTENDS Barrier, Charter, TLAPS

(* The joins of Barrier.                                                   *)
USE DEF barrierVars, chainVars

(* The initial state is typed.                                             *)
LEMMA InitTyped == Init => TypeOK
<1> SUFFICES ASSUME Init PROVE TypeOK
  OBVIOUS
<1>1. /\ <<>> \in Seq(1..MaxRounds)
      /\ <<>> \in Seq([from : Upstreams, round : 1..MaxRounds])
      /\ <<>> \in Seq([Upstreams -> Nat])
  OBVIOUS
<1>2. asked \in [Upstreams -> Seq(1..MaxRounds)]
  BY <1>1 DEF Init
<1>3. /\ shape \in Shapes
      /\ parked \in [Upstreams -> Nat] /\ seen \in SUBSET Upstreams
      /\ released \in BOOLEAN /\ planning \in BOOLEAN
      /\ delivery \in {"none", "direct", "parked", "ready", "late"}
  BY DEF Init, Nobody
<1>4. collecting \in Nat /\ round \in 0..MaxRounds /\ direct \in 0..shape.direct
  BY BarrierAssumption DEF Init
<1>5. /\ log \in Seq([from : Upstreams, round : 1..MaxRounds])
      /\ wakes \in Seq([Upstreams -> Nat])
  BY <1>1, Zenon DEF Init
<1> QED
  BY <1>2, <1>3, <1>4, <1>5 DEF TypeOK

(* Every step keeps the types.                                            *)
LEMMA StepTyped == TypeOK /\ [Next]_vars => TypeOK'
<1> SUFFICES ASSUME TypeOK, [Next]_vars
             PROVE  TypeOK'
  OBVIOUS
<1>0. shape' = shape
  BY DEF Next, vars, UpstreamReports, UpstreamSendsBack, UpstreamFails,
     DeliverDirect, Abandon, Dispatch, PlannerRefused, CollectorEnds
<1> USE <1>0, BarrierAssumption DEF TypeOK
<1>1. ASSUME NEW u \in Upstreams, UpstreamReports(u)
      PROVE  TypeOK'
  <2>1. Head(asked[u]) \in 1..MaxRounds /\ asked' \in [Upstreams -> Seq(1..MaxRounds)]
    BY <1>1 DEF UpstreamReports
  <2>2. ParkedBefore(u) \in [Upstreams -> Nat] /\ Held(u) \in [Upstreams -> Nat]
    BY DEF ParkedBefore, Held, Nobody
  <2>3. /\ log' \in Seq([from : Upstreams, round : 1..MaxRounds])
        /\ seen' \in SUBSET Upstreams
        /\ UNCHANGED <<planning, round, direct>>
        /\ Late(u) \/ Ready(u) \/ Park(u)
    BY <1>1, <2>1 DEF UpstreamReports, Deliver, SeenBefore
  <2>4. CASE Late(u)
    BY <2>1, <2>2, <2>3, <2>4 DEF Late
  <2>5. CASE Ready(u)
    <3>1. wakes' \in Seq([Upstreams -> Nat])
      BY <2>2, <2>5 DEF Ready
    <3>2. parked' \in [Upstreams -> Nat]
      BY <2>5 DEF Ready, Nobody
    <3>3. collecting' \in Nat
      BY <2>5 DEF Ready
    <3>4. released' \in BOOLEAN /\ delivery' = "ready"
      BY <2>5, Zenon DEF Ready
    <3> QED
      BY <2>1, <2>3, <3>1, <3>2, <3>3, <3>4
  <2>6. CASE Park(u)
    <3>1. parked' \in [Upstreams -> Nat] /\ wakes' = wakes /\ collecting' = collecting
      BY <2>2, <2>6 DEF Park
    <3>2. released' \in BOOLEAN /\ delivery' = "parked"
      BY <2>6, Zenon DEF Park
    <3> QED
      BY <2>1, <2>3, <3>1, <3>2
  <2> QED
    BY <2>3, <2>4, <2>5, <2>6
<1>2. ASSUME NEW u \in Upstreams, UpstreamSendsBack(u)
      PROVE  TypeOK'
  BY <1>2 DEF UpstreamSendsBack
<1>3. ASSUME NEW u \in Upstreams, UpstreamFails(u)
      PROVE  TypeOK'
  BY <1>3 DEF UpstreamFails
<1>4. CASE DeliverDirect
  BY <1>4 DEF DeliverDirect
<1>5. CASE Abandon
  BY <1>5 DEF Abandon, Nobody
<1>6. CASE Dispatch
  <2>1. round + 1 \in 1..MaxRounds
    BY <1>6 DEF Dispatch
  <2>2. asked' \in [Upstreams -> Seq(1..MaxRounds)]
    BY <1>6, <2>1 DEF Dispatch
  <2>3. round' \in 0..MaxRounds
    BY <1>6, <2>1 DEF Dispatch
  <2>4. planning' \in BOOLEAN
    BY <1>6, Zenon DEF Dispatch
  <2> QED
    BY <1>6, <2>2, <2>3, <2>4 DEF Dispatch
<1>7. CASE PlannerRefused
  BY <1>7 DEF PlannerRefused
<1>8. CASE CollectorEnds
  <2>1. collecting' \in Nat
    BY <1>8 DEF CollectorEnds
  <2>2. planning' \in BOOLEAN
    BY <1>8, Zenon DEF CollectorEnds
  <2> QED
    BY <1>8, <2>1, <2>2 DEF CollectorEnds
<1>9. CASE UNCHANGED vars
  BY <1>9 DEF vars
<1> QED
  BY <1>1, <1>2, <1>3, <1>4, <1>5, <1>6, <1>7, <1>8, <1>9 DEF Next

(* Barrier's variables keep their types.                                   *)
THEOREM TypeCorrect == Spec => []TypeOK
<1> QED
  BY InitTyped, StepTyped, PTL DEF Spec

(* What a delivery would leave parked, in a wave that has not woken the    *)
(* collector, is again in order: the induction step of WaveInv.            *)
LEMMA HeldInOrder ==
  ASSUME WaveInv, NEW u \in Upstreams, NEW r,
         log' = Append(log, [from |-> u, round |-> r]),
         seen' = SeenBefore(u) \cup {u},
         ~ReleasedBefore(u)
  PROVE  /\ Held(u) \in [Upstreams -> Nat]
         /\ Carried(Held(u)) = seen'
         /\ \A v \in Carried(Held(u)) :
              /\ Held(u)[v] \in 1..Len(log') /\ log'[Held(u)[v]].from = v
              /\ \A i, j \in Held(u)[v]..Len(log') :
                    log'[i].from = log'[j].from => i = j
              /\ \A i \in Held(u)[v]..Len(log') : log'[i].from \in seen'
              /\ \A k \in 1..Len(wakes) : wakes[k][v] # Held(u)[v]
<1> DEFINE n == Len(log) + 1
<1> DEFINE Good(v) ==
       /\ Held(u)[v] \in 1..Len(log') /\ log'[Held(u)[v]].from = v
       /\ \A i, j \in Held(u)[v]..Len(log') :
             log'[i].from = log'[j].from => i = j
       /\ \A i \in Held(u)[v]..Len(log') : log'[i].from \in seen'
       /\ \A k \in 1..Len(wakes) : wakes[k][v] # Held(u)[v]
<1>1. /\ Len(log) \in Nat /\ Len(log') = n
      /\ \A i \in 1..Len(log) : log'[i] = log[i]
      /\ log'[n].from = u
  BY DEF WaveInv, TypeOK
<1>2. \A k \in 1..Len(wakes) : wakes[k] \in [Upstreams -> Nat]
  BY DEF WaveInv, TypeOK
<1>3. \A k \in 1..Len(wakes) : wakes[k][u] # n
  <2> SUFFICES ASSUME NEW k \in 1..Len(wakes) PROVE wakes[k][u] # n
    OBVIOUS
  <2>1. wakes[k][u] \in Nat
    BY <1>2
  <2>2. CASE wakes[k][u] = 0
    BY <1>1, <2>2
  <2>3. CASE wakes[k][u] # 0
    BY <1>1, <2>3 DEF WaveInv, WakesCarryFlights, Carried, Flights
  <2> QED
    BY <2>2, <2>3
<1>4. CASE u \in seen
  <2>1. Held(u) = [Nobody EXCEPT ![u] = n] /\ seen' = {u}
    BY <1>4 DEF Held, ParkedBefore, SeenBefore
  <2>2. Held(u) \in [Upstreams -> Nat] /\ Held(u)[u] = n
    BY <1>1, <2>1 DEF Nobody
  <2>3. Carried(Held(u)) = {u}
    BY <1>1, <2>1 DEF Nobody, Carried
  <2>4. Good(u)
    BY <1>1, <1>3, <2>1, <2>2
  <2> HIDE DEF n, Good
  <2>5. \A v \in Carried(Held(u)) : Good(v)
    BY <2>3, <2>4
  <2> QED
    BY <2>1, <2>2, <2>3, <2>5 DEF Good
<1>5. CASE u \notin seen
  <2>1. /\ Held(u) = [parked EXCEPT ![u] = n] /\ seen' = seen \cup {u}
        /\ Carried(parked) = seen
    BY <1>5 DEF Held, ParkedBefore, SeenBefore, ReleasedBefore, WaveInv,
                WaveHoldsWhatItSaw
  <2>2. /\ Held(u) \in [Upstreams -> Nat] /\ Held(u)[u] = n
        /\ \A v \in Upstreams \ {u} : Held(u)[v] = parked[v]
    BY <1>1, <2>1 DEF WaveInv, TypeOK
  <2>3. Carried(Held(u)) = seen'
    BY <1>1, <2>1, <2>2 DEF Carried
  <2>4. ASSUME NEW v \in seen
        PROVE  Good(v)
    <3>1. v \in Upstreams /\ Held(u)[v] = parked[v] /\ v \in Carried(parked)
      BY <1>5, <2>1, <2>2 DEF Carried
    <3>2. /\ parked[v] \in 1..Len(log) /\ log[parked[v]].from = v
          /\ \A i, j \in parked[v]..Len(log) : log[i].from = log[j].from => i = j
          /\ \A i \in parked[v]..Len(log) : log[i].from \in seen
          /\ \A k \in 1..Len(wakes) : wakes[k][v] # parked[v]
      BY <3>1 DEF WaveInv, ParkedInOrder, Flights
    <3>3. \A i \in parked[v]..n : i = n \/ i \in parked[v]..Len(log)
      BY <1>1, <3>2
    <3>4. \A i \in parked[v]..Len(log) : log'[i] = log[i] /\ log'[i].from # u
      BY <1>1, <1>5, <3>2
    <3>5. \A i, j \in parked[v]..n : log'[i].from = log'[j].from => i = j
      BY <1>1, <3>2, <3>3, <3>4
    <3>6. \A i \in parked[v]..n : log'[i].from \in seen'
      BY <1>1, <2>1, <3>2, <3>3, <3>4
    <3> QED
      BY <1>1, <3>1, <3>2, <3>5, <3>6
  <2>5. Good(u)
    BY <1>1, <1>3, <2>1, <2>2
  <2> HIDE DEF n, Good
  <2>6. \A v \in Carried(Held(u)) : Good(v)
    BY <2>1, <2>3, <2>4, <2>5
  <2> QED
    BY <2>2, <2>3, <2>6 DEF Good
<1> QED
  BY <1>4, <1>5

(* Appending to the log moves no flight that a release already carried.    *)
LEMMA WakesSurviveDelivery ==
  ASSUME WaveInv, NEW u \in Upstreams, NEW r,
         log' = Append(log, [from |-> u, round |-> r]),
         UNCHANGED wakes
  PROVE  WakesCarryFlights' /\ EveryoneDeliversAgain' /\ NoFlightWakesTwice'
<1>1. /\ Len(log) \in Nat /\ Len(log') = Len(log) + 1
      /\ \A i \in 1..Len(log) : log'[i] = log[i]
  BY DEF WaveInv, TypeOK
<1>2. WakesCarryFlights'
  BY <1>1 DEF WaveInv, WakesCarryFlights, Flights, Carried
<1>3. \A k \in 1..Len(wakes) : \A v, w \in Carried(wakes[k]) :
        \A i \in wakes[k][v]..wakes[k][w] : i \in 1..Len(log)
  BY <1>1 DEF WaveInv, WakesCarryFlights, Flights
<1>4. EveryoneDeliversAgain'
  BY <1>1, <1>3 DEF WaveInv, EveryoneDeliversAgain, Carried
<1>5. NoFlightWakesTwice'
  BY <1>1 DEF WaveInv, WakesCarryFlights, Flights, NoFlightWakesTwice, Carried
<1> QED
  BY <1>2, <1>4, <1>5

(* A release carries flights in order, none of which was carried before.   *)
LEMMA ReleaseInOrder ==
  ASSUME WaveInv, NEW u \in Upstreams, NEW r,
         log' = Append(log, [from |-> u, round |-> r]),
         seen' = SeenBefore(u) \cup {u},
         ~ReleasedBefore(u),
         wakes' = Append(wakes, Held(u))
  PROVE  WakesCarryFlights' /\ EveryoneDeliversAgain' /\ NoFlightWakesTwice'
<1> DEFINE n == Len(wakes) + 1
<1>1. /\ Len(log) \in Nat /\ Len(log') = Len(log) + 1
      /\ \A i \in 1..Len(log) : log'[i] = log[i]
  BY DEF WaveInv, TypeOK
<1>2. /\ Held(u) \in [Upstreams -> Nat]
      /\ \A v \in Carried(Held(u)) :
           /\ Held(u)[v] \in 1..Len(log') /\ log'[Held(u)[v]].from = v
           /\ \A i, j \in Held(u)[v]..Len(log') :
                 log'[i].from = log'[j].from => i = j
           /\ \A k \in 1..Len(wakes) : wakes[k][v] # Held(u)[v]
  BY HeldInOrder
<1>3. /\ Len(wakes) \in Nat /\ Len(wakes') = n /\ wakes'[n] = Held(u)
      /\ \A k \in 1..n : k = n \/ k \in 1..Len(wakes)
      /\ \A k \in 1..Len(wakes) : wakes'[k] = wakes[k]
  <2>1. wakes \in Seq([Upstreams -> Nat]) /\ Len(wakes) \in Nat
    BY DEF WaveInv, TypeOK
  <2>2. Len(wakes') = n /\ wakes'[n] = Held(u)
    BY <1>2, <2>1
  <2>3. \A k \in 1..Len(wakes) : wakes'[k] = wakes[k]
    BY <1>2, <2>1
  <2>4. \A k \in 1..n : k = n \/ k \in 1..Len(wakes)
    BY <2>1
  <2> QED
    BY <2>1, <2>2, <2>3, <2>4
<1>4. \A k \in 1..Len(wakes) : \A v \in Carried(wakes[k]) : wakes[k][v] \in 1..Len(log)
  BY DEF WaveInv, WakesCarryFlights, Flights
<1> HIDE DEF n
<1>5. WakesCarryFlights'
  <2> SUFFICES ASSUME NEW k \in 1..n, NEW v \in Carried(wakes'[k])
               PROVE  wakes'[k][v] \in 1..Len(log')
    BY <1>3 DEF WakesCarryFlights, Flights, Carried
  <2>1. CASE k = n
    BY <1>2, <1>3, <2>1
  <2>2. CASE k \in 1..Len(wakes)
    BY <1>1, <1>3, <1>4, <2>2
  <2> QED
    BY <1>3, <2>1, <2>2
<1>6. EveryoneDeliversAgain'
  <2> SUFFICES ASSUME NEW k \in 1..n,
                      NEW v \in Carried(wakes'[k]), NEW w \in Carried(wakes'[k]),
                      NEW i \in wakes'[k][v]..wakes'[k][w],
                      NEW j \in wakes'[k][v]..wakes'[k][w],
                      log'[i].from = log'[j].from
               PROVE  i = j
    BY <1>3 DEF EveryoneDeliversAgain, Carried
  <2>1. CASE k = n
    <3>1. i \in Held(u)[v]..Len(log') /\ j \in Held(u)[v]..Len(log')
      BY <1>1, <1>2, <1>3, <2>1
    <3> QED
      BY <1>2, <1>3, <2>1, <3>1
  <2>2. CASE k \in 1..Len(wakes)
    <3>1. i \in 1..Len(log) /\ j \in 1..Len(log)
      BY <1>1, <1>3, <1>4, <2>2
    <3> QED
      BY <1>1, <1>3, <2>2, <3>1 DEF WaveInv, EveryoneDeliversAgain
  <2> QED
    BY <1>3, <2>1, <2>2
<1>7. NoFlightWakesTwice'
  <2>1. ASSUME NEW k \in 1..n, NEW v \in Carried(wakes'[k])
        PROVE  log'[wakes'[k][v]].from = v
    <3>1. CASE k = n
      BY <1>2, <1>3, <3>1
    <3>2. CASE k \in 1..Len(wakes)
      BY <1>1, <1>3, <1>4, <3>2 DEF WaveInv, NoFlightWakesTwice
    <3> QED
      BY <1>3, <3>1, <3>2
  <2>2. ASSUME NEW k \in 1..n, NEW l \in 1..n, NEW v \in Carried(wakes'[k]),
               wakes'[k][v] = wakes'[l][v]
        PROVE  k = l
    <3>1. CASE k = n /\ l # n
      BY <1>2, <1>3, <2>2, <3>1
    <3>2. CASE k # n /\ l = n
      <4>1. v \in Carried(Held(u))
        BY <1>3, <2>2, <3>2 DEF Carried
      <4> QED
        BY <1>2, <1>3, <2>2, <3>2, <4>1
    <3>3. CASE k # n /\ l # n
      BY <1>3, <2>2, <3>3 DEF WaveInv, NoFlightWakesTwice
    <3> QED
      BY <3>1, <3>2, <3>3
  <2> QED
    BY <1>3, <2>1, <2>2 DEF NoFlightWakesTwice, Carried
<1> QED
  BY <1>5, <1>6, <1>7

(* Every release carries, for each upstream it names, a flight delivered    *)
(* since the wave began: Barrier::deliver's rule "every upstream must      *)
(* deliver again", with what it needs to be inductive.                     *)
THEOREM WavesCorrect == Spec => []WaveInv
<1>1. Init => WaveInv
  <2> SUFFICES ASSUME Init PROVE WaveInv
    OBVIOUS
  <2>1. TypeOK
    BY InitTyped
  <2>2. Len(wakes) = 0 /\ Len(log) = 0 /\ parked = Nobody /\ seen = {}
    BY DEF Init
  <2>3. Carried(parked) = {}
    BY <2>2 DEF Carried, Nobody
  <2>4. WaveHoldsWhatItSaw
    BY <2>2, <2>3, BarrierAssumption DEF WaveHoldsWhatItSaw, Complete, Nobody
  <2> QED
    BY <2>1, <2>2, <2>3, <2>4 DEF WaveInv, ParkedInOrder, WakesCarryFlights,
       EveryoneDeliversAgain, NoFlightWakesTwice
<1>2. WaveInv /\ [Next]_vars => WaveInv'
  <2> SUFFICES ASSUME WaveInv, [Next]_vars
               PROVE  WaveInv'
    OBVIOUS
  <2>t. TypeOK'
    BY StepTyped DEF WaveInv
  <2>s. shape' = shape
    BY DEF Next, vars, UpstreamReports, UpstreamSendsBack, UpstreamFails,
       DeliverDirect, Abandon, Dispatch, PlannerRefused, CollectorEnds
  <2>j. join' = join
    BY <2>s DEF join
  <2> USE <2>j
  <2>1. ASSUME NEW u \in Upstreams, UpstreamReports(u)
        PROVE  WaveInv'
    <3> DEFINE r == Head(asked[u])
    <3>1. /\ log' = Append(log, [from |-> u, round |-> r])
          /\ seen' = SeenBefore(u) \cup {u}
          /\ Late(u) \/ Ready(u) \/ Park(u)
      BY <2>1 DEF UpstreamReports, Deliver
    <3> HIDE DEF r
    <3>2. CASE Late(u)
      <4>1. /\ parked = Nobody /\ parked' = Nobody /\ released' = TRUE
            /\ wakes' = wakes
        BY <3>2 DEF Late, ReleasedBefore, ParkedBefore, WaveInv, WaveHoldsWhatItSaw
      <4>2. WaveHoldsWhatItSaw' /\ ParkedInOrder'
        BY <4>1, BarrierAssumption
           DEF WaveHoldsWhatItSaw, ParkedInOrder, Carried, Nobody, Complete
      <4> QED
        BY <2>t, <3>1, <4>1, <4>2, WakesSurviveDelivery DEF WaveInv
    <3>3. CASE Park(u)
      <4>1. /\ parked' = Held(u) /\ released' = FALSE /\ wakes' = wakes
            /\ ~Complete(Held(u)) /\ ~ReleasedBefore(u)
        BY <3>3 DEF Park
      <4>2. WaveHoldsWhatItSaw'
        BY <3>1, <4>1, HeldInOrder DEF WaveHoldsWhatItSaw, Complete
      <4>3. ParkedInOrder'
        BY <3>1, <4>1, HeldInOrder DEF ParkedInOrder, Flights
      <4> QED
        BY <2>t, <3>1, <4>1, <4>2, <4>3, WakesSurviveDelivery DEF WaveInv
    <3>4. CASE Ready(u)
      <4>1. /\ parked' = Nobody /\ released' = TRUE
            /\ wakes' = Append(wakes, Held(u)) /\ ~ReleasedBefore(u)
        BY <3>4 DEF Ready
      <4>2. WaveHoldsWhatItSaw' /\ ParkedInOrder'
        BY <4>1, BarrierAssumption
           DEF WaveHoldsWhatItSaw, ParkedInOrder, Carried, Nobody, Complete
      <4>3. WakesCarryFlights' /\ EveryoneDeliversAgain' /\ NoFlightWakesTwice'
        BY <3>1, <4>1, ReleaseInOrder
      <4> QED
        BY <2>t, <4>2, <4>3 DEF WaveInv
    <3> QED
      BY <3>1, <3>2, <3>3, <3>4
  <2>2. CASE Abandon
    <3>1. parked' = Nobody /\ seen' = {} /\ released' = FALSE /\ UNCHANGED <<log, wakes>>
      BY <2>2 DEF Abandon
    <3>2. WaveHoldsWhatItSaw' /\ ParkedInOrder'
      BY <3>1, BarrierAssumption
         DEF WaveHoldsWhatItSaw, ParkedInOrder, Carried, Nobody, Complete
    <3> QED
      BY <2>t, <3>1, <3>2 DEF WaveInv, WakesCarryFlights, Flights,
         EveryoneDeliversAgain, NoFlightWakesTwice
  <2>3. CASE UNCHANGED <<barrierVars, log, wakes>>
    <3>1. WaveHoldsWhatItSaw'
      BY <2>3 DEF WaveInv, WaveHoldsWhatItSaw, Complete, Carried, Nobody
    <3>2. ParkedInOrder' /\ WakesCarryFlights'
      BY <2>3 DEF WaveInv, ParkedInOrder, WakesCarryFlights, Flights, Carried
    <3>3. EveryoneDeliversAgain' /\ NoFlightWakesTwice'
      BY <2>3 DEF WaveInv, EveryoneDeliversAgain, NoFlightWakesTwice, Carried
    <3> QED
      BY <2>t, <3>1, <3>2, <3>3 DEF WaveInv
  <2> QED
    BY <2>1, <2>2, <2>3 DEF Next, vars, UpstreamSendsBack, UpstreamFails,
       DeliverDirect, Dispatch, PlannerRefused, CollectorEnds
<1> QED
  BY <1>1, <1>2, PTL DEF Spec

(* The three properties a reader of barrier.rs would ask for.              *)
COROLLARY ReleasesInOrder ==
  Spec => [](WaveHoldsWhatItSaw /\ EveryoneDeliversAgain /\ NoFlightWakesTwice)
<1>1. WaveInv => WaveHoldsWhatItSaw /\ EveryoneDeliversAgain /\ NoFlightWakesTwice
  BY DEF WaveInv
<1> QED
  BY <1>1, WavesCorrect, PTL

(* A join of everybody never mixes an old result with a fresh one, when    *)
(* the chain loops back only from the joined agent.  A loop-back from an   *)
(* upstream does mix them: Barrier_stale.cfg shows it.                     *)
THEOREM NoStaleSiblingInCollectorLoop == Spec => []NoStaleSibling
<1> DEFINE Inv == WaveInv /\ (Paced => RoundsDoNotOverlap /\ SiblingsAreFresh)
<1>1. Init => RoundsDoNotOverlap /\ SiblingsAreFresh
  <2> SUFFICES ASSUME Init PROVE RoundsDoNotOverlap /\ SiblingsAreFresh
    OBVIOUS
  <2>1. /\ parked = Nobody /\ collecting = 0 /\ Len(wakes) = 0
        /\ \A u \in Upstreams : asked[u] = <<>>
    BY DEF Init
  <2> QED
    BY <2>1 DEF RoundsDoNotOverlap, SiblingsAreFresh, Carried, Nobody
<1>2. Inv /\ WaveInv' /\ [Next]_vars => (Paced' => RoundsDoNotOverlap' /\ SiblingsAreFresh')
  <2> SUFFICES ASSUME Inv, WaveInv', [Next]_vars, Paced'
               PROVE  RoundsDoNotOverlap' /\ SiblingsAreFresh'
    OBVIOUS
  <2>a. shape' = shape
    BY DEF Next, vars, UpstreamReports, UpstreamSendsBack, UpstreamFails,
       DeliverDirect, Abandon, Dispatch, PlannerRefused, CollectorEnds
  <2>b. Paced
    BY <2>a DEF Paced
  <2>c. join = "all" /\ shape.loop = "collector" /\ shape.direct = 0
    BY <2>b DEF Paced, join
  <2> USE <2>c
  <2>d. WaveInv /\ RoundsDoNotOverlap /\ SiblingsAreFresh
    BY <2>b
  <2> USE <2>d
  <2>0. TypeOK /\ TypeOK'
    BY DEF WaveInv
  <2>1. ASSUME NEW u \in Upstreams, UpstreamReports(u)
        PROVE  RoundsDoNotOverlap' /\ SiblingsAreFresh'
    <3>1. /\ asked[u] = <<round>> /\ ~planning /\ collecting = 0
          /\ u \notin Carried(parked)
      BY <2>0, <2>1 DEF UpstreamReports, RoundsDoNotOverlap, TypeOK
    <3>2. /\ log' = Append(log, [from |-> u, round |-> round])
          /\ seen' = SeenBefore(u) \cup {u}
          /\ Late(u) \/ Ready(u) \/ Park(u)
          /\ UNCHANGED <<planning, round>>
          /\ asked' = [asked EXCEPT ![u] = <<>>]
      BY <2>1, <3>1 DEF UpstreamReports, Deliver
    <3>3. /\ Len(log) \in Nat /\ log'[Len(log) + 1].round = round
          /\ \A i \in 1..Len(log) : log'[i] = log[i]
      BY <2>0, <3>2 DEF TypeOK
    <3>4. asked'[u] = <<>> /\ \A v \in Upstreams \ {u} : asked'[v] = asked[v]
      BY <2>0, <3>2 DEF TypeOK
    <3>5. \A v \in Carried(Held(u)) :
            asked'[v] = <<>> /\ log'[Held(u)[v]].round = round
      <4> SUFFICES ASSUME NEW v \in Carried(Held(u))
                   PROVE  asked'[v] = <<>> /\ log'[Held(u)[v]].round = round
        OBVIOUS
      <4>1. ParkedBefore(u) \in [Upstreams -> Nat]
        BY <2>0 DEF ParkedBefore, Nobody, TypeOK
      <4>2. CASE v = u
        BY <3>3, <3>4, <4>1, <4>2 DEF Held, Carried
      <4>3. CASE v # u
        <5>1. v \in Carried(parked) /\ Held(u)[v] = parked[v]
          BY <2>0, <4>1, <4>3 DEF Held, Carried, ParkedBefore, Nobody, TypeOK
        <5>2. parked[v] \in 1..Len(log)
          BY <5>1 DEF WaveInv, ParkedInOrder, Flights
        <5> QED
          BY <3>3, <3>4, <4>3, <5>1, <5>2 DEF RoundsDoNotOverlap, Carried
      <4> QED
        BY <4>2, <4>3
    <3>6. \A v \in Upstreams : asked'[v] \in {<<>>, <<round>>}
      BY <3>4 DEF RoundsDoNotOverlap
    <3>7. ASSUME UNCHANGED wakes PROVE SiblingsAreFresh'
      <4> SUFFICES ASSUME NEW k \in 1..Len(wakes), NEW v \in Carried(wakes[k]),
                          NEW w \in Carried(wakes[k])
                   PROVE  log'[wakes[k][v]].round = log'[wakes[k][w]].round
        BY <3>7 DEF SiblingsAreFresh, Carried
      <4>1. wakes[k][v] \in 1..Len(log) /\ wakes[k][w] \in 1..Len(log)
        BY DEF WaveInv, WakesCarryFlights, Flights
      <4>2. log[wakes[k][v]].round = log[wakes[k][w]].round
        BY DEF SiblingsAreFresh
      <4> QED
        BY <3>3, <4>1, <4>2
    <3>8. CASE Late(u)
      <4>1. parked' = Nobody /\ UNCHANGED <<collecting, wakes>>
        BY <3>8 DEF Late, ReleasedBefore, ParkedBefore, WaveInv, WaveHoldsWhatItSaw
      <4>2. Carried(parked') = {}
        BY <4>1 DEF Carried, Nobody
      <4>3. ~planning' /\ collecting' = 0 /\ round' = round
        BY <3>1, <3>2, <4>1
      <4>4. SiblingsAreFresh'
        BY <3>7, <4>1
      <4>5. RoundsDoNotOverlap'
        <5>1. \A v \in Upstreams : asked'[v] \in {<<>>, <<round'>>}
          BY <3>6, <4>3
        <5> QED
          BY <4>2, <4>3, <5>1 DEF RoundsDoNotOverlap
      <4> QED
        BY <4>4, <4>5
    <3>9. CASE Park(u)
      <4>1. parked' = Held(u) /\ UNCHANGED <<collecting, wakes>>
        BY <3>9 DEF Park
      <4>2. SiblingsAreFresh'
        BY <3>7, <4>1
      <4>3. ~planning' /\ collecting' = 0 /\ round' = round
        BY <3>1, <3>2, <4>1
      <4>4. \A v \in Carried(parked') :
               asked'[v] = <<>> /\ log'[parked'[v]].round = round'
        BY <3>5, <4>1, <4>3 DEF Carried
      <4>5. RoundsDoNotOverlap'
        <5>1. \A v \in Upstreams : asked'[v] \in {<<>>, <<round'>>}
          BY <3>6, <4>3
        <5> QED
          BY <4>3, <4>4, <5>1 DEF RoundsDoNotOverlap, Carried
      <4> QED
        BY <4>2, <4>5
    <3>10. CASE Ready(u)
      <4>1. /\ parked' = Nobody /\ collecting' = 1 /\ wakes' = Append(wakes, Held(u))
            /\ \A v \in Upstreams : Held(u)[v] # 0
        BY <2>0, <3>1, <3>10 DEF Ready, Complete, TypeOK
      <4>2. Carried(Held(u)) = Upstreams
        BY <4>1 DEF Carried
      <4>3. RoundsDoNotOverlap'
        BY <3>1, <3>2, <3>5, <3>6, <4>1, <4>2 DEF RoundsDoNotOverlap, Carried, Nobody
      <4>4. Held(u) \in [Upstreams -> Nat]
        BY <3>2, <3>10, HeldInOrder DEF Ready
      <4>5. /\ Len(wakes') = Len(wakes) + 1 /\ wakes'[Len(wakes) + 1] = Held(u)
            /\ \A k \in 1..Len(wakes) : wakes'[k] = wakes[k]
            /\ \A k \in 1..Len(wakes) + 1 : k = Len(wakes) + 1 \/ k \in 1..Len(wakes)
        <5>1. wakes \in Seq([Upstreams -> Nat]) /\ Len(wakes) \in Nat
          BY <2>0 DEF TypeOK
        <5> QED
          BY <4>1, <4>4, <5>1
      <4>6. SiblingsAreFresh'
        <5> SUFFICES ASSUME NEW k \in 1..Len(wakes'), NEW v \in Carried(wakes'[k]),
                            NEW w \in Carried(wakes'[k])
                     PROVE  log'[wakes'[k][v]].round = log'[wakes'[k][w]].round
          BY DEF SiblingsAreFresh, Carried
        <5>1. CASE k = Len(wakes) + 1
          BY <3>5, <4>5, <5>1
        <5>2. CASE k \in 1..Len(wakes)
          <6>1. v \in Carried(wakes[k]) /\ w \in Carried(wakes[k]) /\ wakes'[k] = wakes[k]
            BY <4>5, <5>2
          <6>2. wakes[k][v] \in 1..Len(log) /\ wakes[k][w] \in 1..Len(log)
            BY <5>2, <6>1 DEF WaveInv, WakesCarryFlights, Flights
          <6>3. log[wakes[k][v]].round = log[wakes[k][w]].round
            BY <5>2, <6>1 DEF SiblingsAreFresh
          <6> QED
            BY <3>3, <6>1, <6>2, <6>3
        <5> QED
          BY <4>5, <5>1, <5>2
      <4> QED
        BY <4>3, <4>6
    <3> QED
      BY <3>2, <3>8, <3>9, <3>10
  <2>2. ASSUME NEW u \in Upstreams, UpstreamFails(u)
        PROVE  RoundsDoNotOverlap' /\ SiblingsAreFresh'
    <3>0. asked[u] = <<round>>
      BY <2>0, <2>2 DEF UpstreamFails, RoundsDoNotOverlap, TypeOK
    <3>1. /\ asked[u] = <<round>> /\ asked' = [asked EXCEPT ![u] = <<>>]
          /\ UNCHANGED <<parked, planning, collecting, round, log, wakes>>
      BY <2>2, <3>0 DEF UpstreamFails
    <3>2. asked'[u] = <<>> /\ \A v \in Upstreams \ {u} : asked'[v] = asked[v]
      BY <2>0, <3>1 DEF TypeOK
    <3> QED
      BY <3>1, <3>2 DEF RoundsDoNotOverlap, SiblingsAreFresh, Carried
  <2>3. CASE Dispatch
    <3>1. /\ parked = Nobody /\ collecting = 0 /\ ~planning'
          /\ round' = round + 1
          /\ asked' = [u \in Upstreams |-> Append(asked[u], round + 1)]
          /\ \A u \in Upstreams : asked[u] = <<>>
          /\ UNCHANGED <<parked, collecting, log, wakes>>
      BY <2>3 DEF Dispatch, RoundsDoNotOverlap
    <3>2. \A u \in Upstreams : asked'[u] = <<round'>>
      <4>1. round + 1 \in Nat
        BY <2>0, BarrierAssumption DEF TypeOK
      <4>2. Append(<<>>, round + 1) = <<round + 1>>
        BY <4>1
      <4> QED
        BY <3>1, <4>2
    <3> QED
      BY <3>1, <3>2 DEF RoundsDoNotOverlap, SiblingsAreFresh, Carried, Nobody
  <2>4. CASE CollectorEnds
    <3>1. /\ collecting = 1 /\ collecting' = 0
          /\ parked = Nobody /\ \A u \in Upstreams : asked[u] = <<>>
          /\ UNCHANGED <<parked, asked, round, log, wakes>>
      BY <2>0, <2>4 DEF CollectorEnds, RoundsDoNotOverlap, TypeOK
    <3> QED
      BY <3>1 DEF RoundsDoNotOverlap, SiblingsAreFresh, Carried, Nobody
  <2>5. CASE Abandon
    BY <2>5 DEF Abandon, RoundsDoNotOverlap, SiblingsAreFresh, Carried, Nobody
  <2>6. CASE PlannerRefused
    BY <2>6 DEF PlannerRefused, RoundsDoNotOverlap, SiblingsAreFresh, Carried
  <2>7. CASE UNCHANGED vars
    BY <2>7 DEF vars, RoundsDoNotOverlap, SiblingsAreFresh, Carried
  <2>8. ~DeliverDirect
    BY <2>0 DEF DeliverDirect, TypeOK
  <2>9. ASSUME NEW u \in Upstreams PROVE ~UpstreamSendsBack(u)
    BY DEF UpstreamSendsBack
  <2> QED
    BY <2>1, <2>2, <2>3, <2>4, <2>5, <2>6, <2>7, <2>8, <2>9 DEF Next
<1>3. Inv => NoStaleSibling
  BY DEF NoStaleSibling
<1>4. Init => (Paced => RoundsDoNotOverlap /\ SiblingsAreFresh)
  BY <1>1
<1> QED
  BY <1>2, <1>3, <1>4, WavesCorrect, PTL DEF Spec

-----------------------------------------------------------------------------
(* The reach of Charter.                                                   *)

(* Everything that follows from a start along the edges.                   *)
LEMMA ReachedFrom ==
  ASSUME NEW U, NEW starts \in SUBSET U, NEW edges
  PROVE  starts \subseteq Reached(U, starts, edges) /\ Reached(U, starts, edges) \subseteq U
BY DEF Reached

LEMMA ReachedAlong ==
  ASSUME NEW U, NEW starts, NEW edges, NEW e \in edges,
         e[1] \in Reached(U, starts, edges), e[2] \in U
  PROVE  e[2] \in Reached(U, starts, edges)
BY DEF Reached

LEMMA ReachedIsLeast ==
  ASSUME NEW U, NEW starts, NEW edges, NEW S \in SUBSET U, starts \subseteq S,
         \A e \in edges : e[1] \in S => e[2] \in S
  PROVE  Reached(U, starts, edges) \subseteq S
BY DEF Reached

LEMMA ReachedFromMore ==
  ASSUME NEW U, NEW starts, NEW more, NEW edges, starts \subseteq more
  PROVE  Reached(U, starts, edges) \subseteq Reached(U, more, edges)
BY DEF Reached

(* A walk of no edges, and one of an edge more.                            *)
LEMMA WalkStarts ==
  ASSUME NEW starts \in SUBSET Agents, NEW edges, NEW a \in starts
  PROVE  Walk(starts, edges, a, 0)
<1> DEFINE path == [i \in 0..0 |-> a]
<1>1. path \in [0..0 -> Agents] /\ path[0] = a
  OBVIOUS
<1>2. \A i \in 0..0 : ~(i < 0)
  OBVIOUS
<1> HIDE DEF path
<1> QED
  BY <1>1, <1>2 DEF Walk

LEMMA WalkGoesOn ==
  ASSUME NEW starts, NEW edges, NEW a, NEW b \in Agents, NEW n \in Nat,
         Walk(starts, edges, a, n), <<a, b>> \in edges
  PROVE  Walk(starts, edges, b, n + 1)
<1>1. PICK path \in [0..n -> Agents] :
        /\ path[0] \in starts /\ path[n] = a
        /\ \A i \in 0..n : i < n => <<path[i], path[i + 1]>> \in edges
  BY DEF Walk
<1> DEFINE longer == [i \in 0..(n + 1) |-> IF i = n + 1 THEN b ELSE path[i]]
<1>2. longer \in [0..(n + 1) -> Agents]
  OBVIOUS
<1>3. longer[0] = path[0] /\ longer[n + 1] = b
  OBVIOUS
<1>4. ASSUME NEW i \in 0..(n + 1), i < n + 1
      PROVE  <<longer[i], longer[i + 1]>> \in edges
  <2>1. CASE i = n
    <3>1. longer[i] = a /\ longer[i + 1] = b
      BY <1>1, <2>1
    <3> QED
      BY <3>1
  <2>2. CASE i # n
    <3>1. i \in 0..n /\ i < n /\ i + 1 \in 0..n
      BY <1>4, <2>2
    <3>2. longer[i] = path[i] /\ longer[i + 1] = path[i + 1]
      BY <3>1
    <3> HIDE DEF longer
    <3> QED
      BY <1>1, <3>1, <3>2
  <2> QED
    BY <2>1, <2>2
<1> HIDE DEF longer
<1> QED
  BY <1>1, <1>2, <1>3, <1>4 DEF Walk

-----------------------------------------------------------------------------
(* What is written is a factory, and is one once it is read.               *)
LEMMA FactoryParts ==
  ASSUME NEW f \in Factory
  PROVE  /\ Names(f) \subseteq Workflows
         /\ \A w \in Names(f) : f.workflows[w] \in Workflow
         /\ f.routes \in Seq(Route)
         /\ \A i \in DOMAIN f.routes : f.routes[i] \in Route
         /\ f.entry \subseteq Agents /\ f.max_hops \in Hops
<1>1. PICK W \in SUBSET Workflows : f.workflows \in [W -> Workflow]
  BY DEF Factory
<1>2. Names(f) = W
  BY <1>1 DEF Names
<1>3. f.routes \in Seq(Route)
  BY DEF Factory
<1>4. DOMAIN f.routes = 1..Len(f.routes) /\ \A i \in 1..Len(f.routes) : f.routes[i] \in Route
  BY <1>3
<1>5. f.entry \subseteq Agents /\ f.max_hops \in Hops
  BY DEF Factory
<1> QED
  BY <1>1, <1>2, <1>3, <1>4, <1>5

LEMMA ReadTyped == ASSUME NEW f \in Factory PROVE Read(f) \in Factory
<1> DEFINE named(i) == [f.routes[i] EXCEPT !.pipelines = Reached(Workflows, @, Followed(f))]
           routes == [i \in DOMAIN f.routes |-> named(i)]
<1>1. ASSUME NEW i \in DOMAIN f.routes PROVE named(i) \in Route
  <2>1. f.routes[i] \in Route
    BY FactoryParts
  <2>2. Reached(Workflows, f.routes[i].pipelines, Followed(f)) \in SUBSET Workflows
    BY DEF Reached
  <2> QED
    BY <2>1, <2>2 DEF Route
<1> HIDE DEF named
<1>2. routes \in Seq(Route)
  <2>1. f.routes \in Seq(Route)
    BY FactoryParts
  <2>2. DOMAIN f.routes = 1..Len(f.routes) /\ Len(f.routes) \in Nat
    BY <2>1
  <2> QED
    BY <1>1, <2>2
<1>3. Read(f) = [f EXCEPT !.routes = routes]
  BY DEF Read, named
<1> HIDE DEF routes
<1> QED
  BY <1>2, <1>3 DEF Factory

LEMMA EdgesTyped ==
  ASSUME NEW f \in Factory, NEW p
  PROVE  /\ Edges(f, p) \subseteq Agents \X Agents /\ Spawns(f, p) \subseteq Edges(f, p)
         /\ Ordinary(f, p) \subseteq Edges(f, p) /\ SpawnTargets(f, p) \subseteq Agents
<1>1. ASSUME NEW i \in Applying(f, p) PROVE Pairs(f.routes[i]) \subseteq Agents \X Agents
  <2>1. f.routes[i] \in Route
    BY FactoryParts DEF Applying
  <2> QED
    BY <2>1 DEF Route, Pairs
<1>2. Edges(f, p) \subseteq Agents \X Agents
  BY <1>1 DEF Edges
<1>3. Spawns(f, p) \subseteq Edges(f, p)
  BY DEF Spawns, Edges
<1> QED
  BY <1>2, <1>3 DEF Ordinary, SpawnTargets

LEMMA EntryTyped ==
  ASSUME NEW f \in Factory, NEW p \in WaysIn(f)
  PROVE  /\ EntryOf(f, p) \subseteq Agents /\ Starts(f, p) \subseteq Agents
         /\ MaxHops(f, p) \in Hops /\ MaxHops(f, p) \in Nat
<1>0. NoWorkflow \notin Workflows /\ Hops \subseteq Nat
  BY CharterAssumption
<1>1. ASSUME p # NoWorkflow PROVE p \in Names(f) /\ f.workflows[p] \in Workflow
  BY <1>1, FactoryParts DEF WaysIn
<1>2. EntryOf(f, p) \subseteq Agents
  <2>1. CASE p = NoWorkflow
    BY <2>1, FactoryParts DEF EntryOf
  <2>2. CASE p # NoWorkflow
    <3>1. f.workflows[p].entry \subseteq Agents
      BY <1>1, <2>2 DEF Workflow, Options
    <3> QED
      BY <2>2, <3>1 DEF EntryOf
  <2> QED
    BY <2>1, <2>2
<1>3. MaxHops(f, p) \in Hops
  <2> DEFINE set == IF p \in Names(f) /\ f.workflows[p].max_hops # {}
                    THEN f.workflows[p].max_hops ELSE {f.max_hops}
  <2>1. set # {} /\ set \subseteq Hops
    <3>1. CASE p \in Names(f) /\ f.workflows[p].max_hops # {}
      <4>1. f.workflows[p] \in Workflow
        BY <3>1, FactoryParts
      <4> QED
        BY <3>1, <4>1 DEF Workflow, Options
    <3>2. CASE ~(p \in Names(f) /\ f.workflows[p].max_hops # {})
      BY <3>2, FactoryParts
    <3> QED
      BY <3>1, <3>2
  <2>2. MaxHops(f, p) = CHOOSE n \in set : TRUE
    BY DEF MaxHops
  <2> HIDE DEF set
  <2> QED
    BY <2>1, <2>2
<1>4. Starts(f, p) \subseteq Agents
  BY <1>2, EdgesTyped DEF Starts
<1> QED
  BY <1>0, <1>2, <1>3, <1>4

-----------------------------------------------------------------------------
(* What validation computes, one edge at a time.                           *)

(* An edge of a way in leads to what that way in reaches: by itself, or    *)
(* because it spawns and its target is a way in of its own.                *)
LEMMA ReachGoesOn ==
  ASSUME NEW f \in Factory, NEW p, NEW a, NEW b,
         <<a, b>> \in Edges(f, p), a \in Reach(f, p), Starts(f, p) \subseteq Agents
  PROVE  b \in Reach(f, p)
<1>1. b \in Agents
  BY EdgesTyped
<1>2. CASE <<a, b>> \in Spawns(f, p)
  <2>1. b \in SpawnTargets(f, p)
    BY <1>2 DEF SpawnTargets
  <2>2. b \in Starts(f, p)
    BY <2>1 DEF Starts
  <2> QED
    BY <2>2, ReachedFrom DEF Reach
<1>3. CASE <<a, b>> \notin Spawns(f, p)
  <2>1. <<a, b>> \in Ordinary(f, p)
    BY <1>3 DEF Ordinary
  <2> DEFINE e == <<a, b>>
  <2>2. e \in Ordinary(f, p) /\ e[1] = a /\ e[2] = b
    BY <2>1
  <2> HIDE DEF e
  <2> QED
    BY <1>1, <2>2, ReachedAlong DEF Reach
<1> QED
  BY <1>2, <1>3

LEMMA StartsAreReached ==
  ASSUME NEW f, NEW p, NEW a \in Starts(f, p), Starts(f, p) \subseteq Agents
  PROVE  a \in Reach(f, p)
BY ReachedFrom DEF Reach

LEMMA CanWakeEntries ==
  ASSUME NEW f, NEW p, NEW a \in EntryOf(f, p), EntryOf(f, p) \subseteq Agents
  PROVE  a \in CanWake(f, p)
<1>1. a \in WakesFromEntry(f, p)
  BY ReachedFrom DEF WakesFromEntry
<1>2. WakesAnywhere(f) \cup EntryOf(f, p) \subseteq Agents
  BY DEF WakesAnywhere
<1>3. a \in Reached(Agents, WakesAnywhere(f) \cup EntryOf(f, p), Edges(f, p))
  BY <1>2, ReachedFrom
<1> QED
  BY <1>1, <1>3 DEF CanWake

LEMMA CanWakeGoesOn ==
  ASSUME NEW f \in Factory, NEW p, NEW a, NEW b, <<a, b>> \in Edges(f, p), a \in CanWake(f, p)
  PROVE  b \in CanWake(f, p)
<1>1. b \in Agents
  BY EdgesTyped
<1> DEFINE e == <<a, b>>
<1>2. e \in Edges(f, p) /\ e[1] = a /\ e[2] = b
  OBVIOUS
<1> HIDE DEF e
<1> QED
  BY <1>1, <1>2, ReachedAlong DEF CanWake, WakesFromEntry

(* Whatever a chain can wake may set work down, and what resumes starts    *)
(* wherever work was set down.                                             *)
LEMMA WokenAnywhere ==
  ASSUME NEW f, NEW p \in WaysIn(f), NEW a \in CanWake(f, p)
  PROVE  a \in WakesAnywhere(f)
<1>1. a \in Agents
  BY DEF CanWake, WakesFromEntry, Reached
<1> SUFFICES ASSUME NEW S \in SUBSET Agents,
                    \A q \in WaysIn(f) \ Resuming(f) : WakesFromEntry(f, q) \subseteq S,
                    \A q \in Resuming(f) :
                      Reached(Agents, S \cup EntryOf(f, q), Edges(f, q)) \subseteq S
             PROVE  a \in S
  BY <1>1 DEF WakesAnywhere
<1>2. CASE p \notin Resuming(f)
  BY <1>2 DEF CanWake
<1>3. CASE p \in Resuming(f)
  <2>1. WakesAnywhere(f) \subseteq S
    BY DEF WakesAnywhere
  <2>2. WakesAnywhere(f) \cup EntryOf(f, p) \subseteq S \cup EntryOf(f, p)
    BY <2>1
  <2>3. Reached(Agents, WakesAnywhere(f) \cup EntryOf(f, p), Edges(f, p))
          \subseteq Reached(Agents, S \cup EntryOf(f, p), Edges(f, p))
    BY <2>2, ReachedFromMore
  <2> QED
    BY <1>3, <2>3 DEF CanWake
<1> QED
  BY <1>2, <1>3

LEMMA CanWakeResumed ==
  ASSUME NEW f, NEW w \in Resuming(f), NEW a \in WakesAnywhere(f), EntryOf(f, w) \subseteq Agents
  PROVE  a \in CanWake(f, w)
<1>1. WakesAnywhere(f) \cup EntryOf(f, w) \subseteq Agents
  BY DEF WakesAnywhere
<1>2. a \in Reached(Agents, WakesAnywhere(f) \cup EntryOf(f, w), Edges(f, w))
  BY <1>1, ReachedFrom
<1> QED
  BY <1>2 DEF CanWake

(* How far into its chain an agent is.                                     *)
LEMMA NearAtStart ==
  ASSUME NEW f, NEW p, NEW a \in Starts(f, p), Starts(f, p) \subseteq Agents, MaxHops(f, p) \in Nat
  PROVE  WithinHops(f, p, a, MaxHops(f, p))
<1>1. Walk(Starts(f, p), Ordinary(f, p), a, 0)
  BY WalkStarts
<1>2. 0 \in 0..MaxHops(f, p) /\ 0 + MaxHops(f, p) <= MaxHops(f, p)
  OBVIOUS
<1> QED
  BY <1>1, <1>2 DEF WithinHops

LEMMA NearGoesOn ==
  ASSUME NEW f, NEW p, NEW a, NEW b \in Agents, NEW more \in Nat,
         WithinHops(f, p, a, more + 1), <<a, b>> \in Ordinary(f, p), MaxHops(f, p) \in Nat
  PROVE  WithinHops(f, p, b, more)
<1>1. PICK d \in 0..MaxHops(f, p) :
        d + (more + 1) <= MaxHops(f, p) /\ Walk(Starts(f, p), Ordinary(f, p), a, d)
  BY DEF WithinHops
<1>2. Walk(Starts(f, p), Ordinary(f, p), b, d + 1)
  BY <1>1, WalkGoesOn
<1>3. d + 1 \in 0..MaxHops(f, p) /\ (d + 1) + more <= MaxHops(f, p)
  BY <1>1
<1> QED
  BY <1>2, <1>3 DEF WithinHops

LEMMA NearEnough ==
  ASSUME NEW f, NEW p, NEW a, NEW more \in Nat, NEW less \in Nat, less <= more,
         WithinHops(f, p, a, more), MaxHops(f, p) \in Nat
  PROVE  WithinHops(f, p, a, less)
<1>1. PICK d \in 0..MaxHops(f, p) :
        d + more <= MaxHops(f, p) /\ Walk(Starts(f, p), Ordinary(f, p), a, d)
  BY DEF WithinHops
<1>2. d + less <= MaxHops(f, p)
  BY <1>1
<1> QED
  BY <1>1, <1>2 DEF WithinHops

-----------------------------------------------------------------------------
(* The inductive invariants.  The factory is judged once and stays as it   *)
(* was read; a chain has one scope of ways in that the factory has, and    *)
(* none is followed in a factory with errors.                              *)
ScopeOf(f) == [pipeline : WaysIn(f), within : SUBSET WaysIn(f)]

Judging == factory \in Factory /\ said = Judged(factory)

Framed ==
  /\ Judging
  /\ scope \in Options(ScopeOf(factory))
  /\ awake \subseteq Agents \X Nat
  /\ pending \subseteq Agents \X Agents \X Nat
  /\ Chain => ~said.errors
  /\ ~Chain => (awake = {} /\ pending = {})

(* Whatever runs, some way in that its work came through reaches; and it   *)
(* is what a chain of its own pipeline can wake.                           *)
InReach ==
  \A s \in scope : \A run \in awake :
    /\ \E q \in Through(s) : run[1] \in Reach(factory, q)
    /\ run[1] \in CanWake(factory, s.pipeline)

(* In work that was never set down, whoever runs is as many flights from   *)
(* its pipeline's starts as the hops it no longer has; so is whoever has a *)
(* flight waiting at a barrier, except in a chain where nobody runs yet.   *)
HasHops(s, x) ==
  /\ x[3] > 0 /\ <<x[1], x[2]>> \in Ordinary(factory, s.pipeline)
  /\ x[1] \in Reach(factory, s.pipeline)
  /\ WithinHops(factory, s.pipeline, x[1], x[3] + 1)

InHops ==
  ~rested => \A s \in scope :
    /\ s.within = {}
    /\ \A run \in awake : WithinHops(factory, s.pipeline, run[1], run[2] + 1)
    /\ awake # {} => \A x \in pending : HasHops(s, x)

Judicious == Framed /\ InReach /\ InHops

LEMMA ChainHasScope ==
  ASSUME Framed, Chain
  PROVE  \E s \in ScopeOf(factory) : scope = {s} /\ Here = s
<1>1. PICK s \in ScopeOf(factory) : scope = {s}
  BY DEF Framed, Options, Chain
<1>2. Here = s
  BY <1>1 DEF Here
<1> QED
  BY <1>1, <1>2

(* The scope of resumed work keeps every way in it came through.           *)
LEMMA ScopeTyped ==
  ASSUME NEW f, NEW p \in WaysIn(f), NEW within \in SUBSET WaysIn(f)
  PROVE  /\ Scope(p, within) \in ScopeOf(f)
         /\ Scope(p, within).pipeline = p /\ Scope(p, within).within = within \ {p}
         /\ Through(Scope(p, within)) = {p} \cup within
BY DEF Scope, ScopeOf, Through

LEMMA ThroughWaysIn ==
  ASSUME NEW f, NEW s \in ScopeOf(f)
  PROVE  /\ s.pipeline \in WaysIn(f) /\ s.within \subseteq WaysIn(f)
         /\ Through(s) \subseteq WaysIn(f) /\ s.pipeline \in Through(s)
BY DEF ScopeOf, Through

LEMMA Waking ==
  ASSUME NEW t \in Agents, NEW hops \in Nat
  PROVE  /\ WokenBy(t, hops) \subseteq Agents \X Nat
         /\ \A run \in WokenBy(t, hops) : run[1] = t /\ run[2] + 1 = hops /\ hops > 0
         /\ hops > 0 => WokenBy(t, hops) # {}
<1> DEFINE woken == <<t, hops - 1>>
<1>1. CASE hops > 0
  <2>1. woken \in Agents \X Nat /\ woken[1] = t /\ woken[2] + 1 = hops
    BY <1>1
  <2>2. WokenBy(t, hops) = {woken}
    BY <1>1 DEF WokenBy
  <2> HIDE DEF woken
  <2> QED
    BY <1>1, <2>1, <2>2
<1>2. CASE ~(hops > 0)
  BY <1>2 DEF WokenBy
<1> QED
  BY <1>1, <1>2

(* What a flight that reaches t may change: who it wakes is t, with the    *)
(* hops of this flight or of one that waited there.                        *)
LEMMA Arriving ==
  ASSUME NEW s, NEW from \in Agents, NEW t \in Agents, NEW hops \in Nat,
         NEW runs \in SUBSET (Agents \X Nat),
         NEW waiting \in SUBSET (Agents \X Agents \X Nat),
         Arrives(s, from, t, hops, runs, waiting)
  PROVE  /\ runs \subseteq awake' /\ awake' \subseteq Agents \X Nat
         /\ \A run \in awake' : run \in runs
              \/ /\ run[1] = t
                 /\ run[2] + 1 = hops \/ \E x \in waiting : x[2] = t /\ run[2] + 1 = x[3]
         /\ pending' \subseteq Agents \X Agents \X Nat
         /\ pending' \subseteq waiting \cup {<<from, t, hops>>}
<1> DEFINE now == AfterParking(from, t, hops, waiting)
           new == <<from, t, hops>>
<1>0. new \in Agents \X Agents \X Nat /\ new[2] = t /\ new[3] = hops
  OBVIOUS
<1>1. now \subseteq waiting \cup {new}
  BY DEF AfterParking
<1>2. CASE awake' = runs \cup WokenBy(t, hops) /\ pending' = waiting
  <2>1. \A run \in awake' : run \in runs \/ (run[1] = t /\ run[2] + 1 = hops)
    BY <1>2, Waking
  <2>2. awake' \subseteq Agents \X Nat
    BY <1>2, Waking
  <2> QED
    BY <1>2, <2>1, <2>2
<1>3. CASE awake' = runs /\ pending' = now
  <2> HIDE DEF now, new
  <2>1. pending' \subseteq waiting \cup {new} /\ pending' \subseteq Agents \X Agents \X Nat
    BY <1>0, <1>1, <1>3
  <2> QED
    BY <1>3, <2>1 DEF new
<1>4. ASSUME NEW x \in At(t, now), awake' = runs \cup WokenBy(t, x[3]), pending' = now \ At(t, now)
      PROVE  /\ runs \subseteq awake' /\ awake' \subseteq Agents \X Nat
             /\ \A run \in awake' : run \in runs
                  \/ /\ run[1] = t
                     /\ run[2] + 1 = hops \/ \E y \in waiting : y[2] = t /\ run[2] + 1 = y[3]
             /\ pending' \subseteq Agents \X Agents \X Nat
             /\ pending' \subseteq waiting \cup {<<from, t, hops>>}
  <2>1. x \in now /\ x[2] = t
    BY DEF At
  <2>2. x \in waiting \/ x = new
    BY <1>1, <2>1
  <2>3. x[3] \in Nat
    BY <1>0, <2>2
  <2>4. x[3] = hops \/ \E y \in waiting : y[2] = t /\ x[3] = y[3]
    BY <1>0, <2>1, <2>2
  <2>5. WokenBy(t, x[3]) \subseteq Agents \X Nat
        /\ \A run \in WokenBy(t, x[3]) : run[1] = t /\ run[2] + 1 = x[3]
    BY <2>3, Waking
  <2>6. pending' \subseteq waiting \cup {new}
    BY <1>1, <1>4
  <2>7. pending' \subseteq Agents \X Agents \X Nat
    BY <1>0, <2>6
  <2> HIDE DEF now, new
  <2>8. awake' \subseteq Agents \X Nat /\ runs \subseteq awake'
    BY <1>4, <2>5
  <2>9. ASSUME NEW run \in awake'
        PROVE  run \in runs
               \/ /\ run[1] = t
                  /\ run[2] + 1 = hops \/ \E y \in waiting : y[2] = t /\ run[2] + 1 = y[3]
    BY <1>4, <2>4, <2>5, <2>9
  <2> QED
    BY <2>6, <2>7, <2>8, <2>9 DEF new
<1>5. \/ awake' = runs \cup WokenBy(t, hops) /\ pending' = waiting
      \/ awake' = runs /\ pending' = now
      \/ \E x \in At(t, now) : awake' = runs \cup WokenBy(t, x[3]) /\ pending' = now \ At(t, now)
  BY DEF Arrives
<1> QED
  BY <1>2, <1>3, <1>4, <1>5

(* The first flight of a chain: it waits alone, or leaves nobody waiting.  *)
LEMMA ArrivingAlone ==
  ASSUME NEW s, NEW from, NEW t, NEW hops, Arrives(s, from, t, hops, {}, {})
  PROVE  awake' = {} \/ pending' = {}
<1> DEFINE now == AfterParking(from, t, hops, {})
           new == <<from, t, hops>>
<1>1. now = {new}
  BY DEF AfterParking, At
<1>2. new[2] = t
  OBVIOUS
<1>3. now \ At(t, now) = {}
  BY <1>1, <1>2 DEF At
<1>4. \/ pending' = {}
      \/ awake' = {}
      \/ pending' = now \ At(t, now)
  BY DEF Arrives
<1> QED
  BY <1>3, <1>4

-----------------------------------------------------------------------------
(* One lemma for each action.                                              *)

(* The factory and what was said of it are read, and never change.         *)
LEMMA StaysJudged ==
  ASSUME Judging, CharterNext
  PROVE  /\ Judging' /\ factory' = factory /\ said' = said
         /\ WaysIn(factory)' = WaysIn(factory)
<1>1. factory' = factory /\ said' = said
  BY DEF CharterNext, Trigger, SendFlight, Send, SendSpawn, Resume, Opens, Continues
<1>2. Judged(factory)' = Judged(factory)
  BY <1>1
<1> QED
  BY <1>1, <1>2 DEF Judging

LEMMA TriggerKeeps ==
  ASSUME Judicious, NEW w \in Names(factory), Trigger(w)
  PROVE  Judicious'
<1>0. Judging /\ factory' = factory /\ said' = said
  BY DEF Judicious, Framed, Trigger, Opens
<1>1. w \in WaysIn(factory) /\ factory \in Factory
  BY <1>0 DEF WaysIn, Judging
<1> DEFINE s == Scope(w, {})
           hops == MaxHops(factory, w)
<1>2. s \in ScopeOf(factory) /\ s.pipeline = w /\ s.within = {} /\ Through(s) = {w}
  BY <1>1, ScopeTyped
<1>3. scope' = {s} /\ pending' = pending /\ rested' = rested
  BY DEF Trigger, Opens
<1>4. PICK a \in EntryOf(factory, w) : awake' = WokenBy(a, hops)
  BY DEF Trigger
<1> HIDE DEF s
<1>5. /\ EntryOf(factory, w) \subseteq Agents /\ Starts(factory, w) \subseteq Agents
      /\ hops \in Nat /\ a \in Agents /\ a \in Starts(factory, w)
  BY <1>1, EntryTyped DEF Starts
<1>6. awake' \subseteq Agents \X Nat /\ \A run \in awake' : run[1] = a /\ run[2] + 1 = hops
  BY <1>4, <1>5, Waking
<1>7. a \in Reach(factory, w) /\ a \in CanWake(factory, w)
  BY <1>5, StartsAreReached, CanWakeEntries
<1>8. WithinHops(factory, w, a, hops)
  BY <1>5, NearAtStart
<1>9. pending' = {} /\ ~said.errors
  BY <1>3 DEF Trigger, Judicious, Framed
<1>10. Framed'
  BY <1>0, <1>2, <1>3, <1>6, <1>9 DEF Framed, Judging, Options, Chain, ScopeOf, WaysIn, Names
<1>11. InReach'
  BY <1>0, <1>2, <1>3, <1>6, <1>7 DEF InReach
<1>12. InHops'
  BY <1>0, <1>2, <1>3, <1>6, <1>8, <1>9 DEF InHops
<1> QED
  BY <1>10, <1>11, <1>12 DEF Judicious

LEMMA SendFlightKeeps ==
  ASSUME Judicious, NEW a \in Agents, SendFlight(a)
  PROVE  Judicious'
<1>0. Judging /\ factory' = factory /\ said' = said
  BY DEF Judicious, Framed, SendFlight, Opens
<1>1. NoWorkflow \in WaysIn(factory) /\ factory \in Factory
  BY <1>0 DEF WaysIn, Judging
<1> DEFINE s == Scope(NoWorkflow, {})
           hops == MaxHops(factory, NoWorkflow)
<1>2. s \in ScopeOf(factory) /\ s.pipeline = NoWorkflow /\ s.within = {} /\ Through(s) = {NoWorkflow}
  BY <1>1, ScopeTyped
<1>3. scope' = {s} /\ pending' = pending /\ rested' = rested
  BY DEF SendFlight, Opens
<1>4. a \in EntryOf(factory, NoWorkflow) /\ awake' = WokenBy(a, hops)
  BY DEF SendFlight
<1> HIDE DEF s
<1>5. /\ EntryOf(factory, NoWorkflow) \subseteq Agents /\ Starts(factory, NoWorkflow) \subseteq Agents
      /\ hops \in Nat /\ a \in Starts(factory, NoWorkflow)
  BY <1>1, <1>4, EntryTyped DEF Starts
<1>6. awake' \subseteq Agents \X Nat /\ \A run \in awake' : run[1] = a /\ run[2] + 1 = hops
  BY <1>4, <1>5, Waking
<1>7. a \in Reach(factory, NoWorkflow) /\ a \in CanWake(factory, NoWorkflow)
  BY <1>4, <1>5, StartsAreReached, CanWakeEntries
<1>8. WithinHops(factory, NoWorkflow, a, hops)
  BY <1>5, NearAtStart
<1>9. pending' = {} /\ ~said.errors
  BY <1>3 DEF SendFlight, Judicious, Framed
<1>10. Framed'
  BY <1>0, <1>2, <1>3, <1>6, <1>9 DEF Framed, Judging, Options, Chain, ScopeOf, WaysIn, Names
<1>11. InReach'
  BY <1>0, <1>2, <1>3, <1>6, <1>7 DEF InReach
<1>12. InHops'
  BY <1>0, <1>2, <1>3, <1>6, <1>8, <1>9 DEF InHops
<1> QED
  BY <1>10, <1>11, <1>12 DEF Judicious

(* Where an edge that the whole scope permits leads, the work can go.      *)
LEMMA EdgeTaken ==
  ASSUME Framed, InReach, Chain, NEW a, NEW hops, NEW b,
         <<a, hops>> \in awake, <<a, b>> \in Permitted(Here)
  PROVE  /\ a \in Agents /\ b \in Agents /\ hops \in Nat
         /\ \E q \in Through(Here) : a \in Reach(factory, q) /\ b \in Reach(factory, q)
         /\ b \in CanWake(factory, Here.pipeline)
<1>1. PICK s \in ScopeOf(factory) : scope = {s} /\ Here = s
  BY ChainHasScope
<1>2. factory \in Factory /\ awake \subseteq Agents \X Nat
  BY DEF Framed, Judging
<1> DEFINE e == <<a, b>>
<1>3. e \in Edges(factory, s.pipeline) /\ \A q \in s.within : e \in Edges(factory, q)
  BY <1>1 DEF Permitted
<1>4. \A q \in Through(s) : q \in WaysIn(factory) /\ e \in Edges(factory, q)
  BY <1>3, ThroughWaysIn DEF Through
<1>5. a \in Agents /\ b \in Agents /\ hops \in Nat
  BY <1>2, <1>3, EdgesTyped
<1>6. \E q \in Through(s) : a \in Reach(factory, q)
  <2> DEFINE run == <<a, hops>>
  <2>1. run \in awake /\ run[1] = a
    OBVIOUS
  <2> HIDE DEF run
  <2> QED
    BY <1>1, <2>1 DEF InReach
<1>7. a \in CanWake(factory, s.pipeline)
  <2> DEFINE run == <<a, hops>>
  <2>1. run \in awake /\ run[1] = a
    OBVIOUS
  <2> HIDE DEF run
  <2> QED
    BY <1>1, <2>1 DEF InReach
<1>8. PICK q \in Through(s) : a \in Reach(factory, q)
  BY <1>6
<1>9. b \in Reach(factory, q)
  BY <1>2, <1>4, <1>8, ReachGoesOn, EntryTyped
<1>10. b \in CanWake(factory, s.pipeline)
  BY <1>2, <1>3, <1>7, CanWakeGoesOn
<1> QED
  BY <1>1, <1>5, <1>8, <1>9, <1>10

LEMMA SendKeeps ==
  ASSUME Judicious, NEW a, NEW hops, NEW b \in Agents, Send(a, hops, b)
  PROVE  Judicious'
<1>0. Judging /\ Framed /\ Chain /\ factory' = factory /\ said' = said
  BY DEF Judicious, Framed, Send, Continues
<1>1. PICK s \in ScopeOf(factory) : scope = {s} /\ Here = s
  BY <1>0, ChainHasScope
<1>2. scope' = scope /\ rested' = rested
  BY DEF Send, Continues
<1>3. factory \in Factory /\ s.pipeline \in WaysIn(factory)
  BY <1>0, ThroughWaysIn DEF Judging
<1>4. /\ a \in Agents /\ hops \in Nat
      /\ \E q \in Through(s) : a \in Reach(factory, q) /\ b \in Reach(factory, q)
      /\ b \in CanWake(factory, s.pipeline)
  BY <1>0, <1>1, EdgeTaken DEF Send, Judicious
<1> DEFINE new == <<a, b, hops>>
<1>5. /\ awake \subseteq awake' /\ awake' \subseteq Agents \X Nat
      /\ \A run \in awake' : run \in awake
           \/ /\ run[1] = b
              /\ run[2] + 1 = hops \/ \E x \in pending : x[2] = b /\ run[2] + 1 = x[3]
      /\ pending' \subseteq Agents \X Agents \X Nat
      /\ pending' \subseteq pending \cup {new}
  <2>1. Arrives(s, a, b, hops, awake, pending)
    BY <1>1 DEF Send
  <2>2. awake \in SUBSET (Agents \X Nat) /\ pending \in SUBSET (Agents \X Agents \X Nat)
    BY <1>0 DEF Framed
  <2> QED
    BY <1>4, <2>1, <2>2, Arriving
<1>6. Framed'
  <2>1. scope' \in Options(ScopeOf(factory))' /\ Chain' /\ ~said'.errors
    BY <1>0, <1>2 DEF Framed, Options, Chain, ScopeOf, WaysIn, Names
  <2>2. Judging'
    BY <1>0 DEF Judging
  <2> QED
    BY <1>5, <2>1, <2>2 DEF Framed
<1>7. InReach'
  <2>1. ASSUME NEW run \in awake'
        PROVE  /\ \E q \in Through(s) : run[1] \in Reach(factory, q)
               /\ run[1] \in CanWake(factory, s.pipeline)
    BY <1>1, <1>4, <1>5 DEF Judicious, InReach
  <2> QED
    BY <1>0, <1>1, <1>2, <2>1 DEF InReach
<1>8. ASSUME ~rested PROVE /\ s.within = {}
                           /\ \A run \in awake' : WithinHops(factory, s.pipeline, run[1], run[2] + 1)
                           /\ \A x \in pending' : HasHops(s, x)
  <2> DEFINE Near(x, n) == WithinHops(factory, s.pipeline, x, n)
  <2>1. /\ s.within = {} /\ \A run \in awake : Near(run[1], run[2] + 1)
        /\ \A x \in pending : HasHops(s, x)
    BY <1>1, <1>8 DEF Judicious, InHops, Send
  <2>2. hops > 0 /\ <<a, b>> \in Ordinary(factory, s.pipeline)
    BY <1>1 DEF Send, Permitted, IsSpawn, Ordinary
  <2>3. a \in Reach(factory, s.pipeline)
    BY <1>4, <2>1 DEF Through
  <2>4. Near(a, hops + 1)
    <3> DEFINE run == <<a, hops>>
    <3>1. run \in awake /\ run[1] = a /\ run[2] = hops
      BY DEF Send
    <3> HIDE DEF run
    <3> QED
      BY <2>1, <3>1
  <2>5. MaxHops(factory, s.pipeline) \in Nat
    BY <1>3, EntryTyped
  <2>6. Near(b, hops)
    BY <1>4, <2>2, <2>4, <2>5, NearGoesOn
  <2>7. ASSUME NEW x \in pending, x[2] = b PROVE Near(b, x[3])
    <3>1. x[3] \in Nat
      BY <1>0 DEF Framed
    <3>2. <<x[1], b>> \in Ordinary(factory, s.pipeline) /\ Near(x[1], x[3] + 1)
      BY <2>1, <2>7 DEF HasHops
    <3> QED
      BY <2>5, <3>1, <3>2, NearGoesOn
  <2>8. HasHops(s, new)
    <3>1. new[1] = a /\ new[2] = b /\ new[3] = hops
      OBVIOUS
    <3> HIDE DEF new
    <3> QED
      BY <2>2, <2>3, <2>4, <3>1 DEF HasHops
  <2> HIDE DEF Near, new
  <2>9. \A run \in awake' : Near(run[1], run[2] + 1)
    BY <1>5, <2>1, <2>6, <2>7
  <2>10. \A x \in pending' : HasHops(s, x)
    BY <1>5, <2>1, <2>8
  <2> QED
    BY <2>1, <2>9, <2>10 DEF Near
<1>9. InHops'
  <2>1. \A x : HasHops(s, x) => HasHops(s, x)'
    BY <1>0 DEF HasHops
  <2> QED
    BY <1>0, <1>1, <1>2, <1>8, <2>1 DEF InHops
<1> QED
  BY <1>6, <1>7, <1>9 DEF Judicious

LEMMA SendSpawnKeeps ==
  ASSUME Judicious, NEW a, NEW hops, NEW b \in Agents, SendSpawn(a, hops, b)
  PROVE  Judicious'
<1>0. Judging /\ Framed /\ Chain /\ factory' = factory /\ said' = said
  BY DEF Judicious, Framed, SendSpawn, Opens
<1>1. PICK s \in ScopeOf(factory) : scope = {s} /\ Here = s
  BY <1>0, ChainHasScope
<1>2. scope' = {s} /\ rested' = rested
  BY <1>1 DEF SendSpawn, Opens
<1> DEFINE more == MaxHops(factory, s.pipeline)
<1>3. factory \in Factory /\ s.pipeline \in WaysIn(factory) /\ more \in Nat
      /\ Starts(factory, s.pipeline) \subseteq Agents
  BY <1>0, ThroughWaysIn, EntryTyped DEF Judging
<1>4. /\ a \in Agents /\ hops \in Nat
      /\ \E q \in Through(s) : a \in Reach(factory, q) /\ b \in Reach(factory, q)
      /\ b \in CanWake(factory, s.pipeline)
  BY <1>0, <1>1, EdgeTaken DEF SendSpawn, Judicious
<1>5. Arrives(s, a, b, more, {}, {})
  BY <1>1 DEF SendSpawn
<1> HIDE DEF more
<1>6. /\ awake' \subseteq Agents \X Nat /\ \A run \in awake' : run[1] = b /\ run[2] + 1 = more
      /\ pending' \subseteq Agents \X Agents \X Nat
  <2>1. PICK runs \in SUBSET (Agents \X Nat), waiting \in SUBSET (Agents \X Agents \X Nat) :
          runs = {} /\ waiting = {}
    OBVIOUS
  <2>2. Arrives(s, a, b, more, runs, waiting)
    BY <1>5, <2>1
  <2>3. /\ awake' \subseteq Agents \X Nat
        /\ \A run \in awake' : run \in runs
              \/ /\ run[1] = b
                 /\ run[2] + 1 = more \/ \E x \in waiting : x[2] = b /\ run[2] + 1 = x[3]
        /\ pending' \subseteq Agents \X Agents \X Nat
    BY <1>3, <1>4, <2>2, Arriving
  <2> QED
    BY <2>1, <2>3
<1>7. awake' = {} \/ pending' = {}
  BY <1>5, ArrivingAlone
<1>8. WithinHops(factory, s.pipeline, b, more)
  <2>1. <<a, b>> \in Spawns(factory, s.pipeline)
    BY <1>1 DEF SendSpawn, IsSpawn
  <2> DEFINE e == <<a, b>>
  <2>2. e \in Spawns(factory, s.pipeline) /\ e[2] = b
    BY <2>1
  <2> HIDE DEF e
  <2>3. b \in Starts(factory, s.pipeline)
    BY <2>2 DEF Starts, SpawnTargets
  <2> QED
    BY <1>3, <2>3, NearAtStart DEF more
<1>9. Framed'
  <2>1. scope' \in Options(ScopeOf(factory))' /\ Chain' /\ ~said'.errors
    BY <1>0, <1>2 DEF Framed, Options, Chain, ScopeOf, WaysIn, Names
  <2>2. Judging'
    BY <1>0 DEF Judging
  <2> QED
    BY <1>6, <2>1, <2>2 DEF Framed
<1>10. InReach'
  BY <1>0, <1>2, <1>4, <1>6 DEF InReach
<1>11. InHops'
  <2>1. ASSUME ~rested PROVE s.within = {}
    BY <1>1, <2>1 DEF Judicious, InHops
  <2>2. \A run \in awake' : WithinHops(factory, s.pipeline, run[1], run[2] + 1)
    BY <1>6, <1>8
  <2> QED
    BY <1>0, <1>2, <1>7, <2>1, <2>2 DEF InHops
<1> QED
  BY <1>9, <1>10, <1>11 DEF Judicious

LEMMA ResumeKeeps ==
  ASSUME Judicious, NEW a, NEW hops, NEW w \in Names(factory), Resume(a, hops, w)
  PROVE  Judicious'
<1>0. Judging /\ Framed /\ Chain /\ factory' = factory /\ said' = said
  BY DEF Judicious, Framed, Resume, Opens
<1>1. PICK s \in ScopeOf(factory) : scope = {s} /\ Here = s
  BY <1>0, ChainHasScope
<1> DEFINE next == Scope(w, Through(s))
           more == MaxHops(factory, w)
<1>2. scope' = {next} /\ rested' = TRUE /\ pending' = {}
  BY <1>1 DEF Resume, Opens
<1>3. factory \in Factory /\ w \in WaysIn(factory) /\ more \in Nat
      /\ EntryOf(factory, w) \subseteq Agents
  BY <1>0, EntryTyped DEF Judging, WaysIn
<1>4. Through(s) \subseteq WaysIn(factory) /\ s.pipeline \in WaysIn(factory)
  BY ThroughWaysIn
<1>5. next \in ScopeOf(factory) /\ next.pipeline = w /\ Through(next) = {w} \cup Through(s)
  BY <1>3, <1>4, ScopeTyped
<1> HIDE DEF next
<1>6. /\ a \in Agents /\ a \in CanWake(factory, s.pipeline)
      /\ \E q \in Through(s) : a \in Reach(factory, q)
  <2> DEFINE run == <<a, hops>>
  <2>1. run \in awake /\ run[1] = a
    BY DEF Resume
  <2> HIDE DEF run
  <2> QED
    BY <1>0, <1>1, <2>1 DEF Judicious, InReach, Framed
<1>7. a \in CanWake(factory, w)
  <2>1. w \in Resuming(factory)
    BY DEF Resume
  <2> QED
    BY <1>3, <1>4, <1>6, <2>1, WokenAnywhere, CanWakeResumed
<1>8. awake' \subseteq Agents \X Nat /\ \A run \in awake' : run[1] = a
  BY <1>3, <1>6, Waking DEF Resume
<1>9. Framed'
  <2>1. scope' \in Options(ScopeOf(factory))' /\ Chain' /\ ~said'.errors
    BY <1>0, <1>2, <1>5 DEF Framed, Options, Chain, ScopeOf, WaysIn, Names
  <2>2. Judging'
    BY <1>0 DEF Judging
  <2> QED
    BY <1>2, <1>8, <2>1, <2>2 DEF Framed
<1>10. InReach'
  BY <1>0, <1>2, <1>5, <1>6, <1>7, <1>8 DEF InReach
<1>11. InHops'
  BY <1>2 DEF InHops
<1> QED
  BY <1>9, <1>10, <1>11 DEF Judicious

-----------------------------------------------------------------------------
LEMMA InitJudicious == CharterInit => Judicious
<1> SUFFICES ASSUME CharterInit PROVE Judicious
  OBVIOUS
<1>1. PICK f \in Factories : factory = Read(f)
  BY DEF CharterInit
<1>2. factory \in Factory
  BY <1>1, CharterAssumption, ReadTyped
<1>3. Judging
  BY <1>2 DEF CharterInit, Judging
<1>4. scope = {} /\ awake = {} /\ pending = {}
  BY DEF CharterInit
<1> QED
  BY <1>3, <1>4 DEF Judicious, Framed, InReach, InHops, Options, Chain

LEMMA StepJudicious == Judicious /\ [CharterNext]_charterVars => Judicious'
<1> SUFFICES ASSUME Judicious, [CharterNext]_charterVars PROVE Judicious'
  OBVIOUS
<1>1. CASE UNCHANGED charterVars
  <2>1. /\ factory' = factory /\ said' = said /\ scope' = scope /\ rested' = rested
        /\ awake' = awake /\ pending' = pending
    BY <1>1 DEF charterVars
  <2>2. Framed'
    BY <2>1 DEF Judicious, Framed, Judging, Chain, ScopeOf, WaysIn, Names
  <2>3. InReach'
    BY <2>1 DEF Judicious, InReach
  <2>4. InHops'
    BY <2>1 DEF Judicious, InHops, HasHops
  <2> QED
    BY <2>2, <2>3, <2>4 DEF Judicious
<1>2. CASE CharterNext
  BY <1>2, TriggerKeeps, SendFlightKeeps, SendKeeps, SendSpawnKeeps, ResumeKeeps DEF CharterNext
<1> QED
  BY <1>1, <1>2

(* What validation computes of the reach of a factory is kept true by      *)
(* whatever its chains do: they go no further than the graph that reach.rs *)
(* and scopes.rs walk, and no further than their hops.                     *)
THEOREM ChainsAreJudged == CharterSpec => []Judicious
<1>1. CharterInit => Judicious
  BY InitJudicious
<1>2. Judicious /\ [CharterNext]_charterVars => Judicious'
  BY StepJudicious
<1> QED
  BY <1>1, <1>2, PTL DEF CharterSpec

LEMMA ScopeStaysTyped ==
  CharterTypeOK /\ Judicious' /\ [CharterNext]_charterVars => CharterTypeOK'
<1> SUFFICES ASSUME CharterTypeOK, Judicious', [CharterNext]_charterVars PROVE CharterTypeOK'
  OBVIOUS
<1>1. opening' \in {"none", "triggered", "sent", "spawned", "resumed"} /\ rested' \in BOOLEAN
  BY DEF CharterTypeOK, CharterNext, charterVars, Trigger, SendFlight, Send, SendSpawn, Resume,
         Opens, Continues
<1> QED
  BY <1>1 DEF CharterTypeOK, Judicious, Framed, Judging, ScopeOf

(* What is read is a factory, its chain has a scope of its own ways in and *)
(* every run and flight keeps its agents and hops.                         *)
THEOREM CharterTypeCorrect == CharterSpec => []CharterTypeOK
<1>1. CharterInit => CharterTypeOK
  <2> SUFFICES ASSUME CharterInit PROVE CharterTypeOK
    OBVIOUS
  <2>1. Judicious
    BY InitJudicious
  <2> QED
    BY <2>1 DEF CharterInit, CharterTypeOK, Judicious, Framed, Judging, ScopeOf
<1>2. CharterTypeOK /\ Judicious' /\ [CharterNext]_charterVars => CharterTypeOK'
  BY ScopeStaysTyped
<1>3. CharterSpec => []Judicious
  BY ChainsAreJudged
<1> QED
  BY <1>1, <1>2, <1>3, PTL DEF CharterSpec

-----------------------------------------------------------------------------
(* Nobody runs who was said to be out of reach.                            *)
LEMMA ReachedWereSaid == Judicious => OutOfReachIsNeverWoken
<1> SUFFICES ASSUME Judicious, NEW run \in awake
             PROVE  run[1] \notin said.unreached /\ (~rested => run[1] \notin said.cut)
  BY DEF OutOfReachIsNeverWoken
<1>1. Chain /\ Judging /\ Framed /\ run \in Agents \X Nat
  BY DEF Judicious, Framed
<1>2. PICK s \in ScopeOf(factory) : scope = {s}
  BY <1>1, ChainHasScope
<1>3. said.unreached = OutOfReach(factory) /\ said.cut = CutShort(factory)
  BY <1>1 DEF Judging, Judged
<1>4. run[1] \notin OutOfReach(factory)
  <2>1. PICK q \in Through(s) : run[1] \in Reach(factory, q)
    BY <1>2 DEF Judicious, InReach
  <2> QED
    BY <2>1, ThroughWaysIn DEF OutOfReach
<1>5. ASSUME ~rested PROVE run[1] \notin CutShort(factory)
  <2>1. WithinHops(factory, s.pipeline, run[1], run[2] + 1)
    BY <1>2, <1>5 DEF Judicious, InHops
  <2>2. s.pipeline \in WaysIn(factory) /\ MaxHops(factory, s.pipeline) \in Nat
    BY <1>1, ThroughWaysIn, EntryTyped DEF Judging
  <2>3. run[2] + 1 \in Nat /\ 1 <= run[2] + 1
    BY <1>1
  <2>4. WithinHops(factory, s.pipeline, run[1], 1)
    BY <2>1, <2>2, <2>3, NearEnough
  <2> QED
    BY <2>2, <2>4 DEF CutShort
<1> QED
  BY <1>3, <1>4, <1>5

(* An agent that validation says no entry point reaches is never woken, by *)
(* no chain, spawn or layover, in any factory with any routes; and one     *)
(* said to be cut off by the hops is woken by no work that was never set   *)
(* down (reach.rs).                                                        *)
THEOREM OutOfReachStaysAsleep == CharterSpec => []OutOfReachIsNeverWoken
<1>1. CharterSpec => []Judicious
  BY ChainsAreJudged
<1>2. Judicious => OutOfReachIsNeverWoken
  BY ReachedWereSaid
<1> QED
  BY <1>1, <1>2, PTL

LEMMA WhoWakesWasKnown == Judicious => UnusableIsNeverUsed
<1> SUFFICES ASSUME Judicious, NEW s \in scope, NEW run \in awake,
                    NEW i \in DOMAIN factory.routes, <<i, run[1]>> \in said.unusable,
                    s.pipeline \in factory.routes[i].pipelines
             PROVE  FALSE
  BY DEF UnusableIsNeverUsed
<1>1. Framed /\ Judging
  BY DEF Judicious, Framed
<1>2. factory \in Factory /\ said.unusable = Unusable(factory)
  BY <1>1 DEF Judging, Judged
<1>3. s \in ScopeOf(factory)
  BY <1>1 DEF Framed, Options
<1>4. s.pipeline \in Names(factory)
  <2>1. factory.routes[i] \in Route
    BY <1>2, FactoryParts
  <2>2. s.pipeline \in Workflows
    BY <2>1 DEF Route
  <2> QED
    BY <1>3, <2>2, CharterAssumption DEF ScopeOf, WaysIn
<1> DEFINE x == <<i, run[1]>>
<1>5. x \in Unusable(factory) /\ x[1] = i /\ x[2] = run[1]
  BY <1>2
<1> HIDE DEF x
<1>6. \A p \in factory.routes[i].pipelines \cap Names(factory) : run[1] \notin CanWake(factory, p)
  BY <1>5 DEF Unusable
<1>7. run[1] \in CanWake(factory, s.pipeline)
  BY DEF Judicious, InReach
<1> QED
  BY <1>4, <1>6, <1>7

(* A sender whose scoped route validation calls unusable never runs in a   *)
(* chain of that scope, whatever the workflows resume from each other      *)
(* (scopes.rs).                                                            *)
THEOREM UnusableStaysUnused == CharterSpec => []UnusableIsNeverUsed
<1>1. CharterSpec => []Judicious
  BY ChainsAreJudged
<1>2. Judicious => UnusableIsNeverUsed
  BY WhoWakesWasKnown
<1> QED
  BY <1>1, <1>2, PTL

-----------------------------------------------------------------------------
(* An agent has one barrier in a chain.                                    *)
LEMMA OneJoin ==
  ASSUME NEW f \in Factory, NEW p, NEW t, NEW q \in JoinFor(f, p, t), NEW r \in JoinFor(f, p, t)
  PROVE  q = r
<1>1. PICK i \in JoinRoutes(f, p, t) : q = f.routes[i] /\ \A k \in JoinRoutes(f, p, t) : k <= i
  BY DEF JoinFor
<1>2. PICK j \in JoinRoutes(f, p, t) : r = f.routes[j] /\ \A k \in JoinRoutes(f, p, t) : k <= j
  BY DEF JoinFor
<1>3. i \in Nat /\ j \in Nat
  <2>1. f.routes \in Seq(Route)
    BY FactoryParts
  <2> QED
    BY <2>1 DEF JoinRoutes, Applying
<1>4. i <= j /\ j <= i
  BY <1>1, <1>2
<1> QED
  BY <1>1, <1>2, <1>3, <1>4

LEMMA ReleasesWereSaid ==
  ASSUME Judicious, NEW run \in awake, NEW t \in Agents, Send(run[1], run[2], t), ~rested,
         Holds(Here, run[1], t), At(t, pending') = {}, NEW u \in Awaited(Here, t)
  PROVE  <<t, u>> \notin said.unfillable
<1>1. Chain /\ Judging /\ Framed /\ factory \in Factory /\ run \in Agents \X Nat
  BY DEF Judicious, Framed, Judging
<1>2. PICK s \in ScopeOf(factory) : scope = {s} /\ Here = s
  BY <1>1, ChainHasScope
<1>3. s.pipeline \in WaysIn(factory) /\ MaxHops(factory, s.pipeline) \in Nat
  BY <1>1, ThroughWaysIn, EntryTyped
<1> DEFINE now == AfterParking(run[1], t, run[2], pending)
           new == <<run[1], t, run[2]>>
<1>4. new \in now /\ now \subseteq pending \cup {new} /\ new[2] = t
  BY DEF AfterParking
<1>5. {x[1] : x \in At(t, now)} = Awaited(s, t)
  <2>1. \/ pending' = now
        \/ {x[1] : x \in At(t, now)} = Awaited(s, t)
    BY <1>2 DEF Send, Arrives
  <2>2. new \in At(t, now)
    BY <1>4 DEF At
  <2> HIDE DEF now, new
  <2> QED
    BY <2>1, <2>2
<1>6. PICK x \in At(t, now) : x[1] = u
  BY <1>2, <1>5
<1> HIDE DEF now
(* Every flight in the wave has the hops to be there.                      *)
<1>8. /\ u \in Reach(factory, s.pipeline)
      /\ \E more \in Nat : 2 <= more /\ WithinHops(factory, s.pipeline, u, more)
  <2>1. s.within = {} /\ WithinHops(factory, s.pipeline, run[1], run[2] + 1)
        /\ \A y \in pending : HasHops(s, y)
    BY <1>2 DEF Judicious, InHops
  <2>2. x \in now
    BY DEF At
  <2>3. CASE x \in pending
    <3>1. x[3] \in Nat /\ HasHops(s, x)
      BY <1>1, <2>1, <2>3 DEF Framed
    <3>2. x[3] + 1 \in Nat /\ 2 <= x[3] + 1
      BY <3>1 DEF HasHops
    <3> QED
      BY <1>6, <3>1, <3>2 DEF HasHops
  <2>4. CASE x = new
    <3>1. u = run[1]
      BY <1>6, <2>4
    <3>2. run[2] \in Nat /\ run[2] > 0
      BY <1>1 DEF Send
    <3>3. run[2] + 1 \in Nat /\ 2 <= run[2] + 1
      BY <3>2
    <3>4. run[1] \in Reach(factory, s.pipeline)
      BY <1>2, <2>1 DEF Judicious, InReach, Through
    <3> QED
      BY <2>1, <3>1, <3>3, <3>4
  <2> QED
    BY <1>4, <2>2, <2>3, <2>4
<1>9. WithinHops(factory, s.pipeline, u, 2)
  BY <1>3, <1>8, NearEnough
<1>10. s.pipeline \in Waiting(factory, t, u)
  <2>1. PICK r \in JoinFor(factory, s.pipeline, t) : u \in r.from
    BY <1>2 DEF Awaited
  <2>2. r.join = "all"
    BY <1>1, <1>2, <2>1, OneJoin DEF Holds
  <2> QED
    BY <1>3, <1>8, <2>1, <2>2 DEF Waiting
<1> DEFINE pair == <<t, u>>
<1>11. pair[1] = t /\ pair[2] = u
  OBVIOUS
<1> HIDE DEF pair
<1>12. pair \notin Unfillable(factory)
  BY <1>9, <1>10, <1>11 DEF Unfillable
<1>13. said.unfillable = Unfillable(factory)
  BY <1>1 DEF Judging, Judged
<1> QED
  BY <1>12, <1>13 DEF pair

(* A barrier said to be out of reach of an upstream never releases in work *)
(* that was never set down: every flight of the wave needs hops to be      *)
(* there, and validation counts the same ones (reach.rs).                  *)
THEOREM UnfillableStaysClosed == CharterSpec => UnfillableNeverReleases
<1> DEFINE Release ==
      \A run \in awake : \A t \in Agents :
        Send(run[1], run[2], t) /\ ~rested /\ Holds(Here, run[1], t) /\ At(t, pending') = {}
        => \A u \in Awaited(Here, t) : <<t, u>> \notin said.unfillable
<1>1. Judicious => Release
  BY ReleasesWereSaid
<1>2. CharterSpec => []Judicious
  BY ChainsAreJudged
<1>3. UnfillableNeverReleases <=> [][Release]_charterVars
  BY DEF UnfillableNeverReleases
<1> HIDE DEF Release
<1> QED
  BY <1>1, <1>2, <1>3, PTL

-----------------------------------------------------------------------------
(* In a factory without errors, where a route spawns no other that the     *)
(* same chain meets joins the same two agents, or both are global.         *)
LEMMA SpawnsPassBarriers ==
  ASSUME NEW f \in Factory, ~HasErrors(f), LeftAlone(f) = {}, NEW p, NEW a, NEW b,
         <<a, b>> \in Spawns(f, p)
  PROVE  ~\E r \in JoinFor(f, p, b) : r.join = "all" /\ a \in r.from
<1> SUFFICES ASSUME NEW r \in JoinFor(f, p, b), r.join = "all", a \in r.from
             PROVE  FALSE
  OBVIOUS
<1>1. PICK i \in Applying(f, p) : f.routes[i].spawn /\ <<a, b>> \in Pairs(f.routes[i])
  BY DEF Spawns
<1>2. PICK k \in Applying(f, p) : r = f.routes[k] /\ b \in f.routes[k].to
  BY DEF JoinFor, JoinRoutes
<1>3. /\ i \in DOMAIN f.routes /\ k \in DOMAIN f.routes
      /\ AppliesTo(f.routes[i], p) /\ AppliesTo(f.routes[k], p)
  BY <1>1, <1>2 DEF Applying
<1>4. ~f.routes[k].spawn
  BY <1>2, <1>3 DEF HasErrors, BadJoins
<1>5. i # k
  BY <1>1, <1>4
<1>6. <<a, b>> \in Pairs(f.routes[k])
  BY <1>2 DEF Pairs
<1>7. SpawnsBesides(f.routes[i], f.routes[k])
  BY <1>1, <1>4, <1>6 DEF SpawnsBesides
<1> DEFINE x == <<i, k>>
<1>8. x \in (DOMAIN f.routes) \X (DOMAIN f.routes) /\ x[1] = i /\ x[2] = k
  BY <1>3
<1> HIDE DEF x
<1>9. CASE ~f.routes[i].scoped /\ ~f.routes[k].scoped
  <2>1. x \in LeftAlone(f)
    BY <1>5, <1>7, <1>8, <1>9 DEF LeftAlone
  <2> QED
    BY <2>1
<1>10. CASE f.routes[i].scoped \/ f.routes[k].scoped
  <2>1. Overlaps(f.routes[i], f.routes[k])
    BY <1>3 DEF Overlaps, AppliesTo
  <2>2. Compared(f.routes[i], f.routes[k])
    BY <1>10, <2>1 DEF Compared
  <2>3. x \in Disagreeing(f)
    BY <1>5, <1>7, <1>8, <2>2 DEF Disagreeing
  <2> QED
    BY <2>3 DEF HasErrors
<1> QED
  BY <1>9, <1>10

LEMMA SomebodyWakes ==
  ASSUME 0 \notin Hops, NEW f \in Factory, NEW p \in WaysIn(f), NEW a
  PROVE  WokenBy(a, MaxHops(f, p)) # {}
<1>1. MaxHops(f, p) \in Hops /\ MaxHops(f, p) \in Nat
  BY EntryTyped
<1>2. MaxHops(f, p) > 0
  BY <1>1
<1> QED
  BY <1>2 DEF WokenBy

LEMMA StepNotStillborn ==
  ASSUME 0 \notin Hops, Judicious, NoChainIsStillborn, [CharterNext]_charterVars
  PROVE  NoChainIsStillborn'
<1>0. Judging /\ Framed /\ factory \in Factory
  BY DEF Judicious, Framed, Judging
<1>1. CASE UNCHANGED charterVars
  BY <1>1 DEF charterVars, NoChainIsStillborn, Chain
<1>2. ASSUME NEW w \in Names(factory), Trigger(w) PROVE NoChainIsStillborn'
  <2>1. w \in WaysIn(factory)
    BY DEF WaysIn
  <2>2. awake' # {}
    BY <1>0, <1>2, <2>1, SomebodyWakes DEF Trigger
  <2> QED
    BY <2>2 DEF NoChainIsStillborn
<1>3. ASSUME NEW a \in Agents, SendFlight(a) PROVE NoChainIsStillborn'
  <2>1. NoWorkflow \in WaysIn(factory)
    BY DEF WaysIn
  <2>2. awake' # {}
    BY <1>0, <1>3, <2>1, SomebodyWakes DEF SendFlight
  <2> QED
    BY <2>2 DEF NoChainIsStillborn
<1>4. ASSUME NEW run \in awake, NEW b \in Agents, Send(run[1], run[2], b)
      PROVE  NoChainIsStillborn'
  <2>1. awake \subseteq awake'
    BY <1>4 DEF Send, Arrives
  <2> QED
    BY <2>1 DEF NoChainIsStillborn
<1>5. ASSUME NEW run \in awake, NEW b \in Agents, SendSpawn(run[1], run[2], b),
             LeftAlone(factory)' = {}
      PROVE  awake' # {}
  <2>1. Chain /\ factory' = factory
    BY <1>5 DEF SendSpawn, Opens
  <2>2. PICK s \in ScopeOf(factory) : scope = {s} /\ Here = s
    BY <1>0, <2>1, ChainHasScope
  <2>3. ~HasErrors(factory) /\ LeftAlone(factory) = {}
    BY <1>0, <1>5, <2>1 DEF Framed, Judging, Judged
  <2>4. <<run[1], b>> \in Spawns(factory, s.pipeline)
    BY <1>5, <2>2 DEF SendSpawn, IsSpawn
  <2>5. ~Holds(s, run[1], b)
    BY <1>0, <2>3, <2>4, SpawnsPassBarriers DEF Holds
  <2>6. Arrives(s, run[1], b, MaxHops(factory, s.pipeline), {}, {})
    BY <1>5, <2>2 DEF SendSpawn
  <2>7. awake' = WokenBy(b, MaxHops(factory, s.pipeline))
    BY <2>5, <2>6 DEF Arrives
  <2> QED
    BY <1>0, <2>2, <2>7, SomebodyWakes, ThroughWaysIn
<1>6. ASSUME NEW run \in awake, NEW w \in Names(factory), Resume(run[1], run[2], w)
      PROVE  NoChainIsStillborn'
  <2>1. w \in WaysIn(factory)
    BY DEF WaysIn
  <2>2. awake' # {}
    BY <1>0, <1>6, <2>1, SomebodyWakes DEF Resume
  <2> QED
    BY <2>2 DEF NoChainIsStillborn
<1>7. CASE CharterNext
  BY <1>2, <1>3, <1>4, <1>5, <1>6, <1>7 DEF CharterNext, NoChainIsStillborn
<1> QED
  BY <1>1, <1>7

(* In a factory without errors no chain is opened only to wait at a        *)
(* barrier for agents that are not in it, unless two global routes         *)
(* disagree, which scopes.rs leaves as it was.  A workflow whose max_hops  *)
(* is zero is refused by validate/pipelines.rs; the default is not, and    *)
(* with that nothing starts at all.                                        *)
THEOREM NoChainStartsStillborn ==
  ASSUME 0 \notin Hops
  PROVE  CharterSpec => []NoChainIsStillborn
<1>1. CharterInit => NoChainIsStillborn
  BY DEF CharterInit, NoChainIsStillborn, Chain
<1>2. Judicious /\ NoChainIsStillborn /\ [CharterNext]_charterVars => NoChainIsStillborn'
  BY StepNotStillborn
<1>3. CharterSpec => []Judicious
  BY ChainsAreJudged
<1> QED
  BY <1>1, <1>2, <1>3, PTL DEF CharterSpec
=============================================================================
