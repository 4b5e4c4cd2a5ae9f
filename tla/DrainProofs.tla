---------------------------- MODULE DrainProofs ----------------------------
(* Proofs about Drain: the caps on concurrent runs, and that the Tower's   *)
(* thread ends with nothing of its own alive, for every factory.           *)
EXTENDS Drain, FiniteSetTheorems, TLAPS

USE DEF Up

Carrying == {"taken", "counted", "unqueued", "admitting"}
InHand   == Carrying \cup {"counted off"}
Counted  == InHand \ {"taken"}

\* One flight is in hand between TakeFlight and CountOff, and it is new to
\* what is flying.
HandInv ==
  /\ pc \in InHand => \E f \in Flights : cur = {f}
  /\ pc \notin InHand => cur = {}
  /\ pc \in Counted => launching = 1
  /\ pc \notin Counted => launching = 0
  /\ cur \subseteq taken
  /\ pc \in Carrying => cur \cap flying = {}

\* Every run is flying until the coordinator heard from it, once, and what is
\* flying was taken from what was waiting, once.
FlyingInv ==
  /\ waiting \cap taken = {}
  /\ flying \subseteq taken
  /\ alive \subseteq flying
  /\ landed \subseteq flying
  /\ alive \cap landed = {}
  /\ pc \in {"leave", "rest", "exited"} => flying = {}

Inv == TypeOK /\ HandInv /\ FlyingInv

RunsOf(a) == {f \in alive : f.to = a}

\* A slot, of the factory and of the agent, is kept for the flight in hand.
LimitsInv ==
  /\ Cardinality(alive) <= MaxRuns
  /\ \A a \in Agents : Cardinality(RunsOf(a)) <= AgentCap
  /\ pc \in Carrying =>
       /\ Cardinality(alive) < MaxRuns
       /\ \A f \in cur : Cardinality(RunsOf(f.to)) < AgentCap

-----------------------------------------------------------------------------
\* The initial state is typed and nothing is in hand or flying.
LEMMA InitInv == Init => Inv /\ LimitsInv
<1>1. Init => Inv
  <2>1. ASSUME Init PROVE TypeOK
    <3>1. updates \in 0..MaxUpdates /\ faults \in 0..MaxFaults /\ launching \in 0..1
      BY <2>1, DrainAssumption DEF Init
    <3>2. parked \in [Chains -> SUBSET Flights] BY <2>1 DEF Init
    <3>3. QED BY <2>1, <3>1, <3>2 DEF Init, TypeOK, Places, Turns
  <2>2. Init => HandInv BY DEF Init, HandInv, InHand, Carrying, Counted
  <2>3. Init => FlyingInv BY DEF Init, FlyingInv
  <2>4. QED BY <2>1, <2>2, <2>3 DEF Inv
<1>2. ASSUME Init PROVE LimitsInv
  <2>1. Cardinality(alive) = 0 /\ \A a \in Agents : Cardinality(RunsOf(a)) = 0
    <3>1. alive = {} /\ \A a \in Agents : RunsOf(a) = {} BY <1>2 DEF Init, RunsOf
    <3>2. QED BY <3>1, FS_EmptySet
  <2>2. QED BY <1>2, <2>1, DrainAssumption DEF Init, LimitsInv, Carrying
<1>3. QED BY <1>1, <1>2

\* The counters, read off the invariant.
LEMMA Counters ==
  ASSUME Inv
  PROVE  /\ updates \in 0..MaxUpdates /\ faults \in 0..MaxFaults
         /\ pc = "counted off" => launching = 1
<1>1. updates \in 0..MaxUpdates /\ faults \in 0..MaxFaults BY DEF Inv, TypeOK
<1>2. pc = "counted off" => launching = 1 BY DEF Inv, HandInv, InHand, Counted
<1>3. QED BY <1>1, <1>2

\* Whoever is stopping the Tower moves no flight.
LEMMA StoppingApart ==
  ASSUME Stopping
  PROVE  UNCHANGED <<queueVars, parked, alive, launching, landed, loopVars, pc, faults>>
<1>1. CASE AskStop
  BY <1>1 DEF AskStop, vars, queueVars, factoryVars, loopVars, ctlVars
<1>2. CASE AskUpdate
  BY <1>2 DEF AskUpdate, vars, queueVars, factoryVars, loopVars, ctlVars
<1>3. CASE StopInstead
  BY <1>3 DEF StopInstead, vars, queueVars, factoryVars, loopVars, ctlVars
<1>4. CASE ReadAlive
  BY <1>4 DEF ReadAlive, vars, queueVars, factoryVars, loopVars, ctlVars
<1>5. CASE ReadLaunching
  BY <1>5 DEF ReadLaunching, vars, queueVars, factoryVars, loopVars, ctlVars
<1>6. CASE ReadParked
  BY <1>6 DEF ReadParked, vars, queueVars, factoryVars, loopVars, ctlVars
<1>7. CASE Postpone
  BY <1>7 DEF Postpone, vars, queueVars, factoryVars, loopVars, ctlVars
<1>8. CASE ResumeServing
  BY <1>8 DEF ResumeServing, vars, queueVars, factoryVars, loopVars, ctlVars
<1>9. CASE HandOver
  BY <1>9 DEF HandOver, vars, queueVars, factoryVars, loopVars, ctlVars
<1>10. CASE DropTower
  BY <1>10 DEF DropTower, vars, queueVars, factoryVars, loopVars, ctlVars
<1>11. CASE JoinTower
  BY <1>11 DEF JoinTower, vars, queueVars, factoryVars, loopVars, ctlVars
<1>12. CASE CutOff
  BY <1>12 DEF CutOff, vars, queueVars, factoryVars, loopVars, ctlVars
<1>13. CASE ExitCut
  BY <1>13 DEF ExitCut, vars, queueVars, factoryVars, loopVars, ctlVars
<1>14. QED
  BY <1>1, <1>2, <1>3, <1>4, <1>5, <1>6, <1>7, <1>8, <1>9, <1>10, <1>11, <1>12,
     <1>13 DEF Stopping, Looking, Settling

\* Every step keeps every variable in its type.
LEMMA StepTyped ==
  ASSUME Inv, [Next]_vars
  PROVE  TypeOK'
<1>1. CASE BeginPass
  BY <1>1, DrainAssumption DEF Inv, TypeOK, Places, vars, queueVars, factoryVars,
     loopVars, ctlVars, BeginPass
<1>2. CASE EndPass
  BY <1>2, DrainAssumption DEF Inv, TypeOK, Places, vars, queueVars, factoryVars,
     loopVars, ctlVars, EndPass
<1>3. ASSUME NEW f \in waiting, SkipFlight(f) PROVE TypeOK'
  BY <1>3, DrainAssumption DEF Inv, TypeOK, Places, vars, queueVars, factoryVars,
     loopVars, ctlVars, SkipFlight
<1>4. ASSUME NEW f \in waiting, TakeFlight(f) PROVE TypeOK'
  BY <1>4, DrainAssumption DEF Inv, TypeOK, Places, vars, queueVars, factoryVars,
     loopVars, ctlVars, TakeFlight
<1>5. CASE Count
  BY <1>5 DEF Inv, TypeOK, Places, vars, queueVars, factoryVars, loopVars, ctlVars,
     Count, HandInv, InHand, Counted
<1>6. CASE Unqueue
  BY <1>6, DrainAssumption DEF Inv, TypeOK, Places, vars, queueVars, factoryVars,
     loopVars, ctlVars, Unqueue
<1>7. CASE UnqueueFails
  <2>1. faults' \in 0..MaxFaults
    <3>1. faults' = faults + 1 /\ faults < MaxFaults /\ faults \in 0..MaxFaults
      BY <1>7, Counters, Zenon DEF UnqueueFails
    <3>2. QED BY <3>1, DrainAssumption
  <2>2. QED BY <1>7, <2>1 DEF Inv, TypeOK, Places, vars, queueVars, factoryVars, loopVars, ctlVars, UnqueueFails
<1>8. ASSUME NEW f \in cur, PassBarrier(f) PROVE TypeOK'
  BY <1>8, DrainAssumption DEF Inv, TypeOK, Places, vars, queueVars, factoryVars,
     loopVars, ctlVars, PassBarrier
<1>9. ASSUME NEW f \in cur, ParkFlight(f) PROVE TypeOK'
  BY <1>9, DrainAssumption DEF Inv, TypeOK, Places, vars, queueVars, factoryVars,
     loopVars, ctlVars, ParkFlight
<1>10. CASE RefuseFlight
  BY <1>10, DrainAssumption DEF Inv, TypeOK, Places, vars, queueVars, factoryVars,
     loopVars, ctlVars, RefuseFlight
<1>11. CASE LaunchFlight
  BY <1>11, DrainAssumption DEF Inv, TypeOK, Places, vars, queueVars, factoryVars,
     loopVars, ctlVars, LaunchFlight
<1>12. CASE CountOff
  <2>1. launching' = 0 /\ launching' \in 0..1
    <3>1. launching' = launching - 1 /\ launching = 1
      BY <1>12, Counters, Zenon DEF CountOff
    <3>2. QED BY <3>1, DrainAssumption
  <2>2. QED BY <1>12, <2>1 DEF Inv, TypeOK, Places, vars, queueVars, factoryVars, loopVars, ctlVars, CountOff
<1>13. CASE LeaveDispatch
  BY <1>13, DrainAssumption DEF Inv, TypeOK, Places, vars, queueVars, factoryVars,
     loopVars, ctlVars, LeaveDispatch
<1>14. CASE AskForMore
  BY <1>14, DrainAssumption DEF Inv, TypeOK, Places, vars, queueVars, factoryVars,
     loopVars, ctlVars, AskForMore, Merged
<1>15. CASE Collect
  BY <1>15, DrainAssumption DEF Inv, TypeOK, Places, vars, queueVars, factoryVars,
     loopVars, ctlVars, Collect, Merged
<1>16. CASE Abandon
  BY <1>16, DrainAssumption DEF Inv, TypeOK, Places, vars, queueVars, factoryVars,
     loopVars, ctlVars, Abandon
<1>17. CASE NextDispatch
  BY <1>17, DrainAssumption DEF Inv, TypeOK, Places, vars, queueVars, factoryVars,
     loopVars, ctlVars, NextDispatch
<1>18. ASSUME NEW r \in alive, LandRun(r) PROVE TypeOK'
  BY <1>18, DrainAssumption DEF Inv, TypeOK, Places, vars, queueVars, factoryVars,
     loopVars, ctlVars, LandRun
<1>19. ASSUME NEW r \in alive, NEW f \in Flights, SendFlight(r, f) PROVE TypeOK'
  BY <1>19, DrainAssumption DEF Inv, TypeOK, Places, vars, queueVars, factoryVars,
     loopVars, ctlVars, SendFlight, QueueFlight
<1>20. ASSUME NEW f \in Flights, Trigger(f) PROVE TypeOK'
  BY <1>20, DrainAssumption DEF Inv, TypeOK, Places, vars, queueVars, factoryVars,
     loopVars, ctlVars, Trigger, QueueFlight
<1>21. ASSUME NEW f \in Flights, CancelFlight(f) PROVE TypeOK'
  BY <1>21, DrainAssumption DEF Inv, TypeOK, Places, vars, queueVars, factoryVars,
     loopVars, ctlVars, CancelFlight
<1>22. CASE Stopping
  <2>1. CASE AskStop
    BY <2>1, DrainAssumption DEF Inv, TypeOK, Places, Turns, AskStop, vars,
       queueVars, factoryVars, loopVars, ctlVars
  <2>2. CASE AskUpdate
    <3>1. updates' \in 0..MaxUpdates
      <4>1. updates' = updates + 1 /\ updates < MaxUpdates /\ updates \in 0..MaxUpdates
        BY <2>2, Counters, Zenon DEF AskUpdate
      <4>2. QED BY <4>1, DrainAssumption
    <3>2. QED BY <2>2, <3>1 DEF Inv, TypeOK, Places, Turns, AskUpdate, vars, queueVars, factoryVars, loopVars, ctlVars
  <2>3. CASE StopInstead
    BY <2>3, DrainAssumption DEF Inv, TypeOK, Places, Turns, StopInstead, vars,
       queueVars, factoryVars, loopVars, ctlVars
  <2>4. CASE ReadAlive
    BY <2>4, DrainAssumption DEF Inv, TypeOK, Places, Turns, ReadAlive, vars,
       queueVars, factoryVars, loopVars, ctlVars
  <2>5. CASE ReadLaunching
    BY <2>5, DrainAssumption DEF Inv, TypeOK, Places, Turns, ReadLaunching, vars,
       queueVars, factoryVars, loopVars, ctlVars
  <2>6. CASE ReadParked
    BY <2>6, DrainAssumption DEF Inv, TypeOK, Places, Turns, ReadParked, vars,
       queueVars, factoryVars, loopVars, ctlVars
  <2>7. CASE Postpone
    BY <2>7, DrainAssumption DEF Inv, TypeOK, Places, Turns, Postpone, vars,
       queueVars, factoryVars, loopVars, ctlVars
  <2>8. CASE ResumeServing
    BY <2>8, DrainAssumption DEF Inv, TypeOK, Places, Turns, ResumeServing, vars,
       queueVars, factoryVars, loopVars, ctlVars
  <2>9. CASE HandOver
    BY <2>9, DrainAssumption DEF Inv, TypeOK, Places, Turns, HandOver, vars,
       queueVars, factoryVars, loopVars, ctlVars
  <2>10. CASE DropTower
    BY <2>10, DrainAssumption DEF Inv, TypeOK, Places, Turns, DropTower, vars,
       queueVars, factoryVars, loopVars, ctlVars
  <2>11. CASE JoinTower
    BY <2>11, DrainAssumption DEF Inv, TypeOK, Places, Turns, JoinTower, vars,
       queueVars, factoryVars, loopVars, ctlVars
  <2>12. CASE CutOff
    BY <2>12, DrainAssumption DEF Inv, TypeOK, Places, Turns, CutOff, vars,
       queueVars, factoryVars, loopVars, ctlVars
  <2>13. CASE ExitCut
    BY <2>13, DrainAssumption DEF Inv, TypeOK, Places, Turns, ExitCut, vars,
       queueVars, factoryVars, loopVars, ctlVars
  <2>14. QED
    BY <1>22, <2>1, <2>2, <2>3, <2>4, <2>5, <2>6, <2>7, <2>8, <2>9, <2>10, <2>11,
       <2>12, <2>13 DEF Stopping, Looking, Settling
<1>23. CASE UNCHANGED vars
  BY <1>23, DrainAssumption DEF Inv, TypeOK, Places, vars, queueVars, factoryVars,
     loopVars, ctlVars
<1>24. CASE UnreadQueue
  <2>1. faults' \in 0..MaxFaults
    <3>1. faults' = faults + 1 /\ faults < MaxFaults /\ faults \in 0..MaxFaults
      BY <1>24, Counters, Zenon DEF UnreadQueue
    <3>2. QED BY <3>1, DrainAssumption
  <2>2. QED BY <1>24, <2>1 DEF Inv, TypeOK, Places, vars, queueVars, factoryVars, loopVars, ctlVars, UnreadQueue
<1>25. CASE Dispatcher
  BY <1>1, <1>2, <1>3, <1>4, <1>5, <1>6, <1>7, <1>8, <1>9, <1>10, <1>11, <1>12,
     <1>13, <1>14, <1>15, <1>16, <1>17, <1>24, <1>25 DEF Dispatcher
<1>26. QED
  BY <1>18, <1>19, <1>20, <1>21, <1>22, <1>23, <1>25 DEF Next, Runs, People

\* Every step keeps one flight in hand, and new.
LEMMA StepHand ==
  ASSUME Inv, [Next]_vars
  PROVE  HandInv'
<1>1. CASE BeginPass
  BY <1>1 DEF Inv, HandInv, Carrying, InHand, Counted, vars, queueVars, factoryVars,
     loopVars, ctlVars, BeginPass
<1>2. CASE EndPass
  BY <1>2 DEF Inv, HandInv, Carrying, InHand, Counted, vars, queueVars, factoryVars,
     loopVars, ctlVars, EndPass
<1>3. ASSUME NEW f \in waiting, SkipFlight(f) PROVE HandInv'
  BY <1>3 DEF Inv, HandInv, Carrying, InHand, Counted, vars, queueVars, factoryVars,
     loopVars, ctlVars, SkipFlight
<1>4. ASSUME NEW f \in waiting, TakeFlight(f) PROVE HandInv'
  BY <1>4 DEF Inv, HandInv, Carrying, InHand, Counted, vars, queueVars, factoryVars,
     loopVars, ctlVars, TakeFlight, FlyingInv, TypeOK
<1>5. CASE Count
  BY <1>5 DEF Inv, HandInv, Carrying, InHand, Counted, vars, queueVars, factoryVars,
     loopVars, ctlVars, Count
<1>6. CASE Unqueue
  BY <1>6 DEF Inv, HandInv, Carrying, InHand, Counted, vars, queueVars, factoryVars,
     loopVars, ctlVars, Unqueue
<1>7. CASE UnqueueFails
  BY <1>7 DEF Inv, HandInv, Carrying, InHand, Counted, vars, queueVars, factoryVars,
     loopVars, ctlVars, UnqueueFails
<1>8. ASSUME NEW f \in cur, PassBarrier(f) PROVE HandInv'
  BY <1>8 DEF Inv, HandInv, Carrying, InHand, Counted, vars, queueVars, factoryVars,
     loopVars, ctlVars, PassBarrier
<1>9. ASSUME NEW f \in cur, ParkFlight(f) PROVE HandInv'
  BY <1>9 DEF Inv, HandInv, Carrying, InHand, Counted, vars, queueVars, factoryVars,
     loopVars, ctlVars, ParkFlight
<1>10. CASE RefuseFlight
  BY <1>10 DEF Inv, HandInv, Carrying, InHand, Counted, vars, queueVars,
     factoryVars, loopVars, ctlVars, RefuseFlight
<1>11. CASE LaunchFlight
  BY <1>11 DEF Inv, HandInv, Carrying, InHand, Counted, vars, queueVars,
     factoryVars, loopVars, ctlVars, LaunchFlight
<1>12. CASE CountOff
  <2>1. launching' = 0 /\ launching' \in 0..1
    <3>1. launching' = launching - 1 /\ launching = 1
      BY <1>12, Counters, Zenon DEF CountOff
    <3>2. QED BY <3>1, DrainAssumption
  <2>2. QED BY <1>12, <2>1 DEF Inv, HandInv, Carrying, InHand, Counted, vars, queueVars, factoryVars, loopVars, ctlVars, CountOff
<1>13. CASE LeaveDispatch
  BY <1>13 DEF Inv, HandInv, Carrying, InHand, Counted, vars, queueVars,
     factoryVars, loopVars, ctlVars, LeaveDispatch
<1>14. CASE AskForMore
  BY <1>14 DEF Inv, HandInv, Carrying, InHand, Counted, vars, queueVars,
     factoryVars, loopVars, ctlVars, AskForMore, Merged
<1>15. CASE Collect
  BY <1>15 DEF Inv, HandInv, Carrying, InHand, Counted, vars, queueVars,
     factoryVars, loopVars, ctlVars, Collect, Merged
<1>16. CASE Abandon
  BY <1>16 DEF Inv, HandInv, Carrying, InHand, Counted, vars, queueVars,
     factoryVars, loopVars, ctlVars, Abandon
<1>17. CASE NextDispatch
  BY <1>17 DEF Inv, HandInv, Carrying, InHand, Counted, vars, queueVars,
     factoryVars, loopVars, ctlVars, NextDispatch
<1>18. ASSUME NEW r \in alive, LandRun(r) PROVE HandInv'
  BY <1>18 DEF Inv, HandInv, Carrying, InHand, Counted, vars, queueVars,
     factoryVars, loopVars, ctlVars, LandRun
<1>19. ASSUME NEW r \in alive, NEW f \in Flights, SendFlight(r, f) PROVE HandInv'
  BY <1>19 DEF Inv, HandInv, Carrying, InHand, Counted, vars, queueVars,
     factoryVars, loopVars, ctlVars, SendFlight, QueueFlight
<1>20. ASSUME NEW f \in Flights, Trigger(f) PROVE HandInv'
  BY <1>20 DEF Inv, HandInv, Carrying, InHand, Counted, vars, queueVars,
     factoryVars, loopVars, ctlVars, Trigger, QueueFlight
<1>21. ASSUME NEW f \in Flights, CancelFlight(f) PROVE HandInv'
  BY <1>21 DEF Inv, HandInv, Carrying, InHand, Counted, vars, queueVars,
     factoryVars, loopVars, ctlVars, CancelFlight
<1>22. CASE Stopping
  BY <1>22, StoppingApart DEF Inv, HandInv, Carrying, InHand, Counted, vars,
     queueVars, factoryVars, loopVars, ctlVars
<1>23. CASE UNCHANGED vars
  BY <1>23 DEF Inv, HandInv, Carrying, InHand, Counted, vars, queueVars,
     factoryVars, loopVars, ctlVars
<1>24. CASE UnreadQueue
  BY <1>24 DEF Inv, HandInv, Carrying, InHand, Counted, vars, queueVars, factoryVars,
     loopVars, ctlVars, UnreadQueue
<1>25. CASE Dispatcher
  BY <1>1, <1>2, <1>3, <1>4, <1>5, <1>6, <1>7, <1>8, <1>9, <1>10, <1>11, <1>12,
     <1>13, <1>14, <1>15, <1>16, <1>17, <1>24, <1>25 DEF Dispatcher
<1>26. QED
  BY <1>18, <1>19, <1>20, <1>21, <1>22, <1>23, <1>25 DEF Next, Runs, People

\* Every step keeps what is flying apart from what waits.
LEMMA StepFlying ==
  ASSUME Inv, [Next]_vars
  PROVE  FlyingInv'
<1>1. CASE BeginPass
  BY <1>1 DEF Inv, HandInv, Carrying, InHand, FlyingInv, vars, queueVars,
     factoryVars, loopVars, ctlVars, BeginPass
<1>2. CASE EndPass
  BY <1>2 DEF Inv, HandInv, Carrying, InHand, FlyingInv, vars, queueVars,
     factoryVars, loopVars, ctlVars, EndPass
<1>3. ASSUME NEW f \in waiting, SkipFlight(f) PROVE FlyingInv'
  BY <1>3 DEF Inv, HandInv, Carrying, InHand, FlyingInv, vars, queueVars,
     factoryVars, loopVars, ctlVars, SkipFlight
<1>4. ASSUME NEW f \in waiting, TakeFlight(f) PROVE FlyingInv'
  BY <1>4 DEF Inv, HandInv, Carrying, InHand, FlyingInv, vars, queueVars,
     factoryVars, loopVars, ctlVars, TakeFlight
<1>5. CASE Count
  BY <1>5 DEF Inv, HandInv, Carrying, InHand, FlyingInv, vars, queueVars,
     factoryVars, loopVars, ctlVars, Count
<1>6. CASE Unqueue
  BY <1>6 DEF Inv, HandInv, Carrying, InHand, FlyingInv, vars, queueVars,
     factoryVars, loopVars, ctlVars, Unqueue
<1>7. CASE UnqueueFails
  BY <1>7 DEF Inv, HandInv, Carrying, InHand, FlyingInv, vars, queueVars,
     factoryVars, loopVars, ctlVars, UnqueueFails
<1>8. ASSUME NEW f \in cur, PassBarrier(f) PROVE FlyingInv'
  BY <1>8 DEF Inv, HandInv, Carrying, InHand, FlyingInv, vars, queueVars,
     factoryVars, loopVars, ctlVars, PassBarrier
<1>9. ASSUME NEW f \in cur, ParkFlight(f) PROVE FlyingInv'
  BY <1>9 DEF Inv, HandInv, Carrying, InHand, FlyingInv, vars, queueVars,
     factoryVars, loopVars, ctlVars, ParkFlight
<1>10. CASE RefuseFlight
  BY <1>10 DEF Inv, HandInv, Carrying, InHand, FlyingInv, vars, queueVars,
     factoryVars, loopVars, ctlVars, RefuseFlight
<1>11. CASE LaunchFlight
  BY <1>11 DEF Inv, HandInv, Carrying, InHand, FlyingInv, vars, queueVars,
     factoryVars, loopVars, ctlVars, LaunchFlight
<1>12. CASE CountOff
  BY <1>12 DEF Inv, HandInv, Carrying, InHand, FlyingInv, vars, queueVars,
     factoryVars, loopVars, ctlVars, CountOff
<1>13. CASE LeaveDispatch
  BY <1>13 DEF Inv, HandInv, Carrying, InHand, FlyingInv, vars, queueVars,
     factoryVars, loopVars, ctlVars, LeaveDispatch
<1>14. CASE AskForMore
  BY <1>14 DEF Inv, HandInv, Carrying, InHand, FlyingInv, vars, queueVars,
     factoryVars, loopVars, ctlVars, AskForMore, Merged
<1>15. CASE Collect
  BY <1>15 DEF Inv, HandInv, Carrying, InHand, FlyingInv, vars, queueVars,
     factoryVars, loopVars, ctlVars, Collect, Merged
<1>16. CASE Abandon
  BY <1>16 DEF Inv, HandInv, Carrying, InHand, FlyingInv, vars, queueVars,
     factoryVars, loopVars, ctlVars, Abandon
<1>17. CASE NextDispatch
  BY <1>17 DEF Inv, HandInv, Carrying, InHand, FlyingInv, vars, queueVars,
     factoryVars, loopVars, ctlVars, NextDispatch
<1>18. ASSUME NEW r \in alive, LandRun(r) PROVE FlyingInv'
  BY <1>18 DEF Inv, HandInv, Carrying, InHand, FlyingInv, vars, queueVars,
     factoryVars, loopVars, ctlVars, LandRun
<1>19. ASSUME NEW r \in alive, NEW f \in Flights, SendFlight(r, f) PROVE FlyingInv'
  BY <1>19 DEF Inv, HandInv, Carrying, InHand, FlyingInv, vars, queueVars,
     factoryVars, loopVars, ctlVars, SendFlight, QueueFlight
<1>20. ASSUME NEW f \in Flights, Trigger(f) PROVE FlyingInv'
  BY <1>20 DEF Inv, HandInv, Carrying, InHand, FlyingInv, vars, queueVars,
     factoryVars, loopVars, ctlVars, Trigger, QueueFlight
<1>21. ASSUME NEW f \in Flights, CancelFlight(f) PROVE FlyingInv'
  BY <1>21 DEF Inv, HandInv, Carrying, InHand, FlyingInv, vars, queueVars,
     factoryVars, loopVars, ctlVars, CancelFlight
<1>22. CASE Stopping
  BY <1>22, StoppingApart DEF Inv, HandInv, Carrying, InHand, FlyingInv, vars,
     queueVars, factoryVars, loopVars, ctlVars
<1>23. CASE UNCHANGED vars
  BY <1>23 DEF Inv, HandInv, Carrying, InHand, FlyingInv, vars, queueVars,
     factoryVars, loopVars, ctlVars
<1>24. CASE UnreadQueue
  BY <1>24 DEF Inv, HandInv, Carrying, InHand, FlyingInv, vars, queueVars,
     factoryVars, loopVars, ctlVars, UnreadQueue
<1>25. CASE Dispatcher
  BY <1>1, <1>2, <1>3, <1>4, <1>5, <1>6, <1>7, <1>8, <1>9, <1>10, <1>11, <1>12,
     <1>13, <1>14, <1>15, <1>16, <1>17, <1>24, <1>25 DEF Dispatcher
<1>26. QED
  BY <1>18, <1>19, <1>20, <1>21, <1>22, <1>23, <1>25 DEF Next, Runs, People

\* Every step keeps the invariant.
LEMMA StepInv ==
  ASSUME Inv, [Next]_vars
  PROVE  Inv'
  BY StepTyped, StepHand, StepFlying DEF Inv

\* The invariant holds throughout.
LEMMA InvHolds == Spec => []Inv
<1>1. Init => Inv BY InitInv
<1>2. Inv /\ [Next]_vars => Inv' BY StepInv
<1>3. QED BY <1>1, <1>2, PTL DEF Spec

\* Type correctness, for every factory.
THEOREM TypeCorrect == Spec => []TypeOK
<1>1. Inv => TypeOK BY DEF Inv
<1>2. QED BY <1>1, InvHolds, PTL

\* Tower's Drop: when the Tower's thread is out of its loop nothing it started
\* is alive and nothing is in hand, in every factory and every interleaving.
THEOREM TowerWaitsForItsRuns == Spec => []NoRunOutlivesTheTower
<1>1. Inv => NoRunOutlivesTheTower
  BY DEF Inv, HandInv, FlyingInv, InHand, Carrying, NoRunOutlivesTheTower
<1>2. QED BY <1>1, InvHolds, PTL
-----------------------------------------------------------------------------
\* What is alive can be counted, all of it and per agent.
LEMMA Countable ==
  ASSUME NEW S, S \subseteq Flights, NEW a
  PROVE  /\ IsFiniteSet(S) /\ Cardinality(S) \in Nat
         /\ IsFiniteSet({f \in S : f.to = a}) /\ Cardinality({f \in S : f.to = a}) \in Nat
<1>1. IsFiniteSet(Flights) BY DrainAssumption
<1>2. IsFiniteSet(S) BY <1>1, FS_Subset
<1>3. IsFiniteSet({f \in S : f.to = a}) BY <1>2, FS_Subset
<1>4. QED BY <1>2, <1>3, FS_CardinalityType

\* A step that starts no run and takes no flight keeps the slots.
LEMMA SlotsKept ==
  ASSUME Inv, LimitsInv, UNCHANGED alive,
         pc' \in Carrying => pc \in Carrying /\ cur' = cur
  PROVE  LimitsInv'
<1>1. \A a : RunsOf(a)' = RunsOf(a) BY DEF RunsOf
<1>2. QED BY <1>1 DEF LimitsInv

\* A run that lands frees its slots.
LEMMA SlotsFreed ==
  ASSUME Inv, LimitsInv, NEW r \in alive, alive' = alive \ {r}, UNCHANGED <<pc, cur>>
  PROVE  LimitsInv'
<1>1. alive \subseteq Flights /\ alive' \subseteq alive BY DEF Inv, TypeOK
<1>2. Cardinality(alive') <= Cardinality(alive) /\ Cardinality(alive') \in Nat /\ Cardinality(alive) \in Nat
  BY <1>1, Countable, FS_Subset
<1>3. ASSUME NEW a PROVE /\ Cardinality(RunsOf(a)') <= Cardinality(RunsOf(a))
                         /\ Cardinality(RunsOf(a)') \in Nat /\ Cardinality(RunsOf(a)) \in Nat
  <2>1. RunsOf(a)' \subseteq RunsOf(a) BY <1>1 DEF RunsOf
  <2>2. IsFiniteSet(RunsOf(a)) /\ Cardinality(RunsOf(a)) \in Nat
    BY <1>1, Countable DEF RunsOf
  <2>3. QED BY <2>1, <2>2, FS_Subset, FS_CardinalityType
<1>4. Cardinality(alive)' = Cardinality(alive') /\ \A a : Cardinality(RunsOf(a))' = Cardinality(RunsOf(a)')
  OBVIOUS
<1>5. QED BY <1>2, <1>3, <1>4, DrainAssumption DEF LimitsInv

\* A run that is launched takes the slots that were kept for it.
LEMMA SlotsTaken ==
  ASSUME Inv, LimitsInv, LaunchFlight
  PROVE  LimitsInv'
<1>1. PICK f \in Flights : cur = {f}
  BY DEF Inv, HandInv, LaunchFlight, InHand, Carrying
<1>2. alive' = alive \cup {f} /\ alive \subseteq Flights /\ pc' \notin Carrying /\ pc \in Carrying
  BY <1>1 DEF LaunchFlight, Inv, TypeOK, Carrying
<1>3. Cardinality(alive) < MaxRuns /\ Cardinality(RunsOf(f.to)) < AgentCap
  BY <1>1, <1>2 DEF LimitsInv
<1>4. Cardinality(alive') <= MaxRuns
  <2>1. IsFiniteSet(alive) /\ Cardinality(alive) \in Nat BY <1>2, Countable
  <2>2. Cardinality(alive') = Cardinality(alive) \/ Cardinality(alive') = Cardinality(alive) + 1
    BY <1>2, <2>1, FS_AddElement
  <2>3. QED BY <2>1, <2>2, <1>3, DrainAssumption
<1>5. ASSUME NEW a \in Agents PROVE Cardinality(RunsOf(a)') <= AgentCap
  <2>1. IsFiniteSet(RunsOf(a)) /\ Cardinality(RunsOf(a)) \in Nat BY <1>2, Countable DEF RunsOf
  <2>2. CASE f.to # a
    <3>1. RunsOf(a)' = RunsOf(a) BY <1>2, <2>2 DEF RunsOf
    <3>2. QED BY <3>1 DEF LimitsInv
  <2>3. CASE f.to = a
    <3>1. RunsOf(a)' = RunsOf(a) \cup {f} BY <1>2, <2>3 DEF RunsOf
    <3>2. Cardinality(RunsOf(a)') = Cardinality(RunsOf(a)) \/ Cardinality(RunsOf(a)') = Cardinality(RunsOf(a)) + 1
      BY <3>1, <2>1, FS_AddElement
    <3>3. QED BY <3>2, <2>1, <2>3, <1>3, DrainAssumption
  <2>4. QED BY <2>2, <2>3
<1>6. QED BY <1>2, <1>4, <1>5 DEF LimitsInv

\* The caps are read when a flight is taken.
LEMMA SlotsReserved ==
  ASSUME Inv, LimitsInv, NEW f \in waiting, TakeFlight(f)
  PROVE  LimitsInv'
<1>1. Cardinality(alive) < MaxRuns BY DEF TakeFlight, AtFlight
<1>2. Cardinality(RunsOf(f.to)) < AgentCap
  <2>1. alive \subseteq Flights BY DEF Inv, TypeOK
  <2>2. Cardinality(RunsOf(f.to)) \in Nat BY <2>1, Countable DEF RunsOf
  <2>3. ~(Cardinality(RunsOf(f.to)) >= AgentCap)
    BY DEF TakeFlight, Fits, AgentIsFull, RunsOf
  <2>4. QED BY <2>2, <2>3, DrainAssumption
<1>3. alive' = alive /\ cur' = {f} BY DEF TakeFlight, factoryVars
<1>4. \A a : RunsOf(a)' = RunsOf(a) BY <1>3 DEF RunsOf
<1>5. QED BY <1>1, <1>2, <1>3, <1>4 DEF LimitsInv

\* Every step keeps the slots.
LEMMA StepLimits ==
  ASSUME Inv, LimitsInv, [Next]_vars
  PROVE  LimitsInv'
<1>1. CASE BeginPass
  <2>1. UNCHANGED alive /\ (pc' \in Carrying => pc \in Carrying /\ cur' = cur)
    BY <1>1 DEF Carrying, BeginPass, vars, queueVars, factoryVars, loopVars, ctlVars
  <2>2. QED BY <2>1, SlotsKept
<1>2. CASE EndPass
  <2>1. UNCHANGED alive /\ (pc' \in Carrying => pc \in Carrying /\ cur' = cur)
    BY <1>2 DEF Carrying, EndPass, vars, queueVars, factoryVars, loopVars, ctlVars
  <2>2. QED BY <2>1, SlotsKept
<1>3. ASSUME NEW f \in waiting, SkipFlight(f) PROVE LimitsInv'
  <2>1. UNCHANGED alive /\ (pc' \in Carrying => pc \in Carrying /\ cur' = cur)
    BY <1>3 DEF Carrying, SkipFlight, vars, queueVars, factoryVars, loopVars, ctlVars
  <2>2. QED BY <2>1, SlotsKept
<1>4. ASSUME NEW f \in waiting, TakeFlight(f) PROVE LimitsInv'
  BY <1>4, SlotsReserved
<1>5. CASE Count
  <2>1. UNCHANGED alive /\ (pc' \in Carrying => pc \in Carrying /\ cur' = cur)
    BY <1>5 DEF Carrying, Count, vars, queueVars, factoryVars, loopVars, ctlVars
  <2>2. QED BY <2>1, SlotsKept
<1>6. CASE Unqueue
  <2>1. UNCHANGED alive /\ (pc' \in Carrying => pc \in Carrying /\ cur' = cur)
    BY <1>6 DEF Carrying, Unqueue, vars, queueVars, factoryVars, loopVars, ctlVars
  <2>2. QED BY <2>1, SlotsKept
<1>7. CASE UnqueueFails
  <2>1. UNCHANGED alive /\ (pc' \in Carrying => pc \in Carrying /\ cur' = cur)
    BY <1>7 DEF Carrying, UnqueueFails, vars, queueVars, factoryVars, loopVars, ctlVars
  <2>2. QED BY <2>1, SlotsKept
<1>8. ASSUME NEW f \in cur, PassBarrier(f) PROVE LimitsInv'
  <2>1. UNCHANGED alive /\ (pc' \in Carrying => pc \in Carrying /\ cur' = cur)
    BY <1>8 DEF Carrying, PassBarrier, vars, queueVars, factoryVars, loopVars, ctlVars
  <2>2. QED BY <2>1, SlotsKept
<1>9. ASSUME NEW f \in cur, ParkFlight(f) PROVE LimitsInv'
  <2>1. UNCHANGED alive /\ (pc' \in Carrying => pc \in Carrying /\ cur' = cur)
    BY <1>9 DEF Carrying, ParkFlight, vars, queueVars, factoryVars, loopVars, ctlVars
  <2>2. QED BY <2>1, SlotsKept
<1>10. CASE RefuseFlight
  <2>1. UNCHANGED alive /\ (pc' \in Carrying => pc \in Carrying /\ cur' = cur)
    BY <1>10 DEF Carrying, RefuseFlight, vars, queueVars, factoryVars, loopVars, ctlVars
  <2>2. QED BY <2>1, SlotsKept
<1>11. CASE LaunchFlight
  BY <1>11, SlotsTaken
<1>12. CASE CountOff
  <2>1. UNCHANGED alive /\ (pc' \in Carrying => pc \in Carrying /\ cur' = cur)
    BY <1>12 DEF Carrying, CountOff, vars, queueVars, factoryVars, loopVars, ctlVars
  <2>2. QED BY <2>1, SlotsKept
<1>13. CASE LeaveDispatch
  <2>1. UNCHANGED alive /\ (pc' \in Carrying => pc \in Carrying /\ cur' = cur)
    BY <1>13 DEF Carrying, LeaveDispatch, vars, queueVars, factoryVars, loopVars,
       ctlVars
  <2>2. QED BY <2>1, SlotsKept
<1>14. CASE AskForMore
  <2>1. UNCHANGED alive /\ (pc' \in Carrying => pc \in Carrying /\ cur' = cur)
    BY <1>14 DEF Carrying, AskForMore, vars, queueVars, factoryVars, loopVars, ctlVars
  <2>2. QED BY <2>1, SlotsKept
<1>15. CASE Collect
  <2>1. UNCHANGED alive /\ (pc' \in Carrying => pc \in Carrying /\ cur' = cur)
    BY <1>15 DEF Carrying, Collect, vars, queueVars, factoryVars, loopVars, ctlVars
  <2>2. QED BY <2>1, SlotsKept
<1>16. CASE Abandon
  <2>1. UNCHANGED alive /\ (pc' \in Carrying => pc \in Carrying /\ cur' = cur)
    BY <1>16 DEF Carrying, Abandon, vars, queueVars, factoryVars, loopVars, ctlVars
  <2>2. QED BY <2>1, SlotsKept
<1>17. CASE NextDispatch
  <2>1. UNCHANGED alive /\ (pc' \in Carrying => pc \in Carrying /\ cur' = cur)
    BY <1>17 DEF Carrying, NextDispatch, vars, queueVars, factoryVars, loopVars, ctlVars
  <2>2. QED BY <2>1, SlotsKept
<1>18. ASSUME NEW r \in alive, LandRun(r) PROVE LimitsInv'
  BY <1>18, SlotsFreed DEF LandRun, loopVars
<1>19. ASSUME NEW r \in alive, NEW f \in Flights, SendFlight(r, f) PROVE LimitsInv'
  <2>1. UNCHANGED alive /\ (pc' \in Carrying => pc \in Carrying /\ cur' = cur)
    BY <1>19 DEF Carrying, SendFlight, vars, queueVars, factoryVars, loopVars,
       ctlVars, QueueFlight
  <2>2. QED BY <2>1, SlotsKept
<1>20. ASSUME NEW f \in Flights, Trigger(f) PROVE LimitsInv'
  <2>1. UNCHANGED alive /\ (pc' \in Carrying => pc \in Carrying /\ cur' = cur)
    BY <1>20 DEF Carrying, Trigger, vars, queueVars, factoryVars, loopVars,
       ctlVars, QueueFlight
  <2>2. QED BY <2>1, SlotsKept
<1>21. ASSUME NEW f \in Flights, CancelFlight(f) PROVE LimitsInv'
  <2>1. UNCHANGED alive /\ (pc' \in Carrying => pc \in Carrying /\ cur' = cur)
    BY <1>21 DEF Carrying, CancelFlight, vars, queueVars, factoryVars, loopVars, ctlVars
  <2>2. QED BY <2>1, SlotsKept
<1>22. CASE Stopping
  <2>1. UNCHANGED <<alive, pc, cur>> BY <1>22, StoppingApart DEF loopVars
  <2>2. QED BY <2>1, SlotsKept
<1>23. CASE UNCHANGED vars
  <2>1. UNCHANGED <<alive, pc, cur>> BY <1>23 DEF vars, queueVars, factoryVars, loopVars, ctlVars
  <2>2. QED BY <2>1, SlotsKept
<1>24. CASE UnreadQueue
  <2>1. UNCHANGED alive /\ (pc' \in Carrying => pc \in Carrying /\ cur' = cur)
    BY <1>24 DEF Carrying, UnreadQueue, vars, queueVars, factoryVars, loopVars, ctlVars
  <2>2. QED BY <2>1, SlotsKept
<1>25. CASE Dispatcher
  BY <1>1, <1>2, <1>3, <1>4, <1>5, <1>6, <1>7, <1>8, <1>9, <1>10, <1>11, <1>12,
     <1>13, <1>14, <1>15, <1>16, <1>17, <1>24, <1>25 DEF Dispatcher
<1>26. QED
  BY <1>18, <1>19, <1>20, <1>21, <1>22, <1>23, <1>25 DEF Next, Runs, People

\* max_concurrent_runs and an agent's own cap hold at every moment, for every
\* number of chains, agents and runs.
THEOREM LimitsHold == Spec => []WithinLimits
<1>1. Init => Inv /\ LimitsInv BY InitInv
<1>2. (Inv /\ LimitsInv) /\ [Next]_vars => (Inv /\ LimitsInv)' BY StepInv, StepLimits
<1>3. LimitsInv => WithinLimits BY DEF LimitsInv, WithinLimits, RunsOf
<1>4. QED BY <1>1, <1>2, <1>3, PTL DEF Spec

-----------------------------------------------------------------------------
(* A rendezvous is given up only when it is dead.  The argument is about   *)
(* one dispatch: what it was asked to run and has not taken it looked at   *)
(* in its last pass and could not start, which with nothing alive is the   *)
(* drain's doing; what it was not asked to run was queued by a person,     *)
(* for a chain that has run nothing yet.  It does not hold of four steps.  *)

\* A flight taken and left on the queue, a queue taken to be empty, and a drain
\* called off, in two ways: a flight the drain passed over is then not looked at
\* again before the dispatch is over.
Undone == UnqueueFails \/ UnreadQueue \/ Postpone \/ ResumeServing

\* The trigger of a chain.
Root(c) == [chain |-> c, from |-> Human, to |-> Entry]

\* What the coordinator and the rendezvous hold was queued once, and told to
\* stop it stays told.
Kept ==
  /\ queue \subseteq made /\ waiting \subseteq made /\ taken \subseteq made
  /\ \A c \in Chains : \A f \in parked[c] : f \in made /\ f.chain = c /\ f.from # Human
  /\ stopping => stop

\* A chain that has sent anything has been triggered, and its trigger taken.
Rooted == \A f \in made : f.from # Human => Root(f.chain) \in made \ queue

\* What was taken is off the queue, but for the flight in hand.
OffTheQueue == \A f \in queue \cap taken : pc \in {"taken", "counted"} /\ f \in cur

\* With nothing flying, everything a run sent has been asked for.
Asked ==
  \/ stopping \/ flying # {}
  \/ \A f \in queue : f.from # Human => f \in waiting \cup taken

PassedOver == looked \cap waiting

\* Nothing was flying when more work was asked for, and nothing has started since.
Idle == dry /\ flying = {}

\* In an idle pass only the drain holds a flight back, and once it does all the
\* pass takes completes a rendezvous: what was held back stays so to its end.
Passed ==
  /\ Idle /\ pc \in InHand \cup {"look", "after", "leave"} =>
       \A f \in PassedOver : draining /\ ~MayStartWhileDraining(f)
  /\ Idle /\ pc \in {"taken", "counted", "unqueued"} /\ PassedOver # {} =>
       \A f \in cur : cutting \/ MayStartWhileDraining(f)

\* A pass with nothing flying looked at all that waits; a dispatch is left
\* after such a pass, or with nothing waiting.
PassedAll ==
  /\ pc = "after" /\ flying = {} /\ ~stopping => waiting \subseteq looked
  /\ pc = "leave" /\ ~stopping => waiting = {} \/ (dry /\ waiting \subseteq looked)

JoinInv == Kept /\ Rooted /\ OffTheQueue /\ Asked /\ Passed /\ PassedAll

\* A flight is of a chain, and only the trigger comes from the human.
LEMMA FlightKinds ==
  ASSUME NEW f \in Flights
  PROVE  f.chain \in Chains /\ (f.from = Human => f = Root(f.chain))
<1>1. CASE f \in [chain : Chains, from : {Human}, to : {Entry}]
  BY <1>1 DEF Root
<1>2. CASE \E r \in Routes : f \in [chain : Chains, from : {r[1]}, to : {r[2]}]
  BY <1>2, DrainAssumption
<1>3. QED BY <1>1, <1>2 DEF Flights

\* Whoever is stopping the Tower only starts a drain, or cuts one off.
LEMMA StoppingOnly ==
  ASSUME Stopping, ~Undone, Inv
  PROVE  /\ UNCHANGED <<queueVars, parked, alive, launching, landed, loopVars, pc, faults>>
         /\ stop => stop'
         /\ draining => draining'
         /\ cutting => cutting'
<1>1. UNCHANGED <<queueVars, parked, alive, launching, landed, loopVars, pc, faults>>
  BY StoppingApart
<1>2. (stop => stop') /\ (draining => draining') /\ (cutting => cutting')
  BY DEF Stopping, Looking, Settling, Undone, AskStop, AskUpdate, StopInstead, ReadAlive,
     ReadLaunching, ReadParked, HandOver, DropTower, JoinTower, CutOff, ExitCut,
     factoryVars
<1>3. QED BY <1>1, <1>2

\* With nothing flying there is a slot, and no agent is full.
LEMMA IdleFits ==
  ASSUME Inv, flying = {}
  PROVE  ~(Cardinality(alive) >= MaxRuns) /\ \A a : ~AgentIsFull(a)
<1>1. alive = {} BY DEF Inv, FlyingInv
<1>2. Cardinality(alive) = 0 /\ \A a : Cardinality({f \in alive : f.to = a}) = 0
  <2>1. \A a : {f \in alive : f.to = a} = {} BY <1>1
  <2>2. QED BY <1>1, <2>1, FS_EmptySet
<1>3. ~(0 >= MaxRuns) /\ ~(0 >= AgentCap) BY DrainAssumption
<1>4. QED BY <1>2, <1>3 DEF AgentIsFull

\* Every step holds on to what was queued.
LEMMA StepKept ==
  ASSUME Inv, JoinInv, [Next]_vars, ~Undone
  PROVE  Kept'
<1>1. CASE BeginPass
  BY <1>1 DEF JoinInv, Kept, Inv, TypeOK, queueVars, factoryVars, loopVars,
     ctlVars, BeginPass
<1>2. CASE EndPass
  BY <1>2 DEF JoinInv, Kept, Inv, TypeOK, queueVars, factoryVars, loopVars,
     ctlVars, EndPass
<1>3. ASSUME NEW f \in waiting, SkipFlight(f) PROVE Kept'
  BY <1>3 DEF JoinInv, Kept, Inv, TypeOK, queueVars, factoryVars, loopVars,
     ctlVars, SkipFlight, Fits, AtFlight
<1>4. ASSUME NEW f \in waiting, TakeFlight(f) PROVE Kept'
  BY <1>4 DEF JoinInv, Kept, Inv, TypeOK, queueVars, factoryVars, loopVars,
     ctlVars, TakeFlight, Fits, AtFlight
<1>5. CASE Count
  BY <1>5 DEF JoinInv, Kept, Inv, TypeOK, queueVars, factoryVars, loopVars,
     ctlVars, Count
<1>6. CASE Unqueue
  BY <1>6 DEF JoinInv, Kept, Inv, TypeOK, queueVars, factoryVars, loopVars,
     ctlVars, Unqueue
<1>7. ASSUME NEW f \in cur, PassBarrier(f) PROVE Kept'
  BY <1>7 DEF JoinInv, Kept, Inv, TypeOK, queueVars, factoryVars, loopVars,
     ctlVars, PassBarrier, Meets
<1>8. ASSUME NEW f \in cur, ParkFlight(f) PROVE Kept'
  <2>1. f \in Flights /\ f \in made /\ f.from # Human
    BY <1>8, DrainAssumption DEF JoinInv, Kept, Inv, TypeOK, HandInv, ParkFlight, Meets
  <2>2. f.chain \in Chains BY <2>1, FlightKinds
  <2>3. parked' = [parked EXCEPT ![f.chain] = @ \cup {f}] BY <1>8 DEF ParkFlight
  <2>4. \A c \in Chains : parked'[c] = IF c = f.chain THEN parked[c] \cup {f} ELSE parked[c]
    BY <2>2, <2>3 DEF Inv, TypeOK
  <2>5. UNCHANGED <<made, queue, waiting, taken, stopping, stop>> BY <1>8 DEF ParkFlight, queueVars, loopVars
  <2>6. ASSUME NEW c \in Chains, NEW g \in parked'[c] PROVE g \in made /\ g.chain = c /\ g.from # Human
    <3>1. g \in parked[c] \/ (g = f /\ c = f.chain) BY <2>4
    <3>2. CASE g \in parked[c] BY <3>2 DEF JoinInv, Kept
    <3>3. QED BY <2>1, <3>1, <3>2
  <2>7. QED BY <2>5, <2>6 DEF JoinInv, Kept
<1>9. CASE RefuseFlight
  BY <1>9 DEF JoinInv, Kept, Inv, TypeOK, queueVars, factoryVars, loopVars,
     ctlVars, RefuseFlight
<1>10. CASE LaunchFlight
  BY <1>10 DEF JoinInv, Kept, Inv, TypeOK, queueVars, factoryVars, loopVars,
     ctlVars, LaunchFlight
<1>11. CASE CountOff
  BY <1>11 DEF JoinInv, Kept, Inv, TypeOK, queueVars, factoryVars, loopVars,
     ctlVars, CountOff
<1>12. CASE LeaveDispatch
  BY <1>12 DEF JoinInv, Kept, Inv, TypeOK, queueVars, factoryVars, loopVars,
     ctlVars, LeaveDispatch
<1>13. CASE AskForMore
  BY <1>13 DEF JoinInv, Kept, Inv, TypeOK, queueVars, factoryVars, loopVars,
     ctlVars, AskForMore, Merged
<1>14. CASE Collect
  BY <1>14 DEF JoinInv, Kept, Inv, TypeOK, queueVars, factoryVars, loopVars,
     ctlVars, Collect, Merged
<1>15. CASE Abandon
  BY <1>15 DEF JoinInv, Kept, Inv, TypeOK, queueVars, factoryVars, loopVars,
     ctlVars, Abandon
<1>16. CASE NextDispatch
  BY <1>16 DEF JoinInv, Kept, Inv, TypeOK, queueVars, factoryVars, loopVars,
     ctlVars, NextDispatch
<1>17. ASSUME NEW r \in alive, LandRun(r) PROVE Kept'
  BY <1>17 DEF JoinInv, Kept, Inv, TypeOK, queueVars, factoryVars, loopVars,
     ctlVars, LandRun
<1>18. ASSUME NEW r \in alive, NEW f \in Flights, SendFlight(r, f) PROVE Kept'
  BY <1>18 DEF JoinInv, Kept, Inv, TypeOK, queueVars, factoryVars, loopVars,
     ctlVars, SendFlight, QueueFlight
<1>19. ASSUME NEW f \in Flights, Trigger(f) PROVE Kept'
  BY <1>19 DEF JoinInv, Kept, Inv, TypeOK, queueVars, factoryVars, loopVars,
     ctlVars, Trigger, QueueFlight
<1>20. ASSUME NEW f \in Flights, CancelFlight(f) PROVE Kept'
  BY <1>20 DEF JoinInv, Kept, Inv, TypeOK, queueVars, factoryVars, loopVars,
     ctlVars, CancelFlight
<1>21. CASE Stopping
  BY <1>21, StoppingOnly DEF JoinInv, Kept, Inv, TypeOK, queueVars,
     factoryVars, loopVars, ctlVars
<1>22. CASE UNCHANGED vars
  BY <1>22 DEF JoinInv, Kept, Inv, TypeOK, vars, queueVars, factoryVars,
     loopVars, ctlVars
<1>23. CASE Dispatcher
  BY <1>1, <1>2, <1>3, <1>4, <1>5, <1>6, <1>7, <1>8, <1>9, <1>10, <1>11,
     <1>12, <1>13, <1>14, <1>15, <1>16, <1>23 DEF Dispatcher, Undone
<1>24. QED
  BY <1>17, <1>18, <1>19, <1>20, <1>21, <1>22, <1>23 DEF Next, Runs, People

\* Every step keeps the trigger of what was sent taken.
LEMMA StepRooted ==
  ASSUME Inv, JoinInv, [Next]_vars, ~Undone
  PROVE  Rooted'
<1>1. CASE BeginPass
  BY <1>1 DEF JoinInv, Kept, Rooted, queueVars, factoryVars, loopVars,
     ctlVars, BeginPass
<1>2. CASE EndPass
  BY <1>2 DEF JoinInv, Kept, Rooted, queueVars, factoryVars, loopVars,
     ctlVars, EndPass
<1>3. ASSUME NEW f \in waiting, SkipFlight(f) PROVE Rooted'
  BY <1>3 DEF JoinInv, Kept, Rooted, queueVars, factoryVars, loopVars,
     ctlVars, SkipFlight, Fits, AtFlight
<1>4. ASSUME NEW f \in waiting, TakeFlight(f) PROVE Rooted'
  BY <1>4 DEF JoinInv, Kept, Rooted, queueVars, factoryVars, loopVars,
     ctlVars, TakeFlight, Fits, AtFlight
<1>5. CASE Count
  BY <1>5 DEF JoinInv, Kept, Rooted, queueVars, factoryVars, loopVars,
     ctlVars, Count
<1>6. CASE Unqueue
  BY <1>6 DEF JoinInv, Kept, Rooted, queueVars, factoryVars, loopVars,
     ctlVars, Unqueue
<1>7. ASSUME NEW f \in cur, PassBarrier(f) PROVE Rooted'
  BY <1>7 DEF JoinInv, Kept, Rooted, queueVars, factoryVars, loopVars,
     ctlVars, PassBarrier, Meets
<1>8. ASSUME NEW f \in cur, ParkFlight(f) PROVE Rooted'
  BY <1>8 DEF JoinInv, Kept, Rooted, queueVars, factoryVars, loopVars,
     ctlVars, ParkFlight, Meets
<1>9. CASE RefuseFlight
  BY <1>9 DEF JoinInv, Kept, Rooted, queueVars, factoryVars, loopVars,
     ctlVars, RefuseFlight
<1>10. CASE LaunchFlight
  BY <1>10 DEF JoinInv, Kept, Rooted, queueVars, factoryVars, loopVars,
     ctlVars, LaunchFlight
<1>11. CASE CountOff
  BY <1>11 DEF JoinInv, Kept, Rooted, queueVars, factoryVars, loopVars,
     ctlVars, CountOff
<1>12. CASE LeaveDispatch
  BY <1>12 DEF JoinInv, Kept, Rooted, queueVars, factoryVars, loopVars,
     ctlVars, LeaveDispatch
<1>13. CASE AskForMore
  BY <1>13 DEF JoinInv, Kept, Rooted, queueVars, factoryVars, loopVars,
     ctlVars, AskForMore, Merged
<1>14. CASE Collect
  BY <1>14 DEF JoinInv, Kept, Rooted, queueVars, factoryVars, loopVars,
     ctlVars, Collect, Merged
<1>15. CASE Abandon
  BY <1>15 DEF JoinInv, Kept, Rooted, queueVars, factoryVars, loopVars,
     ctlVars, Abandon
<1>16. CASE NextDispatch
  BY <1>16 DEF JoinInv, Kept, Rooted, queueVars, factoryVars, loopVars,
     ctlVars, NextDispatch
<1>17. ASSUME NEW r \in alive, LandRun(r) PROVE Rooted'
  BY <1>17 DEF JoinInv, Kept, Rooted, queueVars, factoryVars, loopVars,
     ctlVars, LandRun
<1>18. ASSUME NEW r \in alive, NEW f \in Flights, SendFlight(r, f) PROVE Rooted'
  <2>1. r \in made \ queue
    BY DEF JoinInv, Kept, OffTheQueue, Inv, FlyingInv, HandInv, Carrying, InHand
  <2>2. r \in Flights /\ f.chain = r.chain /\ f \notin made /\ made' = made \cup {f} /\ queue' = queue \cup {f}
    BY <1>18 DEF SendFlight, QueueFlight, Inv, TypeOK
  <2>3. Root(r.chain) \in made \ queue
    BY <2>1, <2>2, FlightKinds DEF JoinInv, Rooted
  <2>4. QED BY <2>2, <2>3 DEF JoinInv, Kept, Rooted
<1>19. ASSUME NEW f \in Flights, Trigger(f) PROVE Rooted'
  BY <1>19 DEF JoinInv, Kept, Rooted, queueVars, factoryVars, loopVars,
     ctlVars, Trigger, QueueFlight
<1>20. ASSUME NEW f \in Flights, CancelFlight(f) PROVE Rooted'
  BY <1>20 DEF JoinInv, Kept, Rooted, queueVars, factoryVars, loopVars,
     ctlVars, CancelFlight
<1>21. CASE Stopping
  BY <1>21, StoppingOnly DEF JoinInv, Kept, Rooted, queueVars, factoryVars,
     loopVars, ctlVars
<1>22. CASE UNCHANGED vars
  BY <1>22 DEF JoinInv, Kept, Rooted, vars, queueVars, factoryVars, loopVars,
     ctlVars
<1>23. CASE Dispatcher
  BY <1>1, <1>2, <1>3, <1>4, <1>5, <1>6, <1>7, <1>8, <1>9, <1>10, <1>11,
     <1>12, <1>13, <1>14, <1>15, <1>16, <1>23 DEF Dispatcher, Undone
<1>24. QED
  BY <1>17, <1>18, <1>19, <1>20, <1>21, <1>22, <1>23 DEF Next, Runs, People

\* Every step keeps what was taken off the queue.
LEMMA StepOffTheQueue ==
  ASSUME Inv, JoinInv, [Next]_vars, ~Undone
  PROVE  OffTheQueue'
<1>1. CASE BeginPass
  BY <1>1 DEF JoinInv, Kept, OffTheQueue, Inv, HandInv, InHand, Carrying,
     FlyingInv, queueVars, factoryVars, loopVars, ctlVars, BeginPass
<1>2. CASE EndPass
  BY <1>2 DEF JoinInv, Kept, OffTheQueue, Inv, HandInv, InHand, Carrying,
     FlyingInv, queueVars, factoryVars, loopVars, ctlVars, EndPass
<1>3. ASSUME NEW f \in waiting, SkipFlight(f) PROVE OffTheQueue'
  BY <1>3 DEF JoinInv, Kept, OffTheQueue, Inv, HandInv, InHand, Carrying,
     FlyingInv, queueVars, factoryVars, loopVars, ctlVars, SkipFlight, Fits,
     AtFlight
<1>4. ASSUME NEW f \in waiting, TakeFlight(f) PROVE OffTheQueue'
  BY <1>4 DEF JoinInv, Kept, OffTheQueue, Inv, HandInv, InHand, Carrying,
     FlyingInv, queueVars, factoryVars, loopVars, ctlVars, TakeFlight, Fits,
     AtFlight
<1>5. CASE Count
  BY <1>5 DEF JoinInv, Kept, OffTheQueue, Inv, HandInv, InHand, Carrying,
     FlyingInv, queueVars, factoryVars, loopVars, ctlVars, Count
<1>6. CASE Unqueue
  BY <1>6 DEF JoinInv, Kept, OffTheQueue, Inv, HandInv, InHand, Carrying,
     FlyingInv, queueVars, factoryVars, loopVars, ctlVars, Unqueue
<1>7. ASSUME NEW f \in cur, PassBarrier(f) PROVE OffTheQueue'
  BY <1>7 DEF JoinInv, Kept, OffTheQueue, Inv, HandInv, InHand, Carrying,
     FlyingInv, queueVars, factoryVars, loopVars, ctlVars, PassBarrier, Meets
<1>8. ASSUME NEW f \in cur, ParkFlight(f) PROVE OffTheQueue'
  BY <1>8 DEF JoinInv, Kept, OffTheQueue, Inv, HandInv, InHand, Carrying,
     FlyingInv, queueVars, factoryVars, loopVars, ctlVars, ParkFlight, Meets
<1>9. CASE RefuseFlight
  BY <1>9 DEF JoinInv, Kept, OffTheQueue, Inv, HandInv, InHand, Carrying,
     FlyingInv, queueVars, factoryVars, loopVars, ctlVars, RefuseFlight
<1>10. CASE LaunchFlight
  BY <1>10 DEF JoinInv, Kept, OffTheQueue, Inv, HandInv, InHand, Carrying,
     FlyingInv, queueVars, factoryVars, loopVars, ctlVars, LaunchFlight
<1>11. CASE CountOff
  BY <1>11 DEF JoinInv, Kept, OffTheQueue, Inv, HandInv, InHand, Carrying,
     FlyingInv, queueVars, factoryVars, loopVars, ctlVars, CountOff
<1>12. CASE LeaveDispatch
  BY <1>12 DEF JoinInv, Kept, OffTheQueue, Inv, HandInv, InHand, Carrying,
     FlyingInv, queueVars, factoryVars, loopVars, ctlVars, LeaveDispatch
<1>13. CASE AskForMore
  BY <1>13 DEF JoinInv, Kept, OffTheQueue, Inv, HandInv, InHand, Carrying,
     FlyingInv, queueVars, factoryVars, loopVars, ctlVars, AskForMore, Merged
<1>14. CASE Collect
  BY <1>14 DEF JoinInv, Kept, OffTheQueue, Inv, HandInv, InHand, Carrying,
     FlyingInv, queueVars, factoryVars, loopVars, ctlVars, Collect, Merged
<1>15. CASE Abandon
  BY <1>15 DEF JoinInv, Kept, OffTheQueue, Inv, HandInv, InHand, Carrying,
     FlyingInv, queueVars, factoryVars, loopVars, ctlVars, Abandon
<1>16. CASE NextDispatch
  BY <1>16 DEF JoinInv, Kept, OffTheQueue, Inv, HandInv, InHand, Carrying,
     FlyingInv, queueVars, factoryVars, loopVars, ctlVars, NextDispatch
<1>17. ASSUME NEW r \in alive, LandRun(r) PROVE OffTheQueue'
  BY <1>17 DEF JoinInv, Kept, OffTheQueue, Inv, HandInv, InHand, Carrying,
     FlyingInv, queueVars, factoryVars, loopVars, ctlVars, LandRun
<1>18. ASSUME NEW r \in alive, NEW f \in Flights, SendFlight(r, f) PROVE OffTheQueue'
  BY <1>18 DEF JoinInv, Kept, OffTheQueue, loopVars, SendFlight, QueueFlight
<1>19. ASSUME NEW f \in Flights, Trigger(f) PROVE OffTheQueue'
  BY <1>19 DEF JoinInv, Kept, OffTheQueue, Inv, HandInv, InHand, Carrying,
     FlyingInv, queueVars, factoryVars, loopVars, ctlVars, Trigger,
     QueueFlight
<1>20. ASSUME NEW f \in Flights, CancelFlight(f) PROVE OffTheQueue'
  BY <1>20 DEF JoinInv, Kept, OffTheQueue, Inv, HandInv, InHand, Carrying,
     FlyingInv, queueVars, factoryVars, loopVars, ctlVars, CancelFlight
<1>21. CASE Stopping
  BY <1>21, StoppingOnly DEF JoinInv, Kept, OffTheQueue, Inv, HandInv, InHand,
     Carrying, FlyingInv, queueVars, factoryVars, loopVars, ctlVars
<1>22. CASE UNCHANGED vars
  BY <1>22 DEF JoinInv, Kept, OffTheQueue, Inv, HandInv, InHand, Carrying,
     FlyingInv, vars, queueVars, factoryVars, loopVars, ctlVars
<1>23. CASE Dispatcher
  BY <1>1, <1>2, <1>3, <1>4, <1>5, <1>6, <1>7, <1>8, <1>9, <1>10, <1>11,
     <1>12, <1>13, <1>14, <1>15, <1>16, <1>23 DEF Dispatcher, Undone
<1>24. QED
  BY <1>17, <1>18, <1>19, <1>20, <1>21, <1>22, <1>23 DEF Next, Runs, People

\* Every step keeps what was sent asked for.
LEMMA StepAsked ==
  ASSUME Inv, JoinInv, [Next]_vars, ~Undone
  PROVE  Asked'
<1>1. CASE BeginPass
  BY <1>1 DEF JoinInv, Kept, Asked, Inv, FlyingInv, HandInv, InHand, Carrying,
     queueVars, factoryVars, loopVars, ctlVars, BeginPass
<1>2. CASE EndPass
  BY <1>2 DEF JoinInv, Kept, Asked, Inv, FlyingInv, HandInv, InHand, Carrying,
     queueVars, factoryVars, loopVars, ctlVars, EndPass
<1>3. ASSUME NEW f \in waiting, SkipFlight(f) PROVE Asked'
  BY <1>3 DEF JoinInv, Kept, Asked, Inv, FlyingInv, HandInv, InHand, Carrying,
     queueVars, factoryVars, loopVars, ctlVars, SkipFlight, Fits, AtFlight
<1>4. ASSUME NEW f \in waiting, TakeFlight(f) PROVE Asked'
  BY <1>4 DEF JoinInv, Kept, Asked, Inv, FlyingInv, HandInv, InHand, Carrying,
     queueVars, factoryVars, loopVars, ctlVars, TakeFlight, Fits, AtFlight
<1>5. CASE Count
  BY <1>5 DEF JoinInv, Kept, Asked, Inv, FlyingInv, HandInv, InHand, Carrying,
     queueVars, factoryVars, loopVars, ctlVars, Count
<1>6. CASE Unqueue
  BY <1>6 DEF JoinInv, Kept, Asked, Inv, FlyingInv, HandInv, InHand, Carrying,
     queueVars, factoryVars, loopVars, ctlVars, Unqueue
<1>7. ASSUME NEW f \in cur, PassBarrier(f) PROVE Asked'
  BY <1>7 DEF JoinInv, Kept, Asked, Inv, FlyingInv, HandInv, InHand, Carrying,
     queueVars, factoryVars, loopVars, ctlVars, PassBarrier, Meets
<1>8. ASSUME NEW f \in cur, ParkFlight(f) PROVE Asked'
  BY <1>8 DEF JoinInv, Kept, Asked, Inv, FlyingInv, HandInv, InHand, Carrying,
     queueVars, factoryVars, loopVars, ctlVars, ParkFlight, Meets
<1>9. CASE RefuseFlight
  BY <1>9 DEF JoinInv, Kept, Asked, Inv, FlyingInv, HandInv, InHand, Carrying,
     queueVars, factoryVars, loopVars, ctlVars, RefuseFlight
<1>10. CASE LaunchFlight
  BY <1>10 DEF JoinInv, Kept, Asked, Inv, FlyingInv, HandInv, InHand,
     Carrying, queueVars, factoryVars, loopVars, ctlVars, LaunchFlight
<1>11. CASE CountOff
  BY <1>11 DEF JoinInv, Kept, Asked, Inv, FlyingInv, HandInv, InHand,
     Carrying, queueVars, factoryVars, loopVars, ctlVars, CountOff
<1>12. CASE LeaveDispatch
  BY <1>12 DEF JoinInv, Kept, Asked, Inv, FlyingInv, HandInv, InHand,
     Carrying, queueVars, factoryVars, loopVars, ctlVars, LeaveDispatch
<1>13. CASE AskForMore
  BY <1>13 DEF JoinInv, Kept, Asked, Inv, FlyingInv, HandInv, InHand,
     Carrying, queueVars, factoryVars, loopVars, ctlVars, AskForMore, Merged
<1>14. CASE Collect
  BY <1>14 DEF JoinInv, Kept, Asked, Inv, FlyingInv, HandInv, InHand,
     Carrying, queueVars, factoryVars, loopVars, ctlVars, Collect, Merged
<1>15. CASE Abandon
  BY <1>15 DEF JoinInv, Kept, Asked, Inv, FlyingInv, HandInv, InHand,
     Carrying, queueVars, factoryVars, loopVars, ctlVars, Abandon
<1>16. CASE NextDispatch
  BY <1>16 DEF JoinInv, Kept, Asked, Inv, FlyingInv, HandInv, InHand,
     Carrying, queueVars, factoryVars, loopVars, ctlVars, NextDispatch
<1>17. ASSUME NEW r \in alive, LandRun(r) PROVE Asked'
  BY <1>17 DEF JoinInv, Kept, Asked, Inv, FlyingInv, HandInv, InHand,
     Carrying, queueVars, factoryVars, loopVars, ctlVars, LandRun
<1>18. ASSUME NEW r \in alive, NEW f \in Flights, SendFlight(r, f) PROVE Asked'
  BY <1>18 DEF JoinInv, Kept, Asked, Inv, FlyingInv, HandInv, InHand,
     Carrying, queueVars, factoryVars, loopVars, ctlVars, SendFlight,
     QueueFlight
<1>19. ASSUME NEW f \in Flights, Trigger(f) PROVE Asked'
  BY <1>19 DEF JoinInv, Kept, Asked, Inv, FlyingInv, HandInv, InHand,
     Carrying, queueVars, factoryVars, loopVars, ctlVars, Trigger, QueueFlight
<1>20. ASSUME NEW f \in Flights, CancelFlight(f) PROVE Asked'
  BY <1>20 DEF JoinInv, Kept, Asked, Inv, FlyingInv, HandInv, InHand,
     Carrying, queueVars, factoryVars, loopVars, ctlVars, CancelFlight
<1>21. CASE Stopping
  BY <1>21, StoppingOnly DEF JoinInv, Kept, Asked, Inv, FlyingInv, HandInv,
     InHand, Carrying, queueVars, factoryVars, loopVars, ctlVars
<1>22. CASE UNCHANGED vars
  BY <1>22 DEF JoinInv, Kept, Asked, Inv, FlyingInv, HandInv, InHand,
     Carrying, vars, queueVars, factoryVars, loopVars, ctlVars
<1>23. CASE Dispatcher
  BY <1>1, <1>2, <1>3, <1>4, <1>5, <1>6, <1>7, <1>8, <1>9, <1>10, <1>11,
     <1>12, <1>13, <1>14, <1>15, <1>16, <1>23 DEF Dispatcher, Undone
<1>24. QED
  BY <1>17, <1>18, <1>19, <1>20, <1>21, <1>22, <1>23 DEF Next, Runs, People

\* Every step keeps a pass complete.
LEMMA StepPassedAll ==
  ASSUME Inv, JoinInv, [Next]_vars, ~Undone
  PROVE  PassedAll'
<1>1. CASE BeginPass
  BY <1>1 DEF JoinInv, PassedAll, Inv, HandInv, InHand, Carrying, queueVars,
     factoryVars, loopVars, ctlVars, BeginPass
<1>2. CASE EndPass
  BY <1>2, IdleFits DEF JoinInv, PassedAll, loopVars, EndPass
<1>3. ASSUME NEW f \in waiting, SkipFlight(f) PROVE PassedAll'
  BY <1>3 DEF JoinInv, PassedAll, Inv, HandInv, InHand, Carrying, queueVars,
     factoryVars, loopVars, ctlVars, SkipFlight, Fits, AtFlight
<1>4. ASSUME NEW f \in waiting, TakeFlight(f) PROVE PassedAll'
  BY <1>4 DEF JoinInv, PassedAll, Inv, HandInv, InHand, Carrying, queueVars,
     factoryVars, loopVars, ctlVars, TakeFlight, Fits, AtFlight
<1>5. CASE Count
  BY <1>5 DEF JoinInv, PassedAll, Inv, HandInv, InHand, Carrying, queueVars,
     factoryVars, loopVars, ctlVars, Count
<1>6. CASE Unqueue
  BY <1>6 DEF JoinInv, PassedAll, Inv, HandInv, InHand, Carrying, queueVars,
     factoryVars, loopVars, ctlVars, Unqueue
<1>7. ASSUME NEW f \in cur, PassBarrier(f) PROVE PassedAll'
  BY <1>7 DEF JoinInv, PassedAll, Inv, HandInv, InHand, Carrying, queueVars,
     factoryVars, loopVars, ctlVars, PassBarrier, Meets
<1>8. ASSUME NEW f \in cur, ParkFlight(f) PROVE PassedAll'
  BY <1>8 DEF JoinInv, PassedAll, Inv, HandInv, InHand, Carrying, queueVars,
     factoryVars, loopVars, ctlVars, ParkFlight, Meets
<1>9. CASE RefuseFlight
  BY <1>9 DEF JoinInv, PassedAll, Inv, HandInv, InHand, Carrying, queueVars,
     factoryVars, loopVars, ctlVars, RefuseFlight
<1>10. CASE LaunchFlight
  BY <1>10 DEF JoinInv, PassedAll, Inv, HandInv, InHand, Carrying, queueVars,
     factoryVars, loopVars, ctlVars, LaunchFlight
<1>11. CASE CountOff
  BY <1>11 DEF JoinInv, PassedAll, Inv, HandInv, InHand, Carrying, queueVars,
     factoryVars, loopVars, ctlVars, CountOff
<1>12. CASE LeaveDispatch
  BY <1>12 DEF JoinInv, PassedAll, Inv, HandInv, InHand, Carrying, queueVars,
     factoryVars, loopVars, ctlVars, LeaveDispatch
<1>13. CASE AskForMore
  BY <1>13 DEF JoinInv, PassedAll, Inv, HandInv, InHand, Carrying, queueVars,
     factoryVars, loopVars, ctlVars, AskForMore, Merged
<1>14. CASE Collect
  BY <1>14 DEF JoinInv, PassedAll, Inv, HandInv, InHand, Carrying, queueVars,
     factoryVars, loopVars, ctlVars, Collect, Merged
<1>15. CASE Abandon
  BY <1>15 DEF JoinInv, PassedAll, Inv, HandInv, InHand, Carrying, queueVars,
     factoryVars, loopVars, ctlVars, Abandon
<1>16. CASE NextDispatch
  BY <1>16 DEF JoinInv, PassedAll, Inv, HandInv, InHand, Carrying, queueVars,
     factoryVars, loopVars, ctlVars, NextDispatch
<1>17. ASSUME NEW r \in alive, LandRun(r) PROVE PassedAll'
  BY <1>17 DEF JoinInv, PassedAll, Inv, HandInv, InHand, Carrying, queueVars,
     factoryVars, loopVars, ctlVars, LandRun
<1>18. ASSUME NEW r \in alive, NEW f \in Flights, SendFlight(r, f) PROVE PassedAll'
  BY <1>18 DEF JoinInv, PassedAll, Inv, HandInv, InHand, Carrying, queueVars,
     factoryVars, loopVars, ctlVars, SendFlight, QueueFlight
<1>19. ASSUME NEW f \in Flights, Trigger(f) PROVE PassedAll'
  BY <1>19 DEF JoinInv, PassedAll, Inv, HandInv, InHand, Carrying, queueVars,
     factoryVars, loopVars, ctlVars, Trigger, QueueFlight
<1>20. ASSUME NEW f \in Flights, CancelFlight(f) PROVE PassedAll'
  BY <1>20 DEF JoinInv, PassedAll, Inv, HandInv, InHand, Carrying, queueVars,
     factoryVars, loopVars, ctlVars, CancelFlight
<1>21. CASE Stopping
  BY <1>21, StoppingOnly DEF JoinInv, PassedAll, Inv, HandInv, InHand,
     Carrying, queueVars, factoryVars, loopVars, ctlVars
<1>22. CASE UNCHANGED vars
  BY <1>22 DEF JoinInv, PassedAll, Inv, HandInv, InHand, Carrying, vars,
     queueVars, factoryVars, loopVars, ctlVars
<1>23. CASE Dispatcher
  BY <1>1, <1>2, <1>3, <1>4, <1>5, <1>6, <1>7, <1>8, <1>9, <1>10, <1>11,
     <1>12, <1>13, <1>14, <1>15, <1>16, <1>23 DEF Dispatcher, Undone
<1>24. QED
  BY <1>17, <1>18, <1>19, <1>20, <1>21, <1>22, <1>23 DEF Next, Runs, People

\* Every step keeps what the drain passed over held back.
LEMMA StepPassed ==
  ASSUME Inv, JoinInv, [Next]_vars, ~Undone
  PROVE  Passed'
<1>1. CASE BeginPass
  BY <1>1 DEF JoinInv, Passed, PassedOver, Idle, MayStartWhileDraining,
     Holding, Missing, Inv, HandInv, InHand, Carrying, queueVars, factoryVars,
     loopVars, ctlVars, BeginPass
<1>2. CASE EndPass
  BY <1>2 DEF JoinInv, Passed, PassedOver, Idle, MayStartWhileDraining,
     Holding, Missing, Inv, HandInv, InHand, Carrying, queueVars, factoryVars,
     loopVars, ctlVars, EndPass
<1>3. ASSUME NEW f \in waiting, SkipFlight(f) PROVE Passed'
  <2>1. UNCHANGED <<dry, flying, waiting, draining, cutting, parked, pc>> /\ pc = "look" /\ looked' = looked \cup {f}
    BY <1>3 DEF SkipFlight, factoryVars
  <2>2. \A g : MayStartWhileDraining(g)' = MayStartWhileDraining(g)
    BY <2>1 DEF MayStartWhileDraining, Holding, Missing
  <2>3. Idle => draining /\ ~MayStartWhileDraining(f)
    BY <1>3, IdleFits DEF Idle, SkipFlight, Fits
  <2>4. QED BY <2>1, <2>2, <2>3 DEF JoinInv, Passed, PassedOver, Idle, InHand, Carrying
<1>4. ASSUME NEW f \in waiting, TakeFlight(f) PROVE Passed'
  BY <1>4 DEF JoinInv, Passed, PassedOver, Idle, MayStartWhileDraining,
     Holding, Missing, Inv, HandInv, InHand, Carrying, queueVars, factoryVars,
     loopVars, ctlVars, TakeFlight, Fits, AtFlight
<1>5. CASE Count
  BY <1>5 DEF JoinInv, Passed, PassedOver, Idle, MayStartWhileDraining,
     Holding, Missing, Inv, HandInv, InHand, Carrying, queueVars, factoryVars,
     loopVars, ctlVars, Count
<1>6. CASE Unqueue
  BY <1>6 DEF JoinInv, Passed, PassedOver, Idle, MayStartWhileDraining,
     Holding, Missing, Inv, HandInv, InHand, Carrying, queueVars, factoryVars,
     loopVars, ctlVars, Unqueue
<1>7. ASSUME NEW f \in cur, PassBarrier(f) PROVE Passed'
  <2>1. /\ UNCHANGED <<dry, flying, waiting, looked, draining, cutting>>
        /\ pc = "unqueued" /\ pc' = "admitting" /\ f \in Flights
        /\ parked' = parked \/ parked' = [parked EXCEPT ![f.chain] = {}]
    BY <1>7 DEF PassBarrier, loopVars, Inv, TypeOK
  <2>2. ASSUME NEW g, g.chain \in Chains, ~MayStartWhileDraining(g) PROVE ~MayStartWhileDraining(g)'
    BY <2>1, <2>2 DEF MayStartWhileDraining, Holding, Missing, Inv, TypeOK
  <2>3. \A g \in waiting : g.chain \in Chains BY FlightKinds DEF Inv, TypeOK
  <2>4. QED BY <2>1, <2>2, <2>3 DEF JoinInv, Passed, PassedOver, Idle, InHand, Carrying
<1>8. ASSUME NEW f \in cur, ParkFlight(f) PROVE Passed'
  <2>1. /\ UNCHANGED <<dry, flying, waiting, looked, draining, cutting>>
        /\ pc = "unqueued" /\ pc' = "counted off" /\ f \in Flights
        /\ parked' = [parked EXCEPT ![f.chain] = @ \cup {f}]
    BY <1>8 DEF ParkFlight, loopVars, Inv, TypeOK
  <2>2. ASSUME NEW g, g.chain \in Chains, ~MayStartWhileDraining(g),
               cutting \/ MayStartWhileDraining(f)
        PROVE  ~MayStartWhileDraining(g)'
    <3>1. f.chain \in Chains /\ parked \in [Chains -> SUBSET Flights]
      BY <2>1, FlightKinds DEF Inv, TypeOK
    <3>2. Missing(g.chain)' \subseteq Missing(g.chain)
      BY <2>1, <2>2, <3>1 DEF Missing
    <3>3. CASE cutting BY <2>1, <3>3 DEF MayStartWhileDraining
    <3>4. CASE Holding(g.chain) BY <2>1, <2>2, <3>2, <3>4 DEF MayStartWhileDraining
    <3>5. CASE ~Holding(g.chain) /\ Holding(f.chain)
      <4>1. parked'[g.chain] = parked[g.chain] BY <2>1, <2>2, <3>1, <3>5
      <4>2. QED BY <3>5, <4>1 DEF MayStartWhileDraining, Holding
    <3>6. QED BY <2>2, <3>3, <3>4, <3>5 DEF MayStartWhileDraining
  <2>3. \A g \in waiting : g.chain \in Chains BY FlightKinds DEF Inv, TypeOK
  <2>4. Idle /\ PassedOver # {} => cutting \/ MayStartWhileDraining(f)
    BY <2>1, <1>8 DEF JoinInv, Passed
  <2>5. QED BY <2>1, <2>2, <2>3, <2>4 DEF JoinInv, Passed, PassedOver, Idle, InHand, Carrying
<1>9. CASE RefuseFlight
  BY <1>9 DEF JoinInv, Passed, PassedOver, Idle, MayStartWhileDraining,
     Holding, Missing, Inv, HandInv, InHand, Carrying, queueVars, factoryVars,
     loopVars, ctlVars, RefuseFlight
<1>10. CASE LaunchFlight
  BY <1>10 DEF JoinInv, Passed, PassedOver, Idle, MayStartWhileDraining,
     Holding, Missing, Inv, HandInv, InHand, Carrying, queueVars, factoryVars,
     loopVars, ctlVars, LaunchFlight
<1>11. CASE CountOff
  BY <1>11 DEF JoinInv, Passed, PassedOver, Idle, MayStartWhileDraining,
     Holding, Missing, Inv, HandInv, InHand, Carrying, queueVars, factoryVars,
     loopVars, ctlVars, CountOff
<1>12. CASE LeaveDispatch
  BY <1>12 DEF JoinInv, Passed, PassedOver, Idle, MayStartWhileDraining,
     Holding, Missing, Inv, HandInv, InHand, Carrying, queueVars, factoryVars,
     loopVars, ctlVars, LeaveDispatch
<1>13. CASE AskForMore
  BY <1>13 DEF JoinInv, Passed, PassedOver, Idle, MayStartWhileDraining,
     Holding, Missing, Inv, HandInv, InHand, Carrying, queueVars, factoryVars,
     loopVars, ctlVars, AskForMore, Merged
<1>14. CASE Collect
  BY <1>14 DEF JoinInv, Passed, PassedOver, Idle, MayStartWhileDraining,
     Holding, Missing, Inv, HandInv, InHand, Carrying, queueVars, factoryVars,
     loopVars, ctlVars, Collect, Merged
<1>15. CASE Abandon
  BY <1>15 DEF JoinInv, Passed, PassedOver, Idle, MayStartWhileDraining,
     Holding, Missing, Inv, HandInv, InHand, Carrying, queueVars, factoryVars,
     loopVars, ctlVars, Abandon
<1>16. CASE NextDispatch
  BY <1>16 DEF JoinInv, Passed, PassedOver, Idle, MayStartWhileDraining,
     Holding, Missing, Inv, HandInv, InHand, Carrying, queueVars, factoryVars,
     loopVars, ctlVars, NextDispatch
<1>17. ASSUME NEW r \in alive, LandRun(r) PROVE Passed'
  BY <1>17 DEF JoinInv, Passed, PassedOver, Idle, MayStartWhileDraining,
     Holding, Missing, Inv, HandInv, InHand, Carrying, queueVars, factoryVars,
     loopVars, ctlVars, LandRun
<1>18. ASSUME NEW r \in alive, NEW f \in Flights, SendFlight(r, f) PROVE Passed'
  BY <1>18 DEF JoinInv, Passed, PassedOver, Idle, MayStartWhileDraining,
     Holding, Missing, Inv, HandInv, InHand, Carrying, queueVars, factoryVars,
     loopVars, ctlVars, SendFlight, QueueFlight
<1>19. ASSUME NEW f \in Flights, Trigger(f) PROVE Passed'
  BY <1>19 DEF JoinInv, Passed, PassedOver, Idle, MayStartWhileDraining,
     Holding, Missing, Inv, HandInv, InHand, Carrying, queueVars, factoryVars,
     loopVars, ctlVars, Trigger, QueueFlight
<1>20. ASSUME NEW f \in Flights, CancelFlight(f) PROVE Passed'
  BY <1>20 DEF JoinInv, Passed, PassedOver, Idle, MayStartWhileDraining,
     Holding, Missing, Inv, HandInv, InHand, Carrying, queueVars, factoryVars,
     loopVars, ctlVars, CancelFlight
<1>21. CASE Stopping
  <2>1. /\ UNCHANGED <<parked, dry, flying, waiting, looked, pc, cur>>
        /\ (draining => draining') /\ (cutting => cutting')
    BY <1>21, StoppingOnly DEF loopVars
  <2>2. \A g : MayStartWhileDraining(g)' => MayStartWhileDraining(g)
    BY <2>1 DEF MayStartWhileDraining, Holding, Missing
  <2>3. \A g : MayStartWhileDraining(g) => cutting' \/ MayStartWhileDraining(g)'
    BY <2>1 DEF MayStartWhileDraining, Holding, Missing
  <2>4. QED BY <2>1, <2>2, <2>3 DEF JoinInv, Passed, PassedOver, Idle
<1>22. CASE UNCHANGED vars
  BY <1>22 DEF JoinInv, Passed, PassedOver, Idle, MayStartWhileDraining,
     Holding, Missing, Inv, HandInv, InHand, Carrying, vars, queueVars,
     factoryVars, loopVars, ctlVars
<1>23. CASE Dispatcher
  BY <1>1, <1>2, <1>3, <1>4, <1>5, <1>6, <1>7, <1>8, <1>9, <1>10, <1>11,
     <1>12, <1>13, <1>14, <1>15, <1>16, <1>23 DEF Dispatcher, Undone
<1>24. QED
  BY <1>17, <1>18, <1>19, <1>20, <1>21, <1>22, <1>23 DEF Next, Runs, People


\* Every step keeps the invariant, unless it is one of the three.
LEMMA StepJoin ==
  ASSUME Inv, JoinInv, [Next]_vars, ~Undone
  PROVE  JoinInv'
  BY StepKept, StepRooted, StepOffTheQueue, StepAsked, StepPassed, StepPassedAll DEF JoinInv

\* A dispatch that is left has nothing queued that a rendezvous waits for.
LEMMA NothingQueuedFor ==
  ASSUME Inv, JoinInv, pc = "leave", ~stopping, ~cutting,
         NEW c \in Chains, parked[c] # {}
  PROVE  ~QueuedFor(c)
<1>1. SUFFICES ASSUME NEW f \in queue, f.chain = c, f.to \in Missing(c) \cup {Joined}
               PROVE  FALSE
  BY DEF QueuedFor
<1>2. flying = {} BY DEF Inv, FlyingInv
<1>3. f \notin waiting
  <2>1. MayStartWhileDraining(f) BY <1>1 DEF MayStartWhileDraining, Holding
  <2>2. QED BY <1>2, <2>1 DEF JoinInv, Passed, PassedAll, PassedOver, Idle, InHand, Carrying
<1>4. f \notin taken BY DEF JoinInv, OffTheQueue
<1>5. f.from = Human BY <1>2, <1>3, <1>4 DEF JoinInv, Asked
<1>6. f = Root(c) BY <1>1, <1>5, FlightKinds DEF Inv, TypeOK
<1>7. PICK g \in parked[c] : TRUE OBVIOUS
<1>8. Root(c) \notin queue BY <1>7 DEF JoinInv, Kept, Rooted
<1>9. QED BY <1>6, <1>8

\* A rendezvous is given up only with none of its own work queued, however the
\* drain, the runs and the people interleave, as long as no drain is called off
\* and no flight taken is left on the queue.
THEOREM DeadUnlessUndone ==
  Spec /\ [][~Undone]_vars => OnlyDeadAreAbandoned
<1>1. Init => Inv /\ JoinInv
  <2>1. Init => Inv BY InitInv
  <2>2. Init => JoinInv
    BY DEF Init, JoinInv, Kept, Rooted, OffTheQueue, Asked, Passed, PassedAll, PassedOver, InHand, Carrying
  <2>3. QED BY <2>1, <2>2
<1>2. (Inv /\ JoinInv) /\ [Next]_vars /\ [~Undone]_vars => (Inv /\ JoinInv)'
  <2>1. SUFFICES ASSUME Inv, JoinInv, [Next]_vars, [~Undone]_vars PROVE Inv' /\ JoinInv'
    OBVIOUS
  <2>2. Inv' BY <2>1, StepInv
  <2>3. CASE ~Undone BY <2>1, <2>3, <2>2, StepJoin
  <2>4. CASE UNCHANGED vars
    BY <2>1, <2>4, <2>2 DEF JoinInv, Kept, Rooted, OffTheQueue, Asked, Passed, PassedAll, PassedOver, Idle,
       MayStartWhileDraining, Holding, Missing, vars, queueVars, factoryVars, loopVars, ctlVars
  <2>5. QED BY <2>1, <2>2, <2>3, <2>4
<1>3. Inv /\ JoinInv =>
        [\A c \in Chains : Abandons(c) => stopping \/ cutting \/ ~QueuedFor(c)]_vars
  BY NothingQueuedFor DEF Abandons
<1>4. QED BY <1>1, <1>2, <1>3, PTL DEF Spec, OnlyDeadAreAbandoned

\* Nobody has asked for an install.
NoInstall == asked # "update"

\* Where no install is asked for and the queue can be read and rewritten, a
\* rendezvous is given up only with none of its own work queued: none of the four
\* happens.
THEOREM OnlyDeadInService ==
  ASSUME MaxUpdates = 0, MaxFaults = 0
  PROVE  Spec => OnlyDeadAreAbandoned
<1>1. Init => NoInstall BY DEF Init, NoInstall
<1>2. Inv /\ NoInstall /\ [Next]_vars => NoInstall'
  <2>0. SUFFICES ASSUME Inv, asked # "update", [Next]_vars PROVE asked' # "update"
    BY DEF NoInstall
  <2>1. CASE Stopping
    <3>1. ~AskUpdate BY <2>0, DrainAssumption DEF AskUpdate, Inv, TypeOK
    <3>2. QED
      BY <2>0, <2>1, <3>1 DEF Stopping, Looking, Settling, AskStop, StopInstead, ReadAlive,
         ReadLaunching, ReadParked, Postpone, ResumeServing, HandOver, DropTower, JoinTower,
         CutOff, ExitCut
  <2>2. CASE Dispatcher
    BY <2>0, <2>2 DEF Dispatcher, ctlVars, BeginPass, EndPass, SkipFlight, TakeFlight, Count,
       Unqueue, UnqueueFails, PassBarrier, ParkFlight, RefuseFlight, LaunchFlight, CountOff,
       LeaveDispatch, AskForMore, Collect, Abandon, NextDispatch, UnreadQueue
  <2>3. CASE Runs \/ People
    BY <2>0, <2>3 DEF Runs, People, ctlVars, LandRun, SendFlight, Trigger, CancelFlight, QueueFlight
  <2>4. CASE UNCHANGED vars BY <2>0, <2>4 DEF vars, ctlVars
  <2>5. QED BY <2>0, <2>1, <2>2, <2>3, <2>4 DEF Next
<1>3. Inv /\ NoInstall => [~Undone]_vars
  <2>1. SUFFICES ASSUME Inv, asked # "update" PROVE ~Undone
    BY DEF NoInstall
  <2>2. ~UnqueueFails /\ ~UnreadQueue BY <2>1, DrainAssumption DEF UnqueueFails, UnreadQueue, Inv, TypeOK
  <2>3. QED BY <2>1, <2>2 DEF Undone, Postpone, ResumeServing
<1>4. QED BY <1>1, <1>2, <1>3, InvHolds, DeadUnlessUndone, PTL DEF Spec
=============================================================================
