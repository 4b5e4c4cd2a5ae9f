----------------------------- MODULE RunProofs -----------------------------
(***************************************************************************)
(* Proofs about one run: how it goes from the queue to the history          *)
(* (Lifecycle), and what it is given to read on the way (Prompts).          *)
(*                                                                         *)
(* Lifecycle, for any works, any attempt limit and any number of crashes    *)
(* and of writes that fail.  The inductive invariant has four parts: what   *)
(* has not been started yet (Unstarted), when a Tower settles and when it   *)
(* runs (OneMind), where a marked run is written down (Accounted), and,     *)
(* live records being removable, that everything a restart could still      *)
(* come from is the newest flight of its work (OneLine).                    *)
(*                                                                         *)
(* Prompts, for any factories, flags and prompts that include one another.  *)
(* What was chosen is on the work (Carried), what a Tower holds was         *)
(* validated (Validated), and what a run composes from has a value for      *)
(* every flag its workflow declares (Covered).                              *)
(***************************************************************************)
EXTENDS Lifecycle, Prompts, WellFoundedInduction, TLAPS

\* A flight in the queue has gone nowhere, and only a spawn starts a process.
UnstartedAt(f) ==
  /\ f \in queue \/ f \notin Made => stage[f] = "idle"
  /\ stage[f] \in {"idle", "cancelled", "taken", "admitted"} => starts[f] = 0
  /\ stage[f] = "spawned" \/ f \in live \cup left => starts[f] # 0
  /\ starts[f] = 0 => proc[f] = "none"
  /\ starts[f] <= 1

Unstarted == \A f \in Ids : UnstartedAt(f)

\* A Tower that settles what is left runs nothing, and the other way round.
OneMindAt(f) ==
  /\ tower # "up" => stage[f] \notin Launching \cup InFlight
  /\ stage[f] \in Settling => f \in left

OneTower ==
  /\ tower # "up" => pass = {}
  /\ left # {} => tower \in {"settling", "resettling"}

OneMind ==
  /\ OneTower
  /\ \A f \in Ids : OneMindAt(f)

\* Where a run that was marked is written down, its mark or its append having
\* worked.
Unwritten(f) == <<f, "append">> \in faults
Unlisted(f) == <<f, "mark">> \in faults

AccountedAt(f) ==
  /\ starts[f] > 0 /\ stage[f] \notin {"spawned", "orphan"}
       => f \in live \/ history[f] # {} \/ Unlisted(f) \/ Unwritten(f)
  /\ stage[f] \in {"recorded", "unmarked", "requeued", "noted", "cleared"}
       => history[f] # {} \/ Unwritten(f)
  /\ f \in left => f \in live \/ history[f] # {} \/ Unwritten(f)

Accounted == \A f \in Ids : AccountedAt(f)

Newest(f) ==
  \A g \in Made :
     flights[g].work = flights[f].work => flights[g].attempt <= flights[f].attempt

\* Whatever may still start a process for a work, or have one queued.
Active == Launching \cup {"held", "ended", "recorded", "unmarked"} \cup Settling

LineAt(f) ==
  /\ f \in Made /\ (stage[f] \in Active \/ f \in queue \cup live \cup left)
       => Newest(f)
  /\ stage[f] \in {"unmarked", "requeued", "cleared"} => f \notin live
  /\ f \in restart =>
        /\ stage[f] \in {"recorded", "unmarked", "found", "noted", "cleared"}
        /\ proc[f] # "running"
        /\ flights[f].attempt <= MaxAttempts
  /\ f \in Made /\ ~Newest(f) => proc[f] # "running"

OneLine ==
  /\ OneFlightPerAttempt
  /\ \A f \in Ids : LineAt(f)

\* A live record that stays where it was has its run settled twice.
Inv == TypeOK /\ Unstarted /\ OneMind /\ Accounted /\ (~Stubborn => OneLine)

-----------------------------------------------------------------------------
FlightType == [work : Works, attempt : Nat, of : Nat]

LEMMA InitTyped == Init => TypeOK
<1>1. <<>> \in Seq(FlightType) /\ Len(<<>>) = 0
  OBVIOUS
<1>2. ASSUME Init
      PROVE  flights \in Seq(FlightType) /\ Len(flights) = 0 /\ Len(flights) <= MaxFlights
  BY <1>1, <1>2, LifecycleAssumption DEF Init
<1>3. ASSUME Init
      PROVE  /\ history \in [Ids -> SUBSET Outcomes]
             /\ proc \in [Ids -> Ended \cup {"none", "running"}]
             /\ starts \in [Ids -> Nat]
             /\ stage \in [Ids -> Stages]
  BY <1>3 DEF Init, Stages
<1>4. ASSUME Init
      PROVE  /\ queue \subseteq Made /\ live \subseteq Made /\ pass \subseteq Made
             /\ left \subseteq Made /\ restart \subseteq Made
             /\ tower \in {"down", "settling", "up", "resettling"}
             /\ stops \in Nat /\ grounds \in Nat
             /\ owned \subseteq Made /\ faults \subseteq Ids \X Failures
  BY <1>4 DEF Init
<1>5. ASSUME Init
      PROVE  groundStop \in BOOLEAN /\ cutting \in BOOLEAN
  BY <1>5 DEF Init
<1>6. QED
  BY <1>2, <1>3, <1>4, <1>5 DEF TypeOK, FlightType

\* What making a flight does to the list of them.
LEMMA OneMore ==
  ASSUME TypeOK, NEW w \in Works, NEW a \in Nat, NEW o \in Nat, NewFlight(w, a, o)
  PROVE  /\ flights' \in Seq(FlightType)
         /\ Len(flights') = Len(flights) + 1 /\ Len(flights') <= MaxFlights
         /\ Len(flights) + 1 \notin Made
         /\ Made' = Made \cup {Len(flights) + 1}
         /\ \A g \in Made : flights'[g] = flights[g]
         /\ flights'[Len(flights) + 1] = [work |-> w, attempt |-> a, of |-> o]
         /\ queue' = queue \cup {Len(flights) + 1}
<1> DEFINE r == [work |-> w, attempt |-> a, of |-> o]
<1>1. r \in FlightType /\ flights \in Seq(FlightType) /\ flights' = Append(flights, r)
  BY DEF FlightType, TypeOK, NewFlight
<1> HIDE DEF r
<1>2. /\ flights' \in Seq(FlightType)
      /\ Len(flights') = Len(flights) + 1
      /\ \A g \in 1..Len(flights) : flights'[g] = flights[g]
      /\ flights'[Len(flights) + 1] = r
  BY <1>1
<1>3. Len(flights) \in Nat
  BY <1>1
<1>4. QED
  BY <1>2, <1>3, LifecycleAssumption DEF Made, NewFlight, r

\* The same, the new flight named.
LEMMA Fresh ==
  ASSUME TypeOK, NEW w \in Works, NEW a \in Nat, NEW o \in Nat, NewFlight(w, a, o)
  PROVE  \E n \in Ids \ Made :
            /\ Made' = Made \cup {n}
            /\ queue' = queue \cup {n}
            /\ \A g \in Made : flights'[g] = flights[g]
            /\ flights'[n].work = w /\ flights'[n].attempt = a
<1> DEFINE n == Len(flights) + 1
<1>1. /\ Len(flights') = Len(flights) + 1 /\ Len(flights') <= MaxFlights
      /\ n \notin Made
      /\ Made' = Made \cup {n}
      /\ \A g \in Made : flights'[g] = flights[g]
      /\ flights'[n] = [work |-> w, attempt |-> a, of |-> o]
      /\ queue' = queue \cup {n}
  BY OneMore
<1>2. Len(flights) \in Nat
  BY DEF TypeOK
<1>3. n \in Ids
  BY <1>1, <1>2, LifecycleAssumption DEF Ids
<1> HIDE DEF n
<1>4. QED
  BY <1>1, <1>3

\* A flight that was made is one of the numbered ones, and typed.
LEMMA OfFlight ==
  ASSUME TypeOK, NEW f \in Made
  PROVE  f \in Ids /\ f \in Nat /\ flights[f] \in FlightType
         /\ flights[f].work \in Works /\ flights[f].attempt \in Nat
<1>1. Len(flights) \in Nat /\ flights \in Seq(FlightType)
  BY DEF TypeOK, FlightType
<1>2. flights[f] \in FlightType
  BY <1>1 DEF Made
<1>3. QED
  BY <1>1, <1>2, LifecycleAssumption DEF Made, Ids, TypeOK, FlightType

\* What the steps below need of the types.
Procs == Ended \cup {"none", "running"}

LEMMA Types ==
  ASSUME TypeOK
  PROVE  /\ stage \in [Ids -> Stages]
         /\ proc \in [Ids -> Procs]
         /\ starts \in [Ids -> Nat]
         /\ history \in [Ids -> SUBSET Outcomes]
         /\ Made \subseteq Ids
         /\ queue \subseteq Made /\ live \subseteq Made /\ left \subseteq Made
         /\ pass \subseteq Made /\ restart \subseteq Made
<1>1. Len(flights) \in Nat
  BY DEF TypeOK
<1>2. Made \subseteq Ids
  BY <1>1, LifecycleAssumption DEF TypeOK, Made, Ids
<1>3. QED
  BY <1>2 DEF TypeOK, Procs

\* What may fail unnoticed is remembered, and nothing of it forgotten.
LEMMA LosesEffect ==
  ASSUME TypeOK, NEW runs \in SUBSET Ids, NEW what \in Failures, Loses(runs, what)
  PROVE  /\ faults \subseteq faults' /\ faults' \subseteq Ids \X Failures
         /\ \A g \in runs : <<g, what>> \in faults'
  BY DEF Loses, TypeOK

\* An outcome is in history, or its append is among what failed.
LEMMA AppendEffect ==
  ASSUME TypeOK, NEW f \in Ids, NEW outcome \in Outcomes, AppendsRecord(f, outcome)
  PROVE  /\ history' \in [Ids -> SUBSET Outcomes]
         /\ \A g \in Ids : history[g] \subseteq history'[g]
         /\ history'[f] # {} \/ <<f, "append">> \in faults'
         /\ faults \subseteq faults' /\ faults' \subseteq Ids \X Failures
<1>1. history \in [Ids -> SUBSET Outcomes] /\ faults \subseteq Ids \X Failures
  BY DEF TypeOK
<1>2. ASSUME history' = [history EXCEPT ![f] = @ \cup {outcome}], UNCHANGED faults
      PROVE  /\ history' \in [Ids -> SUBSET Outcomes]
             /\ \A g \in Ids : history[g] \subseteq history'[g]
             /\ history'[f] # {}
  BY <1>1, <1>2
<1>3. ASSUME Loses({f}, "append")
      PROVE  /\ faults \subseteq faults' /\ faults' \subseteq Ids \X Failures
             /\ <<f, "append">> \in faults'
  <2>1. {f} \in SUBSET Ids /\ "append" \in Failures
    BY DEF Failures
  <2>2. QED
    BY <1>3, <2>1, LosesEffect
<1>4. QED
  BY <1>1, <1>2, <1>3 DEF AppendsRecord

\* A live record is removed alone, and is there no more unless it resists.
LEMMA UnlistEffect ==
  ASSUME TypeOK, NEW f, Unlists(f)
  PROVE  /\ live' \subseteq live /\ live \ {f} \subseteq live'
         /\ ~Stubborn => f \notin live'
         /\ owned' \subseteq owned
  BY LifecycleAssumption DEF Unlists

\* What is to be settled was on the list.
LEMMA FindEffect ==
  ASSUME TypeOK, NEW runs \in SUBSET Ids, Finds(runs)
  PROVE  /\ left' \subseteq runs
         /\ faults \subseteq faults' /\ faults' \subseteq Ids \X Failures
<1>1. CASE left' = runs /\ UNCHANGED faults
  BY <1>1 DEF TypeOK
<1>2. ASSUME NEW unread \in SUBSET runs, left' = runs \ unread, Loses(unread, "look")
      PROVE  /\ left' \subseteq runs
             /\ faults \subseteq faults' /\ faults' \subseteq Ids \X Failures
  <2>1. unread \in SUBSET Ids /\ "look" \in Failures
    BY DEF Failures
  <2>2. QED
    BY <1>2, <2>1, LosesEffect
<1>3. QED
  BY <1>1, <1>2 DEF Finds

\* A restart is a new flight, or none.
LEMMA RequeueEffect ==
  ASSUME TypeOK, NEW f \in Ids, NEW next, Requeue(f, next)
  PROVE  /\ \/ f \in restart /\ NewFlight(flights[f].work, flights[f].attempt + 1, f)
            \/ UNCHANGED <<flights, queue>>
         /\ faults \subseteq faults' /\ faults' \subseteq Ids \X Failures
<1>1. {f} \in SUBSET Ids /\ "restart" \in Failures
  BY DEF Failures
<1>2. faults \subseteq Ids \X Failures
  BY DEF TypeOK
<1>3. QED
  BY <1>1, <1>2, LosesEffect DEF Requeue

\* Every step keeps the types.
LEMMA StepTyped ==
  ASSUME TypeOK, [Next]_vars
  PROVE  TypeOK'
<1>1. ASSUME NEW w \in Works, Ask(w)
      PROVE  TypeOK'
  <2>1. NewFlight(w, 1, 0)
    BY <1>1 DEF Ask
  <2>2. QED
    BY <1>1, <2>1, OneMore, LifecycleAssumption
    DEF TypeOK, Ids, Made, Outcomes, Ended, Stages, Launching, InFlight, Settling, disk, memory, bounds, Ask, FlightType
<1>2. ASSUME NEW f \in Made, Cancel(f)
      PROVE  TypeOK'
  BY <1>2, LifecycleAssumption
  DEF TypeOK, Ids, Made, Outcomes, Ended, Stages, Launching, InFlight,
      Settling, disk, memory, bounds, Cancel
<1>3. ASSUME Engage
      PROVE  TypeOK'
  <2>1. grounds' \in Nat
    BY <1>3 DEF Engage, TypeOK
  <2>2. QED
    BY <1>3, <2>1
    DEF TypeOK, Ids, Made, Outcomes, Ended, Stages, Launching, InFlight,
        Settling, disk, memory, bounds, Engage
<1>4. ASSUME Release
      PROVE  TypeOK'
  BY <1>4, LifecycleAssumption
  DEF TypeOK, Ids, Made, Outcomes, Ended, Stages, Launching, InFlight,
      Settling, disk, memory, bounds, Release
<1>5. ASSUME NEW f \in Made, NEW how \in {"succeeded", "failed", "provider"}, ProcessEnds(f, how)
      PROVE  TypeOK'
  BY <1>5, LifecycleAssumption
  DEF TypeOK, Ids, Made, Outcomes, Ended, Stages, Launching, InFlight,
      Settling, disk, memory, bounds, ProcessEnds
<1>6. ASSUME Look
      PROVE  TypeOK'
  BY <1>6, LifecycleAssumption
  DEF TypeOK, Ids, Made, Outcomes, Ended, Stages, Launching, InFlight,
      Settling, disk, memory, bounds, Look
<1>7. ASSUME NEW f \in Made, Take(f)
      PROVE  TypeOK'
  BY <1>7, LifecycleAssumption
  DEF TypeOK, Ids, Made, Outcomes, Ended, Stages, Launching, InFlight,
      Settling, disk, memory, bounds, Take
<1>8. ASSUME NEW f \in Made, Admit(f)
      PROVE  TypeOK'
  BY <1>8, LifecycleAssumption
  DEF TypeOK, Ids, Made, Outcomes, Ended, Stages, Launching, InFlight,
      Settling, disk, memory, bounds, Admit
<1>9. ASSUME NEW f \in Made, PlanFails(f)
      PROVE  TypeOK'
  BY <1>9, LifecycleAssumption
  DEF TypeOK, Ids, Made, Outcomes, Ended, Stages, Launching, InFlight,
      Settling, disk, memory, bounds, PlanFails
<1>10. ASSUME NEW f \in Made, SpawnFails(f)
      PROVE  TypeOK'
  <2>1. f \in Ids /\ "failed" \in Outcomes
    BY OfFlight DEF Outcomes, OutcomeOf
  <2>2. /\ history' \in [Ids -> SUBSET Outcomes]
        /\ faults' \subseteq Ids \X Failures
    BY <1>10, <2>1, AppendEffect DEF SpawnFails
  <2>3. QED
    BY <1>10, <2>1, <2>2
    DEF TypeOK, Ids, Made, Outcomes, Ended, Stages, Launching, InFlight,
        Settling, disk, memory, bounds, SpawnFails

<1>11. ASSUME NEW f \in Made, Spawn(f)
      PROVE  TypeOK'
  <2>1. f \in Ids /\ starts[f] + 1 \in Nat
    BY OfFlight DEF TypeOK
  <2>2. starts' \in [Ids -> Nat]
    BY <1>11, <2>1 DEF TypeOK, Spawn
  <2>3. QED
    BY <1>11, <2>1, <2>2
    DEF TypeOK, Ids, Made, Outcomes, Ended, Stages, Launching, InFlight,
        Settling, disk, memory, bounds, Spawn
<1>12. ASSUME NEW f \in Made, Mark(f)
      PROVE  TypeOK'
  <2>1. f \in Ids /\ {f} \in SUBSET Ids /\ "mark" \in Failures
    BY OfFlight DEF Failures
  <2>2. /\ live' \subseteq Made /\ owned' \subseteq Made
        /\ faults' \subseteq Ids \X Failures
    BY <1>12, <2>1, LosesEffect DEF Mark, TypeOK
  <2>3. QED
    BY <1>12, <2>1, <2>2
    DEF TypeOK, Ids, Made, Outcomes, Ended, Stages, Launching, InFlight,
        Settling, disk, memory, bounds, Mark

<1>13. ASSUME NEW f \in Made, Hold(f)
      PROVE  TypeOK'
  BY <1>13, LifecycleAssumption
  DEF TypeOK, Ids, Made, Outcomes, Ended, Stages, Launching, InFlight,
      Settling, disk, memory, bounds, Hold
<1>14. ASSUME NEW f \in Made, Notice(f)
      PROVE  TypeOK'
  BY <1>14, LifecycleAssumption
  DEF TypeOK, Ids, Made, Outcomes, Ended, Stages, Launching, InFlight,
      Settling, disk, memory, bounds, Notice
<1>15. ASSUME NEW f \in Made, Halt(f)
      PROVE  TypeOK'
  BY <1>15, LifecycleAssumption
  DEF TypeOK, Ids, Made, Outcomes, Ended, Stages, Launching, InFlight,
      Settling, disk, memory, bounds, Halt
<1>16. ASSUME NEW f \in Made, LeaveToTheNextTower(f)
      PROVE  TypeOK'
  BY <1>16, LifecycleAssumption
  DEF TypeOK, Ids, Made, Outcomes, Ended, Stages, Launching, InFlight,
      Settling, disk, memory, bounds, LeaveToTheNextTower
<1>17. ASSUME NEW f \in Made, NEW d \in BOOLEAN, Record(f, d)
      PROVE  TypeOK'
  <2>1. f \in Ids /\ OutcomeOf(f) \in Outcomes
    BY OfFlight DEF Outcomes, OutcomeOf
  <2>2. /\ history' \in [Ids -> SUBSET Outcomes]
        /\ faults' \subseteq Ids \X Failures
    BY <1>17, <2>1, AppendEffect DEF Record
  <2>3. QED
    BY <1>17, <2>1, <2>2
    DEF TypeOK, Ids, Made, Outcomes, Ended, Stages, Launching, InFlight,
        Settling, disk, memory, bounds, Record, Authorize

<1>18. ASSUME NEW f \in Made, Unmark(f)
      PROVE  TypeOK'
  <2>1. live' \subseteq Made /\ owned' \subseteq Made
    BY <1>18, UnlistEffect DEF Unmark, TypeOK
  <2>2. QED
    BY <1>18, <2>1
    DEF TypeOK, Ids, Made, Outcomes, Ended, Stages, Launching, InFlight,
        Settling, disk, memory, bounds, Unmark

<1>19. ASSUME NEW f \in Made, QueueRestart(f)
      PROVE  TypeOK'
  <2>1. f \in Ids /\ faults' \subseteq Ids \X Failures /\ faults \subseteq faults'
    BY <1>19, OfFlight, RequeueEffect DEF QueueRestart
  <2>2. ASSUME f \in restart, NewFlight(flights[f].work, flights[f].attempt + 1, f)
        PROVE  TypeOK'
    <3>1. /\ flights[f].work \in Works /\ flights[f].attempt + 1 \in Nat /\ f \in Nat
      BY OfFlight
    <3>2. QED
      BY <1>19, <2>1, <2>2, <3>1, OneMore
      DEF TypeOK, Ids, Made, Outcomes, Ended, Stages, Launching, InFlight,
        Settling, disk, memory, bounds, QueueRestart, Requeue, FlightType
  <2>3. CASE UNCHANGED <<flights, queue>>
    BY <1>19, <2>1, <2>3
    DEF TypeOK, Ids, Made, Outcomes, Ended, Stages, Launching, InFlight,
        Settling, disk, memory, bounds, QueueRestart, Requeue
  <2>4. QED
    BY <1>19, <2>1, <2>2, <2>3, RequeueEffect DEF QueueRestart

<1>20. ASSUME NEW f \in Made, Forget(f)
      PROVE  TypeOK'
  BY <1>20, LifecycleAssumption
  DEF TypeOK, Ids, Made, Outcomes, Ended, Stages, Launching, InFlight,
      Settling, disk, memory, bounds, Forget
<1>21. ASSUME NEW f \in Made, NEW d \in BOOLEAN, Found(f, d)
      PROVE  TypeOK'
  BY <1>21, LifecycleAssumption
  DEF TypeOK, Ids, Made, Outcomes, Ended, Stages, Launching, InFlight,
      Settling, disk, memory, bounds, Found, Authorize
<1>22. ASSUME NEW f \in Made, Note(f)
      PROVE  TypeOK'
  <2>1. f \in Ids /\ "interrupted" \in Outcomes
    BY OfFlight DEF Outcomes, OutcomeOf
  <2>2. /\ history' \in [Ids -> SUBSET Outcomes]
        /\ faults' \subseteq Ids \X Failures
    BY <1>22, <2>1, AppendEffect DEF Note
  <2>3. QED
    BY <1>22, <2>1, <2>2
    DEF TypeOK, Ids, Made, Outcomes, Ended, Stages, Launching, InFlight,
        Settling, disk, memory, bounds, Note

<1>23. ASSUME NEW f \in Made, Clear(f)
      PROVE  TypeOK'
  <2>1. live' \subseteq Made /\ owned' \subseteq Made
    BY <1>23, UnlistEffect DEF Clear, TypeOK
  <2>2. QED
    BY <1>23, <2>1
    DEF TypeOK, Ids, Made, Outcomes, Ended, Stages, Launching, InFlight,
        Settling, disk, memory, bounds, Clear

<1>24. ASSUME NEW f \in Made, RequeueLeft(f)
      PROVE  TypeOK'
  <2>1. f \in Ids /\ faults' \subseteq Ids \X Failures /\ faults \subseteq faults'
    BY <1>24, OfFlight, RequeueEffect DEF RequeueLeft
  <2>2. ASSUME f \in restart, NewFlight(flights[f].work, flights[f].attempt + 1, f)
        PROVE  TypeOK'
    <3>1. /\ flights[f].work \in Works /\ flights[f].attempt + 1 \in Nat /\ f \in Nat
      BY OfFlight
    <3>2. QED
      BY <1>24, <2>1, <2>2, <3>1, OneMore
      DEF TypeOK, Ids, Made, Outcomes, Ended, Stages, Launching, InFlight,
        Settling, disk, memory, bounds, RequeueLeft, Requeue, FlightType
  <2>3. CASE UNCHANGED <<flights, queue>>
    BY <1>24, <2>1, <2>3
    DEF TypeOK, Ids, Made, Outcomes, Ended, Stages, Launching, InFlight,
        Settling, disk, memory, bounds, RequeueLeft, Requeue
  <2>4. QED
    BY <1>24, <2>1, <2>2, <2>3, RequeueEffect DEF RequeueLeft

<1>25. ASSUME Crash
      PROVE  TypeOK'
  <2>1. Goes /\ stops' \in Nat
    BY <1>25 DEF Crash, TypeOK
  <2>2. QED
    BY <2>1
    DEF TypeOK, Ids, Made, Outcomes, Ended, Stages, Launching, InFlight,
        Settling, disk, memory, bounds, Goes, Lost
<1>26. ASSUME CutOff
      PROVE  TypeOK'
  <2>1. stops' \in Nat
    BY <1>26 DEF CutOff, TypeOK
  <2>2. QED
    BY <1>26, <2>1
    DEF TypeOK, Ids, Made, Outcomes, Ended, Stages, Launching, InFlight,
        Settling, disk, memory, bounds, CutOff
<1>27. ASSUME CutOffExit
      PROVE  TypeOK'
  BY <1>27, LifecycleAssumption
  DEF TypeOK, Ids, Made, Outcomes, Ended, Stages, Launching, InFlight,
      Settling, disk, memory, bounds, CutOffExit, Goes, Lost
<1>28. ASSUME SettleCutOff
      PROVE  TypeOK'
  <2>1. live \cap owned \subseteq Made /\ live \cap owned \in SUBSET Ids
    BY Types
  <2>2. left' \subseteq Made /\ faults' \subseteq Ids \X Failures
    BY <1>28, <2>1, FindEffect DEF SettleCutOff
  <2>3. QED
    BY <1>28, <2>2
    DEF TypeOK, Ids, Made, Outcomes, Ended, Stages, Launching, InFlight,
        Settling, disk, memory, bounds, SettleCutOff

<1>29. ASSUME Reconcile
      PROVE  TypeOK'
  <2>1. live \subseteq Made /\ live \in SUBSET Ids
    BY Types
  <2>2. left' \subseteq Made /\ faults' \subseteq Ids \X Failures
    BY <1>29, <2>1, FindEffect DEF Reconcile
  <2>3. QED
    BY <1>29, <2>2
    DEF TypeOK, Ids, Made, Outcomes, Ended, Stages, Launching, InFlight,
        Settling, disk, memory, bounds, Reconcile

<1>30. ASSUME Settled
      PROVE  TypeOK'
  BY <1>30, LifecycleAssumption
  DEF TypeOK, Ids, Made, Outcomes, Ended, Stages, Launching, InFlight,
      Settling, disk, memory, bounds, Settled
<1>31. ASSUME UNCHANGED vars
      PROVE  TypeOK'
  BY <1>31
  DEF TypeOK, Ids, Made, Outcomes, Ended, Stages, Launching, InFlight,
      Settling, disk, memory, bounds, vars
<1>32. ASSUME NEW f \in Made, WaitFails(f)
      PROVE  TypeOK'
  <2>1. live' \subseteq Made /\ owned' \subseteq Made
    BY <1>32, UnlistEffect DEF WaitFails, TypeOK
  <2>2. QED
    BY <1>32, <2>1
    DEF TypeOK, Ids, Made, Outcomes, Ended, Stages, Launching, InFlight,
        Settling, disk, memory, bounds, WaitFails

<1>q. QED
  BY <1>1, <1>2, <1>3, <1>4, <1>5, <1>6, <1>7, <1>8, <1>9, <1>10, <1>11,
     <1>12, <1>13, <1>14, <1>15, <1>16, <1>17, <1>18, <1>19, <1>20, <1>21,
     <1>22, <1>23, <1>24, <1>25, <1>26, <1>27, <1>28, <1>29, <1>30, <1>31, <1>32
  DEF Next, Launch, Work, Settle


\* The same for the flight that restarts f.
LEMMA FreshRestart ==
  ASSUME TypeOK, NEW f \in Made,
         NewFlight(flights[f].work, flights[f].attempt + 1, f)
  PROVE  \E n \in Ids \ Made :
            /\ Made' = Made \cup {n}
            /\ queue' = queue \cup {n}
            /\ \A g \in Made : flights'[g] = flights[g]
            /\ flights'[n].work = flights[f].work
            /\ flights'[n].attempt = flights[f].attempt + 1
<1>1. flights[f].work \in Works /\ flights[f].attempt + 1 \in Nat /\ f \in Nat
  BY OfFlight
<1>2. QED
  BY <1>1, Fresh, ZenonT(30)

\* Only a spawn starts a process, and only for a flight taken off the queue.
LEMMA StepUnstarted ==
  ASSUME NEW h \in Ids, TypeOK, UnstartedAt(h), [Next]_vars
  PROVE  UnstartedAt(h)'
<1>1. ASSUME NEW w \in Works, Ask(w)
      PROVE  UnstartedAt(h)'
  <2>1. NewFlight(w, 1, 0)
    BY <1>1 DEF Ask
  <2>2. PICK n \in Ids \ Made : Made' = Made \cup {n} /\ queue' = queue \cup {n}
    BY <2>1, Fresh
  <2>3. QED
    BY <1>1, <2>2, Types DEF UnstartedAt, disk, memory, bounds, Ask
<1>2. ASSUME NEW f \in Made, Cancel(f)
      PROVE  UnstartedAt(h)'
  BY <1>2, Types DEF Made, UnstartedAt, disk, memory, bounds, Cancel
<1>3. ASSUME Engage
      PROVE  UnstartedAt(h)'
  BY <1>3, Types DEF Made, UnstartedAt, disk, memory, bounds, Engage
<1>4. ASSUME Release
      PROVE  UnstartedAt(h)'
  BY <1>4, Types DEF Made, UnstartedAt, disk, memory, bounds, Release
<1>5. ASSUME NEW f \in Made, NEW how \in {"succeeded", "failed", "provider"}, ProcessEnds(f, how)
      PROVE  UnstartedAt(h)'
  BY <1>5, Types DEF Made, UnstartedAt, disk, memory, bounds, ProcessEnds
<1>6. ASSUME Look
      PROVE  UnstartedAt(h)'
  BY <1>6, Types
  DEF Made, UnstartedAt, disk, memory, bounds, Look, NobodyLaunching,
      NobodySettling
<1>7. ASSUME NEW f \in Made, Take(f)
      PROVE  UnstartedAt(h)'
  BY <1>7, Types
  DEF Made, UnstartedAt, disk, memory, bounds, Take, NobodyLaunching,
      NobodySettling
<1>8. ASSUME NEW f \in Made, Admit(f)
      PROVE  UnstartedAt(h)'
  BY <1>8, Types DEF Made, UnstartedAt, disk, memory, bounds, Admit
<1>9. ASSUME NEW f \in Made, PlanFails(f)
      PROVE  UnstartedAt(h)'
  BY <1>9, Types DEF Made, UnstartedAt, disk, memory, bounds, PlanFails
<1>10. ASSUME NEW f \in Made, SpawnFails(f)
      PROVE  UnstartedAt(h)'
  BY <1>10, Types DEF Made, UnstartedAt, disk, memory, bounds, SpawnFails
<1>11. ASSUME NEW f \in Made, Spawn(f)
      PROVE  UnstartedAt(h)'
  BY <1>11, Types DEF Made, UnstartedAt, disk, memory, bounds, Spawn
<1>12. ASSUME NEW f \in Made, Mark(f)
      PROVE  UnstartedAt(h)'
  BY <1>12, Types DEF Made, UnstartedAt, disk, memory, bounds, Mark
<1>13. ASSUME NEW f \in Made, Hold(f)
      PROVE  UnstartedAt(h)'
  BY <1>13, Types DEF Made, UnstartedAt, disk, memory, bounds, Hold
<1>14. ASSUME NEW f \in Made, Notice(f)
      PROVE  UnstartedAt(h)'
  BY <1>14, Types DEF Made, UnstartedAt, disk, memory, bounds, Notice
<1>15. ASSUME NEW f \in Made, Halt(f)
      PROVE  UnstartedAt(h)'
  BY <1>15, Types DEF Made, UnstartedAt, disk, memory, bounds, Halt
<1>16. ASSUME NEW f \in Made, LeaveToTheNextTower(f)
      PROVE  UnstartedAt(h)'
  BY <1>16, Types
  DEF Made, UnstartedAt, disk, memory, bounds, LeaveToTheNextTower
<1>17. ASSUME NEW f \in Made, NEW d \in BOOLEAN, Record(f, d)
      PROVE  UnstartedAt(h)'
  BY <1>17, Types DEF Made, UnstartedAt, disk, memory, bounds, Record
<1>18. ASSUME NEW f \in Made, Unmark(f)
      PROVE  UnstartedAt(h)'
  BY <1>18, UnlistEffect, Types DEF Made, UnstartedAt, disk, memory, bounds, Unmark
<1>19. ASSUME NEW f \in Made, QueueRestart(f)
      PROVE  UnstartedAt(h)'
  <2>1. f \in Ids /\ faults' \subseteq Ids \X Failures /\ faults \subseteq faults'
    BY <1>19, OfFlight, RequeueEffect DEF QueueRestart
  <2>2. ASSUME f \in restart, NewFlight(flights[f].work, flights[f].attempt + 1, f)
        PROVE  UnstartedAt(h)'
    <3>1. PICK n \in Ids \ Made : Made' = Made \cup {n} /\ queue' = queue \cup {n}
      BY <2>2, FreshRestart
    <3>2. QED
      BY <1>19, <2>1, <3>1, Types
      DEF UnstartedAt, disk, memory, bounds, QueueRestart, Requeue
  <2>3. CASE UNCHANGED <<flights, queue>>
    BY <1>19, <2>1, <2>3, Types
    DEF Made, UnstartedAt, disk, memory, bounds, QueueRestart, Requeue
  <2>4. QED
    BY <1>19, <2>1, <2>2, <2>3, RequeueEffect DEF QueueRestart

<1>20. ASSUME NEW f \in Made, Forget(f)
      PROVE  UnstartedAt(h)'
  BY <1>20, Types DEF Made, UnstartedAt, disk, memory, bounds, Forget
<1>21. ASSUME NEW f \in Made, NEW d \in BOOLEAN, Found(f, d)
      PROVE  UnstartedAt(h)'
  BY <1>21, Types
  DEF Made, UnstartedAt, disk, memory, bounds, Found, NobodyLaunching,
      NobodySettling
<1>22. ASSUME NEW f \in Made, Note(f)
      PROVE  UnstartedAt(h)'
  BY <1>22, Types DEF Made, UnstartedAt, disk, memory, bounds, Note
<1>23. ASSUME NEW f \in Made, Clear(f)
      PROVE  UnstartedAt(h)'
  BY <1>23, UnlistEffect, Types DEF Made, UnstartedAt, disk, memory, bounds, Clear
<1>24. ASSUME NEW f \in Made, RequeueLeft(f)
      PROVE  UnstartedAt(h)'
  <2>1. f \in Ids /\ faults' \subseteq Ids \X Failures /\ faults \subseteq faults'
    BY <1>24, OfFlight, RequeueEffect DEF RequeueLeft
  <2>2. ASSUME f \in restart, NewFlight(flights[f].work, flights[f].attempt + 1, f)
        PROVE  UnstartedAt(h)'
    <3>1. PICK n \in Ids \ Made : Made' = Made \cup {n} /\ queue' = queue \cup {n}
      BY <2>2, FreshRestart
    <3>2. QED
      BY <1>24, <2>1, <3>1, Types
      DEF UnstartedAt, disk, memory, bounds, RequeueLeft, Requeue
  <2>3. CASE UNCHANGED <<flights, queue>>
    BY <1>24, <2>1, <2>3, Types
    DEF Made, UnstartedAt, disk, memory, bounds, RequeueLeft, Requeue
  <2>4. QED
    BY <1>24, <2>1, <2>2, <2>3, RequeueEffect DEF RequeueLeft

<1>25. ASSUME Crash
      PROVE  UnstartedAt(h)'
  BY <1>25, Types
  DEF Made, UnstartedAt, disk, memory, bounds, Crash, Goes, Lost
<1>26. ASSUME CutOff
      PROVE  UnstartedAt(h)'
  BY <1>26, Types DEF Made, UnstartedAt, disk, memory, bounds, CutOff
<1>27. ASSUME CutOffExit
      PROVE  UnstartedAt(h)'
  BY <1>27, Types
  DEF Made, UnstartedAt, disk, memory, bounds, CutOffExit, Goes, Lost
<1>28. ASSUME SettleCutOff
      PROVE  UnstartedAt(h)'
  <2>1. live \cap owned \in SUBSET Ids
    BY Types
  <2>2. left' \subseteq live /\ faults \subseteq faults'
    BY <1>28, <2>1, FindEffect DEF SettleCutOff
  <2>3. QED
    BY <1>28, <2>2, Types
    DEF Made, UnstartedAt, disk, memory, bounds, SettleCutOff

<1>29. ASSUME Reconcile
      PROVE  UnstartedAt(h)'
  <2>1. live \in SUBSET Ids
    BY Types
  <2>2. left' \subseteq live /\ faults \subseteq faults'
    BY <1>29, <2>1, FindEffect DEF Reconcile
  <2>3. QED
    BY <1>29, <2>2, Types
    DEF Made, UnstartedAt, disk, memory, bounds, Reconcile

<1>30. ASSUME Settled
      PROVE  UnstartedAt(h)'
  BY <1>30, Types DEF Made, UnstartedAt, disk, memory, bounds, Settled
<1>31. ASSUME UNCHANGED vars
      PROVE  UnstartedAt(h)'
  BY <1>31 DEF Made, vars, UnstartedAt, disk, memory, bounds
<1>32. ASSUME NEW f \in Made, WaitFails(f)
      PROVE  UnstartedAt(h)'
  BY <1>32, UnlistEffect, Types DEF Made, UnstartedAt, disk, memory, bounds, WaitFails
<1>q. QED
  BY <1>1, <1>2, <1>3, <1>4, <1>5, <1>6, <1>7, <1>8, <1>9, <1>10, <1>11,
     <1>12, <1>13, <1>14, <1>15, <1>16, <1>17, <1>18, <1>19, <1>20, <1>21,
     <1>22, <1>23, <1>24, <1>25, <1>26, <1>27, <1>28, <1>29, <1>30, <1>31, <1>32
  DEF Next, Launch, Work, Settle


\* A marked run never leaves both lists.
LEMMA StepAccounted ==
  ASSUME NEW h \in Ids, TypeOK, UnstartedAt(h), OneTower, OneMindAt(h), AccountedAt(h),
         [Next]_vars
  PROVE  AccountedAt(h)'
<1>1. ASSUME NEW w \in Works, Ask(w)
      PROVE  AccountedAt(h)'
  <2>1. NewFlight(w, 1, 0)
    BY <1>1 DEF Ask
  <2>2. PICK n \in Ids \ Made : Made' = Made \cup {n} /\ queue' = queue \cup {n}
    BY <2>1, Fresh
  <2>3. QED
    BY <1>1, <2>2, Types
    DEF AccountedAt, Unlisted, Unwritten, UnstartedAt, disk, memory, bounds, Ask
<1>2. ASSUME NEW f \in Made, Cancel(f)
      PROVE  AccountedAt(h)'
  BY <1>2, Types
  DEF Made, AccountedAt, Unlisted, Unwritten, UnstartedAt, disk, memory, bounds, Cancel
<1>3. ASSUME Engage
      PROVE  AccountedAt(h)'
  BY <1>3, Types
  DEF Made, AccountedAt, Unlisted, Unwritten, UnstartedAt, disk, memory, bounds, Engage
<1>4. ASSUME Release
      PROVE  AccountedAt(h)'
  BY <1>4, Types
  DEF Made, AccountedAt, Unlisted, Unwritten, UnstartedAt, disk, memory, bounds, Release
<1>5. ASSUME NEW f \in Made, NEW how \in {"succeeded", "failed", "provider"}, ProcessEnds(f, how)
      PROVE  AccountedAt(h)'
  BY <1>5, Types
  DEF Made, AccountedAt, Unlisted, Unwritten, UnstartedAt, disk, memory, bounds, ProcessEnds
<1>6. ASSUME Look
      PROVE  AccountedAt(h)'
  BY <1>6, Types
  DEF Made, AccountedAt, Unlisted, Unwritten, UnstartedAt, disk, memory, bounds, Look,
      NobodyLaunching, NobodySettling
<1>7. ASSUME NEW f \in Made, Take(f)
      PROVE  AccountedAt(h)'
  BY <1>7, Types
  DEF Made, AccountedAt, Unlisted, Unwritten, UnstartedAt, disk, memory, bounds, Take,
      NobodyLaunching, NobodySettling
<1>8. ASSUME NEW f \in Made, Admit(f)
      PROVE  AccountedAt(h)'
  BY <1>8, Types
  DEF Made, AccountedAt, Unlisted, Unwritten, UnstartedAt, disk, memory, bounds, Admit
<1>9. ASSUME NEW f \in Made, PlanFails(f)
      PROVE  AccountedAt(h)'
  BY <1>9, Types
  DEF Made, AccountedAt, Unlisted, Unwritten, UnstartedAt, disk, memory, bounds, PlanFails
<1>10. ASSUME NEW f \in Made, SpawnFails(f)
      PROVE  AccountedAt(h)'
  <2>1. f \in Ids /\ "failed" \in Outcomes
    BY OfFlight DEF Outcomes, OutcomeOf
  <2>2. /\ \A g \in Ids : history[g] \subseteq history'[g]
        /\ history'[f] # {} \/ Unwritten(f)'
        /\ faults \subseteq faults'
    BY <1>10, <2>1, AppendEffect DEF SpawnFails, Unwritten
  <2>3. QED
    BY <1>10, <2>1, <2>2, Types
    DEF AccountedAt, Unlisted, Unwritten, UnstartedAt, disk, memory, bounds, SpawnFails

<1>11. ASSUME NEW f \in Made, Spawn(f)
      PROVE  AccountedAt(h)'
  BY <1>11, Types
  DEF Made, AccountedAt, Unlisted, Unwritten, UnstartedAt, disk, memory, bounds, Spawn
<1>12. ASSUME NEW f \in Made, Mark(f)
      PROVE  AccountedAt(h)'
  <2>1. {f} \in SUBSET Ids /\ "mark" \in Failures
    BY OfFlight DEF Failures
  <2>2. faults \subseteq faults' /\ (f \in live' \/ Unlisted(f)') /\ live \subseteq live'
    BY <1>12, <2>1, LosesEffect DEF Mark, Unlisted
  <2>3. QED
    BY <1>12, <2>2, Types
    DEF AccountedAt, Unlisted, Unwritten, UnstartedAt, disk, memory, bounds, Mark

<1>13. ASSUME NEW f \in Made, Hold(f)
      PROVE  AccountedAt(h)'
  BY <1>13, Types
  DEF Made, AccountedAt, Unlisted, Unwritten, UnstartedAt, disk, memory, bounds, Hold
<1>14. ASSUME NEW f \in Made, Notice(f)
      PROVE  AccountedAt(h)'
  BY <1>14, Types
  DEF Made, AccountedAt, Unlisted, Unwritten, UnstartedAt, disk, memory, bounds, Notice
<1>15. ASSUME NEW f \in Made, Halt(f)
      PROVE  AccountedAt(h)'
  BY <1>15, Types
  DEF Made, AccountedAt, Unlisted, Unwritten, UnstartedAt, disk, memory, bounds, Halt
<1>16. ASSUME NEW f \in Made, LeaveToTheNextTower(f)
      PROVE  AccountedAt(h)'
  BY <1>16, Types
  DEF Made, AccountedAt, Unlisted, Unwritten, UnstartedAt, disk, memory, bounds,
      LeaveToTheNextTower
<1>17. ASSUME NEW f \in Made, NEW d \in BOOLEAN, Record(f, d)
      PROVE  AccountedAt(h)'
  <2>1. f \in Ids /\ OutcomeOf(f) \in Outcomes
    BY OfFlight DEF Outcomes, OutcomeOf
  <2>2. /\ \A g \in Ids : history[g] \subseteq history'[g]
        /\ history'[f] # {} \/ Unwritten(f)'
        /\ faults \subseteq faults'
    BY <1>17, <2>1, AppendEffect DEF Record, Unwritten
  <2>3. QED
    BY <1>17, <2>1, <2>2, Types
    DEF AccountedAt, Unlisted, Unwritten, UnstartedAt, disk, memory, bounds, Record

<1>18. ASSUME NEW f \in Made, Unmark(f)
      PROVE  AccountedAt(h)'
  BY <1>18, UnlistEffect, Types
  DEF Made, AccountedAt, Unlisted, Unwritten, UnstartedAt, disk, memory, bounds, Unmark
<1>19. ASSUME NEW f \in Made, QueueRestart(f)
      PROVE  AccountedAt(h)'
  <2>1. f \in Ids /\ faults' \subseteq Ids \X Failures /\ faults \subseteq faults'
    BY <1>19, OfFlight, RequeueEffect DEF QueueRestart
  <2>2. ASSUME f \in restart, NewFlight(flights[f].work, flights[f].attempt + 1, f)
        PROVE  AccountedAt(h)'
    <3>1. PICK n \in Ids \ Made : Made' = Made \cup {n} /\ queue' = queue \cup {n}
      BY <2>2, FreshRestart
    <3>2. QED
      BY <1>19, <2>1, <3>1, Types
      DEF AccountedAt, UnstartedAt, Unlisted, Unwritten, disk, memory, bounds, QueueRestart, Requeue
  <2>3. CASE UNCHANGED <<flights, queue>>
    BY <1>19, <2>1, <2>3, Types
    DEF Made, AccountedAt, UnstartedAt, Unlisted, Unwritten, disk, memory, bounds, QueueRestart, Requeue
  <2>4. QED
    BY <1>19, <2>1, <2>2, <2>3, RequeueEffect DEF QueueRestart

<1>20. ASSUME NEW f \in Made, Forget(f)
      PROVE  AccountedAt(h)'
  BY <1>20, Types
  DEF Made, AccountedAt, Unlisted, Unwritten, UnstartedAt, disk, memory, bounds, Forget
<1>21. ASSUME NEW f \in Made, NEW d \in BOOLEAN, Found(f, d)
      PROVE  AccountedAt(h)'
  BY <1>21, Types
  DEF Made, AccountedAt, Unlisted, Unwritten, UnstartedAt, disk, memory, bounds, Found,
      NobodyLaunching, NobodySettling
<1>22. ASSUME NEW f \in Made, Note(f)
      PROVE  AccountedAt(h)'
  <2>1. f \in Ids /\ "interrupted" \in Outcomes
    BY OfFlight DEF Outcomes, OutcomeOf
  <2>2. /\ \A g \in Ids : history[g] \subseteq history'[g]
        /\ history'[f] # {} \/ Unwritten(f)'
        /\ faults \subseteq faults'
    BY <1>22, <2>1, AppendEffect DEF Note, Unwritten
  <2>3. QED
    BY <1>22, <2>1, <2>2, Types
    DEF AccountedAt, Unlisted, Unwritten, UnstartedAt, disk, memory, bounds, Note

<1>23. ASSUME NEW f \in Made, Clear(f)
      PROVE  AccountedAt(h)'
  BY <1>23, UnlistEffect, Types
  DEF Made, AccountedAt, Unlisted, Unwritten, UnstartedAt, disk, memory, bounds, Clear
<1>24. ASSUME NEW f \in Made, RequeueLeft(f)
      PROVE  AccountedAt(h)'
  <2>1. f \in Ids /\ faults' \subseteq Ids \X Failures /\ faults \subseteq faults'
    BY <1>24, OfFlight, RequeueEffect DEF RequeueLeft
  <2>2. ASSUME f \in restart, NewFlight(flights[f].work, flights[f].attempt + 1, f)
        PROVE  AccountedAt(h)'
    <3>1. PICK n \in Ids \ Made : Made' = Made \cup {n} /\ queue' = queue \cup {n}
      BY <2>2, FreshRestart
    <3>2. QED
      BY <1>24, <2>1, <3>1, Types
      DEF AccountedAt, UnstartedAt, Unlisted, Unwritten, disk, memory, bounds, RequeueLeft, Requeue
  <2>3. CASE UNCHANGED <<flights, queue>>
    BY <1>24, <2>1, <2>3, Types
    DEF Made, AccountedAt, UnstartedAt, Unlisted, Unwritten, disk, memory, bounds, RequeueLeft, Requeue
  <2>4. QED
    BY <1>24, <2>1, <2>2, <2>3, RequeueEffect DEF RequeueLeft

<1>25. ASSUME Crash
      PROVE  AccountedAt(h)'
  BY <1>25, Types
  DEF Made, AccountedAt, Unlisted, Unwritten, UnstartedAt, disk, memory, bounds, Crash, Goes, Lost
<1>26. ASSUME CutOff
      PROVE  AccountedAt(h)'
  BY <1>26, Types
  DEF Made, AccountedAt, Unlisted, Unwritten, UnstartedAt, disk, memory, bounds, CutOff
<1>27. ASSUME CutOffExit
      PROVE  AccountedAt(h)'
  BY <1>27, Types
  DEF Made, AccountedAt, Unlisted, Unwritten, UnstartedAt, disk, memory, bounds, CutOffExit, Goes,
      Lost
<1>28. ASSUME SettleCutOff
      PROVE  AccountedAt(h)'
  <2>1. live \cap owned \in SUBSET Ids
    BY Types
  <2>2. left' \subseteq live /\ faults \subseteq faults'
    BY <1>28, <2>1, FindEffect DEF SettleCutOff
  <2>3. QED
    BY <1>28, <2>2, Types
    DEF Made, AccountedAt, Unlisted, Unwritten, UnstartedAt, disk, memory, bounds, SettleCutOff

<1>29. ASSUME Reconcile
      PROVE  AccountedAt(h)'
  <2>1. live \in SUBSET Ids
    BY Types
  <2>2. left' \subseteq live /\ faults \subseteq faults'
    BY <1>29, <2>1, FindEffect DEF Reconcile
  <2>3. QED
    BY <1>29, <2>2, Types
    DEF Made, AccountedAt, Unlisted, Unwritten, UnstartedAt, disk, memory, bounds, Reconcile

<1>30. ASSUME Settled
      PROVE  AccountedAt(h)'
  BY <1>30, Types
  DEF Made, AccountedAt, Unlisted, Unwritten, UnstartedAt, disk, memory, bounds, Settled
<1>31. ASSUME UNCHANGED vars
      PROVE  AccountedAt(h)'
  BY <1>31 DEF Made, vars, AccountedAt, Unlisted, Unwritten, disk, memory, bounds
<1>32. ASSUME NEW f \in Made, WaitFails(f)
      PROVE  AccountedAt(h)'
  <2>1. CASE f = h
    <3>1. h \notin left
      BY <1>32, <2>1 DEF WaitFails, OneTower, OneMindAt, InFlight
    <3>2. QED
      BY <1>32, <2>1, <3>1, UnlistEffect, Types DEF AccountedAt, Unlisted, Unwritten, WaitFails
  <2>2. CASE f # h
    BY <1>32, <2>2, UnlistEffect, Types DEF AccountedAt, Unlisted, Unwritten, WaitFails
  <2>3. QED
    BY <2>1, <2>2
<1>q. QED
  BY <1>1, <1>2, <1>3, <1>4, <1>5, <1>6, <1>7, <1>8, <1>9, <1>10, <1>11,
     <1>12, <1>13, <1>14, <1>15, <1>16, <1>17, <1>18, <1>19, <1>20, <1>21,
     <1>22, <1>23, <1>24, <1>25, <1>26, <1>27, <1>28, <1>29, <1>30, <1>31, <1>32
  DEF Next, Launch, Work, Settle


\* A Tower looks for work or settles what is left, never both.
LEMMA StepOneTower ==
  ASSUME TypeOK, OneMind, [Next]_vars
  PROVE  OneTower'
<1>1. ASSUME NEW w \in Works, Ask(w)
      PROVE  OneTower'
  BY <1>1, Types, OfFlight
  DEF OneMind, OneTower, OneMindAt, Launching, InFlight, Settling, disk,
      memory, bounds, Ask
<1>2. ASSUME NEW f \in Made, Cancel(f)
      PROVE  OneTower'
  BY <1>2, Types, OfFlight
  DEF OneMind, OneTower, OneMindAt, Launching, InFlight, Settling, disk,
      memory, bounds, Cancel
<1>3. ASSUME Engage
      PROVE  OneTower'
  BY <1>3, Types, OfFlight
  DEF OneMind, OneTower, OneMindAt, Launching, InFlight, Settling, disk,
      memory, bounds, Engage
<1>4. ASSUME Release
      PROVE  OneTower'
  BY <1>4, Types, OfFlight
  DEF OneMind, OneTower, OneMindAt, Launching, InFlight, Settling, disk,
      memory, bounds, Release
<1>5. ASSUME NEW f \in Made, NEW how \in {"succeeded", "failed", "provider"}, ProcessEnds(f, how)
      PROVE  OneTower'
  BY <1>5, Types, OfFlight
  DEF OneMind, OneTower, OneMindAt, Launching, InFlight, Settling, disk,
      memory, bounds, ProcessEnds
<1>6. ASSUME Look
      PROVE  OneTower'
  BY <1>6, Types, OfFlight
  DEF OneMind, OneTower, OneMindAt, Launching, InFlight, Settling, disk,
      memory, bounds, Look, NobodyLaunching, NobodySettling
<1>7. ASSUME NEW f \in Made, Take(f)
      PROVE  OneTower'
  BY <1>7, Types, OfFlight
  DEF OneMind, OneTower, OneMindAt, Launching, InFlight, Settling, disk,
      memory, bounds, Take, NobodyLaunching, NobodySettling
<1>8. ASSUME NEW f \in Made, Admit(f)
      PROVE  OneTower'
  BY <1>8, Types, OfFlight
  DEF OneMind, OneTower, OneMindAt, Launching, InFlight, Settling, disk,
      memory, bounds, Admit
<1>9. ASSUME NEW f \in Made, PlanFails(f)
      PROVE  OneTower'
  BY <1>9, Types, OfFlight
  DEF OneMind, OneTower, OneMindAt, Launching, InFlight, Settling, disk,
      memory, bounds, PlanFails
<1>10. ASSUME NEW f \in Made, SpawnFails(f)
      PROVE  OneTower'
  BY <1>10, Types, OfFlight
  DEF OneMind, OneTower, OneMindAt, Launching, InFlight, Settling, disk,
      memory, bounds, SpawnFails
<1>11. ASSUME NEW f \in Made, Spawn(f)
      PROVE  OneTower'
  BY <1>11, Types, OfFlight
  DEF OneMind, OneTower, OneMindAt, Launching, InFlight, Settling, disk,
      memory, bounds, Spawn
<1>12. ASSUME NEW f \in Made, Mark(f)
      PROVE  OneTower'
  BY <1>12, Types, OfFlight
  DEF OneMind, OneTower, OneMindAt, Launching, InFlight, Settling, disk,
      memory, bounds, Mark
<1>13. ASSUME NEW f \in Made, Hold(f)
      PROVE  OneTower'
  BY <1>13, Types, OfFlight
  DEF OneMind, OneTower, OneMindAt, Launching, InFlight, Settling, disk,
      memory, bounds, Hold
<1>14. ASSUME NEW f \in Made, Notice(f)
      PROVE  OneTower'
  BY <1>14, Types, OfFlight
  DEF OneMind, OneTower, OneMindAt, Launching, InFlight, Settling, disk,
      memory, bounds, Notice
<1>15. ASSUME NEW f \in Made, Halt(f)
      PROVE  OneTower'
  BY <1>15, Types, OfFlight
  DEF OneMind, OneTower, OneMindAt, Launching, InFlight, Settling, disk,
      memory, bounds, Halt
<1>16. ASSUME NEW f \in Made, LeaveToTheNextTower(f)
      PROVE  OneTower'
  BY <1>16, Types, OfFlight
  DEF OneMind, OneTower, OneMindAt, Launching, InFlight, Settling, disk,
      memory, bounds, LeaveToTheNextTower
<1>17. ASSUME NEW f \in Made, NEW d \in BOOLEAN, Record(f, d)
      PROVE  OneTower'
  BY <1>17, Types, OfFlight
  DEF OneMind, OneTower, OneMindAt, Launching, InFlight, Settling, disk,
      memory, bounds, Record
<1>18. ASSUME NEW f \in Made, Unmark(f)
      PROVE  OneTower'
  BY <1>18, Types, OfFlight
  DEF OneMind, OneTower, OneMindAt, Launching, InFlight, Settling, disk,
      memory, bounds, Unmark
<1>19. ASSUME NEW f \in Made, QueueRestart(f)
      PROVE  OneTower'
  BY <1>19, Types, OfFlight
  DEF OneMind, OneTower, OneMindAt, Launching, InFlight, Settling, disk,
      memory, bounds, QueueRestart, Requeue
<1>20. ASSUME NEW f \in Made, Forget(f)
      PROVE  OneTower'
  BY <1>20, Types, OfFlight
  DEF OneMind, OneTower, OneMindAt, Launching, InFlight, Settling, disk,
      memory, bounds, Forget
<1>21. ASSUME NEW f \in Made, NEW d \in BOOLEAN, Found(f, d)
      PROVE  OneTower'
  BY <1>21, Types, OfFlight
  DEF OneMind, OneTower, OneMindAt, Launching, InFlight, Settling, disk,
      memory, bounds, Found, NobodyLaunching, NobodySettling
<1>22. ASSUME NEW f \in Made, Note(f)
      PROVE  OneTower'
  BY <1>22, Types, OfFlight
  DEF OneMind, OneTower, OneMindAt, Launching, InFlight, Settling, disk,
      memory, bounds, Note
<1>23. ASSUME NEW f \in Made, Clear(f)
      PROVE  OneTower'
  BY <1>23, Types, OfFlight
  DEF OneMind, OneTower, OneMindAt, Launching, InFlight, Settling, disk,
      memory, bounds, Clear
<1>24. ASSUME NEW f \in Made, RequeueLeft(f)
      PROVE  OneTower'
  BY <1>24, Types, OfFlight
  DEF OneMind, OneTower, OneMindAt, Launching, InFlight, Settling, disk,
      memory, bounds, RequeueLeft, Requeue
<1>25. ASSUME Crash
      PROVE  OneTower'
  BY <1>25, Types, OfFlight
  DEF OneMind, OneTower, OneMindAt, Launching, InFlight, Settling, disk,
      memory, bounds, Crash, Goes, Lost
<1>26. ASSUME CutOff
      PROVE  OneTower'
  BY <1>26, Types, OfFlight
  DEF OneMind, OneTower, OneMindAt, Launching, InFlight, Settling, disk,
      memory, bounds, CutOff
<1>27. ASSUME CutOffExit
      PROVE  OneTower'
  BY <1>27, Types, OfFlight
  DEF OneMind, OneTower, OneMindAt, Launching, InFlight, Settling, disk,
      memory, bounds, CutOffExit, Goes, Lost
<1>28. ASSUME SettleCutOff
      PROVE  OneTower'
  BY <1>28, Types, OfFlight
  DEF OneMind, OneTower, OneMindAt, Launching, InFlight, Settling, disk,
      memory, bounds, SettleCutOff, Idle, NobodyLaunching, NobodySettling
<1>29. ASSUME Reconcile
      PROVE  OneTower'
  BY <1>29, Types, OfFlight
  DEF OneMind, OneTower, OneMindAt, Launching, InFlight, Settling, disk,
      memory, bounds, Reconcile
<1>30. ASSUME Settled
      PROVE  OneTower'
  BY <1>30, Types, OfFlight
  DEF OneMind, OneTower, OneMindAt, Launching, InFlight, Settling, disk,
      memory, bounds, Settled
<1>31. ASSUME UNCHANGED vars
      PROVE  OneTower'
  BY <1>31
  DEF vars, OneMind, OneTower, OneMindAt, Launching, InFlight, Settling, disk,
      memory, bounds
<1>32. ASSUME NEW f \in Made, WaitFails(f)
      PROVE  OneTower'
  BY <1>32, Types, OfFlight
  DEF OneMind, OneTower, OneMindAt, Launching, InFlight, Settling, disk,
      memory, bounds, WaitFails
<1>q. QED
  BY <1>1, <1>2, <1>3, <1>4, <1>5, <1>6, <1>7, <1>8, <1>9, <1>10, <1>11,
     <1>12, <1>13, <1>14, <1>15, <1>16, <1>17, <1>18, <1>19, <1>20, <1>21,
     <1>22, <1>23, <1>24, <1>25, <1>26, <1>27, <1>28, <1>29, <1>30, <1>31, <1>32
  DEF Next, Launch, Work, Settle


\* A Tower runs something or settles what is left, never both.
LEMMA StepOneMind ==
  ASSUME NEW h \in Ids, TypeOK, UnstartedAt(h), OneMind, [Next]_vars
  PROVE  OneMindAt(h)'
<1>1. ASSUME NEW w \in Works, Ask(w)
      PROVE  OneMindAt(h)'
  BY <1>1, Types, OfFlight
  DEF OneMind, OneTower, OneMindAt, Launching, InFlight, Settling, disk,
      memory, bounds, Ask
<1>2. ASSUME NEW f \in Made, Cancel(f)
      PROVE  OneMindAt(h)'
  BY <1>2, Types, OfFlight
  DEF OneMind, OneTower, OneMindAt, Launching, InFlight, Settling, disk,
      memory, bounds, Cancel
<1>3. ASSUME Engage
      PROVE  OneMindAt(h)'
  BY <1>3, Types, OfFlight
  DEF OneMind, OneTower, OneMindAt, Launching, InFlight, Settling, disk,
      memory, bounds, Engage
<1>4. ASSUME Release
      PROVE  OneMindAt(h)'
  BY <1>4, Types, OfFlight
  DEF OneMind, OneTower, OneMindAt, Launching, InFlight, Settling, disk,
      memory, bounds, Release
<1>5. ASSUME NEW f \in Made, NEW how \in {"succeeded", "failed", "provider"}, ProcessEnds(f, how)
      PROVE  OneMindAt(h)'
  BY <1>5, Types, OfFlight
  DEF OneMind, OneTower, OneMindAt, Launching, InFlight, Settling, disk,
      memory, bounds, ProcessEnds
<1>6. ASSUME Look
      PROVE  OneMindAt(h)'
  BY <1>6, Types, OfFlight
  DEF OneMind, OneTower, OneMindAt, Launching, InFlight, Settling, disk,
      memory, bounds, Look, NobodyLaunching, NobodySettling
<1>7. ASSUME NEW f \in Made, Take(f)
      PROVE  OneMindAt(h)'
  BY <1>7, Types, OfFlight
  DEF OneMind, OneTower, OneMindAt, Launching, InFlight, Settling, disk,
      memory, bounds, Take, NobodyLaunching, NobodySettling
<1>8. ASSUME NEW f \in Made, Admit(f)
      PROVE  OneMindAt(h)'
  BY <1>8, Types, OfFlight
  DEF OneMind, OneTower, OneMindAt, Launching, InFlight, Settling, disk,
      memory, bounds, Admit
<1>9. ASSUME NEW f \in Made, PlanFails(f)
      PROVE  OneMindAt(h)'
  BY <1>9, Types, OfFlight
  DEF OneMind, OneTower, OneMindAt, Launching, InFlight, Settling, disk,
      memory, bounds, PlanFails
<1>10. ASSUME NEW f \in Made, SpawnFails(f)
      PROVE  OneMindAt(h)'
  BY <1>10, Types, OfFlight
  DEF OneMind, OneTower, OneMindAt, Launching, InFlight, Settling, disk,
      memory, bounds, SpawnFails
<1>11. ASSUME NEW f \in Made, Spawn(f)
      PROVE  OneMindAt(h)'
  BY <1>11, Types, OfFlight
  DEF OneMind, OneTower, OneMindAt, Launching, InFlight, Settling, disk,
      memory, bounds, Spawn
<1>12. ASSUME NEW f \in Made, Mark(f)
      PROVE  OneMindAt(h)'
  BY <1>12, Types, OfFlight
  DEF OneMind, OneTower, OneMindAt, Launching, InFlight, Settling, disk,
      memory, bounds, Mark
<1>13. ASSUME NEW f \in Made, Hold(f)
      PROVE  OneMindAt(h)'
  BY <1>13, Types, OfFlight
  DEF OneMind, OneTower, OneMindAt, Launching, InFlight, Settling, disk,
      memory, bounds, Hold
<1>14. ASSUME NEW f \in Made, Notice(f)
      PROVE  OneMindAt(h)'
  BY <1>14, Types, OfFlight
  DEF OneMind, OneTower, OneMindAt, Launching, InFlight, Settling, disk,
      memory, bounds, Notice
<1>15. ASSUME NEW f \in Made, Halt(f)
      PROVE  OneMindAt(h)'
  BY <1>15, Types, OfFlight
  DEF OneMind, OneTower, OneMindAt, Launching, InFlight, Settling, disk,
      memory, bounds, Halt
<1>16. ASSUME NEW f \in Made, LeaveToTheNextTower(f)
      PROVE  OneMindAt(h)'
  BY <1>16, Types, OfFlight
  DEF OneMind, OneTower, OneMindAt, Launching, InFlight, Settling, disk,
      memory, bounds, LeaveToTheNextTower
<1>17. ASSUME NEW f \in Made, NEW d \in BOOLEAN, Record(f, d)
      PROVE  OneMindAt(h)'
  BY <1>17, Types, OfFlight
  DEF OneMind, OneTower, OneMindAt, Launching, InFlight, Settling, disk,
      memory, bounds, Record
<1>18. ASSUME NEW f \in Made, Unmark(f)
      PROVE  OneMindAt(h)'
  BY <1>18, Types, OfFlight
  DEF OneMind, OneTower, OneMindAt, Launching, InFlight, Settling, disk,
      memory, bounds, Unmark
<1>19. ASSUME NEW f \in Made, QueueRestart(f)
      PROVE  OneMindAt(h)'
  BY <1>19, Types, OfFlight
  DEF OneMind, OneTower, OneMindAt, Launching, InFlight, Settling, disk,
      memory, bounds, QueueRestart, Requeue
<1>20. ASSUME NEW f \in Made, Forget(f)
      PROVE  OneMindAt(h)'
  BY <1>20, Types, OfFlight
  DEF OneMind, OneTower, OneMindAt, Launching, InFlight, Settling, disk,
      memory, bounds, Forget
<1>21. ASSUME NEW f \in Made, NEW d \in BOOLEAN, Found(f, d)
      PROVE  OneMindAt(h)'
  BY <1>21, Types, OfFlight
  DEF OneMind, OneTower, OneMindAt, Launching, InFlight, Settling, disk,
      memory, bounds, Found, NobodyLaunching, NobodySettling
<1>22. ASSUME NEW f \in Made, Note(f)
      PROVE  OneMindAt(h)'
  BY <1>22, Types, OfFlight
  DEF OneMind, OneTower, OneMindAt, Launching, InFlight, Settling, disk,
      memory, bounds, Note
<1>23. ASSUME NEW f \in Made, Clear(f)
      PROVE  OneMindAt(h)'
  BY <1>23, Types, OfFlight
  DEF OneMind, OneTower, OneMindAt, Launching, InFlight, Settling, disk,
      memory, bounds, Clear
<1>24. ASSUME NEW f \in Made, RequeueLeft(f)
      PROVE  OneMindAt(h)'
  BY <1>24, Types, OfFlight
  DEF OneMind, OneTower, OneMindAt, Launching, InFlight, Settling, disk,
      memory, bounds, RequeueLeft, Requeue
<1>25. ASSUME Crash
      PROVE  OneMindAt(h)'
  BY <1>25, Types, OfFlight
  DEF OneMind, OneTower, OneMindAt, Launching, InFlight, Settling, disk,
      memory, bounds, Crash, Goes, Lost
<1>26. ASSUME CutOff
      PROVE  OneMindAt(h)'
  BY <1>26, Types, OfFlight
  DEF OneMind, OneTower, OneMindAt, Launching, InFlight, Settling, disk,
      memory, bounds, CutOff
<1>27. ASSUME CutOffExit
      PROVE  OneMindAt(h)'
  BY <1>27, Types, OfFlight
  DEF OneMind, OneTower, OneMindAt, Launching, InFlight, Settling, disk,
      memory, bounds, CutOffExit, Goes, Lost
<1>28. ASSUME SettleCutOff
      PROVE  OneMindAt(h)'
  BY <1>28, Types
  DEF UnstartedAt, OneMind, OneTower, OneMindAt, Launching, InFlight,
      Settling, disk, memory, bounds, SettleCutOff, Idle, NobodyLaunching,
      NobodySettling
<1>29. ASSUME Reconcile
      PROVE  OneMindAt(h)'
  BY <1>29, Types, OfFlight
  DEF OneMind, OneTower, OneMindAt, Launching, InFlight, Settling, disk,
      memory, bounds, Reconcile
<1>30. ASSUME Settled
      PROVE  OneMindAt(h)'
  BY <1>30, Types, OfFlight
  DEF OneMind, OneTower, OneMindAt, Launching, InFlight, Settling, disk,
      memory, bounds, Settled
<1>31. ASSUME UNCHANGED vars
      PROVE  OneMindAt(h)'
  BY <1>31
  DEF vars, OneMind, OneTower, OneMindAt, Launching, InFlight, Settling, disk,
      memory, bounds
<1>32. ASSUME NEW f \in Made, WaitFails(f)
      PROVE  OneMindAt(h)'
  BY <1>32, Types, OfFlight
  DEF OneMind, OneTower, OneMindAt, Launching, InFlight, Settling, disk,
      memory, bounds, WaitFails
<1>q. QED
  BY <1>1, <1>2, <1>3, <1>4, <1>5, <1>6, <1>7, <1>8, <1>9, <1>10, <1>11,
     <1>12, <1>13, <1>14, <1>15, <1>16, <1>17, <1>18, <1>19, <1>20, <1>21,
     <1>22, <1>23, <1>24, <1>25, <1>26, <1>27, <1>28, <1>29, <1>30, <1>31, <1>32
  DEF Next, Launch, Work, Settle


\* A restart makes a flight newer than every other of its work, and takes the
\* run it restarts out of everything a further restart could come from.
LEMMA Restarted ==
  ASSUME TypeOK, Unstarted, OneMind, OneLine,
         NEW f \in restart, NEW next \in {"requeued", "over"},
         stage[f] \in {"unmarked", "cleared"},
         NewFlight(flights[f].work, flights[f].attempt + 1, f),
         stage' = [stage EXCEPT ![f] = next],
         restart' = restart \ {f},
         left' \subseteq left \ {f},
         UNCHANGED <<proc, live>>
  PROVE  OneLine'
<1>1. /\ f \in Made /\ f \in Ids /\ f \in Nat
      /\ flights[f].work \in Works /\ flights[f].attempt \in Nat
      /\ flights[f].attempt + 1 \in Nat
  BY Types, OfFlight
<1>2. PICK n \in Ids \ Made :
         /\ Made' = Made \cup {n}
         /\ queue' = queue \cup {n}
         /\ \A g \in Made : flights'[g] = flights[g]
         /\ flights'[n].work = flights[f].work
         /\ flights'[n].attempt = flights[f].attempt + 1
  BY <1>1, FreshRestart
<1>3. \A g \in Made : flights[g].attempt \in Nat
  BY OfFlight
<1>4. /\ Newest(f) /\ f \notin live /\ f \notin queue
      /\ proc[f] # "running" /\ flights[f].attempt <= MaxAttempts
  BY <1>1 DEF OneLine, LineAt, Active, Settling, Unstarted, UnstartedAt
<1>5. \A g \in Made : g # f /\ flights[g].work = flights[f].work => ~Newest(g)
  BY <1>1, <1>3, <1>4 DEF Newest, OneLine, OneFlightPerAttempt
<1>6. \A g \in Made :
         flights[g].work = flights[f].work => flights[g].attempt < flights[f].attempt + 1
  BY <1>1, <1>3, <1>4 DEF Newest
<1>7. OneFlightPerAttempt'
  <2>1. \A g \in Made' : flights'[g].attempt <= MaxAttempts + 1
    <3>1. MaxAttempts \in Nat
      BY LifecycleAssumption
    <3>2. \A g \in Made : flights[g].attempt <= MaxAttempts + 1
      BY DEF OneLine, OneFlightPerAttempt
    <3>3. flights'[n].attempt <= MaxAttempts + 1
      BY <1>1, <1>2, <1>4, <3>1
    <3>4. QED
      BY <1>2, <3>2, <3>3, Zenon
  <2>2. ASSUME NEW g \in Made', NEW k \in Made',
               flights'[g].work = flights'[k].work,
               flights'[g].attempt = flights'[k].attempt
        PROVE  g = k
    <3>1. CASE g \in Made /\ k \in Made
      BY <2>2, <3>1, <1>2 DEF OneLine, OneFlightPerAttempt
    <3>2. CASE g = n /\ k \in Made
      <4>1. flights[k].work = flights[f].work
               /\ flights[k].attempt = flights[f].attempt + 1
        BY <2>2, <3>2, <1>2
      <4>2. flights[k].attempt < flights[f].attempt + 1
        BY <4>1, <3>2, <1>6
      <4>3. QED
        BY <4>1, <4>2, <1>1
    <3>3. CASE g \in Made /\ k = n
      <4>1. flights[g].work = flights[f].work
               /\ flights[g].attempt = flights[f].attempt + 1
        BY <2>2, <3>3, <1>2
      <4>2. flights[g].attempt < flights[f].attempt + 1
        BY <4>1, <3>3, <1>6
      <4>3. QED
        BY <4>1, <4>2, <1>1
    <3>4. QED
      BY <3>1, <3>2, <3>3, <1>2
  <2>3. QED
    BY <2>1, <2>2 DEF OneFlightPerAttempt
<1>8. Newest(n)'
  BY <1>1, <1>2, <1>3, <1>6 DEF Newest
<1>9. \A g \in Made : flights[g].work # flights[f].work => (Newest(g)' <=> Newest(g))
  BY <1>2 DEF Newest
<1>10. ASSUME NEW h \in Ids
       PROVE  LineAt(h)'
  <2>1. CASE h = f
    BY <2>1, <1>1, <1>2, <1>4, Types DEF LineAt, Active, Launching, Settling
  <2>2. CASE h = n
    <3>1. stage[n] = "idle" /\ proc[n] = "none" /\ n \notin restart /\ n # f
      BY <1>1, <1>2, Types DEF Unstarted, UnstartedAt
    <3>2. QED
      BY <2>2, <3>1, <1>1, <1>2, <1>8, Types DEF LineAt
  <2>3. CASE h \in Made /\ h # f /\ flights[h].work = flights[f].work
    BY <2>3, <1>1, <1>2, <1>5, Types DEF OneLine, LineAt
  <2>4. CASE h \in Made /\ flights[h].work # flights[f].work
    BY <2>4, <1>1, <1>2, <1>9, Types DEF OneLine, LineAt
  <2>5. CASE h \notin Made /\ h # n
    BY <2>5, <1>1, <1>2, Types DEF OneLine, LineAt
  <2>6. QED
    BY <2>1, <2>2, <2>3, <2>4, <2>5
<1>11. QED
  BY <1>7, <1>10 DEF OneLine

\* Nothing is newer than before while no flight is made.
LEMMA Same ==
  ASSUME flights' = flights
  PROVE  (OneFlightPerAttempt' <=> OneFlightPerAttempt)
         /\ \A h : Newest(h)' <=> Newest(h)
  BY DEF OneFlightPerAttempt, Newest, Made

\* Restarts come from the newest flight of a work only.
LEMMA StepLine ==
  ASSUME ~Stubborn, TypeOK, Unstarted, OneMind, OneLine, [Next]_vars
  PROVE  OneLine'
<1>1. ASSUME NEW w \in Works, Ask(w)
      PROVE  OneLine'
  <2>1. NewFlight(w, 1, 0)
    BY <1>1 DEF Ask
  <2>2. PICK n \in Ids \ Made :
         /\ Made' = Made \cup {n}
         /\ queue' = queue \cup {n}
         /\ \A g \in Made : flights'[g] = flights[g]
         /\ flights'[n].work = w /\ flights'[n].attempt = 1
    BY <2>1, Fresh
  <2>3. /\ \A g \in Made : flights[g].work # w
        /\ UNCHANGED <<proc, live, left, stage, restart>>
    BY <1>1 DEF Ask, memory
  <2>4. OneFlightPerAttempt'
    BY <2>2, <2>3, LifecycleAssumption DEF OneLine, OneFlightPerAttempt
  <2>5. Newest(n)'
    BY <2>2, <2>3 DEF Newest
  <2>6. \A g \in Made : Newest(g)' <=> Newest(g)
    BY <2>2, <2>3 DEF Newest
  <2>7. ASSUME NEW h \in Ids
        PROVE  LineAt(h)'
    <3>1. CASE h = n
      <4>1. stage[n] = "idle" /\ proc[n] = "none" /\ n \notin restart
        BY <2>2, Types DEF Unstarted, UnstartedAt
      <4>2. QED
        BY <3>1, <4>1, <2>2, <2>3, <2>5, Types DEF LineAt
    <3>2. CASE h \in Made
      BY <3>2, <2>2, <2>3, <2>6, Types DEF OneLine, LineAt
    <3>3. CASE h \notin Made /\ h # n
      BY <3>3, <2>2, <2>3, Types DEF OneLine, LineAt
    <3>4. QED
      BY <3>1, <3>2, <3>3
  <2>8. QED
    BY <2>4, <2>7 DEF OneLine
<1>2. ASSUME NEW f \in Made, Cancel(f)
      PROVE  OneLine'
  BY <1>2, Same, Types
     DEF Unstarted, UnstartedAt, OneLine, LineAt, Made, Active, Launching, Settling, disk,
         memory, bounds, Cancel
<1>3. ASSUME Engage
      PROVE  OneLine'
  BY <1>3, Same, Types, OfFlight
  DEF OneLine, LineAt, Made, Active, Launching, Settling, disk, memory, bounds,
      Engage
<1>4. ASSUME Release
      PROVE  OneLine'
  BY <1>4, Same, Types, OfFlight
  DEF OneLine, LineAt, Made, Active, Launching, Settling, disk, memory, bounds,
      Release
<1>5. ASSUME NEW f \in Made, NEW how \in {"succeeded", "failed", "provider"}, ProcessEnds(f, how)
      PROVE  OneLine'
  BY <1>5, Same, Types, OfFlight
  DEF OneLine, LineAt, Made, Active, Launching, Settling, disk, memory, bounds,
      ProcessEnds
<1>6. ASSUME Look
      PROVE  OneLine'
  BY <1>6, Same, Types, OfFlight
  DEF OneLine, LineAt, Made, Active, Launching, Settling, disk, memory, bounds,
      Look
<1>7. ASSUME NEW f \in Made, Take(f)
      PROVE  OneLine'
  BY <1>7, Same, Types
     DEF Unstarted, UnstartedAt, OneLine, LineAt, Made, Active, Launching, Settling, disk,
         memory, bounds, Take
<1>8. ASSUME NEW f \in Made, Admit(f)
      PROVE  OneLine'
  BY <1>8, Same, Types, OfFlight
  DEF OneLine, LineAt, Made, Active, Launching, Settling, disk, memory, bounds,
      Admit
<1>9. ASSUME NEW f \in Made, PlanFails(f)
      PROVE  OneLine'
  BY <1>9, Same, Types, OfFlight
  DEF OneLine, LineAt, Made, Active, Launching, Settling, disk, memory, bounds,
      PlanFails
<1>10. ASSUME NEW f \in Made, SpawnFails(f)
      PROVE  OneLine'
  BY <1>10, Same, Types, OfFlight
  DEF OneLine, LineAt, Made, Active, Launching, Settling, disk, memory, bounds,
      SpawnFails
<1>11. ASSUME NEW f \in Made, Spawn(f)
      PROVE  OneLine'
  BY <1>11, Same, Types, OfFlight
  DEF OneLine, LineAt, Made, Active, Launching, Settling, disk, memory, bounds,
      Spawn
<1>12. ASSUME NEW f \in Made, Mark(f)
      PROVE  OneLine'
  BY <1>12, Same, Types, OfFlight
  DEF OneLine, LineAt, Made, Active, Launching, Settling, disk, memory, bounds,
      Mark
<1>13. ASSUME NEW f \in Made, Hold(f)
      PROVE  OneLine'
  BY <1>13, Same, Types, OfFlight
  DEF OneLine, LineAt, Made, Active, Launching, Settling, disk, memory, bounds,
      Hold
<1>14. ASSUME NEW f \in Made, Notice(f)
      PROVE  OneLine'
  BY <1>14, Same, Types, OfFlight
  DEF OneLine, LineAt, Made, Active, Launching, Settling, disk, memory, bounds,
      Notice
<1>15. ASSUME NEW f \in Made, Halt(f)
      PROVE  OneLine'
  BY <1>15, Same, Types, OfFlight
  DEF OneLine, LineAt, Made, Active, Launching, Settling, disk, memory, bounds,
      Halt
<1>16. ASSUME NEW f \in Made, LeaveToTheNextTower(f)
      PROVE  OneLine'
  BY <1>16, Same, Types, OfFlight
  DEF OneLine, LineAt, Made, Active, Launching, Settling, disk, memory, bounds,
      LeaveToTheNextTower
<1>17. ASSUME NEW f \in Made, NEW d \in BOOLEAN, Record(f, d)
      PROVE  OneLine'
  BY <1>17, Same, Types, OfFlight
  DEF OneLine, LineAt, Made, Active, Launching, Settling, disk, memory, bounds,
      Record, Authorize
<1>18. ASSUME NEW f \in Made, Unmark(f)
      PROVE  OneLine'
  BY <1>18, UnlistEffect, Same, Types, OfFlight
  DEF OneLine, LineAt, Made, Active, Launching, Settling, disk, memory, bounds,
      Unmark
<1>19. ASSUME NEW f \in Made, QueueRestart(f)
      PROVE  OneLine'
  <2>1. f \in Ids /\ faults' \subseteq Ids \X Failures /\ faults \subseteq faults'
    BY <1>19, OfFlight, RequeueEffect DEF QueueRestart
  <2>2. ASSUME f \in restart, NewFlight(flights[f].work, flights[f].attempt + 1, f)
        PROVE  OneLine'
    <3>1. left' \subseteq left \ {f}
      BY <1>19, Types DEF QueueRestart, OneMind, OneTower, OneMindAt, InFlight
    <3>2. QED
      BY <1>19, <2>2, <3>1, Restarted DEF QueueRestart, Requeue
  <2>3. CASE UNCHANGED <<flights, queue>>
    BY <1>19, <2>3, Same, Types
    DEF OneLine, LineAt, Made, Active, Launching, Settling, disk, memory, bounds,
        QueueRestart, Requeue
  <2>4. QED
    BY <1>19, <2>1, <2>2, <2>3, RequeueEffect DEF QueueRestart

<1>20. ASSUME NEW f \in Made, Forget(f)
      PROVE  OneLine'
  BY <1>20, Same, Types, OfFlight
  DEF OneLine, LineAt, Made, Active, Launching, Settling, disk, memory, bounds,
      Forget
<1>21. ASSUME NEW f \in Made, NEW d \in BOOLEAN, Found(f, d)
      PROVE  OneLine'
  BY <1>21, Same, Types, OfFlight
  DEF OneLine, LineAt, Made, Active, Launching, Settling, disk, memory, bounds,
      Found, Authorize
<1>22. ASSUME NEW f \in Made, Note(f)
      PROVE  OneLine'
  BY <1>22, Same, Types, OfFlight
  DEF OneLine, LineAt, Made, Active, Launching, Settling, disk, memory, bounds,
      Note
<1>23. ASSUME NEW f \in Made, Clear(f)
      PROVE  OneLine'
  BY <1>23, UnlistEffect, Same, Types, OfFlight
  DEF OneLine, LineAt, Made, Active, Launching, Settling, disk, memory, bounds,
      Clear
<1>24. ASSUME NEW f \in Made, RequeueLeft(f)
      PROVE  OneLine'
  <2>1. f \in Ids /\ faults' \subseteq Ids \X Failures /\ faults \subseteq faults'
    BY <1>24, OfFlight, RequeueEffect DEF RequeueLeft
  <2>2. ASSUME f \in restart, NewFlight(flights[f].work, flights[f].attempt + 1, f)
        PROVE  OneLine'
    <3>1. left' \subseteq left \ {f}
      BY <1>24, Types DEF RequeueLeft, OneMind, OneTower, OneMindAt, InFlight
    <3>2. QED
      BY <1>24, <2>2, <3>1, Restarted DEF RequeueLeft, Requeue
  <2>3. CASE UNCHANGED <<flights, queue>>
    BY <1>24, <2>3, Same, Types
    DEF OneLine, LineAt, Made, Active, Launching, Settling, disk, memory, bounds,
        RequeueLeft, Requeue
  <2>4. QED
    BY <1>24, <2>1, <2>2, <2>3, RequeueEffect DEF RequeueLeft

<1>25. ASSUME Crash
      PROVE  OneLine'
  BY <1>25, Same, Types, OfFlight
  DEF OneLine, LineAt, Made, Active, Launching, Settling, disk, memory, bounds,
      Crash, Goes, Lost
<1>26. ASSUME CutOff
      PROVE  OneLine'
  BY <1>26, Same, Types, OfFlight
  DEF OneLine, LineAt, Made, Active, Launching, Settling, disk, memory, bounds,
      CutOff
<1>27. ASSUME CutOffExit
      PROVE  OneLine'
  BY <1>27, Same, Types, OfFlight
  DEF OneLine, LineAt, Made, Active, Launching, Settling, disk, memory, bounds,
      CutOffExit, Goes, Lost
<1>28. ASSUME SettleCutOff
      PROVE  OneLine'
  <2>1. live \cap owned \in SUBSET Ids
    BY Types
  <2>2. left' \subseteq live
    BY <1>28, <2>1, FindEffect DEF SettleCutOff
  <2>3. QED
    BY <1>28, <2>2, Same, Types, OfFlight
    DEF OneLine, LineAt, Made, Active, Launching, Settling, disk, memory, bounds,
        SettleCutOff

<1>29. ASSUME Reconcile
      PROVE  OneLine'
  <2>1. live \in SUBSET Ids
    BY Types
  <2>2. left' \subseteq live
    BY <1>29, <2>1, FindEffect DEF Reconcile
  <2>3. QED
    BY <1>29, <2>2, Same, Types, OfFlight
    DEF OneLine, LineAt, Made, Active, Launching, Settling, disk, memory, bounds,
        Reconcile

<1>30. ASSUME Settled
      PROVE  OneLine'
  BY <1>30, Same, Types, OfFlight
  DEF OneLine, LineAt, Made, Active, Launching, Settling, disk, memory, bounds,
      Settled
<1>31. ASSUME UNCHANGED vars
      PROVE  OneLine'
  BY <1>31, Same DEF OneLine, LineAt, Made, vars
<1>32. ASSUME NEW f \in Made, WaitFails(f)
      PROVE  OneLine'
  BY <1>32, UnlistEffect, Same, Types, OfFlight
  DEF OneLine, LineAt, Made, Active, Launching, Settling, disk, memory, bounds,
      WaitFails
<1>q. QED
  BY <1>1, <1>2, <1>3, <1>4, <1>5, <1>6, <1>7, <1>8, <1>9, <1>10, <1>11,
     <1>12, <1>13, <1>14, <1>15, <1>16, <1>17, <1>18, <1>19, <1>20, <1>21,
     <1>22, <1>23, <1>24, <1>25, <1>26, <1>27, <1>28, <1>29, <1>30, <1>31, <1>32
  DEF Next, Launch, Work, Settle

-----------------------------------------------------------------------------
LEMMA InitInv == Init => Inv
<1>1. ASSUME Init
      PROVE  Unstarted /\ Accounted /\ OneMind
  BY <1>1 DEF Init, Made, Unstarted, UnstartedAt, Accounted, AccountedAt,
              OneMind, OneMindAt, OneTower, Launching, InFlight, Settling
<1>2. ASSUME Init
      PROVE  OneLine
  <2>1. Made = {}
    BY <1>2 DEF Init, Made
  <2>2. QED
    BY <1>2, <2>1 DEF Init, OneLine, LineAt, OneFlightPerAttempt
<1>3. QED
  BY <1>1, <1>2, InitTyped DEF Inv

LEMMA StepInv == Inv /\ [Next]_vars => Inv'
<1> SUFFICES ASSUME Inv, [Next]_vars PROVE Inv'
  OBVIOUS
<1>1. TypeOK'
  BY StepTyped DEF Inv
<1>2. Ids' = Ids
  BY DEF Ids
<1>3. Unstarted'
  BY <1>2, StepUnstarted DEF Inv, Unstarted
<1>4. Accounted'
  BY <1>2, StepAccounted DEF Inv, Unstarted, OneMind, Accounted
<1>5. OneMind'
  BY <1>2, StepOneTower, StepOneMind DEF Inv, Unstarted, OneMind
<1>6. ~Stubborn => OneLine'
  BY StepLine DEF Inv
<1>7. QED
  BY <1>1, <1>3, <1>4, <1>5, <1>6 DEF Inv

\* The invariant holds however often a Tower crashes or is cut off.
THEOREM InvHolds == Spec => []Inv
  BY InitInv, StepInv, PTL DEF Spec

\* Lifecycle's variables keep their types.
THEOREM TypeCorrect == Spec => []TypeOK
<1>1. Inv => TypeOK
  BY DEF Inv
<1>2. QED
  BY InvHolds, <1>1, PTL

\* A flight starts at most one process, whatever goes away between taking it
\* off the queue and writing down what became of it.
THEOREM FlightsRunOnce == Spec => []FlightRunsOnce
<1>1. Inv => FlightRunsOnce
  BY DEF Inv, Unstarted, UnstartedAt, FlightRunsOnce
<1>2. QED
  BY InvHolds, <1>1, PTL

\* A work's restarts are attempts 2, 3, ... of it, one flight each and no more
\* than max_recovery_attempts of them, where a live record can be removed.
THEOREM RestartsAreBounded ==
  ASSUME ~Stubborn
  PROVE  Spec => []OneFlightPerAttempt
<1>1. Inv => OneFlightPerAttempt
  BY DEF Inv, OneLine
<1>2. QED
  BY InvHolds, <1>1, PTL

\* No process is started for a work while another is alive for it: a running
\* process belongs to the newest flight of its work, and that is one flight.
\* Where a live record can be removed: one that resists has its run settled by
\* every Tower that starts.
THEOREM NoSecondRun ==
  ASSUME ~Stubborn
  PROVE  Spec => []NoRunBesideAnother
<1>1. ASSUME Inv, NEW f \in Made, NEW g \in Made,
             proc[f] = "running", proc[g] = "running",
             flights[f].work = flights[g].work
      PROVE  f = g
  <2>1. Newest(f) /\ Newest(g)
    BY <1>1, Types DEF Inv, OneLine, LineAt
  <2>2. flights[f].attempt \in Nat /\ flights[g].attempt \in Nat
    BY <1>1, OfFlight DEF Inv
  <2>3. flights[f].attempt = flights[g].attempt
    BY <2>1, <2>2, <1>1 DEF Newest
  <2>4. QED
    BY <2>3, <1>1 DEF Inv, OneLine, OneFlightPerAttempt
<1>2. Inv => NoRunBesideAnother
  BY <1>1 DEF NoRunBesideAnother
<1>3. QED
  BY InvHolds, <1>2, PTL

\* A run that was marked is on the list of live ones until history has it,
\* unless its own mark or its own append failed: no other run's failure, and no
\* crash, takes it off both.
THEOREM MarkedRunsAreAccountedFor == Spec => []MarkedIsAccountedFor
<1>1. Inv => MarkedIsAccountedFor
  BY Types DEF Inv, Accounted, AccountedAt, Unlisted, Unwritten, MarkedIsAccountedFor
<1>2. QED
  BY InvHolds, <1>1, PTL

\* Nothing takes a cancelled flight further.
LEMMA StepCancelled ==
  ASSUME TypeOK, Unstarted, OneMind, [Next]_vars
  PROVE  \A h \in Ids : stage[h] = "cancelled" => stage'[h] = "cancelled"
<1>1. ASSUME NEW w \in Works, Ask(w)
      PROVE  \A h \in Ids : stage[h] = "cancelled" => stage'[h] = "cancelled"
  BY <1>1, Types
  DEF Unstarted, UnstartedAt, OneMind, OneMindAt, Settling, InFlight,
      Launching, disk, memory, bounds, Ask
<1>2. ASSUME NEW f \in Made, Cancel(f)
      PROVE  \A h \in Ids : stage[h] = "cancelled" => stage'[h] = "cancelled"
  BY <1>2, Types
  DEF Unstarted, UnstartedAt, OneMind, OneMindAt, Settling, InFlight,
      Launching, disk, memory, bounds, Cancel
<1>3. ASSUME Engage
      PROVE  \A h \in Ids : stage[h] = "cancelled" => stage'[h] = "cancelled"
  BY <1>3, Types
  DEF Unstarted, UnstartedAt, OneMind, OneMindAt, Settling, InFlight,
      Launching, disk, memory, bounds, Engage
<1>4. ASSUME Release
      PROVE  \A h \in Ids : stage[h] = "cancelled" => stage'[h] = "cancelled"
  BY <1>4, Types
  DEF Unstarted, UnstartedAt, OneMind, OneMindAt, Settling, InFlight,
      Launching, disk, memory, bounds, Release
<1>5. ASSUME NEW f \in Made, NEW how \in {"succeeded", "failed", "provider"}, ProcessEnds(f, how)
      PROVE  \A h \in Ids : stage[h] = "cancelled" => stage'[h] = "cancelled"
  BY <1>5, Types
  DEF Unstarted, UnstartedAt, OneMind, OneMindAt, Settling, InFlight,
      Launching, disk, memory, bounds, ProcessEnds
<1>6. ASSUME Look
      PROVE  \A h \in Ids : stage[h] = "cancelled" => stage'[h] = "cancelled"
  BY <1>6, Types
  DEF Unstarted, UnstartedAt, OneMind, OneMindAt, Settling, InFlight,
      Launching, disk, memory, bounds, Look
<1>7. ASSUME NEW f \in Made, Take(f)
      PROVE  \A h \in Ids : stage[h] = "cancelled" => stage'[h] = "cancelled"
  BY <1>7, Types
  DEF Unstarted, UnstartedAt, OneMind, OneMindAt, Settling, InFlight,
      Launching, disk, memory, bounds, Take
<1>8. ASSUME NEW f \in Made, Admit(f)
      PROVE  \A h \in Ids : stage[h] = "cancelled" => stage'[h] = "cancelled"
  BY <1>8, Types
  DEF Unstarted, UnstartedAt, OneMind, OneMindAt, Settling, InFlight,
      Launching, disk, memory, bounds, Admit
<1>9. ASSUME NEW f \in Made, PlanFails(f)
      PROVE  \A h \in Ids : stage[h] = "cancelled" => stage'[h] = "cancelled"
  BY <1>9, Types
  DEF Unstarted, UnstartedAt, OneMind, OneMindAt, Settling, InFlight,
      Launching, disk, memory, bounds, PlanFails
<1>10. ASSUME NEW f \in Made, SpawnFails(f)
      PROVE  \A h \in Ids : stage[h] = "cancelled" => stage'[h] = "cancelled"
  BY <1>10, Types
  DEF Unstarted, UnstartedAt, OneMind, OneMindAt, Settling, InFlight,
      Launching, disk, memory, bounds, SpawnFails
<1>11. ASSUME NEW f \in Made, Spawn(f)
      PROVE  \A h \in Ids : stage[h] = "cancelled" => stage'[h] = "cancelled"
  BY <1>11, Types
  DEF Unstarted, UnstartedAt, OneMind, OneMindAt, Settling, InFlight,
      Launching, disk, memory, bounds, Spawn
<1>12. ASSUME NEW f \in Made, Mark(f)
      PROVE  \A h \in Ids : stage[h] = "cancelled" => stage'[h] = "cancelled"
  BY <1>12, Types
  DEF Unstarted, UnstartedAt, OneMind, OneMindAt, Settling, InFlight,
      Launching, disk, memory, bounds, Mark
<1>13. ASSUME NEW f \in Made, Hold(f)
      PROVE  \A h \in Ids : stage[h] = "cancelled" => stage'[h] = "cancelled"
  BY <1>13, Types
  DEF Unstarted, UnstartedAt, OneMind, OneMindAt, Settling, InFlight,
      Launching, disk, memory, bounds, Hold
<1>14. ASSUME NEW f \in Made, Notice(f)
      PROVE  \A h \in Ids : stage[h] = "cancelled" => stage'[h] = "cancelled"
  BY <1>14, Types
  DEF Unstarted, UnstartedAt, OneMind, OneMindAt, Settling, InFlight,
      Launching, disk, memory, bounds, Notice
<1>15. ASSUME NEW f \in Made, Halt(f)
      PROVE  \A h \in Ids : stage[h] = "cancelled" => stage'[h] = "cancelled"
  BY <1>15, Types
  DEF Unstarted, UnstartedAt, OneMind, OneMindAt, Settling, InFlight,
      Launching, disk, memory, bounds, Halt
<1>16. ASSUME NEW f \in Made, LeaveToTheNextTower(f)
      PROVE  \A h \in Ids : stage[h] = "cancelled" => stage'[h] = "cancelled"
  BY <1>16, Types
  DEF Unstarted, UnstartedAt, OneMind, OneMindAt, Settling, InFlight,
      Launching, disk, memory, bounds, LeaveToTheNextTower
<1>17. ASSUME NEW f \in Made, NEW d \in BOOLEAN, Record(f, d)
      PROVE  \A h \in Ids : stage[h] = "cancelled" => stage'[h] = "cancelled"
  BY <1>17, Types
  DEF Unstarted, UnstartedAt, OneMind, OneMindAt, Settling, InFlight,
      Launching, disk, memory, bounds, Record
<1>18. ASSUME NEW f \in Made, Unmark(f)
      PROVE  \A h \in Ids : stage[h] = "cancelled" => stage'[h] = "cancelled"
  BY <1>18, Types
  DEF Unstarted, UnstartedAt, OneMind, OneMindAt, Settling, InFlight,
      Launching, disk, memory, bounds, Unmark
<1>19. ASSUME NEW f \in Made, QueueRestart(f)
      PROVE  \A h \in Ids : stage[h] = "cancelled" => stage'[h] = "cancelled"
  BY <1>19, Types
  DEF Unstarted, UnstartedAt, OneMind, OneMindAt, Settling, InFlight,
      Launching, disk, memory, bounds, QueueRestart, Requeue
<1>20. ASSUME NEW f \in Made, Forget(f)
      PROVE  \A h \in Ids : stage[h] = "cancelled" => stage'[h] = "cancelled"
  BY <1>20, Types
  DEF Unstarted, UnstartedAt, OneMind, OneMindAt, Settling, InFlight,
      Launching, disk, memory, bounds, Forget
<1>21. ASSUME NEW f \in Made, NEW d \in BOOLEAN, Found(f, d)
      PROVE  \A h \in Ids : stage[h] = "cancelled" => stage'[h] = "cancelled"
  BY <1>21, Types
  DEF Unstarted, UnstartedAt, OneMind, OneMindAt, Settling, InFlight,
      Launching, disk, memory, bounds, Found
<1>22. ASSUME NEW f \in Made, Note(f)
      PROVE  \A h \in Ids : stage[h] = "cancelled" => stage'[h] = "cancelled"
  BY <1>22, Types
  DEF Unstarted, UnstartedAt, OneMind, OneMindAt, Settling, InFlight,
      Launching, disk, memory, bounds, Note
<1>23. ASSUME NEW f \in Made, Clear(f)
      PROVE  \A h \in Ids : stage[h] = "cancelled" => stage'[h] = "cancelled"
  BY <1>23, Types
  DEF Unstarted, UnstartedAt, OneMind, OneMindAt, Settling, InFlight,
      Launching, disk, memory, bounds, Clear
<1>24. ASSUME NEW f \in Made, RequeueLeft(f)
      PROVE  \A h \in Ids : stage[h] = "cancelled" => stage'[h] = "cancelled"
  BY <1>24, Types
  DEF Unstarted, UnstartedAt, OneMind, OneMindAt, Settling, InFlight,
      Launching, disk, memory, bounds, RequeueLeft, Requeue
<1>25. ASSUME Crash
      PROVE  \A h \in Ids : stage[h] = "cancelled" => stage'[h] = "cancelled"
  BY <1>25, Types
  DEF Unstarted, UnstartedAt, OneMind, OneMindAt, Settling, InFlight,
      Launching, disk, memory, bounds, Crash, Goes, Lost
<1>26. ASSUME CutOff
      PROVE  \A h \in Ids : stage[h] = "cancelled" => stage'[h] = "cancelled"
  BY <1>26, Types
  DEF Unstarted, UnstartedAt, OneMind, OneMindAt, Settling, InFlight,
      Launching, disk, memory, bounds, CutOff
<1>27. ASSUME CutOffExit
      PROVE  \A h \in Ids : stage[h] = "cancelled" => stage'[h] = "cancelled"
  BY <1>27, Types
  DEF Unstarted, UnstartedAt, OneMind, OneMindAt, Settling, InFlight,
      Launching, disk, memory, bounds, CutOffExit, Goes, Lost
<1>28. ASSUME SettleCutOff
      PROVE  \A h \in Ids : stage[h] = "cancelled" => stage'[h] = "cancelled"
  BY <1>28, Types
  DEF Unstarted, UnstartedAt, OneMind, OneMindAt, Settling, InFlight,
      Launching, disk, memory, bounds, SettleCutOff
<1>29. ASSUME Reconcile
      PROVE  \A h \in Ids : stage[h] = "cancelled" => stage'[h] = "cancelled"
  BY <1>29, Types
  DEF Unstarted, UnstartedAt, OneMind, OneMindAt, Settling, InFlight,
      Launching, disk, memory, bounds, Reconcile
<1>30. ASSUME Settled
      PROVE  \A h \in Ids : stage[h] = "cancelled" => stage'[h] = "cancelled"
  BY <1>30, Types
  DEF Unstarted, UnstartedAt, OneMind, OneMindAt, Settling, InFlight,
      Launching, disk, memory, bounds, Settled
<1>31. ASSUME UNCHANGED vars
      PROVE  \A h \in Ids : stage[h] = "cancelled" => stage'[h] = "cancelled"
  BY <1>31 DEF vars
<1>32. ASSUME NEW f \in Made, WaitFails(f)
      PROVE  \A h \in Ids : stage[h] = "cancelled" => stage'[h] = "cancelled"
  BY <1>32, Types
  DEF Unstarted, UnstartedAt, OneMind, OneMindAt, Settling, InFlight,
      Launching, disk, memory, bounds, WaitFails
<1>q. QED
  BY <1>1, <1>2, <1>3, <1>4, <1>5, <1>6, <1>7, <1>8, <1>9, <1>10, <1>11,
     <1>12, <1>13, <1>14, <1>15, <1>16, <1>17, <1>18, <1>19, <1>20, <1>21,
     <1>22, <1>23, <1>24, <1>25, <1>26, <1>27, <1>28, <1>29, <1>30, <1>31, <1>32
  DEF Next, Launch, Work, Settle

\* A cancellation that found the flight still queued is final, even when the
\* dispatcher's pass had already read the queue.
THEOREM CancellationsAreFinal == Spec => CancelledStaysCancelled
<1>1. Inv /\ [Next]_vars =>
         [\A f \in Ids : stage[f] = "cancelled" => stage'[f] = "cancelled"]_vars
  BY StepCancelled DEF Inv
<1>2. QED
  BY InvHolds, <1>1, PTL DEF Spec, CancelledStaysCancelled

-----------------------------------------------------------------------------
(* Prompts *)

(* A set of numbers that is not empty has a least one.                     *)
LEMMA Least ==
  ASSUME NEW S \in SUBSET Nat, S # {}
  PROVE  \E n \in S : \A m \in S : n <= m
<1>1. PICK n \in S : \A m \in S : <<m, n>> \notin OpToRel(<, Nat)
  BY NatLessThanWellFounded, WFMin, Zenon
<1>2. \A m \in S : ~(m < n)
  BY <1>1 DEF OpToRel
<1> QED
  BY <1>2

-----------------------------------------------------------------------------
(* Values of flags.                                                        *)
LEMMA ValuesAre ==
  ASSUME NEW v \in Values
  PROVE  DOMAIN v \subseteq FlagNames /\ \A x \in DOMAIN v : v[x] \in BOOLEAN
BY DEF Values

LEMMA ValuesMade ==
  ASSUME NEW S \in SUBSET FlagNames, NEW v \in [S -> BOOLEAN]
  PROVE  v \in Values
BY DEF Values

LEMMA NoneIsEmpty == DOMAIN None = {} /\ None \in Values
<1>1. None \in [{} -> BOOLEAN]
  BY DEF None
<1> QED
  BY <1>1, ValuesMade DEF None

LEMMA FactoryParts ==
  ASSUME NEW f \in Factories
  PROVE  /\ f \in Factory /\ f.flags \in Values /\ f.bare \subseteq Agents
         /\ Names(f) \subseteq Workflows /\ NoWorkflow \notin Names(f)
         /\ \A w \in Names(f) : /\ f.workflows[w].flags \in Values
                                /\ f.workflows[w].entry \in Options(Agents)
<1>1. f \in Factory /\ NoWorkflow \notin Workflows
  BY PromptsAssumption
<1>2. PICK W \in SUBSET Workflows : f.workflows \in [W -> Workflow]
  BY <1>1 DEF Factory
<1>3. Names(f) = W
  BY <1>2 DEF Names
<1>4. \A w \in W : f.workflows[w] \in Workflow
  BY <1>2
<1>5. \A w \in W : f.workflows[w].flags \in Values /\ f.workflows[w].entry \in Options(Agents)
  BY <1>4 DEF Workflow
<1>6. f.flags \in Values /\ f.bare \subseteq Agents
  BY <1>1 DEF Factory
<1> QED
  BY <1>1, <1>3, <1>5, <1>6

LEMMA DeclaredTyped ==
  ASSUME NEW f \in Factories, NEW w \in Names(f)
  PROVE  /\ Declared(f, w) \in Values
         /\ DOMAIN Declared(f, w) = DOMAIN f.flags \cup DOMAIN f.workflows[w].flags
<1> DEFINE own == f.workflows[w].flags
<1>1. own \in Values /\ f.flags \in Values
  BY FactoryParts
<1>2. Declared(f, w) = [x \in DOMAIN f.flags \cup DOMAIN own |->
                          IF x \in DOMAIN own THEN own[x] ELSE f.flags[x]]
  BY DEF Declared
<1> HIDE DEF own
<1>3. DOMAIN f.flags \cup DOMAIN own \in SUBSET FlagNames
  BY <1>1, ValuesAre
<1>4. \A x \in DOMAIN f.flags \cup DOMAIN own :
        (IF x \in DOMAIN own THEN own[x] ELSE f.flags[x]) \in BOOLEAN
  BY <1>1, ValuesAre
<1>5. Declared(f, w) \in [DOMAIN f.flags \cup DOMAIN own -> BOOLEAN]
  BY <1>2, <1>4
<1>6. Declared(f, w) \in Values
  BY <1>3, <1>5, ValuesMade
<1>7. DOMAIN Declared(f, w) = DOMAIN f.flags \cup DOMAIN own
  BY <1>2
<1> QED
  BY <1>6, <1>7 DEF own

LEMMA CarryingTyped ==
  ASSUME NEW f \in Factories, NEW w \in Names(f), NEW recorded \in Values
  PROVE  /\ Carrying(f, w, recorded) \in Values
         /\ DOMAIN Carrying(f, w, recorded) = DOMAIN Declared(f, w)
         /\ \A x \in DOMAIN recorded \cap DOMAIN Declared(f, w) :
              Carrying(f, w, recorded)[x] = recorded[x]
<1> DEFINE all == Declared(f, w)
           value(x) == IF x \in DOMAIN recorded THEN recorded[x] ELSE all[x]
<1>1. all \in Values
  BY DeclaredTyped
<1>2. Carrying(f, w, recorded) = [x \in DOMAIN all |-> value(x)]
  BY DEF Carrying
<1> HIDE DEF all
<1>3. DOMAIN all \in SUBSET FlagNames
  BY <1>1, ValuesAre
<1>4. \A x \in DOMAIN all : value(x) \in BOOLEAN
  BY <1>1, ValuesAre
<1>5. \A x \in DOMAIN recorded : value(x) = recorded[x]
  OBVIOUS
<1> HIDE DEF value
<1>6. Carrying(f, w, recorded) \in [DOMAIN all -> BOOLEAN]
  BY <1>2, <1>4
<1>7. Carrying(f, w, recorded) \in Values
  BY <1>3, <1>6, ValuesMade
<1>8. DOMAIN Carrying(f, w, recorded) = DOMAIN all
  BY <1>2
<1>9. \A x \in DOMAIN recorded \cap DOMAIN all : Carrying(f, w, recorded)[x] = recorded[x]
  BY <1>2, <1>5
<1> QED
  BY <1>7, <1>8, <1>9 DEF all

(* The first declaration of a flag is there when there is one.             *)
LEMMA WithoutPipelineTyped ==
  ASSUME NEW f \in Factories
  PROVE  WithoutPipeline(f) \in Values /\ DOMAIN f.flags \subseteq DOMAIN WithoutPipeline(f)
<1> DEFINE by(x) == {i \in DOMAIN Order : Order[i] \in Names(f) /\ x \in DOMAIN f.workflows[Order[i]].flags}
           first(x) == CHOOSE i \in by(x) : \A j \in by(x) : i <= j
           S == DOMAIN f.flags \cup {y \in FlagNames : by(y) # {}}
           value(x) == IF x \in DOMAIN f.flags THEN f.flags[x] ELSE f.workflows[Order[first(x)]].flags[x]
<1>1. WithoutPipeline(f) = [x \in S |-> value(x)]
  BY DEF WithoutPipeline
<1>2. f.flags \in Values /\ DOMAIN f.flags \subseteq FlagNames
  BY FactoryParts, ValuesAre
<1>3. DOMAIN Order \subseteq Nat
  BY PromptsAssumption
<1>4. ASSUME NEW x \in S PROVE value(x) \in BOOLEAN
  <2>1. CASE x \in DOMAIN f.flags
    BY <1>2, <2>1, ValuesAre
  <2>2. CASE x \notin DOMAIN f.flags
    <3>1. by(x) # {} /\ by(x) \in SUBSET Nat
      BY <1>3, <2>2
    <3>2. \E i \in by(x) : \A j \in by(x) : i <= j
      <4> HIDE DEF by
      <4> QED
        BY <3>1, Least
    <3>3. first(x) \in by(x)
      <4> HIDE DEF by
      <4> QED
        BY <3>2
    <3> DEFINE w == Order[first(x)]
    <3>4. w \in Names(f) /\ x \in DOMAIN f.workflows[w].flags
      <4> HIDE DEF first
      <4> QED
        BY <3>3
    <3> HIDE DEF w, first
    <3>5. f.workflows[w].flags[x] \in BOOLEAN
      BY <3>4, FactoryParts, ValuesAre
    <3> QED
      BY <2>2, <3>5 DEF w, first
  <2> QED
    BY <2>1, <2>2
<1>5. S \in SUBSET FlagNames /\ DOMAIN f.flags \subseteq S
  BY <1>2
<1> HIDE DEF S, value
<1>6. WithoutPipeline(f) \in [S -> BOOLEAN] /\ DOMAIN WithoutPipeline(f) = S
  BY <1>1, <1>4
<1> QED
  BY <1>5, <1>6, ValuesMade

LEMMA DeclaredByTyped ==
  ASSUME NEW f \in Factories, NEW w, NEW values \in Values
  PROVE  /\ DeclaredBy(f, w, values) \in Values
         /\ DOMAIN DeclaredBy(f, w, values) \subseteq DOMAIN values
         /\ \A x \in DOMAIN DeclaredBy(f, w, values) :
              /\ DeclaredBy(f, w, values)[x] = values[x]
              /\ w \in Names(f) => x \in DOMAIN Declared(f, w)
<1>1. CASE w \notin Names(f)
  BY <1>1 DEF DeclaredBy
<1>2. CASE w \in Names(f)
  <2> DEFINE S == DOMAIN values \cap DOMAIN Declared(f, w)
  <2>1. DeclaredBy(f, w, values) = [x \in S |-> values[x]]
    BY <1>2 DEF DeclaredBy
  <2>2. S \in SUBSET FlagNames /\ \A x \in S : values[x] \in BOOLEAN
    BY ValuesAre
  <2>3. S \subseteq DOMAIN values /\ S \subseteq DOMAIN Declared(f, w)
    OBVIOUS
  <2> HIDE DEF S
  <2>4. [x \in S |-> values[x]] \in [S -> BOOLEAN]
    BY <2>2
  <2>5. [x \in S |-> values[x]] \in Values
    BY <2>2, <2>4, ValuesMade
  <2> QED
    BY <2>1, <2>3, <2>5
<1> QED
  BY <1>1, <1>2

LEMMA FlagsForTyped ==
  ASSUME read \in Factories, NEW chain, chain.flags \in Values
  PROVE  FlagsFor(chain) \in Values
<1>1. CASE chain.workflow \in Names(read)
  BY <1>1, CarryingTyped DEF FlagsFor
<1>2. CASE chain.workflow \notin Names(read) /\ chain.flags # None
  BY <1>2 DEF FlagsFor
<1>3. CASE chain.workflow \notin Names(read) /\ chain.flags = None
  BY <1>3, WithoutPipelineTyped DEF FlagsFor
<1> QED
  BY <1>1, <1>2, <1>3

-----------------------------------------------------------------------------
(* What a prompt comes to.  The levels are a function defined from its own *)
(* values; that there is one is shown for every number of levels, the      *)
(* least without one being impossible.                                     *)
LevelsTo(files, file, taken, n, f) ==
  f = [k \in 0..n |-> IF k = 0 THEN {<< <<file, 0>> >>}
                      ELSE UNION {Steps(files, node, taken) : node \in f[k - 1]}]

LEMMA LevelsExist ==
  ASSUME NEW files, NEW file, NEW taken, NEW n \in Nat
  PROVE  \E f : LevelsTo(files, file, taken, n, f)
<1> DEFINE Start0 == {<< <<file, 0>> >>}
           More(S) == UNION {Steps(files, node, taken) : node \in S}
           Without == {m \in Nat : ~\E f : LevelsTo(files, file, taken, m, f)}
<1>0. \A m, f : LevelsTo(files, file, taken, m, f) <=>
                  f = [k \in 0..m |-> IF k = 0 THEN Start0 ELSE More(f[k - 1])]
  BY DEF LevelsTo
<1> HIDE DEF Start0, More
<1> SUFFICES ASSUME Without # {} PROVE FALSE
  OBVIOUS
<1>1. PICK m \in Without : \A l \in Without : m <= l
  <2>1. Without \in SUBSET Nat
    OBVIOUS
  <2> HIDE DEF Without
  <2> QED
    BY <2>1, Least
<1>2. m \in Nat
  OBVIOUS
<1>3. CASE m = 0
  <2> DEFINE f == [k \in 0..0 |-> Start0]
  <2>1. f = [k \in 0..0 |-> IF k = 0 THEN Start0 ELSE More(f[k - 1])]
    OBVIOUS
  <2> HIDE DEF f
  <2>2. LevelsTo(files, file, taken, 0, f)
    BY <1>0, <2>1
  <2> QED
    BY <1>3, <2>2
<1>4. CASE m # 0
  <2>1. m - 1 \in Nat /\ ~(m <= m - 1)
    BY <1>2, <1>4
  <2>2. m - 1 \notin Without
    BY <1>1, <2>1
  <2>3. PICK f : LevelsTo(files, file, taken, m - 1, f)
    BY <2>1, <2>2
  <2>4. f = [k \in 0..(m - 1) |-> IF k = 0 THEN Start0 ELSE More(f[k - 1])]
    BY <1>0, <2>3
  <2> DEFINE g == [k \in 0..m |-> IF k = m THEN More(f[m - 1]) ELSE f[k]]
             h == [k \in 0..m |-> IF k = 0 THEN Start0 ELSE More(g[k - 1])]
  <2>5. ASSUME NEW k \in 0..m PROVE g[k] = h[k]
    <3>1. CASE k = 0
      <4>1. g[k] = f[0] /\ h[k] = Start0
        BY <1>2, <1>4, <3>1
      <4>2. f[0] = Start0
        BY <2>1, <2>4
      <4> QED
        BY <4>1, <4>2
    <3>2. CASE k # 0 /\ k # m
      <4>1. k \in 0..(m - 1) /\ k - 1 \in 0..m /\ k - 1 # m
        BY <1>2, <3>2
      <4>2. g[k] = f[k] /\ g[k - 1] = f[k - 1]
        BY <3>2, <4>1
      <4>3. f[k] = More(f[k - 1])
        BY <2>4, <3>2, <4>1
      <4>4. h[k] = More(g[k - 1])
        BY <3>2
      <4> QED
        BY <4>2, <4>3, <4>4
    <3>3. CASE k = m
      <4>1. m - 1 \in 0..m /\ m - 1 # m
        BY <1>2, <2>1
      <4>2. g[m - 1] = f[m - 1] /\ g[k] = More(f[m - 1])
        BY <3>3, <4>1
      <4>3. h[k] = More(g[m - 1])
        BY <1>4, <3>3
      <4> QED
        BY <4>2, <4>3
    <3> QED
      BY <3>1, <3>2, <3>3
  <2>6. g = h
    <3>1. g = [k \in 0..m |-> g[k]] /\ h = [k \in 0..m |-> h[k]]
      OBVIOUS
    <3> HIDE DEF g, h
    <3> QED
      BY <2>5, <3>1
  <2>7. g = [k \in 0..m |-> IF k = 0 THEN Start0 ELSE More(g[k - 1])]
    BY <2>6
  <2> HIDE DEF g, h
  <2>8. LevelsTo(files, file, taken, m, g)
    BY <1>0, <2>7
  <2> QED
    BY <2>8
<1> QED
  BY <1>3, <1>4

LEMMA LevelsAre ==
  ASSUME NEW files, NEW file, NEW taken
  PROVE  /\ DOMAIN Levels(files, file, taken) = 0..MaxDepth
         /\ Levels(files, file, taken)[0] = {<< <<file, 0>> >>}
         /\ \A k \in 0..MaxDepth : k # 0 =>
              Levels(files, file, taken)[k] =
                UNION {Steps(files, node, taken) : node \in Levels(files, file, taken)[k - 1]}
<1> DEFINE L == Levels(files, file, taken)
<1>1. MaxDepth \in Nat
  BY PromptsAssumption
<1>2. PICK built : LevelsTo(files, file, taken, MaxDepth, built)
  BY <1>1, LevelsExist
<1>3. L = CHOOSE f : LevelsTo(files, file, taken, MaxDepth, f)
  BY Zenon DEF Levels, LevelsTo
<1> HIDE DEF L
<1>4. LevelsTo(files, file, taken, MaxDepth, L)
  BY <1>2, <1>3, Zenon
<1>5. L = [k \in 0..MaxDepth |->
             IF k = 0 THEN {<< <<file, 0>> >>}
             ELSE UNION {Steps(files, node, taken) : node \in L[k - 1]}]
  BY <1>4 DEF LevelsTo
<1>6. 0 \in 0..MaxDepth
  BY <1>1
<1>7. DOMAIN L = 0..MaxDepth /\ L[0] = {<< <<file, 0>> >>}
  BY <1>5, <1>6
<1>8. \A k \in 0..MaxDepth : k # 0 => L[k] = UNION {Steps(files, node, taken) : node \in L[k - 1]}
  BY <1>5
<1> QED
  BY <1>7, <1>8 DEF L

(* What some of the lines lead to, all of them lead to.                    *)
LEMMA StepsOfMore ==
  ASSUME NEW files, NEW node, NEW taken, NEW more, taken \subseteq more
  PROVE  Steps(files, node, taken) \subseteq Steps(files, node, more)
BY DEF Steps

LEMMA IncludedInMore ==
  ASSUME NEW files, NEW file, NEW taken, NEW more, taken \subseteq more
  PROVE  Included(files, file, taken) \subseteq Included(files, file, more)
<1> DEFINE L == Levels(files, file, taken)
           M == Levels(files, file, more)
           Beyond == {k \in 0..MaxDepth : ~(L[k] \subseteq M[k])}
<1>0. MaxDepth \in Nat
  BY PromptsAssumption
<1>1. /\ DOMAIN L = 0..MaxDepth /\ L[0] = {<< <<file, 0>> >>}
      /\ \A k \in 0..MaxDepth : k # 0 => L[k] = UNION {Steps(files, node, taken) : node \in L[k - 1]}
  BY LevelsAre
<1>2. /\ DOMAIN M = 0..MaxDepth /\ M[0] = {<< <<file, 0>> >>}
      /\ \A k \in 0..MaxDepth : k # 0 => M[k] = UNION {Steps(files, node, more) : node \in M[k - 1]}
  BY LevelsAre
<1>3. Included(files, file, taken) = UNION {L[k] : k \in DOMAIN L}
  <2>1. Included(files, file, taken) = UNION {L[k] : k \in 0..MaxDepth}
    BY DEF Included
  <2> QED
    BY <1>1, <2>1
<1>4. Included(files, file, more) = UNION {M[k] : k \in DOMAIN M}
  <2>1. Included(files, file, more) = UNION {M[k] : k \in 0..MaxDepth}
    BY DEF Included
  <2> QED
    BY <1>2, <2>1
<1> HIDE DEF L, M
<1>5. Beyond = {}
  <2> SUFFICES ASSUME Beyond # {} PROVE FALSE
    OBVIOUS
  <2>1. PICK k \in Beyond : \A l \in Beyond : k <= l
    <3>1. Beyond \in SUBSET Nat
      BY <1>0
    <3> HIDE DEF Beyond
    <3> QED
      BY <3>1, Least
  <2>2. k \in 0..MaxDepth /\ k # 0
    BY <1>1, <1>2
  <2>3. k - 1 \in 0..MaxDepth /\ ~(k <= k - 1)
    BY <1>0, <2>2
  <2>4. L[k - 1] \subseteq M[k - 1]
    BY <2>1, <2>3
  <2>5. L[k] = UNION {Steps(files, node, taken) : node \in L[k - 1]}
    BY <1>1, <2>2
  <2>6. M[k] = UNION {Steps(files, node, more) : node \in M[k - 1]}
    BY <1>2, <2>2
  <2>7. \A node \in L[k - 1] : Steps(files, node, taken) \subseteq Steps(files, node, more)
    BY StepsOfMore
  <2>8. L[k] \subseteq M[k]
    BY <2>4, <2>5, <2>6, <2>7
  <2> QED
    BY <2>8
<1>6. \A k \in 0..MaxDepth : L[k] \subseteq M[k]
  BY <1>5
<1> QED
  BY <1>1, <1>2, <1>3, <1>4, <1>6

(* "Anything this accepts, resolve can compose": what validation walked is *)
(* more than what any flags ask for, and the flags it met are there.       *)
LEMMA AcceptedComposes ==
  ASSUME NEW files, NEW file, NEW flags,
         Accepted(files, file), Tests(files, file) \subseteq DOMAIN flags
  PROVE  Composes(files, file, flags)
<1>1. Holding(flags) \subseteq Line
  BY DEF Holding
<1>2. Included(files, file, Holding(flags)) \subseteq Included(files, file, Line)
  BY <1>1, IncludedInMore
<1> SUFFICES ASSUME NEW node \in Included(files, file, Holding(flags))
             PROVE  /\ Usable(files, node)
                    /\ \A line \in Elements(LinesOf(files, node)) : line.flag \subseteq DOMAIN flags
  BY DEF Composes
<1>3. node \in Included(files, file, Line)
  BY <1>2
<1>4. Usable(files, node)
  BY <1>3 DEF Accepted
<1>5. ASSUME NEW line \in Elements(LinesOf(files, node)) PROVE line.flag \subseteq DOMAIN flags
  <2>1. line.flag \subseteq Tests(files, file)
    BY <1>3 DEF Tests
  <2> QED
    BY <2>1
<1> QED
  BY <1>4, <1>5

-----------------------------------------------------------------------------
(* Types.                                                                  *)
LEMMA InitPromptsTyped == PromptsInit => PromptsTypeOK
<1> SUFFICES ASSUME PromptsInit PROVE PromptsTypeOK
  OBVIOUS
<1>1. work \in PieceOfWork
  <2>1. work = [at |-> "none", agent |-> {}, workflow |-> NoWorkflow, flags |-> None,
                within |-> {}, by |-> "entry"]
    BY DEF PromptsInit
  <2> QED
    BY <2>1, NoneIsEmpty DEF PieceOfWork, Options
<1>2. known \in [workflow : Workflows \cup {NoWorkflow}, flags : Values]
  BY NoneIsEmpty DEF PromptsInit, Unknown
<1>3. 0 \in 0..MaxEdits /\ 0 \in 0..MaxRestarts
  BY PromptsAssumption
<1> QED
  BY <1>1, <1>2, <1>3, NoneIsEmpty DEF PromptsInit, PromptsTypeOK

LEMMA UnknownTyped == Unknown \in [workflow : Workflows \cup {NoWorkflow}, flags : Values]
BY NoneIsEmpty DEF Unknown

LEMMA QueuedTyped ==
  ASSUME NEW a \in Agents, NEW w \in Workflows \cup {NoWorkflow}, NEW flags \in Values,
         NEW within \in SUBSET (Workflows \cup {NoWorkflow}), NEW by \in {"entry", "resumed"}
  PROVE  /\ Queued(a, w, flags, within, by) \in PieceOfWork
         /\ Queued(a, w, flags, within, by).at = "queued"
         /\ Queued(a, w, flags, within, by).agent = {a}
         /\ Queued(a, w, flags, within, by).workflow = w
         /\ Queued(a, w, flags, within, by).flags = flags
BY DEF Queued, PieceOfWork, Options

LEMMA OpenedByTyped ==
  ASSUME PromptsTypeOK
  PROVE  OpenedBy \in [workflow : Workflows \cup {NoWorkflow}, flags : Values]
BY DEF PromptsTypeOK, PieceOfWork, OpenedBy

LEMMA AgentTyped ==
  ASSUME PromptsTypeOK, NEW a \in work.agent
  PROVE  a \in Agents
BY DEF PromptsTypeOK, PieceOfWork, Options

LEMMA EntryTyped ==
  ASSUME NEW f \in Factories, NEW w \in Names(f), NEW a \in f.workflows[w].entry
  PROVE  a \in Agents /\ w \in Workflows /\ w # NoWorkflow
<1>1. w \in Workflows /\ NoWorkflow \notin Workflows /\ f.workflows[w].entry \in Options(Agents)
  BY FactoryParts, PromptsAssumption
<1> QED
  BY <1>1 DEF Options

(* What each step sets, of the work and what is known of its chain.        *)
LEMMA StepPromptsTyped == PromptsTypeOK /\ [PromptsNext]_promptsVars => PromptsTypeOK'
<1> SUFFICES ASSUME PromptsTypeOK, [PromptsNext]_promptsVars PROVE PromptsTypeOK'
  OBVIOUS
<1> DEFINE Ways == Workflows \cup {NoWorkflow}
           Known == [workflow : Ways, flags : Values]
<1>0. /\ written \in Factories /\ read \in Factories /\ work \in PieceOfWork /\ known \in Known
      /\ made \in Values /\ wish \in Values /\ edits \in 0..MaxEdits /\ restarts \in 0..MaxRestarts
      /\ work.workflow \in Ways /\ work.flags \in Values /\ work.within \in SUBSET Ways
      /\ work.by \in {"entry", "resumed"} /\ known.workflow \in Ways
  BY DEF PromptsTypeOK, PieceOfWork
<1>00. MaxEdits \in Nat /\ MaxRestarts \in Nat
  BY PromptsAssumption
<1>1. ASSUME NEW w \in Names(read), Trigger(w) PROVE PromptsTypeOK'
  <2>1. PICK a \in read.workflows[w].entry : Opened(a, w, Carrying(read, w, None), None)
    BY <1>1 DEF Trigger
  <2>2. Carrying(read, w, None) \in Values
    BY <1>0, CarryingTyped, NoneIsEmpty
  <2>3. Queued(a, w, Carrying(read, w, None), {}, "entry") \in PieceOfWork
    BY <1>0, <2>2, EntryTyped, QueuedTyped
  <2> QED
    BY <1>0, <2>1, <2>3, NoneIsEmpty DEF Opened, PromptsTypeOK
<1>2. ASSUME NEW w \in Names(written), NEW chosen \in Values, SendFlight(w, chosen)
      PROVE  PromptsTypeOK'
  <2>1. PICK a \in written.workflows[w].entry : Opened(a, w, Carrying(written, w, chosen), chosen)
    BY <1>2 DEF SendFlight
  <2>2. Carrying(written, w, chosen) \in Values
    BY <1>0, CarryingTyped
  <2>3. Queued(a, w, Carrying(written, w, chosen), {}, "entry") \in PieceOfWork
    BY <1>0, <2>2, EntryTyped, QueuedTyped
  <2> QED
    BY <1>0, <2>1, <2>3 DEF Opened, PromptsTypeOK
<1>3. ASSUME NEW a \in Agents, SendBare(a) PROVE PromptsTypeOK'
  <2>1. Queued(a, NoWorkflow, None, {}, "entry") \in PieceOfWork
    BY NoneIsEmpty, QueuedTyped
  <2> QED
    BY <1>0, <1>3, <2>1, NoneIsEmpty DEF SendBare, Opened, PromptsTypeOK
<1>4. ASSUME Start PROVE PromptsTypeOK'
  <2>1. OpenedBy \in Known /\ OpenedBy.flags \in Values
    BY OpenedByTyped
  <2>2. FlagsFor(OpenedBy) \in Values /\ DeclaredBy(read, OpenedBy.workflow, wish) \in Values
    BY <1>0, <2>1, FlagsForTyped, DeclaredByTyped
  <2>3. work' \in PieceOfWork
    <3>1. work' = [work EXCEPT !.at = "running"] \/ work' = [work EXCEPT !.at = "refused"]
      BY <1>4 DEF Start
    <3> QED
      BY <1>0, <3>1 DEF PieceOfWork
  <2>4. /\ known' = OpenedBy /\ made' = FlagsFor(OpenedBy)
        /\ wish' = DeclaredBy(read, OpenedBy.workflow, wish)
        /\ UNCHANGED <<written, read, edits, restarts>>
    BY <1>4 DEF Start
  <2> QED
    BY <1>0, <2>1, <2>2, <2>3, <2>4 DEF PromptsTypeOK
<1>5. ASSUME NEW b \in Agents, Send(b) PROVE PromptsTypeOK'
  <2>1. Queued(b, known.workflow, made, work.within, work.by) \in PieceOfWork
    BY <1>0, QueuedTyped
  <2>2. work' \in PieceOfWork /\ known' \in Known
    BY <1>0, <1>5, <2>1, UnknownTyped DEF Send
  <2> QED
    BY <1>0, <1>5, <2>2 DEF Send, PromptsTypeOK
<1>6. ASSUME Wait PROVE PromptsTypeOK'
  <2>1. work' \in PieceOfWork
    BY <1>0, <1>6 DEF Wait, PieceOfWork
  <2> QED
    BY <1>0, <1>6, <2>1 DEF Wait, PromptsTypeOK
<1>7. ASSUME AskForHelp PROVE PromptsTypeOK'
  <2> DEFINE flags == IF known.workflow = NoWorkflow THEN None ELSE made
  <2>1. flags \in Values
    BY <1>0, NoneIsEmpty
  <2>2. work' = [work EXCEPT !.at = "asked", !.workflow = known.workflow, !.flags = flags]
    BY <1>7 DEF AskForHelp
  <2> HIDE DEF flags
  <2>3. work' \in PieceOfWork
    BY <1>0, <2>1, <2>2 DEF PieceOfWork
  <2> QED
    BY <1>0, <1>7, <2>3 DEF AskForHelp, PromptsTypeOK
<1>8. ASSUME NEW w \in Names(read), Resume(w) PROVE PromptsTypeOK'
  <2> DEFINE flags == Carrying(read, w, work.flags)
             within == (work.within \cup {work.workflow}) \ {w}
  <2>1. PICK a \in work.agent : work' = Queued(a, w, flags, within, "resumed")
    BY <1>8 DEF Resume
  <2>2. flags \in Values /\ a \in Agents /\ w \in Ways /\ within \in SUBSET Ways
    BY <1>0, CarryingTyped, AgentTyped, FactoryParts
  <2> HIDE DEF flags, within
  <2>3. work' \in PieceOfWork
    BY <2>1, <2>2, QueuedTyped
  <2>4. wish' \in Values
    BY <1>0, <1>8, DeclaredByTyped DEF Resume
  <2>5. known' = Unknown /\ UNCHANGED <<written, read, made, edits, restarts>>
    BY <1>8 DEF Resume
  <2> QED
    BY <1>0, <2>3, <2>4, <2>5, UnknownTyped DEF PromptsTypeOK
<1>9. ASSUME Reply PROVE PromptsTypeOK'
  <2> DEFINE flags == IF work.workflow \in Names(written)
                      THEN Carrying(written, work.workflow, work.flags) ELSE work.flags
  <2>1. PICK a \in work.agent : work' = Queued(a, work.workflow, flags, work.within, work.by)
    BY <1>9 DEF Reply
  <2>2. flags \in Values /\ a \in Agents
    BY <1>0, CarryingTyped, AgentTyped
  <2> HIDE DEF flags
  <2>3. work' \in PieceOfWork
    BY <1>0, <2>1, <2>2, QueuedTyped
  <2>4. wish' \in Values
    BY <1>0, <1>9, DeclaredByTyped DEF Reply
  <2>5. known' = Unknown /\ UNCHANGED <<written, read, made, edits, restarts>>
    BY <1>9 DEF Reply
  <2> QED
    BY <1>0, <2>3, <2>4, <2>5, UnknownTyped DEF PromptsTypeOK
<1>10. ASSUME Restart PROVE PromptsTypeOK'
  <2>1. work' \in PieceOfWork
    BY <1>0, <1>10 DEF Restart, PieceOfWork
  <2>2. restarts' \in 0..MaxRestarts
    BY <1>0, <1>00, <1>10 DEF Restart
  <2> QED
    BY <1>0, <1>10, <2>1, <2>2, UnknownTyped DEF Restart, PromptsTypeOK
<1>11. ASSUME NEW f \in SoundFactories, Edit(f) PROVE PromptsTypeOK'
  <2>1. edits' \in 0..MaxEdits /\ f \in Factories
    BY <1>0, <1>00, <1>11 DEF Edit, SoundFactories
  <2> QED
    BY <1>0, <1>11, <2>1 DEF Edit, PromptsTypeOK
<1>12. CASE UNCHANGED promptsVars
  BY <1>0, <1>12 DEF promptsVars, PromptsTypeOK
<1> QED
  BY <1>1, <1>2, <1>3, <1>4, <1>5, <1>6, <1>7, <1>8, <1>9, <1>10, <1>11, <1>12 DEF PromptsNext

(* The factories, the work, its flags and what was chosen keep their types, *)
(* for every set of factories.                                             *)
THEOREM PromptsTypeCorrect == PromptsSpec => []PromptsTypeOK
BY InitPromptsTyped, StepPromptsTyped, PTL DEF PromptsSpec

-----------------------------------------------------------------------------
(* What was chosen travels with the work: in the flags of the message, in  *)
(* what the Tower recorded of the chain if it recorded any, and in what a   *)
(* run is made with.  Only work of some workflow carries a choice.         *)
Agrees(flags) == \A x \in DOMAIN wish : x \in DOMAIN flags /\ flags[x] = wish[x]

Carried ==
  /\ work.at = "none" => DOMAIN wish = {} /\ known = Unknown
  /\ work.at \in {"queued", "running", "resting", "asked"} => Agrees(work.flags)
  /\ work.at \in {"queued", "running"} /\ known.flags # None => Agrees(known.flags)
  /\ work.at = "running" => Agrees(made)

OfAWorkflow ==
  DOMAIN wish # {} =>
    /\ work.workflow # NoWorkflow
    /\ work.at = "running" => known.workflow # NoWorkflow

(* What a step leaves of the choice is still agreed with.                  *)
LEMMA StillAgrees ==
  ASSUME NEW f \in Factories, NEW w, wish \in Values, NEW flags, Agrees(flags),
         wish' = DeclaredBy(f, w, wish)
  PROVE  \A x \in DOMAIN wish' : x \in DOMAIN flags /\ flags[x] = wish'[x]
BY DeclaredByTyped DEF Agrees

LEMMA CarryingAgrees ==
  ASSUME NEW f \in Factories, NEW w \in Names(f), wish \in Values, NEW flags \in Values,
         Agrees(flags), wish' = DeclaredBy(f, w, wish)
  PROVE  \A x \in DOMAIN wish' :
           x \in DOMAIN Carrying(f, w, flags) /\ Carrying(f, w, flags)[x] = wish'[x]
<1> TAKE x \in DOMAIN wish'
<1>1. x \in DOMAIN flags /\ flags[x] = wish'[x]
  BY StillAgrees
<1>2. x \in DOMAIN Declared(f, w)
  BY DeclaredByTyped
<1> QED
  BY <1>1, <1>2, CarryingTyped

LEMMA OpenedCarries ==
  ASSUME PromptsTypeOK, NEW f \in Factories, NEW w \in Names(f), NEW a \in f.workflows[w].entry,
         NEW chosen \in Values, DOMAIN chosen \subseteq DOMAIN Declared(f, w),
         Carried, Opened(a, w, Carrying(f, w, chosen), chosen)
  PROVE  Carried' /\ OfAWorkflow'
<1> DEFINE flags == Carrying(f, w, chosen)
<1>1. \A x \in DOMAIN chosen : x \in DOMAIN flags /\ flags[x] = chosen[x]
  BY CarryingTyped
<1>2. a \in Agents /\ w \in Workflows /\ w # NoWorkflow /\ flags \in Values
  BY EntryTyped, CarryingTyped
<1>3. work' = Queued(a, w, flags, {}, "entry") /\ wish' = chosen /\ known' = known /\ known = Unknown
  BY DEF Opened, Carried
<1> HIDE DEF flags
<1>4. work'.at = "queued" /\ work'.flags = flags /\ work'.workflow = w
  BY <1>2, <1>3, QueuedTyped
<1>5. known'.flags = None
  BY <1>3 DEF Unknown
<1> QED
  BY <1>1, <1>2, <1>3, <1>4, <1>5 DEF Carried, OfAWorkflow, Agrees

LEMMA StartCarries ==
  ASSUME PromptsTypeOK, Carried, OfAWorkflow, Start
  PROVE  Carried' /\ OfAWorkflow'
<1>1. /\ work.at = "queued" /\ read \in Factories /\ wish \in Values /\ work \in PieceOfWork
      /\ Agrees(work.flags) /\ (known.flags # None => Agrees(known.flags))
  BY DEF Start, PromptsTypeOK, Carried
<1>2. PICK c \in [workflow : Workflows \cup {NoWorkflow}, flags : Values] : c = OpenedBy
  BY OpenedByTyped
<1>3. /\ known' = c /\ made' = FlagsFor(c) /\ wish' = DeclaredBy(read, c.workflow, wish)
      /\ work' = [work EXCEPT !.at = "running"] \/ work' = [work EXCEPT !.at = "refused"]
  BY <1>2 DEF Start
<1>4. work'.flags = work.flags /\ work'.workflow = work.workflow /\ work'.at \in {"running", "refused"}
  BY <1>1, <1>3 DEF PieceOfWork
<1>5. Agrees(c.flags)
  BY <1>1, <1>2 DEF OpenedBy
<1>6. c.workflow = IF known.workflow = NoWorkflow THEN work.workflow ELSE known.workflow
  BY <1>2 DEF OpenedBy
<1>7. DOMAIN wish' \subseteq DOMAIN wish
  BY <1>1, <1>3, DeclaredByTyped
<1>8. \A x \in DOMAIN wish' : x \in DOMAIN work'.flags /\ work'.flags[x] = wish'[x]
  BY <1>1, <1>3, <1>4, StillAgrees
<1>9. \A x \in DOMAIN wish' : x \in DOMAIN known'.flags /\ known'.flags[x] = wish'[x]
  BY <1>1, <1>3, <1>5, StillAgrees
<1>10. \A x \in DOMAIN wish' : x \in DOMAIN made' /\ made'[x] = wish'[x]
  <2>1. CASE c.workflow \in Names(read)
    <3>1. made' = Carrying(read, c.workflow, c.flags)
      BY <1>3, <2>1 DEF FlagsFor
    <3> QED
      BY <1>1, <1>3, <1>5, <2>1, <3>1, CarryingAgrees
  <2>2. CASE c.workflow \notin Names(read) /\ c.flags # None
    <3>1. made' = c.flags
      BY <1>3, <2>2 DEF FlagsFor
    <3> QED
      BY <1>3, <1>9, <3>1
  <2>3. CASE c.flags = None
    <3>1. DOMAIN wish = {}
      BY <1>5, <2>3, NoneIsEmpty DEF Agrees
    <3> QED
      BY <1>7, <3>1
  <2> QED
    BY <2>1, <2>2, <2>3
<1>11. Carried'
  BY <1>4, <1>8, <1>9, <1>10 DEF Carried, Agrees
<1>12. OfAWorkflow'
  BY <1>3, <1>4, <1>6, <1>7 DEF OfAWorkflow
<1> QED
  BY <1>11, <1>12

LEMMA ResumeCarries ==
  ASSUME PromptsTypeOK, Carried, OfAWorkflow, NEW w \in Names(read), Resume(w)
  PROVE  Carried' /\ OfAWorkflow'
<1>1. /\ read \in Factories /\ wish \in Values /\ work \in PieceOfWork /\ work.flags \in Values
      /\ Agrees(work.flags)
  BY DEF Resume, PromptsTypeOK, PieceOfWork, Carried
<1> DEFINE flags == Carrying(read, w, work.flags)
           within == (work.within \cup {work.workflow}) \ {w}
<1>2. PICK a \in work.agent : work' = Queued(a, w, flags, within, "resumed")
  BY DEF Resume
<1>3. wish' = DeclaredBy(read, w, wish) /\ known' = Unknown
  BY DEF Resume
<1>4. \A x \in DOMAIN wish' : x \in DOMAIN flags /\ flags[x] = wish'[x]
  BY <1>1, <1>3, CarryingAgrees
<1>5. flags \in Values /\ a \in Agents /\ w \in Workflows /\ w # NoWorkflow
      /\ within \in SUBSET (Workflows \cup {NoWorkflow})
  BY <1>1, CarryingTyped, AgentTyped, FactoryParts DEF PieceOfWork
<1> HIDE DEF flags, within
<1>6. work'.at = "queued" /\ work'.flags = flags /\ work'.workflow = w
  BY <1>2, <1>5, QueuedTyped
<1>7. known'.flags = None
  BY <1>3 DEF Unknown
<1>8. Carried'
  BY <1>4, <1>6, <1>7 DEF Carried, Agrees
<1> QED
  BY <1>5, <1>6, <1>8 DEF OfAWorkflow

LEMMA ReplyCarries ==
  ASSUME PromptsTypeOK, Carried, OfAWorkflow, Reply
  PROVE  Carried' /\ OfAWorkflow'
<1> DEFINE w == work.workflow
           flags == IF w \in Names(written) THEN Carrying(written, w, work.flags) ELSE work.flags
<1>1. /\ written \in Factories /\ wish \in Values /\ work \in PieceOfWork /\ work.flags \in Values
      /\ Agrees(work.flags)
  BY DEF Reply, PromptsTypeOK, PieceOfWork, Carried
<1>2. PICK a \in work.agent : work' = Queued(a, w, flags, work.within, work.by)
  BY DEF Reply
<1>3. wish' = DeclaredBy(written, w, wish) /\ known' = Unknown
  BY DEF Reply
<1>4. \A x \in DOMAIN wish' : x \in DOMAIN flags /\ flags[x] = wish'[x]
  <2>1. CASE w \in Names(written)
    <3>1. flags = Carrying(written, w, work.flags)
      BY <2>1
    <3> HIDE DEF flags, w
    <3> QED
      BY <1>1, <1>3, <2>1, <3>1, CarryingAgrees
  <2>2. CASE w \notin Names(written)
    <3>1. flags = work.flags
      BY <2>2
    <3> HIDE DEF flags
    <3> QED
      BY <1>1, <1>3, <3>1, StillAgrees
  <2> QED
    BY <2>1, <2>2
<1>5. flags \in Values /\ a \in Agents
  BY <1>1, CarryingTyped, AgentTyped
<1>6. work'.at = "queued" /\ work'.flags = flags /\ work'.workflow = w
  <2>1. /\ w \in Workflows \cup {NoWorkflow} /\ work.by \in {"entry", "resumed"}
        /\ work.within \in SUBSET (Workflows \cup {NoWorkflow})
    BY <1>1 DEF PieceOfWork
  <2> HIDE DEF flags, w
  <2> QED
    BY <1>2, <1>5, <2>1, QueuedTyped
<1>7. known'.flags = None
  BY <1>3 DEF Unknown
<1>8. DOMAIN wish' \subseteq DOMAIN wish
  BY <1>1, <1>3, DeclaredByTyped
<1>9. Carried'
  <2> HIDE DEF flags, w
  <2> QED
    BY <1>4, <1>6, <1>7 DEF Carried, Agrees
<1> QED
  BY <1>6, <1>8, <1>9 DEF OfAWorkflow

LEMMA SendCarries ==
  ASSUME PromptsTypeOK, Carried, OfAWorkflow, NEW b \in Agents, Send(b)
  PROVE  Carried' /\ OfAWorkflow'
<1>1. /\ work.at = "running" /\ work \in PieceOfWork /\ made \in Values /\ Agrees(made)
      /\ known.flags # None => Agrees(known.flags)
      /\ known.workflow \in Workflows \cup {NoWorkflow}
  BY DEF Send, PromptsTypeOK, Carried
<1>2. /\ work' = Queued(b, known.workflow, made, work.within, work.by) /\ wish' = wish
      /\ known' = known \/ known' = Unknown
  BY DEF Send
<1>3. work'.at = "queued" /\ work'.flags = made /\ work'.workflow = known.workflow
  <2>1. /\ work.by \in {"entry", "resumed"}
        /\ work.within \in SUBSET (Workflows \cup {NoWorkflow})
    BY <1>1 DEF PieceOfWork
  <2> QED
    BY <1>1, <1>2, <2>1, QueuedTyped
<1>4. known'.flags # None => known' = known
  BY <1>2 DEF Unknown
<1>5. Carried'
  BY <1>1, <1>2, <1>3, <1>4 DEF Carried, Agrees
<1>6. OfAWorkflow'
  BY <1>1, <1>2, <1>3 DEF OfAWorkflow
<1> QED
  BY <1>5, <1>6

LEMMA SetDownCarries ==
  ASSUME PromptsTypeOK, Carried, OfAWorkflow, Wait \/ AskForHelp
  PROVE  Carried' /\ OfAWorkflow'
<1>1. /\ work.at = "running" /\ work \in PieceOfWork /\ Agrees(made)
      /\ (known.workflow = NoWorkflow => DOMAIN wish = {})
  BY DEF Wait, AskForHelp, PromptsTypeOK, Carried, OfAWorkflow
<1>2. wish' = wish /\ known' = known
  BY DEF Wait, AskForHelp
<1>3. /\ work'.at \in {"resting", "asked"} /\ work'.workflow = known.workflow
      /\ work'.flags = made \/ (known.workflow = NoWorkflow /\ work'.flags = None)
  BY <1>1 DEF Wait, AskForHelp, PieceOfWork
<1>4. Carried'
  BY <1>1, <1>2, <1>3 DEF Carried, Agrees
<1>5. OfAWorkflow'
  BY <1>1, <1>2, <1>3 DEF OfAWorkflow
<1> QED
  BY <1>4, <1>5

LEMMA RestartCarries ==
  ASSUME PromptsTypeOK, Carried, OfAWorkflow, Restart
  PROVE  Carried' /\ OfAWorkflow'
<1>1. work \in PieceOfWork /\ wish' = wish /\ known' = Unknown
  BY DEF Restart, PromptsTypeOK
<1>2. /\ work'.flags = work.flags /\ work'.workflow = work.workflow
      /\ work'.at = IF work.at = "running" THEN "queued" ELSE work.at
  BY <1>1 DEF Restart, PieceOfWork
<1>3. known'.flags = None
  BY <1>1 DEF Unknown
<1>4. Carried'
  BY <1>1, <1>2, <1>3 DEF Carried, Agrees
<1>5. OfAWorkflow'
  BY <1>1, <1>2 DEF OfAWorkflow
<1> QED
  BY <1>4, <1>5

LEMMA StepCarries ==
  ASSUME PromptsTypeOK, Carried, OfAWorkflow, [PromptsNext]_promptsVars
  PROVE  Carried' /\ OfAWorkflow'
<1>0. written \in Factories /\ read \in Factories
  BY DEF PromptsTypeOK
<1>1. ASSUME NEW w \in Names(read), Trigger(w) PROVE Carried' /\ OfAWorkflow'
  <2>1. PICK a \in read.workflows[w].entry : Opened(a, w, Carrying(read, w, None), None)
    BY <1>1 DEF Trigger
  <2> QED
    BY <1>0, <2>1, NoneIsEmpty, OpenedCarries
<1>2. ASSUME NEW w \in Names(written), NEW chosen \in Values, SendFlight(w, chosen)
      PROVE  Carried' /\ OfAWorkflow'
  <2>1. PICK a \in written.workflows[w].entry : Opened(a, w, Carrying(written, w, chosen), chosen)
    BY <1>2 DEF SendFlight
  <2>2. DOMAIN chosen \subseteq DOMAIN Declared(written, w)
    BY <1>2 DEF SendFlight
  <2> QED
    BY <1>0, <2>1, <2>2, OpenedCarries
<1>3. ASSUME NEW a \in Agents, SendBare(a) PROVE Carried' /\ OfAWorkflow'
  <2>1. wish' = None /\ known' = known /\ known = Unknown /\ known.flags = None
        /\ work' = Queued(a, NoWorkflow, None, {}, "entry")
    BY <1>3 DEF SendBare, Opened, Carried, Unknown
  <2>2. work'.at = "queued"
    BY <2>1 DEF Queued
  <2> QED
    BY <2>1, <2>2, NoneIsEmpty DEF Carried, OfAWorkflow, Agrees
<1>4. ASSUME NEW f \in SoundFactories, Edit(f) PROVE Carried' /\ OfAWorkflow'
  BY <1>4 DEF Edit, Carried, OfAWorkflow, Agrees
<1>5. CASE UNCHANGED promptsVars
  BY <1>5 DEF promptsVars, Carried, OfAWorkflow, Agrees
<1> QED
  BY <1>1, <1>2, <1>3, <1>4, <1>5, StartCarries, ResumeCarries, ReplyCarries, SendCarries,
     SetDownCarries, RestartCarries DEF PromptsNext

(* What a person chose at the trigger is what every later run is made      *)
(* with, through any number of messages, spawns, layovers, answers, edits  *)
(* and restarts, as long as each workflow the work came through declares   *)
(* it (pipeline.rs flags_carrying, runtime.rs opened_by, resume.rs).       *)
THEOREM ChoicesAreKept == PromptsSpec => []ChoicesSurvive
<1> DEFINE Kept == Carried /\ OfAWorkflow
<1>1. PromptsInit => Kept
  BY NoneIsEmpty DEF PromptsInit, Carried, OfAWorkflow
<1>2. PromptsTypeOK /\ Kept /\ [PromptsNext]_promptsVars => Kept'
  BY StepCarries
<1>3. Kept => ChoicesSurvive
  BY DEF Carried, Agrees, ChoicesSurvive
<1> HIDE DEF Kept
<1> QED
  BY <1>1, <1>2, <1>3, PromptsTypeCorrect, PTL DEF PromptsSpec

-----------------------------------------------------------------------------
(* What validation promises of a run.  Both what is on disk and what the   *)
(* Tower read pass it, or nothing was ever started, and they have the same *)
(* agents, routes and prompts.                                             *)
Alike(f, g) ==
  /\ f.bare = g.bare /\ f.routes = g.routes /\ f.spawns = g.spawns
  /\ f.prompt = g.prompt /\ f.files = g.files

Validated ==
  /\ written = read \/ {written, read} \subseteq SoundFactories
  /\ work.at # "none" => {written, read} \subseteq SoundFactories
  /\ Alike(written, read)

(* The flags of a chain that no workflow opened were made when some factory *)
(* that passes, of these prompts, was in place: they have all of its own.  *)
Covers(w, flags) ==
  w = NoWorkflow /\ flags # None =>
    \E g \in SoundFactories : Alike(g, read) /\ DOMAIN g.flags \subseteq DOMAIN flags

Covered ==
  /\ Covers(known.workflow, known.flags) /\ Covers(work.workflow, work.flags)
  /\ work.at = "running" => Covers(known.workflow, made)

LEMMA EntryPointsAre ==
  ASSUME NEW f \in Factories, NEW e \in EntryPoints(f)
  PROVE  \/ e.workflow \in Names(f) /\ e.available = DOMAIN Declared(f, e.workflow)
         \/ /\ e.workflow = NoWorkflow /\ e.available = DOMAIN f.flags
            /\ \E a \in f.bare : e.starts = {a}
BY DEF EntryPoints

(* The heart of it: a run of an agent that validation looked at, with      *)
(* flags that have what its way in declares, composes.                     *)
LEMMA LookedAtComposes ==
  ASSUME NEW f \in SoundFactories, NEW e \in EntryPoints(f),
         NEW a \in Within(f, e.workflow, e.starts), NEW flags, e.available \subseteq DOMAIN flags
  PROVE  PromptComposes(f, f.files, a, flags)
<1>1. a \in Agents
  BY DEF Within
<1>2. f.prompt[a] = f.prompt[a] /\ Sound(f)
  BY DEF SoundFactories
<1> SUFFICES ASSUME NEW file \in f.prompt[a] PROVE Composes(f.files, file, flags)
  BY DEF PromptComposes
<1>3. Accepted(f.files, file)
  BY <1>1, <1>2 DEF Sound
<1>4. Tests(f.files, file) \subseteq e.available
  BY <1>2 DEF Sound
<1> QED
  BY <1>3, <1>4, AcceptedComposes

LEMMA AlikeWithin ==
  ASSUME NEW f, NEW g, Alike(f, g), NEW w, NEW entries
  PROVE  Within(f, w, entries) = Within(g, w, entries)
BY DEF Within, Alike

(* With the flags FlagsFor gives it, whatever chain it is.                 *)
LEMMA MadeComposes ==
  ASSUME read \in SoundFactories, NEW c, c.flags \in Values, Covers(c.workflow, c.flags),
         NEW e \in EntryPoints(read), e.workflow = c.workflow,
         NEW a \in Within(read, c.workflow, e.starts)
  PROVE  PromptComposes(read, read.files, a, FlagsFor(c))
<1>0. read \in Factories
  BY DEF SoundFactories
<1>1. CASE e.workflow \in Names(read) /\ e.available = DOMAIN Declared(read, e.workflow)
  <2>1. FlagsFor(c) = Carrying(read, c.workflow, c.flags)
    BY <1>1 DEF FlagsFor
  <2>2. e.available \subseteq DOMAIN FlagsFor(c)
    BY <1>0, <1>1, <2>1, CarryingTyped
  <2> QED
    BY <2>2, LookedAtComposes
<1>2. ASSUME e.workflow = NoWorkflow, e.available = DOMAIN read.flags,
             NEW b \in read.bare, e.starts = {b}
      PROVE  PromptComposes(read, read.files, a, FlagsFor(c))
  <2>1. c.workflow \notin Names(read)
    BY <1>0, <1>2, FactoryParts
  <2>2. CASE c.flags = None
    <3>1. FlagsFor(c) = WithoutPipeline(read)
      BY <2>1, <2>2 DEF FlagsFor
    <3> QED
      BY <1>0, <1>2, <3>1, WithoutPipelineTyped, LookedAtComposes
  <2>3. CASE c.flags # None
    <3>1. FlagsFor(c) = c.flags
      BY <2>1, <2>3 DEF FlagsFor
    <3>2. PICK g \in SoundFactories : Alike(g, read) /\ DOMAIN g.flags \subseteq DOMAIN c.flags
      BY <1>2, <2>3 DEF Covers
    <3> DEFINE d == [starts |-> {b}, workflow |-> NoWorkflow, available |-> DOMAIN g.flags]
    <3>3. d \in EntryPoints(g)
      BY <1>2, <3>2 DEF EntryPoints, Alike
    <3>4. a \in Within(g, d.workflow, d.starts)
      BY <1>2, <3>2, AlikeWithin
    <3>5. d.available \subseteq DOMAIN c.flags
      BY <3>2
    <3> HIDE DEF d
    <3>6. PromptComposes(g, g.files, a, c.flags)
      BY <3>3, <3>4, <3>5, LookedAtComposes
    <3>7. PromptComposes(read, read.files, a, c.flags)
      BY <3>2, <3>6 DEF Alike, PromptComposes
    <3> QED
      BY <3>1, <3>7
  <2> QED
    BY <2>2, <2>3
<1> QED
  BY <1>0, <1>1, <1>2, EntryPointsAre

LEMMA StartComposes ==
  ASSUME PromptsTypeOK, Validated, Covered, Start
  PROVE  PromptsCompose'
<1> SUFFICES ASSUME work'.at = "refused", written' = read',
                    \A a \in work'.agent : LookedAt(known.workflow, a)'
             PROVE  FALSE
  BY DEF PromptsCompose
<1>1. /\ work.at = "queued" /\ read \in SoundFactories /\ read' = read /\ written' = written
      /\ work \in PieceOfWork
  BY DEF Start, Validated, PromptsTypeOK
<1>2. PICK c \in [workflow : Workflows \cup {NoWorkflow}, flags : Values] : c = OpenedBy
  BY OpenedByTyped
<1>3. known' = c /\ work' = [work EXCEPT !.at =
        IF \A a \in work.agent : PromptComposes(read, written.files, a, FlagsFor(c))
        THEN "running" ELSE "refused"]
  BY <1>2 DEF Start
<1>4. work'.agent = work.agent
      /\ ~\A a \in work.agent : PromptComposes(read, written.files, a, FlagsFor(c))
  BY <1>1, <1>3 DEF PieceOfWork
<1>5. PICK a \in work.agent : ~PromptComposes(read, written.files, a, FlagsFor(c))
  BY <1>4
<1>6. written.files = read.files
  BY <1>1
<1>7. LookedAt(known.workflow, a)'
  BY <1>4
<1>8. PICK e \in EntryPoints(read) : e.workflow = c.workflow /\ a \in Within(read, c.workflow, e.starts)
  BY <1>1, <1>3, <1>7 DEF LookedAt, EntryPoints, Within, Senders, Names, Declared
<1>9. Covers(c.workflow, c.flags)
  BY <1>2 DEF Covered, Covers, OpenedBy
<1>10. PromptComposes(read, read.files, a, FlagsFor(c))
  BY <1>1, <1>8, <1>9, MadeComposes
<1> QED
  BY <1>5, <1>6, <1>10

LEMMA StepComposes ==
  ASSUME PromptsTypeOK, Validated, Covered, PromptsCompose, [PromptsNext]_promptsVars
  PROVE  PromptsCompose'
<1>1. CASE Start
  BY <1>1, StartComposes
<1>2. CASE work'.at # "refused"
  BY <1>2 DEF PromptsCompose
<1>3. CASE UNCHANGED promptsVars
  BY <1>3 DEF promptsVars, PromptsCompose, LookedAt, EntryPoints, Within, Senders, Names, Declared
<1>4. CASE PromptsNext /\ ~Start
  <2>1. work \in PieceOfWork
    BY DEF PromptsTypeOK
  <2>2. ASSUME NEW a, NEW w, NEW flags, NEW within, NEW by
        PROVE  Queued(a, w, flags, within, by).at = "queued"
    BY DEF Queued
  <2>3. ASSUME NEW w, Trigger(w) \/ Resume(w) PROVE work'.at = "queued"
    BY <2>2, <2>3 DEF Trigger, Opened, Resume
  <2>4. ASSUME NEW w, NEW chosen, SendFlight(w, chosen) PROVE work'.at = "queued"
    BY <2>2, <2>4 DEF SendFlight, Opened
  <2>5. ASSUME NEW a, SendBare(a) \/ Send(a) PROVE work'.at = "queued"
    <3>1. SendBare(a) => work'.at = "queued"
      BY <2>2 DEF SendBare, Opened
    <3>2. Send(a) => work' = Queued(a, known.workflow, made, work.within, work.by)
      BY DEF Send
    <3> QED
      BY <2>2, <2>5, <3>1, <3>2
  <2>6. Reply => work'.at = "queued"
    BY <2>2 DEF Reply
  <2>7. Wait \/ AskForHelp => work'.at \in {"resting", "asked"}
    BY <2>1 DEF Wait, AskForHelp, PieceOfWork
  <2>8. Restart => work'.at # "refused"
    BY <2>1 DEF Restart, PieceOfWork
  <2>9. \A f : Edit(f) => work'.at # "refused"
    BY DEF Edit
  <2>10. work'.at # "refused"
    BY <1>4, <2>3, <2>4, <2>5, <2>6, <2>7, <2>8, <2>9 DEF PromptsNext
  <2> QED
    BY <2>10, <1>2
<1> QED
  BY <1>1, <1>3, <1>4

(* The factories that pass stay alike, whoever edits.                      *)
LEMMA EditAlike ==
  ASSUME NEW f \in Factories, NEW g \in Factories, [f EXCEPT !.flags = g.flags, !.workflows = g.workflows] = g
  PROVE  Alike(f, g)
<1>1. f \in Factory /\ g \in Factory
  BY PromptsAssumption
<1> DEFINE h == [f EXCEPT !.flags = g.flags, !.workflows = g.workflows]
<1>2. h.bare = f.bare /\ h.routes = f.routes /\ h.spawns = f.spawns
      /\ h.prompt = f.prompt /\ h.files = f.files
  BY <1>1 DEF Factory
<1> HIDE DEF h
<1>3. h = g
  BY DEF h
<1> QED
  BY <1>2, <1>3 DEF Alike

LEMMA StepValidated ==
  ASSUME PromptsTypeOK, Validated, [PromptsNext]_promptsVars
  PROVE  Validated' /\ (Alike(read', read) /\ (read' # read => Restart))
<1>0. written \in Factories /\ read \in Factories /\ work \in PieceOfWork
  BY DEF PromptsTypeOK
<1>1. ASSUME NEW f \in SoundFactories, Edit(f) PROVE Validated' /\ Alike(read', read) /\ read' = read
  <2>1. f \in Factories
    BY DEF SoundFactories
  <2>2. Alike(f, written)
    BY <1>0, <1>1, <2>1, EditAlike DEF Edit
  <2>3. read \in SoundFactories /\ written' = f /\ read' = read /\ work' = work
    BY <1>1 DEF Edit
  <2> QED
    BY <2>2, <2>3 DEF Validated, Alike
<1>2. ASSUME Restart PROVE Validated' /\ Alike(read', read)
  <2>1. read \in SoundFactories /\ read' = written /\ written' = written
    BY <1>2 DEF Restart
  <2>2. written \in SoundFactories
    BY <2>1 DEF Validated
  <2> QED
    BY <2>1, <2>2 DEF Validated, Alike
<1>3. ASSUME NEW w \in Names(read), Trigger(w) \/ Resume(w)
      PROVE  Validated' /\ Alike(read', read) /\ read' = read
  <2>1. read' = read /\ written' = written /\ (read \in SoundFactories \/ work.at # "none")
    BY <1>3 DEF Trigger, Resume, Opened
  <2> QED
    BY <2>1 DEF Validated, Alike
<1>4. ASSUME NEW w \in Names(written), NEW chosen \in Values, SendFlight(w, chosen)
      PROVE  Validated' /\ Alike(read', read) /\ read' = read
  <2>1. read' = read /\ written' = written /\ written \in SoundFactories
    BY <1>4 DEF SendFlight, Opened
  <2> QED
    BY <2>1 DEF Validated, Alike
<1>5. ASSUME NEW a \in Agents, SendBare(a) \/ Send(a)
      PROVE  Validated' /\ Alike(read', read) /\ read' = read
  <2>1. /\ read' = read /\ written' = written
        /\ written \in SoundFactories \/ work.at # "none"
    BY <1>5 DEF SendBare, Send, Opened
  <2> QED
    BY <2>1 DEF Validated, Alike
<1>6. ASSUME Start \/ Wait \/ AskForHelp \/ Reply
      PROVE  Validated' /\ Alike(read', read) /\ read' = read
  <2>1. read' = read /\ written' = written /\ work.at # "none"
    BY <1>6 DEF Start, Wait, AskForHelp, Reply
  <2> QED
    BY <2>1 DEF Validated, Alike
<1>7. ASSUME UNCHANGED promptsVars PROVE Validated' /\ Alike(read', read) /\ read' = read
  BY <1>7 DEF promptsVars, Validated, Alike
<1> QED
  BY <1>1, <1>2, <1>3, <1>4, <1>5, <1>6, <1>7 DEF PromptsNext

(* What covers a chain still does after a restart: the factories are alike. *)
LEMMA StillCovers ==
  ASSUME NEW w, NEW flags, Covers(w, flags), Alike(read', read)
  PROVE  Covers(w, flags)'
BY DEF Covers, Alike

LEMMA NothingToCover ==
  ASSUME NEW w, NEW flags, w # NoWorkflow \/ flags = None
  PROVE  Covers(w, flags)
BY DEF Covers

LEMMA StartCovered ==
  ASSUME PromptsTypeOK, Validated, Covered, Start
  PROVE  /\ Covers(known'.workflow, known'.flags) /\ Covers(work'.workflow, work'.flags)
         /\ Covers(known'.workflow, made')
<1>1. read \in SoundFactories /\ read \in Factories /\ work \in PieceOfWork
  BY DEF Start, Validated, PromptsTypeOK
<1>2. PICK c \in [workflow : Workflows \cup {NoWorkflow}, flags : Values] : c = OpenedBy
  BY OpenedByTyped
<1>3. known' = c /\ made' = FlagsFor(c)
      /\ (work' = [work EXCEPT !.at = "running"] \/ work' = [work EXCEPT !.at = "refused"])
  BY <1>2 DEF Start
<1>4. work'.flags = work.flags /\ work'.workflow = work.workflow
  BY <1>1, <1>3 DEF PieceOfWork
<1>5. Covers(c.workflow, c.flags)
  BY <1>2 DEF Covered, Covers, OpenedBy
<1>6. CASE c.workflow # NoWorkflow
  BY <1>3, <1>4, <1>5, <1>6, NothingToCover DEF Covered
<1>7. CASE c.workflow = NoWorkflow
  <2>1. c.workflow \notin Names(read)
    BY <1>1, <1>7, FactoryParts
  <2>2. CASE c.flags # None
    <3>1. made' = c.flags
      BY <1>3, <2>1, <2>2 DEF FlagsFor
    <3> QED
      BY <1>3, <1>4, <1>5, <3>1 DEF Covered
  <2>3. CASE c.flags = None
    <3>1. made' = WithoutPipeline(read)
      BY <1>3, <2>1, <2>3 DEF FlagsFor
    <3>2. Alike(read, read) /\ DOMAIN read.flags \subseteq DOMAIN made'
      BY <1>1, <3>1, WithoutPipelineTyped DEF Alike
    <3>3. Covers(c.workflow, made')
      BY <1>1, <3>2 DEF Covers
    <3> QED
      BY <1>3, <1>4, <1>5, <3>3 DEF Covered
  <2> QED
    BY <2>2, <2>3
<1> QED
  BY <1>6, <1>7

LEMMA StepCovered ==
  ASSUME PromptsTypeOK, Validated, Covered, [PromptsNext]_promptsVars
  PROVE  Covered'
<1>0. /\ written \in Factories /\ read \in Factories /\ work \in PieceOfWork
      /\ Alike(read', read) /\ work' \in PieceOfWork
      /\ work.flags \in Values /\ made \in Values /\ known.workflow \in Workflows \cup {NoWorkflow}
      /\ work.workflow \in Workflows \cup {NoWorkflow}
      /\ work.within \in SUBSET (Workflows \cup {NoWorkflow}) /\ work.by \in {"entry", "resumed"}
  <2>1. PromptsTypeOK'
    BY StepPromptsTyped
  <2>2. Alike(read', read)
    BY StepValidated
  <2> QED
    BY <2>1, <2>2 DEF PromptsTypeOK, PieceOfWork
<1> DEFINE Now == /\ Covers(known'.workflow, known'.flags) /\ Covers(work'.workflow, work'.flags)
                  /\ work'.at = "running" => Covers(known'.workflow, made')
<1> SUFFICES Now
  BY <1>0 DEF Covered, Covers, Alike
<1>1. Covers(Unknown.workflow, Unknown.flags)
  BY DEF Unknown, Covers
<1>2. Covers(known.workflow, known.flags) /\ Covers(work.workflow, work.flags)
  BY DEF Covered
<1>3. ASSUME NEW f \in Factories, NEW w \in Names(f), NEW a \in f.workflows[w].entry,
             NEW chosen \in Values, Opened(a, w, Carrying(f, w, chosen), chosen)
      PROVE  Now
  <2> DEFINE flags == Carrying(f, w, chosen)
  <2>1. a \in Agents /\ w \in Workflows /\ w # NoWorkflow /\ flags \in Values
    BY EntryTyped, CarryingTyped
  <2>2. work' = Queued(a, w, flags, {}, "entry") /\ known' = known
    BY <1>3 DEF Opened
  <2> HIDE DEF flags
  <2>3. work'.at = "queued" /\ work'.workflow = w
    BY <2>1, <2>2, QueuedTyped
  <2>4. Covers(work'.workflow, work'.flags)
    BY <2>1, <2>3, NothingToCover
  <2> QED
    BY <1>2, <2>2, <2>3, <2>4
<1>4. ASSUME NEW w \in Names(read), Trigger(w) PROVE Now
  <2>1. PICK a \in read.workflows[w].entry : Opened(a, w, Carrying(read, w, None), None)
    BY <1>4 DEF Trigger
  <2> HIDE DEF Now
  <2> QED
    BY <1>0, <1>3, <2>1, NoneIsEmpty
<1>5. ASSUME NEW w \in Names(written), NEW chosen \in Values, SendFlight(w, chosen) PROVE Now
  <2>1. PICK a \in written.workflows[w].entry : Opened(a, w, Carrying(written, w, chosen), chosen)
    BY <1>5 DEF SendFlight
  <2> HIDE DEF Now
  <2> QED
    BY <1>0, <1>3, <2>1
<1>6. ASSUME NEW a \in Agents, SendBare(a) PROVE Now
  <2>1. work' = Queued(a, NoWorkflow, None, {}, "entry") /\ known' = known
    BY <1>6 DEF SendBare, Opened
  <2>2. work'.at = "queued" /\ work'.flags = None
    BY <2>1 DEF Queued
  <2>3. Covers(work'.workflow, work'.flags)
    BY <2>2, NothingToCover
  <2> QED
    BY <1>2, <2>1, <2>2, <2>3
<1>7. ASSUME NEW b \in Agents, Send(b) PROVE Now
  <2>1. work' = Queued(b, known.workflow, made, work.within, work.by)
        /\ (known' = known \/ known' = Unknown) /\ work.at = "running"
    BY <1>7 DEF Send
  <2>2. work'.at = "queued" /\ work'.flags = made /\ work'.workflow = known.workflow
    BY <1>0, <2>1, QueuedTyped
  <2>3. Covers(work'.workflow, work'.flags)
    BY <2>1, <2>2 DEF Covered
  <2> QED
    BY <1>1, <1>2, <2>1, <2>2, <2>3
<1>8. ASSUME Wait \/ AskForHelp PROVE Now
  <2>1. work.at = "running" /\ known' = known
    BY <1>8 DEF Wait, AskForHelp
  <2>2. /\ work'.at \in {"resting", "asked"} /\ work'.workflow = known.workflow
        /\ (work'.flags = made \/ work'.flags = None)
    BY <1>0, <1>8 DEF Wait, AskForHelp, PieceOfWork
  <2>3. Covers(work'.workflow, work'.flags)
    BY <2>1, <2>2, NothingToCover DEF Covered
  <2> QED
    BY <1>2, <2>1, <2>2, <2>3
<1>9. ASSUME NEW w \in Names(read), Resume(w) PROVE Now
  <2> DEFINE flags == Carrying(read, w, work.flags)
             within == (work.within \cup {work.workflow}) \ {w}
  <2>1. PICK a \in work.agent : work' = Queued(a, w, flags, within, "resumed")
    BY <1>9 DEF Resume
  <2>2. flags \in Values /\ a \in Agents /\ w \in Workflows /\ w # NoWorkflow
        /\ within \in SUBSET (Workflows \cup {NoWorkflow})
    BY <1>0, CarryingTyped, AgentTyped, FactoryParts
  <2> HIDE DEF flags, within
  <2>3. work'.at = "queued" /\ work'.workflow = w
    BY <2>1, <2>2, QueuedTyped
  <2>4. Covers(work'.workflow, work'.flags)
    BY <2>2, <2>3, NothingToCover
  <2>5. known' = Unknown
    BY <1>9 DEF Resume
  <2> QED
    BY <1>1, <2>3, <2>4, <2>5
<1>10. ASSUME Reply PROVE Now
  <2> DEFINE flags == IF work.workflow \in Names(written)
                      THEN Carrying(written, work.workflow, work.flags) ELSE work.flags
  <2>1. PICK a \in work.agent : work' = Queued(a, work.workflow, flags, work.within, work.by)
    BY <1>10 DEF Reply
  <2>2. flags \in Values /\ a \in Agents
    BY <1>0, CarryingTyped, AgentTyped
  <2>3. flags = work.flags \/ work.workflow # NoWorkflow
    BY <1>0, FactoryParts
  <2> HIDE DEF flags
  <2>4. work'.at = "queued" /\ work'.workflow = work.workflow /\ work'.flags = flags
    <3> DEFINE w == work.workflow
    <3>1. /\ w \in Workflows \cup {NoWorkflow} /\ work.by \in {"entry", "resumed"}
          /\ work.within \in SUBSET (Workflows \cup {NoWorkflow})
      BY <1>0
    <3>2. work' = Queued(a, w, flags, work.within, work.by)
      BY <2>1
    <3> HIDE DEF w
    <3>3. work'.at = "queued" /\ work'.workflow = w /\ work'.flags = flags
      BY <2>2, <3>1, <3>2, QueuedTyped
    <3> QED
      BY <3>3 DEF w
  <2>5. Covers(work'.workflow, work'.flags)
    BY <1>2, <2>3, <2>4, NothingToCover
  <2>6. known' = Unknown
    BY <1>10 DEF Reply
  <2> QED
    BY <1>1, <2>4, <2>5, <2>6
<1>11. ASSUME Start PROVE Now
  BY <1>11, StartCovered
<1>12. ASSUME Restart PROVE Now
  <2>1. known' = Unknown /\ work'.workflow = work.workflow /\ work'.flags = work.flags
        /\ work'.at # "running"
    BY <1>0, <1>12 DEF Restart, PieceOfWork
  <2> QED
    BY <1>1, <1>2, <2>1
<1>13. ASSUME NEW f, Edit(f) PROVE Now
  BY <1>2, <1>13 DEF Edit, Covered
<1>14. ASSUME UNCHANGED promptsVars PROVE Now
  BY <1>2, <1>14 DEF promptsVars, Covered
<1> HIDE DEF Now
<1> QED
  BY <1>4, <1>5, <1>6, <1>7, <1>8, <1>9, <1>10, <1>11, <1>12, <1>13, <1>14 DEF PromptsNext

(* "Anything this accepts, resolve can compose" (prompt.rs:193): in every  *)
(* factory without errors, with prompts that include each other in any way, *)
(* no run of an agent validation looked at is refused for its prompt,      *)
(* whatever was chosen, however the work came to its agent, however often  *)
(* the file is edited and however many Towers the work outlived, unless the *)
(* file was edited under the Tower that runs it.                           *)
THEOREM AcceptedPromptsCompose == PromptsSpec => []PromptsCompose
<1> DEFINE Kept == Validated /\ Covered /\ PromptsCompose
<1>1. PromptsInit => Kept
  BY DEF PromptsInit, Validated, Covered, Covers, PromptsCompose, Alike, Unknown
<1>2. PromptsTypeOK /\ Kept /\ [PromptsNext]_promptsVars => Kept'
  BY StepValidated, StepCovered, StepComposes
<1>3. Kept => PromptsCompose
  OBVIOUS
<1> HIDE DEF Kept
<1> QED
  BY <1>1, <1>2, <1>3, PromptsTypeCorrect, PTL DEF PromptsSpec


=============================================================================
