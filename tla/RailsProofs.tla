---------------------------- MODULE RailsProofs ----------------------------
(* Proofs about Rails, for every number of slots, chains and budgets.      *)
EXTENDS Rails, FiniteSetTheorems, TLAPS

RunType == [chain : Chains, hops : Hops, stage : Stages, usd : 0..MaxCost]

USE DEF accounts, history, Stages, RunType

(* A restart carries at most as many hops as a flight may.                 *)
LEMMA QueueTyped ==
  ASSUME queue \in [Chains -> [Hops -> Nat]], NEW c, NEW h,
         Queue(c, h) \/ Unqueue(c, h)
  PROVE  queue' \in [Chains -> [Hops -> Nat]]
<1>1. CASE Queue(c, h)
  <2>1. queue' = [queue EXCEPT ![c][h] = @ + 1]
    BY <1>1 DEF Queue
  <2>2. c \in Chains /\ h \in Hops => queue[c][h] + 1 \in Nat
    OBVIOUS
  <2> QED
    BY <2>1, <2>2
<1>2. CASE Unqueue(c, h)
  <2>1. CASE c \in Chains /\ h \in Hops
    <3>1. queue[c][h] \in Nat /\ queue[c][h] > 0
      BY <1>2, <2>1 DEF Unqueue
    <3>2. queue[c][h] - 1 \in Nat
      BY <3>1
    <3> QED
      BY <1>2, <2>1, <3>2 DEF Unqueue
  <2>2. CASE ~(c \in Chains /\ h \in Hops)
    <3>1. queue' = queue
      BY <1>2, <2>2 DEF Unqueue
    <3> QED
      BY <3>1
  <2> QED
    BY <2>1, <2>2
<1> QED
  BY <1>1, <1>2

LEMMA InitTyped == Init => TypeOK
<1> SUFFICES ASSUME Init PROVE TypeOK
  OBVIOUS
<1>1. queue \in [Chains -> [Hops -> Nat]] /\ ledger \in [Ages -> Nat] /\ paid \in [Ages -> Nat]
  BY DEF Init
<1>2. /\ fuel \in [Chains -> Nat] /\ spent \in [Chains -> Nat]
      /\ started \in [Chains -> Nat] /\ procs \in [Chains -> Nat]
  BY DEF Init, NoneYet
<1>3. run \in [Slots -> {Idle} \cup RunType]
  BY DEF Init
<1>4. stops \in 0..MaxStops /\ minted \subseteq Chains /\ known \subseteq Chains
  BY RailsAssumption DEF Init
<1> QED
  BY <1>1, <1>2, <1>3, <1>4 DEF TypeOK

(* A slot in use holds a run.                                              *)
LEMMA RunningTyped ==
  ASSUME TypeOK, NEW s \in Slots, Running(s)
  PROVE  run[s] \in RunType
BY DEF TypeOK, Running

(* Filing a cost keeps the history typed.                                  *)
LEMMA BillTyped ==
  ASSUME ledger \in [Ages -> Nat], paid \in [Ages -> Nat],
         NEW usd \in Nat, NEW a \in Ages, NEW before, Bill(usd, a, before)
  PROVE  ledger' \in [Ages -> Nat] /\ paid' \in [Ages -> Nat]
<1>1. ledger[a] + usd \in Nat /\ paid[a] + usd \in Nat
  OBVIOUS
<1>2. ledger' = [ledger EXCEPT ![a] = @ + usd]
  BY DEF Bill
<1>3. paid' = paid \/ paid' = [paid EXCEPT ![a] = @ + usd]
  BY DEF Bill
<1> QED
  BY <1>1, <1>2, <1>3

(* A child that prints nonsense reports no cost.                           *)
LEMMA DebitTyped ==
  ASSUME NEW usd \in -1..MaxCost
  PROVE  Debit(usd) \in 0..MaxCost /\ Debit(usd) \in Nat /\ MaxCost \in Nat
BY RailsAssumption DEF Debit

(* A fresh itinerary is one.                                               *)
LEMMA FreshTyped == ASSUME minted \subseteq Chains, minted # Chains PROVE Fresh \in Chains
BY DEF Fresh

(* Every step keeps the types.                                             *)
LEMMA StepTyped == TypeOK /\ [Next]_vars => TypeOK'
<1> SUFFICES ASSUME TypeOK, [Next]_vars
             PROVE  TypeOK'
  OBVIOUS
<1>t. /\ minted \subseteq Chains /\ known \subseteq Chains
      /\ queue \in [Chains -> [Hops -> Nat]] /\ fuel \in [Chains -> Nat]
      /\ spent \in [Chains -> Nat] /\ started \in [Chains -> Nat]
      /\ run \in [Slots -> {Idle} \cup RunType] /\ ledger \in [Ages -> Nat]
      /\ paid \in [Ages -> Nat] /\ procs \in [Chains -> Nat] /\ stops \in 0..MaxStops
  BY DEF TypeOK
<1>a. Budgets \subseteq Nat /\ MaxHops \in Nat \ {0} /\ MaxCost \in Nat /\ MaxStops \in Nat
  BY RailsAssumption
<1>1. ASSUME Mint
      PROVE  TypeOK'
  <2>1. queue' \in [Chains -> [Hops -> Nat]] /\ Fresh \in Chains
    BY <1>1, <1>t, QueueTyped, FreshTyped DEF Mint
  <2> QED
    BY <1>1, <1>t, <2>1 DEF Mint, TypeOK
<1>2. ASSUME NEW s \in Slots, Send(s)
      PROVE  TypeOK'
  <2>1. queue' \in [Chains -> [Hops -> Nat]]
    BY <1>2, <1>t, QueueTyped DEF Send
  <2> QED
    BY <1>2, <1>t, <2>1 DEF Send, TypeOK
<1>3. ASSUME NEW s \in Slots, NEW c \in Chains, NEW h \in Hops, Dispatch(s, c, h)
      PROVE  TypeOK'
  <2> PICK budget \in Budgets : \/ Start(s, c, h, budget)
                                \/ StartFails(s, c, h, budget)
                                \/ Refuse(s, c, h, budget)
    BY <1>3 DEF Dispatch
  <2>1. Unqueue(c, h) /\ Account(c, budget) /\ UNCHANGED <<minted, spent, history, stops>>
    BY DEF Start, StartFails, Refuse, Admit
  <2>2. queue' \in [Chains -> [Hops -> Nat]]
    BY <1>t, <2>1, QueueTyped
  <2>3. known' \subseteq Chains /\ fuel' \in [Chains -> Nat]
    BY <1>t, <1>a, <2>1 DEF Account
  <2>4. started' \in [Chains -> Nat]
    <3>1. Counted(c) \/ UNCHANGED started
      BY DEF Start, StartFails, Refuse, Admit
    <3> QED
      BY <1>t, <3>1 DEF Counted
  <2>5. procs' \in [Chains -> Nat]
    <3>1. procs' = [procs EXCEPT ![c] = @ + 1] \/ UNCHANGED procs
      BY DEF Start, StartFails, Refuse
    <3> QED
      BY <1>t, <3>1
  <2>6. run' \in [Slots -> {Idle} \cup RunType]
    <3>1. CASE Start(s, c, h, budget)
      <4>1. h - 1 \in Hops
        BY <1>a, <3>1 DEF Start, Admit, Authorised, Hops
      <4>2. [chain |-> c, hops |-> h - 1, stage |-> "alive", usd |-> 0] \in RunType
        BY <1>a, <4>1
      <4> QED
        BY <1>t, <3>1, <4>2 DEF Start
    <3>2. CASE StartFails(s, c, h, budget) \/ Refuse(s, c, h, budget)
      BY <1>t, <3>2 DEF StartFails, Refuse
    <3> QED
      BY <3>1, <3>2
  <2> QED
    BY <1>t, <2>1, <2>2, <2>3, <2>4, <2>5, <2>6 DEF TypeOK
<1>4. ASSUME NEW s \in Slots, NEW usd \in -1..MaxCost, Charge(s, usd)
      PROVE  TypeOK'
  <2>1. run[s] \in RunType
    BY <1>4, RunningTyped DEF Charge
  <2>2. Debit(usd) \in 0..MaxCost
    BY <1>a DEF Debit
  <2>3. [run[s] EXCEPT !.stage = "charged", !.usd = Debit(usd)] \in RunType
    BY <2>1, <2>2
  <2>4. run' = [run EXCEPT ![s] = [run[s] EXCEPT !.stage = "charged", !.usd = Debit(usd)]]
    BY <1>4, <1>t DEF Charge
  <2> DEFINE charged == [run[s] EXCEPT !.stage = "charged", !.usd = Debit(usd)]
  <2>5. run' \in [Slots -> {Idle} \cup RunType]
    <3>1. charged \in RunType /\ run' = [run EXCEPT ![s] = charged]
      BY <2>3, <2>4
    <3> HIDE DEF charged
    <3> QED
      BY <1>t, <3>1
  <2>6. spent' \in [Chains -> Nat]
    BY <1>4, <1>a, <1>t, <2>1, <2>2 DEF Charge
  <2>7. UNCHANGED <<minted, queue, known, fuel, started, history, procs, stops>>
    BY <1>4 DEF Charge
  <2> QED
    BY <1>t, <2>5, <2>6, <2>7 DEF TypeOK
<1>5. ASSUME NEW s \in Slots, Record(s)
      PROVE  TypeOK'
  <2>1. run[s] \in RunType /\ run[s].usd \in Nat
    BY <1>5, <1>a, RunningTyped DEF Record
  <2>2. 0 \in Ages
    BY RailsAssumption DEF Ages
  <2>3. ledger' \in [Ages -> Nat] /\ paid' \in [Ages -> Nat]
    BY <1>5, <1>t, <2>1, <2>2, BillTyped DEF Record
  <2>4. run' \in [Slots -> {Idle} \cup RunType]
    <3> DEFINE recorded == [run[s] EXCEPT !.stage = "recorded"]
    <3>1. recorded \in RunType /\ run' = [run EXCEPT ![s] = recorded]
      BY <1>5, <1>t, <2>1 DEF Record
    <3> HIDE DEF recorded
    <3> QED
      BY <1>t, <3>1
  <2>5. UNCHANGED <<minted, queue, known, fuel, spent, started, procs, stops>>
    BY <1>5 DEF Record
  <2> QED
    BY <1>t, <2>3, <2>4, <2>5 DEF TypeOK
<1>6. ASSUME NEW s \in Slots, Finish(s)
      PROVE  TypeOK'
  <2>1. queue' \in [Chains -> [Hops -> Nat]]
    BY <1>6, <1>t, QueueTyped DEF Finish
  <2>2. run' \in [Slots -> {Idle} \cup RunType]
    BY <1>6, <1>t DEF Finish
  <2>3. UNCHANGED <<minted, known, fuel, spent, started, ledger, paid, procs, stops>>
    BY <1>6 DEF Finish
  <2> QED
    BY <1>t, <2>1, <2>2, <2>3 DEF TypeOK
<1>11. ASSUME NEW s \in Slots, WaitFails(s)
      PROVE  TypeOK'
  <2>1. run' \in [Slots -> {Idle} \cup RunType]
    BY <1>11, <1>t DEF WaitFails
  <2>2. UNCHANGED <<minted, queue, known, fuel, spent, started, ledger, paid, procs, stops>>
    BY <1>11 DEF WaitFails
  <2> QED
    BY <1>t, <2>1, <2>2 DEF TypeOK
<1>7. CASE Tick
  <2>1. ledger' \in [Ages -> Nat] /\ paid' \in [Ages -> Nat]
    <3> SUFFICES ASSUME NEW a \in Ages, a # 0 PROVE ledger[a - 1] \in Nat /\ paid[a - 1] \in Nat
      BY <1>7 DEF Tick
    <3>1. a - 1 \in Ages
      BY RailsAssumption DEF Ages
    <3> QED
      BY <1>t, <3>1
  <2>2. UNCHANGED <<minted, queue, known, fuel, spent, started, run, procs, stops>>
    BY <1>7 DEF Tick
  <2> QED
    BY <1>t, <2>1, <2>2 DEF TypeOK
<1>9. CASE Stop
  <2>1. run' \in [Slots -> {Idle} \cup RunType]
    <3> SUFFICES ASSUME NEW s \in Slots, Running(s)
                 PROVE  [run[s] EXCEPT !.stage = IF @ \in {"recorded", "noted", "billed"}
                                                  THEN "billed" ELSE "left"] \in RunType
      BY <1>9 DEF Stop
    <3>1. run[s] \in RunType
      BY RunningTyped
    <3> QED
      BY <3>1
  <2>2. /\ known' = {} /\ fuel' = NoneYet /\ spent' = NoneYet
        /\ started' = NoneYet /\ procs' = NoneYet /\ UNCHANGED <<minted, queue, ledger, paid>>
    BY <1>9 DEF Stop
  <2>3. stops' \in 0..MaxStops
    BY <1>9, <1>t, <1>a DEF Stop
  <2> QED
    BY <1>t, <2>1, <2>2, <2>3 DEF TypeOK, NoneYet
<1>10. ASSUME NEW s \in Slots, NEW usd \in -1..MaxCost, NEW a \in Ages, NEW budget \in Budgets,
              NoteLeft(s, usd, a, budget)
       PROVE  TypeOK'
  <2>1. run[s] \in RunType
    BY <1>10, RunningTyped DEF NoteLeft
  <2> PICK c \in Chains : c = run[s].chain
    BY <2>1
  <2>2. /\ Account(c, budget)
        /\ started' = started \/ Counted(c)
        /\ spent' = [spent EXCEPT ![c] = @ + Debit(usd)]
        /\ procs' = [procs EXCEPT ![c] = @ + 1]
        /\ UNCHANGED <<minted, queue, stops>>
    BY <1>10 DEF NoteLeft
  <2>3. known' \subseteq Chains /\ fuel' \in [Chains -> Nat]
    BY <1>t, <1>a, <2>2 DEF Account
  <2>4. started' \in [Chains -> Nat] /\ procs' \in [Chains -> Nat]
    BY <1>t, <2>2 DEF Counted
  <2>5. spent' \in [Chains -> Nat]
    <3>1. spent[c] + Debit(usd) \in Nat
      BY <1>t, DebitTyped
    <3> QED
      BY <1>t, <2>2, <3>1
  <2>6. ledger' \in [Ages -> Nat] /\ paid' \in [Ages -> Nat]
    BY <1>10, <1>t, DebitTyped, BillTyped DEF NoteLeft
  <2>7. run' \in [Slots -> {Idle} \cup RunType]
    <3> DEFINE noted == [run[s] EXCEPT !.stage = "noted"]
    <3>1. noted \in RunType /\ run' = [run EXCEPT ![s] = noted]
      BY <1>10, <1>t, <2>1 DEF NoteLeft
    <3> HIDE DEF noted
    <3> QED
      BY <1>t, <3>1
  <2> QED
    BY <1>t, <2>2, <2>3, <2>4, <2>5, <2>6, <2>7 DEF TypeOK
<1>8. CASE UNCHANGED vars
  BY <1>t, <1>8 DEF vars, TypeOK
<1> QED
  BY <1>1, <1>2, <1>3, <1>4, <1>5, <1>6, <1>7, <1>8, <1>9, <1>10, <1>11
     DEF Next, Trigger, Spawn, Settle

(* The accounts, the queue and the slots keep their types.                 *)
THEOREM TypeCorrect == Spec => []TypeOK
<1> QED
  BY InitTyped, StepTyped, PTL DEF Spec

-----------------------------------------------------------------------------
(* Products of naturals, which the prover needs one at a time.             *)
LEMMA TimesNext == ASSUME NEW n \in Nat, NEW k \in Nat PROVE (n + 1) * k = n * k + k
OBVIOUS

LEMMA TimesGrows ==
  ASSUME NEW m \in Nat, NEW n \in Nat, NEW k \in Nat, m <= n
  PROVE  m * k <= n * k /\ m * k \in Nat
<1>1. PICK d \in Nat : n = m + d
  <2>1. n - m \in Nat /\ n = m + (n - m)
    OBVIOUS
  <2> QED
    BY <2>1
<1>2. (m + d) * k = m * k + d * k /\ d * k \in Nat /\ m * k \in Nat
  OBVIOUS
<1> QED
  BY <1>1, <1>2

-----------------------------------------------------------------------------
(* The slots.                                                              *)

LEMMA RunNotIdle == ASSUME NEW r \in RunType PROVE r # Idle
<1>1. "hops" \in DOMAIN r /\ "hops" \notin DOMAIN Idle
  BY DEF Idle
<1> QED
  BY <1>1

(* The runs that may still be charged to the account of this Tower.        *)
Owing(c) == InStage(c, {"alive", "left", "billed"})

(* The runs of a chain are slots, so there are no more of them.            *)
LEMMA SlotsFinite ==
  ASSUME NEW S \in SUBSET Slots
  PROVE  /\ IsFiniteSet(S) /\ Cardinality(S) \in Nat /\ Cardinality(Slots) \in Nat
         /\ Cardinality(S) <= Cardinality(Slots)
BY RailsAssumption, FS_Subset, FS_CardinalityType

LEMMA RunsAreSlots ==
  ASSUME NEW c
  PROVE  /\ Left(c) \subseteq Owing(c) /\ Owing(c) \subseteq RunsOf(c)
         /\ RunsOf(c) \subseteq Slots /\ Left(c) \in SUBSET Slots
         /\ Owing(c) \in SUBSET Slots /\ RunsOf(c) \in SUBSET Slots
BY DEF Left, Owing, InStage, RunsOf

(* A run that moves on to another stage stays its chain's.                 *)
LEMMA RunMoves ==
  ASSUME TypeOK, NEW s \in Slots, Running(s), NEW new \in RunType,
         new.chain = run[s].chain, run' = [run EXCEPT ![s] = new]
  PROVE  /\ \A d \in Chains : RunsOf(d)' = RunsOf(d)
         /\ \A d \in Chains : d # run[s].chain => Owing(d)' = Owing(d) /\ Left(d)' = Left(d)
         /\ \A d \in Chains : d = run[s].chain /\ new.stage \notin {"left", "billed"}
              => Left(d)' = Left(d) \ {s}
         /\ \A d \in Chains : d = run[s].chain /\ new.stage \notin {"alive", "left", "billed"}
              => Owing(d)' = Owing(d) \ {s}
<1>1. run'[s] = new /\ \A t \in Slots \ {s} : run'[t] = run[t]
  BY DEF TypeOK
<1>2. new # Idle /\ run[s] # Idle
  BY RunNotIdle DEF Running
<1>3. \A d \in Chains, t \in Slots : t \in RunsOf(d)' <=> t \in RunsOf(d)
  BY <1>1, <1>2 DEF RunsOf, Running
<1>4. \A d \in Chains : RunsOf(d)' = RunsOf(d)
  BY <1>3 DEF RunsOf
<1>5. \A d \in Chains, t \in Slots \ {s} :
        (t \in Owing(d)' <=> t \in Owing(d)) /\ (t \in Left(d)' <=> t \in Left(d))
  BY <1>1, <1>3 DEF Owing, Left, InStage
<1>6. \A d \in Chains : d # run[s].chain =>
        /\ s \notin Owing(d) /\ s \notin Owing(d)' /\ s \notin Left(d) /\ s \notin Left(d)'
  BY <1>1 DEF Owing, Left, InStage, RunsOf
<1>7. \A d \in Chains : /\ new.stage \notin {"left", "billed"} => s \notin Left(d)'
                        /\ new.stage \notin {"alive", "left", "billed"} => s \notin Owing(d)'
  BY <1>1 DEF Owing, Left, InStage
<1>8. \A d \in Chains : /\ Owing(d) \subseteq Slots /\ Owing(d)' \subseteq Slots
                        /\ Left(d) \subseteq Slots /\ Left(d)' \subseteq Slots
  BY DEF Owing, Left, InStage, RunsOf
<1>9. ASSUME NEW d \in Chains, d # run[s].chain
      PROVE  Owing(d)' = Owing(d) /\ Left(d)' = Left(d)
  <2>1. Owing(d)' = Owing(d)
    BY <1>5, <1>6, <1>8, <1>9
  <2>2. Left(d)' = Left(d)
    BY <1>5, <1>6, <1>8, <1>9
  <2> QED
    BY <2>1, <2>2
<1>10. ASSUME NEW d \in Chains, new.stage \notin {"left", "billed"}
       PROVE  Left(d)' = Left(d) \ {s}
  BY <1>5, <1>7, <1>8, <1>10
<1>11. ASSUME NEW d \in Chains, new.stage \notin {"alive", "left", "billed"}
       PROVE  Owing(d)' = Owing(d) \ {s}
  BY <1>5, <1>7, <1>8, <1>11
<1> QED
  BY <1>4, <1>9, <1>10, <1>11

(* A slot is filled.                                                       *)
LEMMA RunStarts ==
  ASSUME TypeOK, NEW s \in Slots, ~Running(s), NEW new \in RunType, new.stage = "alive",
         NEW c \in Chains, new.chain = c, run' = [run EXCEPT ![s] = new]
  PROVE  /\ RunsOf(c)' = RunsOf(c) \cup {s} /\ s \notin RunsOf(c)
         /\ Owing(c)' = Owing(c) \cup {s} /\ s \notin Owing(c)
         /\ Left(c)' = Left(c)
         /\ \A d \in Chains : d # c =>
              RunsOf(d)' = RunsOf(d) /\ Owing(d)' = Owing(d) /\ Left(d)' = Left(d)
<1>1. run'[s] = new /\ \A t \in Slots \ {s} : run'[t] = run[t]
  BY DEF TypeOK
<1>2. new # Idle /\ run[s] = Idle
  BY RunNotIdle DEF Running
<1>3. \A d \in Chains, t \in Slots \ {s} :
        /\ t \in RunsOf(d)' <=> t \in RunsOf(d)
        /\ t \in Owing(d)' <=> t \in Owing(d)
        /\ t \in Left(d)' <=> t \in Left(d)
  BY <1>1 DEF Owing, Left, InStage, RunsOf, Running
<1>4. \A d \in Chains : s \notin RunsOf(d) /\ s \notin Owing(d) /\ s \notin Left(d) /\ s \notin Left(d)'
  BY <1>1, <1>2 DEF Owing, Left, InStage, RunsOf, Running
<1>5. \A d \in Chains : d # c => s \notin RunsOf(d)' /\ s \notin Owing(d)'
  BY <1>1 DEF Owing, InStage, RunsOf
<1>6. s \in RunsOf(c)' /\ s \in Owing(c)'
  BY <1>1, <1>2 DEF Owing, InStage, RunsOf, Running
<1>7. \A d \in Chains : /\ Owing(d) \subseteq Slots /\ Owing(d)' \subseteq Slots
                        /\ Left(d) \subseteq Slots /\ Left(d)' \subseteq Slots
                        /\ RunsOf(d) \subseteq Slots /\ RunsOf(d)' \subseteq Slots
  BY DEF Owing, Left, InStage, RunsOf
<1>8. RunsOf(c)' = RunsOf(c) \cup {s}
  BY <1>3, <1>6, <1>7
<1>9. Owing(c)' = Owing(c) \cup {s}
  BY <1>3, <1>6, <1>7
<1>10. \A d \in Chains : Left(d)' = Left(d)
  BY <1>3, <1>4, <1>7
<1>11. ASSUME NEW d \in Chains, d # c
       PROVE  RunsOf(d)' = RunsOf(d) /\ Owing(d)' = Owing(d)
  <2>1. RunsOf(d)' = RunsOf(d)
    BY <1>3, <1>4, <1>5, <1>7, <1>11
  <2>2. Owing(d)' = Owing(d)
    BY <1>3, <1>4, <1>5, <1>7, <1>11
  <2> QED
    BY <2>1, <2>2
<1> QED
  BY <1>4, <1>8, <1>9, <1>10, <1>11

(* A slot is freed of a run that a Tower saw start.                        *)
LEMMA RunEnds ==
  ASSUME TypeOK, NEW s \in Slots, Finish(s) \/ WaitFails(s)
  PROVE  \A d \in Chains : /\ RunsOf(d)' \subseteq RunsOf(d)
                           /\ Owing(d)' \subseteq Owing(d) /\ Left(d)' = Left(d)
<1>1. /\ run'[s] = Idle /\ \A t \in Slots \ {s} : run'[t] = run[t]
      /\ run[s].stage \in {"alive", "recorded", "noted"}
  BY DEF Finish, WaitFails, TypeOK
<1>2. \A d \in Chains : RunsOf(d)' \subseteq RunsOf(d)
  BY <1>1 DEF RunsOf, Running
<1>3. \A d \in Chains, t \in Slots \ {s} :
        (t \in Owing(d)' <=> t \in Owing(d)) /\ (t \in Left(d)' <=> t \in Left(d))
  BY <1>1 DEF Owing, Left, InStage, RunsOf, Running
<1>4. \A d \in Chains : s \notin Owing(d)' /\ s \notin Left(d) /\ s \notin Left(d)'
  BY <1>1 DEF Owing, Left, InStage, RunsOf, Running
<1>5. \A d \in Chains : /\ Owing(d) \subseteq Slots /\ Owing(d)' \subseteq Slots
                        /\ Left(d) \subseteq Slots /\ Left(d)' \subseteq Slots
  BY DEF Owing, Left, InStage, RunsOf
<1>6. \A d \in Chains : Owing(d)' \subseteq Owing(d)
  BY <1>3, <1>4, <1>5
<1>7. \A d \in Chains : Left(d)' = Left(d)
  BY <1>3, <1>4, <1>5
<1> QED
  BY <1>2, <1>6, <1>7

(* What a Tower that goes away was running is left, every run of it.       *)
LEMMA RunsLeft ==
  ASSUME TypeOK, Stop
  PROVE  \A d \in Chains : RunsOf(d)' = RunsOf(d) /\ Left(d)' = RunsOf(d) /\ Owing(d)' = RunsOf(d)
<1> DEFINE stage(s) == IF run[s].stage \in {"recorded", "noted", "billed"} THEN "billed" ELSE "left"
<1>1. \A s \in Slots : Running(s) => run'[s] = [run[s] EXCEPT !.stage = stage(s)] /\ run[s] \in RunType
  BY RunningTyped DEF Stop
<1>2. \A s \in Slots : ~Running(s) => run'[s] = Idle
  BY DEF Stop
<1>3. \A s \in Slots : Running(s) => /\ run'[s] \in RunType /\ run'[s].chain = run[s].chain
                                     /\ run'[s].stage \in {"left", "billed"}
  BY <1>1
<1> HIDE DEF stage
<1>4. \A s \in Slots : Running(s) => run'[s] # Idle
  BY <1>3, RunNotIdle
<1>5. \A d \in Chains, s \in Slots : s \in RunsOf(d)' <=> s \in RunsOf(d)
  BY <1>2, <1>3, <1>4 DEF RunsOf, Running
<1>6. \A d \in Chains : RunsOf(d)' = RunsOf(d)
  BY <1>5 DEF RunsOf
<1>7. \A d \in Chains : Left(d)' = RunsOf(d)' /\ Owing(d)' = RunsOf(d)'
  BY <1>2, <1>3 DEF Left, Owing, InStage, RunsOf, Running
<1> QED
  BY <1>6, <1>7

-----------------------------------------------------------------------------
(* What a chain spent, with what the runs alive or left by the last Tower  *)
(* may still cost it, passes its Fuel by less than the worst of all slots. *)
(* Without those runs it is not inductive: nothing would say what they     *)
(* will be charged.                                                        *)
Within(c) ==
  /\ c \in known => /\ fuel[c] > 0
                    /\ spent[c] + Cardinality(Owing(c)) * MaxCost
                         < fuel[c] + Cardinality(Slots) * MaxCost
  /\ c \notin known => /\ spent[c] = 0 /\ started[c] = 0 /\ procs[c] = 0
                       /\ RunsOf(c) = Left(c)

FuelInv == \A c \in Chains : Within(c)

(* What the owed runs of a chain may cost is a number.                     *)
LEMMA OwedIsNat ==
  ASSUME NEW c
  PROVE  /\ Cardinality(Owing(c)) * MaxCost \in Nat /\ Cardinality(Slots) * MaxCost \in Nat
         /\ Cardinality(Owing(c)) * MaxCost <= Cardinality(Slots) * MaxCost
<1>1. /\ Cardinality(Owing(c)) \in Nat /\ Cardinality(Slots) \in Nat
      /\ Cardinality(Owing(c)) <= Cardinality(Slots) /\ MaxCost \in Nat
  BY RailsAssumption, RunsAreSlots, SlotsFinite
<1> QED
  BY <1>1, TimesGrows

(* A chain whose slots and account a step leaves alone stays in bounds.    *)
LEMMA WithinKept ==
  ASSUME TypeOK, NEW c \in Chains, Within(c), (c \in known) = (c \in known'),
         fuel'[c] = fuel[c], spent'[c] = spent[c], started'[c] = started[c],
         procs'[c] = procs[c], Owing(c)' \subseteq Owing(c), Left(c)' = Left(c),
         RunsOf(c)' \subseteq RunsOf(c)
  PROVE  Within(c)'
<1>1. Left(c)' \subseteq RunsOf(c)'
  BY DEF Left, InStage
<1>2. /\ Cardinality(Owing(c)') * MaxCost <= Cardinality(Owing(c)) * MaxCost
      /\ Cardinality(Owing(c)') * MaxCost \in Nat /\ Cardinality(Owing(c)) * MaxCost \in Nat
  <2>1. Owing(c) \in SUBSET Slots /\ Owing(c)' \in SUBSET Slots
    BY RunsAreSlots
  <2>2. /\ Cardinality(Owing(c)) \in Nat /\ Cardinality(Owing(c)') \in Nat
        /\ Cardinality(Owing(c)') <= Cardinality(Owing(c))
    BY <2>1, RailsAssumption, FS_Subset, FS_CardinalityType
  <2> QED
    BY <2>1, <2>2, RailsAssumption, TimesGrows
<1>3. spent[c] \in Nat /\ fuel[c] \in Nat /\ Cardinality(Slots) * MaxCost \in Nat
  BY OwedIsNat DEF TypeOK
<1>4. c \in known' => spent'[c] + Cardinality(Owing(c)') * MaxCost
                        < fuel'[c] + Cardinality(Slots) * MaxCost
  <2> SUFFICES ASSUME c \in known'
               PROVE  spent[c] + Cardinality(Owing(c)') * MaxCost
                        < fuel[c] + Cardinality(Slots) * MaxCost
    OBVIOUS
  <2>1. spent[c] + Cardinality(Owing(c)) * MaxCost < fuel[c] + Cardinality(Slots) * MaxCost
    BY DEF Within
  <2> QED
    BY <1>2, <1>3, <2>1
<1>5. c \in known' => fuel'[c] > 0
  BY DEF Within
<1>6. c \notin known' => RunsOf(c)' = Left(c)'
  BY <1>1 DEF Within
<1> QED
  BY <1>4, <1>5, <1>6 DEF Within

(* An account is there once it is asked for, and within bounds: what a     *)
(* chain without one owes are at most as many runs as there are slots.     *)
LEMMA AccountOpens ==
  ASSUME TypeOK, FuelInv, NEW c \in Chains, NEW budget \in Budgets, Account(c, budget)
  PROVE  /\ c \in known' /\ fuel'[c] = budget /\ budget > 0 /\ budget \in Nat
         /\ spent[c] + Cardinality(Owing(c)) * MaxCost
              < budget + Cardinality(Slots) * MaxCost
         /\ c \in known => fuel[c] = budget
         /\ \A d \in Chains : d # c => fuel'[d] = fuel[d] /\ (d \in known) = (d \in known')
<1>1. /\ budget > 0 /\ budget \in Nat /\ c \in known' /\ fuel'[c] = budget
      /\ c \in known => fuel[c] = budget
      /\ \A d \in Chains : d # c => fuel'[d] = fuel[d] /\ (d \in known) = (d \in known')
  BY RailsAssumption DEF Account, TypeOK
<1>2. CASE c \in known
  BY <1>1, <1>2 DEF FuelInv, Within
<1>3. CASE c \notin known
  <2>1. spent[c] = 0
    BY <1>3 DEF FuelInv, Within
  <2> QED
    BY <1>1, <2>1, OwedIsNat
<1> QED
  BY <1>1, <1>2, <1>3

(* A run starts only where the budget is not spent, so even with all the   *)
(* slots full the chain passes it by less than what they may all cost.     *)
LEMMA FuelStart ==
  ASSUME TypeOK, FuelInv, NEW s \in Slots, NEW c \in Chains, NEW h \in Hops,
         NEW budget \in Budgets, Start(s, c, h, budget)
  PROVE  FuelInv'
<1> DEFINE new == [chain |-> c, hops |-> h - 1, stage |-> "alive", usd |-> 0]
<1>1. /\ run' = [run EXCEPT ![s] = new] /\ ~Running(s)
      /\ Account(c, budget) /\ ~FuelExhausted(c, budget) /\ h - 1 # 0
      /\ spent' = spent /\ started' = [started EXCEPT ![c] = @ + 1]
      /\ procs' = [procs EXCEPT ![c] = @ + 1]
  BY DEF Start, Admit, Authorised, Counted
<1>2. new \in RunType /\ new.chain = c /\ new.stage = "alive"
  <2>1. h - 1 \in Hops /\ 0 \in 0..MaxCost
    BY <1>1, RailsAssumption DEF Hops
  <2> QED
    BY <2>1
<1> HIDE DEF new
<1>3. /\ Owing(c)' = Owing(c) \cup {s} /\ s \notin Owing(c)
      /\ \A d \in Chains : d # c =>
           RunsOf(d)' = RunsOf(d) /\ Owing(d)' = Owing(d) /\ Left(d)' = Left(d)
  BY <1>1, <1>2, RunStarts
<1>4. Cardinality(Owing(c)') * MaxCost <= Cardinality(Slots) * MaxCost
      /\ Cardinality(Owing(c)') * MaxCost \in Nat /\ Cardinality(Slots) * MaxCost \in Nat
  <2>1. Owing(c)' \in SUBSET Slots
    BY DEF Owing, InStage, RunsOf
  <2>2. /\ Cardinality(Owing(c)') \in Nat /\ Cardinality(Slots) \in Nat
        /\ Cardinality(Owing(c)') <= Cardinality(Slots) /\ MaxCost \in Nat
    BY <2>1, SlotsFinite, RailsAssumption
  <2> QED
    BY <2>2, TimesGrows
<1>5. /\ c \in known' /\ fuel'[c] = budget /\ budget > 0 /\ budget \in Nat
      /\ \A d \in Chains : d # c => fuel'[d] = fuel[d] /\ (d \in known) = (d \in known')
  BY <1>1, AccountOpens
<1>6. spent'[c] + Cardinality(Owing(c)') * MaxCost < fuel'[c] + Cardinality(Slots) * MaxCost
  <2>1. spent'[c] \in Nat /\ spent'[c] < budget
    BY <1>1, <1>5 DEF FuelExhausted, TypeOK
  <2> QED
    BY <1>4, <1>5, <2>1
<1> SUFFICES ASSUME NEW d \in Chains PROVE Within(d)'
  BY DEF FuelInv
<1>7. CASE d = c
  BY <1>5, <1>6, <1>7 DEF Within
<1>8. CASE d # c
  <2>1. spent'[d] = spent[d] /\ started'[d] = started[d] /\ procs'[d] = procs[d]
    BY <1>1, <1>8 DEF TypeOK
  <2> QED
    BY <1>3, <1>5, <1>8, <2>1, WithinKept DEF FuelInv
<1> QED
  BY <1>7, <1>8

(* A flight that is refused, or no process starts for, opens an account.   *)
LEMMA FuelRefused ==
  ASSUME TypeOK, FuelInv, NEW s \in Slots, NEW c \in Chains, NEW h \in Hops,
         NEW budget \in Budgets, StartFails(s, c, h, budget) \/ Refuse(s, c, h, budget)
  PROVE  FuelInv'
<1>1. /\ run' = run /\ spent' = spent /\ procs' = procs /\ Account(c, budget)
      /\ started' = started \/ started' = [started EXCEPT ![c] = @ + 1]
  BY DEF StartFails, Refuse, Admit, Counted
<1>2. /\ c \in known' /\ fuel'[c] = budget /\ budget > 0
      /\ spent[c] + Cardinality(Owing(c)) * MaxCost < budget + Cardinality(Slots) * MaxCost
      /\ \A d \in Chains : d # c => fuel'[d] = fuel[d] /\ (d \in known) = (d \in known')
  BY <1>1, AccountOpens
<1>3. \A d \in Chains : Owing(d)' = Owing(d) /\ Left(d)' = Left(d) /\ RunsOf(d)' = RunsOf(d)
  BY <1>1 DEF Owing, Left, InStage, RunsOf, Running
<1> SUFFICES ASSUME NEW d \in Chains PROVE Within(d)'
  BY DEF FuelInv
<1>4. CASE d = c
  BY <1>1, <1>2, <1>3, <1>4 DEF Within
<1>5. CASE d # c
  <2>1. spent'[d] = spent[d] /\ started'[d] = started[d] /\ procs'[d] = procs[d]
    BY <1>1, <1>5 DEF TypeOK
  <2> QED
    BY <1>2, <1>3, <1>5, <2>1, WithinKept DEF FuelInv
<1> QED
  BY <1>4, <1>5

(* Charging a run an account owes moves what it may still cost into what   *)
(* the chain spent.                                                        *)
LEMMA Charged ==
  ASSUME TypeOK, NEW c \in Chains, NEW s \in Owing(c), Owing(c)' = Owing(c) \ {s},
         NEW usd \in -1..MaxCost, spent' = [spent EXCEPT ![c] = @ + Debit(usd)]
  PROVE  spent'[c] + Cardinality(Owing(c)') * MaxCost
           <= spent[c] + Cardinality(Owing(c)) * MaxCost
<1> DEFINE n == Cardinality(Owing(c)')
<1>1. IsFiniteSet(Owing(c)) /\ Cardinality(Owing(c)) \in Nat
  BY RunsAreSlots, SlotsFinite
<1>2. n = Cardinality(Owing(c)) - 1
  BY <1>1, FS_RemoveElement
<1>3. n \in Nat /\ Cardinality(Owing(c)) = n + 1
  <2>1. Cardinality(Owing(c)) # 0
    BY <1>1, FS_EmptySet
  <2> QED
    BY <1>1, <1>2, <2>1
<1> HIDE DEF n
<1>4. (n + 1) * MaxCost = n * MaxCost + MaxCost /\ n * MaxCost \in Nat
  BY <1>3, RailsAssumption, TimesNext, TimesGrows
<1>5. Debit(usd) \in 0..MaxCost /\ MaxCost \in Nat
  BY DebitTyped
<1>6. spent'[c] = spent[c] + Debit(usd) /\ spent[c] \in Nat
  BY DEF TypeOK
<1>7. spent'[c] + n * MaxCost <= spent[c] + (n + 1) * MaxCost
  BY <1>3, <1>4, <1>5, <1>6
<1> QED
  BY <1>3, <1>7 DEF n

LEMMA FuelCharge ==
  ASSUME TypeOK, FuelInv, NEW s \in Slots, NEW usd \in -1..MaxCost, Charge(s, usd)
  PROVE  FuelInv'
<1> PICK c \in Chains : c = run[s].chain
  BY RunningTyped DEF Charge
<1> DEFINE ended == [run[s] EXCEPT !.stage = "charged", !.usd = Debit(usd)]
<1>1. /\ run[s] \in RunType /\ Running(s) /\ run[s].stage = "alive"
      /\ run' = [run EXCEPT ![s] = ended]
      /\ spent' = [spent EXCEPT ![c] = @ + Debit(usd)]
      /\ known' = known /\ fuel' = fuel /\ started' = started /\ procs' = procs
  BY RunningTyped DEF Charge, TypeOK
<1>2. ended \in RunType /\ ended.chain = run[s].chain /\ ended.stage = "charged"
  <2>1. Debit(usd) \in 0..MaxCost
    BY DebitTyped
  <2> QED
    BY <1>1, <2>1
<1> HIDE DEF ended
<1>3. /\ \A d \in Chains : RunsOf(d)' = RunsOf(d)
      /\ \A d \in Chains : d # c => Owing(d)' = Owing(d) /\ Left(d)' = Left(d)
      /\ Owing(c)' = Owing(c) \ {s}
  BY <1>1, <1>2, RunMoves
<1>4. s \in Owing(c) /\ s \notin Left(c) /\ s \in RunsOf(c)
  BY <1>1 DEF Owing, Left, InStage, RunsOf
<1>5. c \in known
  BY <1>4 DEF FuelInv, Within
<1>6. /\ fuel[c] > 0 /\ fuel[c] \in Nat
      /\ spent[c] + Cardinality(Owing(c)) * MaxCost < fuel[c] + Cardinality(Slots) * MaxCost
  BY <1>5 DEF FuelInv, Within, TypeOK
<1>7. spent'[c] + Cardinality(Owing(c)') * MaxCost
         <= spent[c] + Cardinality(Owing(c)) * MaxCost
  BY <1>1, <1>3, <1>4, Charged
<1>8. /\ spent[c] \in Nat /\ spent'[c] \in Nat /\ Cardinality(Owing(c)) * MaxCost \in Nat
      /\ Cardinality(Slots) * MaxCost \in Nat /\ Cardinality(Owing(c)') * MaxCost \in Nat
  <2>1. spent[c] \in Nat /\ spent'[c] \in Nat
    BY <1>1, DebitTyped DEF TypeOK
  <2>2. Owing(c)' \in SUBSET Slots
    BY <1>3, RunsAreSlots
  <2>3. Cardinality(Owing(c)') * MaxCost \in Nat
    BY <2>2, SlotsFinite, RailsAssumption, TimesGrows
  <2> QED
    BY <2>1, <2>3, OwedIsNat
<1>9. spent'[c] + Cardinality(Owing(c)') * MaxCost < fuel[c] + Cardinality(Slots) * MaxCost
  BY <1>6, <1>7, <1>8
<1> SUFFICES ASSUME NEW d \in Chains PROVE Within(d)'
  BY DEF FuelInv
<1>10. CASE d = c
  BY <1>1, <1>5, <1>6, <1>9, <1>10 DEF Within
<1>11. CASE d # c
  <2>1. spent'[d] = spent[d]
    BY <1>1, <1>11 DEF TypeOK
  <2> QED
    BY <1>1, <1>3, <1>11, <2>1, WithinKept DEF FuelInv
<1> QED
  BY <1>10, <1>11

(* What the last Tower left is charged to an account of this one.          *)
LEMMA FuelNoteLeft ==
  ASSUME TypeOK, FuelInv, NEW s \in Slots, NEW usd \in -1..MaxCost, NEW a \in Ages,
         NEW budget \in Budgets, NoteLeft(s, usd, a, budget)
  PROVE  FuelInv'
<1> PICK c \in Chains : c = run[s].chain
  BY RunningTyped DEF NoteLeft
<1> DEFINE noted == [run[s] EXCEPT !.stage = "noted"]
<1>1. /\ run[s] \in RunType /\ Running(s) /\ run[s].stage \in {"left", "billed"}
      /\ run' = [run EXCEPT ![s] = noted] /\ Account(c, budget)
      /\ started' = started \/ Counted(c)
      /\ spent' = [spent EXCEPT ![c] = @ + Debit(usd)]
      /\ procs' = [procs EXCEPT ![c] = @ + 1]
  BY RunningTyped DEF NoteLeft, TypeOK
<1>2. noted \in RunType /\ noted.chain = run[s].chain /\ noted.stage = "noted"
  BY <1>1
<1> HIDE DEF noted
<1>3. /\ \A d \in Chains : RunsOf(d)' = RunsOf(d)
      /\ \A d \in Chains : d # c => Owing(d)' = Owing(d) /\ Left(d)' = Left(d)
      /\ Owing(c)' = Owing(c) \ {s}
  BY <1>1, <1>2, RunMoves
<1>4. s \in Owing(c)
  BY <1>1 DEF Owing, InStage, RunsOf
<1>5. /\ c \in known' /\ fuel'[c] = budget /\ budget > 0 /\ budget \in Nat
      /\ spent[c] + Cardinality(Owing(c)) * MaxCost < budget + Cardinality(Slots) * MaxCost
      /\ \A d \in Chains : d # c => fuel'[d] = fuel[d] /\ (d \in known) = (d \in known')
  BY <1>1, AccountOpens
<1>6. spent'[c] + Cardinality(Owing(c)') * MaxCost
         <= spent[c] + Cardinality(Owing(c)) * MaxCost
  BY <1>1, <1>3, <1>4, Charged
<1>7. /\ spent[c] \in Nat /\ spent'[c] \in Nat /\ Cardinality(Owing(c)) * MaxCost \in Nat
      /\ Cardinality(Slots) * MaxCost \in Nat /\ Cardinality(Owing(c)') * MaxCost \in Nat
  <2>1. spent[c] \in Nat /\ spent'[c] \in Nat
    BY <1>1, DebitTyped DEF TypeOK
  <2>2. Owing(c)' \in SUBSET Slots
    BY <1>3, RunsAreSlots
  <2>3. Cardinality(Owing(c)') * MaxCost \in Nat
    BY <2>2, SlotsFinite, RailsAssumption, TimesGrows
  <2> QED
    BY <2>1, <2>3, OwedIsNat
<1>8. spent'[c] + Cardinality(Owing(c)') * MaxCost < budget + Cardinality(Slots) * MaxCost
  BY <1>5, <1>6, <1>7
<1> SUFFICES ASSUME NEW d \in Chains PROVE Within(d)'
  BY DEF FuelInv
<1>9. CASE d = c
  BY <1>5, <1>8, <1>9 DEF Within
<1>10. CASE d # c
  <2>1. spent'[d] = spent[d] /\ started'[d] = started[d] /\ procs'[d] = procs[d]
    BY <1>1, <1>10 DEF TypeOK, Counted
  <2> QED
    BY <1>3, <1>5, <1>10, <2>1, WithinKept DEF FuelInv
<1> QED
  BY <1>9, <1>10

LEMMA FuelStep == TypeOK /\ FuelInv /\ [Next]_vars => FuelInv'
<1> SUFFICES ASSUME TypeOK, FuelInv, [Next]_vars
             PROVE  FuelInv'
  OBVIOUS
<1>1. CASE UNCHANGED <<accounts, run, procs>>
  <2>1. \A d \in Chains : Owing(d)' = Owing(d) /\ Left(d)' = Left(d) /\ RunsOf(d)' = RunsOf(d)
    BY <1>1 DEF Owing, Left, InStage, RunsOf, Running
  <2> QED
    BY <1>1, <2>1, WithinKept DEF FuelInv
<1>2. ASSUME NEW s \in Slots, NEW c \in Chains, NEW h \in Hops, Dispatch(s, c, h)
      PROVE  FuelInv'
  BY <1>2, FuelStart, FuelRefused DEF Dispatch
<1>3. ASSUME NEW s \in Slots, NEW usd \in -1..MaxCost, Charge(s, usd)
      PROVE  FuelInv'
  BY <1>3, FuelCharge
<1>4. ASSUME NEW s \in Slots, Record(s)
      PROVE  FuelInv'
  <2> DEFINE recorded == [run[s] EXCEPT !.stage = "recorded"]
  <2>1. /\ run[s] \in RunType /\ Running(s) /\ run[s].stage = "charged"
        /\ run' = [run EXCEPT ![s] = recorded] /\ UNCHANGED <<accounts, procs>>
    BY <1>4, RunningTyped DEF Record, TypeOK
  <2>2. recorded \in RunType /\ recorded.chain = run[s].chain /\ recorded.stage = "recorded"
    BY <2>1
  <2> HIDE DEF recorded
  <2>3. \A d \in Chains : /\ RunsOf(d)' = RunsOf(d)
                          /\ Owing(d)' = Owing(d) \/ Owing(d)' = Owing(d) \ {s}
                          /\ Left(d)' = Left(d) \/ Left(d)' = Left(d) \ {s}
    BY <2>1, <2>2, RunMoves
  <2>4. \A d \in Chains : s \notin Owing(d) /\ s \notin Left(d)
    BY <2>1 DEF Owing, Left, InStage
  <2>5. \A d \in Chains : Owing(d)' = Owing(d) /\ Left(d)' = Left(d)
    BY <2>3, <2>4
  <2> QED
    BY <2>1, <2>3, <2>5, WithinKept DEF FuelInv
<1>5. ASSUME NEW s \in Slots, Finish(s) \/ WaitFails(s)
      PROVE  FuelInv'
  <2>1. UNCHANGED <<accounts, procs>>
    BY <1>5 DEF Finish, WaitFails
  <2> QED
    BY <1>5, <2>1, RunEnds, WithinKept DEF FuelInv
<1>6. CASE Stop
  <2>1. known' = {} /\ spent' = NoneYet /\ started' = NoneYet /\ procs' = NoneYet
    BY <1>6 DEF Stop
  <2>2. \A d \in Chains : RunsOf(d)' = Left(d)'
    BY <1>6, RunsLeft
  <2> QED
    BY <2>1, <2>2 DEF FuelInv, Within, NoneYet
<1>7. ASSUME NEW s \in Slots, NEW usd \in -1..MaxCost, NEW a \in Ages, NEW budget \in Budgets,
             NoteLeft(s, usd, a, budget)
      PROVE  FuelInv'
  BY <1>7, FuelNoteLeft
<1> QED
  BY <1>1, <1>2, <1>3, <1>4, <1>5, <1>6, <1>7
     DEF Next, Trigger, Spawn, Mint, Send, Settle, Tick, vars

(* docs/risks.md 15, for Fuel: however many runs of a chain end after its   *)
(* budget is gone, it is passed by less than max_concurrent_runs times the *)
(* worst run.                                                              *)
THEOREM FuelOvershoot == Spec => []FuelOvershootBounded
<1>1. Init => FuelInv
  <2> SUFFICES ASSUME Init, NEW c \in Chains PROVE Within(c)
    BY DEF FuelInv
  <2>1. RunsOf(c) = {} /\ Left(c) = {}
    BY DEF Init, Left, InStage, RunsOf, Running
  <2> QED
    BY <2>1 DEF Init, Within, NoneYet
<1>2. TypeOK /\ FuelInv => FuelOvershootBounded
  <2> SUFFICES ASSUME TypeOK, FuelInv, NEW c \in known
               PROVE  spent[c] < fuel[c] + Cardinality(Slots) * MaxCost
    BY DEF FuelOvershootBounded
  <2>1. c \in Chains /\ spent[c] \in Nat /\ fuel[c] \in Nat
    BY DEF TypeOK
  <2>2. spent[c] + Cardinality(Owing(c)) * MaxCost < fuel[c] + Cardinality(Slots) * MaxCost
    BY <2>1 DEF FuelInv, Within
  <2> QED
    BY <2>1, <2>2, OwedIsNat
<1> QED
  BY <1>1, <1>2, FuelStep, TypeCorrect, PTL DEF Spec

-----------------------------------------------------------------------------
(* Every process on a chain's account was counted, except those found left *)
(* when the Fuel was gone already or the cap reached, after which nothing   *)
(* more starts; and those still to be found have their place under it.     *)
Exhausted(c) == c \in known /\ spent[c] >= fuel[c]
Covered(c) == procs[c] <= started[c]

Counts(c) ==
  /\ started[c] <= MaxRuns
  /\ Covered(c) \/ Exhausted(c)
  /\ procs[c] + Cardinality(Left(c)) <= MaxRuns
  /\ Cardinality(RunsOf(c)) <= procs[c] + Cardinality(Left(c))

CountInv == \A c \in Chains : Counts(c)

LEMMA CountTypes ==
  ASSUME TypeOK, NEW c \in Chains
  PROVE  /\ procs[c] \in Nat /\ started[c] \in Nat /\ spent[c] \in Nat /\ fuel[c] \in Nat
         /\ Cardinality(Left(c)) \in Nat /\ Cardinality(RunsOf(c)) \in Nat /\ MaxRuns \in Nat
         /\ IsFiniteSet(Left(c)) /\ IsFiniteSet(RunsOf(c))
<1>1. procs[c] \in Nat /\ started[c] \in Nat /\ spent[c] \in Nat /\ fuel[c] \in Nat
  BY DEF TypeOK
<1>2. /\ Cardinality(Left(c)) \in Nat /\ Cardinality(RunsOf(c)) \in Nat
      /\ IsFiniteSet(Left(c)) /\ IsFiniteSet(RunsOf(c))
  BY RunsAreSlots, SlotsFinite
<1> QED
  BY <1>1, <1>2, RailsAssumption

(* A chain a step leaves alone, or takes a finished run from.              *)
LEMMA CountsKept ==
  ASSUME TypeOK, TypeOK', NEW c \in Chains, Counts(c), c \in known => c \in known' /\ fuel'[c] = fuel[c],
         spent[c] <= spent'[c], started'[c] = started[c], procs'[c] = procs[c],
         Left(c)' = Left(c), RunsOf(c)' \subseteq RunsOf(c)
  PROVE  Counts(c)'
<1>1. Cardinality(RunsOf(c)') <= Cardinality(RunsOf(c)) /\ Cardinality(RunsOf(c)') \in Nat
  BY CountTypes, FS_Subset, FS_CardinalityType
<1>2. Covered(c)' \/ Exhausted(c)'
  <2>1. CASE Covered(c)
    <3>1. Covered(c)'
      BY <2>1, CountTypes DEF Covered
    <3> QED
      BY <3>1
  <2>2. CASE Exhausted(c)
    <3>1. c \in known' /\ fuel'[c] = fuel[c]
      BY <2>2 DEF Exhausted
    <3>2. spent[c] \in Nat /\ spent'[c] \in Nat /\ fuel[c] \in Nat
      BY DEF TypeOK
    <3>3. Exhausted(c)'
      BY <2>2, <3>1, <3>2 DEF Exhausted
    <3> QED
      BY <3>3
  <2> QED
    BY <2>1, <2>2 DEF Counts
<1>3. started'[c] <= MaxRuns /\ procs'[c] + Cardinality(Left(c)') <= MaxRuns
  BY DEF Counts
<1>4. Cardinality(RunsOf(c)') <= procs'[c] + Cardinality(Left(c)')
  <2>1. Cardinality(RunsOf(c)) <= procs'[c] + Cardinality(Left(c)')
    BY DEF Counts
  <2> QED
    BY <1>1, <2>1, CountTypes
<1> QED
  BY <1>2, <1>3, <1>4 DEF Counts

(* A run starts: it is counted, and nothing is left to be found.           *)
LEMMA CountStart ==
  ASSUME TypeOK, TypeOK', FuelInv, CountInv, NEW s \in Slots, NEW c \in Chains, NEW h \in Hops,
         NEW budget \in Budgets, Start(s, c, h, budget)
  PROVE  CountInv'
<1> DEFINE new == [chain |-> c, hops |-> h - 1, stage |-> "alive", usd |-> 0]
<1>1. /\ run' = [run EXCEPT ![s] = new] /\ ~Running(s) /\ ~Reconciling
      /\ Account(c, budget) /\ ~FuelExhausted(c, budget) /\ h - 1 # 0 /\ started[c] < MaxRuns
      /\ spent' = spent /\ started' = [started EXCEPT ![c] = @ + 1]
      /\ procs' = [procs EXCEPT ![c] = @ + 1]
  BY DEF Start, Admit, Authorised, Counted
<1>2. new \in RunType /\ new.chain = c /\ new.stage = "alive"
  <2>1. h - 1 \in Hops /\ 0 \in 0..MaxCost
    BY <1>1, RailsAssumption DEF Hops
  <2> QED
    BY <2>1
<1> HIDE DEF new
<1>3. /\ RunsOf(c)' = RunsOf(c) \cup {s} /\ s \notin RunsOf(c)
      /\ Left(c)' = Left(c)
      /\ \A d \in Chains : d # c =>
           RunsOf(d)' = RunsOf(d) /\ Owing(d)' = Owing(d) /\ Left(d)' = Left(d)
  <2>1. TypeOK /\ ~Running(s) /\ run' = [run EXCEPT ![s] = new]
    BY <1>1
  <2> QED
    BY <1>2, <2>1, RunStarts
<1>4. /\ c \in known => fuel[c] = budget
      /\ \A d \in Chains : d # c => fuel'[d] = fuel[d] /\ (d \in known) = (d \in known')
  BY <1>1, AccountOpens
<1>5. Left(c) = {} /\ Cardinality(Left(c)) = 0
  <2>1. Left(c) = {}
    BY <1>1 DEF Reconciling, Left, InStage, RunsOf
  <2> QED
    BY <2>1, FS_EmptySet
<1>6. procs[c] <= started[c]
  <2>1. ~Exhausted(c)
    BY <1>1, <1>4 DEF FuelExhausted, Exhausted
  <2>2. Covered(c)
    BY <2>1 DEF CountInv, Counts
  <2> QED
    BY <2>2 DEF Covered
<1>7. Cardinality(RunsOf(c)') = Cardinality(RunsOf(c)) + 1
  BY <1>3, CountTypes, FS_AddElement
<1>8. started'[c] = started[c] + 1 /\ procs'[c] = procs[c] + 1
  BY <1>1 DEF TypeOK
<1> SUFFICES ASSUME NEW d \in Chains PROVE Counts(d)'
  BY DEF CountInv
<1>9. CASE d = c
  <2>1. Cardinality(RunsOf(c)) <= procs[c] + Cardinality(Left(c))
    BY DEF CountInv, Counts
  <2>2. /\ started'[c] <= MaxRuns /\ procs'[c] <= started'[c]
        /\ procs'[c] + Cardinality(Left(c)') <= MaxRuns
        /\ Cardinality(RunsOf(c)') <= procs'[c] + Cardinality(Left(c)')
    BY <1>1, <1>3, <1>5, <1>6, <1>7, <1>8, <2>1, CountTypes
  <2>3. Covered(c)'
    BY <2>2 DEF Covered
  <2>4. Counts(c)'
    BY <2>2, <2>3 DEF Counts
  <2> QED
    BY <1>9, <2>4
<1>10. CASE d # c
  <2>1. started'[d] = started[d] /\ procs'[d] = procs[d] /\ spent[d] <= spent'[d]
    BY <1>1, <1>10, CountTypes DEF TypeOK
  <2> QED
    BY <1>3, <1>4, <1>10, <2>1, CountsKept DEF CountInv
<1> QED
  BY <1>9, <1>10

(* An attempt that comes to nothing is counted, or refused.                *)
LEMMA CountRefused ==
  ASSUME TypeOK, TypeOK', FuelInv, CountInv, NEW s \in Slots, NEW c \in Chains, NEW h \in Hops,
         NEW budget \in Budgets, StartFails(s, c, h, budget) \/ Refuse(s, c, h, budget)
  PROVE  CountInv'
<1>1. /\ run' = run /\ spent' = spent /\ procs' = procs /\ Account(c, budget)
      /\ \/ started' = started
         \/ started[c] < MaxRuns /\ started' = [started EXCEPT ![c] = @ + 1]
  BY DEF StartFails, Refuse, Admit, Authorised, Counted
<1>2. /\ c \in known' /\ (c \in known => fuel[c] = budget) /\ fuel'[c] = budget
      /\ \A d \in Chains : d # c => fuel'[d] = fuel[d] /\ (d \in known) = (d \in known')
  BY <1>1, AccountOpens
<1>3. \A d \in Chains : Left(d)' = Left(d) /\ RunsOf(d)' = RunsOf(d)
  BY <1>1 DEF Left, InStage, RunsOf, Running
<1> SUFFICES ASSUME NEW d \in Chains PROVE Counts(d)'
  BY DEF CountInv
<1>4. CASE d = c
  <2>1. /\ started[c] <= started'[c] /\ started'[c] <= MaxRuns /\ started'[c] \in Nat
    BY <1>1, CountTypes DEF CountInv, Counts, TypeOK
  <2>2. Covered(c) \/ Exhausted(c)
    BY DEF CountInv, Counts
  <2>3. Covered(c)' \/ Exhausted(c)'
    <3>1. CASE Covered(c)
      <4>1. procs'[c] = procs[c] /\ procs[c] \in Nat /\ started[c] \in Nat
        BY <1>1, CountTypes
      <4>2. Covered(c)'
        BY <2>1, <3>1, <4>1 DEF Covered
      <4> QED
        BY <4>2
    <3>2. CASE Exhausted(c)
      <4>1. Exhausted(c)'
        BY <1>1, <1>2, <3>2 DEF Exhausted
      <4> QED
        BY <4>1
    <3> QED
      BY <2>2, <3>1, <3>2
  <2>4. /\ procs'[c] + Cardinality(Left(c)') <= MaxRuns
        /\ Cardinality(RunsOf(c)') <= procs'[c] + Cardinality(Left(c)')
    BY <1>1, <1>3 DEF CountInv, Counts
  <2>5. Counts(c)'
    BY <2>1, <2>3, <2>4 DEF Counts
  <2> QED
    BY <1>4, <2>5
<1>5. CASE d # c
  <2>1. started'[d] = started[d] /\ procs'[d] = procs[d] /\ spent[d] <= spent'[d]
    BY <1>1, <1>5, CountTypes DEF TypeOK
  <2> QED
    BY <1>2, <1>3, <1>5, <2>1, CountsKept DEF CountInv
<1> QED
  BY <1>4, <1>5

(* A run left by the last Tower is put on this one's account; it is not     *)
(* counted only where nothing more may start.                              *)
LEMMA CountNoteLeft ==
  ASSUME TypeOK, TypeOK', FuelInv, CountInv, NEW s \in Slots, NEW usd \in -1..MaxCost,
         NEW a \in Ages, NEW budget \in Budgets, NoteLeft(s, usd, a, budget)
  PROVE  CountInv'
<1> PICK c \in Chains : c = run[s].chain
  BY RunningTyped DEF NoteLeft
<1> DEFINE noted == [run[s] EXCEPT !.stage = "noted"]
<1>1. /\ run[s] \in RunType /\ Running(s) /\ run[s].stage \in {"left", "billed"}
      /\ run' = [run EXCEPT ![s] = noted] /\ Account(c, budget)
      /\ IF ~FuelExhausted(c, budget) /\ started[c] < MaxRuns
         THEN started' = [started EXCEPT ![c] = @ + 1] ELSE started' = started
      /\ spent' = [spent EXCEPT ![c] = @ + Debit(usd)]
      /\ procs' = [procs EXCEPT ![c] = @ + 1]
  BY RunningTyped DEF NoteLeft, Counted, TypeOK
<1>2. noted \in RunType /\ noted.chain = run[s].chain /\ noted.stage = "noted"
  BY <1>1
<1> HIDE DEF noted
<1>3. /\ \A d \in Chains : RunsOf(d)' = RunsOf(d)
      /\ \A d \in Chains : d # c => Left(d)' = Left(d)
      /\ Left(c)' = Left(c) \ {s}
  BY <1>1, <1>2, RunMoves
<1>4. s \in Left(c)
  BY <1>1 DEF Left, InStage, RunsOf
<1>5. Cardinality(Left(c)') = Cardinality(Left(c)) - 1 /\ Cardinality(Left(c)) # 0
  <2>1. IsFiniteSet(Left(c)) /\ Cardinality(Left(c)) \in Nat
    BY CountTypes
  <2>2. Cardinality(Left(c)') = Cardinality(Left(c)) - 1
    BY <1>3, <1>4, <2>1, FS_RemoveElement
  <2>3. Cardinality(Left(c)) # 0
    BY <1>4, <2>1, FS_EmptySet
  <2> QED
    BY <2>2, <2>3
<1>6. /\ c \in known' /\ (c \in known => fuel[c] = budget) /\ fuel'[c] = budget /\ budget \in Nat
      /\ \A d \in Chains : d # c => fuel'[d] = fuel[d] /\ (d \in known) = (d \in known')
  BY <1>1, AccountOpens
<1>7. spent[c] <= spent'[c] /\ spent'[c] \in Nat /\ procs'[c] = procs[c] + 1
  <2>1. spent'[c] = spent[c] + Debit(usd) /\ procs'[c] = procs[c] + 1
    BY <1>1 DEF TypeOK
  <2> QED
    BY <2>1, CountTypes, DebitTyped
<1> SUFFICES ASSUME NEW d \in Chains PROVE Counts(d)'
  BY DEF CountInv
<1>8. CASE d = c
  <2>1. /\ Covered(c) \/ Exhausted(c)
        /\ procs[c] + Cardinality(Left(c)) <= MaxRuns /\ started[c] <= MaxRuns
        /\ Cardinality(RunsOf(c)) <= procs[c] + Cardinality(Left(c))
    BY DEF CountInv, Counts
  <2>2. /\ procs'[c] + Cardinality(Left(c)') <= MaxRuns
        /\ Cardinality(RunsOf(c)') <= procs'[c] + Cardinality(Left(c)')
    BY <1>3, <1>5, <1>7, <2>1, CountTypes
  <2>3. CASE ~FuelExhausted(c, budget) /\ started[c] < MaxRuns
    <3>1. started'[c] = started[c] + 1
      BY <1>1, <2>3 DEF TypeOK
    <3>2. ~Exhausted(c)
      BY <1>6, <2>3 DEF FuelExhausted, Exhausted
    <3>3. procs[c] <= started[c]
      BY <2>1, <3>2 DEF Covered
    <3>4. started'[c] <= MaxRuns /\ procs'[c] <= started'[c]
      BY <1>7, <2>3, <3>1, <3>3, CountTypes
    <3>5. Covered(c)'
      BY <3>4 DEF Covered
    <3>6. Counts(c)'
      BY <2>2, <3>4, <3>5 DEF Counts
    <3> QED
      BY <1>8, <3>6
  <2>4. CASE FuelExhausted(c, budget)
    <3>1. started' = started
      BY <1>1, <2>4
    <3>2. spent'[c] >= fuel'[c]
      BY <1>6, <1>7, <2>4, CountTypes DEF FuelExhausted
    <3>3. Exhausted(c)' /\ started'[c] <= MaxRuns
      BY <1>6, <2>1, <3>1, <3>2 DEF Exhausted
    <3>4. Counts(c)'
      BY <2>2, <3>3 DEF Counts
    <3> QED
      BY <1>8, <3>4
  <2>5. CASE ~(started[c] < MaxRuns)
    <3>1. started' = started
      BY <1>1, <2>5
    <3>2. procs'[c] <= started[c]
      BY <1>5, <1>7, <2>1, <2>5, CountTypes
    <3>3. Covered(c)' /\ started'[c] <= MaxRuns
      BY <2>1, <3>1, <3>2 DEF Covered
    <3>4. Counts(c)'
      BY <2>2, <3>3 DEF Counts
    <3> QED
      BY <1>8, <3>4
  <2> QED
    BY <2>3, <2>4, <2>5
<1>9. CASE d # c
  <2>1. started'[d] = started[d] /\ procs'[d] = procs[d] /\ spent[d] <= spent'[d]
    BY <1>1, <1>9, CountTypes DEF TypeOK
  <2> QED
    BY <1>3, <1>6, <1>9, <2>1, CountsKept DEF CountInv
<1> QED
  BY <1>8, <1>9

LEMMA CountStep == TypeOK /\ TypeOK' /\ FuelInv /\ CountInv /\ [Next]_vars => CountInv'
<1> SUFFICES ASSUME TypeOK, TypeOK', FuelInv, CountInv, [Next]_vars
             PROVE  CountInv'
  OBVIOUS
<1>0. \A c \in Chains : spent[c] <= spent[c]
  BY CountTypes
<1>1. CASE UNCHANGED <<accounts, run, procs>>
  <2>1. \A d \in Chains : Left(d)' = Left(d) /\ RunsOf(d)' = RunsOf(d)
    BY <1>1 DEF Left, InStage, RunsOf, Running
  <2> QED
    BY <1>0, <1>1, <2>1, CountsKept DEF CountInv
<1>2. ASSUME NEW s \in Slots, NEW c \in Chains, NEW h \in Hops, Dispatch(s, c, h)
      PROVE  CountInv'
  BY <1>2, CountStart, CountRefused DEF Dispatch
<1>3. ASSUME NEW s \in Slots, NEW stage \in {"charged", "recorded"}, NEW usd \in 0..MaxCost,
             Running(s), run[s].stage \in {"alive", "charged"},
             run' = [run EXCEPT ![s] = [run[s] EXCEPT !.stage = stage, !.usd = usd]],
             UNCHANGED <<known, fuel, started, procs>>,
             \A c \in Chains : spent[c] <= spent'[c]
      PROVE  CountInv'
  <2> DEFINE new == [run[s] EXCEPT !.stage = stage, !.usd = usd]
  <2>1. run[s] \in RunType
    BY <1>3, RunningTyped
  <2>2. /\ new \in RunType /\ new.chain = run[s].chain /\ new.stage = stage
        /\ run' = [run EXCEPT ![s] = new]
    BY <1>3, <2>1
  <2> HIDE DEF new
  <2>3. \A d \in Chains : /\ RunsOf(d)' = RunsOf(d)
                          /\ Left(d)' = Left(d) \/ Left(d)' = Left(d) \ {s}
    BY <1>3, <2>2, RunMoves
  <2>4. \A d \in Chains : s \notin Left(d)
    BY <1>3 DEF Left, InStage
  <2>5. \A d \in Chains : Left(d)' = Left(d)
    BY <2>3, <2>4
  <2> QED
    BY <1>3, <2>3, <2>5, CountsKept DEF CountInv
<1>4. ASSUME NEW s \in Slots, NEW usd \in -1..MaxCost, Charge(s, usd)
      PROVE  CountInv'
  <2>1. /\ Running(s) /\ run[s].stage = "alive" /\ run[s] \in RunType
        /\ run' = [run EXCEPT ![s] = [run[s] EXCEPT !.stage = "charged", !.usd = Debit(usd)]]
        /\ UNCHANGED <<known, fuel, started, procs>>
        /\ spent' = [spent EXCEPT ![run[s].chain] = @ + Debit(usd)]
    BY <1>4, RunningTyped DEF Charge, TypeOK
  <2>2. \A c \in Chains : spent[c] <= spent'[c]
    <3>1. \A c \in Chains : spent[c] \in Nat
      BY DEF TypeOK
    <3>2. \A c \in Chains : spent'[c] = spent[c] \/ spent'[c] = spent[c] + Debit(usd)
      BY <2>1 DEF TypeOK
    <3>3. Debit(usd) \in Nat
      BY DebitTyped
    <3> QED
      BY <3>1, <3>2, <3>3
  <2>3. Debit(usd) \in 0..MaxCost
    BY DebitTyped
  <2> QED
    BY <1>3, <2>1, <2>2, <2>3
<1>5. ASSUME NEW s \in Slots, Record(s)
      PROVE  CountInv'
  <2>1. /\ Running(s) /\ run[s].stage = "charged" /\ run[s] \in RunType
        /\ UNCHANGED <<accounts, procs>>
        /\ run' = [run EXCEPT ![s] = [run[s] EXCEPT !.stage = "recorded"]]
    BY <1>5, RunningTyped DEF Record, TypeOK
  <2>2. [run[s] EXCEPT !.stage = "recorded"]
          = [run[s] EXCEPT !.stage = "recorded", !.usd = run[s].usd]
    BY <2>1
  <2>3. run[s].usd \in 0..MaxCost
    BY <2>1
  <2>4. run' = [run EXCEPT ![s] = [run[s] EXCEPT !.stage = "recorded", !.usd = run[s].usd]]
    BY <2>1, <2>2
  <2> QED
    BY <1>0, <1>3, <2>1, <2>3, <2>4
<1>6. ASSUME NEW s \in Slots, Finish(s) \/ WaitFails(s)
      PROVE  CountInv'
  <2>1. UNCHANGED <<accounts, procs>>
    BY <1>6 DEF Finish, WaitFails
  <2> QED
    BY <1>0, <1>6, <2>1, RunEnds, CountsKept DEF CountInv
<1>7. CASE Stop
  <2> SUFFICES ASSUME NEW c \in Chains PROVE Counts(c)'
    BY DEF CountInv
  <2>1. started'[c] = 0 /\ procs'[c] = 0
    BY <1>7 DEF Stop, NoneYet
  <2>2. RunsOf(c)' = RunsOf(c) /\ Left(c)' = RunsOf(c)
    BY <1>7, RunsLeft
  <2>3. Cardinality(RunsOf(c)) <= MaxRuns
    <3>1. /\ Cardinality(RunsOf(c)) <= procs[c] + Cardinality(Left(c))
          /\ procs[c] + Cardinality(Left(c)) <= MaxRuns
      BY DEF CountInv, Counts
    <3> QED
      BY <3>1, CountTypes
  <2>4. /\ started'[c] <= MaxRuns /\ procs'[c] <= started'[c]
        /\ procs'[c] + Cardinality(Left(c)') <= MaxRuns
        /\ Cardinality(RunsOf(c)') <= procs'[c] + Cardinality(Left(c)')
    BY <2>1, <2>2, <2>3, CountTypes
  <2>5. Covered(c)'
    BY <2>4 DEF Covered
  <2> QED
    BY <2>4, <2>5 DEF Counts
<1>8. ASSUME NEW s \in Slots, NEW usd \in -1..MaxCost, NEW a \in Ages, NEW budget \in Budgets,
             NoteLeft(s, usd, a, budget)
      PROVE  CountInv'
  BY <1>8, CountNoteLeft
<1> QED
  BY <1>1, <1>2, <1>4, <1>5, <1>6, <1>7, <1>8
     DEF Next, Trigger, Spawn, Mint, Send, Settle, Tick, vars

(* A run that starts and is never seen to finish has still been started:   *)
(* no chain has more processes on a Tower's account than max_runs, those    *)
(* the Tower before it left included.                                      *)
THEOREM RunCap == Spec => []RunCapHolds
<1>1. Init => FuelInv /\ CountInv
  <2> SUFFICES ASSUME Init, NEW c \in Chains PROVE Within(c) /\ Counts(c)
    BY DEF FuelInv, CountInv
  <2>1. RunsOf(c) = {} /\ Left(c) = {}
    BY DEF Init, Left, InStage, RunsOf, Running
  <2>2. Cardinality(RunsOf(c)) = 0 /\ Cardinality(Left(c)) = 0
    BY <2>1, FS_EmptySet
  <2>3. MaxRuns \in Nat /\ started[c] = 0 /\ procs[c] = 0 /\ spent[c] = 0 /\ c \notin known
    BY RailsAssumption DEF Init, NoneYet
  <2>4. Within(c)
    BY <2>1, <2>3 DEF Within
  <2>5. started[c] <= MaxRuns /\ procs[c] <= started[c]
        /\ procs[c] + Cardinality(Left(c)) <= MaxRuns
        /\ Cardinality(RunsOf(c)) <= procs[c] + Cardinality(Left(c))
    BY <2>2, <2>3
  <2>6. Counts(c)
    BY <2>5 DEF Counts, Covered
  <2> QED
    BY <2>4, <2>6
<1>2. TypeOK /\ CountInv => RunCapHolds
  <2> SUFFICES ASSUME TypeOK, CountInv, NEW c \in Chains PROVE procs[c] <= MaxRuns
    BY DEF RunCapHolds
  <2>1. procs[c] + Cardinality(Left(c)) <= MaxRuns
    BY DEF CountInv, Counts
  <2> QED
    BY <2>1, CountTypes
<1> QED
  BY <1>1, <1>2, FuelStep, CountStep, StepTyped, TypeCorrect, PTL DEF Spec

-----------------------------------------------------------------------------
(* Sums.  A sum of naturals counts the units under the graph of the        *)
(* function, and sets can be counted without an induction; the one that is *)
(* needed shows that the fold of the library is that count, in whatever    *)
(* order it chooses the indices.                                           *)

First(s) == CHOOSE x \in s : TRUE
Added(f, g, s) == IF s = {} THEN 0 ELSE f[First(s)] + g[s \ {First(s)}]

\* What MapThenFoldSet iterates.
Totals(f, S) == CHOOSE g : g = [s \in SUBSET S |-> Added(f, g, s)]

Units(f, S) == {u \in S \X (Nat \ {0}) : u[2] <= f[u[1]]}

Column(a, m, n) == {a} \X ((m + 1)..(m + n))

(* A collection of subsets of a finite set that has each set whose subsets *)
(* with one element less it has, has them all.                             *)
LEMMA SubsetInduction ==
  ASSUME NEW S, IsFiniteSet(S), NEW G,
         ASSUME NEW T \in SUBSET S, \A x \in T : T \ {x} \in G PROVE T \in G
  PROVE  SUBSET S \subseteq G
<1> DEFINE Bad == (SUBSET S) \ G
<1> SUFFICES ASSUME Bad # {} PROVE FALSE
  OBVIOUS
<1>1. IsWellFoundedOn(StrictSubsetOrdering(S), SUBSET S)
  <2>1. FiniteSubsetsOf(S) = SUBSET S
    BY FS_FiniteSubsetsOfFinite
  <2>2. IsWellFoundedOn(StrictSubsetOrdering(S), FiniteSubsetsOf(S))
    BY FS_StrictSubsetOrderingWellFounded
  <2> QED
    BY <2>1, <2>2
<1>2. PICK T \in Bad : \A U \in Bad : <<U, T>> \notin StrictSubsetOrdering(S)
  <2>1. Bad \subseteq SUBSET S
    OBVIOUS
  <2> HIDE DEF Bad
  <2> QED
    BY <1>1, <2>1, WFMin
<1>3. ASSUME NEW x \in T PROVE T \ {x} \in G
  <2>1. T \ {x} \in SUBSET S /\ T \ {x} # T /\ T \ {x} \subseteq T
    OBVIOUS
  <2>2. <<T \ {x}, T>> \in StrictSubsetOrdering(S)
    BY <2>1 DEF StrictSubsetOrdering
  <2> QED
    BY <1>2, <2>1, <2>2
<1> QED
  BY <1>3

(* A column is as high as it says.                                         *)
LEMMA ColumnCounts ==
  ASSUME NEW a, NEW m \in Nat, NEW n \in Nat
  PROVE  IsFiniteSet(Column(a, m, n)) /\ Cardinality(Column(a, m, n)) = n
<1>1. IsFiniteSet({a}) /\ Cardinality({a}) = 1
  BY FS_Singleton
<1>2. IsFiniteSet((m + 1)..(m + n)) /\ Cardinality((m + 1)..(m + n)) = n
  <2>1. m + 1 \in Int /\ m + n \in Int
    OBVIOUS
  <2>2. /\ IsFiniteSet((m + 1)..(m + n))
        /\ Cardinality((m + 1)..(m + n)) =
             IF m + 1 > m + n THEN 0 ELSE (m + n) - (m + 1) + 1
    BY <2>1, FS_Interval
  <2> QED
    BY <2>2
<1>3. /\ IsFiniteSet(Column(a, m, n))
      /\ Cardinality(Column(a, m, n)) = Cardinality({a}) * Cardinality((m + 1)..(m + n))
  BY <1>1, <1>2, FS_Product DEF Column
<1> QED
  BY <1>1, <1>2, <1>3

(* One index more is one column more.                                      *)
LEMMA UnitsSplit ==
  ASSUME NEW S, NEW f \in [S -> Nat], NEW T \in SUBSET S, NEW x \in T
  PROVE  /\ Units(f, T) = Units(f, T \ {x}) \cup Column(x, 0, f[x])
         /\ Units(f, T \ {x}) \cap Column(x, 0, f[x]) = {}
<1>1. f[x] \in Nat /\ \A y \in T : f[y] \in Nat
  OBVIOUS
<1>2. \A u : u \in Column(x, 0, f[x]) <=> u \in T \X (Nat \ {0}) /\ u[1] = x /\ u[2] <= f[x]
  BY <1>1 DEF Column
<1>3. \A u : u \in Units(f, T \ {x}) <=> u \in T \X (Nat \ {0}) /\ u[1] # x /\ u[2] <= f[u[1]]
  BY DEF Units
<1>4. \A u : u \in Units(f, T) <=> u \in T \X (Nat \ {0}) /\ u[2] <= f[u[1]]
  BY DEF Units
<1> QED
  BY <1>2, <1>3, <1>4

LEMMA UnitsFinite ==
  ASSUME NEW S, IsFiniteSet(S), NEW f \in [S -> Nat]
  PROVE  \A T \in SUBSET S : IsFiniteSet(Units(f, T))
<1> DEFINE G == {T \in SUBSET S : IsFiniteSet(Units(f, T))}
<1>1. ASSUME NEW T \in SUBSET S, \A x \in T : T \ {x} \in G PROVE T \in G
  <2>1. CASE T = {}
    <3>1. Units(f, T) = {}
      BY <2>1 DEF Units
    <3> QED
      BY <3>1, FS_EmptySet
  <2>2. CASE T # {}
    <3>1. PICK x \in T : TRUE
      BY <2>2
    <3>2. IsFiniteSet(Units(f, T \ {x})) /\ IsFiniteSet(Column(x, 0, f[x]))
      BY <1>1, ColumnCounts
    <3>3. Units(f, T) = Units(f, T \ {x}) \cup Column(x, 0, f[x])
      BY UnitsSplit
    <3>4. IsFiniteSet(Units(f, T \ {x}) \cup Column(x, 0, f[x]))
      BY <3>2, FS_Union
    <3> QED
      BY <3>3, <3>4
  <2> QED
    BY <2>1, <2>2
<1> HIDE DEF G
<1>2. SUBSET S \subseteq G
  BY <1>1, SubsetInduction
<1> QED
  BY <1>2 DEF G

(* ... and adds its height.                                                *)
LEMMA UnitsAdd ==
  ASSUME NEW S, IsFiniteSet(S), NEW f \in [S -> Nat], NEW T \in SUBSET S, NEW x \in T
  PROVE  /\ Cardinality(Units(f, T)) = f[x] + Cardinality(Units(f, T \ {x}))
         /\ Cardinality(Units(f, T)) \in Nat
<1>1. IsFiniteSet(Units(f, T)) /\ IsFiniteSet(Units(f, T \ {x}))
  BY UnitsFinite
<1>2. /\ Cardinality(Units(f, T)) \in Nat /\ Cardinality(Units(f, T \ {x})) \in Nat
      /\ Cardinality({}) = 0
  BY <1>1, FS_CardinalityType, FS_EmptySet
<1>3. f[x] \in Nat /\ IsFiniteSet(Column(x, 0, f[x])) /\ Cardinality(Column(x, 0, f[x])) = f[x]
  BY ColumnCounts
<1>4. /\ Units(f, T) = Units(f, T \ {x}) \cup Column(x, 0, f[x])
      /\ Units(f, T \ {x}) \cap Column(x, 0, f[x]) = {}
  BY UnitsSplit
<1>5. Cardinality(Units(f, T)) =
        Cardinality(Units(f, T \ {x})) + Cardinality(Column(x, 0, f[x])) - Cardinality({})
  BY <1>1, <1>3, <1>4, FS_Union
<1> QED
  BY <1>2, <1>3, <1>5

(* The library's sum is the count.                                         *)
LEMMA SumCounts ==
  ASSUME NEW S, IsFiniteSet(S), NEW f \in [S -> Nat]
  PROVE  /\ SumFunctionOnSet(f, S) = Cardinality(Units(f, S))
         /\ SumFunctionOnSet(f, S) \in Nat
<1> DEFINE counts == [s \in SUBSET S |-> Cardinality(Units(f, s))]
           totals == Totals(f, S)
<1>1. SumFunctionOnSet(f, S) = totals[S]
  BY DEF SumFunctionOnSet, FoldFunctionOnSet, MapThenFoldSet, Totals, Added, First
<1>2. ASSUME NEW s \in SUBSET S PROVE counts[s] = Added(f, counts, s)
  <2>1. CASE s = {}
    <3>1. Units(f, s) = {}
      BY <2>1 DEF Units
    <3> QED
      BY <2>1, <3>1, FS_EmptySet DEF Added
  <2>2. CASE s # {}
    <3>1. First(s) \in s
      BY <2>2 DEF First
    <3>2. Cardinality(Units(f, s)) = f[First(s)] + Cardinality(Units(f, s \ {First(s)}))
      BY <3>1, UnitsAdd
    <3>3. s \ {First(s)} \in SUBSET S
      OBVIOUS
    <3> QED
      BY <2>2, <3>2, <3>3 DEF Added
  <2> QED
    BY <2>1, <2>2
<1>3. counts = [s \in SUBSET S |-> Added(f, counts, s)]
  BY <1>2
<1>4. totals = [s \in SUBSET S |-> Added(f, totals, s)]
  <2> HIDE DEF counts
  <2> QED
    BY <1>3 DEF Totals
<1> DEFINE G == {s \in SUBSET S : totals[s] = counts[s]}
<1> HIDE DEF totals, counts
<1>5. ASSUME NEW s \in SUBSET S, \A x \in s : s \ {x} \in G PROVE s \in G
  <2>1. totals[s] = Added(f, totals, s) /\ counts[s] = Added(f, counts, s)
    BY <1>3, <1>4
  <2>2. s # {} => totals[s \ {First(s)}] = counts[s \ {First(s)}]
    BY <1>5 DEF First
  <2> QED
    BY <2>1, <2>2 DEF Added
<1> HIDE DEF G
<1>6. SUBSET S \subseteq G
  BY <1>5, SubsetInduction
<1>7. totals[S] = counts[S]
  BY <1>6 DEF G
<1>8. counts[S] = Cardinality(Units(f, S)) /\ Cardinality(Units(f, S)) \in Nat
  BY UnitsFinite, FS_CardinalityType DEF counts
<1> QED
  BY <1>1, <1>7, <1>8

-----------------------------------------------------------------------------
(* The sum of a history, over the ages of the window.                      *)
LEMMA AgesFinite == IsFiniteSet(Ages)
<1>1. 0 \in Int /\ Window \in Int
  BY RailsAssumption
<1> QED
  BY <1>1, FS_Interval DEF Ages

LEMMA SumOfAges ==
  ASSUME NEW f \in [Ages -> Nat]
  PROVE  /\ SumFunction(f) = Cardinality(Units(f, Ages)) /\ SumFunction(f) \in Nat
         /\ SumFunctionOnSet(f, InWindow) = SumFunction(f)
         /\ IsFiniteSet(Units(f, Ages))
<1>1. SumFunction(f) = SumFunctionOnSet(f, Ages) /\ InWindow = Ages
  BY DEF SumFunction, InWindow
<1>2. /\ SumFunctionOnSet(f, Ages) = Cardinality(Units(f, Ages))
      /\ SumFunctionOnSet(f, Ages) \in Nat
  BY AgesFinite, SumCounts
<1>3. IsFiniteSet(Units(f, Ages))
  <2>1. Ages \in SUBSET Ages
    OBVIOUS
  <2> QED
    BY <2>1, AgesFinite, UnitsFinite
<1> QED
  BY <1>1, <1>2, <1>3

LEMMA SumOfNothing == SumFunction([a \in Ages |-> 0]) = 0
<1> DEFINE f == [a \in Ages |-> 0]
<1>1. f \in [Ages -> Nat] /\ \A a \in Ages : f[a] = 0
  OBVIOUS
<1> HIDE DEF f
<1>2. Units(f, Ages) = {}
  BY <1>1 DEF Units
<1>3. SumFunction(f) = 0
  BY <1>1, <1>2, SumOfAges, FS_EmptySet
<1> QED
  BY <1>3 DEF f

LEMMA SumGrows ==
  ASSUME NEW f \in [Ages -> Nat], NEW g \in [Ages -> Nat], \A a \in Ages : f[a] <= g[a]
  PROVE  SumFunction(f) <= SumFunction(g)
<1>1. ASSUME NEW u \in Units(f, Ages) PROVE u \in Units(g, Ages)
  <2>1. u \in Ages \X (Nat \ {0}) /\ u[2] <= f[u[1]] /\ u[1] \in Ages /\ u[2] \in Nat
    BY DEF Units
  <2>2. f[u[1]] \in Nat /\ g[u[1]] \in Nat /\ f[u[1]] <= g[u[1]]
    BY <2>1
  <2>3. u[2] <= g[u[1]]
    BY <2>1, <2>2
  <2> QED
    BY <2>1, <2>3 DEF Units
<1>2. Units(f, Ages) \in SUBSET Units(g, Ages)
  BY <1>1
<1> QED
  BY <1>2, SumOfAges, FS_Subset

(* What is filed is added, at whatever age.                                *)
LEMMA SumAdds ==
  ASSUME NEW f \in [Ages -> Nat], NEW a \in Ages, NEW usd \in Nat
  PROVE  SumFunction([f EXCEPT ![a] = @ + usd]) = SumFunction(f) + usd
<1> DEFINE g == [f EXCEPT ![a] = @ + usd]
<1>1. /\ g \in [Ages -> Nat] /\ g[a] = f[a] + usd /\ \A b \in Ages \ {a} : g[b] = f[b]
      /\ f[a] \in Nat
  <2>1. f[a] + usd \in Nat
    OBVIOUS
  <2> QED
    BY <2>1
<1> HIDE DEF g
<1>2. /\ IsFiniteSet(Column(a, f[a], usd)) /\ Cardinality(Column(a, f[a], usd)) = usd
  BY <1>1, ColumnCounts
<1>3. ASSUME NEW u
      PROVE  /\ u \in Units(g, Ages) <=> u \in Units(f, Ages) \/ u \in Column(a, f[a], usd)
             /\ ~(u \in Units(f, Ages) /\ u \in Column(a, f[a], usd))
  <2>1. u \in Column(a, f[a], usd) <=>
          u \in Ages \X (Nat \ {0}) /\ u[1] = a /\ f[a] < u[2] /\ u[2] <= f[a] + usd
    BY <1>1 DEF Column
  <2>2. u \in Units(f, Ages) <=> u \in Ages \X (Nat \ {0}) /\ u[2] <= f[u[1]]
    BY DEF Units
  <2>3. u \in Units(g, Ages) <=> u \in Ages \X (Nat \ {0}) /\ u[2] <= g[u[1]]
    BY DEF Units
  <2>4. CASE u \notin Ages \X (Nat \ {0})
    BY <2>1, <2>2, <2>3, <2>4
  <2>5. CASE u \in Ages \X (Nat \ {0})
    <3>1. u[1] \in Ages /\ u[2] \in Nat
      BY <2>5
    <3>2. CASE u[1] = a
      BY <1>1, <2>1, <2>2, <2>3, <3>1, <3>2, <2>5
    <3>3. CASE u[1] # a
      BY <1>1, <2>1, <2>2, <2>3, <3>1, <3>3, <2>5
    <3> QED
      BY <3>2, <3>3
  <2> QED
    BY <2>4, <2>5
<1>4. /\ Units(g, Ages) = Units(f, Ages) \cup Column(a, f[a], usd)
      /\ Units(f, Ages) \cap Column(a, f[a], usd) = {}
  BY <1>3
<1>5. /\ IsFiniteSet(Units(f, Ages)) /\ Cardinality(Units(f, Ages)) = SumFunction(f)
      /\ SumFunction(f) \in Nat /\ Cardinality(Units(g, Ages)) = SumFunction(g)
  BY <1>1, SumOfAges
<1>6. Cardinality(Units(g, Ages)) =
        Cardinality(Units(f, Ages)) + Cardinality(Column(a, f[a], usd)) - Cardinality({})
  BY <1>2, <1>4, <1>5, FS_Union
<1>7. SumFunction(g) = SumFunction(f) + usd
  BY <1>2, <1>5, <1>6, FS_EmptySet
<1> QED
  BY <1>7 DEF g

(* What grows older stays what it is, until it leaves the window.          *)
LEMMA SumAges ==
  ASSUME NEW f \in [Ages -> Nat],
         NEW g, g = [a \in Ages |-> IF a = 0 THEN 0 ELSE f[a - 1]], g \in [Ages -> Nat]
  PROVE  SumFunction(g) <= SumFunction(f)
<1> DEFINE younger == [u \in Units(g, Ages) |-> <<u[1] - 1, u[2]>>]
<1>1. ASSUME NEW u \in Units(g, Ages)
      PROVE  /\ <<u[1] - 1, u[2]>> \in Units(f, Ages)
             /\ u = <<u[1], u[2]>> /\ u[1] \in Int
  <2>1. /\ u \in Ages \X (Nat \ {0}) /\ u[1] \in Ages /\ u[2] \in Nat \ {0}
        /\ u = <<u[1], u[2]>> /\ u[2] <= g[u[1]]
    BY DEF Units
  <2>2. u[1] # 0
    BY <2>1
  <2>3. g[u[1]] = f[u[1] - 1]
    BY <2>1, <2>2
  <2>4. u[1] - 1 \in Ages /\ u[1] \in Int
    BY <2>1, <2>2, RailsAssumption DEF Ages
  <2>5. <<u[1] - 1, u[2]>> \in Ages \X (Nat \ {0})
    BY <2>1, <2>4
  <2> QED
    BY <2>1, <2>3, <2>4, <2>5 DEF Units
<1>2. younger \in [Units(g, Ages) -> Units(f, Ages)]
  BY <1>1
<1>3. ASSUME NEW u \in Units(g, Ages), NEW v \in Units(g, Ages), younger[u] = younger[v]
      PROVE  u = v
  <2>1. u[1] - 1 = v[1] - 1 /\ u[2] = v[2]
    BY <1>3
  <2>2. u[1] = v[1]
    <3>1. u[1] \in Int /\ v[1] \in Int
      BY <1>1
    <3> QED
      BY <2>1, <3>1
  <2> QED
    BY <1>1, <2>1, <2>2
<1>4. younger \in Injection(Units(g, Ages), Units(f, Ages))
  <2>1. DOMAIN younger = Units(g, Ages)
    OBVIOUS
  <2> HIDE DEF younger
  <2> QED
    BY <1>2, <1>3, <2>1 DEF Injection, IsInjective
<1> HIDE DEF younger
<1>5. IsFiniteSet(Units(f, Ages))
  BY SumOfAges
<1>6. Cardinality(Units(g, Ages)) <= Cardinality(Units(f, Ages))
  BY <1>4, <1>5, FS_Injection
<1> QED
  BY <1>6, SumOfAges

-----------------------------------------------------------------------------
(* The Reserve.  What was paid in the window, with what the runs not yet   *)
(* paid may still cost, passes the Reserve by less than the worst of all   *)
(* slots.  A run starts only while the window holds less than the Reserve, *)
(* and the history it is read from files nothing less than what was paid.  *)
Unpaid == {s \in Slots : Running(s) /\ run[s].stage \in {"alive", "charged", "left"}}

Filed == \A a \in Ages : paid[a] <= ledger[a]

Reserved ==
  SumFunction(paid) + Cardinality(Unpaid) * MaxCost < ReserveCap + Cardinality(Slots) * MaxCost

ReserveInv == Filed /\ Reserved

LEMMA ReserveTypes ==
  TypeOK => /\ SumFunction(paid) \in Nat /\ SumFunction(ledger) \in Nat
            /\ MaxCost \in Nat /\ ReserveCap \in Nat \ {0}
            /\ Unpaid \in SUBSET Slots /\ IsFiniteSet(Unpaid)
            /\ Cardinality(Unpaid) \in Nat /\ Cardinality(Slots) \in Nat
            /\ Cardinality(Unpaid) <= Cardinality(Slots)
<1> SUFFICES ASSUME TypeOK
             PROVE  /\ SumFunction(paid) \in Nat /\ SumFunction(ledger) \in Nat
                    /\ MaxCost \in Nat /\ ReserveCap \in Nat \ {0}
                    /\ Unpaid \in SUBSET Slots /\ IsFiniteSet(Unpaid)
                    /\ Cardinality(Unpaid) \in Nat /\ Cardinality(Slots) \in Nat
                    /\ Cardinality(Unpaid) <= Cardinality(Slots)
  OBVIOUS
<1>1. Unpaid \in SUBSET Slots
  BY DEF Unpaid
<1>2. ledger \in [Ages -> Nat] /\ paid \in [Ages -> Nat]
  BY DEF TypeOK
<1>3. MaxCost \in Nat /\ ReserveCap \in Nat \ {0}
  BY RailsAssumption
<1>4. SumFunction(paid) \in Nat /\ SumFunction(ledger) \in Nat
  BY <1>2, SumOfAges
<1>5. /\ IsFiniteSet(Unpaid) /\ Cardinality(Unpaid) \in Nat /\ Cardinality(Slots) \in Nat
      /\ Cardinality(Unpaid) <= Cardinality(Slots)
  BY <1>1, SlotsFinite
<1> QED
  BY <1>1, <1>3, <1>4, <1>5

(* The bound, of whatever sum and however many runs.                       *)
Fits(sum, n) == sum + n * MaxCost < ReserveCap + Cardinality(Slots) * MaxCost

LEMMA LessFits ==
  ASSUME NEW sum \in Nat, NEW n \in Nat, NEW less \in Nat, NEW m \in Nat,
         Fits(sum, n), less <= sum, m <= n,
         MaxCost \in Nat, ReserveCap \in Nat, Cardinality(Slots) \in Nat
  PROVE  Fits(less, m)
<1>1. m * MaxCost <= n * MaxCost /\ m * MaxCost \in Nat /\ n * MaxCost \in Nat
  BY TimesGrows
<1>2. Cardinality(Slots) * MaxCost \in Nat
  BY TimesGrows
<1> QED
  BY <1>1, <1>2 DEF Fits

LEMMA PaidFits ==
  ASSUME NEW sum \in Nat, NEW n \in Nat, NEW usd \in 0..MaxCost, Fits(sum, n + 1),
         MaxCost \in Nat, ReserveCap \in Nat, Cardinality(Slots) \in Nat
  PROVE  Fits(sum + usd, n)
<1>1. (n + 1) * MaxCost = n * MaxCost + MaxCost /\ n * MaxCost \in Nat
  BY TimesNext, TimesGrows
<1>2. Cardinality(Slots) * MaxCost \in Nat
  BY TimesGrows
<1> QED
  BY <1>1, <1>2 DEF Fits

(* What pays nothing and leaves no more runs unpaid.                       *)
LEMMA ReserveKept ==
  ASSUME TypeOK, TypeOK', ReserveInv, Filed',
         Unpaid' \subseteq Unpaid, SumFunction(paid') <= SumFunction(paid)
  PROVE  ReserveInv'
<1>1. /\ SumFunction(paid) \in Nat /\ MaxCost \in Nat /\ ReserveCap \in Nat
      /\ Cardinality(Unpaid) \in Nat /\ Cardinality(Slots) \in Nat /\ IsFiniteSet(Unpaid)
  BY ReserveTypes
<1>2. SumFunction(paid') \in Nat /\ Cardinality(Unpaid') \in Nat
  <2>1. paid' \in [Ages -> Nat] /\ Unpaid' \in SUBSET Slots
    BY DEF TypeOK, Unpaid
  <2> QED
    BY <2>1, SumOfAges, SlotsFinite
<1>3. Cardinality(Unpaid') <= Cardinality(Unpaid)
  BY <1>1, FS_Subset
<1>4. Fits(SumFunction(paid), Cardinality(Unpaid))
  BY DEF ReserveInv, Reserved, Fits
<1>5. Fits(SumFunction(paid'), Cardinality(Unpaid'))
  BY <1>1, <1>2, <1>3, <1>4, LessFits
<1> QED
  BY <1>5 DEF ReserveInv, Reserved, Fits

(* What pays for a run.                                                    *)
LEMMA ReservePaid ==
  ASSUME TypeOK, ReserveInv, Filed', NEW s \in Unpaid, Unpaid' = Unpaid \ {s},
         NEW usd \in 0..MaxCost, SumFunction(paid') = SumFunction(paid) + usd
  PROVE  ReserveInv'
<1>1. /\ SumFunction(paid) \in Nat /\ MaxCost \in Nat /\ ReserveCap \in Nat
      /\ Cardinality(Unpaid) \in Nat /\ Cardinality(Slots) \in Nat /\ IsFiniteSet(Unpaid)
  BY ReserveTypes
<1>2. Cardinality(Unpaid \ {s}) = Cardinality(Unpaid) - 1 /\ IsFiniteSet(Unpaid \ {s})
  BY <1>1, FS_RemoveElement
<1>3. Cardinality(Unpaid \ {s}) \in Nat /\ Cardinality(Unpaid) = Cardinality(Unpaid \ {s}) + 1
  BY <1>1, <1>2, FS_CardinalityType
<1>4. Fits(SumFunction(paid), Cardinality(Unpaid \ {s}) + 1)
  BY <1>3 DEF ReserveInv, Reserved, Fits
<1>5. Fits(SumFunction(paid) + usd, Cardinality(Unpaid \ {s}))
  BY <1>1, <1>3, <1>4, PaidFits
<1>6. Fits(SumFunction(paid'), Cardinality(Unpaid'))
  BY <1>5
<1> QED
  BY <1>6 DEF ReserveInv, Reserved, Fits

(* A cost is filed in the history the Reserve reads, if anywhere.          *)
LEMMA BillFiles ==
  ASSUME TypeOK, Filed, NEW usd \in Nat, NEW a \in Ages, NEW before \in BOOLEAN,
         Bill(usd, a, before)
  PROVE  /\ Filed'
         /\ before => paid' = paid
         /\ ~before => SumFunction(paid') = SumFunction(paid) + usd
<1>1. ledger \in [Ages -> Nat] /\ paid \in [Ages -> Nat]
  BY DEF TypeOK
<1>2. /\ ledger' = [ledger EXCEPT ![a] = @ + usd]
      /\ before => paid' = paid
      /\ ~before => paid' = [paid EXCEPT ![a] = @ + usd]
  BY DEF Bill
<1>3. ASSUME NEW b \in Ages PROVE paid'[b] <= ledger'[b]
  <2>1. ledger[b] \in Nat /\ paid[b] \in Nat /\ paid[b] <= ledger[b]
    BY <1>1 DEF Filed
  <2>2. ledger'[b] = IF b = a THEN ledger[b] + usd ELSE ledger[b]
    BY <1>1, <1>2
  <2>3. paid'[b] = paid[b] \/ (b = a /\ paid'[b] = paid[b] + usd)
    BY <1>1, <1>2
  <2> QED
    BY <2>1, <2>2, <2>3
<1>4. ASSUME ~before PROVE SumFunction(paid') = SumFunction(paid) + usd
  <2>1. paid' = [paid EXCEPT ![a] = @ + usd]
    BY <1>2, <1>4
  <2>2. SumFunction([paid EXCEPT ![a] = @ + usd]) = SumFunction(paid) + usd
    BY <1>1, SumAdds
  <2> QED
    BY <2>1, <2>2
<1> QED
  BY <1>2, <1>3, <1>4 DEF Filed

(* A slot that moves on leaves the others as they are.                     *)
LEMMA UnpaidMoves ==
  ASSUME TypeOK, NEW s \in Slots, NEW r, run' = [run EXCEPT ![s] = r]
  PROVE  /\ Unpaid' \ {s} = Unpaid \ {s}
         /\ (r = Idle \/ r.stage \notin {"alive", "charged", "left"}) => Unpaid' = Unpaid \ {s}
         /\ s \in Unpaid => Unpaid' \subseteq Unpaid
<1>1. run'[s] = r /\ \A t \in Slots \ {s} : run'[t] = run[t]
  BY DEF TypeOK
<1>2. Unpaid' \subseteq Slots /\ Unpaid \subseteq Slots
  BY DEF Unpaid
<1>3. \A t \in Slots \ {s} : t \in Unpaid' <=> t \in Unpaid
  BY <1>1 DEF Unpaid, Running
<1>4. (r = Idle \/ r.stage \notin {"alive", "charged", "left"}) => s \notin Unpaid'
  BY <1>1 DEF Unpaid, Running
<1> QED
  BY <1>2, <1>3, <1>4

(* A run starts only while the window holds less than the Reserve, and     *)
(* there are only so many slots.                                           *)
LEMMA ReserveStart ==
  ASSUME TypeOK, TypeOK', ReserveInv, NEW s \in Slots, NEW c \in Chains, NEW h \in Hops,
         NEW budget \in Budgets, Start(s, c, h, budget)
  PROVE  ReserveInv'
<1>1. UNCHANGED history /\ ReserveAllows
  BY DEF Start, Admit
<1>2. ledger \in [Ages -> Nat] /\ paid \in [Ages -> Nat]
  BY DEF TypeOK
<1>3. SumFunction(ledger) < ReserveCap
  BY <1>1, <1>2, SumOfAges DEF ReserveAllows
<1>4. SumFunction(paid) <= SumFunction(ledger)
  BY <1>2, SumGrows DEF ReserveInv, Filed
<1>5. /\ SumFunction(paid) \in Nat /\ SumFunction(ledger) \in Nat
      /\ MaxCost \in Nat /\ ReserveCap \in Nat
  BY ReserveTypes
<1>6. /\ Cardinality(Unpaid') \in Nat /\ Cardinality(Slots) \in Nat
      /\ Cardinality(Unpaid') <= Cardinality(Slots)
  <2>1. Unpaid' \in SUBSET Slots
    BY DEF Unpaid
  <2> QED
    BY <2>1, SlotsFinite
<1>7. /\ Cardinality(Unpaid') * MaxCost <= Cardinality(Slots) * MaxCost
      /\ Cardinality(Unpaid') * MaxCost \in Nat /\ Cardinality(Slots) * MaxCost \in Nat
  BY <1>5, <1>6, TimesGrows
<1>8. SumFunction(paid) + Cardinality(Unpaid') * MaxCost
        < ReserveCap + Cardinality(Slots) * MaxCost
  BY <1>3, <1>4, <1>5, <1>7
<1>9. paid' = paid /\ ledger' = ledger
  BY <1>1
<1> QED
  BY <1>8, <1>9 DEF ReserveInv, Filed, Reserved

LEMMA ReserveRecord ==
  ASSUME TypeOK, TypeOK', ReserveInv, NEW s \in Slots, Record(s)
  PROVE  ReserveInv'
<1>1. Running(s) /\ run[s].stage = "charged" /\ Bill(run[s].usd, 0, FALSE)
  BY DEF Record
<1>2. run[s] \in RunType /\ run[s].usd \in 0..MaxCost /\ MaxCost \in Nat
  BY <1>1, RunningTyped, RailsAssumption
<1>3. 0 \in Ages
  BY RailsAssumption DEF Ages
<1>4. Filed' /\ SumFunction(paid') = SumFunction(paid) + run[s].usd
  <2>1. run[s].usd \in Nat /\ Filed
    BY <1>2 DEF ReserveInv
  <2>2. /\ Filed'
        /\ FALSE => paid' = paid
        /\ ~FALSE => SumFunction(paid') = SumFunction(paid) + run[s].usd
    BY <1>1, <1>3, <2>1, BillFiles
  <2> QED
    BY <2>2
<1>5. s \in Unpaid
  BY <1>1 DEF Unpaid
<1>6. Unpaid' = Unpaid \ {s}
  <2> DEFINE recorded == [run[s] EXCEPT !.stage = "recorded"]
  <2>1. recorded.stage = "recorded" /\ run' = [run EXCEPT ![s] = recorded]
    BY <1>2 DEF Record, TypeOK
  <2> HIDE DEF recorded
  <2> QED
    BY <2>1, UnpaidMoves
<1> QED
  BY <1>2, <1>4, <1>5, <1>6, ReservePaid

(* A run left by the Tower before is filed when it was last seen alive, at *)
(* its cost, and paid unless that Tower had filed it.                      *)
LEMMA ReserveNoteLeft ==
  ASSUME TypeOK, TypeOK', ReserveInv, NEW s \in Slots, NEW usd \in -1..MaxCost, NEW a \in Ages,
         NEW budget \in Budgets, NoteLeft(s, usd, a, budget)
  PROVE  ReserveInv'
<1>1. /\ Running(s) /\ run[s].stage \in {"left", "billed"}
      /\ Bill(Debit(usd), a, run[s].stage = "billed")
  BY DEF NoteLeft
<1>2. run[s] \in RunType /\ Debit(usd) \in 0..MaxCost /\ Debit(usd) \in Nat
  BY <1>1, RunningTyped, DebitTyped
<1>3. /\ Filed'
      /\ run[s].stage = "billed" => paid' = paid
      /\ run[s].stage # "billed" => SumFunction(paid') = SumFunction(paid) + Debit(usd)
  <2>1. (run[s].stage = "billed") \in BOOLEAN
    OBVIOUS
  <2> QED
    BY <1>1, <1>2, <2>1, BillFiles DEF ReserveInv
<1>4. Unpaid' = Unpaid \ {s}
  <2> DEFINE noted == [run[s] EXCEPT !.stage = "noted"]
  <2>1. noted.stage = "noted" /\ run' = [run EXCEPT ![s] = noted]
    BY <1>2 DEF NoteLeft, TypeOK
  <2> HIDE DEF noted
  <2> QED
    BY <2>1, UnpaidMoves
<1>5. CASE run[s].stage = "billed"
  <2>1. SumFunction(paid') <= SumFunction(paid)
    BY <1>3, <1>5, ReserveTypes
  <2> QED
    BY <1>3, <1>4, <2>1, ReserveKept
<1>6. CASE run[s].stage = "left"
  <2>1. s \in Unpaid
    BY <1>1, <1>6 DEF Unpaid
  <2> QED
    BY <1>2, <1>3, <1>4, <1>6, <2>1, ReservePaid
<1> QED
  BY <1>1, <1>5, <1>6

(* What leaves the window is spent no more.                                *)
LEMMA ReserveTick == ASSUME TypeOK, TypeOK', ReserveInv, Tick PROVE ReserveInv'
<1>1. ledger \in [Ages -> Nat] /\ paid \in [Ages -> Nat] /\ paid' \in [Ages -> Nat]
  BY DEF TypeOK
<1>2. SumFunction(paid') <= SumFunction(paid)
  <2>1. paid' = [a \in Ages |-> IF a = 0 THEN 0 ELSE paid[a - 1]]
    BY DEF Tick
  <2> QED
    BY <1>1, <2>1, SumAges
<1>3. Filed'
  <2> SUFFICES ASSUME NEW a \in Ages PROVE paid'[a] <= ledger'[a]
    BY DEF Filed
  <2>1. CASE a = 0
    BY <2>1 DEF Tick
  <2>2. CASE a # 0
    <3>1. a - 1 \in Ages
      BY <2>2, RailsAssumption DEF Ages
    <3> QED
      BY <2>2, <3>1 DEF Tick, ReserveInv, Filed
  <2> QED
    BY <2>1, <2>2
<1>4. Unpaid' = Unpaid
  BY DEF Tick, Unpaid, Running
<1> QED
  BY <1>2, <1>3, <1>4, ReserveKept

(* A Tower that goes away leaves its runs unpaid, or filed, as they were.  *)
LEMMA ReserveStop == ASSUME TypeOK, TypeOK', ReserveInv, Stop PROVE ReserveInv'
<1>1. \A s \in Slots : s \in Unpaid' => s \in Unpaid
  <2> SUFFICES ASSUME NEW s \in Slots, s \in Unpaid' PROVE s \in Unpaid
    OBVIOUS
  <2>1. Running(s)
    BY DEF Stop, Unpaid, Running
  <2>2. run[s] \in RunType
    BY <2>1, RunningTyped
  <2>3. run'[s].stage = IF run[s].stage \in {"recorded", "noted", "billed"} THEN "billed" ELSE "left"
    BY <2>1, <2>2 DEF Stop
  <2>4. run[s].stage \in {"alive", "charged", "left"}
    BY <2>2, <2>3 DEF Unpaid
  <2> QED
    BY <2>1, <2>4 DEF Unpaid
<1>2. Unpaid' \subseteq Unpaid
  BY <1>1 DEF Unpaid
<1>3. paid' = paid /\ ledger' = ledger
  BY DEF Stop
<1>4. Filed' /\ SumFunction(paid') <= SumFunction(paid)
  BY <1>3, ReserveTypes DEF ReserveInv, Filed
<1> QED
  BY <1>2, <1>4, ReserveKept

LEMMA ReserveSame ==
  ASSUME TypeOK, TypeOK', ReserveInv, UNCHANGED history, Unpaid' \subseteq Unpaid
  PROVE  ReserveInv'
<1>1. Filed' /\ SumFunction(paid') <= SumFunction(paid)
  BY ReserveTypes DEF ReserveInv, Filed
<1> QED
  BY <1>1, ReserveKept

LEMMA ReserveStep == TypeOK /\ TypeOK' /\ ReserveInv /\ [Next]_vars => ReserveInv'
<1> SUFFICES ASSUME TypeOK, TypeOK', ReserveInv, [Next]_vars
             PROVE  ReserveInv'
  OBVIOUS
<1>1. ASSUME Mint \/ (\E s \in Slots : Send(s)) \/ UNCHANGED vars
      PROVE  ReserveInv'
  <2>1. UNCHANGED <<run, history>>
    BY <1>1 DEF Mint, Send, vars
  <2>2. Unpaid' \subseteq Unpaid
    BY <2>1 DEF Unpaid, Running
  <2> QED
    BY <2>1, <2>2, ReserveSame
<1>2. ASSUME NEW s \in Slots, NEW c \in Chains, NEW h \in Hops, Dispatch(s, c, h)
      PROVE  ReserveInv'
  <2>1. PICK budget \in Budgets : \/ Start(s, c, h, budget)
                                  \/ StartFails(s, c, h, budget)
                                  \/ Refuse(s, c, h, budget)
    BY <1>2 DEF Dispatch
  <2>2. CASE Start(s, c, h, budget)
    BY <2>2, ReserveStart
  <2>3. CASE StartFails(s, c, h, budget) \/ Refuse(s, c, h, budget)
    <3>1. UNCHANGED <<run, history>>
      BY <2>3 DEF StartFails, Refuse
    <3>2. Unpaid' \subseteq Unpaid
      BY <3>1 DEF Unpaid, Running
    <3> QED
      BY <3>1, <3>2, ReserveSame
  <2> QED
    BY <2>1, <2>2, <2>3
<1>3. ASSUME NEW s \in Slots, NEW usd \in -1..MaxCost, Charge(s, usd)
      PROVE  ReserveInv'
  <2>1. Running(s) /\ run[s].stage = "alive" /\ UNCHANGED history
    BY <1>3 DEF Charge
  <2>2. run' = [run EXCEPT ![s] = [run[s] EXCEPT !.stage = "charged", !.usd = Debit(usd)]]
    BY <1>3 DEF Charge, TypeOK
  <2>3. s \in Unpaid
    BY <2>1 DEF Unpaid
  <2>4. Unpaid' \subseteq Unpaid
    BY <2>2, <2>3, UnpaidMoves
  <2> QED
    BY <2>1, <2>4, ReserveSame
<1>4. ASSUME NEW s \in Slots, Record(s)
      PROVE  ReserveInv'
  BY <1>4, ReserveRecord
<1>5. ASSUME NEW s \in Slots, Finish(s) \/ WaitFails(s)
      PROVE  ReserveInv'
  <2>1. run' = [run EXCEPT ![s] = Idle] /\ UNCHANGED history
    BY <1>5 DEF Finish, WaitFails
  <2>2. Unpaid' = Unpaid \ {s}
    BY <2>1, UnpaidMoves
  <2> QED
    BY <2>1, <2>2, ReserveSame
<1>6. ASSUME NEW s \in Slots, NEW usd \in -1..MaxCost, NEW a \in Ages, NEW budget \in Budgets,
             NoteLeft(s, usd, a, budget)
      PROVE  ReserveInv'
  BY <1>6, ReserveNoteLeft
<1> QED
  BY <1>1, <1>2, <1>3, <1>4, <1>5, <1>6, ReserveTick, ReserveStop
     DEF Next, Trigger, Spawn, Settle

(* The Reserve is overshot by less than the worst run of every slot, over  *)
(* every stretch of time as long as its window, across every chain and     *)
(* every restart of the Tower.                                             *)
THEOREM ReserveOvershoot == Spec => []ReserveOvershootBounded
<1>1. Init => ReserveInv
  <2> SUFFICES ASSUME Init PROVE ReserveInv
    OBVIOUS
  <2>1. Filed
    BY DEF Init, Filed
  <2>2. SumFunction(paid) = 0
    BY SumOfNothing DEF Init
  <2>3. Unpaid = {}
    BY DEF Init, Unpaid, Running
  <2>4. Cardinality(Unpaid) = 0
    BY <2>3, FS_EmptySet
  <2>5. Cardinality(Slots) * MaxCost \in Nat /\ ReserveCap \in Nat \ {0} /\ 0 * MaxCost = 0
    <3>1. Cardinality(Slots) \in Nat /\ MaxCost \in Nat
      BY RailsAssumption, FS_CardinalityType
    <3> QED
      BY <3>1, RailsAssumption
  <2> QED
    BY <2>1, <2>2, <2>4, <2>5 DEF ReserveInv, Reserved
<1>2. TypeOK /\ ReserveInv => ReserveOvershootBounded
  <2> SUFFICES ASSUME TypeOK, ReserveInv PROVE ReserveOvershootBounded
    OBVIOUS
  <2>1. /\ SumFunction(paid) \in Nat /\ MaxCost \in Nat /\ ReserveCap \in Nat
        /\ Cardinality(Unpaid) \in Nat /\ Cardinality(Slots) \in Nat
    BY ReserveTypes
  <2>2. Cardinality(Unpaid) * MaxCost \in Nat /\ Cardinality(Slots) * MaxCost \in Nat
    BY <2>1, TimesGrows
  <2> QED
    BY <2>1, <2>2 DEF ReserveInv, Reserved, ReserveOvershootBounded
<1> QED
  BY <1>1, <1>2, ReserveStep, StepTyped, TypeCorrect, PTL DEF Spec

=============================================================================
