------------------------------- MODULE Rails -------------------------------
(***************************************************************************)
(* The rails of layover-core/src/itinerary.rs and the Reserve, as the      *)
(* Tower charges them: Hops bound how far a chain travels, Fuel what it     *)
(* spends, the run cap how many runs it starts, and the Reserve what the    *)
(* whole factory spends in a rolling window.  A rail is read before a run    *)
(* starts and the cost is known only after it ended, with other runs of the *)
(* same chain, and of others, admitted in between.                          *)
(*                                                                         *)
(* The chains' accounts are the Tower's memory (`Chains` in runtime.rs) and *)
(* begin anew with it; the queue, the runs marked live and the history the  *)
(* Reserve is measured from are on disk.  Money is counted in whole units, time in ticks of the *)
(* Reserve's window.  What a flight says, which edge it takes and in which  *)
(* order the queue is worked make no difference to a rail; a Ground Stop and  *)
(* a refused edge cost nothing.                                            *)
(***************************************************************************)
EXTENDS Integers, FiniteSets, Functions

CONSTANTS
  Chains,      \* itinerary ids
  Slots,       \* max_concurrent_runs of them
  MaxHops,     \* [defaults] max_hops
  Budgets,     \* the fuel_usd a chain may start with: its workflow's or its agent's
  MaxRuns,     \* max_runs
  MaxCost,     \* the worst single run
  ReserveCap,  \* [reserve] fuel_usd
  Window,      \* [reserve] window_hours, in ticks
  MaxQueued,   \* bound: flights waiting at once
  MaxStops     \* bound: how often the Tower goes away and is started again

ASSUME RailsAssumption ==
  /\ IsFiniteSet(Slots)
  /\ MaxHops \in Nat \ {0} /\ MaxRuns \in Nat
  /\ Budgets \subseteq Nat \ {0} /\ Budgets # {}
  /\ MaxCost \in Nat /\ ReserveCap \in Nat \ {0} /\ Window \in Nat
  /\ MaxQueued \in Nat /\ MaxStops \in Nat

VARIABLES
  minted,   \* the itinerary ids handed out
  queue,    \* how many flights of each chain wait, by the hops they carry
  known,    \* Chains.live: the chains this Tower has an account of
  fuel,     \* Itinerary.fuel_budget_usd
  spent,    \* Itinerary.fuel_spent_usd
  started,  \* Itinerary.runs_started
  run,      \* what each slot runs, or the last Tower left running
  ledger,   \* measured spend in history, by age
  paid,     \* the same, had every run been recorded once
  procs,    \* the processes of each chain this Tower started or found
  stops

vars == <<minted, queue, known, fuel, spent, started, run, ledger, paid, procs,
          stops>>
accounts == <<known, fuel, spent, started>>
history == <<ledger, paid>>

Hops == 1..MaxHops
Ages == 0..Window
Stages == {"alive", "charged", "recorded", "left", "billed", "noted"}
Idle == [chain |-> "none"]
NoneYet == [c \in Chains |-> 0]

Running(s) == run[s] # Idle
RunsOf(c) == {s \in Slots : Running(s) /\ run[s].chain = c}
InStage(c, stages) == {s \in RunsOf(c) : run[s].stage \in stages}

\* What the last Tower left, with and without a record, until it is settled.
Left(c) == InStage(c, {"left", "billed"})
Reconciling == \E s \in Slots : Running(s) /\ run[s].stage \in {"left", "billed", "noted"}
Waiting == SumFunction([c \in Chains |-> SumFunction(queue[c])])

-----------------------------------------------------------------------------
Init ==
  /\ minted = {} /\ known = {}
  /\ queue = [c \in Chains |-> [h \in Hops |-> 0]]
  /\ fuel = NoneYet /\ spent = NoneYet /\ started = NoneYet /\ procs = NoneYet
  /\ run = [s \in Slots |-> Idle]
  /\ ledger = [a \in Ages |-> 0] /\ paid = [a \in Ages |-> 0]
  /\ stops = 0

Queue(c, h) ==
  /\ Waiting < MaxQueued
  /\ queue' = [queue EXCEPT ![c][h] = @ + 1]

Unqueue(c, h) ==
  /\ queue[c][h] > 0
  /\ queue' = [queue EXCEPT ![c][h] = @ - 1]

\* ItineraryId::generate.
Fresh == CHOOSE c \in Chains : c \notin minted

\* A fresh chain: a schedule or a person triggers it, or a run spawns it.
Mint ==
  /\ minted # Chains
  /\ minted' = minted \cup {Fresh}
  /\ Queue(Fresh, MaxHops)
  /\ UNCHANGED <<accounts, run, history, procs, stops>>

Trigger == Mint

Spawn(s) == Running(s) /\ run[s].stage = "alive" /\ Mint

\* FactoryRuntime::send on an ordinary edge: the flight continues the chain
\* and carries what its sender's run had left.
Send(s) ==
  /\ Running(s) /\ run[s].stage = "alive"
  /\ run[s].hops # 0
  /\ Queue(run[s].chain, run[s].hops)
  /\ UNCHANGED <<minted, accounts, run, history, procs, stops>>

-----------------------------------------------------------------------------
(* The rails, read before a run starts.                                    *)

\* Mutant: a chain that spent exactly its budget may go on.
FuelOverspent(c, budget) == spent[c] > budget

FuelExhausted(c, budget) == spent[c] >= budget

\* Itinerary::authorize_send and record_run_started.
Authorised(c, h, budget) ==
  /\ h - 1 # 0
  /\ ~FuelExhausted(c, budget)
  /\ started[c] < MaxRuns

\* Mutant: the window ends a tick early.
WindowShort == {a \in Ages : a < Window}

\* Reserve::expire drops what is older than the window.
InWindow == Ages

ReserveAllows == SumFunctionOnSet(ledger, InWindow) < ReserveCap

\* Chains::with: a chain seen for the first time starts on the rails of the
\* moment, one already known keeps its own.
Account(c, budget) ==
  /\ IF c \in known THEN budget = fuel[c] ELSE budget \in Budgets
  /\ known' = known \cup {c}
  /\ fuel' = [fuel EXCEPT ![c] = budget]

Counted(c) == started' = [started EXCEPT ![c] = @ + 1]

\* Factory::admit up to record_run_started, for a flight taken off the queue
\* because a slot is free.
Admit(c, h, budget) ==
  /\ Unqueue(c, h)
  /\ Account(c, budget)
  /\ Authorised(c, h, budget)
  /\ ReserveAllows
  /\ Counted(c)

Start(s, c, h, budget) ==
  /\ ~Running(s) /\ ~Reconciling
  /\ Admit(c, h, budget)
  /\ run' = [run EXCEPT ![s] = [chain |-> c, hops |-> h - 1, stage |-> "alive", usd |-> 0]]
  /\ procs' = [procs EXCEPT ![c] = @ + 1]
  /\ UNCHANGED <<minted, spent, history, stops>>

\* No plan could be made of it, or no process started.
StartFails(s, c, h, budget) ==
  /\ ~Running(s) /\ ~Reconciling
  /\ Admit(c, h, budget)
  /\ UNCHANGED <<minted, spent, run, history, procs, stops>>

\* Mutant: a refused flight stays queued.
RefuseKeeps(s, c, h, budget) ==
  /\ ~Running(s) /\ ~Reconciling
  /\ queue[c][h] > 0
  /\ Account(c, budget)
  /\ ~Authorised(c, h, budget) \/ ~ReserveAllows
  /\ UNCHANGED <<minted, queue, spent, started, run, history, procs, stops>>

\* A rail refuses the flight, which is reported and gone.
Refuse(s, c, h, budget) ==
  /\ ~Running(s) /\ ~Reconciling
  /\ Unqueue(c, h)
  /\ Account(c, budget)
  /\ ~Authorised(c, h, budget) \/ ~ReserveAllows
  /\ UNCHANGED <<minted, spent, started, run, history, procs, stops>>

-----------------------------------------------------------------------------
(* The cost of a run, once it has ended, or its Tower has.                 *)

\* Itinerary::debit_fuel and Reserve::record ignore what is not positive.
Debit(usd) == IF usd > 0 THEN usd ELSE 0

\* Factory::settle charges the chain ...
Charge(s, usd) ==
  /\ Running(s) /\ run[s].stage = "alive"
  /\ run' = [run EXCEPT ![s].stage = "charged", ![s].usd = Debit(usd)]
  /\ spent' = [spent EXCEPT ![run[s].chain] = @ + Debit(usd)]
  /\ UNCHANGED <<minted, queue, known, fuel, started, history, procs, stops>>

\* A run filed some time ago, once more if it was filed before.
Bill(usd, a, before) ==
  /\ ledger' = [ledger EXCEPT ![a] = @ + usd]
  /\ paid' = IF before THEN paid ELSE [paid EXCEPT ![a] = @ + usd]

\* ... then records the run ...
Record(s) ==
  /\ Running(s) /\ run[s].stage = "charged"
  /\ Bill(run[s].usd, 0, FALSE)
  /\ run' = [run EXCEPT ![s].stage = "recorded"]
  /\ UNCHANGED <<minted, queue, accounts, procs, stops>>

\* ... takes its live mark away, restarts it if the model service failed it,
\* and only then frees its slot.  A restart carries the hops of the first try.
Finish(s) ==
  /\ Running(s) /\ run[s].stage \in {"recorded", "noted"}
  /\ run' = [run EXCEPT ![s] = Idle]
  /\ Queue(run[s].chain, run[s].hops + 1) \/ UNCHANGED queue
  /\ UNCHANGED <<minted, accounts, history, procs, stops>>

\* Factory::finish, for a process that cannot be waited for: the run is let
\* go of, neither charged nor recorded, and its process may live on.
WaitFails(s) ==
  /\ Running(s) /\ run[s].stage = "alive"
  /\ run' = [run EXCEPT ![s] = Idle]
  /\ UNCHANGED <<minted, queue, accounts, history, procs, stops>>

\* Time passes.
Tick ==
  /\ ledger' = [a \in Ages |-> IF a = 0 THEN 0 ELSE ledger[a - 1]]
  /\ paid' = [a \in Ages |-> IF a = 0 THEN 0 ELSE paid[a - 1]]
  /\ UNCHANGED <<minted, queue, accounts, run, procs, stops>>

\* The Tower goes away at any moment.  What was marked live is still marked,
\* recorded or not.
Stop ==
  /\ stops < MaxStops
  /\ stops' = stops + 1
  /\ known' = {} /\ fuel' = NoneYet /\ spent' = NoneYet
  /\ started' = NoneYet /\ procs' = NoneYet
  /\ run' = [s \in Slots |->
               IF ~Running(s) THEN Idle
               ELSE [run[s] EXCEPT !.stage =
                 IF @ \in {"recorded", "noted", "billed"} THEN "billed" ELSE "left"]]
  /\ UNCHANGED <<minted, queue, history>>

\* Factory::settle_left_behind counts the run and charges its chain afresh,
\* whatever its rails say, and files it when it was last seen alive.  Its
\* mark goes, and the restart it may earn is queued, as in Finish.
NoteLeft(s, usd, a, budget) ==
  /\ Running(s) /\ run[s].stage \in {"left", "billed"}
  /\ LET c == run[s].chain IN
       /\ Account(c, budget)
       /\ IF ~FuelExhausted(c, budget) /\ started[c] < MaxRuns
          THEN Counted(c) ELSE UNCHANGED started
       /\ spent' = [spent EXCEPT ![c] = @ + Debit(usd)]
       /\ procs' = [procs EXCEPT ![c] = @ + 1]
  /\ Bill(Debit(usd), a, run[s].stage = "billed")
  /\ run' = [run EXCEPT ![s].stage = "noted"]
  /\ UNCHANGED <<minted, queue, stops>>

Dispatch(s, c, h) ==
  \E budget \in Budgets :
     Start(s, c, h, budget) \/ StartFails(s, c, h, budget) \/ Refuse(s, c, h, budget)

\* The thread that finishes a run, or the reconciliation of what was left.
Settle(s) ==
  \/ \E usd \in -1..MaxCost : Charge(s, usd)
  \/ Record(s)
  \/ Finish(s)
  \/ \E usd \in -1..MaxCost, a \in Ages, budget \in Budgets : NoteLeft(s, usd, a, budget)

Next ==
  \/ Trigger
  \/ \E s \in Slots :
        \/ Spawn(s)
        \/ \E c \in Chains, h \in Hops : Dispatch(s, c, h)
        \/ Send(s)
        \/ Settle(s)
        \/ WaitFails(s)
  \/ Tick
  \/ Stop

Spec == Init /\ [][Next]_vars

\* The coordinator takes something that waits once a slot is free; a run ends, by its
\* timeout if not by itself, and is settled; and so is what a Tower left.
Fairness ==
  /\ WF_vars(\E s \in Slots, c \in Chains, h \in Hops : Dispatch(s, c, h))
  /\ \A s \in Slots : WF_vars(Settle(s))

FairSpec == Spec /\ Fairness

-----------------------------------------------------------------------------
(* What makes it correct.                                                  *)

\* Every variable keeps its type.
TypeOK ==
  /\ minted \subseteq Chains /\ known \subseteq Chains
  /\ queue \in [Chains -> [Hops -> Nat]]
  /\ fuel \in [Chains -> Nat]
  /\ spent \in [Chains -> Nat]
  /\ started \in [Chains -> Nat]
  /\ run \in [Slots -> {Idle} \cup
        [chain : Chains, hops : Hops, stage : Stages, usd : 0..MaxCost]]
  /\ ledger \in [Ages -> Nat] /\ paid \in [Ages -> Nat]
  /\ procs \in [Chains -> Nat]
  /\ stops \in 0..MaxStops

\* docs/risks.md 15: "Slots bound how many runs can be simultaneously
\* overshooting, so the overshoot is bounded by max_concurrent_runs x worst
\* single run rather than being open-ended".  For the Fuel of a chain, ...
FuelOvershootBounded ==
  \A c \in known : spent[c] < fuel[c] + Cardinality(Slots) * MaxCost

\* ... and for the Reserve, over every stretch of time as long as its window,
\* across every chain and every restart.  A run recorded twice, once by the
\* Tower that died before it took the mark away, is spent once.
ReserveOvershootBounded ==
  SumFunction(paid) < ReserveCap + Cardinality(Slots) * MaxCost

\* factory.rs on record_run_started: "a run that starts and is never seen to
\* finish has still been started".  No chain has more processes on a
\* Tower's account, alive, ended or left by the Tower before it, than its cap.
RunCapHolds == \A c \in Chains : procs[c] <= MaxRuns

\* A chain ends, however its agents go on sending to each other: whatever
\* they queue runs or is refused, and runs are bounded.
EveryChainEnds ==
  \A c \in Chains :
     c \in minted ~> RunsOf(c) = {} /\ \A h \in Hops : queue[c][h] = 0

=============================================================================
