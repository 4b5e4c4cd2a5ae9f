------------------------------- MODULE Drain -------------------------------
(***************************************************************************)
(* The Tower's dispatcher, and how it winds down.                          *)
(*                                                                         *)
(* Three parties share the factory: the coordinator (the Tower's thread,   *)
(* tower/mod.rs run_loop over Factory::coordinate), the runs (each waited  *)
(* for on a thread of its own), and whoever is stopping the Tower          *)
(* (stopping.rs, updating.rs: another task, which decides from reads of    *)
(* the factory's state that nothing is happening any more).                *)
(*                                                                         *)
(* A flight is named by its chain and the edge it flies; a chain flies an  *)
(* edge at most once, which bounds the work.  The queue and what the       *)
(* coordinator has of it are sets: a pass looks at each waiting flight     *)
(* once, in any order, where the code goes oldest first.  One agent has an *)
(* "all" join; an "any" join never holds an arrival, so no drain waits for *)
(* one.                                                                    *)
(***************************************************************************)
EXTENDS Naturals, FiniteSets

CONSTANTS
  Chains,     \* itineraries
  Agents,
  Human,      \* the origin of a trigger
  Entry,      \* the agent a trigger is for
  Routes,     \* pairs of agents
  Joined,     \* the agent with the join
  Upstreams,  \* JoinSpec.upstreams
  MaxRuns,    \* defaults.max_concurrent_runs
  AgentCap,   \* max_concurrent, of every agent
  MaxUpdates, \* bound: how often an install is asked for
  MaxFaults   \* bound: how often the queue cannot be rewritten, or read

Flights ==
  [chain : Chains, from : {Human}, to : {Entry}]
    \cup UNION {[chain : Chains, from : {r[1]}, to : {r[2]}] : r \in Routes}

ASSUME DrainAssumption ==
  /\ Human \notin Agents
  /\ Entry \in Agents
  /\ Routes \subseteq Agents \X Agents
  /\ Joined \in Agents
  /\ Upstreams \subseteq {a \in Agents : <<a, Joined>> \in Routes}
  /\ Upstreams # {}
  /\ IsFiniteSet(Flights)
  /\ MaxRuns \in Nat \ {0}
  /\ AgentCap \in Nat \ {0}
  /\ MaxUpdates \in Nat
  /\ MaxFaults \in Nat

VARIABLES
  made,      \* every flight ever queued
  queue,     \* the journal's queue, on disk
  parked,    \* the flights each chain's rendezvous holds
  draining, cutting,   \* Factory.draining, Factory.cutting_off
  alive,     \* Factory.inflight
  launching, \* Factory.launching
  landed,    \* runs that ended, on their way back to the coordinator
  pc,        \* where the coordinator is
  waiting, taken,      \* Waiting.waiting, Waiting.taken
  looked,    \* start_what_fits: the waiting flights before its index
  cur,       \* the flights in hand: one between the queue and a run, or none
  flying,    \* the runs started and not yet heard from
  dry, stopping,       \* locals of coordinate
  stop,      \* Tower.stop
  ctl,       \* where whoever is stopping the Tower is
  asked,     \* "nothing", "stop" or "update"
  updates, faults

queueVars == <<made, queue>>
factoryVars == <<parked, draining, cutting, alive, launching, landed>>
loopVars == <<waiting, taken, looked, cur, flying, dry, stopping>>
ctlVars == <<ctl, asked, updates>>
vars == <<queueVars, factoryVars, loopVars, ctlVars, pc, stop, faults>>

Init ==
  /\ made = {} /\ queue = {}
  /\ parked = [c \in Chains |-> {}]
  /\ draining = FALSE /\ cutting = FALSE
  /\ alive = {} /\ launching = 0 /\ landed = {}
  /\ pc = "rest"
  /\ waiting = {} /\ taken = {} /\ looked = {}
  /\ cur = {} /\ flying = {}
  /\ dry = FALSE /\ stopping = FALSE
  /\ stop = FALSE
  /\ ctl = "serving" /\ asked = "nothing" /\ updates = 0
  /\ faults = 0

\* The process is there.
Up == ctl # "gone"

-----------------------------------------------------------------------------
(* The rendezvous.                                                         *)

\* Barrier::waiting_for
Missing(c) == Upstreams \ {f.from : f \in parked[c]}

\* Barriers::waiting, one chain of it
Holding(c) == parked[c] # {}

\* RouteGraph::reachable_from
ReachableFrom(S) ==
  {a \in Agents :
     \A T \in SUBSET Agents :
        (S \subseteq T /\ \A r \in Routes : r[1] \in T => r[2] \in T) => a \in T}

\* Barrier::is_reachable, for an "all" join
IsReachable(c, live) == Missing(c) \subseteq ReachableFrom(live)

\* Mutant: a flight to an upstream still missing is held like any other.
OnlyTheJoined(f) ==
  ~cutting /\ Holding(f.chain) /\ f.to = Joined

\* Factory::may_start_while_draining
MayStartWhileDraining(f) ==
  ~cutting /\ Holding(f.chain) /\ f.to \in Missing(f.chain) \cup {Joined}

\* A flight the barrier names; anybody else's goes straight through.
Meets(f) == f.to = Joined /\ f.from \in Upstreams

-----------------------------------------------------------------------------
(* The coordinator.                                                        *)

\* Factory::agent_is_full
AgentIsFull(a) == Cardinality({f \in alive : f.to = a}) >= AgentCap

\* Mutant: only the factory's own cap is looked at.
FitsAnyAgent(f) == draining => MayStartWhileDraining(f)

Fits(f) ==
  /\ draining => MayStartWhileDraining(f)
  /\ ~AgentIsFull(f.to)

\* Waiting::merge of journal.pending()
Merged == waiting \cup (queue \ taken)

\* A pass of the loop: whether to stop is read here, and once.
BeginPass ==
  /\ Up /\ pc = "top"
  /\ stopping' = stop
  /\ looked' = {}
  /\ pc' = IF stop THEN "after" ELSE "look"
  /\ UNCHANGED <<queueVars, factoryVars, waiting, taken, cur, flying, dry,
                 ctlVars, stop, faults>>

\* start_what_fits's loop looks at f next: there is a slot
AtFlight(f) == f \in waiting \ looked /\ Cardinality(alive) < MaxRuns

\* start_what_fits, a flight that has to wait: a full agent's, or held by the drain
SkipFlight(f) ==
  /\ Up /\ pc = "look" /\ AtFlight(f)
  /\ ~Fits(f)
  /\ looked' = looked \cup {f}
  /\ UNCHANGED <<queueVars, factoryVars, waiting, taken, cur, flying, dry,
                 stopping, ctlVars, pc, stop, faults>>

\* start_what_fits up to Waiting::take
TakeFlight(f) ==
  /\ Up /\ pc = "look" /\ AtFlight(f)
  /\ Fits(f)
  /\ cur' = {f}
  /\ taken' = taken \cup {f}
  /\ waiting' = waiting \ {f}
  /\ pc' = "taken"
  /\ UNCHANGED <<queueVars, factoryVars, looked, flying, dry, stopping, ctlVars,
                 stop, faults>>

\* The loop of start_what_fits is over: all were looked at, or the slots are taken.
EndPass ==
  /\ Up /\ pc = "look"
  /\ waiting \subseteq looked \/ Cardinality(alive) >= MaxRuns
  /\ pc' = "after"
  /\ UNCHANGED <<queueVars, factoryVars, loopVars, ctlVars, stop, faults>>

\* Launching::new
Count ==
  /\ Up /\ pc = "taken"
  /\ launching' = launching + 1
  /\ pc' = "counted"
  /\ UNCHANGED <<queueVars, parked, draining, cutting, alive, landed, loopVars,
                 ctlVars, stop, faults>>

\* The flight leaves the queue, unless it was cancelled a moment ago.
Unqueue ==
  /\ Up /\ pc = "counted"
  /\ queue' = queue \ cur
  /\ pc' = IF cur \subseteq queue THEN "unqueued" ELSE "counted off"
  /\ UNCHANGED <<made, factoryVars, loopVars, ctlVars, stop, faults>>

\* journal.unqueue fails: the flight stays queued and is not run.
UnqueueFails ==
  /\ Up /\ pc = "counted" /\ faults < MaxFaults
  /\ faults' = faults + 1
  /\ pc' = "counted off"
  /\ UNCHANGED <<queueVars, factoryVars, loopVars, ctlVars, stop>>

\* past_the_barrier: a flight no barrier names, or the one that releases it
PassBarrier(f) ==
  /\ Up /\ pc = "unqueued" /\ cur = {f}
  /\ IF Meets(f)
     THEN /\ Missing(f.chain) \subseteq {f.from}
          /\ parked' = [parked EXCEPT ![f.chain] = {}]
     ELSE parked' = parked
  /\ pc' = "admitting"
  /\ UNCHANGED <<queueVars, draining, cutting, alive, launching, landed,
                 loopVars, ctlVars, stop, faults>>

\* past_the_barrier: Delivery::Parked
ParkFlight(f) ==
  /\ Up /\ pc = "unqueued" /\ cur = {f}
  /\ Meets(f) /\ ~(Missing(f.chain) \subseteq {f.from})
  /\ parked' = [parked EXCEPT ![f.chain] = @ \cup {f}]
  /\ pc' = "counted off"
  /\ UNCHANGED <<queueVars, draining, cutting, alive, launching, landed,
                 loopVars, ctlVars, stop, faults>>

\* launch_queued: refused by a rail, or the process could not be started
RefuseFlight ==
  /\ Up /\ pc = "admitting"
  /\ pc' = "counted off"
  /\ UNCHANGED <<queueVars, factoryVars, loopVars, ctlVars, stop, faults>>

\* Mutant: a run nobody waits for.
LaunchUnheard ==
  /\ Up /\ pc = "admitting"
  /\ alive' = alive \cup cur
  /\ dry' = FALSE
  /\ pc' = "counted off"
  /\ UNCHANGED <<queueVars, parked, draining, cutting, launching, landed,
                 waiting, taken, looked, cur, flying, stopping, ctlVars, stop, faults>>

\* launch, hold, and the thread that waits for the run
LaunchFlight ==
  /\ Up /\ pc = "admitting"
  /\ alive' = alive \cup cur
  /\ flying' = flying \cup cur
  /\ dry' = FALSE
  /\ pc' = "counted off"
  /\ UNCHANGED <<queueVars, parked, draining, cutting, launching, landed,
                 waiting, taken, looked, cur, stopping, ctlVars, stop, faults>>

\* The end of start_what_fits's loop body: Launching's Drop
CountOff ==
  /\ Up /\ pc = "counted off"
  /\ launching' = launching - 1
  /\ cur' = {}
  /\ pc' = "look"
  /\ UNCHANGED <<queueVars, parked, draining, cutting, alive, landed, waiting,
                 taken, looked, flying, dry, stopping, ctlVars, stop, faults>>

\* Mutant: with nothing waiting it leaves, whatever is flying.
LeaveFlying ==
  /\ Up /\ pc = "after"
  /\ stopping \/ dry \/ waiting = {}
  /\ pc' = "leave"
  /\ UNCHANGED <<queueVars, factoryVars, loopVars, ctlVars, stop, faults>>

\* Nothing flying, and stopping or nothing more to start.
LeaveDispatch ==
  /\ Up /\ pc = "after" /\ flying = {}
  /\ stopping \/ dry
  /\ pc' = "leave"
  /\ UNCHANGED <<queueVars, factoryVars, loopVars, ctlVars, stop, faults>>

\* Nothing flying: more work is asked for, once.
AskForMore ==
  /\ Up /\ pc = "after" /\ flying = {}
  /\ ~stopping /\ ~dry
  /\ waiting' = Merged
  /\ dry' = (Merged # {})
  /\ pc' = IF Merged = {} THEN "leave" ELSE "top"
  /\ UNCHANGED <<queueVars, factoryVars, taken, looked, cur, flying, stopping,
                 ctlVars, stop, faults>>

\* Runs are flying: hear from those that landed, and ask for more.
Collect ==
  /\ Up /\ pc = "after" /\ flying # {}
  /\ flying' = flying \ landed
  /\ landed' = {}
  /\ waiting' = IF stopping THEN waiting ELSE Merged
  /\ pc' = "top"
  /\ UNCHANGED <<queueVars, parked, draining, cutting, alive, launching, taken,
                 looked, cur, dry, stopping, ctlVars, stop, faults>>

\* Who Barriers::abandon_unreachable is told could still deliver.
CouldDeliver == {f.to : f \in alive \cup waiting}

\* The end of coordinate: Barriers::abandon_unreachable
Abandon ==
  /\ Up /\ pc = "leave"
  /\ parked' = [c \in Chains |-> IF IsReachable(c, CouldDeliver) THEN parked[c] ELSE {}]
  /\ pc' = "rest"
  /\ UNCHANGED <<queueVars, draining, cutting, alive, launching, landed,
                 loopVars, ctlVars, stop, faults>>

\* run_loop: out when told to stop, otherwise a fresh dispatch of what is queued
NextDispatch ==
  /\ Up /\ pc = "rest"
  /\ IF stop
     THEN pc' = "exited" /\ UNCHANGED <<waiting, taken, dry>>
     ELSE /\ pc' = "top"
          /\ waiting' = queue
          /\ taken' = {}
          /\ dry' = FALSE
  /\ UNCHANGED <<queueVars, factoryVars, looked, cur, flying, stopping, ctlVars,
                 stop, faults>>

\* journal.pending fails, wherever the loop reads it, and counts as empty.
UnreadQueue ==
  /\ Up /\ faults < MaxFaults
  /\ faults' = faults + 1
  /\ \/ /\ pc = "after" /\ flying = {} /\ ~stopping /\ ~dry
        /\ dry' = (waiting # {})
        /\ pc' = IF waiting = {} THEN "leave" ELSE "top"
        /\ UNCHANGED <<waiting, taken, flying, landed>>
     \/ /\ pc = "after" /\ flying # {} /\ ~stopping
        /\ flying' = flying \ landed
        /\ landed' = {}
        /\ pc' = "top"
        /\ UNCHANGED <<waiting, taken, dry>>
     \/ /\ pc = "rest" /\ ~stop
        /\ waiting' = {} /\ taken' = {}
        /\ dry' = FALSE
        /\ pc' = "top"
        /\ UNCHANGED <<flying, landed>>
  /\ UNCHANGED <<queueVars, parked, draining, cutting, alive, launching, looked,
                 cur, stopping, ctlVars, stop>>

-----------------------------------------------------------------------------
(* The runs, and the people who queue and cancel.                          *)

QueueFlight(f) ==
  /\ f \notin made
  /\ made' = made \cup {f}
  /\ queue' = queue \cup {f}
  /\ UNCHANGED <<factoryVars, loopVars, ctlVars, pc, stop, faults>>

\* A person triggers a workflow, from this process or another.
Trigger(f) == f.from = Human /\ QueueFlight(f)

\* A live run sends along one of its agent's routes.
SendFlight(r, f) ==
  /\ Up /\ r \in alive
  /\ f.from = r.to /\ f.chain = r.chain
  /\ QueueFlight(f)

\* Factory::finish: a run ends, or is killed, and is no longer held.
LandRun(r) ==
  /\ Up /\ r \in alive
  /\ alive' = alive \ {r}
  /\ landed' = landed \cup {r}
  /\ UNCHANGED <<queueVars, parked, draining, cutting, launching, loopVars,
                 ctlVars, pc, stop, faults>>

\* Somebody cancels a queued flight.
CancelFlight(f) ==
  /\ f \in queue
  /\ queue' = queue \ {f}
  /\ UNCHANGED <<made, factoryVars, loopVars, ctlVars, pc, stop, faults>>

-----------------------------------------------------------------------------
(* Whoever is stopping the Tower.                                          *)

\* until_stopped: asked to stop; stopping starts the drain
AskStop ==
  /\ ctl = "serving"
  /\ asked' = "stop" /\ ctl' = "alive" /\ draining' = TRUE
  /\ UNCHANGED <<queueVars, parked, cutting, alive, launching, landed, loopVars,
                 updates, pc, stop, faults>>

\* until_stopped: asked to install a release; drain_for starts the drain
AskUpdate ==
  /\ ctl = "serving" /\ updates < MaxUpdates
  /\ updates' = updates + 1
  /\ asked' = "update" /\ ctl' = "alive" /\ draining' = TRUE
  /\ UNCHANGED <<queueVars, parked, cutting, alive, launching, landed, loopVars,
                 pc, stop, faults>>

\* drain_for: a request to stop takes over from the install
StopInstead ==
  /\ ctl = "alive" /\ asked = "update"
  /\ asked' = "stop"
  /\ UNCHANGED <<queueVars, factoryVars, loopVars, ctl, updates, pc, stop, faults>>

\* is_quiescent is three reads: the runs alive ...
ReadAlive ==
  /\ ctl = "alive" /\ alive = {}
  /\ ctl' = "launching"
  /\ UNCHANGED <<queueVars, factoryVars, loopVars, asked, updates, pc, stop, faults>>

\* ... the flights being launched ...
ReadLaunching ==
  /\ ctl = "launching"
  /\ ctl' = IF launching = 0 THEN "parked" ELSE "alive"
  /\ UNCHANGED <<queueVars, factoryVars, loopVars, asked, updates, pc, stop, faults>>

\* ... and the rendezvous that hold an arrival.
ReadParked ==
  /\ ctl = "parked"
  /\ ctl' = IF \E c \in Chains : Holding(c) THEN "alive" ELSE "quiet"
  /\ UNCHANGED <<queueVars, factoryVars, loopVars, asked, updates, pc, stop, faults>>

\* Mutant: the install is given up and the factory left draining.
PostponeStillDraining ==
  /\ ctl = "alive" /\ asked = "update"
  /\ ctl' = "serving" /\ asked' = "nothing"
  /\ UNCHANGED <<queueVars, factoryVars, loopVars, updates, pc, stop, faults>>

\* drain_for: the window closed, or the install was cancelled: stop_draining
Postpone ==
  /\ ctl = "alive" /\ asked = "update"
  /\ ctl' = "serving" /\ asked' = "nothing"
  /\ draining' = FALSE /\ cutting' = FALSE
  /\ UNCHANGED <<queueVars, parked, alive, launching, landed, loopVars, updates,
                 pc, stop, faults>>

\* hand_over fails and is undone: resume
ResumeServing ==
  /\ ctl = "quiet" /\ asked = "update"
  /\ ctl' = "serving" /\ asked' = "nothing"
  /\ draining' = FALSE /\ cutting' = FALSE
  /\ UNCHANGED <<queueVars, parked, alive, launching, landed, loopVars, updates,
                 pc, stop, faults>>

\* hand_over succeeds: the process exits
HandOver ==
  /\ ctl = "quiet" /\ asked = "update"
  /\ ctl' = "gone"
  /\ UNCHANGED <<queueVars, factoryVars, loopVars, asked, updates, pc, stop, faults>>

\* Stopped::Drained: the Tower is dropped, which tells its thread to stop ...
DropTower ==
  /\ ctl = "quiet" /\ asked = "stop"
  /\ ctl' = "joining" /\ stop' = TRUE
  /\ UNCHANGED <<queueVars, factoryVars, loopVars, asked, updates, pc, faults>>

\* ... and waits for it.
JoinTower ==
  /\ ctl = "joining" /\ pc = "exited"
  /\ ctl' = "gone"
  /\ UNCHANGED <<queueVars, factoryVars, loopVars, asked, updates, pc, stop, faults>>

\* A second Ctrl+C, or stop --now: Factory::cut_off
CutOff ==
  /\ ctl = "alive" /\ asked = "stop"
  /\ ctl' = "cutting"
  /\ draining' = TRUE /\ cutting' = TRUE
  /\ UNCHANGED <<queueVars, parked, alive, launching, landed, loopVars, asked,
                 updates, pc, stop, faults>>

\* stopping::cut_off: idle, or thirty seconds on, the process exits regardless
ExitCut ==
  /\ ctl = "cutting"
  /\ ctl' = "gone"
  /\ UNCHANGED <<queueVars, factoryVars, loopVars, asked, updates, pc, stop, faults>>

-----------------------------------------------------------------------------
Dispatcher ==
  \/ BeginPass \/ EndPass
  \/ \E f \in waiting : SkipFlight(f) \/ TakeFlight(f)
  \/ Count \/ Unqueue \/ UnqueueFails
  \/ \E f \in cur : PassBarrier(f) \/ ParkFlight(f)
  \/ RefuseFlight \/ LaunchFlight \/ CountOff
  \/ LeaveDispatch \/ AskForMore \/ Collect \/ Abandon \/ NextDispatch
  \/ UnreadQueue

Runs == \E r \in alive : LandRun(r) \/ \E f \in Flights : SendFlight(r, f)

People == \E f \in Flights : Trigger(f) \/ CancelFlight(f)

Looking == ReadAlive \/ ReadLaunching \/ ReadParked

Settling == ResumeServing \/ HandOver \/ DropTower \/ JoinTower \/ ExitCut

Stopping ==
  AskStop \/ AskUpdate \/ StopInstead \/ Looking \/ Postpone \/ CutOff \/ Settling

Next == Dispatcher \/ Runs \/ People \/ Stopping

Spec == Init /\ [][Next]_vars

(* The coordinator's thread and whoever is stopping the Tower keep going,  *)
(* and every run ends: it is killed at timeout_sec if it does not by       *)
(* itself.  An install that is not ready by its deadline is postponed; the *)
(* deadline is looked at once in every turn of drain_for's loop, hence the *)
(* strong fairness.  Nobody has to send, trigger, cancel or ask anything.  *)
Fairness ==
  /\ WF_vars(Dispatcher)
  /\ \A r \in Flights : WF_vars(LandRun(r))
  /\ WF_vars(Looking) /\ WF_vars(Settling)
  /\ SF_vars(Postpone)

LiveSpec == Spec /\ Fairness

-----------------------------------------------------------------------------
(* Properties.                                                             *)

Places == {"rest", "top", "look", "taken", "counted", "unqueued", "admitting",
           "counted off", "after", "leave", "exited"}

Turns == {"serving", "alive", "launching", "parked", "quiet", "joining",
          "cutting", "gone"}

\* Every variable stays in its type.
TypeOK ==
  /\ made \subseteq Flights
  /\ queue \subseteq Flights /\ waiting \subseteq Flights
  /\ parked \in [Chains -> SUBSET Flights]
  /\ draining \in BOOLEAN /\ cutting \in BOOLEAN
  /\ alive \subseteq Flights /\ landed \subseteq Flights
  /\ flying \subseteq Flights /\ taken \subseteq Flights
  /\ cur \subseteq Flights
  /\ launching \in 0..1
  /\ pc \in Places /\ ctl \in Turns
  /\ looked \subseteq Flights
  /\ dry \in BOOLEAN /\ stopping \in BOOLEAN /\ stop \in BOOLEAN
  /\ asked \in {"nothing", "stop", "update"}
  /\ updates \in 0..MaxUpdates /\ faults \in 0..MaxFaults

\* However passes, landings and triggers interleave, no more runs are alive at
\* once than max_concurrent_runs allows, nor more of an agent than its own cap:
\* the caps are read when a flight is taken, several steps before its run is
\* held.
WithinLimits ==
  /\ Cardinality(alive) <= MaxRuns
  /\ \A a \in Agents : Cardinality({f \in alive : f.to = a}) <= AgentCap

\* Tower's Drop joins the thread so that no run is left behind: once the
\* coordinator is out, nothing it started is in flight or in hand, whatever
\* the race between the drain and the last launch.
NoRunOutlivesTheTower == pc = "exited" => alive = {} /\ cur = {}

\* A flight that would complete a rendezvous of c, or start work that leads there.
QueuedFor(c) ==
  \E f \in queue : f.chain = c /\ f.to \in Missing(c) \cup {Joined}

Abandons(c) == pc = "leave" /\ parked[c] # {} /\ parked'[c] = {}

\* A rendezvous is not given up, and a stall not recorded, while work of its own
\* chain that it waits for is still in the queue: what runs sent before they
\* landed has been asked for before the dispatcher leaves, and a drain starts
\* what completes it.  A Tower told to exit gives up whatever it holds.  A drain
\* called off in the middle of a pass, a flight that could not be taken off the
\* queue, and a queue that could not be read are the exceptions:
\* DrainProofs!Undone.
OnlyDeadAreAbandoned ==
  [][\A c \in Chains : Abandons(c) => stopping \/ cutting \/ ~QueuedFor(c)]_vars

\* A drain ends by itself: "the factory is left to go quiet by itself"
\* (drain.rs:8), with the work that completes a parked rendezvous started.
DrainEnds == (asked = "stop") ~> (ctl = "gone")

\* Queued work starts, or is cancelled, unless the Tower is stopped for good: a
\* full agent, a full factory and an install that was postponed only delay it.
QueuedStarts ==
  \A f \in Flights : f \in queue ~> (f \notin queue \/ asked = "stop" \/ ~Up)

\* When the factory is found quiet nothing is running, nothing is between the
\* queue and a run, and no rendezvous holds an arrival (drain.rs:20-24).
QuietIsQuiet ==
  ctl = "quiet" => alive = {} /\ launching = 0 /\ \A c \in Chains : ~Holding(c)

=============================================================================
