----------------------------- MODULE Lifecycle -----------------------------
(***************************************************************************)
(* One flight, from the queue on disk to its place in history: what         *)
(* layover-tower's dispatcher, its workers and its recovery write down, in  *)
(* the order they write it, with the Tower going away between any two of    *)
(* the steps while the agent's process may live on.                         *)
(*                                                                         *)
(* Flights are numbered in the order they are made.  A flight is run at     *)
(* most once -- that is one of the properties -- so its run goes by the     *)
(* same number: `stage[f]` is how far this Tower, or the one settling what   *)
(* its predecessor left, has taken it, `proc[f]` its process, `history[f]`  *)
(* the outcomes on record for it.  `queue`, `live`, `history` and           *)
(* `groundStop` are files and survive; `cutting`, `pass`, `left`, `restart` *)
(* and the stages are the Tower's memory.  The slots and the rails are the  *)
(* modules Drain and Rails.                                                 *)
(*                                                                         *)
(* Writing down is best effort: an append to history, a live mark, a        *)
(* restart put on the queue may fail, and the live records may be           *)
(* unreadable, and the Tower goes on.  `faults` says of which runs.         *)
(***************************************************************************)
EXTENDS Naturals, Sequences, FiniteSets

CONSTANTS
  Works,            \* pieces of work somebody asks for, each once
  Manual, Never,    \* the works whose agent's `recovery` is not automatic
  MaxAttempts,      \* defaults.max_recovery_attempts
  MaxFlights,       \* bound: flights made
  MaxStops,         \* bound: how often a Tower crashes or is cut off
  MaxGrounds,       \* bound: how often a Ground Stop is engaged
  MaxFaults,        \* bound: runs some write or reading of which fails
  Stubborn          \* whether a live record may resist being removed

ASSUME LifecycleAssumption ==
  /\ Manual \subseteq Works /\ Never \subseteq Works
  /\ MaxAttempts \in Nat /\ MaxFlights \in Nat
  /\ MaxStops \in Nat /\ MaxGrounds \in Nat /\ MaxFaults \in Nat
  /\ Stubborn \in BOOLEAN

VARIABLES
  flights,     \* every flight made: its work, its attempt, the run it restarts
  queue,       \* the journal's queue
  live,        \* the live records
  owned,       \* those among them that name the Tower there is as their owner
  history,     \* the outcomes on record for each run
  groundStop,  \* the Ground Stop file
  proc,        \* each run's process, and how it ended
  starts,      \* how many processes were started for each flight
  tower,       \* whether a Tower is there, and whether it is settling
  cutting,     \* Factory.cutting_off
  pass,        \* what the dispatcher's pass under way still has to look at
  stage,       \* how far each flight's run is
  restart,     \* the runs being settled that are to be started again
  left,        \* live records still to be settled
  stops, grounds,
  faults       \* what failed, and of which run: history for the properties

disk == <<queue, live, owned, history, groundStop>>
memory == <<tower, cutting, pass, stage, restart, left>>
bounds == <<stops, grounds>>
vars == <<flights, queue, live, history, groundStop, proc, starts, tower,
          cutting, pass, stage, restart, left, stops, grounds, owned, faults>>

Ids == 1..MaxFlights
Made == 1..Len(flights)

\* What may fail unnoticed: the live mark, the append to history, the restart's
\* way to the queue, the reading of a live record.
Failures == {"mark", "append", "restart", "look"}

Outcomes == {"succeeded", "failed", "halted", "interrupted"}
Ended == {"succeeded", "failed", "provider", "halted", "killed"}

\* The dispatcher holds one flight at a time between the queue and a run.
Launching == {"taken", "admitted", "spawned", "marked"}
\* Factory.inflight: from `hold` to `forget`.
InFlight == {"held", "ended", "recorded", "unmarked", "requeued"}
\* A run being settled by a Tower that did not see it finish.
Settling == {"found", "noted", "cleared"}

Stages == Launching \cup InFlight \cup Settling
            \cup {"idle", "cancelled", "orphan", "over"}

NobodyLaunching == \A f \in Made : stage[f] \notin Launching
NobodySettling  == \A f \in Made : stage[f] \notin Settling
\* Factory::is_idle
Idle == \A f \in Made : stage[f] \notin Launching \cup InFlight

\* It fails for these runs, and nothing is the wiser.
Loses(runs, what) ==
  /\ Cardinality(faults) < MaxFaults
  /\ faults' = faults \cup (runs \X {what})

NewFlight(w, attempt, of) ==
  /\ Len(flights) < MaxFlights
  /\ flights' = Append(flights, [work |-> w, attempt |-> attempt, of |-> of])
  /\ queue' = queue \cup {Len(flights) + 1}

Init ==
  /\ flights = <<>> /\ queue = {} /\ live = {} /\ owned = {}
  /\ history = [f \in Ids |-> {}]
  /\ groundStop = FALSE
  /\ proc = [f \in Ids |-> "none"]
  /\ starts = [f \in Ids |-> 0]
  /\ tower = "down" /\ cutting = FALSE /\ pass = {} /\ left = {}
  /\ stage = [f \in Ids |-> "idle"]
  /\ restart = {}
  /\ stops = 0 /\ grounds = 0 /\ faults = {}

-----------------------------------------------------------------------------
(* People and programs around the Tower.                                   *)

\* A person, a schedule or an agent's run asks for a work: Journal::queue.
Ask(w) ==
  /\ \A f \in Made : flights[f].work # w
  /\ NewFlight(w, 1, 0)
  /\ UNCHANGED <<live, owned, history, groundStop, proc, starts, memory, bounds,
                 faults>>

\* Somebody cancels what is still queued: Journal::unqueue said it was there.
Cancel(f) ==
  /\ f \in queue
  /\ queue' = queue \ {f}
  /\ stage' = [stage EXCEPT ![f] = "cancelled"]
  /\ UNCHANGED <<flights, live, owned, history, groundStop, proc, starts,
                 tower, cutting, pass, restart, left, bounds, faults>>

Engage ==
  /\ ~groundStop /\ grounds < MaxGrounds
  /\ groundStop' = TRUE /\ grounds' = grounds + 1
  /\ UNCHANGED <<flights, queue, live, owned, history, proc, starts, memory,
                 stops, faults>>

Release ==
  /\ groundStop
  /\ groundStop' = FALSE
  /\ UNCHANGED <<flights, queue, live, owned, history, proc, starts, memory,
                 bounds, faults>>

\* A process ends by itself, watched or not: its work done, its work failed,
\* or its last call to the model service rejected.
ProcessEnds(f, how) ==
  /\ proc[f] = "running"
  /\ proc' = [proc EXCEPT ![f] = how]
  /\ UNCHANGED <<flights, disk, starts, memory, bounds, faults>>

-----------------------------------------------------------------------------
(* The dispatcher: from the queue to a run.                                *)

\* Factory::coordinate: the Ground Stop is read once, at the top of a pass;
\* what `refill` read from the journal is what the pass looks at.
Look ==
  /\ tower = "up" /\ ~cutting /\ ~groundStop
  /\ pass = {} /\ NobodyLaunching /\ queue # {}
  /\ pass' = queue
  /\ UNCHANGED <<flights, disk, proc, starts, tower, cutting, stage, restart,
                 left, bounds, faults>>

\* Mutant: whether the flight was still queued goes unasked.
TakeUnasked(f) ==
  /\ f \in pass /\ NobodyLaunching
  /\ pass' = pass \ {f}
  /\ queue' = queue \ {f}
  /\ stage' = [stage EXCEPT ![f] = "taken"]
  /\ UNCHANGED <<flights, live, owned, history, groundStop, proc, starts,
                 tower, cutting, restart, left, bounds, faults>>

\* Factory::start_what_fits, one flight: off the queue before anything else;
\* left where it is while the Tower cuts off, dropped if it was cancelled.
Take(f) ==
  /\ f \in pass /\ NobodyLaunching
  /\ pass' = pass \ {f}
  /\ IF f \in queue /\ ~cutting
     THEN /\ queue' = queue \ {f}
          /\ stage' = [stage EXCEPT ![f] = "taken"]
     ELSE UNCHANGED <<queue, stage>>
  /\ UNCHANGED <<flights, live, owned, history, groundStop, proc, starts,
                 tower, cutting, restart, left, bounds, faults>>

\* Factory::admit, the Ground Stop read again: a refusal is reported, and the
\* flight is not put back.
Admit(f) ==
  /\ stage[f] = "taken"
  /\ stage' = [stage EXCEPT ![f] = IF groundStop THEN "over" ELSE "admitted"]
  /\ UNCHANGED <<flights, disk, proc, starts, tower, cutting, pass, restart,
                 left, bounds, faults>>

\* Factory::launch: the plan cannot be made, and nothing is written; or the
\* process cannot be started, and a failed run is; or there is a process.
PlanFails(f) ==
  /\ stage[f] = "admitted"
  /\ stage' = [stage EXCEPT ![f] = "over"]
  /\ UNCHANGED <<flights, disk, proc, starts, tower, cutting, pass, restart,
                 left, bounds, faults>>

\* Factory::record: best effort, and nobody asks whether the append succeeded.
AppendsRecord(f, outcome) ==
  \/ history' = [history EXCEPT ![f] = @ \cup {outcome}] /\ UNCHANGED faults
  \/ Loses({f}, "append") /\ UNCHANGED history

SpawnFails(f) ==
  /\ stage[f] = "admitted"
  /\ stage' = [stage EXCEPT ![f] = "over"]
  /\ AppendsRecord(f, "failed")
  /\ UNCHANGED <<flights, queue, live, owned, groundStop, proc, starts,
                 tower, cutting, pass, restart, left, bounds>>

Spawn(f) ==
  /\ stage[f] = "admitted"
  /\ proc' = [proc EXCEPT ![f] = "running"]
  /\ starts' = [starts EXCEPT ![f] = @ + 1]
  /\ stage' = [stage EXCEPT ![f] = "spawned"]
  /\ UNCHANGED <<flights, disk, tower, cutting, pass, restart, left, bounds,
                 faults>>

\* Ledger::starting, whose failure is ignored, and then Factory::hold.
Mark(f) ==
  /\ stage[f] = "spawned"
  /\ \/ /\ live' = live \cup {f} /\ owned' = owned \cup {f}
        /\ UNCHANGED faults
     \/ Loses({f}, "mark") /\ UNCHANGED <<live, owned>>
  /\ stage' = [stage EXCEPT ![f] = "marked"]
  /\ UNCHANGED <<flights, queue, history, groundStop, proc, starts, tower,
                 cutting, pass, restart, left, bounds>>

Hold(f) ==
  /\ stage[f] = "marked"
  /\ stage' = [stage EXCEPT ![f] = "held"]
  /\ UNCHANGED <<flights, disk, proc, starts, tower, cutting, pass, restart,
                 left, bounds, faults>>

-----------------------------------------------------------------------------
(* A worker: from a run to its record.                                     *)

\* wait_for: the process is seen to have ended, killed first when a Ground
\* Stop is engaged or the Tower cuts off.
Notice(f) ==
  /\ stage[f] = "held" /\ proc[f] \in Ended
  /\ stage' = [stage EXCEPT ![f] = "ended"]
  /\ UNCHANGED <<flights, disk, proc, starts, tower, cutting, pass, restart,
                 left, bounds, faults>>

Halt(f) ==
  /\ stage[f] = "held" /\ proc[f] = "running"
  /\ groundStop \/ cutting
  /\ proc' = [proc EXCEPT ![f] = "halted"]
  /\ stage' = [stage EXCEPT ![f] = "ended"]
  /\ UNCHANGED <<flights, disk, starts, tower, cutting, pass, restart, left,
                 bounds, faults>>

\* Ledger::finished, whose failure is ignored as well.
Unlists(f) ==
  /\ live' \in IF Stubborn THEN {live, live \ {f}} ELSE {live \ {f}}
  /\ owned' = owned \cap live'

\* wait_for cannot say what became of the process, which may live on: the run
\* is let go of, its live record with it, and nothing is written down.
WaitFails(f) ==
  /\ stage[f] = "held"
  /\ Unlists(f)
  /\ stage' = [stage EXCEPT ![f] = "orphan"]
  /\ UNCHANGED <<flights, queue, history, groundStop, proc, starts,
                 tower, cutting, pass, restart, left, bounds, faults>>

\* outcome_of
OutcomeOf(f) ==
  IF proc[f] \in {"succeeded", "halted"} THEN proc[f] ELSE "failed"

\* authorize_recovery, for an interruption whose process is gone.
Authorize(f, didNothing) ==
  /\ flights[f].work \notin Never
  /\ flights[f].work \in Manual => didNothing
  /\ flights[f].attempt <= MaxAttempts

\* The run was cut off and no Ground Stop is engaged: nothing is written, and
\* the live record stays for whoever settles it.
LeaveToTheNextTower(f) ==
  /\ stage[f] = "ended" /\ proc[f] = "halted"
  /\ cutting /\ ~groundStop
  /\ stage' = [stage EXCEPT ![f] = "over"]
  /\ UNCHANGED <<flights, disk, proc, starts, tower, cutting, pass, restart,
                 left, bounds, faults>>

\* Factory::settle up to the record, appended or not.  Only a run the model service ended is
\* started again, and only outside a Ground Stop; `didNothing` is what its
\* events say of the tools it started.
Record(f, didNothing) ==
  /\ stage[f] = "ended"
  /\ ~(proc[f] = "halted" /\ cutting /\ ~groundStop)
  /\ restart' = restart \cup
        {g \in {f} : proc[f] = "provider" /\ ~groundStop /\ Authorize(f, didNothing)}
  /\ AppendsRecord(f, OutcomeOf(f))
  /\ stage' = [stage EXCEPT ![f] = "recorded"]
  /\ UNCHANGED <<flights, queue, live, owned, groundStop, proc, starts,
                 tower, cutting, pass, left, bounds>>

\* Ledger::finished
Unmark(f) ==
  /\ stage[f] = "recorded"
  /\ Unlists(f)
  /\ stage' = [stage EXCEPT ![f] = "unmarked"]
  /\ UNCHANGED <<flights, queue, history, groundStop, proc, starts,
                 tower, cutting, pass, restart, left, bounds, faults>>

\* Factory::queue_restart: a new flight for the same work, one attempt on, or
\* none when it cannot be queued.
Requeue(f, next) ==
  /\ \/ /\ f \in restart
        /\ NewFlight(flights[f].work, flights[f].attempt + 1, f)
        /\ UNCHANGED faults
     \/ f \in restart /\ Loses({f}, "restart") /\ UNCHANGED <<flights, queue>>
     \/ f \notin restart /\ UNCHANGED <<flights, queue, faults>>
  /\ stage' = [stage EXCEPT ![f] = next]
  /\ restart' = restart \ {f}

QueueRestart(f) ==
  /\ stage[f] = "unmarked"
  /\ Requeue(f, "requeued")
  /\ UNCHANGED <<live, owned, history, groundStop, proc, starts, tower,
                 cutting, pass, left, bounds>>

\* Factory::forget
Forget(f) ==
  /\ stage[f] = "requeued"
  /\ stage' = [stage EXCEPT ![f] = "over"]
  /\ UNCHANGED <<flights, disk, proc, starts, tower, cutting, pass, restart,
                 left, bounds, faults>>

-----------------------------------------------------------------------------
(* A Tower going away, and the next one settling what it left.              *)

\* What is lost with the Tower's memory.  A process started and not yet
\* marked is an orphan: nothing on disk says it exists.  So is one the Tower
\* could not wait for.
Lost(f) ==
  CASE stage[f] = "spawned" -> "orphan"
    [] stage[f] \in {"idle", "cancelled", "orphan"} -> stage[f]
    [] OTHER -> "over"

Goes ==
  /\ tower' = "down" /\ cutting' = FALSE /\ pass' = {} /\ left' = {}
  /\ stage' = [f \in Ids |-> Lost(f)]
  /\ restart' = {} /\ owned' = {}
  /\ UNCHANGED <<flights, queue, live, history, groundStop, proc, starts,
                 grounds, faults>>

\* Ledger::live: the records there are of `runs`; none when the directory
\* cannot be read, and none of those that cannot be read themselves.
Finds(runs) ==
  \/ left' = runs /\ UNCHANGED faults
  \/ \E unread \in SUBSET runs \ {{}} :
        left' = runs \ unread /\ Loses(unread, "look")

\* A crash, anywhere.
Crash == tower # "down" /\ stops < MaxStops /\ stops' = stops + 1 /\ Goes

\* Factory::cut_off: a person or an update will not wait.
CutOff ==
  /\ tower = "up" /\ ~cutting
  /\ stops < MaxStops /\ stops' = stops + 1
  /\ cutting' = TRUE
  /\ UNCHANGED <<flights, disk, proc, starts, tower, pass, stage, restart,
                 left, grounds, faults>>

\* The Tower exits once nothing it cut off is alive ...
CutOffExit ==
  tower = "up" /\ cutting /\ pass = {} /\ Idle /\ Goes /\ UNCHANGED stops

\* ... or, the install it made room for having failed, settles its own:
\* Factory::settle_cut_off.
SettleCutOff ==
  /\ tower = "up" /\ cutting /\ pass = {} /\ Idle
  /\ tower' = "resettling" /\ Finds(live \cap owned)
  /\ UNCHANGED <<flights, disk, proc, starts, cutting, pass, stage, restart,
                 bounds>>

\* Mutant: the next Tower starts as if nothing had been left.
ReconcileNothing ==
  /\ tower = "down"
  /\ tower' = "settling" /\ left' = {}
  /\ UNCHANGED <<flights, disk, proc, starts, cutting, pass, stage, restart,
                 bounds, faults>>

\* Tower::start_at, Factory::reconcile: whatever the last Tower left.
Reconcile ==
  /\ tower = "down"
  /\ tower' = "settling" /\ Finds(live)
  /\ UNCHANGED <<flights, disk, proc, starts, cutting, pass, stage, restart,
                 bounds>>

\* Mutant: a process nobody could account for counts as gone.
FoundAnyhow(f, gone) ==
  /\ f \in left /\ NobodySettling
  /\ proc' = [proc EXCEPT ![f] =
        IF gone /\ @ = "running" THEN "killed" ELSE @]
  /\ restart' = restart \cup {g \in {f} : ~groundStop /\ Authorize(f, FALSE)}
  /\ stage' = [stage EXCEPT ![f] = "found"]
  /\ UNCHANGED <<flights, disk, starts, tower, cutting, pass, left, bounds,
                 faults>>

\* Factory::settle_left_behind: make_sure_gone, which kills a process still
\* running and may not be able to say it is gone, then restart_for.
Found(f, gone) ==
  /\ f \in left /\ NobodySettling
  /\ proc' = [proc EXCEPT ![f] =
        IF gone /\ @ = "running" THEN "killed" ELSE @]
  /\ restart' = restart \cup
        {g \in {f} : gone /\ ~groundStop /\ Authorize(f, FALSE)}
  /\ stage' = [stage EXCEPT ![f] = "found"]
  /\ UNCHANGED <<flights, disk, starts, tower, cutting, pass, left, bounds,
                 faults>>

Note(f) ==
  /\ stage[f] = "found"
  /\ AppendsRecord(f, "interrupted")
  /\ stage' = [stage EXCEPT ![f] = "noted"]
  /\ UNCHANGED <<flights, queue, live, owned, groundStop, proc, starts,
                 tower, cutting, pass, restart, left, bounds>>

\* Mutant: the live record goes before history has the run.
ClearFirst(f) ==
  /\ stage[f] = "found"
  /\ Unlists(f)
  /\ stage' = [stage EXCEPT ![f] = "noted"]
  /\ UNCHANGED <<flights, queue, history, groundStop, proc, starts,
                 tower, cutting, pass, restart, left, bounds, faults>>

Clear(f) ==
  /\ stage[f] = "noted"
  /\ Unlists(f)
  /\ stage' = [stage EXCEPT ![f] = "cleared"]
  /\ UNCHANGED <<flights, queue, history, groundStop, proc, starts,
                 tower, cutting, pass, restart, left, bounds, faults>>

RequeueLeft(f) ==
  /\ stage[f] = "cleared"
  /\ Requeue(f, "over")
  /\ left' = left \ {f}
  /\ UNCHANGED <<live, owned, history, groundStop, proc, starts, tower,
                 cutting, pass, bounds>>

\* Everything left is settled: Factory::stop_draining for a failed install.
Settled ==
  /\ tower \in {"settling", "resettling"} /\ left = {}
  /\ tower' = "up" /\ cutting' = FALSE
  /\ UNCHANGED <<flights, disk, proc, starts, pass, stage, restart, left,
                 bounds, faults>>

-----------------------------------------------------------------------------
Launch(f) ==
  Admit(f) \/ PlanFails(f) \/ SpawnFails(f) \/ Spawn(f) \/ Mark(f) \/ Hold(f)

Work(f) ==
  \/ Notice(f) \/ Halt(f) \/ LeaveToTheNextTower(f)
  \/ \E didNothing \in BOOLEAN : Record(f, didNothing)
  \/ Unmark(f) \/ QueueRestart(f) \/ Forget(f)

Settle(f) ==
  \/ \E gone \in BOOLEAN : Found(f, gone)
  \/ Note(f) \/ Clear(f) \/ RequeueLeft(f)

Next ==
  \/ \E w \in Works : Ask(w)
  \/ \E f \in Made : Cancel(f)
  \/ Engage \/ Release
  \/ \E f \in Made : \E how \in {"succeeded", "failed", "provider"} :
        ProcessEnds(f, how)
  \/ Look
  \/ \E f \in Made : Take(f) \/ Launch(f) \/ Work(f) \/ WaitFails(f) \/ Settle(f)
  \/ Crash \/ CutOff \/ CutOffExit \/ SettleCutOff \/ Reconcile \/ Settled

Spec == Init /\ [][Next]_vars

\* The Tower's threads run; a run ends, by its timeout if not by itself; a
\* cut-off ends in an exit or a resumption; somebody starts the next Tower.
Fairness ==
  /\ \A f \in Ids :
        WF_vars(f \in Made /\ (Take(f) \/ Launch(f) \/ Work(f) \/ Settle(f)))
  /\ \A f \in Ids : WF_vars(stage[f] = "held" /\ ProcessEnds(f, "failed"))
  /\ WF_vars(Look) /\ WF_vars(CutOffExit \/ SettleCutOff)
  /\ WF_vars(Reconcile) /\ WF_vars(Settled)

FairSpec == Spec /\ Fairness

-----------------------------------------------------------------------------
(* What makes it correct.                                                  *)

\* Every variable keeps its type.
TypeOK ==
  /\ flights \in Seq([work : Works, attempt : Nat, of : Nat])
  /\ Len(flights) <= MaxFlights
  /\ queue \subseteq Made /\ live \subseteq Made
  /\ pass \subseteq Made /\ left \subseteq Made
  /\ history \in [Ids -> SUBSET Outcomes]
  /\ groundStop \in BOOLEAN /\ cutting \in BOOLEAN
  /\ proc \in [Ids -> Ended \cup {"none", "running"}]
  /\ starts \in [Ids -> Nat]
  /\ tower \in {"down", "settling", "up", "resettling"}
  /\ stage \in [Ids -> Stages]
  /\ restart \subseteq Made
  /\ stops \in Nat /\ grounds \in Nat
  /\ owned \subseteq Made /\ faults \subseteq Ids \X Failures

\* dispatcher.rs: "A flight that crashes the factory mid-run must not come
\* back on restart and run again".  One process per flight, whatever crashes.
FlightRunsOnce == \A f \in Ids : starts[f] <= 1

\* recovery.rs: "a second run beside a first that never stopped does the work
\* twice".  No two processes alive at once for one piece of work.
NoRunBesideAnother ==
  \A f, g \in Made :
     proc[f] = "running" /\ proc[g] = "running"
        /\ flights[f].work = flights[g].work => f = g

\* recovery.rs, "Order": a crash loses a restart rather than queueing it
\* twice.  The flights of a work are its attempts 1, 2, ... one each, and
\* there are at most max_recovery_attempts restarts.
OneFlightPerAttempt ==
  /\ \A f, g \in Made :
        flights[f].work = flights[g].work
           /\ flights[f].attempt = flights[g].attempt => f = g
  /\ \A f \in Made : flights[f].attempt <= MaxAttempts + 1

\* factory.rs: the live mark "comes off last".  From the moment it is marked a
\* run is on the list of live ones or in history, whatever became of other
\* runs.  Out of both are a run that could not be waited for and one whose own
\* mark or own append failed.
MarkedIsAccountedFor ==
  \A f \in Made :
     starts[f] > 0 /\ stage[f] \notin {"spawned", "orphan"}
        => f \in live \/ history[f] # {}
             \/ <<f, "mark">> \in faults \/ <<f, "append">> \in faults

\* A cancellation that found the flight queued is final.
CancelledStaysCancelled ==
  [][\A f \in Ids : stage[f] = "cancelled" => stage'[f] = "cancelled"]_vars

\* Whatever goes away in between, a run that was marked reaches history, unless
\* it could not be waited for, or its own mark, its own append or a reading of
\* its own mark failed.  Nobody reads the live records again until a Tower starts.
EveryRunReachesHistory ==
  \A f \in Ids :
     stage[f] = "marked"
       ~> history[f] # {} \/ stage[f] = "orphan"
            \/ \E what \in {"mark", "append", "look"} : <<f, what>> \in faults

\* However a Tower stops, queued work does not stay queued, unless a Ground
\* Stop holds it.
QueuedWorkIsTaken ==
  \A f \in Ids : f \in queue ~> (f \notin queue \/ groundStop)

\* book/src/dashboard.md on the Ground Stop: "Parked work is kept, so
\* engaging a Ground Stop to look at something and then releasing it resumes
\* where the factory was."  While one is engaged and the Tower is up, no
\* flight that has not started is disposed of.
GroundStopKeepsWork ==
  [][groundStop /\ tower' = "up" =>
       \A f \in Made :
          starts[f] = 0 /\ stage[f] # "over" => stage'[f] # "over"]_vars

\* book/src/cli.md: "a factory that dies mid-run does not repeat the work on
\* restart".  Work whose run is on record as succeeded is not started again.
SucceededIsNotRepeated ==
  \A f, g \in Made :
     "succeeded" \in history[f] /\ starts[g] > 0
        /\ flights[f].work = flights[g].work => g <= f
=============================================================================
