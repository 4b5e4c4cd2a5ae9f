------------------------------- MODULE Floor -------------------------------
(***************************************************************************)
(* The factory floor as its Tower keeps it going: schedules that come due, *)
(* the one loop that looks at what is busy, fires what may fire, collects  *)
(* the layovers that are due and starts what is queued; the runs on their  *)
(* own threads, whose tool calls queue flights and set work down; and the  *)
(* workflow each chain belongs to, which decides how far its agents reach. *)
(* What a run costs, its barriers and its record are left to Rails,        *)
(* Barrier and Lifecycle.                                                  *)
(***************************************************************************)
EXTENDS Naturals, Sequences, FiniteSets

CONSTANTS
  Workflows,    \* the pipelines of the factory, each of them scheduled
  Resuming,     \* those that collect layovers instead of opening work
  Overlapping,  \* those with overlap = "allow"
  NoWorkflow,
  Agents,
  Entry,        \* [Workflows -> Agents]: the agent a tick wakes
  Graph,        \* [Workflows \cup {NoWorkflow} -> SUBSET (Agents \X Agents)]: the routes
  Spawns,       \* the routes among them that open a chain of their own
  MaxConcurrent,\* max_concurrent_runs
  MaxMade,      \* flights that schedules, people and agents make, resumptions apart
  MaxLayovers,
  MaxMishaps,   \* writes and launches that fail, crashes, and switches turned
  LateCalls,    \* whether a run may be over while a call of its own is being answered
  Unreadable    \* whether the queue may fail to be read, and count as empty

ASSUME FloorAssumption ==
  /\ Resuming \subseteq Workflows /\ Overlapping \subseteq Workflows
  /\ NoWorkflow \notin Workflows
  /\ Entry \in [Workflows -> Agents]
  /\ Graph \in [Workflows \cup {NoWorkflow} -> SUBSET (Agents \X Agents)]
  /\ \A w \in Workflows : Graph[NoWorkflow] \subseteq Graph[w]
  /\ {"clock", "person"} \cap Agents = {}
  /\ MaxConcurrent \in Nat \ {0}

VARIABLES
  flights,   \* every flight there has been: what it says
  at,        \* where each is: see Places
  tokens,    \* the flights whose run holds a live token
  calls,     \* the runs that are over with a call resolved and not yet carried out
  chains,    \* chain -> what this Tower has recorded of it
  layovers,  \* work set down
  due,       \* the workflows whose next tick has come
  off,       \* the workflows switched off
  draining,
  pc,        \* where the loop is in its pass
  busy, pending, fire, \* what it has read in this pass, and decided
  collecting, shelf, owed, \* the workflow resuming, the layovers it found, the one not yet marked
  made, faults, crashes, turns

loopVars == <<pc, busy, pending, fire, collecting, shelf, owed>>
workVars == <<flights, at>>
bounds == <<made, faults, crashes, turns>>
vars == <<flights, at, tokens, calls, chains, layovers, due, off, draining, loopVars, bounds>>

Places == {"queued", "starting", "alive", "over"}

Pipelines == Workflows \cup {NoWorkflow}

---------------------------------------------------------------------------
(***************************************************************************)
(* Scopes.  A chain may use a route its own workflow has and every         *)
(* workflow the work it resumes came through.                              *)
(***************************************************************************)
ChainScope(p, within) == [pipeline |-> p, within |-> within \ {p}]

ScopeResuming(p, booked) == ChainScope(p, booked.within \cup {booked.pipeline})

Permits(scope, from, to) == \A p \in {scope.pipeline} \cup scope.within : <<from, to>> \in Graph[p]

\* What the Tower knows of a chain; of one it has not recorded, nothing.
Recorded(c) == IF c \in DOMAIN chains THEN chains[c] ELSE ChainScope(NoWorkflow, {})
ScopeOf(c) == ChainScope(Recorded(c).pipeline, Recorded(c).within)

\* The first flight that says decides, for the workflow and for the narrowing apart.
OpenedBy(f) ==
  LET known == Recorded(f.chain) IN
  [c \in DOMAIN chains \cup {f.chain} |->
     IF c # f.chain THEN chains[c]
     ELSE [pipeline |-> IF known.pipeline = NoWorkflow THEN f.pipeline ELSE known.pipeline,
           within   |-> IF known.within = {} THEN f.within ELSE known.within]]

---------------------------------------------------------------------------
(***************************************************************************)
(* A flight: whom it wakes, who sent it, the chain and workflow it is part *)
(* of and what narrows it; `layover`, the work it resumes (0: none);       *)
(* `again`, whether it restarts an interrupted run.  `root` and `lineage`  *)
(* are for the properties: what set the work off in the first place, and   *)
(* every workflow it has been through.                                     *)
(***************************************************************************)
Flight(to, from, chain, scope, l, root, lineage) ==
  [to |-> to, from |-> from, chain |-> chain, pipeline |-> scope.pipeline,
   within |-> scope.within, layover |-> l, again |-> FALSE, root |-> root,
   lineage |-> lineage]

\* The ticks that are to be answered have their room.
Room == made + Cardinality((due \cup fire) \ Resuming) < MaxMade

Spared == faults + crashes + turns < MaxMishaps

NewChain == Len(flights) + 1
Ids == DOMAIN flights
AtAny(places) == {f \in Ids : at[f] \in places}

Queue(flight) ==
  /\ flights' = Append(flights, flight)
  /\ at' = Append(at, "queued")

Moved(f, place) == at' = [at EXCEPT ![f] = place] /\ UNCHANGED flights

\* The workflow this flight is a way into, if it is one.
IsWayIn(f) == flights[f].from \notin Agents /\ ~flights[f].again
WayIn(f) == IF IsWayIn(f) THEN {flights[f].pipeline} ELSE {}

Init ==
  /\ flights = <<>>
  /\ at = <<>>
  /\ tokens = {}
  /\ calls = {}
  /\ chains = <<>>
  /\ layovers = <<>>
  /\ due = {}
  /\ off = {}
  /\ draining = FALSE
  /\ pc = "look"
  /\ busy = {}
  /\ pending = {}
  /\ fire = {}
  /\ collecting = NoWorkflow
  /\ shelf = {}
  /\ owed = 0
  /\ made = 0
  /\ faults = 0
  /\ crashes = 0
  /\ turns = 0

---------------------------------------------------------------------------
(* The clock: a tick that comes while the last one is held is the same one. *)

TickComes(w) ==
  /\ pc = "look"
  /\ w \notin due
  /\ w \in Resuming \/ Room
  /\ due' = due \cup {w}
  /\ UNCHANGED <<workVars, tokens, calls, chains, layovers, off, draining, loopVars, bounds>>

---------------------------------------------------------------------------
(* The loop: what is running, then what is queued, then what may fire.     *)

ReadBusy ==
  /\ pc = "look"
  /\ ~draining
  /\ busy' = {ScopeOf(flights[f].chain).pipeline : f \in AtAny({"alive"})}
  /\ pc' = "pending"
  /\ UNCHANGED <<workVars, tokens, calls, chains, layovers, due, off, draining,
                 pending, fire, collecting, shelf, owed, bounds>>

\* fire_due: a tick that comes due while the Tower drains is held.
HoldTicks ==
  /\ pc = "look"
  /\ draining
  /\ pc' = "start"
  /\ UNCHANGED <<workVars, tokens, calls, chains, layovers, due, off, draining,
                 busy, pending, fire, collecting, shelf, owed, bounds>>

ReadPending ==
  /\ pc = "pending"
  /\ pending' \in {{flights[f].pipeline : f \in AtAny({"queued"})}}
                     \cup (IF Unreadable THEN {{}} ELSE {})
  /\ pc' = "decide"
  /\ UNCHANGED <<workVars, tokens, calls, chains, layovers, due, off, draining,
                 busy, fire, collecting, shelf, owed, bounds>>

\* Mutant: what is off the queue is taken to be over.
WorkingQueued(w) == w \in pending

Working(w) == w \in busy \/ w \in pending

\* tick_except: every tick that has come is passed, and those not off, and not working unless that
\* is allowed, fire.
Decide ==
  /\ pc = "decide"
  /\ due' = {}
  /\ fire' = {w \in due \ off : w \in Overlapping \/ ~Working(w)}
  /\ pc' = "fire"
  /\ busy' = {} /\ pending' = {}
  /\ UNCHANGED <<workVars, tokens, calls, chains, layovers, off, draining, collecting, shelf,
                 owed, bounds>>

\* trigger: a fresh chain, at the workflow's entry.
Trigger(w, from) == Queue(Flight(Entry[w], from, NewChain, ChainScope(w, {}), 0, from, {w}))

Fire(w) ==
  /\ pc = "fire"
  /\ w \in fire \ Resuming
  /\ fire' = fire \ {w}
  /\ made' = made + 1
  /\ \/ Trigger(w, "clock") /\ UNCHANGED faults
     \/ Spared /\ faults' = faults + 1 /\ UNCHANGED workVars
  /\ UNCHANGED <<tokens, calls, chains, layovers, due, off, draining, pc, busy, pending,
                 collecting, shelf, owed, crashes, turns>>

\* Mutant: a workflow collects only what its own chains set down.
DueOwn(w) == {l \in DOMAIN layovers : layovers[l].standing = "due" /\ layovers[l].scope.pipeline = w}

\* Journal::due: whatever has come due, whichever workflow set it down.
Due(w) == {l \in DOMAIN layovers : layovers[l].standing = "due"}

Collect(w) ==
  /\ pc = "fire"
  /\ w \in fire \cap Resuming
  /\ fire' = fire \ {w}
  /\ collecting' = w
  /\ shelf' = Due(w)
  /\ pc' = "resume"
  /\ UNCHANGED <<workVars, tokens, calls, chains, layovers, due, off, draining, busy, pending,
                 owed, bounds>>

\* A chain of the resuming workflow, at the agent that set the work down, narrowed to where
\* that one's chain could go.
Resumption(l) ==
  LET left == layovers[l] IN
  Flight(left.agent, "clock", NewChain, ScopeResuming(collecting, left.scope), l,
         "clock", left.lineage \cup {collecting})

\* Mutant: marked before it is queued.
ResumeMarksFirst(l) ==
  /\ pc = "resume" /\ owed = 0
  /\ l \in shelf
  /\ layovers' = [layovers EXCEPT ![l].standing = "resumed"]
  /\ owed' = l
  /\ UNCHANGED <<workVars, shelf, faults>>
  /\ UNCHANGED <<tokens, calls, chains, due, off, draining, pc, busy, pending, fire, collecting,
                 made, crashes, turns>>

\* Queued first; a layover whose flight cannot be queued is left for the next tick.
Resume(l) ==
  /\ pc = "resume" /\ owed = 0
  /\ l \in shelf
  /\ \/ Queue(Resumption(l)) /\ owed' = l /\ UNCHANGED <<shelf, faults>>
     \/ /\ Spared /\ faults' = faults + 1
        /\ shelf' = shelf \ {l} /\ UNCHANGED <<workVars, owed>>
  /\ UNCHANGED <<tokens, calls, chains, layovers, due, off, draining, pc, busy, pending, fire,
                 collecting, made, crashes, turns>>

\* Mutant: what has been resumed stays as it was.
MarkNot ==
  /\ owed # 0
  /\ shelf' = shelf \ {owed}
  /\ owed' = 0
  /\ UNCHANGED <<layovers, faults>>
  /\ UNCHANGED <<workVars, tokens, calls, chains, due, off, draining, pc, busy, pending, fire,
                 collecting, made, crashes, turns>>

\* ... and marked as resumed after; whether that could be written is not looked at.
Mark ==
  /\ owed # 0
  /\ shelf' = shelf \ {owed}
  /\ owed' = 0
  /\ \/ layovers' = [layovers EXCEPT ![owed].standing = "resumed"] /\ UNCHANGED faults
     \/ Spared /\ faults' = faults + 1 /\ UNCHANGED layovers
  /\ UNCHANGED <<workVars, tokens, calls, chains, due, off, draining, pc, busy, pending, fire,
                 collecting, made, crashes, turns>>

Collected ==
  /\ pc = "resume" /\ shelf = {}
  /\ collecting' = NoWorkflow
  /\ pc' = "fire"
  /\ UNCHANGED <<workVars, tokens, calls, chains, layovers, due, off, draining, busy, pending,
                 fire, shelf, owed, bounds>>

\* Every tick of this pass answered: on to what is queued.
Ticked ==
  /\ pc = "fire" /\ fire = {}
  /\ pc' = "start"
  /\ UNCHANGED <<workVars, tokens, calls, chains, layovers, due, off, draining, busy, pending,
                 fire, collecting, shelf, owed, bounds>>

---------------------------------------------------------------------------
(* Starting what fits: off the queue, then a token and a process, then     *)
(* counted among the runs alive.                                           *)

Fits(f) ==
  /\ at[f] = "queued"
  /\ ~draining
  /\ WayIn(f) \cap off = {}
  /\ Cardinality(AtAny({"alive"})) < MaxConcurrent

Launch(f) ==
  /\ pc = "start"
  /\ Fits(f)
  /\ chains' = OpenedBy(flights[f])
  /\ tokens' = tokens \cup {f}
  /\ Moved(f, "starting")
  /\ pc' = "launch"
  /\ UNCHANGED <<calls, layovers, due, off, draining, busy, pending, fire, collecting,
                 shelf, owed, bounds>>

\* No plan, or no process: there is nobody to use the token.
LaunchFails(f) ==
  /\ at[f] = "starting"
  /\ Spared /\ faults' = faults + 1
  /\ tokens' = tokens \ {f}
  /\ Moved(f, "over")
  /\ pc' = "start"
  /\ UNCHANGED <<calls, chains, layovers, due, off, draining, busy, pending, fire, collecting,
                 shelf, owed, made, crashes, turns>>

\* The process, and whoever it calls: counted among the runs alive.
Hold(f) ==
  /\ at[f] = "starting"
  /\ Moved(f, "alive")
  /\ pc' = "start"
  /\ UNCHANGED <<tokens, calls, chains, layovers, due, off, draining, busy, pending, fire,
                 collecting, shelf, owed, bounds>>

\* Nothing more fits: round again, and the clock is looked at.
Round ==
  /\ pc = "start"
  /\ \A f \in Ids : ~Fits(f)
  /\ pc' = "look"
  /\ UNCHANGED <<workVars, tokens, calls, chains, layovers, due, off, draining, busy, pending,
                 fire, collecting, shelf, owed, bounds>>

---------------------------------------------------------------------------
(* Runs.  A tool call is answered in two steps: its token is resolved to a *)
(* session, and then the tool does what it does with that.                 *)

\* A run's call is answered while the run is alive, or later: its token was resolved before.
Calling(f) == at[f] = "alive" \/ f \in calls

\* Mutant: a spawned chain starts with its workflow and nothing that narrowed its parent.
SentForgets(f, to) ==
  LET scope == ScopeOf(flights[f].chain)
      me == flights[f].to
  IN IF <<me, to>> \in Spawns
     THEN Flight(to, me, NewChain, ChainScope(scope.pipeline, {}), 0, flights[f].root, flights[f].lineage)
     ELSE Flight(to, me, flights[f].chain, scope, 0, flights[f].root, flights[f].lineage)

\* On the caller's chain, or on a fresh one: its workflow and its narrowing go along either way.
Sent(f, to) ==
  LET chain == IF <<flights[f].to, to>> \in Spawns THEN NewChain ELSE flights[f].chain
  IN Flight(to, flights[f].to, chain, ScopeOf(flights[f].chain), 0, flights[f].root, flights[f].lineage)

Send(f, to) ==
  /\ Calling(f)
  /\ Room /\ made' = made + 1
  /\ Permits(ScopeOf(flights[f].chain), flights[f].to, to)
  /\ Queue(Sent(f, to))
  /\ calls' = calls \ {f}
  /\ UNCHANGED <<tokens, chains, layovers, due, off, draining, loopVars, faults, crashes, turns>>

Wait(f) ==
  /\ Calling(f)
  /\ Len(layovers) < MaxLayovers
  /\ layovers' = Append(layovers, [agent |-> flights[f].to, scope |-> ScopeOf(flights[f].chain),
                                   standing |-> "booked", lineage |-> flights[f].lineage])
  /\ calls' = calls \ {f}
  /\ UNCHANGED <<workVars, tokens, chains, due, off, draining, loopVars, bounds>>

\* A tool that reads, notes or asks, or one that is refused.
Answered(f) ==
  /\ f \in calls
  /\ calls' = calls \ {f}
  /\ UNCHANGED <<workVars, tokens, chains, layovers, due, off, draining, loopVars, bounds>>

\* The process is gone, by itself or killed, perhaps while a call of its own is being answered:
\* its token is taken back before anything is written, and then it no longer counts as alive.
Finish(f) ==
  /\ at[f] = "alive"
  /\ tokens' = tokens \ {f}
  /\ calls' \in {calls} \cup {calls \cup {f} : x \in {x \in {1} : LateCalls}}
  /\ Moved(f, "over")
  /\ UNCHANGED <<chains, layovers, due, off, draining, loopVars, bounds>>

---------------------------------------------------------------------------
(* Time, people and crashes. *)

Ripen(l) ==
  /\ layovers[l].standing = "booked"
  /\ layovers' = [layovers EXCEPT ![l].standing = "due"]
  /\ UNCHANGED <<workVars, tokens, calls, chains, due, off, draining, loopVars, bounds>>

\* send_flight, from the dashboard's own thread.
SendFlight(w) ==
  /\ w \notin off \cup Resuming
  /\ Room /\ made' = made + 1
  /\ Trigger(w, "person")
  /\ UNCHANGED <<tokens, calls, chains, layovers, due, off, draining, loopVars, faults, crashes, turns>>

Switch(w) ==
  /\ Spared /\ turns' = turns + 1
  /\ off' = IF w \in off THEN off \ {w} ELSE off \cup {w}
  /\ UNCHANGED <<workVars, tokens, calls, chains, layovers, due, draining, loopVars,
                 made, faults, crashes>>

SetDraining ==
  /\ Spared /\ turns' = turns + 1
  /\ draining' = ~draining
  /\ UNCHANGED <<workVars, tokens, calls, chains, layovers, due, off, loopVars,
                 made, faults, crashes>>

\* The Tower goes away and another starts: what it held in memory is gone, its clock counts
\* from now, and of the runs it was watching some are queued again.
Crash(restarted) ==
  /\ Spared /\ crashes' = crashes + 1
  /\ restarted \subseteq AtAny({"alive"})
  /\ at' = [f \in Ids |-> IF f \in restarted THEN "queued"
                          ELSE IF at[f] = "queued" THEN "queued" ELSE "over"]
  /\ flights' = [f \in Ids |-> [flights[f] EXCEPT !.again = @ \/ f \in restarted]]
  /\ tokens' = {} /\ calls' = {} /\ chains' = <<>> /\ due' = {}
  /\ pc' = "look" /\ busy' = {} /\ pending' = {} /\ fire' = {}
  /\ collecting' = NoWorkflow /\ shelf' = {} /\ owed' = 0
  /\ draining' = FALSE
  /\ UNCHANGED <<layovers, off, made, faults, turns>>

---------------------------------------------------------------------------

Loop ==
  \/ ReadBusy \/ HoldTicks \/ ReadPending \/ Decide \/ Ticked \/ Collected \/ Mark \/ Round
  \/ \E w \in Workflows : Fire(w) \/ Collect(w)
  \/ \E l \in DOMAIN layovers : Resume(l)
  \/ \E f \in Ids : Launch(f) \/ LaunchFails(f) \/ Hold(f)

Next ==
  \/ Loop
  \/ \E f \in Ids : (\E to \in Agents : Send(f, to)) \/ Wait(f) \/ Finish(f)
  \/ \E l \in DOMAIN layovers : Ripen(l)
  \/ \E w \in Workflows : TickComes(w) \/ SendFlight(w) \/ Switch(w)
  \/ SetDraining
  \/ \E restarted \in SUBSET Ids : Crash(restarted)

Spec == Init /\ [][Next]_vars

(***************************************************************************)
(* The loop's thread goes on, time passes and schedules with it, a call is *)
(* answered, and a run ends: by itself, or killed at its timeout whatever  *)
(* it goes on asking for.                                                  *)
(***************************************************************************)
FairSpec ==
  /\ Spec
  /\ WF_vars(Loop)
  /\ \A w \in Resuming : SF_vars(TickComes(w))
  /\ WF_vars(\E f \in Ids : Finish(f))
  /\ WF_vars(\E l \in DOMAIN layovers : Ripen(l))

---------------------------------------------------------------------------

Scopes == [pipeline : Pipelines, within : SUBSET Pipelines]

FlightSet == [to : Agents, from : Agents \cup {"clock", "person"}, chain : Nat,
              pipeline : Pipelines, within : SUBSET Pipelines, layover : Nat,
              again : BOOLEAN, root : {"clock", "person"}, lineage : SUBSET Workflows]

LayoverSet == [agent : Agents, scope : Scopes, standing : {"booked", "due", "resumed"},
               lineage : SUBSET Workflows]

TypeOK ==
  /\ flights \in Seq(FlightSet)
  /\ at \in Seq(Places)
  /\ Len(at) = Len(flights)
  /\ tokens \subseteq Ids
  /\ calls \subseteq Ids
  /\ \A c \in DOMAIN chains : chains[c] \in Scopes
  /\ layovers \in Seq(LayoverSet)
  /\ due \subseteq Workflows /\ off \subseteq Workflows /\ fire \subseteq Workflows
  /\ pc \in {"look", "pending", "decide", "fire", "resume", "start", "launch"}
  /\ collecting \in Workflows \cup {NoWorkflow}
  /\ shelf \subseteq DOMAIN layovers /\ owed \in {0} \cup DOMAIN layovers

(***************************************************************************)
(* scope.rs: work set down in one workflow and picked up by another may    *)
(* not reach further than both, through any number of sends, spawns,       *)
(* layovers and restarts of the Tower.  No agent sends along a route that  *)
(* one of the workflows its work has been through does not have.           *)
(***************************************************************************)
ReachNeverWidens ==
  \A f \in Ids : flights[f].from \in Agents =>
    \A w \in flights[f].lineage : <<flights[f].from, flights[f].to>> \in Graph[w]

(***************************************************************************)
(* tower/mod.rs: "nothing moves while it looks".  A schedule does not      *)
(* start its workflow while anything a clock set off for it is queued or   *)
(* running, although it reads the one and then the other, unless the       *)
(* workflow says its waves may overlap.                                    *)
(***************************************************************************)
Going(w) == {f \in Ids : flights[f].pipeline = w /\ flights[f].root = "clock" /\ at[f] # "over"}

NoSecondWave ==
  [][\A w \in Workflows \ Overlapping :
       pc = "fire" /\ w \in fire \ fire' => Going(w) = {}]_vars

(***************************************************************************)
(* resume.rs: queued and then marked, in that order.  What is marked as    *)
(* resumed was queued, whatever fails or goes away in between; and where   *)
(* nothing fails it was queued once.                                       *)
(***************************************************************************)
Resumptions(l) == {f \in Ids : flights[f].layover = l}

OwedWorkIsQueued ==
  \A l \in DOMAIN layovers : layovers[l].standing = "resumed" => Resumptions(l) # {}

ResumedOnce ==
  faults = 0 /\ crashes = 0 => \A l \in DOMAIN layovers : Cardinality(Resumptions(l)) <= 1

\* tokens.rs: a token that outlives its run is a finished process that can still send work.
TokensDieWithRuns == tokens \subseteq AtAny({"starting", "alive"})

(***************************************************************************)
(* Work that was set down is picked up, unless the factory goes on         *)
(* draining or the workflow that would collect it is switched off again    *)
(* and again.                                                              *)
(***************************************************************************)
Resumed(l) == l \in DOMAIN layovers => layovers[l].standing = "resumed"

LayoversResume ==
  <>[](~draining /\ off \cap Resuming = {})
     => \A l \in 1..MaxLayovers : (l \in DOMAIN layovers) ~> Resumed(l)
============================================================================
