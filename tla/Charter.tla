------------------------------ MODULE Charter ------------------------------
(***************************************************************************)
(* What `layover validate` says of a factory, and what its chains do.  The *)
(* checks of layover-core/src/validate look at the routes, their scopes and *)
(* the workflows before anything runs; a chain then finds its own way along *)
(* the routes it may use.  A factory is read, judged, and, when its author  *)
(* was told of no error, one line of work is followed through it: the chain *)
(* that a trigger opened, a chain one of its agents spawned, a chain that   *)
(* resumes what it set down, and so on.  What the line leaves behind goes   *)
(* on, but nothing here depends on it.  (`serve` does not ask: a factory    *)
(* with errors starts too, and is not followed here.)                       *)
(*                                                                         *)
(* An optional value is a set of at most one element.                      *)
(***************************************************************************)
EXTENDS Naturals, Sequences, FiniteSets

CONSTANTS
  Agents,      \* every agent the routes name is declared
  Workflows,   \* names a pipeline may have
  NoWorkflow,
  Hops,        \* what max_hops may be
  Factories    \* the factories as written, see Factory

Options(S) == {{}} \cup {{x} : x \in S}

\* A route, with all it may say: `scoped` is whether it has `pipelines` at all.
Route == [from : SUBSET Agents, to : SUBSET Agents, spawn : BOOLEAN,
          join : {"none", "all", "any"}, scoped : BOOLEAN, pipelines : SUBSET Workflows]

Workflow == [entry : Options(Agents), resumes : BOOLEAN, scheduled : BOOLEAN, overlap : BOOLEAN,
             max_hops : Options(Hops), routes_from : Options(Workflows)]

Factory == [entry : SUBSET Agents, writers : SUBSET Agents, max_hops : Hops,
            workflows : UNION {[W -> Workflow] : W \in SUBSET Workflows}, routes : Seq(Route)]

ASSUME CharterAssumption ==
  /\ NoWorkflow \notin Workflows
  /\ Hops \subseteq Nat
  /\ Factories \subseteq Factory

VARIABLES
  factory,   \* the factory as read
  said,      \* what the checks found: see Judged
  scope,     \* the scope of the chain followed, {} before there is one
  opening,   \* how that chain came to be
  rested,    \* whether the line of work was ever set down and resumed
  awake,     \* its runs: the agent and the flights it may still send on
  pending    \* the flights waiting at its barriers: from, to, hops

charterVars == <<factory, said, scope, opening, rested, awake, pending>>

---------------------------------------------------------------------------
(* Everything in U that follows from `starts` along `edges`. *)

Reached(U, starts, edges) ==
  {x \in U : \A S \in SUBSET U :
     (starts \subseteq S /\ \A e \in edges : e[1] \in S => e[2] \in S) => x \in S}

\* A walk of exactly n edges.
Walk(starts, edges, x, n) ==
  \E path \in [0..n -> Agents] :
    /\ path[0] \in starts
    /\ path[n] = x
    /\ \A i \in 0..n : i < n => <<path[i], path[i + 1]>> \in edges

---------------------------------------------------------------------------
(* Reading the file: a workflow with `routes_from` is added to each route of the workflow it
   names, and so on. *)

Followed(f) ==
  {e \in (DOMAIN f.workflows) \X (DOMAIN f.workflows) :
     e[1] # e[2] /\ e[1] \in f.workflows[e[2]].routes_from}

Read(f) ==
  [f EXCEPT !.routes =
     [i \in DOMAIN f.routes |->
        [f.routes[i] EXCEPT !.pipelines = Reached(Workflows, @, Followed(f))]]]

---------------------------------------------------------------------------
(* The graph of a chain.  NoWorkflow stands for a chain no pipeline opened. *)

Names(f) == DOMAIN f.workflows

AppliesTo(r, p) == r.scoped => p \in r.pipelines

Overlaps(r, s) == (r.scoped /\ s.scoped) => r.pipelines \cap s.pipelines # {}

Pairs(r) == r.from \X r.to

Applying(f, p) == {i \in DOMAIN f.routes : AppliesTo(f.routes[i], p)}

Edges(f, p) == UNION {Pairs(f.routes[i]) : i \in Applying(f, p)}

Spawns(f, p) == UNION {Pairs(f.routes[i]) : i \in {j \in Applying(f, p) : f.routes[j].spawn}}

Ordinary(f, p) == Edges(f, p) \ Spawns(f, p)

SpawnTargets(f, p) == {e[2] : e \in Spawns(f, p)}

JoinRoutes(f, p, t) == {i \in Applying(f, p) : f.routes[i].join # "none" /\ t \in f.routes[i].to}

\* The last one inserted stays.
JoinFor(f, p, t) == {f.routes[i] : i \in {j \in JoinRoutes(f, p, t) :
                                             \A k \in JoinRoutes(f, p, t) : k <= j}}

\* rails_for: what the workflow declares, else the default.
MaxHops(f, p) ==
  CHOOSE n \in (IF p \in Names(f) /\ f.workflows[p].max_hops # {}
                THEN f.workflows[p].max_hops ELSE {f.max_hops}) : TRUE

EntryOf(f, p) == IF p = NoWorkflow THEN f.entry ELSE f.workflows[p].entry

---------------------------------------------------------------------------
(* Errors: a factory with one does not start. *)

NoWayIn(f) == f.entry \cup UNION {f.workflows[w].entry : w \in Names(f)} = {}

EntriesMissing(f) == {w \in Names(f) : f.workflows[w].entry = {} /\ ~f.workflows[w].resumes}

FromItselfOrNobody(f) ==
  {w \in Names(f) : \E v \in f.workflows[w].routes_from : v = w \/ v \notin Names(f)}

Empty(f) == {i \in DOMAIN f.routes : f.routes[i].from = {} \/ f.routes[i].to = {}}

BadlyScoped(f) ==
  {i \in DOMAIN f.routes :
     f.routes[i].scoped /\ (f.routes[i].pipelines = {} \/ ~(f.routes[i].pipelines \subseteq Names(f)))}

BadJoins(f) ==
  {i \in DOMAIN f.routes :
     f.routes[i].join # "none" /\ (Cardinality(f.routes[i].to) > 1 \/ f.routes[i].spawn)}

\* Two barriers for one agent where some chain would meet both.
TwoBarriers(f) ==
  {x \in (DOMAIN f.routes) \X (DOMAIN f.routes) :
     LET r == f.routes[x[1]]  s == f.routes[x[2]] IN
     x[1] < x[2] /\ r.join # "none" /\ s.join # "none" /\ r.to \cap s.to # {} /\ Overlaps(r, s)}

ComparedWhenScoped(r, s) == r.scoped /\ s.scoped /\ Overlaps(r, s)

Compared(r, s) == (r.scoped \/ s.scoped) /\ Overlaps(r, s)

\* One of them spawns where the other continues the chain, or fills a barrier.
SpawnsBesides(r, s) ==
  r.spawn /\ (~s.spawn \/ s.join # "none") /\ Pairs(r) \cap Pairs(s) # {}

Disagreeing(f) ==
  {x \in (DOMAIN f.routes) \X (DOMAIN f.routes) :
     LET r == f.routes[x[1]]  s == f.routes[x[2]] IN
     x[1] # x[2] /\ Compared(r, s) /\ SpawnsBesides(r, s)}

\* The same between two global routes, which the checks leave alone.
LeftAlone(f) ==
  {x \in (DOMAIN f.routes) \X (DOMAIN f.routes) :
     LET r == f.routes[x[1]]  s == f.routes[x[2]] IN
     x[1] # x[2] /\ ~r.scoped /\ ~s.scoped /\ SpawnsBesides(r, s)}

HasErrors(f) ==
  \/ NoWayIn(f)
  \/ EntriesMissing(f) \cup FromItselfOrNobody(f) # {}
  \/ Empty(f) \cup BadlyScoped(f) \cup BadJoins(f) # {}
  \/ TwoBarriers(f) \cup Disagreeing(f) # {}

---------------------------------------------------------------------------
(* Warnings about reach.  Every way in is walked over its own graph; a     *)
(* spawn is a way in of its own, with a full budget of hops.               *)

WaysIn(f) == Names(f) \cup {NoWorkflow}

StartsAtEntries(f, p) == EntryOf(f, p)

Starts(f, p) == EntryOf(f, p) \cup SpawnTargets(f, p)

Reach(f, p) == Reached(Agents, Starts(f, p), Ordinary(f, p))

Seeded(f) == \E p \in WaysIn(f) : Starts(f, p) # {}

OutOfReach(f) == IF Seeded(f) THEN Agents \ UNION {Reach(f, p) : p \in WaysIn(f)} ELSE {}

\* Woken by flight d + 1 of a chain of p, for some d + 1 within its hops.
WithinHops(f, p, a, more) ==
  \E d \in 0..MaxHops(f, p) :
    d + more <= MaxHops(f, p) /\ Walk(Starts(f, p), Ordinary(f, p), a, d)

CutShort(f) ==
  {a \in UNION {Reach(f, p) : p \in WaysIn(f)} : \A p \in WaysIn(f) : ~WithinHops(f, p, a, 1)}

\* The ways in where t waits for u, among all, and u may run.
Waiting(f, t, u) ==
  {p \in WaysIn(f) : u \in Reach(f, p) /\ \E r \in JoinFor(f, p, t) : r.join = "all" /\ u \in r.from}

UnfillableByOne(f) ==
  {x \in Agents \X Agents :
     Waiting(f, x[1], x[2]) # {} /\ \A p \in Waiting(f, x[1], x[2]) : ~WithinHops(f, p, x[2], 3)}

Unfillable(f) ==
  {x \in Agents \X Agents :
     Waiting(f, x[1], x[2]) # {} /\ \A p \in Waiting(f, x[1], x[2]) : ~WithinHops(f, p, x[2], 2)}

---------------------------------------------------------------------------
(* Warnings about scopes.  Whatever a chain can wake may set work down, and *)
(* a workflow that resumes starts wherever work was set down.               *)

Resuming(f) == {w \in Names(f) : f.workflows[w].resumes}

WakesFromEntry(f, p) == Reached(Agents, EntryOf(f, p), Edges(f, p))

WakesAnywhere(f) ==
  {a \in Agents : \A S \in SUBSET Agents :
     (/\ \A p \in WaysIn(f) \ Resuming(f) : WakesFromEntry(f, p) \subseteq S
      /\ \A p \in Resuming(f) : Reached(Agents, S \cup EntryOf(f, p), Edges(f, p)) \subseteq S)
     => a \in S}

CanWakeFromEntry(f, p) == WakesFromEntry(f, p)

CanWake(f, p) ==
  IF p \in Resuming(f) THEN Reached(Agents, WakesAnywhere(f) \cup EntryOf(f, p), Edges(f, p))
  ELSE WakesFromEntry(f, p)

\* The senders of a scoped route that no chain of its scope can wake.
Unusable(f) ==
  {x \in (DOMAIN f.routes) \X Agents :
     LET r == f.routes[x[1]]  known == r.pipelines \cap Names(f) IN
     r.scoped /\ known # {} /\ x[2] \in r.from /\ \A p \in known : x[2] \notin CanWake(f, p)}

\* Workflows whose instances would write over each other.
Shared(f) ==
  {w \in Names(f) :
     /\ f.workflows[w].scheduled /\ f.workflows[w].overlap
     /\ Reached(Agents, EntryOf(f, w), Ordinary(f, w)) \cap f.writers # {}}

Judged(f) ==
  [errors |-> HasErrors(f), unreached |-> OutOfReach(f), cut |-> CutShort(f),
   unfillable |-> Unfillable(f), unusable |-> Unusable(f), shared |-> Shared(f)]

---------------------------------------------------------------------------
(* The chain followed.  A scope is the chain's own pipeline and those it    *)
(* came through by being resumed; an edge has to be permitted by each.      *)

Scope(p, within) == [pipeline |-> p, within |-> within \ {p}]

Through(s) == {s.pipeline} \cup s.within

Permitted(s) == {e \in Edges(factory, s.pipeline) : \A p \in s.within : e \in Edges(factory, p)}

IsSpawn(s, e) == e \in Spawns(factory, s.pipeline)

Chain == scope # {}
Here == CHOOSE s \in scope : TRUE

Opens(s, how) == scope' = {s} /\ opening' = how /\ UNCHANGED <<factory, said>>
Continues == UNCHANGED <<factory, said, scope, opening, rested>>

\* A flight with hops left reaches t past any barrier: its run may send on with one less.
WokenBy(t, hops) == IF hops > 0 THEN {<<t, hops - 1>>} ELSE {}

Holds(s, from, t) == \E r \in JoinFor(factory, s.pipeline, t) : r.join = "all" /\ from \in r.from

Awaited(s, t) == UNION {r.from : r \in JoinFor(factory, s.pipeline, t)}

At(t, waiting) == {x \in waiting : x[2] = t}

\* Who waits at t once this flight is there: a sender seen before begins a wave of its own.
AfterParking(from, t, hops, waiting) ==
  (IF \E x \in At(t, waiting) : x[1] = from THEN waiting \ At(t, waiting) ELSE waiting)
    \cup {<<from, t, hops>>}

\* Fills the barrier, or only joins who waits there.  The released flight keeps the hops of one
\* of them.  Which flight of an `any` join wakes the agent is left to Barrier.
Arrives(s, from, t, hops, runs, waiting) ==
  LET now == AfterParking(from, t, hops, waiting) IN
  \/ ~Holds(s, from, t) /\ awake' = runs \cup WokenBy(t, hops) /\ pending' = waiting
  \/ /\ Holds(s, from, t) /\ {x[1] : x \in At(t, now)} # Awaited(s, t)
     /\ awake' = runs /\ pending' = now
  \/ /\ Holds(s, from, t) /\ {x[1] : x \in At(t, now)} = Awaited(s, t)
     /\ \E x \in At(t, now) : awake' = runs \cup WokenBy(t, x[3])
     /\ pending' = now \ At(t, now)

CharterInit ==
  /\ \E f \in Factories : factory = Read(f)
  /\ said = Judged(factory)
  /\ scope = {}
  /\ opening = "none"
  /\ rested = FALSE
  /\ awake = {}
  /\ pending = {}

\* A person or a schedule triggers a workflow that has an entry.
Trigger(w) ==
  /\ ~Chain /\ ~said.errors
  /\ \E a \in EntryOf(factory, w) : awake' = WokenBy(a, MaxHops(factory, w))
  /\ Opens(Scope(w, {}), "triggered")
  /\ UNCHANGED <<rested, pending>>

\* A person sends work straight to an agent marked as an entry.
SendFlight(a) ==
  /\ ~Chain /\ ~said.errors
  /\ a \in EntryOf(factory, NoWorkflow)
  /\ awake' = WokenBy(a, MaxHops(factory, NoWorkflow))
  /\ Opens(Scope(NoWorkflow, {}), "sent")
  /\ UNCHANGED <<rested, pending>>

\* layover_send, along an edge that continues the chain.
Send(a, hops, b) ==
  /\ Chain /\ <<a, hops>> \in awake /\ hops > 0
  /\ <<a, b>> \in Permitted(Here) /\ ~IsSpawn(Here, <<a, b>>)
  /\ Arrives(Here, a, b, hops, awake, pending)
  /\ Continues

\* layover_send, along one that opens another: the same scope and hops of its own.
SendSpawn(a, hops, b) ==
  /\ Chain /\ <<a, hops>> \in awake
  /\ <<a, b>> \in Permitted(Here) /\ IsSpawn(Here, <<a, b>>)
  /\ Arrives(Here, a, b, MaxHops(factory, Here.pipeline), {}, {})
  /\ Opens(Here, "spawned")
  /\ UNCHANGED rested

\* A run sets its work down, and a workflow that resumes wakes the agent again.
Resume(a, hops, w) ==
  /\ Chain /\ <<a, hops>> \in awake
  /\ w \in Resuming(factory) /\ factory.workflows[w].scheduled
  /\ awake' = WokenBy(a, MaxHops(factory, w))
  /\ pending' = {}
  /\ rested' = TRUE
  /\ Opens(Scope(w, Through(Here)), "resumed")

CharterNext ==
  \/ \E w \in Names(factory) : Trigger(w)
  \/ \E a \in Agents : SendFlight(a)
  \/ \E run \in awake :
       \/ \E b \in Agents : Send(run[1], run[2], b)
       \/ \E b \in Agents : SendSpawn(run[1], run[2], b)
       \/ \E w \in Names(factory) : Resume(run[1], run[2], w)

CharterSpec == CharterInit /\ [][CharterNext]_charterVars

---------------------------------------------------------------------------
(* Properties. *)

CharterTypeOK ==
  /\ factory \in Factory
  /\ scope \in Options([pipeline : WaysIn(factory), within : SUBSET WaysIn(factory)])
  /\ opening \in {"none", "triggered", "sent", "spawned", "resumed"}
  /\ rested \in BOOLEAN
  /\ awake \subseteq Agents \X Nat
  /\ pending \subseteq Agents \X Agents \X Nat

\* An agent that validation says no entry point reaches is never woken, by no chain, spawn or
\* layover; and one said to be too many flights away is woken by no work that was never set down
\* (reach.rs, against scopes, spawns, barriers and resumed work).
OutOfReachIsNeverWoken ==
  \A run \in awake :
    /\ run[1] \notin said.unreached
    /\ ~rested => run[1] \notin said.cut

\* A sender whose scoped route validation calls unusable never runs in a chain of that scope: no
\* warning is given about a permission that some follow-up really uses (scopes.rs).
UnusableIsNeverUsed ==
  \A s \in scope : \A run \in awake : \A i \in DOMAIN factory.routes :
    <<i, run[1]>> \in said.unusable => s.pipeline \notin factory.routes[i].pipelines

\* A barrier said to be out of reach of an upstream does not release in work that was never set
\* down (reach.rs check_joins_can_be_satisfied).
UnfillableNeverReleases ==
  [][\A run \in awake : \A t \in Agents :
       Send(run[1], run[2], t) /\ ~rested /\ Holds(Here, run[1], t) /\ At(t, pending') = {}
       => \A u \in Awaited(Here, t) : <<t, u>> \notin said.unfillable]_charterVars

\* In a factory without errors no chain is opened only to wait at a barrier for agents that are
\* not in it, unless two global routes disagree, which validation leaves as it was.
NoChainIsStillborn ==
  Chain /\ LeftAlone(factory) = {} => awake # {}

\* What the comments say without exception: a chain said to be cut before it reaches an agent
\* never does (reach.rs:34), and no overlapping workflow has a writer nobody warned of
\* (wiring.rs:92).
CutIsNeverWoken == \A run \in awake : run[1] \notin said.cut

WritersAreFlagged ==
  \A s \in scope : \A run \in awake :
    (/\ s.pipeline \in Names(factory) /\ run[1] \in factory.writers
     /\ factory.workflows[s.pipeline].scheduled /\ factory.workflows[s.pipeline].overlap)
    => s.pipeline \in said.shared
============================================================================
