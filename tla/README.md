# A verification project for Layover

Layover is a local supervisor for AI-agent runs. A factory is a directory of TOML and prompt
files: agents, the routes between them, and workflows that start work on a schedule or on
demand. The Tower, the one long-running process (`layover serve`), takes flights (messages) off
a queue, starts an agent's command-line program for each, watches it to its end, charges what it
cost and records what happened. Agents send each other further flights through an MCP endpoint
the Tower serves. Everything that has to survive is in files under the state directory.

The modules here model what decides whether work is done once, in the right company, within its
limits, and accounted for. They are written from the source; a name in a module is the name in
the source where TLA+ allows it, and `PROJECT.json` gives for every definition the lines it
stands for.

## 1. The system

| part | state it keeps | operations | where |
|---|---|---|---|
| Rendezvous barriers | per chain and joined agent: arrivals parked, who was seen, released or not (memory) | deliver, abandon | `core/barrier.rs`, `tower/barriers.rs` |
| Dispatcher | the list of waiting flights, runs in flight, a count of flights being launched (memory) | coordinate: passes over the list, launch, collect what landed | `tower/dispatcher.rs` |
| Run life-cycle | live records, history, the transcript's hangar (disk); in-flight map, tokens (memory) | admit, launch, wait, settle, restart after a provider failure | `tower/factory.rs`, `wait.rs`, `provider.rs`, `store/live.rs` |
| Recovery | none of its own | reconcile at start, settle what a cut-off left | `tower/recovery.rs`, `core/handover.rs` |
| Rails | per chain: Fuel and runs spent (memory); hops (on the flight); the Reserve (read from history) | authorise, record start, debit | `core/itinerary.rs`, `core/cost/reserve.rs`, `tower/reserve.rs`, `tower/runtime.rs` |
| Draining and stopping | draining and cutting-off flags, the stop flag (memory), a stop request (disk) | drain, cut off, quiescence, drop the Tower | `tower/drain.rs`, `cli/stopping.rs`, `cli/tower/mod.rs` |
| Update | a request, a hand-over record, held ticks, two binaries (disk) | drain for, postpone, swap, hand over, arrive, prove, roll back; the unattended watch | `cli/updating.rs`, `arriving.rs`, `watching.rs`, `layover-update` |
| Schedules | next due time per workflow (memory), skips (disk) | tick, hold, fire, skip | `tower/clock.rs`, `cli/tower/` |
| Layovers, tokens, the MCP endpoint | a session per token (memory), layovers (disk) | send, peers, help, layover, learnings; sweep, resume | `tower/runtime.rs`, `tokens.rs`, `cli/tower/resume.rs`, `layover-mcp` |
| Journal | queue, layovers, learnings, help requests, stalls (disk), a lock per path and process | queue, unqueue, book, amend, sweep, ask, answer, update_learnings | `store/journal.rs`, `answer.rs`, `lock.rs` |
| Learnings | what each agent proposed, and its standing (disk) | propose, charge a run, confirm, reject, lapse, forget | `core/learning/`, `tower/runtime.rs`, `dashboard/api.rs` |
| Ownership | a lock file per Tower (disk) | claim, is_alive, clear | `tower/owner.rs` |
| Releases on a machine | what was found, skipped and staged, shared by its factories; per factory a gate and a request (disk) | check, stage, gate, decide, apply, forget | `layover-update`, `cli/staging.rs`, `watching.rs`, `applying.rs` |
| Routes, scopes, validation | none | which routes a chain may use; what a factory's author is told | `core/route.rs`, `scope.rs`, `graph.rs`, `config/`, `validate/` |
| Prompts and flags | none; what a person chose travels with the work | compose, include, choose, carry | `core/prompt.rs`, `pipeline.rs`, `config.rs` |
| Cost, ledger, windows | none | pure functions of transcripts and records | `core/cost/`, `tower/cost.rs` |
| Dashboard, HTTP, command line, diagrams, xtask | switches, dismissals (disk) | views, and writes through the parts above | the remaining crates |

How they interact. The Tower's thread (`run_loop`) fires what is due and calls `coordinate`,
which alternates passes over its own list of waiting flights with collecting what landed. The
journal's queue is the truth; the list is a copy refilled by callbacks, and a flight leaves the
disk before its run starts. Each run is waited for on a thread of its own which, at the end,
charges, records, unmarks, perhaps queues a restart, forgets, and reports over a channel. MCP
calls arrive on server threads and append to the queue. Whoever stops or updates the Tower is an
async task that sets flags and then polls. People and the command line write the same files from
other processes.

Several factories on one machine share the staging directory of its releases, and may share the
installation their Towers are started from.

What is hard here: a coordinator acting on reads that a worker, a person or another process has
overtaken; a crash between any two of the writes that make up one logical step; an agent process
outliving the Tower that started it; costs that are known only after more work was admitted;
waves of arrivals told apart only by who has reported before; a drain whose end depends on
work that the drain itself holds back; a program that replaces itself; promises made to the author
of a factory before anything runs; and scopes, flags and learnings that have to survive the many
ways one piece of work becomes another. The `hazards` of `PROJECT.json` list these at the lines
where they bite, with the properties aimed at each.

## 2. The modules

Eleven specifications and one abstract one, each closed on its own with the interaction it needs.
An `MC` module holds the instances TLC checks, a `Proofs` module the theorems; a proof module shared
by two specifications is about a flight's way (`RouteProofs`), one run's (`RunProofs`) and what the
store keeps (`JournalProofs`).

| module | with | about |
|---|---|---|
| `Barrier` | `MCBarrier`, `RouteProofs` | one joined agent |
| `Lifecycle` | `RunProofs` | one flight, from the queue to history, across crashes |
| `Drain` | `MCDrain`, `DrainProofs` | the coordinator and whoever stops the Tower |
| `Rails` | `RailsProofs` | what a chain and a factory may spend |
| `Shelf`, `Journal` | `MCJournal`, `JournalProofs` | what the store promises, and how it keeps it |
| `Floor` | `MCFloor`, `FloorProofs` | schedules, layovers, scopes and the loop that serves them |
| `Update` | `MCUpdate`, `UpdateProofs` | a Tower that replaces itself |
| `Machine` | `MCMachine`, `MachineProofs` | releases on a machine of several factories |
| `Charter` | `MCCharter`, `RouteProofs` | what validation says against what chains do |
| `Prompts` | `MCPrompts`, `RunProofs` | flags and the prompts composed with them |
| `Learnings` | `MCLearnings`, `JournalProofs` | what agents propose to their later selves |

### Barrier — one joined agent

`parked`, `seen` and `released` are the three fields of `Barrier`; `Deliver` is
`Barrier::deliver` with its answers `Park`, `Ready` and `Late` (and `DeliverDirect` for a sender
the join does not name), `Abandon` is `abandon_unreachable` on this barrier. Around it is the
chain of `docs/routing.md` section 6: a planner that fans out, upstreams that report, send the
work back or fail, a collector that may loop back. The chain decides in which orders flights can
reach the barrier. Two history variables, `log` and `wakes`, record every delivery and every
release.

### Lifecycle — one flight, from the queue to history

One action for each write, in the order the code makes them: `Take`, `Admit`, `Spawn`, `Mark`,
`Hold` (the dispatcher), `Notice` or `Halt`, `Record`, `Unmark`, `QueueRestart`, `Forget` (the
worker), `Found`, `Note`, `Clear`, `RequeueLeft` (recovery), with the error exits `PlanFails`,
`SpawnFails` and `WaitFails`. `Crash` may come between any two of them; it keeps the files and the
processes and loses the memory. `CutOff` kills what runs and leaves it to the next Tower
(`CutOffExit`) or, when an install failed, to this one (`SettleCutOff`), which settles the live
records that name it (`owned`). `ProcessEnds` is the agent's program, which runs on whether or not a
Tower watches it. Writing down is best effort, as in the code: a live mark, an append to history and a
restart on its way to the queue may be lost without anybody noticing, a reading of the live records may
miss some or all of them (`Finds`), and with `Stubborn` a live record may resist being removed; the
Tower goes on as if nothing had happened. `faults` says what was lost of which run; it and `starts`,
which counts the processes started for a flight, are history variables.

### Drain — the coordinator and whoever stops the Tower

`pc` walks through `coordinate` and `start_what_fits`: a pass, a flight skipped or taken, counted
as launching, taken off the disk, parked or passed by a barrier, refused or launched, counted off;
then collecting, asking for more, leaving, abandoning. `alive`, `launching`, `landed` belong to the
factory and are changed by the runs' threads. `ctl` is the stopping or updating task: `is_quiescent`
is three separate reads (`ReadAlive`, `ReadLaunching`, `ReadParked`), followed by a hand-over, a
resumption or a dropped Tower; `CutOff` is a person who will not wait. `QueueFlight`, `CancelFlight`,
rewrites of the queue that fail (`UnqueueFails`) and readings of it that fail and count as an empty
queue (`UnreadQueue`) interleave with all of it.

### Rails — what a chain and a factory may spend

`Start` is `Factory::admit` with its rails (`Authorised`, `ReserveAllows`) and the launch;
`Charge`, `Record`, `Finish` are the three moments at which a run's end reaches the chain's
account, history and the slot; `WaitFails` is the run nobody could wait for. `Stop` takes the Tower
and its accounts away with runs left over, `NoteLeft` is `settle_left_behind` charging them to
accounts opened afresh. `Tick` ages the ledger the Reserve is measured from. `paid` (the ledger
with each run counted once) and `procs` (processes on this Tower's account) are history variables.

### Shelf and Journal — the files that several threads change

`Shelf` is what the store promises: every document is changed in whole steps, each applied to the
document as it then stands; a call is a short list of such changes, may stop after any of them, and
its caller is told what became of it. `Journal` is how that is done: `Begin` chooses one of the
calls of `layover-store` (a table of changes, locks and how much of the call the locks cover),
`Acquire` takes the locks of `lock.rs` in their order, `Read` copies the file, `Stage` writes the
`.writing` neighbour, `Rename` puts it in place, `AppendLine` is an append, `TakeBack` undoes what
`answer.rs` queued. A write may fail (`WriteFails`), and a process may go away between any two steps
(`Crash`), leaving its staging file. Locks are per process. In `ImplementsShelf`
`docs`, `todo` and `told` are `Shelf`'s; the `.writing` files, the copies and the locks are hidden.

### Floor — the loop, its schedules, and what runs set down

`pc` walks through one turn of `run_loop`: `ReadBusy`, `HoldTicks`, `ReadPending`, `Decide`, `Fire`,
`Collect`, `Resume`, `Mark`, then `Launch` and `Round`. Beside it ticks come (`TickComes`), runs
make tool calls (`Send`, `Wait`) whose token is resolved in a step before they are carried out
(`Answered`), runs end (`Finish`), layovers fall due (`Ripen`), people send, switch and drain, and
the Tower goes away (`Crash`) with what it held in memory. A workflow may let its waves overlap
(`Overlapping`), and with `Unreadable` a queue that cannot be read counts as empty. Each flight carries its chain's workflow
and the workflows its work came through (`Permits`, `ScopeResuming`, `OpenedBy`); `root` and
`lineage` are history: who set the work off, and every workflow it has been through.

### Update — a Tower that replaces itself

`tower` holds the processes, each somewhere between `Start` and its end. `Claim`, `ArriveRequest`,
`ArriveRecord`, `Open`, `Bind` are a start; `TakeRequest`, the drain (`DrainQuiet`, `Postpone`,
`CutOff`), `Swap`, `WriteHandover`, `GiveUpServing`, `StartSuccessor`, `Answered` or `NotAnswered`,
`Undo` are an install, under a supervisor or in place; `Prove` settles the record, or the next start
reverts it (`Revert`). `kept` is what is kept aside under a version's name, which is whatever was in
place when a Tower of that version installed (`Swap`), and is what is put back (`PutBack`). `request`, `record` and `serving` are the two documents and the lock. Work is
kept to whose it is and whether it was left behind.

### Machine — releases on one machine

Each factory has a Tower and a watcher; a person has the commands and a dashboard. `Pass` is a turn
of the watcher, `Look`, `Fetch`, `Write`, `Note`, `Gate` are a staging in the order of its writes,
`Ask` leaves the request, `Apply`, `GoBack`, `Skip` are the commands. `Copy`, `Place`, `Prove`,
`Undo`, `CopyFails`, `PlaceFails` are what an install does to the binaries; `Apply` and `GoBack` do it
by hand where no Tower serves, with the version the command was started as. A file's content is the
version it is a binary of, or `Torn`; its name may say otherwise.

A factory's definition is the `edition` of its `layover.toml`, which a person may edit at any time
(`Edit`), before a release is gated, after it, or between gate and install. `nature.says` is what
`validate` of each version makes of each edition. `gate` is `gate.json`: the version and the verdict
and nothing else, so a later look finds it and asks nothing; which definition the verdict was about and
which program asked (`of`, `by`) is history, and so is the gate that a job and a request carry.
Whether a release crosses a layout is computed when it is staged, against the program that stages it.
`nature.left` is what the policy leaves to a person: a major release, a minor one under
`allow = "patch"`, one whose date is not known. A request says how far its hand-over has come
(`handed`): a Tower that starts by way of it ends it when it has proved itself and leaves it open when
it gives that up, or when the record counts as healthy already.

### Charter — what validation says, and what chains do

The operators above `Judged` are the checks of `layover-core/src/validate` over routes, scopes and
workflows; `Edges`, `Spawns`, `JoinFor`, `Permitted` are what the Tower decides by. A factory is
read, judged (`said`), and one line of work is followed through it: `Trigger`, `SendFlight`, `Send`,
`SendSpawn`, `Resume`, with what waits at the barriers of its chain.

### Prompts — flags, and the prompts composed with them

`Sound` is `check_prompt_files` with the walk of `referenced_flags`; `Composes` is `resolve`. One
piece of work goes from a trigger or the dashboard through `Send`, `Wait` and `Resume`, `AskForHelp`
and `Reply`, `Restart` and `Edit`; `Start` composes its prompt or refuses. `wish` is history: what the
person chose, as far as each workflow since declares it.

### Learnings — what agents propose to their later selves

`learnings` is the file. `StartRun` tells a run what is active, `LearnNew` and `LearnAgain` are
proposals, `EndRun` charges what applied, `JudgeLearning` and `SaveJudgement` are the dashboard's
reading and writing, `Retain` forgets. Two runs of the agent overlap. `past` and `overwritten` are history.

### How they meet

The modules meet at named steps. The flight `Drain` launches is the one `Lifecycle` follows from
`Take` to `Forget`; `Rails` charges it where `Lifecycle` has `Record`; the barrier `Drain` parks at
is an "all" `Barrier` seen from many chains. The queue and the layovers of `Floor` are documents of
`Journal`, each of whose calls is one step there because of the refinement. `Floor`'s `Launch` is
`Drain`'s; its `Permits` is what `Charter` follows over every small factory. `Update` is a Tower
whose drain is `Drain`'s and whose left runs are `Lifecycle`'s; `Machine` is many such installs, each
of them coarser. A learning's update is one step in `Learnings`, the dashboard's judgement excepted,
because `Journal` says which calls are. `Lifecycle` leaves slots and rails out, `Drain` crashes and
amounts, `Rails` the order of the queue, `Floor` costs and barriers.

## 3. What is checked

All runs use TLC without a state constraint: the bounds are in the guards. `CHECK_DEADLOCK FALSE`
is set throughout because every one of these systems may really stop: no more work, a Tower that
is down for good, bounds reached.

| run | properties | shows | instance, and why it is enough |
|---|---|---|---|
| `barrier` | `EveryoneDeliversAgain`, `NoStaleSibling`, `NothingParkedForever` | a release pairs only flights of one wave and a wave wakes once; in a collector loop nothing of two dispatches is mixed; what is parked is released, replaced or given up | both joins; 3 upstreams (one may be early, one late, one missing), 3 rounds (one before and one after the one that goes wrong), loop-backs from collector and upstreams, one flight past the barrier |
| `lifecycle` | `NoRunBesideAnother`, `CancelledStaysCancelled`, `MarkedIsAccountedFor`, `EveryRunReachesHistory` | no second process for a work whose first may be alive; a successful cancellation is final; marked runs stay on the live list until they are in history, and get there, whatever else could not be written or read: only a run's own lost mark or append, or a reading that misses its own mark, excepts it | one work, 2 restarts allowed (a restart of a restart), up to 2 crashes or cut-offs (a crash while the last one's runs are settled), a Ground Stop, one write or reading that fails unnoticed |
| `drain_join` | `OnlyDeadAreAbandoned`, `DrainEnds` | a stop at any moment: rendezvous are not given up while work of their own chain is queued for them, and the drain ends | the fan-out of `docs/routing.md`: planner, two upstreams, collector; 2 slots for 4 runs |
| `drain_caps` | `WithinLimits`, `NoRunOutlivesTheTower`, `QueuedStarts` | both caps hold while runs land and flights are cancelled, nothing is in flight once the coordinator has left, queued work starts in the end | 2 chains competing for 2 slots and for 1 of each agent; one install postponed or failed, one failing rewrite or reading of the queue |
| `rails` | `FuelOvershootBounded`, `ReserveOvershootBounded`, `EveryChainEnds` | spend passes Fuel and the Reserve by less than the slots can cost; every chain ends | 2 chains and 2 slots (two runs overshooting at once, in one chain and in two), one restart of the Tower, a window of two ticks |
| `journal` | `OneContinuation`, `ImplementsShelf`, `CallsReturn` | within one process each change is one step on the document as it is, whatever fails; a run that asked is continued once, whoever answers; no lock is left held | 2 threads, each one call of any kind, or of the sweeps at the process's start; a run that asked in two segments, one failing write, one crash |
| `floor` | `ReachNeverWidens`, `OwedWorkIsQueued`, `ResumedOnce`, `NoSecondWave`, `LayoversResume` | no work reaches further than every workflow it came through; a layover is queued before it is marked, once if nothing fails, and eventually; a tick starts no second wave | waves may not overlap and the queue can be read; a workflow that opens work and one that resumes it, 2 agents and a spawn, 3 flights beside the resumptions, one slot (so that something is queued while something runs), one mishap |
| `update` | `WorkStartsUnderTheLock`, `AppliedIsInPlace`, `BrokenIsRolledBack`, `RequestsEnd`, `LeftBehindIsSettled` | only the holder of the lock starts work; an outcome is true; a release that never answers is put back; requests end; runs left behind are settled | 2 processes (a Tower and its successor), 3 versions (back, installed, on offer) of which either neighbour may never answer, supervised or not, 2 requests, one mishap |
| `machine` | `InstalledIsAccepted`, `KeptIsWhatItSays`, `ReleasesArrive` | a version runs only where its own factory, as it was defined when the release was asked, accepted it; a kept copy is what its name says; what every rule lets in is installed, or one of the ways of getting stuck holds it | 2 factories, one unattended, and a person; 3 versions of four natures (all fine; one that changes the layout, is refused and skipped, and one that warns; one refused until an edit, and refused after one; one spoiled by an edit); one event |
| `charter` | `OutOfReachIsNeverWoken`, `UnusableIsNeverUsed`, `UnfillableNeverReleases`, `NoChainIsStillborn` | what validation says of reach, scopes, barriers and conflicting routes is true of what chains, spawns and resumed work do | every factory of three agents in a row with a join, a spawn or a short cut at the end, in every scope, with a second workflow that resumes, follows or is its own |
| `prompts` | `PromptsCompose`, `ChoicesSurvive` | what validation passed composes in every run it looked at; a choice is kept | every shape of prompt of 2 agents and 2 included files, and every way 3 flags may be declared and travel; one edit, one restart |
| `learnings` | `FlukesAreBounded`, `PermanenceIsExpensive`, `RejectedStaysOut` | what is proposed once misleads a bounded number of runs; permanence takes the runs it should; the rejected stays out | 2 overlapping runs of one agent, 2 entries, a text reworded, extended and denied; one judgement or fault |

Every property has a mutant of the code that breaks it, listed in `PROJECT.json`: a reset left out,
a live mark removed first, a cap read with `<=`, a lock taken after the read, a layover marked
before it is queued, starts of a new version that are not counted, and so on. Each module's type
invariant is proved.

### Where the code and its documents disagree

Beside each run's configuration are some that are not runs. Each states a sentence of the
repository as a property, and TLC ends it in a counterexample. `PROJECT.json` quotes the sentences.

- `Barrier_stale`: a result parked before an upstream's loop-back completes the join beside a fresh
  one (`docs/routing.md:111`). The wave is reset only when the same sender reports twice.
- `Lifecycle_repeat`: a Tower that dies between the record and the removal of the live mark leaves a
  finished run that its successor settles as interrupted and restarts (`book/src/cli.md:233`).
- `Lifecycle_ground`: a Ground Stop engaged in the middle of a pass drops a flight already off the
  disk (`book/src/dashboard.md:200`).
- `Lifecycle_crashes.cfg` without the last disjunct of `MarkedIsAccountedFor`: a run whose append to
  history failed loses its live record all the same, and is nowhere (`factory.rs:659`). With
  `Stubborn = TRUE` it violates `NoRunBesideAnother`: a live record that could not be removed has its
  run settled by every start, each queueing a restart (`recovery.rs:23`).
- `Drain_relay`: a drain holds a flight that would, two hops on, complete a parked rendezvous, and
  counts that same flight as able to deliver; it never ends (`tower/drain.rs:8`).
- `Drain_quiet`: the three reads of `is_quiescent` can all say no while a flight becomes a run
  (`tower/drain.rs:20`).
- `Journal_judge`: a judgement in the dashboard overwrites a learning proposed since it read
  (`store/journal.rs:226`). `Journal_two`: a second process sweeps a layover away
  (`store/lock.rs:13`). `Journal_answer`: a failed second segment leaves requests answered by work
  that was taken back (`store/answer.rs:38`).
- `Floor_late`: a run is forgotten while its own send waits for a lock, and the schedule starts a
  second wave beside it (`cli/tower/mod.rs:223`). `Floor.cfg` with `Unreadable = TRUE` violates
  `NoSecondWave` too: a queue that cannot be read counts as empty (`cli/tower/mod.rs:227`).
- `Update_in_place`: runs cut off at the deadline of an in-place install are settled by nobody until
  the next restart (`cli/updating.rs:163`). `Update_hasty`: a request put over one under way gets
  its outcome (`cli/applying.rs:187`). `Update_bystander`: a Tower started by hand in the gap of a
  hand-over leaves two serving (`docs/decisions/updates.md:129`).
- `Charter_cut`: an agent said to be cut off by the hop limit is woken by resumed work
  (`validate/reach.rs:34`). `Charter_writers`: writers reached by a spawn or a resumption are not
  flagged (`validate/wiring.rs:92`).
- `Learnings_evidence`: with two runs at once an echo counts as evidence (`learning/mod.rs:30`).
  `Learnings_drift`: the rejected comes back through an entry that has drifted towards it
  (`learning/ledger.rs:142`).
- `Prompts_resumed`: resumed work is refused for a flag the resuming workflow does not declare
  (`core/pipeline.rs:363`). `Prompts.cfg` with `INVARIANT RejectedFails`: a prompt is rejected
  that composes with every choice of flags (`core/prompt.rs:194`); with `INVARIANT BareHasItsOwn`: what a bare entry is
  validated with is not what it is composed with (`validate/prompts.rs:162`).
- `Drain_join.cfg` with `MaxUpdates = 1`, or with `MaxFaults = 1`, violates `OnlyDeadAreAbandoned`
  (`tower/dispatcher.rs:384`, `:120`): a rendezvous is given up with the flight that completes it in the
  queue, when a drain is called off in the middle of a pass or a flight cannot be taken off the queue.
  With `MaxFaults = 2` and without `UnqueueFails` in `Dispatcher` it is violated as well: the last two
  readings of the queue fail, each counts as an empty one, and the dispatch ends (`cli/tower/mod.rs:300`).
- `Machine.cfg` with `edition[f]` for `g.of` in `Answer` violates `InstalledIsAccepted`: a factory
  edited after its gate is installed into though the release would refuse it now, because the gate is
  kept by version and not asked again (`cli/staging.rs:70`; `docs/decisions/updates.md:168`). So does
  `Natures <- MixedNatures`: whether a release crosses a layout is noted once for the machine, relative
  to the program that staged it (`update/stage.rs:250`), and so does `Rewrites = TRUE` (`swap.rs:95`).
- `Machine.cfg` with `Home <- OneHome` violates `KeptIsWhatItSays` (`update/swap.rs:4`), as it does with
  `Overlaps = TRUE`, `Hands = {a}` and two events (`cli/applying.rs:223`).
- `Machine.cfg` violates `ReleasesArrive` without any one disjunct of `Stuck`: a gate that could not be
  run counts as asked (`cli/staging.rs:60`), one asked of a definition since edited as well; a
  release staged on someone's word is not verified later (`policy.rs:89`); a note outlives its file
  (`stage.rs:276`); a request stays open after a Tower gave up proving itself, and the watcher is busy
  for good (`cli/arriving.rs:185`, `watching.rs:139`). Two need another instance, of one factory
  (`Factories = {a}`, `Homes = {one}`, `Home <- LoneHome`, `Natures <- LoneNatures`, `Hands = {a}`, two
  events): a request left open by a Tower that ended, while the binary was put in place by hand with a
  hand-over that counts as healthy, so that nobody proves it and ends the request (`handed =
  "proving"` for `handed # "no"` in `Stuck`; `cli/applying.rs:247`), and a binary put in place while
  another process unpacked it (the last disjunct; `cli/applying.rs:229`).
- `Learnings.cfg` with `ProvisionalRuns = 1` and `PerRun = 2` violates
  `TriedBeforeItLapses` (`config/learnings.rs:15`).

Others were read on the way. A run whose process can be neither waited for nor killed loses its live
record and gets no record in history, though `factory.rs:659` says the record comes first
(`WaitFails`). An `any` join wakes its agent again for a straggler of the same dispatch when rounds
overlap. `abandon_unreachable` is given every agent alive in the factory, so another chain's run can
keep a dead rendezvous parked. A join's `timeout_sec` is read and not used. The sender's check for
hops left never fires, because admission refuses the flight that would have produced such a run. The
generations of spawned chains are never limited. An account begins anew with each Tower, so rails
bound what one Tower spends on a chain. A run recorded twice is billed twice to the Reserve, which
then refuses too early, never too late. `serve` starts a factory whatever validation says of it.

### Fairness

- `Barrier`: runs end (a timeout kills those that do not), the coordinator goes on dispatching, and
  it looks for dead barriers after each pass. Deliveries to be made are never forced to succeed.
- `Lifecycle`: the Tower's threads go on; a watched process ends, at the latest by `timeout_sec`;
  a cut-off ends in an exit or a resumption; somebody starts the next Tower, once. Nothing is
  assumed of crashes, of people, or of processes nobody watches, and a `WaitFails` is never forced.
- `Drain`: the coordinator and the stopping task keep going and each run ends. `Postpone` has
  strong fairness: `drain_for` looks at its deadline in every turn of its loop but may be between
  two reads when it passes. Nobody has to trigger, send, cancel or stop.
- `Rails`: something that waits is dispatched once a slot is free, and each slot's run is settled.
- `Journal`: each thread goes on with the call it is in. Nobody has to call, fail or crash.
- `Floor`: the loop's thread goes on and is restarted after a crash; some run ends, as each has a
  timeout; a layover falls due. The ticks of a resuming workflow have strong fairness: its clock
  runs, but the loop holds ticks while it drains. That the workflow stays switched on and the
  factory is not left draining is an assumption of `LayoversResume` itself.
- `Update`: the processes' own steps go on, a Tower is started when none is up, and runs end.
  Nobody has to ask, cancel or stop, and slow answers are mishaps.
- `Machine`: a staging or install that has begun goes on; each unattended watcher has its turn and
  asks when the policy lets it (strong fairness, because a person's skip or a command may close the
  occasion in between); the person's command that has begun is carried out.

## 4. What is proved

TLAPS proves the following for every value of the constants, from the assumptions named in the
modules (bounds are naturals, limits positive, the upstreams of a join are agents with a route).
A hypothesis beside a theorem is all it needs beyond those.

| theorem | property |
|---|---|
| `RouteProofs!TypeCorrect`, `WavesCorrect`, `ReleasesInOrder` | `TypeOK`, `WaveInv`, `EveryoneDeliversAgain`: any number of upstreams, both joins, loop-backs from anywhere |
| `RouteProofs!NoStaleSiblingInCollectorLoop` | `NoStaleSibling` |
| `RouteProofs!CharterTypeCorrect`, `ChainsAreJudged`, `OutOfReachStaysAsleep`, `UnusableStaysUnused`, `UnfillableStaysClosed` | `CharterTypeOK`, `OutOfReachIsNeverWoken`, `UnusableIsNeverUsed`, `UnfillableNeverReleases`: any factories, graphs, scopes and layovers |
| `RouteProofs!NoChainStartsStillborn` (`0 \notin Hops`) | `NoChainIsStillborn` |
| `RunProofs!TypeCorrect`, `FlightsRunOnce`, `MarkedRunsAreAccountedFor`, `CancellationsAreFinal` | `TypeOK`, `FlightRunsOnce`, `MarkedIsAccountedFor`, `CancelledStaysCancelled`: any works, attempts and number of crashes, writes and readings that fail |
| `RunProofs!RestartsAreBounded`, `NoSecondRun` (`~Stubborn`) | `OneFlightPerAttempt`, `NoRunBesideAnother` |
| `RunProofs!PromptsTypeCorrect`, `ChoicesAreKept`, `AcceptedPromptsCompose` | `PromptsTypeOK`, `ChoicesSurvive`, `PromptsCompose`: any factories and prompts, any limits on depth and expansions |
| `DrainProofs!TypeCorrect`, `LimitsHold`, `TowerWaitsForItsRuns` | `TypeOK`, `WithinLimits`, `NoRunOutlivesTheTower`: any factory, any caps |
| `DrainProofs!DeadUnlessUndone` (no step is `Undone`), `OnlyDeadInService` (no install asked for, no rewrite or reading of the queue that fails) | `OnlyDeadAreAbandoned` |
| `RailsProofs!TypeCorrect`, `FuelOvershoot`, `ReserveOvershoot`, `RunCap` | `TypeOK`, `FuelOvershootBounded`, `ReserveOvershootBounded`, `RunCapHolds`: any amounts, slots, chains, windows and restarts |
| `JournalProofs!TypeCorrect`, `Refinement` (`OneProcessOnly`) | `TypeOK`, `ImplementsShelf`: any threads, documents, segments, calls, faults and crashes of one process |
| `JournalProofs!AnsweredOnce` (`AskedBefore`) | `OneContinuation`: any runs, requests, segments and people who answer |
| `JournalProofs!LearningsTypeCorrect`, `PermanenceIsPaidFor`, `FlukesDieOut` | `LearningsTypeOK`, `PermanenceIsExpensive`, `FlukesAreBounded`: any agents, texts, overlapping runs and settings |
| `JournalProofs!RejectionsHold` (`Consistent`) | `RejectedStaysOut` |
| `FloorProofs!TypeCorrect`, `ReachIsKept`, `MarkedWorkWasQueued`, `NoTokenOutlivesItsRun`, `NoSecondWaveStarts` (no call outlives its run, the queue can be read), `QueuedOnce` | `TypeOK`, `ReachNeverWidens`, `OwedWorkIsQueued`, `TokensDieWithRuns`, `NoSecondWave`, `ResumedOnce`: any workflows, routes, slots and layovers |
| `UpdateProofs!TypeCorrect`, `WorkUnderTheLock` (nobody asks during an install or starts a Tower during a hand-over) | `TypeOK`, `WorkStartsUnderTheLock`: any processes, versions, requests and mishaps |
| `UpdateProofs!InPlaceUnlessOvertaken` (as above, and no step is `Overtaken`), `InPlaceUnsupervised` (as above, and no supervisor) | `AppliedIsInPlace` |
| `MachineProofs!TypeCorrect`, `KeptIsRight` (`~Rewrites`, `~Overlaps`, `Apart`) | `TypeOK`, `KeptIsWhatItSays`: any factories, releases, installs, rollbacks and edits |
| `MachineProofs!InstalledIsRight` (as above, and `Alike`) | `InstalledIsAccepted` |

A hypothesis is there because the code is wrong without it, and a configuration of section 3 (or the
one named there) shows that it is: `Journal_two` for `OneProcessOnly`, `Learnings_drift` for
`Consistent`, `Lifecycle_crashes.cfg` for `Stubborn`, `Floor_late`, `Floor.cfg` for `Unreadable`,
`Update_hasty` and `Update_bystander`, `Machine.cfg` for each of its four (`Alike`, that everything
installed to begin with reads one layout, is what `MixedNatures` is not), `Drain_join.cfg` for `Undone`; for `Overtaken`, `Update.cfg` with `Spec`, three processes under a
supervisor, no tasks, `MaxAsked = 3` and `MaxMishaps = 4`. Two are different. `0 \notin Hops`: `validate/pipelines.rs:69` refuses a
workflow whose `max_hops` is 0, but nobody looks at a `[defaults] max_hops = 0`, with which no flight
is ever sent. `AskedBefore` says that a run's requests are on disk and unanswered when the story
begins, and allows one failing write: `answer.rs` takes a flight back by another write, whose failure
nobody looks at, so after two of them a flight may wait whose requests are open.

The arguments.

*Barrier.* `EveryoneDeliversAgain` speaks of releases, and says nothing of what is parked now.
`WaveInv` adds what is true of the wave under way: since the oldest parked arrival nobody has
delivered twice, and everybody who delivered is in `seen`; a released wave holds nothing. A delivery
by somebody not seen then extends a wave without a repeat, and one by somebody seen starts over.
Freedom from stale siblings needs `RoundsDoNotOverlap` as well: in a factory that is `Paced` (a join
of all, looping back only through its collector, with no flight past it) the planner runs only with
nothing parked and nobody asked.

*Charter.* Validation walks a graph before anything runs; the Tower looks up one route at a time.
`Judicious` ties them together: a chain has one scope, of ways in its factory has (`Framed`); whoever
runs is in the reach of one of them, and of what a chain of its own workflow can wake (`InReach`);
and in work never set down each agent is as many flights from the start as hops were spent, whoever
sent a flight now parked included (`InHops`). The lemmas about `Reached` and `Walk` say that what
validation computes is closed under one more route, and is what can be got to.

*Lifecycle.* The invariant is the conjunction `TypeOK`, `Unstarted`, `OneMind`, `Accounted`,
`Line`. `Unstarted` ties the queue and the early stages to `starts = 0`, which gives "once".
`OneMind` says a Tower settles what is left or runs work and never both. `Accounted` follows each
marked run from the live list to history, and says of one that is in neither that its own mark or its
own append failed: whatever else fails, nothing takes another run off the list. `Line`, which needs
that live records can be removed, carries the rest: whatever of a
work may still start, restart or be settled is its newest attempt, any older attempt has no process
running, and a restart is owed only where the process is known to be gone.

*Prompts.* `Carried` follows the choice through every form the work takes, and what a Tower recorded
of the chain beside it. For composition, `Validated` says that what is on disk and what the Tower
read both passed, with the same prompts, and `Covered` that the flags of a chain no workflow opened
were made by some factory that passed. The walk that validation makes over includes ignores
conditions and the one at run time follows them: at each depth a node of the second is a node of the
first, and what the first accepts tests only flags that are declared. Facts about a recursive function
are proved by descent: `Least` picks the first number at which a claim fails, from the
well-foundedness of the naturals, and the step before it gives the contradiction.

*Drain.* The caps hold although they are read several steps before they are used because only the
coordinator adds to `alive`, with one flight in hand: between the read and the launch others can
only leave. `LimitsInv` says so: while a flight is in hand a slot of the factory and of its agent
is free for it. That the Tower waits for its runs needs `HandInv` (one flight in hand, and when it
is counted) and `FlyingInv` (whatever is alive is flying, a flight is taken once, and the
coordinator leaves with nothing flying). For the dead rendezvous, `JoinInv` follows the last pass of
a dispatch: with nothing flying all that was sent has been asked for (`Asked`), the pass has looked
at all that waits (`PassedAll`), and what it passed over only a drain holds back (`Passed`), which
holds no flight of a parked rendezvous. The steps it excepts are `Undone`: a drain called off, after
which what was passed over is not looked at again, a flight that stays on the queue, and a queue that
counts as empty because it could not be read.

*Rails.* `FuelInv` counts a run at its worst from its start: what is spent plus `MaxCost` for each
run that may still be charged is less than the budget plus what all slots cost. Admission needs
`spent < budget` and a free slot, a charge moves a run from one side to the other. Runs left by a
Tower are among those still to be charged to the account its successor opens. `CountInv` does the
same for the run cap, with the case that reconciliation counts nothing once a chain is exhausted.
`ReserveInv` does it for the window: the ledger, age by age, holds at least what was paid (`Filed`),
so admission, which reads the ledger, bounds the sum of what was paid in every window. `SumCounts`
shows the library's sum to be the size of a set, from which what a payment and a tick do to it follows.

*Journal.* Every step but a rename, an append, a skip, a return, a failure or a crash leaves what
`Shelf` sees unchanged. That a rename is one change to the document as it stands needs the copy
still to be what the document holds: whoever has read holds the lock of what it read, or is a sweep
at the process's start, when nobody else is in a call; and nobody writes a document whose lock it
does not hold. With two processes that is false, and `Journal_two` shows it. `AnsweredOnce` adds
`Answered`: of each run either no continuation waits, or one does and nothing it asked is open, or the
thread that queued it is between its writes, holds the lock that answers need, and has all that is
open among the changes it has still to make.

*Learnings.* `Paying` and `Document` say that entries are told apart by their number and that each
lapse on record was paid for in runs of its agent. `Spread` bounds the runs a learning has been given
to by what it has left, the runs of its agent under way and the charges that failed. `Differing`, of
two texts of an agent neither says what the other does, keeps a rejected text out only where saying
the same is transitive.

*Floor.* `ReachInv` says that a flight's scope covers every workflow in its lineage, and that what is
recorded of a chain and what a layover keeps do as well; each of the ways one piece of work becomes
another keeps it. `OwedInv` ties the loop's hand to the layover it has queued and not yet marked.
`OnceInv` adds that, as long as nothing failed, a layover still waiting has been queued only if it is
the one in the loop's hand. A second wave is kept out by `IdleInv`: between the two reads a workflow
found idle can gain work its clock set off only from a run of such work, and there is none.

*Update.* Whoever is past claiming and has not begun to hand over in place holds the lock
(`HoldersHold`), and the lock is a living process's; whoever installs drains (`ChangingDrains`), so
only a holder may start work. The step that could break it is `Resume`: a Tower whose hand-over
failed takes the lock without looking who has it. `OneLine` says that without a supervisor nobody is
up beside it but the successor it waits for, which it kills before it goes on, and
`SuccessorSettles` that the successor has not itself begun to install. That in turn needs the
open request to be the one already handed over for (`ChangingIsAsked`, `WrittenIsHandedOver`), so
that the successor takes it for settled. `Update_bystander` is the run in which `OneLine` is false.

What says that a request was applied is a Tower that answers as the version it asked for, so
`AppliedIsInPlace` needs whoever may say so to be the version in place. `PlaceInv` follows that from
the start, where the lock is taken (`ArrivingIsInPlace`, `SuccessorIsInPlace`), through a proof that is
due (`DueIsInPlace`: the record may have moved on, and then the proof is given up) and an install
begun before the proof was given (`KeptIsInPlace`: what is put back if it fails is what was there).
`Beside` shows that only a Tower still to claim the lock is there when the binary changes. It is the
one exception: a Tower started while another serves, as a supervisor may, can claim the lock after an
install that went on meanwhile. It then keeps the newer binary aside under its own version's name, a later rollback puts
that one back, and another such Tower says the older version is back. No process of a Tower without a
supervisor can be overtaken so (`ClaimInv`).

*Machine.* `Says`: what a gate records is what that version said of the edition it was asked about,
heard by the program that asked, and jobs and requests carry it on; `Edit` leaves it as it was.
`Layouts`: what a note says of the layout is relative to whoever staged, and everything that is ever
installed has the layout everything began with. `Stages`: one actor at a time writes a release, never one that is ready, and notes it once its
binary is whole. `Disk`: a Tower at work is the version at its path, so what it replaces goes under its
own name; what it copies from a ready release or from a kept binary is what it was asked for.

Only model-checked: liveness, which is out of the prover's reach. `FlightRunsOnce`,
`OneFlightPerAttempt`, `RunCapHolds` and `TokensDieWithRuns` are proved and left out of the runs.
Recursive definitions are functions, and what the proofs need of them is proved by descent: the
library's induction theorems take an operator as a parameter and are not used.

## 5. Abstractions

- Data: flights, works, chains and agents are names. Amounts are whole units of money, and a run's
  cost is any amount up to `MaxCost`, negative included, before `Debit`.
- Time: a tick of the Reserve's window in `Rails`, a day in `Learnings`. Elsewhere a deadline may
  pass whenever it is looked at.
- `Lifecycle`: one Tower at a time; requests for help and the ageing of learnings that accompany a
  record are left out; a work is asked for once, its restarts are its later attempts. Rewrites of the
  queue are taken to succeed when a flight is taken off it (`Drain` has them fail), and the transcript's
  hangar to be written. A process that
  could not be waited for is outside every claim about running processes but `NoRunBesideAnother`.
- `Drain`: no Ground Stop, no restarts backing off, no switched-off workflows, no cut-off at an
  install's deadline. The queue is a set looked at in any order. A worker's forgetting and its
  message are one step. A chain flies each edge once, which bounds the work. An `any` join holds
  nothing, so no drain waits for one. "In flight" is what the factory accounts as alive: a process
  that could not be waited for is not.
- `Rails`: slots are the factory's cap only. Admission and launch are one step; so are unmarking,
  restarting and forgetting, which `Lifecycle` has apart. A history that cannot be read opens the
  Reserve; the bound assumes it is read, and that each record is appended (`Lifecycle` has the append fail).
  Spend nobody recorded (`WaitFails`) is in no bound. The
  attempts of restarts are bounded in `Lifecycle` and not here. A resumed layover is a fresh chain.
- `Journal`: an entry is a key and what it says, and a new entry has a key of its own; an append is
  one step. The dashboard's judgement, which holds its lock for the write only, is a call of
  `Journal_judge` and not of the run.
- `Floor`: one Tower after another. Costs, barriers and records are elsewhere. The passing run takes
  the queue to be read (`Unreadable = FALSE`) and no waves to overlap (`Overlapping = {}`; the
  properties hold with `{"z"}` as well). The passing run and
  `NoSecondWaveStarts` take each call to be answered before its run is forgotten (`LateCalls =
  FALSE`); `Floor_late` is what happens otherwise.
- `Update`: in the passing run people do not put requests over one another (`Hasty`) and start no
  Tower while one hands over (`Bystanders`). `RequestsEnd` excepts a Tower that was handed over to,
  serves and has no proof left to give, which the code forgets (`Unproven`), and, with
  `LeftBehindIsSettled`, a version that never answers where no record says how to leave it
  (`Stranded`). The hand-over record and the progress of a request are taken to be written: the code
  ignores a `put_handover` that fails (`arriving.rs:90`, `:101`, `:148`), so that a boot may go
  uncounted, and a `put_request` that fails (`handover.rs:144`), so that a request may look unbegun.
- `Machine`: one channel. A release's age, the window for installs and an idle factory are folded
  into a `Wait` of any length. The passing run gives each factory its own installation and stages
  nothing over a staged release. `gh`, once signed in, stays so. What an older version refuses to be
  upgraded from shows as an install that fails. Hand-over records and gates are taken to be written,
  though the code ignores the failure of either; a gate's two readings of `layover.toml` are one; the
  `[update]` policy does not change while its Tower serves. A release that fails a later start and is
  rolled back by that is `Update`'s. `ReleasesArrive` excepts the cases of `Stuck`.
- `Charter`: all agents are declared and only factories without errors are followed. A line of work
  is one chain at a time; a released flight goes on with the hops of one of those that were parked;
  the waves of a barrier are left to `Barrier`; work set down without a recorded scope is left out.
- `Prompts`: only factories in which `layover validate` finds no error are followed, though `serve`
  runs others too. A person edits workflows and flags, never routes or prompts; a run that is refused is
  followed no further; that a prompt names only tools there are is not modelled. The limits on depth
  and expansions are 3 and 4 instead of 8 and 1000.
- `Learnings`: one agent in the passing run, whose texts match transitively. A text is its
  significant words and whether it negates; a person's judgement is one of `MaxTrouble`.

Bounds: `MaxRounds` (`Barrier`); `MaxFlights`, `MaxStops`, `MaxGrounds`, `MaxFaults`
(`Lifecycle`, whose faults are pairs of a run and what failed); `MaxUpdates`, `MaxFaults` (`Drain`, rewrites and readings of the queue); `MaxQueued`, `MaxStops` (`Rails`); `MaxCalls`, `MaxFaults`, `MaxCrashes`
(`Journal`); `MaxMade`, `MaxLayovers`, `MaxMishaps` (`Floor`); `MaxAsked`, `MaxMishaps` (`Update`);
`MaxEvents` (`Machine`); `MaxEdits`, `MaxRestarts` (`Prompts`); `Ids`, `MaxDays`, `MaxTrouble`
(`Learnings`). `Charter`'s walks end with their hops. The other numeric constants are the program's
own settings. The safety theorems of section 4 hold
whatever the bounds are.

## 6. Not modelled

- What providers' programs write and what it costs, and the MCP and HTTP protocols: parsing and
  formatting. Their outcome is a choice in the modules above.
- Rates, time zones, windows of the ledger: arithmetic on data TLC cannot enumerate.
- Archives, checksums, signatures and manifests of a release: an input of `Machine`.
- The dashboard's views, the command line's text, doctor and autostart, diagrams, the generated HTTP
  server, the repository's own checks: they decide nothing the parts above rely on.
- Retention and the layout of segments and hangars: files that only grow old.

`PROJECT.json` names each part with its status and reason.

## 7. What is left

1. `Owner`: the moment between creating an owner's file and locking it, for two Towers that start
   together; today `Update` has only the lock that keeps one of them out later.
2. Two people who ask a Tower to stop in different ways at once (`store/stop.rs:68`).
3. `Drain`, `Rails` and `Lifecycle` shown to implement one abstract dispatcher in which a flight is
   waiting, running or done.
