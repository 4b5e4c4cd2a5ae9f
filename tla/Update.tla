------------------------------- MODULE Update -------------------------------
(***************************************************************************)
(* A Tower that installs a release into itself: the request on disk, the   *)
(* drain, the swap of the binary, the record left for the Tower that comes *)
(* after it, the two ways back up (restarted by a supervisor, or handed    *)
(* over in place), and the new Tower that proves itself or is rolled back. *)
(* A Tower is one process; any of them may die between two writes. What it *)
(* runs is kept to what an install does to it: who started it, and whether *)
(* it was left behind.                                                     *)
(***************************************************************************)
EXTENDS Naturals, FiniteSets

CONSTANTS
  Slots,        \* the processes there may be at once
  Newest,       \* versions are 1 .. Newest, and Newest is the release on offer
  Installed,    \* the version installed to begin with; the one before it is kept
  NoVersion,
  Nobody,
  Tasks,        \* the work there is to run
  Manual,       \* those of agents whose recovery is "manual"
  Supervision,  \* whether a supervisor may be there, and whether it may not
  Failing,      \* sets of versions that may turn out to start and never answer
  MaxAsked,     \* requests made
  MaxMishaps,   \* crashes, failed writes, slow answers and requests to stop
  Hasty,        \* whether people ask and cancel while an install is under way
  Bystanders    \* whether a Tower may be started in place while one hands over

Versions == 1..Newest

ASSUME UpdateAssumption ==
  /\ Newest \in Nat /\ Installed \in 2..Newest
  /\ NoVersion \notin Versions /\ Nobody \notin Slots
  /\ Manual \subseteq Tasks
  /\ Supervision \subseteq BOOLEAN
  /\ Failing \subseteq SUBSET Versions

VARIABLES
  supervised, broken, \* chosen once: who restarts a Tower, and which versions never answer
  binary,    \* the version at the path the factory is served from
  kept,      \* what is kept aside beside it under a version's name, and whose binary that is
  skipped,   \* the versions not to be offered again
  request,   \* update/request.json
  record,    \* update/handover.json
  serving,   \* who holds serving.lock
  tower,     \* the processes
  work,      \* [Tasks -> where it is and whose]
  stop,      \* whether a stop is asked for
  asked, mishaps

files == <<binary, kept, skipped, request, record>>
bounds == <<asked, mishaps>>
vars == <<supervised, broken, files, serving, tower, work, stop, bounds>>

---------------------------------------------------------------------------
(* The two documents *)

Nothing == [version |-> NoVersion]

IsOpen(r) == r # Nothing /\ r.outcome = "none"

\* Adds a line to whatever request is on disk, and ends it when an outcome is given.
Progress(outcome) ==
  IF request = Nothing \/ outcome = "none" THEN request
  ELSE [request EXCEPT !.outcome = outcome]

\* The record was written for this request: it names its version, and is no older.
HandedOver(r) == record.to = r.version /\ record.started >= r.at

IsUnsettled == record.state = "open"

SkipOf(v) == skipped \cup {v}

IsKept(v) == kept[v] # NoVersion

Handover(from, to, state) ==
  [from |-> from, to |-> to, started |-> asked, boots |-> 0, late |-> FALSE, state |-> state]

---------------------------------------------------------------------------
(* Processes *)

Absent == [at |-> "off", version |-> NoVersion, asked |-> Nothing, drains |-> FALSE,
           child |-> Nobody, proof |-> "none"]

Up(p) == tower[p].at # "off"
NoneUp == \A p \in Slots : ~Up(p)

\* The Tower's loop runs: work starts unless it drains.
Loops(p) == tower[p].at \in {"looping", "serving", "draining", "ready", "swapped", "written",
                             "handing", "waiting", "undoing", "undone", "stopping"}

MayStartWork(p) == Loops(p) /\ ~tower[p].drains

\* Someone is between taking a request and having ended it.
Installing == \E p \in Slots : tower[p].at \in {"draining", "ready", "swapped", "written",
                                                "handing", "waiting", "undoing", "undone"}

Of(p) == {t \in Tasks : work[t].owner = p}
AliveOf(p) == {t \in Of(p) : work[t].at = "alive"}

\* A run nobody watches: cut off, or its Tower has gone.
IsLeftBehind(t) == work[t].at = "cut" \/ (work[t].at = "alive" /\ work[t].owner = Nobody)

\* Recovery records the run as interrupted, and queues it again unless its agent's work must not
\* be done twice.
Settle(ts) ==
  [t \in Tasks |->
    IF t \notin ts THEN work[t]
    ELSE [at |-> IF t \in Manual THEN "over" ELSE "queued", owner |-> Nobody]]

IsFree(p) == ~Up(p) /\ \A q \in Slots : tower[q].child # p

Begin(p) == [Absent EXCEPT !.at = "claiming", !.version = binary]

Release(p) == IF serving = p THEN Nobody ELSE serving

Goto(p, place) == tower' = [tower EXCEPT ![p].at = place]

\* With a process go its locks: on serving, and on the runs it owned.
Left(p) == [t \in Tasks |-> IF work[t].owner = p THEN [work[t] EXCEPT !.owner = Nobody] ELSE work[t]]

Gone(p) ==
  /\ tower' = [tower EXCEPT ![p] = Absent]
  /\ serving' = Release(p)
  /\ work' = Left(p)

Init ==
  /\ supervised \in Supervision
  /\ broken \in Failing
  /\ binary = Installed
  /\ kept = [v \in Versions |-> IF v = Installed - 1 THEN v ELSE NoVersion]
  /\ skipped = {}
  /\ request = Nothing
  /\ record = [from |-> Installed - 1, to |-> Installed, started |-> 0, boots |-> 1,
               late |-> FALSE, state |-> "healthy"]
  /\ serving = Nobody
  /\ tower = [p \in Slots |-> Absent]
  /\ work = [t \in Tasks |-> [at |-> "queued", owner |-> Nobody]]
  /\ stop = FALSE
  /\ asked = 0 /\ mishaps = 0

Rigid == UNCHANGED <<supervised, broken>>

Mishap == mishaps < MaxMishaps /\ mishaps' = mishaps + 1

---------------------------------------------------------------------------
(* Starting *)

\* `serve`: by the supervisor or a person when no Tower is up, or by anyone at any time.
Start(p) ==
  /\ IsFree(p) /\ (NoneUp \/ supervised \/ Bystanders)
  /\ IF NoneUp THEN UNCHANGED mishaps ELSE Mishap
  /\ tower' = [tower EXCEPT ![p] = Begin(p)]
  /\ Rigid /\ UNCHANGED <<files, serving, work, stop, asked>>

Claim(p) ==
  /\ tower[p].at = "claiming"
  /\ IF serving = Nobody
     THEN serving' = p /\ Goto(p, "arriving")
     ELSE UNCHANGED serving /\ tower' = [tower EXCEPT ![p] = Absent]
  /\ Rigid /\ UNCHANGED <<files, work, stop, bounds>>

\* An open request is this version's to carry on with, or was taken by a Tower that went away.
ArriveRequest(p) ==
  LET v == tower[p].version IN
  /\ tower[p].at = "arriving"
  /\ request' = IF IsOpen(request) /\ ~(request.version = v /\ HandedOver(request))
                THEN Progress("cancelled") ELSE request
  /\ Goto(p, "recording")
  /\ Rigid /\ UNCHANGED <<binary, kept, skipped, record, serving, work, stop, bounds>>

MaxBoots == 3 \* `boots` only matters past two

\* (variant) the start is not written down
ArriveRecordForgets(p) ==
  /\ tower[p].at = "recording"
  /\ IF record.to = tower[p].version /\ IsUnsettled
     THEN tower' = [tower EXCEPT ![p].at = "opening", ![p].proof = "due"]
     ELSE Goto(p, "opening")
  /\ Rigid /\ UNCHANGED <<files, serving, work, stop, bounds>>

\* A new version's own start, counted and written; or what is on record is not this version.
ArriveRecord(p) ==
  LET v == tower[p].version
      boots == IF record.boots < MaxBoots THEN record.boots + 1 ELSE MaxBoots
      overdue == boots > 2 \/ record.late
  IN
  /\ tower[p].at = "recording"
  /\ \/ /\ record.to = v /\ IsUnsettled /\ overdue /\ supervised
        /\ Goto(p, "reverting")
        /\ UNCHANGED <<kept, skipped, record>>
     \/ /\ record.to = v /\ IsUnsettled /\ ~(overdue /\ supervised)
        /\ record' = [record EXCEPT !.boots = boots]
        /\ tower' = [tower EXCEPT ![p].at = "opening", ![p].proof = "due"]
        /\ UNCHANGED <<kept, skipped>>
     \/ /\ record.to # v /\ record.from = v /\ IsUnsettled
        /\ record' = [record EXCEPT !.state = "back"]
        /\ skipped' = SkipOf(record.to)
        /\ Goto(p, "opening")
        /\ UNCHANGED kept
     \/ /\ ~IsUnsettled \/ v \notin {record.from, record.to}
        \* keep_previous may have run out since it was found healthy
        /\ \E old \in {FALSE, record.state = "healthy"} :
             kept' = IF old THEN [kept EXCEPT ![record.from] = NoVersion] ELSE kept
        /\ Goto(p, "opening")
        /\ UNCHANGED <<skipped, record>>
  /\ Rigid /\ UNCHANGED <<binary, request, serving, work, stop, bounds>>

\* What was kept under a version's name is put back, or cannot be.
PutBack(v) ==
  \/ IsKept(v) /\ binary' = kept[v] /\ UNCHANGED mishaps
  \/ IsKept(v) /\ Mishap /\ UNCHANGED binary
  \/ ~IsKept(v) /\ UNCHANGED <<binary, mishaps>>

\* roll_back_self: the version before is put back, or cannot be.
Revert(p) ==
  /\ tower[p].at = "reverting"
  /\ PutBack(record.from)
  /\ Goto(p, "reverted")
  /\ Rigid /\ UNCHANGED <<kept, skipped, request, record, serving, work, stop, asked>>

\* ... the request and the record say so whatever came of it, and the Tower exits 75.
Reverted(p) ==
  /\ tower[p].at = "reverted"
  /\ request' = IF IsOpen(request) THEN Progress("failed") ELSE request
  /\ record' = [record EXCEPT !.state = "back"]
  /\ skipped' = SkipOf(record.to)
  /\ Gone(p)
  /\ Rigid /\ UNCHANGED <<binary, kept, stop, bounds>>

\* A version that never answers ends while it opens.
Dies(p) ==
  /\ tower[p].at = "opening" /\ tower[p].version \in broken
  /\ Gone(p)
  /\ Rigid /\ UNCHANGED <<files, stop, bounds>>

\* (variant) what was left behind is not looked at
OpenUnsettled(p) ==
  /\ tower[p].at = "opening" /\ tower[p].version \notin broken
  /\ stop' = FALSE
  /\ Goto(p, "looping")
  /\ Rigid /\ UNCHANGED <<files, serving, work, bounds>>

\* The Tower opens: runs whose owner is gone are settled, a stale stop is cleared, the loop starts.
Open(p) ==
  /\ tower[p].at = "opening" /\ tower[p].version \notin broken
  /\ work' = Settle({t \in Tasks : work[t].at \in {"alive", "cut"} /\ work[t].owner = Nobody})
  /\ stop' = FALSE
  /\ Goto(p, "looping")
  /\ Rigid /\ UNCHANGED <<files, serving, bounds>>

\* The dashboard is bound: the address answers as this version.
Bind(p) ==
  /\ tower[p].at = "looping"
  /\ Goto(p, "serving")
  /\ Rigid /\ UNCHANGED <<files, serving, work, stop, bounds>>

---------------------------------------------------------------------------
(* Work *)

Launch(p, t) ==
  /\ MayStartWork(p) /\ work[t].at = "queued"
  /\ work' = [work EXCEPT ![t] = [at |-> "alive", owner |-> p]]
  /\ Rigid /\ UNCHANGED <<files, serving, tower, stop, bounds>>

RunEnds(t) ==
  /\ work[t].at = "alive" /\ work[t].owner # Nobody
  /\ work' = [work EXCEPT ![t] = [at |-> "over", owner |-> Nobody]]
  /\ Rigid /\ UNCHANGED <<files, serving, tower, stop, bounds>>

---------------------------------------------------------------------------
(* Asking *)

\* The release on offer to a program of version v: newer, and not skipped.
Offered(v) == Newest > v /\ Newest \notin skipped

Ask(v, rollback, by) ==
  /\ asked < MaxAsked /\ asked' = asked + 1
  /\ request' = [version |-> v, rollback |-> rollback, by |-> by, at |-> asked + 1,
                 outcome |-> "none"]

\* The dashboard and the watcher, which refuse while a request is open.
AskToInstall(p, by) ==
  /\ IF by = "dashboard" THEN tower[p].at \in {"serving", "draining"} ELSE Loops(p)
  /\ ~IsOpen(request) /\ Offered(tower[p].version)
  /\ by = "watcher" => ~stop
  /\ Hasty \/ ~Installing
  /\ Ask(Newest, FALSE, by)
  /\ Rigid /\ UNCHANGED <<binary, kept, skipped, record, serving, tower, work, stop, mishaps>>

\* `layover update apply` while a Tower serves, which does not look; with --including-manual.
AskFromShell ==
  /\ serving # Nobody /\ Offered(binary)
  /\ Hasty \/ ~(Installing \/ IsOpen(request))
  /\ Ask(Newest, FALSE, "shell")
  /\ Rigid /\ UNCHANGED <<binary, kept, skipped, record, serving, tower, work, stop, mishaps>>

\* Going back: `layover update rollback` while a Tower serves, and the dashboard's button. Neither
\* looks at the request there is.
AskToRollBack ==
  /\ serving # Nobody
  /\ record.to = binary /\ IsKept(record.from)
  /\ Hasty \/ ~(Installing \/ IsOpen(request))
  /\ Ask(record.from, TRUE, "dashboard")
  /\ skipped' = SkipOf(binary)
  /\ Rigid /\ UNCHANGED <<binary, kept, record, serving, tower, work, stop, mishaps>>

CancelInstall ==
  /\ IsOpen(request)
  /\ \E p \in Slots : tower[p].at \in {"serving", "draining"}
  /\ request' = Progress("cancelled")
  /\ Mishap
  /\ Rigid /\ UNCHANGED <<binary, kept, skipped, record, serving, tower, work, stop, asked>>

\* `layover update apply` and `rollback` with no Tower serving: the binary is replaced there and then.
Replace ==
  /\ serving = Nobody /\ (Hasty \/ NoneUp)
  /\ asked < MaxAsked /\ asked' = asked + 1
  /\ \E v \in {Newest, record.from} :
       /\ \/ v = Newest /\ Offered(binary) /\ binary' = v /\ UNCHANGED skipped
          \/ /\ v = record.from /\ record.to = binary /\ IsKept(v)
             /\ binary' = kept[v]
             /\ skipped' = SkipOf(binary)
       /\ record' = [Handover(binary, v, "healthy") EXCEPT !.started = asked + 1]
  /\ kept' = [kept EXCEPT ![binary] = binary]
  /\ Rigid /\ UNCHANGED <<request, serving, tower, work, stop, mishaps>>

AskToStop ==
  /\ ~stop /\ ~NoneUp /\ Mishap
  /\ stop' = TRUE
  /\ Rigid /\ UNCHANGED <<files, serving, tower, work, asked>>


---------------------------------------------------------------------------
(* Draining for an install *)

\* A serving Tower looks at what was asked of it: a stop first, then a request that no Tower has
\* already handed over for.
TakeStop(p) ==
  /\ tower[p].at = "serving" /\ stop
  /\ tower' = [tower EXCEPT ![p].at = "stopping", ![p].drains = TRUE]
  /\ Rigid /\ UNCHANGED <<files, serving, work, stop, bounds>>

TakeRequest(p) ==
  /\ tower[p].at = "serving" /\ ~stop
  /\ IsOpen(request) /\ ~HandedOver(request)
  /\ tower' = [tower EXCEPT ![p].at = "draining", ![p].drains = TRUE, ![p].asked = request]
  /\ Rigid /\ UNCHANGED <<files, serving, work, stop, bounds>>

DrainStopped(p) ==
  /\ tower[p].at = "draining" /\ stop
  /\ request' = Progress("cancelled")
  /\ Goto(p, "stopping")
  /\ Rigid /\ UNCHANGED <<binary, kept, skipped, record, serving, work, stop, bounds>>

\* There is no open request any more.
DrainAbandoned(p) ==
  /\ tower[p].at = "draining" /\ ~stop /\ ~IsOpen(request)
  /\ tower' = [tower EXCEPT ![p].at = "serving", ![p].drains = FALSE]
  /\ Rigid /\ UNCHANGED <<files, serving, work, stop, bounds>>

StillAsked(p) == tower[p].at = "draining" /\ ~stop /\ IsOpen(request)

DrainQuiet(p) ==
  /\ StillAsked(p) /\ AliveOf(p) = {}
  /\ Goto(p, "ready")
  /\ Rigid /\ UNCHANGED <<files, serving, work, stop, bounds>>

\* The window of an unattended install has closed, or work that must not be done twice still runs
\* at the deadline.
Postpone(p) ==
  /\ StillAsked(p) /\ AliveOf(p) # {}
  /\ \/ tower[p].asked.by = "watcher"
     \/ AliveOf(p) \cap Manual # {} /\ tower[p].asked.by # "shell"
  /\ request' = Progress("postponed")
  /\ tower' = [tower EXCEPT ![p].at = "serving", ![p].drains = FALSE]
  /\ Rigid /\ UNCHANGED <<binary, kept, skipped, record, serving, work, stop, bounds>>

\* The deadline cuts off what still runs, for recovery to settle.
CutOff(p) ==
  /\ StillAsked(p) /\ AliveOf(p) # {}
  /\ AliveOf(p) \cap Manual = {} \/ tower[p].asked.by = "shell"
  /\ work' = [t \in Tasks |-> IF t \in AliveOf(p) THEN [work[t] EXCEPT !.at = "cut"] ELSE work[t]]
  /\ Goto(p, "ready")
  /\ Rigid /\ UNCHANGED <<files, serving, stop, bounds>>

\* A Tower that was asked to stop exits once nothing of its own is alive.
Stops(p) ==
  /\ tower[p].at = "stopping" /\ AliveOf(p) = {}
  /\ stop' = FALSE
  /\ Gone(p)
  /\ Rigid /\ UNCHANGED <<files, bounds>>

---------------------------------------------------------------------------
(* Handing over *)

\* Carrying on after an install that failed: the lock is taken again when it is free, what this
\* Tower cut off is settled, work starts again, and the dashboard is bound again.
Resumed(p) == [tower[p] EXCEPT !.at = "looping", !.drains = FALSE, !.child = Nobody]

Resume(p) ==
  /\ serving' = IF serving = Nobody THEN p ELSE serving
  /\ work' = Settle({t \in Of(p) : work[t].at = "cut"})
  /\ tower' = [tower EXCEPT ![p] = Resumed(p)]

\* The verified release, or what the record kept aside as that version.
HasSource(r) == r.rollback => record.from = r.version /\ IsKept(r.version)

SourceOf(r) == IF r.rollback THEN kept[r.version] ELSE r.version

\* What is replaced is kept as the version this Tower is.
Swap(p) ==
  /\ tower[p].at = "ready" /\ HasSource(tower[p].asked)
  /\ binary' = SourceOf(tower[p].asked)
  /\ kept' = [kept EXCEPT ![tower[p].version] = binary]
  /\ Goto(p, "swapped")
  /\ Rigid /\ UNCHANGED <<skipped, request, record, serving, work, stop, bounds>>

\* No source, the machine's install lock is held, or the swap failed and was taken back: by then
\* what was kept as this version may be gone.
SwapFails(p) ==
  /\ tower[p].at = "ready"
  /\ \/ /\ HasSource(tower[p].asked) /\ Mishap
        /\ kept' \in {kept, [kept EXCEPT ![tower[p].version] = NoVersion]}
     \/ ~HasSource(tower[p].asked) /\ UNCHANGED <<kept, mishaps>>
  /\ request' = Progress("failed")
  /\ Resume(p)
  /\ Rigid /\ UNCHANGED <<binary, skipped, record, stop, asked>>

\* The record is written between the swap and the exit.
WriteHandover(p) ==
  /\ tower[p].at = "swapped"
  /\ record' = Handover(tower[p].version, tower[p].asked.version, "open")
  /\ Goto(p, "written")
  /\ Rigid /\ UNCHANGED <<binary, kept, skipped, request, serving, work, stop, bounds>>

WriteHandoverFails(p) ==
  /\ tower[p].at = "swapped" /\ Mishap
  /\ binary' = IF IsKept(tower[p].version) THEN kept[tower[p].version] ELSE binary
  /\ request' = Progress("failed")
  /\ Resume(p)
  /\ Rigid /\ UNCHANGED <<kept, skipped, record, stop, asked>>

\* Under a supervisor the Tower exits 75; in place it gives the lock up first.
Exit75(p) ==
  /\ tower[p].at = "written" /\ supervised
  /\ Gone(p)
  /\ Rigid /\ UNCHANGED <<files, stop, bounds>>

GiveUpServing(p) ==
  /\ tower[p].at = "written" /\ ~supervised
  /\ serving' = Release(p)
  /\ Goto(p, "handing")
  /\ Rigid /\ UNCHANGED <<files, work, stop, bounds>>

StartSuccessor(p, q) ==
  /\ tower[p].at = "handing" /\ IsFree(q)
  /\ tower' = [tower EXCEPT ![q] = Begin(q), ![p].at = "waiting", ![p].child = q]
  /\ Rigid /\ UNCHANGED <<files, serving, work, stop, bounds>>

SuccessorFails(p) ==
  /\ tower[p].at = "handing" /\ Mishap
  /\ Goto(p, "undoing")
  /\ Rigid /\ UNCHANGED <<files, serving, work, stop, asked>>

Outcome(r) == IF r.rollback THEN "rolled_back" ELSE "applied"

\* The address answers as the new version: the request has ended, and this Tower exits.
Answered(p) ==
  /\ tower[p].at = "waiting"
  /\ \E q \in Slots : tower[q].at = "serving" /\ tower[q].version = tower[p].asked.version
  /\ request' = Progress(Outcome(tower[p].asked))
  /\ Gone(p)
  /\ Rigid /\ UNCHANGED <<binary, kept, skipped, record, stop, bounds>>

\* (variant) the child is not killed
NotAnsweredLeft(p) ==
  /\ tower[p].at = "waiting" /\ Mishap
  /\ tower' = [tower EXCEPT ![p].at = "undoing", ![p].child = Nobody]
  /\ Rigid /\ UNCHANGED <<files, serving, work, stop, asked>>

\* The child is gone, or is slow to answer and is killed: what it started goes on without it.
NotAnswered(p) ==
  LET q == tower[p].child IN
  /\ tower[p].at = "waiting"
  /\ IF Up(q) THEN Mishap ELSE UNCHANGED mishaps
  /\ tower' = [tower EXCEPT ![q] = Absent, ![p].at = "undoing", ![p].child = Nobody]
  /\ serving' = Release(q)
  /\ work' = Left(q)
  /\ Rigid /\ UNCHANGED <<files, stop, asked>>

\* The old binary is put back, or cannot be.
Undo(p) ==
  /\ tower[p].at = "undoing"
  /\ PutBack(tower[p].version)
  /\ Goto(p, "undone")
  /\ Rigid /\ UNCHANGED <<kept, skipped, request, record, serving, work, stop, asked>>

\* (variant) the request is left as it is
UndoneUnsaid(p) ==
  /\ tower[p].at = "undone"
  /\ skipped' = IF tower[p].asked.rollback THEN skipped ELSE SkipOf(tower[p].asked.version)
  /\ record' = [record EXCEPT !.state = "back"]
  /\ Resume(p)
  /\ Rigid /\ UNCHANGED <<binary, kept, request, stop, bounds>>

Undone(p) ==
  /\ tower[p].at = "undone"
  /\ skipped' = IF tower[p].asked.rollback THEN skipped ELSE SkipOf(tower[p].asked.version)
  /\ record' = [record EXCEPT !.state = "back"]
  /\ request' = Progress("failed")
  /\ Resume(p)
  /\ Rigid /\ UNCHANGED <<binary, kept, stop, bounds>>

---------------------------------------------------------------------------
(* Proving *)

\* (variant) whatever the request asks for
ProveAny(p) ==
  /\ tower[p].at \in {"serving", "draining"} /\ tower[p].proof = "due"
  /\ ~record.late /\ record.to = tower[p].version /\ record.state # "back"
  /\ request' = IF IsOpen(request) THEN Progress(Outcome(request)) ELSE request
  /\ tower' = [tower EXCEPT ![p].proof = "answered"]
  /\ Rigid /\ UNCHANGED <<binary, kept, skipped, record, serving, work, stop, bounds>>

\* The new Tower's loop has gone round and its address answers: the request under way has ended ...
Prove(p) ==
  LET v == tower[p].version IN
  /\ tower[p].at \in {"serving", "draining"} /\ tower[p].proof = "due"
  /\ ~record.late /\ record.to = v /\ record.state # "back"
  /\ request' = IF IsOpen(request) /\ request.version = v THEN Progress(Outcome(request)) ELSE request
  /\ tower' = [tower EXCEPT ![p].proof = "answered"]
  /\ Rigid /\ UNCHANGED <<binary, kept, skipped, record, serving, work, stop, bounds>>

\* ... and it is healthy.
Proved(p) ==
  /\ Up(p) /\ tower[p].proof = "answered"
  /\ record' = [record EXCEPT !.state = "healthy"]
  /\ tower' = [tower EXCEPT ![p].proof = "none"]
  /\ Rigid /\ UNCHANGED <<binary, kept, skipped, request, serving, work, stop, bounds>>

\* It has run out of time to, or did not answer when it asked itself: it is never tried again.
ProofGivenUp(p) ==
  /\ Up(p) /\ tower[p].proof = "due"
  /\ \/ record.to # tower[p].version \/ record.state = "back" \/ record.late
     \/ tower[p].at \in {"serving", "draining"}
  /\ IF record.to = tower[p].version /\ record.state # "back" /\ ~record.late
     THEN Mishap ELSE UNCHANGED mishaps
  /\ tower' = [tower EXCEPT ![p].proof = "none"]
  /\ Rigid /\ UNCHANGED <<files, serving, work, stop, asked>>

---------------------------------------------------------------------------
(* What may happen at any time *)

TimePasses ==
  /\ IsUnsettled /\ ~record.late /\ Mishap
  /\ record' = [record EXCEPT !.late = TRUE]
  /\ Rigid /\ UNCHANGED <<binary, kept, skipped, request, serving, tower, work, stop, asked>>

Crash(p) ==
  /\ Up(p) /\ Mishap
  /\ Gone(p)
  /\ Rigid /\ UNCHANGED <<files, stop, asked>>

Arriving(p) ==
  \/ Claim(p) \/ ArriveRequest(p) \/ ArriveRecord(p) \/ Revert(p) \/ Reverted(p)
  \/ Dies(p) \/ Open(p) \/ Bind(p)

Draining(p) ==
  \/ TakeStop(p) \/ TakeRequest(p) \/ DrainStopped(p) \/ DrainAbandoned(p) \/ DrainQuiet(p)
  \/ Postpone(p) \/ CutOff(p) \/ Stops(p)

HandingOver(p) ==
  \/ Swap(p) \/ SwapFails(p) \/ WriteHandover(p) \/ Exit75(p) \/ GiveUpServing(p)
  \/ \E q \in Slots : StartSuccessor(p, q)
  \/ Answered(p) \/ NotAnswered(p) \/ Undo(p) \/ Undone(p)

Proving(p) == Prove(p) \/ Proved(p) \/ ProofGivenUp(p)

Asking ==
  \/ \E p \in Slots, by \in {"dashboard", "watcher"} : AskToInstall(p, by)
  \/ AskFromShell \/ AskToRollBack \/ CancelInstall \/ Replace \/ AskToStop

Next ==
  \/ \E p \in Slots :
       \/ Start(p) \/ Arriving(p) \/ Draining(p) \/ HandingOver(p) \/ Proving(p)
       \/ WriteHandoverFails(p) \/ SuccessorFails(p) \/ Crash(p)
       \/ \E t \in Tasks : Launch(p, t)
  \/ \E t \in Tasks : RunEnds(t)
  \/ Asking \/ TimePasses

Spec == Init /\ [][Next]_vars

---------------------------------------------------------------------------
(* A live process does its next step, a Tower that is down is started      *)
(* again, and a run ends by itself or at its timeout.                      *)

FairSpec ==
  /\ Spec
  /\ WF_vars(\E p \in Slots : Arriving(p) \/ Draining(p) \/ HandingOver(p) \/ Proving(p))
  /\ WF_vars(NoneUp /\ \E p \in Slots : Start(p))
  /\ WF_vars(\E t \in Tasks : RunEnds(t))

---------------------------------------------------------------------------
(* Properties *)

Processes ==
  [at: {"off", "claiming", "arriving", "recording", "reverting", "reverted", "opening",
        "looping", "serving", "draining", "ready", "swapped", "written", "handing", "waiting",
        "undoing", "undone", "stopping"},
   version: Versions \cup {NoVersion}, drains: BOOLEAN, child: Slots \cup {Nobody},
   proof: {"none", "due", "answered"},
   asked: {Nothing} \cup
     [version: Versions, rollback: BOOLEAN, by: {"dashboard", "watcher", "shell"}, at: Nat,
      outcome: {"none"}]]

\* The documents, the lock, the processes and the work are what the code can write and be.
TypeOK ==
  /\ binary \in Versions /\ skipped \subseteq Versions
  /\ kept \in [Versions -> Versions \cup {NoVersion}]
  /\ request \in {Nothing} \cup
       [version: Versions, rollback: BOOLEAN, by: {"dashboard", "watcher", "shell"}, at: Nat,
        outcome: {"none", "cancelled", "failed", "postponed", "applied", "rolled_back"}]
  /\ record \in [from: Versions, to: Versions, started: Nat, boots: 0..MaxBoots,
                 late: BOOLEAN, state: {"open", "healthy", "back"}]
  /\ serving \in Slots \cup {Nobody}
  /\ tower \in [Slots -> Processes]
  /\ work \in [Tasks -> [at: {"queued", "alive", "cut", "over"}, owner: Slots \cup {Nobody}]]
  /\ stop \in BOOLEAN /\ asked \in Nat /\ mishaps \in Nat

\* "One Tower serves a factory": the Tower that may start work holds serving.lock, through every
\* hand-over, crash and restart -- so no two of them may.
WorkStartsUnderTheLock == \A p \in Slots : MayStartWork(p) => serving = p

\* What is swapped in is what the request on disk asks for, and nobody has called it off: a
\* cancelled, postponed or replaced request is not installed behind the back of whoever ended it.
OnlyOpenIsInstalled ==
  [][\A p \in Slots :
       tower[p].at = "ready" /\ tower'[p].at = "swapped" => IsOpen(request) /\ request = tower[p].asked]_vars

\* A request is said to be applied, or rolled back, only with that version in place.
AppliedIsInPlace ==
  [][request' # request /\ request' # Nothing /\ request'.outcome \in {"applied", "rolled_back"}
       => request.version = binary /\ request'.outcome = Outcome(request)]_vars

\* No program that could serve is left, and nothing on record will put one back: a person must.
Stranded ==
  /\ binary \in broken
  /\ \A p \in Slots : tower[p].version \in broken \cup {NoVersion}
  /\ ~(supervised /\ record.to = binary /\ IsUnsettled)

\* A new version that never answers does not stay under a supervisor: on its third start it puts
\* the one before it back -- unless putting it back failed, or a process begun before the swap
\* serves in its place.
BrokenIsRolledBack ==
  supervised /\ IsUnsettled /\ record.to = binary /\ binary \in broken
    ~> binary \notin broken \/ Stranded \/ \E p \in Slots : tower[p].at = "serving"

\* A request comes to an end, so that the next one can be made: unless the Tower that was handed
\* over to serves on and has no proof left to give, which is when the code forgets the request.
Unproven ==
  /\ HandedOver(request)
  /\ \E p \in Slots : tower[p].at = "serving" /\ tower[p].version = record.to /\ tower[p].proof = "none"

RequestsEnd == IsOpen(request) ~> ~IsOpen(request) \/ Unproven \/ Stranded

\* A run that was cut off, or whose Tower died, is settled -- under a supervisor: by the next Tower
\* to open, whichever version that is. Only a version that never answers, and that no record says
\* how to leave, keeps every Tower from opening.
LeftBehindIsSettled ==
  \A t \in Tasks : supervised /\ IsLeftBehind(t) ~> ~IsLeftBehind(t) \/ Stranded

\* The same wherever the Tower runs, which the drain promises of the runs it cuts off.
CutOffIsRestarted == \A t \in Tasks : work[t].at = "cut" ~> work[t].at # "cut"

=============================================================================
