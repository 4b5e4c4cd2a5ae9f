------------------------------- MODULE Machine -------------------------------
(***************************************************************************)
(* Releases on one machine: several factories, each served by a Tower      *)
(* whose watcher looks for a newer release, stages it in the directory all *)
(* of them share, asks the staged binary what it makes of its own factory, *)
(* and asks its Tower to install it; and a person who does the same by     *)
(* hand. What an install does to the Tower's own work is left to Update:   *)
(* here it is a copy of the staged binary put in the place of the running  *)
(* one, which is kept aside under its version's name.                      *)
(*                                                                         *)
(* A factory's definition may be edited at any time. Its gate.json holds    *)
(* what one release said of it once; what it was asked about and by whom,   *)
(* `of` and `by`, is history, for the properties alone, and so is the gate  *)
(* a request carries.                                                       *)
(***************************************************************************)
EXTENDS Naturals, Sequences, FiniteSets

CONSTANTS
  Factories,
  Person,
  Hands,       \* the factories the person updates by hand
  Homes,       \* installations of Layover on this machine
  Home,        \* [Factories -> Homes]: the one a factory is served from
  Newest,      \* versions are 1 .. Newest
  Nothing,     \* no request, no gate
  Automatic,   \* the factories with mode = "auto"; the others have "stage"
  Lax,         \* those with require_provenance = false
  Natures,     \* what the releases may turn out to be
  MaxEvents,   \* what the person does, and crashes, downloads, answers, installs and proofs that go wrong
  Rewrites,    \* whether a release may be staged while another is, or over itself once it is ready
  Overlaps     \* whether `apply` goes on once a Tower has replaced the binary it was started from

Versions == 1..Newest
Actors == Factories \cup {Person}

\* A nature says what `validate` of each version makes of a factory's definition, as it is and as it
\* will be edited; which versions the policy of a factory leaves to a person: major ones, minor ones
\* under allow = "patch", those whose publication date is not known; the state layout each reads; and,
\* to begin with, what is installed, what is skipped, whether `gh` is signed in, and what is served.
ASSUME MachineAssumption ==
  /\ Newest \in Nat \ {0, 1}
  /\ Person \notin Factories /\ Hands \subseteq Factories
  /\ Home \in [Factories -> Homes]
  /\ Automatic \subseteq Factories /\ Lax \subseteq Automatic
  /\ \A n \in Natures :
       /\ \A f \in Factories :
            /\ n.says[f] \in Seq([Versions -> {"clean", "warns", "refuses"}])
            /\ Len(n.says[f]) > 0
       /\ n.left \in [Factories -> SUBSET Versions]
       /\ n.layout \in [Versions -> Nat] /\ n.installed \in [Homes -> Versions]
       /\ n.skipped \subseteq Versions
       /\ n.served \subseteq Factories /\ n.signed \in BOOLEAN
  /\ MaxEvents \in Nat /\ Rewrites \in BOOLEAN /\ Overlaps \in BOOLEAN

VARIABLES
  nature,    \* chosen once
  edition,   \* [Factories -> which of its definitions layover.toml is]
  published, \* the newest release there is
  known,     \* the newest the last check on this machine found
  skipped,   \* the versions not to be offered on this machine
  stage,     \* [Versions -> what is in its staging directory]
  gate,      \* [Factories -> what its gate.json says]
  request,   \* [Factories -> the request that is open]
  record,    \* [Factories -> the last hand-over]
  running,   \* [Factories -> the version its Tower is]
  tower,     \* [Factories -> how far its Tower is with an install]
  job,       \* [Actors -> how far its watcher, or the person's command, is]
  binary,    \* [Homes -> what is at the path Towers are started from]
  kept,      \* [Homes -> what is kept aside, by the version its name says]
  signed,    \* whether `gh` can be asked who built a release
  events

docs == <<known, skipped, stage, gate, request, record>>
disk == <<binary, kept>>
vars == <<nature, edition, published, docs, running, tower, job, disk, signed, events>>

Torn == 0 \* a file with part of a binary in it; any other content is the binary of a version

---------------------------------------------------------------------------
(* Documents *)

Empty == [note |-> "none", crosses |-> FALSE, file |-> "none"]

\* A staged release is ready once it was run, verified or on a person's word.
IsReady(note) == note \in {"verified", "trusted"}

\* The version on offer to a program of version v.
Available(v, newest, skips) == newest > v /\ newest \notin skips

\* What `program` hears of a definition from version v: a warning is new if `program` does not give
\* it itself.
Hears(text, v, program) ==
  IF text[v] = "warns" /\ text[program] = "warns" THEN "clean" ELSE text[v]

\* (variant) the gate is not asked which release it was about
UnattendedAnyGate(f, v) ==
  /\ v \notin nature.left[f]
  /\ IsReady(stage[v].note)
  /\ ~stage[v].crosses
  /\ f \in Lax \/ stage[v].note = "verified"
  /\ gate[f] # Nothing /\ gate[f].said = "clean"

\* What an unattended install may do: a release not left to a person, staged, verified, of the layout
\* of whoever staged it, and that this factory's gate says nothing new about. Its age is left to the
\* moment.
Unattended(f, v) ==
  /\ v \notin nature.left[f]
  /\ IsReady(stage[v].note)
  /\ ~stage[v].crosses
  /\ f \in Lax \/ stage[v].note = "verified"
  /\ gate[f] # Nothing /\ gate[f].version = v /\ gate[f].said = "clean"

Passes(said) == said \in {"clean", "warns"}

Asked(v, auto, g) ==
  [version |-> v, auto |-> auto, rollback |-> FALSE, handed |-> "no", gate |-> g]

\* Staged versions no newer than the one that starts are removed.
ForgetInstalled(v) == [w \in Versions |-> IF w <= v THEN Empty ELSE stage[w]]

\* (variant) the one that was staged is removed, and the others stay
ForgetTheOne(v, s) == [w \in Versions |-> IF w = v THEN Empty ELSE stage[w]]

\* One is all that is ever installed next.
ForgetOthers(v, s) == [w \in Versions |-> IF w = v THEN s ELSE Empty]

---------------------------------------------------------------------------
(* Actors *)

Idle == [at |-> "idle"]
Off == [at |-> "off"]

Staging(a) == job[a].at \in {"fetching", "writing", "noting"}

\* Whether a release may be staged now. Without Rewrites, only while none is, and none is ready.
MayStage(a, v) == Rewrites \/ (~IsReady(stage[v].note) /\ \A b \in Actors \ {a} : ~Staging(b))

Event == events < MaxEvents /\ events' = events + 1

Goto(a, place) == job' = [job EXCEPT ![a].at = place]

Init ==
  /\ nature \in Natures
  /\ edition = [f \in Factories |-> 1]
  /\ published = 2 /\ known = 1
  /\ skipped = nature.skipped
  /\ stage = [v \in Versions |-> Empty]
  /\ gate = [f \in Factories |-> Nothing]
  /\ request = [f \in Factories |-> Nothing]
  /\ record = [f \in Factories |-> Nothing]
  /\ running = [f \in Factories |-> nature.installed[Home[f]]]
  /\ tower = [f \in Factories |-> IF f \in nature.served THEN [at |-> "serving"] ELSE Off]
  /\ job = [a \in Actors |-> IF a \in nature.served \cup {Person} THEN Idle ELSE Off]
  /\ binary = nature.installed
  /\ kept = [h \in Homes |-> <<>>]
  /\ signed = nature.signed
  /\ events = 0

Publish ==
  /\ published < Newest
  /\ published' = published + 1
  /\ UNCHANGED <<nature, edition, docs, running, tower, job, disk, signed, events>>

\* A person signs `gh` in.
SignIn ==
  /\ ~signed /\ signed' = TRUE
  /\ UNCHANGED <<nature, edition, published, docs, running, tower, job, disk, events>>

\* A person edits a factory's layover.toml, before or after a release was asked about it.
Edit(f) ==
  /\ edition[f] < Len(nature.says[f]) /\ Event
  /\ edition' = [edition EXCEPT ![f] = @ + 1]
  /\ UNCHANGED <<nature, published, docs, running, tower, job, disk, signed>>

---------------------------------------------------------------------------
(* Looking *)

\* A watcher is its Tower's version; a command is a program of its own, of the version installed.
Work(f, v, command, trust, place) ==
  [at |-> place, factory |-> f, version |-> v, command |-> command, trust |-> trust,
   got |-> "none", crosses |-> FALSE, gate |-> Nothing,
   program |-> IF command = "watch" THEN running[f] ELSE binary[Home[f]]]

\* Under mode = "auto" a pass ends in considering an install.
Considers(f, v) == IF f \in Automatic THEN Work(f, v, "watch", f \in Lax, "considering") ELSE Idle

\* A pass of a factory's watcher. The check, when it is due and works, is the machine's; only the
\* watcher that made it gets the release ready.
Pass(f, checks) ==
  LET newest == IF checks THEN published ELSE known IN
  /\ job[f].at = "idle"
  /\ known' = newest
  /\ job' = [job EXCEPT ![f] =
       IF ~Available(running[f], newest, skipped) THEN Idle
       ELSE IF checks THEN Work(f, newest, "watch", f \in Lax, "looking")
       ELSE Considers(f, newest)]
  /\ UNCHANGED <<nature, edition, published, skipped, stage, gate, request, record, running, tower, disk, signed, events>>

Command == Event /\ job[Person].at = "idle"

\* `layover update stage`, which stages whatever is there, and `apply`, which gets it ready first.
StageNow(f, trust) ==
  LET v == binary[Home[f]] IN
  /\ Command /\ v # Torn
  /\ known' = published
  /\ Available(v, published, skipped) /\ MayStage(Person, published)
  /\ job' = [job EXCEPT ![Person] = Work(f, published, "stage", trust, "fetching")]
  /\ UNCHANGED <<nature, edition, published, skipped, stage, gate, request, record, running, tower, disk, signed>>

ApplyNow(f) ==
  LET v == binary[Home[f]] IN
  /\ Command /\ v # Torn
  /\ known' = published
  /\ Available(v, published, skipped)
  /\ job' = [job EXCEPT ![Person] = Work(f, published, "apply", FALSE, "looking")]
  /\ UNCHANGED <<nature, edition, published, skipped, stage, gate, request, record, running, tower, disk, signed>>

---------------------------------------------------------------------------
(* Getting ready *)

\* What a job does once its release is staged and gated.
Then(a, got, crosses, g) ==
  CASE job[a].command = "watch" -> Considers(job[a].factory, job[a].version)
    [] job[a].command = "stage" -> Idle
    [] job[a].command = "apply" ->
         [job[a] EXCEPT !.at = "applying", !.got = got, !.crosses = crosses, !.gate = g]

\* A release that is staged and gated is left; one that is staged is gated; any other is staged.
Look(a) ==
  LET v == job[a].version
      note == stage[v].note
      g == gate[job[a].factory]
  IN
  /\ job[a].at = "looking"
  /\ \/ /\ IsReady(note) /\ g # Nothing /\ g.version = v
        /\ job' = [job EXCEPT ![a] = Then(a, note, stage[v].crosses, g)]
     \/ /\ IsReady(note) /\ (g # Nothing => g.version # v)
        /\ job' = [job EXCEPT ![a].at = "gating", ![a].got = note, ![a].crosses = stage[v].crosses]
     \/ /\ ~IsReady(note) /\ MayStage(a, v)
        /\ Goto(a, "fetching")
  /\ UNCHANGED <<nature, edition, published, docs, running, tower, disk, signed, events>>

\* What stops short leaves nothing behind but the note that says so.
Refuse(a) ==
  /\ stage' = [stage EXCEPT ![job[a].version].file = "none"]
  /\ job' = [job EXCEPT ![a].at = "noting", ![a].got = "refused"]

\* The archive is downloaded and is the one listed, `gh` says who built it, and the binary begins to
\* be written where it stays; a release whose provenance could not be checked is only kept.
Fetch(a) ==
  LET v == job[a].version
      unpacks(got) == /\ stage' = [stage EXCEPT ![v].file = "torn"]
                      /\ job' = [job EXCEPT ![a].at = "writing", ![a].got = got]
  IN
  /\ job[a].at = "fetching"
  /\ \/ signed /\ unpacks("verified") /\ UNCHANGED events
     \/ ~signed /\ job[a].trust /\ unpacks("trusted") /\ UNCHANGED events
     \/ /\ ~signed /\ ~job[a].trust
        /\ job' = [job EXCEPT ![a].at = "noting", ![a].got = "kept"]
        /\ UNCHANGED <<stage, events>>
     \/ Event /\ Refuse(a)
  /\ UNCHANGED <<nature, edition, published, known, skipped, gate, request, record, running, tower, disk, signed>>

\* The binary is whole, unless its directory has gone, is run for the first time, and says what it is.
Write(a) ==
  LET v == job[a].version IN
  /\ job[a].at = "writing"
  /\ \/ /\ stage[v].file # "none"
        /\ stage' = [stage EXCEPT ![v].file = "whole"]
        /\ Goto(a, "noting")
        /\ UNCHANGED events
     \/ stage[v].file = "none" /\ Refuse(a) /\ UNCHANGED events
     \/ stage[v].file # "none" /\ Event /\ Refuse(a)
  /\ UNCHANGED <<nature, edition, published, known, skipped, gate, request, record, running, tower, disk, signed>>

\* staged.json is written, which says whether the layout is another than that of the program that
\* staged it, and every other version's directory removed.
Note(a) ==
  LET v == job[a].version
      crosses == nature.layout[v] # nature.layout[job[a].program]
  IN
  /\ job[a].at = "noting"
  /\ stage' = ForgetOthers(v, [stage[v] EXCEPT !.note = job[a].got, !.crosses = crosses])
  /\ job' = [job EXCEPT ![a].at = "gating", ![a].crosses = crosses]
  /\ UNCHANGED <<nature, edition, published, known, skipped, gate, request, record, running, tower, disk, signed, events>>

\* The staged release validates the factory as it stands, unless it is not ready or cannot be run.
\* What is kept of it is the version, and what it said.
Gate(a) ==
  LET v == job[a].version
      f == job[a].factory
      program == job[a].program
      runs == IsReady(job[a].got) /\ stage[v].file = "whole"
  IN
  /\ job[a].at = "gating"
  /\ \E said \in {"not_run", Hears(nature.says[f][edition[f]], v, program)} :
       LET g == [version |-> v, said |-> said, of |-> edition[f], by |-> program] IN
       /\ said # "not_run" => runs
       /\ IF said = "not_run" /\ runs THEN Event ELSE UNCHANGED events
       /\ gate' = [gate EXCEPT ![f] = g]
       /\ job' = [job EXCEPT ![a] = Then(a, job[a].got, job[a].crosses, g)]
  /\ UNCHANGED <<nature, edition, published, known, skipped, stage, request, record, running, tower, disk, signed>>

---------------------------------------------------------------------------
(* Asking *)

\* The watcher asks its Tower to install what it got ready, when the moment has come and no request
\* is open.
Ask(f) ==
  LET v == job[f].version IN
  /\ job[f].at = "considering"
  /\ request[f] = Nothing /\ Unattended(f, v)
  /\ request' = [request EXCEPT ![f] = Asked(v, TRUE, gate[f])]
  /\ job' = [job EXCEPT ![f] = Idle]
  /\ UNCHANGED <<nature, edition, published, known, skipped, stage, gate, record, running, tower, disk, signed, events>>

\* It may not, or not yet: busy, too young, no window, not idle, tried a while ago.
Wait(f) ==
  /\ job[f].at = "considering"
  /\ job' = [job EXCEPT ![f] = Idle]
  /\ UNCHANGED <<nature, edition, published, docs, running, tower, disk, signed, events>>

Served(f) == tower[f].at # "off"

\* The content of what is staged, as a copy of it reads.
Content(v) == IF stage[v].file = "whole" THEN v ELSE Torn

\* What is kept aside of an installation, with one more binary under a version's name.
KeptWith(h, v, content) ==
  [w \in DOMAIN kept[h] \cup {v} |-> IF w = v THEN content ELSE kept[h][w]]

\* (variant) kept aside under the version that comes
SwappedUnderNew(f, from, content) ==
  LET h == Home[f] IN
  /\ kept' = [kept EXCEPT ![h] = KeptWith(h, content, binary[h])]
  /\ binary' = [binary EXCEPT ![h] = content]

\* The old binary aside under the version that is running, and the new one in its place.
Swapped(f, from, content) ==
  LET h == Home[f] IN
  /\ kept' = [kept EXCEPT ![h] = KeptWith(h, from, binary[h])]
  /\ binary' = [binary EXCEPT ![h] = content]

\* Another process holds the machine's install lock.
Locked(f) == \E g \in Factories \ {f} : tower[g].at = "copied"

\* A hand-over is written, to a version that must prove itself or counts as healthy. An open request
\* for that version counts from then on as acted on, and no other does.
HandsOver(f, from, to, proof) ==
  /\ record' = [record EXCEPT ![f] = [from |-> from, to |-> to]]
  /\ request' =
       IF request[f] = Nothing THEN request
       ELSE [request EXCEPT ![f].handed = IF request[f].version = to THEN proof ELSE "no"]

\* With no Tower there the command puts the binary in place itself, and keeps the old one under the
\* version the command is.
ByHand(f, program, v, content) ==
  /\ Swapped(f, program, content)
  /\ HandsOver(f, program, v, "healthy")

\* The end of `apply`: with the person's word a release without provenance is staged again and run;
\* one that is ready, of this layout and accepted is asked for, or put in place with no Tower there.
Apply(trust) ==
  LET f == job[Person].factory
      v == job[Person].version
      got == job[Person].got
      program == job[Person].program
      fits == IsReady(got) /\ ~job[Person].crosses /\ Passes(job[Person].gate.said)
      can == stage[v].file # "none" /\ ~Locked(f)
      ends == job' = [job EXCEPT ![Person] = Idle]
  IN
  /\ job[Person].at = "applying"
  /\ \/ /\ ~IsReady(got) /\ trust /\ ~job[Person].trust /\ MayStage(Person, v)
        /\ job' = [job EXCEPT ![Person].at = "fetching", ![Person].trust = TRUE]
        /\ UNCHANGED <<request, record, disk>>
     \/ /\ ~fits /\ (IsReady(got) \/ ~trust \/ job[Person].trust)
        /\ ends /\ UNCHANGED <<request, record, disk>>
     \/ /\ fits /\ Served(f)
        /\ request' = [request EXCEPT ![f] = Asked(v, FALSE, job[Person].gate)]
        /\ ends /\ UNCHANGED <<record, disk>>
     \/ /\ fits /\ ~Served(f) /\ can
        /\ Overlaps \/ program = binary[Home[f]]
        /\ ByHand(f, program, v, Content(v))
        /\ ends
     \/ /\ fits /\ ~Served(f) /\ ~can
        /\ ends /\ UNCHANGED <<request, record, disk>>
  /\ UNCHANGED <<nature, edition, published, known, skipped, stage, gate, running, tower, signed, events>>

\* The dashboard's button, answered from what is on disk.
AskFromDashboard(f) ==
  /\ Command /\ Served(f)
  /\ request[f] = Nothing
  /\ Available(running[f], known, skipped)
  /\ IsReady(stage[known].note) /\ ~stage[known].crosses
  /\ gate[f] # Nothing /\ gate[f].version = known /\ Passes(gate[f].said)
  /\ request' = [request EXCEPT ![f] = Asked(known, FALSE, gate[f])]
  /\ UNCHANGED <<nature, edition, published, known, skipped, stage, gate, record, running, tower, job, disk, signed>>

\* Going back: the version that runs is skipped, and the one kept aside asked for, or put in place
\* with no Tower there.
GoBack(f) ==
  LET v == IF Served(f) THEN running[f] ELSE binary[Home[f]]
      from == record[f].from
  IN
  /\ Command /\ v # Torn
  /\ record[f] # Nothing /\ record[f].to = v /\ from \in DOMAIN kept[Home[f]]
  /\ skipped' = skipped \cup {v}
  /\ \/ /\ Served(f)
        /\ request' = [request EXCEPT ![f] =
             [Asked(from, FALSE, Nothing) EXCEPT !.rollback = TRUE]]
        /\ UNCHANGED <<record, disk>>
     \/ /\ ~Served(f) /\ ~Locked(f)
        /\ ByHand(f, v, from, kept[Home[f]][from])
     \/ /\ ~Served(f) /\ Locked(f)
        /\ UNCHANGED <<request, record, disk>>
  /\ UNCHANGED <<nature, edition, published, known, stage, gate, running, tower, job, signed>>

\* The dashboard ends whatever request is open; a Tower that has begun to install goes on.
Cancel(f) ==
  /\ Command /\ Served(f) /\ request[f] # Nothing
  /\ request' = [request EXCEPT ![f] = Nothing]
  /\ UNCHANGED <<nature, edition, published, known, skipped, stage, gate, record, running, tower, job, disk, signed>>

Skip(v) ==
  /\ Command /\ v \in 2..published
  /\ skipped' = skipped \cup {v}
  /\ UNCHANGED <<nature, edition, published, known, stage, gate, request, record, running, tower, job, disk, signed>>

ClearSkipped ==
  /\ Command /\ skipped # {}
  /\ skipped' = {}
  /\ UNCHANGED <<nature, edition, published, known, stage, gate, request, record, running, tower, job, disk, signed>>

---------------------------------------------------------------------------
(* Installing *)

\* What a request installs: the staged release, if it is ready, or the version kept aside.
HasSource(f, r) ==
  IF r.rollback
  THEN record[f] # Nothing /\ record[f].from = r.version /\ r.version \in DOMAIN kept[Home[f]]
  ELSE IsReady(stage[r.version].note) /\ stage[r.version].file # "none"

SourceOf(f, r) == IF r.rollback THEN kept[Home[f]][r.version] ELSE Content(r.version)

Fails(f) ==
  /\ request' = [request EXCEPT ![f] = Nothing]
  /\ tower' = [tower EXCEPT ![f] = [at |-> "serving"]]

\* A request that was not acted on yet.
Waits(f) == request[f] # Nothing /\ request[f].handed = "no"

\* A drained Tower takes the lock and copies the binary beside its own.
Copy(f) ==
  LET r == request[f] IN
  /\ tower[f].at = "serving" /\ Waits(f)
  /\ HasSource(f, r) /\ ~Locked(f)
  /\ tower' = [tower EXCEPT ![f] =
       [at |-> "copied", asked |-> r, fresh |-> SourceOf(f, r)]]
  /\ UNCHANGED <<nature, edition, published, docs, running, job, disk, signed, events>>

\* It has no source or no lock, or the install is postponed or goes wrong.
CopyFails(f) ==
  /\ tower[f].at = "serving" /\ Waits(f)
  /\ IF HasSource(f, request[f]) /\ ~Locked(f) THEN Event ELSE UNCHANGED events
  /\ Fails(f)
  /\ UNCHANGED <<nature, edition, published, known, skipped, stage, gate, record, running, job, disk, signed>>

\* The copy reads as the file it was made from: it goes into place, and the hand-over is written.
Reads(f) == HasSource(f, tower[f].asked) /\ SourceOf(f, tower[f].asked) = tower[f].fresh

Place(f) ==
  /\ tower[f].at = "copied" /\ Reads(f)
  /\ Swapped(f, running[f], tower[f].fresh)
  /\ HandsOver(f, running[f], tower[f].asked.version, "proving")
  /\ tower' = [tower EXCEPT ![f] = [at |-> "placed", asked |-> tower[f].asked]]
  /\ UNCHANGED <<nature, edition, published, known, skipped, stage, gate, running, job, signed, events>>

PlaceFails(f) ==
  /\ tower[f].at = "copied" /\ ~Reads(f)
  /\ Fails(f)
  /\ UNCHANGED <<nature, edition, published, known, skipped, stage, gate, record, running, job, disk, signed, events>>

\* A Tower starts as the version in place, done with what was staged for it. A request is cancelled,
\* or, being the one that led here, ended once the Tower has proved itself; left open, if it gives
\* that up, or if the hand-over counts as healthy already.
Starts(f) ==
  LET v == binary[Home[f]]
      r == request[f]
      led == r # Nothing /\ r.handed # "no" /\ r.version = v
  IN
  /\ v # Torn
  /\ running' = [running EXCEPT ![f] = v]
  /\ stage' = ForgetInstalled(v)
  /\ \/ led /\ r.handed = "healthy" /\ UNCHANGED <<request, events>>
     \/ led /\ r.handed = "proving" /\ Event /\ UNCHANGED request
     \/ /\ led => r.handed = "proving"
        /\ request' = [request EXCEPT ![f] = Nothing] /\ UNCHANGED events
  /\ tower' = [tower EXCEPT ![f] = [at |-> "serving"]]
  /\ job' = [job EXCEPT ![f] = Idle]

\* The new Tower is started, and stays,
Prove(f) ==
  /\ tower[f].at = "placed"
  /\ Starts(f)
  /\ UNCHANGED <<nature, edition, published, known, skipped, gate, record, disk, signed>>

\* or does not, and the old binary is put back and the release skipped.
Undo(f) ==
  LET h == Home[f] IN
  /\ tower[f].at = "placed" /\ Event
  /\ running[f] \in DOMAIN kept[h]
  /\ binary' = [binary EXCEPT ![h] = kept[h][running[f]]]
  /\ skipped' = IF tower[f].asked.rollback THEN skipped ELSE skipped \cup {tower[f].asked.version}
  /\ Fails(f)
  /\ UNCHANGED <<nature, edition, published, known, stage, gate, record, running, job, kept, signed>>

\* A Tower's process ends wherever it is, its watcher with it, and is started again.
Crash(f) ==
  /\ Served(f) /\ Event
  /\ tower' = [tower EXCEPT ![f] = Off]
  /\ job' = [job EXCEPT ![f] = Off]
  /\ UNCHANGED <<nature, edition, published, docs, running, disk, signed>>

Restart(f) ==
  /\ ~Served(f)
  /\ Starts(f)
  /\ UNCHANGED <<nature, edition, published, known, skipped, gate, record, disk, signed>>

\* A command is interrupted, or its process ends.
Interrupt ==
  /\ job[Person].at # "idle"
  /\ job' = [job EXCEPT ![Person] = Idle]
  /\ UNCHANGED <<nature, edition, published, docs, running, tower, disk, signed, events>>

---------------------------------------------------------------------------

Ready(a) == Look(a) \/ Fetch(a) \/ Write(a) \/ Note(a) \/ Gate(a)

Install(f) == Copy(f) \/ CopyFails(f) \/ Place(f) \/ PlaceFails(f) \/ Prove(f) \/ Restart(f)

PersonNext ==
  \/ \E f \in Hands :
       \/ \E trust \in BOOLEAN : StageNow(f, trust)
       \/ ApplyNow(f) \/ AskFromDashboard(f)
  \/ \E f \in Factories : GoBack(f) \/ Cancel(f) \/ Edit(f)
  \/ \E trust \in BOOLEAN : Apply(trust)
  \/ \E v \in Versions : Skip(v)
  \/ ClearSkipped \/ Interrupt

Next ==
  \/ Publish \/ SignIn
  \/ \E f \in Factories :
       \/ \E checks \in BOOLEAN : Pass(f, checks)
       \/ Ask(f) \/ Wait(f) \/ Install(f) \/ Undo(f) \/ Crash(f)
  \/ \E a \in Actors : Ready(a)
  \/ PersonNext

Spec == Init /\ [][Next]_vars

\* A watcher and a Tower keep going, and so does a command; each factory's own check is due and
\* works again and again, for the checks of one machine are spread by a jitter; and the moment for
\* an unattended install comes again and again.
FairSpec ==
  /\ Spec
  /\ \A f \in Factories : WF_vars(Install(f)) /\ WF_vars(Ready(f) \/ Wait(f))
  /\ \A f \in Automatic : SF_vars(Pass(f, TRUE)) /\ SF_vars(Ask(f))
  /\ WF_vars(Ready(Person) \/ \E trust \in BOOLEAN : Apply(trust))

---------------------------------------------------------------------------
(* Properties *)

TypeOK ==
  /\ nature \in Natures
  /\ published \in Versions /\ known \in Versions
  /\ skipped \subseteq Versions
  /\ stage \in [Versions -> [note : {"none", "verified", "trusted", "kept", "refused"},
                             crosses : BOOLEAN, file : {"none", "torn", "whole"}]]
  /\ \A f \in Factories :
       /\ edition[f] \in 1..Len(nature.says[f])
       /\ gate[f] # Nothing => gate[f].version \in Versions
       /\ running[f] \in Versions
       /\ tower[f].at \in {"off", "serving", "copied", "placed"}
  /\ \A h \in Homes : binary[h] \in Versions \cup {Torn}
  /\ events \in 0..MaxEvents

\* What `program` was told of version v for factory f, its definition being the one it then was.
Answer(f, v, g) == Hears(nature.says[f][g.of], v, g.by)

\* A Tower runs only what its own factory's gate was asked about, and only the whole of it: the
\* version put in place is the one asked for, of the state layout the Tower reads, and one that did
\* not refuse the factory as its definition stood when it was asked; unattended, one not left to a
\* person, that gave no warning the asking program does not (staging.rs, gate.rs, policy.rs, swap.rs).
InstalledIsAccepted ==
  \A f \in Factories :
    tower[f].at = "placed" =>
      LET r == tower[f].asked IN
      /\ binary[Home[f]] = r.version
      /\ r.rollback \/ (/\ nature.layout[r.version] = nature.layout[running[f]]
                        /\ Passes(Answer(f, r.version, r.gate))
                        /\ r.auto => /\ r.version \notin nature.left[f]
                                     /\ Answer(f, r.version, r.gate) = "clean")

\* The binary kept for a rollback is the version its name says (swap.rs, keep_aside).
KeptIsWhatItSays == \A h \in Homes : \A v \in DOMAIN kept[h] : kept[h][v] = v

\* The release is not got ready for this factory again, or not asked for: the gate counts as asked
\* though it could not be run, or was asked of a definition edited since; the note says the release is
\* staged, though it was run on someone's word and never verified, or a Tower that started meanwhile
\* removed its binary from under the note; or the watcher takes its Tower to be busy with the request
\* that led to it, which stays open since the Tower gave up proving itself, or had not to; or no Tower
\* starts, for a command put in place what another process was unpacking again.
Stuck(f) ==
  \/ /\ IsReady(stage[Newest].note)
     /\ \/ /\ gate[f] # Nothing /\ gate[f].version = Newest
           /\ gate[f].said = "not_run" \/ (gate[f].of < edition[f] /\ gate[f].said # "clean")
        \/ stage[Newest].note = "trusted" /\ f \notin Lax
        \/ stage[Newest].file = "none"
  \/ tower[f].at = "serving" /\ request[f] # Nothing /\ request[f].handed # "no"
  \/ binary[Home[f]] = Torn

\* Newest is what every rule lets in unattended, whatever is still edited.
Welcome(f) ==
  /\ published = Newest /\ Newest \notin nature.left[f] /\ signed
  /\ nature.layout[Newest] = nature.layout[running[f]]
  /\ \A e \in edition[f]..Len(nature.says[f]) : nature.says[f][e][Newest] = "clean"

\* A release every rule lets in unattended is installed in the end by a factory that has mode =
\* "auto", unless it was skipped, or one of the ways of getting stuck holds it.
ReleasesArrive ==
  \A f \in Automatic :
    Welcome(f) ~> running[f] = Newest \/ Newest \in skipped \/ Stuck(f)
=============================================================================
