---------------------------- MODULE MachineProofs ----------------------------
(***************************************************************************)
(* That what a Tower puts in place is the whole of a release its own       *)
(* factory accepted, and that the binary kept for a rollback is the one    *)
(* its name says, however many releases, installs, rollbacks, crashes and  *)
(* people there are.                                                       *)
(*                                                                         *)
(* Four arguments meet in Place.  Says: a gate records what its factory's  *)
(* definition, as it stood when it was asked, got for an answer from that  *)
(* version, and jobs and requests only carry it on.  Stages: one actor at  *)
(* a time writes a release, never one that is ready, and notes it only     *)
(* once the binary is whole or gone.  Disk: a Tower at work is the version *)
(* at its path, so the old binary goes under its own name, and a copy made *)
(* from a ready release or from a kept one is what was asked for.          *)
(* Layouts: where everything installed to begin with reads one layout of   *)
(* the state, so does all that ever runs, is kept, or is asked for.        *)
(***************************************************************************)
EXTENDS Machine, TLAPS

Contents == Versions \cup {Torn}
Notes == {"none", "verified", "trusted", "kept", "refused"}
Sayings == {"clean", "warns", "refuses", "not_run"}
Staged == [note : Notes, crosses : BOOLEAN, file : {"none", "torn", "whole"}]
Gates == [version : Versions, said : Sayings, of : Nat, by : Versions]
Acted == {"no", "proving", "healthy"}
Requests ==
  [version : Versions, auto : BOOLEAN, rollback : BOOLEAN, handed : Acted, gate : {Nothing} \cup Gates]
HandOvers == [from : Versions, to : Versions]

Works ==
  [at : {"looking", "fetching", "writing", "noting", "gating", "considering", "applying"},
   factory : Factories, version : Versions, command : {"watch", "stage", "apply"},
   trust : BOOLEAN, got : Notes, crosses : BOOLEAN, gate : {Nothing} \cup Gates, program : Versions]

Jobs == {Idle, Off} \cup Works

Towers ==
  {Off, [at |-> "serving"]}
    \cup [at : {"copied"}, asked : Requests, fresh : Contents]
    \cup [at : {"placed"}, asked : Requests]

Releases ==
  /\ nature \in Natures
  /\ edition \in [Factories -> Nat] /\ \A f \in Factories : edition[f] \in 1..Len(nature.says[f])
  /\ published \in Versions /\ known \in Versions /\ skipped \subseteq Versions
  /\ signed \in BOOLEAN /\ events \in 0..MaxEvents

Documents ==
  /\ stage \in [Versions -> Staged]
  /\ gate \in [Factories -> {Nothing} \cup Gates]
  /\ request \in [Factories -> {Nothing} \cup Requests]
  /\ record \in [Factories -> {Nothing} \cup HandOvers]

Programs ==
  /\ running \in [Factories -> Versions]
  /\ tower \in [Factories -> Towers]
  /\ job \in [Actors -> Jobs]
  /\ binary \in [Homes -> Contents]
  /\ DOMAIN kept = Homes
  /\ \A h \in Homes :
       DOMAIN kept[h] \subseteq Versions /\ \A v \in DOMAIN kept[h] : kept[h][v] \in Contents

Types == Releases /\ Documents /\ Programs

\* A gate says what its factory's definition of then was told, when it was asked at all.
Heard(f, g) == g.said \in {"not_run", Answer(f, g.version, g)}

\* A version a factory may be asked to run.
Accepted(f, r) ==
  r.rollback \/ (/\ Passes(Answer(f, r.version, r.gate))
                 /\ r.auto => /\ r.version \notin nature.left[f]
                              /\ Answer(f, r.version, r.gate) = "clean")

WorkSays(w) == w.at = "applying" => w.gate.version = w.version /\ Heard(w.factory, w.gate)

GatesSay == \A f \in Factories : gate[f] # Nothing => Heard(f, gate[f])
WorksSay == \A a \in Actors : WorkSays(job[a])
RequestsFit == \A f \in Factories : request[f] # Nothing => Accepted(f, request[f])
TowersFit == \A f \in Factories : tower[f].at \in {"copied", "placed"} => Accepted(f, tower[f].asked)

Says == GatesSay /\ WorksSay /\ RequestsFit /\ TowersFit

\* Without Rewrites one release is staged at a time, none over itself while it is ready, and a note
\* never says of half a binary that it is.
OneStages == \A a, b \in Actors : Staging(a) /\ Staging(b) => a = b

Writes(w, s) ==
  /\ w.at \in {"fetching", "writing"} => ~IsReady(s[w.version].note)
  /\ w.at = "noting" /\ IsReady(w.got) => s[w.version].file # "torn"

WritersWrite == \A a \in Actors : Writes(job[a], stage)
ReadyIsWhole == \A v \in Versions : IsReady(stage[v].note) => stage[v].file # "torn"

Stages == OneStages /\ WritersWrite /\ ReadyIsWhole

\* Every factory is served from an installation of its own.
Apart == \A f, g \in Factories : Home[f] = Home[g] => f = g

\* A Tower at work is the version in place; one that installs has copied what it was asked for.
Fits(f) ==
  /\ tower[f].at \in {"serving", "copied"} => binary[Home[f]] = running[f]
  /\ tower[f].at = "copied" => tower[f].fresh = tower[f].asked.version
  /\ tower[f].at = "placed" => binary[Home[f]] = tower[f].asked.version

Disk == KeptIsWhatItSays /\ \A f \in Factories : Fits(f)

\* What is installed on the machine to begin with reads one layout of the state.
Alike ==
  \A n \in Natures : \A g, h \in Homes : n.layout[n.installed[g]] = n.layout[n.installed[h]]

\* The contents that read that layout, if any.
Level ==
  {Torn} \cup {v \in Versions : \A h \in Homes : nature.layout[v] = nature.layout[nature.installed[h]]}

\* All that runs, is in place, or is kept does. A job that goes by what was noted of a release, and a
\* request made of it, come from a program that does; and a note is made by one.
PlacesLevel ==
  /\ \A f \in Factories : running[f] \in Level
  /\ \A h \in Homes : binary[h] \in Level
  /\ \A h \in Homes : \A v \in DOMAIN kept[h] : kept[h][v] \in Level

WorkLevel(w) ==
  w.at \notin {"idle", "off"} =>
    /\ w.program \in Level
    /\ w.at \in {"gating", "applying"} /\ IsReady(w.got) /\ ~w.crosses => w.version \in Level

AskLevel(r) == r.rollback \/ r.version \in Level

WorksLevel == \A a \in Actors : WorkLevel(job[a])
StagedLevel == \A v \in Versions : IsReady(stage[v].note) /\ ~stage[v].crosses => v \in Level
RequestsLevel == \A f \in Factories : request[f] # Nothing => AskLevel(request[f])
TowersLevel ==
  \A f \in Factories :
    /\ tower[f].at \in {"copied", "placed"} => AskLevel(tower[f].asked)
    /\ tower[f].at = "copied" => tower[f].fresh \in Level

Layouts == PlacesLevel /\ WorksLevel /\ StagedLevel /\ RequestsLevel /\ TowersLevel

----------------------------------------------------------------------------
(* Types. *)

\* An actor that is neither idle nor off has a job.
LEMMA Working ==
  ASSUME Types, NEW a \in Actors, job[a].at \notin {"idle", "off"}
  PROVE  job[a] \in Works
BY DEF Types, Programs, Jobs, Idle, Off

\* A job is replaced, by a job.
LEMMA Reworked ==
  ASSUME Types, NEW a \in Actors, NEW w \in Jobs, job' = [job EXCEPT ![a] = w]
  PROVE  job' \in [Actors -> Jobs]
BY DEF Types, Programs

\* A job goes on to another place,
LEMMA Moved ==
  ASSUME Types, NEW a \in Actors, job[a] \in Works,
         NEW place \in {"looking", "fetching", "writing", "noting", "gating", "considering", "applying"},
         Goto(a, place)
  PROVE  job' \in [Actors -> Jobs]
<1>1. [job[a] EXCEPT !.at = place] \in Works
  BY DEF Works
<1>. QED
  BY <1>1, Reworked DEF Goto, Jobs

\* with what it got,
LEMMA Got ==
  ASSUME Types, NEW a \in Actors, job[a] \in Works, NEW got \in Notes,
         NEW place \in {"looking", "fetching", "writing", "noting", "gating", "considering", "applying"},
         job' = [job EXCEPT ![a].at = place, ![a].got = got]
  PROVE  job' \in [Actors -> Jobs]
<1>1. [job[a] EXCEPT !.at = place, !.got = got] \in Works
  BY DEF Works
<1>2. job' = [job EXCEPT ![a] = [job[a] EXCEPT !.at = place, !.got = got]]
  BY DEF Types, Programs
<1>. QED
  BY <1>1, <1>2, Reworked DEF Jobs

\* or with what was noted of the layout as well.
LEMMA Found ==
  ASSUME Types, NEW a \in Actors, job[a] \in Works, NEW got \in Notes, NEW crosses \in BOOLEAN,
         \/ job' = [job EXCEPT ![a].at = "gating", ![a].got = got, ![a].crosses = crosses]
         \/ job' = [job EXCEPT ![a].at = "gating", ![a].crosses = crosses]
  PROVE  job' \in [Actors -> Jobs]
<1>1. /\ [job[a] EXCEPT !.at = "gating", !.got = got, !.crosses = crosses] \in Works
      /\ [job[a] EXCEPT !.at = "gating", !.crosses = crosses] \in Works
  BY DEF Works
<1>2. \/ job' = [job EXCEPT ![a] = [job[a] EXCEPT !.at = "gating", !.got = got, !.crosses = crosses]]
      \/ job' = [job EXCEPT ![a] = [job[a] EXCEPT !.at = "gating", !.crosses = crosses]]
  BY DEF Types, Programs
<1>. QED
  BY <1>1, <1>2, Reworked DEF Jobs

LEMMA Considered ==
  ASSUME Types, NEW f \in Factories, NEW v \in Versions
  PROVE  Considers(f, v) \in Jobs
BY DEF Types, Programs, Considers, Work, Works, Jobs, Notes

\* What follows once a release is staged and gated is a job.
LEMMA Goes ==
  ASSUME Types, NEW a \in Actors, job[a] \in Works,
         NEW got \in Notes, NEW crosses \in BOOLEAN, NEW g \in Gates
  PROVE  Then(a, got, crosses, g) \in Jobs
<1>1. job[a].factory \in Factories /\ job[a].version \in Versions
      /\ job[a].command \in {"watch", "stage", "apply"}
  BY DEF Works
<1>2. [job[a] EXCEPT !.at = "applying", !.got = got, !.crosses = crosses, !.gate = g] \in Works
  BY DEF Works
<1>. QED
  BY <1>1, <1>2, Considered DEF Then, Jobs

\* A warning is told, or not, and everything else as it is.
LEMMA Told ==
  ASSUME Types, NEW f \in Factories, NEW v \in Versions, NEW program
  PROVE  Hears(nature.says[f][edition[f]], v, program) \in {"clean", "warns", "refuses"}
<1>1. /\ nature.says[f] \in Seq([Versions -> {"clean", "warns", "refuses"}])
      /\ edition[f] \in 1..Len(nature.says[f])
  BY MachineAssumption DEF Types, Releases
<1>2. nature.says[f][edition[f]] \in [Versions -> {"clean", "warns", "refuses"}]
  BY <1>1
<1>. QED
  BY <1>2 DEF Hears

\* Two requests that ask for the same, whatever was done about them.
SameAsk(r, q) ==
  r.version = q.version /\ r.auto = q.auto /\ r.rollback = q.rollback /\ r.gate = q.gate

\* A hand-over is written, and only a request for where it goes counts as acted on.
LEMMA HandedOver ==
  ASSUME Types, NEW f \in Factories, NEW from \in Versions, NEW to \in Versions,
         NEW proof \in {"proving", "healthy"}, HandsOver(f, from, to, proof)
  PROVE  /\ request' \in [Factories -> {Nothing} \cup Requests]
         /\ record' \in [Factories -> {Nothing} \cup HandOvers]
         /\ \A g \in Factories :
              request'[g] # Nothing => request[g] # Nothing /\ SameAsk(request'[g], request[g])
<1>1. record' \in [Factories -> {Nothing} \cup HandOvers]
  BY DEF HandsOver, Types, Documents, HandOvers
<1>. DEFINE how == IF request[f].version = to THEN proof ELSE "no"
<1>2. ASSUME request[f] \in Requests
      PROVE  /\ [request[f] EXCEPT !.handed = how] \in Requests
             /\ SameAsk([request[f] EXCEPT !.handed = how], request[f])
  BY <1>2 DEF Requests, Acted, SameAsk
<1>3. \/ request' = request
      \/ request[f] # Nothing /\ request' = [request EXCEPT ![f] = [request[f] EXCEPT !.handed = how]]
  BY DEF HandsOver, Types, Documents
<1>. HIDE DEF how
<1>4. request' \in [Factories -> {Nothing} \cup Requests]
  BY <1>2, <1>3 DEF Types, Documents
<1>5. \A g \in Factories :
        request'[g] # Nothing => request[g] # Nothing /\ SameAsk(request'[g], request[g])
  BY <1>2, <1>3 DEF Types, Documents, SameAsk
<1>. QED
  BY <1>1, <1>4, <1>5

\* What is staged of a version is replaced,
LEMMA Restaged ==
  ASSUME Types, NEW v \in Versions, NEW s \in Staged,
         stage' = [stage EXCEPT ![v] = s] \/ stage' = ForgetOthers(v, s)
  PROVE  stage' \in [Versions -> Staged]
<1>1. Empty \in Staged
  BY DEF Empty, Staged, Notes
<1>. QED
  BY <1>1 DEF Types, Documents, ForgetOthers

\* or only its file.
LEMMA Refiled ==
  ASSUME Types, NEW v \in Versions, NEW file \in {"none", "torn", "whole"},
         stage' = [stage EXCEPT ![v].file = file]
  PROVE  stage' \in [Versions -> Staged]
<1>1. [stage[v] EXCEPT !.file = file] \in Staged
  BY DEF Types, Documents, Staged
<1>. QED
  BY <1>1, Restaged

LEMMA Housed ==
  ASSUME NEW f \in Factories
  PROVE  Home[f] \in Homes
BY MachineAssumption

\* A Tower that installs was asked to.
LEMMA Awaited ==
  ASSUME Types, NEW f \in Factories, tower[f].at \in {"copied", "placed"}
  PROVE  /\ tower[f].asked \in Requests
         /\ tower[f].at = "copied" => tower[f].fresh \in Contents
BY DEF Types, Programs, Towers, Off

\* What a swap leaves in place and aside are binaries, or torn ones.
LEMMA Replaced ==
  ASSUME Types, NEW f \in Factories, NEW from \in Versions, NEW content \in Contents,
         Swapped(f, from, content)
  PROVE  /\ binary' \in [Homes -> Contents]
         /\ DOMAIN kept' = Homes
         /\ \A h \in Homes :
              DOMAIN kept'[h] \subseteq Versions /\ \A v \in DOMAIN kept'[h] : kept'[h][v] \in Contents
<1> DEFINE g == Home[f]
<1>1. g \in Homes
  BY Housed
<1>2. DOMAIN KeptWith(g, from, binary[g]) \subseteq Versions
      /\ \A v \in DOMAIN KeptWith(g, from, binary[g]) : KeptWith(g, from, binary[g])[v] \in Contents
  BY <1>1 DEF Types, Programs, KeptWith
<1>3. kept' = [kept EXCEPT ![g] = KeptWith(g, from, binary[g])] /\ binary' = [binary EXCEPT ![g] = content]
  BY DEF Swapped
<1>4. binary' \in [Homes -> Contents] /\ DOMAIN kept' = Homes
  BY <1>1, <1>3 DEF Types, Programs
<1>5. ASSUME NEW h \in Homes
      PROVE  DOMAIN kept'[h] \subseteq Versions /\ \A v \in DOMAIN kept'[h] : kept'[h][v] \in Contents
  <2>1. CASE h = g
    <3>1. kept'[h] = KeptWith(g, from, binary[g])
      BY <1>1, <1>3, <2>1 DEF Types, Programs
    <3>. QED
      BY <1>2, <3>1
  <2>2. CASE h # g
    BY <1>3, <2>2 DEF Types, Programs
  <2>. QED
    BY <2>1, <2>2
<1>. QED
  BY <1>4, <1>5

\* So is what an install copies.
LEMMA Sourced ==
  ASSUME Types, NEW f \in Factories, NEW r \in Requests, HasSource(f, r)
  PROVE  SourceOf(f, r) \in Contents
<1>1. r.version \in Versions /\ Home[f] \in Homes
  BY Housed DEF Requests
<1>2. CASE r.rollback
  BY <1>1, <1>2 DEF HasSource, SourceOf, Types, Programs
<1>3. CASE ~r.rollback
  BY <1>1, <1>3 DEF HasSource, SourceOf, Content, Contents
<1>. QED
  BY <1>2, <1>3

LEMMA TypesPublish ==
  ASSUME Types, Publish
  PROVE  Types'
<1>1. Releases'
  BY MachineAssumption DEF Types, Releases, Documents, Programs, Publish, docs, disk, Versions
<1>2. Documents'
  BY DEF Types, Releases, Documents, Programs, Staged, Notes, Requests, Contents, Publish, docs, disk, Versions
<1>3. Programs'
  BY MachineAssumption, Housed DEF Types, Releases, Documents, Programs, Works, Jobs, Notes, Towers, Contents, Publish, docs, disk, Versions
<1>. QED
  BY <1>1, <1>2, <1>3 DEF Types

LEMMA TypesSignIn ==
  ASSUME Types, SignIn
  PROVE  Types'
<1>1. Releases'
  BY MachineAssumption DEF Types, Releases, Documents, Programs, SignIn, docs, disk
<1>2. Documents'
  BY DEF Types, Releases, Documents, Programs, Staged, Notes, Requests, Contents, SignIn, docs, disk
<1>3. Programs'
  BY MachineAssumption, Housed DEF Types, Releases, Documents, Programs, Works, Jobs, Notes, Towers, Contents, SignIn, docs, disk
<1>. QED
  BY <1>1, <1>2, <1>3 DEF Types

LEMMA TypesEdit ==
  ASSUME Types, NEW f \in Factories, Edit(f)
  PROVE  Types'
<1>1. nature.says[f] \in Seq([Versions -> {"clean", "warns", "refuses"}])
  BY MachineAssumption DEF Types, Releases
<1>2. edition' = [edition EXCEPT ![f] = edition[f] + 1] /\ edition[f] < Len(nature.says[f])
      /\ UNCHANGED <<nature, published, docs, running, tower, job, disk, signed>>
  BY DEF Edit
<1>3. edition' \in [Factories -> Nat] /\ \A g \in Factories : edition'[g] \in 1..Len(nature.says[g])
  BY <1>1, <1>2 DEF Types, Releases
<1>4. events' \in 0..MaxEvents
  BY MachineAssumption DEF Edit, Event, Types, Releases
<1>. QED
  BY <1>2, <1>3, <1>4 DEF Types, Releases, Documents, Programs, docs, disk

LEMMA TypesPass ==
  ASSUME Types, NEW f \in Factories, NEW checks \in BOOLEAN, Pass(f, checks)
  PROVE  Types'
<1>1. Releases'
  BY MachineAssumption DEF Types, Releases, Documents, Programs, Pass, Available, Considers, Work, Idle, disk, Actors
<1>2. Documents'
  BY DEF Types, Releases, Documents, Programs, Staged, Notes, Requests, Contents, Pass, Available, Considers, Work, Idle, disk, Actors
<1>3. Programs'
  BY MachineAssumption, Housed DEF Types, Releases, Documents, Programs, Works, Jobs, Notes, Towers, Contents, Pass, Available, Considers, Work, Idle, disk, Actors
<1>. QED
  BY <1>1, <1>2, <1>3 DEF Types

LEMMA TypesStageNow ==
  ASSUME Types, NEW f \in Factories, NEW trust \in BOOLEAN, StageNow(f, trust)
  PROVE  Types'
<1>1. Releases'
  BY MachineAssumption DEF Types, Releases, Documents, Programs, StageNow, Command, Event, Available, Work, disk, Actors
<1>2. Documents'
  BY DEF Types, Releases, Documents, Programs, Staged, Notes, Requests, Contents, StageNow, Command, Event, Available, Work, disk, Actors
<1>3. Programs'
  BY MachineAssumption, Housed DEF Types, Releases, Documents, Programs, Works, Jobs, Notes, Towers, Contents, StageNow, Command, Event, Available, Work, disk, Actors
<1>. QED
  BY <1>1, <1>2, <1>3 DEF Types

LEMMA TypesApplyNow ==
  ASSUME Types, NEW f \in Factories, ApplyNow(f)
  PROVE  Types'
<1>1. Releases'
  BY MachineAssumption DEF Types, Releases, Documents, Programs, ApplyNow, Command, Event, Available, Work, disk, Actors
<1>2. Documents'
  BY DEF Types, Releases, Documents, Programs, Staged, Notes, Requests, Contents, ApplyNow, Command, Event, Available, Work, disk, Actors
<1>3. Programs'
  BY MachineAssumption, Housed DEF Types, Releases, Documents, Programs, Works, Jobs, Notes, Towers, Contents, ApplyNow, Command, Event, Available, Work, disk, Actors
<1>. QED
  BY <1>1, <1>2, <1>3 DEF Types

LEMMA TypesLook ==
  ASSUME Types, NEW a \in Actors, Look(a)
  PROVE  Types'
<1>. DEFINE g == gate[job[a].factory]
            s == stage[job[a].version]
<1>0. job[a] \in Works
  BY Working DEF Look
<1>1. Releases' /\ Documents' /\ running' = running /\ tower' = tower /\ binary' = binary /\ kept' = kept
  BY DEF Look, Types, Releases, Documents, docs, disk
<1>2. s.note \in Notes /\ s.crosses \in BOOLEAN /\ (g # Nothing => g \in Gates)
  BY <1>0 DEF Types, Documents, Staged, Works
<1>3. ASSUME g # Nothing, job' = [job EXCEPT ![a] = Then(a, s.note, s.crosses, g)]
      PROVE  job' \in [Actors -> Jobs]
  BY <1>0, <1>2, <1>3, Goes, Reworked
<1>4. ASSUME job' = [job EXCEPT ![a].at = "gating", ![a].got = s.note, ![a].crosses = s.crosses]
      PROVE  job' \in [Actors -> Jobs]
  BY <1>0, <1>2, <1>4, Found
<1>5. ASSUME Goto(a, "fetching")
      PROVE  job' \in [Actors -> Jobs]
  BY <1>0, <1>5, Moved
<1>6. job' \in [Actors -> Jobs]
  BY <1>3, <1>4, <1>5 DEF Look
<1>. QED
  BY <1>1, <1>6 DEF Types, Programs

LEMMA TypesFetch ==
  ASSUME Types, NEW a \in Actors, Fetch(a)
  PROVE  Types'
<1>0. job[a] \in Works
  BY Working DEF Fetch
<1>1. Releases' /\ UNCHANGED <<gate, request, record, running, tower, disk>>
  BY MachineAssumption DEF Fetch, Types, Releases, Event
<1>2. job[a].version \in Versions
  BY <1>0 DEF Works
<1>3. ASSUME NEW got \in {"verified", "trusted"},
             stage' = [stage EXCEPT ![job[a].version].file = "torn"],
             job' = [job EXCEPT ![a].at = "writing", ![a].got = got]
      PROVE  stage' \in [Versions -> Staged] /\ job' \in [Actors -> Jobs]
  BY <1>0, <1>2, <1>3, Refiled, Got DEF Notes
<1>4. ASSUME stage' = stage, job' = [job EXCEPT ![a].at = "noting", ![a].got = "kept"]
      PROVE  stage' \in [Versions -> Staged] /\ job' \in [Actors -> Jobs]
  BY <1>0, <1>4, Got DEF Notes, Types, Documents
<1>5. ASSUME Refuse(a)
      PROVE  stage' \in [Versions -> Staged] /\ job' \in [Actors -> Jobs]
  BY <1>0, <1>2, <1>5, Refiled, Got DEF Notes, Refuse
<1>6. stage' \in [Versions -> Staged] /\ job' \in [Actors -> Jobs]
  BY <1>3, <1>4, <1>5 DEF Fetch
<1>. QED
  BY <1>1, <1>6 DEF Types, Documents, Programs, disk

LEMMA TypesWrite ==
  ASSUME Types, NEW a \in Actors, Write(a)
  PROVE  Types'
<1>0. job[a] \in Works
  BY Working DEF Write
<1>1. Releases' /\ UNCHANGED <<gate, request, record, running, tower, disk>>
  BY MachineAssumption DEF Write, Types, Releases, Event
<1>2. job[a].version \in Versions
  BY <1>0 DEF Works
<1>3. ASSUME stage' = [stage EXCEPT ![job[a].version].file = "whole"], Goto(a, "noting")
      PROVE  stage' \in [Versions -> Staged] /\ job' \in [Actors -> Jobs]
  BY <1>0, <1>2, <1>3, Refiled, Moved
<1>4. ASSUME Refuse(a)
      PROVE  stage' \in [Versions -> Staged] /\ job' \in [Actors -> Jobs]
  BY <1>0, <1>2, <1>4, Refiled, Got DEF Notes, Refuse
<1>5. stage' \in [Versions -> Staged] /\ job' \in [Actors -> Jobs]
  BY <1>3, <1>4 DEF Write
<1>. QED
  BY <1>1, <1>5 DEF Types, Documents, Programs, disk

LEMMA TypesNote ==
  ASSUME Types, NEW a \in Actors, Note(a)
  PROVE  Types'
<1>0. job[a] \in Works
  BY Working DEF Note
<1>1. Releases' /\ UNCHANGED <<gate, request, record, running, tower, disk>>
  BY DEF Note, Types, Releases
<1>2. job[a].version \in Versions /\ job[a].got \in Notes
  BY <1>0 DEF Works
<1>3. PICK crosses \in BOOLEAN :
        /\ stage' = ForgetOthers(job[a].version,
                                 [stage[job[a].version] EXCEPT !.note = job[a].got, !.crosses = crosses])
        /\ job' = [job EXCEPT ![a].at = "gating", ![a].crosses = crosses]
  BY DEF Note
<1>6. [stage[job[a].version] EXCEPT !.note = job[a].got, !.crosses = crosses] \in Staged
  BY <1>2 DEF Types, Documents, Staged
<1>4. stage' \in [Versions -> Staged]
  BY <1>2, <1>3, <1>6, Restaged
<1>5. job' \in [Actors -> Jobs]
  BY <1>0, <1>2, <1>3, Found
<1>. QED
  BY <1>1, <1>4, <1>5 DEF Types, Documents, Programs, disk

LEMMA TypesGate ==
  ASSUME Types, NEW a \in Actors, Gate(a)
  PROVE  Types'
<1>. DEFINE v == job[a].version
            f == job[a].factory
<1>0. job[a] \in Works
  BY Working DEF Gate
<1>1. Releases' /\ UNCHANGED <<stage, request, record, running, tower, disk>>
  BY MachineAssumption DEF Gate, Types, Releases, Event
<1>2. /\ v \in Versions /\ f \in Factories /\ job[a].got \in Notes
      /\ job[a].crosses \in BOOLEAN /\ job[a].program \in Versions
  BY <1>0 DEF Works
<1>3. PICK g :
        /\ \E said \in {"not_run", Hears(nature.says[f][edition[f]], v, job[a].program)} :
             g = [version |-> v, said |-> said, of |-> edition[f], by |-> job[a].program]
        /\ gate' = [gate EXCEPT ![f] = g]
        /\ job' = [job EXCEPT ![a] = Then(a, job[a].got, job[a].crosses, g)]
  BY DEF Gate
<1>4. g \in Gates
  <2>1. edition[f] \in Nat
    BY <1>2 DEF Types, Releases
  <2>2. PICK said \in Sayings :
          g = [version |-> v, said |-> said, of |-> edition[f], by |-> job[a].program]
    BY <1>2, <1>3, Told DEF Sayings
  <2>. QED
    BY <1>2, <2>1, <2>2 DEF Gates
<1>5. gate' \in [Factories -> {Nothing} \cup Gates]
  BY <1>2, <1>3, <1>4 DEF Types, Documents
<1>6. job' \in [Actors -> Jobs]
  BY <1>0, <1>2, <1>3, <1>4, Goes, Reworked
<1>. QED
  BY <1>1, <1>5, <1>6 DEF Types, Documents, Programs, disk

LEMMA TypesAsk ==
  ASSUME Types, NEW f \in Factories, Ask(f)
  PROVE  Types'
<1>0. job[f] \in Works /\ f \in Actors
  BY Working DEF Ask, Actors
<1>1. Releases' /\ UNCHANGED <<stage, gate, record, running, tower, disk>>
  BY DEF Ask, Types, Releases
<1>2. Asked(job[f].version, TRUE, gate[f]) \in Requests
  BY <1>0 DEF Works, Asked, Requests, Acted, Types, Documents
<1>3. request' \in [Factories -> {Nothing} \cup Requests]
  BY <1>2 DEF Ask, Types, Documents
<1>4. job' \in [Actors -> Jobs]
  BY <1>0, Reworked DEF Ask, Jobs
<1>. QED
  BY <1>1, <1>3, <1>4 DEF Types, Documents, Programs, disk

LEMMA TypesWait ==
  ASSUME Types, NEW f \in Factories, Wait(f)
  PROVE  Types'
<1>1. Releases'
  BY MachineAssumption DEF Types, Releases, Documents, Programs, Wait, docs, disk, Idle, Actors
<1>2. Documents'
  BY DEF Types, Releases, Documents, Programs, Staged, Notes, Requests, Contents, Wait, docs, disk, Idle, Actors
<1>3. Programs'
  BY MachineAssumption, Housed DEF Types, Releases, Documents, Programs, Works, Jobs, Notes, Towers, Contents, Wait, docs, disk, Idle, Actors
<1>. QED
  BY <1>1, <1>2, <1>3 DEF Types

LEMMA TypesApply ==
  ASSUME Types, NEW trust \in BOOLEAN, Apply(trust)
  PROVE  Types'
<1>. DEFINE j == job[Person]
            f == j.factory
            v == j.version
<1>0. Person \in Actors /\ j \in Works
  BY Working DEF Apply, Actors
<1>1. Releases' /\ UNCHANGED <<stage, gate, running, tower>>
  BY DEF Apply, Types, Releases
<1>2. v \in Versions /\ f \in Factories /\ j.program \in Versions
  BY <1>0 DEF Works
<1>3. job' \in [Actors -> Jobs]
  <2>1. [j EXCEPT !.at = "fetching", !.trust = TRUE] \in Jobs
    BY <1>0 DEF Works, Jobs
  <2>2. ASSUME job' = [job EXCEPT ![Person].at = "fetching", ![Person].trust = TRUE]
        PROVE  job' = [job EXCEPT ![Person] = [j EXCEPT !.at = "fetching", !.trust = TRUE]]
    BY <1>0, <2>2 DEF Types, Programs
  <2>3. Idle \in Jobs
    BY DEF Jobs
  <2>. QED
    BY <1>0, <2>1, <2>2, <2>3, Reworked DEF Apply
<1>4. ASSUME HandsOver(f, j.program, v, "healthy")
      PROVE  /\ request' \in [Factories -> {Nothing} \cup Requests]
             /\ record' \in [Factories -> {Nothing} \cup HandOvers]
  BY <1>2, <1>4, HandedOver
<1>5. /\ request' \in [Factories -> {Nothing} \cup Requests]
      /\ record' \in [Factories -> {Nothing} \cup HandOvers]
  <2>1. Asked(v, FALSE, j.gate) \in Requests
    BY <1>0, <1>2 DEF Asked, Requests, Acted, Works
  <2>2. \/ request' = request /\ record' = record
        \/ request' = [request EXCEPT ![f] = Asked(v, FALSE, j.gate)] /\ record' = record
        \/ HandsOver(f, j.program, v, "healthy")
    BY DEF Apply, ByHand
  <2>. QED
    BY <1>2, <1>4, <2>1, <2>2 DEF Types, Documents
<1>6. UNCHANGED disk \/ Swapped(f, j.program, Content(v))
  BY DEF Apply, ByHand
<1>7. Content(v) \in Contents
  BY <1>2 DEF Content, Contents
<1>8. CASE UNCHANGED disk
  BY <1>1, <1>3, <1>5, <1>8 DEF Types, Documents, Programs, disk
<1>9. CASE Swapped(f, j.program, Content(v))
  BY <1>1, <1>2, <1>3, <1>5, <1>7, <1>9, Replaced DEF Types, Documents, Programs
<1>. QED
  BY <1>6, <1>8, <1>9

LEMMA TypesAskFromDashboard ==
  ASSUME Types, NEW f \in Factories, AskFromDashboard(f)
  PROVE  Types'
<1>1. Releases' /\ UNCHANGED <<stage, gate, record, running, tower, job, disk>>
  BY MachineAssumption DEF AskFromDashboard, Command, Event, Types, Releases
<1>2. Asked(known, FALSE, gate[f]) \in Requests
  BY DEF Asked, Requests, Acted, Types, Releases, Documents
<1>3. request' \in [Factories -> {Nothing} \cup Requests]
  BY <1>2 DEF AskFromDashboard, Types, Documents
<1>. QED
  BY <1>1, <1>3 DEF Types, Documents, Programs, disk

LEMMA TypesCancel ==
  ASSUME Types, NEW f \in Factories, Cancel(f)
  PROVE  Types'
<1>1. Releases' /\ UNCHANGED <<stage, gate, record, running, tower, job, disk>>
  BY MachineAssumption DEF Cancel, Command, Event, Types, Releases
<1>2. request' \in [Factories -> {Nothing} \cup Requests]
  BY DEF Cancel, Types, Documents
<1>. QED
  BY <1>1, <1>2 DEF Types, Documents, Programs, disk

LEMMA TypesGoBack ==
  ASSUME Types, NEW f \in Factories, GoBack(f)
  PROVE  Types'
<1>. DEFINE v == IF Served(f) THEN running[f] ELSE binary[Home[f]]
            from == record[f].from
<1>1. v \in Versions /\ from \in Versions /\ from \in DOMAIN kept[Home[f]] /\ Home[f] \in Homes
  BY Housed DEF GoBack, Types, Documents, Programs, Contents, HandOvers
<1>2. Releases' /\ UNCHANGED <<stage, gate, running, tower, job>>
  BY <1>1, MachineAssumption DEF GoBack, Types, Releases, Command, Event
<1>3. ASSUME HandsOver(f, v, from, "healthy")
      PROVE  /\ request' \in [Factories -> {Nothing} \cup Requests]
             /\ record' \in [Factories -> {Nothing} \cup HandOvers]
  BY <1>1, <1>3, HandedOver
<1>4. /\ request' \in [Factories -> {Nothing} \cup Requests]
      /\ record' \in [Factories -> {Nothing} \cup HandOvers]
  <2>1. [Asked(from, FALSE, Nothing) EXCEPT !.rollback = TRUE] \in Requests
    BY <1>1 DEF Asked, Requests, Acted
  <2>2. \/ request' = request /\ record' = record
        \/ /\ request' = [request EXCEPT ![f] = [Asked(from, FALSE, Nothing) EXCEPT !.rollback = TRUE]]
           /\ record' = record
        \/ HandsOver(f, v, from, "healthy")
    BY DEF GoBack, ByHand
  <2>. QED
    BY <1>3, <2>1, <2>2 DEF Types, Documents
<1>5. UNCHANGED disk \/ Swapped(f, v, kept[Home[f]][from])
  BY DEF GoBack, ByHand
<1>6. kept[Home[f]][from] \in Contents
  BY <1>1 DEF Types, Programs
<1>7. CASE UNCHANGED disk
  BY <1>2, <1>4, <1>7 DEF Types, Documents, Programs, disk
<1>8. CASE Swapped(f, v, kept[Home[f]][from])
  BY <1>1, <1>2, <1>4, <1>6, <1>8, Replaced DEF Types, Documents, Programs
<1>. QED
  BY <1>5, <1>7, <1>8

LEMMA TypesSkip ==
  ASSUME Types, NEW v \in Versions, Skip(v)
  PROVE  Types'
<1>1. skipped' \subseteq Versions /\ events' \in 0..MaxEvents
  BY MachineAssumption DEF Skip, Types, Releases, Command, Event
<1>. QED
  BY <1>1 DEF Skip, Types, Releases, Documents, Programs, disk

LEMMA TypesClearSkipped ==
  ASSUME Types, ClearSkipped
  PROVE  Types'
<1>1. Releases'
  BY MachineAssumption DEF Types, Releases, Documents, Programs, ClearSkipped, Command, Event, disk
<1>2. Documents'
  BY DEF Types, Releases, Documents, Programs, Staged, Notes, Requests, Contents, ClearSkipped, Command, Event, disk
<1>3. Programs'
  BY MachineAssumption, Housed DEF Types, Releases, Documents, Programs, Works, Jobs, Notes, Towers, Contents, ClearSkipped, Command, Event, disk
<1>. QED
  BY <1>1, <1>2, <1>3 DEF Types

LEMMA TypesCopy ==
  ASSUME Types, NEW f \in Factories, Copy(f)
  PROVE  Types'
<1>1. Releases' /\ Documents' /\ UNCHANGED <<running, job, disk>>
  BY DEF Copy, Types, Releases, Documents, docs
<1>2. request[f] \in Requests
  BY DEF Copy, Waits, Types, Documents
<1>3. SourceOf(f, request[f]) \in Contents
  BY <1>2, Sourced DEF Copy
<1>4. tower' \in [Factories -> Towers]
  BY <1>2, <1>3 DEF Copy, Types, Programs, Towers
<1>. QED
  BY <1>1, <1>4 DEF Types, Programs, disk

LEMMA TypesCopyFails ==
  ASSUME Types, NEW f \in Factories, CopyFails(f)
  PROVE  Types'
<1>1. Releases'
  BY MachineAssumption DEF Types, Releases, Documents, Programs, CopyFails, Event, Fails, disk
<1>2. Documents'
  BY DEF Types, Releases, Documents, Programs, Staged, Notes, Requests, Contents, CopyFails, Event, Fails, disk
<1>3. Programs'
  BY MachineAssumption, Housed DEF Types, Releases, Documents, Programs, Works, Jobs, Notes, Towers, Contents, CopyFails, Event, Fails, disk
<1>. QED
  BY <1>1, <1>2, <1>3 DEF Types

LEMMA TypesPlace ==
  ASSUME Types, NEW f \in Factories, Place(f)
  PROVE  Types'
<1>1. Releases' /\ UNCHANGED <<stage, gate, running, job>>
  BY DEF Place, Types, Releases
<1>2. /\ tower[f].asked \in Requests /\ tower[f].asked.version \in Versions
      /\ tower[f].fresh \in Contents /\ running[f] \in Versions
  BY Awaited DEF Place, Types, Programs, Requests
<1>3. /\ request' \in [Factories -> {Nothing} \cup Requests]
      /\ record' \in [Factories -> {Nothing} \cup HandOvers]
  BY <1>2, HandedOver DEF Place
<1>4. tower' \in [Factories -> Towers]
  BY <1>2 DEF Place, Types, Programs, Towers
<1>5. Swapped(f, running[f], tower[f].fresh)
  BY DEF Place
<1>. QED
  BY <1>1, <1>2, <1>3, <1>4, <1>5, Replaced DEF Types, Documents, Programs

LEMMA TypesPlaceFails ==
  ASSUME Types, NEW f \in Factories, PlaceFails(f)
  PROVE  Types'
<1>1. Releases'
  BY MachineAssumption DEF Types, Releases, Documents, Programs, PlaceFails, Event, Fails, disk
<1>2. Documents'
  BY DEF Types, Releases, Documents, Programs, Staged, Notes, Requests, Contents, PlaceFails, Event, Fails, disk
<1>3. Programs'
  BY MachineAssumption, Housed DEF Types, Releases, Documents, Programs, Works, Jobs, Notes, Towers, Contents, PlaceFails, Event, Fails, disk
<1>. QED
  BY <1>1, <1>2, <1>3 DEF Types

LEMMA TypesStarts ==
  ASSUME Types, NEW f \in Factories, Starts(f),
         UNCHANGED <<nature, edition, published, known, skipped, gate, record, disk, signed>>
  PROVE  Types'
<1>1. events' \in 0..MaxEvents
  BY MachineAssumption DEF Starts, Event, Types, Releases
<1>2. binary[Home[f]] \in Versions
  BY Housed DEF Starts, Types, Programs, Contents
<1>3. stage' \in [Versions -> Staged]
  BY DEF Starts, ForgetInstalled, Empty, Staged, Notes, Types, Documents
<1>4. request' \in [Factories -> {Nothing} \cup Requests]
  BY DEF Starts, Types, Documents
<1>5. tower' \in [Factories -> Towers]
  BY DEF Starts, Types, Programs, Towers
<1>6. job' \in [Actors -> Jobs]
  BY Reworked DEF Starts, Actors, Jobs
<1>7. running' \in [Factories -> Versions]
  BY <1>2 DEF Starts, Types, Programs
<1>. QED
  BY <1>1, <1>3, <1>4, <1>5, <1>6, <1>7 DEF Types, Releases, Documents, Programs, disk

LEMMA TypesProve ==
  ASSUME Types, NEW f \in Factories, Prove(f)
  PROVE  Types'
<1>1. Starts(f) /\ UNCHANGED <<nature, edition, published, known, skipped, gate, record, disk, signed>>
  BY DEF Prove
<1>. QED
  BY <1>1, TypesStarts

LEMMA TypesUndo ==
  ASSUME Types, NEW f \in Factories, Undo(f)
  PROVE  Types'
<1>1. tower[f].asked \in Requests /\ tower[f].asked.version \in Versions /\ Home[f] \in Homes
  BY Awaited, Housed DEF Undo, Requests
<1>2. Releases' /\ UNCHANGED <<stage, gate, record, running, job, kept>>
  BY <1>1, MachineAssumption DEF Undo, Types, Releases, Event
<1>3. request' \in [Factories -> {Nothing} \cup Requests]
  BY DEF Undo, Fails, Types, Documents
<1>4. tower' \in [Factories -> Towers]
  BY DEF Undo, Fails, Types, Programs, Towers
<1>5. binary' \in [Homes -> Contents]
  BY <1>1 DEF Undo, Types, Programs
<1>. QED
  BY <1>2, <1>3, <1>4, <1>5 DEF Types, Documents, Programs

LEMMA TypesCrash ==
  ASSUME Types, NEW f \in Factories, Crash(f)
  PROVE  Types'
<1>1. Releases'
  BY MachineAssumption DEF Types, Releases, Documents, Programs, Crash, Event, docs, disk, Off, Actors
<1>2. Documents'
  BY DEF Types, Releases, Documents, Programs, Staged, Notes, Requests, Contents, Crash, Event, docs, disk, Off, Actors
<1>3. Programs'
  BY MachineAssumption, Housed DEF Types, Releases, Documents, Programs, Works, Jobs, Notes, Towers, Contents, Crash, Event, docs, disk, Off, Actors
<1>. QED
  BY <1>1, <1>2, <1>3 DEF Types

LEMMA TypesRestart ==
  ASSUME Types, NEW f \in Factories, Restart(f)
  PROVE  Types'
<1>1. Starts(f) /\ UNCHANGED <<nature, edition, published, known, skipped, gate, record, disk, signed>>
  BY DEF Restart
<1>. QED
  BY <1>1, TypesStarts

LEMMA TypesInterrupt ==
  ASSUME Types, Interrupt
  PROVE  Types'
<1>1. Releases'
  BY MachineAssumption DEF Types, Releases, Documents, Programs, Interrupt, docs, disk, Idle, Actors
<1>2. Documents'
  BY DEF Types, Releases, Documents, Programs, Staged, Notes, Requests, Contents, Interrupt, docs, disk, Idle, Actors
<1>3. Programs'
  BY MachineAssumption, Housed DEF Types, Releases, Documents, Programs, Works, Jobs, Notes, Towers, Contents, Interrupt, docs, disk, Idle, Actors
<1>. QED
  BY <1>1, <1>2, <1>3 DEF Types

LEMMA TypesInit ==
  ASSUME Init
  PROVE  Types
<1>1. Releases
  <2>1. \A f \in Factories : Len(nature.says[f]) \in Nat /\ Len(nature.says[f]) > 0
    BY MachineAssumption DEF Init
  <2>2. published \in Versions /\ known \in Versions /\ events \in 0..MaxEvents
    BY MachineAssumption DEF Init, Versions
  <2>3. skipped \subseteq Versions /\ signed \in BOOLEAN /\ nature \in Natures
    BY MachineAssumption DEF Init
  <2>. QED
    BY <2>1, <2>2, <2>3 DEF Init, Releases
<1>2. Documents
  BY DEF Init, Documents, Empty, Staged, Notes
<1>3. Programs
  <2>1. nature.installed \in [Homes -> Versions] /\ Home \in [Factories -> Homes]
    BY MachineAssumption DEF Init
  <2>2. \A h \in Homes : DOMAIN kept[h] = {}
    BY DEF Init
  <2>. QED
    BY <2>1, <2>2 DEF Init, Programs, Towers, Jobs, Contents
<1>. QED
  BY <1>1, <1>2, <1>3 DEF Types

\* The steps of Next.
LEMMA Steps ==
  ASSUME Next
  PROVE  \/ Publish \/ SignIn
         \/ \E f \in Factories :
              \/ \E checks \in BOOLEAN : Pass(f, checks)
              \/ Ask(f) \/ Wait(f)
              \/ Copy(f) \/ CopyFails(f) \/ Place(f) \/ PlaceFails(f) \/ Prove(f) \/ Restart(f)
              \/ Undo(f) \/ Crash(f)
              \/ \E trust \in BOOLEAN : StageNow(f, trust)
              \/ ApplyNow(f) \/ AskFromDashboard(f) \/ GoBack(f) \/ Cancel(f) \/ Edit(f)
         \/ \E a \in Actors : Look(a) \/ Fetch(a) \/ Write(a) \/ Note(a) \/ Gate(a)
         \/ \E trust \in BOOLEAN : Apply(trust)
         \/ \E v \in Versions : Skip(v)
         \/ ClearSkipped \/ Interrupt
BY MachineAssumption DEF Next, Ready, Install, PersonNext

LEMMA TypesNext ==
  ASSUME Types, [Next]_vars
  PROVE  Types'
<1>1. CASE UNCHANGED vars
  BY <1>1 DEF vars, docs, disk, Types, Releases, Documents, Programs
<1>2. CASE Next
  BY <1>2, Steps,
     TypesPublish, TypesSignIn, TypesEdit, TypesCancel, TypesPass, TypesStageNow, TypesApplyNow, TypesLook,
     TypesFetch, TypesWrite, TypesNote, TypesGate, TypesAsk, TypesWait,
     TypesApply, TypesAskFromDashboard, TypesGoBack, TypesSkip, TypesClearSkipped, TypesCopy,
     TypesCopyFails, TypesPlace, TypesPlaceFails, TypesProve, TypesUndo, TypesCrash,
     TypesRestart, TypesInterrupt
<1>. QED
  BY <1>1, <1>2

\* Documents, watchers, commands and Towers are always what the code can write or hold
\* (layover-update's stage.rs, gate.rs, handover.rs, swap.rs).
THEOREM TypeCorrect == Spec => []TypeOK
<1>1. Init => Types
  BY TypesInit
<1>2. Types /\ [Next]_vars => Types'
  BY TypesNext
<1>3. Types => TypeOK
  BY DEF Types, Releases, Documents, Programs, TypeOK, Staged, Notes, Gates, Towers, Off, Contents
<1>. QED
  BY <1>1, <1>2, <1>3, PTL DEF Spec

----------------------------------------------------------------------------
(* What factories said. *)

\* A job is replaced by one that says what was heard,
LEMMA Answers ==
  ASSUME Types, Says, nature' = nature, NEW a \in Actors, NEW w, WorkSays(w),
         job' = [job EXCEPT ![a] = w]
  PROVE  WorksSay'
BY DEF Types, Programs, Says, WorksSay, WorkSays, Heard, Answer

\* or goes on before it has anything to say.
LEMMA MovedOn ==
  ASSUME Types, Says, nature' = nature, NEW a \in Actors, job[a] \in Works,
         NEW place, place # "applying", NEW got, NEW crosses,
         \/ Goto(a, place)
         \/ job' = [job EXCEPT ![a].at = place, ![a].got = got]
         \/ job' = [job EXCEPT ![a].at = place, ![a].got = got, ![a].crosses = crosses]
         \/ job' = [job EXCEPT ![a].at = place, ![a].crosses = crosses]
  PROVE  WorksSay'
<1>1. \A b \in Actors \ {a} : job'[b] = job[b]
  BY DEF Types, Programs, Goto
<1>2. job'[a].at = place
  BY DEF Types, Programs, Goto, Works
<1>. QED
  BY <1>1, <1>2 DEF Says, WorksSay, WorkSays, Heard, Answer

\* What follows carries on what the gate said.
LEMMA ThenSays ==
  ASSUME Types, NEW a \in Actors, job[a] \in Works, NEW got, NEW crosses, NEW g,
         g.version = job[a].version, Heard(job[a].factory, g)
  PROVE  WorkSays(Then(a, got, crosses, g))
<1>. DEFINE w == [job[a] EXCEPT !.at = "applying", !.got = got, !.crosses = crosses, !.gate = g]
<1>1. w.version = job[a].version /\ w.factory = job[a].factory /\ w.gate = g
  BY DEF Works
<1>4. WorkSays(w)
  BY <1>1 DEF WorkSays
<1>2. WorkSays(Idle) /\ WorkSays(Considers(job[a].factory, job[a].version))
  BY DEF WorkSays, Considers, Work, Idle
<1>3. job[a].command \in {"watch", "stage", "apply"}
  BY DEF Works
<1>. QED
  BY <1>4, <1>2, <1>3 DEF Then

LEMMA SaysPublish ==
  ASSUME Types, Says, Publish
  PROVE  Says'
BY DEF Says, GatesSay, WorksSay, WorkSays, RequestsFit, TowersFit, Heard, Accepted, Answer, Publish, docs

LEMMA SaysSignIn ==
  ASSUME Types, Says, SignIn
  PROVE  Says'
BY DEF Says, GatesSay, WorksSay, WorkSays, RequestsFit, TowersFit, Heard, Accepted, Answer, SignIn, docs

LEMMA SaysEdit ==
  ASSUME Types, Says, NEW f \in Factories, Edit(f)
  PROVE  Says'
BY DEF Says, GatesSay, WorksSay, WorkSays, RequestsFit, TowersFit, Heard, Accepted, Answer, Edit, docs

LEMMA SaysCancel ==
  ASSUME Types, Says, NEW f \in Factories, Cancel(f)
  PROVE  Says'
<1>1. GatesSay' /\ WorksSay' /\ TowersFit' /\ nature' = nature
  BY DEF Says, GatesSay, WorksSay, WorkSays, TowersFit, Heard, Accepted, Answer, Cancel
<1>2. \A g \in Factories : request'[g] # Nothing => request'[g] = request[g]
  BY DEF Cancel, Types, Documents
<1>3. RequestsFit'
  BY <1>1, <1>2 DEF Says, RequestsFit, Accepted, Answer
<1>. QED
  BY <1>1, <1>3 DEF Says

\* A request that was acted on is still for what it was for.
LEMMA StillFit ==
  ASSUME Types, Says, nature' = nature,
         \A g \in Factories :
           request'[g] # Nothing => request[g] # Nothing /\ SameAsk(request'[g], request[g])
  PROVE  RequestsFit'
BY DEF Says, RequestsFit, Accepted, Answer, SameAsk

LEMMA SaysPass ==
  ASSUME Types, Says, NEW f \in Factories, NEW checks \in BOOLEAN, Pass(f, checks)
  PROVE  Says'
<1>1. GatesSay' /\ RequestsFit' /\ TowersFit'
  BY DEF Says, GatesSay, RequestsFit, TowersFit, Heard, Accepted, Answer, Pass, docs, Considers, Work, Idle
<1>2. WorksSay'
  BY MachineAssumption DEF Types, Documents, Programs, Works, Jobs, Towers, Gates, Says, GatesSay, WorksSay, RequestsFit, TowersFit, WorkSays, Heard, Accepted, Answer, Passes, Actors, Pass, docs, Considers, Work, Idle
<1>. QED
  BY <1>1, <1>2 DEF Says

LEMMA SaysStageNow ==
  ASSUME Types, Says, NEW f \in Factories, NEW trust \in BOOLEAN, StageNow(f, trust)
  PROVE  Says'
<1>1. GatesSay' /\ RequestsFit' /\ TowersFit'
  BY DEF Says, GatesSay, RequestsFit, TowersFit, Heard, Accepted, Answer, StageNow, docs, Work
<1>2. WorksSay'
  BY MachineAssumption DEF Types, Documents, Programs, Works, Jobs, Towers, Gates, Says, GatesSay, WorksSay, RequestsFit, TowersFit, WorkSays, Heard, Accepted, Answer, Passes, Actors, StageNow, docs, Work
<1>. QED
  BY <1>1, <1>2 DEF Says

LEMMA SaysApplyNow ==
  ASSUME Types, Says, NEW f \in Factories, ApplyNow(f)
  PROVE  Says'
<1>1. GatesSay' /\ RequestsFit' /\ TowersFit'
  BY DEF Says, GatesSay, RequestsFit, TowersFit, Heard, Accepted, Answer, ApplyNow, docs, Work
<1>2. WorksSay'
  BY MachineAssumption DEF Types, Documents, Programs, Works, Jobs, Towers, Gates, Says, GatesSay, WorksSay, RequestsFit, TowersFit, WorkSays, Heard, Accepted, Answer, Passes, Actors, ApplyNow, docs, Work
<1>. QED
  BY <1>1, <1>2 DEF Says

LEMMA SaysLook ==
  ASSUME Types, Says, NEW a \in Actors, Look(a)
  PROVE  Says'
<1>. DEFINE g == gate[job[a].factory]
<1>1. GatesSay' /\ RequestsFit' /\ TowersFit' /\ nature' = nature
  BY DEF Says, GatesSay, RequestsFit, TowersFit, Heard, Accepted, Answer, Look, docs
<1>2. job[a] \in Works
  BY Working DEF Look
<1>3. ASSUME g # Nothing, g.version = job[a].version, NEW got, NEW crosses,
             job' = [job EXCEPT ![a] = Then(a, got, crosses, g)]
      PROVE  WorksSay'
  <2>1. Heard(job[a].factory, g)
    BY <1>2, <1>3 DEF Says, GatesSay, Works
  <2>. QED
    BY <1>1, <1>2, <1>3, <2>1, ThenSays, Answers
<1>4. ASSUME NEW got, NEW crosses,
             job' = [job EXCEPT ![a].at = "gating", ![a].got = got, ![a].crosses = crosses]
      PROVE  WorksSay'
  BY <1>1, <1>2, <1>4, MovedOn
<1>5. ASSUME Goto(a, "fetching")
      PROVE  WorksSay'
  BY <1>1, <1>2, <1>5, MovedOn
<1>. QED
  BY <1>1, <1>3, <1>4, <1>5 DEF Look, Says

LEMMA SaysFetch ==
  ASSUME Types, Says, NEW a \in Actors, Fetch(a)
  PROVE  Says'
<1>1. GatesSay' /\ RequestsFit' /\ TowersFit' /\ nature' = nature
  BY DEF Says, GatesSay, RequestsFit, TowersFit, Heard, Accepted, Answer, Fetch
<1>2. job[a] \in Works
  BY Working DEF Fetch
<1>3. \E place \in {"writing", "noting"}, got \in Notes :
        job' = [job EXCEPT ![a].at = place, ![a].got = got]
  BY DEF Fetch, Refuse, Notes
<1>. QED
  BY <1>1, <1>2, <1>3, MovedOn DEF Says

LEMMA SaysWrite ==
  ASSUME Types, Says, NEW a \in Actors, Write(a)
  PROVE  Says'
<1>1. GatesSay' /\ RequestsFit' /\ TowersFit' /\ nature' = nature
  BY DEF Says, GatesSay, RequestsFit, TowersFit, Heard, Accepted, Answer, Write
<1>2. job[a] \in Works
  BY Working DEF Write
<1>3. Goto(a, "noting") \/ job' = [job EXCEPT ![a].at = "noting", ![a].got = "refused"]
  BY DEF Write, Refuse
<1>. QED
  BY <1>1, <1>2, <1>3, MovedOn DEF Says

LEMMA SaysNote ==
  ASSUME Types, Says, NEW a \in Actors, Note(a)
  PROVE  Says'
<1>1. GatesSay' /\ RequestsFit' /\ TowersFit' /\ nature' = nature
  BY DEF Says, GatesSay, RequestsFit, TowersFit, Heard, Accepted, Answer, Note
<1>2. job[a] \in Works
  BY Working DEF Note
<1>3. \E crosses : job' = [job EXCEPT ![a].at = "gating", ![a].crosses = crosses]
  BY DEF Note
<1>. QED
  BY <1>1, <1>2, <1>3, MovedOn DEF Says

LEMMA SaysGate ==
  ASSUME Types, Says, NEW a \in Actors, Gate(a)
  PROVE  Says'
<1>. DEFINE v == job[a].version
            f == job[a].factory
<1>1. RequestsFit' /\ TowersFit' /\ nature' = nature
  BY DEF Says, RequestsFit, TowersFit, Accepted, Answer, Gate
<1>2. job[a] \in Works
  BY Working DEF Gate
<1>3. v \in Versions /\ f \in Factories
  BY <1>2 DEF Works
<1>4. PICK g :
        /\ \E said \in {"not_run", Hears(nature.says[f][edition[f]], v, job[a].program)} :
             g = [version |-> v, said |-> said, of |-> edition[f], by |-> job[a].program]
        /\ gate' = [gate EXCEPT ![f] = g]
        /\ job' = [job EXCEPT ![a] = Then(a, job[a].got, job[a].crosses, g)]
  BY DEF Gate
<1>5. g.version = v /\ Heard(f, g)
  BY <1>4 DEF Heard, Answer
<1>6. GatesSay'
  BY <1>1, <1>3, <1>4, <1>5 DEF Types, Documents, Says, GatesSay, Heard, Answer
<1>7. WorksSay'
  BY <1>1, <1>2, <1>3, <1>4, <1>5, ThenSays, Answers
<1>. QED
  BY <1>1, <1>6, <1>7 DEF Says

LEMMA SaysAsk ==
  ASSUME Types, Says, NEW f \in Factories, Ask(f)
  PROVE  Says'
<1>. DEFINE v == job[f].version
<1>1. GatesSay' /\ TowersFit' /\ nature' = nature
  BY DEF Says, GatesSay, TowersFit, Heard, Accepted, Answer, Ask
<1>2. f \in Actors /\ WorkSays(Idle)
  BY DEF Actors, WorkSays, Idle
<1>3. WorksSay'
  BY <1>1, <1>2, Answers DEF Ask
<1>4. v \notin nature.left[f] /\ Answer(f, v, gate[f]) = "clean"
  BY DEF Ask, Unattended, Says, GatesSay, Heard
<1>5. Accepted(f, Asked(v, TRUE, gate[f]))
  BY <1>4 DEF Accepted, Asked, Passes
<1>7. \A g \in Factories : request'[g] # Nothing =>
        request'[g] = request[g] \/ (g = f /\ request'[g] = Asked(v, TRUE, gate[f]))
  BY DEF Ask, Types, Documents
<1>6. RequestsFit'
  BY <1>1, <1>5, <1>7 DEF Says, RequestsFit, Accepted, Answer
<1>. QED
  BY <1>1, <1>3, <1>6 DEF Says

LEMMA SaysWait ==
  ASSUME Types, Says, NEW f \in Factories, Wait(f)
  PROVE  Says'
<1>1. GatesSay' /\ RequestsFit' /\ TowersFit'
  BY DEF Says, GatesSay, RequestsFit, TowersFit, Heard, Accepted, Answer, Wait, docs, Idle
<1>2. WorksSay'
  BY MachineAssumption DEF Types, Documents, Programs, Works, Jobs, Towers, Gates, Says, GatesSay, WorksSay, RequestsFit, TowersFit, WorkSays, Heard, Accepted, Answer, Passes, Actors, Wait, docs, Idle
<1>. QED
  BY <1>1, <1>2 DEF Says

LEMMA SaysApply ==
  ASSUME Types, Says, NEW trust \in BOOLEAN, Apply(trust)
  PROVE  Says'
<1>. DEFINE j == job[Person]
            f == j.factory
            v == j.version
<1>1. GatesSay' /\ TowersFit' /\ nature' = nature
  BY DEF Says, GatesSay, TowersFit, Heard, Accepted, Answer, Apply
<1>2. Person \in Actors /\ j \in Works
  BY Working DEF Apply, Actors
<1>3. WorksSay'
  <2>1. WorkSays(Idle) /\ WorkSays([j EXCEPT !.at = "fetching", !.trust = TRUE])
    BY <1>2 DEF WorkSays, Idle, Works
  <2>2. ASSUME job' = [job EXCEPT ![Person].at = "fetching", ![Person].trust = TRUE]
        PROVE  job' = [job EXCEPT ![Person] = [j EXCEPT !.at = "fetching", !.trust = TRUE]]
    BY <1>2, <2>2 DEF Types, Programs
  <2>. QED
    BY <1>1, <1>2, <2>1, <2>2, Answers DEF Apply
<1>4. RequestsFit'
  <2>1. j.gate.version = v /\ Heard(f, j.gate)
    BY <1>2 DEF Apply, Says, WorksSay, WorkSays
  <2>2. \/ request' = request
        \/ Passes(j.gate.said) /\ request' = [request EXCEPT ![f] = Asked(v, FALSE, j.gate)]
        \/ HandsOver(f, j.program, v, "healthy")
    BY DEF Apply, ByHand
  <2>3. ASSUME Passes(j.gate.said)
        PROVE  Accepted(f, Asked(v, FALSE, j.gate))
    BY <2>1, <2>3 DEF Heard, Accepted, Asked, Passes
  <2>4. CASE HandsOver(f, j.program, v, "healthy")
    <3>1. f \in Factories /\ v \in Versions /\ j.program \in Versions
      BY <1>2 DEF Works
    <3>. QED
      BY <1>1, <2>4, <3>1, HandedOver, StillFit
  <2>5. CASE request' = request
    BY <1>1, <2>5, StillFit DEF SameAsk
  <2>6. CASE Passes(j.gate.said) /\ request' = [request EXCEPT ![f] = Asked(v, FALSE, j.gate)]
    <3>1. Accepted(f, Asked(v, FALSE, j.gate))
      BY <2>3, <2>6
    <3>2. \A g \in Factories : request'[g] # Nothing =>
            request'[g] = request[g] \/ (g = f /\ request'[g] = Asked(v, FALSE, j.gate))
      BY <2>6 DEF Types, Documents
    <3>. QED
      BY <1>1, <3>1, <3>2 DEF Says, RequestsFit, Accepted, Answer
  <2>. QED
    BY <2>2, <2>4, <2>5, <2>6
<1>. QED
  BY <1>1, <1>3, <1>4 DEF Says

LEMMA SaysAskFromDashboard ==
  ASSUME Types, Says, NEW f \in Factories, AskFromDashboard(f)
  PROVE  Says'
<1>1. GatesSay' /\ WorksSay' /\ TowersFit' /\ nature' = nature
  BY DEF Says, GatesSay, WorksSay, WorkSays, TowersFit, Heard, Accepted, Answer, AskFromDashboard
<1>2. Passes(Answer(f, known, gate[f]))
  BY DEF AskFromDashboard, Passes, Says, GatesSay, Heard
<1>3. Accepted(f, Asked(known, FALSE, gate[f]))
  BY <1>2 DEF Accepted, Asked
<1>5. \A g \in Factories : request'[g] # Nothing =>
        request'[g] = request[g] \/ (g = f /\ request'[g] = Asked(known, FALSE, gate[f]))
  BY DEF AskFromDashboard, Types, Documents
<1>4. RequestsFit'
  BY <1>1, <1>3, <1>5 DEF Says, RequestsFit, Accepted, Answer
<1>. QED
  BY <1>1, <1>4 DEF Says

LEMMA SaysGoBack ==
  ASSUME Types, Says, NEW f \in Factories, GoBack(f)
  PROVE  Says'
<1>. DEFINE v == IF Served(f) THEN running[f] ELSE binary[Home[f]]
            from == record[f].from
            r == [Asked(from, FALSE, Nothing) EXCEPT !.rollback = TRUE]
<1>1. GatesSay' /\ WorksSay' /\ TowersFit' /\ nature' = nature
  BY DEF Says, GatesSay, WorksSay, TowersFit, WorkSays, Heard, Accepted, Answer, GoBack
<1>2. v \in Versions /\ from \in Versions
  BY Housed DEF GoBack, Types, Documents, Programs, Contents, HandOvers
<1>3. \/ request' = request
      \/ request' = [request EXCEPT ![f] = r]
      \/ HandsOver(f, v, from, "healthy")
  BY DEF GoBack, ByHand
<1>4. CASE HandsOver(f, v, from, "healthy")
  BY <1>1, <1>2, <1>4, HandedOver, StillFit DEF Says
<1>5. CASE request' = request
  BY <1>1, <1>5, StillFit DEF SameAsk, Says
<1>6. CASE request' = [request EXCEPT ![f] = r]
  <2>1. r.rollback
    BY DEF Asked
  <2>2. \A g \in Factories : request'[g] # Nothing => request'[g] = request[g] \/ request'[g] = r
    BY <1>6 DEF Types, Documents
  <2>3. RequestsFit'
    BY <1>1, <2>1, <2>2 DEF Says, RequestsFit, Accepted, Answer
  <2>. QED
    BY <1>1, <2>3 DEF Says
<1>. QED
  BY <1>3, <1>4, <1>5, <1>6

LEMMA SaysSkip ==
  ASSUME Types, Says, NEW v \in Versions, Skip(v)
  PROVE  Says'
BY DEF Says, GatesSay, WorksSay, WorkSays, RequestsFit, TowersFit, Heard, Accepted, Answer, Skip, docs

LEMMA SaysClearSkipped ==
  ASSUME Types, Says, ClearSkipped
  PROVE  Says'
BY DEF Says, GatesSay, WorksSay, WorkSays, RequestsFit, TowersFit, Heard, Accepted, Answer, ClearSkipped, docs

LEMMA SaysCopy ==
  ASSUME Types, Says, NEW f \in Factories, Copy(f)
  PROVE  Says'
<1>1. GatesSay' /\ WorksSay' /\ RequestsFit' /\ nature' = nature
  BY DEF Says, GatesSay, WorksSay, RequestsFit, WorkSays, Heard, Accepted, Answer, Copy, docs
<1>2. /\ request[f] # Nothing /\ tower'[f].asked = request[f]
      /\ \A g \in Factories \ {f} : tower'[g] = tower[g]
  BY DEF Copy, Waits, Types, Programs
<1>3. TowersFit'
  BY <1>1, <1>2 DEF Says, RequestsFit, TowersFit, Accepted, Answer
<1>. QED
  BY <1>1, <1>3 DEF Says

LEMMA SaysCopyFails ==
  ASSUME Types, Says, NEW f \in Factories, CopyFails(f)
  PROVE  Says'
<1>1. GatesSay' /\ WorksSay'
  BY DEF Says, GatesSay, WorksSay, WorkSays, Heard, Accepted, Answer, CopyFails, docs, Fails
<1>2. RequestsFit'
  BY MachineAssumption DEF Types, Documents, Programs, Works, Jobs, Towers, Gates, Says, GatesSay, WorksSay, RequestsFit, TowersFit, WorkSays, Heard, Accepted, Answer, Passes, Actors, CopyFails, docs, Fails
<1>3. TowersFit'
  BY MachineAssumption DEF Types, Documents, Programs, Works, Jobs, Towers, Gates, Says, GatesSay, WorksSay, RequestsFit, TowersFit, WorkSays, Heard, Accepted, Answer, Passes, Actors, CopyFails, docs, Fails
<1>. QED
  BY <1>1, <1>2, <1>3 DEF Says

LEMMA SaysPlace ==
  ASSUME Types, Says, NEW f \in Factories, Place(f)
  PROVE  Says'
<1>1. GatesSay' /\ WorksSay' /\ nature' = nature
  BY DEF Says, GatesSay, WorksSay, WorkSays, Heard, Answer, Place
<1>2. tower[f].asked.version \in Versions /\ running[f] \in Versions
  BY Awaited DEF Place, Types, Programs, Requests
<1>3. RequestsFit'
  BY <1>1, <1>2, HandedOver, StillFit DEF Place
<1>4. /\ tower[f].at = "copied" /\ tower'[f].asked = tower[f].asked
      /\ \A g \in Factories \ {f} : tower'[g] = tower[g]
  BY DEF Place, Types, Programs
<1>5. TowersFit'
  BY <1>1, <1>4 DEF Says, TowersFit, Accepted, Answer
<1>. QED
  BY <1>1, <1>3, <1>5 DEF Says

LEMMA SaysPlaceFails ==
  ASSUME Types, Says, NEW f \in Factories, PlaceFails(f)
  PROVE  Says'
<1>1. GatesSay' /\ WorksSay'
  BY DEF Says, GatesSay, WorksSay, WorkSays, Heard, Accepted, Answer, PlaceFails, docs, Fails
<1>2. RequestsFit'
  BY MachineAssumption DEF Types, Documents, Programs, Works, Jobs, Towers, Gates, Says, GatesSay, WorksSay, RequestsFit, TowersFit, WorkSays, Heard, Accepted, Answer, Passes, Actors, PlaceFails, docs, Fails
<1>3. TowersFit'
  BY MachineAssumption DEF Types, Documents, Programs, Works, Jobs, Towers, Gates, Says, GatesSay, WorksSay, RequestsFit, TowersFit, WorkSays, Heard, Accepted, Answer, Passes, Actors, PlaceFails, docs, Fails
<1>. QED
  BY <1>1, <1>2, <1>3 DEF Says

LEMMA SaysStarts ==
  ASSUME Types, Says, NEW f \in Factories, Starts(f), UNCHANGED <<nature, gate>>
  PROVE  Says'
<1>1. GatesSay'
  BY DEF Says, GatesSay, Heard, Answer
<1>2. f \in Actors /\ WorkSays(Idle)
  BY DEF Actors, WorkSays, Idle
<1>3. WorksSay'
  BY <1>2, Answers DEF Starts
<1>4. \A g \in Factories : request'[g] # Nothing => request'[g] = request[g]
  BY DEF Starts, Types, Documents
<1>5. RequestsFit'
  BY <1>4, StillFit DEF SameAsk
<1>6. /\ tower'[f].at = "serving"
      /\ \A g \in Factories \ {f} : tower'[g] = tower[g]
  BY DEF Starts, Types, Programs
<1>7. TowersFit'
  BY <1>6 DEF Says, TowersFit, Accepted, Answer
<1>. QED
  BY <1>1, <1>3, <1>5, <1>7 DEF Says

LEMMA SaysProve ==
  ASSUME Types, Says, NEW f \in Factories, Prove(f)
  PROVE  Says'
BY SaysStarts DEF Prove

LEMMA SaysUndo ==
  ASSUME Types, Says, NEW f \in Factories, Undo(f)
  PROVE  Says'
<1>1. GatesSay' /\ WorksSay'
  BY DEF Says, GatesSay, WorksSay, WorkSays, Heard, Accepted, Answer, Undo, docs, Fails
<1>2. RequestsFit'
  BY MachineAssumption DEF Types, Documents, Programs, Works, Jobs, Towers, Gates, Says, GatesSay, WorksSay, RequestsFit, TowersFit, WorkSays, Heard, Accepted, Answer, Passes, Actors, Undo, docs, Fails
<1>3. TowersFit'
  BY MachineAssumption DEF Types, Documents, Programs, Works, Jobs, Towers, Gates, Says, GatesSay, WorksSay, RequestsFit, TowersFit, WorkSays, Heard, Accepted, Answer, Passes, Actors, Undo, docs, Fails
<1>. QED
  BY <1>1, <1>2, <1>3 DEF Says

LEMMA SaysCrash ==
  ASSUME Types, Says, NEW f \in Factories, Crash(f)
  PROVE  Says'
<1>1. GatesSay' /\ RequestsFit'
  BY DEF Says, GatesSay, RequestsFit, Heard, Accepted, Answer, Crash, docs, Off
<1>2. WorksSay'
  BY MachineAssumption DEF Types, Documents, Programs, Works, Jobs, Towers, Gates, Says, GatesSay, WorksSay, RequestsFit, TowersFit, WorkSays, Heard, Accepted, Answer, Passes, Actors, Crash, docs, Off
<1>3. TowersFit'
  BY MachineAssumption DEF Types, Documents, Programs, Works, Jobs, Towers, Gates, Says, GatesSay, WorksSay, RequestsFit, TowersFit, WorkSays, Heard, Accepted, Answer, Passes, Actors, Crash, docs, Off
<1>. QED
  BY <1>1, <1>2, <1>3 DEF Says

LEMMA SaysRestart ==
  ASSUME Types, Says, NEW f \in Factories, Restart(f)
  PROVE  Says'
BY SaysStarts DEF Restart

LEMMA SaysInterrupt ==
  ASSUME Types, Says, Interrupt
  PROVE  Says'
<1>1. GatesSay' /\ RequestsFit' /\ TowersFit'
  BY DEF Says, GatesSay, RequestsFit, TowersFit, Heard, Accepted, Answer, Interrupt, docs, Idle
<1>2. WorksSay'
  BY MachineAssumption DEF Types, Documents, Programs, Works, Jobs, Towers, Gates, Says, GatesSay, WorksSay, RequestsFit, TowersFit, WorkSays, Heard, Accepted, Answer, Passes, Actors, Interrupt, docs, Idle
<1>. QED
  BY <1>1, <1>2 DEF Says

LEMMA SaysInit ==
  ASSUME Init
  PROVE  Says
<1>1. \A a \in Actors : job[a].at # "applying"
  BY DEF Init, Idle, Off
<1>2. \A f \in Factories : tower[f].at \notin {"copied", "placed"}
  BY DEF Init, Off
<1>. QED
  BY <1>1, <1>2 DEF Init, Says, GatesSay, WorksSay, WorkSays, RequestsFit, TowersFit

LEMMA SaysNext ==
  ASSUME Types, Says, [Next]_vars
  PROVE  Says'
<1>1. CASE UNCHANGED vars
  BY <1>1 DEF vars, docs, Says, GatesSay, WorksSay, WorkSays, RequestsFit, TowersFit, Heard, Accepted, Answer
<1>2. CASE Next
  BY <1>2, Steps,
     SaysPublish, SaysSignIn, SaysEdit, SaysCancel, SaysPass, SaysStageNow, SaysApplyNow, SaysLook,
     SaysFetch, SaysWrite, SaysNote, SaysGate, SaysAsk, SaysWait,
     SaysApply, SaysAskFromDashboard, SaysGoBack, SaysSkip, SaysClearSkipped, SaysCopy,
     SaysCopyFails, SaysPlace, SaysPlaceFails, SaysProve, SaysUndo, SaysCrash,
     SaysRestart, SaysInterrupt
<1>. QED
  BY <1>1, <1>2

----------------------------------------------------------------------------
(* What is staged. *)

Busy == {"fetching", "writing", "noting"}

\* Whoever changes what it does stages nothing now.
LEMMA NoneBegins ==
  ASSUME Stages, stage' = stage,
         \A a \in Actors : job'[a] = job[a] \/ job'[a].at \notin Busy
  PROVE  Stages'
<1>1. OneStages'
  BY DEF Stages, OneStages, Staging, Busy
<1>2. WritersWrite'
  BY DEF Stages, WritersWrite, Writes, Busy
<1>. QED
  BY <1>1, <1>2 DEF Stages, ReadyIsWhole

\* One begins, when it may.
LEMMA OneBegins ==
  ASSUME ~Rewrites, Stages, stage' = stage,
         NEW a \in Actors, job'[a].at = "fetching", MayStage(a, job'[a].version),
         \A b \in Actors \ {a} : job'[b] = job[b]
  PROVE  Stages'
<1>1. OneStages'
  BY DEF Stages, OneStages, Staging, MayStage
<1>2. WritersWrite'
  BY DEF Stages, WritersWrite, Writes, MayStage
<1>. QED
  BY <1>1, <1>2 DEF Stages, ReadyIsWhole

\* The one who stages goes on, and nothing it leaves half written is ready.
LEMMA OneGoesOn ==
  ASSUME Types, Stages, NEW a \in Actors, Staging(a),
         \A b \in Actors \ {a} : job'[b] = job[b],
         Writes(job[a], stage) => Writes(job'[a], stage'),
         ReadyIsWhole'
  PROVE  Stages'
<1>1. OneStages'
  BY DEF Stages, OneStages, Staging
<1>2. \A b \in Actors \ {a} : job[b].at \notin Busy
  BY DEF Stages, OneStages, Staging, Busy
<1>3. WritersWrite'
  BY <1>2 DEF Stages, WritersWrite, Writes, Busy
<1>. QED
  BY <1>1, <1>3 DEF Stages

\* A Tower that starts only takes away from what is staged, and its watcher begins anew.
LEMMA StagesStarts ==
  ASSUME Types, Stages, NEW f \in Factories, Starts(f)
  PROVE  Stages'
<1>1. f \in Actors /\ job'[f].at = "idle" /\ \A a \in Actors \ {f} : job'[a] = job[a]
  BY DEF Starts, Types, Programs, Idle, Actors
<1>2. \A w \in Versions : stage'[w] = stage[w] \/ stage'[w] = Empty
  BY DEF Starts, ForgetInstalled
<1>3. \A a \in Actors : job[a].at \in Busy => job[a].version \in Versions
  BY Working DEF Works, Busy
<1>4. OneStages'
  BY <1>1 DEF Stages, OneStages, Staging
<1>5. WritersWrite'
  BY <1>1, <1>2, <1>3 DEF Stages, WritersWrite, Writes, Busy, Empty, IsReady
<1>6. ReadyIsWhole'
  BY <1>2 DEF Stages, ReadyIsWhole, Empty
<1>. QED
  BY <1>4, <1>5, <1>6 DEF Stages

LEMMA StagesPublish ==
  ASSUME Types, Stages, Publish
  PROVE  Stages'
BY NoneBegins DEF Types, Programs, Busy, Publish, docs

LEMMA StagesSignIn ==
  ASSUME Types, Stages, SignIn
  PROVE  Stages'
BY NoneBegins DEF Types, Programs, Busy, SignIn, docs

LEMMA StagesEdit ==
  ASSUME Types, Stages, NEW f \in Factories, Edit(f)
  PROVE  Stages'
BY NoneBegins DEF Types, Programs, Busy, Edit, docs

LEMMA StagesCancel ==
  ASSUME Types, Stages, NEW f \in Factories, Cancel(f)
  PROVE  Stages'
BY NoneBegins DEF Types, Programs, Busy, Cancel

\* What follows on a release that is staged and gated stages nothing.
LEMMA ThenBegins ==
  ASSUME Types, NEW a \in Actors, job[a] \in Works, NEW got, NEW crosses, NEW g,
         job' = [job EXCEPT ![a] = Then(a, got, crosses, g)]
  PROVE  job'[a].at \notin Busy
<1>1. job'[a] = Then(a, got, crosses, g) /\ job[a].command \in {"watch", "stage", "apply"}
  BY DEF Types, Programs, Works
<1>. DEFINE w == [job[a] EXCEPT !.at = "applying", !.got = got, !.crosses = crosses, !.gate = g]
<1>2. w.at \notin Busy
  BY DEF Works, Busy
<1>3. Considers(job[a].factory, job[a].version).at \notin Busy /\ Idle.at \notin Busy
  BY DEF Considers, Work, Idle, Busy
<1>4. Then(a, got, crosses, g) \in {w, Considers(job[a].factory, job[a].version), Idle}
  BY <1>1 DEF Then
<1>. QED
  BY <1>1, <1>2, <1>3, <1>4

LEMMA StagesPass ==
  ASSUME Types, Stages, NEW f \in Factories, NEW checks \in BOOLEAN, Pass(f, checks)
  PROVE  Stages'
BY NoneBegins DEF Types, Programs, Busy, Pass, Considers, Work, Idle

LEMMA StagesStageNow ==
  ASSUME ~Rewrites, Types, Stages, NEW f \in Factories, NEW trust \in BOOLEAN, StageNow(f, trust)
  PROVE  Stages'
<1>1. Person \in Actors /\ stage' = stage
  BY DEF Actors, StageNow
<1>2. job'[Person].at = "fetching" /\ MayStage(Person, job'[Person].version)
  BY <1>1 DEF StageNow, Work, Types, Programs
<1>3. \A b \in Actors \ {Person} : job'[b] = job[b]
  BY <1>1 DEF StageNow, Types, Programs
<1>. QED
  BY <1>1, <1>2, <1>3, OneBegins

LEMMA StagesApplyNow ==
  ASSUME Types, Stages, NEW f \in Factories, ApplyNow(f)
  PROVE  Stages'
BY NoneBegins DEF Types, Programs, Busy, ApplyNow, Work

LEMMA StagesLook ==
  ASSUME ~Rewrites, Types, Stages, NEW a \in Actors, Look(a)
  PROVE  Stages'
<1>1. job[a] \in Works /\ stage' = stage
  BY Working DEF Look, docs
<1>2. \A b \in Actors \ {a} : job'[b] = job[b]
  BY DEF Look, Goto, Types, Programs
<1>3. CASE Goto(a, "fetching") /\ MayStage(a, job[a].version)
  <2>1. job'[a].at = "fetching" /\ job'[a].version = job[a].version
    BY <1>1, <1>3 DEF Goto, Types, Programs, Works
  <2>. QED
    BY <1>1, <1>2, <1>3, <2>1, OneBegins
<1>4. ASSUME NEW got, NEW crosses, NEW g, job' = [job EXCEPT ![a] = Then(a, got, crosses, g)]
      PROVE  job'[a].at \notin Busy
  BY <1>1, <1>4, ThenBegins
<1>5. ASSUME NEW got, NEW crosses,
             job' = [job EXCEPT ![a].at = "gating", ![a].got = got, ![a].crosses = crosses]
      PROVE  job'[a].at \notin Busy
  BY <1>1, <1>5 DEF Types, Programs, Works, Busy
<1>. DEFINE s == stage[job[a].version]
<1>6. \/ job' = [job EXCEPT ![a] = Then(a, s.note, s.crosses, gate[job[a].factory])]
      \/ job' = [job EXCEPT ![a].at = "gating", ![a].got = s.note, ![a].crosses = s.crosses]
      \/ Goto(a, "fetching") /\ MayStage(a, job[a].version)
  BY DEF Look
<1>7. (Goto(a, "fetching") /\ MayStage(a, job[a].version)) \/ job'[a].at \notin Busy
  BY <1>4, <1>5, <1>6
<1>. QED
  BY <1>1, <1>2, <1>3, <1>7, NoneBegins

LEMMA StagesFetch ==
  ASSUME Types, Stages, NEW a \in Actors, Fetch(a)
  PROVE  Stages'
<1>. DEFINE v == job[a].version
<1>1. job[a] \in Works /\ v \in Versions /\ Staging(a)
  BY Working DEF Fetch, Works, Staging
<1>2. \A b \in Actors \ {a} : job'[b] = job[b]
  BY DEF Fetch, Refuse, Types, Programs
<1>3. ~IsReady(stage[v].note)
  BY DEF Fetch, Stages, WritersWrite, Writes
<1>4. ASSUME NEW place \in {"writing", "noting"}, NEW got, NEW file,
             place = "noting" => ~IsReady(got),
             job' = [job EXCEPT ![a].at = place, ![a].got = got],
             stage' = [stage EXCEPT ![v].file = file] \/ stage' = stage
      PROVE  Stages'
  <2>1. job'[a].at = place /\ job'[a].got = got /\ job'[a].version = v
    BY <1>1, <1>4 DEF Types, Programs, Works
  <2>2. ~IsReady(stage'[v].note) /\ \A w \in Versions \ {v} : stage'[w] = stage[w]
    BY <1>1, <1>3, <1>4 DEF Types, Documents, Staged
  <2>3. ReadyIsWhole'
    BY <2>2 DEF Stages, ReadyIsWhole
  <2>4. Writes(job'[a], stage')
    BY <1>4, <2>1, <2>2 DEF Writes
  <2>. QED
    BY <1>1, <1>2, <2>3, <2>4, OneGoesOn
<1>5. CASE \E got \in {"verified", "trusted"} :
             /\ stage' = [stage EXCEPT ![v].file = "torn"]
             /\ job' = [job EXCEPT ![a].at = "writing", ![a].got = got]
  BY <1>4, <1>5
<1>6. CASE stage' = stage /\ job' = [job EXCEPT ![a].at = "noting", ![a].got = "kept"]
  BY <1>4, <1>6 DEF IsReady
<1>7. CASE Refuse(a)
  BY <1>4, <1>7 DEF IsReady, Refuse
<1>. QED
  BY <1>5, <1>6, <1>7 DEF Fetch

LEMMA StagesWrite ==
  ASSUME Types, Stages, NEW a \in Actors, Write(a)
  PROVE  Stages'
<1>. DEFINE v == job[a].version
<1>1. job[a] \in Works /\ v \in Versions /\ Staging(a)
  BY Working DEF Write, Works, Staging
<1>2. \A b \in Actors \ {a} : job'[b] = job[b]
  BY DEF Write, Goto, Refuse, Types, Programs
<1>3. ~IsReady(stage[v].note)
  BY DEF Write, Stages, WritersWrite, Writes
<1>4. PICK file \in {"whole", "none"} : stage' = [stage EXCEPT ![v].file = file]
  BY DEF Write, Refuse
<1>5. job'[a].at = "noting" /\ job'[a].version = v
  BY <1>1 DEF Write, Goto, Refuse, Types, Programs, Works
<1>6. ~IsReady(stage'[v].note) /\ stage'[v].file # "torn" /\ \A w \in Versions \ {v} : stage'[w] = stage[w]
  BY <1>1, <1>3, <1>4 DEF Types, Documents, Staged
<1>7. ReadyIsWhole'
  BY <1>6 DEF Stages, ReadyIsWhole
<1>8. Writes(job'[a], stage')
  BY <1>5, <1>6 DEF Writes
<1>. QED
  BY <1>1, <1>2, <1>7, <1>8, OneGoesOn

LEMMA StagesNote ==
  ASSUME Types, Stages, NEW a \in Actors, Note(a)
  PROVE  Stages'
<1>. DEFINE v == job[a].version
<1>1. job[a] \in Works /\ v \in Versions /\ Staging(a)
  BY Working DEF Note, Works, Staging
<1>2. PICK crosses :
        /\ stage' = ForgetOthers(v, [stage[v] EXCEPT !.note = job[a].got, !.crosses = crosses])
        /\ job' = [job EXCEPT ![a].at = "gating", ![a].crosses = crosses]
  BY DEF Note
<1>. DEFINE s == [stage[v] EXCEPT !.note = job[a].got, !.crosses = crosses]
<1>3. (\A b \in Actors \ {a} : job'[b] = job[b]) /\ job'[a].at = "gating"
  BY <1>1, <1>2 DEF Types, Programs, Works
<1>4. IsReady(job[a].got) => stage[v].file # "torn"
  BY DEF Note, Stages, WritersWrite, Writes
<1>5. s.note = job[a].got /\ s.file = stage[v].file
  BY <1>1 DEF Types, Documents, Staged
<1>6. \A w \in Versions : stage'[w] = IF w = v THEN s ELSE Empty
  BY <1>2 DEF ForgetOthers
<1>7. ReadyIsWhole'
  <2>1. IsReady(stage'[v].note) => stage'[v].file # "torn"
    BY <1>1, <1>4, <1>5, <1>6
  <2>2. \A w \in Versions \ {v} : ~IsReady(stage'[w].note)
    BY <1>6 DEF Empty, IsReady
  <2>. QED
    BY <2>1, <2>2 DEF ReadyIsWhole
<1>8. Writes(job'[a], stage')
  BY <1>3 DEF Writes
<1>. QED
  BY <1>1, <1>3, <1>7, <1>8, OneGoesOn

LEMMA StagesGate ==
  ASSUME Types, Stages, NEW a \in Actors, Gate(a)
  PROVE  Stages'
<1>1. job[a] \in Works /\ stage' = stage
  BY Working DEF Gate
<1>2. \A b \in Actors \ {a} : job'[b] = job[b]
  BY DEF Gate, Types, Programs
<1>3. PICK g : job' = [job EXCEPT ![a] = Then(a, job[a].got, job[a].crosses, g)]
  BY DEF Gate
<1>4. job'[a].at \notin Busy
  BY <1>1, <1>3, ThenBegins
<1>. QED
  BY <1>1, <1>2, <1>4, NoneBegins

LEMMA StagesAsk ==
  ASSUME Types, Stages, NEW f \in Factories, Ask(f)
  PROVE  Stages'
BY NoneBegins DEF Types, Programs, Busy, Ask, Idle

LEMMA StagesWait ==
  ASSUME Types, Stages, NEW f \in Factories, Wait(f)
  PROVE  Stages'
BY NoneBegins DEF Types, Programs, Busy, Wait, Idle, docs

LEMMA StagesApply ==
  ASSUME ~Rewrites, Types, Stages, NEW trust \in BOOLEAN, Apply(trust)
  PROVE  Stages'
<1>. DEFINE j == job[Person]
<1>1. Person \in Actors /\ j \in Works /\ stage' = stage
  BY Working DEF Apply, Actors
<1>2. \A b \in Actors \ {Person} : job'[b] = job[b]
  BY DEF Apply, Types, Programs
<1>3. CASE /\ job' = [job EXCEPT ![Person].at = "fetching", ![Person].trust = TRUE]
           /\ MayStage(Person, j.version)
  <2>1. job'[Person].at = "fetching" /\ job'[Person].version = j.version
    BY <1>1, <1>3 DEF Types, Programs, Works
  <2>. QED
    BY <1>1, <1>2, <1>3, <2>1, OneBegins
<1>4. CASE job' = [job EXCEPT ![Person] = Idle]
  <2>1. job'[Person].at \notin Busy
    BY <1>1, <1>4 DEF Types, Programs, Idle, Busy
  <2>. QED
    BY <1>1, <1>2, <2>1, NoneBegins
<1>. QED
  BY <1>3, <1>4 DEF Apply

LEMMA StagesAskFromDashboard ==
  ASSUME Types, Stages, NEW f \in Factories, AskFromDashboard(f)
  PROVE  Stages'
BY NoneBegins DEF Types, Programs, Busy, AskFromDashboard

LEMMA StagesGoBack ==
  ASSUME Types, Stages, NEW f \in Factories, GoBack(f)
  PROVE  Stages'
BY NoneBegins DEF Types, Programs, Busy, GoBack

LEMMA StagesSkip ==
  ASSUME Types, Stages, NEW v \in Versions, Skip(v)
  PROVE  Stages'
BY NoneBegins DEF Types, Programs, Busy, Skip

LEMMA StagesClearSkipped ==
  ASSUME Types, Stages, ClearSkipped
  PROVE  Stages'
BY NoneBegins DEF Types, Programs, Busy, ClearSkipped

LEMMA StagesCopy ==
  ASSUME Types, Stages, NEW f \in Factories, Copy(f)
  PROVE  Stages'
BY NoneBegins DEF Types, Programs, Busy, Copy, docs

LEMMA StagesCopyFails ==
  ASSUME Types, Stages, NEW f \in Factories, CopyFails(f)
  PROVE  Stages'
BY NoneBegins DEF Types, Programs, Busy, CopyFails

LEMMA StagesPlace ==
  ASSUME Types, Stages, NEW f \in Factories, Place(f)
  PROVE  Stages'
BY NoneBegins DEF Types, Programs, Busy, Place

LEMMA StagesPlaceFails ==
  ASSUME Types, Stages, NEW f \in Factories, PlaceFails(f)
  PROVE  Stages'
BY NoneBegins DEF Types, Programs, Busy, PlaceFails

LEMMA StagesProve ==
  ASSUME Types, Stages, NEW f \in Factories, Prove(f)
  PROVE  Stages'
BY StagesStarts DEF Prove

LEMMA StagesUndo ==
  ASSUME Types, Stages, NEW f \in Factories, Undo(f)
  PROVE  Stages'
BY NoneBegins DEF Types, Programs, Busy, Undo

LEMMA StagesCrash ==
  ASSUME Types, Stages, NEW f \in Factories, Crash(f)
  PROVE  Stages'
BY NoneBegins DEF Types, Programs, Busy, Crash, Off, docs

LEMMA StagesRestart ==
  ASSUME Types, Stages, NEW f \in Factories, Restart(f)
  PROVE  Stages'
BY StagesStarts DEF Restart

LEMMA StagesInterrupt ==
  ASSUME Types, Stages, Interrupt
  PROVE  Stages'
BY NoneBegins DEF Types, Programs, Busy, Interrupt, Idle, docs

LEMMA StagesInit ==
  ASSUME Init
  PROVE  Stages
<1>1. \A a \in Actors : job[a].at \notin Busy
  BY DEF Init, Idle, Off, Busy
<1>2. \A v \in Versions : stage[v] = Empty
  BY DEF Init
<1>. QED
  BY <1>1, <1>2 DEF Stages, OneStages, WritersWrite, Writes, ReadyIsWhole, Staging, Busy, Empty, IsReady

LEMMA StagesNext ==
  ASSUME ~Rewrites, Types, Stages, [Next]_vars
  PROVE  Stages'
<1>1. CASE UNCHANGED vars
  BY <1>1, NoneBegins DEF vars, docs
<1>2. CASE Next
  BY <1>2, Steps,
     StagesPublish, StagesSignIn, StagesEdit, StagesCancel, StagesPass, StagesStageNow, StagesApplyNow, StagesLook,
     StagesFetch, StagesWrite, StagesNote, StagesGate, StagesAsk, StagesWait,
     StagesApply, StagesAskFromDashboard, StagesGoBack, StagesSkip, StagesClearSkipped, StagesCopy,
     StagesCopyFails, StagesPlace, StagesPlaceFails, StagesProve, StagesUndo, StagesCrash,
     StagesRestart, StagesInterrupt
<1>. QED
  BY <1>1, <1>2

----------------------------------------------------------------------------
(* What is in place and what is kept. *)

\* Nothing in place or kept is touched.
LEMMA Undisturbed ==
  ASSUME Disk, UNCHANGED <<running, disk>>,
         \A f \in Factories :
           \/ tower'[f] = tower[f]
           \/ tower'[f].at = "off"
           \/ tower'[f].at = "serving" /\ tower[f].at \in {"serving", "copied"}
  PROVE  Disk'
<1>1. KeptIsWhatItSays'
  BY DEF Disk, KeptIsWhatItSays, disk
<1>2. \A f \in Factories : Fits(f)'
  BY DEF Disk, Fits, disk
<1>. QED
  BY <1>1, <1>2 DEF Disk

\* One factory's Tower or binary changes, and what is kept stays right.
LEMMA OneFits ==
  ASSUME Disk, NEW f \in Factories, Fits(f)', KeptIsWhatItSays',
         \A g \in Factories \ {f} :
           tower'[g] = tower[g] /\ running'[g] = running[g] /\ binary'[Home[g]] = binary[Home[g]]
  PROVE  Disk'
BY DEF Disk, Fits

\* A swap that keeps the old binary under the version it is.
LEMMA KeptRight ==
  ASSUME Apart, Types, Disk, NEW f \in Factories, NEW from \in Versions, NEW content \in Contents,
         Swapped(f, from, content), binary[Home[f]] = from
  PROVE  /\ KeptIsWhatItSays'
         /\ binary'[Home[f]] = content
         /\ \A g \in Factories \ {f} : binary'[Home[g]] = binary[Home[g]]
<1>. DEFINE h == Home[f]
<1>1. h \in Homes
  BY Housed
<1>2. kept' = [kept EXCEPT ![h] = KeptWith(h, from, from)] /\ binary' = [binary EXCEPT ![h] = content]
  BY DEF Swapped
<1>3. \A v \in DOMAIN KeptWith(h, from, from) : KeptWith(h, from, from)[v] = v
  BY <1>1 DEF KeptWith, Disk, KeptIsWhatItSays
<1>4. KeptIsWhatItSays'
  BY <1>1, <1>2, <1>3 DEF Types, Programs, Disk, KeptIsWhatItSays
<1>5. \A g \in Factories \ {f} : Home[g] # h
  BY DEF Apart
<1>6. binary'[h] = content /\ \A g \in Factories \ {f} : binary'[Home[g]] = binary[Home[g]]
  BY <1>1, <1>2, <1>5, Housed DEF Types, Programs
<1>. QED
  BY <1>4, <1>6

\* What a request is installed from is the version it asks for.
LEMMA SourceIsAsked ==
  ASSUME Types, Stages, Disk, NEW f \in Factories, NEW r \in Requests, HasSource(f, r)
  PROVE  SourceOf(f, r) = r.version
<1>1. r.version \in Versions /\ Home[f] \in Homes
  BY Housed DEF Requests
<1>2. CASE r.rollback
  BY <1>1, <1>2 DEF HasSource, SourceOf, Disk, KeptIsWhatItSays
<1>3. CASE ~r.rollback
  <2>1. stage[r.version].file \in {"none", "torn", "whole"}
    BY <1>1 DEF Types, Documents, Staged
  <2>2. stage[r.version].file = "whole"
    BY <1>1, <1>3, <2>1 DEF HasSource, Stages, ReadyIsWhole
  <2>. QED
    BY <1>3, <2>2 DEF SourceOf, Content
<1>. QED
  BY <1>2, <1>3

LEMMA DiskStarts ==
  ASSUME Types, Disk, NEW f \in Factories, Starts(f), UNCHANGED disk
  PROVE  Disk'
<1>1. tower'[f].at = "serving" /\ running'[f] = binary[Home[f]]
  BY DEF Starts, Types, Programs
<1>2. \A g \in Factories \ {f} : tower'[g] = tower[g] /\ running'[g] = running[g]
  BY DEF Starts, Types, Programs
<1>3. Fits(f)'
  BY <1>1 DEF Fits, disk
<1>4. KeptIsWhatItSays'
  BY DEF Disk, KeptIsWhatItSays, disk
<1>. QED
  BY <1>2, <1>3, <1>4, OneFits DEF disk

LEMMA DiskApply ==
  ASSUME ~Overlaps, Apart, Types, Disk, NEW trust \in BOOLEAN, Apply(trust)
  PROVE  Disk'
<1>. DEFINE j == job[Person]
<1>1. j.version \in Versions /\ j.program \in Versions
  BY Working DEF Apply, Actors, Works
<1>0. PICK f \in Factories : f = j.factory
  BY Working DEF Apply, Actors, Works
<1>2. UNCHANGED <<running, tower>>
  BY DEF Apply
<1>3. CASE UNCHANGED disk
  BY <1>2, <1>3, Undisturbed
<1>4. CASE ~Served(f) /\ j.program = binary[Home[f]] /\ Swapped(f, j.program, Content(j.version))
  <2>1. Content(j.version) \in Contents
    BY <1>1 DEF Content, Contents
  <2>2. Fits(f)'
    BY <1>2, <1>4 DEF Served, Fits
  <2>. QED
    BY <1>1, <1>2, <1>4, <2>1, <2>2, KeptRight, OneFits
<1>. QED
  BY <1>0, <1>3, <1>4 DEF Apply, ByHand

LEMMA DiskGoBack ==
  ASSUME Apart, Types, Disk, NEW f \in Factories, GoBack(f)
  PROVE  Disk'
<1>. DEFINE from == record[f].from
<1>1. UNCHANGED <<running, tower>>
  BY DEF GoBack
<1>2. CASE UNCHANGED disk
  BY <1>1, <1>2, Undisturbed
<1>3. CASE ~Served(f) /\ Swapped(f, binary[Home[f]], kept[Home[f]][from])
  <2>1. binary[Home[f]] \in Versions /\ kept[Home[f]][from] \in Contents
    BY <1>3, Housed DEF GoBack, Types, Programs, Contents
  <2>2. Fits(f)'
    BY <1>1, <1>3 DEF Served, Fits
  <2>. QED
    BY <1>1, <1>3, <2>1, <2>2, KeptRight, OneFits
<1>. QED
  BY <1>2, <1>3 DEF GoBack, ByHand

LEMMA DiskCopy ==
  ASSUME Types, Stages, Disk, NEW f \in Factories, Copy(f)
  PROVE  Disk'
<1>. DEFINE r == request[f]
<1>1. r \in Requests
  BY DEF Copy, Waits, Types, Documents
<1>2. SourceOf(f, r) = r.version
  BY <1>1, SourceIsAsked DEF Copy
<1>3. /\ tower'[f] = [at |-> "copied", asked |-> r, fresh |-> r.version]
      /\ \A g \in Factories \ {f} : tower'[g] = tower[g]
      /\ UNCHANGED <<running, binary, kept>>
  BY <1>2 DEF Copy, Types, Programs, disk
<1>4. Fits(f)'
  BY <1>3 DEF Copy, Disk, Fits
<1>5. KeptIsWhatItSays'
  BY <1>3 DEF Disk, KeptIsWhatItSays
<1>. QED
  BY <1>3, <1>4, <1>5, OneFits

LEMMA DiskPlace ==
  ASSUME Apart, Types, Disk, NEW f \in Factories, Place(f)
  PROVE  Disk'
<1>1. /\ tower[f].fresh \in Contents /\ running[f] \in Versions
      /\ running[f] = binary[Home[f]] /\ tower[f].fresh = tower[f].asked.version
  BY Awaited DEF Place, Types, Programs, Disk, Fits
<1>2. /\ tower'[f] = [at |-> "placed", asked |-> tower[f].asked]
      /\ \A g \in Factories \ {f} : tower'[g] = tower[g]
      /\ running' = running
  BY DEF Place, Types, Programs
<1>3. /\ KeptIsWhatItSays'
      /\ binary'[Home[f]] = tower[f].fresh
      /\ \A g \in Factories \ {f} : binary'[Home[g]] = binary[Home[g]]
  BY <1>1, KeptRight DEF Place
<1>4. Fits(f)'
  BY <1>1, <1>2, <1>3 DEF Fits
<1>. QED
  BY <1>2, <1>3, <1>4, OneFits

LEMMA DiskUndo ==
  ASSUME Apart, Types, Disk, NEW f \in Factories, Undo(f)
  PROVE  Disk'
<1>1. Home[f] \in Homes /\ \A g \in Factories \ {f} : Home[g] # Home[f] /\ Home[g] \in Homes
  BY Housed DEF Apart
<1>2. kept[Home[f]][running[f]] = running[f]
  BY <1>1 DEF Undo, Disk, KeptIsWhatItSays
<1>3. /\ binary'[Home[f]] = running[f]
      /\ \A g \in Factories \ {f} : binary'[Home[g]] = binary[Home[g]]
  BY <1>1, <1>2 DEF Undo, Types, Programs
<1>4. /\ tower'[f] = [at |-> "serving"]
      /\ \A g \in Factories \ {f} : tower'[g] = tower[g]
      /\ UNCHANGED <<running, kept>>
  BY DEF Undo, Fails, Types, Programs
<1>5. Fits(f)'
  BY <1>3, <1>4 DEF Fits
<1>6. KeptIsWhatItSays'
  BY <1>4 DEF Disk, KeptIsWhatItSays
<1>. QED
  BY <1>3, <1>4, <1>5, <1>6, OneFits

LEMMA DiskInit ==
  ASSUME Init
  PROVE  Disk
<1>1. \A f \in Factories : tower[f].at \in {"serving", "off"} /\ binary[Home[f]] = running[f]
  BY Housed DEF Init, Off
<1>2. \A h \in Homes : DOMAIN kept[h] = {}
  BY DEF Init
<1>. QED
  BY <1>1, <1>2 DEF Disk, Fits, KeptIsWhatItSays

LEMMA DiskNext ==
  ASSUME ~Overlaps, Apart, Types, Stages, Disk, [Next]_vars
  PROVE  Disk'
<1>1. CASE UNCHANGED vars
  BY <1>1, Undisturbed DEF vars
<1>2. CASE UNCHANGED <<running, tower, disk>>
  BY <1>2, Undisturbed
<1>3. ASSUME NEW f \in Factories, CopyFails(f) \/ PlaceFails(f) \/ Crash(f)
      PROVE  Disk'
  BY <1>3, Undisturbed DEF CopyFails, PlaceFails, Crash, Fails, Off, Types, Programs
<1>4. ASSUME NEW f \in Factories, Prove(f) \/ Restart(f)
      PROVE  Disk'
  BY <1>4, DiskStarts DEF Prove, Restart
<1>5. CASE \E f \in Factories : Copy(f) \/ Place(f) \/ Undo(f) \/ GoBack(f)
  BY <1>5, DiskCopy, DiskPlace, DiskUndo, DiskGoBack
<1>6. CASE \E trust \in BOOLEAN : Apply(trust)
  BY <1>6, DiskApply
<1>7. ASSUME NEW f \in Factories,
             \/ \E checks \in BOOLEAN : Pass(f, checks)
             \/ Ask(f) \/ Wait(f)
             \/ \E trust \in BOOLEAN : StageNow(f, trust)
             \/ ApplyNow(f) \/ AskFromDashboard(f) \/ Cancel(f) \/ Edit(f)
      PROVE  UNCHANGED <<running, tower, disk>>
  BY <1>7 DEF Pass, Ask, Wait, StageNow, ApplyNow, AskFromDashboard, Cancel, Edit
<1>8. ASSUME NEW a \in Actors, Look(a) \/ Fetch(a) \/ Write(a) \/ Note(a) \/ Gate(a)
      PROVE  UNCHANGED <<running, tower, disk>>
  BY <1>8 DEF Look, Fetch, Write, Note, Gate
<1>9. ASSUME Publish \/ SignIn \/ ClearSkipped \/ Interrupt \/ \E v \in Versions : Skip(v)
      PROVE  UNCHANGED <<running, tower, disk>>
  BY <1>9 DEF Publish, SignIn, ClearSkipped, Interrupt, Skip
<1>. QED
  BY <1>1, <1>2, <1>3, <1>4, <1>5, <1>6, <1>7, <1>8, <1>9, Steps

\* While one release is staged at a time, every factory is served from an installation of its own,
\* and a command goes on only with the binary it was started from still in place, the copy kept for
\* a rollback is the version its name says: through any number of installs, rollbacks, crashes and
\* releases (swap.rs, keep_aside and previous_path).
THEOREM KeptIsRight ==
  ASSUME ~Rewrites, ~Overlaps, Apart
  PROVE  Spec => []KeptIsWhatItSays
<1>. DEFINE Inv == Types /\ Stages /\ Disk
<1>1. Init => Inv
  BY TypesInit, StagesInit, DiskInit
<1>2. Inv /\ [Next]_vars => Inv'
  BY TypesNext, StagesNext, DiskNext
<1>3. Inv => KeptIsWhatItSays
  BY DEF Disk
<1>. QED
  BY <1>1, <1>2, <1>3, PTL DEF Spec

----------------------------------------------------------------------------
(* Layouts of the state. *)

LEMMA LevelStays ==
  ASSUME nature' = nature
  PROVE  Level' = Level
BY DEF Level

LEMMA SamePlaces ==
  ASSUME Layouts, nature' = nature, UNCHANGED <<running, disk>>
  PROVE  PlacesLevel'
BY LevelStays DEF Layouts, PlacesLevel, disk

LEMMA SameWorks ==
  ASSUME Layouts, nature' = nature, job' = job
  PROVE  WorksLevel'
BY LevelStays DEF Layouts, WorksLevel, WorkLevel

\* Actors do as they did, but for one that turns to something else.
LEMMA NextWork ==
  ASSUME Types, Layouts, nature' = nature, NEW a \in Actors, NEW w, WorkLevel(w),
         job' = [job EXCEPT ![a] = w]
  PROVE  WorksLevel'
<1>1. \A b \in Actors : job'[b] = job[b] \/ job'[b] = w
  BY DEF Types, Programs
<1>. QED
  BY <1>1, LevelStays DEF Layouts, WorksLevel, WorkLevel

\* Notes stay, or go.
LEMMA SameNotes ==
  ASSUME Layouts, nature' = nature,
         \A v \in Versions :
           \/ stage'[v].note = stage[v].note /\ stage'[v].crosses = stage[v].crosses
           \/ ~IsReady(stage'[v].note)
  PROVE  StagedLevel'
BY LevelStays DEF Layouts, StagedLevel, IsReady

LEMMA SameRequests ==
  ASSUME Layouts, nature' = nature,
         \A f \in Factories :
           request'[f] # Nothing => request[f] # Nothing /\ SameAsk(request'[f], request[f])
  PROVE  RequestsLevel'
BY LevelStays DEF Layouts, RequestsLevel, AskLevel, SameAsk

\* One more request, for what may be asked for.
LEMMA NextRequest ==
  ASSUME Types, Layouts, nature' = nature, NEW f \in Factories, NEW r, AskLevel(r),
         request' = [request EXCEPT ![f] = r]
  PROVE  RequestsLevel'
<1>1. \A g \in Factories : request'[g] = request[g] \/ request'[g] = r
  BY DEF Types, Documents
<1>. QED
  BY <1>1, LevelStays DEF Layouts, RequestsLevel, AskLevel

LEMMA SameTowers ==
  ASSUME Layouts, nature' = nature,
         \A f \in Factories : tower'[f] = tower[f] \/ tower'[f].at \notin {"copied", "placed"}
  PROVE  TowersLevel'
BY LevelStays DEF Layouts, TowersLevel, AskLevel

\* A file of that layout, or a torn one, takes the place of another.
LEMMA PlacesSwapped ==
  ASSUME Types, Layouts, nature' = nature, running' = running,
         NEW f \in Factories, NEW from \in Versions, NEW content \in Level,
         Swapped(f, from, content)
  PROVE  PlacesLevel'
<1>. DEFINE h == Home[f]
<1>1. h \in Homes /\ binary[h] \in Level
  BY Housed DEF Layouts, PlacesLevel
<1>2. \A v \in DOMAIN KeptWith(h, from, binary[h]) : KeptWith(h, from, binary[h])[v] \in Level
  BY <1>1 DEF KeptWith, Layouts, PlacesLevel
<1>3. kept' = [kept EXCEPT ![h] = KeptWith(h, from, binary[h])] /\ binary' = [binary EXCEPT ![h] = content]
  BY DEF Swapped
<1>4. \A g \in Homes : binary'[g] \in Level
  BY <1>1, <1>3 DEF Types, Programs, Layouts, PlacesLevel
<1>5. \A g \in Homes : kept'[g] = kept[g] \/ kept'[g] = KeptWith(h, from, binary[h])
  BY <1>1, <1>3 DEF Types, Programs
<1>6. \A g \in Homes : \A v \in DOMAIN kept'[g] : kept'[g][v] \in Level
  BY <1>2, <1>5 DEF Layouts, PlacesLevel
<1>. QED
  BY <1>4, <1>6, LevelStays DEF Layouts, PlacesLevel

\* A job begins with a program of that layout,
LEMMA WorkBegins ==
  ASSUME Layouts, NEW f \in Factories, NEW v, NEW command, NEW trust,
         NEW place \in {"looking", "fetching", "considering"}
  PROVE  WorkLevel(Work(f, v, command, trust, place))
<1>1. running[f] \in Level /\ binary[Home[f]] \in Level
  BY Housed DEF Layouts, PlacesLevel
<1>. QED
  BY <1>1 DEF WorkLevel, Work

\* keeps it,
LEMMA WorkGoesOn ==
  ASSUME Types, Layouts, nature' = nature, NEW a \in Actors, job[a] \in Works,
         NEW place \in {"fetching", "writing", "noting"}, NEW got,
         \/ Goto(a, place)
         \/ job' = [job EXCEPT ![a].at = place, ![a].got = got]
  PROVE  WorksLevel'
<1>1. /\ \A b \in Actors \ {a} : job'[b] = job[b]
      /\ job'[a].at = place /\ job'[a].program = job[a].program
  BY DEF Types, Programs, Goto, Works
<1>2. job[a].program \in Level
  BY DEF Layouts, WorksLevel, WorkLevel, Works
<1>. QED
  BY <1>1, <1>2, LevelStays DEF Layouts, WorksLevel, WorkLevel

\* finds out of the release,
LEMMA WorkFinds ==
  ASSUME Types, Layouts, nature' = nature, NEW a \in Actors, job[a] \in Works, NEW got, NEW crosses,
         \/ job' = [job EXCEPT ![a].at = "gating", ![a].got = got, ![a].crosses = crosses]
         \/ job' = [job EXCEPT ![a].at = "gating", ![a].crosses = crosses] /\ got = job[a].got,
         IsReady(got) /\ ~crosses => job[a].version \in Level
  PROVE  WorksLevel'
<1>1. /\ \A b \in Actors \ {a} : job'[b] = job[b]
      /\ job'[a].program = job[a].program /\ job'[a].version = job[a].version
      /\ job'[a].got = got /\ job'[a].crosses = crosses
  BY DEF Types, Programs, Works
<1>2. job[a].program \in Level
  BY DEF Layouts, WorksLevel, WorkLevel, Works
<1>. QED
  BY <1>1, <1>2, LevelStays DEF Layouts, WorksLevel, WorkLevel

\* and goes by it.
LEMMA ThenLevel ==
  ASSUME Types, Layouts, NEW a \in Actors, job[a] \in Works, NEW got, NEW crosses, NEW g,
         IsReady(got) /\ ~crosses => job[a].version \in Level
  PROVE  WorkLevel(Then(a, got, crosses, g))
<1>. DEFINE w == [job[a] EXCEPT !.at = "applying", !.got = got, !.crosses = crosses, !.gate = g]
<1>1. w.program = job[a].program /\ w.version = job[a].version /\ w.got = got /\ w.crosses = crosses
  BY DEF Works
<1>2. job[a].program \in Level
  BY DEF Layouts, WorksLevel, WorkLevel, Works
<1>3. WorkLevel(w)
  BY <1>1, <1>2 DEF WorkLevel
<1>4. job[a].factory \in Factories /\ job[a].command \in {"watch", "stage", "apply"}
  BY DEF Works
<1>5. WorkLevel(Idle)
  BY DEF WorkLevel, Idle
<1>6. WorkLevel(Considers(job[a].factory, job[a].version))
  BY <1>4, <1>5, WorkBegins DEF Considers
<1>. QED
  BY <1>3, <1>4, <1>5, <1>6 DEF Then

LEMMA LayoutsAside ==
  ASSUME Types, Layouts, UNCHANGED <<nature, running, tower, job, disk, request, stage>>
  PROVE  Layouts'
BY SamePlaces, SameWorks, SameNotes, SameRequests, SameTowers DEF Layouts, SameAsk

LEMMA LayoutsPass ==
  ASSUME Types, Layouts, NEW f \in Factories, NEW checks \in BOOLEAN, Pass(f, checks)
  PROVE  Layouts'
<1>1. UNCHANGED <<nature, running, tower, disk, request, stage>>
  BY DEF Pass
<1>2. WorksLevel'
  <2>1. f \in Actors /\ WorkLevel(Idle)
    BY DEF Actors, WorkLevel, Idle
  <2>2. \A v : WorkLevel(Considers(f, v))
    BY <2>1, WorkBegins DEF Considers
  <2>3. PICK w : WorkLevel(w) /\ job' = [job EXCEPT ![f] = w]
    <3>1. \A v : WorkLevel(Work(f, v, "watch", f \in Lax, "looking"))
      BY WorkBegins
    <3>. QED
      BY <2>1, <2>2, <3>1 DEF Pass
  <2>. QED
    BY <1>1, <2>1, <2>3, NextWork
<1>. QED
  BY <1>1, <1>2, SamePlaces, SameNotes, SameRequests, SameTowers DEF Layouts, SameAsk

LEMMA LayoutsStageNow ==
  ASSUME Types, Layouts, NEW f \in Factories, NEW trust \in BOOLEAN, StageNow(f, trust)
  PROVE  Layouts'
<1>1. UNCHANGED <<nature, running, tower, disk, request, stage>>
  BY DEF StageNow
<1>2. WorksLevel'
  <2>1. Person \in Actors
    BY DEF Actors
  <2>2. WorkLevel(Work(f, published, "stage", trust, "fetching"))
    BY WorkBegins
  <2>. QED
    BY <1>1, <2>1, <2>2, NextWork DEF StageNow
<1>. QED
  BY <1>1, <1>2, SamePlaces, SameNotes, SameRequests, SameTowers DEF Layouts, SameAsk

LEMMA LayoutsApplyNow ==
  ASSUME Types, Layouts, NEW f \in Factories, ApplyNow(f)
  PROVE  Layouts'
<1>1. UNCHANGED <<nature, running, tower, disk, request, stage>>
  BY DEF ApplyNow
<1>2. WorksLevel'
  <2>1. Person \in Actors
    BY DEF Actors
  <2>2. WorkLevel(Work(f, published, "apply", FALSE, "looking"))
    BY WorkBegins
  <2>. QED
    BY <1>1, <2>1, <2>2, NextWork DEF ApplyNow
<1>. QED
  BY <1>1, <1>2, SamePlaces, SameNotes, SameRequests, SameTowers DEF Layouts, SameAsk

LEMMA LayoutsWait ==
  ASSUME Types, Layouts, NEW f \in Factories, Wait(f)
  PROVE  Layouts'
<1>1. UNCHANGED <<nature, running, tower, disk, request, stage>>
  BY DEF Wait, docs
<1>2. WorksLevel'
  <2>1. f \in Actors /\ WorkLevel(Idle)
    BY DEF Actors, WorkLevel, Idle
  <2>. QED
    BY <1>1, <2>1, NextWork DEF Wait
<1>. QED
  BY <1>1, <1>2, SamePlaces, SameNotes, SameRequests, SameTowers DEF Layouts, SameAsk

LEMMA LayoutsInterrupt ==
  ASSUME Types, Layouts, Interrupt
  PROVE  Layouts'
<1>1. UNCHANGED <<nature, running, tower, disk, request, stage>>
  BY DEF Interrupt, docs
<1>2. WorksLevel'
  <2>1. Person \in Actors /\ WorkLevel(Idle)
    BY DEF Actors, WorkLevel, Idle
  <2>. QED
    BY <1>1, <2>1, NextWork DEF Interrupt
<1>. QED
  BY <1>1, <1>2, SamePlaces, SameNotes, SameRequests, SameTowers DEF Layouts, SameAsk

LEMMA LayoutsLook ==
  ASSUME Types, Layouts, NEW a \in Actors, Look(a)
  PROVE  Layouts'
<1>. DEFINE v == job[a].version
            s == stage[v]
<1>1. UNCHANGED <<nature, running, tower, disk, request, stage>>
  BY DEF Look, docs
<1>2. job[a] \in Works /\ v \in Versions
  BY Working DEF Look, Works
<1>3. IsReady(s.note) /\ ~s.crosses => v \in Level
  BY <1>2 DEF Layouts, StagedLevel
<1>4. ASSUME job' = [job EXCEPT ![a] = Then(a, s.note, s.crosses, gate[job[a].factory])]
      PROVE  WorksLevel'
  BY <1>1, <1>2, <1>3, <1>4, ThenLevel, NextWork
<1>5. ASSUME job' = [job EXCEPT ![a].at = "gating", ![a].got = s.note, ![a].crosses = s.crosses]
      PROVE  WorksLevel'
  BY <1>1, <1>2, <1>3, <1>5, WorkFinds
<1>6. ASSUME Goto(a, "fetching")
      PROVE  WorksLevel'
  BY <1>1, <1>2, <1>6, WorkGoesOn
<1>7. WorksLevel'
  BY <1>4, <1>5, <1>6 DEF Look
<1>. QED
  BY <1>1, <1>7, SamePlaces, SameNotes, SameRequests, SameTowers DEF Layouts, SameAsk

LEMMA LayoutsFetch ==
  ASSUME Types, Layouts, NEW a \in Actors, Fetch(a)
  PROVE  Layouts'
<1>1. UNCHANGED <<nature, running, tower, disk, request>>
  BY DEF Fetch
<1>2. job[a] \in Works /\ job[a].version \in Versions
  BY Working DEF Fetch, Works
<1>3. \E place \in {"writing", "noting"}, got \in Notes :
        job' = [job EXCEPT ![a].at = place, ![a].got = got]
  BY DEF Fetch, Refuse, Notes
<1>4. WorksLevel'
  BY <1>1, <1>2, <1>3, WorkGoesOn
<1>5. stage' = stage \/ \E file \in {"none", "torn", "whole"} : stage' = [stage EXCEPT ![job[a].version].file = file]
  BY DEF Fetch, Refuse
<1>6. \A w \in Versions : stage'[w].note = stage[w].note /\ stage'[w].crosses = stage[w].crosses
  BY <1>2, <1>5 DEF Types, Documents, Staged
<1>. QED
  BY <1>1, <1>4, <1>6, SamePlaces, SameNotes, SameRequests, SameTowers DEF Layouts, SameAsk

LEMMA LayoutsWrite ==
  ASSUME Types, Layouts, NEW a \in Actors, Write(a)
  PROVE  Layouts'
<1>1. UNCHANGED <<nature, running, tower, disk, request>>
  BY DEF Write
<1>2. job[a] \in Works /\ job[a].version \in Versions
  BY Working DEF Write, Works
<1>3. Goto(a, "noting") \/ job' = [job EXCEPT ![a].at = "noting", ![a].got = "refused"]
  BY DEF Write, Refuse
<1>4. WorksLevel'
  BY <1>1, <1>2, <1>3, WorkGoesOn
<1>5. stage' = stage \/ \E file \in {"none", "torn", "whole"} : stage' = [stage EXCEPT ![job[a].version].file = file]
  BY DEF Write, Refuse
<1>6. \A w \in Versions : stage'[w].note = stage[w].note /\ stage'[w].crosses = stage[w].crosses
  BY <1>2, <1>5 DEF Types, Documents, Staged
<1>. QED
  BY <1>1, <1>4, <1>6, SamePlaces, SameNotes, SameRequests, SameTowers DEF Layouts, SameAsk

LEMMA LayoutsNote ==
  ASSUME Types, Layouts, NEW a \in Actors, Note(a)
  PROVE  Layouts'
<1>. DEFINE v == job[a].version
            crosses == nature.layout[v] # nature.layout[job[a].program]
            s == [stage[v] EXCEPT !.note = job[a].got, !.crosses = crosses]
<1>1. /\ UNCHANGED <<nature, running, tower, disk, request>>
      /\ stage' = ForgetOthers(v, s)
      /\ job' = [job EXCEPT ![a].at = "gating", ![a].crosses = crosses]
  BY DEF Note
<1>2. job[a] \in Works /\ v \in Versions /\ job[a].program \in Versions
  BY Working DEF Note, Works
<1>3. job[a].program \in Level /\ job[a].program # Torn
  BY <1>2 DEF Layouts, WorksLevel, WorkLevel, Works, Versions, Torn
<1>4. ~crosses => v \in Level
  BY <1>2, <1>3 DEF Level
<1>5. WorksLevel'
  BY <1>1, <1>2, <1>4, WorkFinds
<1>6. \A w \in Versions : stage'[w] = IF w = v THEN s ELSE Empty
  BY <1>1 DEF ForgetOthers
<1>7. s.crosses = crosses /\ ~IsReady(Empty.note)
  BY <1>2 DEF Types, Documents, Staged, Empty, IsReady
<1>8. \A w \in Versions : IsReady(stage'[w].note) /\ ~stage'[w].crosses => w \in Level
  BY <1>4, <1>6, <1>7
<1>9. StagedLevel'
  BY <1>1, <1>8, LevelStays DEF StagedLevel
<1>. QED
  BY <1>1, <1>5, <1>9, SamePlaces, SameRequests, SameTowers DEF Layouts, SameAsk

LEMMA LayoutsGate ==
  ASSUME Types, Layouts, NEW a \in Actors, Gate(a)
  PROVE  Layouts'
<1>1. UNCHANGED <<nature, running, tower, disk, request, stage>>
  BY DEF Gate
<1>2. job[a] \in Works
  BY Working DEF Gate
<1>3. PICK g : job' = [job EXCEPT ![a] = Then(a, job[a].got, job[a].crosses, g)]
  BY DEF Gate
<1>4. IsReady(job[a].got) /\ ~job[a].crosses => job[a].version \in Level
  BY DEF Gate, Layouts, WorksLevel, WorkLevel
<1>5. WorksLevel'
  BY <1>1, <1>2, <1>3, <1>4, ThenLevel, NextWork
<1>. QED
  BY <1>1, <1>5, SamePlaces, SameNotes, SameRequests, SameTowers DEF Layouts, SameAsk

LEMMA LayoutsAsk ==
  ASSUME Types, Layouts, NEW f \in Factories, Ask(f)
  PROVE  Layouts'
<1>. DEFINE v == job[f].version
<1>1. /\ UNCHANGED <<nature, running, tower, disk, stage>>
      /\ request' = [request EXCEPT ![f] = Asked(v, TRUE, gate[f])]
      /\ job' = [job EXCEPT ![f] = Idle]
  BY DEF Ask
<1>2. f \in Actors /\ WorkLevel(Idle)
  BY DEF Actors, WorkLevel, Idle
<1>3. job[f] \in Works
  BY <1>2, Working DEF Ask
<1>4. v \in Level
  BY <1>3 DEF Ask, Unattended, Layouts, StagedLevel, Works
<1>5. RequestsLevel'
  BY <1>1, <1>4, NextRequest DEF AskLevel, Asked
<1>6. WorksLevel'
  BY <1>1, <1>2, NextWork
<1>. QED
  BY <1>1, <1>5, <1>6, SamePlaces, SameNotes, SameTowers DEF Layouts

LEMMA LayoutsAskFromDashboard ==
  ASSUME Types, Layouts, NEW f \in Factories, AskFromDashboard(f)
  PROVE  Layouts'
<1>1. /\ UNCHANGED <<nature, running, tower, disk, stage, job>>
      /\ request' = [request EXCEPT ![f] = Asked(known, FALSE, gate[f])]
  BY DEF AskFromDashboard
<1>2. known \in Level
  BY DEF AskFromDashboard, Layouts, StagedLevel, Types, Releases
<1>3. RequestsLevel'
  BY <1>1, <1>2, NextRequest DEF AskLevel, Asked
<1>. QED
  BY <1>1, <1>3, SamePlaces, SameWorks, SameNotes, SameTowers DEF Layouts

LEMMA LayoutsApply ==
  ASSUME Types, Layouts, NEW trust \in BOOLEAN, Apply(trust)
  PROVE  Layouts'
<1>. DEFINE j == job[Person]
            f == j.factory
            v == j.version
            fits == IsReady(j.got) /\ ~j.crosses
<1>1. UNCHANGED <<nature, running, tower, stage>>
  BY DEF Apply
<1>2. Person \in Actors /\ j \in Works
  BY Working DEF Apply, Actors
<1>3. f \in Factories /\ v \in Versions /\ j.program \in Versions
  BY <1>2 DEF Works
<1>4. fits => v \in Level
  BY <1>2 DEF Apply, Layouts, WorksLevel, WorkLevel
<1>5. WorksLevel'
  <2>1. WorkLevel(Idle) /\ WorkLevel([j EXCEPT !.at = "fetching", !.trust = TRUE])
    BY <1>2 DEF WorkLevel, Idle, Works, Layouts, WorksLevel
  <2>2. ASSUME job' = [job EXCEPT ![Person].at = "fetching", ![Person].trust = TRUE]
        PROVE  job' = [job EXCEPT ![Person] = [j EXCEPT !.at = "fetching", !.trust = TRUE]]
    BY <1>2, <2>2 DEF Types, Programs
  <2>. QED
    BY <1>1, <1>2, <2>1, <2>2, NextWork DEF Apply
<1>6. \/ request' = request /\ UNCHANGED disk
      \/ fits /\ request' = [request EXCEPT ![f] = Asked(v, FALSE, j.gate)] /\ UNCHANGED disk
      \/ fits /\ HandsOver(f, j.program, v, "healthy") /\ Swapped(f, j.program, Content(v))
  BY DEF Apply, ByHand
<1>7. ASSUME fits, HandsOver(f, j.program, v, "healthy"), Swapped(f, j.program, Content(v))
      PROVE  RequestsLevel' /\ PlacesLevel'
  <2>1. Content(v) \in Level
    BY <1>4, <1>7 DEF Content, Level
  <2>. QED
    BY <1>1, <1>3, <1>7, <2>1, HandedOver, SameRequests, PlacesSwapped
<1>8. ASSUME fits, request' = [request EXCEPT ![f] = Asked(v, FALSE, j.gate)], UNCHANGED disk
      PROVE  RequestsLevel' /\ PlacesLevel'
  BY <1>1, <1>3, <1>4, <1>8, NextRequest, SamePlaces DEF AskLevel, Asked
<1>9. ASSUME request' = request, UNCHANGED disk
      PROVE  RequestsLevel' /\ PlacesLevel'
  BY <1>1, <1>9, SameRequests, SamePlaces DEF SameAsk
<1>. QED
  BY <1>1, <1>5, <1>6, <1>7, <1>8, <1>9, SameNotes, SameTowers DEF Layouts

LEMMA LayoutsGoBack ==
  ASSUME Types, Layouts, NEW f \in Factories, GoBack(f)
  PROVE  Layouts'
<1>. DEFINE v == IF Served(f) THEN running[f] ELSE binary[Home[f]]
            from == record[f].from
            r == [Asked(from, FALSE, Nothing) EXCEPT !.rollback = TRUE]
<1>1. UNCHANGED <<nature, running, tower, stage, job>>
  BY DEF GoBack
<1>2. v \in Versions /\ from \in Versions /\ from \in DOMAIN kept[Home[f]] /\ Home[f] \in Homes
  BY Housed DEF GoBack, Types, Documents, Programs, Contents, HandOvers
<1>3. kept[Home[f]][from] \in Level
  BY <1>2 DEF Layouts, PlacesLevel
<1>4. \/ request' = request /\ UNCHANGED disk
      \/ request' = [request EXCEPT ![f] = r] /\ UNCHANGED disk
      \/ HandsOver(f, v, from, "healthy") /\ Swapped(f, v, kept[Home[f]][from])
  BY DEF GoBack, ByHand
<1>5. ASSUME HandsOver(f, v, from, "healthy"), Swapped(f, v, kept[Home[f]][from])
      PROVE  RequestsLevel' /\ PlacesLevel'
  BY <1>1, <1>2, <1>3, <1>5, HandedOver, SameRequests, PlacesSwapped
<1>6. ASSUME request' = [request EXCEPT ![f] = r], UNCHANGED disk
      PROVE  RequestsLevel' /\ PlacesLevel'
  <2>1. AskLevel(r)
    BY DEF AskLevel, Asked
  <2>. QED
    BY <1>1, <1>6, <2>1, NextRequest, SamePlaces
<1>7. ASSUME request' = request, UNCHANGED disk
      PROVE  RequestsLevel' /\ PlacesLevel'
  BY <1>1, <1>7, SameRequests, SamePlaces DEF SameAsk
<1>. QED
  BY <1>1, <1>4, <1>5, <1>6, <1>7, SameWorks, SameNotes, SameTowers DEF Layouts

LEMMA LayoutsCancel ==
  ASSUME Types, Layouts, NEW f \in Factories, Cancel(f)
  PROVE  Layouts'
<1>1. UNCHANGED <<nature, running, tower, disk, stage, job>>
  BY DEF Cancel
<1>2. \A g \in Factories : request'[g] # Nothing => request'[g] = request[g]
  BY DEF Cancel, Types, Documents
<1>. QED
  BY <1>1, <1>2, SamePlaces, SameWorks, SameNotes, SameRequests, SameTowers DEF Layouts, SameAsk

LEMMA LayoutsCopy ==
  ASSUME Types, Layouts, NEW f \in Factories, Copy(f)
  PROVE  Layouts'
<1>. DEFINE r == request[f]
<1>1. UNCHANGED <<nature, running, disk, stage, job, request>>
  BY DEF Copy, docs
<1>2. r # Nothing /\ r \in Requests /\ Home[f] \in Homes
  BY Housed DEF Copy, Waits, Types, Documents
<1>3. AskLevel(r)
  BY <1>2 DEF Layouts, RequestsLevel
<1>4. SourceOf(f, r) \in Level
  <2>1. CASE r.rollback
    BY <1>2, <2>1 DEF Copy, HasSource, SourceOf, Layouts, PlacesLevel
  <2>2. CASE ~r.rollback
    BY <1>3, <2>2 DEF AskLevel, SourceOf, Content, Level
  <2>. QED
    BY <2>1, <2>2
<1>5. \A g \in Factories :
        tower'[g] = IF g = f THEN [at |-> "copied", asked |-> r, fresh |-> SourceOf(f, r)] ELSE tower[g]
  BY DEF Copy, Types, Programs
<1>6. TowersLevel'
  BY <1>1, <1>3, <1>4, <1>5, LevelStays DEF Layouts, TowersLevel, AskLevel
<1>. QED
  BY <1>1, <1>6, SamePlaces, SameWorks, SameNotes, SameRequests DEF Layouts, SameAsk

LEMMA LayoutsFails ==
  ASSUME Types, Layouts, NEW f \in Factories, Fails(f), UNCHANGED <<nature, running, disk, stage, job>>
  PROVE  Layouts'
<1>1. \A g \in Factories : request'[g] # Nothing => request'[g] = request[g]
  BY DEF Fails, Types, Documents
<1>2. \A g \in Factories : tower'[g] = tower[g] \/ tower'[g].at = "serving"
  BY DEF Fails, Types, Programs
<1>. QED
  BY <1>1, <1>2, SamePlaces, SameWorks, SameNotes, SameRequests, SameTowers DEF Layouts, SameAsk

LEMMA LayoutsPlace ==
  ASSUME Types, Layouts, NEW f \in Factories, Place(f)
  PROVE  Layouts'
<1>1. UNCHANGED <<nature, running, stage, job>>
  BY DEF Place
<1>2. /\ tower[f].asked.version \in Versions /\ running[f] \in Versions
      /\ tower[f].at = "copied"
  BY Awaited DEF Place, Types, Programs, Requests
<1>3. tower[f].fresh \in Level /\ AskLevel(tower[f].asked)
  BY <1>2 DEF Layouts, TowersLevel
<1>4. RequestsLevel'
  BY <1>1, <1>2, HandedOver, SameRequests DEF Place
<1>5. PlacesLevel'
  BY <1>1, <1>2, <1>3, PlacesSwapped DEF Place
<1>6. \A g \in Factories :
        tower'[g] = IF g = f THEN [at |-> "placed", asked |-> tower[f].asked] ELSE tower[g]
  BY DEF Place, Types, Programs
<1>7. TowersLevel'
  BY <1>1, <1>3, <1>6, LevelStays DEF Layouts, TowersLevel, AskLevel
<1>. QED
  BY <1>1, <1>4, <1>5, <1>7, SameWorks, SameNotes DEF Layouts

LEMMA LayoutsStarts ==
  ASSUME Types, Layouts, NEW f \in Factories, Starts(f), UNCHANGED <<nature, disk>>
  PROVE  Layouts'
<1>1. binary[Home[f]] \in Level
  BY Housed DEF Layouts, PlacesLevel
<1>2. \A g \in Factories : running'[g] = running[g] \/ running'[g] = binary[Home[f]]
  BY DEF Starts, Types, Programs
<1>3. PlacesLevel'
  BY <1>1, <1>2, LevelStays DEF Layouts, PlacesLevel, disk
<1>4. f \in Actors /\ WorkLevel(Idle)
  BY DEF Actors, WorkLevel, Idle
<1>5. WorksLevel'
  BY <1>4, NextWork DEF Starts
<1>6. \A v \in Versions : stage'[v] = stage[v] \/ ~IsReady(stage'[v].note)
  BY DEF Starts, ForgetInstalled, Empty, IsReady
<1>7. \A g \in Factories : request'[g] # Nothing => request'[g] = request[g]
  BY DEF Starts, Types, Documents
<1>8. \A g \in Factories : tower'[g] = tower[g] \/ tower'[g].at = "serving"
  BY DEF Starts, Types, Programs
<1>. QED
  BY <1>3, <1>5, <1>6, <1>7, <1>8, SameNotes, SameRequests, SameTowers DEF Layouts, SameAsk

LEMMA LayoutsUndo ==
  ASSUME Types, Layouts, NEW f \in Factories, Undo(f)
  PROVE  Layouts'
<1>. DEFINE h == Home[f]
<1>1. UNCHANGED <<nature, running, stage, job, kept>>
  BY DEF Undo
<1>2. kept[h][running[f]] \in Level
  BY Housed DEF Undo, Layouts, PlacesLevel
<1>3. \A g \in Homes : binary'[g] = binary[g] \/ binary'[g] = kept[h][running[f]]
  BY DEF Undo, Types, Programs
<1>4. PlacesLevel'
  BY <1>1, <1>2, <1>3, LevelStays DEF Layouts, PlacesLevel
<1>5. \A g \in Factories : request'[g] # Nothing => request'[g] = request[g]
  BY DEF Undo, Fails, Types, Documents
<1>6. \A g \in Factories : tower'[g] = tower[g] \/ tower'[g].at = "serving"
  BY DEF Undo, Fails, Types, Programs
<1>. QED
  BY <1>1, <1>4, <1>5, <1>6, SameWorks, SameNotes, SameRequests, SameTowers DEF Layouts, SameAsk

LEMMA LayoutsCrash ==
  ASSUME Types, Layouts, NEW f \in Factories, Crash(f)
  PROVE  Layouts'
<1>1. UNCHANGED <<nature, running, disk, stage, request>>
  BY DEF Crash, docs
<1>2. f \in Actors /\ WorkLevel(Off)
  BY DEF Actors, WorkLevel, Off
<1>3. WorksLevel'
  BY <1>1, <1>2, NextWork DEF Crash
<1>4. \A g \in Factories : tower'[g] = tower[g] \/ tower'[g].at = "off"
  BY DEF Crash, Off, Types, Programs
<1>. QED
  BY <1>1, <1>3, <1>4, SamePlaces, SameNotes, SameRequests, SameTowers DEF Layouts, SameAsk

LEMMA LayoutsInit ==
  ASSUME Alike, Init
  PROVE  Layouts
<1>1. nature \in Natures /\ nature.installed \in [Homes -> Versions]
  BY MachineAssumption DEF Init
<1>2. \A h \in Homes : nature.installed[h] \in Level
  BY <1>1 DEF Alike, Level
<1>3. PlacesLevel
  BY <1>2, Housed DEF Init, PlacesLevel
<1>4. (\A a \in Actors : job[a].at \in {"idle", "off"}) /\ \A v \in Versions : ~IsReady(stage[v].note)
  BY DEF Init, Idle, Off, Empty, IsReady
<1>5. \A f \in Factories : request[f] = Nothing /\ tower[f].at \in {"serving", "off"}
  BY DEF Init, Off
<1>. QED
  BY <1>3, <1>4, <1>5 DEF Layouts, WorksLevel, WorkLevel, StagedLevel, RequestsLevel, TowersLevel

LEMMA LayoutsNext ==
  ASSUME Types, Layouts, [Next]_vars
  PROVE  Layouts'
<1>1. ASSUME \/ UNCHANGED vars \/ Publish \/ SignIn \/ ClearSkipped
             \/ \E v \in Versions : Skip(v)
             \/ \E f \in Factories : Edit(f)
      PROVE  Layouts'
  BY <1>1, LayoutsAside DEF vars, docs, Publish, SignIn, ClearSkipped, Skip, Edit
<1>2. ASSUME NEW f \in Factories, CopyFails(f) \/ PlaceFails(f)
      PROVE  Layouts'
  BY <1>2, LayoutsFails DEF CopyFails, PlaceFails
<1>3. ASSUME NEW f \in Factories, Prove(f) \/ Restart(f)
      PROVE  Layouts'
  BY <1>3, LayoutsStarts DEF Prove, Restart
<1>4. CASE Next
  BY <1>1, <1>2, <1>3, <1>4, Steps,
     LayoutsPass, LayoutsStageNow, LayoutsApplyNow, LayoutsLook, LayoutsFetch, LayoutsWrite,
     LayoutsNote, LayoutsGate, LayoutsAsk, LayoutsWait, LayoutsApply, LayoutsAskFromDashboard,
     LayoutsGoBack, LayoutsCancel, LayoutsCopy, LayoutsPlace, LayoutsUndo, LayoutsCrash,
     LayoutsInterrupt
<1>. QED
  BY <1>1, <1>4

\* With the same, and where everything installed to begin with reads one layout of the state, what a
\* Tower puts in place is the whole of the version it was asked for, of the layout it reads, which
\* its own factory's gate was asked about and did not refuse, the definition being the one it then
\* was; and unattended, one that is not left to a person and gave that definition no warning the
\* program that asked does not (staging.rs, ready; stage.rs; gate.rs, passes_unattended; policy.rs;
\* swap.rs, the digests).
THEOREM InstalledIsRight ==
  ASSUME ~Rewrites, ~Overlaps, Apart, Alike
  PROVE  Spec => []InstalledIsAccepted
<1>. DEFINE Inv == Types /\ Says /\ Stages /\ Disk /\ Layouts
<1>1. Init => Inv
  BY TypesInit, SaysInit, StagesInit, DiskInit, LayoutsInit
<1>2. Inv /\ [Next]_vars => Inv'
  BY TypesNext, SaysNext, StagesNext, DiskNext, LayoutsNext
<1>3. Inv => InstalledIsAccepted
  <2>. SUFFICES ASSUME Inv, NEW f \in Factories, tower[f].at = "placed"
                PROVE  LET r == tower[f].asked IN
                       /\ binary[Home[f]] = r.version
                       /\ r.rollback \/ (/\ nature.layout[r.version] = nature.layout[running[f]]
                                         /\ Passes(Answer(f, r.version, r.gate))
                                         /\ r.auto => /\ r.version \notin nature.left[f]
                                                      /\ Answer(f, r.version, r.gate) = "clean")
    BY DEF InstalledIsAccepted
  <2>1. binary[Home[f]] = tower[f].asked.version /\ Accepted(f, tower[f].asked)
    BY DEF Disk, Fits, Says, TowersFit
  <2>2. ASSUME ~tower[f].asked.rollback
        PROVE  nature.layout[tower[f].asked.version] = nature.layout[running[f]]
    <3>1. tower[f].asked.version \in Level /\ running[f] \in Level /\ Home[f] \in Homes
      BY <2>2, Housed DEF Layouts, TowersLevel, AskLevel, PlacesLevel
    <3>2. tower[f].asked.version # Torn /\ running[f] # Torn
      BY Awaited DEF Requests, Types, Programs, Versions, Torn
    <3>. QED
      BY <3>1, <3>2 DEF Level
  <2>. QED
    BY <2>1, <2>2 DEF Accepted
<1>. QED
  BY <1>1, <1>2, <1>3, PTL DEF Spec
=============================================================================
