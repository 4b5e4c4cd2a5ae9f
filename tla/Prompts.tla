------------------------------ MODULE Prompts ------------------------------
(***************************************************************************)
(* The flags of a piece of work and the prompts composed with them.  An     *)
(* agent's prompt is a file whose `@include` lines may depend on a flag; a  *)
(* workflow declares flags, a person chooses some, and the choice travels   *)
(* with the work: through messages, spawned chains, work set down and work  *)
(* resumed, questions answered, and a Tower that goes away.  Validation     *)
(* walks every branch of every prompt for every way in; a run refuses to    *)
(* start when its prompt does not compose.                                  *)
(*                                                                         *)
(* One piece of work is followed, from the trigger on.  The dashboard and   *)
(* the prompts are what is on disk, the rest is what the Tower read when it *)
(* started.  Only factories in which `layover validate` finds no error are   *)
(* followed.  `serve` does not ask: it runs others too, whose prompts are     *)
(* refused run by run, and nothing is said of those here.                   *)
(*                                                                         *)
(* An optional value is a set of at most one element.                      *)
(***************************************************************************)
EXTENDS Naturals, Sequences, FiniteSets

CONSTANTS
  Agents, FlagNames,
  Order,           \* the names of workflows, as a BTreeMap has them
  NoWorkflow,
  Files,           \* the prompt files
  Malformed,       \* where a line leads that cannot be read as a directive
  Nowhere,         \* where one leads that names no file, or a path outside the prompts
  MaxDepth, MaxExpansions,
  Factories,
  MaxEdits, MaxRestarts

Options(S) == {{}} \cup {{x} : x \in S}

\* The elements of a sequence, and the names of workflows.
Elements(s) == {s[i] : i \in DOMAIN s}
Workflows == Elements(Order)

\* Values for some of the flags.
Values == UNION {[S -> BOOLEAN] : S \in SUBSET FlagNames}
None == [x \in {} |-> FALSE]

Line == [flag : Options(FlagNames), negated : BOOLEAN, to : Files \cup {Malformed, Nowhere}]

Workflow == [entry : Options(Agents), resumes : BOOLEAN, flags : Values]

\* `routes` is the route map: what each workflow, and a chain of none, may use.
Factory == [flags : Values, workflows : UNION {[W -> Workflow] : W \in SUBSET Workflows},
            bare : SUBSET Agents, routes : [Workflows \cup {NoWorkflow} -> SUBSET (Agents \X Agents)],
            spawns : SUBSET (Agents \X Agents), prompt : [Agents -> Options(Files)],
            files : [Files -> Seq(Line)]]

ASSUME PromptsAssumption ==
  /\ Order \in Seq(Workflows)
  /\ NoWorkflow \notin Workflows /\ {Malformed, Nowhere} \cap Files = {}
  /\ {MaxDepth, MaxExpansions, MaxEdits, MaxRestarts} \subseteq Nat
  /\ Factories \subseteq Factory

VARIABLES
  written,   \* the factory as it is on disk
  read,      \* the factory as the Tower read it
  work,      \* the piece of work: see PieceOfWork
  known,     \* what the Tower recorded of the chain it is in: workflow and flags
  made,      \* the flags the run alive, or the last one, was composed with
  wish,      \* what the person chose, as far as the workflows since then declare it
  edits, restarts

promptsVars == <<written, read, work, known, made, wish, edits, restarts>>

PieceOfWork ==
  [at : {"none", "queued", "running", "resting", "asked", "refused"},
   agent : Options(Agents), workflow : Workflows \cup {NoWorkflow},
   flags : Values, within : SUBSET (Workflows \cup {NoWorkflow}), by : {"entry", "resumed"}]

PromptsTypeOK ==
  /\ written \in Factories /\ read \in Factories
  /\ work \in PieceOfWork
  /\ known \in [workflow : Workflows \cup {NoWorkflow}, flags : Values]
  /\ made \in Values /\ wish \in Values
  /\ edits \in 0..MaxEdits /\ restarts \in 0..MaxRestarts

---------------------------------------------------------------------------
(* Flags.  A workflow has the factory's own beside those it declares. *)

Names(f) == DOMAIN f.workflows

Declared(f, w) ==
  [x \in DOMAIN f.flags \cup DOMAIN f.workflows[w].flags |->
     IF x \in DOMAIN f.workflows[w].flags THEN f.workflows[w].flags[x] ELSE f.flags[x]]

CarryingDefaults(f, w, recorded) == Declared(f, w)

\* flags_carrying: what the workflow declares, valued as recorded.
Carrying(f, w, recorded) ==
  [x \in DOMAIN Declared(f, w) |->
     IF x \in DOMAIN recorded THEN recorded[x] ELSE Declared(f, w)[x]]

\* flags_without_pipeline: every flag declared anywhere, the first declaration deciding.
WithoutPipeline(f) ==
  LET by(x) == {i \in DOMAIN Order : Order[i] \in Names(f) /\ x \in DOMAIN f.workflows[Order[i]].flags}
      first(x) == CHOOSE i \in by(x) : \A j \in by(x) : i <= j
  IN  [x \in DOMAIN f.flags \cup {y \in FlagNames : by(y) # {}} |->
         IF x \in DOMAIN f.flags THEN f.flags[x] ELSE f.workflows[Order[first(x)]].flags[x]]

\* Factory::flags_for
FlagsFor(chain) ==
  CASE chain.workflow \in Names(read) -> Carrying(read, chain.workflow, chain.flags)
    [] chain.workflow \notin Names(read) /\ chain.flags # None -> chain.flags
    [] OTHER -> WithoutPipeline(read)

---------------------------------------------------------------------------
(* Prompts.  A node is the way from the file of an agent to one included,   *)
(* as the file and the line of each step.                                   *)

FileOf(node) == node[Len(node)][1]

LinesOf(files, node) == IF FileOf(node) \in DOMAIN files THEN files[FileOf(node)] ELSE <<>>

Repeats(node) == \E i \in 1..Len(node) - 1 : node[i][1] = FileOf(node)

Steps(files, node, taken) ==
  LET lines == LinesOf(files, node)
  IN  IF Repeats(node) THEN {}
      ELSE {Append(node, <<lines[n].to, n>>) : n \in {n \in DOMAIN lines : lines[n] \in taken}}

\* What `file` comes to in k steps, when only the lines that are taken are followed.
Levels(files, file, taken) ==
  LET level[k \in 0..MaxDepth] ==
        IF k = 0 THEN {<< <<file, 0>> >>}
        ELSE UNION {Steps(files, node, taken) : node \in level[k - 1]}
  IN  level

Included(files, file, taken) ==
  LET level == Levels(files, file, taken) IN UNION {level[k] : k \in 0..MaxDepth}

\* Neither too deep nor a cycle, and a file that can be read, line by line.
Usable(files, node) ==
  /\ Len(node) <= MaxDepth
  /\ ~Repeats(node)
  /\ FileOf(node) \in DOMAIN files
  /\ \A line \in Elements(LinesOf(files, node)) : line.to # Malformed

\* referenced_flags: every branch is walked, whatever the flags are, ...
Accepted(files, file) ==
  /\ \A node \in Included(files, file, Line) : Usable(files, node)
  /\ Cardinality(Included(files, file, Line)) <= MaxExpansions

TestsPlain(files, file) ==
  UNION {line.flag : line \in {l \in UNION {Elements(LinesOf(files, node)) :
                                 node \in Included(files, file, Line)} : ~l.negated}}

\* ... and every flag met is a flag the prompt tests.
Tests(files, file) ==
  UNION {line.flag : line \in UNION {Elements(LinesOf(files, node)) :
                               node \in Included(files, file, Line)}}

\* resolve: only what the flags ask for is followed, and a flag not declared is an error.
Holding(flags) == {line \in Line : \A x \in line.flag : x \in DOMAIN flags /\ flags[x] # line.negated}

Composes(files, file, flags) ==
  \A node \in Included(files, file, Holding(flags)) :
    /\ Usable(files, node)
    /\ \A line \in Elements(LinesOf(files, node)) : line.flag \subseteq DOMAIN flags

PromptComposes(f, files, a, flags) == \A file \in f.prompt[a] : Composes(files, file, flags)

---------------------------------------------------------------------------
(* What validation says. *)

Senders(f, w) == {e[1] : e \in f.routes[w]}

\* workflow_from_all, across spawn edges as well.
Within(f, w, starts) ==
  {a \in Agents : \A S \in SUBSET Agents :
     (starts \subseteq S /\ \A e \in f.routes[w] : e[1] \in S => e[2] \in S) => a \in S}

\* entry_points: where chains start, whose routes they use and what they may assume.
EntryPoints(f) ==
  {[starts |-> IF f.workflows[w].entry = {} THEN Senders(f, w) ELSE f.workflows[w].entry,
    workflow |-> w, available |-> DOMAIN Declared(f, w)] : w \in Names(f)}
  \cup {[starts |-> {a}, workflow |-> NoWorkflow, available |-> DOMAIN f.flags] : a \in f.bare}

\* check_prompt_files
Sound(f) ==
  /\ \A a \in Agents : \A file \in f.prompt[a] : Accepted(f.files, file)
  /\ \A e \in EntryPoints(f) : \A a \in Within(f, e.workflow, e.starts) : \A file \in f.prompt[a] :
       Tests(f.files, file) \subseteq e.available

SoundFactories == {f \in Factories : Sound(f)}

---------------------------------------------------------------------------
(* The routes of the chain the work is in. *)

RoutesOf(f, w) == IF w \in Names(f) THEN f.routes[w] ELSE f.routes[NoWorkflow]

Permitted == {e \in RoutesOf(read, known.workflow) : \A w \in work.within : e \in RoutesOf(read, w)}

Unknown == [workflow |-> NoWorkflow, flags |-> None]

Queued(a, w, flags, within, by) ==
  [at |-> "queued", agent |-> {a}, workflow |-> w, flags |-> flags, within |-> within, by |-> by]

PromptsInit ==
  /\ written \in Factories /\ read = written
  /\ work = [at |-> "none", agent |-> {}, workflow |-> NoWorkflow, flags |-> None, within |-> {},
             by |-> "entry"]
  /\ known = Unknown
  /\ made = None /\ wish = None
  /\ edits = 0 /\ restarts = 0

\* Work opened by the clock or a person, with the flags chosen; `f` is the factory that knows them.
Opened(a, w, flags, chosen) ==
  /\ work.at = "none"
  /\ work' = Queued(a, w, flags, {}, "entry")
  /\ wish' = chosen
  /\ UNCHANGED <<written, read, known, made, edits, restarts>>

\* trigger
Trigger(w) ==
  /\ read \in SoundFactories
  /\ \E a \in read.workflows[w].entry : Opened(a, w, Carrying(read, w, None), None)

\* send_flight through a workflow: resolve_target, resolve_flags.
SendFlight(w, chosen) ==
  /\ written \in SoundFactories
  /\ DOMAIN chosen \subseteq DOMAIN Declared(written, w)
  /\ \E a \in written.workflows[w].entry : Opened(a, w, Carrying(written, w, chosen), chosen)

\* send_flight to an agent marked as an entry: no flags.
SendBare(a) ==
  /\ written \in SoundFactories
  /\ a \in written.bare
  /\ Opened(a, NoWorkflow, None, None)

\* Chains::opened_by: the first to carry a workflow, and the first to carry flags, decides.
OpenedBy ==
  [workflow |-> IF known.workflow = NoWorkflow THEN work.workflow ELSE known.workflow,
   flags |-> IF known.flags = None THEN work.flags ELSE known.flags]

DeclaredBy(f, w, values) ==
  IF w \in Names(f) THEN [x \in DOMAIN values \cap DOMAIN Declared(f, w) |-> values[x]] ELSE values

\* launch_queued, begin and instructions_for: a prompt that does not compose refuses the run.
Start ==
  /\ work.at = "queued"
  /\ known' = OpenedBy
  /\ made' = FlagsFor(OpenedBy)
  /\ wish' = DeclaredBy(read, OpenedBy.workflow, wish)
  /\ work' = [work EXCEPT !.at =
       IF \A a \in work.agent : PromptComposes(read, written.files, a, FlagsFor(OpenedBy))
       THEN "running" ELSE "refused"]
  /\ UNCHANGED <<written, read, edits, restarts>>

\* layover_send: the message carries what the run was made with; a spawn opens a chain for it.
Send(b) ==
  /\ work.at = "running"
  /\ \E a \in work.agent :
       /\ <<a, b>> \in Permitted
       /\ known' = IF <<a, b>> \in read.spawns THEN Unknown ELSE known
       /\ work' = Queued(b, known.workflow, made, work.within, work.by)
  /\ UNCHANGED <<written, read, made, wish, edits, restarts>>

\* layover_wait and layover_help: work set down, and a question that its run ends with.
Wait ==
  /\ work.at = "running"
  /\ work' = [work EXCEPT !.at = "resting", !.workflow = known.workflow, !.flags = made]
  /\ UNCHANGED <<written, read, known, made, wish, edits, restarts>>

AskForHelp ==
  /\ work.at = "running"
  /\ work' = [work EXCEPT !.at = "asked", !.workflow = known.workflow,
                          !.flags = IF known.workflow = NoWorkflow THEN None ELSE made]
  /\ UNCHANGED <<written, read, known, made, wish, edits, restarts>>

\* resume_due
Resume(w) ==
  /\ work.at = "resting" /\ read.workflows[w].resumes
  /\ known' = Unknown
  /\ \E a \in work.agent :
       work' = Queued(a, w, Carrying(read, w, work.flags), (work.within \cup {work.workflow}) \ {w},
                      "resumed")
  /\ wish' = DeclaredBy(read, w, wish)
  /\ UNCHANGED <<written, read, made, edits, restarts>>

\* continuation: the question recorded its chain, and nobody is asked for flags.
Reply ==
  /\ work.at = "asked"
  /\ known' = Unknown
  /\ \E a \in work.agent :
       work' = Queued(a, work.workflow,
                 IF work.workflow \in Names(written) THEN Carrying(written, work.workflow, work.flags)
                 ELSE work.flags,
                 work.within, work.by)
  /\ wish' = DeclaredBy(written, work.workflow, wish)
  /\ UNCHANGED <<written, read, made, edits, restarts>>

\* A person edits the file while the Tower runs.  The bounds: what is edited is the workflows and
\* the flags, never the routes or the prompts; a run that is refused is followed no further.
Edit(f) ==
  /\ edits < MaxEdits /\ edits' = edits + 1
  /\ work.at # "refused"
  /\ read \in SoundFactories /\ f # written
  /\ [f EXCEPT !.flags = written.flags, !.workflows = written.workflows] = written
  /\ written' = f
  /\ UNCHANGED <<read, work, known, made, wish, restarts>>

\* The Tower goes away and another reads what is on disk; a run alive is queued again as it was.
Restart ==
  /\ restarts < MaxRestarts /\ restarts' = restarts + 1
  /\ work.at # "refused"
  /\ read \in SoundFactories
  /\ read' = written
  /\ known' = Unknown
  /\ work' = IF work.at = "running" THEN [work EXCEPT !.at = "queued"] ELSE work
  /\ UNCHANGED <<written, made, wish, edits>>

PromptsNext ==
  \/ \E w \in Names(read) : Trigger(w) \/ Resume(w)
  \/ \E w \in Names(written), chosen \in Values : SendFlight(w, chosen)
  \/ \E a \in Agents : SendBare(a) \/ Send(a)
  \/ Start \/ Wait \/ AskForHelp \/ Reply \/ Restart
  \/ \E f \in SoundFactories : Edit(f)

PromptsSpec == PromptsInit /\ [][PromptsNext]_promptsVars

---------------------------------------------------------------------------
(* Properties. *)

\* Validation looked at the agent for the workflow the chain is in.
LookedAt(w, a) ==
  \E e \in EntryPoints(read) : e.workflow = w /\ a \in Within(read, w, e.starts)

\* "Anything this accepts, resolve can compose" (prompt.rs:193): in a factory without errors no run
\* is refused for its prompt, whatever was chosen, however the work came to its agent and however
\* many Towers it outlived -- unless somebody edited the factory under the Tower, or validation
\* never looked at that agent in that workflow.
PromptsCompose ==
  work.at = "refused" =>
    \/ written # read
    \/ \E a \in work.agent : ~LookedAt(known.workflow, a)

\* What a person chose at the trigger is what every later run is made with, through messages,
\* spawns, layovers, answers and restarts, as long as each workflow the work came through declares
\* it (resume.rs: "a follow-up composed from the resuming pipeline's defaults would quietly undo
\* them").
ChoicesSurvive ==
  work.at = "running" => \A x \in DOMAIN wish : x \in DOMAIN made /\ made[x] = wish[x]

\* What the comments say without exception: pipeline.rs:363 and resume.rs, that validation proved
\* the prompts of resumed work; prompt.rs:193, that what is rejected would have failed in a run;
\* prompts.rs:150, that a chain no workflow opened has the factory's own flags and no other.
ResumedWorkComposes == work.at = "refused" => work.by # "resumed" \/ written # read \/ restarts > 0

RejectedFails ==
  \A a \in Agents : \A file \in read.prompt[a] :
    ~Accepted(read.files, file) => \E flags \in [FlagNames -> BOOLEAN] : ~Composes(read.files, file, flags)

BareHasItsOwn ==
  (work.at = "running" /\ known.workflow = NoWorkflow) => DOMAIN made = DOMAIN read.flags
============================================================================
