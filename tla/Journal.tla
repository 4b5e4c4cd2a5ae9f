------------------------------ MODULE Journal ------------------------------
(***************************************************************************)
(* The files of a factory's state directory that several threads change:   *)
(* the queue, the layovers, the dismissals, the switches, the learnings    *)
(* and the daily segments of help requests.  Every change but an append    *)
(* reads the whole file, works on a copy and replaces the file by renaming *)
(* a neighbouring one over it; what keeps two of them apart is a lock held *)
(* by path, one table of locks a process.                                  *)
(***************************************************************************)
EXTENDS Naturals, Sequences, FiniteSets, Functions

CONSTANTS
  Threads,      \* whoever calls the store: tool calls, the dashboard, the Tower
  Processes,    \* the processes they run in
  ProcessOf,    \* [Threads -> Processes]
  Flights, Layovers, Chains, Workflows, Learnt, Requests,
  Continuations, \* the flights among them that answers queue
  Runs,         \* runs that asked for help
  Continues,    \* [Continuations -> Runs]: whose work each goes on with
  Asked,        \* [Runs -> SUBSET Requests]: what each asked
  SegmentOf,    \* [Requests -> Segments]: the day's file each is in
  Segments,     \* the days' files of help requests
  SegmentsOf,   \* [Runs -> Seq(Segments)]: the files a run asked in, in the order of their names
  Absent, Nobody,
  Judges,       \* whether the dashboard's judging of learnings is among the calls
  Initial,      \* the documents there may be at first
  MaxCalls,     \* calls a thread makes
  MaxFaults,    \* writes that fail
  MaxCrashes    \* times a process goes away

ASSUME JournalAssumption ==
  /\ ProcessOf \in [Threads -> Processes]
  /\ Continues \in [Continuations -> Runs]
  /\ Asked \in [Runs -> SUBSET Requests]
  /\ SegmentOf \in [Requests -> Segments]
  /\ SegmentsOf \in [Runs -> Seq(Segments)]
  /\ \A r \in Runs : Range(SegmentsOf[r]) = {SegmentOf[q] : q \in Asked[r]}
  /\ Segments \cap {"writes", "pending", "layovers", "dismissed", "switched-off", "learnings"} = {}
  /\ Nobody \notin Threads
  /\ Flights \cap {"waiting", "open", "closed"} = {}

VARIABLES
  docs,       \* document -> key -> entry: the files under their own names
  staging,    \* document -> what its ".writing" neighbour holds, or Absent
  lock,       \* process -> lock -> the thread that holds it, or Nobody
  pc,         \* thread -> where it is in its call
  todo,       \* thread -> the changes its call has still to make
  locks,      \* thread -> the locks its call has still to take, in order
  guard,      \* thread -> how much of the call those locks are held for
  copy,       \* thread -> document -> what it read
  told,       \* thread -> what its call has come to
  made,       \* thread -> calls it has made
  minted,     \* the keys there have been, so that a new entry has one of its own
  open,       \* process -> whether it has been through its start
  faults, crashes

callVars == <<pc, todo, locks, guard, copy, told>>
vars == <<docs, staging, lock, pc, todo, locks, guard, copy, told, made, minted, open, faults, crashes>>

Docs == {"pending", "layovers", "dismissed", "switched-off", "learnings"} \cup Segments
Keys == Flights \cup Layovers \cup Chains \cup Workflows \cup Learnt \cup Requests
Vals == {"waiting", "booked", "resumed", "open", "closed", "off", "active", "confirmed"}
          \cup Runs \cup Flights

\* Nothing that an entry says, and no document, is the absence of one.
ASSUME AbsentAssumption == Absent \notin Vals \cup [Keys -> Vals \cup {Absent}]

Locks == {"writes"} \cup Segments

\* One lock for the documents of the journal, one for each segment.
LockOf(d) == IF d \in Segments THEN d ELSE "writes"

---------------------------------------------------------------------------
(***************************************************************************)
(* The calls.  Each is the changes it makes, the locks it takes and what   *)
(* of it they cover: the "whole" of it, only the "write", or "none".       *)
(***************************************************************************)
Change(d, how, keys, val) == [doc |-> d, how |-> how, keys |-> keys, val |-> val]

\* Mutant: the file is read before its lock is taken, as two separate steps.
LockedLate(c) == [changes |-> <<c>>, locks |-> <<LockOf(c.doc)>>, guard |-> "write"]

Locked(c) == [changes |-> <<c>>, locks |-> <<LockOf(c.doc)>>, guard |-> "whole"]

Queue(f)        == Locked(Change("pending", "put", {f}, "waiting"))
Unqueue(f)      == Locked(Change("pending", "mark", {f}, Absent))
Book(l)         == Locked(Change("layovers", "put", {l}, "booked"))
Amend(l)        == Locked(Change("layovers", "mark", {l}, "resumed"))
Dismiss(i, r)   == Locked(Change("dismissed", "renew", {i}, r))
Undismiss(i)    == Locked(Change("dismissed", "mark", {i}, Absent))
SwitchOff(p)    == Locked(Change("switched-off", "once", {p}, "off"))
SwitchOn(p)     == Locked(Change("switched-off", "mark", {p}, Absent))
Learn(x)        == Locked(Change("learnings", "put", {x}, "active"))
Resolve(s, qs)  == Locked(Change(s, "close", qs, "closed"))

\* append_line: nothing is read, so there is no copy to be stale.
Ask(q) == [changes |-> <<Change(SegmentOf[q], "put", {q}, "open")>>,
           locks |-> <<SegmentOf[q]>>, guard |-> "append"]

\* judge_learning reads the learnings, changes them and saves them: only the save is locked.
Judge(x) == [changes |-> <<Change("learnings", "mark", {x}, "confirmed")>>,
             locks |-> <<"writes">>, guard |-> "write"]

\* A program that starts forgets what is older than it keeps.
ForgetDismissals(is) == Locked(Change("dismissed", "mark", is, Absent))
ForgetLapsed(xs)     == Locked(Change("learnings", "mark", xs, Absent))
Sweep(ls) == [changes |-> <<Change("layovers", "sweep", ls, Absent)>>,
              locks |-> <<>>, guard |-> "none"]

(***************************************************************************)
(* An answer queues the flight that continues the work and then marks what *)
(* the run asked, segment by segment, all under the journal's lock and the *)
(* segments', taken in the order of their names.                           *)
(***************************************************************************)
AnswerLocks(r) == <<"writes">> \o SegmentsOf[r]

Reply(r, f, s) == Change(s, "close", {q \in Asked[r] : SegmentOf[q] = s}, f)

Answer(r, f) ==
  [changes |-> <<Change("pending", "put", {f}, "waiting")>>
                 \o [i \in 1..Len(SegmentsOf[r]) |-> Reply(r, f, SegmentsOf[r][i])],
   locks   |-> AnswerLocks(r),
   guard   |-> "answer"]

TakeBack(f) == <<Change("pending", "mark", {f}, Absent)>>

QueueCalls == {Queue(f) : f \in Flights \ Continuations} \cup {Unqueue(f) : f \in Flights}
LayoverCalls == {Book(l) : l \in Layovers} \cup {Amend(l) : l \in Layovers}
DismissCalls == {Dismiss(i, r) : i \in Chains, r \in Runs}
UndismissCalls == {Undismiss(i) : i \in Chains}
SwitchCalls == {SwitchOff(p) : p \in Workflows} \cup {SwitchOn(p) : p \in Workflows}
LearningCalls == {Learn(x) : x \in Learnt}
HelpCalls == {Ask(q) : q \in Requests} \cup {Resolve(SegmentOf[q], {q}) : q \in Requests}
AnswerCalls == {Answer(Continues[f], f) : f \in Continuations}
JudgeCalls == {Judge(x) : x \in {x \in Learnt : Judges}}

EveryDay == QueueCalls \cup LayoverCalls \cup DismissCalls \cup UndismissCalls
              \cup SwitchCalls \cup LearningCalls \cup HelpCalls \cup AnswerCalls \cup JudgeCalls

AtStart == {ForgetDismissals({i}) : i \in Chains} \cup {ForgetLapsed({x}) : x \in Learnt}
             \cup {Sweep({l}) : l \in Layovers}

S == INSTANCE Shelf WITH
       Calls <- {c.changes : c \in EveryDay \cup AtStart}, Undos <- {TakeBack(f) : f \in Continuations}

---------------------------------------------------------------------------

Empty == [k \in Keys |-> Absent]

Init ==
  /\ docs \in Initial
  /\ staging = [d \in Docs |-> Absent]
  /\ lock = [p \in Processes |-> [l \in Locks |-> Nobody]]
  /\ pc = [t \in Threads |-> "idle"]
  /\ todo = [t \in Threads |-> <<>>]
  /\ locks = [t \in Threads |-> <<>>]
  /\ guard = [t \in Threads |-> "none"]
  /\ copy = [t \in Threads |-> [d \in Docs |-> Empty]]
  /\ told = [t \in Threads |-> "unchanged"]
  /\ made = [t \in Threads |-> 0]
  /\ minted = {k \in Keys : \E d \in Docs : docs[d][k] # Absent}
  /\ open = [p \in Processes |-> FALSE]
  /\ faults = 0
  /\ crashes = 0

\* The keys a call adds an entry under: each is generated for it.
New(call) == UNION {c.keys : c \in {c \in Range(call.changes) : c.how = "put"}}

LocksOf(t) == lock[ProcessOf[t]]

\* What a call does between its start and its end, and where it is in that.
Begin(t, call) ==
  /\ pc[t] = "idle"
  /\ New(call) \cap minted = {}
  /\ IF open[ProcessOf[t]]
     THEN /\ call \in EveryDay
          /\ made[t] < MaxCalls
          /\ made' = [made EXCEPT ![t] = @ + 1]
     ELSE /\ call \in AtStart
          /\ UNCHANGED made
          /\ \A u \in Threads : ProcessOf[u] = ProcessOf[t] => pc[u] = "idle"
  /\ pc' = [pc EXCEPT ![t] = "called"]
  /\ todo' = [todo EXCEPT ![t] = call.changes]
  /\ locks' = [locks EXCEPT ![t] = call.locks]
  /\ guard' = [guard EXCEPT ![t] = call.guard]
  /\ minted' = minted \cup New(call)
  /\ UNCHANGED <<docs, staging, lock, copy, told, open, faults, crashes>>

\* The next lock of the call, as soon as nobody in this process holds it.
Acquire(t) ==
  /\ locks[t] # <<>>
  /\ pc[t] = IF guard[t] = "write" THEN "read" ELSE "called"
  /\ LocksOf(t)[Head(locks[t])] = Nobody
  /\ lock' = [lock EXCEPT ![ProcessOf[t]][Head(locks[t])] = t]
  /\ locks' = [locks EXCEPT ![t] = Tail(@)]
  /\ UNCHANGED <<docs, staging, pc, todo, guard, copy, told, made, minted, open, faults, crashes>>

\* Whether the call may go on to its next read or write.
Covered(t) == locks[t] = <<>>

\* read_document, read_segment: one whole version of each file.
Read(t) ==
  /\ pc[t] = "called"
  /\ guard[t] # "append"
  /\ Covered(t) \/ guard[t] = "write"
  /\ copy' = [copy EXCEPT ![t] = [d \in Docs |-> IF \E c \in Range(todo[t]) : c.doc = d
                                                 THEN docs[d] ELSE Empty]]
  /\ pc' = [pc EXCEPT ![t] = "read"]
  /\ UNCHANGED <<docs, staging, lock, todo, locks, guard, told, made, minted, open, faults, crashes>>


\* What the call is to change next, and the file as the caller has it.
Due(t) == Head(todo[t])
Seen(t) == copy[t][Due(t).doc]
Ready(t) == pc[t] = "read" /\ Covered(t) /\ todo[t] # <<>>

\* An answer that has queued nothing yet, and finds none of the run's requests open.
Unqueued(t) == guard[t] = "answer" /\ Due(t).how = "put"
Closed(t) ==
  Unqueued(t) /\ \A i \in 2..Len(todo[t]) : ~S!Matches(todo[t][i], copy[t][todo[t][i].doc])

\* Dealt with already, or what was said cannot continue the work.
Decline(t) ==
  /\ Ready(t)
  /\ Unqueued(t)
  /\ todo' = [todo EXCEPT ![t] = <<>>]
  /\ UNCHANGED <<docs, staging, lock, pc, locks, guard, copy, told, made, minted, open, faults, crashes>>

\* Nothing in the copy to change: the file is not written.
Skip(t) ==
  /\ pc[t] = "read" /\ todo[t] # <<>>
  /\ Covered(t) \/ guard[t] = "write"
  /\ ~S!Matches(Due(t), Seen(t))
  /\ todo' = [todo EXCEPT ![t] = Tail(@)]
  /\ UNCHANGED <<docs, staging, lock, pc, locks, guard, copy, told, made, minted, open, faults, crashes>>

\* write_document, rewrite_segment: first the neighbouring file, whatever it held ...
Stage(t) ==
  /\ Ready(t)
  /\ ~Closed(t)
  /\ S!Matches(Due(t), Seen(t))
  /\ staging' = [staging EXCEPT ![Due(t).doc] = S!Effect(Due(t), Seen(t))]
  /\ pc' = [pc EXCEPT ![t] = "staged"]
  /\ UNCHANGED <<docs, lock, todo, locks, guard, copy, told, made, minted, open, faults, crashes>>

\* ... then that one in the place of the file.
Rename(t) ==
  /\ pc[t] = "staged"
  /\ staging[Due(t).doc] # Absent
  /\ docs' = [docs EXCEPT ![Due(t).doc] = staging[Due(t).doc]]
  /\ staging' = [staging EXCEPT ![Due(t).doc] = Absent]
  /\ copy' = [copy EXCEPT ![t][Due(t).doc] = S!Effect(Due(t), Seen(t))]
  /\ todo' = [todo EXCEPT ![t] = Tail(@)]
  /\ told' = [told EXCEPT ![t] = "changed"]
  /\ pc' = [pc EXCEPT ![t] = "read"]
  /\ UNCHANGED <<lock, locks, guard, made, minted, open, faults, crashes>>

\* append_line: one write at the end of the file, whatever else is in it.
AppendLine(t) ==
  /\ pc[t] = "called"
  /\ guard[t] = "append"
  /\ Covered(t)
  /\ docs' = [docs EXCEPT ![Due(t).doc] = S!Effect(Due(t), @)]
  /\ todo' = [todo EXCEPT ![t] = Tail(@)]
  /\ told' = [told EXCEPT ![t] = "changed"]
  /\ pc' = [pc EXCEPT ![t] = "read"]
  /\ UNCHANGED <<staging, lock, locks, guard, copy, made, minted, open, faults, crashes>>

(***************************************************************************)
(* A write fails, before the rename or because another process has taken   *)
(* the staged file.  An answer that had queued its flight takes it back;   *)
(* whether that can be written is not looked at.                           *)
(***************************************************************************)
\* Mutant: an answer that cannot mark the requests leaves its flight in the queue.
RestQueued(t) == <<>>

Rest(t) ==
  IF guard[t] = "answer" /\ Due(t).how = "close"
  THEN TakeBack(CHOOSE f \in Continuations : Due(t).val = f)
  ELSE <<>>

WriteFails(t) ==
  /\ pc[t] = "staged"
  /\ \/ staging[Due(t).doc] = Absent /\ UNCHANGED faults
     \/ faults < MaxFaults /\ faults' = faults + 1
  /\ todo' = [todo EXCEPT ![t] = Rest(t)]
  /\ told' = [told EXCEPT ![t] = "failed"]
  /\ pc' = [pc EXCEPT ![t] = "read"]
  /\ UNCHANGED <<docs, staging, lock, locks, guard, copy, made, minted, open, crashes>>

\* Mutant: a call that fails returns without letting its locks go.
ReturnLeaks(t) ==
  /\ pc[t] = "read"
  /\ todo[t] = <<>>
  /\ pc' = [pc EXCEPT ![t] = "idle"]
  /\ lock' = [lock EXCEPT ![ProcessOf[t]] = [l \in Locks |-> IF @[l] = t /\ told[t] # "failed" THEN Nobody ELSE @[l]]]
  /\ guard' = [guard EXCEPT ![t] = "none"]
  /\ locks' = [locks EXCEPT ![t] = <<>>]
  /\ copy' = [copy EXCEPT ![t] = [d \in Docs |-> Empty]]
  /\ told' = [told EXCEPT ![t] = "unchanged"]
  /\ UNCHANGED <<docs, staging, todo, made, minted, open, faults, crashes>>

\* The locks are let go where the call ends, however it does.
Return(t) ==
  /\ pc[t] = "read"
  /\ todo[t] = <<>>
  /\ pc' = [pc EXCEPT ![t] = "idle"]
  /\ lock' = [lock EXCEPT ![ProcessOf[t]] = [l \in Locks |-> IF @[l] = t THEN Nobody ELSE @[l]]]
  /\ guard' = [guard EXCEPT ![t] = "none"]
  /\ locks' = [locks EXCEPT ![t] = <<>>]
  /\ copy' = [copy EXCEPT ![t] = [d \in Docs |-> Empty]]
  /\ told' = [told EXCEPT ![t] = "unchanged"]
  /\ UNCHANGED <<docs, staging, todo, made, minted, open, faults, crashes>>

\* retain is over: the dashboard, the tool calls and the Tower may begin.
Open(p) ==
  /\ ~open[p]
  /\ \A t \in Threads : ProcessOf[t] = p => pc[t] = "idle"
  /\ open' = [open EXCEPT ![p] = TRUE]
  /\ UNCHANGED <<docs, staging, lock, callVars, made, minted, faults, crashes>>

\* A process goes away, its locks with it; the files are as it left them.
Crash(p) ==
  LET gone == {t \in Threads : ProcessOf[t] = p} IN
  /\ crashes < MaxCrashes
  /\ crashes' = crashes + 1
  /\ open' = [open EXCEPT ![p] = FALSE]
  /\ lock' = [lock EXCEPT ![p] = [l \in Locks |-> Nobody]]
  /\ pc' = [t \in Threads |-> IF t \in gone THEN "idle" ELSE pc[t]]
  /\ todo' = [t \in Threads |-> IF t \in gone THEN <<>> ELSE todo[t]]
  /\ locks' = [t \in Threads |-> IF t \in gone THEN <<>> ELSE locks[t]]
  /\ guard' = [t \in Threads |-> IF t \in gone THEN "none" ELSE guard[t]]
  /\ copy' = [t \in Threads |-> IF t \in gone THEN [d \in Docs |-> Empty] ELSE copy[t]]
  /\ told' = [t \in Threads |-> IF t \in gone THEN "unchanged" ELSE told[t]]
  /\ UNCHANGED <<docs, staging, made, minted, faults>>

Step(t) == Acquire(t) \/ Read(t) \/ Skip(t) \/ Stage(t) \/ Rename(t) \/ AppendLine(t)
             \/ Decline(t) \/ Return(t)

Next ==
  \/ \E t \in Threads :
       \/ \E call \in EveryDay \cup AtStart : Begin(t, call)
       \/ Step(t)
       \/ WriteFails(t)
  \/ \E p \in Processes : Open(p) \/ Crash(p)

Spec == Init /\ [][Next]_vars

\* A thread inside the store goes on; there is nothing in it that waits but for a lock.
FairSpec == Spec /\ \A t \in Threads : WF_vars(Step(t))

---------------------------------------------------------------------------

TypeOK ==
  /\ docs \in [Docs -> S!Contents]
  /\ staging \in [Docs -> S!Contents \cup {Absent}]
  /\ lock \in [Processes -> [Locks -> Threads \cup {Nobody}]]
  /\ pc \in [Threads -> {"idle", "called", "read", "staged"}]
  /\ copy \in [Threads -> [Docs -> S!Contents]]
  /\ told \in [Threads -> {"unchanged", "changed", "failed"}]

(***************************************************************************)
(* One process implements the promise of the store: whatever its threads   *)
(* ask at the same time, each change is made in one step to the document   *)
(* as it then stands, and the answer says whether it was.                  *)
(***************************************************************************)
ImplementsShelf == S!Spec

(***************************************************************************)
(* journal.rs, update_learnings and book: reading, changing and saving     *)
(* separately loses whichever change was read first.  A document changes   *)
(* only by somebody's change to what it held just before.                  *)
(***************************************************************************)
NoChangeIsLost ==
  [][\A d \in Docs : docs'[d] # docs[d] =>
        \E t \in Threads : todo[t] # <<>> /\ Due(t).doc = d /\ docs'[d] = S!Effect(Due(t), docs[d])]_vars

(***************************************************************************)
(* answer.rs: two people replying to one request at once must start one    *)
(* chain and not two.  While no process goes away in the middle and at     *)
(* most one write fails, what one run asked is continued once.             *)
(***************************************************************************)
OneContinuation ==
  crashes = 0 =>
    \A f, g \in Continuations :
      /\ docs["pending"][f] = "waiting" /\ docs["pending"][g] = "waiting"
      /\ Continues[f] = Continues[g]
      => f = g

\* answer.rs: the work is queued and the requests marked, or neither.
BothOrNeither ==
  (\A t \in Threads : pc[t] = "idle") =>
     \A q \in Requests, f \in Continuations :
        docs[SegmentOf[q]][q] = f => docs["pending"][f] = "waiting"

\* Every call of the store ends: no two of them wait for each other's lock.
CallsReturn == \A t \in Threads : pc[t] # "idle" ~> pc[t] = "idle"
============================================================================
