--------------------------- MODULE JournalProofs ---------------------------
(***************************************************************************)
(* One process implements the promise of the store (Shelf): for any number *)
(* of threads, documents, segments and calls, with writes failing and the  *)
(* process going away at any moment, every change is made in one step to   *)
(* the document as it then stands.                                         *)
(*                                                                         *)
(* The argument is the lock discipline.  Whoever has read a document holds *)
(* the lock of its path until the call returns, or is the only thread      *)
(* there is, because it runs before the process has opened; so its copy is *)
(* the document still, what it has staged is its change applied to that,   *)
(* and nobody else stages over it.                                         *)
(*                                                                         *)
(* An answer needs the same discipline over several documents at once: who *)
(* has queued a continuation and has requests left to mark still holds the *)
(* queue, so whoever is next to queue one finds nothing open any more.     *)
(*                                                                         *)
(* What the store keeps of advice, the learnings, is proved about in the   *)
(* last part, for any number of agents, runs at once and texts: what a    *)
(* learning has cost, how far it spread and what a rejection keeps out are *)
(* invariants of the document, of the copy a person's judgement has read,  *)
(* and of the runs in progress together.                                   *)
(***************************************************************************)
EXTENDS Journal, Learnings, FiniteSetTheorems, SequenceTheorems, WellFoundedInduction, TLAPS

Hows == {"put", "once", "renew", "mark", "close", "sweep"}
ChangeSet == [doc : Docs, how : Hows, keys : SUBSET Keys, val : Vals \cup {Absent}]

\* The case layover-store's locks are for: one process, and every caller through them.
OneProcessOnly ==
  /\ ~Judges
  /\ \A t, u \in Threads : ProcessOf[t] = ProcessOf[u]
  /\ Initial \subseteq [Docs -> S!Contents]
  /\ Continuations \subseteq Flights

Types ==
  /\ docs \in [Docs -> S!Contents]
  /\ staging \in [Docs -> S!Contents \cup {Absent}]
  /\ lock \in [Processes -> [Locks -> Threads \cup {Nobody}]]
  /\ pc \in [Threads -> {"idle", "called", "read", "staged"}]
  /\ todo \in [Threads -> Seq(ChangeSet)]
  /\ locks \in [Threads -> Seq(Locks)]
  /\ guard \in [Threads -> {"whole", "append", "answer", "none"}]
  /\ copy \in [Threads -> [Docs -> S!Contents]]
  /\ told \in [Threads -> {"unchanged", "changed", "failed"}]
  /\ open \in [Processes -> BOOLEAN]

\* The documents a call is about: those it has still to change, and the queue for an answer,
\* which may have to take its flight back.
Concerns(t, d) ==
  \/ \E i \in 1..Len(todo[t]) : todo[t][i].doc = d
  \/ guard[t] = "answer" /\ d = "pending"

Has(t, d) == LocksOf(t)[LockOf(d)] = t

Active(t) == pc[t] \in {"read", "staged"} /\ todo[t] # <<>>

\* Before it has read, a call has each lock or is still to take it.
WillHold(t) ==
  pc[t] = "called" /\ guard[t] # "none" =>
    \A d \in Docs : Concerns(t, d) => Has(t, d) \/ \E i \in 1..Len(locks[t]) : locks[t][i] = LockOf(d)

\* From then on it has them all, and its copies are the documents.
Holding(t) ==
  Active(t) => \A d \in Docs : Concerns(t, d) =>
                 /\ guard[t] # "none" => Has(t, d)
                 /\ copy[t][d] = docs[d]

Staged(t) ==
  pc[t] = "staged" =>
    /\ todo[t] # <<>>
    /\ staging[Due(t).doc] = S!Effect(Due(t), docs[Due(t).doc])
    /\ S!Matches(Due(t), docs[Due(t).doc])

\* Nobody is beside a thread that holds no lock: the process has not opened yet.
Bare(t) == pc[t] # "idle" /\ guard[t] = "none" => ~open[ProcessOf[t]]

Resting(t) ==
  /\ pc[t] = "idle" => todo[t] = <<>> /\ told[t] = "unchanged"
  /\ pc[t] = "called" => told[t] = "unchanged"

Shaped(t) ==
  /\ pc[t] = "called" => todo[t] # <<>>
  /\ pc[t] = "called" /\ guard[t] = "append" =>
       Due(t).how = "put" /\ Due(t).keys # {} /\ Tail(todo[t]) = <<>>
  /\ pc[t] = "called" /\ guard[t] = "answer" => Due(t).doc = "pending"
  /\ guard[t] = "answer" => \A i \in 1..Len(todo[t]) :
       todo[t][i].how = "close" => todo[t][i].val \in Continuations

Sound(t) == WillHold(t) /\ Holding(t) /\ Staged(t) /\ Bare(t) /\ Resting(t) /\ Shaped(t)

Alone == \A t, u \in Threads : ~open[ProcessOf[t]] /\ pc[t] # "idle" /\ pc[u] # "idle" => t = u

Inv == Types /\ Alone /\ \A t \in Threads : Sound(t)

---------------------------------------------------------------------------

LEMMA EffectType ==
  ASSUME NEW c \in ChangeSet, NEW content \in S!Contents
  PROVE  S!Effect(c, content) \in S!Contents
  BY DEF S!Effect, S!Contents, ChangeSet

\* What is asked of the list of calls: types, the locks that cover each, and what is special in it.
CallOK(call) ==
  /\ call.changes \in Seq(ChangeSet) /\ call.changes # <<>>
  /\ call.locks \in Seq(Locks)
  /\ call.guard \in {"whole", "append", "answer", "none"}
  /\ call.guard # "none" => \A i \in 1..Len(call.changes) :
        \E j \in 1..Len(call.locks) : call.locks[j] = LockOf(call.changes[i].doc)
  /\ call.guard = "answer" =>
        /\ \E j \in 1..Len(call.locks) : call.locks[j] = "writes"
        /\ Head(call.changes).doc = "pending"
        /\ \A i \in 1..Len(call.changes) : call.changes[i].how = "close" => call.changes[i].val \in Continuations
  /\ call.guard = "append" =>
        Head(call.changes).how = "put" /\ Head(call.changes).keys # {} /\ Tail(call.changes) = <<>>

LEMMA LockedOK ==
  ASSUME NEW c \in ChangeSet
  PROVE  CallOK(Locked(c)) /\ Locked(c).guard = "whole"
<1>1. LockOf(c.doc) \in Locks
  BY DEF LockOf, Locks, ChangeSet, Docs
<1>2. <<c>> \in Seq(ChangeSet) /\ <<LockOf(c.doc)>> \in Seq(Locks) /\ <<c>> # <<>>
  BY <1>1
<1>3. Len(<<c>>) = 1 /\ <<c>>[1] = c /\ Len(<<LockOf(c.doc)>>) = 1 /\ <<LockOf(c.doc)>>[1] = LockOf(c.doc)
  OBVIOUS
<1> QED BY <1>2, <1>3 DEF Locked, CallOK

LEMMA ChangeTyped ==
  ASSUME NEW d \in Docs, NEW h \in Hows, NEW ks \in SUBSET Keys, NEW v \in Vals \cup {Absent}
  PROVE  Change(d, h, ks, v) \in ChangeSet
  BY DEF Change, ChangeSet

LEMMA AnswerOK ==
  ASSUME NEW r \in Runs, NEW f \in Continuations, JournalAssumption, OneProcessOnly
  PROVE  CallOK(Answer(r, f))
<1> DEFINE n == Len(SegmentsOf[r])
           first == Change("pending", "put", {f}, "waiting")
           rest == [i \in 1..n |-> Reply(r, f, SegmentsOf[r][i])]
<1>1. SegmentsOf[r] \in Seq(Segments) /\ n \in Nat /\ SegmentsOf[r] \in [1..n -> Segments]
  BY DEF JournalAssumption
<1>2. first \in ChangeSet
  BY ChangeTyped DEF Docs, Hows, Keys, Vals, OneProcessOnly
<1>3. ASSUME NEW s \in Segments
      PROVE  Reply(r, f, s) \in ChangeSet /\ Reply(r, f, s).doc = s /\ Reply(r, f, s).val = f
  <2>1. {q \in Asked[r] : SegmentOf[q] = s} \in SUBSET Keys
    BY DEF JournalAssumption, Keys
  <2> QED BY <2>1, ChangeTyped DEF Reply, Change, Docs, Hows, Vals, OneProcessOnly
<1>4. rest \in Seq(ChangeSet) /\ Len(rest) = n
  BY <1>1, <1>3
<1>5. /\ Answer(r, f).changes = <<first>> \o rest
      /\ Answer(r, f).locks = <<"writes">> \o SegmentsOf[r]
      /\ Answer(r, f).guard = "answer"
  BY DEF Answer, AnswerLocks
<1>6. /\ <<first>> \o rest \in Seq(ChangeSet) /\ Len(<<first>> \o rest) = n + 1
      /\ (<<first>> \o rest)[1] = first /\ Head(<<first>> \o rest) = first
      /\ \A i \in 2..(n + 1) : (<<first>> \o rest)[i] = Reply(r, f, SegmentsOf[r][i - 1])
  <2> HIDE DEF first
  <2> QED BY <1>1, <1>2, <1>4
<1>7. /\ <<"writes">> \o SegmentsOf[r] \in Seq(Locks) /\ Len(<<"writes">> \o SegmentsOf[r]) = n + 1
      /\ (<<"writes">> \o SegmentsOf[r])[1] = "writes"
      /\ \A i \in 2..(n + 1) : (<<"writes">> \o SegmentsOf[r])[i] = SegmentsOf[r][i - 1]
  BY <1>1 DEF Locks
<1>8. first.doc = "pending" /\ first.how = "put" /\ LockOf("pending") = "writes"
  BY DEF Change, LockOf, JournalAssumption
<1>9. ASSUME NEW i \in 1..(n + 1)
      PROVE  /\ \E j \in 1..(n + 1) : (<<"writes">> \o SegmentsOf[r])[j] = LockOf((<<first>> \o rest)[i].doc)
             /\ (<<first>> \o rest)[i].how = "close" => (<<first>> \o rest)[i].val \in Continuations
  <2>1. CASE i = 1
    <3> HIDE DEF first, rest
    <3> QED BY <2>1, <1>1, <1>6, <1>7, <1>8
  <2>2. CASE i # 1
    <3>1. i \in 2..(n + 1) /\ SegmentsOf[r][i - 1] \in Segments
      BY <2>2, <1>1
    <3>2. (<<first>> \o rest)[i] = Reply(r, f, SegmentsOf[r][i - 1])
      BY <3>1, <1>6
    <3>3. LockOf((<<first>> \o rest)[i].doc) = SegmentsOf[r][i - 1] /\ (<<first>> \o rest)[i].val = f
      BY <3>1, <3>2, <1>3 DEF LockOf
    <3> QED BY <3>1, <3>3, <1>7
  <2> QED BY <2>1, <2>2
<1>11. Head(<<first>> \o rest).doc = "pending"
  BY <1>6, <1>8
<1> HIDE DEF first, rest, n
<1>10. <<first>> \o rest # <<>> /\ 1 \in 1..(n + 1)
  BY <1>1, <1>6
<1> QED BY <1>5, <1>6, <1>7, <1>11, <1>9, <1>10 DEF CallOK

LEMMA LockedCall ==
  ASSUME NEW d \in Docs, NEW h \in Hows, NEW ks \in SUBSET Keys, NEW v \in Vals \cup {Absent}
  PROVE  CallOK(Locked(Change(d, h, ks, v))) /\ Locked(Change(d, h, ks, v)).guard = "whole"
  BY ChangeTyped, LockedOK

\* Every call the threads make is well formed, and only a start's holds no lock.
Fine(call) == CallOK(call) /\ (call.guard = "none" => call \in AtStart)

LEMMA CallsOK ==
  ASSUME JournalAssumption, OneProcessOnly, NEW call \in EveryDay \cup AtStart
  PROVE  CallOK(call) /\ (call.guard = "none" => call \in AtStart)
<1> SUFFICES Fine(call)
  BY DEF Fine
<1>b. /\ "pending" \in Docs /\ "layovers" \in Docs /\ "dismissed" \in Docs /\ "switched-off" \in Docs
      /\ "learnings" \in Docs /\ Segments \subseteq Docs
  BY DEF Docs
<1>c. /\ \A k \in Flights : {k} \in SUBSET Keys
      /\ \A k \in Layovers : {k} \in SUBSET Keys
      /\ \A k \in Chains : {k} \in SUBSET Keys
      /\ \A k \in Workflows : {k} \in SUBSET Keys
      /\ \A k \in Learnt : {k} \in SUBSET Keys
      /\ \A k \in Requests : {k} \in SUBSET Keys
  BY DEF Keys
<1>d. /\ {"waiting", "booked", "resumed", "off", "active", "closed", "open"} \subseteq Vals \cup {Absent}
      /\ Absent \in Vals \cup {Absent} /\ Runs \subseteq Vals \cup {Absent}
  BY DEF Vals
<1>e. {"put", "once", "renew", "mark", "close", "sweep"} \subseteq Hows
  BY DEF Hows
<1>f. ASSUME NEW d \in Docs, NEW h \in Hows, NEW ks \in SUBSET Keys, NEW v \in Vals \cup {Absent}
      PROVE  Fine(Locked(Change(d, h, ks, v)))
  BY LockedCall DEF Fine
<1>1. ASSUME NEW f \in Flights PROVE Fine(Queue(f)) /\ Fine(Unqueue(f))
  BY <1>b, <1>c, <1>d, <1>e, <1>f DEF Queue, Unqueue
<1>2. ASSUME NEW l \in Layovers PROVE Fine(Book(l)) /\ Fine(Amend(l))
  BY <1>b, <1>c, <1>d, <1>e, <1>f DEF Book, Amend
<1>3. ASSUME NEW i \in Chains, NEW r \in Runs PROVE Fine(Dismiss(i, r))
  BY <1>b, <1>c, <1>d, <1>e, <1>f DEF Dismiss
<1>4. ASSUME NEW i \in Chains PROVE Fine(Undismiss(i)) /\ Fine(ForgetDismissals({i}))
  BY <1>b, <1>c, <1>d, <1>e, <1>f DEF Undismiss, ForgetDismissals
<1>5. ASSUME NEW p \in Workflows PROVE Fine(SwitchOff(p)) /\ Fine(SwitchOn(p))
  BY <1>b, <1>c, <1>d, <1>e, <1>f DEF SwitchOff, SwitchOn
<1>6. ASSUME NEW x \in Learnt PROVE Fine(Learn(x)) /\ Fine(ForgetLapsed({x}))
  BY <1>b, <1>c, <1>d, <1>e, <1>f DEF Learn, ForgetLapsed
<1>7. ASSUME NEW q \in Requests PROVE Fine(Resolve(SegmentOf[q], {q}))
  <2>1. SegmentOf[q] \in Docs
    BY <1>b DEF JournalAssumption
  <2> QED BY <2>1, <1>c, <1>d, <1>e, <1>f DEF Resolve
<1>8. ASSUME NEW q \in Requests PROVE Fine(Ask(q))
  <2> DEFINE c == Change(SegmentOf[q], "put", {q}, "open")
  <2>1. c \in ChangeSet /\ c.doc = SegmentOf[q] /\ c.how = "put" /\ c.keys # {}
    <3>1. SegmentOf[q] \in Docs
      BY <1>b DEF JournalAssumption
    <3>2. c \in ChangeSet
      BY <3>1, <1>c, <1>d, <1>e, ChangeTyped
    <3> QED BY <3>2 DEF Change
  <2>2. LockOf(SegmentOf[q]) = SegmentOf[q] /\ SegmentOf[q] \in Locks
    BY DEF LockOf, Locks, JournalAssumption
  <2>3. Ask(q).changes = <<c>> /\ Ask(q).locks = <<SegmentOf[q]>> /\ Ask(q).guard = "append"
    BY DEF Ask
  <2> HIDE DEF c
  <2>4. <<c>> \in Seq(ChangeSet) /\ <<c>> # <<>> /\ Len(<<c>>) = 1 /\ <<c>>[1] = c /\ Head(<<c>>) = c /\ Tail(<<c>>) = <<>>
    BY <2>1
  <2>5. <<SegmentOf[q]>> \in Seq(Locks) /\ Len(<<SegmentOf[q]>>) = 1 /\ <<SegmentOf[q]>>[1] = SegmentOf[q]
    BY <2>2
  <2> QED BY <2>1, <2>2, <2>3, <2>4, <2>5 DEF CallOK, Fine
<1>9. ASSUME NEW r \in Runs, NEW f \in Continuations PROVE Fine(Answer(r, f))
  <2>1. Answer(r, f).guard = "answer"
    BY DEF Answer
  <2> QED BY <2>1, AnswerOK DEF Fine
<1>10. ASSUME NEW l \in Layovers PROVE Fine(Sweep({l}))
  <2> DEFINE c == Change("layovers", "sweep", {l}, Absent)
  <2>1. c \in ChangeSet
    BY <1>b, <1>c, <1>d, <1>e, ChangeTyped
  <2>2. Sweep({l}).changes = <<c>> /\ Sweep({l}).locks = <<>> /\ Sweep({l}).guard = "none"
    BY DEF Sweep
  <2> HIDE DEF c
  <2>3. <<c>> \in Seq(ChangeSet) /\ <<c>> # <<>> /\ <<>> \in Seq(Locks)
    BY <2>1
  <2>4. Sweep({l}) \in AtStart
    BY DEF AtStart
  <2> QED BY <2>2, <2>3, <2>4 DEF CallOK, Fine
<1>11. Flights \ Continuations \subseteq Flights /\ ~Judges
  BY DEF OneProcessOnly
<1> HIDE DEF Fine
<1>q. \A c \in QueueCalls : Fine(c)
  BY <1>1, <1>11 DEF QueueCalls
<1>l. \A c \in LayoverCalls : Fine(c)
  BY <1>2 DEF LayoverCalls
<1>m. \A c \in DismissCalls : Fine(c)
  BY <1>3 DEF DismissCalls
<1>u. \A c \in UndismissCalls : Fine(c)
  BY <1>4 DEF UndismissCalls
<1>s. \A c \in SwitchCalls : Fine(c)
  BY <1>5 DEF SwitchCalls
<1>n. \A c \in LearningCalls : Fine(c)
  BY <1>6 DEF LearningCalls
<1>h. \A c \in HelpCalls : Fine(c)
  BY <1>7, <1>8 DEF HelpCalls
<1>w. \A c \in AnswerCalls : Fine(c)
  BY <1>9 DEF AnswerCalls
<1>j. JudgeCalls = {}
  BY <1>11 DEF JudgeCalls
<1>12. call \in EveryDay => Fine(call)
  BY <1>q, <1>l, <1>m, <1>u, <1>s, <1>n, <1>h, <1>w, <1>j DEF EveryDay
<1>13. call \in AtStart => Fine(call)
  BY <1>4, <1>6, <1>10 DEF AtStart
<1> QED BY <1>12, <1>13

LEMMA EveryDayLocked ==
  ASSUME OneProcessOnly, NEW call \in EveryDay
  PROVE  call.guard # "none"
<1> DEFINE Keeps(c) == c.guard # "none"
<1>0. \A c : Keeps(Locked(c))
  BY DEF Locked
<1>a. /\ \A x : Keeps(Queue(x)) /\ Keeps(Unqueue(x)) /\ Keeps(Book(x)) /\ Keeps(Amend(x))
      /\ \A x : Keeps(Undismiss(x)) /\ Keeps(SwitchOff(x)) /\ Keeps(SwitchOn(x)) /\ Keeps(Learn(x))
      /\ \A x, y : Keeps(Dismiss(x, y)) /\ Keeps(Resolve(x, y))
  <2> HIDE DEF Keeps
  <2> QED BY <1>0 DEF Queue, Unqueue, Book, Amend, Undismiss, SwitchOff, SwitchOn, Learn, Dismiss, Resolve
<1>b. \A x : Keeps(Ask(x))
  BY DEF Ask
<1>c. \A x, y : Keeps(Answer(x, y))
  BY DEF Answer
<1> HIDE DEF Keeps
<1>1. \A c \in QueueCalls : Keeps(c)
  BY <1>a DEF QueueCalls
<1>2. \A c \in LayoverCalls : Keeps(c)
  BY <1>a DEF LayoverCalls
<1>3. \A c \in DismissCalls : Keeps(c)
  BY <1>a DEF DismissCalls
<1>4. \A c \in UndismissCalls : Keeps(c)
  BY <1>a DEF UndismissCalls
<1>5. \A c \in SwitchCalls : Keeps(c)
  BY <1>a DEF SwitchCalls
<1>6. \A c \in LearningCalls : Keeps(c)
  BY <1>a DEF LearningCalls
<1>7. \A c \in HelpCalls : Keeps(c)
  BY <1>a, <1>b DEF HelpCalls
<1>8. \A c \in AnswerCalls : Keeps(c)
  BY <1>c DEF AnswerCalls
<1>9. JudgeCalls = {}
  BY DEF JudgeCalls, OneProcessOnly
<1>10. Keeps(call)
  BY <1>1, <1>2, <1>3, <1>4, <1>5, <1>6, <1>7, <1>8, <1>9 DEF EveryDay
<1> QED BY <1>10 DEF Keeps

---------------------------------------------------------------------------
(***************************************************************************)
(* Two threads never work on one document: both would hold its lock, or    *)
(* one of them holds none and is alone.                                    *)
(***************************************************************************)
LEMMA Apart ==
  ASSUME JournalAssumption, OneProcessOnly, Inv,
         NEW t \in Threads, NEW u \in Threads, NEW d \in Docs, t # u,
         pc[t] # "idle", guard[t] # "none" => Has(t, d),
         Active(u), Concerns(u, d)
  PROVE  FALSE
<1>1. ProcessOf[t] = ProcessOf[u] /\ ProcessOf[t] \in Processes
  BY DEF OneProcessOnly, JournalAssumption
<1>2. pc[u] # "idle"
  BY DEF Active
<1>3. open[ProcessOf[t]]
  BY <1>1, <1>2 DEF Inv, Alone
<1>4. guard[t] # "none" /\ guard[u] # "none"
  BY <1>1, <1>2, <1>3 DEF Inv, Sound, Bare
<1>5. Has(u, d)
  BY <1>4 DEF Inv, Sound, Holding
<1> QED BY <1>1, <1>4, <1>5 DEF Has, LocksOf

LEMMA InitInv ==
  ASSUME OneProcessOnly, Init
  PROVE  Inv
<1>1. Types
  BY DEF Init, Types, OneProcessOnly, Empty, S!Contents
<1>2. Alone
  BY DEF Init, Alone
<1>3. ASSUME NEW t \in Threads PROVE Sound(t)
  BY DEF Init, Sound, WillHold, Holding, Active, Staged, Bare, Resting, Shaped
<1> QED BY <1>1, <1>2, <1>3 DEF Inv

\* What a thread's step leaves of the others: its own rows of the tables change, and the documents
\* and staging files of the others do not.
Others(t) ==
  \A u \in Threads \ {t} :
    /\ pc'[u] = pc[u] /\ todo'[u] = todo[u] /\ locks'[u] = locks[u] /\ guard'[u] = guard[u]
    /\ copy'[u] = copy[u] /\ told'[u] = told[u]
    /\ \A d \in Docs : Concerns(u, d) /\ pc[u] # "idle" /\ Has(u, d) => lock'[ProcessOf[u]][LockOf(d)] = u
    /\ Active(u) => \A d \in Docs : Concerns(u, d) => docs'[d] = docs[d] /\ staging'[d] = staging[d]

LEMMA OthersSound ==
  ASSUME JournalAssumption, Inv, NEW t \in Threads, NEW u \in Threads, u # t, Others(t),
         open' = open
  PROVE  Sound(u)'
<1> USE DEF Inv
<1>0. /\ pc'[u] = pc[u] /\ todo'[u] = todo[u] /\ locks'[u] = locks[u] /\ guard'[u] = guard[u]
      /\ copy'[u] = copy[u] /\ told'[u] = told[u]
  BY DEF Others
<1>1. \A d \in Docs : Concerns(u, d)' <=> Concerns(u, d)
  BY <1>0 DEF Concerns
<1>2. Active(u)' <=> Active(u)
  BY <1>0 DEF Active
<1>3. \A d \in Docs : Concerns(u, d) /\ pc[u] # "idle" /\ Has(u, d) => Has(u, d)'
  BY DEF Others, Has, LocksOf
<1>4. \A d \in Docs : Active(u) /\ Concerns(u, d) => docs'[d] = docs[d] /\ staging'[d] = staging[d]
  BY DEF Others
<1>5. WillHold(u)'
  BY <1>0, <1>1, <1>3 DEF Sound, WillHold
<1>6. Holding(u)'
  BY <1>0, <1>1, <1>2, <1>3, <1>4 DEF Sound, Holding, Active
<1>7. Staged(u)'
  <2> SUFFICES ASSUME pc[u] = "staged"
               PROVE  /\ todo[u] # <<>>
                      /\ staging'[Due(u).doc] = S!Effect(Due(u), docs'[Due(u).doc])
                      /\ S!Matches(Due(u), docs'[Due(u).doc])
    BY <1>0 DEF Staged, Due, S!Effect, S!Matches
  <2>1. Staged(u) /\ todo[u] # <<>> /\ Active(u)
    BY DEF Sound, Staged, Active
  <2>2. todo[u] \in Seq(ChangeSet)
    BY DEF Types
  <2>3. Due(u) = todo[u][1] /\ 1 \in 1..Len(todo[u]) /\ Due(u) \in ChangeSet
    BY <2>1, <2>2 DEF Due
  <2>4. Due(u).doc \in Docs /\ Concerns(u, Due(u).doc)
    BY <2>3 DEF ChangeSet, Concerns
  <2>5. docs'[Due(u).doc] = docs[Due(u).doc] /\ staging'[Due(u).doc] = staging[Due(u).doc]
    BY <1>4, <2>1, <2>4
  <2> QED BY <2>1, <2>5 DEF Staged
<1>8. Bare(u)' /\ Resting(u)'
  BY <1>0 DEF Sound, Bare, Resting
<1>9. Shaped(u)'
  BY <1>0 DEF Sound, Shaped, Due
<1> QED BY <1>5, <1>6, <1>7, <1>8, <1>9 DEF Sound

Still(t) == \A u \in Threads : pc'[u] # "idle" => pc[u] # "idle"

LEMMA Combine ==
  ASSUME JournalAssumption, Inv, NEW t \in Threads, Types', Others(t), open' = open,
         Sound(t)', Still(t)
  PROVE  Inv'
<1>1. Alone'
  BY DEF Inv, Alone, Still
<1>2. ASSUME NEW u \in Threads PROVE Sound(u)'
  BY OthersSound
<1> QED BY <1>1, <1>2 DEF Inv

LEMMA DueFacts ==
  ASSUME Inv, NEW t \in Threads, todo[t] # <<>>
  PROVE  /\ Due(t) \in ChangeSet /\ Due(t).doc \in Docs /\ Due(t) = todo[t][1]
         /\ Concerns(t, Due(t).doc)
         /\ Tail(todo[t]) \in Seq(ChangeSet)
         /\ Len(Tail(todo[t])) = Len(todo[t]) - 1
         /\ \A i \in 1..Len(Tail(todo[t])) : i + 1 \in 1..Len(todo[t]) /\ Tail(todo[t])[i] = todo[t][i + 1]
<1>1. todo[t] \in Seq(ChangeSet)
  BY DEF Inv, Types
<1>2. 1 \in 1..Len(todo[t]) /\ Due(t) = todo[t][1] /\ Due(t) \in ChangeSet
  BY <1>1 DEF Due
<1>3. Due(t).doc \in Docs
  BY <1>2 DEF ChangeSet
<1>4. Concerns(t, Due(t).doc)
  BY <1>2 DEF Concerns
<1> QED BY <1>1, <1>2, <1>3, <1>4

\* What a thread that goes on with its own copy may count on.
LEMMA OwnCopy ==
  ASSUME Inv, NEW t \in Threads, pc[t] \in {"read", "staged"}, todo[t] # <<>>
  PROVE  Seen(t) = docs[Due(t).doc] /\ Seen(t) \in S!Contents
<1>1. Due(t).doc \in Docs /\ Concerns(t, Due(t).doc)
  BY DueFacts
<1> QED BY <1>1 DEF Inv, Sound, Holding, Active, Seen, Types

LEMMA BeginStep ==
  ASSUME JournalAssumption, OneProcessOnly, Inv, NEW t \in Threads,
         NEW call \in EveryDay \cup AtStart, Begin(t, call)
  PROVE  Inv' /\ S!Begin(t, call.changes)
<1>1. CallOK(call)
  BY CallsOK
<1>2. Types'
  BY <1>1 DEF Inv, Types, Begin, CallOK
<1>3. Others(t)
  BY DEF Inv, Types, Begin, Others, Has, LocksOf
<1>4. pc'[t] = "called" /\ todo'[t] = call.changes /\ locks'[t] = call.locks /\ guard'[t] = call.guard
  BY DEF Inv, Types, Begin
<1>5. WillHold(t)'
  <2> SUFFICES ASSUME call.guard # "none", NEW d \in Docs, Concerns(t, d)'
               PROVE  \E j \in 1..Len(call.locks) : call.locks[j] = LockOf(d)
    BY <1>4 DEF WillHold
  <2>1. CASE \E i \in 1..Len(call.changes) : call.changes[i].doc = d
    BY <2>1, <1>1 DEF CallOK
  <2>2. CASE call.guard = "answer" /\ d = "pending"
    <3>1. LockOf(d) = "writes"
      BY <2>2 DEF LockOf, JournalAssumption
    <3> QED BY <3>1, <2>2, <1>1 DEF CallOK
  <2> QED BY <2>1, <2>2, <1>4 DEF Concerns
<1>6. Holding(t)' /\ Staged(t)'
  BY <1>4 DEF Holding, Staged, Active
<1>7. Bare(t)'
  BY <1>4, EveryDayLocked DEF Begin, Bare
<1>8. Resting(t)'
  BY <1>4 DEF Begin, Resting, Inv, Sound
<1>9. Shaped(t)'
  BY <1>1, <1>4 DEF Shaped, CallOK, Due
<1>10. Alone'
  <2>1. \A u \in Threads \ {t} : pc'[u] = pc[u]
    BY <1>3 DEF Others
  <2>2. open[ProcessOf[t]] \/ \A u \in Threads : pc[u] = "idle"
    BY DEF Begin, OneProcessOnly
  <2> QED BY <2>1, <2>2 DEF Begin, Alone, Inv, OneProcessOnly
<1>11. ASSUME NEW u \in Threads PROVE Sound(u)'
  BY <1>3, <1>5, <1>6, <1>7, <1>8, <1>9, OthersSound DEF Begin, Sound
<1>12. S!Begin(t, call.changes)
  BY DEF Begin, S!Begin, Inv, Sound, Resting
<1> QED BY <1>2, <1>10, <1>11, <1>12 DEF Inv

LEMMA AcquireStep ==
  ASSUME JournalAssumption, OneProcessOnly, Inv, NEW t \in Threads, Acquire(t)
  PROVE  Inv' /\ UNCHANGED S!vars
<1> DEFINE l == Head(locks[t])
<1>1. /\ locks[t] \in Seq(Locks) /\ l \in Locks /\ pc[t] = "called" /\ locks'[t] = Tail(locks[t])
      /\ Len(Tail(locks[t])) = Len(locks[t]) - 1 /\ l = locks[t][1]
      /\ \A i \in 2..Len(locks[t]) : i - 1 \in 1..Len(Tail(locks[t])) /\ Tail(locks[t])[i - 1] = locks[t][i]
  <2>1. locks[t] \in Seq(Locks) /\ locks[t] # <<>>
    BY DEF Acquire, Inv, Types
  <2>2. pc[t] = "called" /\ locks'[t] = Tail(locks[t])
    BY DEF Acquire, Inv, Types
  <2> QED BY <2>1, <2>2
<1>2. ProcessOf[t] \in Processes
  BY DEF JournalAssumption
<1>3. /\ lock' = [lock EXCEPT ![ProcessOf[t]][l] = t]
      /\ lock[ProcessOf[t]][l] = Nobody
  BY DEF Acquire, LocksOf
<1>4. Types'
  BY <1>1, <1>2, <1>3 DEF Acquire, Inv, Types
<1>5. lock'[ProcessOf[t]][l] = t /\ \A u \in Threads, k \in Locks :
         lock[ProcessOf[u]][k] = u => lock'[ProcessOf[u]][k] = u
  BY <1>1, <1>2, <1>3 DEF Inv, Types, JournalAssumption
<1>6. \A d \in Docs : LockOf(d) \in Locks
  BY DEF LockOf, Docs, Locks
<1>7. Others(t)
  BY <1>5, <1>6 DEF Acquire, Inv, Types, Others, Has, LocksOf
<1>8. WillHold(t)'
  <2> SUFFICES ASSUME guard[t] # "none", NEW d \in Docs, Concerns(t, d)
               PROVE  Has(t, d)' \/ \E i \in 1..Len(locks'[t]) : locks'[t][i] = LockOf(d)
    BY DEF WillHold, Acquire, Concerns
  <2>1. CASE Has(t, d)
    BY <2>1, <1>5, <1>6 DEF Has, LocksOf
  <2>2. CASE LockOf(d) = l
    BY <2>2, <1>5 DEF Has, LocksOf
  <2>3. CASE \E i \in 2..Len(locks[t]) : locks[t][i] = LockOf(d)
    BY <2>3, <1>1
  <2>4. Has(t, d) \/ \E i \in 1..Len(locks[t]) : locks[t][i] = LockOf(d)
    BY <1>1 DEF Inv, Sound, WillHold
  <2> QED BY <2>1, <2>2, <2>3, <2>4, <1>1
<1>9. Holding(t)' /\ Staged(t)' /\ Bare(t)' /\ Resting(t)' /\ Shaped(t)'
  BY <1>1 DEF Acquire, Inv, Sound, Holding, Active, Staged, Bare, Resting, Shaped, Due
<1>10. Inv'
  BY <1>4, <1>7, <1>8, <1>9, Combine DEF Acquire, Still, Sound
<1> QED BY <1>10 DEF Acquire, S!vars

LEMMA ReadStep ==
  ASSUME JournalAssumption, OneProcessOnly, Inv, NEW t \in Threads, Read(t)
  PROVE  Inv' /\ UNCHANGED S!vars
<1>1. /\ pc[t] = "called" /\ pc'[t] = "read" /\ locks[t] = <<>> /\ guard[t] # "append"
      /\ \A d \in Docs : copy'[t][d] = IF \E c \in Range(todo[t]) : c.doc = d THEN docs[d] ELSE Empty
      /\ copy'[t] \in [Docs -> S!Contents]
  BY DEF Read, Inv, Types, Covered, Empty, S!Contents
<1>2. Types'
  BY <1>1 DEF Read, Inv, Types
<1>3. Others(t)
  BY DEF Read, Inv, Types, Others, Has, LocksOf
<1>4. \A d \in Docs : Concerns(t, d) => \E c \in Range(todo[t]) : c.doc = d
  <2> SUFFICES ASSUME NEW d \in Docs, Concerns(t, d) PROVE \E c \in Range(todo[t]) : c.doc = d
    OBVIOUS
  <2>0. todo[t] \in Seq(ChangeSet) /\ DOMAIN todo[t] = 1..Len(todo[t]) /\ todo[t] # <<>>
    BY <1>1 DEF Inv, Types, Sound, Shaped
  <2>1. CASE \E i \in 1..Len(todo[t]) : todo[t][i].doc = d
    BY <2>0, <2>1 DEF Range
  <2>2. CASE guard[t] = "answer" /\ d = "pending"
    <3>1. Due(t).doc = "pending"
      BY <2>2, <1>1 DEF Inv, Sound, Shaped
    <3>2. Due(t) = todo[t][1] /\ 1 \in DOMAIN todo[t]
      BY <2>0 DEF Due
    <3> QED BY <3>1, <3>2, <2>2 DEF Range
  <2> QED BY <2>1, <2>2 DEF Concerns
<1>5. Holding(t)'
  <2> SUFFICES ASSUME NEW d \in Docs, Concerns(t, d)
               PROVE  (guard[t] # "none" => Has(t, d)) /\ copy'[t][d] = docs[d]
    BY DEF Holding, Read, Concerns, Has, LocksOf
  <2>1. guard[t] # "none" => Has(t, d)
    BY <1>1 DEF Inv, Sound, WillHold
  <2> QED BY <2>1, <1>1, <1>4
<1>6. WillHold(t)' /\ Staged(t)' /\ Bare(t)' /\ Resting(t)' /\ Shaped(t)'
  BY <1>1 DEF Read, Inv, Sound, WillHold, Staged, Bare, Resting, Shaped
<1>7. Inv'
  BY <1>1, <1>2, <1>3, <1>5, <1>6, Combine DEF Read, Still, Sound, Inv, Types
<1> QED BY <1>7 DEF Read, S!vars

\* A call that goes on with the rest of its changes is about no more documents than before.
LEMMA TailSound ==
  ASSUME Inv, NEW t \in Threads, todo[t] # <<>>, todo'[t] = Tail(todo[t]), guard'[t] = guard[t]
  PROVE  /\ \A d \in Docs : Concerns(t, d)' => Concerns(t, d)
         /\ pc'[t] = "read" => Shaped(t)'
<1>1. \A i \in 1..Len(todo'[t]) : i + 1 \in 1..Len(todo[t]) /\ todo'[t][i] = todo[t][i + 1]
  BY DueFacts
<1>2. \A d \in Docs : Concerns(t, d)' => Concerns(t, d)
  BY <1>1 DEF Concerns
<1>3. pc'[t] = "read" => Shaped(t)'
  BY <1>1 DEF Shaped, Inv, Sound
<1> QED BY <1>2, <1>3

LEMMA DeclineStep ==
  ASSUME JournalAssumption, OneProcessOnly, Inv, NEW t \in Threads, Decline(t)
  PROVE  Inv' /\ S!Decline(t)
<1>1. pc[t] = "read" /\ todo[t] # <<>> /\ todo'[t] = <<>>
  BY DEF Decline, Ready, Inv, Types
<1>2. Types' /\ Others(t)
  BY <1>1 DEF Decline, Inv, Types, Others, Has, LocksOf
<1>3. Sound(t)'
  BY <1>1 DEF Decline, Inv, Sound, WillHold, Holding, Active, Staged, Bare, Resting, Shaped
<1>4. Inv'
  BY <1>2, <1>3, Combine DEF Decline, Still
<1> QED BY <1>1, <1>4 DEF Decline, S!Decline

LEMMA SkipStep ==
  ASSUME JournalAssumption, OneProcessOnly, Inv, NEW t \in Threads, Skip(t)
  PROVE  Inv' /\ S!Skip(t)
<1>1. pc[t] = "read" /\ todo[t] # <<>> /\ todo'[t] = Tail(todo[t]) /\ ~S!Matches(Due(t), Seen(t))
  BY DEF Skip, Inv, Types
<1>2. Types' /\ Others(t)
  BY <1>1, DueFacts DEF Skip, Inv, Types, Others, Has, LocksOf
<1>3. \A d \in Docs : Concerns(t, d)' => Concerns(t, d)
  BY <1>1, TailSound DEF Skip
<1>4. Holding(t)'
  BY <1>1, <1>3 DEF Skip, Inv, Sound, Holding, Active, Has, LocksOf
<1>5. WillHold(t)' /\ Staged(t)' /\ Bare(t)' /\ Resting(t)' /\ Shaped(t)'
  BY <1>1, TailSound DEF Skip, Inv, Sound, WillHold, Staged, Bare, Resting
<1>6. Inv'
  BY <1>2, <1>4, <1>5, Combine DEF Skip, Still, Sound
<1> QED BY <1>1, <1>6, OwnCopy DEF Skip, S!Skip, Due

\* Nobody else is about the document a thread may write.
LEMMA Mine ==
  ASSUME JournalAssumption, OneProcessOnly, Inv, NEW t \in Threads, NEW d \in Docs,
         pc[t] # "idle", guard[t] # "none" => Has(t, d)
  PROVE  \A u \in Threads \ {t}, e \in Docs : Active(u) /\ Concerns(u, e) => e # d
  BY Apart

LEMMA StageStep ==
  ASSUME JournalAssumption, OneProcessOnly, Inv, NEW t \in Threads, Stage(t)
  PROVE  Inv' /\ UNCHANGED S!vars
<1> DEFINE d == Due(t).doc
<1>1. pc[t] = "read" /\ todo[t] # <<>> /\ pc'[t] = "staged" /\ S!Matches(Due(t), Seen(t)) /\ Active(t)
  BY DEF Stage, Ready, Inv, Types, Active
<1>2. Due(t) \in ChangeSet /\ d \in Docs /\ Concerns(t, d) /\ Seen(t) = docs[d] /\ Seen(t) \in S!Contents
  BY <1>1, DueFacts, OwnCopy
<1>3. guard[t] # "none" => Has(t, d)
  BY <1>1, <1>2 DEF Inv, Sound, Holding
<1>4. S!Effect(Due(t), Seen(t)) \in S!Contents
  BY <1>2, EffectType
<1>5. /\ staging' = [staging EXCEPT ![d] = S!Effect(Due(t), Seen(t))]
      /\ staging'[d] = S!Effect(Due(t), docs[d])
      /\ \A e \in Docs : e # d => staging'[e] = staging[e]
  BY <1>2 DEF Stage, Inv, Types
<1>6. Types'
  <2>1. staging' \in [Docs -> S!Contents \cup {Absent}]
    <3> HIDE DEF d
    <3> QED BY <1>2, <1>4, <1>5 DEF Inv, Types
  <2>2. pc' \in [Threads -> {"idle", "called", "read", "staged"}]
    BY DEF Stage, Inv, Types
  <2> QED BY <2>1, <2>2 DEF Stage, Inv, Types
<1>7. \A u \in Threads \ {t}, e \in Docs : Active(u) /\ Concerns(u, e) => e # d
  BY <1>1, <1>2, <1>3, Mine
<1>8. Others(t)
  BY <1>5, <1>7 DEF Stage, Inv, Types, Others, Has, LocksOf
<1>9. Staged(t)'
  <2>1. todo' = todo /\ docs' = docs /\ S!Matches(Due(t), docs[d])
    BY <1>1, <1>2 DEF Stage
  <2> QED BY <1>1, <1>5, <2>1 DEF Staged, Due, S!Effect, S!Matches
<1>10. Holding(t)'
  BY <1>1 DEF Stage, Inv, Sound, Holding, Active, Has, LocksOf, Concerns
<1>11. WillHold(t)' /\ Bare(t)' /\ Resting(t)' /\ Shaped(t)'
  BY <1>1 DEF Stage, Inv, Sound, WillHold, Bare, Resting, Shaped
<1>12. Inv'
  BY <1>1, <1>6, <1>8, <1>9, <1>10, <1>11, Combine DEF Stage, Still, Sound, Inv, Types
<1> QED BY <1>12 DEF Stage, S!vars

LEMMA RenameStep ==
  ASSUME JournalAssumption, OneProcessOnly, Inv, NEW t \in Threads, Rename(t)
  PROVE  Inv' /\ S!Apply(t)
<1> DEFINE d == Due(t).doc
           e == S!Effect(Due(t), docs[d])
<1>1. pc[t] = "staged" /\ todo[t] # <<>> /\ pc'[t] = "read" /\ todo'[t] = Tail(todo[t]) /\ Active(t)
  BY DEF Rename, Inv, Types, Sound, Staged, Active
<1>2. Due(t) \in ChangeSet /\ d \in Docs /\ Concerns(t, d) /\ Seen(t) = docs[d] /\ docs[d] \in S!Contents
  BY <1>1, DueFacts, OwnCopy
<1>3. guard[t] # "none" => Has(t, d)
  BY <1>1, <1>2 DEF Inv, Sound, Holding
<1>4. e \in S!Contents /\ staging[d] = e /\ S!Matches(Due(t), docs[d])
  BY <1>1, <1>2, EffectType DEF Inv, Sound, Staged
<1>5. /\ docs' = [docs EXCEPT ![d] = e]
      /\ staging' = [staging EXCEPT ![d] = Absent]
      /\ copy' = [copy EXCEPT ![t][d] = e]
  BY <1>2, <1>4 DEF Rename
<1> HIDE DEF d, e
<1>6. /\ docs'[d] = e /\ copy'[t][d] = e
      /\ \A x \in Docs : x # d => docs'[x] = docs[x] /\ staging'[x] = staging[x] /\ copy'[t][x] = copy[t][x]
      /\ \A u \in Threads : u # t => copy'[u] = copy[u]
  BY <1>2, <1>5 DEF Inv, Types
<1>7. docs' \in [Docs -> S!Contents] /\ staging' \in [Docs -> S!Contents \cup {Absent}]
        /\ copy' \in [Threads -> [Docs -> S!Contents]]
  BY <1>2, <1>4, <1>5 DEF Inv, Types
<1>8. Types'
  BY <1>1, <1>7, DueFacts DEF Rename, Inv, Types
<1>9. \A u \in Threads \ {t}, x \in Docs : Active(u) /\ Concerns(u, x) => x # d
  BY <1>1, <1>2, <1>3, Mine
<1>10. Others(t)
  BY <1>6, <1>9 DEF Rename, Inv, Types, Others, Has, LocksOf
<1>11. \A x \in Docs : Concerns(t, x)' => Concerns(t, x)
  BY <1>1, TailSound DEF Rename
<1>12. Holding(t)'
  <2> SUFFICES ASSUME NEW x \in Docs, Concerns(t, x)
               PROVE  (guard[t] # "none" => Has(t, x)) /\ copy'[t][x] = docs'[x]
    BY <1>11 DEF Holding, Rename, Has, LocksOf
  <2>1. (guard[t] # "none" => Has(t, x)) /\ copy[t][x] = docs[x]
    BY <1>1 DEF Inv, Sound, Holding
  <2> QED BY <2>1, <1>6
<1>13. WillHold(t)' /\ Staged(t)' /\ Bare(t)' /\ Resting(t)' /\ Shaped(t)'
  BY <1>1, TailSound DEF Rename, Inv, Sound, WillHold, Staged, Bare, Resting
<1>14. Inv'
  BY <1>1, <1>8, <1>10, <1>12, <1>13, Combine DEF Rename, Still, Sound, Inv, Types
<1>15. S!Apply(t)
  <2>1. Head(todo[t]) = Due(t)
    BY DEF Due
  <2>2. docs' = [docs EXCEPT ![Due(t).doc] = S!Effect(Due(t), docs[Due(t).doc])]
    BY <1>5 DEF d, e
  <2>3. S!Matches(Due(t), docs[Due(t).doc])
    BY <1>4 DEF d
  <2> QED BY <1>1, <2>1, <2>2, <2>3 DEF S!Apply, Rename
<1> QED BY <1>14, <1>15

LEMMA AppendStep ==
  ASSUME JournalAssumption, OneProcessOnly, Inv, NEW t \in Threads, AppendLine(t)
  PROVE  Inv' /\ S!Apply(t)
<1> DEFINE d == Due(t).doc
           e == S!Effect(Due(t), docs[d])
<1>1. /\ pc[t] = "called" /\ guard[t] = "append" /\ locks[t] = <<>> /\ todo[t] # <<>>
      /\ pc'[t] = "read" /\ todo'[t] = <<>> /\ todo'[t] = Tail(todo[t])
      /\ Due(t).how = "put" /\ Due(t).keys # {}
  BY DEF AppendLine, Covered, Inv, Types, Sound, Shaped
<1>2. Due(t) \in ChangeSet /\ d \in Docs /\ Concerns(t, d) /\ docs[d] \in S!Contents
  BY <1>1, DueFacts DEF Inv, Types
<1>3. Has(t, d)
  BY <1>1, <1>2 DEF Inv, Sound, WillHold
<1>4. e \in S!Contents /\ S!Matches(Due(t), docs[d])
  BY <1>1, <1>2, EffectType DEF S!Matches, S!Touches
<1>5. docs' = [docs EXCEPT ![d] = e]
  BY DEF AppendLine
<1> HIDE DEF d, e
<1>6. docs' \in [Docs -> S!Contents] /\ \A x \in Docs : x # d => docs'[x] = docs[x]
  BY <1>2, <1>4, <1>5 DEF Inv, Types
<1>7. Types'
  BY <1>1, <1>6, DueFacts DEF AppendLine, Inv, Types
<1>8. \A u \in Threads \ {t}, x \in Docs : Active(u) /\ Concerns(u, x) => x # d
  BY <1>1, <1>2, <1>3, Mine
<1>9. Others(t)
  BY <1>6, <1>8 DEF AppendLine, Inv, Types, Others, Has, LocksOf
<1>10. WillHold(t)' /\ Holding(t)' /\ Staged(t)' /\ Bare(t)' /\ Resting(t)' /\ Shaped(t)'
  BY <1>1 DEF AppendLine, Inv, Sound, WillHold, Holding, Active, Staged, Bare, Resting, Shaped
<1>11. Inv'
  BY <1>1, <1>7, <1>9, <1>10, Combine DEF AppendLine, Still, Sound, Inv, Types
<1>12. S!Apply(t)
  <2>1. Head(todo[t]) = Due(t)
    BY DEF Due
  <2>2. docs' = [docs EXCEPT ![Due(t).doc] = S!Effect(Due(t), docs[Due(t).doc])]
    BY <1>5 DEF d, e
  <2>3. S!Matches(Due(t), docs[Due(t).doc])
    BY <1>4 DEF d
  <2> QED BY <1>1, <2>1, <2>2, <2>3 DEF S!Apply, AppendLine
<1> QED BY <1>11, <1>12

LEMMA WriteFailsStep ==
  ASSUME JournalAssumption, OneProcessOnly, Inv, NEW t \in Threads, WriteFails(t)
  PROVE  Inv' /\ \E rest \in {<<>>} \cup {TakeBack(f) : f \in Continuations} : S!Fail(t, rest)
<1>1. pc[t] = "staged" /\ todo[t] # <<>> /\ pc'[t] = "read" /\ todo'[t] = Rest(t) /\ Active(t)
  BY DEF WriteFails, Inv, Types, Sound, Staged, Active
<1>2. Rest(t) = <<>> \/ (guard[t] = "answer" /\ \E f \in Continuations : Rest(t) = TakeBack(f))
  <2>1. guard[t] = "answer" /\ Due(t).how = "close" => Due(t).val \in Continuations
    <3>1. Due(t) = todo[t][1] /\ 1 \in 1..Len(todo[t])
      BY <1>1, DueFacts DEF Inv, Types
    <3> QED BY <3>1 DEF Inv, Sound, Shaped
  <2> QED BY <2>1 DEF Rest
<1>3. ASSUME NEW f \in Continuations
      PROVE  /\ TakeBack(f) \in Seq(ChangeSet) /\ Len(TakeBack(f)) = 1
             /\ TakeBack(f)[1].doc = "pending" /\ TakeBack(f)[1].how = "mark"
  <2>1. Change("pending", "mark", {f}, Absent) \in ChangeSet
    BY ChangeTyped DEF Docs, Hows, Keys, Vals, OneProcessOnly
  <2> QED BY <2>1 DEF TakeBack, Change
<1>4. Types'
  <2>0. <<>> \in Seq(ChangeSet)
    OBVIOUS
  <2>1. Rest(t) \in Seq(ChangeSet)
    BY <1>2, <1>3, <2>0, Zenon
  <2>2. todo' \in [Threads -> Seq(ChangeSet)]
    BY <2>1 DEF WriteFails, Inv, Types
  <2> QED BY <2>2 DEF WriteFails, Inv, Types
<1>5. Others(t)
  BY DEF WriteFails, Inv, Types, Others, Has, LocksOf
<1>6. \A d \in Docs : Active(t)' /\ Concerns(t, d)' => Concerns(t, d)
  <2>1. CASE Rest(t) = <<>>
    BY <2>1, <1>1 DEF Active
  <2>2. CASE guard[t] = "answer" /\ \E f \in Continuations : Rest(t) = TakeBack(f)
    BY <2>2, <1>1, <1>3 DEF Concerns, WriteFails
  <2> QED BY <2>1, <2>2, <1>2
<1>7. Holding(t)'
  BY <1>1, <1>6 DEF WriteFails, Inv, Sound, Holding, Active, Has, LocksOf
<1>8. Shaped(t)'
  BY <1>1, <1>2, <1>3 DEF Shaped, WriteFails
<1>9. WillHold(t)' /\ Staged(t)' /\ Bare(t)' /\ Resting(t)'
  BY <1>1 DEF WriteFails, Inv, Sound, WillHold, Staged, Bare, Resting
<1>10. Inv'
  BY <1>1, <1>4, <1>5, <1>7, <1>8, <1>9, Combine DEF WriteFails, Still, Sound, Inv, Types
<1>11. S!Fail(t, Rest(t))
  BY <1>1 DEF WriteFails, S!Fail
<1>12. Rest(t) \in {<<>>} \cup {TakeBack(f) : f \in Continuations}
  BY <1>2
<1> QED BY <1>10, <1>11, <1>12

LEMMA ReturnStep ==
  ASSUME JournalAssumption, OneProcessOnly, Inv, NEW t \in Threads, Return(t)
  PROVE  Inv' /\ S!End(t)
<1>1. pc[t] = "read" /\ todo[t] = <<>> /\ pc'[t] = "idle" /\ todo' = todo /\ told'[t] = "unchanged"
        /\ guard'[t] = "none"
  BY DEF Return, Inv, Types
<1>2. ProcessOf[t] \in Processes
  BY DEF JournalAssumption
<1>3. lock' \in [Processes -> [Locks -> Threads \cup {Nobody}]]
  <2>1. [l \in Locks |-> IF lock[ProcessOf[t]][l] = t THEN Nobody ELSE lock[ProcessOf[t]][l]]
           \in [Locks -> Threads \cup {Nobody}]
    BY <1>2 DEF Inv, Types
  <2> QED BY <1>2, <2>1 DEF Return, Inv, Types
<1>4. [d \in Docs |-> Empty] \in [Docs -> S!Contents]
  BY DEF Empty, S!Contents
<1>5. Types'
  BY <1>3, <1>4 DEF Return, Inv, Types
<1>6. \A u \in Threads \ {t}, l \in Locks : lock[ProcessOf[u]][l] = u => lock'[ProcessOf[u]][l] = u
  <2>1. \A u \in Threads : ProcessOf[u] = ProcessOf[t]
    BY DEF OneProcessOnly
  <2> QED BY <1>2, <2>1 DEF Return, Inv, Types
<1>7. \A d \in Docs : LockOf(d) \in Locks
  BY DEF LockOf, Docs, Locks
<1>8. Others(t)
  BY <1>6, <1>7 DEF Return, Inv, Types, Others, Has, LocksOf
<1>9. Sound(t)'
  BY <1>1 DEF Return, Sound, WillHold, Holding, Active, Staged, Bare, Resting, Shaped
<1>10. Inv'
  BY <1>1, <1>5, <1>8, <1>9, Combine DEF Return, Still, Inv, Types
<1> QED BY <1>1, <1>10 DEF Return, S!End

LEMMA SameSound ==
  ASSUME Inv, NEW t \in Threads, docs' = docs, staging' = staging, pc' = pc, todo' = todo,
         locks' = locks, guard' = guard, copy' = copy, told' = told,
         lock'[ProcessOf[t]] = lock[ProcessOf[t]],
         pc[t] # "idle" => open'[ProcessOf[t]] = open[ProcessOf[t]]
  PROVE  Sound(t)'
<1>1. \A d \in Docs : (Concerns(t, d)' <=> Concerns(t, d)) /\ (Has(t, d)' <=> Has(t, d))
  BY DEF Concerns, Has, LocksOf
<1>2. WillHold(t)'
  BY <1>1 DEF Inv, Sound, WillHold
<1>3. Holding(t)'
  BY <1>1 DEF Inv, Sound, Holding, Active
<1>4. Staged(t)'
  <2>1. Due(t)' = Due(t)
    BY DEF Due
  <2> QED BY <2>1 DEF Inv, Sound, Staged, S!Effect, S!Matches
<1>5. Bare(t)' /\ Resting(t)'
  BY DEF Inv, Sound, Bare, Resting
<1>6. Shaped(t)'
  BY DEF Inv, Sound, Shaped, Due
<1> QED BY <1>2, <1>3, <1>4, <1>5, <1>6 DEF Sound

LEMMA OpenStep ==
  ASSUME JournalAssumption, OneProcessOnly, Inv, NEW p \in Processes, Open(p)
  PROVE  Inv' /\ UNCHANGED S!vars
<1>1. Types'
  BY DEF Open, Inv, Types, callVars
<1>2. \A t \in Threads : pc'[t] # "idle" => open'[ProcessOf[t]] = open[ProcessOf[t]]
  BY DEF Open, Inv, Types, callVars
<1>3. Alone'
  BY <1>2 DEF Open, Inv, Alone, callVars
<1>4. ASSUME NEW t \in Threads PROVE Sound(t)'
  BY <1>2, SameSound DEF Open, callVars
<1> QED BY <1>1, <1>3, <1>4 DEF Inv, Open, callVars, S!vars

LEMMA CrashStep ==
  ASSUME JournalAssumption, OneProcessOnly, Inv, NEW p \in Processes, Crash(p)
  PROVE  Inv' /\ \E T \in SUBSET Threads : S!Vanish(T)
<1> DEFINE gone == {t \in Threads : ProcessOf[t] = p}
<1>1. Types'
  <2>1. [d \in Docs |-> Empty] \in [Docs -> S!Contents] /\ <<>> \in Seq(ChangeSet) /\ <<>> \in Seq(Locks)
    BY DEF Empty, S!Contents
  <2> QED BY <2>1 DEF Crash, Inv, Types
<1>2. ASSUME \A t \in Threads : ProcessOf[t] = p PROVE Inv'
  <2>1. \A t \in Threads : pc'[t] = "idle" /\ todo'[t] = <<>> /\ guard'[t] = "none" /\ told'[t] = "unchanged"
    BY <1>2 DEF Crash
  <2>2. Alone'
    BY <2>1 DEF Alone
  <2>3. ASSUME NEW t \in Threads PROVE Sound(t)'
    BY <2>1 DEF Sound, WillHold, Holding, Active, Staged, Bare, Resting, Shaped
  <2> QED BY <1>1, <2>2, <2>3 DEF Inv
<1>3. ASSUME \A t \in Threads : ProcessOf[t] # p PROVE Inv'
  <2>1. /\ docs' = docs /\ staging' = staging /\ pc' = pc /\ todo' = todo /\ locks' = locks
        /\ guard' = guard /\ copy' = copy /\ told' = told
    BY <1>3 DEF Crash, Inv, Types
  <2>2. \A t \in Threads : open'[ProcessOf[t]] = open[ProcessOf[t]] /\ lock'[ProcessOf[t]] = lock[ProcessOf[t]]
    BY <1>3 DEF Crash, Inv, Types, JournalAssumption
  <2>3. Alone'
    BY <2>1, <2>2 DEF Inv, Alone
  <2>4. ASSUME NEW t \in Threads PROVE Sound(t)'
    BY <2>1, <2>2, SameSound
  <2> QED BY <1>1, <2>3, <2>4 DEF Inv
<1>4. Inv'
  BY <1>2, <1>3 DEF OneProcessOnly
<1>5. S!Vanish(gone)
  BY DEF Crash, S!Vanish
<1> QED BY <1>4, <1>5

---------------------------------------------------------------------------

LEMMA NextStep ==
  ASSUME JournalAssumption, OneProcessOnly, Inv, [Next]_vars
  PROVE  Inv' /\ [S!Next]_(S!vars)
<1>1. CASE \E t \in Threads : \E call \in EveryDay \cup AtStart : Begin(t, call)
  <2> PICK t \in Threads, call \in EveryDay \cup AtStart : Begin(t, call)
    BY <1>1
  <2>1. Inv' /\ S!Begin(t, call.changes)
    BY BeginStep
  <2>2. call.changes \in {c.changes : c \in EveryDay \cup AtStart}
    OBVIOUS
  <2> QED BY <2>1, <2>2 DEF S!Next
<1>2. CASE \E t \in Threads : Acquire(t) \/ Read(t) \/ Stage(t)
  BY <1>2, AcquireStep, ReadStep, StageStep
<1>3. CASE \E t \in Threads : Skip(t) \/ Rename(t) \/ AppendLine(t) \/ Decline(t) \/ Return(t)
  BY <1>3, SkipStep, RenameStep, AppendStep, DeclineStep, ReturnStep DEF S!Next
<1>4. CASE \E t \in Threads : WriteFails(t)
  BY <1>4, WriteFailsStep DEF S!Next
<1>5. CASE \E p \in Processes : Open(p)
  BY <1>5, OpenStep
<1>6. CASE \E p \in Processes : Crash(p)
  BY <1>6, CrashStep DEF S!Next
<1>7. CASE UNCHANGED vars
  <2>1. Inv'
    <3>1. Types' /\ Alone'
      BY <1>7 DEF vars, Inv, Types, Alone
    <3>2. ASSUME NEW t \in Threads PROVE Sound(t)'
      BY <1>7, SameSound DEF vars
    <3> QED BY <3>1, <3>2 DEF Inv
  <2>2. UNCHANGED S!vars
    BY <1>7 DEF vars, S!vars
  <2> QED BY <2>1, <2>2
<1> QED BY <1>1, <1>2, <1>3, <1>4, <1>5, <1>6, <1>7 DEF Next, Step

\* With one process, the files, their locks and their staging neighbours do what Shelf says: no
\* change is lost, and what a call is told is what it did.
THEOREM Refinement == ASSUME OneProcessOnly PROVE Spec => ImplementsShelf
<1> USE JournalAssumption
<1>1. Init => Inv
  BY InitInv
<1>2. Init => S!Init
  BY DEF Init, S!Init
<1>3. Inv /\ [Next]_vars => Inv' /\ [S!Next]_(S!vars)
  BY NextStep
<1> QED BY <1>1, <1>2, <1>3, PTL DEF Spec, ImplementsShelf, S!Spec

\* The documents, staging files, locks and copies keep their types in every run of the program.
THEOREM TypeCorrect == ASSUME OneProcessOnly PROVE Spec => []TypeOK
<1> USE JournalAssumption
<1>1. Init => Inv
  BY InitInv
<1>2. Inv /\ [Next]_vars => Inv'
  BY NextStep
<1>3. Inv => TypeOK
  BY DEF Inv, Types, TypeOK
<1> QED BY <1>1, <1>2, <1>3, PTL DEF Spec

---------------------------------------------------------------------------
(***************************************************************************)
(* What one run asked is continued once.  The case the comment of          *)
(* answer.rs is about: one process, and no second write that fails, since  *)
(* taking a flight back is itself a write whose failure nobody looks at.   *)
(* Nothing was answered yet, and what a run asks is asked before.          *)
(***************************************************************************)
AskedBefore ==
  /\ OneProcessOnly
  /\ MaxFaults \in Nat /\ MaxFaults <= 1
  /\ \A D \in Initial :
       /\ \A f \in Continuations : D["pending"][f] # "waiting"
       /\ \A r \in Runs : \A q \in Asked[r] : D[SegmentOf[q]][q] # Absent

\* The continuations of a run that wait, and what it asked that is open still.
Waiting(D, r) == {f \in Continuations : Continues[f] = r /\ D["pending"][f] = "waiting"}
StillOpen(D, r) == {q \in Asked[r] : D[SegmentOf[q]][q] = "open"}

AllAsked == UNION {Asked[r] : r \in Runs}

\* A change after which no more continuations wait and nothing more is open.
Harmless(c) ==
  /\ c.doc = "pending" => c.val # "waiting" \/ c.keys \cap Continuations = {}
  /\ c.doc \in Segments => c.val # "open" \/ c.keys \cap AllAsked = {}

\* An answer that has queued nothing yet.
Unanswered(t) ==
  /\ guard[t] = "answer"
  /\ \E f \in Continuations : todo[t] = Answer(Continues[f], f).changes

\* One that has, and has to mark what is open still.
Marking(t, f) ==
  /\ \A i \in 1..Len(todo[t]) :
       \E s \in Segments : todo[t][i] = Reply(Continues[f], f, s)
  /\ \A q \in StillOpen(docs, Continues[f]) :
       \E i \in 1..Len(todo[t]) : todo[t][i] = Reply(Continues[f], f, SegmentOf[q])

\* One that could not, and has to take its flight back.
TakingBack(t, f) == todo[t] = TakeBack(f) /\ faults >= 1

Midway(t, f) ==
  /\ guard[t] = "answer" /\ pc[t] \in {"read", "staged"} /\ todo[t] # <<>>
  /\ Marking(t, f) \/ TakingBack(t, f)
  /\ Waiting(docs, Continues[f]) \subseteq {f}

\* A run is not being answered: nothing waits for it, or one flight does and nothing is open.
Settled(r) ==
  \/ Waiting(docs, r) = {}
  \/ /\ StillOpen(docs, r) = {}
     /\ \E f \in Continuations : Waiting(docs, r) \subseteq {f}

\* What the changes a thread has still to make are.
Todo(t) ==
  /\ Unanswered(t) \/ \A i \in 1..Len(todo[t]) : Harmless(todo[t][i])
  /\ pc[t] = "staged" /\ Unanswered(t) => ~Closed(t)

Answered ==
  /\ crashes \in Nat /\ faults \in 0..MaxFaults
  /\ AllAsked \subseteq minted
  /\ \A t \in Threads : Todo(t)
  /\ crashes = 0 => \A r \in Runs :
       Settled(r) \/ \E t \in Threads, f \in Continuations : Continues[f] = r /\ Midway(t, f)

LEMMA Names ==
  ASSUME JournalAssumption, OneProcessOnly
  PROVE  /\ Continuations \subseteq Flights /\ Flights \subseteq Keys /\ Requests \subseteq Keys
         /\ Flights \subseteq Vals /\ "pending" \in Docs /\ Segments \subseteq Docs /\ "pending" \notin Segments
         /\ \A f \in Continuations : Continues[f] \in Runs /\ f \notin {"waiting", "open", "closed"}
         /\ Absent \notin {"waiting", "open", "closed"}
         /\ \A r \in Runs : /\ Asked[r] \subseteq Requests /\ Asked[r] \subseteq AllAsked
                            /\ \A q \in Asked[r] : SegmentOf[q] \in Segments
BY AbsentAssumption DEF JournalAssumption, OneProcessOnly, Keys, Vals, Docs, AllAsked

LEMMA HarmlessEffect ==
  ASSUME JournalAssumption, OneProcessOnly, NEW D \in [Docs -> S!Contents], NEW c \in ChangeSet,
         Harmless(c), NEW r \in Runs,
         NEW E, E = [D EXCEPT ![c.doc] = S!Effect(c, D[c.doc])]
  PROVE  Waiting(E, r) \subseteq Waiting(D, r) /\ StillOpen(E, r) \subseteq StillOpen(D, r)
<1>0. c.doc \in Docs /\ \A d \in Docs : E[d] = IF d = c.doc THEN S!Effect(c, D[d]) ELSE D[d]
  BY DEF ChangeSet
<1>1. ASSUME NEW f \in Continuations, E["pending"][f] = "waiting"
      PROVE  D["pending"][f] = "waiting"
  <2>1. f \in Keys /\ "pending" \in Docs
    BY Names
  <2>2. CASE c.doc # "pending"
    BY <1>0, <1>1, <2>1, <2>2
  <2>3. CASE c.doc = "pending"
    <3>1. E["pending"][f] = IF f \in c.keys /\ S!Touches(c, D["pending"][f]) THEN c.val ELSE D["pending"][f]
      BY <1>0, <2>1, <2>3 DEF S!Effect
    <3>2. c.val # "waiting" \/ f \notin c.keys
      BY <2>3 DEF Harmless
    <3> QED
      BY <1>1, <3>1, <3>2
  <2> QED
    BY <2>2, <2>3
<1>2. ASSUME NEW q \in Asked[r], E[SegmentOf[q]][q] = "open"
      PROVE  D[SegmentOf[q]][q] = "open"
  <2>1. q \in Keys /\ SegmentOf[q] \in Docs /\ SegmentOf[q] \in Segments /\ q \in AllAsked
    BY Names
  <2>2. CASE c.doc # SegmentOf[q]
    BY <1>0, <1>2, <2>1, <2>2
  <2>3. CASE c.doc = SegmentOf[q]
    <3> DEFINE old == D[SegmentOf[q]]
    <3>1. E[SegmentOf[q]][q] = IF q \in c.keys /\ S!Touches(c, old[q]) THEN c.val ELSE old[q]
      BY <1>0, <2>1, <2>3 DEF S!Effect
    <3>2. c.val # "open" \/ q \notin c.keys
      BY <2>1, <2>3 DEF Harmless
    <3> QED
      BY <1>2, <3>1, <3>2
  <2> QED
    BY <2>2, <2>3
<1> QED
  BY <1>1, <1>2 DEF Waiting, StillOpen

LEMMA ReplyIs ==
  ASSUME JournalAssumption, OneProcessOnly, NEW f \in Continuations, NEW s \in Segments
  PROVE  LET c == Reply(Continues[f], f, s) IN
         /\ c.doc = s /\ c.how = "close" /\ c.val = f /\ Harmless(c)
         /\ c.keys = {q \in Asked[Continues[f]] : SegmentOf[q] = s}
BY Names DEF Reply, Change, Harmless

LEMMA TakeBackIs ==
  ASSUME JournalAssumption, OneProcessOnly, NEW f \in Continuations
  PROVE  /\ Len(TakeBack(f)) = 1 /\ TakeBack(f) # <<>> /\ Tail(TakeBack(f)) = <<>>
         /\ TakeBack(f)[1] = Head(TakeBack(f))
         /\ LET c == Head(TakeBack(f)) IN
            /\ c.doc = "pending" /\ c.how = "mark" /\ c.keys = {f} /\ c.val = Absent /\ Harmless(c)
BY Names DEF TakeBack, Change, Harmless, JournalAssumption

LEMMA AnswerIs ==
  ASSUME JournalAssumption, OneProcessOnly, NEW f \in Continuations
  PROVE  LET cs == Answer(Continues[f], f).changes IN
         /\ cs # <<>> /\ Head(cs) = Change("pending", "put", {f}, "waiting")
         /\ \A i \in 1..Len(Tail(cs)) :
              /\ Tail(cs)[i] = cs[i + 1] /\ i + 1 \in 2..Len(cs)
              /\ \E s \in Segments : Tail(cs)[i] = Reply(Continues[f], f, s)
         /\ \A i \in 2..Len(cs) : \E s \in Segments : cs[i] = Reply(Continues[f], f, s)
         /\ \A q \in Asked[Continues[f]] :
              \E i \in 1..Len(Tail(cs)) : Tail(cs)[i] = Reply(Continues[f], f, SegmentOf[q])
<1> DEFINE r == Continues[f]
           days == SegmentsOf[r]
           first == <<Change("pending", "put", {f}, "waiting")>>
           rest == [i \in 1..Len(days) |-> Reply(r, f, days[i])]
           cs == Answer(r, f).changes
<1>1. days \in Seq(Segments) /\ r \in Runs
  BY Names DEF JournalAssumption
<1>2. cs = first \o rest
  BY DEF Answer
<1>3. /\ Len(rest) = Len(days) /\ \A i \in 1..Len(days) : rest[i] = Reply(r, f, days[i])
      /\ rest \in Seq(ChangeSet)
  <2>1. Len(days) \in Nat /\ \A i \in 1..Len(days) : days[i] \in Segments
    BY <1>1
  <2>2. \A s \in Segments : Reply(r, f, s) \in ChangeSet
    <3> SUFFICES ASSUME NEW s \in Segments PROVE Reply(r, f, s) \in ChangeSet
      OBVIOUS
    <3>1. {q \in Asked[r] : SegmentOf[q] = s} \in SUBSET Keys
      BY Names, <1>1
    <3> QED
      BY <3>1, ChangeTyped, Names DEF Reply, Hows, Change
  <2> HIDE DEF days
  <2>3. \A i \in 1..Len(days) : Reply(r, f, days[i]) \in ChangeSet
    BY <2>1, <2>2
  <2> QED
    BY <2>1, <2>3
<1> HIDE DEF days, rest
<1>4. /\ cs # <<>> /\ Head(cs) = Change("pending", "put", {f}, "waiting")
      /\ Len(cs) = 1 + Len(days) /\ \A i \in 1..Len(days) : cs[i + 1] = rest[i]
  BY <1>1, <1>2, <1>3
<1>5. Len(Tail(cs)) = Len(days) /\ \A i \in 1..Len(days) : Tail(cs)[i] = rest[i]
  BY <1>1, <1>2, <1>3
<1>6. \A i \in 1..Len(days) : days[i] \in Segments
  BY <1>1
<1>7. \A q \in Asked[r] : \E i \in 1..Len(days) : days[i] = SegmentOf[q]
  <2>1. Range(days) = {SegmentOf[q] : q \in Asked[r]}
    BY <1>1 DEF JournalAssumption, days
  <2>2. DOMAIN days = 1..Len(days)
    BY <1>1
  <2>3. ASSUME NEW q \in Asked[r] PROVE \E i \in 1..Len(days) : days[i] = SegmentOf[q]
    <3>1. SegmentOf[q] \in {days[x] : x \in DOMAIN days}
      BY <2>1 DEF Range
    <3> QED
      BY <2>2, <3>1
  <2> QED
    BY <2>3
<1>8. \A i \in 2..Len(cs) : i - 1 \in 1..Len(days) /\ cs[i] = rest[i - 1]
  <2> SUFFICES ASSUME NEW i \in 2..Len(cs) PROVE i - 1 \in 1..Len(days) /\ cs[i] = rest[i - 1]
    OBVIOUS
  <2>1. i - 1 \in 1..Len(days) /\ (i - 1) + 1 = i
    BY <1>1, <1>4
  <2> QED
    BY <1>4, <2>1
<1> HIDE DEF cs
<1>9. \A i \in 2..Len(cs) : \E s \in Segments : cs[i] = Reply(r, f, s)
  BY <1>3, <1>6, <1>8
<1>10. \A i \in 1..Len(Tail(cs)) : /\ Tail(cs)[i] = cs[i + 1] /\ i + 1 \in 2..Len(cs)
                                  /\ \E s \in Segments : Tail(cs)[i] = Reply(r, f, s)
  BY <1>1, <1>3, <1>4, <1>5, <1>6
<1>11. \A q \in Asked[r] : \E i \in 1..Len(Tail(cs)) : Tail(cs)[i] = Reply(r, f, SegmentOf[q])
  BY <1>3, <1>5, <1>7
<1> QED
  BY <1>4, <1>9, <1>10, <1>11 DEF cs

LEMMA LockedHarmless ==
  ASSUME NEW c, Harmless(c)
  PROVE  \A i \in 1..Len(Locked(c).changes) : Harmless(Locked(c).changes[i])
<1>1. Locked(c).changes = <<c>> /\ Len(<<c>>) = 1 /\ <<c>>[1] = c
  BY DEF Locked
<1>2. \A i \in 1..1 : i = 1
  OBVIOUS
<1> HIDE DEF Harmless
<1> QED
  BY <1>1, <1>2

\* A call other than an answer asks nothing anew that a run asked, and starts no continuation.
LEMMA CallsHarmless ==
  ASSUME JournalAssumption, OneProcessOnly, NEW call \in EveryDay \cup AtStart,
         New(call) \cap AllAsked = {}
  PROVE  \/ \E f \in Continuations : call = Answer(Continues[f], f)
         \/ \A i \in 1..Len(call.changes) : Harmless(call.changes[i])
<1> DEFINE Good(x) == \A i \in 1..Len(x.changes) : Harmless(x.changes[i])
<1>0. \A c : Harmless(c) => Good(Locked(c))
  BY LockedHarmless
<1> HIDE DEF Good
<1>1. ASSUME NEW d \in Docs, NEW h, NEW ks, NEW v, d \notin {"pending"} \cup Segments
      PROVE  Good(Locked(Change(d, h, ks, v)))
  <2>1. Harmless(Change(d, h, ks, v))
    BY <1>1 DEF Harmless, Change
  <2> QED
    BY <1>0, <2>1
<1>2. /\ {"layovers", "dismissed", "switched-off", "learnings"} \subseteq Docs
      /\ \A d \in {"layovers", "dismissed", "switched-off", "learnings"} : d \notin {"pending"} \cup Segments
  BY DEF Docs, JournalAssumption
<1>3. ASSUME call \in QueueCalls PROVE Good(call)
  <2>1. ASSUME NEW f \in Flights \ Continuations PROVE Good(Queue(f))
    <3>1. Harmless(Change("pending", "put", {f}, "waiting"))
      BY Names, <2>1 DEF Harmless, Change
    <3> QED
      BY <3>1, <1>0 DEF Queue
  <2>2. ASSUME NEW f \in Flights PROVE Good(Unqueue(f))
    <3>1. Harmless(Change("pending", "mark", {f}, Absent))
      BY Names DEF Harmless, Change, JournalAssumption
    <3> QED
      BY <3>1, <1>0 DEF Unqueue
  <2> QED
    BY <1>3, <2>1, <2>2 DEF QueueCalls
<1>4. ASSUME call \in LayoverCalls \cup DismissCalls \cup UndismissCalls \cup SwitchCalls \cup LearningCalls \cup AtStart
      PROVE  Good(call)
  <2>1. \A x : Good(Book(x)) /\ Good(Amend(x)) /\ Good(Undismiss(x)) /\ Good(SwitchOff(x)) /\ Good(SwitchOn(x))
               /\ Good(Learn(x)) /\ Good(ForgetDismissals(x)) /\ Good(ForgetLapsed(x))
    BY <1>1, <1>2 DEF Book, Amend, Undismiss, SwitchOff, SwitchOn, Learn, ForgetDismissals, ForgetLapsed
  <2>2. \A x, y : Good(Dismiss(x, y))
    BY <1>1, <1>2 DEF Dismiss
  <2>3. \A x : Good(Sweep(x))
    <3> SUFFICES ASSUME NEW x PROVE Good(Sweep(x))
      OBVIOUS
    <3>1. Sweep(x).changes = Locked(Change("layovers", "sweep", x, Absent)).changes
      BY DEF Sweep, Locked
    <3>2. Good(Locked(Change("layovers", "sweep", x, Absent)))
      BY <1>1, <1>2
    <3> QED
      BY <3>1, <3>2 DEF Good
  <2>4. \A c \in LayoverCalls : Good(c)
    BY <2>1 DEF LayoverCalls
  <2>5. (\A c \in DismissCalls : Good(c)) /\ (\A c \in UndismissCalls : Good(c))
    BY <2>1, <2>2 DEF DismissCalls, UndismissCalls
  <2>6. (\A c \in SwitchCalls : Good(c)) /\ (\A c \in LearningCalls : Good(c))
    BY <2>1 DEF SwitchCalls, LearningCalls
  <2>7. \A c \in AtStart : Good(c)
    BY <2>1, <2>3, Zenon DEF AtStart
  <2> QED
    BY <1>4, <2>4, <2>5, <2>6, <2>7
<1>5. ASSUME call \in HelpCalls PROVE Good(call)
  <2>1. ASSUME NEW s \in Segments, NEW qs PROVE Good(Resolve(s, qs))
    <3>1. Harmless(Change(s, "close", qs, "closed"))
      BY Names DEF Harmless, Change
    <3> QED
      BY <3>1, <1>0 DEF Resolve
  <2>2. ASSUME NEW q \in Requests, call = Ask(q) PROVE Good(call)
    <3> DEFINE c == Change(SegmentOf[q], "put", {q}, "open")
    <3>1. call.changes = <<c>> /\ c.how = "put" /\ c.keys = {q} /\ c.val = "open" /\ c.doc = SegmentOf[q]
      BY <2>2 DEF Ask, Change
    <3> HIDE DEF c
    <3>2. c \in Range(call.changes)
      <4>1. DOMAIN <<c>> = {1} /\ <<c>>[1] = c
        OBVIOUS
      <4> QED
        BY <3>1, <4>1 DEF Range
    <3>3. q \in New(call)
      BY <3>1, <3>2 DEF New
    <3>4. Harmless(c)
      BY <3>1, <3>3, Names DEF Harmless, JournalAssumption
    <3>5. call.changes = Locked(c).changes
      BY <3>1 DEF Locked
    <3> QED
      BY <3>4, <3>5, <1>0 DEF Good
  <2>3. \A q \in Requests : SegmentOf[q] \in Segments
    BY DEF JournalAssumption
  <2>4. \A q \in Requests : Good(Resolve(SegmentOf[q], {q}))
    BY <2>1, <2>3
  <2>5. call \in {Ask(q) : q \in Requests} \/ call \in {Resolve(SegmentOf[q], {q}) : q \in Requests}
    BY <1>5 DEF HelpCalls
  <2>6. CASE call \in {Ask(q) : q \in Requests}
    BY <2>2, <2>6
  <2>7. CASE call \in {Resolve(SegmentOf[q], {q}) : q \in Requests}
    BY <2>4, <2>7, Zenon
  <2> QED
    BY <2>5, <2>6, <2>7
<1>6. ASSUME call \in AnswerCalls PROVE \E f \in Continuations : call = Answer(Continues[f], f)
  BY <1>6 DEF AnswerCalls
<1>7. call \notin JudgeCalls
  BY DEF JudgeCalls, OneProcessOnly
<1>8. Good(call) \/ \E f \in Continuations : call = Answer(Continues[f], f)
  BY <1>3, <1>4, <1>5, <1>6, <1>7 DEF EveryDay
<1> QED
  BY <1>8 DEF Good

---------------------------------------------------------------------------

\* The other threads are where they were.
Apace(t) ==
  \A u \in Threads \ {t} :
    pc'[u] = pc[u] /\ todo'[u] = todo[u] /\ guard'[u] = guard[u] /\ copy'[u] = copy[u]

\* No more continuations wait and nothing more is open.
ShrinksFor(r) ==
  Waiting(docs', r) \subseteq Waiting(docs, r) /\ StillOpen(docs', r) \subseteq StillOpen(docs, r)

Shrinks == \A r \in Runs : ShrinksFor(r)

LEMMA MidwayStays ==
  ASSUME NEW u \in Threads, NEW f \in Continuations, ShrinksFor(Continues[f]), Midway(u, f),
         pc'[u] \in {"read", "staged"}, todo'[u] = todo[u], guard'[u] = guard[u],
         faults \in Nat, faults' \in Nat, faults' >= faults
  PROVE  Midway(u, f)'
<1>1. Waiting(docs', Continues[f]) \subseteq Waiting(docs, Continues[f])
      /\ StillOpen(docs', Continues[f]) \subseteq StillOpen(docs, Continues[f])
  BY DEF ShrinksFor
<1>2. Marking(u, f) => Marking(u, f)'
  BY <1>1 DEF Marking
<1>3. TakingBack(u, f) => TakingBack(u, f)'
  BY DEF TakingBack
<1> QED
  BY <1>1, <1>2, <1>3 DEF Midway

LEMMA SettledStays ==
  ASSUME NEW r \in Runs, ShrinksFor(r), Settled(r)
  PROVE  Settled(r)'
BY DEF ShrinksFor, Settled

LEMMA TodoStays ==
  ASSUME NEW u \in Threads, Todo(u), pc'[u] = pc[u] \/ pc'[u] # "staged", todo'[u] = todo[u],
         guard'[u] = guard[u], copy'[u] = copy[u]
  PROVE  Todo(u)'
<1>1. Unanswered(u)' <=> Unanswered(u)
  BY DEF Unanswered
<1>2. Closed(u)' <=> Closed(u)
  BY DEF Closed, Unqueued, Due, S!Matches
<1> QED
  BY <1>1, <1>2 DEF Todo

LEMMA AnsweredStays ==
  ASSUME JournalAssumption, AskedBefore, Answered, Shrinks, NEW t \in Threads, Apace(t),
         crashes' = crashes, faults' \in 0..MaxFaults, faults' >= faults, minted \subseteq minted',
         Todo(t)',
         \A f \in Continuations : Midway(t, f) => Midway(t, f)' \/ Settled(Continues[f])'
  PROVE  Answered'
<1>0. faults \in Nat /\ faults' \in Nat /\ \A f \in Continuations : Continues[f] \in Runs
  BY Names DEF Answered, AskedBefore
<1>1. ASSUME NEW u \in Threads PROVE Todo(u)'
  <2>1. CASE u = t
    BY <2>1
  <2>2. CASE u # t
    BY <2>2, TodoStays DEF Apace, Answered
  <2> QED
    BY <2>1, <2>2
<1>2. ASSUME crashes = 0, NEW r \in Runs
      PROVE  Settled(r)' \/ \E u \in Threads, f \in Continuations : Continues[f] = r /\ Midway(u, f)'
  <2>1. CASE Settled(r)
    BY <2>1, SettledStays DEF Shrinks
  <2>2. ASSUME NEW u \in Threads, NEW f \in Continuations, Continues[f] = r, Midway(u, f)
        PROVE  Settled(r)' \/ Midway(u, f)'
    <3>1. CASE u = t
      BY <2>2, <3>1
    <3>2. CASE u # t
      <4>1. pc'[u] = pc[u] /\ todo'[u] = todo[u] /\ guard'[u] = guard[u]
        BY <3>2 DEF Apace
      <4>2. pc'[u] \in {"read", "staged"}
        BY <4>1, <2>2 DEF Midway
      <4> QED
        BY <4>1, <4>2, <2>2, <1>0, MidwayStays DEF Shrinks
    <3> QED
      BY <3>1, <3>2
  <2> QED
    BY <1>2, <2>1, <2>2 DEF Answered
<1>3. AllAsked' = AllAsked
  BY DEF AllAsked
<1> QED
  BY <1>1, <1>2, <1>3 DEF Answered

\* A change is made to the document as it stands, or finds nothing there to change.
Makes(t) ==
  \/ docs' = docs /\ ~S!Matches(Due(t), docs[Due(t).doc])
  \/ docs' = [docs EXCEPT ![Due(t).doc] = S!Effect(Due(t), docs[Due(t).doc])]

LEMMA MakesShrinks ==
  ASSUME JournalAssumption, OneProcessOnly, Inv, NEW t \in Threads, todo[t] # <<>>, Makes(t),
         Harmless(Due(t))
  PROVE  Shrinks
<1>1. Due(t) \in ChangeSet /\ docs \in [Docs -> S!Contents]
  BY DueFacts DEF Inv, Types
<1>2. CASE docs' = docs
  BY <1>2 DEF Shrinks, ShrinksFor
<1>3. CASE docs' = [docs EXCEPT ![Due(t).doc] = S!Effect(Due(t), docs[Due(t).doc])]
  BY <1>1, <1>3, HarmlessEffect DEF Shrinks, ShrinksFor
<1> QED
  BY <1>2, <1>3 DEF Makes

\* What an answer has still to mark becomes less, and when it is nothing its run is settled.
LEMMA MarkingNext ==
  ASSUME JournalAssumption, OneProcessOnly, Inv, NEW t \in Threads, NEW f \in Continuations,
         Midway(t, f), Marking(t, f), Makes(t), Shrinks,
         todo'[t] = Tail(todo[t]), guard'[t] = guard[t], pc'[t] = "read"
  PROVE  Midway(t, f)' \/ Settled(Continues[f])'
<1> DEFINE r == Continues[f]
<1>0. todo[t] # <<>> /\ r \in Runs /\ guard[t] = "answer"
  BY Names DEF Midway
<1>1. /\ Due(t) = todo[t][1] /\ Due(t) \in ChangeSet /\ todo[t] \in Seq(ChangeSet)
      /\ Len(Tail(todo[t])) = Len(todo[t]) - 1 /\ Len(todo[t]) \in Nat /\ Len(todo[t]) >= 1
      /\ \A i \in 1..Len(Tail(todo[t])) : i + 1 \in 1..Len(todo[t]) /\ Tail(todo[t])[i] = todo[t][i + 1]
  BY <1>0, DueFacts DEF Inv, Types
<1>2. ASSUME NEW q \in StillOpen(docs', r) PROVE Due(t) # Reply(r, f, SegmentOf[q])
  <2>1. SUFFICES ASSUME Due(t) = Reply(r, f, SegmentOf[q]) PROVE FALSE
    OBVIOUS
  <2>2. q \in Asked[r] /\ docs'[SegmentOf[q]][q] = "open"
    BY <1>2 DEF StillOpen
  <2>3. q \in Keys /\ SegmentOf[q] \in Segments /\ SegmentOf[q] \in Docs
    BY <1>0, <2>2, Names
  <2>4. Due(t).doc = SegmentOf[q] /\ Due(t).how = "close" /\ q \in Due(t).keys /\ Due(t).val = f
    BY <2>1, <2>2, <2>3, ReplyIs
  <2>5. f # "open"
    BY Names
  <2>6. CASE docs' = docs /\ ~S!Matches(Due(t), docs[Due(t).doc])
    BY <2>2, <2>4, <2>6 DEF S!Matches, S!Touches
  <2>7. CASE docs' = [docs EXCEPT ![Due(t).doc] = S!Effect(Due(t), docs[Due(t).doc])]
    <3>1. docs'[SegmentOf[q]] = S!Effect(Due(t), docs[SegmentOf[q]])
      BY <2>3, <2>4, <2>7 DEF Inv, Types
    <3>2. docs'[SegmentOf[q]][q] =
            IF q \in Due(t).keys /\ S!Touches(Due(t), docs[SegmentOf[q]][q]) THEN Due(t).val ELSE docs[SegmentOf[q]][q]
      BY <2>3, <3>1 DEF S!Effect
    <3> QED
      BY <2>2, <2>4, <2>5, <3>2 DEF S!Touches
  <2> QED
    BY <2>6, <2>7 DEF Makes
<1>3. /\ Waiting(docs', r) \subseteq {f} /\ StillOpen(docs', r) \subseteq StillOpen(docs, r)
  BY <1>0 DEF Shrinks, ShrinksFor, Midway
<1>4. ASSUME NEW q \in StillOpen(docs', r)
      PROVE  \E i \in 1..Len(Tail(todo[t])) : Tail(todo[t])[i] = Reply(r, f, SegmentOf[q])
  <2>1. PICK i \in 1..Len(todo[t]) : todo[t][i] = Reply(r, f, SegmentOf[q])
    BY <1>3, <1>4 DEF Marking
  <2>2. i # 1
    BY <1>1, <1>2, <1>4, <2>1
  <2>3. i - 1 \in 1..Len(Tail(todo[t])) /\ (i - 1) + 1 = i
    BY <1>1, <2>2
  <2> QED
    BY <1>1, <2>1, <2>3
<1>5. ASSUME NEW i \in 1..Len(Tail(todo[t]))
      PROVE  \E s \in Segments : Tail(todo[t])[i] = Reply(r, f, s)
  BY <1>1 DEF Marking
<1>6. Marking(t, f)'
  BY <1>4, <1>5 DEF Marking
<1>7. CASE todo'[t] = <<>>
  <2>a. Tail(todo[t]) = <<>>
    BY <1>7
  <2>b. Len(<<>>) = 0
    OBVIOUS
  <2>0. Len(Tail(todo[t])) = 0
    BY <2>a, <2>b, Zenon
  <2>1. StillOpen(docs', r) = {}
    BY <1>4, <2>0
  <2> QED
    BY <1>3, <2>1 DEF Settled
<1>8. CASE todo'[t] # <<>>
  BY <1>0, <1>3, <1>6, <1>8 DEF Midway
<1> QED
  BY <1>7, <1>8

\* A flight that is taken back is gone.
LEMMA TakingBackNext ==
  ASSUME JournalAssumption, OneProcessOnly, Inv, NEW t \in Threads, NEW f \in Continuations,
         Midway(t, f), TakingBack(t, f), Makes(t), Shrinks
  PROVE  Settled(Continues[f])'
<1> DEFINE r == Continues[f]
<1>0. r \in Runs /\ f \in Keys /\ "pending" \in Docs
  BY Names
<1>1. /\ Due(t).doc = "pending" /\ Due(t).how = "mark" /\ Due(t).keys = {f} /\ Due(t).val = Absent
  BY TakeBackIs DEF TakingBack, Due
<1>2. docs'["pending"][f] # "waiting"
  <2>1. CASE docs' = docs /\ ~S!Matches(Due(t), docs[Due(t).doc])
    BY <1>1, <2>1, Names DEF S!Matches, S!Touches
  <2>2. CASE docs' = [docs EXCEPT ![Due(t).doc] = S!Effect(Due(t), docs[Due(t).doc])]
    <3>1. docs'["pending"] = S!Effect(Due(t), docs["pending"])
      BY <1>0, <1>1, <2>2 DEF Inv, Types
    <3>2. docs'["pending"][f] =
            IF f \in Due(t).keys /\ S!Touches(Due(t), docs["pending"][f]) THEN Due(t).val ELSE docs["pending"][f]
      BY <1>0, <3>1 DEF S!Effect
    <3> QED
      BY <1>1, <3>2, Names DEF S!Touches
  <2> QED
    BY <2>1, <2>2 DEF Makes
<1>3. Waiting(docs', r) \subseteq {f}
  BY <1>0 DEF Shrinks, ShrinksFor, Midway
<1>4. Waiting(docs', r) = {}
  BY <1>2, <1>3 DEF Waiting
<1> QED
  BY <1>4 DEF Settled

---------------------------------------------------------------------------

\* The thread that is next to change something and has an answer to queue first is not midway.
LEMMA UnansweredHead ==
  ASSUME JournalAssumption, OneProcessOnly, NEW t \in Threads, Unanswered(t)
  PROVE  /\ todo[t] # <<>> /\ Due(t).how = "put" /\ Due(t).doc = "pending" /\ Unqueued(t)
         /\ \E f \in Continuations :
              /\ todo[t] = Answer(Continues[f], f).changes
              /\ Due(t) = Change("pending", "put", {f}, "waiting")
<1>1. PICK f \in Continuations : todo[t] = Answer(Continues[f], f).changes
  BY DEF Unanswered
<1>2. todo[t] # <<>> /\ Due(t) = Change("pending", "put", {f}, "waiting")
  BY <1>1, AnswerIs DEF Due
<1>3. Due(t).how = "put" /\ Due(t).doc = "pending"
  BY <1>2 DEF Change
<1>4. Unqueued(t)
  BY <1>3 DEF Unqueued, Unanswered
<1> QED
  BY <1>1, <1>2, <1>3, <1>4

LEMMA MidwayHead ==
  ASSUME JournalAssumption, OneProcessOnly, Inv, NEW t \in Threads, NEW f \in Continuations, Midway(t, f)
  PROVE  /\ Due(t).how \in {"close", "mark"} /\ Harmless(Due(t)) /\ ~Unanswered(t)
         /\ Due(t).how = "close" => Marking(t, f) /\ Due(t).val = f
         /\ Due(t).how = "mark" => TakingBack(t, f)
<1>1. todo[t] # <<>> /\ Due(t) = todo[t][1] /\ 1 \in 1..Len(todo[t])
  BY DueFacts DEF Midway, Inv, Types
<1>2. CASE Marking(t, f)
  <2>1. PICK s \in Segments : Due(t) = Reply(Continues[f], f, s)
    BY <1>1, <1>2 DEF Marking
  <2>2. Due(t).how = "close" /\ Due(t).val = f /\ Harmless(Due(t))
    BY <2>1, ReplyIs
  <2> QED
    BY <1>2, <2>2, UnansweredHead
<1>3. CASE TakingBack(t, f)
  <2>1. Due(t).how = "mark" /\ Harmless(Due(t))
    BY <1>3, TakeBackIs DEF TakingBack, Due
  <2> QED
    BY <1>3, <2>1, UnansweredHead
<1> QED
  BY <1>2, <1>3 DEF Midway

LEMMA DueHarmless ==
  ASSUME Inv, NEW t \in Threads, todo[t] # <<>>, Todo(t), ~Unanswered(t)
  PROVE  Harmless(Due(t)) /\ \A i \in 1..Len(Tail(todo[t])) : Harmless(Tail(todo[t])[i])
<1>1. /\ Due(t) = todo[t][1] /\ 1 \in 1..Len(todo[t])
      /\ \A i \in 1..Len(Tail(todo[t])) : i + 1 \in 1..Len(todo[t]) /\ Tail(todo[t])[i] = todo[t][i + 1]
  BY DueFacts DEF Inv, Types
<1> QED
  BY <1>1 DEF Todo

LEMMA SameDocs ==
  ASSUME docs' = docs
  PROVE  Shrinks
BY DEF Shrinks, ShrinksFor

LEMMA BeginAnswered ==
  ASSUME JournalAssumption, AskedBefore, Inv, Answered, NEW t \in Threads,
         NEW call \in EveryDay \cup AtStart, Begin(t, call)
  PROVE  Answered'
<1> USE DEF AskedBefore
<1>1. /\ pc[t] = "idle" /\ pc'[t] = "called" /\ todo'[t] = call.changes /\ guard'[t] = call.guard
      /\ New(call) \cap AllAsked = {}
  BY DEF Begin, Inv, Types, Answered
<1>2. Todo(t)'
  <2>1. CASE \E f \in Continuations : call = Answer(Continues[f], f)
    <3>1. call.guard = "answer"
      BY <2>1 DEF Answer
    <3> QED
      BY <1>1, <2>1, <3>1 DEF Todo, Unanswered
  <2>2. CASE \A i \in 1..Len(call.changes) : Harmless(call.changes[i])
    BY <1>1, <2>2 DEF Todo
  <2> QED
    BY <1>1, <2>1, <2>2, CallsHarmless
<1>3. Apace(t) /\ Shrinks
  BY SameDocs DEF Begin, Inv, Types, Apace
<1>4. \A f \in Continuations : ~Midway(t, f)
  BY <1>1 DEF Midway
<1>5. crashes' = crashes /\ faults' = faults /\ minted \subseteq minted' /\ faults \in 0..MaxFaults
  BY DEF Begin, Answered
<1>6. faults' >= faults
  BY <1>5
<1> QED
  BY <1>2, <1>3, <1>4, <1>5, <1>6, AnsweredStays

LEMMA WaitAnswered ==
  ASSUME JournalAssumption, AskedBefore, Inv, Answered, NEW t \in Threads, Acquire(t) \/ Read(t)
  PROVE  Answered'
<1> USE DEF AskedBefore
<1>1. /\ todo' = todo /\ guard' = guard /\ docs' = docs /\ faults' = faults /\ crashes' = crashes
      /\ minted' = minted
      /\ (pc'[t] = pc[t] /\ copy' = copy) \/ (pc[t] = "called" /\ pc'[t] = "read")
  BY DEF Acquire, Read, Inv, Types
<1>2. Apace(t) /\ Shrinks
  BY SameDocs DEF Acquire, Read, Inv, Types, Apace
<1>3. Todo(t)'
  <2>1. CASE pc'[t] = pc[t] /\ copy' = copy
    BY <1>1, <2>1, TodoStays DEF Answered
  <2>2. CASE pc'[t] = "read"
    <3>1. Unanswered(t)' <=> Unanswered(t)
      BY <1>1 DEF Unanswered
    <3> QED
      BY <1>1, <2>2, <3>1 DEF Todo, Answered
  <2> QED
    BY <1>1, <2>1, <2>2
<1>4. ASSUME NEW f \in Continuations, Midway(t, f) PROVE Midway(t, f)'
  <2>1. pc'[t] \in {"read", "staged"}
    BY <1>1, <1>4 DEF Midway
  <2>2. faults \in Nat /\ faults >= faults /\ Continues[f] \in Runs
    BY Names DEF Answered
  <2> QED
    BY <1>1, <1>2, <1>4, <2>1, <2>2, MidwayStays DEF Shrinks
<1>5. faults' \in 0..MaxFaults /\ faults' >= faults
  BY <1>1 DEF Answered
<1> QED
  BY <1>1, <1>2, <1>3, <1>4, <1>5, AnsweredStays

LEMMA StageAnswered ==
  ASSUME JournalAssumption, AskedBefore, Inv, Answered, NEW t \in Threads, Stage(t)
  PROVE  Answered'
<1> USE DEF AskedBefore
<1>1. /\ todo' = todo /\ guard' = guard /\ docs' = docs /\ faults' = faults /\ crashes' = crashes
      /\ minted' = minted /\ copy' = copy /\ pc'[t] = "staged" /\ ~Closed(t)
  BY DEF Stage, Inv, Types
<1>2. Apace(t) /\ Shrinks
  BY SameDocs DEF Stage, Inv, Types, Apace
<1>3. Todo(t)'
  <2>1. Unanswered(t)' <=> Unanswered(t)
    BY <1>1 DEF Unanswered
  <2>2. Closed(t)' <=> Closed(t)
    BY <1>1 DEF Closed, Unqueued, Due, S!Matches
  <2> QED
    BY <1>1, <2>1, <2>2 DEF Todo, Answered
<1>4. faults \in Nat /\ faults >= faults /\ faults \in 0..MaxFaults /\ \A f \in Continuations : Continues[f] \in Runs
  BY Names DEF Answered
<1>5. \A f \in Continuations : Midway(t, f) => Midway(t, f)'
  BY <1>1, <1>2, <1>4, MidwayStays DEF Shrinks
<1> QED
  BY <1>1, <1>2, <1>3, <1>4, <1>5, AnsweredStays

LEMMA EndAnswered ==
  ASSUME JournalAssumption, AskedBefore, Inv, Answered, NEW t \in Threads, Decline(t) \/ Return(t)
  PROVE  Answered'
<1> USE DEF AskedBefore
<1>1. /\ todo'[t] = <<>> /\ docs' = docs /\ faults' = faults /\ crashes' = crashes
      /\ minted' = minted /\ pc'[t] # "staged"
      /\ todo[t] = <<>> \/ Due(t).how = "put"
  BY DEF Decline, Ready, Unqueued, Return, Inv, Types
<1>2. Apace(t) /\ Shrinks
  BY SameDocs DEF Decline, Return, Inv, Types, Apace
<1>3. Todo(t)'
  BY <1>1 DEF Todo
<1>4. \A f \in Continuations : ~Midway(t, f)
  BY <1>1, MidwayHead DEF Midway
<1>5. faults' \in 0..MaxFaults /\ faults' >= faults
  BY <1>1 DEF Answered
<1> QED
  BY <1>1, <1>2, <1>3, <1>4, <1>5, AnsweredStays

LEMMA SkipAnswered ==
  ASSUME JournalAssumption, AskedBefore, Inv, Answered, NEW t \in Threads, Skip(t)
  PROVE  Answered'
<1> USE DEF AskedBefore
<1>1. /\ pc[t] = "read" /\ todo[t] # <<>> /\ todo'[t] = Tail(todo[t]) /\ guard' = guard /\ pc' = pc
      /\ docs' = docs /\ faults' = faults /\ crashes' = crashes /\ minted' = minted
      /\ ~S!Matches(Due(t), Seen(t))
  BY DEF Skip, Inv, Types
<1>2. Apace(t) /\ Shrinks
  BY SameDocs DEF Skip, Inv, Types, Apace
<1>3. Makes(t)
  BY <1>1, OwnCopy DEF Makes
<1>4. ~Unanswered(t)
  <2>1. SUFFICES ASSUME Unanswered(t) PROVE FALSE
    OBVIOUS
  <2>2. PICK f \in Continuations : Due(t) = Change("pending", "put", {f}, "waiting")
    BY <2>1, UnansweredHead
  <2>3. f \in Due(t).keys /\ Due(t).how = "put"
    BY <2>2 DEF Change
  <2> QED
    BY <1>1, <2>3 DEF S!Matches, S!Touches
<1>5. Todo(t)'
  <2>1. \A i \in 1..Len(todo'[t]) : Harmless(todo'[t][i])
    BY <1>1, <1>4, DueHarmless DEF Answered
  <2> QED
    BY <1>1, <2>1 DEF Todo
<1>6. ASSUME NEW f \in Continuations, Midway(t, f) PROVE Midway(t, f)' \/ Settled(Continues[f])'
  <2>1. CASE Marking(t, f)
    BY <1>1, <1>2, <1>3, <1>6, <2>1, MarkingNext
  <2>2. CASE TakingBack(t, f)
    BY <1>2, <1>3, <1>6, <2>2, TakingBackNext
  <2> QED
    BY <1>6, <2>1, <2>2 DEF Midway
<1>7. faults' \in 0..MaxFaults /\ faults' >= faults
  BY <1>1 DEF Answered
<1> QED
  BY <1>1, <1>2, <1>5, <1>6, <1>7, AnsweredStays

LEMMA AppendAnswered ==
  ASSUME JournalAssumption, AskedBefore, Inv, Answered, NEW t \in Threads, AppendLine(t)
  PROVE  Answered'
<1> USE DEF AskedBefore
<1>1. /\ pc[t] = "called" /\ pc'[t] = "read" /\ guard[t] = "append" /\ todo[t] # <<>>
      /\ todo'[t] = Tail(todo[t]) /\ faults' = faults /\ crashes' = crashes /\ minted' = minted
  BY DEF AppendLine, Inv, Types, Sound, Shaped
<1>2. Makes(t) /\ ~Unanswered(t)
  BY <1>1 DEF AppendLine, Makes, Unanswered
<1>3. Harmless(Due(t)) /\ \A i \in 1..Len(todo'[t]) : Harmless(todo'[t][i])
  BY <1>1, <1>2, DueHarmless DEF Answered
<1>4. Apace(t) /\ Shrinks
  BY <1>1, <1>2, <1>3, MakesShrinks DEF AppendLine, Inv, Types, Apace
<1>5. Todo(t)'
  BY <1>1, <1>3 DEF Todo
<1>6. \A f \in Continuations : ~Midway(t, f)
  BY <1>1 DEF Midway
<1>7. faults' \in 0..MaxFaults /\ faults' >= faults
  BY <1>1 DEF Answered
<1> QED
  BY <1>1, <1>4, <1>5, <1>6, <1>7, AnsweredStays

LEMMA FailAnswered ==
  ASSUME JournalAssumption, AskedBefore, Inv, Answered, NEW t \in Threads, WriteFails(t)
  PROVE  Answered'
<1> USE DEF AskedBefore
<1>1. /\ pc[t] = "staged" /\ pc'[t] = "read" /\ todo[t] # <<>> /\ todo'[t] = Rest(t) /\ guard' = guard
      /\ docs' = docs /\ crashes' = crashes /\ minted' = minted
  BY DEF WriteFails, Inv, Types, Sound, Staged
<1>2. staging[Due(t).doc] \in S!Contents
  BY <1>1, DueFacts, EffectType DEF Inv, Types, Sound, Staged
<1>3. faults = 0 /\ faults' = 1 /\ faults' \in 0..MaxFaults
  <2>1. staging[Due(t).doc] # Absent
    BY <1>2, AbsentAssumption DEF S!Contents
  <2>2. faults < MaxFaults /\ faults' = faults + 1
    BY <2>1 DEF WriteFails
  <2> QED
    BY <2>2 DEF Answered
<1>4. Apace(t) /\ Shrinks
  BY <1>1, SameDocs DEF WriteFails, Inv, Types, Apace
<1>5. Rest(t) = <<>> \/ \E f \in Continuations : Due(t).val = f /\ Rest(t) = TakeBack(f)
  <2>1. Due(t) = todo[t][1] /\ 1 \in 1..Len(todo[t])
    BY <1>1, DueFacts DEF Inv, Types
  <2>2. guard[t] = "answer" /\ Due(t).how = "close" => Due(t).val \in Continuations
    BY <2>1 DEF Inv, Sound, Shaped
  <2> QED
    BY <2>2 DEF Rest
<1>6. Todo(t)'
  <2>1. CASE Rest(t) = <<>>
    BY <1>1, <2>1 DEF Todo
  <2>2. ASSUME NEW f \in Continuations, Rest(t) = TakeBack(f) PROVE Todo(t)'
    <3>1. Len(todo'[t]) = 1 /\ Harmless(todo'[t][1])
      BY <1>1, <2>2, TakeBackIs
    <3>2. \A i \in 1..1 : i = 1
      OBVIOUS
    <3>3. \A i \in 1..Len(todo'[t]) : Harmless(todo'[t][i])
      BY <3>1, <3>2
    <3> QED
      BY <1>1, <3>3 DEF Todo
  <2> QED
    BY <1>5, <2>1, <2>2
<1>7. ASSUME NEW f \in Continuations, Midway(t, f) PROVE Midway(t, f)'
  <2>1. Due(t).how = "close" /\ Due(t).val = f /\ guard[t] = "answer"
    <3>1. ~TakingBack(t, f)
      BY <1>3 DEF TakingBack
    <3> QED
      BY <1>7, <3>1, MidwayHead DEF Midway
  <2>2. Rest(t) = TakeBack(f)
    BY <2>1 DEF Rest
  <2>3. todo'[t] = TakeBack(f) /\ todo'[t] # <<>>
    BY <1>1, <2>2, TakeBackIs
  <2>4. TakingBack(t, f)'
    BY <1>3, <2>3 DEF TakingBack
  <2> QED
    BY <1>1, <1>7, <2>1, <2>3, <2>4 DEF Midway
<1>8. faults' >= faults
  BY <1>3
<1> QED
  BY <1>1, <1>3, <1>4, <1>6, <1>7, <1>8, AnsweredStays

\* The first change of an answer: nothing waits for its run, since something it asked is open and
\* nobody else has the queue.
LEMMA AnswerQueues ==
  ASSUME JournalAssumption, AskedBefore, Inv, Answered, crashes = 0,
         NEW t \in Threads, Unanswered(t), pc[t] = "staged",
         NEW f \in Continuations, todo[t] = Answer(Continues[f], f).changes
  PROVE  /\ Waiting(docs, Continues[f]) = {} /\ Asked[Continues[f]] # {}
<1> USE DEF AskedBefore
<1> DEFINE r == Continues[f]
<1>0. r \in Runs /\ "pending" \in Docs /\ guard[t] = "answer"
  BY Names DEF Unanswered
<1>1. todo[t] # <<>> /\ Unqueued(t) /\ Active(t)
  BY UnansweredHead DEF Active
<1>2. \E i \in 2..Len(todo[t]) : S!Matches(todo[t][i], copy[t][todo[t][i].doc])
  BY <1>1 DEF Answered, Todo, Closed
<1>3. PICK i \in 2..Len(todo[t]) : S!Matches(todo[t][i], copy[t][todo[t][i].doc])
  BY <1>2
<1>a. \A k \in 2..Len(todo[t]) : \E s \in Segments : todo[t][k] = Reply(r, f, s)
  <2> DEFINE cs == Answer(Continues[f], f).changes
  <2>1. \A k \in 2..Len(cs) : \E s \in Segments : cs[k] = Reply(r, f, s)
    BY AnswerIs
  <2>2. todo[t] = cs
    OBVIOUS
  <2> HIDE DEF cs
  <2> QED
    BY <2>1, <2>2
<1>4. PICK s \in Segments : todo[t][i] = Reply(r, f, s)
  BY <1>a
<1>5. todo[t][i].doc = s /\ todo[t][i].how = "close" /\ todo[t][i].keys = {q \in Asked[r] : SegmentOf[q] = s}
  BY <1>4, ReplyIs
<1>6. PICK q \in Asked[r] : SegmentOf[q] = s /\ copy[t][s][q] = "open"
  BY <1>3, <1>5 DEF S!Matches, S!Touches
<1>7. s \in Docs /\ Concerns(t, s) /\ Concerns(t, "pending")
  <2>1. i \in 1..Len(todo[t])
    BY <1>1, DueFacts DEF Inv, Types
  <2> QED
    BY <1>0, <1>5, <2>1, Names DEF Concerns
<1>8. copy[t][s] = docs[s] /\ Has(t, "pending")
  BY <1>0, <1>1, <1>7 DEF Inv, Sound, Holding
<1>9. q \in StillOpen(docs, r)
  BY <1>6, <1>8 DEF StillOpen
<1>10. ASSUME NEW u \in Threads, NEW g \in Continuations, Midway(u, g) PROVE FALSE
  <2>1. u # t
    BY <1>10, MidwayHead
  <2>2. Active(u) /\ Concerns(u, "pending")
    BY <1>10 DEF Midway, Active, Concerns
  <2>3. pc[t] # "idle"
    BY DEF Active
  <2> QED
    BY <1>0, <1>8, <2>1, <2>2, <2>3, Apart
<1>11. Settled(r)
  BY <1>0, <1>10 DEF Answered
<1> QED
  BY <1>6, <1>9, <1>11 DEF Settled

LEMMA RenameAnswered ==
  ASSUME JournalAssumption, AskedBefore, Inv, Answered, NEW t \in Threads, Rename(t)
  PROVE  Answered'
<1> USE DEF AskedBefore
<1>1. /\ pc[t] = "staged" /\ pc'[t] = "read" /\ todo[t] # <<>> /\ todo'[t] = Tail(todo[t])
      /\ guard' = guard /\ faults' = faults /\ crashes' = crashes /\ minted' = minted
  BY DEF Rename, Inv, Types, Sound, Staged
<1>2. /\ docs' = [docs EXCEPT ![Due(t).doc] = S!Effect(Due(t), docs[Due(t).doc])]
      /\ Due(t) \in ChangeSet
  BY <1>1, DueFacts DEF Rename, Inv, Sound, Staged
<1>3. Apace(t) /\ Makes(t)
  BY <1>2 DEF Rename, Inv, Types, Apace, Makes
<1>4. faults' \in 0..MaxFaults /\ faults' >= faults /\ faults \in Nat
  BY <1>1 DEF Answered
<1>5. CASE ~Unanswered(t)
  <2>1. Harmless(Due(t)) /\ \A i \in 1..Len(todo'[t]) : Harmless(todo'[t][i])
    BY <1>1, <1>5, DueHarmless DEF Answered
  <2>2. Shrinks
    BY <1>1, <1>3, <2>1, MakesShrinks
  <2>3. Todo(t)'
    BY <1>1, <2>1 DEF Todo
  <2>4. ASSUME NEW f \in Continuations, Midway(t, f) PROVE Midway(t, f)' \/ Settled(Continues[f])'
    <3>1. CASE Marking(t, f)
      BY <1>1, <1>3, <2>2, <2>4, <3>1, MarkingNext
    <3>2. CASE TakingBack(t, f)
      BY <1>3, <2>2, <2>4, <3>2, TakingBackNext
    <3> QED
      BY <2>4, <3>1, <3>2 DEF Midway
  <2> QED
    BY <1>1, <1>3, <1>4, <2>2, <2>3, <2>4, AnsweredStays
<1>6. CASE Unanswered(t)
  <2>1. PICK f \in Continuations : /\ todo[t] = Answer(Continues[f], f).changes
                                   /\ Due(t) = Change("pending", "put", {f}, "waiting")
    BY <1>6, UnansweredHead
  <2> DEFINE r == Continues[f]
  <2>2. r \in Runs /\ "pending" \in Docs /\ "pending" \notin Segments /\ f \in Keys
    BY Names
  <2>3. Due(t).doc = "pending" /\ Due(t).how = "put" /\ Due(t).keys = {f} /\ Due(t).val = "waiting"
    BY <2>1 DEF Change
  <2>4. /\ \A d \in Docs : d # "pending" => docs'[d] = docs[d]
        /\ \A k \in Keys : k # f => docs'["pending"][k] = docs["pending"][k]
    BY <1>2, <2>2, <2>3 DEF Inv, Types, S!Effect
  <2>5. \A x \in Runs : StillOpen(docs', x) = StillOpen(docs, x)
    <3>1. \A x \in Runs : \A q \in Asked[x] : SegmentOf[q] \in Docs /\ SegmentOf[q] # "pending"
      BY Names
    <3> QED
      BY <2>4, <3>1 DEF StillOpen
  <2>6. \A x \in Runs : x # r => Waiting(docs', x) \subseteq Waiting(docs, x)
    <3>1. \A g \in Continuations : g \in Keys
      BY Names
    <3> QED
      BY <2>4, <3>1 DEF Waiting
  <2>7. \A x \in Runs : x # r => ShrinksFor(x)
    BY <2>5, <2>6 DEF ShrinksFor
  <2>8. /\ Tail(todo[t]) # <<>> \/ Asked[r] = {}
        /\ \A i \in 1..Len(Tail(todo[t])) : \E s \in Segments : Tail(todo[t])[i] = Reply(r, f, s)
        /\ \A q \in Asked[r] : \E i \in 1..Len(Tail(todo[t])) : Tail(todo[t])[i] = Reply(r, f, SegmentOf[q])
    <3>1. /\ \A i \in 1..Len(Tail(todo[t])) : \E s \in Segments : Tail(todo[t])[i] = Reply(r, f, s)
          /\ \A q \in Asked[r] : \E i \in 1..Len(Tail(todo[t])) : Tail(todo[t])[i] = Reply(r, f, SegmentOf[q])
      BY <2>1, AnswerIs
    <3>2. Len(<<>>) = 0 /\ 1..0 = {}
      OBVIOUS
    <3>3. ASSUME Tail(todo[t]) = <<>> PROVE Asked[r] = {}
      <4>1. 1..Len(Tail(todo[t])) = {}
        BY <3>2, <3>3, Zenon
      <4> QED
        BY <3>1, <4>1
    <3> QED
      BY <3>1, <3>3
  <2>9. Todo(t)'
    <3>1. \A i \in 1..Len(todo'[t]) : Harmless(todo'[t][i])
      BY <1>1, <2>8, ReplyIs
    <3> QED
      BY <1>1, <3>1 DEF Todo
  <2>10. ASSUME NEW u \in Threads PROVE Todo(u)'
    <3>1. CASE u = t
      BY <2>9, <3>1
    <3>2. CASE u # t
      BY <1>3, <3>2, TodoStays DEF Apace, Answered
    <3> QED
      BY <3>1, <3>2
  <2>11. ASSUME crashes = 0 PROVE Midway(t, f)'
    <3>1. Waiting(docs, r) = {} /\ Asked[r] # {}
      BY <1>1, <1>6, <2>1, <2>11, AnswerQueues
    <3>2. Waiting(docs', r) \subseteq {f}
      <4>1. \A g \in Continuations : g \in Keys
        BY Names
      <4> QED
        BY <2>4, <3>1, <4>1 DEF Waiting
    <3>3. Marking(t, f)'
      BY <1>1, <2>8 DEF Marking, StillOpen
    <3>4. guard[t] = "answer"
      BY <1>6 DEF Unanswered
    <3> QED
      BY <1>1, <2>8, <3>1, <3>2, <3>3, <3>4 DEF Midway
  <2>12. ASSUME crashes = 0, NEW x \in Runs, x # r
         PROVE  Settled(x)' \/ \E u \in Threads, g \in Continuations : Continues[g] = x /\ Midway(u, g)'
    <3>1. CASE Settled(x)
      BY <2>7, <2>12, <3>1, SettledStays
    <3>2. ASSUME NEW u \in Threads, NEW g \in Continuations, Continues[g] = x, Midway(u, g)
          PROVE  Midway(u, g)'
      <4>1. u # t
        BY <1>6, <3>2, MidwayHead
      <4>2. pc'[u] = pc[u] /\ todo'[u] = todo[u] /\ guard'[u] = guard[u]
        BY <1>3, <4>1 DEF Apace
      <4>3. pc'[u] \in {"read", "staged"}
        BY <4>2, <3>2 DEF Midway
      <4>4. faults' \in Nat
        BY <1>1, <1>4
      <4> QED
        BY <1>4, <2>7, <2>12, <3>2, <4>2, <4>3, <4>4, MidwayStays
    <3> QED
      BY <2>12, <3>1, <3>2 DEF Answered
  <2>13. AllAsked' = AllAsked
    BY DEF AllAsked
  <2> QED
    BY <1>1, <1>4, <2>2, <2>10, <2>11, <2>12, <2>13 DEF Answered
<1> QED
  BY <1>5, <1>6

LEMMA CrashAnswered ==
  ASSUME JournalAssumption, AskedBefore, Inv, Answered, NEW p \in Processes, Crash(p)
  PROVE  Answered'
<1>1. crashes' \in Nat /\ crashes' # 0 /\ faults' = faults /\ minted' = minted /\ AllAsked' = AllAsked
  BY DEF Crash, Answered, AllAsked
<1>2. ASSUME NEW t \in Threads PROVE Todo(t)'
  <2>1. CASE ProcessOf[t] = p
    BY <2>1 DEF Crash, Todo
  <2>2. CASE ProcessOf[t] # p
    <3>1. pc'[t] = pc[t] /\ todo'[t] = todo[t] /\ guard'[t] = guard[t] /\ copy'[t] = copy[t]
      BY <2>2 DEF Crash
    <3> QED
      BY <3>1, TodoStays DEF Answered
  <2> QED
    BY <2>1, <2>2
<1> QED
  BY <1>1, <1>2 DEF Answered

LEMMA NothingAnswered ==
  ASSUME JournalAssumption, AskedBefore, Answered,
         UNCHANGED <<docs, callVars, minted, faults, crashes>>
  PROVE  Answered'
<1> USE DEF AskedBefore, callVars
<1>1. \A t \in Threads : Todo(t)'
  BY TodoStays DEF Answered
<1>2. \A r \in Runs : ShrinksFor(r) /\ (Settled(r) => Settled(r)')
  BY SettledStays DEF ShrinksFor
<1>3. ASSUME NEW t \in Threads, NEW f \in Continuations, Midway(t, f) PROVE Midway(t, f)'
  <2>1. Continues[f] \in Runs /\ faults \in Nat /\ faults >= faults
    BY Names DEF Answered
  <2> QED
    BY <1>2, <1>3, <2>1, MidwayStays DEF Midway
<1>4. AllAsked' = AllAsked
  BY DEF AllAsked
<1> QED
  BY <1>1, <1>2, <1>3, <1>4 DEF Answered

LEMMA InitAnswered ==
  ASSUME JournalAssumption, AskedBefore, Init
  PROVE  Answered
<1> USE DEF AskedBefore
<1>1. \A t \in Threads : Todo(t)
  BY DEF Init, Todo
<1>2. \A r \in Runs : Settled(r)
  BY DEF Init, Settled, Waiting
<1>3. AllAsked \subseteq minted
  <2> SUFFICES ASSUME NEW r \in Runs, NEW q \in Asked[r] PROVE q \in minted
    BY DEF AllAsked
  <2>1. q \in Keys /\ SegmentOf[q] \in Docs /\ docs[SegmentOf[q]][q] # Absent
    BY Names DEF Init
  <2> QED
    BY <2>1 DEF Init
<1> QED
  BY <1>1, <1>2, <1>3 DEF Init, Answered

LEMMA NextAnswered ==
  ASSUME JournalAssumption, AskedBefore, Inv, Answered, [Next]_vars
  PROVE  Answered'
<1>1. CASE \E t \in Threads : \E call \in EveryDay \cup AtStart : Begin(t, call)
  BY <1>1, BeginAnswered
<1>2. CASE \E t \in Threads : Step(t)
  BY <1>2, WaitAnswered, SkipAnswered, StageAnswered, RenameAnswered, AppendAnswered, EndAnswered DEF Step
<1>3. CASE \E t \in Threads : WriteFails(t)
  BY <1>3, FailAnswered
<1>4. CASE \E p \in Processes : Open(p)
  BY <1>4, NothingAnswered DEF Open
<1>5. CASE \E p \in Processes : Crash(p)
  BY <1>5, CrashAnswered
<1>6. CASE UNCHANGED vars
  BY <1>6, NothingAnswered DEF vars, callVars
<1> QED
  BY <1>1, <1>2, <1>3, <1>4, <1>5, <1>6 DEF Next

(* What a run asked is continued once, however many people answer it at the *)
(* same time, and though a write fails in the middle (answer.rs:16): for    *)
(* any number of threads, runs, requests and days' files.                   *)
THEOREM AnsweredOnce ==
  ASSUME AskedBefore
  PROVE  Spec => []OneContinuation
<1> USE JournalAssumption
<1> DEFINE Both == Inv /\ Answered
<1>1. Init => Both
  BY InitInv, InitAnswered DEF AskedBefore
<1>2. Both /\ [Next]_vars => Both'
  BY NextStep, NextAnswered DEF AskedBefore
<1>3. Both => OneContinuation
  <2> SUFFICES ASSUME Answered, crashes = 0, NEW f \in Continuations, NEW g \in Continuations,
                      docs["pending"][f] = "waiting", docs["pending"][g] = "waiting",
                      Continues[f] = Continues[g]
               PROVE  f = g
    BY DEF OneContinuation
  <2> DEFINE r == Continues[f]
  <2>1. r \in Runs /\ f \in Waiting(docs, r) /\ g \in Waiting(docs, r)
    BY DEF JournalAssumption, Waiting
  <2>2. \E h \in Continuations : Waiting(docs, r) \subseteq {h}
    BY <2>1 DEF Answered, Settled, Midway
  <2> QED
    BY <2>1, <2>2
<1> HIDE DEF Both
<1> QED
  BY <1>1, <1>2, <1>3, PTL DEF Spec

---------------------------------------------------------------------------
(* The learnings.                                                          *)

(* A set of numbers that is not empty has a least one.                     *)
LEMMA Least ==
  ASSUME NEW X \in SUBSET Nat, X # {}
  PROVE  \E n \in X : \A m \in X : n <= m
<1>1. PICK n \in X : \A m \in X : <<m, n>> \notin OpToRel(<, Nat)
  BY NatLessThanWellFounded, WFMin, Zenon
<1>2. \A m \in X : ~(m < n)
  BY <1>1 DEF OpToRel
<1> QED
  BY <1>2

LEMMA MinIsIn ==
  ASSUME NEW X \in SUBSET Nat, X # {}
  PROVE  Min(X) \in X
BY Least DEF Min

LEMMA Parameters ==
  /\ ProvisionalRuns \in Nat /\ ProvisionalRuns >= 1 /\ ConfirmAfter \in Nat /\ ConfirmAfter >= 1
  /\ KeepDays \in Nat /\ MaxDays \in Nat /\ MaxTrouble \in Nat /\ Ids \subseteq Nat
  /\ IsFiniteSet(Slots)
BY LearningsAssumption

LEMMA MoreTimes ==
  ASSUME NEW m \in Nat, NEW n \in Nat, NEW p \in Nat, m >= n
  PROVE  m * p >= n * p
<1>1. PICK d \in Nat : m = n + d
  <2>1. m - n \in Nat /\ m = n + (m - n)
    OBVIOUS
  <2> QED
    BY <2>1
<1>2. m * p = n * p + d * p /\ d * p \in Nat /\ n * p \in Nat
  BY <1>1
<1> QED
  BY <1>2

-----------------------------------------------------------------------------
(* One learning.                                                           *)

\* What a learning has paid for what it is.
Sane(l) ==
  /\ l.state = "provisional" =>
       /\ l.runs_left \in 1..ProvisionalRuns /\ l.lapsed_at = {} /\ l.proposals >= 1
       /\ l.past.charged + l.runs_left >= l.proposals * ProvisionalRuns
  /\ l.state = "lapsed" =>
       l.proposals >= 1 /\ l.past.charged >= l.proposals * ProvisionalRuns
  /\ l.state = "confirmed" /\ ~l.past.blessed =>
       l.past.charged >= ConfirmAfter * ProvisionalRuns

\* The learning that a run was told of.
ToldOf(l, ids) ==
  IF l.id \in ids /\ l.state = "provisional" THEN [l EXCEPT !.past.told = @ + 1] ELSE l

\* It is the learning it was, whatever else of it changed.
SameLearning(k, l) == k \in Learning /\ k.id = l.id /\ k.agent = l.agent

LEMMA LearningParts ==
  ASSUME NEW l \in Learning
  PROVE  /\ l.id \in Ids /\ l.agent \in Agents /\ l.text \in Texts
         /\ l.state \in {"provisional", "confirmed", "lapsed", "rejected"}
         /\ l.proposals \in Nat /\ l.runs_left \in Nat /\ l.lapsed_at \in Options(0..MaxDays)
         /\ l.past \in Past /\ l.past.told \in Nat /\ l.past.charged \in Nat
         /\ l.past.used \in 0..MaxDays /\ l.past.blessed \in BOOLEAN
BY DEF Learning, Past

LEMMA PastIs ==
  ASSUME NEW p \in Past, NEW day \in 0..MaxDays
  PROVE  /\ [p EXCEPT !.told = 0, !.used = day] \in Past
         /\ [p EXCEPT !.told = 0, !.used = day].told = 0
         /\ [p EXCEPT !.told = 0, !.used = day].charged = p.charged
         /\ [p EXCEPT !.told = 0, !.used = day].blessed = p.blessed
BY DEF Past

LEMMA PastCharged ==
  ASSUME NEW p \in Past, NEW day \in 0..MaxDays, NEW q, q = [p EXCEPT !.charged = @ + 1, !.used = day]
  PROVE  q \in Past /\ q.told = p.told /\ q.charged = p.charged + 1
<1> DEFINE n == p.charged + 1
<1>1. n \in Nat
  BY DEF Past
<1>2. q = [p EXCEPT !.charged = n, !.used = day]
  OBVIOUS
<1> HIDE DEF n
<1>3. q \in Past /\ q.told = p.told /\ q.charged = n
  BY <1>1, <1>2 DEF Past
<1> QED
  BY <1>3 DEF n

LEMMA TakenIs ==
  ASSUME today \in 0..MaxDays, NEW id \in Ids, NEW a \in Agents, NEW text \in Texts
  PROVE  LET l == Taken(id, a, text) IN
         /\ l \in Learning /\ l.id = id /\ l.agent = a /\ l.text = text /\ l.state = "provisional"
         /\ l.past.told = 0 /\ l.runs_left = ProvisionalRuns
         /\ Sane(l)
<1> DEFINE l == Taken(id, a, text)
<1>1. /\ l \in Learning /\ l.id = id /\ l.agent = a /\ l.text = text /\ l.state = "provisional"
      /\ l.past.told = 0 /\ l.runs_left = ProvisionalRuns /\ l.past.charged = 0
      /\ l.lapsed_at = {} /\ l.proposals = 1
  BY Parameters DEF Taken, Learning, Past, Options
<1> HIDE DEF l
<1>2. Sane(l)
  BY <1>1, Parameters DEF Sane
<1> QED
  BY <1>1, <1>2 DEF l

LEMMA AgainIs ==
  ASSUME today \in 0..MaxDays, NEW l \in Learning, NEW text \in Texts, l.state = "lapsed", Sane(l)
  PROVE  LET m == Again(l, text) IN
         /\ SameLearning(m, l) /\ m.text = text /\ m.state \in {"provisional", "confirmed"}
         /\ m.past.told = 0 /\ (m.state = "provisional" => m.runs_left = ProvisionalRuns)
         /\ Sane(m)
<1> DEFINE m == Again(l, text)
<1>1. /\ SameLearning(m, l) /\ m.text = text
      /\ m.past.told = 0 /\ m.past.charged = l.past.charged /\ m.proposals = l.proposals + 1
      /\ m.lapsed_at = {} /\ m.past.blessed = l.past.blessed
  <2>1. m.past = [l.past EXCEPT !.told = 0, !.used = today]
    BY DEF Again, Learning, Past
  <2>2. m.past \in Past /\ m.past.told = 0 /\ m.past.charged = l.past.charged
        /\ m.past.blessed = l.past.blessed
    <3> DEFINE p == l.past
               q == m.past
    <3>1. p \in Past /\ q = [p EXCEPT !.told = 0, !.used = today]
      BY <2>1, LearningParts
    <3> HIDE DEF p, q
    <3>2. q \in Past /\ q.told = 0 /\ q.charged = p.charged /\ q.blessed = p.blessed
      BY <3>1, PastIs
    <3> QED
      BY <3>2 DEF p, q
  <2>3. /\ m.id = l.id /\ m.agent = l.agent /\ m.text = text /\ m.proposals = l.proposals + 1
        /\ m.lapsed_at = {} /\ m.state \in {"provisional", "confirmed"} /\ m.runs_left \in Nat
    BY Parameters DEF Again, Learning
  <2>4. m = [id |-> m.id, agent |-> m.agent, text |-> m.text, state |-> m.state,
             proposals |-> m.proposals, runs_left |-> m.runs_left, lapsed_at |-> m.lapsed_at,
             past |-> m.past]
    <3> DEFINE state == IF l.proposals >= ConfirmAfter THEN "confirmed" ELSE "provisional"
               left == IF l.proposals >= ConfirmAfter THEN 0 ELSE ProvisionalRuns
    <3>1. m = [l EXCEPT !.text = text, !.lapsed_at = {}, !.proposals = @ + 1, !.state = state,
                        !.runs_left = left, !.past.told = 0, !.past.used = today]
      BY DEF Again
    <3> HIDE DEF state, left
    <3> QED
      BY <3>1 DEF Learning
  <2> HIDE DEF m
  <2>5. m \in Learning
    BY <2>2, <2>3, <2>4, LearningParts DEF Learning, Options
  <2> QED
    BY <2>2, <2>3, <2>5 DEF SameLearning
<1>2. CASE l.proposals >= ConfirmAfter
  <2>1. m.state = "confirmed"
    BY <1>2 DEF Again, Learning
  <2>2. l.proposals * ProvisionalRuns >= ConfirmAfter * ProvisionalRuns
    BY <1>2, LearningParts, Parameters, MoreTimes
  <2> HIDE DEF m
  <2>3. m.past.charged >= ConfirmAfter * ProvisionalRuns
    BY <1>1, <2>2, LearningParts, Parameters DEF Sane
  <2>4. Sane(m)
    BY <2>1, <2>3 DEF Sane
  <2> QED
    BY <1>1, <2>1, <2>4 DEF m
<1>3. CASE ~(l.proposals >= ConfirmAfter)
  <2>1. m.state = "provisional" /\ m.runs_left = ProvisionalRuns
    BY <1>3 DEF Again, Learning
  <2>2. (l.proposals + 1) * ProvisionalRuns = l.proposals * ProvisionalRuns + ProvisionalRuns
    BY LearningParts, Parameters
  <2> HIDE DEF m
  <2>3. m.past.charged + m.runs_left >= m.proposals * ProvisionalRuns
    BY <1>1, <2>1, <2>2, LearningParts, Parameters DEF Sane
  <2>4. Sane(m)
    BY <1>1, <2>1, <2>3, LearningParts, Parameters DEF Sane
  <2> QED
    BY <1>1, <2>1, <2>4 DEF m
<1> QED
  BY <1>2, <1>3

LEMMA ChargedIs ==
  ASSUME today \in 0..MaxDays, NEW l \in Learning, NEW a \in Agents, Sane(l)
  PROVE  LET m == Charged(l, a) IN
         /\ SameLearning(m, l) /\ m.text = l.text /\ m.past.told = l.past.told
         /\ (l.agent # a \/ l.state # "provisional" => m = l)
         /\ (l.agent = a /\ l.state = "provisional" =>
               \/ m.state = "provisional" /\ m.runs_left = l.runs_left - 1
               \/ m.state = "lapsed" /\ l.runs_left = 1)
         /\ Sane(m)
<1> DEFINE m == Charged(l, a)
<1>1. CASE l.agent # a \/ l.state # "provisional"
  <2>1. m = l
    BY <1>1 DEF Charged
  <2> QED
    BY <1>1, <2>1 DEF SameLearning
<1>2. CASE l.agent = a /\ l.state = "provisional" /\ l.runs_left > 1
  <2>1. m = [l EXCEPT !.past.charged = @ + 1, !.past.used = today, !.runs_left = @ - 1]
    BY <1>2 DEF Charged, Learning, Past
  <2>2. /\ SameLearning(m, l) /\ m.text = l.text /\ m.past.told = l.past.told
        /\ m.state = "provisional" /\ m.runs_left = l.runs_left - 1
        /\ m.past.charged = l.past.charged + 1 /\ m.proposals = l.proposals
        /\ m.lapsed_at = l.lapsed_at
    <3>1. m.past = [l.past EXCEPT !.charged = @ + 1, !.used = today]
      BY <2>1 DEF Learning, Past
    <3>2. m.past \in Past /\ m.past.told = l.past.told /\ m.past.charged = l.past.charged + 1
      <4> DEFINE p == l.past
                 q == m.past
      <4>1. p \in Past /\ q = [p EXCEPT !.charged = @ + 1, !.used = today]
        BY <3>1, LearningParts
      <4> HIDE DEF p, q
      <4>2. q \in Past /\ q.told = p.told /\ q.charged = p.charged + 1
        BY <4>1, PastCharged
      <4> QED
        BY <4>2 DEF p, q
    <3>3. /\ m.id = l.id /\ m.agent = l.agent /\ m.text = l.text /\ m.state = "provisional"
          /\ m.proposals = l.proposals /\ m.lapsed_at = l.lapsed_at /\ m.runs_left = l.runs_left - 1
      BY <1>2, <2>1 DEF Learning
    <3>4. m = [id |-> m.id, agent |-> m.agent, text |-> m.text, state |-> m.state,
               proposals |-> m.proposals, runs_left |-> m.runs_left, lapsed_at |-> m.lapsed_at,
               past |-> m.past]
      BY <2>1 DEF Learning
    <3> HIDE DEF m
    <3>5. m \in Learning
      BY <1>2, <3>2, <3>3, <3>4, LearningParts DEF Learning
    <3> QED
      BY <3>2, <3>3, <3>5 DEF SameLearning
  <2> HIDE DEF m
  <2>3. Sane(m)
    <3>1. m.past.charged + m.runs_left >= m.proposals * ProvisionalRuns
      BY <1>2, <2>2, LearningParts, Parameters DEF Sane
    <3>2. m.runs_left \in 1..ProvisionalRuns
      BY <1>2, <2>2, LearningParts, Parameters DEF Sane
    <3> QED
      BY <1>2, <2>2, <3>1, <3>2 DEF Sane
  <2> QED
    BY <1>2, <2>2, <2>3 DEF m
<1>3. CASE l.agent = a /\ l.state = "provisional" /\ ~(l.runs_left > 1)
  <2>0. l.runs_left = 1 /\ l.lapsed_at = {}
    BY <1>3, LearningParts, Parameters DEF Sane
  <2>1. m = [l EXCEPT !.past.charged = @ + 1, !.past.used = today, !.runs_left = 0,
                      !.state = "lapsed", !.lapsed_at = {today}]
    BY <1>3, <2>0 DEF Charged, Learning, Past
  <2>2. /\ SameLearning(m, l) /\ m.text = l.text /\ m.past.told = l.past.told
        /\ m.state = "lapsed"
        /\ m.past.charged = l.past.charged + 1 /\ m.proposals = l.proposals
    <3>1. m.past = [l.past EXCEPT !.charged = @ + 1, !.used = today]
      BY <2>1 DEF Learning, Past
    <3>2. m.past \in Past /\ m.past.told = l.past.told /\ m.past.charged = l.past.charged + 1
      <4> DEFINE p == l.past
                 q == m.past
      <4>1. p \in Past /\ q = [p EXCEPT !.charged = @ + 1, !.used = today]
        BY <3>1, LearningParts
      <4> HIDE DEF p, q
      <4>2. q \in Past /\ q.told = p.told /\ q.charged = p.charged + 1
        BY <4>1, PastCharged
      <4> QED
        BY <4>2 DEF p, q
    <3>3. /\ m.id = l.id /\ m.agent = l.agent /\ m.text = l.text /\ m.state = "lapsed"
          /\ m.proposals = l.proposals /\ m.lapsed_at = {today} /\ m.runs_left = 0
      BY <2>1 DEF Learning
    <3>4. m = [id |-> m.id, agent |-> m.agent, text |-> m.text, state |-> m.state,
               proposals |-> m.proposals, runs_left |-> m.runs_left, lapsed_at |-> m.lapsed_at,
               past |-> m.past]
      BY <2>1 DEF Learning
    <3> HIDE DEF m
    <3>5. m \in Learning
      BY <3>2, <3>3, <3>4, LearningParts DEF Learning, Options
    <3> QED
      BY <3>2, <3>3, <3>5 DEF SameLearning
  <2> HIDE DEF m
  <2>3. Sane(m)
    <3>1. m.past.charged >= m.proposals * ProvisionalRuns
      BY <1>3, <2>0, <2>2, LearningParts, Parameters DEF Sane
    <3> QED
      BY <1>3, <2>2, <3>1 DEF Sane
  <2> QED
    BY <1>3, <2>0, <2>2, <2>3 DEF m
<1> QED
  BY <1>1, <1>2, <1>3

LEMMA ToldOfIs ==
  ASSUME NEW l \in Learning, NEW ids, Sane(l)
  PROVE  LET m == ToldOf(l, ids) IN
         /\ SameLearning(m, l) /\ m.text = l.text /\ m.state = l.state /\ m.runs_left = l.runs_left
         /\ m.past.told <= l.past.told + 1 /\ (l.state # "provisional" => m = l)
         /\ Sane(m)
<1> DEFINE m == ToldOf(l, ids)
<1>1. /\ SameLearning(m, l) /\ m.text = l.text /\ m.state = l.state /\ m.runs_left = l.runs_left
      /\ m.past.told <= l.past.told + 1 /\ m.past.charged = l.past.charged
      /\ m.proposals = l.proposals /\ m.lapsed_at = l.lapsed_at /\ m.past.blessed = l.past.blessed
      /\ (l.state # "provisional" => m = l)
  BY LearningParts DEF ToldOf, Learning, Past, SameLearning
<1> HIDE DEF m
<1>2. Sane(m)
  BY <1>1 DEF Sane
<1> QED
  BY <1>1, <1>2 DEF m

LEMMA JudgedIs ==
  ASSUME NEW l \in Learning, NEW state \in {"confirmed", "rejected"}, Sane(l)
  PROVE  LET m == Judged(l, state) IN
         /\ SameLearning(m, l) /\ m.text = l.text /\ m.state = state
         /\ Sane(m)
<1> DEFINE m == Judged(l, state)
<1>1. /\ SameLearning(m, l) /\ m.text = l.text /\ m.state = state
      /\ (state = "confirmed" => m.past.blessed)
  BY LearningParts DEF Judged, Learning, Past, SameLearning, Options
<1> HIDE DEF m
<1>2. Sane(m)
  BY <1>1 DEF Sane
<1> QED
  BY <1>1, <1>2 DEF m

-----------------------------------------------------------------------------
(* What is kept is a function defined from its own values; that there is   *)
(* one is shown for every length, the least without one being impossible.  *)
KeptTo(doc, n, f) ==
  f = [k \in 0..n |-> IF k = 0 THEN <<>>
                      ELSE IF Stale(doc[k]) THEN f[k - 1] ELSE Append(f[k - 1], doc[k])]

LEMMA KeptExists ==
  ASSUME NEW doc, NEW n \in Nat
  PROVE  \E f : KeptTo(doc, n, f)
<1> DEFINE Start0 == <<>>
           More(X, k) == IF Stale(doc[k]) THEN X ELSE Append(X, doc[k])
           Without == {m \in Nat : ~\E f : KeptTo(doc, m, f)}
<1>0. \A m, f : KeptTo(doc, m, f) <=>
                  f = [k \in 0..m |-> IF k = 0 THEN Start0 ELSE More(f[k - 1], k)]
  BY DEF KeptTo
<1> HIDE DEF Start0, More
<1> SUFFICES ASSUME Without # {} PROVE FALSE
  OBVIOUS
<1>1. PICK m \in Without : \A l \in Without : m <= l
  <2>1. Without \in SUBSET Nat
    OBVIOUS
  <2> HIDE DEF Without
  <2> QED
    BY <2>1, Least
<1>2. m \in Nat
  OBVIOUS
<1>3. CASE m = 0
  <2> DEFINE f == [k \in 0..0 |-> Start0]
  <2>1. f = [k \in 0..0 |-> IF k = 0 THEN Start0 ELSE More(f[k - 1], k)]
    OBVIOUS
  <2> HIDE DEF f
  <2>2. KeptTo(doc, 0, f)
    BY <1>0, <2>1
  <2> QED
    BY <1>3, <2>2
<1>4. CASE m # 0
  <2>1. m - 1 \in Nat /\ ~(m <= m - 1)
    BY <1>2, <1>4
  <2>2. m - 1 \notin Without
    BY <1>1, <2>1
  <2>3. PICK f : KeptTo(doc, m - 1, f)
    BY <2>1, <2>2
  <2>4. f = [k \in 0..(m - 1) |-> IF k = 0 THEN Start0 ELSE More(f[k - 1], k)]
    BY <1>0, <2>3
  <2> DEFINE g == [k \in 0..m |-> IF k = m THEN More(f[m - 1], m) ELSE f[k]]
             h == [k \in 0..m |-> IF k = 0 THEN Start0 ELSE More(g[k - 1], k)]
  <2>5. ASSUME NEW k \in 0..m PROVE g[k] = h[k]
    <3>1. CASE k = 0
      <4>1. g[k] = f[0] /\ h[k] = Start0
        BY <1>2, <1>4, <3>1
      <4>2. f[0] = Start0
        BY <2>1, <2>4
      <4> QED
        BY <4>1, <4>2
    <3>2. CASE k # 0 /\ k # m
      <4>1. k \in 0..(m - 1) /\ k - 1 \in 0..m /\ k - 1 # m
        BY <1>2, <3>2
      <4>2. g[k] = f[k] /\ g[k - 1] = f[k - 1]
        BY <3>2, <4>1
      <4>3. f[k] = More(f[k - 1], k)
        BY <2>4, <3>2, <4>1
      <4>4. h[k] = More(g[k - 1], k)
        BY <3>2
      <4> QED
        BY <4>2, <4>3, <4>4
    <3>3. CASE k = m
      <4>1. m - 1 \in 0..m /\ m - 1 # m
        BY <1>2, <2>1
      <4>2. g[m - 1] = f[m - 1] /\ g[k] = More(f[m - 1], m)
        BY <3>3, <4>1
      <4>3. h[k] = More(g[m - 1], m)
        BY <1>4, <3>3
      <4> QED
        BY <4>2, <4>3
    <3> QED
      BY <3>1, <3>2, <3>3
  <2>6. g = h
    <3>1. g = [k \in 0..m |-> g[k]] /\ h = [k \in 0..m |-> h[k]]
      OBVIOUS
    <3> HIDE DEF g, h
    <3> QED
      BY <2>5, <3>1
  <2>7. g = [k \in 0..m |-> IF k = 0 THEN Start0 ELSE More(g[k - 1], k)]
    BY <2>6
  <2> HIDE DEF g, h
  <2>8. KeptTo(doc, m, g)
    BY <1>0, <2>7
  <2> QED
    BY <2>8
<1> QED
  BY <1>3, <1>4

LEMMA KeptIs ==
  ASSUME NEW doc, Len(doc) \in Nat
  PROVE  /\ Kept(doc)[0] = <<>>
         /\ \A k \in 1..Len(doc) :
              Kept(doc)[k] = IF Stale(doc[k]) THEN Kept(doc)[k - 1] ELSE Append(Kept(doc)[k - 1], doc[k])
<1> DEFINE K == Kept(doc)
           n == Len(doc)
<1>2. PICK built : KeptTo(doc, n, built)
  BY KeptExists
<1>3. K = CHOOSE f : KeptTo(doc, n, f)
  BY Zenon DEF Kept, KeptTo
<1>1. n \in Nat
  OBVIOUS
<1> HIDE DEF K
<1>4. KeptTo(doc, n, K)
  BY <1>2, <1>3, Zenon
<1>5. K = [k \in 0..n |-> IF k = 0 THEN <<>>
                          ELSE IF Stale(doc[k]) THEN K[k - 1] ELSE Append(K[k - 1], doc[k])]
  BY <1>4 DEF KeptTo
<1>6. K[0] = <<>>
  <2>1. 0 \in 0..n
    BY <1>1
  <2> HIDE DEF n
  <2> QED
    BY <1>5, <2>1
<1>7. ASSUME NEW k \in 1..n
      PROVE  K[k] = IF Stale(doc[k]) THEN K[k - 1] ELSE Append(K[k - 1], doc[k])
  <2>1. k \in 0..n /\ k # 0
    BY <1>1
  <2> HIDE DEF n
  <2> QED
    BY <1>5, <2>1
<1> QED
  BY <1>6, <1>7 DEF K

(* Of what is held, in the order it is held.                               *)
Picked(some, doc, n) ==
  /\ \A i \in DOMAIN some : \E x \in 1..n : some[i] = doc[x]
  /\ \A i, k \in DOMAIN some :
       i < k => \E x, y \in 1..n : x < y /\ some[i] = doc[x] /\ some[k] = doc[y]

LEMMA NextPicked ==
  ASSUME NEW X, NEW doc \in Seq(X), NEW n \in 1..Len(doc), NEW some \in Seq(X),
         Picked(some, doc, n - 1)
  PROVE  /\ Picked(some, doc, n)
         /\ Append(some, doc[n]) \in Seq(X) /\ Picked(Append(some, doc[n]), doc, n)
<1> DEFINE more == Append(some, doc[n])
<1>1. /\ more \in Seq(X) /\ DOMAIN more = 1..(Len(some) + 1) /\ DOMAIN some = 1..Len(some)
      /\ more[Len(some) + 1] = doc[n] /\ \A i \in 1..Len(some) : more[i] = some[i]
      /\ Len(some) \in Nat /\ Len(doc) \in Nat
  BY AppendProperties, LenProperties
<1>2. Picked(some, doc, n)
  <2>1. \A x \in 1..(n - 1) : x \in 1..n
    BY <1>1
  <2> QED
    BY <2>1 DEF Picked
<1> HIDE DEF more
<1>3. ASSUME NEW i \in DOMAIN more PROVE \E x \in 1..n : more[i] = doc[x]
  <2>1. CASE i \in 1..Len(some)
    BY <1>1, <1>2, <2>1 DEF Picked
  <2>2. CASE i = Len(some) + 1
    BY <1>1, <2>2
  <2> QED
    BY <1>1, <2>1, <2>2
<1>4. ASSUME NEW i \in DOMAIN more, NEW k \in DOMAIN more, i < k
      PROVE  \E x, y \in 1..n : x < y /\ more[i] = doc[x] /\ more[k] = doc[y]
  <2>1. i \in 1..Len(some)
    BY <1>1, <1>4
  <2>2. CASE k \in 1..Len(some)
    <3>1. \E x, y \in 1..n : x < y /\ some[i] = doc[x] /\ some[k] = doc[y]
      <4>1. i \in DOMAIN some /\ k \in DOMAIN some
        BY <1>1, <2>1, <2>2
      <4> QED
        BY <1>2, <1>4, <4>1 DEF Picked
    <3> QED
      BY <1>1, <2>1, <2>2, <3>1
  <2>3. CASE k = Len(some) + 1
    <3>1. PICK x \in 1..(n - 1) : some[i] = doc[x]
      BY <1>1, <2>1 DEF Picked
    <3>2. x \in 1..n /\ n \in 1..n /\ x < n
      BY <1>1
    <3> QED
      BY <1>1, <2>1, <2>3, <3>1, <3>2
  <2> QED
    BY <1>1, <2>2, <2>3
<1>5. Picked(more, doc, n)
  BY <1>3, <1>4 DEF Picked
<1> QED
  BY <1>1, <1>2, <1>5 DEF more

LEMMA ForgottenIs ==
  ASSUME NEW X, NEW doc \in Seq(X)
  PROVE  Forgotten(doc) \in Seq(X) /\ Picked(Forgotten(doc), doc, Len(doc))
<1> DEFINE K == Kept(doc)
           Good(k) == K[k] \in Seq(X) /\ Picked(K[k], doc, k)
           Bad == {k \in 0..Len(doc) : ~Good(k)}
<1>0. Len(doc) \in Nat
  BY LenProperties
<1>1. Good(0)
  <2>1. K[0] = <<>>
    BY <1>0, KeptIs
  <2> HIDE DEF K
  <2> QED
    BY <2>1, EmptySeq DEF Picked
<1>2. ASSUME NEW k \in 1..Len(doc), Good(k - 1) PROVE Good(k)
  <2>1. K[k] = IF Stale(doc[k]) THEN K[k - 1] ELSE Append(K[k - 1], doc[k])
    BY <1>0, KeptIs
  <2> HIDE DEF K
  <2>2. /\ Picked(K[k - 1], doc, k) /\ K[k - 1] \in Seq(X)
        /\ Append(K[k - 1], doc[k]) \in Seq(X) /\ Picked(Append(K[k - 1], doc[k]), doc, k)
    BY <1>2, NextPicked
  <2> QED
    BY <2>1, <2>2
<1> HIDE DEF Good
<1>3. Bad = {}
  <2> SUFFICES ASSUME Bad # {} PROVE FALSE
    OBVIOUS
  <2>1. PICK k \in Bad : \A l \in Bad : k <= l
    <3>1. Bad \in SUBSET Nat
      BY <1>0
    <3> HIDE DEF Bad
    <3> QED
      BY <3>1, Least
  <2>2. k \in 1..Len(doc) /\ k - 1 \in 0..Len(doc) /\ ~(k <= k - 1)
    BY <1>0, <1>1
  <2>3. Good(k - 1)
    BY <2>1, <2>2
  <2> QED
    BY <1>2, <2>2, <2>3
<1>4. Good(Len(doc))
  BY <1>0, <1>3
<1> QED
  BY <1>4 DEF Good, Forgotten

-----------------------------------------------------------------------------
(* A document: what the journal holds, or what a judgement has read.       *)
OneEach(doc) == \A i, k \in DOMAIN doc : doc[i].id = doc[k].id => i = k

Document(doc) ==
  /\ doc \in Seq(Learning)
  /\ OneEach(doc)
  /\ \A i \in DOMAIN doc : Sane(doc[i])

LEMMA DocumentParts ==
  ASSUME NEW doc, Document(doc)
  PROVE  /\ Len(doc) \in Nat /\ DOMAIN doc = 1..Len(doc) /\ DOMAIN doc \subseteq Nat
         /\ \A i \in DOMAIN doc : doc[i] \in Learning /\ Sane(doc[i])
<1>1. Len(doc) \in Nat /\ DOMAIN doc = 1..Len(doc) /\ \A i \in 1..Len(doc) : doc[i] \in Learning
  BY ElementOfSeq, LenProperties DEF Document
<1>2. 1..Len(doc) \subseteq Nat
  BY <1>1
<1> QED
  BY <1>1, <1>2 DEF Document

LEMMA ChangedDocument ==
  ASSUME NEW doc, Document(doc), NEW new, DOMAIN new = DOMAIN doc, new = [i \in DOMAIN doc |-> new[i]],
         \A i \in DOMAIN doc : SameLearning(new[i], doc[i]) /\ Sane(new[i])
  PROVE  Document(new)
<1>1. Len(doc) \in Nat /\ DOMAIN doc = 1..Len(doc)
  BY DocumentParts
<1>2. new \in [1..Len(doc) -> Learning]
  BY <1>1 DEF SameLearning
<1>3. new \in Seq(Learning)
  BY <1>1, <1>2, IsASeq
<1>4. OneEach(new)
  BY DEF OneEach, Document, SameLearning
<1> QED
  BY <1>3, <1>4 DEF Document

LEMMA LongerDocument ==
  ASSUME NEW doc, Document(doc), NEW l \in Learning, Sane(l), l.id \notin Held(doc)
  PROVE  /\ Document(Append(doc, l))
         /\ DOMAIN Append(doc, l) = DOMAIN doc \cup {Len(doc) + 1} /\ Len(doc) + 1 \notin DOMAIN doc
         /\ Append(doc, l)[Len(doc) + 1] = l /\ \A i \in DOMAIN doc : Append(doc, l)[i] = doc[i]
<1> DEFINE more == Append(doc, l)
           n == Len(doc) + 1
<1>1. Len(doc) \in Nat /\ DOMAIN doc = 1..Len(doc) /\ doc \in Seq(Learning)
  BY DocumentParts DEF Document
<1>2. /\ more \in Seq(Learning) /\ DOMAIN more = 1..n
      /\ more[n] = l /\ \A i \in 1..Len(doc) : more[i] = doc[i]
  BY <1>1, AppendProperties, LenProperties
<1>3. DOMAIN more = DOMAIN doc \cup {n} /\ n \notin DOMAIN doc
  BY <1>1, <1>2
<1> HIDE DEF more, n
<1>4. \A i \in DOMAIN doc : more[i] = doc[i] /\ doc[i].id # l.id
  BY <1>1, <1>2 DEF Held
<1>5. OneEach(more)
  BY <1>2, <1>3, <1>4 DEF OneEach, Document
<1>6. \A i \in DOMAIN more : Sane(more[i])
  BY <1>2, <1>3, <1>4 DEF Document
<1> QED
  BY <1>2, <1>3, <1>4, <1>5, <1>6 DEF Document, more, n

LEMMA PickedDocument ==
  ASSUME NEW doc, Document(doc)
  PROVE  /\ Document(Forgotten(doc))
         /\ \A i \in DOMAIN Forgotten(doc) : \E x \in DOMAIN doc : Forgotten(doc)[i] = doc[x]
         /\ \A i, k \in DOMAIN Forgotten(doc) : i # k =>
              \E x, y \in DOMAIN doc : x # y /\ Forgotten(doc)[i] = doc[x] /\ Forgotten(doc)[k] = doc[y]
<1> DEFINE some == Forgotten(doc)
<1>1. Len(doc) \in Nat /\ DOMAIN doc = 1..Len(doc) /\ doc \in Seq(Learning)
  BY DocumentParts DEF Document
<1>2. some \in Seq(Learning) /\ Picked(some, doc, Len(doc))
  BY <1>1, ForgottenIs
<1>3. Len(some) \in Nat /\ DOMAIN some = 1..Len(some)
  BY <1>2, LenProperties
<1> HIDE DEF some
<1>4. \A i \in DOMAIN some : \E x \in DOMAIN doc : some[i] = doc[x]
  BY <1>1, <1>2 DEF Picked
<1>5. ASSUME NEW i \in DOMAIN some, NEW k \in DOMAIN some, i # k
      PROVE  \E x, y \in DOMAIN doc : x # y /\ some[i] = doc[x] /\ some[k] = doc[y]
  <2>1. i < k \/ k < i
    BY <1>3, <1>5
  <2>2. CASE i < k
    <3>1. PICK x \in 1..Len(doc), y \in 1..Len(doc) : x < y /\ some[i] = doc[x] /\ some[k] = doc[y]
      BY <1>2, <2>2 DEF Picked
    <3>2. x # y
      BY <1>1, <3>1
    <3> QED
      BY <1>1, <3>1, <3>2
  <2>3. CASE k < i
    <3>1. PICK x \in 1..Len(doc), y \in 1..Len(doc) : x < y /\ some[k] = doc[x] /\ some[i] = doc[y]
      BY <1>2, <2>3 DEF Picked
    <3>2. y # x
      BY <1>1, <3>1
    <3> QED
      BY <1>1, <3>1, <3>2
  <2> QED
    BY <2>1, <2>2, <2>3
<1>6. OneEach(some)
  <2> SUFFICES ASSUME NEW i \in DOMAIN some, NEW k \in DOMAIN some, some[i].id = some[k].id, i # k
               PROVE  FALSE
    BY DEF OneEach
  <2>1. PICK x \in DOMAIN doc, y \in DOMAIN doc : x # y /\ some[i] = doc[x] /\ some[k] = doc[y]
    BY <1>5
  <2> QED
    BY <2>1 DEF Document, OneEach
<1>7. \A i \in DOMAIN some : Sane(some[i])
  BY <1>4 DEF Document
<1> QED
  BY <1>2, <1>4, <1>5, <1>6, <1>7 DEF Document, some

-----------------------------------------------------------------------------
(* What a step does to the learnings.                                      *)
Paying ==
  /\ Document(learnings)
  /\ \A j \in judging : Document(j.document) /\ j.id \in Held(j.document)

LEMMA TypeParts ==
  ASSUME LearningsTypeOK
  PROVE  /\ runs \in [Slots -> Options(Run)] /\ today \in 0..MaxDays
         /\ \A s \in Slots : \A run \in runs[s] : run \in Run /\ runs[s] = {run}
         /\ trouble \in Nat /\ trouble \in 0..MaxTrouble /\ judgements \in 0..MaxTrouble
         /\ \A j \in judging : j \in Judgement /\ j.state \in {"confirmed", "rejected"}
         /\ overwritten \in BOOLEAN
<1>1. \A s \in Slots : runs[s] \in Options(Run)
  BY DEF LearningsTypeOK
<1>2. \A s \in Slots : \A run \in runs[s] : run \in Run /\ runs[s] = {run}
  BY <1>1 DEF Options
<1> QED
  BY <1>2, Parameters DEF LearningsTypeOK, Judgement

LEMMA ShownAreIds ==
  ASSUME Document(learnings), NEW a
  PROVE  Shown(a) \in SUBSET Ids
<1>1. \A i \in DOMAIN learnings : learnings[i].id \in Ids
  BY DocumentParts, LearningParts
<1> QED
  BY <1>1 DEF Shown

LEMMA ToldDocument ==
  ASSUME Document(learnings), NEW ids
  PROVE  /\ Document(Told(ids)) /\ DOMAIN Told(ids) = DOMAIN learnings
         /\ \A i \in DOMAIN learnings : Told(ids)[i] = ToldOf(learnings[i], ids)
<1> DEFINE new == Told(ids)
<1>1. /\ new = [i \in DOMAIN learnings |-> new[i]] /\ DOMAIN new = DOMAIN learnings
      /\ \A i \in DOMAIN learnings : new[i] = ToldOf(learnings[i], ids)
  BY DEF Told, ToldOf
<1> HIDE DEF new
<1>2. \A i \in DOMAIN learnings : SameLearning(new[i], learnings[i]) /\ Sane(new[i])
  BY <1>1, DocumentParts, ToldOfIs
<1>3. Document(new)
  BY <1>1, <1>2, ChangedDocument
<1> QED
  BY <1>1, <1>3 DEF new

LEMMA ChargedDocument ==
  ASSUME Document(learnings), today \in 0..MaxDays, NEW a \in Agents
  PROVE  /\ Document(ChargedAll(learnings, a)) /\ DOMAIN ChargedAll(learnings, a) = DOMAIN learnings
         /\ \A i \in DOMAIN learnings : ChargedAll(learnings, a)[i] = Charged(learnings[i], a)
<1> DEFINE new == ChargedAll(learnings, a)
<1>1. /\ new = [i \in DOMAIN learnings |-> new[i]] /\ DOMAIN new = DOMAIN learnings
      /\ \A i \in DOMAIN learnings : new[i] = Charged(learnings[i], a)
  BY DEF ChargedAll
<1> HIDE DEF new
<1>2. \A i \in DOMAIN learnings : SameLearning(new[i], learnings[i]) /\ Sane(new[i])
  BY <1>1, DocumentParts, ChargedIs
<1>3. Document(new)
  BY <1>1, <1>2, ChangedDocument
<1> QED
  BY <1>1, <1>3 DEF new

(* One learning of a document is replaced by what became of it.            *)
LEMMA ReplacedDocument ==
  ASSUME NEW doc, Document(doc), NEW i \in DOMAIN doc, NEW l, SameLearning(l, doc[i]), Sane(l)
  PROVE  LET new == [doc EXCEPT ![i] = l] IN
         /\ Document(new) /\ DOMAIN new = DOMAIN doc
         /\ new[i] = l /\ \A k \in DOMAIN doc : k # i => new[k] = doc[k]
<1> DEFINE new == [doc EXCEPT ![i] = l]
<1>1. /\ new = [k \in DOMAIN doc |-> new[k]] /\ DOMAIN new = DOMAIN doc
      /\ new[i] = l /\ \A k \in DOMAIN doc : k # i => new[k] = doc[k]
  <2>1. doc = [k \in DOMAIN doc |-> doc[k]]
    BY DEF Document
  <2>2. new = [k \in DOMAIN doc |-> IF k = i THEN l ELSE doc[k]]
    BY <2>1
  <2> HIDE DEF new
  <2> QED
    BY <2>2
<1> HIDE DEF new
<1>2. \A k \in DOMAIN doc : SameLearning(new[k], doc[k]) /\ Sane(new[k])
  BY <1>1, DocumentParts DEF SameLearning
<1>3. Document(new)
  BY <1>1, <1>2, ChangedDocument
<1> QED
  BY <1>1, <1>3 DEF new

LEMMA LearnNewEffect ==
  ASSUME LearningsTypeOK, Paying, NEW s \in Slots, NEW text \in Texts, LearnNew(s, text)
  PROVE  \E run \in runs[s], id \in Ids :
           /\ run \in Run /\ id \notin Held(learnings) /\ Matching(run.agent, text) = {}
           /\ learnings' = Append(learnings, Taken(id, run.agent, text))
<1>1. InUse \subseteq Ids
  BY DEF InUse
<1>2. Ids # InUse
  BY DEF LearnNew
<1> DEFINE id == Min(Ids \ InUse)
<1>3. id \in Ids \ InUse
  <2>1. Ids \ InUse \in SUBSET Nat /\ Ids \ InUse # {}
    BY <1>1, <1>2, Parameters
  <2> QED
    BY <2>1, MinIsIn
<1>4. id \notin Held(learnings)
  BY <1>3 DEF InUse
<1>5. PICK run \in runs[s] : /\ Matching(run.agent, text) = {}
                             /\ learnings' = Append(learnings, Taken(id, run.agent, text))
  BY DEF LearnNew
<1>6. run \in Run
  BY TypeParts
<1> HIDE DEF id
<1> QED
  BY <1>3, <1>4, <1>5, <1>6

LEMMA LearnAgainEffect ==
  ASSUME LearningsTypeOK, Paying, NEW s \in Slots, NEW text \in Texts, LearnAgain(s, text)
  PROVE  \E run \in runs[s], i \in DOMAIN learnings :
           /\ run \in Run /\ learnings[i].agent = run.agent
           /\ SaysTheSame(learnings[i].text, text)
           /\ learnings' = [learnings EXCEPT ![i] = TakenUp(learnings[i], text)]
<1>1. PICK run \in runs[s] :
        /\ Matching(run.agent, text) # {}
        /\ learnings' = [learnings EXCEPT ![Min(Matching(run.agent, text))] =
                           TakenUp(learnings[Min(Matching(run.agent, text))], text)]
  BY DEF LearnAgain
<1> DEFINE i == Min(Matching(run.agent, text))
<1>2. i \in Matching(run.agent, text)
  <2>1. Matching(run.agent, text) \in SUBSET Nat
    BY DocumentParts DEF Paying, Matching
  <2> QED
    BY <1>1, <2>1, MinIsIn
<1>3. learnings' = [learnings EXCEPT ![i] = TakenUp(learnings[i], text)]
  BY <1>1
<1> HIDE DEF i
<1>4. i \in DOMAIN learnings /\ learnings[i].agent = run.agent /\ SaysTheSame(learnings[i].text, text)
  BY <1>2 DEF Matching
<1>5. run \in Run
  BY TypeParts
<1> QED
  BY <1>3, <1>4, <1>5

LEMMA SaveEffect ==
  ASSUME LearningsTypeOK, Paying, SaveJudgement
  PROVE  \E j \in judging : \E i \in DOMAIN j.document :
           /\ learnings' = [j.document EXCEPT ![i] = Judged(j.document[i], j.state)]
           /\ j.state \in {"confirmed", "rejected"}
           /\ overwritten' = (overwritten \/ learnings # j.document)
<1>1. PICK j \in judging :
        /\ learnings' = [j.document EXCEPT ![At(j.document, j.id)] =
                           Judged(j.document[At(j.document, j.id)], j.state)]
        /\ overwritten' = (overwritten \/ learnings # j.document)
  BY DEF SaveJudgement, Judged
<1>2. At(j.document, j.id) \in DOMAIN j.document
  <2>1. \E i \in DOMAIN j.document : j.document[i].id = j.id
    BY DEF Paying, Held
  <2> QED
    BY <2>1 DEF At
<1>3. j.state \in {"confirmed", "rejected"}
  BY TypeParts
<1> QED
  BY <1>1, <1>2, <1>3

-----------------------------------------------------------------------------
(* Every learning paid for what it is: of what is held, and of what a      *)
(* judgement read and is about to save.                                    *)
LEMMA StartPays ==
  ASSUME LearningsTypeOK, Paying, NEW s \in Slots, NEW a \in Agents, StartRun(s, a) \/ StartUnread(s, a)
  PROVE  Paying' /\ runs' \in [Slots -> Options(Run)]
<1>1. Document(learnings')
  BY ToldDocument DEF StartRun, StartUnread, Paying
<1>2. judging' = judging
  BY DEF StartRun, StartUnread
<1>3. PICK heard \in SUBSET Ids : runs' = [runs EXCEPT ![s] = {[agent |-> a, told |-> heard]}]
  BY ShownAreIds DEF StartRun, StartUnread, Starts, Paying
<1>4. {[agent |-> a, told |-> heard]} \in Options(Run)
  BY DEF Options, Run
<1>5. runs' \in [Slots -> Options(Run)]
  BY <1>3, <1>4, TypeParts
<1> QED
  BY <1>1, <1>2, <1>5 DEF Paying

LEMMA LearnPays ==
  ASSUME LearningsTypeOK, Paying, NEW s \in Slots, NEW text \in Texts,
         LearnNew(s, text) \/ LearnAgain(s, text)
  PROVE  Paying'
<1>1. judging' = judging
  BY DEF LearnNew, LearnAgain
<1>2. CASE LearnNew(s, text)
  <2>1. PICK run \in Run, id \in Ids :
          id \notin Held(learnings) /\ learnings' = Append(learnings, Taken(id, run.agent, text))
    BY <1>2, LearnNewEffect
  <2> DEFINE l == Taken(id, run.agent, text)
  <2>2. run.agent \in Agents
    BY DEF Run
  <2>3. l \in Learning /\ Sane(l) /\ l.id = id
    BY <2>2, TakenIs, TypeParts
  <2> HIDE DEF l
  <2>4. Document(Append(learnings, l))
    BY <2>1, <2>3, LongerDocument DEF Paying
  <2> QED
    BY <1>1, <2>1, <2>4 DEF Paying, l
<1>3. CASE LearnAgain(s, text)
  <2>1. PICK i \in DOMAIN learnings : learnings' = [learnings EXCEPT ![i] = TakenUp(learnings[i], text)]
    BY <1>3, LearnAgainEffect
  <2> DEFINE l == TakenUp(learnings[i], text)
  <2>2. learnings[i] \in Learning /\ Sane(learnings[i])
    BY DocumentParts DEF Paying
  <2>3. SameLearning(l, learnings[i]) /\ Sane(l)
    BY <2>2, AgainIs, TypeParts DEF TakenUp, SameLearning
  <2> HIDE DEF l
  <2>4. Document([learnings EXCEPT ![i] = l])
    BY <2>3, ReplacedDocument DEF Paying
  <2> QED
    BY <1>1, <2>1, <2>4 DEF Paying, l
<1> QED
  BY <1>2, <1>3

LEMMA EndPays ==
  ASSUME LearningsTypeOK, Paying, NEW s \in Slots, EndRun(s) \/ EndUncharged(s)
  PROVE  Paying' /\ runs' \in [Slots -> Options(Run)]
<1>1. judging' = judging
  BY DEF EndRun, EndUncharged
<1>2. CASE EndRun(s)
  <2>1. PICK run \in runs[s] : learnings' = Forgotten(ChargedAll(learnings, run.agent))
    BY <1>2 DEF EndRun
  <2>2. run.agent \in Agents
    BY TypeParts DEF Run
  <2>3. Document(ChargedAll(learnings, run.agent))
    BY <2>2, ChargedDocument, TypeParts DEF Paying
  <2>4. Document(learnings')
    BY <2>1, <2>3, PickedDocument
  <2> QED
    BY <1>1, <1>2, <2>4, TypeParts DEF Paying, EndRun, Options
<1>3. CASE EndUncharged(s)
  BY <1>1, <1>3, TypeParts DEF Paying, EndUncharged, Options
<1> QED
  BY <1>2, <1>3

LEMMA JudgementPays ==
  ASSUME LearningsTypeOK, Paying,
         (\E id \in Ids, state \in {"confirmed", "rejected"} : JudgeLearning(id, state)) \/ SaveJudgement
  PROVE  Paying' /\ \A j \in judging' : j \in Judgement
<1>1. ASSUME NEW id \in Ids, NEW state \in {"confirmed", "rejected"}, JudgeLearning(id, state)
      PROVE  Paying' /\ \A j \in judging' : j \in Judgement
  <2> DEFINE j == [id |-> id, state |-> state, document |-> learnings]
  <2>1. learnings' = learnings /\ judging' = {j} /\ id \in Held(learnings)
    BY <1>1 DEF JudgeLearning
  <2>2. j.document = learnings /\ j.id = id /\ j \in Judgement
    BY DEF Paying, Document, Judgement
  <2> HIDE DEF j
  <2> QED
    BY <2>1, <2>2 DEF Paying
<1>2. CASE SaveJudgement
  <2>1. PICK j \in judging : \E i \in DOMAIN j.document :
           /\ learnings' = [j.document EXCEPT ![i] = Judged(j.document[i], j.state)]
           /\ j.state \in {"confirmed", "rejected"}
    BY <1>2, SaveEffect
  <2> DEFINE doc == j.document
  <2>2. PICK i \in DOMAIN doc : learnings' = [doc EXCEPT ![i] = Judged(doc[i], j.state)]
    BY <2>1
  <2>3. Document(doc)
    BY DEF Paying
  <2> HIDE DEF doc
  <2>4. doc[i] \in Learning /\ Sane(doc[i])
    BY <2>3, DocumentParts
  <2>5. SameLearning(Judged(doc[i], j.state), doc[i]) /\ Sane(Judged(doc[i], j.state))
    BY <2>1, <2>4, JudgedIs
  <2>6. Document(learnings')
    BY <2>2, <2>3, <2>5, ReplacedDocument
  <2>7. judging' = {}
    BY <1>2 DEF SaveJudgement
  <2> QED
    BY <2>6, <2>7 DEF Paying
<1> QED
  BY <1>1, <1>2

LEMMA StepPays ==
  ASSUME LearningsTypeOK, Paying, [LearningsNext]_learningsVars
  PROVE  LearningsTypeOK' /\ Paying'
<1> DEFINE Now == /\ Paying' /\ runs' \in [Slots -> Options(Run)]
                  /\ \A j \in judging' : j \in Judgement
<1>0. /\ runs \in [Slots -> Options(Run)] /\ today \in 0..MaxDays
      /\ trouble \in 0..MaxTrouble /\ judgements \in 0..MaxTrouble
      /\ (\A j \in judging : j \in Judgement) /\ overwritten \in BOOLEAN
  BY TypeParts
<1>1. ASSUME NEW s \in Slots, NEW a \in Agents, StartRun(s, a) \/ StartUnread(s, a) PROVE Now
  BY <1>0, <1>1, StartPays DEF StartRun, StartUnread
<1>2. ASSUME NEW s \in Slots, NEW text \in Texts, LearnNew(s, text) \/ LearnAgain(s, text) PROVE Now
  BY <1>0, <1>2, LearnPays DEF LearnNew, LearnAgain
<1>3. ASSUME NEW s \in Slots, EndRun(s) \/ EndUncharged(s) PROVE Now
  BY <1>0, <1>3, EndPays DEF EndRun, EndUncharged
<1>4. ASSUME NEW id \in Ids, NEW state \in {"confirmed", "rejected"}, JudgeLearning(id, state) PROVE Now
  BY <1>0, <1>4, JudgementPays DEF JudgeLearning
<1>5. ASSUME SaveJudgement PROVE Now
  <2>1. runs' = runs /\ judging' = {}
    BY <1>5 DEF SaveJudgement
  <2>2. Paying'
    BY <1>5, JudgementPays
  <2> QED
    BY <1>0, <2>1, <2>2
<1>6. ASSUME Retain PROVE Now
  <2>1. Document(learnings')
    BY <1>6, PickedDocument DEF Retain, Paying
  <2>2. judging' = judging /\ runs' = runs
    BY <1>6 DEF Retain
  <2> QED
    BY <1>0, <2>1, <2>2 DEF Paying
<1>7. ASSUME DayPasses \/ UNCHANGED learningsVars PROVE Now
  <2>1. learnings' = learnings /\ judging' = judging /\ runs' = runs
    BY <1>7 DEF DayPasses, learningsVars
  <2> QED
    BY <1>0, <2>1 DEF Paying
<1>8. Now
  <2> HIDE DEF Now
  <2> QED
    BY <1>1, <1>2, <1>3, <1>4, <1>5, <1>6, <1>7 DEF LearningsNext
<1> DEFINE Counts == /\ today' \in 0..MaxDays /\ trouble' \in 0..MaxTrouble
                     /\ judgements' \in 0..MaxTrouble /\ overwritten' \in BOOLEAN
<1>9. Counts
  <2>0. /\ trouble + judgements < MaxTrouble =>
             trouble + 1 \in 0..MaxTrouble /\ judgements + 1 \in 0..MaxTrouble
        /\ today < MaxDays => today + 1 \in 0..MaxDays
    BY <1>0, Parameters
  <2>1. ASSUME UNCHANGED <<today, trouble, judgements, overwritten>> PROVE Counts
    BY <1>0, <2>1
  <2>2. ASSUME NEW s \in Slots, NEW a \in Agents, StartRun(s, a) \/ StartUnread(s, a) PROVE Counts
    BY <1>0, <2>0, <2>2 DEF StartRun, StartUnread
  <2>3. ASSUME NEW s \in Slots, NEW text \in Texts, LearnNew(s, text) \/ LearnAgain(s, text) PROVE Counts
    BY <1>0, <2>3 DEF LearnNew, LearnAgain
  <2>4. ASSUME NEW s \in Slots, EndRun(s) \/ EndUncharged(s) PROVE Counts
    BY <1>0, <2>0, <2>4 DEF EndRun, EndUncharged
  <2>5. ASSUME NEW id, NEW state, JudgeLearning(id, state) PROVE Counts
    BY <1>0, <2>0, <2>5 DEF JudgeLearning
  <2>6. ASSUME SaveJudgement PROVE Counts
    BY <1>0, <2>6 DEF SaveJudgement
  <2>7. ASSUME Retain \/ DayPasses \/ UNCHANGED learningsVars PROVE Counts
    BY <1>0, <2>0, <2>7 DEF Retain, DayPasses, learningsVars
  <2> HIDE DEF Counts
  <2> QED
    BY <2>2, <2>3, <2>4, <2>5, <2>6, <2>7 DEF LearningsNext
<1> QED
  BY <1>8, <1>9 DEF LearningsTypeOK, Paying, Document, OneEach

LEMMA InitPays == LearningsInit => LearningsTypeOK /\ Paying
<1> SUFFICES ASSUME LearningsInit PROVE LearningsTypeOK /\ Paying
  OBVIOUS
<1>1. <<>> \in Seq(Learning) /\ DOMAIN <<>> = {}
  BY EmptySeq
<1>2. Document(learnings)
  BY <1>1 DEF LearningsInit, Document, OneEach
<1>3. runs \in [Slots -> Options(Run)]
  BY DEF LearningsInit, Options
<1>4. judging = {} /\ today = 0 /\ trouble = 0 /\ judgements = 0 /\ overwritten = FALSE
  BY DEF LearningsInit
<1>5. LearningsTypeOK
  <2>1. 0 \in 0..MaxDays /\ 0 \in 0..MaxTrouble
    BY Parameters
  <2>2. learnings \in Seq(Learning) /\ \A i, j \in DOMAIN learnings :
                                       learnings[i].id = learnings[j].id => i = j
    BY <1>2 DEF Document, OneEach
  <2> QED
    BY <1>3, <1>4, <2>1, <2>2 DEF LearningsTypeOK
<1> QED
  BY <1>2, <1>4, <1>5 DEF Paying

(* What is held has its type, no two learnings have one number, and so it  *)
(* is with what a judgement is about to save.                              *)
THEOREM LearningsTypeCorrect == LearningsSpec => []LearningsTypeOK
<1> DEFINE Both == LearningsTypeOK /\ Paying
<1>1. LearningsInit => Both
  BY InitPays
<1>2. Both /\ [LearningsNext]_learningsVars => Both'
  BY StepPays
<1>3. Both => LearningsTypeOK
  OBVIOUS
<1> HIDE DEF Both
<1> QED
  BY <1>1, <1>2, <1>3, PTL DEF LearningsSpec

LEMMA AlwaysPaying == LearningsSpec => [](LearningsTypeOK /\ Paying)
<1> DEFINE Both == LearningsTypeOK /\ Paying
<1>1. LearningsInit => Both
  BY InitPays
<1>2. Both /\ [LearningsNext]_learningsVars => Both'
  BY StepPays
<1> QED
  BY <1>1, <1>2, PTL DEF LearningsSpec

(* What no person made permanent was paid for: it lapsed confirm_after     *)
(* times first, and each lapse took provisional_runs runs of its agent to  *)
(* their end, whatever runs overlapped, failed to be charged, or were      *)
(* undone by a judgement that saved over them (learning/mod.rs:53).        *)
THEOREM PermanenceIsPaidFor == LearningsSpec => []PermanenceIsExpensive
<1> DEFINE Both == LearningsTypeOK /\ Paying
<1>1. Both => PermanenceIsExpensive
  <2> SUFFICES ASSUME Paying, NEW i \in DOMAIN learnings, learnings[i].state = "confirmed",
                      ~learnings[i].past.blessed
               PROVE  learnings[i].past.charged >= ConfirmAfter * ProvisionalRuns
    BY DEF PermanenceIsExpensive, Entries
  <2>1. Sane(learnings[i])
    BY DocumentParts DEF Paying
  <2> QED
    BY <2>1 DEF Sane
<1>2. LearningsSpec => []Both
  BY AlwaysPaying
<1> HIDE DEF Both
<1> QED
  BY <1>1, <1>2, PTL

-----------------------------------------------------------------------------
(* How far advice spreads.  What a provisional learning has told, with the  *)
(* runs it has left, is no more than it had plus the runs of its agent that *)
(* are under way and what was never charged, but for the run it came from.  *)
Running(now, a) == {s \in Slots : \E run \in now[s] : run.agent = a}

Atmost(l, running, lost) ==
  /\ l.state = "provisional" => l.past.told + l.runs_left + 1 <= ProvisionalRuns + running + lost
  /\ l.state = "lapsed" => l.past.told + 2 <= ProvisionalRuns + Cardinality(Slots) + lost

SpreadOf(l, now, lost) == Atmost(l, Cardinality(Running(now, l.agent)), lost)

Spread == ~overwritten => \A i \in DOMAIN learnings : SpreadOf(learnings[i], runs, trouble)

LEMMA RunningCount ==
  ASSUME NEW now, NEW a
  PROVE  /\ IsFiniteSet(Running(now, a)) /\ Cardinality(Running(now, a)) \in Nat
         /\ Cardinality(Slots) \in Nat /\ Cardinality(Running(now, a)) <= Cardinality(Slots)
<1>1. Running(now, a) \subseteq Slots
  BY DEF Running
<1>2. IsFiniteSet(Running(now, a)) /\ Cardinality(Running(now, a)) <= Cardinality(Slots)
  BY <1>1, Parameters, FS_Subset
<1> QED
  BY <1>2, Parameters, FS_CardinalityType

LEMMA OneMoreRuns ==
  ASSUME LearningsTypeOK, NEW s \in Slots, NEW a, NEW heard, runs[s] = {},
         runs' = [runs EXCEPT ![s] = {[agent |-> a, told |-> heard]}]
  PROVE  /\ Cardinality(Running(runs', a)) = Cardinality(Running(runs, a)) + 1
         /\ \A b : b # a => Running(runs', b) = Running(runs, b)
<1> DEFINE run == [agent |-> a, told |-> heard]
<1>0. run.agent = a
  OBVIOUS
<1>1. runs'[s] = {run} /\ \A t \in Slots : t # s => runs'[t] = runs[t]
  BY DEF LearningsTypeOK
<1> HIDE DEF run
<1>2. s \notin Running(runs, a)
  BY DEF Running
<1>3. Running(runs', a) = Running(runs, a) \cup {s}
  BY <1>0, <1>1 DEF Running
<1>4. Cardinality(Running(runs, a) \cup {s}) = Cardinality(Running(runs, a)) + 1
  BY <1>2, RunningCount, FS_AddElement
<1>5. \A b : b # a => Running(runs', b) = Running(runs, b)
  BY <1>0, <1>1 DEF Running
<1> QED
  BY <1>3, <1>4, <1>5

LEMMA OneLessRuns ==
  ASSUME LearningsTypeOK, NEW s \in Slots, NEW run \in runs[s], runs' = [runs EXCEPT ![s] = {}]
  PROVE  /\ Cardinality(Running(runs, run.agent)) = Cardinality(Running(runs', run.agent)) + 1
         /\ \A b : b # run.agent => Running(runs', b) = Running(runs, b)
<1>1. runs'[s] = {} /\ \A t \in Slots : t # s => runs'[t] = runs[t]
  BY DEF LearningsTypeOK
<1>2. runs[s] = {run}
  BY TypeParts
<1>3. s \in Running(runs, run.agent)
  BY <1>2 DEF Running
<1>4. Running(runs', run.agent) = Running(runs, run.agent) \ {s}
  BY <1>1, <1>2 DEF Running
<1>5. Cardinality(Running(runs, run.agent) \ {s}) = Cardinality(Running(runs, run.agent)) - 1
  BY <1>3, RunningCount, FS_RemoveElement
<1>6. \A b : b # run.agent => Running(runs', b) = Running(runs, b)
  BY <1>1, <1>2 DEF Running
<1>7. Cardinality(Running(runs, run.agent)) = Cardinality(Running(runs', run.agent)) + 1
  <2> DEFINE n == Cardinality(Running(runs, run.agent))
             n2 == Cardinality(Running(runs', run.agent))
  <2>1. n2 = n - 1 /\ n \in Nat
    BY <1>4, <1>5, RunningCount
  <2> HIDE DEF n, n2
  <2>2. n = n2 + 1
    BY <2>1
  <2> QED
    BY <2>2 DEF n, n2
<1> QED
  BY <1>6, <1>7

LEMMA StartSpreads ==
  ASSUME LearningsTypeOK, Paying, Spread, NEW s \in Slots, NEW a \in Agents,
         StartRun(s, a) \/ StartUnread(s, a)
  PROVE  Spread'
<1> SUFFICES ASSUME ~overwritten', NEW i \in DOMAIN learnings'
             PROVE  SpreadOf(learnings'[i], runs', trouble')
  BY DEF Spread
<1>0. ~overwritten
  BY DEF StartRun, StartUnread
<1>1. PICK heard : runs' = [runs EXCEPT ![s] = {[agent |-> a, told |-> heard]}] /\ runs[s] = {}
  BY DEF StartRun, StartUnread, Starts, MayStart
<1>2. /\ Cardinality(Running(runs', a)) = Cardinality(Running(runs, a)) + 1
      /\ \A b : b # a => Running(runs', b) = Running(runs, b)
  BY <1>1, OneMoreRuns
<1>3. /\ i \in DOMAIN learnings /\ SpreadOf(learnings[i], runs, trouble) /\ learnings[i] \in Learning
  BY <1>0, ToldDocument, DocumentParts DEF StartRun, StartUnread, Paying, Spread
<1> DEFINE l == learnings[i]
           n == Cardinality(Running(runs, l.agent))
           n2 == Cardinality(Running(runs', l.agent))
<1>4. /\ l \in Learning /\ Atmost(l, n, trouble) /\ n \in Nat /\ n2 \in Nat /\ Cardinality(Slots) \in Nat
      /\ (l.agent = a => n2 = n + 1) /\ (l.agent # a => n2 = n) /\ trouble \in Nat
  BY <1>2, <1>3, RunningCount, TypeParts DEF SpreadOf
<1>5. CASE StartUnread(s, a)
  <2>1. learnings'[i] = l /\ trouble' = trouble + 1
    BY <1>5 DEF StartUnread
  <2>2. Atmost(l, n2, trouble + 1)
    <3>1. /\ l.past.told \in Nat /\ l.runs_left \in Nat
      BY <1>4, LearningParts
    <3> HIDE DEF l, n, n2
    <3>2. n <= n2
      BY <1>4
    <3>3. l.state = "provisional" => l.past.told + l.runs_left + 1 <= ProvisionalRuns + n2 + (trouble + 1)
      BY <1>4, <3>1, <3>2, Parameters DEF Atmost
    <3>4. l.state = "lapsed" => l.past.told + 2 <= ProvisionalRuns + Cardinality(Slots) + (trouble + 1)
      BY <1>4, <3>1, Parameters DEF Atmost
    <3> QED
      BY <3>3, <3>4 DEF Atmost
  <2> QED
    BY <2>1, <2>2 DEF SpreadOf
<1>6. CASE StartRun(s, a)
  <2> DEFINE m == ToldOf(l, Shown(a))
  <2>1. learnings'[i] = m /\ trouble' = trouble
    BY <1>3, <1>6, ToldDocument DEF StartRun, Paying
  <2>2. Sane(l)
    BY <1>3, DocumentParts DEF Paying
  <2>3. /\ m.agent = l.agent /\ m.state = l.state /\ m.runs_left = l.runs_left /\ m \in Learning
        /\ m.past.told <= l.past.told + 1 /\ (l.state # "provisional" => m = l)
    BY <1>3, <2>2, ToldOfIs DEF SameLearning
  <2>4. l.agent # a => m = l
    <3>1. l.agent # a => l.id \notin Shown(a)
      BY <1>3 DEF Shown, Paying, Document, OneEach
    <3> QED
      BY <3>1 DEF ToldOf
  <2>5. Atmost(m, n2, trouble)
    <3>1. l.past.told \in Nat /\ l.runs_left \in Nat /\ ProvisionalRuns \in Nat
      BY <1>4, LearningParts, Parameters
    <3>2. m.past.told \in Nat
      BY <2>3, LearningParts
    <3> HIDE DEF l, m, n, n2
    <3>3. CASE l.agent # a
      BY <1>4, <2>4, <3>3
    <3>4. CASE l.agent = a
      BY <1>4, <2>3, <3>1, <3>2, <3>4 DEF Atmost
    <3> QED
      BY <3>3, <3>4
  <2> QED
    BY <2>1, <2>3, <2>5 DEF SpreadOf
<1> QED
  BY <1>5, <1>6

LEMMA LearnSpreads ==
  ASSUME LearningsTypeOK, Paying, Spread, NEW s \in Slots, NEW text \in Texts,
         LearnNew(s, text) \/ LearnAgain(s, text)
  PROVE  Spread'
<1>0. runs' = runs /\ trouble' = trouble /\ overwritten' = overwritten /\ trouble \in Nat
  BY TypeParts DEF LearnNew, LearnAgain
<1>1. ASSUME NEW run \in runs[s], NEW l, l.agent = run.agent, l.past.told = 0,
             l.state = "provisional" => l.runs_left = ProvisionalRuns, l.state \in {"provisional", "confirmed"}
      PROVE  SpreadOf(l, runs, trouble)
  <2>1. s \in Running(runs, l.agent)
    BY <1>1 DEF Running
  <2> DEFINE n == Cardinality(Running(runs, l.agent))
  <2>2. n \in Nat /\ n # 0
    BY <2>1, RunningCount, FS_EmptySet
  <2> HIDE DEF n
  <2>3. Atmost(l, n, trouble)
    BY <1>0, <1>1, <2>2, Parameters DEF Atmost
  <2> QED
    BY <2>3 DEF SpreadOf, n
<1>2. CASE LearnNew(s, text)
  <2>1. PICK run \in runs[s], id \in Ids :
          /\ run \in Run /\ id \notin Held(learnings)
          /\ learnings' = Append(learnings, Taken(id, run.agent, text))
    BY <1>2, LearnNewEffect
  <2> DEFINE l == Taken(id, run.agent, text)
  <2>2. run.agent \in Agents
    BY <2>1 DEF Run
  <2>3. /\ l \in Learning /\ Sane(l) /\ l.id = id /\ l.agent = run.agent /\ l.past.told = 0
        /\ l.runs_left = ProvisionalRuns /\ l.state = "provisional"
    BY <2>2, TakenIs, TypeParts
  <2> HIDE DEF l
  <2>4. SpreadOf(l, runs, trouble)
    BY <1>1, <2>3
  <2>5. /\ DOMAIN learnings' = DOMAIN learnings \cup {Len(learnings) + 1}
        /\ learnings'[Len(learnings) + 1] = l /\ \A i \in DOMAIN learnings : learnings'[i] = learnings[i]
    BY <2>1, <2>3, LongerDocument DEF Paying, l
  <2> QED
    BY <1>0, <2>4, <2>5 DEF Spread
<1>3. CASE LearnAgain(s, text)
  <2>1. PICK run \in runs[s], i \in DOMAIN learnings :
          /\ learnings[i].agent = run.agent
          /\ learnings' = [learnings EXCEPT ![i] = TakenUp(learnings[i], text)]
    BY <1>3, LearnAgainEffect
  <2> DEFINE l == TakenUp(learnings[i], text)
  <2>2. learnings[i] \in Learning /\ Sane(learnings[i])
    BY DocumentParts DEF Paying
  <2>3. SameLearning(l, learnings[i]) /\ Sane(l)
    BY <2>2, AgainIs, TypeParts DEF TakenUp, SameLearning
  <2>4. ASSUME learnings[i].state = "lapsed" PROVE SpreadOf(l, runs, trouble)
    <3>1. /\ l.agent = run.agent /\ l.past.told = 0 /\ l.state \in {"provisional", "confirmed"}
          /\ l.state = "provisional" => l.runs_left = ProvisionalRuns
      BY <2>1, <2>2, <2>4, AgainIs, TypeParts DEF TakenUp, SameLearning
    <3> HIDE DEF l
    <3> QED
      BY <1>1, <3>1
  <2>5. learnings[i].state # "lapsed" => l = learnings[i]
    BY DEF TakenUp
  <2> HIDE DEF l
  <2>6. /\ DOMAIN learnings' = DOMAIN learnings /\ learnings'[i] = l
        /\ \A k \in DOMAIN learnings : k # i => learnings'[k] = learnings[k]
    BY <2>1, <2>3, ReplacedDocument DEF Paying, l
  <2>7. ASSUME ~overwritten, NEW k \in DOMAIN learnings' PROVE SpreadOf(learnings'[k], runs, trouble)
    <3>1. SpreadOf(learnings[k], runs, trouble)
      BY <2>6, <2>7 DEF Spread
    <3>2. CASE k = i /\ learnings[i].state = "lapsed"
      BY <2>4, <2>6, <3>2
    <3> QED
      BY <2>5, <2>6, <3>1, <3>2
  <2> QED
    BY <1>0, <2>7 DEF Spread
<1> QED
  BY <1>2, <1>3

LEMMA EndSpreads ==
  ASSUME LearningsTypeOK, Paying, Spread, NEW s \in Slots, EndRun(s) \/ EndUncharged(s)
  PROVE  Spread'
<1>1. PICK run \in runs[s] : /\ run \in Run
                             /\ EndRun(s) => learnings' = Forgotten(ChargedAll(learnings, run.agent))
  BY TypeParts DEF EndRun, EndUncharged
<1>2. runs' = [runs EXCEPT ![s] = {}] /\ overwritten' = overwritten
  BY DEF EndRun, EndUncharged
<1> DEFINE a == run.agent
<1>3. /\ Cardinality(Running(runs, a)) = Cardinality(Running(runs', a)) + 1
      /\ \A b : b # a => Running(runs', b) = Running(runs, b)
  BY <1>2, OneLessRuns
<1>4. a \in Agents
  BY <1>1 DEF Run
<1> SUFFICES ASSUME ~overwritten, NEW i \in DOMAIN learnings'
             PROVE  SpreadOf(learnings'[i], runs', trouble')
  BY <1>2 DEF Spread
<1>5. ASSUME NEW x \in DOMAIN learnings
      PROVE  LET l == learnings[x]
                 n == Cardinality(Running(runs, l.agent))
                 n2 == Cardinality(Running(runs', l.agent)) IN
             /\ l \in Learning /\ Sane(l) /\ Atmost(l, n, trouble) /\ n \in Nat /\ n2 \in Nat
             /\ Cardinality(Slots) \in Nat /\ n <= Cardinality(Slots) /\ trouble \in Nat
             /\ l.past.told \in Nat /\ l.runs_left \in Nat /\ ProvisionalRuns \in Nat
             /\ (l.agent = a => n = n2 + 1) /\ (l.agent # a => n2 = n)
  <2>1. learnings[x] \in Learning /\ Sane(learnings[x])
    BY DocumentParts DEF Paying
  <2> QED
    BY <1>3, <2>1, RunningCount, TypeParts, LearningParts, Parameters DEF Spread, SpreadOf
<1>6. CASE EndRun(s)
  <2>1. Document(ChargedAll(learnings, a)) /\ DOMAIN ChargedAll(learnings, a) = DOMAIN learnings
        /\ \A x \in DOMAIN learnings : ChargedAll(learnings, a)[x] = Charged(learnings[x], a)
    BY <1>4, ChargedDocument, TypeParts DEF Paying
  <2>2. PICK x \in DOMAIN learnings : learnings'[i] = Charged(learnings[x], a)
    BY <1>1, <1>6, <2>1, PickedDocument
  <2> DEFINE l == learnings[x]
             m == Charged(l, a)
             n == Cardinality(Running(runs, l.agent))
             n2 == Cardinality(Running(runs', l.agent))
  <2>3. /\ SameLearning(m, l) /\ m.past.told = l.past.told
        /\ (l.agent # a \/ l.state # "provisional" => m = l)
        /\ (l.agent = a /\ l.state = "provisional" =>
              \/ m.state = "provisional" /\ m.runs_left = l.runs_left - 1
              \/ m.state = "lapsed" /\ l.runs_left = 1)
    BY <1>4, <1>5, ChargedIs, TypeParts
  <2>4. trouble' = trouble
    BY <1>6 DEF EndRun
  <2>5. Atmost(m, n2, trouble)
    <3>1. /\ Atmost(l, n, trouble) /\ n \in Nat /\ n2 \in Nat
          /\ Cardinality(Slots) \in Nat /\ n <= Cardinality(Slots) /\ trouble \in Nat
          /\ l.past.told \in Nat /\ l.runs_left \in Nat /\ ProvisionalRuns \in Nat
          /\ (l.agent = a => n = n2 + 1) /\ (l.agent # a => n2 = n)
      BY <1>5
    <3> HIDE DEF l, m, n, n2, a
    <3>2. CASE l.agent # a
      BY <2>3, <3>1, <3>2
    <3>3. CASE l.agent = a /\ l.state # "provisional"
      BY <2>3, <3>1, <3>3 DEF Atmost
    <3>4. CASE l.agent = a /\ l.state = "provisional"
      BY <2>3, <3>1, <3>4 DEF Atmost
    <3> QED
      BY <3>2, <3>3, <3>4
  <2> QED
    BY <2>2, <2>3, <2>4, <2>5 DEF SpreadOf, SameLearning
<1>7. CASE EndUncharged(s)
  <2> DEFINE l == learnings[i]
             n == Cardinality(Running(runs, l.agent))
             n2 == Cardinality(Running(runs', l.agent))
  <2>1. learnings'[i] = l /\ i \in DOMAIN learnings /\ trouble' = trouble + 1
    BY <1>7 DEF EndUncharged
  <2>2. /\ Atmost(l, n, trouble) /\ n \in Nat /\ n2 \in Nat
        /\ Cardinality(Slots) \in Nat /\ trouble \in Nat
        /\ l.past.told \in Nat /\ l.runs_left \in Nat /\ ProvisionalRuns \in Nat
        /\ (n = n2 + 1 \/ n2 = n)
    BY <1>5, <2>1
  <2>3. Atmost(l, n2, trouble + 1)
    <3> HIDE DEF l, n, n2
    <3> QED
      BY <2>2 DEF Atmost
  <2> QED
    BY <2>1, <2>3 DEF SpreadOf
<1> QED
  BY <1>6, <1>7

LEMMA SaveSpreads ==
  ASSUME LearningsTypeOK, Paying, Spread, SaveJudgement
  PROVE  Spread'
<1> SUFFICES ASSUME ~overwritten', NEW k \in DOMAIN learnings'
             PROVE  SpreadOf(learnings'[k], runs', trouble')
  BY DEF Spread
<1>1. PICK j \in judging : \E i \in DOMAIN j.document :
        /\ learnings' = [j.document EXCEPT ![i] = Judged(j.document[i], j.state)]
        /\ j.state \in {"confirmed", "rejected"}
        /\ overwritten' = (overwritten \/ learnings # j.document)
  BY SaveEffect
<1>2. ~overwritten /\ j.document = learnings /\ runs' = runs /\ trouble' = trouble
  BY <1>1, TypeParts DEF SaveJudgement
<1>3. PICK i \in DOMAIN learnings : learnings' = [learnings EXCEPT ![i] = Judged(learnings[i], j.state)]
  BY <1>1, <1>2
<1> DEFINE l == Judged(learnings[i], j.state)
<1>4. learnings[i] \in Learning /\ Sane(learnings[i])
  BY DocumentParts DEF Paying
<1>5. SameLearning(l, learnings[i]) /\ Sane(l) /\ l.state = j.state
  BY <1>1, <1>4, JudgedIs
<1> HIDE DEF l
<1>6. /\ DOMAIN learnings' = DOMAIN learnings /\ learnings'[i] = l
      /\ \A x \in DOMAIN learnings : x # i => learnings'[x] = learnings[x]
  BY <1>3, <1>5, ReplacedDocument DEF Paying, l
<1>7. SpreadOf(l, runs, trouble)
  BY <1>1, <1>5 DEF SpreadOf, Atmost
<1>8. SpreadOf(learnings[k], runs, trouble)
  BY <1>2, <1>6 DEF Spread
<1> QED
  BY <1>2, <1>6, <1>7, <1>8

LEMMA StepSpreads ==
  ASSUME LearningsTypeOK, Paying, Spread, [LearningsNext]_learningsVars
  PROVE  Spread'
<1>1. ASSUME Retain PROVE Spread'
  <2>1. \A i \in DOMAIN learnings' : \E x \in DOMAIN learnings : learnings'[i] = learnings[x]
    BY <1>1, PickedDocument DEF Retain, Paying
  <2>2. runs' = runs /\ trouble' = trouble /\ overwritten' = overwritten
    BY <1>1 DEF Retain
  <2> QED
    BY <2>1, <2>2 DEF Spread
<1>2. ASSUME NEW id, NEW state, JudgeLearning(id, state) PROVE Spread'
  BY <1>2 DEF JudgeLearning, Spread
<1>3. ASSUME DayPasses \/ UNCHANGED learningsVars PROVE Spread'
  BY <1>3 DEF DayPasses, learningsVars, Spread
<1> QED
  BY <1>1, <1>2, <1>3, StartSpreads, LearnSpreads, EndSpreads, SaveSpreads DEF LearningsNext

(* Advice nobody comes back to is given to a bounded number of runs each    *)
(* time it is taken up: with any slots, any number of learnings and texts,  *)
(* any overlap of runs and any charges that were lost, unless a judgement   *)
(* saved over a change (ledger.rs propose_under and charge_run).            *)
THEOREM FlukesDieOut == LearningsSpec => []FlukesAreBounded
<1> DEFINE Both == LearningsTypeOK /\ Paying
           All == Both /\ Spread
<1>1. LearningsInit => All
  <2>1. LearningsInit => DOMAIN learnings = {}
    BY EmptySeq DEF LearningsInit
  <2> QED
    BY <2>1, InitPays DEF Spread
<1>2. All /\ [LearningsNext]_learningsVars => All'
  BY StepPays, StepSpreads
<1>3. All => FlukesAreBounded
  <2> SUFFICES ASSUME LearningsTypeOK, Paying, Spread, ~overwritten, NEW i \in DOMAIN learnings,
                      learnings[i].state \in {"provisional", "lapsed"}
               PROVE  learnings[i].past.told <= ProvisionalRuns + Cardinality(Slots) - 2 + trouble
    BY DEF FlukesAreBounded, Entries
  <2> DEFINE l == learnings[i]
             n == Cardinality(Running(runs, l.agent))
  <2>1. l \in Learning /\ Sane(l) /\ Atmost(l, n, trouble)
    BY DocumentParts DEF Paying, Spread, SpreadOf
  <2>2. /\ n \in Nat /\ Cardinality(Slots) \in Nat /\ n <= Cardinality(Slots) /\ trouble \in Nat
        /\ l.past.told \in Nat /\ l.runs_left \in Nat /\ ProvisionalRuns \in Nat
    BY <2>1, RunningCount, TypeParts, LearningParts, Parameters
  <2>3. l.state = "provisional" => l.runs_left >= 1
    BY <2>1, <2>2 DEF Sane
  <2>4. l.state \in {"provisional", "lapsed"}
    OBVIOUS
  <2> HIDE DEF l, n
  <2>5. l.past.told <= ProvisionalRuns + Cardinality(Slots) - 2 + trouble
    BY <2>1, <2>2, <2>3, <2>4 DEF Atmost
  <2> QED
    BY <2>5 DEF l
<1> HIDE DEF All
<1> QED
  BY <1>1, <1>2, <1>3, PTL DEF LearningsSpec

-----------------------------------------------------------------------------
(* What a person rejected.  No two learnings of an agent say the same, and  *)
(* that is why the one a person refused is not there in other words.  Saying *)
(* the same is not transitive for all texts, so this is a hypothesis:       *)
(* without it, rewording drifts past what was refused.                      *)
Consistent ==
  \A s, t, u \in Texts : SaysTheSame(s, t) /\ SaysTheSame(t, u) => SaysTheSame(s, u)

Differ(doc) ==
  \A i, k \in DOMAIN doc :
    i # k /\ doc[i].agent = doc[k].agent => ~SaysTheSame(doc[i].text, doc[k].text)

Differing == Differ(learnings) /\ \A j \in judging : Differ(j.document)

LEMMA SayingIsMutual ==
  ASSUME NEW s, NEW t, SaysTheSame(s, t)
  PROVE  SaysTheSame(t, s)
<1>1. /\ t.words \cap s.words = s.words \cap t.words
      /\ {Cardinality(t.words), Cardinality(s.words)} = {Cardinality(s.words), Cardinality(t.words)}
  OBVIOUS
<1> QED
  BY <1>1, Zenon DEF SaysTheSame

LEMMA ReplacedDiffers ==
  ASSUME Consistent, NEW doc, Document(doc), Differ(doc), NEW i \in DOMAIN doc,
         NEW l, SameLearning(l, doc[i]), Sane(l), l.text = doc[i].text \/ SaysTheSame(doc[i].text, l.text)
  PROVE  Differ([doc EXCEPT ![i] = l])
<1> DEFINE new == [doc EXCEPT ![i] = l]
<1>1. /\ DOMAIN new = DOMAIN doc /\ new[i] = l /\ \A k \in DOMAIN doc : k # i => new[k] = doc[k]
  BY ReplacedDocument
<1> HIDE DEF new
<1>2. \A k \in DOMAIN doc : doc[k] \in Learning /\ doc[k].text \in Texts
  BY DocumentParts, LearningParts
<1>3. l.text \in Texts /\ l.agent = doc[i].agent
  BY LearningParts DEF SameLearning
<1>4. ASSUME NEW k \in DOMAIN doc, k # i, doc[k].agent = l.agent, SaysTheSame(l.text, doc[k].text)
      PROVE  FALSE
  <2>1. SaysTheSame(doc[i].text, doc[k].text)
    BY <1>2, <1>3, <1>4 DEF Consistent
  <2> QED
    BY <1>3, <1>4, <2>1 DEF Differ
<1>5. ASSUME NEW x \in DOMAIN doc, NEW y \in DOMAIN doc, x # y, new[x].agent = new[y].agent,
             SaysTheSame(new[x].text, new[y].text)
      PROVE  FALSE
  <2>1. CASE x = i
    BY <1>1, <1>4, <1>5, <2>1
  <2>2. CASE y = i
    BY <1>1, <1>4, <1>5, <2>2, SayingIsMutual
  <2>3. CASE x # i /\ y # i
    BY <1>1, <1>5, <2>3 DEF Differ
  <2> QED
    BY <2>1, <2>2, <2>3
<1> QED
  BY <1>1, <1>5 DEF Differ, new

LEMMA StepDiffers ==
  ASSUME Consistent, LearningsTypeOK, Paying, Differing, [LearningsNext]_learningsVars
  PROVE  Differing'
<1>1. ASSUME NEW s \in Slots, NEW a \in Agents, StartRun(s, a) \/ StartUnread(s, a) PROVE Differing'
  <2>1. ASSUME StartRun(s, a) PROVE Differ(learnings')
    <3> DEFINE new == Told(Shown(a))
    <3>1. /\ learnings' = new /\ DOMAIN new = DOMAIN learnings
          /\ \A i \in DOMAIN learnings : new[i] = ToldOf(learnings[i], Shown(a))
      BY <2>1, ToldDocument DEF StartRun, Paying
    <3>2. \A i \in DOMAIN learnings : learnings[i] \in Learning /\ Sane(learnings[i])
      BY DocumentParts DEF Paying
    <3> HIDE DEF new
    <3>3. \A i \in DOMAIN learnings : /\ new[i].agent = learnings[i].agent
                                      /\ new[i].text = learnings[i].text
      BY <3>1, <3>2, ToldOfIs DEF SameLearning
    <3> QED
      BY <3>1, <3>3 DEF Differ, Differing
  <2>2. StartUnread(s, a) => learnings' = learnings
    BY DEF StartUnread
  <2>3. judging' = judging
    BY <1>1 DEF StartRun, StartUnread
  <2> QED
    BY <1>1, <2>1, <2>2, <2>3 DEF Differing
<1>2. ASSUME NEW s \in Slots, NEW text \in Texts, LearnNew(s, text) PROVE Differing'
  <2>1. PICK run \in runs[s], id \in Ids :
          /\ run \in Run /\ id \notin Held(learnings) /\ Matching(run.agent, text) = {}
          /\ learnings' = Append(learnings, Taken(id, run.agent, text))
    BY <1>2, LearnNewEffect
  <2> DEFINE l == Taken(id, run.agent, text)
             n == Len(learnings) + 1
  <2>2. run.agent \in Agents
    BY <2>1 DEF Run
  <2>3. l \in Learning /\ Sane(l) /\ l.id = id /\ l.agent = run.agent /\ l.text = text
    BY <2>2, TakenIs, TypeParts
  <2> HIDE DEF l
  <2>4. /\ DOMAIN learnings' = DOMAIN learnings \cup {n} /\ n \notin DOMAIN learnings
        /\ learnings'[n] = l /\ \A i \in DOMAIN learnings : learnings'[i] = learnings[i]
    BY <2>1, <2>3, LongerDocument DEF Paying, l
  <2> HIDE DEF n
  <2>5. \A i \in DOMAIN learnings : learnings[i].agent = l.agent => ~SaysTheSame(learnings[i].text, l.text)
    BY <2>1, <2>3 DEF Matching
  <2>6. \A i \in DOMAIN learnings : learnings[i].agent = l.agent => ~SaysTheSame(l.text, learnings[i].text)
    BY <2>5, SayingIsMutual
  <2>7. Differ(learnings')
    BY <2>4, <2>5, <2>6 DEF Differ, Differing
  <2>8. judging' = judging
    BY <1>2 DEF LearnNew
  <2> QED
    BY <2>7, <2>8 DEF Differing
<1>3. ASSUME NEW s \in Slots, NEW text \in Texts, LearnAgain(s, text) PROVE Differing'
  <2>1. PICK i \in DOMAIN learnings :
          /\ SaysTheSame(learnings[i].text, text)
          /\ learnings' = [learnings EXCEPT ![i] = TakenUp(learnings[i], text)]
    BY <1>3, LearnAgainEffect
  <2> DEFINE l == TakenUp(learnings[i], text)
  <2>2. learnings[i] \in Learning /\ Sane(learnings[i])
    BY DocumentParts DEF Paying
  <2>3. /\ SameLearning(l, learnings[i]) /\ Sane(l)
        /\ l.text = learnings[i].text \/ l.text = text
    BY <2>2, AgainIs, TypeParts DEF TakenUp, SameLearning
  <2> HIDE DEF l
  <2>4. Differ([learnings EXCEPT ![i] = l])
    BY <2>1, <2>3, ReplacedDiffers DEF Paying, Differing
  <2>5. judging' = judging
    BY <1>3 DEF LearnAgain
  <2> QED
    BY <2>1, <2>4, <2>5 DEF Differing, l
<1>4. ASSUME NEW doc, Document(doc), Differ(doc) PROVE Differ(Forgotten(doc))
  <2>1. \A i, k \in DOMAIN Forgotten(doc) : i # k =>
           \E x, y \in DOMAIN doc : x # y /\ Forgotten(doc)[i] = doc[x] /\ Forgotten(doc)[k] = doc[y]
    BY <1>4, PickedDocument
  <2> QED
    BY <1>4, <2>1 DEF Differ
<1>5. ASSUME NEW s \in Slots, EndRun(s) \/ EndUncharged(s) PROVE Differing'
  <2>1. ASSUME EndRun(s) PROVE Differ(learnings')
    <3>1. PICK run \in runs[s] : run \in Run /\ learnings' = Forgotten(ChargedAll(learnings, run.agent))
      BY <2>1, TypeParts DEF EndRun
    <3>2. run.agent \in Agents
      BY <3>1 DEF Run
    <3> DEFINE new == ChargedAll(learnings, run.agent)
    <3>3. /\ Document(new) /\ DOMAIN new = DOMAIN learnings
          /\ \A i \in DOMAIN learnings : new[i] = Charged(learnings[i], run.agent)
      BY <3>2, ChargedDocument, TypeParts DEF Paying
    <3>4. \A i \in DOMAIN learnings : learnings[i] \in Learning /\ Sane(learnings[i])
      BY DocumentParts DEF Paying
    <3> HIDE DEF new
    <3>5. \A i \in DOMAIN learnings : /\ new[i].agent = learnings[i].agent
                                      /\ new[i].text = learnings[i].text
      BY <3>2, <3>3, <3>4, ChargedIs, TypeParts DEF SameLearning
    <3>6. Differ(new)
      BY <3>3, <3>5 DEF Differ, Differing
    <3> QED
      BY <1>4, <3>1, <3>3, <3>6 DEF new
  <2>2. EndUncharged(s) => learnings' = learnings
    BY DEF EndUncharged
  <2>3. judging' = judging
    BY <1>5 DEF EndRun, EndUncharged
  <2> QED
    BY <1>5, <2>1, <2>2, <2>3 DEF Differing
<1>6. ASSUME NEW id, NEW state, JudgeLearning(id, state) PROVE Differing'
  BY <1>6 DEF JudgeLearning, Differing
<1>7. ASSUME SaveJudgement PROVE Differing'
  <2>1. PICK j \in judging : \E i \in DOMAIN j.document :
           /\ learnings' = [j.document EXCEPT ![i] = Judged(j.document[i], j.state)]
           /\ j.state \in {"confirmed", "rejected"}
    BY <1>7, SaveEffect
  <2> DEFINE doc == j.document
  <2>2. PICK i \in DOMAIN doc : learnings' = [doc EXCEPT ![i] = Judged(doc[i], j.state)]
    BY <2>1
  <2>3. Document(doc) /\ Differ(doc)
    BY DEF Paying, Differing
  <2> HIDE DEF doc
  <2> DEFINE l == Judged(doc[i], j.state)
  <2>4. SameLearning(l, doc[i]) /\ Sane(l) /\ l.text = doc[i].text
    BY <2>1, <2>3, DocumentParts, JudgedIs
  <2> HIDE DEF l
  <2>5. Differ([doc EXCEPT ![i] = l])
    BY <2>3, <2>4, ReplacedDiffers
  <2>6. judging' = {}
    BY <1>7 DEF SaveJudgement
  <2> QED
    BY <2>2, <2>5, <2>6 DEF Differing, l
<1>8. ASSUME Retain PROVE Differing'
  BY <1>4, <1>8 DEF Retain, Differing, Paying
<1>9. ASSUME DayPasses \/ UNCHANGED learningsVars PROVE Differing'
  BY <1>9 DEF DayPasses, learningsVars, Differing
<1> QED
  BY <1>1, <1>2, <1>3, <1>5, <1>6, <1>7, <1>8, <1>9 DEF LearningsNext

(* What a person rejected is not told to its agent again in other words,    *)
(* however it is proposed, reworded, lapsed or forgotten since, and whatever *)
(* a judgement saved over, where saying the same carries from text to text. *)
THEOREM RejectionsHold ==
  ASSUME Consistent
  PROVE  LearningsSpec => []RejectedStaysOut
<1> DEFINE Both == LearningsTypeOK /\ Paying
           All == Both /\ Differing
<1>1. LearningsInit => All
  <2>1. LearningsInit => Differing
    <3>1. LearningsInit => DOMAIN learnings = {} /\ judging = {}
      BY EmptySeq DEF LearningsInit
    <3> QED
      BY <3>1 DEF Differing, Differ
  <2> QED
    BY <2>1, InitPays
<1>2. All /\ [LearningsNext]_learningsVars => All'
  BY StepPays, StepDiffers
<1>3. All => RejectedStaysOut
  <2> SUFFICES ASSUME Differing, NEW i \in DOMAIN learnings, NEW k \in DOMAIN learnings,
                      learnings[i].agent = learnings[k].agent,
                      learnings[i].state = "rejected", IsActive(learnings[k])
               PROVE  ~SaysTheSame(learnings[i].text, learnings[k].text)
    BY DEF RejectedStaysOut, Entries
  <2>1. i # k
    BY DEF IsActive
  <2> QED
    BY <2>1 DEF Differing, Differ
<1> HIDE DEF All
<1> QED
  BY <1>1, <1>2, <1>3, PTL DEF LearningsSpec
=============================================================================
