----------------------------- MODULE Learnings -----------------------------
(***************************************************************************)
(* What agents propose to their later selves: layover-core/src/learning,    *)
(* with the callers that move it.  A proposal applies at once and lapses     *)
(* after a number of its agent's runs; proposed again after that, it is      *)
(* rediscovered, and rediscovered often enough it is permanent.  Runs of one *)
(* agent overlap, so a run may propose what was lapsed by the end of another.*)
(*                                                                         *)
(* The journal's lock makes each change one step, but for the dashboard's,   *)
(* which reads, judges and saves: Journal shows what that loses, and         *)
(* `overwritten` says here that it happened.  Proposals are screened and     *)
(* taken up in the order of their timestamps.  A text is its significant     *)
(* words and whether it negates.                                            *)
(***************************************************************************)
EXTENDS Naturals, Sequences, FiniteSets, FiniteSetsExt

CONSTANTS
  Agents,
  Texts,            \* what may be proposed: [words, negated]
  Unfit,            \* of them, what is too long, empty or refused by the screen
  Ids,              \* numbers: bound on the learnings held or referred to
  Slots,            \* what may run at once
  ProvisionalRuns, ConfirmAfter, PerRun, KeepDays,
  MaxDays,
  MaxTrouble        \* bound on judgements, and on reads and writes that fail

ASSUME LearningsAssumption ==
  /\ \A t \in Texts : IsFiniteSet(t.words) /\ t.negated \in BOOLEAN
  /\ IsFiniteSet(Slots)
  /\ Unfit \subseteq Texts /\ Ids \subseteq Nat
  \* validate/learnings.rs refuses a zero in any of these
  /\ {ProvisionalRuns, ConfirmAfter, PerRun} \subseteq Nat \ {0}
  /\ {KeepDays, MaxDays, MaxTrouble} \subseteq Nat

VARIABLES
  learnings,     \* the file: every learning held, in the order first proposed
  runs,          \* per slot, the run in it: see Run
  judging,       \* what a judgement under way has read, {} when there is none
  today, trouble, judgements,
  overwritten    \* for the properties: a judgement saved over another change

learningsVars == <<learnings, runs, judging, today, trouble, judgements, overwritten>>

Options(S) == {{}} \cup {{x} : x \in S}

\* For the properties: how many runs were told of it since it was last taken up, how many were
\* charged to it, the day it was last in use, and whether a person made it permanent.
Past == [told : Nat, charged : Nat, used : 0..MaxDays, blessed : BOOLEAN]

Learning == [id : Ids, agent : Agents, text : Texts,
             state : {"provisional", "confirmed", "lapsed", "rejected"},
             proposals : Nat, runs_left : Nat, lapsed_at : Options(0..MaxDays), past : Past]

Run == [agent : Agents, told : SUBSET Ids]

Judgement == [id : Ids, state : {"confirmed", "rejected"}, document : Seq(Learning)]

---------------------------------------------------------------------------
(* Whether two texts say the same thing: few words differ, or one elaborates the other. *)

SaysTheSame(s, t) ==
  LET shared == Cardinality(s.words \cap t.words)
      shorter == Min({Cardinality(s.words), Cardinality(t.words)})
      longer == Max({Cardinality(s.words), Cardinality(t.words)}) IN
  /\ s.negated = t.negated
  /\ shorter > 0
  /\ \/ 5 * shared >= 4 * (longer + shorter - shared)
     \/ shared = shorter /\ shorter >= 3 /\ longer <= 2 * shorter

Fits(text) == text \notin Unfit

IsActive(l) == l.state \in {"provisional", "confirmed"}

Held(doc) == {doc[i].id : i \in DOMAIN doc}
At(doc, id) == CHOOSE i \in DOMAIN doc : doc[i].id = id

MatchingButRejected(a, text) ==
  {i \in DOMAIN learnings : learnings[i].agent = a /\ learnings[i].state # "rejected"
                              /\ SaysTheSame(learnings[i].text, text)}

Matching(a, text) ==
  {i \in DOMAIN learnings : learnings[i].agent = a /\ SaysTheSame(learnings[i].text, text)}

---------------------------------------------------------------------------
(* The ledger. *)

Taken(id, a, text) ==
  [id |-> id, agent |-> a, text |-> text, state |-> "provisional", proposals |-> 1,
   runs_left |-> ProvisionalRuns, lapsed_at |-> {},
   past |-> [told |-> 0, charged |-> 0, used |-> today, blessed |-> FALSE]]

\* Rediscovered: its proposals before this one are its rediscoveries with it.
Again(l, text) ==
  [l EXCEPT !.text = text, !.lapsed_at = {}, !.proposals = @ + 1,
            !.state = IF l.proposals >= ConfirmAfter THEN "confirmed" ELSE "provisional",
            !.runs_left = IF l.proposals >= ConfirmAfter THEN 0 ELSE ProvisionalRuns,
            !.past.told = 0, !.past.used = today]

TakenUpProlonging(l, text) ==
  CASE l.state = "lapsed" -> Again(l, text)
    [] l.state = "provisional" -> [l EXCEPT !.runs_left = ProvisionalRuns]
    [] OTHER -> l

TakenUpCounting(l, text) ==
  IF l.state \in {"lapsed", "provisional"} THEN Again(l, text) ELSE l

\* propose, of something held: an echo and what a person refused change nothing.
TakenUp(l, text) == IF l.state = "lapsed" THEN Again(l, text) ELSE l

\* charge_run, for one learning.
Charged(l, a) ==
  IF l.agent # a \/ l.state # "provisional" THEN l
  ELSE LET used == [l EXCEPT !.past.charged = @ + 1, !.past.used = today] IN
       IF l.runs_left > 1 THEN [used EXCEPT !.runs_left = @ - 1]
       ELSE [used EXCEPT !.runs_left = 0, !.state = "lapsed", !.lapsed_at = @ \cup {today}]

ChargedAll(doc, a) == [i \in DOMAIN doc |-> Charged(doc[i], a)]

Stale(l) == l.state = "lapsed" /\ \E day \in l.lapsed_at : day + KeepDays <= today

\* forget_lapsed: what of the first n learnings is kept, in their order.
Kept(doc) ==
  LET kept[n \in 0..Len(doc)] ==
        IF n = 0 THEN <<>>
        ELSE IF Stale(doc[n]) THEN kept[n - 1] ELSE Append(kept[n - 1], doc[n])
  IN  kept

Forgotten(doc) == Kept(doc)[Len(doc)]

\* What a run of `a` is told: confirmed ones first, then the oldest, and no more than PerRun.
Ahead(i, j) ==
  LET first(k) == learnings[k].state = "confirmed" IN
  IF first(i) = first(j) THEN i < j ELSE first(i)

Shown(a) ==
  LET active == {i \in DOMAIN learnings : learnings[i].agent = a /\ IsActive(learnings[i])} IN
  {learnings[i].id : i \in {j \in active : Cardinality({k \in active : Ahead(k, j)}) < PerRun}}

---------------------------------------------------------------------------

LearningsInit ==
  /\ learnings = <<>>
  /\ runs = [s \in Slots |-> {}]
  /\ judging = {}
  /\ today = 0 /\ trouble = 0 /\ judgements = 0
  /\ overwritten = FALSE

\* What anything still refers to: a ULID is never used again.
InUse == {id \in Ids : \/ id \in Held(learnings)
                       \/ \E s \in Slots : \E run \in runs[s] : id \in run.told
                       \/ \E j \in judging : id \in Held(j.document)}

\* Bound: no run starts between a judgement's reading and its saving.
MayStart(s) == runs[s] = {} /\ judging = {}

Starts(s, a, told) == runs' = [runs EXCEPT ![s] = {[agent |-> a, told |-> told]}]

\* Nothing is written: that the run was told is for the properties.
Told(ids) ==
  [i \in DOMAIN learnings |->
     IF learnings[i].id \in ids /\ learnings[i].state = "provisional"
     THEN [learnings[i] EXCEPT !.past.told = @ + 1] ELSE learnings[i]]

StartRun(s, a) ==
  /\ MayStart(s)
  /\ Starts(s, a, Shown(a))
  /\ learnings' = Told(Shown(a))
  /\ UNCHANGED <<judging, today, trouble, judgements, overwritten>>

\* A file that cannot be read is nothing to tell.
StartUnread(s, a) ==
  /\ MayStart(s) /\ trouble + judgements < MaxTrouble
  /\ Starts(s, a, {})
  /\ trouble' = trouble + 1
  /\ UNCHANGED <<learnings, judging, today, judgements, overwritten>>

\* layover_learn, of something new.
LearnNew(s, text) ==
  /\ Fits(text) /\ Ids # InUse
  /\ \E run \in runs[s] :
       /\ Matching(run.agent, text) = {}
       /\ learnings' = Append(learnings, Taken(Min(Ids \ InUse), run.agent, text))
  /\ UNCHANGED <<runs, judging, today, trouble, judgements, overwritten>>

\* layover_learn, of something held: the first that says the same.
LearnAgain(s, text) ==
  /\ Fits(text)
  /\ \E run \in runs[s] :
       /\ Matching(run.agent, text) # {}
       /\ LET i == Min(Matching(run.agent, text)) IN
          learnings' = [learnings EXCEPT ![i] = TakenUp(@, text)]
  /\ UNCHANGED <<runs, judging, today, trouble, judgements, overwritten>>

\* A run ends, however it ends: its agent's learnings are charged and the stale ones deleted.
EndRun(s) ==
  /\ \E run \in runs[s] : learnings' = Forgotten(ChargedAll(learnings, run.agent))
  /\ runs' = [runs EXCEPT ![s] = {}]
  /\ UNCHANGED <<judging, today, trouble, judgements, overwritten>>

\* The same when the file cannot be written, which nobody is told.
EndUncharged(s) ==
  /\ runs[s] # {} /\ trouble + judgements < MaxTrouble
  /\ runs' = [runs EXCEPT ![s] = {}]
  /\ trouble' = trouble + 1
  /\ UNCHANGED <<learnings, judging, today, judgements, overwritten>>

\* A person judges one: the dashboard reads, changes what it read, and saves it.
JudgeLearning(id, state) ==
  /\ judging = {} /\ trouble + judgements < MaxTrouble
  /\ id \in Held(learnings)
  /\ judging' = {[id |-> id, state |-> state, document |-> learnings]}
  /\ judgements' = judgements + 1
  /\ UNCHANGED <<learnings, runs, today, trouble, overwritten>>

Judged(l, state) ==
  [l EXCEPT !.state = state, !.runs_left = 0, !.lapsed_at = {},
            !.past.blessed = @ \/ state = "confirmed"]

SaveJudgement ==
  /\ \E j \in judging :
       /\ learnings' = [j.document EXCEPT ![At(j.document, j.id)] = Judged(@, j.state)]
       /\ overwritten' = (overwritten \/ learnings # j.document)
  /\ judging' = {}
  /\ UNCHANGED <<runs, today, trouble, judgements>>

\* A Tower that starts deletes what went stale while nothing ran.
Retain ==
  /\ Forgotten(learnings) # learnings
  /\ learnings' = Forgotten(learnings)
  /\ UNCHANGED <<runs, judging, today, trouble, judgements, overwritten>>

DayPasses ==
  /\ today < MaxDays
  /\ today' = today + 1
  /\ UNCHANGED <<learnings, runs, judging, trouble, judgements, overwritten>>

LearningsNext ==
  \/ \E s \in Slots, a \in Agents : StartRun(s, a)
  \/ \E s \in Slots, a \in Agents : StartUnread(s, a)
  \/ \E s \in Slots, text \in Texts : LearnNew(s, text)
  \/ \E s \in Slots, text \in Texts : LearnAgain(s, text)
  \/ \E s \in Slots : EndRun(s)
  \/ \E s \in Slots : EndUncharged(s)
  \/ \E id \in Ids, state \in {"confirmed", "rejected"} : JudgeLearning(id, state)
  \/ SaveJudgement
  \/ Retain
  \/ DayPasses

LearningsSpec == LearningsInit /\ [][LearningsNext]_learningsVars

---------------------------------------------------------------------------
(* Properties. *)

LearningsTypeOK ==
  /\ learnings \in Seq(Learning)
  /\ \A i, j \in DOMAIN learnings : learnings[i].id = learnings[j].id => i = j
  /\ runs \in [Slots -> Options(Run)]
  /\ \A j \in judging : j \in Judgement
  /\ today \in 0..MaxDays /\ trouble \in 0..MaxTrouble /\ judgements \in 0..MaxTrouble
  /\ overwritten \in BOOLEAN

Entries == {learnings[i] : i \in DOMAIN learnings}

\* Advice nobody comes back to misleads a bounded number of runs each time it is taken up: one
\* fewer than provisional_runs, for the run that proposed it pays for it too, and one more for
\* every other slot and every charge that was lost.  Repeating it does not prolong it.
FlukesAreBounded ==
  \A l \in Entries :
    (l.state \in {"provisional", "lapsed"} /\ ~overwritten)
    => l.past.told <= ProvisionalRuns + Cardinality(Slots) - 2 + trouble

\* What no person confirmed is permanent only after confirm_after full lapses: that many times
\* provisional_runs runs of its agent ended on the way (learning/mod.rs:53).
PermanenceIsExpensive ==
  \A l \in Entries :
    (l.state = "confirmed" /\ ~l.past.blessed)
    => l.past.charged >= ConfirmAfter * ProvisionalRuns

\* What a person rejected is not told to the agent again in other words, whatever is proposed,
\* reworded, lapsed or forgotten since.
RejectedStaysOut ==
  \A l, m \in Entries :
    (l.agent = m.agent /\ l.state = "rejected" /\ IsActive(m)) => ~SaysTheSame(l.text, m.text)

\* A learning is deleted only when it was last in use keep_lapsed_days ago or longer, however
\* often it had lapsed before.
ForgottenOnlyWhenStale ==
  [][\A l \in Entries :
       (l.id \notin Held(learnings') /\ ~overwritten')
       => IF l.state = "lapsed" THEN l.past.used + KeepDays <= today
          ELSE l.state = "provisional" /\ KeepDays = 0]_learningsVars

\* What the comments say of every run: a rediscovery is one's own (learning/mod.rs:31), a new
\* learning is given to runs before it lapses (config/learnings.rs:15).
IndependentEvidence ==
  [][\A s \in Slots, text \in Texts : \A run \in runs[s] :
       (~overwritten /\ LearnAgain(s, text))
       => \A i \in DOMAIN learnings :
            learnings'[i].proposals > learnings[i].proposals => learnings[i].id \notin run.told]_learningsVars

TriedBeforeItLapses ==
  \A l \in Entries :
    (l.state = "lapsed" /\ Cardinality(Ids) <= PerRun /\ trouble = 0 /\ ~overwritten)
    => l.past.told > 0
============================================================================
