------------------------------- MODULE Shelf -------------------------------
(***************************************************************************)
(* What the store promises: every document of a factory's state directory  *)
(* is changed in whole steps, each applied to the document as it then      *)
(* stands.  A call is a short list of such changes; it may stop after any  *)
(* of them, because a write failed or because its process went away, and   *)
(* it is told what became of it.  The locks, the copies in memory and the  *)
(* staging files of layover-store are how this is achieved; they are in    *)
(* Journal, which implements this module.                                  *)
(***************************************************************************)
EXTENDS Sequences

CONSTANTS
  Threads,   \* whoever calls the store
  Docs,      \* the documents: the queue, the layovers, ..., one help segment a day
  Keys,      \* what an entry is found by: a flight, a layover, a request, ...
  Vals,      \* what an entry can say
  Absent,    \* no entry under this key
  Initial,   \* the documents there may be at first
  Calls,     \* the lists of changes somebody may ask for
  Undos      \* the lists that take a call's first change back

VARIABLES
  docs,      \* what each document holds
  todo,      \* the changes a caller's call has still to make
  told       \* what the call has come to: "unchanged", "changed" or "failed"

vars == <<docs, todo, told>>

Contents == [Keys -> Vals \cup {Absent}]

(***************************************************************************)
(* A change names a document, the keys it is about, the entry it leaves    *)
(* there and which entries it applies to.                                  *)
(***************************************************************************)
Touches(c, v) ==
  \/ c.how = "put"
  \/ c.how = "once" /\ v = Absent
  \/ c.how = "renew" /\ v # c.val
  \/ c.how = "mark" /\ v # Absent
  \/ c.how = "close" /\ v = "open"
  \/ c.how = "sweep" /\ v = "resumed"

Effect(c, content) ==
  [k \in Keys |-> IF k \in c.keys /\ Touches(c, content[k]) THEN c.val ELSE content[k]]

\* Whether the change has anything to do; one that has not writes nothing.
Matches(c, content) == \E k \in c.keys : Touches(c, content[k])

---------------------------------------------------------------------------

Init ==
  /\ docs \in Initial
  /\ todo = [t \in Threads |-> <<>>]
  /\ told = [t \in Threads |-> "unchanged"]

Begin(t, call) ==
  /\ todo[t] = <<>> /\ told[t] = "unchanged"
  /\ todo' = [todo EXCEPT ![t] = call]
  /\ UNCHANGED <<docs, told>>

\* The change happens, at once, to the document as it is now.
Apply(t) ==
  /\ todo[t] # <<>>
  /\ LET c == Head(todo[t]) IN
       /\ Matches(c, docs[c.doc])
       /\ docs' = [docs EXCEPT ![c.doc] = Effect(c, @)]
  /\ todo' = [todo EXCEPT ![t] = Tail(@)]
  /\ told' = [told EXCEPT ![t] = "changed"]

\* There is nothing to change: the flight was already taken, the request already answered.
Skip(t) ==
  /\ todo[t] # <<>>
  /\ LET c == Head(todo[t]) IN ~Matches(c, docs[c.doc])
  /\ todo' = [todo EXCEPT ![t] = Tail(@)]
  /\ UNCHANGED <<docs, told>>

\* Nothing of the rest is needed any more.
Decline(t) ==
  /\ todo[t] # <<>>
  /\ todo' = [todo EXCEPT ![t] = <<>>]
  /\ UNCHANGED <<docs, told>>

\* A write fails; what is left of the call may be to take its first change back.
Fail(t, rest) ==
  /\ todo[t] # <<>>
  /\ todo' = [todo EXCEPT ![t] = rest]
  /\ told' = [told EXCEPT ![t] = "failed"]
  /\ UNCHANGED docs

\* The call is over and its caller knows what became of it.
End(t) ==
  /\ todo[t] = <<>>
  /\ told' = [told EXCEPT ![t] = "unchanged"]
  /\ UNCHANGED <<docs, todo>>

\* Callers that go away with their process.
Vanish(S) ==
  /\ todo' = [t \in Threads |-> IF t \in S THEN <<>> ELSE todo[t]]
  /\ told' = [t \in Threads |-> IF t \in S THEN "unchanged" ELSE told[t]]
  /\ UNCHANGED docs

Next ==
  \/ \E t \in Threads :
       \/ \E call \in Calls : Begin(t, call)
       \/ Apply(t)
       \/ Skip(t)
       \/ Decline(t)
       \/ End(t)
       \/ \E rest \in {<<>>} \cup Undos : Fail(t, rest)
  \/ \E S \in SUBSET Threads : Vanish(S)

Spec == Init /\ [][Next]_vars
============================================================================
