----------------------------- MODULE MCJournal -----------------------------
\* Instances of Journal: one Tower's process, and the cases its documentation names.
EXTENDS Journal, TLC

CONSTANTS t1, t2, t3, p1, p2

OneProcess == [t \in Threads |-> p1]
TwoProcesses == [t \in Threads |-> IF t = t1 THEN p2 ELSE p1]

DaysOf == [r \in Runs |-> <<"help-1", "help-2">>]
OfDays == [q \in Requests |-> IF q = "q1" THEN "help-1" ELSE "help-2"]
OfTheRun == [f \in Continuations |-> "r1"]
AskedBoth == [r \in Runs |-> {"q1", "q2"}]

Holding(entries) ==
  [d \in Docs |-> [k \in Keys |-> IF k \in DOMAIN entries /\ entries[k][1] = d THEN entries[k][2] ELSE Absent]]

\* A flight and a layover wait, a run has asked for help on two days and another is yet to ask, a
\* learning is in use, and a chain is dismissed.
Initials ==
  {Holding([f1 |-> <<"pending", "waiting">>, q1 |-> <<"help-1", "open">>,
            q2 |-> <<"help-2", "open">>, l1 |-> <<"layovers", "booked">>,
            x1 |-> <<"learnings", "active">>, c1 |-> <<"dismissed", "r1">>])}
============================================================================
