------------------------------ MODULE MCMachine ------------------------------
(* Small instances of Machine: two factories, one that installs unattended. *)
EXTENDS Machine, TLC

CONSTANTS a, b, one, two

For(of_a, of_b) == (a :> of_a) @@ (b :> of_b)

OwnHomes == For(one, two)
OneHome == For(one, one)

Fine == [v \in Versions |-> "clean"]
Refused == [Fine EXCEPT ![Newest] = "refuses"]
\* The first version gives the warning too.
Known == [v \in Versions |-> "warns"]

Flat == [v \in Versions |-> 1]
First == [h \in Homes |-> 1]

Plain ==
  [says |-> For(<<Fine>>, <<Known>>), left |-> For({}, {}), layout |-> Flat, installed |-> First,
   skipped |-> {}, signed |-> TRUE, served |-> {a, b}]

\* The second version has another layout, is skipped, and refuses b; the last only warns b, which is
\* not served; and nobody has signed `gh` in.
Odd ==
  [Plain EXCEPT !.says = For(<<Fine>>, <<[Fine EXCEPT ![2] = "refuses", ![Newest] = "warns"]>>),
     !.layout = [Flat EXCEPT ![2] = 2], !.skipped = {2}, !.signed = FALSE, !.served = {a}]

\* The last refuses a until it is edited, and b once it is; the second is left to a person.
Edited ==
  [Plain EXCEPT !.says = For(<<Refused, Fine>>, <<Fine, Refused>>), !.left = For({2}, {}),
     !.served = {a}]

\* The last refuses a once it is edited; the second is skipped.
Spoiled ==
  [Plain EXCEPT !.says = For(<<Fine, Refused>>, <<Fine>>), !.skipped = {2}, !.served = {a}]

SomeNatures == {Plain, Odd, Edited, Spoiled}

\* The second of two installations is of another layout, which the last release reads.
Mixed ==
  [Plain EXCEPT !.layout = [Flat EXCEPT ![2] = 2, ![Newest] = 2], !.installed = (one :> 1) @@ (two :> 2)]

MixedNatures == {Mixed}

\* One factory on a machine of its own.
LoneHome == a :> one
LoneNatures ==
  {[Plain EXCEPT !.says = a :> <<Fine>>, !.left = a :> {}, !.installed = one :> 1, !.served = {a}]}
=============================================================================
