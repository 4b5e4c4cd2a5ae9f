------------------------------ MODULE MCFloor ------------------------------
EXTENDS Floor

\* One workflow opens work, the other collects layovers; an agent of either may spawn the other,
\* and only the collecting one has a route back.
Entries == [w \in Workflows |-> "a"]
Routes == [p \in Workflows \cup {NoWorkflow} |->
             IF p \in Resuming THEN {<<"a", "b">>, <<"b", "a">>} ELSE {<<"a", "b">>}]
Fresh == {<<"a", "b">>}
============================================================================
