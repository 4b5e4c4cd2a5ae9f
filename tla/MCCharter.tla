----------------------------- MODULE MCCharter -----------------------------
EXTENDS Charter

Abc == {"a", "b", "c"}

Everywhere == [scoped |-> FALSE, pipelines |-> {}]
Only(w) == [scoped |-> TRUE, pipelines |-> {w}]
Scopes == {Everywhere, Only("p"), Only("q")}

From(from, to, spawn, join, sc) ==
  [from |-> from, to |-> to, spawn |-> spawn, join |-> join,
   scoped |-> sc.scoped, pipelines |-> sc.pipelines]

\* Three routes in a row, the last of them a join, a spawn or a short cut.
First == {From({"a"}, {"b"}, spawn, "none", sc) : spawn \in BOOLEAN, sc \in Scopes}
Second == {From({"b"}, {x}, spawn, "none", sc) : x \in {"a", "c"}, spawn \in BOOLEAN, sc \in Scopes}
Direct == {From({"a"}, {"c"}, spawn, "none", sc) : spawn \in BOOLEAN, sc \in Scopes}
Joins(join) == {From({"a", "b"}, {"c"}, FALSE, join, sc) : sc \in Scopes}

InARow == {<<r1, r2, r3>> : r1 \in First, r2 \in Second, r3 \in Joins("all") \cup Direct}

\* A join with another barrier, or a route past it, for the same agent.
Besides ==
  {<<r1, r2, r3>> : r1 \in First, r2 \in Joins("all"), r3 \in Joins("any") \cup Direct}

Flow(entry, resumes, overlap, hops, from) ==
  [entry |-> entry, resumes |-> resumes, scheduled |-> TRUE, overlap |-> overlap,
   max_hops |-> hops, routes_from |-> from]

\* p opens work at a; q resumes it, follows it, or opens work of its own.
Flows ==
  {[w \in {"p", "q"} |-> IF w = "p" THEN Flow({"a"}, FALSE, overlap, hops, {}) ELSE q] :
     overlap \in BOOLEAN, hops \in {{}, {1}},
     q \in {Flow({}, TRUE, FALSE, {}, {}), Flow({}, TRUE, FALSE, {}, {"p"}),
            Flow({"b"}, FALSE, FALSE, {1}, {"p"})}}

Samples ==
  {[entry |-> entry, writers |-> {"c"}, workflows |-> flows,
    max_hops |-> IF routes \in Besides THEN 3 ELSE 2, routes |-> routes] : entry \in {{}, {"a"}}, flows \in Flows, routes \in InARow \cup Besides}
============================================================================
