----------------------------- MODULE MCPrompts -----------------------------
EXTENDS Prompts, TLC

Include(flag, negated, to) == [flag |-> flag, negated |-> negated, to |-> to]
If(x, to) == Include({x}, FALSE, to)
Unless(x, to) == Include({x}, TRUE, to)
Plain(to) == Include({}, FALSE, to)

\* The prompts of a and b, and two files for them to include.
Disk(fa, fb, more, last) ==
  [file \in {"fa", "fb", "more", "last"} |->
     CASE file = "fa" -> fa [] file = "fb" -> fb [] file = "more" -> more [] file = "last" -> last]

Flow(entry, resumes, flags) == [entry |-> entry, resumes |-> resumes, flags |-> flags]

Of(disk, shared, p, q, bare, direct, after, spawn) ==
  [flags |-> shared, workflows |-> p @@ q, bare |-> bare,
   routes |-> [w \in {"p", "q", "none"} |->
                 CASE w = "p" -> {<<"a", "b">>} [] w = "q" -> after [] w = "none" -> direct],
   spawns |-> spawn, prompt |-> [a \in {"a", "b"} |-> IF a = "a" THEN {"fa"} ELSE {"fb"}],
   files |-> disk]

\* Every shape of a prompt, in one factory: conditions, a file included twice, a cycle, a file
\* too deep, one that is missing, a line that cannot be read.
Shapes ==
  {Of(Disk(fa, fb, more, last), None, "p" :> Flow({"a"}, FALSE, "x" :> TRUE @@ "y" :> TRUE), <<>>,
      {}, {}, {}, {}) :
     fa \in {<<>>, <<If("x", "more")>>, <<Plain("more"), If("y", "last")>>,
             <<Unless("x", "more"), Plain("more")>>},
     fb \in {<<>>, <<Unless("y", "fa")>>},
     more \in {<<>>, <<Unless("x", "fa")>>, <<If("y", "last"), Plain("last")>>, <<If("y", "nowhere")>>},
     last \in {<<>>, <<Unless("y", "nowhere")>>, <<Plain("malformed")>>, <<If("z", "more")>>}}

\* Every way flags are declared and work travels, with two prompts that test one flag each.
Travels ==
  {Of(Disk(fa, <<If("y", "more")>>, <<>>, <<>>), shared, "p" :> Flow({"a"}, FALSE, p), q, bare,
      IF bare = {} THEN {} ELSE {<<"a", "b">>}, after, spawn) :
     fa \in {<<>>, <<Unless("x", "more")>>},
     shared \in {None, "y" :> FALSE},
     p \in {None, "x" :> TRUE @@ "y" :> TRUE},
     q \in {<<>>} \cup {"q" :> Flow(entry, TRUE, flags) :
                          entry \in {{}, {"b"}}, flags \in {None, "x" :> FALSE @@ "y" :> FALSE}},
     bare \in {{}, {"a"}}, after \in {{}, {<<"a", "b">>}}, spawn \in {{}, {<<"a", "b">>}}}

PThenQ == <<"p", "q">>

Samples == Shapes \cup Travels
============================================================================
