---------------------------- MODULE MCLearnings ----------------------------
EXTENDS Learnings, TLC

Symmetry == Permutations(Slots)

Says(words) == [words |-> words, negated |-> FALSE]
Denies(words) == [words |-> words, negated |-> TRUE]

\* The same thing twice, once with more to it, and its opposite.
Reworded == {Says({1, 2, 3}), Says({1, 2, 3, 4}), Denies({1, 2, 3})}

\* The one in the middle says the same as either; they differ.
Drifting == {Says({1, 2, 3}), Says({1, 2, 3, 4}), Says({2, 3, 4})}
============================================================================
