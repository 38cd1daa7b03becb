---- MODULE MCBftVoting ----
(* BftVoting on small sets: model values, three reliable validators alike. *)
EXTENDS BftVoting, TLC

CONSTANTS v1, v2, v3, v4, b0, b1

MCNodes == {v1, v2, v3, v4}
MCBlocks == {b0, b1}

\* The reliable validators are interchangeable, and so are the blocks.
Symmetry == Permutations(Reliable) \cup Permutations(Blocks)

\* Bound on the votes cast: two conflicting decisions take ten.
FewVotes == Cardinality(votes) <= 10
====
