----------------------------- MODULE MCRanking -----------------------------
(* Symmetry for the runs of Ranking: memories are interchangeable.         *)
EXTENDS RankingInvariant

Symmetry == Permutations(Memories)
=============================================================================
