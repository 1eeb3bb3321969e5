---------------------------- MODULE MCContributors ----------------------------
EXTENDS Contributors, TLC

\* Only Init tells the users apart, by Creator: whatever is reached from one
\* creator is reached from the others with the users renamed.
Alike == Permutations(Users)

\* A bound: TLC goes on while no more than two suspensions and merges stand.
FewEnded ==
  Cardinality(disabled) + Cardinality({u \in Users : mergedBy[u] # None}) <= 2
=============================================================================
