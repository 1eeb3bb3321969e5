---------------------------- MODULE MCFileStorage ----------------------------
EXTENDS FileStorage, TLC
CONSTANTS p, q, rp, rq, d, f, g, a, w, x, y
RootOf == (p :> rp) @@ (q :> rq)
Alike == Permutations({f, g}) \cup Permutations({x, y})

\* A bound: TLC goes on while no more than two checkouts and tasks stand.
FewUnsettled ==
  Cardinality({i \in Items : row[i].checkout # None}) + Cardinality(tasks) <= 2
=============================================================================
