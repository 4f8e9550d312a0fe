---- MODULE MCCatalog ----
(* Two tasks, two names of agents and two sources of events.               *)
EXTENDS Catalog, TLC

CONSTANTS w1, w2, n1, crab, s1, s2

TwoWorkers == {w1, w2}
TwoNames == {n1, crab}
TwoSources == {s1, s2}
Symmetry == Permutations({w1, w2}) \cup Permutations({s1, s2})
====
