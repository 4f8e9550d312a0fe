---- MODULE MCTextIndex ----
(* Two tasks on the two messages of one session and the first of another,  *)
(* with texts of up to two terms; a window reaches one message back.       *)
EXTENDS TextIndex, TLC

CONSTANTS w1, w2, s1, s2, t1, t2

TwoWriters == {w1, w2}
ThreeKeys == {<<s1, 0>>, <<s1, 1>>, <<s2, 0>>}
TwoTerms == {t1, t2}
Symmetry == Permutations(TwoWriters) \cup Permutations(TwoTerms)
====
