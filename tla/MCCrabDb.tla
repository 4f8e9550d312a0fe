------------------------------ MODULE MCCrabDb ------------------------------
(* Small instances of CrabDb for TLC.                                      *)
EXTENDS CrabDb, TLC

CONSTANTS k1, k2, v1, v2

TwoKeys == {k1, k2}
TwoValues == {v1, v2}
OneOrTwo == [v \in TwoValues |-> IF v = v1 THEN 1 ELSE 2]

KeySymmetry == Permutations(TwoKeys)

(* No crash but the one between a snapshot and its header.                 *)
WithinSnapshot == {"snapshot"}
=============================================================================
