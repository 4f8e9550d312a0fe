------------------------------- MODULE MCWire -------------------------------
(* Small instances of Wire for TLC.                                        *)
EXTENDS Wire, TLC

CONSTANT c1

OneConn == {c1}
=============================================================================
