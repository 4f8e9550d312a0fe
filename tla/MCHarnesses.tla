---------------------------- MODULE MCHarnesses ----------------------------
(* Small instances of Harnesses for TLC.                                   *)
EXTENDS Harnesses, TLC

CONSTANTS w1, w2, a1, none, in, out

TwoWorkers == {w1, w2}

(* A guest of the first run goes two siblings deep, or calls two in turn,  *)
(* while the other run loads, builds and calls.                            *)
TwoDeep == (w1 :> 2) @@ (w2 :> 0)

OneAgent == {a1}
ThreeRoots == {none, in, out}
OneInside == {in}

(* Version 1 of os exports bash; version 2 exports read as well, which     *)
(* files has too.                                                          *)
TwoImages == [os |-> <<{"bash"}, {"bash", "read"}>>, files |-> <<{"read"}>>]

Narrowed == [name |-> "os", root |-> "session", hosts |-> {}]
Fixed == [name |-> "os", root |-> "fixed", hosts |-> {"h"}]
Rootless == [name |-> "files", root |-> "none", hosts |-> {}]
TwoConfigs == {[harnesses |-> <<Narrowed, Rootless>>, skills |-> {}],
               [harnesses |-> <<Fixed>>, skills |-> {"s"}]}
=============================================================================
