--------------------------- MODULE MCMcpPeers ---------------------------
(* Small instances of McpPeers for TLC.                                    *)
EXTENDS McpPeers, TLC

CONSTANTS w1, w2, a1, a2, n1, f1, f2

TwoWorkers == {w1, w2}
TwoAgents == {a1, a2}
OneName == {n1}
TwoFps == {f1, f2}

Symmetry == Permutations(Workers)
=============================================================================
