--------------------------- MODULE MCLiveSessions ---------------------------
(* Small instances of LiveSessions for TLC.                                *)
EXTENDS LiveSessions, TLC

CONSTANTS t1, t2, h1, h2

TwoTasks == {t1, t2}
OneHandle == {h1}
TwoHandles == {h1, h2}

Registrations == AllKinds \ {"create", "guest", "cancel"}

Symmetry == Permutations(Tasks) \cup Permutations(Handles)
=============================================================================
