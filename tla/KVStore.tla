------------------------------ MODULE KVStore ------------------------------
(***************************************************************************)
(* What crabdb promises (lib/crabdb/src/db.rs, module comment): a map from *)
(* keys to values.  "A process crash loses nothing"; "a power loss can     *)
(* lose writes since the last" checkpoint or compaction, from the newest   *)
(* back.                                                                   *)
(***************************************************************************)
EXTENDS Naturals

CONSTANTS Keys, Values

VARIABLES
  kv,     \* the map
  since   \* the maps it has been since the last sync, this one included

With(k, v) == [x \in DOMAIN kv \cup {k} |-> IF x = k THEN v ELSE kv[x]]
Without(k) == [x \in DOMAIN kv \ {k} |-> kv[x]]

Init == kv = <<>> /\ since = {kv}

Put(k, v) == kv' = With(k, v) /\ since' = since \cup {kv'}

Delete(k) == k \in DOMAIN kv /\ kv' = Without(k) /\ since' = since \cup {kv'}

Sync == since' = {kv} /\ UNCHANGED kv

PowerLoss == kv' \in since /\ since' = {kv'}

Next ==
  \/ \E k \in Keys : Delete(k) \/ \E v \in Values : Put(k, v)
  \/ Sync
  \/ PowerLoss

Spec == Init /\ [][Next]_<<kv, since>>
=============================================================================
