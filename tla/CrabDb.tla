------------------------------- MODULE CrabDb -------------------------------
(***************************************************************************)
(* crabdb, the single-file store under the daemon: an append-only log, a   *)
(* resident index from keys to record offsets, and index snapshots that    *)
(* the header may point at.  The file is a sequence of cells after the     *)
(* header, so that a write can be torn and a shorter one can land on what  *)
(* a torn one left; offsets count cells from 0.                            *)
(*                                                                         *)
(* One mutex serializes the operations, so what can happen between two     *)
(* steps of one is that the process dies, or the power goes.               *)
(***************************************************************************)
EXTENDS Naturals, Sequences, FiniteSets, FiniteSetsExt, SequencesExt

CONSTANTS
  Keys, Values,
  Size,      \* value -> its length in cells
  Crashes,   \* where a crash may strike, of AllCrashes
  MaxCells   \* bound: no write starts beyond this offset

AllCrashes == {"between", "append", "snapshot", "power"}

ASSUME KeysAssumption == IsFiniteSet(Keys)
ASSUME SizeAssumption == Size \in [Values -> Nat]
ASSUME CrashesAssumption == Crashes \subseteq AllCrashes
ASSUME CellsAssumption == MaxCells \in Nat

VARIABLES
  file,     \* the cells after the header
  header,   \* [at, len] of the index snapshot; len 0 for none
  index,    \* Inner::index: key -> offset
  end,      \* Inner::end
  dead,     \* Inner::dead
  synced,   \* cells known to be on disk
  map,      \* history: the map the store stands for
  since,    \* history: the maps a power loss may go back to
  stray,    \* history: a write ended short of the fragment it went over, or a
            \* crash left a snapshot that no header names
  mode      \* ready, compact, snapshot, header (mutex held), down, broken

dbVars == <<file, header, index, end, dead, synced, map, since, stray, mode>>

PutRec(k, v) == [op |-> "put", key |-> k, val |-> v]
DelRec(k) == [op |-> "delete", key |-> k]
SnapRec(i) == [op |-> "index", map |-> i]

(* encode_record and encode_index: a key and the lengths make one cell, a  *)
(* value Size cells, and an index entry one.                               *)
CellsOf(r) ==
  IF r.op = "put" THEN 1 + Size[r.val]
  ELSE IF r.op = "delete" THEN 1
  ELSE 1 + Cardinality(DOMAIN r.map)

Encode(r) == [i \in 1..CellsOf(r) |-> [rec |-> r, part |-> i]]

(* Writing cells at an offset: what lies beyond them stays.                *)
WriteAt(f, at, cells) ==
  [i \in 1..(IF at + Len(cells) > Len(f) THEN at + Len(cells) ELSE Len(f)) |->
     IF i > at /\ i <= at + Len(cells) THEN cells[i - at] ELSE f[i]]

Indexed(i, k, o) == [x \in DOMAIN i \cup {k} |-> IF x = k THEN o ELSE i[x]]
Unindexed(i, k) == [x \in DOMAIN i \ {k} |-> i[x]]
-----------------------------------------------------------------------------
(* Fault: a record cut off by the end of the file is refused.              *)
CutIsRefused(f, at) ==
  IF f[at + 1].part = 1 /\ f[at + 1].rec.op # "index" /\ at + CellsOf(f[at + 1].rec) <= Len(f)
  THEN "record" ELSE "unknown"

(* decode_record at an offset.  A record cut off by the end of the file is *)
(* torn.  A snapshot is not a record: its first byte is its entry count,   *)
(* which decodes as an unknown op unless it is 0 or 1, and then as a       *)
(* record far longer than the file.  So do the cells in the middle of a    *)
(* record: their bytes are the writer's, and may be an unknown op.         *)
Decode(f, at) ==
  LET c == f[at + 1] IN
  IF c.part # 1 THEN "unknown"
  ELSE IF c.rec.op = "index"
  THEN IF Cardinality(DOMAIN c.rec.map) > 1 THEN "unknown" ELSE "torn"
  ELSE IF at + CellsOf(c.rec) > Len(f) THEN "torn" ELSE "record"

(* Fault: the snapshot is read, and its entries never put in the index.    *)
SnapshotUnused(f, h) == <<>>

(* open_with: the snapshot the header names, if any, and where the replay  *)
(* starts.                                                                 *)
Snapshot(f, h) == IF h.len = 0 THEN <<>> ELSE f[h.at + 1].rec.map
ReplayFrom(h) == h.at + h.len

(* One turn of the replay loop: over the record at q, to p.                *)
Leads(f, q, p) ==
  q < Len(f) /\ Decode(f, q) = "record" /\ p = q + CellsOf(f[q + 1].rec)

(* The offsets the replay loop comes to, the one it stops at included.     *)
Reached(f, h) ==
  LET upto[n \in 0..Len(f)] ==
        LET before == IF n = 0 THEN {} ELSE upto[n - 1]
        IN  before \cup {p \in {n} : p = ReplayFrom(h) \/ \E q \in before : Leads(f, q, p)}
  IN  upto[Len(f)]

(* Fault: appends resume at the end of the file, after any fragment.       *)
EndOfFile(f, h) == Len(f)

(* It stops at the end of the file, at a torn record, or with an error.    *)
ReplayEnd(f, h) == Max(Reached(f, h))
ReplayFails(f, h) == LET e == ReplayEnd(f, h) IN e < Len(f) /\ Decode(f, e) = "unknown"

(* The index after the records of recs that lie below p.                   *)
IndexAt(f, h, recs, p) ==
  LET of(k) == {q \in recs : q < p /\ f[q + 1].rec.key = k}
      live == {k \in Keys : IF of(k) = {} THEN k \in DOMAIN Snapshot(f, h)
                            ELSE f[Max(of(k)) + 1].rec.op = "put"}
  IN  [k \in live |-> IF of(k) = {} THEN Snapshot(f, h)[k] ELSE Max(of(k))]

Replayed(f, h) == Reached(f, h) \ {ReplayEnd(f, h)}
ReplayIndex(f, h) == IndexAt(f, h, Replayed(f, h), ReplayEnd(f, h))

(* open_with charges the record that supersedes, not the superseded one:   *)
(* the cells of every record that finds its key in the index.              *)
ReplayDead(f, h) ==
  LET recs == Replayed(f, h)
      charged == {p \in recs : f[p + 1].rec.key \in DOMAIN IndexAt(f, h, recs, p)}
  IN  Cardinality({c \in 1..Len(f) : \E p \in charged : p < c /\ c <= p + CellsOf(f[p + 1].rec)})

(* read_value: the value of the record at an offset.                       *)
ReadValue(f, at) == f[at + 1].rec.val
ValuesAt(f, i) == [k \in DOMAIN i |-> ReadValue(f, i[k])]

(* The map a file holds.                                                   *)
Contents(f, h) == ValuesAt(f, ReplayIndex(f, h))
-----------------------------------------------------------------------------
DbInit ==
  /\ file = <<>> /\ header = [at |-> 0, len |-> 0] /\ synced = 0
  /\ index = <<>> /\ end = 0 /\ dead = 0 /\ mode = "ready"
  /\ map = <<>> /\ since = {map} /\ stray = FALSE

Running == {"ready", "compact", "snapshot", "header"}

(* The map the store stands for: read through the resident index, or, when *)
(* it is down, what the file will be read as.                              *)
MapOf(f, h, i, m) == IF m \in Running THEN ValuesAt(f, i) ELSE Contents(f, h)

(* What the steps do to it, and to the maps it has been since a sync; what *)
(* a stray left in the log may be read as is not followed.                 *)
History ==
  IF stray' THEN UNCHANGED <<map, since>>
  ELSE /\ map' = MapOf(file', header', index', mode')
       /\ since' = IF synced' = Len(file') THEN {map'} ELSE since \cup {map'}

(* append: write at end, not at the end of the file.                       *)
Appended(r) == WriteAt(file, end, Encode(r))
Synced(at) == IF at < synced THEN at ELSE synced

(* A write up to an offset leaves nothing of the fragment beyond it.       *)
Covers(at) == stray' = (stray \/ at < Len(file'))

(* charge_dead: the record that the key's index entry led to.              *)
ChargeDead(k) ==
  IF k \in DOMAIN index THEN dead + CellsOf(file[index[k] + 1].rec) ELSE dead

(* maybe_compact, at the default compact_at of one half.                   *)
Due(deadCells, cells) == cells > 0 /\ 2 * deadCells >= cells

Put(k, v) ==
  LET r == PutRec(k, v) IN
  /\ mode = "ready" /\ end < MaxCells
  /\ file' = Appended(r)
  /\ end' = end + CellsOf(r)
  /\ index' = Indexed(index, k, end)
  /\ dead' = ChargeDead(k)
  /\ synced' = Synced(end)
  /\ mode' = IF Due(dead', end') THEN "compact" ELSE "ready"
  /\ UNCHANGED header
  /\ Covers(end') /\ History

Delete(k) ==
  LET r == DelRec(k) IN
  /\ mode = "ready" /\ end < MaxCells
  /\ k \in DOMAIN index
  /\ file' = Appended(r)
  /\ end' = end + CellsOf(r)
  /\ index' = Unindexed(index, k)
  /\ dead' = ChargeDead(k)
  /\ synced' = Synced(end)
  /\ mode' = IF Due(dead', end') THEN "compact" ELSE "ready"
  /\ UNCHANGED header
  /\ Covers(end') /\ History

(* The process dies inside append's write: a prefix of the record is there. *)
TornAppend ==
  /\ mode = "ready" /\ end < MaxCells /\ "append" \in Crashes
  /\ \E k \in Keys :
       \E r \in {PutRec(k, v) : v \in Values} \cup {DelRec(x) : x \in {k} \cap DOMAIN index} :
         \E n \in 1..CellsOf(r) :
           /\ file' = WriteAt(file, end, SubSeq(Encode(r), 1, n))
           /\ Covers(end + n)
  /\ synced' = Synced(end)
  /\ mode' = "down" /\ index' = <<>> /\ end' = 0 /\ dead' = 0
  /\ UNCHANGED header
  /\ History

(* checkpoint is a snapshot; compact may also be asked for.                *)
Checkpoint ==
  /\ mode = "ready" /\ end < MaxCells
  /\ mode' = "snapshot"
  /\ UNCHANGED <<file, header, index, end, dead, synced, stray>>
  /\ History

AskCompact ==
  /\ mode = "ready"
  /\ mode' = "compact"
  /\ UNCHANGED <<file, header, index, end, dead, synced, stray>>
  /\ History

(* compact: the live records go to a temporary file, one after the other   *)
(* in some order; At is where the j-th lands, and Rewritten the file.      *)
At(recs, j) == Cardinality(UNION {{i} \X (1..CellsOf(recs[i])) : i \in 1..(j - 1)})

Rewritten(recs) ==
  [c \in 1..At(recs, Len(recs) + 1) |->
     LET j == CHOOSE j \in 1..Len(recs) : At(recs, j) < c /\ c <= At(recs, j + 1)
     IN  [rec |-> recs[j], part |-> c - At(recs, j)]]

(* It is synced, and the rename makes it the store, its header pointing at *)
(* no snapshot.                                                            *)
Compact ==
  /\ mode = "compact"
  /\ \E order \in SetToSeqs(DOMAIN index) :
       LET recs == [j \in 1..Len(order) |-> PutRec(order[j], ReadValue(file, index[order[j]]))]
       IN  /\ file' = Rewritten(recs)
           /\ index' = [k \in DOMAIN index |-> At(recs, CHOOSE j \in 1..Len(order) : order[j] = k)]
  /\ end' = Len(file') /\ synced' = Len(file')
  /\ header' = [at |-> 0, len |-> 0]
  /\ dead' = 0
  /\ mode' = "snapshot"
  /\ UNCHANGED stray
  /\ History

(* snapshot, first half: the index goes to the end of the log, appends     *)
(* will resume after it, and it is synced.                                 *)
SnapshotBytes ==
  /\ mode = "snapshot"
  /\ file' = Appended(SnapRec(index))
  /\ end' = end + CellsOf(SnapRec(index))
  /\ synced' = Len(file')
  /\ mode' = "header"
  /\ UNCHANGED <<header, index, dead>>
  /\ Covers(end') /\ History

(* snapshot, second half: the header names it.                             *)
SnapshotHeader ==
  LET len == CellsOf(SnapRec(index)) IN
  /\ mode = "header"
  /\ header' = [at |-> end - len, len |-> len]
  /\ mode' = "ready"
  /\ UNCHANGED <<file, index, end, dead, synced, stray>>
  /\ History

(* The process dies between two writes.                                    *)
Crash ==
  /\ \/ mode \in {"ready", "compact", "snapshot"} /\ "between" \in Crashes
     \/ mode = "header" /\ "snapshot" \in Crashes
  /\ mode' = "down" /\ index' = <<>> /\ end' = 0 /\ dead' = 0
  /\ stray' = (stray \/ mode = "header")
  /\ UNCHANGED <<file, header, synced>>
  /\ History

(* The power goes: what was not synced may be gone, from its end.          *)
PowerLoss ==
  /\ mode \in {"ready", "compact", "snapshot"} /\ "power" \in Crashes
  /\ \E m \in synced..Len(file) : file' = SubSeq(file, 1, m) /\ synced' = m
  /\ mode' = "down" /\ index' = <<>> /\ end' = 0 /\ dead' = 0
  /\ UNCHANGED <<header, stray>>
  /\ History

(* open_with, which may be tried again when it has failed.                 *)
Open ==
  /\ mode \in {"down", "broken"}
  /\ \/ /\ ~ReplayFails(file, header)
        /\ index' = ReplayIndex(file, header)
        /\ end' = ReplayEnd(file, header)
        /\ dead' = ReplayDead(file, header)
        /\ mode' = "ready"
     \/ /\ ReplayFails(file, header)
        /\ mode' = "broken"
        /\ UNCHANGED <<index, end, dead>>
  /\ UNCHANGED <<file, header, synced, stray>>
  /\ History

DbNext ==
  \/ \E k \in Keys : Delete(k) \/ \E v \in Values : Put(k, v)
  \/ TornAppend
  \/ Checkpoint \/ AskCompact \/ Compact \/ SnapshotBytes \/ SnapshotHeader
  \/ Crash \/ PowerLoss \/ Open

DbSpec == DbInit /\ [][DbNext]_dbVars
-----------------------------------------------------------------------------
(* Type invariant: the file is made of cells of records, and an index      *)
(* leads from keys to offsets.                                             *)
IsIndex(i) ==
  i = [k \in DOMAIN i |-> i[k]] /\ DOMAIN i \subseteq Keys /\ \A k \in DOMAIN i : i[k] \in Nat

IsRecord(r) ==
  \/ \E k \in Keys : r = DelRec(k) \/ \E v \in Values : r = PutRec(k, v)
  \/ r = SnapRec(r.map) /\ IsIndex(r.map)

IsCell(c) == c = [rec |-> c.rec, part |-> c.part] /\ IsRecord(c.rec) /\ c.part \in 1..CellsOf(c.rec)

DbTypeOK ==
  /\ file \in Seq(Range(file)) /\ \A i \in DOMAIN file : IsCell(file[i])
  /\ header \in [at : Nat, len : Nat] /\ header.at + header.len <= synced
  /\ IsIndex(index) /\ \A k \in DOMAIN index : index[k] < Len(file)
  /\ end \in 0..Len(file) /\ synced \in 0..Len(file) /\ dead \in Nat /\ stray \in BOOLEAN
  /\ mode \in {"ready", "compact", "snapshot", "header", "down", "broken"}

IndexIsReplay == index = ReplayIndex(file, header)
NothingBeyondEnd == ReplayEnd(file, header) = end /\ ~ReplayFails(file, header)

(* The resident index is the one a restart would rebuild from the file, so *)
(* a key answers the same before and after: through supersedings, deletes, *)
(* torn tails, snapshots and compactions.  And, open_with, "the append     *)
(* position is set to the last clean boundary so the next write overwrites *)
(* the fragment": nothing beyond the append position is ever read as a     *)
(* record, nor keeps the file from opening; unless the next write was      *)
(* shorter than the fragment, or a snapshot was left without a header.     *)
FileInv ==
  /\ DbTypeOK
  /\ ~stray /\ mode \in Running \ {"header"} => IndexIsReplay /\ NothingBeyondEnd

KV == INSTANCE KVStore WITH kv <- map, since <- since

(* Module comment: "a process crash loses nothing", "a power loss can lose *)
(* writes since the last" sync.  The store implements the map it promises: *)
(* a crash, a torn write, an open, a snapshot or a compaction changes no   *)
(* key, and a power loss goes back to a map it was since the last sync; as *)
(* long as no write has left a part of a fragment behind it.               *)
ImplementsKV == KV!Spec

(* A store that was closed by a crash, a torn write or a power loss opens  *)
(* again, if what it left was not stray.                                   *)
OpensAgain == ~stray => mode # "broken"

(* compact: "a crash during compaction costs the work and nothing else".   *)
(* A store that was closed by a crash opens again.                         *)
OpensAfterCrash == mode # "broken"
=============================================================================
