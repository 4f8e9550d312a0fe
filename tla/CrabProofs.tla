----------------------------- MODULE CrabProofs -----------------------------
(***************************************************************************)
(* For any number of turns, compactions, reconnects and crashes: the files *)
(* crab resumes from are whole, and hold what was shown.                   *)
(***************************************************************************)
EXTENDS Crab, SequenceTheorems, TLAPS

Turns == 1..MaxTurns
Ops == 0..MaxTurns
Line == [entry : Turns \X {1, 2}, whole : BOOLEAN]

Calls == {"append", "create", "fill", "rename", "name", "archive", "cut", "replace", "mark", "point"}

(* What is left of an operation's calls after n of them.                   *)
Rest(s, n) == [i \in 1..(Len(s) - n) |-> s[i + n]]

(* An operation in the middle of its file calls: n of them were made.      *)
Storing(r, n) == r.op \in Turns /\ n \in 0..6 /\ r.todo = Rest(Finalize, n)
Packing(r, n) == r.op = Compact /\ n \in 0..11 /\ r.todo = Rest(CompactFiles, n)

IsEngine(r) ==
  /\ r = [loaded |-> r.loaded, live |-> r.live, op |-> r.op, todo |-> r.todo, name |-> r.name,
          queue |-> r.queue]
  /\ r.loaded \in BOOLEAN /\ r.op \in Ops \cup {None} /\ r.queue \in Seq(Ops)

(* A compaction is the last thing in its engine's queue.                   *)
Compacts(r) == r.op = Compact \/ \E i \in 1..Len(r.queue) : r.queue[i] = Compact

(* An engine e, the loop using c, in a phase, M being the archives.        *)
EngineOK(e, r, c, phase, M) ==
  /\ IsEngine(r)
  /\ r.op = None => r.todo = <<>>
  /\ r.op # None => r.loaded
  /\ r.todo # <<>> => \E n \in Nat : Storing(r, n) \/ Packing(r, n)
  /\ r.op = Compact => r.queue = <<>>
  /\ \A i \in 1..Len(r.queue) : r.queue[i] = Compact => i = Len(r.queue)
  /\ Compacts(r) => e = c /\ phase = "compacting" /\ r.loaded
  /\ phase = "closed" => r.op = None /\ r.queue = <<>>
  /\ \A n \in 2..11 : Packing(r, n) => r.name \in M
  /\ \A n \in 0..6 : Storing(r, n) => Entries(r.op) \subseteq r.live

Contents == {"none", "half", "whole"}

IsDisk(d) ==
  /\ d = [meta |-> d.meta, meta_tmp |-> d.meta_tmp, lines |-> d.lines, torn |-> d.torn,
          cut_tmp |-> d.cut_tmp, archive |-> d.archive, memory |-> d.memory]
  /\ d.meta \in Contents /\ d.meta_tmp \in Contents
  /\ d.lines \in Seq(Line) /\ d.torn \in BOOLEAN /\ d.cut_tmp \in BOOLEAN
  /\ d.archive \in {0, Empty} \cup DOMAIN d.memory

IsApp(a) ==
  /\ a = [phase |-> a.phase, turn |-> a.turn, ended |-> a.ended]
  /\ a.phase \in {"closed", "ready", "compacting"} /\ a.turn \in Turns \cup {None}
  /\ a.ended \in BOOLEAN
  /\ a.ended => a.turn # None
  /\ a.turn # None => a.phase = "ready"

(* What holds whoever writes.                                              *)
Shapes ==
  /\ cur \in Engines /\ shared \in BOOLEAN /\ IsApp(app) /\ IsDisk(disk)
  /\ count.turns \in 0..MaxTurns
  /\ engines = [e \in Engines |-> engines[e]]
  /\ \A e \in Engines : EngineOK(e, engines[e], cur, app.phase, DOMAIN disk.memory)

(* The entries of turn t that a reader gets, if the turn was appended.     *)
GluedIn(d) == {l.entry : l \in {l \in Range(d.lines) : ~l.whole}}
Kept(d, t) == Entries(t) \ GluedIn(d) \subseteq Readable(d)

(* A temporary file is there to be filled, and filled to be renamed.       *)
TmpFits(r, d) ==
  /\ r.todo # <<>> /\ r.todo[1] = "fill" => d.meta_tmp # "none"
  /\ r.todo # <<>> /\ r.todo[1] = "rename" => d.meta_tmp = "whole"

(* What an engine that does not write behind another knows of the files,   *)
(* o being the engine in use.                                              *)
Knows(e, r, c, o, d, s) ==
  /\ e # c /\ o.loaded /\ r.todo # <<>> => r.todo = Rest(Finalize, 0)
  /\ TmpFits(r, d)
  /\ e = c /\ r.loaded => Readable(d) \subseteq r.live /\ s \subseteq r.live
  /\ \A n \in 2..11 : Packing(r, n) => d.memory[r.name] = r.live
  /\ \A n \in 1..6 : Storing(r, n) => Kept(d, r.op)
  /\ e = c /\ (\A n \in 4..8 : ~Packing(r, n)) =>
       s \subseteq Resumed(d) /\ (r.loaded => Resumed(d) \subseteq r.live)

FilesOK ==
  /\ disk.meta \in {"none", "whole"}
  /\ disk.meta = "none" =>
       /\ app.phase = "closed" /\ shown = {} /\ disk.lines = <<>>
       /\ disk.archive \notin DOMAIN disk.memory
  /\ app.ended => Kept(disk, app.turn)
  /\ \A e \in Engines : Knows(e, engines[e], cur, engines[cur], disk, shown)

(* The inductive invariant.                                                *)
IInv == Shapes /\ (~shared => FilesOK)
-----------------------------------------------------------------------------
(* The file calls                                                          *)

LEMMA Joined ==
  ASSUME NEW s \in Seq(Calls), NEW t \in Seq(Calls)
  PROVE  /\ s \o t \in Seq(Calls) /\ Len(s \o t) = Len(s) + Len(t)
         /\ \A i \in 1..(Len(s) + Len(t)) :
              (s \o t)[i] = IF i <= Len(s) THEN s[i] ELSE t[i - Len(s)]
BY ConcatProperties

LEMMA MetaCalls ==
  WriteMeta \in Seq(Calls) /\ Len(WriteMeta) = 3
  /\ WriteMeta[1] = "create" /\ WriteMeta[2] = "fill" /\ WriteMeta[3] = "rename"
BY DEF WriteMeta, Calls

LEMMA FinalizeCalls ==
  /\ Finalize \in Seq(Calls) /\ Len(Finalize) = 7
  /\ Finalize[1] = "append"
  /\ Finalize[2] = "create" /\ Finalize[3] = "fill" /\ Finalize[4] = "rename"
  /\ Finalize[5] = "create" /\ Finalize[6] = "fill" /\ Finalize[7] = "rename"
<1>1. PICK a : a = <<"append">>
  OBVIOUS
<1>2. a \in Seq(Calls) /\ Len(a) = 1 /\ a[1] = "append"
  BY <1>1 DEF Calls
<1>3. PICK m : m = WriteMeta
  OBVIOUS
<1>4. m \in Seq(Calls) /\ Len(m) = 3 /\ m[1] = "create" /\ m[2] = "fill" /\ m[3] = "rename"
  BY <1>3, MetaCalls
<1>5. PICK b : b = a \o m
  OBVIOUS
<1>6. /\ b \in Seq(Calls) /\ Len(b) = Len(a) + Len(m)
      /\ \A i \in 1..(Len(a) + Len(m)) : b[i] = IF i <= Len(a) THEN a[i] ELSE m[i - Len(a)]
  <2>1. a \in Seq(Calls) /\ m \in Seq(Calls)
    BY <1>2, <1>4
  <2> QED
    BY <1>5, <2>1, Joined
<1>7. b[1] = "append" /\ b[2] = "create" /\ b[3] = "fill" /\ b[4] = "rename" /\ Len(b) = 4
  BY <1>2, <1>4, <1>6
<1>8. PICK f : f = b \o m
  OBVIOUS
<1>9. /\ f \in Seq(Calls) /\ Len(f) = Len(b) + Len(m)
      /\ \A i \in 1..(Len(b) + Len(m)) : f[i] = IF i <= Len(b) THEN b[i] ELSE m[i - Len(b)]
  <2>1. b \in Seq(Calls) /\ m \in Seq(Calls)
    BY <1>4, <1>6
  <2> QED
    BY <1>8, <2>1, Joined
<1>10. /\ Len(f) = 7 /\ f[1] = "append" /\ f[2] = "create" /\ f[3] = "fill" /\ f[4] = "rename"
       /\ f[5] = "create" /\ f[6] = "fill" /\ f[7] = "rename"
  BY <1>4, <1>7, <1>9
<1>11. f = Finalize
  BY <1>1, <1>3, <1>5, <1>8 DEF Finalize
<1> QED
  BY <1>9, <1>10, <1>11

LEMMA CompactCalls ==
  /\ CompactFiles \in Seq(Calls) /\ Len(CompactFiles) = 12
  /\ CompactFiles[1] = "name" /\ CompactFiles[2] = "archive"
  /\ CompactFiles[3] = "cut" /\ CompactFiles[4] = "replace"
  /\ CompactFiles[5] = "create" /\ CompactFiles[6] = "fill" /\ CompactFiles[7] = "rename"
  /\ CompactFiles[8] = "mark" /\ CompactFiles[9] = "point"
  /\ CompactFiles[10] = "create" /\ CompactFiles[11] = "fill" /\ CompactFiles[12] = "rename"
<1>1. PICK a : a = <<"name", "archive", "cut", "replace">>
  OBVIOUS
<1>2. /\ a \in Seq(Calls) /\ Len(a) = 4
      /\ a[1] = "name" /\ a[2] = "archive" /\ a[3] = "cut" /\ a[4] = "replace"
  BY <1>1 DEF Calls
<1>3. PICK m : m = WriteMeta
  OBVIOUS
<1>4. m \in Seq(Calls) /\ Len(m) = 3 /\ m[1] = "create" /\ m[2] = "fill" /\ m[3] = "rename"
  BY <1>3, MetaCalls
<1>5. PICK p : p = <<"mark", "point">>
  OBVIOUS
<1>6. p \in Seq(Calls) /\ Len(p) = 2 /\ p[1] = "mark" /\ p[2] = "point"
  BY <1>5 DEF Calls
<1>7. PICK b : b = a \o m
  OBVIOUS
<1>8. /\ b \in Seq(Calls) /\ Len(b) = Len(a) + Len(m)
      /\ \A i \in 1..(Len(a) + Len(m)) : b[i] = IF i <= Len(a) THEN a[i] ELSE m[i - Len(a)]
  <2>1. a \in Seq(Calls) /\ m \in Seq(Calls)
    BY <1>2, <1>4
  <2> QED
    BY <1>7, <2>1, Joined
<1>9. /\ Len(b) = 7 /\ b[1] = "name" /\ b[2] = "archive" /\ b[3] = "cut" /\ b[4] = "replace"
      /\ b[5] = "create" /\ b[6] = "fill" /\ b[7] = "rename"
  BY <1>2, <1>4, <1>8
<1>10. PICK c : c = b \o p
  OBVIOUS
<1>11. /\ c \in Seq(Calls) /\ Len(c) = Len(b) + Len(p)
       /\ \A i \in 1..(Len(b) + Len(p)) : c[i] = IF i <= Len(b) THEN b[i] ELSE p[i - Len(b)]
  <2>1. b \in Seq(Calls) /\ p \in Seq(Calls)
    BY <1>6, <1>8
  <2> QED
    BY <1>10, <2>1, Joined
<1>12. /\ Len(c) = 9 /\ c[1] = "name" /\ c[2] = "archive" /\ c[3] = "cut" /\ c[4] = "replace"
       /\ c[5] = "create" /\ c[6] = "fill" /\ c[7] = "rename" /\ c[8] = "mark" /\ c[9] = "point"
  BY <1>6, <1>9, <1>11
<1>13. PICK f : f = c \o m
  OBVIOUS
<1>14. /\ f \in Seq(Calls) /\ Len(f) = Len(c) + Len(m)
       /\ \A i \in 1..(Len(c) + Len(m)) : f[i] = IF i <= Len(c) THEN c[i] ELSE m[i - Len(c)]
  <2>1. c \in Seq(Calls) /\ m \in Seq(Calls)
    BY <1>4, <1>11
  <2> QED
    BY <1>13, <2>1, Joined
<1>15. /\ Len(f) = 12 /\ f[1] = "name" /\ f[2] = "archive" /\ f[3] = "cut" /\ f[4] = "replace"
       /\ f[5] = "create" /\ f[6] = "fill" /\ f[7] = "rename" /\ f[8] = "mark" /\ f[9] = "point"
       /\ f[10] = "create" /\ f[11] = "fill" /\ f[12] = "rename"
  BY <1>4, <1>12, <1>14
<1>16. f = CompactFiles
  BY <1>1, <1>3, <1>5, <1>7, <1>10, <1>13 DEF CompactFiles
<1> QED
  BY <1>14, <1>15, <1>16

LEMMA RestCalls ==
  ASSUME NEW s \in Seq(Calls), NEW n \in Nat, n < Len(s)
  PROVE  /\ Rest(s, n) \in Seq(Calls) /\ Len(Rest(s, n)) = Len(s) - n /\ Rest(s, n) # <<>>
         /\ Head(Rest(s, n)) = s[n + 1] /\ Rest(s, n)[1] = s[n + 1]
         /\ Tail(Rest(s, n)) = Rest(s, n + 1)
         /\ n + 1 = Len(s) => Tail(Rest(s, n)) = <<>>
<1>1. PICK k \in Nat : k = Len(s) /\ n < k
  OBVIOUS
<1>2. PICK t : t = Rest(s, n)
  OBVIOUS
<1>3. t = [i \in 1..(k - n) |-> s[i + n]]
  BY <1>1, <1>2 DEF Rest
<1>4. t \in Seq(Calls) /\ Len(t) = k - n
  BY <1>1, <1>3
<1>5. t # <<>> /\ t[1] = s[n + 1] /\ Head(t) = s[n + 1]
  <2>1. 1 \in 1..(k - n)
    BY <1>1
  <2>2. t[1] = s[1 + n]
    BY <1>3, <2>1
  <2>3. t # <<>>
    BY <1>1, <1>4, EmptySeq
  <2> QED
    BY <1>4, <2>2, <2>3
<1>6. Tail(t) = Rest(s, n + 1) /\ (n + 1 = k => Tail(t) = <<>>)
  <2>1. PICK u, v, j : u = Tail(t) /\ v = Rest(s, n + 1) /\ j = k - (n + 1)
    OBVIOUS
  <2>2. j \in Nat /\ k - n - 1 = j
    BY <1>1, <2>1
  <2>3. u \in Seq(Calls) /\ Len(u) = j /\ \A i \in 1..j : u[i] = t[i + 1]
    BY <1>4, <1>5, <2>1, <2>2, HeadTailProperties
  <2>4. v = [i \in 1..j |-> s[i + (n + 1)]]
    BY <1>1, <2>1 DEF Rest
  <2>5. v \in Seq(Calls) /\ Len(v) = j
    BY <1>1, <2>2, <2>4
  <2>6. \A i \in 1..j : u[i] = v[i]
    <3> TAKE i \in 1..j
    <3>1. i + 1 \in 1..(k - n) /\ (i + 1) + n = i + (n + 1)
      BY <1>1, <2>1
    <3> QED
      BY <1>3, <2>3, <2>4, <3>1
  <2>7. u = v
    BY <2>3, <2>5, <2>6, SeqEqual
  <2>8. n + 1 = k => u = <<>>
    BY <2>1, <2>2, <2>3
  <2> QED
    BY <2>1, <2>7, <2>8
<1> QED
  BY <1>1, <1>2, <1>4, <1>5, <1>6
-----------------------------------------------------------------------------
(* Where an operation stands, and what its next call is                    *)

LEMMA StoringCall ==
  ASSUME NEW r, NEW n, Storing(r, n)
  PROVE  /\ r.todo # <<>> /\ Head(r.todo) = Finalize[n + 1] /\ r.todo[1] = Finalize[n + 1]
         /\ r.todo \in Seq(Calls) /\ Len(r.todo) = 7 - n
         /\ Tail(r.todo) = Rest(Finalize, n + 1)
         /\ n = 6 <=> Tail(r.todo) = <<>>
<1>1. n \in 0..6 /\ r.todo = Rest(Finalize, n) /\ n \in Nat
  BY DEF Storing
<1>2. Finalize \in Seq(Calls) /\ Len(Finalize) = 7 /\ n < Len(Finalize)
  BY <1>1, FinalizeCalls
<1>3. /\ r.todo # <<>> /\ Head(r.todo) = Finalize[n + 1] /\ r.todo[1] = Finalize[n + 1]
      /\ r.todo \in Seq(Calls) /\ Len(r.todo) = Len(Finalize) - n
      /\ Tail(r.todo) = Rest(Finalize, n + 1)
      /\ n + 1 = Len(Finalize) => Tail(r.todo) = <<>>
  <2>1. PICK s : s = Finalize
    OBVIOUS
  <2>2. s \in Seq(Calls) /\ n < Len(s)
    BY <1>2, <2>1
  <2>3. /\ Rest(s, n) \in Seq(Calls) /\ Len(Rest(s, n)) = Len(s) - n /\ Rest(s, n) # <<>>
        /\ Head(Rest(s, n)) = s[n + 1] /\ Rest(s, n)[1] = s[n + 1]
        /\ Tail(Rest(s, n)) = Rest(s, n + 1)
        /\ n + 1 = Len(s) => Tail(Rest(s, n)) = <<>>
    BY <1>1, <2>2, RestCalls
  <2> QED
    BY <1>1, <2>1, <2>3
<1>4. n # 6 => Tail(r.todo) # <<>>
  <2>1. n # 6 => n + 1 \in Nat /\ n + 1 < Len(Finalize)
    BY <1>1, <1>2
  <2> QED
    BY <1>2, <1>3, <2>1, RestCalls
<1> QED
  BY <1>1, <1>2, <1>3, <1>4

LEMMA PackingCall ==
  ASSUME NEW r, NEW n, Packing(r, n)
  PROVE  /\ r.todo # <<>> /\ Head(r.todo) = CompactFiles[n + 1] /\ r.todo[1] = CompactFiles[n + 1]
         /\ r.todo \in Seq(Calls) /\ Len(r.todo) = 12 - n
         /\ Tail(r.todo) = Rest(CompactFiles, n + 1)
         /\ n = 11 <=> Tail(r.todo) = <<>>
<1>1. n \in 0..11 /\ r.todo = Rest(CompactFiles, n) /\ n \in Nat
  BY DEF Packing
<1>2. CompactFiles \in Seq(Calls) /\ Len(CompactFiles) = 12 /\ n < Len(CompactFiles)
  BY <1>1, CompactCalls
<1>3. /\ r.todo # <<>> /\ Head(r.todo) = CompactFiles[n + 1] /\ r.todo[1] = CompactFiles[n + 1]
      /\ r.todo \in Seq(Calls) /\ Len(r.todo) = Len(CompactFiles) - n
      /\ Tail(r.todo) = Rest(CompactFiles, n + 1)
      /\ n + 1 = Len(CompactFiles) => Tail(r.todo) = <<>>
  <2>1. PICK s : s = CompactFiles
    OBVIOUS
  <2>2. s \in Seq(Calls) /\ n < Len(s)
    BY <1>2, <2>1
  <2>3. /\ Rest(s, n) \in Seq(Calls) /\ Len(Rest(s, n)) = Len(s) - n /\ Rest(s, n) # <<>>
        /\ Head(Rest(s, n)) = s[n + 1] /\ Rest(s, n)[1] = s[n + 1]
        /\ Tail(Rest(s, n)) = Rest(s, n + 1)
        /\ n + 1 = Len(s) => Tail(Rest(s, n)) = <<>>
    BY <1>1, <2>2, RestCalls
  <2> QED
    BY <1>1, <2>1, <2>3
<1>4. n # 11 => Tail(r.todo) # <<>>
  <2>1. n # 11 => n + 1 \in Nat /\ n + 1 < Len(CompactFiles)
    BY <1>1, <1>2
  <2> QED
    BY <1>2, <1>3, <2>1, RestCalls
<1> QED
  BY <1>1, <1>2, <1>3, <1>4

(* An operation stands at one place.                                       *)
LEMMA OnePlace ==
  ASSUME NEW r, NEW n, NEW m
  PROVE  /\ Storing(r, n) /\ Storing(r, m) => n = m
         /\ Packing(r, n) /\ Packing(r, m) => n = m
         /\ ~(Storing(r, n) /\ Packing(r, m))
<1>1. ASSUME Storing(r, n), Storing(r, m) PROVE n = m
  <2>1. Len(r.todo) = 7 - n /\ Len(r.todo) = 7 - m /\ n \in 0..6 /\ m \in 0..6
    BY <1>1, StoringCall DEF Storing
  <2> QED
    BY <2>1
<1>2. ASSUME Packing(r, n), Packing(r, m) PROVE n = m
  <2>1. Len(r.todo) = 12 - n /\ Len(r.todo) = 12 - m /\ n \in 0..11 /\ m \in 0..11
    BY <1>2, PackingCall DEF Packing
  <2> QED
    BY <2>1
<1>3. ~(Storing(r, n) /\ Packing(r, m))
  BY TurnsAssumption DEF Storing, Packing, Turns, Compact
<1> QED
  BY <1>1, <1>2, <1>3

(* A compaction cuts from its replace to its point.                        *)
LEMMA CuttingPlace ==
  ASSUME NEW r, NEW n, Packing(r, n)
  PROVE  Cutting(r) <=> n \in 4..8
<1>1. r.op = Compact /\ n \in 0..11 /\ r.todo = Rest(CompactFiles, n) /\ r.todo # <<>>
  BY PackingCall DEF Packing
<1>2. Len(CompactFiles) = 12
  BY CompactCalls
<1>3. PICK t : t = [i \in 1..(12 - n) |-> CompactFiles[i + n]]
  OBVIOUS
<1>4. r.todo = t
  BY <1>1, <1>2, <1>3 DEF Rest
<1>5. n \in 0..8 => "point" \in Range(t)
  <2>1. n \in 0..8 => 9 - n \in 1..(12 - n) /\ (9 - n) + n = 9
    BY <1>1
  <2>2. n \in 0..8 => t[9 - n] = "point"
    BY <1>3, <2>1, CompactCalls
  <2>3. n \in 0..8 => 9 - n \in DOMAIN t
    BY <1>3, <2>1
  <2> QED
    BY <2>2, <2>3 DEF Range
<1>6. n \in 0..3 => "replace" \in Range(t)
  <2>1. n \in 0..3 => 4 - n \in 1..(12 - n) /\ (4 - n) + n = 4
    BY <1>1
  <2>2. n \in 0..3 => t[4 - n] = "replace"
    BY <1>3, <2>1, CompactCalls
  <2>3. n \in 0..3 => 4 - n \in DOMAIN t
    BY <1>3, <2>1
  <2> QED
    BY <2>2, <2>3 DEF Range
<1>7. ASSUME NEW x \in Range(t) PROVE \E j \in 1..12 : j > n /\ x = CompactFiles[j]
  <2>1. PICK i \in 1..(12 - n) : x = t[i]
    BY <1>3, <1>7 DEF Range
  <2>2. x = CompactFiles[i + n]
    BY <1>3, <2>1
  <2>3. i + n \in 1..12 /\ i + n > n
    BY <1>1, <2>1
  <2> QED
    BY <2>2, <2>3
<1>8. n \in 9..11 => "point" \notin Range(t)
  <2>1. \A j \in 1..12 : j > 9 => j \in {10, 11, 12}
    OBVIOUS
  <2>2. \A j \in {10, 11, 12} : CompactFiles[j] # "point"
    BY CompactCalls
  <2>3. n \in 9..11 => \A j \in 1..12 : j > n => j > 9
    OBVIOUS
  <2> QED
    BY <1>7, <2>1, <2>2, <2>3
<1>9. n \in 4..11 => "replace" \notin Range(t)
  <2>1. \A j \in 1..12 : j > 4 => j \in {5, 6, 7, 8, 9, 10, 11, 12}
    OBVIOUS
  <2>2. \A j \in {5, 6, 7, 8, 9, 10, 11, 12} : CompactFiles[j] # "replace"
    BY CompactCalls
  <2>3. n \in 4..11 => \A j \in 1..12 : j > n => j > 4
    OBVIOUS
  <2> QED
    BY <1>7, <2>1, <2>2, <2>3
<1>10. n \in 0..3 \/ n \in 4..8 \/ n \in 9..11
  BY <1>1
<1> QED
  BY <1>1, <1>4, <1>5, <1>6, <1>8, <1>9, <1>10 DEF Cutting
-----------------------------------------------------------------------------
(* The directory                                                           *)

Apart(d, a) == /\ a.meta = d.meta /\ a.meta_tmp = d.meta_tmp /\ a.cut_tmp = d.cut_tmp
               /\ a.archive = d.archive /\ a.memory = d.memory

(* What an append of the first k lines of turn t makes of the directory.   *)
Grown(d, a, t, k) ==
  /\ IsDisk(a) /\ Apart(d, a)
  /\ Readable(d) \subseteq Readable(a) /\ Readable(a) \subseteq Readable(d) \cup Entries(t)
  /\ GluedIn(d) \subseteq GluedIn(a)
  /\ \A i \in 1..k : <<t, i>> \in Readable(a) \cup GluedIn(a)

LEMMA AppendedGrown ==
  ASSUME NEW d, IsDisk(d), NEW t \in Turns, NEW k \in {0, 1, 2}
  PROVE  Grown(d, Appended(d, t, k), t, k)
<1>1. PICK new : new = [i \in 1..k |-> [entry |-> <<t, i>>, whole |-> i > 1 \/ ~d.torn]]
  OBVIOUS
<1>2. PICK a : a = Appended(d, t, k)
  OBVIOUS
<1>3. PICK old : old = d.lines
  OBVIOUS
<1>4. PICK x : x = old \o new
  OBVIOUS
<1>5. a = [d EXCEPT !.lines = x, !.torn = k = 0 /\ d.torn]
  BY <1>1, <1>2, <1>3, <1>4 DEF Appended
<1>6. /\ a = [meta |-> d.meta, meta_tmp |-> d.meta_tmp, lines |-> x, torn |-> k = 0 /\ d.torn,
              cut_tmp |-> d.cut_tmp, archive |-> d.archive, memory |-> d.memory]
  <2>1. d = [meta |-> d.meta, meta_tmp |-> d.meta_tmp, lines |-> d.lines, torn |-> d.torn,
          cut_tmp |-> d.cut_tmp, archive |-> d.archive, memory |-> d.memory]
    BY DEF IsDisk
  <2> QED
    BY <1>5, <2>1
<1>7. k \in Nat /\ \A i \in 1..k : i \in {1, 2}
  OBVIOUS
<1>8. new \in Seq(Line) /\ Len(new) = k
  <2>1. \A i \in 1..k : [entry |-> <<t, i>>, whole |-> i > 1 \/ ~d.torn] \in Line
    BY <1>7 DEF Line
  <2> QED
    BY <1>1, <1>7, <2>1
<1>9. old \in Seq(Line)
  BY <1>3 DEF IsDisk
<1>10. /\ x \in Seq(Line) /\ Len(x) = Len(old) + Len(new)
       /\ \A i \in 1..(Len(old) + Len(new)) : x[i] = IF i <= Len(old) THEN old[i] ELSE new[i - Len(old)]
  BY <1>4, <1>8, <1>9, ConcatProperties
<1>11. PICK n \in Nat : n = Len(old)
  BY <1>9
<1>12. Range(x) = Range(old) \cup Range(new)
  <2>1. DOMAIN x = 1..(n + k) /\ DOMAIN old = 1..n /\ DOMAIN new = 1..k
    BY <1>8, <1>9, <1>10, <1>11
  <2>2. \A i \in 1..n : i \in 1..(n + k) /\ x[i] = old[i]
    BY <1>7, <1>8, <1>10, <1>11
  <2>3. \A i \in 1..k : n + i \in 1..(n + k) /\ x[n + i] = new[i]
    BY <1>7, <1>8, <1>10, <1>11
  <2>4. \A i \in 1..(n + k) : i \in 1..n \/ (i - n \in 1..k /\ n + (i - n) = i)
    BY <1>7, <1>11
  <2> QED
    BY <2>1, <2>2, <2>3, <2>4 DEF Range
<1>13. Range(new) = {[entry |-> <<t, i>>, whole |-> i > 1 \/ ~d.torn] : i \in 1..k}
  BY <1>1 DEF Range
<1>14. a.lines = x /\ IsDisk(a) /\ Apart(d, a)
  <2>1. (k = 0 /\ d.torn) \in BOOLEAN
    OBVIOUS
  <2> QED
    BY <1>6, <1>10, <2>1 DEF IsDisk, Apart
<1>15. \A l \in Range(new) : l.entry \in Entries(t)
  <2>1. \A i \in 1..k : <<t, i>> \in Entries(t)
    BY <1>7 DEF Entries
  <2> QED
    BY <1>13, <2>1
<1>16. Readable(d) \subseteq Readable(a) /\ Readable(a) \subseteq Readable(d) \cup Entries(t)
  BY <1>3, <1>12, <1>14, <1>15 DEF Readable
<1>17. GluedIn(d) \subseteq GluedIn(a)
  BY <1>3, <1>12, <1>14 DEF GluedIn
<1>18. ASSUME NEW i \in 1..k PROVE <<t, i>> \in Readable(a) \cup GluedIn(a)
  <2>1. PICK l : l = [entry |-> <<t, i>>, whole |-> i > 1 \/ ~d.torn]
    OBVIOUS
  <2>2. l \in Range(x) /\ l.entry = <<t, i>>
    BY <1>12, <1>13, <2>1
  <2>3. l.whole \/ ~l.whole
    OBVIOUS
  <2> QED
    BY <1>14, <2>2, <2>3 DEF Readable, GluedIn
<1> QED
  BY <1>2, <1>14, <1>16, <1>17, <1>18 DEF Grown

LEMMA SameFiles ==
  ASSUME NEW d, NEW a, a.lines = d.lines, a.archive = d.archive, a.memory = d.memory
  PROVE  /\ Resumed(a) = Resumed(d) /\ Readable(a) = Readable(d) /\ GluedIn(a) = GluedIn(d)
         /\ \A t : Kept(a, t) <=> Kept(d, t)
BY DEF Resumed, Archived, Readable, GluedIn, Kept

LEMMA GrownKeeps ==
  ASSUME NEW d, NEW a, NEW t, NEW k, Grown(d, a, t, k)
  PROVE  /\ Resumed(d) \subseteq Resumed(a) /\ Resumed(a) \subseteq Resumed(d) \cup Entries(t)
         /\ \A u : Kept(d, u) => Kept(a, u)
         /\ k = 2 => Kept(a, t)
<1>1. Archived(a) = Archived(d)
  BY DEF Grown, Apart, Archived
<1>2. \A u : Kept(d, u) => Kept(a, u)
  BY DEF Grown, Kept
<1>3. k = 2 => Kept(a, t)
  BY DEF Grown, Kept, Entries
<1> QED
  BY <1>1, <1>2, <1>3 DEF Grown, Resumed
(* A call that leaves alone what a resume reads but for the metadata.      *)
Touched(d, a) ==
  IsDisk(a) /\ a.lines = d.lines /\ a.archive = d.archive /\ a.memory = d.memory

LEMMA CreateEffect ==
  ASSUME NEW d, IsDisk(d), NEW r
  PROVE  /\ Touched(d, Effect(d, r, "create")) /\ Effect(d, r, "create").meta = d.meta
         /\ d.meta = "whole" => Effect(d, r, "create").meta_tmp = "half"
<1>1. PICK a : a = Effect(d, r, "create")
  OBVIOUS
<1>2. a = IF Fails(d, r, "create") THEN d ELSE [d EXCEPT !.meta_tmp = "half"]
  BY <1>1 DEF Effect, Created
<1>3. CASE Fails(d, r, "create")
  <2>1. a = d /\ d.meta # "whole"
    BY <1>2, <1>3 DEF Fails
  <2> QED
    BY <1>1, <2>1 DEF Touched
<1>4. CASE ~Fails(d, r, "create")
  <2>1. a = [meta |-> d.meta, meta_tmp |-> "half", lines |-> d.lines, torn |-> d.torn,
             cut_tmp |-> d.cut_tmp, archive |-> d.archive, memory |-> d.memory]
    BY <1>2, <1>4 DEF IsDisk
  <2> QED
    BY <1>1, <2>1 DEF IsDisk, Touched, Contents
<1> QED
  BY <1>3, <1>4

LEMMA FillEffect ==
  ASSUME NEW d, IsDisk(d), NEW r, NEW a, a = Effect(d, r, "fill")
  PROVE  Touched(d, a) /\ a.meta \in {d.meta, "whole"} /\ (d.meta_tmp # "none" => a.meta_tmp = "whole")
<1>1. a = IF d.meta_tmp = "none" THEN [d EXCEPT !.meta = "whole"] ELSE [d EXCEPT !.meta_tmp = "whole"]
  BY DEF Effect
<1>2. CASE d.meta_tmp = "none"
  <2>1. a = [meta |-> "whole", meta_tmp |-> d.meta_tmp, lines |-> d.lines, torn |-> d.torn,
             cut_tmp |-> d.cut_tmp, archive |-> d.archive, memory |-> d.memory]
    BY <1>1, <1>2 DEF IsDisk
  <2> QED
    BY <1>2, <2>1 DEF IsDisk, Touched, Contents
<1>3. CASE d.meta_tmp # "none"
  <2>1. a = [meta |-> d.meta, meta_tmp |-> "whole", lines |-> d.lines, torn |-> d.torn,
             cut_tmp |-> d.cut_tmp, archive |-> d.archive, memory |-> d.memory]
    BY <1>1, <1>3 DEF IsDisk
  <2> QED
    BY <2>1 DEF IsDisk, Touched, Contents
<1> QED
  BY <1>2, <1>3

LEMMA RenameEffect ==
  ASSUME NEW d, IsDisk(d), NEW r, NEW a, a = Effect(d, r, "rename")
  PROVE  Touched(d, a) /\ (d.meta_tmp = "whole" => a.meta \in {d.meta, "whole"})
<1>1. a = IF d.meta_tmp = "none" THEN d ELSE [d EXCEPT !.meta = d.meta_tmp, !.meta_tmp = "none"]
  BY DEF Effect, Renamed
<1>2. CASE d.meta_tmp = "none"
  BY <1>1, <1>2 DEF Touched
<1>3. CASE d.meta_tmp # "none"
  <2>1. a = [meta |-> d.meta_tmp, meta_tmp |-> "none", lines |-> d.lines, torn |-> d.torn,
             cut_tmp |-> d.cut_tmp, archive |-> d.archive, memory |-> d.memory]
    BY <1>1, <1>3 DEF IsDisk
  <2> QED
    BY <1>3, <2>1 DEF IsDisk, Touched, Contents
<1> QED
  BY <1>2, <1>3

LEMMA CutEffect ==
  ASSUME NEW d, IsDisk(d), NEW r, NEW a, a = Effect(d, r, "cut")
  PROVE  Touched(d, a) /\ a.meta = d.meta
<1>1. PICK yes \in BOOLEAN : yes = TRUE
  OBVIOUS
<1>2. a = [d EXCEPT !.cut_tmp = yes]
  BY <1>1 DEF Effect
<1>3. a = [meta |-> d.meta, meta_tmp |-> d.meta_tmp, lines |-> d.lines, torn |-> d.torn,
           cut_tmp |-> yes, archive |-> d.archive, memory |-> d.memory]
  BY <1>2 DEF IsDisk
<1> QED
  BY <1>3 DEF IsDisk, Touched

(* What writing the archive of engine r makes of the directory.            *)
Filed(d, r, a) ==
  /\ IsDisk(a) /\ a.meta = d.meta /\ a.lines = d.lines /\ a.archive = d.archive
  /\ DOMAIN a.memory = DOMAIN d.memory \cup {r.name} /\ a.memory[r.name] = r.live
  /\ \A n \in DOMAIN d.memory \ {r.name} : a.memory[n] = d.memory[n]

LEMMA ArchiveEffect ==
  ASSUME NEW d, IsDisk(d), NEW r, NEW a, a = Effect(d, r, "archive")
  PROVE  Filed(d, r, a)
<1>1. PICK m : m = [n \in DOMAIN d.memory \cup {r.name} |-> IF n = r.name THEN r.live ELSE d.memory[n]]
  OBVIOUS
<1>2. a = [d EXCEPT !.memory = m]
  BY <1>1 DEF Effect
<1>3. a = [meta |-> d.meta, meta_tmp |-> d.meta_tmp, lines |-> d.lines, torn |-> d.torn,
           cut_tmp |-> d.cut_tmp, archive |-> d.archive, memory |-> m]
  BY <1>2 DEF IsDisk
<1>4. /\ DOMAIN m = DOMAIN d.memory \cup {r.name} /\ m[r.name] = r.live
      /\ \A n \in DOMAIN d.memory \ {r.name} : m[n] = d.memory[n]
  BY <1>1
<1> QED
  BY <1>3, <1>4 DEF IsDisk, Filed

LEMMA ReplaceEffect ==
  ASSUME NEW d, IsDisk(d), NEW r, NEW a, a = Effect(d, r, "replace")
  PROVE  /\ IsDisk(a) /\ a.meta = d.meta /\ a.archive = d.archive /\ a.memory = d.memory
         /\ a.lines = d.lines \/ a.lines = <<>>
         /\ ~d.cut_tmp => a = d
<1>1. PICK no \in BOOLEAN : no = FALSE
  OBVIOUS
<1>2. a = IF d.cut_tmp THEN [d EXCEPT !.lines = <<>>, !.torn = no, !.cut_tmp = no] ELSE d
  BY <1>1 DEF Effect
<1>3. CASE ~d.cut_tmp
  BY <1>2, <1>3
<1>4. CASE d.cut_tmp
  <2>2. PICK none \in Seq(Line) : none = <<>>
    BY EmptySeq
  <2>1. a = [meta |-> d.meta, meta_tmp |-> d.meta_tmp, lines |-> none, torn |-> no,
             cut_tmp |-> no, archive |-> d.archive, memory |-> d.memory]
    BY <1>2, <1>4, <2>2 DEF IsDisk
  <2>3. IsDisk(a)
    BY <2>1 DEF IsDisk
  <2>4. a.meta = d.meta /\ a.archive = d.archive /\ a.memory = d.memory /\ a.lines = <<>>
    BY <2>1, <2>2
  <2> QED
    BY <1>4, <2>3, <2>4
<1> QED
  BY <1>3, <1>4

LEMMA MarkEffect ==
  ASSUME NEW d, IsDisk(d), NEW r, NEW a, a = Effect(d, r, "mark")
  PROVE  /\ IsDisk(a) /\ a.meta = d.meta /\ a.lines = d.lines /\ a.memory = d.memory
<1>1. a = [d EXCEPT !.archive = Empty]
  BY DEF Effect
<1>2. a = [meta |-> d.meta, meta_tmp |-> d.meta_tmp, lines |-> d.lines, torn |-> d.torn,
           cut_tmp |-> d.cut_tmp, archive |-> Empty, memory |-> d.memory]
  BY <1>1 DEF IsDisk
<1> QED
  BY <1>2 DEF IsDisk

LEMMA PointEffect ==
  ASSUME NEW d, IsDisk(d), NEW r, r.name \in DOMAIN d.memory, NEW a, a = Effect(d, r, "point")
  PROVE  /\ IsDisk(a) /\ a.meta = d.meta /\ a.lines = d.lines /\ a.memory = d.memory
         /\ a.archive = r.name
<1>1. a = [d EXCEPT !.archive = r.name]
  BY DEF Effect
<1>2. a = [meta |-> d.meta, meta_tmp |-> d.meta_tmp, lines |-> d.lines, torn |-> d.torn,
           cut_tmp |-> d.cut_tmp, archive |-> r.name, memory |-> d.memory]
  BY <1>1 DEF IsDisk
<1> QED
  BY <1>2 DEF IsDisk

LEMMA AppendEffect ==
  ASSUME NEW d, IsDisk(d), NEW r, r.op \in Turns, NEW a, a = Effect(d, r, "append")
  PROVE  /\ IsDisk(a) /\ a.meta = d.meta /\ a.archive = d.archive /\ a.memory = d.memory
         /\ d.meta = "whole" => Grown(d, a, r.op, 2)
<1>1. a = IF d.meta = "whole" THEN Appended(d, r.op, 2) ELSE d
  BY DEF Effect
<1>2. Grown(d, Appended(d, r.op, 2), r.op, 2)
  BY AppendedGrown
<1> QED
  BY <1>1, <1>2 DEF Grown, Apart
-----------------------------------------------------------------------------
(* A step of one engine                                                    *)

LEMMA EngineFrame ==
  ASSUME NEW e, NEW r, NEW c, NEW p, NEW M, EngineOK(e, r, c, p, M),
         NEW b, NEW q, NEW N, M \subseteq N,
         (q = p /\ b = c) \/ (~Compacts(r) /\ q # "closed")
  PROVE  EngineOK(e, r, b, q, N)
BY DEF EngineOK

LEMMA ShapesStep ==
  ASSUME Shapes, NEW e \in Engines, NEW q, engines' = [engines EXCEPT ![e] = q],
         cur' = cur, shared' \in BOOLEAN, IsApp(app'), IsDisk(disk'), count'.turns \in 0..MaxTurns,
         DOMAIN disk.memory \subseteq DOMAIN disk'.memory,
         app'.phase = app.phase \/ (e = cur /\ app'.phase # "closed"),
         EngineOK(e, q, cur, app'.phase, DOMAIN disk'.memory)
  PROVE  Shapes'
<1>1. DOMAIN engines = Engines /\ \A o \in Engines : engines'[o] = IF o = e THEN q ELSE engines[o]
  BY DEF Shapes
<1>2. engines' = [o \in Engines |-> engines'[o]]
  BY <1>1 DEF Shapes
<1>3. PICK p, M : p = app'.phase /\ M = DOMAIN disk'.memory
  OBVIOUS
<1>4. ASSUME NEW o \in Engines PROVE EngineOK(o, engines'[o], cur, p, M)
  <2>1. CASE o = e
    BY <1>1, <1>3, <2>1
  <2>2. CASE o # e
    <3>1. EngineOK(o, engines[o], cur, app.phase, DOMAIN disk.memory)
      BY DEF Shapes
    <3>2. o # cur => ~Compacts(engines[o])
      BY <3>1 DEF EngineOK
    <3>3. EngineOK(o, engines[o], cur, p, M)
      BY <1>3, <2>2, <3>1, <3>2, EngineFrame
    <3> QED
      BY <1>1, <2>2, <3>3
  <2> QED
    BY <2>1, <2>2
<1>5. (\A o \in Engines : EngineOK(o, engines[o], cur, app.phase, DOMAIN disk.memory))'
  BY <1>3, <1>4
<1>6. cur' \in Engines
  BY DEF Shapes
<1>7. IsApp(app)' /\ IsDisk(disk)'
  BY DEF IsApp, IsDisk, Turns, None, Line, Contents, Empty
<1> QED
  BY <1>2, <1>5, <1>6, <1>7 DEF Shapes

(* A step that leaves the files and what was shown.                        *)
LEMMA FilesStep ==
  ASSUME Shapes, FilesOK, NEW e \in Engines, NEW q, engines' = [engines EXCEPT ![e] = q],
         cur' = cur, disk' = disk, shown' = shown,
         app'.ended => Kept(disk, app'.turn), disk.meta = "none" => app'.phase = "closed",
         Knows(e, q, cur, IF e = cur THEN q ELSE engines[cur], disk, shown),
         e = cur => (q.loaded = engines[e].loaded \/ \A o \in Engines \ {e} : engines[o].todo = <<>>)
  PROVE  FilesOK'
<1>1. \A o \in Engines : engines'[o] = IF o = e THEN q ELSE engines[o]
  BY DEF Shapes
<1>2. PICK c, k : c = cur /\ k = engines'[cur]
  OBVIOUS
<1>3. c \in Engines
  BY <1>2 DEF Shapes
<1>4. k = IF e = c THEN q ELSE engines[c]
  BY <1>1, <1>2, <1>3
<1>5. ASSUME NEW o \in Engines PROVE Knows(o, engines'[o], c, k, disk, shown)
  <2>1. CASE o = e
    BY <1>1, <1>2, <1>4, <2>1
  <2>2. CASE o # e
    <3>1. Knows(o, engines[o], c, engines[c], disk, shown)
      BY <1>2 DEF FilesOK
    <3>2. engines[o].todo = <<>> \/ k.loaded = engines[c].loaded
      BY <1>2, <1>4, <2>2
    <3>3. Knows(o, engines[o], c, k, disk, shown)
      BY <3>1, <3>2 DEF Knows
    <3> QED
      BY <1>1, <2>2, <3>3
  <2> QED
    BY <2>1, <2>2
<1>6. \A o \in Engines : Knows(o, engines'[o], cur', engines'[cur'], disk', shown')
  BY <1>2, <1>5
<1>7. (\A o \in Engines : Knows(o, engines[o], cur, engines[cur], disk, shown))'
  BY <1>6
<1>8. app'.ended => Kept(disk', app'.turn)
  OBVIOUS
<1> QED
  BY <1>7, <1>8 DEF FilesOK
-----------------------------------------------------------------------------
(* The engine                                                              *)

LEMMA NotWriting ==
  ASSUME NEW r, r.todo = <<>>
  PROVE  \A n : ~Storing(r, n) /\ ~Packing(r, n)
BY StoringCall, PackingCall

LEMMA NoneIsNoOp ==
  None \notin Ops /\ None \notin Turns /\ None # Compact /\ Turns \subseteq Ops /\ Compact \notin Turns
  /\ Compact \in Ops
BY TurnsAssumption DEF None, Ops, Turns, Compact

LEMMA LockStep ==
  ASSUME IInv, NEW e \in Engines, Lock(e)
  PROVE  IInv'
<1>1. PICK r : r = engines[e]
  OBVIOUS
<1>2. PICK yes \in BOOLEAN : yes = TRUE
  OBVIOUS
<1>3. PICK u : u = r.queue
  OBVIOUS
<1>4. PICK live : live = IF ~r.loaded THEN Resumed(disk) ELSE r.live
  OBVIOUS
<1>5. PICK q : q = [r EXCEPT !.op = Head(u), !.queue = Tail(u), !.loaded = yes, !.live = live]
  OBVIOUS
<1>6. /\ r.op = None /\ u # <<>> /\ engines' = [engines EXCEPT ![e] = q]
      /\ shared' = (shared \/ (~r.loaded /\ \E o \in Engines \ {e} : Writing(o)))
      /\ disk' = disk /\ cur' = cur /\ app' = app /\ shown' = shown /\ count' = count
  <2>1. /\ r.op = None /\ u # <<>>
        /\ shared' = (shared \/ (~r.loaded /\ \E o \in Engines \ {e} : Writing(o)))
        /\ disk' = disk /\ cur' = cur /\ app' = app /\ shown' = shown /\ count' = count
    BY <1>1, <1>3 DEF Lock, Free
  <2>2. engines' = [engines EXCEPT
           ![e] = [engines[e] EXCEPT
                     !.op = Head(engines[e].queue), !.queue = Tail(engines[e].queue), !.loaded = TRUE,
                     !.live = IF ~engines[e].loaded THEN Resumed(disk) ELSE engines[e].live]]
    BY DEF Lock
  <2>3. q = [engines[e] EXCEPT
               !.op = Head(engines[e].queue), !.queue = Tail(engines[e].queue), !.loaded = TRUE,
               !.live = IF ~engines[e].loaded THEN Resumed(disk) ELSE engines[e].live]
    BY <1>1, <1>2, <1>3, <1>4, <1>5
  <2> QED
    BY <2>1, <2>2, <2>3
<1>7. PICK c, p, M : c = cur /\ p = app.phase /\ M = DOMAIN disk.memory
  OBVIOUS
<1>8. EngineOK(e, r, c, p, M) /\ IsEngine(r)
  BY <1>1, <1>7 DEF IInv, Shapes, EngineOK
<1>9. r.todo = <<>> /\ u \in Seq(Ops)
  BY <1>3, <1>6, <1>8 DEF EngineOK, IsEngine
<1>10. q = [loaded |-> yes, live |-> live, op |-> Head(u), todo |-> r.todo, name |-> r.name,
            queue |-> Tail(u)]
  BY <1>5, <1>8 DEF IsEngine
<1>11. /\ Head(u) \in Ops /\ Head(u) = u[1] /\ Tail(u) \in Seq(Ops) /\ Len(Tail(u)) = Len(u) - 1
       /\ Len(u) \in Nat /\ Len(u) >= 1 /\ \A i \in 1..Len(Tail(u)) : Tail(u)[i] = u[i + 1]
  <2>1. Len(u) \in Nat \ {0}
    BY <1>6, <1>9, EmptySeq
  <2> QED
    BY <1>6, <1>9, <2>1, HeadTailProperties
<1>12. /\ q.loaded = yes /\ q.live = live /\ q.op = Head(u) /\ q.todo = <<>> /\ q.name = r.name
       /\ q.queue = Tail(u)
  BY <1>9, <1>10
<1>13. IsEngine(q)
  BY <1>10, <1>11, <1>12 DEF IsEngine
<1>14. q.op = Compact => q.queue = <<>>
  <2>1. \A i \in 1..Len(u) : u[i] = Compact => i = Len(u)
    BY <1>3, <1>8 DEF EngineOK
  <2>2. 1 \in 1..Len(u)
    BY <1>11
  <2>3. q.op = Compact => Len(u) = 1
    BY <1>11, <1>12, <2>1, <2>2
  <2>4. PICK v, j : v = Tail(u) /\ j = Len(u)
    OBVIOUS
  <2>5. v \in Seq(Ops) /\ Len(v) = j - 1 /\ (q.op = Compact => j = 1)
    BY <1>11, <2>3, <2>4
  <2>6. q.op = Compact => v = <<>>
    BY <2>5
  <2> QED
    BY <1>12, <2>4, <2>6
<1>15. \A i \in 1..Len(q.queue) : q.queue[i] = Compact => i = Len(q.queue)
  <2>1. \A i \in 1..Len(u) : u[i] = Compact => i = Len(u)
    BY <1>3, <1>8 DEF EngineOK
  <2>2. PICK v, j, k : v = Tail(u) /\ j = Len(u) /\ k = Len(v)
    OBVIOUS
  <2>3. j \in Nat /\ k = j - 1 /\ \A i \in 1..k : v[i] = u[i + 1]
    BY <1>11, <2>2
  <2>4. \A i \in 1..k : i + 1 \in 1..j /\ (i + 1 = j => i = k)
    BY <2>3
  <2>5. \A i \in 1..k : v[i] = Compact => i = k
    BY <2>1, <2>2, <2>3, <2>4
  <2> QED
    BY <1>12, <2>2, <2>5
<1>16. Compacts(q) => Compacts(r)
  <2>1. Compacts(q) => \E i \in 1..Len(u) : u[i] = Compact
    <3>1. 1 \in 1..Len(u) /\ \A i \in 1..Len(Tail(u)) : i + 1 \in 1..Len(u)
      BY <1>11
    <3> QED
      BY <1>11, <1>12, <3>1 DEF Compacts
  <2> QED
    BY <1>3, <2>1 DEF Compacts
<1>17. p # "closed"
  BY <1>3, <1>6, <1>8 DEF EngineOK
<1>18. EngineOK(e, q, c, p, M)
  <2>1. \A n : ~Storing(q, n) /\ ~Packing(q, n)
    BY <1>12, NotWriting
  <2>2. q.loaded
    BY <1>2, <1>12
  <2>3. Compacts(q) => e = c /\ p = "compacting"
    BY <1>8, <1>16 DEF EngineOK
  <2> QED
    BY <1>12, <1>13, <1>14, <1>15, <1>17, <2>1, <2>2, <2>3 DEF EngineOK
<1>19. Shapes'
  BY <1>6, <1>7, <1>18, ShapesStep DEF IInv, Shapes
<1>20. ASSUME ~shared' PROVE FilesOK'
  <2>1. FilesOK /\ Shapes
    BY <1>6, <1>20 DEF IInv
  <2>2. ~r.loaded => \A o \in Engines \ {e} : engines[o].todo = <<>>
    BY <1>6, <1>20 DEF Writing
  <2>3. Knows(e, r, c, engines[c], disk, shown)
    BY <1>1, <1>7, <2>1 DEF FilesOK
  <2>4. \A n : ~Storing(q, n) /\ ~Packing(q, n) /\ ~Packing(r, n)
    BY <1>9, <1>12, NotWriting
  <2>5. e = c => shown \subseteq Resumed(disk)
    BY <2>3, <2>4 DEF Knows
  <2>6. /\ e = c => Resumed(disk) \subseteq live /\ shown \subseteq live
        /\ Readable(disk) \subseteq Resumed(disk)
    BY <1>4, <2>3, <2>4, <2>5 DEF Knows, Resumed
  <2>7. \A k : Knows(e, q, c, k, disk, shown)
    BY <1>12, <2>4, <2>5, <2>6 DEF Knows, TmpFits
  <2>8. q.loaded = r.loaded \/ \A o \in Engines \ {e} : engines[o].todo = <<>>
    BY <1>2, <1>8, <1>12, <2>2 DEF IsEngine
  <2> QED
    BY <1>1, <1>6, <1>7, <2>1, <2>7, <2>8, FilesStep DEF FilesOK
<1> QED
  BY <1>19, <1>20 DEF IInv

(* The start of an operation's file calls.                                 *)
LEMMA FirstCall ==
  Rest(Finalize, 0) = Finalize /\ Rest(CompactFiles, 0) = CompactFiles
  /\ Finalize # <<>> /\ CompactFiles # <<>>
<1>1. ASSUME NEW s \in Seq(Calls) PROVE Rest(s, 0) = s
  <2>1. PICK t : t = Rest(s, 0)
    OBVIOUS
  <2>2. PICK k \in Nat : k = Len(s)
    OBVIOUS
  <2>3. t = [i \in 1..k |-> s[i + 0]]
    BY <2>1, <2>2 DEF Rest
  <2>4. t \in Seq(Calls) /\ Len(t) = k /\ \A i \in 1..k : t[i] = s[i]
    BY <2>2, <2>3
  <2> QED
    BY <2>1, <2>2, <2>4, SeqEqual
<1>2. ASSUME NEW s \in Seq(Calls), Len(s) # 0 PROVE s # <<>>
  BY <1>2
<1>3. Finalize \in Seq(Calls) /\ Len(Finalize) # 0
  BY FinalizeCalls
<1>4. CompactFiles \in Seq(Calls) /\ Len(CompactFiles) # 0
  BY CompactCalls
<1> QED
  BY <1>1, <1>2, <1>3, <1>4

LEMMA AbandonStep ==
  ASSUME IInv, NEW e \in Engines, Abandon(e)
  PROVE  IInv'
<1>1. PICK r : r = engines[e]
  OBVIOUS
<1>2. PICK q : q = [r EXCEPT !.op = None, !.live = r.live \cup {<<r.op, 1>>}]
  OBVIOUS
<1>3. /\ r.op \in Turns /\ r.todo = <<>>
      /\ disk' = disk /\ cur' = cur /\ app' = app /\ shown' = shown /\ count' = count
      /\ shared' = shared
  BY <1>1 DEF Abandon, Writing, Turns
<1>4. PICK c, p, M : c = cur /\ p = app.phase /\ M = DOMAIN disk.memory
  OBVIOUS
<1>5. EngineOK(e, r, c, p, M) /\ IsEngine(r)
  BY <1>1, <1>4 DEF IInv, Shapes, EngineOK
<1>6. engines' = [engines EXCEPT ![e] = q]
  BY <1>1, <1>2 DEF Abandon, IInv, Shapes
<1>7. q = [loaded |-> r.loaded, live |-> r.live \cup {<<r.op, 1>>}, op |-> None, todo |-> r.todo,
           name |-> r.name, queue |-> r.queue]
  BY <1>2, <1>5 DEF IsEngine
<1>8. /\ q.loaded = r.loaded /\ r.live \subseteq q.live /\ q.op = None /\ q.todo = <<>>
      /\ q.queue = r.queue /\ IsEngine(q)
  BY <1>3, <1>5, <1>7 DEF IsEngine
<1>9. \A n : ~Storing(q, n) /\ ~Packing(q, n) /\ ~Packing(r, n)
  BY <1>3, <1>8, NotWriting
<1>10. EngineOK(e, q, c, p, M)
  <2>1. Compacts(q) => Compacts(r)
    BY <1>8, NoneIsNoOp DEF Compacts
  <2> QED
    BY <1>5, <1>8, <1>9, <2>1, NoneIsNoOp DEF EngineOK
<1>11. Shapes'
  BY <1>3, <1>4, <1>6, <1>10, ShapesStep DEF IInv, Shapes
<1>12. ASSUME ~shared' PROVE FilesOK'
  <2>1. FilesOK /\ Shapes
    BY <1>3, <1>12 DEF IInv
  <2>2. Knows(e, r, c, engines[c], disk, shown)
    BY <1>1, <1>4, <2>1 DEF FilesOK
  <2>3. \A k : Knows(e, q, c, k, disk, shown)
    BY <1>8, <1>9, <2>2 DEF Knows, TmpFits
  <2> QED
    BY <1>1, <1>3, <1>4, <1>6, <1>8, <2>1, <2>3, FilesStep DEF FilesOK
<1> QED
  BY <1>11, <1>12 DEF IInv

LEMMA RunDoneStep ==
  ASSUME IInv, NEW e \in Engines, RunDone(e)
  PROVE  IInv'
<1>1. PICK r : r = engines[e]
  OBVIOUS
<1>2. PICK q : q = [r EXCEPT !.todo = Finalize, !.live = r.live \cup Entries(r.op)]
  OBVIOUS
<1>3. /\ r.op \in Turns /\ r.todo = <<>>
      /\ disk' = disk /\ cur' = cur /\ app' = app /\ shown' = shown /\ count' = count
      /\ shared' = shared
  BY <1>1 DEF RunDone, Writing, Turns
<1>4. PICK c, p, M : c = cur /\ p = app.phase /\ M = DOMAIN disk.memory
  OBVIOUS
<1>5. EngineOK(e, r, c, p, M) /\ IsEngine(r)
  BY <1>1, <1>4 DEF IInv, Shapes, EngineOK
<1>6. engines' = [engines EXCEPT ![e] = q]
  BY <1>1, <1>2 DEF RunDone, IInv, Shapes
<1>7. q = [loaded |-> r.loaded, live |-> r.live \cup Entries(r.op), op |-> r.op, todo |-> Finalize,
           name |-> r.name, queue |-> r.queue]
  BY <1>2, <1>5 DEF IsEngine
<1>8. /\ q.loaded = r.loaded /\ q.live = r.live \cup Entries(r.op) /\ q.op = r.op
      /\ q.todo = Finalize /\ q.queue = r.queue /\ IsEngine(q)
  BY <1>5, <1>7 DEF IsEngine
<1>9. Storing(q, 0) /\ q.todo = Rest(Finalize, 0)
  BY <1>3, <1>8, FirstCall DEF Storing
<1>10. \A n : ~Packing(q, n) /\ ~Packing(r, n) /\ (Storing(q, n) => n = 0)
  BY <1>3, <1>9, NotWriting, OnePlace
<1>11. EngineOK(e, q, c, p, M)
  <2>1. Compacts(q) => Compacts(r)
    BY <1>8 DEF Compacts
  <2>2. q.op # None /\ q.op # Compact
    BY <1>3, <1>8, NoneIsNoOp
  <2> QED
    BY <1>3, <1>5, <1>8, <1>9, <1>10, <2>1, <2>2, NoneIsNoOp DEF EngineOK
<1>12. Shapes'
  BY <1>3, <1>4, <1>6, <1>11, ShapesStep DEF IInv, Shapes
<1>13. ASSUME ~shared' PROVE FilesOK'
  <2>1. FilesOK /\ Shapes
    BY <1>3, <1>13 DEF IInv
  <2>2. Knows(e, r, c, engines[c], disk, shown)
    BY <1>1, <1>4, <2>1 DEF FilesOK
  <2>3. q.todo[1] \notin {"fill", "rename"}
    BY <1>8, FinalizeCalls
  <2>4. \A k : Knows(e, q, c, k, disk, shown)
    BY <1>8, <1>9, <1>10, <2>2, <2>3 DEF Knows, TmpFits
  <2> QED
    BY <1>1, <1>3, <1>4, <1>6, <1>8, <2>1, <2>4, FilesStep DEF FilesOK
<1> QED
  BY <1>12, <1>13 DEF IInv

LEMMA SummarizedStep ==
  ASSUME IInv, NEW e \in Engines, Summarized(e)
  PROVE  IInv'
<1>1. PICK r : r = engines[e]
  OBVIOUS
<1>2. PICK q : q = [r EXCEPT !.todo = CompactFiles]
  OBVIOUS
<1>3. /\ r.op = Compact /\ r.todo = <<>>
      /\ disk' = disk /\ cur' = cur /\ app' = app /\ shown' = shown /\ count' = count
      /\ shared' = shared
  BY <1>1 DEF Summarized, Writing
<1>4. PICK c, p, M : c = cur /\ p = app.phase /\ M = DOMAIN disk.memory
  OBVIOUS
<1>5. EngineOK(e, r, c, p, M) /\ IsEngine(r)
  BY <1>1, <1>4 DEF IInv, Shapes, EngineOK
<1>6. engines' = [engines EXCEPT ![e] = q]
  BY <1>1, <1>2 DEF Summarized, IInv, Shapes
<1>7. q = [loaded |-> r.loaded, live |-> r.live, op |-> r.op, todo |-> CompactFiles,
           name |-> r.name, queue |-> r.queue]
  BY <1>2, <1>5 DEF IsEngine
<1>8. /\ q.loaded = r.loaded /\ q.live = r.live /\ q.op = r.op
      /\ q.todo = CompactFiles /\ q.queue = r.queue /\ IsEngine(q)
  BY <1>5, <1>7 DEF IsEngine
<1>9. Packing(q, 0)
  BY <1>3, <1>8, FirstCall DEF Packing
<1>10. \A n : ~Storing(q, n) /\ ~Packing(r, n) /\ (Packing(q, n) => n = 0)
  BY <1>3, <1>9, NotWriting, OnePlace
<1>11. Compacts(r) /\ e = c
  BY <1>3, <1>5 DEF EngineOK, Compacts
<1>12. EngineOK(e, q, c, p, M)
  BY <1>3, <1>5, <1>8, <1>9, <1>10, <1>11, NoneIsNoOp DEF EngineOK
<1>13. Shapes'
  BY <1>3, <1>4, <1>6, <1>12, ShapesStep DEF IInv, Shapes
<1>14. ASSUME ~shared' PROVE FilesOK'
  <2>1. FilesOK /\ Shapes
    BY <1>3, <1>14 DEF IInv
  <2>2. Knows(e, r, c, engines[c], disk, shown)
    BY <1>1, <1>4, <2>1 DEF FilesOK
  <2>3. q.todo[1] \notin {"fill", "rename"}
    BY <1>8, CompactCalls
  <2>4. \A k : Knows(e, q, c, k, disk, shown)
    BY <1>8, <1>10, <1>11, <2>2, <2>3 DEF Knows, TmpFits
  <2> QED
    BY <1>1, <1>3, <1>4, <1>6, <1>8, <2>1, <2>4, FilesStep DEF FilesOK
<1> QED
  BY <1>13, <1>14 DEF IInv

LEMMA NoSummaryStep ==
  ASSUME IInv, NEW e \in Engines, NoSummary(e)
  PROVE  IInv'
<1>1. PICK r : r = engines[e]
  OBVIOUS
<1>2. PICK q : q = [r EXCEPT !.op = None]
  OBVIOUS
<1>3. /\ r.op = Compact /\ r.todo = <<>>
      /\ disk' = disk /\ cur' = cur /\ shown' = shown /\ count' = count
      /\ shared' = shared
  BY <1>1 DEF NoSummary, Writing
<1>4. PICK c, p, M : c = cur /\ p = app.phase /\ M = DOMAIN disk.memory
  OBVIOUS
<1>5. EngineOK(e, r, c, p, M) /\ IsEngine(r)
  BY <1>1, <1>4 DEF IInv, Shapes, EngineOK
<1>6. engines' = [engines EXCEPT ![e] = q]
  BY <1>1, <1>2 DEF NoSummary, IInv, Shapes
<1>7. q = [loaded |-> r.loaded, live |-> r.live, op |-> None, todo |-> r.todo,
           name |-> r.name, queue |-> r.queue]
  BY <1>2, <1>5 DEF IsEngine
<1>8. /\ q.loaded = r.loaded /\ q.live = r.live /\ q.op = None
      /\ q.todo = <<>> /\ q.queue = <<>> /\ IsEngine(q)
  BY <1>3, <1>5, <1>7 DEF IsEngine, EngineOK
<1>9. \A n : ~Storing(q, n) /\ ~Packing(q, n) /\ ~Packing(r, n)
  BY <1>3, <1>8, NotWriting
<1>10. e = c /\ p = "compacting"
  BY <1>3, <1>5 DEF EngineOK, Compacts
<1>11. app' = [app EXCEPT !.phase = "ready"] /\ IsApp(app)
  BY <1>4, <1>10 DEF NoSummary, IInv, Shapes
<1>12. /\ app'.phase = "ready" /\ app'.turn = None /\ ~app'.ended /\ IsApp(app')
  <2>1. app.turn = None /\ ~app.ended
    BY <1>4, <1>10, <1>11 DEF IsApp
  <2>2. app' = [phase |-> "ready", turn |-> app.turn, ended |-> app.ended]
    BY <1>11 DEF IsApp
  <2> QED
    BY <1>11, <2>1, <2>2 DEF IsApp
<1>13. EngineOK(e, q, c, "ready", M)
  BY <1>8, <1>9, NoneIsNoOp DEF EngineOK, Compacts
<1>14. Shapes'
  BY <1>3, <1>4, <1>6, <1>10, <1>12, <1>13, ShapesStep DEF IInv, Shapes
<1>15. ASSUME ~shared' PROVE FilesOK'
  <2>1. FilesOK /\ Shapes
    BY <1>3, <1>15 DEF IInv
  <2>2. Knows(e, r, c, engines[c], disk, shown)
    BY <1>1, <1>4, <2>1 DEF FilesOK
  <2>3. \A k : Knows(e, q, c, k, disk, shown)
    BY <1>8, <1>9, <2>2 DEF Knows, TmpFits
  <2>4. disk.meta # "none"
    BY <1>4, <1>10, <2>1 DEF FilesOK
  <2> QED
    BY <1>1, <1>3, <1>4, <1>6, <1>8, <1>12, <2>1, <2>3, <2>4, FilesStep
<1> QED
  BY <1>14, <1>15 DEF IInv
-----------------------------------------------------------------------------
(* The chat loop                                                           *)

LEMMA ReadyApp ==
  /\ IsApp(Ready) /\ Ready.phase = "ready" /\ Ready.turn = None /\ ~Ready.ended
  /\ IsApp(Closed) /\ Closed.phase = "closed" /\ Closed.turn = None /\ ~Closed.ended
<1>1. PICK no \in BOOLEAN : no = FALSE
  OBVIOUS
<1>2. Closed = [phase |-> "closed", turn |-> None, ended |-> no]
  BY <1>1 DEF Closed
<1>3. Ready = [phase |-> "ready", turn |-> None, ended |-> no]
  BY <1>2 DEF Ready
<1> QED
  BY <1>1, <1>2, <1>3 DEF IsApp

LEMMA FreshEngine ==
  ASSUME NEW b \in BOOLEAN
  PROVE  /\ [Fresh EXCEPT !.loaded = b] = [loaded |-> b, live |-> {}, op |-> None, todo |-> <<>>,
                                            name |-> 0, queue |-> <<>>]
         /\ IsEngine([Fresh EXCEPT !.loaded = b])
<1>1. PICK q : q = [Fresh EXCEPT !.loaded = b]
  OBVIOUS
<1>2. q = [loaded |-> b, live |-> {}, op |-> None, todo |-> <<>>, name |-> 0, queue |-> <<>>]
  BY <1>1 DEF Fresh
<1>3. PICK u \in Seq(Ops) : u = <<>>
  BY EmptySeq
<1>4. q = [loaded |-> b, live |-> {}, op |-> None, todo |-> u, name |-> 0, queue |-> u]
  BY <1>2, <1>3
<1>5. IsEngine(q)
  BY <1>4 DEF IsEngine
<1> QED
  BY <1>1, <1>2, <1>5

LEMMA FreshOK ==
  ASSUME NEW q, IsEngine(q), q.op = None, q.todo = <<>>, q.queue = <<>>, NEW e, NEW c, NEW p, NEW M
  PROVE  EngineOK(e, q, c, p, M)
<1>1. \A n : ~Storing(q, n) /\ ~Packing(q, n)
  BY NotWriting
<1> QED
  BY <1>1, NoneIsNoOp DEF EngineOK, Compacts

LEMMA OpenStep ==
  ASSUME IInv, Open
  PROVE  IInv'
<1>1. PICK b \in BOOLEAN : b = (disk.meta = "none")
  OBVIOUS
<1>2. PICK q : q = [Fresh EXCEPT !.loaded = b]
  OBVIOUS
<1>3. PICK c, r : c = cur /\ r = engines[cur]
  OBVIOUS
<1>4. /\ app.phase = "closed" /\ app' = Ready /\ cur' = cur /\ shown' = shown /\ shared' = shared
      /\ count' = count /\ disk' = [disk EXCEPT !.meta = "whole"]
      /\ engines' = [engines EXCEPT ![c] = q] /\ c \in Engines
  BY <1>1, <1>2, <1>3 DEF Open, IInv, Shapes
<1>5. /\ q.loaded = b /\ q.op = None /\ q.todo = <<>> /\ q.queue = <<>> /\ q.live = {} /\ IsEngine(q)
  BY <1>2, FreshEngine
<1>6. /\ IsDisk(disk') /\ disk'.meta = "whole" /\ Touched(disk, disk')
  <2>1. disk' = [meta |-> "whole", meta_tmp |-> disk.meta_tmp, lines |-> disk.lines,
                 torn |-> disk.torn, cut_tmp |-> disk.cut_tmp, archive |-> disk.archive,
                 memory |-> disk.memory]
    BY <1>4 DEF IInv, Shapes, IsDisk
  <2> QED
    BY <2>1 DEF IsDisk, Touched, IInv, Shapes, Contents
<1>7. Shapes'
  <2>1. EngineOK(c, q, cur, app'.phase, DOMAIN disk'.memory)
    BY <1>5, FreshOK
  <2>2. DOMAIN disk.memory \subseteq DOMAIN disk'.memory
    BY <1>6 DEF Touched
  <2>3. IsApp(app') /\ app'.phase # "closed"
    BY <1>4, ReadyApp
  <2> QED
    BY <1>3, <1>4, <1>6, <2>1, <2>2, <2>3, ShapesStep DEF IInv, Shapes
<1>8. ASSUME ~shared' PROVE FilesOK'
  <2>1. FilesOK /\ Shapes
    BY <1>4, <1>8 DEF IInv
  <2>2. Resumed(disk') = Resumed(disk)
    BY <1>6, SameFiles DEF Touched
  <2>3. \A o \in Engines : engines[o].todo = <<>>
    BY <1>4, <2>1 DEF Shapes, EngineOK
  <2>4. shown \subseteq Resumed(disk)
    <3>1. Knows(c, r, c, r, disk, shown)
      BY <1>3, <1>4, <2>1 DEF FilesOK
    <3>2. \A n : ~Packing(r, n)
      BY <1>3, <1>4, <2>3, NotWriting
    <3> QED
      BY <3>1, <3>2 DEF Knows
  <2>5. b => Resumed(disk) = {} /\ shown = {}
    <3>1. b => disk.lines = <<>> /\ disk.archive \notin DOMAIN disk.memory /\ shown = {}
      BY <1>1, <2>1 DEF FilesOK
    <3>2. b => Range(disk.lines) = {}
      BY <3>1 DEF Range
    <3> QED
      BY <3>1, <3>2 DEF Resumed, Archived, Readable
  <2>6. PICK d : d = disk'
    OBVIOUS
  <2>7. \A o \in Engines : engines'[o] = IF o = c THEN q ELSE engines[o]
    BY <1>4, <2>1 DEF Shapes
  <2>8. ASSUME NEW o \in Engines, NEW k PROVE Knows(o, engines'[o], c, k, d, shown)
    <3>1. engines'[o].todo = <<>>
      BY <1>5, <2>3, <2>7
    <3>2. \A n : ~Storing(engines'[o], n) /\ ~Packing(engines'[o], n)
      BY <3>1, NotWriting
    <3>3. o = c /\ engines'[o].loaded => Resumed(d) = {} /\ Readable(d) = {} /\ shown = {}
      BY <1>5, <2>2, <2>5, <2>6, <2>7 DEF Resumed
    <3> QED
      BY <2>2, <2>4, <2>6, <3>1, <3>2, <3>3 DEF Knows, TmpFits
  <2>9. \A o \in Engines : Knows(o, engines'[o], cur', engines'[cur'], disk', shown')
    BY <1>3, <1>4, <2>6, <2>8
  <2>10. (\A o \in Engines : Knows(o, engines[o], cur, engines[cur], disk, shown))'
    BY <2>9
  <2>11. ~app'.ended
    BY <1>4, ReadyApp
  <2> QED
    BY <1>6, <2>10, <2>11 DEF FilesOK
<1> QED
  BY <1>7, <1>8 DEF IInv

LEMMA SubmitStep ==
  ASSUME IInv, Submit
  PROVE  IInv'
<1>1. PICK c, r : c = cur /\ r = engines[cur]
  OBVIOUS
<1>2. PICK t : t = count'.turns
  OBVIOUS
<1>3. PICK q : q = [r EXCEPT !.queue = Append(r.queue, t)]
  OBVIOUS
<1>4. PICK p, M : p = app.phase /\ M = DOMAIN disk.memory
  OBVIOUS
<1>5. /\ p = "ready" /\ cur' = cur /\ shown' = shown /\ shared' = shared /\ disk' = disk
      /\ c \in Engines /\ IsApp(app) /\ EngineOK(c, r, c, p, M) /\ IsEngine(r)
  BY <1>1, <1>4 DEF Submit, IInv, Shapes, EngineOK
<1>6. engines' = [engines EXCEPT ![c] = q]
  BY <1>1, <1>2, <1>3 DEF Submit, IInv, Shapes
<1>7. t \in Turns /\ count'.turns \in 0..MaxTurns
  <2>1. count.turns \in 0..MaxTurns /\ count.turns < MaxTurns
    BY DEF Submit, IInv, Shapes
  <2>2. t = count.turns + 1
    BY <1>2 DEF Submit
  <2> QED
    BY <1>2, <2>1, <2>2, TurnsAssumption DEF Turns
<1>8. /\ IsApp(app') /\ app'.phase = "ready" /\ ~app'.ended
  <2>1. PICK no \in BOOLEAN : no = FALSE
    OBVIOUS
  <2>2. app' = [app EXCEPT !.turn = t, !.ended = no]
    BY <1>2, <2>1 DEF Submit
  <2>3. app' = [phase |-> app.phase, turn |-> t, ended |-> no]
    BY <1>5, <2>2 DEF IsApp
  <2>4. t # None
    BY <1>7, NoneIsNoOp
  <2> QED
    BY <1>4, <1>5, <1>7, <2>1, <2>3, <2>4 DEF IsApp
<1>9. PICK u, v : u = r.queue /\ v = Append(r.queue, t)
  OBVIOUS
<1>10. /\ v \in Seq(Ops) /\ Len(v) = Len(u) + 1 /\ Len(u) \in Nat
       /\ \A i \in 1..Len(u) : v[i] = u[i]
       /\ v[Len(u) + 1] = t
  <2>1. u \in Seq(Ops) /\ t \in Ops
    BY <1>5, <1>7, <1>9, NoneIsNoOp DEF IsEngine
  <2> QED
    BY <1>9, <2>1
<1>11. q = [loaded |-> r.loaded, live |-> r.live, op |-> r.op, todo |-> r.todo, name |-> r.name,
            queue |-> v]
  BY <1>3, <1>5, <1>9 DEF IsEngine
<1>12. /\ q.loaded = r.loaded /\ q.live = r.live /\ q.op = r.op /\ q.todo = r.todo
       /\ q.name = r.name /\ q.queue = v /\ IsEngine(q)
  BY <1>5, <1>10, <1>11 DEF IsEngine
<1>13. ~Compacts(r)
  BY <1>5 DEF EngineOK
<1>14. ~Compacts(q)
  <2>1. \A i \in 1..Len(u) : u[i] # Compact
    BY <1>9, <1>13 DEF Compacts
  <2>2. \A i \in 1..Len(v) : i \in 1..Len(u) \/ i = Len(u) + 1
    BY <1>10
  <2>3. t # Compact
    BY <1>7, NoneIsNoOp
  <2>4. \A i \in 1..Len(v) : v[i] # Compact
    BY <1>10, <2>1, <2>2, <2>3
  <2> QED
    BY <1>12, <1>13, <2>4 DEF Compacts
<1>15. \A n : (Storing(q, n) <=> Storing(r, n)) /\ (Packing(q, n) <=> Packing(r, n))
  BY <1>12 DEF Storing, Packing
<1>16. EngineOK(c, q, c, p, M)
  <2>1. q.op # Compact /\ \A i \in 1..Len(q.queue) : q.queue[i] # Compact
    BY <1>14 DEF Compacts
  <2> QED
    BY <1>5, <1>12, <1>14, <1>15, <2>1 DEF EngineOK
<1>17. Shapes'
  BY <1>1, <1>4, <1>5, <1>6, <1>7, <1>8, <1>16, ShapesStep DEF IInv, Shapes
<1>18. ASSUME ~shared' PROVE FilesOK'
  <2>1. FilesOK /\ Shapes
    BY <1>5, <1>18 DEF IInv
  <2>2. Knows(c, r, c, r, disk, shown)
    BY <1>1, <1>5, <2>1 DEF FilesOK
  <2>3. Knows(c, q, c, q, disk, shown)
    BY <1>12, <1>15, <2>2 DEF Knows, TmpFits
  <2>4. disk.meta # "none"
    BY <1>4, <1>5, <2>1 DEF FilesOK
  <2> QED
    BY <1>1, <1>5, <1>6, <1>8, <1>12, <2>1, <2>3, <2>4, FilesStep
<1> QED
  BY <1>17, <1>18 DEF IInv

LEMMA InterruptStep ==
  ASSUME IInv, Interrupt
  PROVE  IInv'
<1>1. PICK c, r : c = cur /\ r = engines[cur]
  OBVIOUS
<1>2. PICK p, M : p = app.phase /\ M = DOMAIN disk.memory
  OBVIOUS
<1>3. /\ p = "ready" /\ cur' = cur /\ shown' = shown /\ shared' = shared /\ disk' = disk
      /\ engines' = engines /\ count' = count /\ app' = Ready
      /\ c \in Engines /\ EngineOK(c, r, c, p, M)
  BY <1>1, <1>2 DEF Interrupt, IInv, Shapes
<1>4. engines' = [engines EXCEPT ![c] = r]
  BY <1>1, <1>3 DEF IInv, Shapes
<1>5. IsApp(app') /\ app'.phase = "ready" /\ ~app'.ended
  BY <1>3, ReadyApp
<1>6. Shapes'
  BY <1>1, <1>2, <1>3, <1>4, <1>5, ShapesStep DEF IInv, Shapes
<1>7. ASSUME ~shared' PROVE FilesOK'
  <2>1. FilesOK /\ Shapes
    BY <1>3, <1>7 DEF IInv
  <2>2. Knows(c, r, c, r, disk, shown)
    BY <1>1, <1>3, <2>1 DEF FilesOK
  <2>3. disk.meta # "none"
    BY <1>2, <1>3, <2>1 DEF FilesOK
  <2> QED
    BY <1>1, <1>3, <1>4, <1>5, <2>1, <2>2, <2>3, FilesStep
<1> QED
  BY <1>6, <1>7 DEF IInv

LEMMA EndTurnStep ==
  ASSUME IInv, EndTurn
  PROVE  IInv'
<1>1. PICK c, r : c = cur /\ r = engines[cur]
  OBVIOUS
<1>2. PICK p, M : p = app.phase /\ M = DOMAIN disk.memory
  OBVIOUS
<1>3. /\ p = "ready" /\ app.ended /\ cur' = cur /\ shared' = shared /\ disk' = disk
      /\ engines' = engines /\ count' = count /\ app' = Ready
      /\ c \in Engines /\ EngineOK(c, r, c, p, M)
  BY <1>1, <1>2 DEF EndTurn, IInv, Shapes
<1>4. engines' = [engines EXCEPT ![c] = r]
  BY <1>1, <1>3 DEF IInv, Shapes
<1>5. IsApp(app') /\ app'.phase = "ready" /\ ~app'.ended
  BY <1>3, ReadyApp
<1>6. Shapes'
  BY <1>1, <1>2, <1>3, <1>4, <1>5, ShapesStep DEF IInv, Shapes
<1>7. ASSUME ~shared' PROVE FilesOK'
  <2>1. FilesOK /\ Shapes
    BY <1>3, <1>7 DEF IInv
  <2>2. PICK s, t : s = shown' /\ t = app.turn
    OBVIOUS
  <2>3. Kept(disk, t)
    BY <1>3, <2>1, <2>2 DEF FilesOK
  <2>4. s \subseteq shown \cup Readable(disk) /\ Readable(disk) \subseteq Resumed(disk)
    <3>1. Glued = GluedIn(disk)
      BY DEF Glued, GluedIn
    <3>2. s = shown \/ s = shown \cup (Entries(t) \ GluedIn(disk))
      BY <2>2, <3>1 DEF EndTurn
    <3> QED
      BY <2>3, <3>2 DEF Kept, Resumed
  <2>5. ASSUME NEW o \in Engines PROVE Knows(o, engines[o], c, r, disk, s)
    <3>1. Knows(o, engines[o], c, r, disk, shown)
      BY <1>1, <2>1 DEF FilesOK
    <3> QED
      BY <2>4, <3>1 DEF Knows
  <2>6. \A o \in Engines : Knows(o, engines'[o], cur', engines'[cur'], disk', shown')
    BY <1>1, <1>3, <2>2, <2>5
  <2>7. (\A o \in Engines : Knows(o, engines[o], cur, engines[cur], disk, shown))'
    BY <2>6
  <2>8. disk'.meta = "whole"
    BY <1>2, <1>3, <2>1 DEF FilesOK
  <2> QED
    BY <1>5, <2>7, <2>8 DEF FilesOK
<1> QED
  BY <1>6, <1>7 DEF IInv

LEMMA CompactSessionStep ==
  ASSUME IInv, CompactSession
  PROVE  IInv'
<1>1. PICK c, r : c = cur /\ r = engines[cur]
  OBVIOUS
<1>2. PICK p, M : p = app.phase /\ M = DOMAIN disk.memory
  OBVIOUS
<1>3. /\ p = "ready" /\ cur' = cur /\ shown' = shown /\ shared' = shared /\ disk' = disk
      /\ c \in Engines /\ EngineOK(c, r, c, p, M) /\ IsEngine(r)
  BY <1>1, <1>2 DEF CompactSession, IInv, Shapes, EngineOK
<1>4. count'.turns \in 0..MaxTurns
  BY DEF CompactSession, IInv, Shapes
<1>5. ~Compacts(r)
  BY <1>3 DEF EngineOK
<1>6. CASE ~r.loaded
  <2>1. engines' = [engines EXCEPT ![c] = r] /\ app' = Ready
    BY <1>1, <1>6 DEF CompactSession, Compactable, IInv, Shapes
  <2>2. IsApp(app') /\ app'.phase = "ready" /\ ~app'.ended
    BY <2>1, ReadyApp
  <2>3. Shapes'
    BY <1>1, <1>2, <1>3, <1>4, <2>1, <2>2, ShapesStep DEF IInv, Shapes
  <2>4. ASSUME ~shared' PROVE FilesOK'
    <3>1. FilesOK /\ Shapes
      BY <1>3, <2>4 DEF IInv
    <3>2. Knows(c, r, c, r, disk, shown)
      BY <1>1, <1>3, <3>1 DEF FilesOK
    <3>3. disk.meta # "none"
      BY <1>2, <1>3, <3>1 DEF FilesOK
    <3> QED
      BY <1>1, <1>3, <2>1, <2>2, <3>1, <3>2, <3>3, FilesStep
  <2> QED
    BY <2>3, <2>4 DEF IInv
<1>7. CASE r.loaded
  <2>1. PICK u, v : u = r.queue /\ v = Append(r.queue, Compact)
    OBVIOUS
  <2>2. PICK q : q = [r EXCEPT !.queue = v]
    OBVIOUS
  <2>3. engines' = [engines EXCEPT ![c] = q] /\ app' = [Ready EXCEPT !.phase = "compacting"]
    BY <1>1, <1>7, <2>1, <2>2 DEF CompactSession, Compactable, IInv, Shapes
  <2>4. IsApp(app') /\ app'.phase = "compacting" /\ ~app'.ended
    <3>1. IsApp(Ready) /\ Ready.turn = None /\ ~Ready.ended
      BY ReadyApp
    <3>2. app' = [phase |-> "compacting", turn |-> Ready.turn, ended |-> Ready.ended]
      BY <2>3, <3>1 DEF IsApp
    <3> QED
      BY <3>1, <3>2 DEF IsApp
  <2>5. /\ v \in Seq(Ops) /\ Len(v) = Len(u) + 1 /\ Len(u) \in Nat
        /\ \A i \in 1..Len(u) : v[i] = u[i]
    <3>1. u \in Seq(Ops) /\ Compact \in Ops
      BY <1>3, <2>1, NoneIsNoOp DEF IsEngine
    <3> QED
      BY <2>1, <3>1
  <2>6. q = [loaded |-> r.loaded, live |-> r.live, op |-> r.op, todo |-> r.todo, name |-> r.name,
             queue |-> v]
    BY <1>3, <2>2 DEF IsEngine
  <2>7. /\ q.loaded = r.loaded /\ q.live = r.live /\ q.op = r.op /\ q.todo = r.todo
        /\ q.name = r.name /\ q.queue = v /\ IsEngine(q)
    BY <1>3, <2>5, <2>6 DEF IsEngine
  <2>8. \A n : (Storing(q, n) <=> Storing(r, n)) /\ (Packing(q, n) <=> Packing(r, n))
    BY <2>7 DEF Storing, Packing
  <2>9. r.op # Compact /\ \A i \in 1..Len(v) : v[i] = Compact => i = Len(v)
    <3>1. \A i \in 1..Len(u) : u[i] # Compact
      BY <1>5, <2>1 DEF Compacts
    <3>2. \A i \in 1..Len(v) : i \in 1..Len(u) \/ i = Len(v)
      BY <2>5
    <3> QED
      BY <1>5, <2>5, <3>1, <3>2 DEF Compacts
  <2>10. EngineOK(c, q, c, "compacting", M)
    BY <1>3, <1>7, <2>7, <2>8, <2>9 DEF EngineOK
  <2>11. Shapes'
    BY <1>1, <1>2, <1>3, <1>4, <2>3, <2>4, <2>10, ShapesStep DEF IInv, Shapes
  <2>12. ASSUME ~shared' PROVE FilesOK'
    <3>1. FilesOK /\ Shapes
      BY <1>3, <2>12 DEF IInv
    <3>2. Knows(c, r, c, r, disk, shown)
      BY <1>1, <1>3, <3>1 DEF FilesOK
    <3>3. Knows(c, q, c, q, disk, shown)
      BY <2>7, <2>8, <3>2 DEF Knows, TmpFits
    <3>4. disk.meta # "none"
      BY <1>2, <1>3, <3>1 DEF FilesOK
    <3> QED
      BY <1>1, <1>3, <2>3, <2>4, <2>7, <3>1, <3>3, <3>4, FilesStep
  <2> QED
    BY <2>11, <2>12 DEF IInv
<1> QED
  BY <1>6, <1>7

LEMMA ReconnectStep ==
  ASSUME IInv, Reconnect
  PROVE  IInv'
<1>1. PICK c, r : c = cur /\ r = engines[cur]
  OBVIOUS
<1>2. PICK p, M : p = app.phase /\ M = DOMAIN disk.memory
  OBVIOUS
<1>3. PICK b : b = 3 - c
  OBVIOUS
<1>4. c \in Engines /\ b \in Engines /\ b # c /\ \A o \in Engines : o = b \/ o = c
  BY <1>1, <1>3 DEF IInv, Shapes, Engines
<1>5. /\ p = "ready" /\ shown' = shown /\ shared' = shared /\ disk' = disk /\ app' = Ready
      /\ count'.turns = count.turns
  BY <1>2 DEF Reconnect, IInv, Shapes
<1>6. IsApp(app') /\ app'.phase = "ready" /\ ~app'.ended
  BY <1>5, ReadyApp
<1>7. \A o \in Engines : EngineOK(o, engines[o], c, p, M) /\ ~Compacts(engines[o])
  BY <1>1, <1>2, <1>5 DEF IInv, Shapes, EngineOK
<1>8. CASE disk.meta # "whole"
  <2>1. cur' = cur /\ engines' = [engines EXCEPT ![c] = r]
    BY <1>1, <1>8 DEF Reconnect, Replaced, IInv, Shapes
  <2>2. EngineOK(c, r, c, p, M)
    BY <1>1, <1>4, <1>7
  <2>3. Shapes'
    BY <1>1, <1>2, <1>4, <1>5, <1>6, <2>1, <2>2, ShapesStep DEF IInv, Shapes
  <2>4. shared'
    BY <1>2, <1>5, <1>8 DEF IInv, FilesOK
  <2> QED
    BY <2>3, <2>4 DEF IInv
<1>9. CASE disk.meta = "whole"
  <2>1. cur' = b /\ engines' = [engines EXCEPT ![b] = Fresh]
    BY <1>1, <1>3, <1>9 DEF Reconnect, Replaced
  <2>2. PICK no \in BOOLEAN : no = FALSE
    OBVIOUS
  <2>3. PICK f : f = [Fresh EXCEPT !.loaded = no]
    OBVIOUS
  <2>4. /\ Fresh = f /\ IsEngine(f) /\ ~f.loaded /\ f.op = None /\ f.todo = <<>> /\ f.queue = <<>>
    <3>1. f = [loaded |-> no, live |-> {}, op |-> None, todo |-> <<>>, name |-> 0, queue |-> <<>>]
      BY <2>3, FreshEngine
    <3>2. Fresh = f
      BY <2>2, <3>1 DEF Fresh
    <3> QED
      BY <2>2, <2>3, <3>1, <3>2, FreshEngine
  <2>5. engines'[b] = f /\ engines'[c] = r /\ engines' = [o \in Engines |-> engines'[o]]
    BY <1>1, <1>4, <2>1, <2>4 DEF IInv, Shapes
  <2>6. Shapes'
    <3>1. EngineOK(b, f, b, "ready", M)
      BY <2>4, FreshOK
    <3>2. EngineOK(c, r, b, "ready", M)
      BY <1>1, <1>4, <1>7, EngineFrame
    <3>3. \A o \in Engines : EngineOK(o, engines'[o], cur', app'.phase, DOMAIN disk'.memory)
      BY <1>2, <1>4, <1>5, <1>6, <2>1, <2>5, <3>1, <3>2
    <3>4. (\A o \in Engines : EngineOK(o, engines[o], cur, app.phase, DOMAIN disk.memory))'
      BY <3>3
    <3>5. IsApp(app)' /\ IsDisk(disk)'
      BY <1>5, <1>6 DEF IsApp, IsDisk, Turns, None, Line, Contents, Empty, IInv, Shapes
    <3> QED
      BY <1>4, <1>5, <2>1, <2>5, <3>4, <3>5 DEF Shapes, IInv
  <2>7. ASSUME ~shared' PROVE FilesOK'
    <3>1. FilesOK /\ Shapes
      BY <1>5, <2>7 DEF IInv
    <3>2. Knows(c, r, c, r, disk, shown)
      BY <1>1, <1>4, <3>1 DEF FilesOK
    <3>3. \A n : ~Packing(r, n)
      BY <1>1, <1>4, <1>7 DEF Packing, Compacts
    <3>4. \A n : ~Storing(f, n) /\ ~Packing(f, n)
      BY <2>4, NotWriting
    <3>5. Knows(b, f, b, f, disk, shown)
      BY <2>4, <3>2, <3>3, <3>4 DEF Knows, TmpFits
    <3>6. Knows(c, r, b, f, disk, shown)
      BY <1>4, <2>4, <3>2, <3>3 DEF Knows
    <3>7. \A o \in Engines : Knows(o, engines'[o], cur', engines'[cur'], disk', shown')
      BY <1>4, <1>5, <2>1, <2>5, <3>5, <3>6
    <3>8. (\A o \in Engines : Knows(o, engines[o], cur, engines[cur], disk, shown))'
      BY <3>7
    <3> QED
      BY <1>5, <1>6, <1>9, <3>8 DEF FilesOK
  <2> QED
    BY <2>6, <2>7 DEF IInv
<1> QED
  BY <1>8, <1>9

(* What a crash leaves of an append.                                       *)
Left(d, a) ==
  /\ IsDisk(a) /\ a.meta = d.meta /\ a.archive = d.archive /\ a.memory = d.memory
  /\ Readable(d) \subseteq Readable(a)
  /\ d.meta # "whole" => a = d

LEMMA CutShortLeaves ==
  ASSUME Shapes, NEW e \in Engines, NEW d, IsDisk(d), NEW a \in CutShort(d, e)
  PROVE  Left(d, a)
<1>1. PICK r : r = engines[e]
  OBVIOUS
<1>2. CASE r.todo = <<>> \/ Head(r.todo) # "append" \/ d.meta # "whole"
  <2>1. a = d
    BY <1>1, <1>2 DEF CutShort, Writing
  <2> QED
    BY <2>1 DEF Left
<1>3. CASE r.todo # <<>> /\ Head(r.todo) = "append" /\ d.meta = "whole"
  <2>1. r.op \in Turns
    <3>1. PICK n \in Nat : Storing(r, n) \/ Packing(r, n)
      BY <1>1, <1>3 DEF Shapes, EngineOK
    <3>2. CASE Storing(r, n)
      BY <3>2 DEF Storing
    <3>3. CASE Packing(r, n)
      <4>1. Head(r.todo) = CompactFiles[n + 1] /\ n \in 0..11
        BY <3>3, PackingCall DEF Packing
      <4>2. n + 1 \in {1, 2, 3, 4, 5, 6, 7, 8, 9, 10, 11, 12}
        BY <4>1
      <4>3. \A i \in {1, 2, 3, 4, 5, 6, 7, 8, 9, 10, 11, 12} : CompactFiles[i] # "append"
        BY CompactCalls
      <4> QED
        BY <1>3, <4>1, <4>2, <4>3
    <3> QED
      BY <3>1, <3>2, <3>3
  <2>2. PICK k \in {0, 1}, part \in BOOLEAN :
          a = [Appended(d, r.op, k) EXCEPT !.torn = Appended(d, r.op, k).torn \/ part]
    BY <1>1, <1>3 DEF CutShort, Writing
  <2>3. PICK x : x = Appended(d, r.op, k)
    OBVIOUS
  <2>4. Grown(d, x, r.op, k)
    BY <2>1, <2>3, AppendedGrown
  <2>5. IsDisk(x) /\ Apart(d, x) /\ Readable(d) \subseteq Readable(x)
    BY <2>4 DEF Grown
  <2>6. PICK b \in BOOLEAN : b = (x.torn \/ part)
    OBVIOUS
  <2>7. a = [x EXCEPT !.torn = b]
    BY <2>2, <2>3, <2>6
  <2>8. a = [meta |-> x.meta, meta_tmp |-> x.meta_tmp, lines |-> x.lines, torn |-> b,
             cut_tmp |-> x.cut_tmp, archive |-> x.archive, memory |-> x.memory]
    BY <2>5, <2>7 DEF IsDisk
  <2>9. /\ IsDisk(a) /\ a.meta = x.meta /\ a.lines = x.lines /\ a.archive = x.archive
        /\ a.memory = x.memory
    BY <2>5, <2>8 DEF IsDisk
  <2>10. Readable(a) = Readable(x)
    BY <2>9 DEF Readable
  <2> QED
    BY <1>3, <2>5, <2>9, <2>10 DEF Left, Apart
<1> QED
  BY <1>2, <1>3

LEMMA CrashStep ==
  ASSUME IInv, Crash
  PROVE  IInv'
<1>1. /\ app.phase # "closed" /\ engines' = [e \in Engines |-> Fresh] /\ app' = Closed
      /\ cur' = cur /\ shared' = shared /\ count'.turns = count.turns
  BY DEF Crash, IInv, Shapes
<1>2. PICK a : a = disk'
  OBVIOUS
<1>3. PICK x : x \in CutShort(disk, 1) /\ a \in CutShort(x, 2)
  BY <1>2 DEF Crash
<1>4. Left(disk, x) /\ Left(x, a)
  <2>1. 1 \in Engines /\ 2 \in Engines /\ IsDisk(disk) /\ Shapes
    BY DEF Engines, IInv, Shapes
  <2>2. Left(disk, x)
    BY <1>3, <2>1, CutShortLeaves
  <2>3. IsDisk(x)
    BY <2>2 DEF Left
  <2> QED
    BY <1>3, <2>1, <2>2, <2>3, CutShortLeaves
<1>5. PICK no \in BOOLEAN : no = FALSE
  OBVIOUS
<1>6. PICK f : f = [Fresh EXCEPT !.loaded = no]
  OBVIOUS
<1>7. /\ Fresh = f /\ IsEngine(f) /\ ~f.loaded /\ f.op = None /\ f.todo = <<>> /\ f.queue = <<>>
  <2>1. f = [loaded |-> no, live |-> {}, op |-> None, todo |-> <<>>, name |-> 0, queue |-> <<>>]
    BY <1>6, FreshEngine
  <2>2. Fresh = f
    BY <1>5, <2>1 DEF Fresh
  <2> QED
    BY <1>5, <1>6, <2>1, <2>2, FreshEngine
<1>8. \A o \in Engines : engines'[o] = f
  BY <1>1, <1>7
<1>9. Shapes'
  <2>1. \A o \in Engines : EngineOK(o, engines'[o], cur', app'.phase, DOMAIN disk'.memory)
    BY <1>7, <1>8, FreshOK
  <2>2. (\A o \in Engines : EngineOK(o, engines[o], cur, app.phase, DOMAIN disk.memory))'
    BY <2>1
  <2>3. IsDisk(disk')
    BY <1>2, <1>4 DEF Left
  <2>4. IsDisk(disk)' /\ IsApp(app)'
    BY <1>1, <2>3, ReadyApp DEF IsDisk, IsApp, Turns, None, Line, Contents, Empty
  <2>5. engines' = [o \in Engines |-> engines'[o]]
    BY <1>1
  <2> QED
    BY <1>1, <2>2, <2>4, <2>5 DEF Shapes, IInv
<1>10. ASSUME ~shared' PROVE FilesOK'
  <2>1. FilesOK /\ Shapes
    BY <1>1, <1>10 DEF IInv
  <2>2. PICK c, r, s : c = cur /\ r = engines[cur] /\ s = shown'
    OBVIOUS
  <2>3. c \in Engines /\ Knows(c, r, c, r, disk, shown)
    BY <2>1, <2>2 DEF FilesOK, Shapes
  <2>4. s = {} \/ (s = shown /\ \A e \in Engines : ~Cutting(engines[e]))
    BY <2>2 DEF Crash
  <2>5. s \subseteq Resumed(disk)
    <3>1. CASE s = {}
      BY <3>1
    <3>2. CASE s = shown /\ ~Cutting(r)
      <4>1. \A n \in 4..8 : ~Packing(r, n)
        BY <3>2, CuttingPlace
      <4> QED
        BY <2>3, <3>2, <4>1 DEF Knows
    <3> QED
      BY <2>2, <2>3, <2>4, <3>1, <3>2
  <2>6. Resumed(disk) \subseteq Resumed(a) /\ a.meta = disk.meta /\ disk.meta = "whole"
    <3>1. a.archive = disk.archive /\ a.memory = disk.memory /\ Readable(disk) \subseteq Readable(a)
      BY <1>4 DEF Left
    <3>2. disk.meta = "whole"
      BY <1>1, <2>1 DEF FilesOK
    <3> QED
      BY <1>4, <3>1, <3>2 DEF Resumed, Archived, Left
  <2>7. \A n : ~Storing(f, n) /\ ~Packing(f, n)
    BY <1>7, NotWriting
  <2>8. \A o, k : Knows(o, f, c, k, a, s)
    BY <1>7, <2>5, <2>6, <2>7 DEF Knows, TmpFits
  <2>9. \A o \in Engines : Knows(o, engines'[o], cur', engines'[cur'], disk', shown')
    BY <1>1, <1>2, <1>8, <2>2, <2>8
  <2>10. (\A o \in Engines : Knows(o, engines[o], cur, engines[cur], disk, shown))'
    BY <2>9
  <2>11. ~app'.ended
    BY <1>1, ReadyApp
  <2> QED
    BY <1>2, <2>6, <2>10, <2>11 DEF FilesOK
<1> QED
  BY <1>9, <1>10 DEF IInv
-----------------------------------------------------------------------------
(* The calls of a turn                                                     *)

LEMMA StoreCall ==
  ASSUME NEW r, NEW n, Storing(r, n)
  PROVE  /\ n = 0 => Head(r.todo) = "append"
         /\ n \in {1, 4} => Head(r.todo) = "create"
         /\ n \in {2, 5} => Head(r.todo) = "fill"
         /\ n \in {3, 6} => Head(r.todo) = "rename"
         /\ n \in {0} \cup {1, 4} \cup {2, 5} \cup {3, 6} /\ r.todo[1] = Head(r.todo)
<1>1. Head(r.todo) = Finalize[n + 1] /\ n \in 0..6 /\ r.todo[1] = Head(r.todo)
  BY StoringCall DEF Storing
<1>2. n \in {0} \cup {1, 4} \cup {2, 5} \cup {3, 6}
  BY <1>1
<1> QED
  BY <1>1, <1>2, FinalizeCalls

LEMMA StoreRest ==
  ASSUME NEW r, NEW n, Storing(r, n), NEW d, NEW s, s = Remaining(d, r, Head(r.todo))
  PROVE  /\ s = <<>> \/ \E m \in 1..6 : s = Rest(Finalize, m)
         /\ d.meta = "whole" => s = Tail(r.todo)
<1>1. d.meta = "whole" => ~Fails(d, r, Head(r.todo))
  <2>1. r.op # Compact
    BY DEF Storing, Turns, Compact
  <2> QED
    BY <2>1, StoreCall DEF Fails
<1>2. s = Tail(r.todo) \/ (s \in {<<>>, WriteMeta} /\ d.meta # "whole")
  BY <1>1 DEF Remaining
<1>3. n \in 0..6 /\ (n = 6 <=> Tail(r.todo) = <<>>) /\ Tail(r.todo) = Rest(Finalize, n + 1)
  BY StoringCall DEF Storing
<1>4. n # 6 => n + 1 \in 1..6
  BY <1>3
<1>5. WriteMeta = Rest(Finalize, 4)
  <2>1. PICK t : t = Rest(Finalize, 4)
    OBVIOUS
  <2>2. Finalize \in Seq(Calls) /\ Len(Finalize) = 7 /\ 4 \in Nat /\ 4 < Len(Finalize)
    BY FinalizeCalls
  <2>3. t \in Seq(Calls) /\ Len(t) = 3
    <3>1. PICK f, k : f = Finalize /\ k = 4 /\ k \in Nat
      OBVIOUS
    <3>2. f \in Seq(Calls) /\ k < Len(f) /\ Len(f) = 7
      BY <2>2, <3>1
    <3>3. Rest(f, k) \in Seq(Calls) /\ Len(Rest(f, k)) = Len(f) - k
      BY <3>1, <3>2, RestCalls
    <3> QED
      BY <2>1, <3>1, <3>2, <3>3
  <2>4. t = [i \in 1..3 |-> Finalize[i + 4]]
    BY <2>1, <2>2 DEF Rest
  <2>5. t[1] = "create" /\ t[2] = "fill" /\ t[3] = "rename"
    BY <2>4, FinalizeCalls
  <2>6. PICK m : m = WriteMeta
    OBVIOUS
  <2>7. m \in Seq(Calls) /\ Len(m) = 3 /\ m[1] = "create" /\ m[2] = "fill" /\ m[3] = "rename"
    BY <2>6, MetaCalls
  <2>8. \A i \in 1..3 : i = 1 \/ i = 2 \/ i = 3
    OBVIOUS
  <2>9. \A i \in 1..3 : t[i] = m[i]
    BY <2>5, <2>7, <2>8
  <2> QED
    BY <2>1, <2>3, <2>6, <2>7, <2>9, SeqEqual
<1>6. 4 \in 1..6
  OBVIOUS
<1> QED
  BY <1>2, <1>3, <1>4, <1>5, <1>6

LEMMA StoreDisk ==
  ASSUME NEW d, IsDisk(d), NEW r, NEW n, Storing(r, n), NEW a, a = Effect(d, r, Head(r.todo))
  PROVE  IsDisk(a) /\ a.memory = d.memory
<1>1. r.op \in Turns
  BY DEF Storing
<1>2. CASE n = 0
  BY <1>1, <1>2, StoreCall, AppendEffect
<1>3. CASE n \in {1, 4}
  BY <1>3, StoreCall, CreateEffect DEF Touched
<1>4. CASE n \in {2, 5}
  BY <1>4, StoreCall, FillEffect DEF Touched
<1>5. CASE n \in {3, 6}
  BY <1>5, StoreCall, RenameEffect DEF Touched
<1> QED
  BY <1>2, <1>3, <1>4, <1>5, StoreCall

LEMMA StoreFiles ==
  ASSUME NEW d, IsDisk(d), NEW r, NEW n, Storing(r, n), NEW a, a = Effect(d, r, Head(r.todo)),
         d.meta = "whole", r.todo # <<>>, TmpFits(r, d)
  PROVE  /\ a.meta = "whole"
         /\ Resumed(d) \subseteq Resumed(a) /\ Resumed(a) \subseteq Resumed(d) \cup Entries(r.op)
         /\ \A u : Kept(d, u) => Kept(a, u)
         /\ n = 0 => Kept(a, r.op)
         /\ n \in {1, 4} => a.meta_tmp # "none"
         /\ n \in {2, 5} => a.meta_tmp = "whole"
<1>1. r.op \in Turns
  BY DEF Storing
<1>2. CASE n = 0
  <2>1. a.meta = "whole" /\ Grown(d, a, r.op, 2)
    BY <1>1, <1>2, StoreCall, AppendEffect
  <2> QED
    BY <1>2, <2>1, GrownKeeps
<1>3. ASSUME Touched(d, a)
      PROVE  Resumed(a) = Resumed(d) /\ \A u : Kept(d, u) => Kept(a, u)
  BY <1>3, SameFiles DEF Touched
<1>4. CASE n \in {1, 4}
  <2>1. Touched(d, a) /\ a.meta = "whole" /\ a.meta_tmp = "half"
    BY <1>4, StoreCall, CreateEffect
  <2> QED
    BY <1>3, <1>4, <2>1
<1>5. CASE n \in {2, 5}
  <2>1. Touched(d, a) /\ a.meta = "whole" /\ a.meta_tmp = "whole"
    BY <1>5, StoreCall, FillEffect DEF TmpFits
  <2> QED
    BY <1>3, <1>5, <2>1
<1>6. CASE n \in {3, 6}
  <2>1. Touched(d, a) /\ a.meta = "whole"
    BY <1>6, StoreCall, RenameEffect DEF TmpFits
  <2> QED
    BY <1>3, <1>6, <2>1
<1> QED
  BY <1>2, <1>4, <1>5, <1>6, StoreCall
-----------------------------------------------------------------------------
(* The calls of a compaction                                               *)

LEMMA PackCall ==
  ASSUME NEW r, NEW n, Packing(r, n)
  PROVE  /\ n = 0 => Head(r.todo) = "name"
         /\ n = 1 => Head(r.todo) = "archive"
         /\ n = 2 => Head(r.todo) = "cut"
         /\ n = 3 => Head(r.todo) = "replace"
         /\ n \in {4, 9} => Head(r.todo) = "create"
         /\ n \in {5, 10} => Head(r.todo) = "fill"
         /\ n \in {6, 11} => Head(r.todo) = "rename"
         /\ n = 7 => Head(r.todo) = "mark"
         /\ n = 8 => Head(r.todo) = "point"
         /\ n \in {0, 1, 2, 3, 7, 8} \cup {4, 9} \cup {5, 10} \cup {6, 11} /\ r.todo[1] = Head(r.todo)
<1>1. Head(r.todo) = CompactFiles[n + 1] /\ n \in 0..11 /\ r.todo[1] = Head(r.todo)
  BY PackingCall DEF Packing
<1>2. n \in {0, 1, 2, 3, 7, 8} \cup {4, 9} \cup {5, 10} \cup {6, 11}
  BY <1>1
<1> QED
  BY <1>1, <1>2, CompactCalls

LEMMA PackRest ==
  ASSUME NEW r, NEW n, Packing(r, n), NEW d, NEW s, s = Remaining(d, r, Head(r.todo))
  PROVE  \/ s = <<>> /\ (n = 11 \/ d.meta # "whole" \/ (n = 3 /\ ~d.cut_tmp)
                          \/ (r.todo[1] = "rename" /\ d.meta_tmp = "none"))
         \/ s = Rest(CompactFiles, n + 1) /\ n \in 0..10
<1>1. n \in 0..11 /\ (n = 11 <=> Tail(r.todo) = <<>>) /\ Tail(r.todo) = Rest(CompactFiles, n + 1)
  BY PackingCall DEF Packing
<1>2. Head(r.todo) # "append" /\ (Head(r.todo) = "cut" => n = 2) /\ (Head(r.todo) = "replace" => n = 3)
  BY PackCall
<1>3. CASE Fails(d, r, Head(r.todo))
  <2>1. s = <<>>
    BY <1>3 DEF Remaining
  <2> QED
    BY <1>2, <1>3, <2>1 DEF Fails
<1>4. CASE ~Fails(d, r, Head(r.todo))
  <2>1. s = Tail(r.todo)
    BY <1>2, <1>4 DEF Remaining
  <2>2. n # 11 => n \in 0..10
    BY <1>1
  <2> QED
    BY <1>1, <2>1, <2>2
<1> QED
  BY <1>3, <1>4

LEMMA PackDisk ==
  ASSUME NEW d, IsDisk(d), NEW r, NEW n, Packing(r, n), NEW a, a = Effect(d, r, Head(r.todo)),
         n \in 2..11 => r.name \in DOMAIN d.memory
  PROVE  /\ IsDisk(a) /\ DOMAIN d.memory \subseteq DOMAIN a.memory
         /\ n \in 1..11 => r.name \in DOMAIN a.memory
<1>1. n \in 0..11 /\ (n \in 1..11 => n = 1 \/ n \in 2..11) /\ (n = 8 => n \in 2..11)
  BY DEF Packing
<1>2. CASE n = 0
  <2>1. a = d
    BY <1>2, PackCall DEF Effect
  <2> QED
    BY <1>2, <2>1
<1>3. CASE n = 1
  <2>1. a = Effect(d, r, "archive")
    BY <1>3, PackCall
  <2>2. Filed(d, r, a)
    BY <2>1, ArchiveEffect
  <2> QED
    BY <2>2 DEF Filed
<1>4. ASSUME IsDisk(a), a.memory = d.memory, n # 1
      PROVE  /\ DOMAIN d.memory \subseteq DOMAIN a.memory
             /\ n \in 1..11 => r.name \in DOMAIN a.memory
  BY <1>1, <1>4
<1>5. CASE n = 2
  BY <1>4, <1>5, PackCall, CutEffect DEF Touched
<1>6. CASE n = 3
  BY <1>4, <1>6, PackCall, ReplaceEffect
<1>7. CASE n \in {4, 9}
  BY <1>4, <1>7, PackCall, CreateEffect DEF Touched
<1>8. CASE n \in {5, 10}
  BY <1>4, <1>8, PackCall, FillEffect DEF Touched
<1>9. CASE n \in {6, 11}
  BY <1>4, <1>9, PackCall, RenameEffect DEF Touched
<1>10. CASE n = 7
  BY <1>4, <1>10, PackCall, MarkEffect
<1>11. CASE n = 8
  BY <1>1, <1>4, <1>11, PackCall, PointEffect
<1> QED
  BY <1>2, <1>3, <1>5, <1>6, <1>7, <1>8, <1>9, <1>10, <1>11, PackCall

(* What a call of a compaction does to what a resume reads: S stands for   *)
(* what was shown.                                                         *)
Packed(a, r, n, S) ==
  /\ a.meta = "whole"
  /\ n # 0 => a.memory[r.name] = r.live
  /\ Readable(a) \subseteq r.live
  /\ n \notin {3, 4, 5, 6, 7} => S \subseteq Resumed(a) /\ Resumed(a) \subseteq r.live
  /\ n \in {4, 9} => a.meta_tmp # "none"
  /\ n \in {5, 10} => a.meta_tmp = "whole"

LEMMA PackFiles ==
  ASSUME NEW d, IsDisk(d), NEW r, NEW n, Packing(r, n), NEW a, a = Effect(d, r, Head(r.todo)),
         d.meta = "whole", TmpFits(r, d),
         n \in 2..11 => r.name \in DOMAIN d.memory /\ d.memory[r.name] = r.live,
         Readable(d) \subseteq r.live, NEW S, S \subseteq r.live,
         n \notin 4..8 => S \subseteq Resumed(d) /\ Resumed(d) \subseteq r.live
  PROVE  Packed(a, r, n, S) /\ (n = 3 /\ ~d.cut_tmp => a = d)
<1>1. n \in 0..11 /\ (n \in 2..11 <=> n # 0 /\ n # 1) /\ (n \in {0, 1, 2, 3, 9, 10, 11} => n \notin 4..8)
  BY DEF Packing
<1>2. CASE n = 0
  <2>1. a = d
    BY <1>2, PackCall DEF Effect
  <2> QED
    BY <1>1, <1>2, <2>1 DEF Packed
<1>3. CASE n = 1
  <2>1. a = Effect(d, r, "archive")
    BY <1>3, PackCall
  <2>2. Filed(d, r, a)
    BY <2>1, ArchiveEffect
  <2>3. Readable(a) = Readable(d)
    BY <2>2 DEF Readable, Filed
  <2>4. S \subseteq Resumed(d) /\ Resumed(d) \subseteq r.live
    BY <1>1, <1>3
  <2>5. Archived(a) = r.live \/ Archived(a) = Archived(d)
    <3>1. CASE a.archive = r.name
      BY <2>2, <3>1 DEF Archived, Filed
    <3>2. CASE a.archive # r.name
      BY <2>2, <3>2 DEF Archived, Filed
    <3> QED
      BY <3>1, <3>2
  <2>6. Resumed(a) \subseteq r.live /\ S \subseteq Resumed(a)
    BY <2>3, <2>4, <2>5 DEF Resumed
  <2> QED
    BY <1>3, <2>2, <2>3, <2>4, <2>6 DEF Packed, Filed, Resumed
<1>4. ASSUME Touched(d, a), a.meta = "whole", n # 0, n # 1,
             n \in {4, 9} => a.meta_tmp # "none", n \in {5, 10} => a.meta_tmp = "whole",
             n = 3 \/ n = 8 => FALSE
      PROVE  Packed(a, r, n, S)
  <2>1. Resumed(a) = Resumed(d) /\ Readable(a) = Readable(d) /\ a.memory = d.memory
    BY <1>4, SameFiles DEF Touched
  <2>2. n \notin {3, 4, 5, 6, 7} => n \notin 4..8
    BY <1>1, <1>4
  <2> QED
    BY <1>1, <1>4, <2>1, <2>2 DEF Packed
<1>5. CASE n = 2
  <2>1. Touched(d, a) /\ a.meta = d.meta
    BY <1>5, PackCall, CutEffect
  <2> QED
    BY <1>4, <1>5, <2>1
<1>6. CASE n = 3
  <2>1. a = Effect(d, r, "replace")
    BY <1>6, PackCall
  <2>2. /\ a.meta = d.meta /\ a.archive = d.archive /\ a.memory = d.memory
        /\ a.lines = d.lines \/ a.lines = <<>>
        /\ ~d.cut_tmp => a = d
    BY <2>1, ReplaceEffect
  <2>3. a.lines = <<>> => Range(a.lines) = {}
    BY DEF Range
  <2>4. Readable(a) \subseteq Readable(d)
    BY <2>2, <2>3 DEF Readable
  <2> QED
    BY <1>1, <1>6, <2>2, <2>4 DEF Packed
<1>7. CASE n \in {4, 9}
  <2>1. Touched(d, a) /\ a.meta = d.meta /\ a.meta_tmp = "half"
    BY <1>7, PackCall, CreateEffect
  <2> QED
    BY <1>4, <1>7, <2>1
<1>8. CASE n \in {5, 10}
  <2>1. Touched(d, a) /\ a.meta \in {d.meta, "whole"} /\ a.meta_tmp = "whole"
    BY <1>8, PackingCall, PackCall, FillEffect DEF TmpFits
  <2> QED
    BY <1>4, <1>8, <2>1
<1>9. CASE n \in {6, 11}
  <2>1. Touched(d, a) /\ a.meta \in {d.meta, "whole"}
    BY <1>9, PackingCall, PackCall, RenameEffect DEF TmpFits
  <2> QED
    BY <1>4, <1>9, <2>1
<1>10. CASE n = 7
  <2>1. a = Effect(d, r, "mark")
    BY <1>10, PackCall
  <2>2. a.meta = d.meta /\ a.lines = d.lines /\ a.memory = d.memory
    BY <2>1, MarkEffect
  <2>3. Readable(a) = Readable(d)
    BY <2>2 DEF Readable
  <2> QED
    BY <1>1, <1>10, <2>2, <2>3 DEF Packed
<1>11. CASE n = 8
  <2>1. a = Effect(d, r, "point") /\ r.name \in DOMAIN d.memory /\ d.memory[r.name] = r.live
    BY <1>1, <1>11, PackCall
  <2>2. /\ a.meta = d.meta /\ a.lines = d.lines /\ a.memory = d.memory /\ a.archive = r.name
    BY <2>1, PointEffect
  <2>3. Archived(a) = r.live /\ Readable(a) = Readable(d)
    BY <2>1, <2>2 DEF Archived, Readable
  <2>4. Resumed(a) = r.live
    BY <2>3 DEF Resumed
  <2> QED
    BY <1>11, <2>1, <2>2, <2>3, <2>4 DEF Packed
<1> QED
  BY <1>2, <1>3, <1>5, <1>6, <1>7, <1>8, <1>9, <1>10, <1>11, PackCall
-----------------------------------------------------------------------------
(* A file call                                                             *)

(* The engine after a call, s being what is left.                          *)
After(r, q, s, do) ==
  /\ q.loaded = r.loaded /\ q.live = r.live /\ q.todo = s /\ q.queue = r.queue
  /\ s = <<>> => q.op = None
  /\ s # <<>> => q.op = r.op
  /\ s # <<>> /\ do # "name" => q.name = r.name

LEMMA StoreAfter ==
  ASSUME NEW r, NEW n, Storing(r, n), NEW d, NEW q, After(r, q, Remaining(d, r, Head(r.todo)), Head(r.todo))
  PROVE  /\ q.todo = <<>> \/ \E m \in 1..6 : Storing(q, m)
         /\ d.meta = "whole" /\ q.todo = <<>> => n = 6
         /\ d.meta = "whole" /\ q.todo # <<>> => Storing(q, n + 1) /\ n + 1 \in 1..6
         /\ \A m : ~Packing(q, m)
<1>1. PICK s : s = Remaining(d, r, Head(r.todo))
  OBVIOUS
<1>2. (s = <<>> \/ \E m \in 1..6 : s = Rest(Finalize, m)) /\ (d.meta = "whole" => s = Tail(r.todo))
  BY <1>1, StoreRest
<1>3. r.op \in Turns /\ n \in 0..6 /\ Tail(r.todo) = Rest(Finalize, n + 1)
      /\ (n = 6 <=> Tail(r.todo) = <<>>)
  BY StoringCall DEF Storing
<1>4. q.todo = s /\ (s # <<>> => q.op = r.op)
  BY <1>1 DEF After
<1>5. \A m \in 1..6 : m \in 0..6
  OBVIOUS
<1>6. q.todo = <<>> \/ \E m \in 1..6 : Storing(q, m)
  BY <1>2, <1>3, <1>4, <1>5 DEF Storing
<1>7. n # 6 => n + 1 \in 1..6
  BY <1>3
<1>8. d.meta = "whole" /\ q.todo # <<>> => Storing(q, n + 1) /\ n + 1 \in 1..6
  BY <1>2, <1>3, <1>4, <1>5, <1>7 DEF Storing
<1>9. \A m : ~Packing(q, m)
  BY <1>6, OnePlace, NotWriting
<1> QED
  BY <1>2, <1>3, <1>4, <1>6, <1>8, <1>9

(* What a turn's call keeps.                                               *)
Stores(d, a, r, q) ==
  /\ a.meta = "whole" /\ Resumed(d) \subseteq Resumed(a)
  /\ \A u : Kept(d, u) => Kept(a, u)
  /\ q.todo = <<>> => Kept(a, r.op)

LEMMA StoreKnows ==
  ASSUME NEW d, IsDisk(d), d.meta = "whole", NEW r, NEW n, Storing(r, n), NEW e, NEW c, NEW o, NEW S,
         Knows(e, r, c, o, d, S), Entries(r.op) \subseteq r.live,
         NEW a, a = Effect(d, r, Head(r.todo)),
         NEW q, After(r, q, Remaining(d, r, Head(r.todo)), Head(r.todo)),
         NEW k, e = c \/ ~k.loaded
  PROVE  Stores(d, a, r, q) /\ Knows(e, q, c, k, a, S)
<1>1. /\ a.meta = "whole"
      /\ Resumed(d) \subseteq Resumed(a) /\ Resumed(a) \subseteq Resumed(d) \cup Entries(r.op)
      /\ \A u : Kept(d, u) => Kept(a, u)
      /\ n = 0 => Kept(a, r.op)
      /\ n \in {1, 4} => a.meta_tmp # "none"
      /\ n \in {2, 5} => a.meta_tmp = "whole"
  <2>1. r.todo # <<>> /\ TmpFits(r, d)
    BY StoringCall DEF Knows
  <2> QED
    BY <2>1, StoreFiles
<1>2. /\ q.todo = <<>> => n = 6
      /\ q.todo # <<>> => Storing(q, n + 1) /\ n + 1 \in 1..6
      /\ \A m : ~Packing(q, m) /\ ~Packing(r, m)
  <2>1. /\ q.todo = <<>> \/ \E m \in 1..6 : Storing(q, m)
        /\ d.meta = "whole" /\ q.todo = <<>> => n = 6
        /\ d.meta = "whole" /\ q.todo # <<>> => Storing(q, n + 1) /\ n + 1 \in 1..6
        /\ \A m : ~Packing(q, m)
    BY StoreAfter, Zenon
  <2>2. \A m : ~Packing(r, m)
    BY OnePlace
  <2> QED
    BY <2>1, <2>2
<1>3. n \in 0..6 /\ (n # 0 => n \in 1..6) /\ (n = 6 => n \in 1..6)
  BY DEF Storing
<1>4. Kept(a, r.op)
  <2>1. CASE n = 0
    BY <1>1, <2>1
  <2>2. CASE n # 0
    BY <1>1, <1>3, <2>2 DEF Knows
  <2> QED
    BY <2>1, <2>2
<1>5. q.loaded = r.loaded /\ q.live = r.live /\ (q.todo # <<>> => q.op = r.op)
  BY DEF After
<1>6. TmpFits(q, a)
  <2>1. q.todo # <<>> /\ q.todo[1] = "rename" => n + 1 \in {3, 6}
    BY <1>2, StoreCall
  <2>2. n + 1 \in {3, 6} => n \in {2, 5}
    BY <1>3
  <2>3. q.todo # <<>> /\ q.todo[1] = "fill" => n + 1 \in {2, 5}
    BY <1>2, StoreCall
  <2>4. n + 1 \in {2, 5} => n \in {1, 4}
    BY <1>3
  <2> QED
    BY <1>1, <2>1, <2>2, <2>3, <2>4 DEF TmpFits
<1>7. \A m \in 1..6 : Storing(q, m) => Kept(a, q.op)
  BY <1>4, <1>5, NotWriting
<1>8. e = c => S \subseteq Resumed(d) /\ (r.loaded => Resumed(d) \subseteq r.live /\ S \subseteq r.live)
  BY <1>2 DEF Knows
<1>9. Readable(a) \subseteq Resumed(a)
  BY DEF Resumed
<1>10. Knows(e, q, c, k, a, S)
  BY <1>1, <1>2, <1>5, <1>6, <1>7, <1>8, <1>9 DEF Knows
<1> QED
  BY <1>1, <1>4, <1>10 DEF Stores

LEMMA PackAfter ==
  ASSUME NEW r, NEW n, Packing(r, n), NEW d, NEW q, After(r, q, Remaining(d, r, Head(r.todo)), Head(r.todo))
  PROVE  /\ q.todo = <<>> => n = 11 \/ d.meta # "whole" \/ (n = 3 /\ ~d.cut_tmp)
                              \/ (r.todo[1] = "rename" /\ d.meta_tmp = "none")
         /\ q.todo # <<>> => /\ Packing(q, n + 1) /\ n + 1 \in 1..11
                             /\ n # 0 => q.name = r.name
         /\ \A m : ~Storing(q, m)
<1>1. PICK s : s = Remaining(d, r, Head(r.todo))
  OBVIOUS
<1>2. \/ s = <<>> /\ (n = 11 \/ d.meta # "whole" \/ (n = 3 /\ ~d.cut_tmp)
                       \/ (r.todo[1] = "rename" /\ d.meta_tmp = "none"))
      \/ s = Rest(CompactFiles, n + 1) /\ n \in 0..10
  BY <1>1, PackRest
<1>3. q.todo = s /\ (s # <<>> => q.op = r.op) /\ r.op = Compact
  BY <1>1 DEF After, Packing
<1>4. n \in 0..10 => n + 1 \in 1..11 /\ n + 1 \in 0..11
  OBVIOUS
<1>5. q.todo # <<>> => Packing(q, n + 1) /\ n + 1 \in 1..11
  BY <1>2, <1>3, <1>4 DEF Packing
<1>6. Head(r.todo) = "name" => n = 0
  BY PackCall
<1>7. q.todo # <<>> /\ n # 0 => q.name = r.name
  BY <1>1, <1>3, <1>6 DEF After
<1>8. \A m : ~Storing(q, m)
  BY <1>5, OnePlace, NotWriting
<1>9. q.todo = <<>> => n = 11 \/ d.meta # "whole" \/ (n = 3 /\ ~d.cut_tmp)
                       \/ (r.todo[1] = "rename" /\ d.meta_tmp = "none")
  <2>1. n \in 0..10 /\ s = Rest(CompactFiles, n + 1) => s # <<>>
    <3>1. PICK f, k : f = CompactFiles /\ k = n + 1
      OBVIOUS
    <3>2. n \in 0..10 => k \in Nat /\ k < Len(f) /\ f \in Seq(Calls)
      BY <3>1, CompactCalls
    <3>3. n \in 0..10 => Rest(f, k) # <<>>
      BY <3>2, RestCalls
    <3> QED
      BY <3>1, <3>3
  <2> QED
    BY <1>2, <1>3, <2>1
<1> QED
  BY <1>5, <1>7, <1>8, <1>9

LEMMA PackKnows ==
  ASSUME NEW d, IsDisk(d), d.meta = "whole", NEW r, NEW n, Packing(r, n), NEW e, NEW o, NEW S,
         Knows(e, r, e, o, d, S), r.loaded, n \in 2..11 => r.name \in DOMAIN d.memory,
         NEW a, a = Effect(d, r, Head(r.todo)),
         NEW q, After(r, q, Remaining(d, r, Head(r.todo)), Head(r.todo)), NEW k
  PROVE  a.meta = "whole" /\ Knows(e, q, e, k, a, S)
<1>1. /\ n \in 0..11 /\ (n \in 2..11 => d.memory[r.name] = r.live)
      /\ Readable(d) \subseteq r.live /\ S \subseteq r.live
  BY DEF Knows, Packing
<1>2. n \notin 4..8 => S \subseteq Resumed(d) /\ Resumed(d) \subseteq r.live
  <2>1. n \notin 4..8 => \A m \in 4..8 : ~Packing(r, m)
    BY OnePlace
  <2> QED
    BY <2>1 DEF Knows
<1>3. Packed(a, r, n, S) /\ (n = 3 /\ ~d.cut_tmp => a = d)
  <2>1. TmpFits(r, d)
    BY DEF Knows
  <2>2. n \in 2..11 => r.name \in DOMAIN d.memory /\ d.memory[r.name] = r.live
    BY <1>1
  <2>3. Readable(d) \subseteq r.live /\ S \subseteq r.live
    BY <1>1
  <2> QED
    BY <1>2, <2>1, <2>2, <2>3, PackFiles
<1>4. /\ q.todo = <<>> => n = 11 \/ (n = 3 /\ ~d.cut_tmp)
      /\ q.todo # <<>> => /\ Packing(q, n + 1) /\ n + 1 \in 1..11
                          /\ n # 0 => q.name = r.name
      /\ \A m : ~Storing(q, m)
  <2>1. /\ q.todo = <<>> => n = 11 \/ d.meta # "whole" \/ (n = 3 /\ ~d.cut_tmp)
                             \/ (r.todo[1] = "rename" /\ d.meta_tmp = "none")
        /\ q.todo # <<>> => /\ Packing(q, n + 1) /\ n + 1 \in 1..11
                            /\ n # 0 => q.name = r.name
        /\ \A m : ~Storing(q, m)
    BY PackAfter, Zenon
  <2>2. TmpFits(r, d) /\ r.todo # <<>>
    BY PackingCall DEF Knows
  <2> QED
    BY <2>1, <2>2 DEF TmpFits
<1>5. q.loaded = r.loaded /\ q.live = r.live
  BY DEF After
<1>6. TmpFits(q, a)
  <2>1. q.todo # <<>> /\ q.todo[1] = "rename" => n + 1 \in {6, 11}
    BY <1>4, PackCall
  <2>2. n + 1 \in {6, 11} => n \in {5, 10}
    BY <1>1
  <2>3. q.todo # <<>> /\ q.todo[1] = "fill" => n + 1 \in {5, 10}
    BY <1>4, PackCall
  <2>4. n + 1 \in {5, 10} => n \in {4, 9}
    BY <1>1
  <2> QED
    BY <1>3, <2>1, <2>2, <2>3, <2>4 DEF Packed, TmpFits
<1>7. \A m \in 2..11 : Packing(q, m) => a.memory[q.name] = q.live
  <2>1. ASSUME NEW m \in 2..11, Packing(q, m) PROVE n # 0 /\ q.name = r.name
    <3>1. q.todo # <<>>
      BY <2>1, NotWriting
    <3>2. m = n + 1
      BY <1>4, <2>1, <3>1, OnePlace
    <3>3. n # 0
      BY <1>1, <3>2
    <3> QED
      BY <1>4, <3>1, <3>3
  <2> QED
    BY <1>3, <1>5, <2>1 DEF Packed
<1>8. (\A m \in 4..8 : ~Packing(q, m)) => S \subseteq Resumed(a) /\ Resumed(a) \subseteq r.live
  <2>1. CASE q.todo = <<>>
    <3>1. n = 11 => n \notin {3, 4, 5, 6, 7}
      OBVIOUS
    <3>2. n = 3 => n \notin 4..8
      OBVIOUS
    <3> QED
      BY <1>2, <1>3, <1>4, <2>1, <3>1, <3>2 DEF Packed
  <2>2. CASE q.todo # <<>>
    <3>1. n \in {3, 4, 5, 6, 7} => n + 1 \in 4..8
      OBVIOUS
    <3> QED
      BY <1>3, <1>4, <2>2, <3>1 DEF Packed
  <2> QED
    BY <2>1, <2>2
<1> QED
  BY <1>1, <1>3, <1>4, <1>5, <1>6, <1>7, <1>8 DEF Knows, Packed

(* What the call of engine e does to the loop, c being the engine in use.  *)
Loop(e, r, q, c, old, new) ==
  /\ IsApp(new) /\ new.turn = old.turn
  /\ new.phase = old.phase \/ (e = c /\ r.op = Compact /\ q.todo = <<>> /\ new.phase = "ready")
  /\ r.op = Compact /\ e = c /\ q.todo = <<>> => new.phase = "ready"
  /\ new.ended => old.ended \/ (q.todo = <<>> /\ old.turn = r.op /\ r.op # Compact)

LEMMA FileCall ==
  ASSUME Shapes, NEW e \in Engines, File(e), NEW r, r = engines[e]
  PROVE  \E q : /\ engines' = [engines EXCEPT ![e] = q] /\ IsEngine(q)
                /\ After(r, q, Remaining(disk, r, Head(r.todo)), Head(r.todo))
                /\ Loop(e, r, q, cur, app, app')
<1>1. PICK d, do, s : d = disk /\ do = Head(r.todo) /\ s = Remaining(disk, r, Head(r.todo))
  OBVIOUS
<1>2. PICK op, name : /\ op = IF s = <<>> THEN None ELSE r.op
                      /\ name = IF do = "name" THEN Highest(d) + 1 ELSE IF s = <<>> THEN 0 ELSE r.name
  OBVIOUS
<1>3. PICK q : q = [r EXCEPT !.todo = s, !.op = op, !.name = name]
  OBVIOUS
<1>4. engines' = [engines EXCEPT ![e] = q]
  BY <1>1, <1>2, <1>3 DEF File
<1>5. EngineOK(e, r, cur, app.phase, DOMAIN disk.memory) /\ IsEngine(r) /\ IsApp(app)
  BY DEF Shapes, EngineOK
<1>6. q = [loaded |-> r.loaded, live |-> r.live, op |-> op, todo |-> s, name |-> name, queue |-> r.queue]
  BY <1>3, <1>5 DEF IsEngine
<1>7. op \in Ops \cup {None}
  BY <1>2, <1>5 DEF IsEngine
<1>8. IsEngine(q)
  BY <1>5, <1>6, <1>7 DEF IsEngine
<1>9. After(r, q, s, do)
  BY <1>2, <1>6 DEF After
<1>10. Loop(e, r, q, cur, app, app')
  <2>1. PICK p, b : /\ p = IF s = <<>> /\ r.op = Compact /\ cur = e THEN "ready" ELSE app.phase
                    /\ b = IF s = <<>> /\ ~Walked(e) /\ r.op # Compact THEN TRUE ELSE app.ended
    OBVIOUS
  <2>2. app' = [app EXCEPT !.phase = p, !.ended = b]
    BY <1>1, <2>1 DEF File
  <2>3. app' = [phase |-> p, turn |-> app.turn, ended |-> b]
    BY <1>5, <2>2 DEF IsApp
  <2>4. b \in BOOLEAN
    BY <1>5, <2>1 DEF IsApp
  <2>5. Compact = r.op => app.phase = "compacting" /\ app.turn = None
    BY <1>5 DEF EngineOK, Compacts, IsApp
  <2>6. b => app.ended \/ (s = <<>> /\ app.turn = r.op /\ r.op # Compact)
    BY <2>1 DEF Walked
  <2>7. b => app.turn # None
    <3>1. r.op # None
      BY DEF File, Writing, Shapes, EngineOK
    <3> QED
      BY <1>5, <2>6, <3>1 DEF IsApp
  <2>8. p \in {"closed", "ready", "compacting"} /\ (app.turn # None => p = "ready")
    BY <1>5, <2>1 DEF IsApp
  <2>9. IsApp(app')
    BY <1>5, <2>3, <2>4, <2>7, <2>8 DEF IsApp
  <2>10. q.todo = s
    BY <1>6
  <2> QED
    BY <2>1, <2>3, <2>6, <2>9, <2>10 DEF Loop
<1> QED
  BY <1>1, <1>4, <1>8, <1>9, <1>10

LEMMA FileStep ==
  ASSUME IInv, NEW e \in Engines, File(e)
  PROVE  IInv'
<1>1. PICK r, d, a, c, p : r = engines[e] /\ d = disk /\ a = disk' /\ c = cur /\ p = app.phase
  OBVIOUS
<1>2. Shapes /\ c \in Engines /\ IsDisk(d)
  BY <1>1 DEF IInv, Shapes
<1>3. PICK q : /\ engines' = [engines EXCEPT ![e] = q] /\ IsEngine(q)
               /\ After(r, q, Remaining(d, r, Head(r.todo)), Head(r.todo))
               /\ Loop(e, r, q, c, app, app')
  BY <1>1, <1>2, FileCall
<1>4. EngineOK(e, r, c, p, DOMAIN d.memory)
  BY <1>1, <1>2 DEF Shapes
<1>5. /\ r.todo # <<>> /\ cur' = cur /\ shown' = shown /\ count' = count
      /\ shared' = (shared \/ (e # c /\ engines[c].loaded))
      /\ a = Effect(d, r, Head(r.todo))
  BY <1>1 DEF File, Writing, Behind
<1>6. r.op # None /\ r.loaded /\ p # "closed"
  BY <1>4, <1>5 DEF EngineOK
<1>7. PICK n \in Nat : Storing(r, n) \/ Packing(r, n)
  BY <1>4, <1>5 DEF EngineOK
<1>8. Packing(r, n) => e = c /\ p = "compacting" /\ (n \in 2..11 => r.name \in DOMAIN d.memory)
  BY <1>4 DEF EngineOK, Compacts, Packing
<1>9. /\ IsDisk(a) /\ DOMAIN d.memory \subseteq DOMAIN a.memory
      /\ Packing(r, n) /\ n \in 1..11 => r.name \in DOMAIN a.memory
  <2>1. CASE Storing(r, n)
    <3>1. IsDisk(a) /\ a.memory = d.memory
      BY <1>2, <1>5, <2>1, StoreDisk
    <3>2. ~Packing(r, n)
      BY <2>1, OnePlace
    <3> QED
      BY <3>1, <3>2
  <2>2. CASE Packing(r, n)
    BY <1>2, <1>5, <1>8, <2>2, PackDisk
  <2> QED
    BY <1>7, <2>1, <2>2
<1>10. EngineOK(e, q, c, app'.phase, DOMAIN a.memory)
  <2>1. PICK w, M : w = app'.phase /\ M = DOMAIN a.memory
    OBVIOUS
  <2>2. /\ q.loaded = r.loaded /\ q.live = r.live /\ q.queue = r.queue
        /\ (q.todo = <<>> => q.op = None) /\ (q.todo # <<>> => q.op = r.op)
    BY <1>3 DEF After
  <2>3. Compacts(q) => Compacts(r) /\ w = p
    <3>1. Compacts(q) => Compacts(r)
      BY <2>2, NoneIsNoOp DEF Compacts
    <3>2. r.op = Compact => r.queue = <<>> /\ Len(r.queue) = 0
      BY <1>4 DEF EngineOK
    <3>3. r.op = Compact /\ q.todo = <<>> => ~Compacts(q)
      BY <2>2, <3>2, NoneIsNoOp DEF Compacts
    <3>4. w = p \/ (r.op = Compact /\ q.todo = <<>>)
      BY <1>1, <1>3, <2>1 DEF Loop
    <3> QED
      BY <3>1, <3>3, <3>4
  <2>4. w # "closed"
    BY <1>1, <1>3, <1>6, <2>1 DEF Loop
  <2>5. q.todo # <<>> => \E m \in Nat : Storing(q, m) \/ Packing(q, m)
    <3>1. CASE Storing(r, n)
      <4>1. q.todo = <<>> \/ \E m \in 1..6 : Storing(q, m)
        BY <1>3, <3>1, StoreAfter
      <4> QED
        BY <4>1
    <3>2. CASE Packing(r, n)
      <4>1. q.todo # <<>> => Packing(q, n + 1)
        BY <1>3, <3>2, PackAfter, Zenon
      <4>2. n + 1 \in Nat
        BY <1>7
      <4> QED
        BY <4>1, <4>2
    <3> QED
      BY <1>7, <3>1, <3>2
  <2>6. ASSUME NEW m \in 2..11, Packing(q, m) PROVE q.name \in M
    <3>1. q.todo # <<>>
      BY <2>6, NotWriting
    <3>2. ~Storing(r, n)
      BY <1>3, <2>6, StoreAfter
    <3>3. Packing(r, n)
      BY <1>7, <3>2
    <3>4. Packing(q, n + 1) /\ (n # 0 => q.name = r.name)
      BY <1>3, <3>1, <3>3, PackAfter
    <3>5. m = n + 1
      BY <2>6, <3>4, OnePlace
    <3>6. n \in 1..11
      BY <1>7, <3>5
    <3> QED
      BY <1>9, <2>1, <3>3, <3>4, <3>6
  <2>7. ASSUME NEW m \in 0..6, Storing(q, m) PROVE Entries(q.op) \subseteq q.live
    <3>1. q.todo # <<>>
      BY <2>7, NotWriting
    <3>2. ~Packing(r, n)
      BY <1>3, <2>7, PackAfter
    <3>3. Storing(r, n)
      BY <1>7, <3>2
    <3>4. Entries(r.op) \subseteq r.live
      BY <1>4, <3>3 DEF EngineOK, Storing
    <3> QED
      BY <2>2, <3>1, <3>4
  <2>8. EngineOK(e, q, c, w, M)
    <3>1. q.op = None => q.todo = <<>>
      BY <1>6, <2>2
    <3>2. q.loaded
      BY <1>6, <2>2
    <3>3. q.op = Compact => q.queue = <<>>
      BY <1>4, <2>2, NoneIsNoOp DEF EngineOK
    <3>4. \A i \in 1..Len(q.queue) : q.queue[i] = Compact => i = Len(q.queue)
      BY <1>4, <2>2 DEF EngineOK
    <3>5. Compacts(q) => e = c /\ w = "compacting"
      BY <1>4, <2>3 DEF EngineOK
    <3> QED
      BY <1>3, <2>4, <2>5, <2>6, <2>7, <3>1, <3>2, <3>3, <3>4, <3>5 DEF EngineOK
  <2> QED
    BY <2>1, <2>8
<1>11. Shapes'
  <2>1. app'.phase = app.phase \/ (e = cur /\ app'.phase # "closed")
    BY <1>1, <1>3 DEF Loop
  <2>2. IsApp(app')
    BY <1>3 DEF Loop
  <2>3. shared' \in BOOLEAN /\ count'.turns \in 0..MaxTurns
    BY <1>2, <1>5 DEF Shapes
  <2> QED
    BY <1>1, <1>2, <1>3, <1>5, <1>9, <1>10, <2>1, <2>2, <2>3, ShapesStep
<1>12. ASSUME ~shared' PROVE FilesOK'
  <2>1. FilesOK /\ (e = c \/ ~engines[c].loaded)
    BY <1>5, <1>12 DEF IInv
  <2>2. PICK o, k : o = engines[c] /\ k = engines'[c]
    OBVIOUS
  <2>3. \A x \in Engines : engines'[x] = IF x = e THEN q ELSE engines[x]
    BY <1>2, <1>3 DEF Shapes
  <2>4. d.meta = "whole" /\ Knows(e, r, c, o, d, shown) /\ (e = c \/ ~k.loaded)
    BY <1>1, <1>2, <1>6, <2>1, <2>2, <2>3 DEF FilesOK
  <2>5. /\ a.meta = "whole" /\ Knows(e, q, c, k, a, shown)
        /\ Storing(r, n) => /\ \A u : Kept(d, u) => Kept(a, u)
                            /\ q.todo = <<>> => Kept(a, r.op)
                            /\ Resumed(d) \subseteq Resumed(a)
    <3>1. CASE Storing(r, n)
      <4>1. Entries(r.op) \subseteq r.live
        BY <1>4, <3>1 DEF EngineOK, Storing
      <4>2. /\ IsDisk(d) /\ d.meta = "whole" /\ Knows(e, r, c, o, d, shown)
            /\ a = Effect(d, r, Head(r.todo))
            /\ After(r, q, Remaining(d, r, Head(r.todo)), Head(r.todo))
            /\ e = c \/ ~k.loaded
        BY <1>2, <1>3, <1>5, <2>4
      <4>3. Stores(d, a, r, q) /\ Knows(e, q, c, k, a, shown)
        BY <3>1, <4>1, <4>2, StoreKnows
      <4> QED
        BY <4>3 DEF Stores
    <3>2. CASE Packing(r, n)
      <4>1. e = c
        BY <1>8, <3>2
      <4>2. Knows(e, r, e, o, d, shown) /\ (n \in 2..11 => r.name \in DOMAIN d.memory)
        BY <1>8, <2>4, <3>2, <4>1
      <4>3. a.meta = "whole" /\ Knows(e, q, e, k, a, shown)
        BY <1>2, <1>3, <1>5, <1>6, <2>4, <3>2, <4>2, PackKnows
      <4>4. ~Storing(r, n)
        BY <3>2, OnePlace
      <4> QED
        BY <4>1, <4>3, <4>4
    <3> QED
      BY <1>7, <3>1, <3>2
  <2>6. ASSUME NEW x \in Engines, x # e PROVE Knows(x, engines[x], c, k, a, shown)
    <3>1. PICK y : y = engines[x]
      OBVIOUS
    <3>2. Knows(x, y, c, o, d, shown) /\ EngineOK(x, y, c, p, DOMAIN d.memory)
      BY <1>1, <1>2, <2>1, <2>2, <3>1 DEF FilesOK, Shapes
    <3>3. CASE e = c
      <4>1. o.loaded /\ x # c
        BY <1>1, <1>6, <2>2, <2>6, <3>3
      <4>2. y.todo = <<>> \/ y.todo = Rest(Finalize, 0)
        BY <3>2, <4>1 DEF Knows
      <4>3. y.todo # <<>> => y.todo[1] \notin {"fill", "rename"}
        BY <4>2, FirstCall, FinalizeCalls
      <4>4. \A m : ~Packing(y, m)
        BY <3>2, <4>1 DEF EngineOK, Compacts, Packing
      <4>5. ASSUME NEW m \in 1..6, Storing(y, m) PROVE FALSE
        <5>1. y.todo = Rest(Finalize, 0) /\ y.op \in Turns
          BY <4>2, <4>5, NotWriting DEF Storing
        <5>2. Storing(y, 0)
          BY <5>1 DEF Storing
        <5>3. m = 0
          BY <4>5, <5>2, OnePlace
        <5> QED
          BY <5>3
      <4>6. Knows(x, y, c, k, a, shown)
        BY <4>1, <4>2, <4>3, <4>4, <4>5 DEF Knows, TmpFits
      <4> QED
        BY <3>1, <4>6
    <3>4. CASE e # c
      <4>1. x = c /\ ~o.loaded /\ y = o
        BY <1>2, <2>1, <2>2, <2>6, <3>1, <3>4 DEF Engines
      <4>2. y.todo = <<>>
        BY <3>2, <4>1 DEF EngineOK
      <4>3. \A m : ~Storing(y, m) /\ ~Packing(y, m)
        BY <4>2, NotWriting
      <4>4. Storing(r, n)
        BY <1>7, <1>8, <3>4
      <4>5. shown \subseteq Resumed(a)
        BY <2>5, <3>2, <4>1, <4>3, <4>4 DEF Knows
      <4>6. Knows(x, y, c, k, a, shown)
        BY <4>1, <4>2, <4>3, <4>5 DEF Knows, TmpFits
      <4> QED
        BY <3>1, <4>6
    <3> QED
      BY <3>3, <3>4
  <2>7. \A x \in Engines : Knows(x, engines'[x], cur', engines'[cur'], disk', shown')
    BY <1>1, <1>5, <2>2, <2>3, <2>5, <2>6
  <2>8. (\A x \in Engines : Knows(x, engines[x], cur, engines[cur], disk, shown))'
    BY <2>7
  <2>9. app'.ended => Kept(a, app'.turn)
    <3>1. CASE Storing(r, n)
      <4>1. app'.ended => app.ended \/ (q.todo = <<>> /\ app.turn = r.op)
        BY <1>3 DEF Loop
      <4>2. app.ended => Kept(d, app.turn)
        BY <1>1, <2>1 DEF FilesOK
      <4>3. app'.turn = app.turn
        BY <1>3 DEF Loop
      <4> QED
        BY <2>5, <3>1, <4>1, <4>2, <4>3
    <3>2. CASE Packing(r, n)
      <4>1. p = "compacting" /\ r.op = Compact
        BY <1>8, <3>2 DEF Packing
      <4>2. ~app.ended
        BY <1>1, <1>2, <4>1 DEF Shapes, IsApp
      <4> QED
        BY <1>3, <4>1, <4>2 DEF Loop
    <3> QED
      BY <1>7, <3>1, <3>2
  <2>10. app'.ended => Kept(disk', app'.turn)
    BY <1>1, <2>9
  <2> QED
    BY <1>1, <2>5, <2>8, <2>10 DEF FilesOK
<1> QED
  BY <1>11, <1>12 DEF IInv
-----------------------------------------------------------------------------
(* The invariant                                                           *)

LEMMA Initially ==
  Init => IInv
<1> SUFFICES ASSUME Init PROVE IInv
  OBVIOUS
<1>1. PICK no \in BOOLEAN : no = FALSE
  OBVIOUS
<1>2. PICK f : f = [Fresh EXCEPT !.loaded = no]
  OBVIOUS
<1>3. /\ Fresh = f /\ IsEngine(f) /\ ~f.loaded /\ f.op = None /\ f.todo = <<>> /\ f.queue = <<>>
  <2>1. f = [loaded |-> no, live |-> {}, op |-> None, todo |-> <<>>, name |-> 0, queue |-> <<>>]
    BY <1>2, FreshEngine
  <2>2. Fresh = f
    BY <1>1, <2>1 DEF Fresh
  <2> QED
    BY <1>1, <1>2, <2>1, <2>2, FreshEngine
<1>4. engines = [e \in Engines |-> f] /\ \A e \in Engines : engines[e] = f
  BY <1>3 DEF Init
<1>5. PICK none \in Seq(Line) : none = <<>>
  BY EmptySeq
<1>6. PICK m : m = <<>>
  OBVIOUS
<1>7. disk = [meta |-> "none", meta_tmp |-> "none", lines |-> none, torn |-> no,
              cut_tmp |-> no, archive |-> 0, memory |-> m]
  BY <1>1, <1>5, <1>6 DEF Init
<1>8. IsDisk(disk) /\ disk.meta = "none" /\ disk.lines = <<>> /\ disk.archive = 0 /\ disk.memory = <<>>
  BY <1>5, <1>6, <1>7 DEF IsDisk, Contents
<1>9. 0 \notin DOMAIN disk.memory
  BY <1>8
<1>10. Shapes
  <2>1. \A e \in Engines : EngineOK(e, engines[e], cur, app.phase, DOMAIN disk.memory)
    BY <1>3, <1>4, FreshOK
  <2>2. IsApp(app) /\ cur \in Engines /\ shared \in BOOLEAN
    BY ReadyApp DEF Init, Engines
  <2>3. count.turns \in 0..MaxTurns
    BY TurnsAssumption DEF Init
  <2>4. engines = [e \in Engines |-> engines[e]]
    BY <1>4
  <2> QED
    BY <1>8, <2>1, <2>2, <2>3, <2>4 DEF Shapes
<1>11. FilesOK
  <2>1. \A n : ~Storing(f, n) /\ ~Packing(f, n)
    BY <1>3, NotWriting
  <2>2. \A e, c, o : Knows(e, f, c, o, disk, {})
    BY <1>3, <2>1 DEF Knows, TmpFits
  <2>3. app.phase = "closed" /\ ~app.ended /\ shown = {}
    BY ReadyApp DEF Init
  <2>4. \A e \in Engines : Knows(e, engines[e], cur, engines[cur], disk, shown)
    BY <1>4, <2>2, <2>3
  <2> QED
    BY <1>8, <1>9, <2>3, <2>4 DEF FilesOK
<1> QED
  BY <1>10, <1>11 DEF IInv

LEMMA Inductive ==
  IInv /\ [Next]_vars => IInv'
<1> SUFFICES ASSUME IInv, [Next]_vars PROVE IInv'
  OBVIOUS
<1>1. CASE UNCHANGED vars
  <2>1. /\ disk' = disk /\ engines' = engines /\ cur' = cur /\ app' = app /\ shown' = shown
        /\ shared' = shared /\ count' = count
    BY <1>1 DEF vars
  <2>2. Shapes'
    <3>1. PICK c, r : c = cur /\ r = engines[cur]
      OBVIOUS
    <3>2. c \in Engines /\ engines' = [engines EXCEPT ![c] = r]
      BY <2>1, <3>1 DEF IInv, Shapes
    <3> QED
      BY <2>1, <3>1, <3>2, ShapesStep DEF IInv, Shapes
  <2>3. ~shared' => FilesOK'
    BY <2>1 DEF IInv, FilesOK, Knows, Kept, GluedIn, Readable, Resumed, Archived, Storing, Packing, Turns
  <2> QED
    BY <2>2, <2>3 DEF IInv
<1>2. ASSUME NEW e \in Engines, EngineStep(e) PROVE IInv'
  BY <1>2, LockStep, AbandonStep, RunDoneStep, SummarizedStep, NoSummaryStep, FileStep DEF EngineStep
<1> QED
  BY <1>1, <1>2, OpenStep, SubmitStep, InterruptStep, EndTurnStep, CompactSessionStep, ReconnectStep,
     CrashStep DEF Next

LEMMA FilesHold ==
  IInv => FilesWhole
<1> SUFFICES ASSUME IInv, ~shared
             PROVE  disk.meta # "half" /\ disk.archive \in {0, Empty} \cup DOMAIN disk.memory
  BY DEF FilesWhole
<1> QED
  BY DEF IInv, Shapes, IsDisk, FilesOK

LEMMA ShownHold ==
  IInv => ShownIsKept
<1>1. SUFFICES ASSUME IInv, ~shared, NEW x \in shown, x \notin Resumed(disk)
               PROVE  \E e \in Engines : /\ Cutting(engines[e])
                                         /\ x \in Archived([disk EXCEPT !.archive = engines[e].name])
  BY DEF ShownIsKept
<1>2. PICK c, r, d : c = cur /\ r = engines[cur] /\ d = disk
  OBVIOUS
<1>3. /\ c \in Engines /\ Knows(c, r, c, r, d, shown) /\ IsDisk(d)
      /\ EngineOK(c, r, c, app.phase, DOMAIN d.memory)
  BY <1>1, <1>2 DEF IInv, Shapes, FilesOK
<1>4. PICK n \in 4..8 : Packing(r, n)
  BY <1>1, <1>2, <1>3 DEF Knows
<1>5. Cutting(r)
  BY <1>4, CuttingPlace
<1>6. n \in 2..11
  BY <1>4
<1>7. r.name \in DOMAIN d.memory /\ d.memory[r.name] = r.live
  BY <1>3, <1>4, <1>6 DEF Knows, EngineOK
<1>8. x \in r.live
  <2>1. r.op # None
    BY <1>4, NoneIsNoOp DEF Packing
  <2> QED
    BY <1>1, <1>3, <2>1 DEF Knows, EngineOK
<1>9. x \in Archived([d EXCEPT !.archive = r.name])
  <2>1. PICK a : a = [d EXCEPT !.archive = r.name]
    OBVIOUS
  <2>2. a = [meta |-> d.meta, meta_tmp |-> d.meta_tmp, lines |-> d.lines, torn |-> d.torn,
             cut_tmp |-> d.cut_tmp, archive |-> r.name, memory |-> d.memory]
    BY <1>3, <2>1 DEF IsDisk
  <2>3. a.archive = r.name /\ a.memory = d.memory
    BY <2>2
  <2>4. Archived(a) = r.live
    BY <1>7, <2>3 DEF Archived
  <2> QED
    BY <1>8, <2>1, <2>4
<1> QED
  BY <1>2, <1>3, <1>5, <1>9
-----------------------------------------------------------------------------
(* As long as no engine writes behind another: however file calls of turns *)
(* and compactions interleave with prompts, reconnects, crashes and        *)
(* restarts, the metadata is never half of a file and the marker names an  *)
(* archive that is there, if it names one.                                 *)
THEOREM FilesStayWhole == Spec => []FilesWhole
<1>1. Spec => []IInv
  BY Initially, Inductive, PTL DEF Spec
<1> QED
  BY <1>1, FilesHold, PTL

(* As long as no engine writes behind another: what the loop has shown as  *)
(* done is in what a resume would read, or in the archive the compaction   *)
(* under way is about to name.                                             *)
THEOREM ShownStaysKept == Spec => []ShownIsKept
<1>1. Spec => []IInv
  BY Initially, Inductive, PTL DEF Spec
<1> QED
  BY <1>1, ShownHold, PTL
=============================================================================
