-------------------------- MODULE TextIndexProofs --------------------------
(***************************************************************************)
(* For any writers, keys, terms and numbers of operations and faults: the  *)
(* types and bounds of the index, that it matches the texts that were      *)
(* indexed and is searched as a ranking of all of them would be, and that  *)
(* those are the texts of the messages as long as there is no fault.       *)
(***************************************************************************)
EXTENDS TextIndex, FiniteSetTheorems, TLAPS

T == Cardinality(Terms)

Stats == [docs : Nat, total_len : Nat]
Task == [pc : {"idle", "drop", "retract", "undoc", "count_dec", "dec", "delete",
               "post", "doc", "count_inc", "inc"},
         op : {"put", "remove"}, key : Keys, text : Texts, todo : Texts,
         doc : Texts, read : Stats]

(* A task that is to count its entry has taken one of the operations.      *)
Puts(r) == r.pc # "idle" /\ r.op = "put"
Pending == {w \in Writers : Puts(task[w])}
Room == ops - Cardinality(Pending)

Within(s, n) == s.docs <= n /\ s.total_len <= n * T

(* What has been counted, and what a task has read to add to, leaves room  *)
(* for those that are to count yet.                                        *)
Counted ==
  /\ ops \in 0..MaxOps /\ Cardinality(Pending) \in 0..ops
  /\ Within(stats, Room)
  /\ \A w \in Writers : Within(task[w].read, Room)

Types ==
  /\ DOMAIN entries \subseteq Keys /\ \A k \in DOMAIN entries : entries[k] \in Texts
  /\ IsFiniteSet(DOMAIN entries)
  /\ DOMAIN left \subseteq DOMAIN entries /\ \A k \in DOMAIN left : left[k] \in Texts \ {{}}
  /\ postings \subseteq Terms \X Keys
  /\ DOMAIN docs \subseteq Keys /\ \A k \in DOMAIN docs : docs[k] \in Texts \ {{}}
  /\ stats \in Stats /\ task \in [Writers -> Task]
  /\ mixed \subseteq Keys

(* Where a writer is in its loop.                                          *)
Loop == [op : {"none", "read", "append", "truncate"}, session : Sessions, next : Nat,
          rest : SUBSET Keys]
Calling ==
  /\ index \in {"memory", "messages"} /\ count \in [Sessions -> Nat]
  /\ call \in [Writers -> Loop]

(* The texts of a task's entry.                                            *)
Working(r) ==
  /\ r.pc \in {"post", "doc", "count_inc", "inc"} => r.op = "put" /\ r.text # {}
  /\ r.pc \in {"retract", "post"} => r.todo # {}

(* A key's part of the index and of the entries; nothing is no terms.      *)
Doc(k) == IF k \in DOMAIN docs THEN docs[k] ELSE {}
Stored(k) == IndexedText(k)

Settled(I, D, M) == I = M /\ D = M

(* How far the one task on a key has come.                                 *)
Stage(r, I, D, M) ==
  /\ r.op = "put" => M = r.text
  /\ r.pc = "drop" => D = I
  /\ r.pc = "retract" => I = r.todo
  /\ r.pc = "undoc" => I = {}
  /\ r.pc \in {"count_dec", "dec", "delete"} => I = {} /\ D = {}
  /\ r.pc = "post" => D = {} /\ I = r.text \ r.todo /\ r.todo \subseteq r.text
  /\ r.pc = "doc" => D = {} /\ I = r.text
  /\ r.pc \in {"count_inc", "inc"} => I = r.text /\ D = r.text

On(r, k) == r.pc # "idle" /\ r.key = k

KeyOK(k) == k \notin mixed =>
  /\ \A v, w \in Writers : On(task[v], k) /\ On(task[w], k) => v = w
  /\ \A w \in Writers : On(task[w], k) => Stage(task[w], Indexed(k), Doc(k), Stored(k))
  /\ (\A w \in Writers : ~On(task[w], k)) => Settled(Indexed(k), Doc(k), Stored(k))

(* The inductive invariant.                                                *)
IInv ==
  /\ Types /\ Calling /\ miscount \in BOOLEAN /\ Counted
  /\ \A w \in Writers : Working(task[w])
  /\ \A k \in Keys : KeyOK(k)
-----------------------------------------------------------------------------
(* Counting                                                                *)

LEMMA TermsCount ==
  /\ T \in Nat
  /\ \A S \in Texts : Cardinality(S) \in Nat /\ Cardinality(S) <= T
<1>1. IsFiniteSet(Terms)
  BY SetsAssumption
<1>2. T \in Nat
  BY <1>1, FS_CardinalityType DEF T
<1>3. ASSUME NEW S \in Texts PROVE Cardinality(S) \in Nat /\ Cardinality(S) <= T
  <2>1. S \in SUBSET Terms
    BY DEF Texts
  <2>2. IsFiniteSet(S) /\ Cardinality(S) <= Cardinality(Terms)
    BY <1>1, <2>1, FS_Subset
  <2> QED
    BY <2>2, FS_CardinalityType DEF T
<1> QED
  BY <1>2, <1>3

LEMMA Times ==
  ASSUME NEW n \in Nat, NEW m \in Nat, NEW t \in Nat, n <= m
  PROVE  n * t \in Nat /\ n * t <= m * t /\ (n + 1) * t = n * t + t
OBVIOUS

LEMMA WithinMore ==
  ASSUME NEW n \in Nat, NEW m \in Nat, n <= m, NEW s \in Stats, Within(s, n)
  PROVE  Within(s, m)
<1>1. PICK t \in Nat : t = T
  BY TermsCount
<1>2. n * t \in Nat /\ m * t \in Nat /\ n * t <= m * t
  BY Times
<1>3. s.docs \in Nat /\ s.total_len \in Nat
  BY DEF Stats
<1> QED
  BY <1>1, <1>2, <1>3 DEF Within

(* Room never gets less, and a count makes room for one.                   *)
LEMMA RoomStep ==
  ASSUME IInv, NEW w \in Writers, NEW q \in Task, task' = [task EXCEPT ![w] = q],
         ops' \in 0..MaxOps, ops' = ops \/ ops' = ops + 1,
         Puts(q) /\ ~Puts(task[w]) => ops' = ops + 1
  PROVE  /\ Cardinality(Pending') \in 0..ops' /\ Room \in Nat /\ Room' \in Nat /\ Room <= Room'
         /\ Puts(task[w]) /\ ~Puts(q) => Room + 1 <= Room'
<1>1. PICK P, Q : P = Pending /\ Q = Pending'
  OBVIOUS
<1>2. task \in [Writers -> Task]
  BY DEF IInv, Types
<1>3. \A v \in Writers : task'[v] = IF v = w THEN q ELSE task[v]
  BY <1>2
<1>4. IsFiniteSet(P)
  <2>1. IsFiniteSet(Writers) /\ P \in SUBSET Writers
    BY <1>1, SetsAssumption DEF Pending
  <2> QED
    BY <2>1, FS_Subset
<1>5. PICK c \in Nat : c = Cardinality(P) /\ c <= ops /\ ops \in Nat
  BY <1>1, <1>4, FS_CardinalityType DEF IInv, Counted
<1>6. CASE Puts(q) /\ ~Puts(task[w])
  <2>1. Q = P \cup {w} /\ w \notin P
    BY <1>1, <1>3, <1>6 DEF Pending
  <2>2. Cardinality(Q) = c + 1
    BY <1>4, <1>5, <2>1, FS_AddElement
  <2> QED
    BY <1>1, <1>5, <1>6, <2>2 DEF Room
<1>7. CASE Puts(task[w]) /\ ~Puts(q)
  <2>1. Q = P \ {w} /\ w \in P
    BY <1>1, <1>3, <1>7 DEF Pending
  <2>2. Cardinality(Q) = c - 1 /\ IsFiniteSet(Q)
    BY <1>4, <1>5, <2>1, FS_RemoveElement
  <2>3. c - 1 \in Nat
    BY <2>2, FS_CardinalityType
  <2> QED
    BY <1>1, <1>5, <2>2, <2>3 DEF Room
<1>8. CASE Puts(task[w]) <=> Puts(q)
  <2>1. Q = P
    BY <1>1, <1>3, <1>8 DEF Pending
  <2> QED
    BY <1>1, <1>5, <1>8, <2>1 DEF Room
<1> QED
  BY <1>6, <1>7, <1>8

LEMMA CountedStep ==
  ASSUME IInv, NEW w \in Writers, NEW q \in Task, task' = [task EXCEPT ![w] = q],
         ops' \in 0..MaxOps, ops' = ops \/ ops' = ops + 1,
         Puts(q) /\ ~Puts(task[w]) => ops' = ops + 1,
         stats' \in Stats, Within(stats', Room) \/ Within(stats', Room'),
         Within(q.read, Room)
  PROVE  Counted'
<1>1. PICK m, n : m = Room /\ n = Room'
  OBVIOUS
<1>2. /\ Cardinality(Pending') \in 0..ops' /\ m \in Nat /\ n \in Nat /\ m <= n
  BY <1>1, RoomStep
<1>3. Within(stats', n)
  BY <1>1, <1>2, WithinMore
<1>4. ASSUME NEW v \in Writers PROVE Within(task'[v].read, n)
  <2>1. task'[v] = IF v = w THEN q ELSE task[v]
    BY DEF IInv, Types
  <2>2. Within(task'[v].read, m) /\ task'[v].read \in Stats
    BY <1>1, <2>1 DEF IInv, Counted, Types, Task
  <2> QED
    BY <1>2, <2>2, WithinMore
<1> QED
  BY <1>1, <1>2, <1>3, <1>4 DEF Counted
-----------------------------------------------------------------------------
(* A step of one task                                                      *)

LEMMA IdleTask ==
  Idle \in Task /\ Idle.pc = "idle" /\ Idle.read = NoStats /\ Working(Idle)
<1>1. (CHOOSE k \in Keys : TRUE) \in Keys
  BY SetsAssumption
<1>2. NoStats \in Stats /\ {} \in Texts
  BY DEF NoStats, Stats, Texts
<1> QED
  BY <1>1, <1>2 DEF Idle, Task, Working

LEMMA SomeLoop == NoCall \in Loop
<1>1. PICK k \in Keys : TRUE
  BY SetsAssumption
<1>2. k[1] \in Sessions
  BY <1>1 DEF Sessions
<1>3. (CHOOSE s \in Sessions : TRUE) \in Sessions
  BY <1>2
<1> QED
  BY <1>3 DEF NoCall, Loop

LEMMA NoneWithin ==
  ASSUME NEW n \in Nat PROVE Within(NoStats, n)
<1>1. PICK t \in Nat : t = T
  BY TermsCount
<1>2. n * t \in Nat
  BY Times
<1> QED
  BY <1>1, <1>2 DEF Within, NoStats

Same(j) == Indexed(j)' = Indexed(j) /\ Doc(j)' = Doc(j) /\ Stored(j)' = Stored(j)

(* Where a task and its key stand after a step.                            *)
Stands(q, I, D, M) == IF q.pc = "idle" THEN Settled(I, D, M) ELSE Stage(q, I, D, M)

(* A task that works on a key alone knows how far it has come.             *)
LEMMA Alone ==
  ASSUME IInv, NEW w \in Writers, task[w].pc # "idle", NEW k, k = task[w].key, k \notin mixed
  PROVE  /\ \A v \in Writers \ {w} : ~On(task[v], k)
         /\ Stage(task[w], Indexed(k), Doc(k), Stored(k))
<1>1. k \in Keys /\ On(task[w], k)
  BY DEF IInv, Types, Task, On
<1>2. KeyOK(k)
  BY <1>1 DEF IInv
<1> QED
  BY <1>1, <1>2 DEF KeyOK

LEMMA KeyStep ==
  ASSUME IInv, NEW w \in Writers, NEW q \in Task, task' = [task EXCEPT ![w] = q],
         NEW k \in Keys, q.pc # "idle" => q.key = k, task[w].pc # "idle" => task[w].key = k,
         mixed \subseteq mixed', \A j \in Keys \ {k} : Same(j),
         k \notin mixed' => /\ \A v \in Writers \ {w} : ~On(task[v], k)
                            /\ Stands(q, Indexed(k)', Doc(k)', Stored(k)')
  PROVE  \A j \in Keys : KeyOK(j)'
<1> TAKE j \in Keys
<1>1. \A v \in Writers : task'[v] = IF v = w THEN q ELSE task[v]
  BY DEF IInv, Types
<1>2. SUFFICES ASSUME j \notin mixed'
      PROVE /\ \A v, u \in Writers : On(task'[v], j) /\ On(task'[u], j) => v = u
            /\ \A v \in Writers : On(task'[v], j) => Stage(task'[v], Indexed(j)', Doc(j)', Stored(j)')
            /\ (\A v \in Writers : ~On(task'[v], j)) => Settled(Indexed(j)', Doc(j)', Stored(j)')
  BY DEF KeyOK, On
<1>3. CASE j = k
  <2>1. \A v \in Writers \ {w} : ~On(task'[v], k)
    BY <1>1, <1>2, <1>3
  <2>2. Stands(q, Indexed(k)', Doc(k)', Stored(k)')
    BY <1>2, <1>3
  <2>3. task'[w] = q /\ (On(q, k) <=> q.pc # "idle")
    BY <1>1 DEF On
  <2> QED
    BY <1>3, <2>1, <2>2, <2>3 DEF Stands
<1>4. CASE j # k
  <2>1. KeyOK(j) /\ j \notin mixed /\ Same(j)
    BY <1>2, <1>4 DEF IInv
  <2>2. \A v \in Writers : On(task'[v], j) <=> On(task[v], j)
    BY <1>1, <1>4 DEF On
  <2>3. \A v \in Writers : On(task[v], j) => task'[v] = task[v]
    BY <1>1, <1>4 DEF On
  <2> QED
    BY <2>1, <2>2, <2>3 DEF KeyOK, Same
<1> QED
  BY <1>3, <1>4

(* What is left of the invariant is the types.                             *)
LEMMA TaskStep ==
  ASSUME IInv, NEW w \in Writers, NEW q \in Task, task' = [task EXCEPT ![w] = q],
         Types', Calling', miscount' \in BOOLEAN, Counted', Working(q), \A j \in Keys : KeyOK(j)'
  PROVE  IInv'
<1>1. \A v \in Writers : Working(task'[v])
  <2>1. \A v \in Writers : task'[v] = IF v = w THEN q ELSE task[v]
    BY DEF IInv, Types
  <2> QED
    BY <2>1 DEF IInv
<1>2. (\A v \in Writers : Working(task[v]))'
  BY <1>1 DEF Working
<1> QED
  BY <1>2 DEF IInv
-----------------------------------------------------------------------------
(* An entry that is put and one that is removed                            *)

(* A key is claimed by nobody else, or is mixed.                           *)
LEMMA BeginStep ==
  ASSUME IInv, NEW w \in Writers, NEW k \in Keys, Begin(w, k)
  PROVE  /\ task[w].pc = "idle" /\ mixed' \subseteq Keys /\ mixed \subseteq mixed'
         /\ k \notin mixed' => /\ \A v \in Writers : ~On(task[v], k)
                               /\ Settled(Indexed(k), Doc(k), Stored(k))
<1>1. mixed' \subseteq Keys /\ mixed \subseteq mixed'
  BY DEF Begin, IInv, Types
<1>2. ASSUME k \notin mixed'
      PROVE  \A v \in Writers : ~On(task[v], k)
  BY <1>2 DEF Begin, Busy, On
<1>3. KeyOK(k)
  BY DEF IInv
<1> QED
  BY <1>1, <1>2, <1>3 DEF Begin, KeyOK

(* An operation is taken.                                                  *)
Takes == ops < MaxOps /\ ops' = ops + 1

LEMMA OpsStep ==
  ASSUME IInv, Takes \/ ops' = ops PROVE ops' \in 0..MaxOps /\ (ops' = ops \/ ops' = ops + 1)
<1>1. ops \in 0..MaxOps /\ MaxOps \in Nat
  BY OpsAssumption DEF IInv, Counted
<1> QED
  BY <1>1 DEF Takes

LEMMA FinitePlus ==
  ASSUME NEW S, NEW k, IsFiniteSet(S) PROVE IsFiniteSet(S \cup {k})
<1>1. IsFiniteSet({k})
  BY FS_Singleton
<1> QED
  BY <1>1, FS_Union

LEMMA PutTextStep ==
  ASSUME IInv, NEW w \in Writers, NEW k \in Keys, NEW text \in Texts, PutText(w, k, text),
         Calling'
  PROVE  IInv'
<1>1. PICK q : q = [Idle EXCEPT !.pc = "drop", !.key = k, !.text = text]
  OBVIOUS
<1>2. /\ q \in Task /\ q.pc = "drop" /\ q.key = k /\ q.text = text /\ q.op = "put"
      /\ q.read = NoStats
  <2>1. NoStats \in Stats /\ {} \in Texts
    BY DEF NoStats, Stats, Texts
  <2> QED
    BY <1>1, <2>1 DEF Idle, Task
<1>3. task' = [task EXCEPT ![w] = q] /\ Begin(w, k) /\ entries' = Put(entries, k, text)
      /\ left' = Without(left, k) /\ Takes
  BY <1>1 DEF PutText, Takes
<1>4. /\ task[w].pc = "idle" /\ mixed' \subseteq Keys /\ mixed \subseteq mixed'
      /\ k \notin mixed' => /\ \A v \in Writers : ~On(task[v], k)
                            /\ Settled(Indexed(k), Doc(k), Stored(k))
  BY <1>3, BeginStep
<1>4a. ops' \in 0..MaxOps /\ ops' = ops + 1
  BY <1>3, OpsStep DEF Takes
<1>5. postings' = postings /\ docs' = docs /\ stats' = stats /\ miscount' = miscount
  BY DEF PutText
<1>5a. /\ DOMAIN entries' = DOMAIN entries \cup {k} /\ entries'[k] = text
       /\ \A x \in DOMAIN entries \ {k} : entries'[x] = entries[x]
  BY <1>3 DEF Put
<1>5b. /\ DOMAIN left' = DOMAIN left \ {k}
       /\ \A x \in DOMAIN left \ {k} : left'[x] = left[x]
  BY <1>3 DEF Without, Restrict
<1>6. Types'
  <2>1. DOMAIN entries' \subseteq Keys /\ \A x \in DOMAIN entries' : entries'[x] \in Texts
    BY <1>5a DEF IInv, Types
  <2>2. task' \in [Writers -> Task]
    BY <1>2, <1>3 DEF IInv, Types
  <2>3. DOMAIN left' \subseteq DOMAIN entries' /\ \A x \in DOMAIN left' : left'[x] \in Texts \ {{}}
    BY <1>5a, <1>5b DEF IInv, Types
  <2>4. IsFiniteSet(DOMAIN entries')
    <3>1. PICK S : S = DOMAIN entries /\ IsFiniteSet(S)
      BY DEF IInv, Types
    <3>2. IsFiniteSet(S \cup {k})
      BY <3>1, FinitePlus
    <3> QED
      BY <1>5a, <3>1, <3>2
  <2> QED
    BY <1>4, <1>5, <2>1, <2>2, <2>3, <2>4 DEF IInv, Types, Stats, Task, Texts
<1>7. Counted'
  <2>1. Room \in Nat
    BY <1>2, <1>3, <1>4, <1>4a, RoomStep
  <2>2. Within(q.read, Room)
    BY <1>2, <2>1, NoneWithin
  <2>3. Within(stats', Room) /\ stats' \in Stats
    BY <1>5 DEF IInv, Types, Counted
  <2> QED
    BY <1>2, <1>3, <1>4, <1>4a, <2>2, <2>3, CountedStep
<1>8. Working(q)
  BY <1>2 DEF Working
<1>9. \A j \in Keys : KeyOK(j)'
  <2>1. \A j \in Keys : Indexed(j)' = Indexed(j) /\ Doc(j)' = Doc(j)
    BY <1>5 DEF Indexed, Doc
  <2>2. \A j \in Keys \ {k} : Stored(j)' = Stored(j)
    BY <1>5a, <1>5b DEF Stored, IndexedText
  <2>3. Stored(k)' = text
    BY <1>5a, <1>5b DEF Stored, IndexedText
  <2>4. k \notin mixed' => Stands(q, Indexed(k)', Doc(k)', Stored(k)')
    BY <1>2, <1>4, <2>1, <2>3 DEF Stands, Settled, Stage
  <2> QED
    BY <1>2, <1>3, <1>4, <2>1, <2>2, <2>4, KeyStep DEF Same
<1> QED
  BY <1>2, <1>3, <1>5, <1>6, <1>7, <1>8, <1>9, TaskStep DEF IInv

LEMMA RemoveTextStep ==
  ASSUME IInv, NEW w \in Writers, NEW k \in Keys, RemoveText(w, k), Takes \/ ops' = ops, Calling'
  PROVE  IInv'
<1>1. PICK q : q = [Idle EXCEPT !.pc = "drop", !.op = "remove", !.key = k]
  OBVIOUS
<1>2. q \in Task /\ q.pc = "drop" /\ q.key = k /\ q.op = "remove" /\ q.read = NoStats
  <2>1. NoStats \in Stats /\ {} \in Texts
    BY DEF NoStats, Stats, Texts
  <2> QED
    BY <1>1, <2>1 DEF Idle, Task
<1>3. task' = [task EXCEPT ![w] = q] /\ Begin(w, k)
  BY <1>1 DEF RemoveText
<1>4. /\ task[w].pc = "idle" /\ mixed' \subseteq Keys /\ mixed \subseteq mixed'
      /\ k \notin mixed' => /\ \A v \in Writers : ~On(task[v], k)
                            /\ Settled(Indexed(k), Doc(k), Stored(k))
  BY <1>3, BeginStep
<1>4a. ops' \in 0..MaxOps /\ (ops' = ops \/ ops' = ops + 1)
  BY <1>3, OpsStep
<1>5. /\ entries' = entries /\ left' = left /\ postings' = postings /\ docs' = docs /\ stats' = stats
      /\ miscount' = miscount
  BY DEF RemoveText
<1>6. Types'
  <2>2. task' \in [Writers -> Task]
    BY <1>2, <1>3 DEF IInv, Types
  <2> QED
    BY <1>4, <1>5, <2>2 DEF IInv, Types, Stats, Task, Texts
<1>7. Counted'
  <2>1. Room \in Nat
    BY <1>2, <1>3, <1>4, <1>4a, RoomStep DEF Puts
  <2>2. Within(q.read, Room)
    BY <1>2, <2>1, NoneWithin
  <2>3. Within(stats', Room) /\ stats' \in Stats
    BY <1>5 DEF IInv, Types, Counted
  <2> QED
    BY <1>2, <1>3, <1>4, <1>4a, <2>2, <2>3, CountedStep DEF Puts
<1>8. Working(q)
  BY <1>2 DEF Working
<1>9. \A j \in Keys : KeyOK(j)'
  <2>1. \A j \in Keys : Same(j)
    BY <1>5 DEF Indexed, Doc, Stored, IndexedText, Same
  <2>2. k \notin mixed' => Stands(q, Indexed(k)', Doc(k)', Stored(k)')
    BY <1>2, <1>4, <2>1 DEF Stands, Settled, Stage, Same
  <2> QED
    BY <1>2, <1>3, <1>4, <2>1, <2>2, KeyStep
<1> QED
  BY <1>2, <1>3, <1>5, <1>6, <1>7, <1>8, <1>9, TaskStep DEF IInv
-----------------------------------------------------------------------------
(* put_memory and remove_memory, and the loops over messages               *)

LEMMA MemoryStep ==
  ASSUME IInv, NEW w \in Writers, NEW k \in Keys,
         RemoveMemory(w, k) \/ \E text \in Texts : PutMemory(w, k, text)
  PROVE  IInv'
<1>1. Calling'
  BY DEF RemoveMemory, PutMemory, calls, IInv, Calling, Loop
<1> QED
  BY <1>1, PutTextStep, RemoveTextStep DEF RemoveMemory, PutMemory, Takes

(* What a loop may rely on of where it is.                                 *)
LEMMA LoopFacts ==
  ASSUME IInv, NEW w \in Writers
  PROVE  /\ call \in [Writers -> Loop] /\ call[w].session \in Sessions /\ call[w].next \in Nat
         /\ call[w].rest \subseteq Keys /\ call[w].op \in {"none", "read", "append", "truncate"}
<1>1. call \in [Writers -> Loop] /\ call[w] \in Loop
  BY DEF IInv, Calling
<1> QED
  BY <1>1 DEF Loop

LEMMA AdvanceStep ==
  ASSUME IInv, NEW w \in Writers, Advance(w), index' = index, count' = count PROVE Calling'
<1>1. PICK c, n, q : c = call[w] /\ n = c.next + 1 /\ q = [c EXCEPT !.op = "append", !.next = n]
  OBVIOUS
<1>2. c \in Loop
  BY <1>1 DEF IInv, Calling
<1>5. n \in Nat
  BY <1>1, <1>2 DEF Loop
<1>3. q \in Loop
  BY <1>1, <1>2, <1>5 DEF Loop
<1>4. call' = [call EXCEPT ![w] = q]
  BY <1>1 DEF Advance, IInv, Calling
<1> QED
  BY <1>3, <1>4 DEF IInv, Calling, Loop

LEMMA PutMessageStep ==
  ASSUME IInv, NEW w \in Writers, NEW text \in Texts, PutMessage(w, text) PROVE IInv'
<1>1. PICK k : k = <<call[w].session, call[w].next>>
  OBVIOUS
<1>2. k \in Keys /\ PutText(w, k, text)
  BY <1>1 DEF PutMessage
<1>3. Advance(w) /\ index' = index /\ count' = count
  BY DEF PutMessage
<1>4. Calling'
  BY <1>3, AdvanceStep
<1> QED
  BY <1>2, <1>4, PutTextStep

LEMMA DropMessageStep ==
  ASSUME IInv, NEW w \in Writers, DropMessage(w) PROVE IInv'
<1>1. PICK k \in call[w].rest : RemoveText(w, k) /\ call' = [call EXCEPT ![w].rest = @ \ {k}]
  BY DEF DropMessage
<1>2. k \in Keys
  BY <1>1, LoopFacts
<1>3. PICK c, q : c = call[w] /\ q = [c EXCEPT !.rest = c.rest \ {k}]
  OBVIOUS
<1>4. q \in Loop
  BY <1>3 DEF IInv, Calling, Loop
<1>5. call' = [call EXCEPT ![w] = q]
  BY <1>1, <1>3 DEF IInv, Calling
<1>6. Calling'
  BY <1>4, <1>5 DEF DropMessage, IInv, Calling, Loop
<1>7. ops' = ops
  BY DEF DropMessage
<1> QED
  BY <1>1, <1>2, <1>6, <1>7, RemoveTextStep

(* A step of a loop that leaves the index and what it is to hold.          *)
LEMMA LoopStep ==
  ASSUME IInv, Types', Calling', UNCHANGED <<postings, docs, stats, task, miscount>>,
         mixed \subseteq mixed', Takes \/ ops' = ops, \A j \in Keys : Stored(j)' = Stored(j)
  PROVE  IInv'
<1>1. postings' = postings /\ docs' = docs /\ stats' = stats /\ task' = task /\ miscount' = miscount
  OBVIOUS
<1>2. Counted'
  <2>1. ops' \in 0..MaxOps /\ (ops' = ops \/ ops' = ops + 1)
    BY OpsStep
  <2>2. PICK c, m, n : c = Cardinality(Pending) /\ m = Room /\ n = Room'
    OBVIOUS
  <2>3. Cardinality(Pending') = c
    BY <1>1, <2>2 DEF Pending, Puts
  <2>4. ops \in Nat /\ c \in 0..ops /\ m = ops - c /\ n = ops' - c
    <3>1. ops \in 0..MaxOps /\ c \in 0..ops
      BY <2>2 DEF IInv, Counted
    <3> QED
      BY <2>2, <2>3, <3>1 DEF Room
  <2>5. m \in Nat /\ n \in Nat /\ m <= n /\ c \in 0..ops'
    <3>1. PICK a, b : a = ops /\ b = ops'
      OBVIOUS
    <3>2. a \in Nat /\ c \in 0..a /\ m = a - c /\ n = b - c /\ (b = a \/ b = a + 1)
      BY <2>1, <2>4, <3>1
    <3>3. c \in Nat /\ c <= a /\ a <= b
      BY <3>2
    <3>4. m \in Nat /\ n \in Nat /\ m <= n /\ c \in 0..b
      BY <3>2, <3>3
    <3> QED
      BY <3>1, <3>4
  <2>6. stats \in Stats /\ Within(stats, m)
    BY <2>2 DEF IInv, Types, Counted
  <2>7. \A w \in Writers : task[w].read \in Stats /\ Within(task[w].read, m)
    BY <2>2 DEF IInv, Types, Task, Counted
  <2>8. Within(stats, n) /\ \A w \in Writers : Within(task[w].read, n)
    BY <2>5, <2>6, <2>7, WithinMore
  <2> QED
    BY <1>1, <2>1, <2>2, <2>3, <2>5, <2>8 DEF Counted
<1>3. ASSUME NEW k \in Keys PROVE KeyOK(k)'
  <2>1. Same(k) /\ KeyOK(k)
    BY <1>1 DEF Same, Indexed, Doc, IInv
  <2> QED
    BY <1>1, <2>1 DEF KeyOK, Same, On
<1>4. (\A w \in Writers : Working(task[w]))'
  BY <1>1 DEF IInv, Working
<1>5. miscount' \in BOOLEAN
  BY <1>1 DEF IInv
<1> QED
  BY <1>2, <1>3, <1>4, <1>5 DEF IInv

LEMMA CallStep ==
  ASSUME IInv, NEW w \in Writers, NEW s \in Sessions, NEW c \in Loop, Call(w, s, c),
         Takes \/ ops' = ops
  PROVE  IInv'
<1>1. /\ index' = index /\ count' = count /\ call' = [call EXCEPT ![w] = c]
      /\ entries' = entries /\ left' = left /\ docs' = docs /\ postings' = postings
      /\ stats' = stats /\ task' = task /\ miscount' = miscount
  BY DEF Call
<1>2. mixed' \subseteq Keys /\ mixed \subseteq mixed'
  BY DEF Call, IInv, Types
<1>3. Calling'
  BY <1>1 DEF IInv, Calling, Loop
<1>4. Types'
  BY <1>1, <1>2 DEF IInv, Types, Stats, Task, Texts
<1>5. \A j \in Keys : Stored(j)' = Stored(j)
  BY <1>1 DEF Stored, IndexedText
<1> QED
  BY <1>1, <1>2, <1>3, <1>4, <1>5, LoopStep

LEMMA AppendMessagesStep ==
  ASSUME IInv, NEW w \in Writers, NEW s \in Sessions, AppendMessages(w, s) PROVE IInv'
<1>1. PICK c : c = [op |-> "read", session |-> s, next |-> count[s], rest |-> {}]
  OBVIOUS
<1>2. c \in Loop
  BY <1>1 DEF IInv, Calling, Loop
<1>3. Call(w, s, c) /\ ops' = ops
  BY <1>1 DEF AppendMessages
<1> QED
  BY <1>2, <1>3, CallStep

LEMMA TruncateMessagesStep ==
  ASSUME IInv, NEW w \in Writers, NEW s \in Sessions, NEW keep \in Nat, TruncateMessages(w, s, keep)
  PROVE  IInv'
<1>1. PICK S, n : /\ S = {k \in DOMAIN entries : SessionOf(k) = s}
                  /\ n = IF keep < Cardinality(S) THEN keep ELSE Cardinality(S)
  OBVIOUS
<1>2. n \in Nat
  <2>1. S \in SUBSET DOMAIN entries /\ IsFiniteSet(DOMAIN entries)
    BY <1>1 DEF IInv, Types
  <2>2. Cardinality(S) \in Nat
    BY <2>1, FS_Subset, FS_CardinalityType
  <2> QED
    BY <1>1, <2>2
<1>3. PICK R : R = {k \in S : Cut(keep, Line(entries, k))}
  OBVIOUS
<1>4. R \subseteq Keys
  BY <1>1, <1>3 DEF IInv, Types
<1>5. PICK c : c = [op |-> "truncate", session |-> s, next |-> n, rest |-> R]
  OBVIOUS
<1>6. c \in Loop
  BY <1>2, <1>4, <1>5 DEF Loop
<1>7. Call(w, s, c) /\ Takes
  BY <1>1, <1>3, <1>5 DEF TruncateMessages, Takes
<1> QED
  BY <1>6, <1>7, CallStep

(* A message that is not indexable changes nothing about what the index    *)
(* is to hold for its key.                                                 *)
LEMMA HideMessageStep ==
  ASSUME IInv, NEW w \in Writers, HideMessage(w) PROVE IInv'
<1>1. PICK k : k = <<call[w].session, call[w].next>>
  OBVIOUS
<1>2. /\ k \in Keys /\ Takes /\ entries' = Put(entries, k, {})
      /\ left' = IF IndexedText(k) = {} THEN left ELSE Put(left, k, IndexedText(k))
      /\ postings' = postings /\ docs' = docs /\ stats' = stats /\ task' = task
      /\ miscount' = miscount /\ mixed' = mixed
  BY <1>1 DEF HideMessage, Takes
<1>3. Calling'
  <2>1. Advance(w) /\ index' = index /\ count' = count
    BY DEF HideMessage
  <2> QED
    BY <2>1, AdvanceStep
<1>4. /\ DOMAIN entries' = DOMAIN entries \cup {k} /\ entries'[k] = {}
      /\ \A x \in DOMAIN entries \ {k} : entries'[x] = entries[x]
  BY <1>2 DEF Put
<1>5. PICK I : I = IndexedText(k)
  OBVIOUS
<1>6. I \in Texts
  BY <1>5 DEF IndexedText, IInv, Types, Texts
<1>7. /\ I = {} => left' = left
      /\ I # {} => /\ DOMAIN left' = DOMAIN left \cup {k} /\ left'[k] = I
                   /\ \A x \in DOMAIN left \ {k} : left'[x] = left[x]
  BY <1>2, <1>5 DEF Put
<1>8. \A j \in Keys : Stored(j)' = Stored(j)
  <2>1. ASSUME NEW j \in Keys, j # k PROVE Stored(j)' = Stored(j)
    <3>1. (j \in DOMAIN entries' <=> j \in DOMAIN entries) /\ (j \in DOMAIN left' <=> j \in DOMAIN left)
      BY <1>4, <1>7, <2>1
    <3>2. /\ j \in DOMAIN entries => entries'[j] = entries[j]
          /\ j \in DOMAIN left => left'[j] = left[j]
      BY <1>4, <1>7, <2>1
    <3> QED
      BY <3>1, <3>2 DEF Stored, IndexedText
  <2>2. Stored(k)' = Stored(k)
    <3>1. CASE I = {}
      <4>1. k \notin DOMAIN left
        BY <1>5, <3>1 DEF IndexedText, IInv, Types
      <4> QED
        BY <1>4, <1>5, <1>7, <3>1, <4>1 DEF Stored, IndexedText
    <3>2. CASE I # {}
      BY <1>5, <1>7, <3>2 DEF Stored, IndexedText
    <3> QED
      BY <3>1, <3>2
  <2> QED
    BY <2>1, <2>2
<1>9. Types'
  <2>1. DOMAIN entries' \subseteq Keys /\ \A x \in DOMAIN entries' : entries'[x] \in Texts
    <3>1. {} \in Texts
      BY DEF Texts
    <3> QED
      BY <1>2, <1>4, <3>1 DEF IInv, Types
  <2>2. IsFiniteSet(DOMAIN entries')
    <3>1. PICK S : S = DOMAIN entries /\ IsFiniteSet(S)
      BY DEF IInv, Types
    <3>2. IsFiniteSet(S \cup {k})
      BY <3>1, FinitePlus
    <3> QED
      BY <1>4, <3>1, <3>2
  <2>3. DOMAIN left' \subseteq DOMAIN entries' /\ \A x \in DOMAIN left' : left'[x] \in Texts \ {{}}
    BY <1>4, <1>6, <1>7 DEF IInv, Types
  <2> QED
    BY <1>2, <2>1, <2>2, <2>3 DEF IInv, Types, Stats, Task
<1> QED
  BY <1>2, <1>3, <1>8, <1>9, LoopStep

LEMMA WriteCountStep ==
  ASSUME IInv, NEW w \in Writers, WriteCount(w) PROVE IInv'
<1>1. /\ index' = index /\ entries' = entries /\ left' = left /\ docs' = docs
      /\ postings' = postings /\ stats' = stats /\ task' = task /\ miscount' = miscount
      /\ mixed' = mixed /\ ops' = ops
  BY DEF WriteCount
<1>2. PICK s \in Sessions, n \in Nat : s = call[w].session /\ n = call[w].next
  BY LoopFacts
<1>3. count' \in [Sessions -> Nat]
  <2>1. count' = [count EXCEPT ![s] = n]
    BY <1>2 DEF WriteCount
  <2> QED
    BY <2>1 DEF IInv, Calling
<1>4. NoCall \in Loop
  BY SomeLoop
<1>5. call' \in [Writers -> Loop]
  <2>1. call' = [call EXCEPT ![w] = NoCall]
    BY DEF WriteCount
  <2> QED
    BY <1>4, <2>1 DEF IInv, Calling
<1>6. Calling'
  BY <1>1, <1>3, <1>5 DEF IInv, Calling, Loop
<1>7. Types'
  BY <1>1 DEF IInv, Types, Stats, Task, Texts
<1>8. \A j \in Keys : Stored(j)' = Stored(j)
  BY <1>1 DEF Stored, IndexedText
<1> QED
  BY <1>1, <1>6, <1>7, <1>8, LoopStep

(* A step of a loop over the messages of a session.                        *)
Looping(w) ==
  \/ \E s \in Sessions : AppendMessages(w, s) \/ \E k \in Keys : TruncateMessages(w, s, PositionOf(k))
  \/ \E text \in Texts : PutMessage(w, text)
  \/ HideMessage(w) \/ DropMessage(w) \/ WriteCount(w)

LEMMA LoopingStep ==
  ASSUME IInv, NEW w \in Writers, Looping(w) PROVE IInv'
<1>1. ASSUME NEW s \in Sessions, NEW k \in Keys, TruncateMessages(w, s, PositionOf(k)) PROVE IInv'
  <2>1. PICK keep \in Nat : keep = PositionOf(k)
    BY KeysAssumption DEF PositionOf
  <2> QED
    BY <1>1, <2>1, TruncateMessagesStep
<1> QED
  BY <1>1, AppendMessagesStep, PutMessageStep, HideMessageStep, DropMessageStep, WriteCountStep
     DEF Looping

-----------------------------------------------------------------------------
(* The steps of a task under way                                           *)

(* A step of a task that has begun: it takes no operation, and what it     *)
(* does to its own key is as far as the task then is.                      *)
LEMMA WorkStep ==
  ASSUME IInv, NEW w \in Writers, NEW r, r = task[w], r.pc # "idle", Quiet,
         NEW q \in Task, task' = [task EXCEPT ![w] = q], Working(q),
         q.pc # "idle" => q.key = r.key, Puts(q) => Puts(r),
         Types', miscount' \in BOOLEAN,
         Within(stats', Room) \/ (~Puts(q) /\ Puts(r) /\ Within(stats', Room + 1)),
         Within(q.read, Room),
         \A j \in Keys \ {r.key} : Same(j),
         Stage(r, Indexed(r.key), Doc(r.key), Stored(r.key))
            => Stands(q, Indexed(r.key)', Doc(r.key)', Stored(r.key)')
  PROVE  IInv'
<1>1. mixed' = mixed /\ ops' = ops /\ ops \in 0..MaxOps
  BY DEF Quiet, IInv, Counted
<1>2. PICK k \in Keys : k = r.key
  BY DEF IInv, Types, Task
<1>3. k \notin mixed' => /\ \A v \in Writers \ {w} : ~On(task[v], k)
                         /\ Stands(q, Indexed(k)', Doc(k)', Stored(k)')
  BY <1>1, <1>2, Alone
<1>4. \A j \in Keys : KeyOK(j)'
  BY <1>1, <1>2, <1>3, KeyStep
<1>5. stats' \in Stats
  BY DEF Types, Stats
<1>6. Room \in Nat /\ Room' \in Nat /\ (Puts(r) /\ ~Puts(q) => Room + 1 <= Room')
  BY <1>1, RoomStep
<1>7. Within(stats', Room) \/ Within(stats', Room')
  <2>1. CASE Within(stats', Room)
    BY <2>1
  <2>2. CASE ~Puts(q) /\ Puts(r) /\ Within(stats', Room + 1)
    <3>1. PICK m, n : m = Room + 1 /\ n = Room'
      OBVIOUS
    <3>2. m \in Nat /\ n \in Nat /\ m <= n /\ Within(stats', m)
      BY <1>6, <2>2, <3>1
    <3> QED
      BY <1>5, <3>1, <3>2, WithinMore
  <2> QED
    BY <2>1, <2>2
<1>8. Counted'
  BY <1>1, <1>5, <1>7, CountedStep
<1>9. Calling'
  BY DEF Quiet, calls, IInv, Calling, Loop
<1> QED
  BY <1>4, <1>8, <1>9, TaskStep

(* What a task may rely on of itself.                                      *)
LEMMA TaskFacts ==
  ASSUME IInv, NEW w \in Writers
  PROVE  /\ task[w] \in Task /\ Working(task[w]) /\ Within(task[w].read, Room)
         /\ Within(stats, Room) /\ stats \in Stats /\ Room \in Nat
<1>1. task[w] \in Task /\ Working(task[w]) /\ Within(task[w].read, Room)
      /\ Within(stats, Room) /\ stats \in Stats
  BY DEF IInv, Types, Counted
<1>2. ops \in Nat /\ Cardinality(Pending) \in 0..ops
  BY DEF IInv, Counted
<1> QED
  BY <1>1, <1>2 DEF Room

LEMMA DeleteEntryStep ==
  ASSUME IInv, NEW w \in Writers, DeleteEntry(w)
  PROVE  IInv'
<1>1. PICK r : r = task[w]
  OBVIOUS
<1>2. /\ r \in Task /\ r.pc = "delete" /\ Quiet /\ task' = [task EXCEPT ![w] = Idle]
      /\ entries' = Without(entries, r.key) /\ left' = Without(left, r.key)
      /\ postings' = postings /\ docs' = docs /\ stats' = stats /\ miscount' = miscount
  BY <1>1, TaskFacts DEF DeleteEntry, Finish
<1>3. /\ DOMAIN entries' = DOMAIN entries \ {r.key}
      /\ \A x \in DOMAIN entries \ {r.key} : entries'[x] = entries[x]
      /\ DOMAIN left' = DOMAIN left \ {r.key}
      /\ \A x \in DOMAIN left \ {r.key} : left'[x] = left[x]
  BY <1>2 DEF Without, Restrict
<1>4. Types'
  <2>1. DOMAIN entries' \subseteq Keys /\ \A x \in DOMAIN entries' : entries'[x] \in Texts
    BY <1>3 DEF IInv, Types
  <2>2. task' \in [Writers -> Task] /\ mixed' = mixed
    BY <1>2, IdleTask DEF IInv, Types, Quiet
  <2>3. DOMAIN left' \subseteq DOMAIN entries' /\ \A x \in DOMAIN left' : left'[x] \in Texts \ {{}}
    BY <1>3 DEF IInv, Types
  <2>4. IsFiniteSet(DOMAIN entries')
    <3>1. DOMAIN entries' \in SUBSET DOMAIN entries /\ IsFiniteSet(DOMAIN entries)
      BY <1>3 DEF IInv, Types
    <3> QED
      BY <3>1, FS_Subset
  <2> QED
    BY <1>2, <2>1, <2>2, <2>3, <2>4 DEF IInv, Types, Stats, Task, Texts
<1>5. /\ \A j \in Keys \ {r.key} : Same(j)
      /\ Indexed(r.key)' = Indexed(r.key) /\ Doc(r.key)' = Doc(r.key) /\ Stored(r.key)' = {}
  BY <1>2, <1>3 DEF Same, Indexed, Doc, Stored, IndexedText
<1>6. Stage(r, Indexed(r.key), Doc(r.key), Stored(r.key))
        => Stands(Idle, Indexed(r.key)', Doc(r.key)', Stored(r.key)')
  BY <1>2, <1>5, IdleTask DEF Stage, Stands, Settled
<1>7. Within(Idle.read, Room) /\ Within(stats', Room)
  BY <1>2, IdleTask, NoneWithin, TaskFacts
<1>8. ~Puts(Idle) /\ miscount' \in BOOLEAN
  BY <1>2, IdleTask DEF Puts, IInv
<1> QED
  BY <1>1, <1>2, <1>4, <1>5, <1>6, <1>7, <1>8, IdleTask, WorkStep

(* Where drop_text leaves a task, its record read.                         *)
Dropped(r) ==
  IF r.op = "remove" THEN [r EXCEPT !.pc = "delete"]
  ELSE IF r.text = {} THEN Idle
  ELSE [r EXCEPT !.pc = "post", !.todo = r.text]

LEMMA DroppedTask ==
  ASSUME NEW r \in Task, r.pc # "idle", NEW n \in Nat, Within(r.read, n)
  PROVE  /\ Dropped(r) \in Task /\ Working(Dropped(r)) /\ Within(Dropped(r).read, n)
         /\ Dropped(r).pc # "idle" => Dropped(r).key = r.key
         /\ Puts(Dropped(r)) => Puts(r)
         /\ \A M : (r.op = "put" => M = r.text) => Stands(Dropped(r), {}, {}, M)
<1>1. r.op \in {"put", "remove"} /\ r.text \in Texts
  BY DEF Task
<1>2. CASE r.op = "remove"
  <2>1. PICK q : q = [r EXCEPT !.pc = "delete"]
    OBVIOUS
  <2>2. /\ q \in Task /\ q.pc = "delete" /\ q.op = "remove" /\ q.key = r.key /\ q.read = r.read
    BY <1>2, <2>1 DEF Task
  <2>3. Dropped(r) = q
    BY <1>2, <2>1 DEF Dropped
  <2> QED
    BY <2>2, <2>3 DEF Working, Puts, Stands, Stage
<1>3. CASE r.op = "put" /\ r.text = {}
  <2>1. Dropped(r) = Idle
    BY <1>3 DEF Dropped
  <2> QED
    BY <1>3, <2>1, IdleTask, NoneWithin DEF Puts, Stands, Settled
<1>4. CASE r.op = "put" /\ r.text # {}
  <2>1. PICK q : q = [r EXCEPT !.pc = "post", !.todo = r.text]
    OBVIOUS
  <2>2. /\ q \in Task /\ q.pc = "post" /\ q.op = "put" /\ q.key = r.key /\ q.read = r.read
        /\ q.text = r.text /\ q.todo = r.text
    BY <1>1, <1>4, <2>1 DEF Task
  <2>3. Dropped(r) = q
    BY <1>4, <2>1 DEF Dropped
  <2>4. Working(q) /\ (Puts(q) => Puts(r))
    BY <1>4, <2>2 DEF Working, Puts
  <2>5. \A M : M = r.text => Stands(q, {}, {}, M)
    BY <2>2 DEF Stands, Stage
  <2> QED
    BY <1>4, <2>2, <2>3, <2>4, <2>5
<1> QED
  BY <1>1, <1>2, <1>3, <1>4

LEMMA AfterDropTask ==
  ASSUME IInv, NEW w \in Writers
  PROVE  AfterDrop(w) = [task EXCEPT ![w] = Dropped(task[w])]
<1>1. task \in [Writers -> Task] /\ task[w] \in Task
  BY DEF IInv, Types
<1> QED
  BY <1>1 DEF AfterDrop, Dropped
-----------------------------------------------------------------------------
(* drop_text                                                               *)

LEMMA DropLoadStep ==
  ASSUME IInv, NEW w \in Writers, DropLoad(w)
  PROVE  IInv'
<1>1. PICK r : r = task[w]
  OBVIOUS
<1>2. /\ r \in Task /\ r.pc = "drop" /\ Quiet /\ Within(r.read, Room) /\ Room \in Nat
      /\ entries' = entries /\ left' = left /\ postings' = postings /\ docs' = docs /\ stats' = stats
      /\ miscount' = miscount
  BY <1>1, TaskFacts DEF DropLoad
<1>3. \A j : Same(j)
  BY <1>2 DEF Same, Indexed, Doc, Stored, IndexedText
<1>4. Within(stats', Room) /\ miscount' \in BOOLEAN
  BY <1>2, TaskFacts DEF IInv
<1>5. ASSUME NEW q \in Task, task' = [task EXCEPT ![w] = q] PROVE Types'
  <2>1. task' \in [Writers -> Task] /\ mixed' = mixed
    BY <1>2, <1>5 DEF IInv, Types, Quiet
  <2> QED
    BY <1>2, <2>1 DEF IInv, Types, Stats, Task, Texts
<1>6. CASE r.key \in DOMAIN docs
  <2>1. PICK q : q = [r EXCEPT !.pc = "retract", !.todo = docs[r.key], !.doc = docs[r.key]]
    OBVIOUS
  <2>2. task' = [task EXCEPT ![w] = q]
    BY <1>1, <1>6, <2>1 DEF DropLoad, IInv, Types
  <2>3. docs[r.key] \in Texts \ {{}}
    BY <1>6 DEF IInv, Types
  <2>4. /\ q \in Task /\ q.pc = "retract" /\ q.key = r.key /\ q.op = r.op /\ q.read = r.read
        /\ q.todo = docs[r.key] /\ q.text = r.text
    BY <1>2, <2>1, <2>3 DEF Task
  <2>5. Working(q) /\ (Puts(q) => Puts(r))
    BY <1>2, <2>3, <2>4 DEF Working, Puts
  <2>6. Doc(r.key) = docs[r.key]
    BY <1>6 DEF Doc
  <2>7. Stage(r, Indexed(r.key), Doc(r.key), Stored(r.key))
          => Stands(q, Indexed(r.key)', Doc(r.key)', Stored(r.key)')
    BY <1>2, <1>3, <2>4, <2>6 DEF Stage, Stands, Same
  <2>8. Types'
    BY <1>5, <2>2, <2>4
  <2> QED
    BY <1>1, <1>2, <1>3, <1>4, <2>2, <2>4, <2>5, <2>7, <2>8, WorkStep
<1>7. CASE r.key \notin DOMAIN docs
  <2>1. PICK q : q = Dropped(r)
    OBVIOUS
  <2>2. task' = [task EXCEPT ![w] = q]
    BY <1>1, <1>7, <2>1, AfterDropTask DEF DropLoad
  <2>3. /\ q \in Task /\ Working(q) /\ Within(q.read, Room)
        /\ q.pc # "idle" => q.key = r.key
        /\ Puts(q) => Puts(r)
        /\ \A M : (r.op = "put" => M = r.text) => Stands(q, {}, {}, M)
    BY <1>2, <2>1, DroppedTask
  <2>4. Doc(r.key) = {}
    BY <1>7 DEF Doc
  <2>5. Stage(r, Indexed(r.key), Doc(r.key), Stored(r.key))
          => Stands(q, Indexed(r.key)', Doc(r.key)', Stored(r.key)')
    BY <1>2, <1>3, <2>3, <2>4 DEF Stage, Same
  <2>6. Types'
    BY <1>5, <2>2, <2>3
  <2> QED
    BY <1>1, <1>2, <1>3, <1>4, <2>2, <2>3, <2>5, <2>6, WorkStep
<1> QED
  BY <1>6, <1>7

LEMMA RetractStep ==
  ASSUME IInv, NEW w \in Writers, NEW t \in Terms, Retract(w, t)
  PROVE  IInv'
<1>1. PICK r : r = task[w]
  OBVIOUS
<1>2. /\ r \in Task /\ r.pc = "retract" /\ t \in r.todo /\ Quiet /\ Within(r.read, Room)
      /\ postings' = postings \ {<<t, r.key>>} /\ entries' = entries /\ left' = left /\ docs' = docs
      /\ stats' = stats /\ miscount' = miscount
  BY <1>1, TaskFacts DEF Retract
<1>3. PICK q : q = [r EXCEPT !.todo = r.todo \ {t},
                             !.pc = IF r.todo = {t} THEN "undoc" ELSE "retract"]
  OBVIOUS
<1>4. task' = [task EXCEPT ![w] = q]
  BY <1>1, <1>3 DEF Retract, IInv, Types
<1>5. r.todo \ {t} \in Texts
  BY <1>2 DEF Task, Texts
<1>6. /\ q \in Task /\ q.pc = (IF r.todo = {t} THEN "undoc" ELSE "retract")
      /\ q.key = r.key /\ q.op = r.op /\ q.read = r.read /\ q.text = r.text
      /\ q.todo = r.todo \ {t}
  BY <1>2, <1>3, <1>5 DEF Task
<1>7. Working(q) /\ (Puts(q) => Puts(r)) /\ q.pc # "idle"
  BY <1>2, <1>6 DEF Working, Puts
<1>8. \A j \in Keys \ {r.key} : Same(j)
  BY <1>2 DEF Same, Indexed, Doc, Stored, IndexedText
<1>9. /\ Indexed(r.key)' = Indexed(r.key) \ {t} /\ Doc(r.key)' = Doc(r.key)
      /\ Stored(r.key)' = Stored(r.key)
  BY <1>2 DEF Indexed, Doc, Stored, IndexedText
<1>10. Stage(r, Indexed(r.key), Doc(r.key), Stored(r.key))
         => Stands(q, Indexed(r.key)', Doc(r.key)', Stored(r.key)')
  BY <1>2, <1>6, <1>9 DEF Stage, Stands
<1>11. Types'
  <2>1. task' \in [Writers -> Task] /\ mixed' = mixed /\ postings' \subseteq Terms \X Keys
    BY <1>2, <1>4, <1>6 DEF IInv, Types, Quiet
  <2> QED
    BY <1>2, <2>1 DEF IInv, Types, Stats, Task, Texts
<1>12. Within(stats', Room) /\ miscount' \in BOOLEAN
  BY <1>2, TaskFacts DEF IInv
<1> QED
  BY <1>1, <1>2, <1>4, <1>6, <1>7, <1>8, <1>10, <1>11, <1>12, WorkStep

LEMMA DropDocStep ==
  ASSUME IInv, NEW w \in Writers, DropDoc(w)
  PROVE  IInv'
<1>1. PICK r : r = task[w]
  OBVIOUS
<1>2. /\ r \in Task /\ r.pc = "undoc" /\ Quiet /\ Within(r.read, Room)
      /\ docs' = Without(docs, r.key) /\ entries' = entries /\ left' = left /\ postings' = postings
      /\ stats' = stats /\ miscount' = miscount
  BY <1>1, TaskFacts DEF DropDoc
<1>3. PICK q : q = [r EXCEPT !.pc = "count_dec"]
  OBVIOUS
<1>4. task' = [task EXCEPT ![w] = q]
  BY <1>1, <1>3 DEF DropDoc, Goto, IInv, Types
<1>5. /\ q \in Task /\ q.pc = "count_dec"
      /\ q.key = r.key /\ q.op = r.op /\ q.read = r.read /\ q.text = r.text
  BY <1>2, <1>3 DEF Task
<1>6. Working(q) /\ (Puts(q) => Puts(r))
  BY <1>2, <1>5 DEF Working, Puts
<1>7. /\ DOMAIN docs' = DOMAIN docs \ {r.key}
      /\ \A x \in DOMAIN docs \ {r.key} : docs'[x] = docs[x]
  BY <1>2 DEF Without, Restrict
<1>8. \A j \in Keys \ {r.key} : Same(j)
  BY <1>2, <1>7 DEF Same, Indexed, Doc, Stored, IndexedText
<1>9. /\ Indexed(r.key)' = Indexed(r.key) /\ Doc(r.key)' = {}
      /\ Stored(r.key)' = Stored(r.key)
  BY <1>2, <1>7 DEF Indexed, Doc, Stored, IndexedText
<1>10. Stage(r, Indexed(r.key), Doc(r.key), Stored(r.key))
         => Stands(q, Indexed(r.key)', Doc(r.key)', Stored(r.key)')
  BY <1>2, <1>5, <1>9 DEF Stage, Stands
<1>11. Types'
  <2>1. task' \in [Writers -> Task] /\ mixed' = mixed
    BY <1>2, <1>4, <1>5 DEF IInv, Types, Quiet
  <2>2. DOMAIN docs' \subseteq Keys /\ \A x \in DOMAIN docs' : docs'[x] \in Texts \ {{}}
    BY <1>7 DEF IInv, Types
  <2> QED
    BY <1>2, <2>1, <2>2 DEF IInv, Types, Stats, Task, Texts
<1>12. Within(stats', Room) /\ miscount' \in BOOLEAN
  BY <1>2, TaskFacts DEF IInv
<1> QED
  BY <1>1, <1>2, <1>4, <1>5, <1>6, <1>8, <1>10, <1>11, <1>12, WorkStep

LEMMA ReadStatsStep ==
  ASSUME IInv, NEW w \in Writers, NEW from, NEW to, ReadStats(w, from, to),
         (from = "count_dec" /\ to = "dec") \/ (from = "count_inc" /\ to = "inc")
  PROVE  IInv'
<1>1. PICK r : r = task[w]
  OBVIOUS
<1>2. /\ r \in Task /\ r.pc = from /\ Quiet /\ Working(r)
      /\ docs' = docs /\ entries' = entries /\ left' = left /\ postings' = postings
      /\ stats' = stats /\ stats \in Stats /\ Within(stats, Room)
  BY <1>1, TaskFacts DEF ReadStats
<1>3. PICK q : q = [r EXCEPT !.pc = to, !.read = stats]
  OBVIOUS
<1>4. task' = [task EXCEPT ![w] = q]
  BY <1>1, <1>3 DEF ReadStats, IInv, Types
<1>5. (from = "count_dec" /\ to = "dec") \/ (from = "count_inc" /\ to = "inc")
  OBVIOUS
<1>6. /\ q \in Task /\ q.pc = to
      /\ q.key = r.key /\ q.op = r.op /\ q.read = stats /\ q.text = r.text
  BY <1>2, <1>3, <1>5 DEF Task
<1>7. Working(q) /\ (Puts(q) => Puts(r)) /\ r.pc # "idle"
  BY <1>2, <1>5, <1>6 DEF Working, Puts
<1>8. \A j : Same(j)
  BY <1>2 DEF Same, Indexed, Doc, Stored, IndexedText
<1>9. Stage(r, Indexed(r.key), Doc(r.key), Stored(r.key))
        => Stands(q, Indexed(r.key)', Doc(r.key)', Stored(r.key)')
  BY <1>2, <1>5, <1>6, <1>8 DEF Stage, Stands, Same
<1>10. Types'
  <2>1. task' \in [Writers -> Task] /\ mixed' = mixed
    BY <1>2, <1>4, <1>6 DEF IInv, Types, Quiet
  <2> QED
    BY <1>2, <2>1 DEF IInv, Types, Stats, Task, Texts
<1>11. miscount' \in BOOLEAN
  BY DEF ReadStats
<1> QED
  BY <1>1, <1>2, <1>4, <1>6, <1>7, <1>8, <1>9, <1>10, <1>11, WorkStep

LEMMA DropCountStep ==
  ASSUME IInv, NEW w \in Writers, DropCount(w)
  PROVE  IInv'
<1>1. PICK r : r = task[w]
  OBVIOUS
<1>2. /\ r \in Task /\ r.pc = "dec" /\ Quiet /\ Within(r.read, Room) /\ Room \in Nat
      /\ entries' = entries /\ left' = left /\ postings' = postings /\ docs' = docs /\ miscount' = miscount
      /\ stats' = [docs |-> Minus(r.read.docs, 1),
                   total_len |-> Minus(r.read.total_len, Cardinality(r.doc))]
  BY <1>1, TaskFacts DEF DropCount
<1>3. PICK q : q = Dropped(r)
  OBVIOUS
<1>4. task' = [task EXCEPT ![w] = q]
  BY <1>1, <1>3, AfterDropTask DEF DropCount
<1>5. /\ q \in Task /\ Working(q) /\ Within(q.read, Room)
      /\ q.pc # "idle" => q.key = r.key
      /\ Puts(q) => Puts(r)
      /\ \A M : (r.op = "put" => M = r.text) => Stands(q, {}, {}, M)
  BY <1>2, <1>3, DroppedTask
<1>6. \A j : Same(j)
  BY <1>2 DEF Same, Indexed, Doc, Stored, IndexedText
<1>7. Stage(r, Indexed(r.key), Doc(r.key), Stored(r.key))
        => Stands(q, Indexed(r.key)', Doc(r.key)', Stored(r.key)')
  BY <1>2, <1>5, <1>6 DEF Stage, Same
<1>8. stats' \in Stats /\ Within(stats', Room)
  <2>1. PICK n \in Nat, t \in Nat : n = Room /\ t = T
    BY <1>2, TermsCount
  <2>2. PICK a \in Nat, b \in Nat, c \in Nat :
          a = r.read.docs /\ b = r.read.total_len /\ c = Cardinality(r.doc)
    BY <1>2, TermsCount DEF Task, Stats
  <2>3. Minus(a, 1) \in Nat /\ Minus(a, 1) <= a /\ Minus(b, c) \in Nat /\ Minus(b, c) <= b
    BY DEF Minus
  <2>4. stats' = [docs |-> Minus(a, 1), total_len |-> Minus(b, c)] /\ a <= n /\ b <= n * t
    BY <1>2, <2>1, <2>2 DEF Within
  <2>5. n * t \in Nat
    BY Times
  <2>6. Minus(a, 1) <= n /\ Minus(b, c) <= n * t
    BY <2>3, <2>4, <2>5
  <2> QED
    BY <2>1, <2>3, <2>4, <2>6 DEF Within, Stats
<1>9. Types'
  <2>1. task' \in [Writers -> Task] /\ mixed' = mixed
    BY <1>2, <1>4, <1>5 DEF IInv, Types, Quiet
  <2> QED
    BY <1>2, <1>8, <2>1 DEF IInv, Types, Stats, Task, Texts
<1>10. miscount' \in BOOLEAN
  BY <1>2 DEF IInv
<1> QED
  BY <1>1, <1>2, <1>4, <1>5, <1>6, <1>7, <1>8, <1>9, <1>10, WorkStep
-----------------------------------------------------------------------------
(* index_text                                                              *)

LEMMA PostStep ==
  ASSUME IInv, NEW w \in Writers, NEW t \in Terms, Post(w, t)
  PROVE  IInv'
<1>1. PICK r : r = task[w]
  OBVIOUS
<1>2. /\ r \in Task /\ r.pc = "post" /\ t \in r.todo /\ Quiet /\ Within(r.read, Room)
      /\ postings' = postings \cup {<<t, r.key>>} /\ entries' = entries /\ left' = left /\ docs' = docs
      /\ stats' = stats /\ miscount' = miscount /\ r.op = "put" /\ r.text # {}
  BY <1>1, TaskFacts DEF Post, Working
<1>3. PICK q : q = [r EXCEPT !.todo = r.todo \ {t},
                             !.pc = IF r.todo = {t} THEN "doc" ELSE "post"]
  OBVIOUS
<1>4. task' = [task EXCEPT ![w] = q]
  BY <1>1, <1>3 DEF Post, IInv, Types
<1>5. r.todo \ {t} \in Texts /\ r.key \in Keys
  BY <1>2 DEF Task, Texts
<1>6. /\ q \in Task /\ q.pc = (IF r.todo = {t} THEN "doc" ELSE "post")
      /\ q.key = r.key /\ q.op = r.op /\ q.read = r.read /\ q.text = r.text
      /\ q.todo = r.todo \ {t}
  BY <1>2, <1>3, <1>5 DEF Task
<1>7. Working(q) /\ (Puts(q) => Puts(r)) /\ q.pc # "idle"
  BY <1>2, <1>6 DEF Working, Puts
<1>8. \A j \in Keys \ {r.key} : Same(j)
  BY <1>2 DEF Same, Indexed, Doc, Stored, IndexedText
<1>9. /\ Indexed(r.key)' = Indexed(r.key) \cup {t} /\ Doc(r.key)' = Doc(r.key)
      /\ Stored(r.key)' = Stored(r.key)
  BY <1>2 DEF Indexed, Doc, Stored, IndexedText
<1>10. Stage(r, Indexed(r.key), Doc(r.key), Stored(r.key))
         => Stands(q, Indexed(r.key)', Doc(r.key)', Stored(r.key)')
  BY <1>2, <1>6, <1>9 DEF Stage, Stands
<1>11. Types'
  <2>1. task' \in [Writers -> Task] /\ mixed' = mixed /\ postings' \subseteq Terms \X Keys
    BY <1>2, <1>4, <1>5, <1>6 DEF IInv, Types, Quiet
  <2> QED
    BY <1>2, <2>1 DEF IInv, Types, Stats, Task, Texts
<1>12. Within(stats', Room) /\ miscount' \in BOOLEAN
  BY <1>2, TaskFacts DEF IInv
<1> QED
  BY <1>1, <1>2, <1>4, <1>6, <1>7, <1>8, <1>10, <1>11, <1>12, WorkStep

LEMMA PutDocStep ==
  ASSUME IInv, NEW w \in Writers, PutDoc(w)
  PROVE  IInv'
<1>1. PICK r : r = task[w]
  OBVIOUS
<1>2. /\ r \in Task /\ r.pc = "doc" /\ Quiet /\ Within(r.read, Room)
      /\ docs' = Put(docs, r.key, r.text) /\ entries' = entries /\ left' = left /\ postings' = postings
      /\ stats' = stats /\ miscount' = miscount /\ r.op = "put" /\ r.text # {}
  BY <1>1, TaskFacts DEF PutDoc, Working
<1>3. PICK q : q = [r EXCEPT !.pc = "count_inc"]
  OBVIOUS
<1>4. task' = [task EXCEPT ![w] = q]
  BY <1>1, <1>3 DEF PutDoc, Goto, IInv, Types
<1>5. /\ q \in Task /\ q.pc = "count_inc"
      /\ q.key = r.key /\ q.op = r.op /\ q.read = r.read /\ q.text = r.text
  BY <1>2, <1>3 DEF Task
<1>6. Working(q) /\ (Puts(q) => Puts(r))
  BY <1>2, <1>5 DEF Working, Puts
<1>7. /\ DOMAIN docs' = DOMAIN docs \cup {r.key} /\ docs'[r.key] = r.text
      /\ \A x \in DOMAIN docs \ {r.key} : docs'[x] = docs[x]
  BY <1>2 DEF Put
<1>8. \A j \in Keys \ {r.key} : Same(j)
  BY <1>2, <1>7 DEF Same, Indexed, Doc, Stored, IndexedText
<1>9. /\ Indexed(r.key)' = Indexed(r.key) /\ Doc(r.key)' = r.text
      /\ Stored(r.key)' = Stored(r.key)
  BY <1>2, <1>7 DEF Indexed, Doc, Stored, IndexedText
<1>10. Stage(r, Indexed(r.key), Doc(r.key), Stored(r.key))
         => Stands(q, Indexed(r.key)', Doc(r.key)', Stored(r.key)')
  BY <1>2, <1>5, <1>9 DEF Stage, Stands
<1>11. Types'
  <2>1. task' \in [Writers -> Task] /\ mixed' = mixed
    BY <1>2, <1>4, <1>5 DEF IInv, Types, Quiet
  <2>2. DOMAIN docs' \subseteq Keys /\ \A x \in DOMAIN docs' : docs'[x] \in Texts \ {{}}
    BY <1>2, <1>7 DEF IInv, Types, Task
  <2> QED
    BY <1>2, <2>1, <2>2 DEF IInv, Types, Stats, Task, Texts
<1>12. Within(stats', Room) /\ miscount' \in BOOLEAN
  BY <1>2, TaskFacts DEF IInv
<1> QED
  BY <1>1, <1>2, <1>4, <1>5, <1>6, <1>8, <1>10, <1>11, <1>12, WorkStep

LEMMA IndexCountStep ==
  ASSUME IInv, NEW w \in Writers, IndexCount(w)
  PROVE  IInv'
<1>1. PICK r : r = task[w]
  OBVIOUS
<1>2. /\ r \in Task /\ r.pc = "inc" /\ Quiet /\ Within(r.read, Room) /\ Room \in Nat
      /\ entries' = entries /\ left' = left /\ postings' = postings /\ docs' = docs /\ miscount' = miscount
      /\ stats' = [docs |-> r.read.docs + 1,
                   total_len |-> r.read.total_len + Cardinality(r.text)]
      /\ r.op = "put" /\ task' = [task EXCEPT ![w] = Idle]
  BY <1>1, TaskFacts DEF IndexCount, Finish, Working
<1>3. \A j : Same(j)
  BY <1>2 DEF Same, Indexed, Doc, Stored, IndexedText
<1>4. Stage(r, Indexed(r.key), Doc(r.key), Stored(r.key))
        => Stands(Idle, Indexed(r.key)', Doc(r.key)', Stored(r.key)')
  BY <1>2, <1>3, IdleTask DEF Stage, Stands, Settled, Same
<1>5. stats' \in Stats /\ Within(stats', Room + 1)
  <2>1. PICK n \in Nat, t \in Nat : n = Room /\ t = T
    BY <1>2, TermsCount
  <2>2. PICK a \in Nat, b \in Nat, c \in Nat :
          a = r.read.docs /\ b = r.read.total_len /\ c = Cardinality(r.text) /\ c <= t
    BY <1>2, <2>1, TermsCount DEF Task, Stats
  <2>3. stats' = [docs |-> a + 1, total_len |-> b + c] /\ a <= n /\ b <= n * t
    BY <1>2, <2>1, <2>2 DEF Within
  <2>4. n * t \in Nat /\ (n + 1) * t = n * t + t
    BY Times
  <2>5. a + 1 <= n + 1 /\ b + c <= (n + 1) * t /\ a + 1 \in Nat /\ b + c \in Nat
    BY <2>2, <2>3, <2>4
  <2> QED
    BY <2>1, <2>3, <2>5 DEF Within, Stats
<1>6. Types'
  <2>1. task' \in [Writers -> Task] /\ mixed' = mixed
    BY <1>2, IdleTask DEF IInv, Types, Quiet
  <2> QED
    BY <1>2, <1>5, <2>1 DEF IInv, Types, Stats, Task, Texts
<1>7. ~Puts(Idle) /\ Puts(r) /\ miscount' \in BOOLEAN /\ Within(Idle.read, Room)
  BY <1>2, IdleTask, NoneWithin DEF Puts, IInv
<1> QED
  BY <1>1, <1>2, <1>3, <1>4, <1>5, <1>6, <1>7, IdleTask, WorkStep
-----------------------------------------------------------------------------
(* Faults, and every step                                                  *)

(* Every key that a task is cut off on is mixed.                           *)
LEMMA CutOffStep ==
  ASSUME IInv, NEW W \in SUBSET Writers, CutOff(W)
  PROVE  IInv'
<1>1. /\ entries' = entries /\ left' = left /\ postings' = postings /\ docs' = docs /\ stats' = stats
      /\ ops' = ops /\ task' = [w \in Writers |-> IF w \in W THEN Idle ELSE task[w]]
      /\ mixed' = mixed \cup {k \in Keys : \E w \in W : task[w].pc # "idle" /\ task[w].key = k}
      /\ index' = index /\ count' = count
      /\ call' = [w \in Writers |-> IF w \in W THEN NoCall ELSE call[w]]
  BY DEF CutOff
<1>7. Calling'
  <2>1. NoCall \in Loop
    BY SomeLoop
  <2> QED
    BY <1>1, <2>1 DEF IInv, Calling, Loop
<1>2. Types'
  <2>1. task' \in [Writers -> Task] /\ mixed' \subseteq Keys
    BY <1>1, IdleTask DEF IInv, Types
  <2> QED
    BY <1>1, <2>1 DEF IInv, Types, Stats, Task, Texts
<1>3. Counted'
  <2>1. PICK P, Q : P = Pending /\ Q = Pending'
    OBVIOUS
  <2>2. Q \subseteq P /\ P \subseteq Writers
    BY <1>1, <2>1, IdleTask DEF Pending, Puts
  <2>3. IsFiniteSet(P)
    BY <2>2, SetsAssumption, FS_Subset
  <2>4. Cardinality(Q) \in Nat /\ Cardinality(P) \in Nat /\ Cardinality(Q) <= Cardinality(P)
    BY <2>2, <2>3, FS_Subset, FS_CardinalityType
  <2>5. PICK n, m, c, d : n = Room /\ m = ops /\ c = Cardinality(P) /\ d = Cardinality(Q)
    OBVIOUS
  <2>6. m \in 0..MaxOps /\ MaxOps \in Nat /\ c \in 0..m /\ d \in 0..c
    BY <2>1, <2>4, <2>5, OpsAssumption DEF IInv, Counted
  <2>7. n = m - c /\ Room' = m - d
    BY <1>1, <2>1, <2>5 DEF Room
  <2>8. n \in Nat /\ m - d \in Nat /\ n <= m - d /\ d \in 0..m
    BY <2>6, <2>7
  <2>9. Within(stats', m - d)
    <3>1. Within(stats, n) /\ stats \in Stats
      BY <2>5 DEF IInv, Types, Counted
    <3> QED
      BY <1>1, <2>8, <3>1, WithinMore
  <2>10. ASSUME NEW w \in Writers PROVE Within(task'[w].read, m - d)
    <3>1. Within(task[w].read, n) /\ task[w].read \in Stats
      BY <2>5 DEF IInv, Types, Counted, Task
    <3>2. Within(task[w].read, m - d)
      BY <2>8, <3>1, WithinMore
    <3> QED
      BY <1>1, <2>8, <3>2, IdleTask, NoneWithin
  <2> QED
    BY <1>1, <2>1, <2>5, <2>6, <2>7, <2>8, <2>9, <2>10 DEF Counted
<1>4. ASSUME NEW k \in Keys PROVE KeyOK(k)'
  <2>1. Same(k)
    BY <1>1 DEF Same, Indexed, Doc, Stored, IndexedText
  <2>2. SUFFICES ASSUME k \notin mixed' PROVE KeyOK(k)'
    BY DEF KeyOK
  <2>3. k \notin mixed /\ \A w \in W : ~On(task[w], k)
    BY <1>1, <2>2 DEF On
  <2>4. \A w \in Writers : /\ On(task'[w], k) <=> On(task[w], k)
                           /\ On(task[w], k) => task'[w] = task[w]
    BY <1>1, <2>3, IdleTask DEF On
  <2>5. /\ \A v, w \in Writers : On(task[v], k) /\ On(task[w], k) => v = w
        /\ \A w \in Writers : On(task[w], k) => Stage(task[w], Indexed(k), Doc(k), Stored(k))
        /\ (\A w \in Writers : ~On(task[w], k)) => Settled(Indexed(k), Doc(k), Stored(k))
    BY <2>3 DEF IInv, KeyOK
  <2>6. PICK I, D, M : I = Indexed(k) /\ D = Doc(k) /\ M = Stored(k)
    OBVIOUS
  <2>7. Indexed(k)' = I /\ Doc(k)' = D /\ Stored(k)' = M
    BY <2>1, <2>6 DEF Same
  <2>8. /\ \A v, w \in Writers : On(task'[v], k) /\ On(task'[w], k) => v = w
        /\ \A w \in Writers : On(task'[w], k) => Stage(task'[w], I, D, M)
        /\ (\A w \in Writers : ~On(task'[w], k)) => Settled(I, D, M)
    BY <2>4, <2>5, <2>6
  <2> QED
    BY <2>7, <2>8 DEF KeyOK, On, Stage, Settled
<1>5. miscount' \in BOOLEAN
  BY DEF CutOff
<1>6. (\A w \in Writers : Working(task[w]))'
  BY <1>1, IdleTask DEF IInv, Working
<1> QED
  BY <1>2, <1>3, <1>4, <1>5, <1>6, <1>7 DEF IInv

LEMMA CreateAgainStep ==
  ASSUME IInv, NEW s \in Sessions, CreateAgain(s)
  PROVE  IInv'
<1>1. /\ entries' = entries /\ left' = left /\ postings' = postings /\ docs' = docs /\ stats' = stats
      /\ ops' = ops /\ task' = task /\ mixed' = mixed /\ miscount' = miscount
      /\ index' = index /\ count' = [count EXCEPT ![s] = 0] /\ call' = call
  BY DEF CreateAgain
<1>2. Calling'
  BY <1>1 DEF IInv, Calling, Loop
<1> QED
  BY <1>1, <1>2 DEF IInv, Types, Counted, Pending, Puts, Room, Within, Working, KeyOK, On, Stage,
                    Settled, Indexed, Doc, Stored, IndexedText, T, Stats, Task, Texts

(* A fault of one task or of all, or a session that is created again.      *)
Cuts == \E W \in SUBSET Writers : CutOff(W)
Again == \E s \in Sessions : CreateAgain(s)

LEMMA FaultKinds ==
  ASSUME Crash \/ \E w \in Writers : CallDropped(w)
  PROVE  Cuts
<1>1. ASSUME NEW w \in Writers, CallDropped(w) PROVE \E W \in SUBSET Writers : CutOff(W)
  <2>1. CutOff({w}) /\ {w} \in SUBSET Writers
    BY <1>1 DEF CallDropped
  <2> QED
    BY <2>1
<1>2. ASSUME Crash PROVE \E W \in SUBSET Writers : CutOff(W)
  BY <1>2 DEF Crash
<1> QED
  BY <1>1, <1>2 DEF Cuts

LEMMA Inductive ==
  ASSUME IInv, [Next]_vars PROVE IInv'
<1>1. CASE UNCHANGED vars
  BY <1>1 DEF vars, calls, IInv, Types, Calling, Loop, Counted, Pending, Puts, Room, Within, Working, KeyOK, On, Stage,
              Settled, Indexed, Doc, Stored, IndexedText, T, Stats, Task, Texts
<1>2. ASSUME NEW w \in Writers, NEW k \in Keys,
             RemoveMemory(w, k) \/ \E text \in Texts : PutMemory(w, k, text)
      PROVE  IInv'
  BY <1>2, MemoryStep
<1>3. ASSUME NEW w \in Writers, Step(w) PROVE IInv'
  <2>1. CASE ReadStats(w, "count_dec", "dec")
    <3>1. PICK from, to : from = "count_dec" /\ to = "dec"
      OBVIOUS
    <3> QED
      BY <2>1, <3>1, ReadStatsStep
  <2>3. CASE ReadStats(w, "count_inc", "inc")
    <3>1. PICK from, to : from = "count_inc" /\ to = "inc"
      OBVIOUS
    <3> QED
      BY <2>3, <3>1, ReadStatsStep
  <2>2. ASSUME NEW t \in Terms, Retract(w, t) \/ Post(w, t) PROVE IInv'
    BY <2>2, RetractStep, PostStep
  <2> QED
    BY <1>3, <2>1, <2>2, <2>3, DeleteEntryStep, DropLoadStep, DropDocStep, DropCountStep, PutDocStep,
       IndexCountStep DEF Step
<1>4. ASSUME NEW w \in Writers, Looping(w) PROVE IInv'
  BY <1>4, LoopingStep
<1>5. ASSUME Cuts PROVE IInv'
  BY <1>5, CutOffStep DEF Cuts
<1>6. ASSUME Again PROVE IInv'
  BY <1>6, CreateAgainStep DEF Again
<1> QED
  BY <1>1, <1>2, <1>3, <1>4, <1>5, <1>6, FaultKinds DEF Next, Looping, Again

LEMMA Initially ==
  ASSUME Init PROVE IInv
<1>1. Types
  <2>1. task \in [Writers -> Task]
    BY IdleTask DEF Init
  <2>2. stats \in Stats
    BY DEF Init, NoStats, Stats
  <2>3. DOMAIN entries = {} /\ DOMAIN docs = {} /\ DOMAIN left = {}
    BY DEF Init
  <2>4. IsFiniteSet(DOMAIN entries)
    BY <2>3, FS_EmptySet
  <2> QED
    BY <2>1, <2>2, <2>3, <2>4 DEF Types, Init
<1>5. Calling
  BY SomeLoop DEF Init, Calling
<1>2. Counted
  <2>1. Pending = {}
    BY IdleTask DEF Init, Pending, Puts
  <2>2. Cardinality(Pending) = 0 /\ Room = 0
    BY <2>1, FS_EmptySet DEF Room, Init
  <2>3. Within(NoStats, 0)
    BY NoneWithin
  <2> QED
    BY <2>2, <2>3, OpsAssumption, IdleTask DEF Counted, Init
<1>3. \A w \in Writers : Working(task[w])
  BY IdleTask DEF Init
<1>4. \A k \in Keys : KeyOK(k)
  BY IdleTask DEF KeyOK, On, Settled, Indexed, Doc, Stored, IndexedText, Init
<1> QED
  BY <1>1, <1>2, <1>3, <1>4, <1>5 DEF IInv, Init

LEMMA TypesHold ==
  ASSUME IInv PROVE TypeOK
<1>1. /\ Range(entries) \subseteq Texts /\ Range(docs) \subseteq Texts \ {{}}
      /\ Range(left) \subseteq Texts \ {{}}
  BY DEF IInv, Types, Range
<1>2. stats \in [docs : 0..MaxOps, total_len : 0..(MaxOps * Cardinality(Terms))]
  <2>1. PICK n, m, c, t : n = Room /\ m = ops /\ c = Cardinality(Pending) /\ t = T
    OBVIOUS
  <2>2. m \in 0..MaxOps /\ MaxOps \in Nat /\ c \in 0..m /\ t \in Nat
    BY <2>1, OpsAssumption, TermsCount DEF IInv, Counted
  <2>3. n = m - c
    BY <2>1 DEF Room
  <2>4. n \in Nat /\ n <= MaxOps
    BY <2>2, <2>3
  <2>5. stats \in Stats /\ Within(stats, n)
    BY <2>1 DEF IInv, Types, Counted
  <2>6. Within(stats, MaxOps) /\ MaxOps * t \in Nat
    BY <2>2, <2>4, <2>5, WithinMore, Times
  <2> QED
    BY <2>1, <2>2, <2>5, <2>6 DEF Within, Stats, T
<1> QED
  BY <1>1, <1>2 DEF IInv, Types, Calling, Loop, TypeOK, Task, Stats

LEMMA MatchesHold ==
  ASSUME IInv PROVE IndexMatches
<1>1. SUFFICES ASSUME NEW k \in Keys \ mixed, ~Busy(k), NEW text, text = Stored(k)
      PROVE  /\ Indexed(k) = text
             /\ (k \in DOMAIN docs) = (text # {})
             /\ k \in DOMAIN docs => docs[k] = text
  BY DEF IndexMatches, Stored, IndexedText
<1>2. Indexed(k) = text /\ Doc(k) = text
  BY <1>1 DEF IInv, KeyOK, Busy, On, Settled
<1>3. k \in DOMAIN docs => docs[k] # {}
  BY DEF IInv, Types
<1> QED
  BY <1>2, <1>3 DEF Doc

(* put_memory and the loops over a session's messages, drop_text and       *)
(* index_text: whatever tasks interleave between their reads and writes    *)
(* and wherever a fault cuts them off, an entry that one task at a time    *)
(* worked on is in the index with exactly the terms it was last indexed    *)
(* with, which a message that is put over it without being indexable does  *)
(* not change; one that is gone has left no posting and no record behind;  *)
(* and the counters, though tasks overwrite each other's counts, never     *)
(* exceed what the operations can have added.                              *)
THEOREM IndexCorrect == Spec => []IndexInv
<1>1. Init => IInv
  BY Initially
<1>2. IInv /\ [Next]_vars => IInv'
  BY Inductive
<1>3. IInv => IndexInv
  BY TypesHold, MatchesHold DEF IndexInv
<1> QED
  BY <1>1, <1>2, <1>3, PTL DEF Spec
-----------------------------------------------------------------------------
(* What the counters count, and that a search agrees with a ranking of all *)
(* entries.                                                                *)

(* A task has taken its entry's record away and is to count that, or has   *)
(* put it there and is to.                                                 *)
Late == {"count_dec", "dec"}
Early == {"count_inc", "inc"}

(* The terms of a key that the counters stand for: those of its record,    *)
(* the tasks ts being that far with it.                                    *)
DocIn(d, k) == IF k \in DOMAIN d THEN d[k] ELSE {}
Tally(ts, d, k) ==
  {t \in Terms :
     \/ \E w \in Writers : On(ts[w], k) /\ ts[w].pc \in Late /\ t \in ts[w].doc
     \/ t \in DocIn(d, k) /\ \A w \in Writers : On(ts[w], k) => ts[w].pc \notin Early}

TallyKeys(ts, d) == {k \in Keys : Tally(ts, d, k) # {}}
TallyPairs(ts, d) == {p \in Terms \X Keys : p[1] \in Tally(ts, d, p[2])}

(* The counters count S and P.                                             *)
Counts(s, S, P) ==
  /\ IsFiniteSet(S) /\ s.docs = Cardinality(S)
  /\ IsFiniteSet(P) /\ s.total_len = Cardinality(P)

(* One task counts at a time and has read what is there; a task that takes *)
(* a record away knows its terms.                                          *)
Reads(s, ts) == \A w \in Writers : ts[w].pc \in {"dec", "inc"} =>
  ts[w].read = s /\ \A v \in Writers : ts[v].pc \in {"dec", "inc"} => v = w

Knows(ts, d) == \A w \in Writers :
  /\ ts[w].pc \in {"retract", "undoc"} \cup Late => ts[w].doc # {}
  /\ ts[w].pc \in {"retract", "undoc"} => ts[w].doc = DocIn(d, ts[w].key)

Tallied ==
  Counts(stats, TallyKeys(task, docs), TallyPairs(task, docs)) /\ Reads(stats, task)
  /\ Knows(task, docs)

Clean == mixed = {} /\ ~miscount

LEMMA TallyOther ==
  ASSUME NEW ts, NEW us, NEW d, NEW e, NEW w \in Writers, NEW j,
         \A v \in Writers \ {w} : us[v] = ts[v], ~On(ts[w], j), ~On(us[w], j),
         DocIn(e, j) = DocIn(d, j)
  PROVE  Tally(us, e, j) = Tally(ts, d, j)
<1>1. \A v \in Writers : /\ On(us[v], j) <=> On(ts[v], j)
                         /\ On(ts[v], j) => us[v] = ts[v]
  OBVIOUS
<1>2. ASSUME NEW t \in Terms PROVE t \in Tally(us, e, j) <=> t \in Tally(ts, d, j)
  BY <1>1 DEF Tally
<1> QED
  BY <1>2 DEF Tally

LEMMA TallyAt ==
  ASSUME NEW ts, NEW d, NEW w \in Writers, NEW k, NEW r, r = ts[w],
         \A v \in Writers \ {w} : ~On(ts[v], k), r.pc # "idle" => r.key = k,
         NEW D \in Texts, D = DocIn(d, k), r.doc \in Texts, r.pc \in Late => D = {}
  PROVE  Tally(ts, d, k) = IF r.pc \in Late THEN r.doc ELSE IF r.pc \in Early THEN {} ELSE D
<1>1. On(r, k) <=> r.pc # "idle"
  BY DEF On
<1>2. r.pc \in Late \cup Early => r.pc # "idle"
  BY DEF Late, Early
<1>3. ~(r.pc \in Late /\ r.pc \in Early)
  BY DEF Late, Early
<1>4. ASSUME NEW t \in Terms
      PROVE  t \in Tally(ts, d, k)
               <=> \/ On(r, k) /\ r.pc \in Late /\ t \in r.doc
                   \/ t \in D /\ (On(r, k) => r.pc \notin Early)
  <2>1. (\E v \in Writers : On(ts[v], k) /\ ts[v].pc \in Late /\ t \in ts[v].doc)
          <=> On(r, k) /\ r.pc \in Late /\ t \in r.doc
    OBVIOUS
  <2>2. (\A v \in Writers : On(ts[v], k) => ts[v].pc \notin Early) <=> (On(r, k) => r.pc \notin Early)
    OBVIOUS
  <2> QED
    BY <2>1, <2>2 DEF Tally
<1>5. r.doc \subseteq Terms /\ D \subseteq Terms /\ Tally(ts, d, k) \subseteq Terms
  BY DEF Texts, Tally
<1>6. CASE r.pc \in Late
  BY <1>1, <1>2, <1>4, <1>5, <1>6
<1>7. CASE r.pc \in Early
  BY <1>1, <1>2, <1>3, <1>4, <1>5, <1>7
<1>8. CASE r.pc \notin Late /\ r.pc \notin Early
  BY <1>4, <1>5, <1>8
<1> QED
  BY <1>3, <1>6, <1>7, <1>8

LEMMA TallySame ==
  ASSUME NEW ts, NEW us, NEW d, NEW e, \A j \in Keys : Tally(us, e, j) = Tally(ts, d, j)
  PROVE  TallyKeys(us, e) = TallyKeys(ts, d) /\ TallyPairs(us, e) = TallyPairs(ts, d)
<1>1. TallyKeys(us, e) = TallyKeys(ts, d)
  BY DEF TallyKeys
<1>2. ASSUME NEW p \in Terms \X Keys PROVE p \in TallyPairs(us, e) <=> p \in TallyPairs(ts, d)
  <2>1. p[2] \in Keys
    OBVIOUS
  <2> QED
    BY <2>1 DEF TallyPairs
<1>3. TallyPairs(us, e) = TallyPairs(ts, d)
  BY <1>2 DEF TallyPairs
<1> QED
  BY <1>1, <1>3

(* A key with each of its terms.                                           *)
Row(X, k) == X \X {k}

(* A key that has no terms counted, and then has.                          *)
LEMMA TallyGrows ==
  ASSUME NEW ts, NEW us, NEW d, NEW e, NEW k \in Keys, NEW X \in Texts, X # {},
         \A j \in Keys \ {k} : Tally(us, e, j) = Tally(ts, d, j),
         Tally(ts, d, k) = {}, Tally(us, e, k) = X
  PROVE  /\ k \notin TallyKeys(ts, d) /\ TallyKeys(us, e) = TallyKeys(ts, d) \cup {k}
         /\ TallyPairs(ts, d) \cap Row(X, k) = {}
         /\ TallyPairs(us, e) = TallyPairs(ts, d) \cup Row(X, k)
<1>1. k \notin TallyKeys(ts, d) /\ TallyKeys(us, e) = TallyKeys(ts, d) \cup {k}
  BY DEF TallyKeys
<1>2. X \subseteq Terms
  BY DEF Texts
<1>3. ASSUME NEW p \in Terms \X Keys
      PROVE  /\ ~(p \in TallyPairs(ts, d) /\ p \in Row(X, k))
             /\ p \in TallyPairs(us, e) <=> p \in TallyPairs(ts, d) \/ p \in Row(X, k)
  <2>1. p[2] \in Keys /\ p[1] \in Terms /\ p = <<p[1], p[2]>>
    OBVIOUS
  <2>2. p \in Row(X, k) <=> p[1] \in X /\ p[2] = k
    BY <2>1 DEF Row
  <2> QED
    BY <2>1, <2>2 DEF TallyPairs
<1>4. Row(X, k) \subseteq Terms \X Keys /\ TallyPairs(ts, d) \subseteq Terms \X Keys
      /\ TallyPairs(us, e) \subseteq Terms \X Keys
  BY <1>2 DEF TallyPairs, Row
<1> QED
  BY <1>1, <1>3, <1>4

LEMMA RowCount ==
  ASSUME NEW X \in Texts, NEW k
  PROVE  IsFiniteSet(Row(X, k)) /\ Cardinality(Row(X, k)) = Cardinality(X) /\ Cardinality(X) \in Nat
<1>1. IsFiniteSet(X) /\ Cardinality(X) \in Nat
  <2>1. X \in SUBSET Terms
    BY DEF Texts
  <2> QED
    BY <2>1, SetsAssumption, FS_Subset, FS_CardinalityType
<1>2. IsFiniteSet({k}) /\ Cardinality({k}) = 1
  BY FS_Singleton
<1>3. IsFiniteSet(Row(X, k)) /\ Cardinality(Row(X, k)) = Cardinality(X) * Cardinality({k})
  BY <1>1, <1>2, FS_Product DEF Row
<1> QED
  BY <1>1, <1>2, <1>3

(* The pairs of a key come to those of the others.                         *)
LEMMA CountMore ==
  ASSUME NEW P, IsFiniteSet(P), NEW R, IsFiniteSet(R), \A p \in R : p \notin P
  PROVE  IsFiniteSet(P \cup R) /\ Cardinality(P \cup R) = Cardinality(P) + Cardinality(R)
<1>1. /\ IsFiniteSet(P \cup R)
      /\ Cardinality(P \cup R) = Cardinality(P) + Cardinality(R) - Cardinality(P \cap R)
  BY FS_Union
<1>2. P \cap R = {}
  OBVIOUS
<1>3. Cardinality(P \cap R) = 0 /\ Cardinality(P) \in Nat /\ Cardinality(R) \in Nat
  BY <1>2, FS_EmptySet, FS_CardinalityType
<1> QED
  BY <1>1, <1>3

Added(s, X) == [docs |-> s.docs + 1, total_len |-> s.total_len + Cardinality(X)]
Taken(s, X) == [docs |-> Minus(s.docs, 1), total_len |-> Minus(s.total_len, Cardinality(X))]

(* What the counters become, the terms counted for a key going from X to   *)
(* Y.                                                                      *)
Recounts(s, z, X, Y) ==
  \/ Y = X /\ z = s
  \/ X = {} /\ Y # {} /\ z = Added(s, Y)
  \/ X # {} /\ Y = {} /\ z = Taken(s, X)

LEMMA CountsStep ==
  ASSUME NEW ts, NEW us, NEW d, NEW e, NEW k \in Keys, NEW s \in Stats, NEW z,
         NEW X \in Texts, NEW Y \in Texts,
         X = Tally(ts, d, k), Y = Tally(us, e, k),
         \A j \in Keys \ {k} : Tally(us, e, j) = Tally(ts, d, j),
         Counts(s, TallyKeys(ts, d), TallyPairs(ts, d)), Recounts(s, z, X, Y)
  PROVE  Counts(z, TallyKeys(us, e), TallyPairs(us, e))
<1>1. CASE Y = X /\ z = s
  <2>1. \A j \in Keys : Tally(us, e, j) = Tally(ts, d, j)
    BY <1>1
  <2> QED
    BY <1>1, <2>1, TallySame
<1>2. CASE X = {} /\ Y # {} /\ z = Added(s, Y)
  <2>1. PICK S, P : S = TallyKeys(ts, d) /\ P = TallyPairs(ts, d)
    OBVIOUS
  <2>2. /\ k \notin S /\ TallyKeys(us, e) = S \cup {k}
        /\ P \cap Row(Y, k) = {} /\ TallyPairs(us, e) = P \cup Row(Y, k)
    <3>1. Tally(ts, d, k) = {} /\ Tally(us, e, k) = Y /\ Y # {}
      BY <1>2
    <3> QED
      BY <2>1, <3>1, TallyGrows
  <2>3. IsFiniteSet(S) /\ IsFiniteSet(P) /\ s.docs = Cardinality(S) /\ s.total_len = Cardinality(P)
    BY <2>1 DEF Counts
  <2>4. PICK R : R = Row(Y, k)
    OBVIOUS
  <2>6. /\ IsFiniteSet(S \cup {k}) /\ Cardinality(S \cup {k}) = Cardinality(S) + 1
        /\ IsFiniteSet(P \cup R) /\ Cardinality(P \cup R) = Cardinality(P) + Cardinality(Y)
    <3>1. \A p \in R : p \notin P
      BY <2>2, <2>4
    <3>2. IsFiniteSet(R) /\ Cardinality(R) = Cardinality(Y)
      BY <2>4, RowCount
    <3>3. IsFiniteSet(P \cup R) /\ Cardinality(P \cup R) = Cardinality(P) + Cardinality(R)
      BY <2>3, <3>1, <3>2, CountMore
    <3>4. IsFiniteSet(S \cup {k}) /\ Cardinality(S \cup {k}) = Cardinality(S) + 1
      BY <2>2, <2>3, FS_AddElement
    <3> QED
      BY <3>2, <3>3, <3>4
  <2>5. z.docs = s.docs + 1 /\ z.total_len = s.total_len + Cardinality(Y)
    BY <1>2 DEF Added
  <2> QED
    BY <2>2, <2>3, <2>4, <2>5, <2>6 DEF Counts
<1>3. CASE X # {} /\ Y = {} /\ z = Taken(s, X)
  <2>1. PICK S, P : S = TallyKeys(us, e) /\ P = TallyPairs(us, e)
    OBVIOUS
  <2>2. /\ k \notin S /\ TallyKeys(ts, d) = S \cup {k}
        /\ P \cap Row(X, k) = {} /\ TallyPairs(ts, d) = P \cup Row(X, k)
    <3>1. Tally(us, e, k) = {} /\ Tally(ts, d, k) = X /\ X # {}
      BY <1>3
    <3> QED
      BY <2>1, <3>1, TallyGrows
  <2>3. /\ IsFiniteSet(S \cup {k}) /\ s.docs = Cardinality(S \cup {k})
        /\ IsFiniteSet(P \cup Row(X, k)) /\ s.total_len = Cardinality(P \cup Row(X, k))
    BY <2>2 DEF Counts
  <2>4. S \in SUBSET (S \cup {k}) /\ P \in SUBSET (P \cup Row(X, k))
    OBVIOUS
  <2>5. IsFiniteSet(S) /\ IsFiniteSet(P)
    BY <2>3, <2>4, FS_Subset
  <2>6. s.docs = Cardinality(S) + 1 /\ s.total_len = Cardinality(P) + Cardinality(X)
    <3>1. PICK R : R = Row(X, k) /\ \A p \in R : p \notin P
      BY <2>2
    <3>2. IsFiniteSet(R) /\ Cardinality(R) = Cardinality(X)
      BY <3>1, RowCount
    <3>3. Cardinality(P \cup R) = Cardinality(P) + Cardinality(R)
      BY <2>5, <3>1, <3>2, CountMore
    <3>4. Cardinality(S \cup {k}) = Cardinality(S) + 1
      BY <2>2, <2>5, FS_AddElement
    <3> QED
      BY <2>3, <3>1, <3>2, <3>3, <3>4
  <2>7. PICK a, b, c \in Nat : a = Cardinality(S) /\ b = Cardinality(P) /\ c = Cardinality(X)
    BY <2>5, FS_CardinalityType, RowCount
  <2>8. Minus(a + 1, 1) = a /\ Minus(b + c, c) = b
    BY DEF Minus
  <2>9. z.docs = a /\ z.total_len = b
    BY <1>3, <2>6, <2>7, <2>8 DEF Taken
  <2> QED
    BY <2>1, <2>5, <2>7, <2>9 DEF Counts
<1> QED
  BY <1>1, <1>2, <1>3 DEF Recounts

(* A step of the one task on a key.                                        *)
LEMMA TallyStep ==
  ASSUME IInv, Tallied, NEW w \in Writers, NEW k \in Keys, NEW r, r = task[w],
         NEW q \in Task, task' = [task EXCEPT ![w] = q],
         q.pc # "idle" => q.key = k, r.pc # "idle" => r.key = k,
         \A v \in Writers \ {w} : ~On(task[v], k),
         \A j \in Keys \ {k} : DocIn(docs', j) = DocIn(docs, j),
         Recounts(stats, stats', Tally(task, docs, k), Tally(task', docs', k)),
         stats' = stats \/ r.pc \in {"dec", "inc"},
         q.pc \in {"dec", "inc"} =>
           q.read = stats' /\ \A v \in Writers \ {w} : task[v].pc \notin {"dec", "inc"},
         q.pc \in {"retract", "undoc"} \cup Late => q.doc # {},
         q.pc \in {"retract", "undoc"} => q.doc = DocIn(docs', k)
  PROVE  Tallied'
<1>1. PICK ts, us, d, e, s, z : /\ ts = task /\ us = task' /\ d = docs /\ e = docs'
                                /\ s = stats /\ z = stats'
  OBVIOUS
<1>2. /\ \A v \in Writers : us[v] = IF v = w THEN q ELSE ts[v]
      /\ \A v \in Writers : ts[v] \in Task /\ ts[v].key \in Keys
      /\ s \in Stats
  BY <1>1 DEF IInv, Types, Task
<1>3. \A j \in Keys \ {k} : Tally(us, e, j) = Tally(ts, d, j)
  <2> TAKE j \in Keys \ {k}
  <2>1. ~On(ts[w], j) /\ ~On(us[w], j) /\ DocIn(e, j) = DocIn(d, j)
    BY <1>1, <1>2 DEF On
  <2>2. \A v \in Writers \ {w} : us[v] = ts[v]
    BY <1>2
  <2> QED
    BY <2>1, <2>2, TallyOther
<1>4. PICK X, Y \in Texts : X = Tally(ts, d, k) /\ Y = Tally(us, e, k)
  BY DEF Tally, Texts
<1>5. Counts(z, TallyKeys(us, e), TallyPairs(us, e))
  <2>1. Counts(s, TallyKeys(ts, d), TallyPairs(ts, d)) /\ Recounts(s, z, X, Y)
    BY <1>1, <1>4 DEF Tallied
  <2> QED
    BY <1>2, <1>3, <1>4, <2>1, CountsStep
<1>6. Reads(z, us)
  <2>1. Reads(s, ts)
    BY <1>1 DEF Tallied
  <2>2. SUFFICES ASSUME NEW v \in Writers, us[v].pc \in {"dec", "inc"}
        PROVE  us[v].read = z /\ \A u \in Writers : us[u].pc \in {"dec", "inc"} => u = v
    BY DEF Reads
  <2>3. CASE v = w
    BY <1>1, <1>2, <2>2, <2>3
  <2>4. CASE v # w
    <3>1. ts[v].pc \in {"dec", "inc"} /\ us[v] = ts[v]
      BY <1>2, <2>2, <2>4
    <3>2. ts[v].read = s /\ \A u \in Writers : ts[u].pc \in {"dec", "inc"} => u = v
      BY <2>1, <3>1 DEF Reads
    <3>3. r.pc \notin {"dec", "inc"}
      BY <1>1, <2>4, <3>2
    <3>4. z = s /\ q.pc \notin {"dec", "inc"}
      BY <1>1, <2>4, <3>1, <3>3
    <3> QED
      BY <1>2, <3>1, <3>2, <3>4
  <2> QED
    BY <2>3, <2>4
<1>7. Knows(us, e)
  <2>1. Knows(ts, d)
    BY <1>1 DEF Tallied
  <2>2. SUFFICES ASSUME NEW v \in Writers
        PROVE  /\ us[v].pc \in {"retract", "undoc"} \cup Late => us[v].doc # {}
               /\ us[v].pc \in {"retract", "undoc"} => us[v].doc = DocIn(e, us[v].key)
    BY DEF Knows
  <2>3. CASE v = w
    BY <1>1, <1>2, <2>3
  <2>4. CASE v # w
    <3>1. us[v] = ts[v] /\ ~On(ts[v], k) /\ ts[v].key \in Keys
      BY <1>1, <1>2, <2>4
    <3>2. ts[v].pc \in {"retract", "undoc"} => DocIn(e, ts[v].key) = DocIn(d, ts[v].key)
      BY <1>1, <3>1 DEF On
    <3> QED
      BY <2>1, <3>1, <3>2 DEF Knows
  <2> QED
    BY <2>3, <2>4
<1> QED
  BY <1>1, <1>5, <1>6, <1>7 DEF Tallied

(* The terms counted for a key whose record has terms D and whose one task *)
(* is r.                                                                   *)
TallyOf(r, D) == IF r.pc \in Late THEN r.doc ELSE IF r.pc \in Early THEN {} ELSE D

LEMMA TallyWork ==
  ASSUME IInv, Tallied, NEW w \in Writers, NEW k \in Keys, NEW r, r = task[w],
         NEW q \in Task, task' = [task EXCEPT ![w] = q],
         q.pc # "idle" => q.key = k, r.pc # "idle" => r.key = k,
         \A v \in Writers \ {w} : ~On(task[v], k),
         \A j \in Keys \ {k} : DocIn(docs', j) = DocIn(docs, j),
         NEW D \in Texts, D = DocIn(docs, k), r.pc \in Late => D = {},
         NEW E \in Texts, E = DocIn(docs', k), q.pc \in Late => E = {},
         Recounts(stats, stats', TallyOf(r, D), TallyOf(q, E)),
         stats' = stats \/ r.pc \in {"dec", "inc"},
         q.pc \in {"dec", "inc"} =>
           q.read = stats' /\ \A v \in Writers \ {w} : task[v].pc \notin {"dec", "inc"},
         q.pc \in {"retract", "undoc"} \cup Late => q.doc # {},
         q.pc \in {"retract", "undoc"} => q.doc = E
  PROVE  Tallied'
<1>1. r.doc \in Texts /\ q.doc \in Texts
  BY DEF IInv, Types, Task
<1>2. Tally(task, docs, k) = TallyOf(r, D)
  <2>1. PICK ts, d : ts = task /\ d = docs
    OBVIOUS
  <2>2. r = ts[w] /\ (\A v \in Writers \ {w} : ~On(ts[v], k)) /\ D = DocIn(d, k)
    BY <2>1
  <2>3. Tally(ts, d, k) = IF r.pc \in Late THEN r.doc ELSE IF r.pc \in Early THEN {} ELSE D
    BY <1>1, <2>2, TallyAt
  <2> QED
    BY <2>1, <2>3 DEF TallyOf
<1>3. Tally(task', docs', k) = TallyOf(q, E)
  <2>1. PICK us, e : us = task' /\ e = docs'
    OBVIOUS
  <2>2. \A v \in Writers : us[v] = IF v = w THEN q ELSE task[v]
    BY <2>1 DEF IInv, Types
  <2>3. q = us[w] /\ \A v \in Writers \ {w} : ~On(us[v], k)
    BY <2>2
  <2>4. E = DocIn(e, k)
    BY <2>1
  <2>5. Tally(us, e, k) = IF q.pc \in Late THEN q.doc ELSE IF q.pc \in Early THEN {} ELSE E
    BY <1>1, <2>3, <2>4, TallyAt
  <2> QED
    BY <2>1, <2>5 DEF TallyOf
<1> QED
  BY <1>2, <1>3, TallyStep

(* What the records, and a task alone on its key, are before a step.       *)
LEMMA Records ==
  ASSUME IInv, NEW k \in Keys
  PROVE  DocIn(docs, k) \in Texts /\ DocIn(docs, k) = Doc(k)
BY DEF DocIn, Doc, IInv, Types, Texts

LEMMA WorksAlone ==
  ASSUME IInv, mixed = {}, NEW w \in Writers, NEW r, r = task[w], r.pc # "idle"
  PROVE  /\ r \in Task /\ r.key \in Keys /\ Working(r)
         /\ \A v \in Writers \ {w} : ~On(task[v], r.key)
         /\ r.pc \in {"count_dec", "dec", "delete", "post", "doc"} => DocIn(docs, r.key) = {}
         /\ r.pc \in Early => DocIn(docs, r.key) = r.text
<1>1. PICK k : k = r.key
  OBVIOUS
<1>2. r \in Task /\ k \in Keys /\ Working(r)
  BY <1>1 DEF IInv, Types, Task
<1>3. k \notin mixed
  OBVIOUS
<1>4. (\A v \in Writers \ {w} : ~On(task[v], k)) /\ Stage(r, Indexed(k), Doc(k), Stored(k))
  BY <1>1, <1>3, Alone
<1>5. DocIn(docs, k) = Doc(k)
  BY <1>2, Records
<1> QED
  BY <1>1, <1>2, <1>4, <1>5 DEF Stage, Early

(* A step that leaves records and counters alone, and is not about them.   *)
LEMMA QuietTally ==
  ASSUME IInv, Tallied, NEW w \in Writers, NEW k \in Keys, NEW r, r = task[w],
         NEW q \in Task, task' = [task EXCEPT ![w] = q],
         q.pc # "idle" => q.key = k, r.pc # "idle" => r.key = k,
         \A v \in Writers \ {w} : ~On(task[v], k), docs' = docs, stats' = stats,
         r.pc \notin Late \cup Early, q.pc \notin Late \cup Early,
         q.pc \in {"retract", "undoc"} => q.doc # {} /\ q.doc = DocIn(docs, k)
  PROVE  Tallied'
<1>1. PICK D \in Texts : D = DocIn(docs, k)
  BY Records
<1>2. D = DocIn(docs', k) /\ \A j \in Keys \ {k} : DocIn(docs', j) = DocIn(docs, j)
  BY <1>1
<1>3. Recounts(stats, stats', TallyOf(r, D), TallyOf(q, D))
  BY DEF TallyOf, Recounts
<1>4. q.pc \notin {"dec", "inc"}
  BY DEF Late, Early
<1> QED
  BY <1>1, <1>2, <1>3, <1>4, TallyWork

LEMMA BeginTally ==
  ASSUME IInv, Tallied, mixed' = {}, NEW w \in Writers, NEW k \in Keys,
         RemoveText(w, k) \/ \E text \in Texts : PutText(w, k, text)
  PROVE  Tallied'
<1>1. PICK r : r = task[w]
  OBVIOUS
<1>2. PICK q \in Task : q.pc = "drop" /\ q.key = k /\ task' = [task EXCEPT ![w] = q]
  <2>1. {} \in Texts
    BY DEF Texts
  <2>2. CASE RemoveText(w, k)
    <3>1. PICK q : q = [Idle EXCEPT !.pc = "drop", !.op = "remove", !.key = k]
      OBVIOUS
    <3>2. q \in Task /\ q.pc = "drop" /\ q.key = k
      BY <3>1, IdleTask DEF Idle, Task
    <3> QED
      BY <2>2, <3>1, <3>2 DEF RemoveText
  <2>3. ASSUME NEW text \in Texts, PutText(w, k, text)
        PROVE  \E q \in Task : q.pc = "drop" /\ q.key = k /\ task' = [task EXCEPT ![w] = q]
    <3>1. PICK q : q = [Idle EXCEPT !.pc = "drop", !.key = k, !.text = text]
      OBVIOUS
    <3>2. q \in Task /\ q.pc = "drop" /\ q.key = k
      BY <3>1, IdleTask DEF Idle, Task
    <3> QED
      BY <2>3, <3>1, <3>2 DEF PutText
  <2> QED
    BY <2>2, <2>3
<1>3. r.pc = "idle" /\ docs' = docs /\ stats' = stats
  BY <1>1 DEF RemoveText, PutText, Begin
<1>4. \A v \in Writers \ {w} : ~On(task[v], k)
  <2>1. ~Busy(k)
    BY DEF RemoveText, PutText, Begin
  <2> QED
    BY <2>1 DEF Busy, On
<1>5. /\ q.pc \notin Late \cup Early /\ r.pc \notin Late \cup Early
      /\ q.pc \notin {"retract", "undoc"}
  BY <1>2, <1>3 DEF Late, Early
<1> QED
  BY <1>1, <1>2, <1>3, <1>4, <1>5, QuietTally

(* The steps of a task between its records and its counts.                 *)
LEMMA LoadTally ==
  ASSUME IInv, Tallied, mixed = {}, NEW w \in Writers, DropLoad(w) PROVE Tallied'
<1>1. PICK r, k : r = task[w] /\ k = r.key
  OBVIOUS
<1>2. r.pc = "drop" /\ docs' = docs /\ stats' = stats
  BY <1>1 DEF DropLoad
<1>3. r \in Task /\ k \in Keys /\ \A v \in Writers \ {w} : ~On(task[v], k)
  BY <1>1, <1>2, WorksAlone
<1>4. PICK q \in Task : /\ task' = [task EXCEPT ![w] = q]
                        /\ q.pc # "idle" => q.key = k
                        /\ q.pc \in {"retract", "idle", "delete", "post"}
                        /\ q.pc = "retract" => q.doc # {} /\ q.doc = DocIn(docs, k)
  <2>1. CASE k \in DOMAIN docs
    <3>1. PICK D : D = docs[k] /\ D \in Texts /\ D # {} /\ D = DocIn(docs, k)
      BY <2>1 DEF IInv, Types, DocIn
    <3>2. PICK q : q = [r EXCEPT !.pc = "retract", !.todo = D, !.doc = D]
      OBVIOUS
    <3>3. q \in Task /\ q.pc = "retract" /\ q.key = k /\ q.doc = D
      BY <1>1, <1>3, <3>1, <3>2 DEF Task
    <3>4. task' = [task EXCEPT ![w] = q]
      BY <1>1, <2>1, <3>1, <3>2 DEF DropLoad, IInv, Types
    <3> QED
      BY <3>1, <3>3, <3>4
  <2>2. CASE k \notin DOMAIN docs
    <3>1. task' = [task EXCEPT ![w] = Dropped(r)]
      BY <1>1, <2>2, AfterDropTask DEF DropLoad
    <3>2. PICK n \in Nat : n = Room /\ Within(r.read, n)
      BY <1>1, TaskFacts
    <3>3. Dropped(r) \in Task /\ (Dropped(r).pc # "idle" => Dropped(r).key = r.key)
      BY <1>2, <1>3, <3>2, DroppedTask
    <3>4. Dropped(r).pc \in {"idle", "delete", "post"}
      BY <1>3, IdleTask DEF Dropped, Task
    <3> QED
      BY <1>1, <3>1, <3>3, <3>4
  <2> QED
    BY <2>1, <2>2
<1>5. /\ q.pc \notin Late \cup Early /\ r.pc \notin Late \cup Early
      /\ q.pc \in {"retract", "undoc"} => q.doc # {} /\ q.doc = DocIn(docs, k)
  BY <1>2, <1>4 DEF Late, Early
<1> QED
  BY <1>1, <1>2, <1>3, <1>4, <1>5, QuietTally

LEMMA PostingTally ==
  ASSUME IInv, Tallied, mixed = {}, NEW w \in Writers, NEW t \in Terms, Retract(w, t) \/ Post(w, t)
  PROVE  Tallied'
<1>1. PICK r, k : r = task[w] /\ k = r.key
  OBVIOUS
<1>2. r.pc \in {"retract", "post"} /\ docs' = docs /\ stats' = stats
  BY <1>1 DEF Retract, Post
<1>3. r \in Task /\ k \in Keys /\ \A v \in Writers \ {w} : ~On(task[v], k)
  BY <1>1, <1>2, WorksAlone
<1>4. r.pc = "retract" => r.doc # {} /\ r.doc = DocIn(docs, k)
  BY <1>1 DEF Tallied, Knows
<1>5. PICK p, R : /\ R = r.todo \ {t}
                  /\ p \in IF r.pc = "retract" THEN {"retract", "undoc"} ELSE {"post", "doc"}
                  /\ task' = [task EXCEPT ![w] = [r EXCEPT !.todo = R, !.pc = p]]
  <2>1. CASE Retract(w, t)
    BY <1>1, <2>1 DEF Retract, IInv, Types
  <2>2. CASE Post(w, t)
    BY <1>1, <2>2 DEF Post, IInv, Types
  <2> QED
    BY <2>1, <2>2
<1>6. PICK q : q = [r EXCEPT !.todo = R, !.pc = p]
  OBVIOUS
<1>7. R \in Texts
  BY <1>3, <1>5 DEF Task, Texts
<1>8. q \in Task /\ q.pc = p /\ q.key = k /\ q.doc = r.doc
  BY <1>1, <1>2, <1>3, <1>5, <1>6, <1>7 DEF Task
<1>9. /\ q.pc \notin Late \cup Early /\ r.pc \notin Late \cup Early
      /\ q.pc \in {"retract", "undoc"} => q.doc # {} /\ q.doc = DocIn(docs, k)
  BY <1>2, <1>4, <1>5, <1>8 DEF Late, Early
<1>10. task' = [task EXCEPT ![w] = q]
  BY <1>5, <1>6
<1> QED
  BY <1>1, <1>2, <1>3, <1>8, <1>9, <1>10, QuietTally

LEMMA DeleteTally ==
  ASSUME IInv, Tallied, mixed = {}, NEW w \in Writers, DeleteEntry(w) PROVE Tallied'
<1>1. PICK r, k : r = task[w] /\ k = r.key
  OBVIOUS
<1>2. /\ r.pc = "delete" /\ docs' = docs /\ stats' = stats /\ task' = [task EXCEPT ![w] = Idle]
  BY <1>1 DEF DeleteEntry, Finish
<1>3. r \in Task /\ k \in Keys /\ \A v \in Writers \ {w} : ~On(task[v], k)
  BY <1>1, <1>2, WorksAlone
<1>4. PICK q \in Task : q = Idle /\ q.pc = "idle"
  BY IdleTask
<1>5. q.pc \notin Late \cup Early /\ r.pc \notin Late \cup Early /\ q.pc \notin {"retract", "undoc"}
  BY <1>2, <1>4 DEF Late, Early
<1> QED
  BY <1>1, <1>2, <1>3, <1>4, <1>5, QuietTally

LEMMA DocsTally ==
  ASSUME IInv, Tallied, mixed = {}, NEW w \in Writers, DropDoc(w) \/ PutDoc(w) PROVE Tallied'
<1>1. PICK r, k : r = task[w] /\ k = r.key
  OBVIOUS
<1>2. r.pc \in {"undoc", "doc"} /\ stats' = stats
  BY <1>1 DEF DropDoc, PutDoc
<1>3. /\ r \in Task /\ k \in Keys /\ \A v \in Writers \ {w} : ~On(task[v], k)
      /\ r.pc = "doc" => DocIn(docs, k) = {}
  BY <1>1, <1>2, WorksAlone
<1>4. r.pc = "undoc" => r.doc # {} /\ r.doc = DocIn(docs, k)
  BY <1>1 DEF Tallied, Knows
<1>5. PICK D \in Texts : D = DocIn(docs, k)
  BY <1>3, Records
<1>6. CASE DropDoc(w)
  <2>1. r.pc = "undoc" /\ docs' = Without(docs, k)
    BY <1>1, <1>6 DEF DropDoc
  <2>2. PICK q : q = [r EXCEPT !.pc = "count_dec"]
    OBVIOUS
  <2>3. task' = [task EXCEPT ![w] = q]
    BY <1>1, <1>6, <2>2 DEF DropDoc, Goto, IInv, Types
  <2>4. q \in Task /\ q.pc = "count_dec" /\ q.key = k /\ q.doc = r.doc
    BY <1>1, <1>3, <2>2 DEF Task
  <2>5. DocIn(docs', k) = {} /\ \A j \in Keys \ {k} : DocIn(docs', j) = DocIn(docs, j)
    BY <2>1 DEF DocIn, Without, Restrict
  <2>6. PICK E \in Texts : E = {} /\ E = DocIn(docs', k)
    BY <2>5 DEF Texts
  <2>7. TallyOf(r, D) = D /\ TallyOf(q, E) = D /\ r.pc \notin Late
    BY <1>4, <1>5, <2>1, <2>4 DEF TallyOf, Late, Early
  <2>8. /\ Recounts(stats, stats', TallyOf(r, D), TallyOf(q, E))
        /\ q.doc # {} /\ q.pc \notin {"dec", "inc"} /\ q.pc \notin {"retract", "undoc"}
    BY <1>2, <1>4, <2>1, <2>4, <2>7 DEF Recounts
  <2> QED
    BY <1>1, <1>2, <1>3, <1>5, <2>3, <2>4, <2>5, <2>6, <2>7, <2>8, TallyWork
<1>7. CASE PutDoc(w)
  <2>1. r.pc = "doc" /\ docs' = Put(docs, k, r.text)
    BY <1>1, <1>7 DEF PutDoc
  <2>2. PICK q : q = [r EXCEPT !.pc = "count_inc"]
    OBVIOUS
  <2>3. task' = [task EXCEPT ![w] = q]
    BY <1>1, <1>7, <2>2 DEF PutDoc, Goto, IInv, Types
  <2>4. q \in Task /\ q.pc = "count_inc" /\ q.key = k
    BY <1>1, <1>3, <2>2 DEF Task
  <2>5. DocIn(docs', k) = r.text /\ \A j \in Keys \ {k} : DocIn(docs', j) = DocIn(docs, j)
    BY <2>1 DEF DocIn, Put
  <2>6. PICK E \in Texts : E = DocIn(docs', k)
    BY <1>3, <2>5 DEF Task
  <2>7. TallyOf(r, D) = {} /\ TallyOf(q, E) = {} /\ r.pc \notin Late /\ q.pc \notin Late
    BY <1>3, <1>5, <2>1, <2>4 DEF TallyOf, Late, Early
  <2>8. /\ Recounts(stats, stats', TallyOf(r, D), TallyOf(q, E))
        /\ q.pc \notin {"dec", "inc"} /\ q.pc \notin {"retract", "undoc"}
    BY <1>2, <2>4, <2>7 DEF Recounts
  <2> QED
    BY <1>1, <1>2, <1>3, <1>5, <2>3, <2>4, <2>5, <2>6, <2>7, <2>8, TallyWork
<1> QED
  BY <1>6, <1>7

(* ReadStats, DropCount and IndexCount                                     *)
LEMMA ReadTally ==
  ASSUME IInv, Tallied, mixed = {}, ~miscount', NEW w \in Writers, NEW from, NEW to,
         ReadStats(w, from, to),
         (from = "count_dec" /\ to = "dec") \/ (from = "count_inc" /\ to = "inc")
  PROVE  Tallied'
<1>1. PICK r, k : r = task[w] /\ k = r.key
  OBVIOUS
<1>2. /\ r.pc = from /\ docs' = docs /\ stats' = stats /\ r.pc # "idle"
      /\ \A v \in Writers \ {w} : task[v].pc \notin {"dec", "inc"}
  BY <1>1 DEF ReadStats, Counting
<1>3. /\ r \in Task /\ k \in Keys /\ \A v \in Writers \ {w} : ~On(task[v], k)
      /\ r.pc = "count_dec" => DocIn(docs, k) = {}
  BY <1>1, <1>2, WorksAlone
<1>4. PICK q : q = [r EXCEPT !.pc = to, !.read = stats]
  OBVIOUS
<1>5. task' = [task EXCEPT ![w] = q]
  BY <1>1, <1>4 DEF ReadStats, IInv, Types
<1>6. stats \in Stats
  BY DEF IInv, Types
<1>7. q \in Task /\ q.pc = to /\ q.key = k /\ q.read = stats /\ q.doc = r.doc
  BY <1>1, <1>3, <1>4, <1>6 DEF Task
<1>8. PICK D \in Texts : D = DocIn(docs, k) /\ D = DocIn(docs', k)
  BY <1>2, <1>3, Records
<1>9. /\ TallyOf(r, D) = TallyOf(q, D) /\ (r.pc \in Late => D = {}) /\ (q.pc \in Late => D = {})
      /\ q.pc \notin {"retract", "undoc"}
  BY <1>2, <1>3, <1>7, <1>8 DEF TallyOf, Late, Early
<1>10. Recounts(stats, stats', TallyOf(r, D), TallyOf(q, D))
  BY <1>2, <1>9 DEF Recounts
<1>11. q.pc \in Late => q.doc # {}
  <2>1. Knows(task, docs) /\ (q.pc \in Late => r.pc \in Late)
    BY <1>2, <1>7 DEF Tallied, Late
  <2> QED
    BY <1>1, <1>7, <2>1 DEF Knows
<1>12. \A j \in Keys \ {k} : DocIn(docs', j) = DocIn(docs, j)
  BY <1>2
<1> QED
  BY <1>1, <1>2, <1>3, <1>5, <1>7, <1>8, <1>9, <1>10, <1>11, <1>12, TallyWork

LEMMA DropCountTally ==
  ASSUME IInv, Tallied, mixed = {}, NEW w \in Writers, DropCount(w) PROVE Tallied'
<1>1. PICK r, k : r = task[w] /\ k = r.key
  OBVIOUS
<1>2. r.pc = "dec" /\ docs' = docs /\ stats' = Taken(r.read, r.doc)
  BY <1>1 DEF DropCount, Taken
<1>3. /\ r \in Task /\ k \in Keys /\ \A v \in Writers \ {w} : ~On(task[v], k)
      /\ DocIn(docs, k) = {}
  BY <1>1, <1>2, WorksAlone
<1>4. r.read = stats /\ r.doc # {}
  BY <1>1, <1>2 DEF Tallied, Reads, Knows, Late
<1>5. PICK q : q = Dropped(r)
  OBVIOUS
<1>6. task' = [task EXCEPT ![w] = q]
  BY <1>1, <1>5, AfterDropTask DEF DropCount
<1>7. PICK n \in Nat : n = Room /\ Within(r.read, n)
  BY <1>1, TaskFacts
<1>8. q \in Task /\ (q.pc # "idle" => q.key = k)
  BY <1>1, <1>2, <1>3, <1>5, <1>7, DroppedTask
<1>9. q.pc \in {"idle", "delete", "post"}
  BY <1>3, <1>5, IdleTask DEF Dropped, Task
<1>10. PICK D \in Texts : D = {} /\ D = DocIn(docs, k) /\ D = DocIn(docs', k)
  BY <1>2, <1>3, Records
<1>11. /\ TallyOf(r, D) = r.doc /\ TallyOf(q, D) = {} /\ q.pc \notin Late
       /\ q.pc \notin {"dec", "inc"} /\ q.pc \notin {"retract", "undoc"}
  BY <1>2, <1>9, <1>10 DEF TallyOf, Late, Early
<1>12. Recounts(stats, stats', TallyOf(r, D), TallyOf(q, D))
  BY <1>2, <1>4, <1>11 DEF Recounts
<1>13. \A j \in Keys \ {k} : DocIn(docs', j) = DocIn(docs, j)
  BY <1>2
<1> QED
  BY <1>1, <1>2, <1>3, <1>6, <1>8, <1>10, <1>11, <1>12, <1>13, TallyWork

LEMMA IndexCountTally ==
  ASSUME IInv, Tallied, mixed = {}, NEW w \in Writers, IndexCount(w) PROVE Tallied'
<1>1. PICK r, k : r = task[w] /\ k = r.key
  OBVIOUS
<1>2. r.pc = "inc" /\ docs' = docs /\ stats' = Added(r.read, r.text) /\ task' = [task EXCEPT ![w] = Idle]
  BY <1>1 DEF IndexCount, Added, Finish
<1>3. /\ r \in Task /\ k \in Keys /\ \A v \in Writers \ {w} : ~On(task[v], k)
      /\ DocIn(docs, k) = r.text /\ r.text # {}
  BY <1>1, <1>2, WorksAlone DEF Early, Working
<1>4. r.read = stats
  BY <1>1, <1>2 DEF Tallied, Reads
<1>5. PICK q \in Task : q = Idle /\ q.pc = "idle"
  BY IdleTask
<1>6. PICK D \in Texts : D = r.text /\ D = DocIn(docs, k) /\ D = DocIn(docs', k)
  BY <1>2, <1>3, Records
<1>7. /\ TallyOf(r, D) = {} /\ TallyOf(q, D) = r.text /\ q.pc \notin Late /\ r.pc \notin Late
      /\ q.pc \notin {"dec", "inc"} /\ q.pc \notin {"retract", "undoc"}
  BY <1>2, <1>5, <1>6 DEF TallyOf, Late, Early
<1>8. Recounts(stats, stats', TallyOf(r, D), TallyOf(q, D))
  BY <1>2, <1>3, <1>4, <1>7 DEF Recounts
<1>9. \A j \in Keys \ {k} : DocIn(docs', j) = DocIn(docs, j)
  BY <1>2
<1> QED
  BY <1>1, <1>2, <1>3, <1>5, <1>6, <1>7, <1>8, <1>9, TallyWork

(* A fault of tasks that are not under way, which is all that leaves mixed *)
(* empty.                                                                  *)
LEMMA CutOffTally ==
  ASSUME IInv, Tallied, mixed' = {}, NEW W \in SUBSET Writers, CutOff(W) PROVE Tallied'
<1>1. \A w \in Writers : task[w] \in Task /\ task[w].key \in Keys
  BY DEF IInv, Types, Task
<1>2. \A w \in W : task[w].pc = "idle"
  BY <1>1 DEF CutOff
<1>3. PICK ts, us, d, e : ts = task /\ us = task' /\ d = docs /\ e = docs'
  OBVIOUS
<1>4. e = d /\ stats' = stats /\ \A w \in Writers : us[w] = ts[w] \/ (us[w].pc = "idle" /\ ts[w].pc = "idle")
  BY <1>2, <1>3, IdleTask DEF CutOff
<1>5. \A w \in Writers : \A j : /\ On(us[w], j) <=> On(ts[w], j)
                                /\ On(ts[w], j) => us[w] = ts[w]
  BY <1>4 DEF On
<1>6. ASSUME NEW j PROVE Tally(us, e, j) = Tally(ts, d, j)
  <2>1. ASSUME NEW t \in Terms PROVE t \in Tally(us, e, j) <=> t \in Tally(ts, d, j)
    BY <1>4, <1>5 DEF Tally
  <2> QED
    BY <2>1 DEF Tally
<1>7. TallyKeys(us, e) = TallyKeys(ts, d) /\ TallyPairs(us, e) = TallyPairs(ts, d)
  BY <1>6, TallySame
<1>8. Reads(stats', us) /\ Knows(us, e)
  <2>1. Reads(stats, ts) /\ Knows(ts, d)
    BY <1>3 DEF Tallied
  <2>2. Reads(stats', us)
    BY <1>4, <2>1 DEF Reads
  <2>3. Knows(us, e)
    BY <1>4, <2>1 DEF Knows, Late
  <2> QED
    BY <2>2, <2>3
<1> QED
  BY <1>3, <1>4, <1>7, <1>8 DEF Tallied

(* A step of a loop that leaves the index.                                 *)
Resting(w) ==
  \/ \E s \in Sessions : AppendMessages(w, s) \/ \E k \in Keys : TruncateMessages(w, s, PositionOf(k))
  \/ HideMessage(w) \/ WriteCount(w)

LEMMA NextSteps ==
  ASSUME IInv, [Next]_vars
  PROVE  \/ UNCHANGED vars \/ Cuts \/ Again
         \/ \E w \in Writers :
              \/ Step(w) \/ Resting(w)
              \/ \E k \in Keys : RemoveText(w, k) \/ \E text \in Texts : PutText(w, k, text)
<1>1. ASSUME NEW w \in Writers, DropMessage(w) PROVE \E k \in Keys : RemoveText(w, k)
  <2>1. PICK k \in call[w].rest : RemoveText(w, k)
    BY <1>1 DEF DropMessage
  <2>2. k \in Keys
    BY <2>1, LoopFacts
  <2> QED
    BY <2>1, <2>2
<1>2. ASSUME NEW w \in Writers, NEW text \in Texts, PutMessage(w, text)
      PROVE  \E k \in Keys : PutText(w, k, text)
  BY <1>2 DEF PutMessage
<1>3. ASSUME NEW w \in Writers, NEW k \in Keys PROVE RemoveMemory(w, k) => RemoveText(w, k)
  BY DEF RemoveMemory
<1>4. ASSUME NEW w \in Writers, NEW k \in Keys, NEW text \in Texts
      PROVE  PutMemory(w, k, text) => PutText(w, k, text)
  BY DEF PutMemory
<1> QED
  BY <1>1, <1>2, <1>3, <1>4, FaultKinds DEF Next, Resting, Again

LEMMA TalliedNext ==
  ASSUME IInv, Clean => Tallied, [Next]_vars PROVE (Clean => Tallied)'
<1>1. SUFFICES ASSUME mixed' = {}, ~miscount' PROVE Tallied'
  BY DEF Clean
<1>2. mixed = {} /\ ~miscount
  <2>1. mixed \subseteq mixed' /\ (miscount => miscount')
    <3>1. CASE UNCHANGED vars
      BY <3>1 DEF vars
    <3>2. ASSUME NEW w \in Writers, NEW k \in Keys,
                 RemoveText(w, k) \/ \E text \in Texts : PutText(w, k, text)
          PROVE  mixed \subseteq mixed' /\ (miscount => miscount')
      <4>1. mixed' = mixed \cup (IF Busy(k) THEN {k} ELSE {}) /\ miscount' = miscount
        BY <3>2 DEF RemoveText, PutText, Begin
      <4> QED
        BY <4>1
    <3>3. ASSUME NEW w \in Writers, Step(w) PROVE mixed \subseteq mixed' /\ (miscount => miscount')
      <4>1. mixed' = mixed
        BY <3>3 DEF Step, DeleteEntry, DropLoad, DropDoc, DropCount, PutDoc, IndexCount,
                    ReadStats, Retract, Post, Quiet
      <4>2. ASSUME NEW from, NEW to, ReadStats(w, from, to) PROVE miscount => miscount'
        BY <4>2 DEF ReadStats
      <4>3. CASE \/ DeleteEntry(w) \/ DropLoad(w) \/ DropDoc(w) \/ DropCount(w) \/ PutDoc(w)
                 \/ IndexCount(w)
        <5>1. miscount' = miscount
          BY <4>3 DEF DeleteEntry, DropLoad, DropDoc, DropCount, PutDoc, IndexCount
        <5> QED
          BY <4>1, <5>1
      <4>4. ASSUME NEW t \in Terms, Retract(w, t) \/ Post(w, t) PROVE miscount => miscount'
        <5>1. miscount' = miscount
          BY <4>4 DEF Retract, Post
        <5> QED
          BY <5>1
      <4> QED
        BY <3>3, <4>1, <4>2, <4>3, <4>4 DEF Step
    <3>4. CASE Cuts \/ Again
      <4>1. ASSUME NEW W \in SUBSET Writers, CutOff(W) PROVE mixed \subseteq mixed' /\ (miscount => miscount')
        BY <4>1 DEF CutOff
      <4>2. ASSUME NEW s \in Sessions, CreateAgain(s) PROVE mixed \subseteq mixed' /\ (miscount => miscount')
        BY <4>2 DEF CreateAgain
      <4> QED
        BY <3>4, <4>1, <4>2 DEF Cuts, Again
    <3>5. ASSUME NEW w \in Writers, Resting(w) PROVE mixed \subseteq mixed' /\ (miscount => miscount')
      <4>1. ASSUME NEW s, NEW c, Call(w, s, c) PROVE mixed \subseteq mixed' /\ (miscount => miscount')
        BY <4>1 DEF Call
      <4>2. CASE HideMessage(w) \/ WriteCount(w)
        <5>1. mixed' = mixed /\ miscount' = miscount
          BY <4>2 DEF HideMessage, WriteCount
        <5> QED
          BY <5>1
      <4>3. ASSUME NEW s \in Sessions, AppendMessages(w, s)
            PROVE  mixed \subseteq mixed' /\ (miscount => miscount')
        BY <4>1, <4>3 DEF AppendMessages
      <4>4. ASSUME NEW s \in Sessions, NEW keep, TruncateMessages(w, s, keep)
            PROVE  mixed \subseteq mixed' /\ (miscount => miscount')
        BY <4>1, <4>4 DEF TruncateMessages
      <4> QED
        BY <3>5, <4>2, <4>3, <4>4 DEF Resting
    <3> QED
      BY <3>1, <3>2, <3>3, <3>4, <3>5, NextSteps
  <2> QED
    BY <1>1, <2>1
<1>3. Tallied
  BY <1>2 DEF Clean
<1>4. CASE UNCHANGED vars
  BY <1>3, <1>4 DEF vars, Tallied, Counts, TallyKeys, TallyPairs, Tally, Reads, Knows, DocIn, On
<1>5. ASSUME NEW w \in Writers, Step(w) PROVE Tallied'
  <2>1. CASE ReadStats(w, "count_dec", "dec")
    <3>1. PICK from, to : from = "count_dec" /\ to = "dec"
      OBVIOUS
    <3> QED
      BY <1>1, <1>2, <1>3, <2>1, <3>1, ReadTally
  <2>2. CASE ReadStats(w, "count_inc", "inc")
    <3>1. PICK from, to : from = "count_inc" /\ to = "inc"
      OBVIOUS
    <3> QED
      BY <1>1, <1>2, <1>3, <2>2, <3>1, ReadTally
  <2> QED
    BY <1>2, <1>3, <1>5, <2>1, <2>2, DeleteTally, LoadTally, DocsTally, DropCountTally,
       IndexCountTally, PostingTally DEF Step
<1>6. ASSUME NEW w \in Writers, Resting(w) PROVE Tallied'
  <2>1. task' = task /\ docs' = docs /\ stats' = stats
    BY <1>6 DEF Resting, AppendMessages, TruncateMessages, Call, HideMessage, WriteCount
  <2> QED
    BY <1>3, <2>1 DEF Tallied, Counts, TallyKeys, TallyPairs, Tally, Reads, Knows, DocIn, On
<1>7. ASSUME NEW s \in Sessions, CreateAgain(s) PROVE Tallied'
  <2>1. task' = task /\ docs' = docs /\ stats' = stats
    BY <1>7 DEF CreateAgain
  <2> QED
    BY <1>3, <2>1 DEF Tallied, Counts, TallyKeys, TallyPairs, Tally, Reads, Knows, DocIn, On
<1>8. ASSUME NEW W \in SUBSET Writers, CutOff(W) PROVE Tallied'
  BY <1>1, <1>3, <1>8, CutOffTally
<1> QED
  BY <1>1, <1>3, <1>4, <1>5, <1>6, <1>7, <1>8, BeginTally, NextSteps DEF Cuts, Again

LEMMA TalliedInit ==
  ASSUME Init PROVE Tallied
<1>1. \A w \in Writers : task[w].pc = "idle"
  BY IdleTask DEF Init
<1>2. \A k \in Keys : Tally(task, docs, k) = {}
  BY <1>1 DEF Init, Tally, On, DocIn
<1>3. TallyKeys(task, docs) = {} /\ TallyPairs(task, docs) = {}
  <2>1. TallyKeys(task, docs) = {}
    BY <1>2 DEF TallyKeys
  <2>2. ASSUME NEW p \in Terms \X Keys PROVE p \notin TallyPairs(task, docs)
    <3>1. p[2] \in Keys
      OBVIOUS
    <3> QED
      BY <1>2, <3>1 DEF TallyPairs
  <2> QED
    BY <2>1, <2>2 DEF TallyPairs
<1>4. Counts(stats, {}, {})
  BY FS_EmptySet DEF Counts, Init, NoStats
<1>5. Reads(stats, task) /\ Knows(task, docs)
  BY <1>1 DEF Reads, Knows, Late
<1> QED
  BY <1>3, <1>4, <1>5 DEF Tallied
-----------------------------------------------------------------------------
(* Searches, when nothing is being written                                 *)

AtRest == mixed = {} /\ \A w \in Writers : task[w].pc = "idle"

Found(t) == {k \in DOMAIN entries : t \in Held[k]}

LEMMA RestMatches ==
  ASSUME IInv, AtRest
  PROVE  /\ \A k \in Keys : Indexed(k) = Stored(k) /\ DocIn(docs, k) = Stored(k)
         /\ \A k \in Keys : Tally(task, docs, k) = Stored(k)
         /\ \A k \in DOMAIN docs : k \in DOMAIN entries /\ docs[k] = Held[k]
<1>1. ASSUME NEW k \in Keys PROVE Indexed(k) = Stored(k) /\ DocIn(docs, k) = Stored(k)
  <2>1. KeyOK(k) /\ k \notin mixed /\ \A w \in Writers : ~On(task[w], k)
    BY DEF IInv, AtRest, On
  <2> QED
    BY <2>1, Records DEF KeyOK, Settled
<1>2. ASSUME NEW k \in Keys PROVE Tally(task, docs, k) = Stored(k)
  <2>1. PICK D \in Texts : D = DocIn(docs, k) /\ D = Stored(k)
    BY <1>1, Records
  <2>2. \A t \in Terms : t \in Tally(task, docs, k) <=> t \in D
    BY <2>1 DEF Tally, On, AtRest
  <2>3. D \subseteq Terms /\ Tally(task, docs, k) \subseteq Terms
    BY DEF Texts, Tally
  <2> QED
    BY <2>1, <2>2, <2>3
<1>3. ASSUME NEW k \in DOMAIN docs PROVE k \in DOMAIN entries /\ docs[k] = Held[k]
  <2>1. k \in Keys /\ docs[k] # {}
    BY DEF IInv, Types
  <2>2. docs[k] = Stored(k)
    BY <1>1, <2>1 DEF DocIn
  <2>3. k \in DOMAIN entries
    BY <2>1, <2>2 DEF Stored, IndexedText, IInv, Types
  <2> QED
    BY <2>2, <2>3 DEF Stored, Held
<1> QED
  BY <1>1, <1>2, <1>3

(* A posting of a term leads to one of the documents that are counted.     *)
LEMMA FewPostings ==
  ASSUME IInv, AtRest, Tallied, NEW t \in Terms
  PROVE  Cardinality(Postings({t})) <= stats.docs
<1>1. PICK S, L : S = TallyKeys(task, docs) /\ L = Postings({t})
  OBVIOUS
<1>2. IsFiniteSet(S) /\ stats.docs = Cardinality(S) /\ Cardinality(S) \in Nat
  BY <1>1, FS_CardinalityType DEF Tallied, Counts
<1>3. IsFiniteSet({t}) /\ Cardinality({t}) = 1
  BY FS_Singleton
<1>4. PICK R : R = {t} \X S
  OBVIOUS
<1>5. IsFiniteSet(R) /\ Cardinality(R) = Cardinality(S)
  <2>1. IsFiniteSet(R) /\ Cardinality(R) = Cardinality({t}) * Cardinality(S)
    BY <1>2, <1>3, <1>4, FS_Product
  <2> QED
    BY <1>2, <1>3, <2>1
<1>6. L \in SUBSET R
  <2>1. ASSUME NEW p \in L PROVE p \in R
    <3>1. p \in postings /\ p \in Terms \X Keys /\ p[1] = t
      BY <1>1 DEF Postings, IInv, Types
    <3>2. PICK k \in Keys : p = <<t, k>>
      BY <3>1
    <3>3. t \in Indexed(k)
      BY <3>1, <3>2 DEF Indexed
    <3>4. t \in Tally(task, docs, k)
      BY <3>3, RestMatches
    <3>5. k \in S
      BY <1>1, <3>4 DEF TallyKeys
    <3> QED
      BY <1>4, <3>2, <3>5
  <2> QED
    BY <2>1
<1>7. Cardinality(L) <= Cardinality(R)
  BY <1>5, <1>6, FS_Subset
<1> QED
  BY <1>1, <1>2, <1>5, <1>7

(* Where there is a document with a term, the counters are positive.       *)
LEMMA CountersPositive ==
  ASSUME IInv, AtRest, Tallied, NEW t \in Terms, NEW k \in Found(t)
  PROVE  stats.docs > 0 /\ stats.total_len > 0 /\ TallyPairs(task, docs) # {}
<1>1. k \in Keys /\ t \in Stored(k)
  BY DEF Found, Held, Stored, IInv, Types
<1>2. t \in Tally(task, docs, k)
  BY <1>1, RestMatches
<1>3. k \in TallyKeys(task, docs)
  BY <1>1, <1>2 DEF TallyKeys
<1>4. <<t, k>> \in TallyPairs(task, docs)
  BY <1>1, <1>2 DEF TallyPairs
<1>5. PICK S, P : S = TallyKeys(task, docs) /\ P = TallyPairs(task, docs)
  OBVIOUS
<1>6. S # {} /\ P # {}
  BY <1>3, <1>4, <1>5
<1>7. IsFiniteSet(S) /\ stats.docs = Cardinality(S) /\ IsFiniteSet(P) /\ stats.total_len = Cardinality(P)
  BY <1>5 DEF Tallied, Counts
<1>8. Cardinality(S) \in Nat /\ Cardinality(S) # 0 /\ Cardinality(P) \in Nat /\ Cardinality(P) # 0
  BY <1>6, <1>7, FS_CardinalityType, FS_EmptySet
<1> QED
  BY <1>5, <1>6, <1>7, <1>8

(* A key without an entry holds nothing.                                   *)
LEMMA StoredHeld ==
  ASSUME IInv PROVE \A k : k \notin DOMAIN entries => Stored(k) = {}
BY DEF IInv, Types, Stored, IndexedText

LEMMA SearchFinds ==
  ASSUME IInv, AtRest, Tallied, NEW t \in Terms
  PROVE  Search({t}) = Found(t) /\ Found(t) \subseteq DOMAIN docs
<1>1. ASSUME NEW k PROVE k \in Found(t) <=> k \in DOMAIN docs /\ <<t, k>> \in Postings({t})
  <2>1. CASE k \in Keys
    <3>1. k \in Found(t) <=> t \in Stored(k)
      BY <2>1, StoredHeld DEF Found, Held, Stored
    <3>2. <<t, k>> \in Postings({t}) <=> <<t, k>> \in postings
      BY DEF Postings
    <3>3. <<t, k>> \in postings <=> t \in Indexed(k)
      BY DEF Indexed
    <3>4. Indexed(k) = Stored(k) /\ DocIn(docs, k) = Stored(k)
      BY <2>1, RestMatches
    <3>5. t \in DocIn(docs, k) => k \in DOMAIN docs
      BY DEF DocIn
    <3> QED
      BY <3>1, <3>2, <3>3, <3>4, <3>5
  <2>2. CASE k \notin Keys
    BY <2>2 DEF Found, IInv, Types
  <2> QED
    BY <2>1, <2>2
<1>2. ASSUME NEW k \in Found(t) PROVE PositiveIdf(Cardinality(Postings({t})))
  BY <1>2, FewPostings, CountersPositive DEF PositiveIdf
<1>3. ASSUME NEW k
      PROVE  k \in Search({t}) <=> /\ k \in DOMAIN docs /\ <<t, k>> \in Postings({t})
                                   /\ PositiveIdf(Cardinality(Postings({t})))
  BY DEF Search
<1> QED
  BY <1>1, <1>2, <1>3

LEMMA RankFinds ==
  ASSUME IInv, AtRest, Tallied, NEW t \in Terms
  PROVE  Rank(Held, t) = Found(t)
<1>1. PICK L : L = {p \in Terms \X DOMAIN Held : p[1] \in Held[p[2]]}
  OBVIOUS
<1>2. L = TallyPairs(task, docs)
  <2>1. DOMAIN Held = DOMAIN entries /\ DOMAIN entries \subseteq Keys
    BY DEF IInv, Types, Held
  <2>2. ASSUME NEW p PROVE p \in L <=> p \in TallyPairs(task, docs)
    <3>1. CASE p \in Terms \X Keys
      <4>1. p[1] \in Terms /\ p[2] \in Keys /\ p = <<p[1], p[2]>>
        BY <3>1
      <4>2. p \in TallyPairs(task, docs) <=> p[1] \in Stored(p[2])
        BY <3>1, <4>1, RestMatches DEF TallyPairs
      <4>3. p \in Terms \X DOMAIN Held <=> p[2] \in DOMAIN entries
        BY <2>1, <4>1
      <4> QED
        BY <1>1, <4>1, <4>2, <4>3, StoredHeld DEF Held, Stored
    <3>2. CASE p \notin Terms \X Keys
      BY <1>1, <2>1, <3>2 DEF TallyPairs
    <3> QED
      BY <3>1, <3>2
  <2> QED
    BY <2>2
<1>3. Rank(Held, t) = IF Cardinality(L) = 0 THEN {} ELSE Found(t)
  BY <1>1 DEF Rank, Found, Held
<1>4. IsFiniteSet(L)
  BY <1>2 DEF Tallied, Counts
<1>5. ASSUME NEW k \in Found(t) PROVE Cardinality(L) # 0
  <2>1. L # {}
    BY <1>2, CountersPositive
  <2> QED
    BY <1>4, <2>1, FS_EmptySet
<1> QED
  BY <1>3, <1>5

(* In a session without gaps, a message's line is its position.            *)
LEMMA LineIsPosition ==
  ASSUME IInv, Gapless, NEW k \in DOMAIN entries
  PROVE  Line(entries, k) = PositionOf(k)
<1>1. DOMAIN entries \subseteq Keys
  BY DEF IInv, Types
<1>2. PICK s, n : s = SessionOf(k) /\ n = PositionOf(k) /\ n \in Nat
  BY <1>1, KeysAssumption DEF PositionOf
<1>3. PICK L : L = {j \in DOMAIN entries : SessionOf(j) = s /\ PositionOf(j) < n}
  OBVIOUS
<1>4. PICK I : I = 0..(n - 1)
  OBVIOUS
<1>5. IsFiniteSet(I) /\ Cardinality(I) = n
  BY <1>2, <1>4, FS_Interval
<1>6. IsFiniteSet({s}) /\ Cardinality({s}) = 1
  BY FS_Singleton
<1>7. Cardinality({s} \X I) = n
  <2>1. Cardinality({s} \X I) = Cardinality({s}) * Cardinality(I)
    BY <1>5, <1>6, FS_Product
  <2> QED
    BY <1>2, <1>5, <1>6, <2>1
<1>8. L = {s} \X I
  <2>1. ASSUME NEW j \in L PROVE j \in {s} \X I
    <3>1. j = <<j[1], j[2]>> /\ j[2] \in Nat /\ j[1] = s /\ j[2] < n
      BY <1>1, <1>3, KeysAssumption DEF SessionOf, PositionOf
    <3>2. j[2] \in I
      BY <1>2, <1>4, <3>1
    <3> QED
      BY <3>1, <3>2
  <2>2. ASSUME NEW p \in {s} \X I PROVE p \in L
    <3>1. PICK i \in I : p = <<s, i>>
      OBVIOUS
    <3>2. i \in Nat /\ i < n /\ i \in 0..PositionOf(k)
      BY <1>2, <1>4
    <3>3. p \in DOMAIN entries
      BY <1>2, <3>1, <3>2 DEF Gapless
    <3>4. SessionOf(p) = s /\ PositionOf(p) = i
      BY <3>1 DEF SessionOf, PositionOf
    <3> QED
      BY <1>3, <3>2, <3>3, <3>4
  <2> QED
    BY <2>1, <2>2
<1>9. Line(entries, k) = Cardinality(L)
  BY <1>2, <1>3 DEF Line
<1> QED
  BY <1>2, <1>7, <1>8, <1>9

LEMMA SameWindow ==
  ASSUME IInv, Gapless, NEW s, NEW i
  PROVE  WindowOf(s, i) = Window(s, i)
<1>1. \A k \in DOMAIN entries : Line(entries, k) = PositionOf(k)
  BY LineIsPosition
<1>2. PICK W : W = Minus(i, Before)..(i + After)
  OBVIOUS
<1>3. PICK A : A = {k \in DOMAIN entries : SessionOf(k) = s /\ PositionOf(k) \in W}
  OBVIOUS
<1>4. A = {k \in DOMAIN entries : SessionOf(k) = s /\ Line(entries, k) \in W}
  BY <1>1, <1>3
<1>5. Window(s, i) = {<<PositionOf(k), entries[k]>> : k \in A}
  BY <1>2, <1>3 DEF Window
<1>6. WindowOf(s, i) = {<<Line(entries, k), entries[k]>> : k \in A}
  BY <1>2, <1>4 DEF WindowOf
<1>7. \A k \in A : Line(entries, k) = PositionOf(k)
  BY <1>1, <1>3
<1> QED
  BY <1>5, <1>6, <1>7

LEMMA SameBest ==
  ASSUME NEW found, NEW f, NEW g, \A k \in found : f[k] = g[k]
  PROVE  Best(found, f) = Best(found, g)
BY DEF Best

LEMMA SearchesAgree ==
  ASSUME IInv, Clean => Tallied PROVE SearchAgrees
<1>1. SUFFICES ASSUME ~miscount, AtRest, NEW t \in Terms
      PROVE  /\ Recall(t) = Rank(Held, t)
             /\ Gapless => SearchSessions(t) = ScanSessions(Held, t)
  BY DEF SearchAgrees, AtRest
<1>2. Tallied
  BY <1>1 DEF Clean, AtRest
<1>3. Search({t}) = Found(t) /\ Rank(Held, t) = Found(t) /\ Found(t) \subseteq DOMAIN docs
  BY <1>1, <1>2, SearchFinds, RankFinds
<1>4. Recall(t) = Rank(Held, t)
  BY <1>3 DEF Recall, Found
<1>5. ASSUME Gapless PROVE SearchSessions(t) = ScanSessions(Held, t)
  <2>1. PICK H : H = Best(Found(t), docs)
    OBVIOUS
  <2>2. \A k \in Found(t) : docs[k] = Held[k]
    BY <1>1, <1>3, RestMatches
  <2>3. H = Best(Found(t), Held)
    BY <2>1, <2>2, SameBest
  <2>4. \A k \in H : k \in DOMAIN entries
    BY <2>1 DEF Best, Found
  <2>5. \A k \in H : Line(entries, k) = PositionOf(k)
    BY <1>5, <2>4, LineIsPosition
  <2>6. \A k \in H : WindowOf(SessionOf(k), Line(entries, k)) = Window(SessionOf(k), PositionOf(k))
    BY <1>5, <2>5, SameWindow
  <2>7. SearchSessions(t) = {[session |-> SessionOf(k), msg_idx |-> PositionOf(k),
                              window |-> Window(SessionOf(k), PositionOf(k))] : k \in H}
    BY <1>3, <2>1 DEF SearchSessions
  <2>8. ScanSessions(Held, t)
          = {[session |-> SessionOf(k), msg_idx |-> Line(entries, k),
              window |-> WindowOf(SessionOf(k), Line(entries, k))] : k \in H}
    <3>1. \A k : Line(Held, k) = Line(entries, k)
      BY DEF Held, Line
    <3> QED
      BY <1>3, <2>3, <3>1 DEF ScanSessions
  <2> QED
    BY <2>5, <2>6, <2>7, <2>8
<1> QED
  BY <1>4, <1>5

(* search.rs: "a query ranks the same here as against a store that keeps   *)
(* postings".  However many tasks have put and removed entries: once they  *)
(* are done, and none of them worked on another's entry or counted while   *)
(* another did, the counters are exact, a search of the index finds what   *)
(* a ranking of all entries finds by the texts they were indexed with, and *)
(* of each session without gaps the same best message in the same window.  *)
THEOREM SearchMatchesRanking == Spec => []SearchAgrees
<1>1. Init => IInv /\ (Clean => Tallied)
  BY Initially, TalliedInit
<1>2. IInv /\ (Clean => Tallied) /\ [Next]_vars => IInv' /\ (Clean => Tallied)'
  BY Inductive, TalliedNext
<1>3. IInv /\ (Clean => Tallied) => SearchAgrees
  BY SearchesAgree
<1> QED
  BY <1>1, <1>2, <1>3, PTL DEF Spec
-----------------------------------------------------------------------------
(* Which messages the index may hold another text for                      *)

(* The messages of a session, and the first n there can be.                *)
At(s) == {k \in DOMAIN entries : SessionOf(k) = s}
First(s, n) == {s} \X (0..(n - 1))

In(w, s) == call[w].op # "none" /\ call[w].session = s
Going(r) == IF r.pc = "idle" THEN {} ELSE {r.key}

(* What is stored of a session, A, while the call c works on it, the       *)
(* metadata naming n messages and r being the call's task.                 *)
Tracks(c, r, A, n) ==
  LET s == c.session
  IN  /\ c.op = "read" => A = First(s, n) /\ c.next = n
      /\ c.op = "append" => A = First(s, c.next)
      /\ c.op = "truncate" => /\ A = First(s, c.next) \cup c.rest \cup Going(r)
                              /\ (c.rest \cup Going(r)) \cap First(s, c.next) = {}
                              /\ c.rest \cap Going(r) = {}

(* A call is about its session, and its writer's task serves it.           *)
Serves(c, r) == r.pc # "idle" =>
  /\ (c.op = "append" /\ r.op = "put") \/ (c.op = "truncate" /\ r.op = "remove")
  /\ SessionOf(r.key) = c.session
  /\ r.pc = "delete" => r.op = "remove"
Follows(c, r) == Serves(c, r) /\ \A k \in c.rest : SessionOf(k) = c.session

InOrder(s) ==
  /\ \A v, w \in Writers : In(v, s) /\ In(w, s) => v = w
  /\ \A w \in Writers : In(w, s) => Tracks(call[w], task[w], At(s), count[s])
  /\ (\A w \in Writers : ~In(w, s)) => At(s) = First(s, count[s])
  /\ \A k \in DOMAIN left : SessionOf(k) # s

(* One call at a time worked on the session, or two did at some time.      *)
Whole(s) == \A k \in Keys : SessionOf(k) = s => k \notin mixed
Apart(s) == \A k \in Keys : SessionOf(k) = s => k \in mixed

Messages ==
  /\ faults \in Nat
  /\ index = "memory" => DOMAIN left = {}
  /\ index = "messages" /\ faults = 0 =>
       /\ \A w \in Writers : Follows(call[w], task[w])
       /\ \A s \in Sessions : (Whole(s) \/ Apart(s)) /\ (Whole(s) => InOrder(s))

LEMMA FirstCount ==
  ASSUME NEW s, NEW n \in Nat
  PROVE  IsFiniteSet(First(s, n)) /\ Cardinality(First(s, n)) = n
<1>1. PICK I : I = 0..(n - 1)
  OBVIOUS
<1>2. IsFiniteSet(I) /\ Cardinality(I) = n
  BY <1>1, FS_Interval
<1>3. IsFiniteSet({s}) /\ Cardinality({s}) = 1
  BY FS_Singleton
<1>4. IsFiniteSet({s} \X I) /\ Cardinality({s} \X I) = Cardinality({s}) * Cardinality(I)
  BY <1>2, <1>3, FS_Product
<1> QED
  BY <1>1, <1>2, <1>3, <1>4 DEF First

LEMMA FirstNext ==
  ASSUME NEW s, NEW n \in Nat, NEW k, k = <<s, n>>
  PROVE  First(s, n + 1) = First(s, n) \cup {k} /\ k \notin First(s, n)
<1>1. ASSUME NEW x PROVE x \in First(s, n + 1) <=> x \in First(s, n) \/ x = k
  <2>1. 0..n = 0..(n - 1) \cup {n} /\ n \notin 0..(n - 1) /\ n + 1 - 1 = n
    OBVIOUS
  <2> QED
    BY <2>1 DEF First
<1>2. n \notin 0..(n - 1)
  OBVIOUS
<1> QED
  BY <1>1, <1>2 DEF First

(* In a session whose messages are the first n, a line is a position.      *)
LEMMA FirstLine ==
  ASSUME NEW s, NEW n \in Nat, At(s) = First(s, n), NEW k \in At(s)
  PROVE  Line(entries, k) = PositionOf(k) /\ PositionOf(k) \in 0..(n - 1) /\ k = <<s, PositionOf(k)>>
<1>1. PICK i \in 0..(n - 1) : k = <<s, i>>
  BY DEF First
<1>2. SessionOf(k) = s /\ PositionOf(k) = i /\ i \in Nat
  BY <1>1 DEF SessionOf, PositionOf
<1>3. PICK L : L = {j \in DOMAIN entries : SessionOf(j) = s /\ PositionOf(j) < i}
  OBVIOUS
<1>4. L = First(s, i)
  <2>1. L = {j \in At(s) : PositionOf(j) < i}
    BY <1>3 DEF At
  <2>2. ASSUME NEW j PROVE j \in First(s, n) /\ PositionOf(j) < i <=> j \in First(s, i)
    <3>1. j \in First(s, n) <=> \E m \in 0..(n - 1) : j = <<s, m>>
      BY DEF First
    <3>2. j \in First(s, i) <=> \E m \in 0..(i - 1) : j = <<s, m>>
      BY DEF First
    <3>3. \A m : j = <<s, m>> => PositionOf(j) = m
      BY DEF PositionOf
    <3>4. \A m \in 0..(n - 1) : m < i <=> m \in 0..(i - 1)
      BY <1>2
    <3>5. \A m \in 0..(i - 1) : m \in 0..(n - 1)
      BY <1>1
    <3> QED
      BY <3>1, <3>2, <3>3, <3>4, <3>5
  <2> QED
    BY <2>1, <2>2
<1>5. Line(entries, k) = Cardinality(L)
  BY <1>2, <1>3 DEF Line
<1> QED
  BY <1>1, <1>2, <1>4, <1>5, FirstCount

(* A step of one writer in its call on the session z.                      *)
LEMMA SessionStep ==
  ASSUME IInv, Messages, index = "messages", index' = index, faults = 0, faults' = 0,
         NEW w \in Writers, NEW z \in Sessions, NEW c \in Loop, NEW q \in Task,
         call' = [call EXCEPT ![w] = c], task' = [task EXCEPT ![w] = q], Follows(c, q),
         call[w].op # "none" => call[w].session = z, c.op # "none" => c.session = z,
         \A s \in Sessions \ {z} : At(s)' = At(s) /\ count'[s] = count[s],
         \A k \in DOMAIN left' : k \in DOMAIN left \/ SessionOf(k) = z,
         \A k \in Keys : SessionOf(k) # z => (k \in mixed' <=> k \in mixed),
         Whole(z)' \/ Apart(z)',
         Whole(z)' => /\ \A v \in Writers \ {w} : ~In(v, z)
                      /\ c.op # "none" => Tracks(c, q, At(z)', count'[z])
                      /\ c.op = "none" => At(z)' = First(z, count'[z])
                      /\ \A k \in DOMAIN left' : SessionOf(k) # z
  PROVE  Messages'
<1>1. /\ \A v \in Writers : call'[v] = IF v = w THEN c ELSE call[v]
      /\ \A v \in Writers : task'[v] = IF v = w THEN q ELSE task[v]
  BY DEF IInv, Types, Calling
<1>2. \A v \in Writers : Follows(call'[v], task'[v])
  BY <1>1 DEF Messages
<1>3. ASSUME NEW s \in Sessions, s # z
      PROVE  (Whole(s)' \/ Apart(s)') /\ (Whole(s)' => InOrder(s)')
  <2>1. (Whole(s)' <=> Whole(s)) /\ (Apart(s)' <=> Apart(s))
    BY <1>3 DEF Whole, Apart, SessionOf
  <2>2. (Whole(s) \/ Apart(s)) /\ (Whole(s) => InOrder(s))
    BY DEF Messages
  <2>3. \A v \in Writers : /\ In(v, s)' <=> In(v, s)
                           /\ In(v, s) => call'[v] = call[v] /\ task'[v] = task[v]
    BY <1>1, <1>3 DEF In
  <2>4. At(s)' = At(s) /\ count'[s] = count[s]
    BY <1>3
  <2>5. ASSUME InOrder(s) PROVE InOrder(s)'
    <3>1. \A u, v \in Writers : In(u, s)' /\ In(v, s)' => u = v
      BY <2>3, <2>5 DEF InOrder
    <3>2. \A v \in Writers : In(v, s)' => Tracks(call'[v], task'[v], At(s)', count'[s])
      BY <2>3, <2>4, <2>5 DEF InOrder
    <3>3. (\A v \in Writers : ~In(v, s)') => At(s)' = First(s, count'[s])
      BY <2>3, <2>4, <2>5 DEF InOrder
    <3>4. \A k \in DOMAIN left' : SessionOf(k) # s
      BY <1>3, <2>5 DEF InOrder
    <3>5. (\A v \in Writers : ~In(v, s))' <=> \A v \in Writers : ~In(v, s)'
      BY DEF In
    <3> QED
      BY <3>1, <3>2, <3>3, <3>4, <3>5 DEF InOrder, In, Tracks, Going, SessionOf, First
  <2> QED
    BY <2>1, <2>2, <2>5
<1>4. ASSUME Whole(z)' PROVE InOrder(z)'
  <2>1. \A v \in Writers : In(v, z)' <=> v = w /\ c.op # "none"
    BY <1>1, <1>4 DEF In
  <2>2. \A u, v \in Writers : In(u, z)' /\ In(v, z)' => u = v
    BY <2>1
  <2>3. \A v \in Writers : In(v, z)' => Tracks(call'[v], task'[v], At(z)', count'[z])
    BY <1>1, <1>4, <2>1
  <2>4. (\A v \in Writers : ~In(v, z)') => At(z)' = First(z, count'[z])
    BY <1>4, <2>1
  <2>5. \A k \in DOMAIN left' : SessionOf(k) # z
    BY <1>4
  <2> QED
    BY <2>2, <2>3, <2>4, <2>5 DEF InOrder, In, Tracks, Going, SessionOf, First
<1>5. \A s \in Sessions : (Whole(s)' \/ Apart(s)') /\ (Whole(s)' => InOrder(s)')
  BY <1>3, <1>4
<1>6. (\A v \in Writers : Follows(call[v], task[v]))'
  BY <1>2 DEF Follows, Serves, SessionOf
<1>7. (\A s \in Sessions : (Whole(s) \/ Apart(s)) /\ (Whole(s) => InOrder(s)))'
  BY <1>5 DEF Sessions
<1> QED
  BY <1>6, <1>7 DEF Messages

(* What holds of the session a writer is in a call of.                     *)
LEMMA CallFacts ==
  ASSUME IInv, Messages, index = "messages", NEW w \in Writers, NEW c, c = call[w],
         c.op # "none", NEW z, z = c.session
  PROVE  /\ z \in Sessions /\ c \in Loop /\ count[z] \in Nat
         /\ faults = 0 => Whole(z) \/ Apart(z)
         /\ faults = 0 /\ Whole(z) => /\ \A v \in Writers \ {w} : ~In(v, z)
                                      /\ Tracks(c, task[w], At(z), count[z])
                                      /\ \A k \in DOMAIN left : SessionOf(k) # z
<1>1. z \in Sessions /\ c \in Loop /\ count[z] \in Nat
  BY DEF IInv, Calling, Loop
<1>2. In(w, z)
  BY DEF In
<1>3. faults = 0 => (Whole(z) \/ Apart(z)) /\ (Whole(z) => InOrder(z))
  BY <1>1 DEF Messages
<1> QED
  BY <1>1, <1>2, <1>3 DEF InOrder

(* A call that puts or removes a message marks nothing that is not so yet. *)
LEMMA BeginCall ==
  ASSUME IInv, Messages, index = "messages", faults = 0, NEW w \in Writers, call[w].op # "none",
         NEW k \in Keys, SessionOf(k) = call[w].session, Begin(w, k)
  PROVE  mixed' = mixed
<1>1. PICK z : z = call[w].session
  OBVIOUS
<1>2. CASE Whole(z)
  <2>1. \A v \in Writers \ {w} : ~In(v, z)
    BY <1>1, <1>2, CallFacts
  <2>2. \A v \in Writers : Follows(call[v], task[v]) /\ call[v].op \in {"none", "read", "append", "truncate"}
    BY LoopFacts DEF Messages
  <2>3. ASSUME Busy(k) PROVE FALSE
    <3>1. PICK v \in Writers : task[v].pc # "idle" /\ task[v].key = k
      BY <2>3 DEF Busy
    <3>2. v # w
      BY <3>1 DEF Begin
    <3>3. SessionOf(k) = call[v].session /\ call[v].op # "none"
      BY <2>2, <3>1 DEF Follows, Serves
    <3> QED
      BY <1>1, <2>1, <3>2, <3>3 DEF In
  <2> QED
    BY <2>3 DEF Begin
<1>3. CASE Apart(z)
  <2>1. k \in mixed
    BY <1>1, <1>3 DEF Apart
  <2> QED
    BY <2>1 DEF Begin
<1> QED
  BY <1>1, <1>2, <1>3, CallFacts

LEMMA SameMarks ==
  ASSUME mixed' = mixed, NEW z
  PROVE  (Whole(z)' <=> Whole(z)) /\ (Apart(z)' <=> Apart(z))
BY DEF Whole, Apart, SessionOf

(* The messages of the session of a message that is put.                   *)
LEMMA AtPut ==
  ASSUME NEW k, NEW text, entries' = Put(entries, k, text), NEW z, z = SessionOf(k)
  PROVE  At(z)' = At(z) \cup {k} /\ \A s : s # z => At(s)' = At(s)
<1>1. DOMAIN entries' = DOMAIN entries \cup {k}
  BY DEF Put
<1> QED
  BY <1>1 DEF At, SessionOf

LEMMA AtSame ==
  ASSUME entries' = entries PROVE \A s : At(s)' = At(s)
BY DEF At, SessionOf

(* The call goes on after a message, stored where the session's end was.   *)
LEMMA PutOn ==
  ASSUME IInv, Messages, index = "messages", faults = 0, faults' = 0, index' = index,
         count' = count, mixed' = mixed, NEW w \in Writers, call[w].op \in {"read", "append"},
         Advance(w), NEW k, k = <<call[w].session, call[w].next>>,
         NEW text, entries' = Put(entries, k, text),
         NEW q \in Task, task' = [task EXCEPT ![w] = q],
         q.pc # "idle" => q.op = "put" /\ q.key = k /\ q.pc # "delete",
         \A j \in DOMAIN left' : j \in DOMAIN left \/ j = k,
         Whole(call[w].session) => k \notin DOMAIN left'
  PROVE  Messages'
<1>1. PICK b, z, n, m, c : /\ b = call[w] /\ z = b.session /\ n = b.next /\ m = n + 1
                           /\ c = [b EXCEPT !.op = "append", !.next = m]
  OBVIOUS
<1>2. b \in Loop /\ z \in Sessions /\ n \in Nat /\ b.op # "none"
  BY <1>1, LoopFacts
<1>12. m \in Nat
  BY <1>1, <1>2
<1>3. c \in Loop /\ c.op = "append" /\ c.session = z /\ c.next = m /\ c.rest = b.rest
  BY <1>1, <1>2, <1>12 DEF Loop
<1>4. call' = [call EXCEPT ![w] = c]
  BY <1>1 DEF Advance, IInv, Calling
<1>5. SessionOf(k) = z /\ k = <<z, n>>
  BY <1>1 DEF SessionOf
<1>6. At(z)' = At(z) \cup {k} /\ \A s : s # z => At(s)' = At(s)
  BY <1>5, AtPut
<1>7. Follows(c, q)
  <2>1. Follows(b, task[w])
    BY <1>1 DEF Messages
  <2> QED
    BY <1>1, <1>3, <1>5, <2>1 DEF Follows, Serves
<1>8. (Whole(z)' <=> Whole(z)) /\ (Apart(z)' <=> Apart(z))
  BY SameMarks
<1>9. Whole(z) \/ Apart(z)
  BY <1>1, <1>2, CallFacts
<1>10. ASSUME Whole(z)
       PROVE  /\ \A v \in Writers \ {w} : ~In(v, z)
              /\ c.op # "none" => Tracks(c, q, At(z)', count'[z])
              /\ c.op = "none" => At(z)' = First(z, count'[z])
              /\ \A j \in DOMAIN left' : SessionOf(j) # z
  <2>1. /\ \A v \in Writers \ {w} : ~In(v, z)
        /\ Tracks(b, task[w], At(z), count[z]) /\ \A j \in DOMAIN left : SessionOf(j) # z
    BY <1>1, <1>2, <1>10, CallFacts
  <2>2. At(z) = First(z, n)
    BY <1>1, <2>1 DEF Tracks
  <2>3. At(z)' = First(z, m)
    BY <1>1, <1>2, <1>5, <1>6, <2>2, FirstNext
  <2>4. Tracks(c, q, At(z)', count'[z])
    BY <1>3, <2>3 DEF Tracks
  <2> QED
    BY <1>1, <1>3, <1>10, <2>1, <2>4
<1>11. \A j \in DOMAIN left' : j \in DOMAIN left \/ SessionOf(j) = z
  BY <1>5
<1> QED
  BY <1>1, <1>2, <1>3, <1>4, <1>6, <1>7, <1>8, <1>9, <1>10, <1>11, SessionStep

LEMMA PutMessageOrder ==
  ASSUME IInv, Messages, index = "messages", faults = 0, NEW w \in Writers, NEW text \in Texts,
         PutMessage(w, text)
  PROVE  Messages'
<1>1. PICK k : k = <<call[w].session, call[w].next>>
  OBVIOUS
<1>2. /\ k \in Keys /\ PutText(w, k, text) /\ Advance(w) /\ index' = index /\ count' = count
      /\ call[w].op \in {"read", "append"}
  BY <1>1 DEF PutMessage, Ready
<1>3. Begin(w, k) /\ entries' = Put(entries, k, text) /\ left' = Without(left, k) /\ faults' = faults
  BY <1>2 DEF PutText, Begin
<1>4. SessionOf(k) = call[w].session
  BY <1>1 DEF SessionOf
<1>5. mixed' = mixed
  BY <1>2, <1>3, <1>4, BeginCall
<1>6. PICK q : q = [Idle EXCEPT !.pc = "drop", !.key = k, !.text = text]
  OBVIOUS
<1>7. q \in Task /\ q.pc = "drop" /\ q.op = "put" /\ q.key = k
  BY <1>2, <1>6, IdleTask DEF Idle, Task
<1>8. task' = [task EXCEPT ![w] = q]
  BY <1>2, <1>6 DEF PutText
<1>9. DOMAIN left' = DOMAIN left \ {k}
  BY <1>3 DEF Without, Restrict
<1> QED
  BY <1>1, <1>2, <1>3, <1>5, <1>7, <1>8, <1>9, PutOn

(* There is nothing stored where the message goes, so nothing is left.     *)
LEMMA HideMessageOrder ==
  ASSUME IInv, Messages, index = "messages", faults = 0, NEW w \in Writers, HideMessage(w)
  PROVE  Messages'
<1>1. PICK k : k = <<call[w].session, call[w].next>>
  OBVIOUS
<1>2. /\ k \in Keys /\ Advance(w) /\ index' = index /\ count' = count /\ mixed' = mixed
      /\ faults' = faults /\ task' = task /\ entries' = Put(entries, k, {})
      /\ call[w].op \in {"read", "append"} /\ task[w].pc = "idle"
      /\ left' = IF IndexedText(k) = {} THEN left ELSE Put(left, k, IndexedText(k))
  BY <1>1 DEF HideMessage, Ready
<1>3. PICK q : q = task[w]
  OBVIOUS
<1>4. q \in Task /\ task' = [task EXCEPT ![w] = q] /\ q.pc = "idle"
  BY <1>2, <1>3 DEF IInv, Types
<1>5. \A j \in DOMAIN left' : j \in DOMAIN left \/ j = k
  BY <1>2 DEF Put
<1>6. ASSUME Whole(call[w].session) PROVE k \notin DOMAIN left'
  <2>1. PICK c, z, n : c = call[w] /\ z = c.session /\ n = c.next
    OBVIOUS
  <2>2. n \in Nat /\ Tracks(c, task[w], At(z), count[z])
    BY <1>2, <1>6, <2>1, CallFacts, LoopFacts
  <2>3. At(z) = First(z, n)
    BY <1>2, <2>1, <2>2 DEF Tracks
  <2>4. k \notin First(z, n)
    BY <1>1, <2>1, <2>2, FirstNext
  <2>5. k \notin DOMAIN entries
    BY <1>1, <2>1, <2>3, <2>4 DEF At, SessionOf
  <2>6. k \notin DOMAIN left
    BY <2>5 DEF IInv, Types
  <2> QED
    BY <1>2, <2>5, <2>6 DEF IndexedText
<1> QED
  BY <1>1, <1>2, <1>4, <1>5, <1>6, PutOn

(* A call begins: alone on its session, or the session is mixed.           *)
LEMMA CallOrder ==
  ASSUME IInv, Messages, faults = 0, NEW w \in Writers, NEW s \in Sessions, NEW c \in Loop,
         Call(w, s, c), c.session = s, \A k \in c.rest : SessionOf(k) = s, c.op \in {"read", "truncate"},
         At(s) = First(s, count[s]) => Tracks(c, task[w], At(s), count[s])
  PROVE  Messages'
<1>1. /\ index = "messages" /\ call[w].op = "none" /\ task[w].pc = "idle"
      /\ index' = index /\ count' = count /\ call' = [call EXCEPT ![w] = c]
      /\ entries' = entries /\ left' = left /\ task' = task /\ faults' = faults
  BY DEF Call, Ready
<1>2. PICK q : q = task[w]
  OBVIOUS
<1>3. q \in Task /\ task' = [task EXCEPT ![w] = q] /\ q.pc = "idle"
  BY <1>1, <1>2 DEF IInv, Types
<1>4. Follows(c, q)
  BY <1>3 DEF Follows, Serves
<1>5. \A z : At(z)' = At(z)
  BY <1>1, AtSame
<1>6. \A k \in Keys : SessionOf(k) # s => (k \in mixed' <=> k \in mixed)
  BY DEF Call
<1>7. (Whole(s) \/ Apart(s)) /\ (Whole(s) => InOrder(s))
  BY <1>1 DEF Messages
<1>8. PICK k0 \in Keys : SessionOf(k0) = s
  BY DEF Sessions, SessionOf
<1>9. CASE \E v \in Writers \ {w} : call[v].op # "none" /\ call[v].session = s
  <2>1. mixed' = mixed \cup {k \in Keys : SessionOf(k) = s}
    BY <1>9 DEF Call
  <2>2. Apart(s)' /\ ~Whole(s)'
    BY <1>8, <2>1 DEF Apart, Whole, SessionOf
  <2> QED
    BY <1>1, <1>3, <1>4, <1>5, <1>6, <2>2, SessionStep
<1>10. CASE ~\E v \in Writers \ {w} : call[v].op # "none" /\ call[v].session = s
  <2>1. mixed' = mixed
    BY <1>10 DEF Call
  <2>2. (Whole(s)' <=> Whole(s)) /\ (Apart(s)' <=> Apart(s))
    BY <2>1, SameMarks
  <2>3. \A v \in Writers : ~In(v, s)
    BY <1>1, <1>10 DEF In
  <2>4. ASSUME Whole(s)
        PROVE  /\ Tracks(c, q, At(s)', count'[s])
               /\ \A k \in DOMAIN left' : SessionOf(k) # s
    <3>1. At(s) = First(s, count[s]) /\ \A k \in DOMAIN left : SessionOf(k) # s
      BY <1>7, <2>3, <2>4 DEF InOrder
    <3> QED
      BY <1>1, <1>2, <1>5, <3>1
  <2>5. c.op # "none"
    OBVIOUS
  <2> QED
    BY <1>1, <1>3, <1>4, <1>5, <1>6, <1>7, <2>2, <2>3, <2>4, <2>5, SessionStep
<1> QED
  BY <1>9, <1>10

LEMMA AppendMessagesOrder ==
  ASSUME IInv, Messages, faults = 0, NEW w \in Writers, NEW s \in Sessions, AppendMessages(w, s)
  PROVE  Messages'
<1>1. PICK c : c = [op |-> "read", session |-> s, next |-> count[s], rest |-> {}]
  OBVIOUS
<1>2. c \in Loop /\ c.op = "read" /\ c.session = s /\ c.next = count[s] /\ c.rest = {}
  BY <1>1 DEF IInv, Calling, Loop
<1>3. Call(w, s, c)
  BY <1>1 DEF AppendMessages
<1>4. At(s) = First(s, count[s]) => Tracks(c, task[w], At(s), count[s])
  BY <1>2 DEF Tracks
<1> QED
  BY <1>2, <1>3, <1>4, CallOrder

(* The messages from keep on are the rest, and those before stay.          *)
LEMMA TruncateMessagesOrder ==
  ASSUME IInv, Messages, faults = 0, NEW w \in Writers, NEW s \in Sessions, NEW keep \in Nat,
         TruncateMessages(w, s, keep)
  PROVE  Messages'
<1>1. PICK S, n : /\ S = {k \in DOMAIN entries : SessionOf(k) = s}
                  /\ n = IF keep < Cardinality(S) THEN keep ELSE Cardinality(S)
  OBVIOUS
<1>2. S = At(s) /\ Cardinality(S) \in Nat /\ n \in Nat /\ n <= keep
  <2>1. S \in SUBSET DOMAIN entries /\ IsFiniteSet(DOMAIN entries)
    BY <1>1 DEF IInv, Types
  <2>2. Cardinality(S) \in Nat
    BY <2>1, FS_Subset, FS_CardinalityType
  <2> QED
    BY <1>1, <2>2 DEF At
<1>3. PICK R : R = {k \in S : Cut(keep, Line(entries, k))}
  OBVIOUS
<1>4. R \subseteq Keys
  BY <1>1, <1>3 DEF IInv, Types
<1>5. PICK c : c = [op |-> "truncate", session |-> s, next |-> n, rest |-> R]
  OBVIOUS
<1>6. c \in Loop /\ c.op = "truncate" /\ c.session = s /\ c.next = n /\ c.rest = R
  BY <1>2, <1>4, <1>5 DEF Loop
<1>7. Call(w, s, c)
  BY <1>1, <1>3, <1>5 DEF TruncateMessages
<1>8. ASSUME At(s) = First(s, count[s]) PROVE Tracks(c, task[w], At(s), count[s])
  <2>1. PICK m \in Nat : m = count[s] /\ S = First(s, m)
    BY <1>2, <1>8 DEF IInv, Calling
  <2>2. Cardinality(S) = m /\ n <= m
    <3>1. Cardinality(S) = m
      BY <2>1, FirstCount
    <3> QED
      BY <1>1, <3>1
  <2>3. n = keep \/ n = m
    BY <1>1, <2>2
  <2>4. ASSUME NEW k PROVE k \in S <=> k \in First(s, n) \/ k \in R
    <3>1. ASSUME k \in S PROVE k \in First(s, n) \/ k \in R
      <4>1. PICK i \in 0..(m - 1) : i = PositionOf(k) /\ Line(entries, k) = i /\ k = <<s, i>>
        BY <1>2, <2>1, <3>1, FirstLine
      <4>2. i < n => i \in 0..(n - 1)
        BY <1>2
      <4>3. i < n => k \in First(s, n)
        BY <4>1, <4>2 DEF First
      <4>4. i < n \/ i >= keep
        BY <1>2, <2>3
      <4>5. i >= keep => k \in R
        BY <1>3, <3>1, <4>1 DEF Cut
      <4> QED
        BY <4>3, <4>4, <4>5
    <3>2. ASSUME k \in First(s, n) PROVE k \in S
      <4>1. PICK i \in 0..(n - 1) : k = <<s, i>>
        BY <3>2 DEF First
      <4>2. i \in 0..(m - 1)
        BY <1>2, <2>2
      <4> QED
        BY <2>1, <4>1, <4>2 DEF First
    <3>3. k \in R => k \in S
      BY <1>3
    <3> QED
      BY <3>1, <3>2, <3>3
  <2>5. ASSUME NEW k \in R PROVE k \notin First(s, n)
    <3>1. PICK i \in 0..(m - 1) : Line(entries, k) = i /\ k = <<s, i>>
      BY <1>2, <1>3, <2>1, FirstLine
    <3>2. i >= keep
      BY <1>3, <3>1 DEF Cut
    <3>3. i \notin 0..(n - 1)
      BY <1>2, <3>2
    <3> QED
      BY <3>1, <3>3 DEF First
  <2>6. Going(task[w]) = {}
    BY <1>7 DEF Call, Ready, Going
  <2>7. S = First(s, n) \cup R
    BY <2>4
  <2> QED
    BY <1>2, <1>6, <2>5, <2>6, <2>7 DEF Tracks
<1>9. \A k \in R : SessionOf(k) = s
  BY <1>1, <1>3
<1> QED
  BY <1>6, <1>7, <1>8, <1>9, CallOrder

LEMMA DropMessageOrder ==
  ASSUME IInv, Messages, index = "messages", faults = 0, NEW w \in Writers, DropMessage(w)
  PROVE  Messages'
<1>1. PICK k \in call[w].rest : RemoveText(w, k) /\ call' = [call EXCEPT ![w].rest = @ \ {k}]
  BY DEF DropMessage
<1>2. /\ k \in Keys /\ Begin(w, k) /\ entries' = entries /\ left' = left /\ index' = index
      /\ count' = count /\ faults' = faults /\ call[w].op = "truncate" /\ task[w].pc = "idle"
  BY <1>1, LoopFacts DEF DropMessage, RemoveText, Begin, Ready
<1>3. PICK b, z, c : b = call[w] /\ z = b.session /\ c = [b EXCEPT !.rest = b.rest \ {k}]
  OBVIOUS
<1>4. b \in Loop /\ z \in Sessions /\ b.rest \subseteq Keys
  BY <1>3, LoopFacts
<1>5. c \in Loop /\ c.op = "truncate" /\ c.session = z /\ c.next = b.next /\ c.rest = b.rest \ {k}
  BY <1>2, <1>3, <1>4 DEF Loop
<1>6. call' = [call EXCEPT ![w] = c]
  BY <1>1, <1>3 DEF IInv, Calling
<1>7. PICK q : q = [Idle EXCEPT !.pc = "drop", !.op = "remove", !.key = k]
  OBVIOUS
<1>8. q \in Task /\ q.pc = "drop" /\ q.op = "remove" /\ q.key = k
  BY <1>2, <1>7, IdleTask DEF Idle, Task
<1>9. task' = [task EXCEPT ![w] = q]
  BY <1>1, <1>7 DEF RemoveText
<1>10. Whole(z) \/ Apart(z)
  BY <1>2, <1>3, CallFacts
<1>18. \A j \in b.rest : SessionOf(j) = z
  BY <1>2, <1>3 DEF Messages, Follows
<1>11. SessionOf(k) = z
  BY <1>1, <1>2, <1>3, <1>18
<1>12. mixed' = mixed
  BY <1>2, <1>3, <1>11, BeginCall
<1>13. (Whole(z)' <=> Whole(z)) /\ (Apart(z)' <=> Apart(z))
  BY <1>12, SameMarks
<1>14. \A s : At(s)' = At(s)
  BY <1>2, AtSame
<1>15. Follows(c, q)
  BY <1>5, <1>8, <1>11, <1>18 DEF Follows, Serves
<1>16. ASSUME Whole(z)
       PROVE  /\ \A v \in Writers \ {w} : ~In(v, z)
              /\ Tracks(c, q, At(z)', count'[z])
              /\ \A j \in DOMAIN left' : SessionOf(j) # z
  <2>1. /\ \A v \in Writers \ {w} : ~In(v, z)
        /\ Tracks(b, task[w], At(z), count[z]) /\ \A j \in DOMAIN left : SessionOf(j) # z
    BY <1>2, <1>3, <1>16, CallFacts
  <2>2. Going(task[w]) = {} /\ Going(q) = {k}
    BY <1>2, <1>8 DEF Going
  <2>3. PICK A, F, R : A = At(z) /\ F = First(z, b.next) /\ R = b.rest
    OBVIOUS
  <2>4. A = F \cup R /\ R \cap F = {} /\ k \in R
    BY <1>1, <1>2, <1>3, <2>1, <2>2, <2>3 DEF Tracks
  <2>5. A = F \cup (R \ {k}) \cup {k} /\ ((R \ {k}) \cup {k}) \cap F = {} /\ (R \ {k}) \cap {k} = {}
    BY <2>4
  <2>6. Tracks(c, q, A, count'[z])
    BY <1>5, <2>2, <2>3, <2>5 DEF Tracks
  <2> QED
    BY <1>2, <1>14, <2>1, <2>3, <2>6
<1>17. c.op # "none"
  BY <1>5
<1> QED
  BY <1>2, <1>3, <1>4, <1>5, <1>6, <1>8, <1>9, <1>10, <1>12, <1>13, <1>14, <1>15, <1>16, <1>17, SessionStep

LEMMA WriteCountOrder ==
  ASSUME IInv, Messages, index = "messages", faults = 0, NEW w \in Writers, WriteCount(w)
  PROVE  Messages'
<1>1. PICK b, z, n : b = call[w] /\ z = b.session /\ n = b.next
  OBVIOUS
<1>2. /\ entries' = entries /\ left' = left /\ task' = task /\ mixed' = mixed /\ faults' = faults
      /\ index' = index /\ task[w].pc = "idle"
      /\ b.op = "append" \/ (b.op = "truncate" /\ b.rest = {})
      /\ count' = [count EXCEPT ![z] = n] /\ call' = [call EXCEPT ![w] = NoCall]
  BY <1>1 DEF WriteCount, Ready
<1>3. z \in Sessions /\ n \in Nat
  BY <1>1, LoopFacts
<1>4. PICK q : q = task[w]
  OBVIOUS
<1>5. q \in Task /\ task' = [task EXCEPT ![w] = q] /\ q.pc = "idle"
  BY <1>2, <1>4 DEF IInv, Types
<1>6. NoCall \in Loop /\ NoCall.op = "none" /\ NoCall.rest = {}
  BY SomeLoop DEF NoCall
<1>7. Follows(NoCall, q)
  BY <1>5, <1>6 DEF Follows, Serves
<1>8. \A s : At(s)' = At(s)
  BY <1>2, AtSame
<1>9. count'[z] = n /\ \A s \in Sessions \ {z} : count'[s] = count[s]
  BY <1>2, <1>3 DEF IInv, Calling
<1>10. (Whole(z)' <=> Whole(z)) /\ (Apart(z)' <=> Apart(z)) /\ (Whole(z) \/ Apart(z))
  BY <1>1, <1>2, SameMarks, CallFacts
<1>11. ASSUME Whole(z)
       PROVE  /\ \A v \in Writers \ {w} : ~In(v, z)
              /\ At(z)' = First(z, count'[z])
              /\ \A j \in DOMAIN left' : SessionOf(j) # z
  <2>1. /\ \A v \in Writers \ {w} : ~In(v, z)
        /\ Tracks(b, task[w], At(z), count[z]) /\ \A j \in DOMAIN left : SessionOf(j) # z
    BY <1>1, <1>2, <1>11, CallFacts
  <2>2. Going(task[w]) = {}
    BY <1>2 DEF Going
  <2>3. At(z) = First(z, n)
    BY <1>1, <1>2, <2>1, <2>2 DEF Tracks
  <2> QED
    BY <1>2, <1>8, <1>9, <2>1, <2>3
<1> QED
  BY <1>1, <1>2, <1>3, <1>5, <1>6, <1>7, <1>8, <1>9, <1>10, <1>11, SessionStep

(* A task's step that deletes nothing, and one that deletes a message.     *)
LEMMA TaskSteps ==
  ASSUME IInv, NEW w \in Writers, Step(w), ~DeleteEntry(w), NEW r, r = task[w]
  PROVE  /\ r.pc # "idle" /\ entries' = entries /\ left' = left
         /\ \E q \in Task : /\ task' = [task EXCEPT ![w] = q]
                            /\ q.pc = "idle" => r.op = "put"
                            /\ q.pc # "idle" => q.key = r.key /\ q.op = r.op
                            /\ q.pc = "delete" => q.op = "remove"
<1>1. r \in Task /\ Working(r) /\ task \in [Writers -> Task] /\ Room \in Nat /\ Within(r.read, Room)
  BY TaskFacts DEF IInv, Types
<1>2. r.op \in {"put", "remove"}
  BY <1>1 DEF Task
<1>3. ASSUME AfterDrop(w) = task', r.pc # "idle"
      PROVE  \E q \in Task : /\ task' = [task EXCEPT ![w] = q]
                             /\ q.pc = "idle" => r.op = "put"
                             /\ q.pc # "idle" => q.key = r.key /\ q.op = r.op
                             /\ q.pc = "delete" => q.op = "remove"
  <2>1. PICK q : q = Dropped(r)
    OBVIOUS
  <2>2. task' = [task EXCEPT ![w] = q]
    BY <1>3, <2>1, AfterDropTask
  <2>3. q \in Task /\ (q.pc # "idle" => q.key = r.key)
    <3>1. PICK n \in Nat : n = Room
      BY <1>1
    <3> QED
      BY <1>1, <1>3, <2>1, <3>1, DroppedTask
  <2>4. CASE r.op = "remove"
    <3>1. q = [r EXCEPT !.pc = "delete"]
      BY <2>1, <2>4 DEF Dropped
    <3>2. q.pc = "delete" /\ q.op = "remove"
      BY <1>1, <2>4, <3>1 DEF Task
    <3> QED
      BY <2>2, <2>3, <2>4, <3>2
  <2>5. CASE r.op = "put" /\ r.text = {}
    <3>1. q = Idle
      BY <2>1, <2>5 DEF Dropped
    <3> QED
      BY <2>2, <2>3, <2>5, <3>1, IdleTask
  <2>6. CASE r.op = "put" /\ r.text # {}
    <3>1. q = [r EXCEPT !.pc = "post", !.todo = r.text]
      BY <2>1, <2>6 DEF Dropped
    <3>2. q.pc = "post" /\ q.op = "put"
      BY <1>1, <2>6, <3>1 DEF Task
    <3> QED
      BY <2>2, <2>3, <2>6, <3>2
  <2> QED
    BY <1>2, <2>4, <2>5, <2>6
<1>4. ASSUME NEW p \in {"undoc", "retract", "post", "doc", "count_dec", "dec", "count_inc", "inc"},
             NEW q \in Task, q.pc = p, q.key = r.key, q.op = r.op, task' = [task EXCEPT ![w] = q]
      PROVE  \E x \in Task : /\ task' = [task EXCEPT ![w] = x]
                             /\ x.pc = "idle" => r.op = "put"
                             /\ x.pc # "idle" => x.key = r.key /\ x.op = r.op
                             /\ x.pc = "delete" => x.op = "remove"
  <2>1. q.pc # "idle" /\ q.pc # "delete"
    BY <1>4
  <2> QED
    BY <1>4, <2>1
<1>5. CASE DropLoad(w)
  <2>1. r.pc = "drop" /\ entries' = entries /\ left' = left
    BY <1>5 DEF DropLoad
  <2>2. CASE r.key \in DOMAIN docs
    <3>1. PICK D : D = docs[r.key] /\ D \in Texts
      BY <2>2 DEF IInv, Types
    <3>2. PICK q : q = [r EXCEPT !.pc = "retract", !.todo = D, !.doc = D]
      OBVIOUS
    <3>3. q \in Task /\ q.pc = "retract" /\ q.key = r.key /\ q.op = r.op
      BY <1>1, <3>1, <3>2 DEF Task
    <3>4. task' = [task EXCEPT ![w] = q]
      BY <1>1, <1>5, <2>2, <3>1, <3>2 DEF DropLoad
    <3> QED
      BY <1>4, <2>1, <3>3, <3>4
  <2>3. CASE r.key \notin DOMAIN docs
    <3>1. task' = AfterDrop(w)
      BY <1>5, <2>3 DEF DropLoad
    <3> QED
      BY <1>3, <2>1, <3>1
  <2> QED
    BY <2>2, <2>3
<1>6. CASE DropCount(w)
  BY <1>3, <1>6 DEF DropCount
<1>7. ASSUME NEW t \in Terms, Retract(w, t) \/ Post(w, t)
      PROVE  /\ r.pc # "idle" /\ entries' = entries /\ left' = left
             /\ \E q \in Task : /\ task' = [task EXCEPT ![w] = q]
                                /\ q.pc = "idle" => r.op = "put"
                                /\ q.pc # "idle" => q.key = r.key /\ q.op = r.op
                                /\ q.pc = "delete" => q.op = "remove"
  <2>1. PICK p, R : /\ R = r.todo \ {t} /\ p \in {"retract", "undoc", "post", "doc"}
                    /\ task' = [task EXCEPT ![w] = [r EXCEPT !.todo = R, !.pc = p]]
    <3>1. CASE Retract(w, t)
      BY <1>1, <3>1 DEF Retract
    <3>2. CASE Post(w, t)
      BY <1>1, <3>2 DEF Post
    <3> QED
      BY <1>7, <3>1, <3>2
  <2>2. PICK q : q = [r EXCEPT !.todo = R, !.pc = p]
    OBVIOUS
  <2>3. R \in Texts
    BY <1>1, <2>1 DEF Task, Texts
  <2>4. q \in Task /\ q.pc = p /\ q.key = r.key /\ q.op = r.op
    BY <1>1, <2>1, <2>2, <2>3 DEF Task
  <2>5. task' = [task EXCEPT ![w] = q]
    BY <2>1, <2>2
  <2>6. r.pc # "idle" /\ entries' = entries /\ left' = left
    BY <1>7 DEF Retract, Post
  <2> QED
    BY <1>4, <2>1, <2>4, <2>5, <2>6
<1>8. CASE DropDoc(w) \/ PutDoc(w)
  <2>1. PICK p : p \in {"count_dec", "count_inc"} /\ task' = [task EXCEPT ![w].pc = p]
    BY <1>8 DEF DropDoc, PutDoc, Goto
  <2>2. PICK q : q = [r EXCEPT !.pc = p]
    OBVIOUS
  <2>3. q \in Task /\ q.pc = p /\ q.key = r.key /\ q.op = r.op
    BY <1>1, <2>1, <2>2 DEF Task
  <2>4. task' = [task EXCEPT ![w] = q]
    BY <1>1, <2>1, <2>2
  <2>5. r.pc # "idle" /\ entries' = entries /\ left' = left
    BY <1>8 DEF DropDoc, PutDoc
  <2> QED
    BY <1>4, <2>1, <2>3, <2>4, <2>5
<1>9. ASSUME NEW from, NEW to \in {"dec", "inc"}, from # "idle", ReadStats(w, from, to)
      PROVE  /\ r.pc # "idle" /\ entries' = entries /\ left' = left
             /\ \E q \in Task : /\ task' = [task EXCEPT ![w] = q]
                                /\ q.pc = "idle" => r.op = "put"
                                /\ q.pc # "idle" => q.key = r.key /\ q.op = r.op
                                /\ q.pc = "delete" => q.op = "remove"
  <2>1. PICK q : q = [r EXCEPT !.pc = to, !.read = stats]
    OBVIOUS
  <2>2. stats \in Stats
    BY DEF IInv, Types
  <2>3. q \in Task /\ q.pc = to /\ q.key = r.key /\ q.op = r.op
    BY <1>1, <2>1, <2>2 DEF Task
  <2>4. task' = [task EXCEPT ![w] = q]
    BY <1>1, <1>9, <2>1 DEF ReadStats
  <2>5. r.pc # "idle" /\ entries' = entries /\ left' = left
    BY <1>9 DEF ReadStats
  <2> QED
    BY <1>4, <2>3, <2>4, <2>5
<1>10. CASE IndexCount(w)
  <2>1. r.pc = "inc" /\ entries' = entries /\ left' = left /\ task' = [task EXCEPT ![w] = Idle]
    BY <1>10 DEF IndexCount, Finish
  <2>2. r.op = "put"
    BY <1>1, <2>1 DEF Working
  <2> QED
    BY <2>1, <2>2, IdleTask
<1>11. CASE ReadStats(w, "count_dec", "dec") \/ ReadStats(w, "count_inc", "inc")
  BY <1>9, <1>11
<1> QED
  BY <1>5, <1>6, <1>7, <1>8, <1>10, <1>11 DEF Step

LEMMA TaskStepOrder ==
  ASSUME IInv, Messages, index = "messages", faults = 0, NEW w \in Writers, Step(w)
  PROVE  Messages'
<1>1. PICK b, r, z : b = call[w] /\ r = task[w] /\ z = b.session
  OBVIOUS
<1>2. call' = call /\ count' = count /\ index' = index /\ mixed' = mixed /\ faults' = faults
  BY DEF Step, DeleteEntry, DropLoad, DropDoc, DropCount, PutDoc, IndexCount, ReadStats, Retract, Post,
         Quiet, calls
<1>3. b \in Loop /\ z \in Sessions /\ call' = [call EXCEPT ![w] = b]
  BY <1>1, <1>2, LoopFacts DEF Loop
<1>4. r \in Task /\ r.pc # "idle" /\ Follows(b, r)
  <2>1. r.pc # "idle"
    BY <1>1, TaskSteps DEF DeleteEntry
  <2> QED
    BY <1>1, <2>1, TaskFacts DEF Messages
<1>5. /\ (b.op = "append" /\ r.op = "put") \/ (b.op = "truncate" /\ r.op = "remove")
      /\ SessionOf(r.key) = z
      /\ r.pc = "delete" => r.op = "remove"
  BY <1>1, <1>4 DEF Follows, Serves
<1>6. (Whole(z)' <=> Whole(z)) /\ (Apart(z)' <=> Apart(z)) /\ (Whole(z) \/ Apart(z))
  BY <1>1, <1>2, <1>5, SameMarks, CallFacts
<1>7. Whole(z) => /\ \A v \in Writers \ {w} : ~In(v, z)
                  /\ Tracks(b, r, At(z), count[z])
                  /\ \A k \in DOMAIN left : SessionOf(k) # z
  BY <1>1, <1>5, CallFacts
<1>8. CASE ~DeleteEntry(w)
  <2>1. /\ entries' = entries /\ left' = left
        /\ \E q \in Task : /\ task' = [task EXCEPT ![w] = q]
                           /\ q.pc = "idle" => r.op = "put"
                           /\ q.pc # "idle" => q.key = r.key /\ q.op = r.op
                           /\ q.pc = "delete" => q.op = "remove"
    BY <1>1, <1>8, TaskSteps
  <2>2. PICK q \in Task : /\ task' = [task EXCEPT ![w] = q]
                          /\ q.pc = "idle" => r.op = "put"
                          /\ q.pc # "idle" => q.key = r.key /\ q.op = r.op
                          /\ q.pc = "delete" => q.op = "remove"
    BY <2>1
  <2>3. \A s : At(s)' = At(s)
    BY <2>1, AtSame
  <2>4. Follows(b, q)
    BY <1>4, <2>2 DEF Follows, Serves
  <2>5. b.op = "truncate" => Going(q) = Going(r)
    BY <1>4, <1>5, <2>2 DEF Going
  <2>6. ASSUME Whole(z) PROVE Tracks(b, q, At(z)', count'[z])
    BY <1>2, <1>7, <2>3, <2>5, <2>6 DEF Tracks
  <2> QED
    BY <1>1, <1>2, <1>3, <1>5, <1>6, <1>7, <2>1, <2>2, <2>3, <2>4, <2>6, SessionStep
<1>9. CASE DeleteEntry(w)
  <2>1. PICK k : k = r.key
    OBVIOUS
  <2>2. /\ r.pc = "delete" /\ task' = [task EXCEPT ![w] = Idle]
        /\ entries' = Without(entries, k) /\ left' = Without(left, k)
    BY <1>1, <1>9, <2>1 DEF DeleteEntry, Finish
  <2>3. DOMAIN entries' = DOMAIN entries \ {k} /\ DOMAIN left' = DOMAIN left \ {k}
    BY <2>2 DEF Without, Restrict
  <2>4. At(z)' = At(z) \ {k} /\ \A s \in Sessions \ {z} : At(s)' = At(s)
    BY <1>5, <2>1, <2>3 DEF At, SessionOf
  <2>5. PICK q \in Task : q = Idle /\ q.pc = "idle"
    BY IdleTask
  <2>6. Follows(b, q)
    BY <1>4, <2>5 DEF Follows, Serves
  <2>7. b.op = "truncate" /\ Going(r) = {k} /\ Going(q) = {}
    BY <1>4, <1>5, <2>1, <2>2, <2>5 DEF Going
  <2>8. ASSUME Whole(z) PROVE Tracks(b, q, At(z)', count'[z])
    <3>1. PICK A, F, R : A = At(z) /\ F = First(z, b.next) /\ R = b.rest
      OBVIOUS
    <3>2. A = F \cup R \cup {k} /\ (R \cup {k}) \cap F = {} /\ R \cap {k} = {}
      BY <1>1, <1>7, <2>7, <2>8, <3>1 DEF Tracks
    <3>3. A \ {k} = F \cup R \cup {} /\ (R \cup {}) \cap F = {} /\ R \cap {} = {}
      BY <3>2
    <3>4. Tracks(b, q, A \ {k}, count'[z])
      BY <1>1, <2>7, <3>1, <3>3 DEF Tracks
    <3> QED
      BY <2>4, <3>1, <3>4
  <2> QED
    BY <1>1, <1>2, <1>3, <1>5, <1>6, <1>7, <2>2, <2>3, <2>4, <2>5, <2>6, <2>8, SessionStep
<1> QED
  BY <1>8, <1>9

(* No message is hidden where there are none but memory entries.           *)
LEMMA MemoryOrder ==
  ASSUME IInv, Messages, [Next]_vars PROVE index' = index /\ (index = "memory" => DOMAIN left' = {})
<1>1. ASSUME NEW w \in Writers, NEW k \in Keys, RemoveText(w, k)
      PROVE  left' = left
  BY <1>1 DEF RemoveText
<1>2. ASSUME NEW w \in Writers, NEW k \in Keys, NEW text \in Texts, PutText(w, k, text)
      PROVE  left' = Without(left, k)
  BY <1>2 DEF PutText
<1>3. ASSUME NEW k PROVE DOMAIN left = {} => DOMAIN Without(left, k) = {}
  BY DEF Without, Restrict
<1>4. ASSUME NEW w \in Writers, Step(w) PROVE index' = index /\ (left' = left \/ left' = Without(left, task[w].key))
  <2>1. index' = index
    BY <1>4 DEF Step, DeleteEntry, DropLoad, DropDoc, DropCount, PutDoc, IndexCount, ReadStats, Retract, Post,
                Quiet, calls
  <2>2. CASE DeleteEntry(w)
    BY <2>1, <2>2 DEF DeleteEntry
  <2>3. CASE ~DeleteEntry(w)
    BY <1>4, <2>1, <2>3, TaskSteps
  <2> QED
    BY <2>2, <2>3
<1>5. ASSUME NEW w \in Writers, Resting(w) PROVE index' = index /\ (index = "memory" => left' = left)
  BY <1>5 DEF Resting, AppendMessages, TruncateMessages, HideMessage, WriteCount, Call, Ready
<1>6. index' = index
  BY <1>4 DEF Next, vars, calls, RemoveMemory, PutMemory, AppendMessages, TruncateMessages, Call,
              PutMessage, HideMessage, DropMessage, WriteCount, Crash, CallDropped, CutOff,
              CreateAgain
<1>7. CASE UNCHANGED vars \/ Cuts \/ Again
  BY <1>6, <1>7 DEF Messages, vars, Cuts, CutOff, Again, CreateAgain
<1>8. CASE \E w \in Writers : \/ Step(w) \/ Resting(w)
                              \/ \E k \in Keys : RemoveText(w, k) \/ \E text \in Texts : PutText(w, k, text)
  BY <1>1, <1>2, <1>3, <1>4, <1>5, <1>6, <1>8 DEF Messages
<1> QED
  BY <1>7, <1>8, NextSteps

(* Faults are counted.                                                     *)
LEMMA FaultsCount ==
  ASSUME IInv, Messages, [Next]_vars PROVE faults' \in Nat /\ (faults' = 0 => faults = 0 /\ ~Cuts /\ ~Again)
<1>1. CASE Cuts \/ Again
  BY <1>1 DEF Cuts, CutOff, Again, CreateAgain, Messages
<1>2. CASE UNCHANGED vars
  BY <1>2 DEF vars, Messages, Cuts, CutOff, Again, CreateAgain
<1>3. ASSUME NEW w \in Writers, Step(w) PROVE faults' = faults
  BY <1>3 DEF Step, DeleteEntry, DropLoad, DropDoc, DropCount, PutDoc, IndexCount, ReadStats, Retract, Post,
              Quiet
<1>4. ASSUME NEW w \in Writers, Resting(w) PROVE faults' = faults
  BY <1>4 DEF Resting, AppendMessages, TruncateMessages, HideMessage, WriteCount, Call
<1>5. ASSUME NEW w \in Writers, NEW k \in Keys, RemoveText(w, k) \/ \E text \in Texts : PutText(w, k, text)
      PROVE  faults' = faults
  BY <1>5 DEF RemoveText, PutText, Begin
<1>6. CASE faults' = faults
  BY <1>6 DEF Cuts, CutOff, Again, CreateAgain, Messages
<1> QED
  BY <1>1, <1>2, <1>3, <1>4, <1>5, <1>6, NextSteps

LEMMA MessagesNext ==
  ASSUME IInv, Messages, [Next]_vars PROVE Messages'
<1>1. faults' \in Nat /\ index' = index /\ (index = "memory" => DOMAIN left' = {})
  BY MemoryOrder, FaultsCount
<1>2. CASE faults' # 0 \/ index # "messages"
  BY <1>1, <1>2 DEF Messages
<1>3. CASE faults' = 0 /\ index = "messages"
  <2>1. faults = 0 /\ ~Cuts /\ ~Again
    BY <1>3, FaultsCount
  <2>2. CASE UNCHANGED vars
    <3>1. /\ index' = index /\ entries' = entries /\ task' = task /\ count' = count /\ call' = call
          /\ faults' = faults /\ mixed' = mixed /\ left' = left
      BY <2>2 DEF vars, calls
    <3>2. \A w \in Writers : Follows(call[w], task[w])' <=> Follows(call[w], task[w])
      BY <3>1 DEF Follows, Serves, SessionOf
    <3>3. \A s : At(s)' = At(s)
      BY <3>1, AtSame
    <3>4. \A s : InOrder(s)' <=> InOrder(s)
      BY <3>1, <3>3 DEF InOrder, In, Tracks, Going, First, SessionOf
    <3>5. \A s : (Whole(s)' <=> Whole(s)) /\ (Apart(s)' <=> Apart(s))
      BY <3>1, SameMarks
    <3>6. (\A w \in Writers : Follows(call[w], task[w]))'
      BY <1>3, <2>1, <3>2 DEF Messages
    <3>7. (\A s \in Sessions : (Whole(s) \/ Apart(s)) /\ (Whole(s) => InOrder(s)))'
      BY <1>3, <2>1, <3>4, <3>5 DEF Messages, Sessions
    <3> QED
      BY <1>1, <1>3, <3>6, <3>7 DEF Messages
  <2>3. ASSUME NEW w \in Writers, NEW s \in Sessions, NEW k \in Keys, TruncateMessages(w, s, PositionOf(k))
        PROVE  Messages'
    <3>1. PositionOf(k) \in Nat
      BY KeysAssumption DEF PositionOf
    <3> QED
      BY <2>1, <2>3, <3>1, TruncateMessagesOrder
  <2>4. ASSUME NEW w \in Writers, NEW k \in Keys PROVE ~RemoveMemory(w, k) /\ \A text : ~PutMemory(w, k, text)
    BY <1>3 DEF RemoveMemory, PutMemory
  <2> QED
    BY <1>3, <2>1, <2>2, <2>3, <2>4, TaskStepOrder, AppendMessagesOrder, PutMessageOrder, HideMessageOrder,
       DropMessageOrder, WriteCountOrder, FaultKinds DEF Next, Again
<1> QED
  BY <1>2, <1>3

LEMMA MessagesInit ==
  ASSUME Init PROVE Messages
<1>1. \A s : At(s) = {} /\ First(s, 0) = {}
  BY DEF Init, At, First
<1>2. \A s \in Sessions : count[s] = 0
  BY DEF Init
<1>3. NoCall.op = "none" /\ NoCall.rest = {} /\ Idle.pc = "idle" /\ DOMAIN left = {}
  BY DEF Init, NoCall, Idle
<1>4. \A w \in Writers : call[w] = NoCall /\ task[w] = Idle
  BY DEF Init
<1>5. \A w \in Writers : Follows(call[w], task[w])
  BY <1>3, <1>4 DEF Follows, Serves
<1>6. \A w \in Writers : \A s : ~In(w, s)
  BY <1>3, <1>4 DEF In
<1>7. \A s \in Sessions : Whole(s) /\ InOrder(s)
  BY <1>1, <1>2, <1>3, <1>6 DEF Init, Whole, InOrder
<1> QED
  BY <1>3, <1>5, <1>7 DEF Init, Messages

(* What an index of messages holds is another text than the entry's only   *)
(* after a fault (a crash, a call that was dropped or that failed, a       *)
(* session created twice), or where two calls were on one session:         *)
(* append_session_messages and truncate_session_messages leave no message  *)
(* in the index that they overwrite with one that is not indexable, as     *)
(* long as one call runs to its end before the next on its session.        *)
THEOREM StaleOnlyAfterFault == Spec => []StaleAfterFault
<1>1. Init => IInv /\ Messages
  BY Initially, MessagesInit
<1>2. IInv /\ Messages /\ [Next]_vars => IInv' /\ Messages'
  BY Inductive, MessagesNext
<1>3. IInv /\ Messages => StaleAfterFault
  <2>1. ASSUME IInv, Messages, NEW k \in DOMAIN left PROVE index = "messages" /\ (faults > 0 \/ k \in mixed)
    <3>1. k \in Keys /\ index \in {"memory", "messages"} /\ faults \in Nat
      BY <2>1 DEF IInv, Types, Calling, Messages
    <3>2. index = "messages"
      BY <2>1, <3>1 DEF Messages
    <3>3. PICK s \in Sessions : s = SessionOf(k)
      BY <3>1 DEF Sessions, SessionOf
    <3>4. faults = 0 => Apart(s)
      BY <2>1, <3>2, <3>3 DEF Messages, InOrder
    <3> QED
      BY <3>1, <3>2, <3>3, <3>4 DEF Apart
  <2> QED
    BY <2>1 DEF StaleAfterFault
<1> QED
  BY <1>1, <1>2, <1>3, PTL DEF Spec
=============================================================================
