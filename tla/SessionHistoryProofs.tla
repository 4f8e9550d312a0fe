------------------------ MODULE SessionHistoryProofs ------------------------
(***************************************************************************)
(* For any number of entries said and any of the faults, in any order:     *)
(* what a turn slices and stores, that an append overwrites nothing, and   *)
(* that a reload rebuilds the history of an undisturbed session.           *)
(***************************************************************************)
EXTENDS SessionHistory, FunctionTheorems, FiniteSetTheorems, SequenceTheorems, TLAPS

Plain == {e \in Entry : ~Injected(e)}
Metas == [count : Nat, summary : BOOLEAN]

(* The writes and the deletes that can be pending.                         *)
WriteSet ==
  [op : {"put"}, key : Nat, entry : Plain] \cup [op : {"drop"}, key : Nat]
  \cup [op : {"count"}, meta : Metas] \cup [op : {"mark", "swap"}, id : 1..MaxSaid]
  \cup {MetaWrite}
DeleteSet == [op : {"scan", "archive", "meta"}] \cup [op : {"msg"}, key : Nat]

(* A turn strips the framing of earlier ones before it adds its own.       *)
OneFraming(h) == \A i, j \in DOMAIN h : Injected(h[i]) /\ Injected(h[j]) => i = j

(* Pending puts come first, and all of them past the counted messages.     *)
PutsPastCount ==
  \A i \in DOMAIN writes : writes[i].op = "put" =>
    meta.count <= writes[i].key /\ \A j \in 1..i : writes[j].op = "put"

StoreTypes ==
  /\ IsFiniteSet(DOMAIN msgs) /\ DOMAIN msgs \subseteq Nat /\ msgs \in [DOMAIN msgs -> Plain]
  /\ meta \in Metas \cup {NoMeta} /\ marker \in 0..MaxSaid /\ indexed \in BOOLEAN
  /\ deletes \in Seq(DeleteSet)

LiveTypes ==
  /\ live \in Seq(Entry) /\ OneFraming(live) /\ summary \in BOOLEAN /\ intact \in BOOLEAN
  /\ pre \in Nat /\ said \in 0..MaxSaid /\ writes \in Seq(WriteSet)
  /\ pc \in {"idle", "run", "guest", "final", "writing"}
  /\ pc = "guest" => said < MaxSaid
  /\ SliceInBounds

(* What holds whatever was cut short.                                      *)
Always == StoreTypes /\ LiveTypes /\ PutsPastCount
-----------------------------------------------------------------------------
(* An undisturbed session.                                                 *)

(* The framing of the last turn that was framed stands before its user's   *)
(* message, and a guest has spoken before it or answers it.                *)
Framed(h) ==
  \A p \in DOMAIN h : Injected(h[p]) =>
    /\ p < Len(h) /\ h[p + 1].kind = "user"
    /\ \/ \E g \in 1..(p - 1) : h[g].kind = "guest"
       \/ p + 1 < Len(h) /\ h[p + 2].kind = "guest"

(* While the guest has not answered yet.                                   *)
Asked(h) == \A p \in DOMAIN h : Injected(h[p]) => p + 1 = Len(h) /\ h[p + 1].kind = "user"

(* What the store's keys stand for, the first n of them counted.           *)
Lead == IF marker = 0 THEN <<>> ELSE <<[id |-> marker, kind |-> "summary"]>>
First(n) == [k \in 1..n |-> msgs[k - 1]]
Agree == summary <=> marker # 0

Stored(h) ==
  /\ Agree /\ meta.summary = summary
  /\ DOMAIN msgs = 0..(meta.count - 1)
  /\ Lead \o First(meta.count) = Visible(h)

InTurn ==
  /\ Stored(SubSeq(live, 1, pre))
  /\ \E i \in (pre + 1)..Len(live) : live[i].kind = "user"

(* The phases of an operation's writes.                                    *)
Wrote == writes = <<>> /\ Stored(live)

MetaLeft ==
  /\ writes = <<MetaWrite>> /\ Agree
  /\ DOMAIN msgs = 0..(meta.count - 1)
  /\ Lead \o First(meta.count) = Visible(live)

Coming(c, r) == [k \in 1..(c + r) |-> IF k <= c THEN msgs[k - 1] ELSE writes[k - c].entry]

Appending(c, r) ==
  /\ Agree /\ meta.summary = summary
  /\ DOMAIN msgs = 0..(c - 1)
  /\ Len(writes) = r + 2
  /\ \A i \in 1..r : writes[i].op = "put" /\ writes[i].key = c + i - 1
  /\ writes[r + 1] = CountWrite(c + r) /\ writes[r + 2] = MetaWrite
  /\ Lead \o Coming(c, r) = Visible(live)

Compacting(r) ==
  /\ Len(writes) = r + 3
  /\ \E id \in 1..MaxSaid :
       /\ writes[r + 1] = [op |-> "mark", id |-> id] /\ writes[r + 2] = [op |-> "swap", id |-> id]
       /\ writes[r + 3] = MetaWrite

Cutting(keep, a, r) ==
  /\ Agree /\ meta.summary = summary
  /\ keep <= a /\ DOMAIN msgs = (0..(keep - 1)) \cup (a..(a + r - 1))
  /\ \A i \in 1..r : writes[i].op = "drop" /\ writes[i].key = a + i - 1
  /\ Len(writes) > r /\ writes[r + 1] = CountWrite(keep)
  /\ \/ Len(writes) = r + 1 /\ Lead \o First(keep) = Visible(live)
     \/ keep = 0 /\ Compacting(r + 1)

Marking == DOMAIN msgs = {} /\ meta.count = 0 /\ Compacting(0)

Swapping ==
  /\ DOMAIN msgs = {} /\ meta.count = 0 /\ marker # 0
  /\ writes = <<[op |-> "swap", id |-> marker], MetaWrite>>

Writing ==
  \/ Wrote \/ MetaLeft \/ Marking \/ Swapping
  \/ \E c, r \in Nat : Appending(c, r)
  \/ \E keep, a, r \in Nat : Cutting(keep, a, r)

Undisturbed ==
  /\ Exists /\ indexed /\ deletes = <<>>
  /\ IF pc = "guest" THEN Asked(live) ELSE Framed(live)
  /\ pc = "idle" => Stored(live)
  /\ pc \in {"run", "guest", "final"} => InTurn
  /\ pc = "writing" => Writing

(* The inductive invariant.                                                *)
IInv == Always /\ (intact => Undisturbed)
-----------------------------------------------------------------------------
(* Sets of numbers in order, and the histories picked by them.             *)

Rank(S, i) == Cardinality({j \in S : j < i})

LEMMA RankType ==
  ASSUME NEW S, IsFiniteSet(S), S \subseteq Nat, NEW i \in S
  PROVE  Rank(S, i) \in 0..(Cardinality(S) - 1) /\ IsFiniteSet({j \in S : j < i})
<1>1. IsFiniteSet(S \ {i}) /\ Cardinality(S \ {i}) = Cardinality(S) - 1
  BY FS_RemoveElement
<1>2. PICK T : T = {j \in S : j < i}
  OBVIOUS
<1>3. T \in SUBSET (S \ {i})
  BY <1>2
<1>4. IsFiniteSet(T) /\ Cardinality(T) <= Cardinality(S \ {i})
  BY <1>1, <1>3, FS_Subset
<1>5. Cardinality(T) \in Nat /\ Cardinality(S) \in Nat
  BY <1>4, FS_CardinalityType
<1>6. Rank(S, i) = Cardinality(T)
  BY <1>2 DEF Rank
<1> QED
  BY <1>1, <1>2, <1>4, <1>5, <1>6

LEMMA RankGrows ==
  ASSUME NEW S, IsFiniteSet(S), S \subseteq Nat, NEW i \in S, NEW j \in S, i < j
  PROVE  Rank(S, i) < Rank(S, j)
<1>1. PICK T, U : T = {k \in S : k < i} /\ U = {k \in S : k < j}
  OBVIOUS
<1>2. IsFiniteSet(T) /\ IsFiniteSet(U)
  BY <1>1, RankType
<1>3. IsFiniteSet(U \ {i}) /\ Cardinality(U \ {i}) = Cardinality(U) - 1
  BY <1>1, <1>2, FS_RemoveElement
<1>4. T \in SUBSET (U \ {i})
  <2> SUFFICES ASSUME NEW k \in T PROVE k \in U /\ k # i
    OBVIOUS
  <2>1. k \in S /\ k < i /\ k \in Nat /\ i \in Nat /\ j \in Nat
    BY <1>1
  <2> QED
    BY <1>1, <2>1
<1>5. Cardinality(T) <= Cardinality(U \ {i})
  BY <1>3, <1>4, FS_Subset
<1>6. Cardinality(T) \in Nat /\ Cardinality(U) \in Nat
  BY <1>2, FS_CardinalityType
<1> QED
  BY <1>1, <1>3, <1>5, <1>6 DEF Rank

Ascends(f, n) == \A k, l \in 1..n : k < l => f[k] < f[l]

(* The enumeration of a finite set of numbers is one.                      *)
LEMMA InOrderOf ==
  ASSUME NEW S, IsFiniteSet(S), S \subseteq Nat, NEW n, n = Cardinality(S)
  PROVE  /\ n \in Nat /\ InOrder(S) \in [1..n -> S] /\ Ascends(InOrder(S), n)
         /\ \A i \in S : Rank(S, i) + 1 \in 1..n /\ InOrder(S)[Rank(S, i) + 1] = i
<1>1. n \in Nat
  BY FS_CardinalityType
<1>2. IsFiniteSet(0..(n - 1)) /\ Cardinality(0..(n - 1)) = n
  <2>1. PICK z, m \in Int : z = 0 /\ m = n - 1
    BY <1>1
  <2>2. IsFiniteSet(z..m) /\ Cardinality(z..m) = IF z > m THEN 0 ELSE m - z + 1
    BY FS_Interval
  <2> QED
    BY <1>1, <2>1, <2>2
<1>3. PICK f : f = [i \in S |-> Rank(S, i)]
  OBVIOUS
<1>4. \A i \in S : Rank(S, i) \in 0..(n - 1)
  BY RankType
<1>5. f \in [S -> 0..(n - 1)]
  BY <1>3, <1>4
<1>6. \A a, b \in S : Rank(S, a) = Rank(S, b) => a = b
  <2> SUFFICES ASSUME NEW a \in S, NEW b \in S, Rank(S, a) = Rank(S, b), a # b PROVE FALSE
    OBVIOUS
  <2>1. a < b \/ b < a
    OBVIOUS
  <2>2. Rank(S, a) \in Nat /\ Rank(S, b) \in Nat
    BY <1>4
  <2>3. CASE a < b
    <3>1. Rank(S, a) < Rank(S, b)
      BY <2>3, RankGrows
    <3> QED
      BY <2>2, <3>1
  <2>4. CASE b < a
    <3>1. Rank(S, b) < Rank(S, a)
      BY <2>4, RankGrows
    <3> QED
      BY <2>2, <3>1
  <2> QED
    BY <2>1, <2>3, <2>4
<1>7. f \in Injection(S, 0..(n - 1))
  BY <1>3, <1>5, <1>6, Fun_IsInj
<1>8. f \in Surjection(S, 0..(n - 1))
  BY <1>2, <1>7, FS_Injection
<1>9. \A t \in 0..(n - 1) : \E i \in S : Rank(S, i) = t
  <2>1. \A t \in 0..(n - 1) : \E i \in S : f[i] = t
    BY <1>8, Fun_SurjectionProperties
  <2> QED
    BY <1>3, <2>1
<1>10. \A k \in 1..n : InOrder(S)[k] \in S /\ Rank(S, InOrder(S)[k]) = k - 1
  <2> SUFFICES ASSUME NEW k \in 1..n PROVE InOrder(S)[k] \in S /\ Rank(S, InOrder(S)[k]) = k - 1
    OBVIOUS
  <2>1. k - 1 \in 0..(n - 1)
    BY <1>1
  <2>2. \E i \in S : Cardinality({j \in S : j < i}) = k - 1
    BY <1>9, <2>1 DEF Rank
  <2>3. InOrder(S)[k] = CHOOSE i \in S : Cardinality({j \in S : j < i}) = k - 1
    BY DEF InOrder
  <2> QED
    BY <2>2, <2>3 DEF Rank
<1>11. InOrder(S) \in [1..n -> S]
  BY <1>10 DEF InOrder
<1>12. Ascends(InOrder(S), n)
  <2> SUFFICES ASSUME NEW k \in 1..n, NEW l \in 1..n, k < l PROVE InOrder(S)[k] < InOrder(S)[l]
    BY DEF Ascends
  <2>1. PICK a, b : a = InOrder(S)[k] /\ b = InOrder(S)[l]
    OBVIOUS
  <2>2. a \in S /\ b \in S /\ Rank(S, a) = k - 1 /\ Rank(S, b) = l - 1
    BY <1>10, <2>1
  <2>3. a \in Nat /\ b \in Nat
    BY <2>2
  <2>4. a # b
    BY <2>2
  <2>5. CASE b < a
    <3>1. Rank(S, b) < Rank(S, a)
      BY <2>2, <2>5, RankGrows
    <3> QED
      BY <2>2, <3>1
  <2> QED
    BY <2>1, <2>3, <2>4, <2>5
<1>13. \A i \in S : Rank(S, i) + 1 \in 1..n /\ InOrder(S)[Rank(S, i) + 1] = i
  <2> SUFFICES ASSUME NEW i \in S PROVE Rank(S, i) + 1 \in 1..n /\ InOrder(S)[Rank(S, i) + 1] = i
    OBVIOUS
  <2>1. PICK k : k = Rank(S, i) + 1
    OBVIOUS
  <2>2. k \in 1..n /\ k - 1 = Rank(S, i)
    BY <1>1, <1>4, <2>1
  <2>3. InOrder(S)[k] \in S /\ Rank(S, InOrder(S)[k]) = Rank(S, i)
    BY <1>10, <2>2
  <2> QED
    BY <1>6, <2>1, <2>2, <2>3
<1> QED
  BY <1>1, <1>11, <1>12, <1>13

(* ... and the only one.                                                   *)
LEMMA InOrderIs ==
  ASSUME NEW n \in Nat, NEW S, NEW f \in [1..n -> S], Ascends(f, n), S \subseteq Nat,
         \A i \in S : \E k \in 1..n : f[k] = i
  PROVE  IsFiniteSet(S) /\ Cardinality(S) = n /\ InOrder(S) = f
<1>1. \A a, b \in 1..n : f[a] = f[b] => a = b
  <2> SUFFICES ASSUME NEW a \in 1..n, NEW b \in 1..n, f[a] = f[b], a # b PROVE FALSE
    OBVIOUS
  <2>1. f[a] \in Nat /\ f[b] \in Nat
    OBVIOUS
  <2>2. a < b => f[a] < f[b]
    BY DEF Ascends
  <2>3. b < a => f[b] < f[a]
    BY DEF Ascends
  <2> QED
    BY <2>1, <2>2, <2>3
<1>2. f \in Bijection(1..n, S)
  BY <1>1, Fun_IsBij
<1>3. ExistsBijection(1..n, S)
  BY <1>2 DEF ExistsBijection
<1>4. Cardinality(S) = n
  BY <1>3, FS_CountingElements
<1>5. IsFiniteSet(1..n)
  BY FS_Interval
<1>6. IsFiniteSet(S)
  BY <1>3, <1>5, FS_Bijection
<1>7. \A k \in 1..n : Rank(S, f[k]) = k - 1
  <2> SUFFICES ASSUME NEW k \in 1..n PROVE Rank(S, f[k]) = k - 1
    OBVIOUS
  <2>1. PICK T : T = {j \in S : j < f[k]}
    OBVIOUS
  <2>2. PICK m \in Nat : m = k - 1
    OBVIOUS
  <2>3. PICK g : g = [l \in 1..m |-> f[l]]
    OBVIOUS
  <2>4. \A l \in 1..m : l \in 1..n /\ f[l] \in T
    BY <2>1, <2>2 DEF Ascends
  <2>5. g \in [1..m -> T]
    BY <2>3, <2>4
  <2>6. \A a, b \in 1..m : g[a] = g[b] => a = b
    BY <1>1, <2>3, <2>4
  <2>7. \A t \in T : \E l \in 1..m : g[l] = t
    <3> SUFFICES ASSUME NEW t \in T PROVE \E l \in 1..m : g[l] = t
      OBVIOUS
    <3>1. PICK l \in 1..n : f[l] = t
      BY <2>1
    <3>2. f[l] < f[k] /\ f[l] \in Nat /\ f[k] \in Nat
      BY <2>1, <3>1
    <3>3. ~(k < l) /\ k # l
      BY <3>2 DEF Ascends
    <3>4. l \in 1..m
      BY <2>2, <3>3
    <3> QED
      BY <2>3, <3>1, <3>4
  <2>8. g \in Bijection(1..m, T)
    BY <2>5, <2>6, <2>7, Fun_IsBij
  <2>9. ExistsBijection(1..m, T)
    BY <2>8 DEF ExistsBijection
  <2>10. Cardinality(T) = m
    BY <2>9, FS_CountingElements
  <2> QED
    BY <2>1, <2>2, <2>10 DEF Rank
<1>8. PICK g : g = InOrder(S)
  OBVIOUS
<1>9. g \in [1..n -> S] /\ \A i \in S : g[Rank(S, i) + 1] = i
  BY <1>4, <1>6, <1>8, InOrderOf
<1>10. \A k \in 1..n : g[k] = f[k]
  <2> SUFFICES ASSUME NEW k \in 1..n PROVE g[k] = f[k]
    OBVIOUS
  <2>1. f[k] \in S /\ Rank(S, f[k]) + 1 = k
    BY <1>7
  <2> QED
    BY <1>9, <2>1
<1>11. g = f
  BY <1>9, <1>10
<1> QED
  BY <1>4, <1>6, <1>8, <1>11

Shown(h) == {i \in DOMAIN h : ~Injected(h[i])}

LEMMA ShownFinite ==
  ASSUME NEW h \in Seq(Entry)
  PROVE  IsFiniteSet(Shown(h)) /\ Shown(h) \subseteq Nat /\ Shown(h) \subseteq 1..Len(h)
         /\ Cardinality(Shown(h)) \in Nat
<1>1. Len(h) \in Nat /\ DOMAIN h = 1..Len(h)
  OBVIOUS
<1>2. PICK m \in Nat : m = Len(h)
  BY <1>1
<1>3. IsFiniteSet(1..m)
  BY FS_Interval
<1>4. Shown(h) \in SUBSET (1..m)
  BY <1>1, <1>2 DEF Shown
<1>5. IsFiniteSet(Shown(h))
  BY <1>3, <1>4, FS_Subset
<1>6. Cardinality(Shown(h)) \in Nat
  BY <1>5, FS_CardinalityType
<1>7. Shown(h) \subseteq 1..Len(h)
  BY <1>2, <1>4
<1>8. 1..Len(h) \subseteq Nat
  BY <1>1
<1> QED
  BY <1>5, <1>6, <1>7, <1>8

(* Visible, by any enumeration of what it shows.                           *)
LEMMA VisibleIs ==
  ASSUME NEW h \in Seq(Entry), NEW n \in Nat, NEW f \in [1..n -> Shown(h)], Ascends(f, n),
         \A i \in Shown(h) : \E k \in 1..n : f[k] = i
  PROVE  Visible(h) = [k \in 1..n |-> h[f[k]]]
<1>1. PICK S : S = Shown(h)
  OBVIOUS
<1>2. S \subseteq Nat
  BY <1>1, ShownFinite
<1>3. Cardinality(S) = n /\ InOrder(S) = f
  BY <1>1, <1>2, InOrderIs
<1>4. Visible(h) = Picked(h, S)
  BY <1>1 DEF Visible, Shown
<1> QED
  BY <1>3, <1>4 DEF Picked

LEMMA VisibleOf ==
  ASSUME NEW h \in Seq(Entry), NEW n, n = Cardinality(Shown(h))
  PROVE  /\ Visible(h) \in Seq(Plain) /\ Len(Visible(h)) = n
         /\ \A k \in 1..n : Visible(h)[k] = h[InOrder(Shown(h))[k]]
<1>1. PICK S, f : S = Shown(h) /\ f = InOrder(S)
  OBVIOUS
<1>2. IsFiniteSet(S) /\ S \subseteq Nat /\ n \in Nat
  BY <1>1, ShownFinite
<1>3. f \in [1..n -> S]
  BY <1>1, <1>2, InOrderOf
<1>4. Visible(h) = [k \in 1..n |-> h[f[k]]]
  BY <1>1 DEF Visible, Shown, Picked
<1>5. \A i \in S : h[i] \in Plain
  BY <1>1 DEF Shown, Plain
<1>6. \A k \in 1..n : h[f[k]] \in Plain
  BY <1>3, <1>5
<1>7. [k \in 1..n |-> h[f[k]]] \in Seq(Plain)
  BY <1>2, <1>6, IsASeq
<1>8. Visible(h) \in [1..n -> Plain]
  BY <1>4, <1>6
<1>9. Len(Visible(h)) = n
  <2>1. PICK v \in Seq(Plain) : v = Visible(h)
    BY <1>4, <1>7
  <2>2. DOMAIN v = 1..Len(v) /\ Len(v) \in Nat /\ DOMAIN v = 1..n
    BY <1>8, <2>1
  <2> QED
    BY <1>2, <2>1, <2>2
<1> QED
  BY <1>1, <1>4, <1>7, <1>9

LEMMA PlainEntries == Plain \subseteq Entry
BY DEF Plain

LEMMA VisibleType ==
  ASSUME NEW h \in Seq(Entry)
  PROVE  Visible(h) \in Seq(Plain) /\ Visible(h) \in Seq(Entry)
BY VisibleOf, PlainEntries, SeqMonotonic

(* A history without framing is shown as it is.                            *)
LEMMA VisiblePlain ==
  ASSUME NEW h \in Seq(Plain)
  PROVE  Visible(h) = h
<1>1. h \in Seq(Entry)
  BY PlainEntries, SeqMonotonic
<1>2. PICK n \in Nat : n = Len(h) /\ DOMAIN h = 1..n
  OBVIOUS
<1>3. \A i \in 1..n : h[i] \in Plain
  BY <1>2
<1>4. Shown(h) = 1..n
  BY <1>2, <1>3 DEF Shown, Plain
<1>5. PICK f : f = [k \in 1..n |-> k]
  OBVIOUS
<1>6. f \in [1..n -> Shown(h)] /\ \A i \in Shown(h) : \E k \in 1..n : f[k] = i
  BY <1>4, <1>5
<1>7. Ascends(f, n)
  BY <1>5 DEF Ascends
<1>8. Visible(h) = [k \in 1..n |-> h[f[k]]]
  BY <1>1, <1>6, <1>7, VisibleIs
<1>9. h = [k \in 1..n |-> h[k]]
  BY <1>2
<1> QED
  BY <1>5, <1>8, <1>9

(* Framing is shown as nothing.                                            *)
LEMMA VisibleNone ==
  ASSUME NEW e \in Entry, Injected(e)
  PROVE  Visible(<<e>>) = <<>>
<1>0. <<e>> \in Seq(Entry) /\ Len(<<e>>) = 1 /\ <<e>>[1] = e
  OBVIOUS
<1>1. PICK h \in Seq(Entry) : h = <<e>> /\ Len(h) = 1 /\ h[1] = e
  BY <1>0
<1>2. Shown(h) = {}
  BY <1>1 DEF Shown
<1>3. PICK v : v = Visible(h)
  OBVIOUS
<1>4. v \in Seq(Plain) /\ Len(v) = Cardinality(Shown(h))
  BY <1>3, VisibleOf
<1>5. Len(v) = 0
  BY <1>2, <1>4, FS_EmptySet
<1>6. v = <<>>
  BY <1>4, <1>5, EmptySeq
<1> QED
  BY <1>1, <1>3, <1>6

LEMMA VisibleConcat ==
  ASSUME NEW s \in Seq(Entry), NEW t \in Seq(Entry)
  PROVE  Visible(s \o t) = Visible(s) \o Visible(t)
<1>1. PICK h \in Seq(Entry) : h = s \o t
  BY ConcatProperties
<1>2. PICK l \in Nat : l = Len(s)
  OBVIOUS
<1>3. PICK m \in Nat : m = Len(t)
  OBVIOUS
<1>4. Len(h) = l + m /\ \A i \in 1..(l + m) : h[i] = IF i <= l THEN s[i] ELSE t[i - l]
  BY <1>1, <1>2, <1>3, ConcatProperties
<1>5. DOMAIN h = 1..(l + m) /\ DOMAIN s = 1..l /\ DOMAIN t = 1..m
  BY <1>2, <1>3, <1>4
<1>6. PICK A, B, F, G : A = Shown(s) /\ B = Shown(t) /\ F = InOrder(A) /\ G = InOrder(B)
  OBVIOUS
<1>7. PICK a \in Nat : a = Cardinality(A)
  BY <1>6, ShownFinite
<1>8. PICK b \in Nat : b = Cardinality(B)
  BY <1>6, ShownFinite
<1>9. /\ IsFiniteSet(A) /\ A \subseteq Nat /\ A \subseteq 1..l
      /\ IsFiniteSet(B) /\ B \subseteq Nat /\ B \subseteq 1..m
  BY <1>2, <1>3, <1>6, ShownFinite
<1>10. F \in [1..a -> A] /\ Ascends(F, a) /\ \A i \in A : \E k \in 1..a : F[k] = i
  BY <1>6, <1>7, <1>9, InOrderOf
<1>11. G \in [1..b -> B] /\ Ascends(G, b) /\ \A i \in B : \E k \in 1..b : G[k] = i
  BY <1>6, <1>8, <1>9, InOrderOf
<1>12. PICK f : f = [k \in 1..(a + b) |-> IF k <= a THEN F[k] ELSE l + G[k - a]]
  OBVIOUS
<1>13. \A k \in 1..a : k \in 1..(a + b) /\ f[k] = F[k] /\ F[k] \in 1..l
  <2> SUFFICES ASSUME NEW k \in 1..a PROVE k \in 1..(a + b) /\ f[k] = F[k] /\ F[k] \in 1..l
    OBVIOUS
  <2>1. k \in 1..(a + b) /\ k <= a
    OBVIOUS
  <2>2. f[k] = F[k]
    BY <1>12, <2>1
  <2>3. F[k] \in A
    BY <1>10
  <2> QED
    BY <1>9, <2>1, <2>2, <2>3
<1>14. \A k \in 1..b : k + a \in 1..(a + b) /\ f[k + a] = l + G[k] /\ G[k] \in 1..m
  <2> SUFFICES ASSUME NEW k \in 1..b
               PROVE  k + a \in 1..(a + b) /\ f[k + a] = l + G[k] /\ G[k] \in 1..m
    OBVIOUS
  <2>1. k + a \in 1..(a + b) /\ ~(k + a <= a) /\ (k + a) - a = k
    OBVIOUS
  <2>2. f[k + a] = IF k + a <= a THEN F[k + a] ELSE l + G[(k + a) - a]
    BY <1>12, <2>1
  <2> QED
    BY <1>9, <1>11, <2>1, <2>2
<1>15. \A k \in 1..(a + b) : k \in 1..a \/ \E j \in 1..b : k = j + a
  <2> SUFFICES ASSUME NEW k \in 1..(a + b), k \notin 1..a PROVE \E j \in 1..b : k = j + a
    OBVIOUS
  <2>1. k - a \in 1..b /\ k = (k - a) + a
    OBVIOUS
  <2> QED
    BY <2>1
<1>16. \A i \in 1..l : i \in A <=> i \in Shown(h)
  BY <1>4, <1>5, <1>6 DEF Shown
<1>17. \A i \in 1..m : i \in B <=> l + i \in Shown(h)
  <2> SUFFICES ASSUME NEW i \in 1..m PROVE i \in B <=> l + i \in Shown(h)
    OBVIOUS
  <2>1. l + i \in 1..(l + m) /\ ~(l + i <= l) /\ (l + i) - l = i
    OBVIOUS
  <2>2. h[l + i] = t[i]
    BY <1>4, <2>1
  <2> QED
    BY <1>5, <1>6, <2>1, <2>2 DEF Shown
<1>18. f \in [1..(a + b) -> Shown(h)]
  <2>1. \A k \in 1..(a + b) : f[k] \in Shown(h)
    <3> SUFFICES ASSUME NEW k \in 1..(a + b) PROVE f[k] \in Shown(h)
      OBVIOUS
    <3>1. CASE k \in 1..a
      BY <1>10, <1>13, <1>16, <3>1
    <3>2. ASSUME NEW j \in 1..b, k = j + a PROVE f[k] \in Shown(h)
      <4>1. G[j] \in B /\ G[j] \in 1..m /\ f[j + a] = l + G[j]
        BY <1>11, <1>14
      <4> QED
        BY <1>17, <3>2, <4>1
    <3> QED
      BY <1>15, <3>1, <3>2
  <2> QED
    BY <1>12, <2>1
<1>19. Ascends(f, a + b)
  <2> SUFFICES ASSUME NEW k \in 1..(a + b), NEW j \in 1..(a + b), k < j PROVE f[k] < f[j]
    BY DEF Ascends
  <2>1. CASE k \in 1..a /\ j \in 1..a
    BY <1>10, <1>13, <2>1 DEF Ascends
  <2>2. ASSUME k \in 1..a, NEW q \in 1..b, j = q + a PROVE f[k] < f[j]
    <3>1. f[k] \in 1..l
      BY <1>13, <2>2
    <3>2. f[j] = l + G[q] /\ G[q] \in 1..m
      BY <1>14, <2>2
    <3> QED
      BY <3>1, <3>2
  <2>3. CASE (\E q \in 1..b : k = q + a) /\ j \in 1..a
    BY <2>3
  <2>4. ASSUME NEW p \in 1..b, NEW q \in 1..b, k = p + a, j = q + a PROVE f[k] < f[j]
    <3>1. p < q
      BY <2>4
    <3>2. G[p] < G[q] /\ G[p] \in Nat /\ G[q] \in Nat
      BY <1>11, <1>14, <3>1 DEF Ascends
    <3> QED
      BY <1>14, <2>4, <3>2
  <2> QED
    BY <1>15, <2>1, <2>2, <2>3, <2>4
<1>20. \A i \in Shown(h) : \E k \in 1..(a + b) : f[k] = i
  <2> SUFFICES ASSUME NEW i \in Shown(h) PROVE \E k \in 1..(a + b) : f[k] = i
    OBVIOUS
  <2>1. i \in 1..(l + m)
    BY <1>5 DEF Shown
  <2>2. CASE i \in 1..l
    BY <1>10, <1>13, <1>16, <2>2
  <2>3. CASE i \notin 1..l
    <3>1. PICK q \in 1..m : i = l + q
      <4>1. i - l \in 1..m /\ i = l + (i - l)
        BY <2>1, <2>3
      <4> QED
        BY <4>1
    <3>2. PICK k \in 1..b : G[k] = q
      BY <1>11, <1>17, <3>1
    <3> QED
      BY <1>14, <3>1, <3>2
  <2> QED
    BY <2>2, <2>3
<1>21. a + b \in Nat
  OBVIOUS
<1>22. PICK v : v = Visible(h)
  OBVIOUS
<1>23. v = [k \in 1..(a + b) |-> h[f[k]]]
  BY <1>18, <1>19, <1>20, <1>21, <1>22, VisibleIs
<1>24. PICK vs, vt \in Seq(Plain) : vs = Visible(s) /\ vt = Visible(t)
  BY VisibleType
<1>25. Len(vs) = a /\ \A k \in 1..a : vs[k] = s[F[k]]
  BY <1>6, <1>7, <1>24, VisibleOf
<1>26. Len(vt) = b /\ \A k \in 1..b : vt[k] = t[G[k]]
  BY <1>6, <1>8, <1>24, VisibleOf
<1>27. v \in Seq(Plain)
  BY <1>22, VisibleType
<1>28. Len(v) = a + b
  <2>1. DOMAIN v = 1..(a + b) /\ DOMAIN v = 1..Len(v) /\ Len(v) \in Nat
    BY <1>23, <1>27
  <2> QED
    BY <2>1
<1>29. PICK w \in Seq(Plain) : w = vs \o vt
  BY ConcatProperties
<1>30. Len(w) = a + b /\ \A i \in 1..(a + b) : w[i] = IF i <= a THEN vs[i] ELSE vt[i - a]
  <2>1. Len(w) = Len(vs) + Len(vt)
        /\ \A i \in 1..(Len(vs) + Len(vt)) : w[i] = IF i <= Len(vs) THEN vs[i] ELSE vt[i - Len(vs)]
    BY <1>29, ConcatProperties
  <2> QED
    BY <1>25, <1>26, <2>1
<1>31. \A i \in 1..(a + b) : v[i] = w[i]
  <2> SUFFICES ASSUME NEW i \in 1..(a + b) PROVE v[i] = w[i]
    OBVIOUS
  <2>1. v[i] = h[f[i]]
    BY <1>23
  <2>2. CASE i \in 1..a
    <3>1. f[i] = F[i] /\ F[i] \in 1..l /\ F[i] \in 1..(l + m) /\ F[i] <= l
      BY <1>13, <2>2
    <3>2. h[F[i]] = s[F[i]]
      BY <1>4, <3>1
    <3> QED
      BY <1>25, <1>30, <2>1, <2>2, <3>1, <3>2
  <2>3. ASSUME NEW j \in 1..b, i = j + a PROVE v[i] = w[i]
    <3>1. PICK g \in 1..m : g = G[j] /\ f[i] = l + g
      BY <1>14, <2>3
    <3>2. l + g \in 1..(l + m) /\ ~(l + g <= l) /\ (l + g) - l = g
      OBVIOUS
    <3>3. h[l + g] = t[g]
      BY <1>4, <3>2
    <3>4. ~(i <= a) /\ i - a = j
      BY <2>3
    <3>5. w[i] = vt[j]
      BY <1>30, <3>4
    <3> QED
      BY <1>26, <2>1, <3>1, <3>3, <3>5
  <2> QED
    BY <1>15, <2>2, <2>3
<1>32. v = w
  BY <1>27, <1>28, <1>29, <1>30, <1>31, SeqEqual
<1> QED
  BY <1>1, <1>22, <1>24, <1>29, <1>32

LEMMA PlainKind ==
  ASSUME NEW e \in Entry
  PROVE  e \in Plain <=> e.kind \notin {"framing", "system"}
BY DEF Plain, Injected

LEMMA NoFraming ==
  ASSUME NEW h \in Seq(Entry), \A p \in DOMAIN h : ~Injected(h[p])
  PROVE  h \in Seq(Plain)
<1>1. PICK n \in Nat : n = Len(h) /\ DOMAIN h = 1..n
  OBVIOUS
<1>2. \A i \in 1..n : h[i] \in Plain
  BY <1>1 DEF Plain
<1>3. h = [i \in 1..n |-> h[i]]
  BY <1>1
<1>4. [i \in 1..n |-> h[i]] \in Seq(Plain)
  BY <1>2, IsASeq
<1> QED
  BY <1>3, <1>4

(* Only the one framing is missing from what is shown.                     *)
LEMMA VisibleLen ==
  ASSUME NEW h \in Seq(Entry), OneFraming(h)
  PROVE  /\ Len(Visible(h)) \in Nat /\ Len(h) \in Nat
         /\ \/ Len(Visible(h)) = Len(h)
            \/ Len(Visible(h)) = Len(h) - 1 /\ \E p \in DOMAIN h : Injected(h[p])
<1>1. PICK n \in Nat : n = Len(h) /\ DOMAIN h = 1..n
  OBVIOUS
<1>2. CASE \A p \in DOMAIN h : ~Injected(h[p])
  BY <1>1, <1>2, NoFraming, VisiblePlain
<1>3. ASSUME NEW p \in DOMAIN h, Injected(h[p])
      PROVE  Len(Visible(h)) = n - 1
  <2>1. Shown(h) = (1..n) \ {p}
    BY <1>1, <1>3 DEF Shown, OneFraming
  <2>2. IsFiniteSet(1..n) /\ Cardinality(1..n) = n
    <3>1. PICK z \in Int : z = 1
      OBVIOUS
    <3>2. IsFiniteSet(z..n) /\ Cardinality(z..n) = IF z > n THEN 0 ELSE n - z + 1
      BY FS_Interval
    <3> QED
      BY <3>1, <3>2
  <2>3. Cardinality((1..n) \ {p}) = n - 1
    BY <1>1, <1>3, <2>2, FS_RemoveElement
  <2>4. Len(Visible(h)) = Cardinality(Shown(h))
    BY VisibleOf
  <2> QED
    BY <2>1, <2>3, <2>4
<1>4. ASSUME NEW p \in DOMAIN h, Injected(h[p])
      PROVE  n - 1 \in Nat
  BY <1>1
<1> QED
  BY <1>1, <1>2, <1>3, <1>4

(* Everything else is shown.                                               *)
LEMMA VisibleHas ==
  ASSUME NEW h \in Seq(Entry), NEW i \in DOMAIN h, ~Injected(h[i])
  PROVE  \E k \in DOMAIN Visible(h) : Visible(h)[k] = h[i]
<1>1. i \in Shown(h)
  BY DEF Shown
<1>2. PICK S, f, n : S = Shown(h) /\ f = InOrder(S) /\ n = Cardinality(S)
  OBVIOUS
<1>3. IsFiniteSet(S) /\ S \subseteq Nat
  BY <1>2, ShownFinite
<1>4. PICK k \in 1..n : f[k] = i
  <2>1. Rank(S, i) + 1 \in 1..n /\ InOrder(S)[Rank(S, i) + 1] = i
    BY <1>1, <1>2, <1>3, InOrderOf
  <2> QED
    BY <1>2, <2>1
<1>5. PICK v \in Seq(Plain) : v = Visible(h)
  BY VisibleType
<1>6. Len(v) = n /\ v[k] = h[f[k]]
  BY <1>2, <1>5, VisibleOf
<1>7. k \in DOMAIN v
  BY <1>5, <1>6
<1> QED
  BY <1>4, <1>5, <1>6, <1>7

(* One more entry.                                                         *)
LEMMA VisibleMore ==
  ASSUME NEW h \in Seq(Entry), NEW e \in Plain
  PROVE  /\ Append(h, e) = h \o <<e>> /\ h \o <<e>> \in Seq(Entry)
         /\ Visible(h \o <<e>>) = Visible(h) \o <<e>>
<1>1. e \in Entry
  BY PlainEntries
<1>2. <<e>> \in Seq(Plain) /\ <<e>> \in Seq(Entry)
  BY <1>1
<1>3. Append(h, e) = h \o <<e>> /\ h \o <<e>> \in Seq(Entry)
  BY <1>1, <1>2, AppendIsConcat, ConcatProperties
<1>4. Visible(<<e>>) = <<e>>
  BY <1>2, VisiblePlain
<1>5. Visible(h \o <<e>>) = Visible(h) \o Visible(<<e>>)
  BY <1>2, VisibleConcat
<1> QED
  BY <1>3, <1>4, <1>5
-----------------------------------------------------------------------------
(* The head of a turn.                                                     *)

LEMMA FramingEntry ==
  \A k \in {"framing", "system"} :
    Framing(k) \in Entry /\ Injected(Framing(k)) /\ Framing(k).kind = k
BY SaidAssumption DEF Framing, Entry, Kinds, Injected

(* Put before the last entry.                                              *)
LEMMA BeforeLastIs ==
  ASSUME NEW x \in Seq(Entry), NEW u \in Entry, NEW f \in Entry
  PROVE  BeforeLast(x \o <<u>>, f) = (x \o <<f>>) \o <<u>>
<1>1. <<u>> \in Seq(Entry) /\ Len(<<u>>) = 1 /\ <<u>>[1] = u
  OBVIOUS
<1>2. PICK h \in Seq(Entry) : h = x \o <<u>>
  BY <1>1, ConcatProperties
<1>3. PICK n \in Nat : n = Len(x)
  OBVIOUS
<1>4. Len(h) = n + 1 /\ \A i \in 1..(n + 1) : h[i] = IF i <= n THEN x[i] ELSE u
  <2>1. Len(h) = Len(x) + Len(<<u>>)
        /\ \A i \in 1..(Len(x) + Len(<<u>>)) : h[i] = IF i <= Len(x) THEN x[i] ELSE <<u>>[i - Len(x)]
    BY <1>1, <1>2, ConcatProperties
  <2>2. \A i \in 1..(n + 1) : i <= n \/ i - n = 1
    OBVIOUS
  <2> QED
    BY <1>1, <1>3, <2>1, <2>2
<1>5. Last(h) = u
  BY <1>4 DEF Last
<1>6. PICK q : q = SubSeq(h, 1, n)
  OBVIOUS
<1>7. \A i \in 1..n : h[i] \in Entry
  BY <1>4
<1>8. q \in Seq(Entry) /\ Len(q) = n /\ \A i \in 1..n : q[i] = h[i]
  <2>1. PICK a, b \in Int : a = 1 /\ b = n
    OBVIOUS
  <2>2. \A i \in a..b : h[i] \in Entry
    BY <1>7, <2>1
  <2>3. /\ SubSeq(h, a, b) \in Seq(Entry)
        /\ Len(SubSeq(h, a, b)) = IF a <= b THEN b - a + 1 ELSE 0
        /\ \A i \in 1..(b - a + 1) : SubSeq(h, a, b)[i] = h[a + i - 1]
    BY <2>2, SubSeqProperties
  <2> QED
    BY <1>6, <2>1, <2>3
<1>9. \A i \in 1..n : q[i] = x[i]
  BY <1>4, <1>8
<1>10. q = x
  BY <1>3, <1>8, <1>9, SeqEqual
<1>11. Len(h) - 1 = n
  BY <1>4
<1>12. Front(h) = x
  BY <1>6, <1>10, <1>11 DEF Front
<1>13. Append(x, f) = x \o <<f>>
  BY AppendIsConcat
<1> QED
  BY <1>2, <1>5, <1>12, <1>13 DEF BeforeLast

GuestSpoke(h) == \E i \in DOMAIN Visible(h) : Visible(h)[i].kind = "guest"

LEMMA PreparedIs ==
  ASSUME NEW h \in Seq(Entry), NEW u \in Plain, u.kind = "user"
  PROVE  Prepared(h, u) = IF GuestSpoke(h) THEN (Visible(h) \o <<Framing("framing")>>) \o <<u>>
                          ELSE Visible(h) \o <<u>>
<1>1. PICK x \in Seq(Entry) : x = Visible(h)
  BY VisibleType
<1>2. u \in Entry /\ <<u>> \in Seq(Entry) /\ Len(<<u>>) = 1 /\ <<u>>[1] = u
  BY PlainEntries
<1>3. PICK z \in Seq(Entry) : z = x \o <<u>>
  BY <1>2, ConcatProperties
<1>4. Visible(Append(h, u)) = z
  <2>1. Append(h, u) = h \o <<u>> /\ Visible(h \o <<u>>) = Visible(h) \o <<u>>
    BY VisibleMore
  <2> QED
    BY <1>1, <1>3, <2>1, Zenon
<1>5. GuestSpoke(h) <=> \E i \in DOMAIN z : z[i].kind = "guest"
  <2>1. Len(z) = Len(x) + Len(<<u>>)
        /\ \A i \in 1..(Len(x) + Len(<<u>>)) : z[i] = IF i <= Len(x) THEN x[i] ELSE <<u>>[i - Len(x)]
    BY <1>2, <1>3, ConcatProperties
  <2>2. PICK n \in Nat : n = Len(x) /\ DOMAIN x = 1..n
    OBVIOUS
  <2>3. DOMAIN z = 1..(n + 1)
    BY <1>2, <2>1, <2>2
  <2>4. \A i \in 1..n : z[i] = x[i]
    BY <1>2, <2>1, <2>2
  <2>5. z[n + 1] = u
    BY <1>2, <2>1, <2>2
  <2>6. \A i \in 1..(n + 1) : i \in 1..n \/ i = n + 1
    OBVIOUS
  <2>7. \A i \in 1..n : i \in 1..(n + 1)
    OBVIOUS
  <2> QED
    BY <1>1, <2>2, <2>3, <2>4, <2>5, <2>6, <2>7 DEF GuestSpoke
<1>6. BeforeLast(z, Framing("framing")) = (x \o <<Framing("framing")>>) \o <<u>>
  BY <1>2, <1>3, BeforeLastIs, FramingEntry
<1> QED
  BY <1>1, <1>3, <1>4, <1>5, <1>6 DEF Prepared

LEMMA PreparedForGuestIs ==
  ASSUME NEW h \in Seq(Entry), NEW u \in Plain
  PROVE  PreparedForGuest(h, u) = (Visible(h) \o <<Framing("system")>>) \o <<u>>
<1>1. PICK x \in Seq(Entry) : x = Visible(h)
  BY VisibleType
<1>2. u \in Entry
  BY PlainEntries
<1>3. Visible(Append(h, u)) = x \o <<u>>
  BY <1>1, VisibleMore
<1> QED
  BY <1>1, <1>2, <1>3, BeforeLastIs, FramingEntry DEF PreparedForGuest
-----------------------------------------------------------------------------
(* Sequences with one entry more, and cut ones.                            *)

LEMMA One ==
  ASSUME NEW S, NEW x \in Seq(S), NEW e \in S, NEW z, z = x \o <<e>>, NEW n, n = Len(x)
  PROVE  /\ z \in Seq(S) /\ n \in Nat /\ Len(z) = n + 1 /\ DOMAIN z = 1..(n + 1)
         /\ (\A i \in 1..n : z[i] = x[i]) /\ z[n + 1] = e
<1>1. <<e>> \in Seq(S) /\ Len(<<e>>) = 1 /\ <<e>>[1] = e
  OBVIOUS
<1>2. PICK y \in Seq(S) : y = z
  BY <1>1, ConcatProperties
<1>3. PICK m \in Nat : m = n
  OBVIOUS
<1>4. Len(y) = Len(x) + Len(<<e>>)
      /\ \A i \in 1..(Len(x) + Len(<<e>>)) : y[i] = IF i <= Len(x) THEN x[i] ELSE <<e>>[i - Len(x)]
  BY <1>1, <1>2, ConcatProperties
<1>5. Len(y) = m + 1 /\ \A i \in 1..(m + 1) : y[i] = IF i <= m THEN x[i] ELSE <<e>>[i - m]
  BY <1>1, <1>3, <1>4
<1>6. DOMAIN y = 1..(m + 1)
  BY <1>5
<1>7. \A i \in 1..m : y[i] = x[i]
  BY <1>5
<1>8. y[m + 1] = e
  <2>1. m + 1 \in 1..(m + 1) /\ ~(m + 1 <= m) /\ (m + 1) - m = 1
    OBVIOUS
  <2> QED
    BY <1>1, <1>5, <2>1
<1> QED
  BY <1>2, <1>3, <1>5, <1>6, <1>7, <1>8

LEMMA Cut ==
  ASSUME NEW S, NEW h \in Seq(S), NEW b \in Nat, b <= Len(h), NEW q, q = SubSeq(h, 1, b)
  PROVE  q \in Seq(S) /\ Len(q) = b /\ DOMAIN q = 1..b /\ \A i \in 1..b : q[i] = h[i]
<1>1. \A i \in 1..b : h[i] \in S
  BY ElementOfSeq
<1>2. PICK a, c \in Int : a = 1 /\ c = b
  OBVIOUS
<1>3. \A i \in a..c : h[i] \in S
  BY <1>1, <1>2
<1>4. /\ SubSeq(h, a, c) \in Seq(S)
      /\ Len(SubSeq(h, a, c)) = IF a <= c THEN c - a + 1 ELSE 0
      /\ \A i \in 1..(c - a + 1) : SubSeq(h, a, c)[i] = h[a + i - 1]
  BY <1>3, SubSeqProperties
<1>5. q = SubSeq(h, a, c)
  BY <1>2
<1>6. PICK y \in Seq(S) : y = q
  BY <1>4, <1>5
<1>7. Len(y) = b /\ \A i \in 1..b : y[i] = h[i]
  BY <1>2, <1>4, <1>5, <1>6
<1>8. DOMAIN y = 1..b
  BY <1>7
<1> QED
  BY <1>6, <1>7, <1>8

LEMMA OneFramingPlain ==
  ASSUME NEW h \in Seq(Plain)
  PROVE  OneFraming(h) /\ \A p \in DOMAIN h : ~Injected(h[p])
<1>1. \A p \in DOMAIN h : h[p] \in Plain
  OBVIOUS
<1> QED
  BY <1>1 DEF OneFraming, Plain

LEMMA OneFramingMore ==
  ASSUME NEW h \in Seq(Entry), OneFraming(h), NEW e \in Plain, NEW z, z = h \o <<e>>
  PROVE  z \in Seq(Entry) /\ OneFraming(z)
<1>1. e \in Entry /\ ~Injected(e)
  BY DEF Plain
<1>2. PICK n \in Nat : n = Len(h) /\ DOMAIN h = 1..n
  OBVIOUS
<1>3. z \in Seq(Entry) /\ DOMAIN z = 1..(n + 1) /\ (\A i \in 1..n : z[i] = h[i]) /\ z[n + 1] = e
  BY <1>1, <1>2, One
<1>4. \A i \in DOMAIN z : Injected(z[i]) => i \in DOMAIN h /\ Injected(h[i])
  <2>1. \A i \in 1..(n + 1) : i \in 1..n \/ i = n + 1
    OBVIOUS
  <2> QED
    BY <1>1, <1>2, <1>3, <2>1
<1> QED
  BY <1>3, <1>4 DEF OneFraming

LEMMA OneFramingLast ==
  ASSUME NEW x \in Seq(Plain), NEW f \in Entry, NEW z, z = x \o <<f>>
  PROVE  z \in Seq(Entry) /\ OneFraming(z)
<1>1. x \in Seq(Entry)
  BY PlainEntries, SeqMonotonic
<1>2. PICK n \in Nat : n = Len(x) /\ DOMAIN x = 1..n
  OBVIOUS
<1>3. z \in Seq(Entry) /\ DOMAIN z = 1..(n + 1) /\ (\A i \in 1..n : z[i] = x[i])
  BY <1>1, <1>2, One
<1>4. \A i \in DOMAIN z : Injected(z[i]) => i = n + 1
  <2>1. \A i \in 1..(n + 1) : i \in 1..n \/ i = n + 1
    OBVIOUS
  <2>2. \A i \in 1..n : ~Injected(x[i])
    BY <1>2, OneFramingPlain
  <2> QED
    BY <1>3, <2>1, <2>2
<1> QED
  BY <1>3, <1>4 DEF OneFraming

LEMMA OneFramingCut ==
  ASSUME NEW h \in Seq(Entry), OneFraming(h), NEW b \in Nat, b <= Len(h)
  PROVE  SubSeq(h, 1, b) \in Seq(Entry) /\ OneFraming(SubSeq(h, 1, b))
<1>1. PICK q : q = SubSeq(h, 1, b)
  OBVIOUS
<1>2. q \in Seq(Entry) /\ DOMAIN q = 1..b /\ \A i \in 1..b : q[i] = h[i]
  BY <1>1, Cut
<1>3. \A i \in 1..b : i \in DOMAIN h
  OBVIOUS
<1> QED
  BY <1>1, <1>2, <1>3 DEF OneFraming

(* However a turn begins, only the framing it adds is left, and the slice  *)
(* from the old length on is one.                                          *)
LEMMA TurnBegins ==
  ASSUME NEW h \in Seq(Entry), OneFraming(h), NEW u \in Plain, u.kind = "user",
         NEW z, z = Prepared(h, u) \/ z = PreparedForGuest(h, u)
  PROVE  z \in Seq(Entry) /\ OneFraming(z) /\ Len(h) <= Len(z) /\ Len(z) \in Nat
<1>1. PICK x \in Seq(Plain) : x = Visible(h)
  BY VisibleType
<1>2. x \in Seq(Entry) /\ u \in Entry
  BY PlainEntries, SeqMonotonic
<1>3. PICK n \in Nat : n = Len(x)
  OBVIOUS
<1>4. PICK m \in Nat : m = Len(h)
  OBVIOUS
<1>5. n = m \/ n = m - 1
  BY <1>1, <1>3, <1>4, VisibleLen
<1>6. \/ z = x \o <<u>>
      \/ \E k \in {"framing", "system"} : z = (x \o <<Framing(k)>>) \o <<u>>
  BY <1>1, PreparedIs, PreparedForGuestIs
<1>7. CASE z = x \o <<u>>
  <2>1. z \in Seq(Entry) /\ OneFraming(z)
    BY <1>2, <1>7, OneFramingPlain, OneFramingMore
  <2>2. Len(z) = n + 1
    BY <1>2, <1>3, <1>7, One
  <2> QED
    BY <1>4, <1>5, <2>1, <2>2
<1>8. ASSUME NEW k \in {"framing", "system"}, z = (x \o <<Framing(k)>>) \o <<u>>
      PROVE  z \in Seq(Entry) /\ OneFraming(z) /\ Len(h) <= Len(z) /\ Len(z) \in Nat
  <2>1. PICK f \in Entry : f = Framing(k)
    BY FramingEntry
  <2>2. PICK y : y = x \o <<f>>
    OBVIOUS
  <2>3. y \in Seq(Entry) /\ OneFraming(y)
    BY <2>2, OneFramingLast
  <2>4. Len(y) = n + 1
    BY <1>2, <1>3, <2>2, One
  <2>5. z = y \o <<u>>
    BY <1>8, <2>1, <2>2
  <2>6. z \in Seq(Entry) /\ OneFraming(z)
    BY <2>3, <2>5, OneFramingMore
  <2>7. Len(z) = Len(y) + 1
    BY <1>2, <2>3, <2>5, One
  <2> QED
    BY <1>4, <1>5, <2>4, <2>6, <2>7
<1> QED
  BY <1>6, <1>7, <1>8
-----------------------------------------------------------------------------
(* What the store holds, and the writes that operations plan.              *)

LEMMA KeysOf ==
  ASSUME StoreTypes, NEW n, n = Cardinality(DOMAIN msgs)
  PROVE  /\ n \in Nat /\ Keys \in [1..n -> Nat] /\ Len(Keys) = n
         /\ StoredMessages \in Seq(Plain)
<1>1. PICK S : S = DOMAIN msgs
  OBVIOUS
<1>2. IsFiniteSet(S) /\ S \subseteq Nat /\ msgs \in [S -> Plain]
  BY <1>1 DEF StoreTypes
<1>3. n \in Nat /\ InOrder(S) \in [1..n -> S]
  BY <1>1, <1>2, InOrderOf
<1>4. Keys \in [1..n -> Nat]
  BY <1>1, <1>2, <1>3 DEF Keys
<1>5. Keys \in Seq(Nat)
  BY <1>3, <1>4, SeqDef
<1>6. Len(Keys) = n
  <2>1. PICK q \in Seq(Nat) : q = Keys
    BY <1>5
  <2>2. DOMAIN q = 1..n /\ DOMAIN q = 1..Len(q) /\ Len(q) \in Nat
    BY <1>4, <2>1
  <2> QED
    BY <1>3, <2>1, <2>2
<1>7. StoredMessages = [k \in 1..n |-> msgs[InOrder(S)[k]]]
  BY <1>1 DEF StoredMessages, Picked
<1>8. \A k \in 1..n : msgs[InOrder(S)[k]] \in Plain
  BY <1>2, <1>3
<1>9. [k \in 1..n |-> msgs[InOrder(S)[k]]] \in Seq(Plain)
  BY <1>3, <1>8, IsASeq
<1> QED
  BY <1>3, <1>4, <1>6, <1>7, <1>9

LEMMA SummaryPlain ==
  ASSUME NEW i \in 0..MaxSaid
  PROVE  [id |-> i, kind |-> "summary"] \in Plain
BY DEF Plain, Entry, Kinds, Injected

LEMMA ResumedPlain ==
  ASSUME StoreTypes
  PROVE  Resumed \in Seq(Plain)
<1>1. PICK q \in Seq(Plain) : q = StoredMessages
  BY KeysOf
<1>2. PICK e \in Plain : e = [id |-> marker, kind |-> "summary"]
  BY SummaryPlain DEF StoreTypes
<1>3. <<e>> \in Seq(Plain)
  OBVIOUS
<1>4. <<e>> \o q \in Seq(Plain)
  BY <1>3, ConcatProperties
<1> QED
  BY <1>1, <1>2, <1>4 DEF Resumed

LEMMA MetaWith ==
  ASSUME NEW m \in Metas, NEW n \in Nat
  PROVE  /\ [m EXCEPT !.count = n] = [count |-> n, summary |-> m.summary]
         /\ [m EXCEPT !.count = n] \in Metas
<1>1. PICK c \in Nat, b \in BOOLEAN : m = [count |-> c, summary |-> b]
  BY DEF Metas
<1>2. [m EXCEPT !.count = n] = [count |-> n, summary |-> b]
  BY <1>1
<1>3. m.summary = b
  BY <1>1
<1>4. [count |-> n, summary |-> b] \in Metas
  BY DEF Metas
<1> QED
  BY <1>2, <1>3, <1>4

LEMMA MetaKinds ==
  ASSUME meta \in Metas \cup {NoMeta}
  PROVE  /\ Exists <=> meta \in Metas
         /\ Exists => meta.count \in Nat
         /\ ~Exists => meta = NoMeta /\ meta.count = -1
BY DEF Exists, NoMeta, Metas

LEMMA WriteKinds ==
  /\ \A k \in Nat, e \in Plain : [op |-> "put", key |-> k, entry |-> e] \in WriteSet
  /\ \A k \in Nat : [op |-> "drop", key |-> k] \in WriteSet
  /\ \A m \in Metas : [op |-> "count", meta |-> m] \in WriteSet
  /\ \A i \in 1..MaxSaid : [op |-> "mark", id |-> i] \in WriteSet /\ [op |-> "swap", id |-> i] \in WriteSet
  /\ MetaWrite \in WriteSet
BY DEF WriteSet

LEMMA CountKind ==
  ASSUME meta \in Metas, NEW n \in Nat
  PROVE  CountWrite(n) \in WriteSet /\ CountWrite(n).op = "count"
         /\ CountWrite(n).meta = [count |-> n, summary |-> meta.summary]
BY MetaWith, WriteKinds DEF CountWrite

PutsFirst(w, c) ==
  \A i \in DOMAIN w : w[i].op = "put" => c <= w[i].key /\ \A j \in 1..i : w[j].op = "put"

NoPut(w) == w.op # "put"

LEMMA PutsFirstMore ==
  ASSUME NEW w \in Seq(WriteSet), NEW c, PutsFirst(w, c), NEW e \in WriteSet, NoPut(e),
         NEW z, z = w \o <<e>>
  PROVE  z \in Seq(WriteSet) /\ PutsFirst(z, c) /\ Len(z) = Len(w) + 1
         /\ (\A i \in 1..Len(w) : z[i] = w[i]) /\ z[Len(w) + 1] = e
<1>1. PICK n \in Nat : n = Len(w) /\ DOMAIN w = 1..n
  OBVIOUS
<1>2. z \in Seq(WriteSet) /\ Len(z) = n + 1 /\ DOMAIN z = 1..(n + 1)
      /\ (\A i \in 1..n : z[i] = w[i]) /\ z[n + 1] = e
  BY <1>1, One
<1>3. PutsFirst(z, c)
  <2> SUFFICES ASSUME NEW i \in 1..(n + 1), z[i].op = "put"
               PROVE  c <= z[i].key /\ \A j \in 1..i : z[j].op = "put"
    BY <1>2 DEF PutsFirst
  <2>1. i \in 1..n
    BY <1>2 DEF NoPut
  <2>2. w[i].op = "put"
    BY <1>2, <2>1
  <2>3. c <= w[i].key /\ \A j \in 1..i : w[j].op = "put"
    BY <1>1, <2>1, <2>2 DEF PutsFirst
  <2>4. \A j \in 1..i : j \in 1..n
    BY <2>1
  <2> QED
    BY <1>2, <2>1, <2>3, <2>4
<1> QED
  BY <1>1, <1>2, <1>3

LEMMA AppendWritesAre ==
  ASSUME meta \in Metas \cup {NoMeta}, NEW es \in Seq(Plain), NEW w, w = AppendWrites(es)
  PROVE  /\ w \in Seq(WriteSet) /\ PutsFirst(w, meta.count)
         /\ ~(es = <<>> \/ ~Exists) =>
              /\ Len(w) = Len(es) + 1 /\ w[Len(es) + 1] = CountWrite(meta.count + Len(es))
              /\ \A i \in 1..Len(es) : w[i] = [op |-> "put", key |-> meta.count + i - 1, entry |-> es[i]]
<1>1. CASE es = <<>> \/ ~Exists
  <2>1. w = <<>>
    BY <1>1 DEF AppendWrites
  <2>2. PICK u \in Seq(WriteSet) : u = <<>> /\ Len(u) = 0
    BY EmptySeq
  <2>3. DOMAIN u = {}
    BY <2>2
  <2> QED
    BY <1>1, <2>1, <2>2, <2>3 DEF PutsFirst
<1>2. CASE ~(es = <<>> \/ ~Exists)
  <2>1. PICK n \in Nat : n = Len(es) /\ DOMAIN es = 1..n
    OBVIOUS
  <2>2. meta \in Metas /\ meta.count \in Nat
    BY <1>2, MetaKinds
  <2>3. PICK c \in Nat : c = meta.count
    BY <2>2
  <2>4. PICK p : p = [i \in 1..n |-> [op |-> "put", key |-> c + i - 1, entry |-> es[i]]]
    OBVIOUS
  <2>5. \A i \in 1..n : [op |-> "put", key |-> c + i - 1, entry |-> es[i]] \in WriteSet
    <3> SUFFICES ASSUME NEW i \in 1..n
                 PROVE  [op |-> "put", key |-> c + i - 1, entry |-> es[i]] \in WriteSet
      OBVIOUS
    <3>1. PICK k \in Nat : k = c + i - 1
      OBVIOUS
    <3>2. es[i] \in Plain
      BY <2>1
    <3> QED
      BY <3>1, <3>2, WriteKinds
  <2>6. p \in Seq(WriteSet)
    BY <2>4, <2>5, IsASeq
  <2>7. DOMAIN p = 1..n /\ Len(p) = n
    BY <2>4, <2>6
  <2>8. \A i \in 1..n : p[i] = [op |-> "put", key |-> c + i - 1, entry |-> es[i]]
    BY <2>4
  <2>9. PutsFirst(p, c)
    <3> SUFFICES ASSUME NEW i \in 1..n
                 PROVE  c <= p[i].key /\ \A j \in 1..i : p[j].op = "put"
      BY <2>7 DEF PutsFirst
    <3>1. ASSUME NEW j \in 1..n PROVE p[j].op = "put" /\ p[j].key = c + j - 1
      <4>1. PICK k, e : k = c + j - 1 /\ e = es[j]
        OBVIOUS
      <4>2. p[j] = [op |-> "put", key |-> k, entry |-> e]
        BY <2>8, <4>1, Zenon
      <4>3. p[j].op = "put" /\ p[j].key = k
        BY <4>2
      <4> QED
        BY <4>1, <4>3
    <3>2. \A j \in 1..i : j \in 1..n
      OBVIOUS
    <3>3. c <= c + i - 1
      OBVIOUS
    <3> QED
      BY <3>1, <3>2, <3>3
  <2>10. PICK e \in WriteSet : e = CountWrite(c + n) /\ e.op # "put"
    <3>1. PICK m \in Nat : m = c + n
      OBVIOUS
    <3>2. CountWrite(m) \in WriteSet /\ CountWrite(m).op = "count"
      BY <2>2, CountKind
    <3>3. CountWrite(m).op # "put"
      BY <3>2
    <3> QED
      BY <3>1, <3>2, <3>3
  <2>11. w = p \o <<e>>
    BY <1>2, <2>1, <2>3, <2>4, <2>10 DEF AppendWrites, AppendFrom
  <2>12. w \in Seq(WriteSet) /\ PutsFirst(w, c) /\ Len(w) = Len(p) + 1
         /\ (\A i \in 1..Len(p) : w[i] = p[i]) /\ w[Len(p) + 1] = e
    <3>1. NoPut(e)
      BY <2>10 DEF NoPut
    <3> QED
      BY <2>6, <2>9, <2>11, <3>1, PutsFirstMore, Zenon
  <2> QED
    BY <2>1, <2>3, <2>7, <2>8, <2>10, <2>12
<1> QED
  BY <1>1, <1>2

NoPuts(w) == \A i \in DOMAIN w : NoPut(w[i])

LEMMA NoPutsFirst ==
  ASSUME NEW w, NoPuts(w), NEW c
  PROVE  PutsFirst(w, c)
BY DEF NoPuts, NoPut, PutsFirst

(* The first n writes drop the keys past keep.                             *)
Drops(w, keep, n) == \A i \in 1..n : w[i] = [op |-> "drop", key |-> Keys[keep + i]]

LEMMA DropsAre ==
  ASSUME StoreTypes, NEW keep \in Nat, NEW r \in Nat, keep + r <= Cardinality(DOMAIN msgs) \/ r = 0,
         NEW p, p = [i \in 1..r |-> [op |-> "drop", key |-> Keys[keep + i]]]
  PROVE  p \in Seq(WriteSet) /\ Len(p) = r /\ NoPuts(p) /\ Drops(p, keep, r)
<1>1. PICK n \in Nat : n = Cardinality(DOMAIN msgs) /\ Keys \in [1..n -> Nat]
  BY KeysOf
<1>2. \A i \in 1..r : Keys[keep + i] \in Nat
  <2> SUFFICES ASSUME NEW i \in 1..r PROVE Keys[keep + i] \in Nat
    OBVIOUS
  <2>1. keep + i \in 1..n
    BY <1>1
  <2> QED
    BY <1>1, <2>1
<1>3. \A i \in 1..r : [op |-> "drop", key |-> Keys[keep + i]] \in WriteSet
  BY <1>2, WriteKinds
<1>4. p \in Seq(WriteSet)
  <2>1. p \in [1..r -> WriteSet]
    BY <1>3
  <2> QED
    BY <2>1, SeqDef
<1>5. DOMAIN p = 1..r /\ Len(p) = r
  BY <1>4
<1>6. Drops(p, keep, r)
  BY DEF Drops
<1>7. NoPuts(p)
  <2> SUFFICES ASSUME NEW i \in 1..r PROVE p[i].op # "put"
    BY <1>5 DEF NoPuts, NoPut
  <2>1. PICK k : k = Keys[keep + i]
    OBVIOUS
  <2>2. p[i] = [op |-> "drop", key |-> k]
    BY <2>1
  <2> QED
    BY <2>2
<1> QED
  BY <1>4, <1>5, <1>6, <1>7

LEMMA NoPutsMore ==
  ASSUME NEW w \in Seq(WriteSet), NoPuts(w), NEW e \in WriteSet, NoPut(e), NEW z, z = w \o <<e>>
  PROVE  z \in Seq(WriteSet) /\ NoPuts(z) /\ Len(z) = Len(w) + 1
         /\ (\A i \in 1..Len(w) : z[i] = w[i]) /\ z[Len(w) + 1] = e
<1>1. PICK n \in Nat : n = Len(w) /\ DOMAIN w = 1..n
  OBVIOUS
<1>2. z \in Seq(WriteSet) /\ Len(z) = n + 1 /\ DOMAIN z = 1..(n + 1)
      /\ (\A i \in 1..n : z[i] = w[i]) /\ z[n + 1] = e
  BY <1>1, One
<1>3. \A i \in 1..(n + 1) : i \in 1..n \/ i = n + 1
  OBVIOUS
<1>4. NoPuts(z)
  BY <1>1, <1>2, <1>3 DEF NoPuts
<1> QED
  BY <1>1, <1>2, <1>4

LEMMA TruncateWritesAre ==
  ASSUME StoreTypes, NEW keep \in Nat, NEW w, w = TruncateWrites(keep)
  PROVE  /\ w \in Seq(WriteSet) /\ NoPuts(w)
         /\ \A n \in Nat : n = Cardinality(DOMAIN msgs) /\ Exists /\ keep <= n =>
              Len(w) = (n - keep) + 1 /\ Drops(w, keep, n - keep) /\ w[(n - keep) + 1] = CountWrite(keep)
<1>1. CASE ~Exists
  <2>1. w = <<>>
    BY <1>1 DEF TruncateWrites
  <2>2. PICK u \in Seq(WriteSet) : u = <<>> /\ Len(u) = 0
    BY EmptySeq
  <2>3. DOMAIN u = {}
    BY <2>2
  <2> QED
    BY <1>1, <2>1, <2>2, <2>3 DEF NoPuts
<1>2. CASE Exists
  <2>1. PICK n \in Nat : n = Cardinality(DOMAIN msgs) /\ Len(Keys) = n
    BY KeysOf
  <2>2. PICK r \in Nat : r = IF keep > n THEN 0 ELSE n - keep
    OBVIOUS
  <2>3. PICK c \in Nat : c = IF keep > n THEN n ELSE keep
    OBVIOUS
  <2>4. PICK p : p = [i \in 1..r |-> [op |-> "drop", key |-> Keys[keep + i]]]
    OBVIOUS
  <2>5. keep + r <= n \/ r = 0
    BY <2>2
  <2>6. p \in Seq(WriteSet) /\ Len(p) = r /\ NoPuts(p) /\ Drops(p, keep, r)
    BY <2>1, <2>4, <2>5, DropsAre
  <2>7. meta \in Metas
    BY <1>2, MetaKinds DEF StoreTypes
  <2>8. PICK e \in WriteSet : e = CountWrite(c) /\ NoPut(e)
    <3>1. CountWrite(c) \in WriteSet /\ CountWrite(c).op = "count"
      BY <2>7, CountKind
    <3>2. NoPut(CountWrite(c))
      BY <3>1 DEF NoPut
    <3> QED
      BY <3>1, <3>2
  <2>9. w = p \o <<e>>
    BY <1>2, <2>1, <2>2, <2>3, <2>4, <2>8 DEF TruncateWrites
  <2>10. w \in Seq(WriteSet) /\ NoPuts(w) /\ Len(w) = Len(p) + 1
         /\ (\A i \in 1..Len(p) : w[i] = p[i]) /\ w[Len(p) + 1] = e
    <3>1. p \in Seq(WriteSet) /\ NoPuts(p) /\ NoPut(e)
      BY <2>6, <2>8
    <3> QED
      BY <2>9, <3>1, NoPutsMore, Zenon
  <2>11. CASE keep <= n
    <3>1. r = n - keep /\ c = keep
      BY <2>2, <2>3, <2>11
    <3>2. \A i \in 1..r : w[i] = p[i]
      BY <2>6, <2>10
    <3>3. Drops(w, keep, r)
      BY <2>6, <3>2 DEF Drops
    <3>4. Len(w) = r + 1 /\ w[r + 1] = CountWrite(keep)
      BY <2>6, <2>8, <2>10, <3>1
    <3> QED
      BY <2>1, <2>10, <3>1, <3>3, <3>4
  <2>12. CASE ~(keep <= n)
    BY <2>1, <2>10, <2>12
  <2> QED
    BY <2>11, <2>12
<1> QED
  BY <1>1, <1>2

LEMMA NoPutKinds ==
  /\ \A i : NoPut([op |-> "mark", id |-> i]) /\ NoPut([op |-> "swap", id |-> i])
  /\ NoPut(MetaWrite)
BY DEF NoPut, MetaWrite

LEMMA CompactWritesAre ==
  ASSUME StoreTypes, NEW id \in 1..MaxSaid, NEW w, w = CompactWrites(id)
  PROVE  /\ w \in Seq(WriteSet) /\ NoPuts(w)
         /\ \A n \in Nat : n = Cardinality(DOMAIN msgs) /\ Exists =>
              /\ Len(w) = n + 4 /\ Drops(w, 0, n) /\ w[n + 1] = CountWrite(0)
              /\ w[n + 2] = [op |-> "mark", id |-> id] /\ w[n + 3] = [op |-> "swap", id |-> id]
              /\ w[n + 4] = MetaWrite
<1>1. PICK t : t = TruncateWrites(0)
  OBVIOUS
<1>2. t \in Seq(WriteSet) /\ NoPuts(t)
      /\ \A n \in Nat : n = Cardinality(DOMAIN msgs) /\ Exists /\ 0 <= n =>
           Len(t) = (n - 0) + 1 /\ Drops(t, 0, n - 0) /\ t[(n - 0) + 1] = CountWrite(0)
  BY <1>1, TruncateWritesAre
<1>3. PICK a, b, c \in WriteSet :
        /\ a = [op |-> "mark", id |-> id] /\ b = [op |-> "swap", id |-> id] /\ c = MetaWrite
        /\ NoPut(a) /\ NoPut(b) /\ NoPut(c)
  BY WriteKinds, NoPutKinds
<1>4. w = t \o <<a, b, c>>
  BY <1>1, <1>3 DEF CompactWrites
<1>5. PICK l \in Nat : l = Len(t) /\ DOMAIN t = 1..l
  BY <1>2
<1>6. <<a, b, c>> \in Seq(WriteSet) /\ Len(<<a, b, c>>) = 3
      /\ <<a, b, c>>[1] = a /\ <<a, b, c>>[2] = b /\ <<a, b, c>>[3] = c
  OBVIOUS
<1>7. PICK y \in Seq(WriteSet) : y = <<a, b, c>> /\ Len(y) = 3 /\ y[1] = a /\ y[2] = b /\ y[3] = c
  BY <1>6
<1>8. w \in Seq(WriteSet) /\ Len(w) = Len(t) + Len(y)
      /\ \A i \in 1..(Len(t) + Len(y)) : w[i] = IF i <= Len(t) THEN t[i] ELSE y[i - Len(t)]
  BY <1>2, <1>4, <1>7, ConcatProperties
<1>9. Len(w) = l + 3 /\ DOMAIN w = 1..(l + 3)
  BY <1>5, <1>7, <1>8
<1>10. \A i \in 1..l : w[i] = t[i]
  BY <1>5, <1>7, <1>8
<1>11. w[l + 1] = a /\ w[l + 2] = b /\ w[l + 3] = c
  BY <1>5, <1>7, <1>8
<1>12. NoPuts(w)
  <2>1. \A i \in 1..(l + 3) : i \in 1..l \/ i = l + 1 \/ i = l + 2 \/ i = l + 3
    OBVIOUS
  <2>2. \A i \in 1..l : NoPut(t[i])
    BY <1>2, <1>5 DEF NoPuts
  <2> QED
    BY <1>3, <1>9, <1>10, <1>11, <2>1, <2>2 DEF NoPuts
<1>13. ASSUME NEW n \in Nat, n = Cardinality(DOMAIN msgs), Exists
       PROVE  /\ Len(w) = n + 4 /\ Drops(w, 0, n) /\ w[n + 1] = CountWrite(0)
              /\ w[n + 2] = a /\ w[n + 3] = b /\ w[n + 4] = c
  <2>1. Len(t) = n + 1 /\ Drops(t, 0, n) /\ t[n + 1] = CountWrite(0)
    BY <1>2, <1>13
  <2>2. l = n + 1
    BY <1>5, <2>1
  <2>3. \A i \in 1..n : i \in 1..l
    BY <2>2
  <2>4. Drops(w, 0, n)
    BY <1>10, <2>1, <2>3 DEF Drops
  <2>5. n + 1 \in 1..l
    BY <2>2
  <2> QED
    BY <1>9, <1>10, <1>11, <2>1, <2>2, <2>4, <2>5
<1> QED
  BY <1>3, <1>8, <1>12, <1>13

LEMMA Slice ==
  ASSUME NEW S, NEW h \in Seq(S), NEW a \in Nat
  PROVE  SubSeq(h, a + 1, Len(h)) \in Seq(S)
<1>1. PICK n \in Nat : n = Len(h)
  OBVIOUS
<1>2. PICK m \in Nat : m = a + 1
  OBVIOUS
<1>3. \A i \in m..n : h[i] \in S
  <2> SUFFICES ASSUME NEW i \in m..n PROVE h[i] \in S
    OBVIOUS
  <2>1. i \in 1..Len(h)
    BY <1>1, <1>2
  <2> QED
    BY <2>1, ElementOfSeq
<1>4. SubSeq(h, m, n) \in Seq(S)
  BY <1>3, SubSeqProperties
<1> QED
  BY <1>1, <1>2, <1>4

LEMMA FinalizeWritesAre ==
  ASSUME meta \in Metas \cup {NoMeta}, live \in Seq(Entry), pre \in Nat
  PROVE  FinalizeWrites \in Seq(WriteSet) /\ PutsFirst(FinalizeWrites, meta.count)
<1>1. PICK t \in Seq(Entry) : t = SubSeq(live, pre + 1, Len(live))
  BY Slice
<1>2. PICK x \in Seq(Plain) : x = Visible(t)
  BY VisibleType
<1>3. PICK a : a = AppendWrites(x)
  OBVIOUS
<1>4. a \in Seq(WriteSet) /\ PutsFirst(a, meta.count)
  BY <1>3, AppendWritesAre
<1>5. PICK e \in WriteSet : e = MetaWrite /\ NoPut(e)
  BY WriteKinds, NoPutKinds
<1>6. PICK w, c : w = a \o <<e>> /\ c = meta.count
  OBVIOUS
<1>7. a \in Seq(WriteSet) /\ PutsFirst(a, c) /\ NoPut(e) /\ w = a \o <<e>>
  BY <1>4, <1>5, <1>6
<1>8. w \in Seq(WriteSet) /\ PutsFirst(w, c)
  BY <1>7, PutsFirstMore
<1>9. FinalizeWrites = w
  BY <1>1, <1>2, <1>3, <1>5, <1>6 DEF FinalizeWrites
<1> QED
  BY <1>6, <1>8, <1>9

LEMMA DeleteKinds ==
  /\ \A o \in {"scan", "archive", "meta"} : [op |-> o] \in DeleteSet
  /\ \A k \in Nat : [op |-> "msg", key |-> k] \in DeleteSet
BY DEF DeleteSet

LEMMA DeletesAre ==
  ASSUME StoreTypes
  PROVE  DeletesOfKeys \in Seq(DeleteSet)
<1>1. PICK n \in Nat : Keys \in [1..n -> Nat]
  BY KeysOf
<1>2. \A i \in 1..n : [op |-> "msg", key |-> Keys[i]] \in DeleteSet
  BY <1>1, DeleteKinds
<1>3. [i \in DOMAIN Keys |-> [op |-> "msg", key |-> Keys[i]]] \in [1..n -> DeleteSet]
  BY <1>1, <1>2
<1>4. PICK c \in Seq(DeleteSet) : c = [i \in DOMAIN Keys |-> [op |-> "msg", key |-> Keys[i]]]
  <2>1. PICK c : c = [i \in DOMAIN Keys |-> [op |-> "msg", key |-> Keys[i]]]
    OBVIOUS
  <2>2. c \in [1..n -> DeleteSet]
    BY <1>3, <2>1
  <2>3. c \in Seq(DeleteSet)
    BY <2>2, SeqDef
  <2> QED
    BY <2>1, <2>3
<1>5. <<[op |-> "archive"]>> \in Seq(DeleteSet) /\ <<[op |-> "meta"]>> \in Seq(DeleteSet)
  BY DeleteKinds
<1>6. <<>> \in Seq(DeleteSet)
  BY EmptySeq
<1>7. PICK a \in Seq(DeleteSet) : a = IF marker = 0 THEN <<>> ELSE <<[op |-> "archive"]>>
  BY <1>5, <1>6
<1>8. PICK b \in Seq(DeleteSet) : b = IF Exists THEN <<[op |-> "meta"]>> ELSE <<>>
  BY <1>5, <1>6
<1>9. PICK ab \in Seq(DeleteSet) : ab = a \o b
  BY ConcatProperties
<1>10. ab \o c \in Seq(DeleteSet)
  BY ConcatProperties
<1> QED
  BY <1>4, <1>7, <1>8, <1>9, <1>10 DEF DeletesOfKeys
-----------------------------------------------------------------------------
(* Every step keeps what holds whatever was cut short.                     *)

LEMMA StoreSame ==
  ASSUME StoreTypes, UNCHANGED <<msgs, meta, marker, indexed, deletes>>
  PROVE  StoreTypes'
BY DEF StoreTypes

LEMMA PutsSame ==
  ASSUME PutsPastCount, UNCHANGED <<writes, meta>>
  PROVE  PutsPastCount'
BY DEF PutsPastCount

LEMMA SaidPlain ==
  ASSUME said \in 0..MaxSaid, NEW n \in 1..2, said + n <= MaxSaid,
         NEW k \in {"user", "reply", "call", "result", "guest"}
  PROVE  Said(k, n) \in Plain /\ Said(k, n).kind = k
BY SaidAssumption DEF Said, Plain, Entry, Kinds, Injected

LEMMA BeginTurnAlways ==
  ASSUME Always, BeginTurn
  PROVE  Always'
<1>1. StoreTypes'
  BY StoreSame DEF Always, BeginTurn, store
<1>2. PutsPastCount'
  BY PutsSame DEF Always, BeginTurn, store
<1>3. PICK u \in Plain : u = Said("user", 1) /\ u.kind = "user"
  BY SaidPlain, SaidAssumption DEF Always, LiveTypes, BeginTurn
<1>4. live' = Prepared(live, u)
  BY <1>3 DEF BeginTurn
<1>5. live \in Seq(Entry) /\ OneFraming(live)
  BY DEF Always, LiveTypes
<1>6. PICK z : z = Prepared(live, u)
  OBVIOUS
<1>7. z \in Seq(Entry) /\ OneFraming(z) /\ Len(live) <= Len(z)
  BY <1>3, <1>5, <1>6, TurnBegins
<1>8. (live \in Seq(Entry) /\ OneFraming(live))'
  BY <1>4, <1>6, <1>7
<1>9. said' \in 0..MaxSaid /\ pc' # "guest"
  BY SaidAssumption DEF Always, LiveTypes, BeginTurn
<1>10. SliceInBounds' /\ pre' \in Nat
  BY <1>4, <1>5, <1>6, <1>7 DEF Always, LiveTypes, BeginTurn, SliceInBounds
<1>11. intact' \in BOOLEAN /\ summary' \in BOOLEAN /\ writes' \in Seq(WriteSet)
       /\ pc' \in {"idle", "run", "guest", "final", "writing"}
  BY DEF Always, LiveTypes, BeginTurn
<1>12. LiveTypes'
  BY <1>8, <1>9, <1>10, <1>11 DEF LiveTypes
<1> QED
  BY <1>1, <1>2, <1>12 DEF Always

(* An entry is appended in a turn.                                         *)
LEMMA EntryAlways ==
  ASSUME Always, NEW e \in Plain, live' = live \o <<e>>, pre' = pre, said' \in 0..MaxSaid,
         pc \in {"run", "guest", "final"}, pc' \in {"run", "final"},
         UNCHANGED <<msgs, meta, marker, indexed, deletes, summary, writes, intact>>
  PROVE  Always'
<1>1. StoreTypes'
  BY StoreSame DEF Always
<1>2. PutsPastCount'
  BY PutsSame DEF Always
<1>3. live \in Seq(Entry) /\ OneFraming(live) /\ pre \in Nat /\ pre <= Len(live)
  BY DEF Always, LiveTypes, SliceInBounds
<1>4. PICK z : z = live \o <<e>>
  OBVIOUS
<1>5. z \in Seq(Entry) /\ OneFraming(z)
  BY <1>3, <1>4, OneFramingMore
<1>6. e \in Entry
  BY PlainEntries
<1>7. Len(z) = Len(live) + 1
  BY <1>3, <1>4, <1>6, One
<1>8. pre' <= Len(z) /\ pre' \in Nat
  BY <1>3, <1>7
<1>9. (live \in Seq(Entry) /\ OneFraming(live))' /\ (pre <= Len(live))'
  BY <1>4, <1>5, <1>8
<1>10. intact' \in BOOLEAN /\ summary' \in BOOLEAN /\ writes' \in Seq(WriteSet)
       /\ pc' \in {"idle", "run", "guest", "final", "writing"} /\ pc' # "guest"
  BY DEF Always, LiveTypes
<1>11. LiveTypes'
  BY <1>8, <1>9, <1>10 DEF LiveTypes, SliceInBounds
<1> QED
  BY <1>1, <1>2, <1>11 DEF Always

LEMMA CommitReplyAlways ==
  ASSUME Always, CommitReply
  PROVE  Always'
<1>1. PICK e \in Plain : e = Said("reply", 1)
  BY SaidPlain, SaidAssumption DEF Always, LiveTypes, CommitReply
<1>2. live \in Seq(Entry)
  BY DEF Always, LiveTypes
<1>3. live' = live \o <<e>>
  BY <1>1, <1>2, VisibleMore DEF CommitReply
<1>4. said' \in 0..MaxSaid /\ pre' = pre /\ pc \in {"run", "guest", "final"} /\ pc' \in {"run", "final"}
      /\ UNCHANGED <<msgs, meta, marker, indexed, deletes, summary, writes, intact>>
  BY SaidAssumption DEF Always, LiveTypes, CommitReply, store
<1> QED
  BY <1>3, <1>4, EntryAlways

LEMMA GuestRepliesAlways ==
  ASSUME Always, GuestReplies
  PROVE  Always'
<1>1. PICK e \in Plain : e = Said("guest", 1)
  BY SaidPlain, SaidAssumption DEF Always, LiveTypes, GuestReplies
<1>2. live \in Seq(Entry)
  BY DEF Always, LiveTypes
<1>3. live' = live \o <<e>>
  BY <1>1, <1>2, VisibleMore DEF GuestReplies
<1>4. said' \in 0..MaxSaid /\ pre' = pre /\ pc \in {"run", "guest", "final"} /\ pc' \in {"run", "final"}
      /\ UNCHANGED <<msgs, meta, marker, indexed, deletes, summary, writes, intact>>
  BY SaidAssumption DEF Always, LiveTypes, GuestReplies, store
<1> QED
  BY <1>3, <1>4, EntryAlways

LEMMA TwoMore ==
  ASSUME NEW S, NEW h \in Seq(S), NEW a \in S, NEW b \in S
  PROVE  h \o <<a, b>> = (h \o <<a>>) \o <<b>>
<1>1. <<a>> \in Seq(S) /\ <<b>> \in Seq(S) /\ <<a>> \o <<b>> = <<a, b>>
  <2>1. <<a>> \in Seq(S) /\ Len(<<a>>) = 1 /\ <<a>>[1] = a /\ <<b>> \in Seq(S)
    OBVIOUS
  <2>2. PICK t \in Seq(S) : t = <<a, b>> /\ Len(t) = 2 /\ t[1] = a /\ t[2] = b
    <3>1. <<a, b>> \in Seq(S) /\ Len(<<a, b>>) = 2 /\ <<a, b>>[1] = a /\ <<a, b>>[2] = b
      OBVIOUS
    <3> QED
      BY <3>1
  <2>3. PICK x \in Seq(S) : x = <<a>> /\ Len(x) = 1 /\ x[1] = a
    BY <2>1
  <2>4. PICK y : y = x \o <<b>>
    OBVIOUS
  <2>5. y \in Seq(S) /\ Len(y) = 1 + 1 /\ (\A i \in 1..1 : y[i] = x[i]) /\ y[1 + 1] = b
    BY <2>3, <2>4, One
  <2>6. Len(y) = 2 /\ y[1] = a /\ y[2] = b
    BY <2>3, <2>5
  <2>7. \A i \in 1..Len(y) : y[i] = t[i]
    BY <2>2, <2>6
  <2>8. y = t
    BY <2>2, <2>5, <2>6, <2>7, SeqEqual
  <2> QED
    BY <2>1, <2>2, <2>3, <2>4, <2>8
<1>2. (h \o <<a>>) \o <<b>> = h \o (<<a>> \o <<b>>)
  BY <1>1, ConcatAssociative
<1> QED
  BY <1>1, <1>2

LEMMA CommitToolsAlways ==
  ASSUME Always, CommitTools
  PROVE  Always'
<1>1. PICK a \in Plain : a = Said("call", 1)
  BY SaidPlain, SaidAssumption DEF Always, LiveTypes, CommitTools
<1>2. PICK b \in Plain : b = Said("result", 2)
  BY SaidPlain, SaidAssumption DEF Always, LiveTypes, CommitTools
<1>3. live \in Seq(Entry) /\ OneFraming(live) /\ pre \in Nat /\ pre <= Len(live)
  BY DEF Always, LiveTypes, SliceInBounds, CommitTools
<1>4. a \in Entry /\ b \in Entry
  BY PlainEntries
<1>5. PICK y : y = live \o <<a>>
  OBVIOUS
<1>6. PICK z : z = y \o <<b>>
  OBVIOUS
<1>7. live' = z
  <2>1. live' = live \o <<a, b>>
    BY <1>1, <1>2 DEF CommitTools
  <2>2. PICK h \in Seq(Entry) : h = live
    BY <1>3
  <2>3. h \o <<a, b>> = (h \o <<a>>) \o <<b>>
    BY <1>4, TwoMore
  <2> QED
    BY <1>5, <1>6, <2>1, <2>2, <2>3
<1>8. y \in Seq(Entry) /\ OneFraming(y)
  BY <1>3, <1>5, OneFramingMore
<1>9. z \in Seq(Entry) /\ OneFraming(z)
  BY <1>6, <1>8, OneFramingMore
<1>10. Len(y) = Len(live) + 1
  BY <1>3, <1>4, <1>5, One
<1>11. Len(z) = Len(y) + 1
  BY <1>4, <1>6, <1>8, One
<1>12. pre' \in Nat /\ pre' <= Len(z)
  BY <1>3, <1>10, <1>11 DEF CommitTools
<1>13. StoreTypes'
  BY StoreSame DEF Always, CommitTools, store
<1>14. PutsPastCount'
  BY PutsSame DEF Always, CommitTools, store
<1>15. intact' \in BOOLEAN /\ summary' \in BOOLEAN /\ writes' \in Seq(WriteSet)
       /\ pc' \in {"idle", "run", "guest", "final", "writing"} /\ pc' # "guest" /\ said' \in 0..MaxSaid
  BY SaidAssumption DEF Always, LiveTypes, CommitTools
<1>16. (live \in Seq(Entry) /\ OneFraming(live))' /\ (pre <= Len(live))'
  BY <1>7, <1>9, <1>12
<1>17. LiveTypes'
  BY <1>12, <1>15, <1>16 DEF LiveTypes, SliceInBounds
<1> QED
  BY <1>13, <1>14, <1>17 DEF Always

LEMMA BeginGuestAlways ==
  ASSUME Always, BeginGuest
  PROVE  Always'
<1>1. StoreTypes'
  BY StoreSame DEF Always, BeginGuest, store
<1>2. PutsPastCount'
  BY PutsSame DEF Always, BeginGuest, store
<1>3. PICK u \in Plain : u = Said("user", 1) /\ u.kind = "user"
  BY SaidPlain, SaidAssumption DEF Always, LiveTypes, BeginGuest
<1>4. PICK z : z = PreparedForGuest(live, u)
  OBVIOUS
<1>5. live' = z /\ pre' = Len(live)
  BY <1>3, <1>4 DEF BeginGuest
<1>6. live \in Seq(Entry) /\ OneFraming(live)
  BY DEF Always, LiveTypes
<1>7. z \in Seq(Entry) /\ OneFraming(z) /\ Len(live) <= Len(z)
  BY <1>3, <1>4, <1>6, TurnBegins
<1>8. (live \in Seq(Entry) /\ OneFraming(live))' /\ (pre <= Len(live))' /\ pre' \in Nat
  BY <1>5, <1>6, <1>7
<1>9. said' \in 0..MaxSaid /\ (pc' = "guest" => said' < MaxSaid)
      /\ intact' \in BOOLEAN /\ summary' \in BOOLEAN /\ writes' \in Seq(WriteSet)
      /\ pc' \in {"idle", "run", "guest", "final", "writing"}
  BY SaidAssumption DEF Always, LiveTypes, BeginGuest
<1>10. LiveTypes'
  BY <1>8, <1>9 DEF LiveTypes, SliceInBounds
<1> QED
  BY <1>1, <1>2, <1>10 DEF Always

(* The control moves, or the operation is given up.                        *)
LEMMA ControlAlways ==
  ASSUME Always, UNCHANGED <<live, summary, msgs, meta, marker, indexed, deletes, said>>,
         intact' \in BOOLEAN, writes' = writes \/ writes' = <<>>, pre' = pre \/ pre' = 0,
         pc' \in {"idle", "writing"} \/ (pc' = "final" /\ pc \in {"run", "final"} /\ pre' = pre)
  PROVE  Always'
<1>1. StoreTypes'
  BY StoreSame DEF Always
<1>2. PutsPastCount' /\ writes' \in Seq(WriteSet)
  <2>1. CASE writes' = writes
    BY <2>1, PutsSame DEF Always, LiveTypes
  <2>2. CASE writes' = <<>>
    <3>1. PICK u \in Seq(WriteSet) : u = <<>> /\ Len(u) = 0
      BY EmptySeq
    <3>2. DOMAIN u = {}
      BY <3>1
    <3> QED
      BY <2>2, <3>1, <3>2 DEF PutsPastCount
  <2> QED
    BY <2>1, <2>2
<1>3. (live \in Seq(Entry) /\ OneFraming(live))' /\ said' \in 0..MaxSaid /\ summary' \in BOOLEAN
  BY DEF Always, LiveTypes
<1>4. pre' \in Nat
  BY DEF Always, LiveTypes
<1>5. SliceInBounds'
  BY DEF Always, LiveTypes, SliceInBounds
<1>6. pc' \in {"idle", "run", "guest", "final", "writing"} /\ pc' # "guest"
  OBVIOUS
<1>7. LiveTypes'
  BY <1>2, <1>3, <1>4, <1>5, <1>6 DEF LiveTypes
<1> QED
  BY <1>1, <1>2, <1>7 DEF Always

LEMMA MovesAlways ==
  ASSUME Always, StopRun \/ GuestFails \/ Done \/ Dropped
  PROVE  Always'
<1>1. intact \in BOOLEAN
  BY DEF Always, LiveTypes
<1>2. CASE StopRun
  BY <1>1, <1>2, ControlAlways DEF StopRun, store
<1>3. CASE GuestFails
  BY <1>3, ControlAlways DEF GuestFails, store
<1>4. CASE Done
  BY <1>1, <1>4, ControlAlways DEF Done, store
<1>5. CASE Dropped
  BY <1>5, ControlAlways DEF Dropped, store
<1> QED
  BY <1>2, <1>3, <1>4, <1>5

(* An operation starts writing.                                            *)
LEMMA PlanAlways ==
  ASSUME Always, live' \in Seq(Entry), OneFraming(live'), said' \in 0..MaxSaid, intact' \in BOOLEAN,
         UNCHANGED <<summary, msgs, meta, marker, indexed, deletes>>, pre' \in Nat,
         pc' \in {"idle", "writing"},
         writes' \in Seq(WriteSet), PutsFirst(writes', meta.count)
  PROVE  Always'
<1>1. StoreTypes'
  BY StoreSame DEF Always
<1>2. PutsPastCount'
  BY DEF PutsFirst, PutsPastCount
<1>3. summary' \in BOOLEAN /\ (live \in Seq(Entry) /\ OneFraming(live))'
  BY DEF Always, LiveTypes
<1>4. pc' \in {"idle", "run", "guest", "final", "writing"} /\ pc' # "guest"
  OBVIOUS
<1>5. LiveTypes'
  BY <1>3, <1>4 DEF LiveTypes, SliceInBounds
<1> QED
  BY <1>1, <1>2, <1>5 DEF Always

LEMMA FinalizeAlways ==
  ASSUME Always, Finalize
  PROVE  Always'
<1>1. FinalizeWrites \in Seq(WriteSet) /\ PutsFirst(FinalizeWrites, meta.count)
  BY FinalizeWritesAre DEF Always, LiveTypes, StoreTypes
<1>2. writes' \in Seq(WriteSet) /\ PutsFirst(writes', meta.count)
  BY <1>1 DEF Finalize
<1>3. /\ live' \in Seq(Entry) /\ OneFraming(live') /\ said' \in 0..MaxSaid /\ intact' \in BOOLEAN
      /\ pre' \in Nat /\ pc' \in {"idle", "writing"}
  BY DEF Finalize, Always, LiveTypes
<1>4. UNCHANGED <<summary, msgs, meta, marker, indexed, deletes>>
  BY DEF Finalize, store
<1> QED
  BY <1>2, <1>3, <1>4, PlanAlways

LEMMA CompactAlways ==
  ASSUME Always, Compact
  PROVE  Always'
<1>1. PICK i \in 1..MaxSaid : i = said + 1
  BY SaidAssumption DEF Always, LiveTypes, Compact
<1>2. PICK w : w = CompactWrites(i)
  OBVIOUS
<1>3. w \in Seq(WriteSet) /\ NoPuts(w)
  BY <1>2, CompactWritesAre DEF Always
<1>4. PutsFirst(w, meta.count)
  BY <1>3, NoPutsFirst
<1>5. writes' \in Seq(WriteSet) /\ PutsFirst(writes', meta.count)
  BY <1>1, <1>2, <1>3, <1>4 DEF Compact
<1>6. /\ live' \in Seq(Entry) /\ OneFraming(live') /\ said' \in 0..MaxSaid /\ intact' \in BOOLEAN
      /\ pre' \in Nat /\ pc' \in {"idle", "writing"}
  BY SaidAssumption DEF Compact, Always, LiveTypes
<1>7. UNCHANGED <<summary, msgs, meta, marker, indexed, deletes>>
  BY DEF Compact, store
<1> QED
  BY <1>5, <1>6, <1>7, PlanAlways

LEMMA KeepType ==
  ASSUME summary \in BOOLEAN, NEW h \in Seq(Entry)
  PROVE  Keep(h) \in Nat
<1>1. PICK a \in Nat : a = IF summary THEN 1 ELSE 0
  OBVIOUS
<1>2. a + 1 = IF summary THEN 2 ELSE 1
  BY <1>1
<1>3. PICK t \in Seq(Entry) : t = SubSeq(h, a + 1, Len(h))
  BY Slice
<1>4. Visible(t) \in Seq(Plain)
  BY VisibleType
<1>5. Len(Visible(t)) \in Nat
  BY <1>4, LenProperties
<1> QED
  BY <1>2, <1>3, <1>5 DEF Keep

LEMMA TruncateAlways ==
  ASSUME Always, NEW turns, Truncate(turns)
  PROVE  Always'
<1>1. PICK b \in Boundaries(turns) :
        LET kept == SubSeq(live, 1, b - 1) IN
        /\ live' = kept
        /\ \/ summary /\ kept = <<>> /\ intact' = FALSE /\ UNCHANGED <<pc, writes>>
           \/ /\ ~(summary /\ kept = <<>>)
              /\ writes' = TruncateWrites(Keep(kept))
              /\ pc' = "writing"
              /\ intact' = (intact /\ (kept = <<>> \/ ~Injected(Last(kept))))
  BY DEF Truncate
<1>2. live \in Seq(Entry) /\ OneFraming(live) /\ summary \in BOOLEAN /\ intact \in BOOLEAN
      /\ pre \in Nat /\ said \in 0..MaxSaid /\ StoreTypes /\ writes \in Seq(WriteSet) /\ PutsPastCount
  BY DEF Always, LiveTypes
<1>3. PICK c \in Nat : c = b - 1 /\ c <= Len(live)
  <2>1. b \in DOMAIN live
    BY DEF Boundaries
  <2>2. b \in 1..Len(live)
    BY <1>2, <2>1
  <2> QED
    BY <1>2, <2>2
<1>4. PICK kept : kept = SubSeq(live, 1, c)
  OBVIOUS
<1>5. kept \in Seq(Entry) /\ OneFraming(kept)
  BY <1>2, <1>3, <1>4, OneFramingCut
<1>6. PICK k \in Nat : k = Keep(kept)
  BY <1>2, <1>5, KeepType
<1>7. PICK w : w = TruncateWrites(k)
  OBVIOUS
<1>8. w \in Seq(WriteSet) /\ NoPuts(w)
  BY <1>2, <1>7, TruncateWritesAre
<1>9. PutsFirst(w, meta.count) /\ PutsFirst(writes, meta.count)
  BY <1>2, <1>8, NoPutsFirst DEF PutsPastCount, PutsFirst
<1>10. /\ live' = kept
       /\ \/ intact' = FALSE /\ UNCHANGED <<pc, writes>>
          \/ writes' = w /\ pc' = "writing" /\ intact' = (intact /\ (kept = <<>> \/ ~Injected(Last(kept))))
  BY <1>1, <1>3, <1>4, <1>6, <1>7
<1>11. writes' \in Seq(WriteSet) /\ PutsFirst(writes', meta.count)
  BY <1>2, <1>8, <1>9, <1>10
<1>12. live' \in Seq(Entry) /\ OneFraming(live')
  BY <1>5, <1>10
<1>13. intact' \in BOOLEAN
  BY <1>2, <1>10
<1>14. pc' \in {"idle", "writing"} /\ said' \in 0..MaxSaid /\ pre' \in Nat
  BY <1>2, <1>10 DEF Truncate
<1>15. UNCHANGED <<summary, msgs, meta, marker, indexed, deletes>>
  BY DEF Truncate, store
<1> QED
  BY <1>11, <1>12, <1>13, <1>14, <1>15, PlanAlways

(* One write.                                                              *)
LEMMA WriteCases ==
  ASSUME NEW w \in WriteSet
  PROVE  \/ w.op = "put" /\ w.key \in Nat /\ w.entry \in Plain
         \/ w.op = "drop" /\ w.key \in Nat
         \/ w.op = "count" /\ w.meta \in Metas
         \/ w.op \in {"mark", "swap"} /\ w.id \in 1..MaxSaid
         \/ w.op = "meta"
BY DEF WriteSet, MetaWrite

LEMMA WriteEffect ==
  ASSUME Write, NEW w, w = Head(writes)
  PROVE  /\ w.op = "put" => msgs' = [k \in DOMAIN msgs \cup {w.key} |-> IF k = w.key THEN w.entry ELSE msgs[k]]
         /\ w.op = "drop" => msgs' = [k \in DOMAIN msgs \ {w.key} |-> msgs[k]]
         /\ w.op \notin {"put", "drop"} => msgs' = msgs
         /\ w.op = "count" => meta' = w.meta
         /\ w.op = "meta" => meta' = UpdatedMeta
         /\ w.op \notin {"count", "meta"} => meta' = meta
         /\ marker' = IF w.op = "mark" THEN w.id ELSE marker
         /\ live' = IF w.op = "swap" THEN <<[id |-> w.id, kind |-> "summary"]>> ELSE live
         /\ summary' = (summary \/ w.op = "swap")
         /\ writes # <<>> /\ writes' = Tail(writes) /\ pc = "writing"
         /\ UNCHANGED <<pre, pc, indexed, deletes, said, intact>>
BY DEF Write

LEMMA UpdatedMetaIs ==
  ASSUME meta \in Metas \cup {NoMeta}, summary \in BOOLEAN, live \in Seq(Entry)
  PROVE  /\ UpdatedMeta = [count |-> IF Exists THEN meta.count ELSE Len(live), summary |-> summary]
         /\ UpdatedMeta \in Metas
<1>1. PICK b \in BOOLEAN : b = summary
  OBVIOUS
<1>2. PICK n \in Nat : n = Len(live)
  OBVIOUS
<1>3. PICK c \in Nat : c = IF Exists THEN meta.count ELSE n
  BY MetaKinds
<1>4. LiveMeta = [count |-> n, summary |-> b]
  BY <1>1, <1>2 DEF LiveMeta
<1>5. UpdatedMeta = [count |-> c, summary |-> b]
  BY <1>3, <1>4 DEF UpdatedMeta
<1>6. [count |-> c, summary |-> b] \in Metas
  BY DEF Metas
<1> QED
  BY <1>1, <1>2, <1>3, <1>5, <1>6

LEMMA WriteAlways ==
  ASSUME Always, Write
  PROVE  Always'
<1>1. PICK w : w = Head(writes)
  OBVIOUS
<1>2. /\ w.op = "put" => msgs' = [k \in DOMAIN msgs \cup {w.key} |-> IF k = w.key THEN w.entry ELSE msgs[k]]
      /\ w.op = "drop" => msgs' = [k \in DOMAIN msgs \ {w.key} |-> msgs[k]]
      /\ w.op \notin {"put", "drop"} => msgs' = msgs
      /\ w.op = "count" => meta' = w.meta
      /\ w.op = "meta" => meta' = UpdatedMeta
      /\ w.op \notin {"count", "meta"} => meta' = meta
      /\ marker' = IF w.op = "mark" THEN w.id ELSE marker
      /\ live' = IF w.op = "swap" THEN <<[id |-> w.id, kind |-> "summary"]>> ELSE live
      /\ summary' = (summary \/ w.op = "swap")
      /\ writes # <<>> /\ writes' = Tail(writes) /\ pc = "writing"
      /\ UNCHANGED <<pre, pc, indexed, deletes, said, intact>>
  BY <1>1, WriteEffect
<1>3. writes \in Seq(WriteSet) /\ StoreTypes /\ LiveTypes /\ PutsPastCount
  BY DEF Always, LiveTypes
<1>4. PICK n \in Nat : n = Len(writes)
  BY <1>3
<1>5. PICK t : t = Tail(writes)
  OBVIOUS
<1>6. w \in WriteSet /\ t \in Seq(WriteSet) /\ Len(t) = n - 1 /\ (\A i \in 1..(n - 1) : t[i] = writes[i + 1])
      /\ w = writes[1] /\ n >= 1
  BY <1>1, <1>2, <1>3, <1>4, <1>5
<1>7. \/ w.op = "put" /\ w.key \in Nat /\ w.entry \in Plain
      \/ w.op = "drop" /\ w.key \in Nat
      \/ w.op = "count" /\ w.meta \in Metas
      \/ w.op \in {"mark", "swap"} /\ w.id \in 1..MaxSaid
      \/ w.op = "meta"
  BY <1>6, WriteCases
<1>8. IsFiniteSet(DOMAIN msgs') /\ DOMAIN msgs' \subseteq Nat /\ msgs' \in [DOMAIN msgs' -> Plain]
  <2>1. PICK D : D = DOMAIN msgs
    OBVIOUS
  <2>2. IsFiniteSet(D) /\ D \subseteq Nat /\ msgs \in [D -> Plain]
    BY <1>3, <2>1 DEF StoreTypes
  <2>3. CASE w.op = "put"
    <3>1. PICK k \in Nat : k = w.key
      BY <1>7, <2>3
    <3>2. PICK e \in Plain : e = w.entry
      BY <1>7, <2>3
    <3>3. msgs' = [x \in D \cup {k} |-> IF x = k THEN e ELSE msgs[x]]
      BY <1>2, <2>1, <2>3, <3>1, <3>2
    <3>4. IsFiniteSet(D \cup {k})
      BY <2>2, FS_AddElement
    <3>5. \A x \in D \cup {k} : (IF x = k THEN e ELSE msgs[x]) \in Plain
      BY <2>2
    <3>6. DOMAIN msgs' = D \cup {k} /\ msgs' \in [D \cup {k} -> Plain]
      BY <3>3, <3>5
    <3> QED
      BY <2>2, <3>4, <3>6
  <2>4. CASE w.op = "drop"
    <3>1. PICK k : k = w.key
      OBVIOUS
    <3>2. msgs' = [x \in D \ {k} |-> msgs[x]]
      BY <1>2, <2>1, <2>4, <3>1
    <3>3. IsFiniteSet(D \ {k})
      BY <2>2, FS_RemoveElement
    <3>4. DOMAIN msgs' = D \ {k} /\ msgs' \in [D \ {k} -> Plain]
      BY <2>2, <3>2
    <3> QED
      BY <2>2, <3>3, <3>4
  <2>5. CASE w.op \notin {"put", "drop"}
    BY <1>2, <2>1, <2>2, <2>5
  <2> QED
    BY <2>3, <2>4, <2>5
<1>9. meta' \in Metas \cup {NoMeta}
  <2>1. CASE w.op = "count"
    BY <1>2, <1>7, <2>1
  <2>2. CASE w.op = "meta"
    BY <1>2, <1>3, <2>2, UpdatedMetaIs DEF StoreTypes, LiveTypes
  <2>3. CASE w.op \notin {"count", "meta"}
    BY <1>2, <1>3, <2>3 DEF StoreTypes
  <2> QED
    BY <2>1, <2>2, <2>3
<1>10. marker' \in 0..MaxSaid
  <2>1. CASE w.op = "mark"
    BY <1>2, <1>7, <2>1, SaidAssumption
  <2>2. CASE w.op # "mark"
    BY <1>2, <1>3, <2>2 DEF StoreTypes
  <2> QED
    BY <2>1, <2>2
<1>11. indexed' \in BOOLEAN /\ deletes' \in Seq(DeleteSet)
  BY <1>2, <1>3 DEF StoreTypes
<1>12. StoreTypes'
  BY <1>8, <1>9, <1>10, <1>11 DEF StoreTypes
<1>13. (live \in Seq(Entry) /\ OneFraming(live))'
  <2>1. CASE w.op = "swap"
    <3>1. PICK i \in 0..MaxSaid : i = w.id
      BY <1>7, <2>1, SaidAssumption
    <3>2. PICK e \in Plain : e = [id |-> i, kind |-> "summary"]
      BY SummaryPlain
    <3>6. <<e>> \in Seq(Plain)
      OBVIOUS
    <3>3. PICK z \in Seq(Plain) : z = <<e>>
      BY <3>6
    <3>4. live' = z
      BY <1>2, <2>1, <3>1, <3>2, <3>3
    <3>5. z \in Seq(Entry) /\ OneFraming(z)
      BY PlainEntries, SeqMonotonic, OneFramingPlain
    <3> QED
      BY <3>4, <3>5
  <2>2. CASE w.op # "swap"
    BY <1>2, <1>3, <2>2 DEF LiveTypes
  <2> QED
    BY <2>1, <2>2
<1>14. summary' \in BOOLEAN
  BY <1>2
<1>15. writes' \in Seq(WriteSet)
  BY <1>2, <1>5, <1>6
<1>16. pre' \in Nat /\ said' \in 0..MaxSaid /\ intact' \in BOOLEAN /\ pc' = "writing"
  BY <1>2, <1>3 DEF LiveTypes
<1>17. LiveTypes'
  BY <1>13, <1>14, <1>15, <1>16 DEF LiveTypes, SliceInBounds
<1>18. PutsPastCount'
  <2>1. DOMAIN t = 1..(n - 1) /\ DOMAIN writes = 1..n
    BY <1>3, <1>4, <1>6
  <2>2. ASSUME NEW i \in 1..(n - 1), t[i].op = "put"
        PROVE  meta'.count <= t[i].key /\ \A j \in 1..i : t[j].op = "put"
    <3>1. i + 1 \in 1..n /\ t[i] = writes[i + 1]
      BY <1>6
    <3>2. meta.count <= writes[i + 1].key /\ \A j \in 1..(i + 1) : writes[j].op = "put"
      BY <1>3, <2>1, <2>2, <3>1 DEF PutsPastCount
    <3>3. 1 \in 1..(i + 1)
      OBVIOUS
    <3>4. w.op = "put"
      BY <1>6, <3>2, <3>3
    <3>5. meta' = meta
      BY <1>2, <3>4
    <3>6. \A j \in 1..i : j \in 1..(n - 1) /\ j + 1 \in 1..(i + 1)
      BY <1>6
    <3>7. \A j \in 1..i : t[j].op = "put"
      BY <1>6, <3>2, <3>6
    <3> QED
      BY <3>1, <3>2, <3>5, <3>7
  <2>3. PutsFirst(t, meta'.count)
    BY <2>1, <2>2 DEF PutsFirst
  <2> QED
    BY <1>2, <1>5, <2>3 DEF PutsFirst, PutsPastCount
<1> QED
  BY <1>12, <1>17, <1>18 DEF Always

(* Evicted or dead, and loaded again.                                      *)
LEMMA LoadAlways ==
  ASSUME Always, Load, deletes' = deletes \/ deletes' = <<>>
  PROVE  Always'
<1>1. StoreTypes /\ LiveTypes
  BY DEF Always
<1>2. intact' \in BOOLEAN
  BY DEF Load
<1>3. deletes' \in Seq(DeleteSet)
  BY <1>1, EmptySeq DEF StoreTypes
<1>4. PICK x : x = Resumed
  OBVIOUS
<1>5. x \in Seq(Plain)
  BY <1>1, <1>4, ResumedPlain
<1>6. x \in Seq(Entry) /\ OneFraming(x)
  BY <1>5, PlainEntries, SeqMonotonic, OneFramingPlain
<1>7. PICK u \in Seq(Plain) : u = <<>> /\ Len(u) = 0
  BY EmptySeq
<1>8. u \in Seq(Entry) /\ OneFraming(u)
  BY PlainEntries, SeqMonotonic, OneFramingPlain
<1>9. live' = x \/ live' = u
  BY <1>4, <1>7 DEF Load
<1>10. (live \in Seq(Entry) /\ OneFraming(live))'
  BY <1>6, <1>8, <1>9
<1>11. meta \in Metas \cup {NoMeta}
  BY <1>1 DEF StoreTypes
<1>12. PICK f \in BOOLEAN : f = FALSE
  OBVIOUS
<1>13. [count |-> 0, summary |-> f] \in Metas
  BY DEF Metas
<1>14. meta' \in Metas /\ summary' \in BOOLEAN
  <2>1. CASE Exists
    <3>1. meta \in Metas
      BY <1>11, <2>1, MetaKinds
    <3>2. meta.summary \in BOOLEAN
      BY <3>1 DEF Metas
    <3>3. meta' = meta /\ summary' = meta.summary
      BY <2>1 DEF Load, store
    <3> QED
      BY <3>1, <3>2, <3>3
  <2>2. CASE ~Exists
    <3>1. meta' = [count |-> 0, summary |-> f] /\ summary' = f
      BY <1>12, <2>2 DEF Load
    <3> QED
      BY <1>13, <3>1
  <2> QED
    BY <2>1, <2>2
<1>15. msgs' = msgs /\ marker' = marker /\ indexed' \in BOOLEAN
  BY <1>1 DEF Load, store, StoreTypes
<1>16. StoreTypes'
  BY <1>1, <1>3, <1>14, <1>15 DEF StoreTypes
<1>17. PICK v \in Seq(WriteSet) : v = <<>> /\ Len(v) = 0
  BY EmptySeq
<1>18. writes' = v /\ pre' = 0 /\ pc' = "idle" /\ said' = said
  BY <1>17 DEF Load
<1>19. DOMAIN v = {}
  BY <1>17
<1>20. PutsPastCount'
  BY <1>18, <1>19 DEF PutsPastCount
<1>21. LiveTypes'
  BY <1>1, <1>2, <1>10, <1>14, <1>17, <1>18 DEF LiveTypes, SliceInBounds
<1> QED
  BY <1>16, <1>20, <1>21 DEF Always

LEMMA DeleteIndexAlways ==
  ASSUME Always, DeleteIndex
  PROVE  Always'
<1>1. StoreTypes /\ LiveTypes
  BY DEF Always
<1>2. <<[op |-> "scan"]>> \in Seq(DeleteSet)
  BY DeleteKinds
<1>3. deletes' \in Seq(DeleteSet)
  BY <1>2 DEF DeleteIndex
<1>4. indexed' \in BOOLEAN
  BY DEF DeleteIndex
<1>5. StoreTypes'
  BY <1>1, <1>3, <1>4 DEF StoreTypes, DeleteIndex
<1>6. PutsPastCount'
  BY PutsSame DEF Always, DeleteIndex
<1>7. LiveTypes'
  BY <1>1 DEF LiveTypes, SliceInBounds, DeleteIndex
<1> QED
  BY <1>5, <1>6, <1>7 DEF Always

(* A delete removes, and drops no counter below a pending put.             *)
LEMMA DeleteEffect ==
  ASSUME Always, DeleteStep
  PROVE  /\ deletes' \in Seq(DeleteSet) /\ marker' \in {0, marker} /\ meta' \in {NoMeta, meta}
         /\ \/ msgs' = msgs
            \/ \E k : msgs' = [x \in DOMAIN msgs \ {k} |-> msgs[x]]
         /\ UNCHANGED <<live, summary, pre, pc, writes, indexed, said, intact>>
<1>1. StoreTypes
  BY DEF Always
<1>2. PICK t : t = Tail(deletes)
  OBVIOUS
<1>3. deletes # <<>> /\ deletes \in Seq(DeleteSet)
  BY <1>1 DEF DeleteStep, StoreTypes
<1>4. t \in Seq(DeleteSet)
  BY <1>2, <1>3
<1>5. PICK q : q = DeletesOfKeys
  OBVIOUS
<1>6. q \in Seq(DeleteSet)
  BY <1>1, <1>5, DeletesAre
<1>7. deletes' \in {q, t}
  BY <1>2, <1>5 DEF DeleteStep
<1>8. marker' \in {0, marker} /\ meta' \in {NoMeta, meta}
  BY DEF DeleteStep
<1>9. \/ msgs' = msgs
      \/ \E k : msgs' = [x \in DOMAIN msgs \ {k} |-> msgs[x]]
  BY DEF DeleteStep
<1>10. UNCHANGED <<live, summary, pre, pc, writes, indexed, said, intact>>
  BY DEF DeleteStep
<1> QED
  BY <1>4, <1>6, <1>7, <1>8, <1>9, <1>10

LEMMA DeleteStepAlways ==
  ASSUME Always, DeleteStep
  PROVE  Always'
<1>1. StoreTypes /\ LiveTypes /\ PutsPastCount
  BY DEF Always
<1>2. /\ deletes' \in Seq(DeleteSet) /\ marker' \in {0, marker} /\ meta' \in {NoMeta, meta}
      /\ \/ msgs' = msgs
         \/ \E k : msgs' = [x \in DOMAIN msgs \ {k} |-> msgs[x]]
      /\ UNCHANGED <<live, summary, pre, pc, writes, indexed, said, intact>>
  BY DeleteEffect
<1>3. PICK D : D = DOMAIN msgs
  OBVIOUS
<1>4. IsFiniteSet(D) /\ D \subseteq Nat /\ msgs \in [D -> Plain]
  BY <1>1, <1>3 DEF StoreTypes
<1>5. IsFiniteSet(DOMAIN msgs') /\ DOMAIN msgs' \subseteq Nat /\ msgs' \in [DOMAIN msgs' -> Plain]
  <2>1. CASE msgs' = msgs
    BY <1>3, <1>4, <2>1
  <2>2. ASSUME NEW k, msgs' = [x \in D \ {k} |-> msgs[x]]
        PROVE  IsFiniteSet(DOMAIN msgs') /\ DOMAIN msgs' \subseteq Nat /\ msgs' \in [DOMAIN msgs' -> Plain]
    <3>1. IsFiniteSet(D \ {k})
      BY <1>4, FS_RemoveElement
    <3>2. DOMAIN msgs' = D \ {k} /\ msgs' \in [D \ {k} -> Plain]
      BY <1>4, <2>2
    <3> QED
      BY <1>4, <3>1, <3>2
  <2> QED
    BY <1>2, <1>3, <2>1, <2>2
<1>6. meta' \in Metas \cup {NoMeta}
  BY <1>1, <1>2 DEF StoreTypes
<1>7. marker' \in 0..MaxSaid
  BY <1>1, <1>2, SaidAssumption DEF StoreTypes
<1>8. StoreTypes'
  BY <1>1, <1>2, <1>5, <1>6, <1>7 DEF StoreTypes
<1>9. LiveTypes'
  BY <1>1, <1>2 DEF LiveTypes, SliceInBounds
<1>10. PutsPastCount'
  <2>1. CASE meta' = meta
    BY <1>1, <1>2, <2>1, PutsSame
  <2>2. CASE meta' = NoMeta
    <3>1. meta'.count = -1
      BY <2>2 DEF NoMeta
    <3>2. ASSUME NEW i \in DOMAIN writes, writes[i].op = "put"
          PROVE  writes[i].key \in Nat /\ \A j \in 1..i : writes[j].op = "put"
      <4>1. writes[i] \in WriteSet
        BY <1>1 DEF LiveTypes
      <4>2. writes[i].key \in Nat
        BY <3>2, <4>1, WriteCases
      <4> QED
        BY <1>1, <3>2, <4>2 DEF PutsPastCount
    <3>3. \A i \in DOMAIN writes : writes[i].op = "put" =>
            meta'.count <= writes[i].key /\ \A j \in 1..i : writes[j].op = "put"
      BY <3>1, <3>2
    <3> QED
      BY <1>2, <3>3 DEF PutsPastCount
  <2> QED
    BY <1>2, <2>1, <2>2
<1> QED
  BY <1>8, <1>9, <1>10 DEF Always

LEMMA InitAlways ==
  ASSUME Init
  PROVE  Always
<1>1. PICK u \in Seq(Plain) : u = <<>> /\ Len(u) = 0
  BY EmptySeq
<1>2. u \in Seq(Entry) /\ OneFraming(u)
  BY PlainEntries, SeqMonotonic, OneFramingPlain
<1>3. PICK v \in Seq(WriteSet) : v = <<>> /\ Len(v) = 0
  BY EmptySeq
<1>4. PICK d \in Seq(DeleteSet) : d = <<>>
  BY EmptySeq
<1>5. DOMAIN u = {} /\ DOMAIN v = {}
  BY <1>1, <1>3
<1>6. PICK f \in BOOLEAN : f = FALSE
  OBVIOUS
<1>7. [count |-> 0, summary |-> f] \in Metas
  BY DEF Metas
<1>8. msgs = u /\ meta = [count |-> 0, summary |-> f] /\ marker = 0 /\ indexed = TRUE /\ deletes = d
  BY <1>1, <1>4, <1>6 DEF Init
<1>9. DOMAIN msgs = {} /\ IsFiniteSet(DOMAIN msgs)
  BY <1>5, <1>8, FS_EmptySet
<1>10. msgs \in [DOMAIN msgs -> Plain] /\ DOMAIN msgs \subseteq Nat
  BY <1>5, <1>8
<1>11. StoreTypes
  BY <1>7, <1>8, <1>9, <1>10, SaidAssumption DEF StoreTypes
<1>12. live = u /\ writes = v /\ pre = 0 /\ pc = "idle" /\ said = 0
  BY <1>1, <1>3 DEF Init
<1>13. summary \in BOOLEAN /\ intact \in BOOLEAN
  BY DEF Init
<1>14. LiveTypes
  BY <1>2, <1>12, <1>13, SaidAssumption DEF LiveTypes, SliceInBounds
<1>15. PutsPastCount
  BY <1>5, <1>12 DEF PutsPastCount
<1> QED
  BY <1>11, <1>14, <1>15 DEF Always

LEMMA StepAlways ==
  ASSUME Always, [Next]_vars
  PROVE  Always'
<1>1. CASE UNCHANGED vars
  <2>1. StoreTypes'
    BY <1>1, StoreSame DEF Always, vars
  <2>2. PutsPastCount'
    BY <1>1, PutsSame DEF Always, vars
  <2>3. LiveTypes'
    BY <1>1 DEF Always, LiveTypes, SliceInBounds, vars
  <2> QED
    BY <2>1, <2>2, <2>3 DEF Always
<1>2. CASE BeginTurn \/ BeginGuest
  BY <1>2, BeginTurnAlways, BeginGuestAlways
<1>3. CASE CommitReply \/ CommitTools \/ GuestReplies
  BY <1>3, CommitReplyAlways, CommitToolsAlways, GuestRepliesAlways
<1>4. CASE StopRun \/ GuestFails \/ Done \/ Dropped
  BY <1>4, MovesAlways
<1>5. CASE Finalize \/ Compact \/ \E turns \in 1..MaxSaid : Truncate(turns)
  BY <1>5, FinalizeAlways, CompactAlways, TruncateAlways
<1>6. CASE Write
  BY <1>6, WriteAlways
<1>7. CASE Evicted \/ Crash
  BY <1>7, LoadAlways DEF Evicted, Crash
<1>8. CASE DeleteIndex \/ DeleteStep
  BY <1>8, DeleteIndexAlways, DeleteStepAlways
<1> QED
  BY <1>1, <1>2, <1>3, <1>4, <1>5, <1>6, <1>7, <1>8 DEF Next
-----------------------------------------------------------------------------
LEMMA AlwaysImplies ==
  ASSUME Always
  PROVE  HistoryInv
<1>1. StoreTypes /\ LiveTypes
  BY DEF Always
<1>2. StoredMessages \in Seq(Plain)
  BY <1>1, KeysOf
<1>3. StoredMessages \in Seq(Entry)
  BY <1>2, PlainEntries, SeqMonotonic
<1>4. meta = NoMeta \/ (meta.count \in Nat /\ meta.summary \in BOOLEAN)
  BY <1>1 DEF StoreTypes, Metas
<1>5. \A i \in DOMAIN deletes : deletes[i].op \in {"scan", "archive", "meta", "msg"}
  <2>1. \A i \in DOMAIN deletes : deletes[i] \in DeleteSet
    BY <1>1 DEF StoreTypes
  <2>2. \A d \in DeleteSet : d.op \in {"scan", "archive", "meta", "msg"}
    BY DEF DeleteSet
  <2> QED
    BY <2>1, <2>2
<1>6. \A i \in DOMAIN writes : writes[i].op \in {"put", "drop", "count", "mark", "swap", "meta"}
  <2>1. \A i \in DOMAIN writes : writes[i] \in WriteSet
    BY <1>1 DEF LiveTypes
  <2>2. \A w \in WriteSet : w.op \in {"put", "drop", "count", "mark", "swap", "meta"}
    BY WriteCases
  <2> QED
    BY <2>1, <2>2
<1>7. TypeOK
  BY <1>1, <1>3, <1>4, <1>5, <1>6 DEF TypeOK, StoreTypes, LiveTypes
<1>8. FramingNeverStored
  BY <1>1 DEF FramingNeverStored, StoreTypes, Plain
<1> QED
  BY <1>1, <1>7, <1>8 DEF HistoryInv, LiveTypes

(* Whatever was cut short before -- a dropped consumer, a guest that       *)
(* failed, a crash or a delete between any two writes -- finalize_run      *)
(* slices the history within its bounds, and no framing is ever stored.    *)
THEOREM HistoryStaysInBounds == Spec => []HistoryInv
<1>1. Init => Always
  BY InitAlways
<1>2. Always /\ [Next]_vars => Always'
  BY StepAlways
<1>3. Always => HistoryInv
  BY AlwaysImplies
<1> QED
  BY <1>1, <1>2, <1>3, PTL DEF Spec

(* What the action property asks of a step.                                *)
CountedKept ==
  \A k \in DOMAIN msgs : k < meta.count => k \notin DOMAIN msgs' \/ msgs'[k] = msgs[k]

LEMMA WriteKeepsCounted ==
  ASSUME Always, Write
  PROVE  CountedKept
<1>1. PICK w : w = Head(writes)
  OBVIOUS
<1>2. /\ w.op = "put" => msgs' = [k \in DOMAIN msgs \cup {w.key} |-> IF k = w.key THEN w.entry ELSE msgs[k]]
      /\ w.op = "drop" => msgs' = [k \in DOMAIN msgs \ {w.key} |-> msgs[k]]
      /\ w.op \notin {"put", "drop"} => msgs' = msgs
      /\ writes # <<>>
  BY <1>1, WriteEffect
<1>3. writes \in Seq(WriteSet) /\ StoreTypes /\ PutsPastCount
  BY DEF Always, LiveTypes
<1>4. w \in WriteSet /\ w = writes[1] /\ 1 \in DOMAIN writes
  BY <1>1, <1>2, <1>3
<1>5. SUFFICES ASSUME NEW k \in DOMAIN msgs, k < meta.count
               PROVE  k \notin DOMAIN msgs' \/ msgs'[k] = msgs[k]
  BY DEF CountedKept
<1>6. CASE w.op = "put"
  <2>1. meta.count <= w.key /\ w.key \in Nat
    BY <1>3, <1>4, <1>6, WriteCases DEF PutsPastCount
  <2>2. k \in Nat /\ meta.count \in Int
    BY <1>3, MetaKinds DEF StoreTypes
  <2>3. k # w.key
    BY <1>5, <2>1, <2>2
  <2> QED
    BY <1>2, <1>6, <2>3
<1>7. CASE w.op = "drop"
  BY <1>2, <1>7
<1>8. CASE w.op \notin {"put", "drop"}
  BY <1>2, <1>8
<1> QED
  BY <1>6, <1>7, <1>8

(* An append writes past the counted messages only, wherever the earlier   *)
(* operations were cut short: no step changes a message counted before.    *)
THEOREM NothingIsOverwritten == Spec => AppendsOverwriteNothing
<1>1. Init => Always
  BY InitAlways
<1>2. Always /\ [Next]_vars => Always'
  BY StepAlways
<1>3. Always /\ [Next]_vars => [CountedKept]_vars
  <2> SUFFICES ASSUME Always, [Next]_vars PROVE CountedKept
    OBVIOUS
  <2>1. CASE Write
    BY <2>1, WriteKeepsCounted
  <2>2. CASE DeleteStep
    <3>1. \/ msgs' = msgs
          \/ \E k : msgs' = [x \in DOMAIN msgs \ {k} |-> msgs[x]]
      BY <2>2, DeleteEffect
    <3> QED
      BY <3>1 DEF CountedKept
  <2>3. CASE msgs' = msgs
    BY <2>3 DEF CountedKept
  <2>4. CASE BeginTurn \/ BeginGuest \/ CommitReply \/ CommitTools \/ GuestReplies
    BY <2>3, <2>4 DEF BeginTurn, BeginGuest, CommitReply, CommitTools, GuestReplies, store
  <2>5. CASE StopRun \/ GuestFails \/ Done \/ Dropped \/ Finalize \/ Compact
    BY <2>3, <2>5 DEF StopRun, GuestFails, Done, Dropped, Finalize, Compact, store
  <2>6. CASE \E turns \in 1..MaxSaid : Truncate(turns)
    BY <2>3, <2>6 DEF Truncate, store
  <2>7. CASE Evicted \/ Crash
    BY <2>3, <2>7 DEF Evicted, Crash, Load, store
  <2>8. CASE DeleteIndex \/ UNCHANGED vars
    BY <2>3, <2>8 DEF DeleteIndex, vars
  <2> QED
    BY <2>1, <2>2, <2>4, <2>5, <2>6, <2>7, <2>8 DEF Next
<1>4. AppendsOverwriteNothing <=> [][CountedKept]_vars
  BY DEF AppendsOverwriteNothing, CountedKept
<1> QED
  BY <1>1, <1>2, <1>3, <1>4, PTL DEF Spec
-----------------------------------------------------------------------------
(* Every step keeps an undisturbed session so.  First, histories.          *)

(* A prefix that the concatenation begins with is cut out again.           *)
LEMMA CutIs ==
  ASSUME NEW h \in Seq(Entry), NEW z \in Seq(Entry), NEW b \in Nat, b <= Len(z), Len(h) = b,
         \A i \in 1..b : z[i] = h[i]
  PROVE  SubSeq(z, 1, b) = h
<1>1. PICK q : q = SubSeq(z, 1, b)
  OBVIOUS
<1>2. q \in Seq(Entry) /\ Len(q) = b /\ \A i \in 1..b : q[i] = z[i]
  BY <1>1, Cut
<1>3. Len(q) = Len(h) /\ \A i \in 1..Len(q) : q[i] = h[i]
  BY <1>2
<1>4. q = h
  BY <1>2, <1>3, SeqEqual
<1> QED
  BY <1>1, <1>4

LEMMA VisibleThen ==
  ASSUME NEW v \in Seq(Plain), NEW f \in Entry, Injected(f)
  PROVE  Visible(v \o <<f>>) = v
<1>1. v \in Seq(Entry)
  BY PlainEntries, SeqMonotonic
<1>2. <<f>> \in Seq(Entry)
  OBVIOUS
<1>3. PICK t \in Seq(Entry) : t = <<f>>
  BY <1>2
<1>4. Visible(v \o t) = Visible(v) \o Visible(t)
  BY <1>1, VisibleConcat
<1>5. Visible(t) = <<>> /\ Visible(v) = v
  BY <1>3, VisibleNone, VisiblePlain
<1>6. v \o <<>> = v
  BY ConcatEmptySeq
<1> QED
  BY <1>3, <1>4, <1>5, <1>6

(* No guest has spoken: nothing is framed.                                 *)
LEMMA NoGuestNoFraming ==
  ASSUME NEW h \in Seq(Entry), Framed(h), ~GuestSpoke(h)
  PROVE  h \in Seq(Plain) /\ Visible(h) = h
<1>1. ASSUME NEW p \in DOMAIN h, Injected(h[p]) PROVE FALSE
  <2>1. PICK n \in Nat : n = Len(h) /\ DOMAIN h = 1..n
    OBVIOUS
  <2>2. p \in 1..n
    BY <2>1
  <2>3. \/ \E g \in 1..(p - 1) : h[g].kind = "guest"
        \/ p + 1 < n /\ h[p + 2].kind = "guest"
    BY <1>1, <2>1 DEF Framed
  <2>4. \E g \in 1..n : h[g].kind = "guest"
    <3>1. \A g \in 1..(p - 1) : g \in 1..n
      BY <2>2
    <3>2. p + 1 < n => p + 2 \in 1..n
      BY <2>2
    <3> QED
      BY <2>3, <3>1, <3>2
  <2>5. PICK g \in DOMAIN h : h[g].kind = "guest"
    BY <2>1, <2>4
  <2>6. ~Injected(h[g])
    BY <2>5 DEF Injected
  <2>7. PICK k \in DOMAIN Visible(h) : Visible(h)[k] = h[g]
    BY <2>6, VisibleHas
  <2> QED
    BY <2>5, <2>7 DEF GuestSpoke
<1>2. h \in Seq(Plain)
  BY <1>1, NoFraming
<1> QED
  BY <1>2, VisiblePlain

(* What a turn that begins on h makes of it.                               *)
Begun(h, z, n) ==
  /\ Visible(SubSeq(z, 1, n)) = Visible(h)
  /\ \E i \in (n + 1)..Len(z) : z[i].kind = "user"

LEMMA BegunPlain ==
  ASSUME NEW h \in Seq(Plain), NEW u \in Plain, u.kind = "user", NEW z, z = h \o <<u>>,
         NEW n, n = Len(h)
  PROVE  Begun(h, z, n) /\ Framed(z)
<1>1. /\ z \in Seq(Plain) /\ n \in Nat /\ Len(z) = n + 1
      /\ (\A i \in 1..n : z[i] = h[i]) /\ z[n + 1] = u
  BY One
<1>2. h \in Seq(Entry) /\ z \in Seq(Entry)
  BY <1>1, PlainEntries, SeqMonotonic
<1>3. SubSeq(z, 1, n) = h
  BY <1>1, <1>2, CutIs
<1>4. n + 1 \in (n + 1)..Len(z)
  BY <1>1
<1>5. Begun(h, z, n)
  BY <1>1, <1>3, <1>4 DEF Begun
<1>6. Framed(z)
  BY <1>1, OneFramingPlain DEF Framed
<1> QED
  BY <1>5, <1>6

LEMMA BegunFramed ==
  ASSUME NEW h \in Seq(Entry), OneFraming(h), NEW u \in Plain, u.kind = "user",
         NEW f \in Entry, Injected(f), NEW v, v = Visible(h),
         NEW y, y = v \o <<f>>, NEW z, z = y \o <<u>>
  PROVE  /\ Begun(h, z, Len(h)) /\ Asked(z)
         /\ GuestSpoke(h) => Framed(z)
<1>1. PICK n, m \in Nat : n = Len(h) /\ m = Len(v) /\ (m = n \/ m = n - 1)
  BY VisibleLen
<1>2. v \in Seq(Plain) /\ v \in Seq(Entry) /\ DOMAIN v = 1..m
  BY <1>1, VisibleType
<1>4. y \in Seq(Entry) /\ Len(y) = m + 1 /\ (\A i \in 1..m : y[i] = v[i]) /\ y[m + 1] = f
  BY <1>1, <1>2, One
<1>5. u \in Entry
  BY PlainEntries
<1>6. z \in Seq(Entry) /\ Len(z) = (m + 1) + 1 /\ (\A i \in 1..(m + 1) : z[i] = y[i]) /\ z[(m + 1) + 1] = u
  <2>1. PICK k \in Nat : k = m + 1
    OBVIOUS
  <2>2. k = Len(y) /\ y \in Seq(Entry)
    BY <1>4, <2>1
  <2>3. z \in Seq(Entry) /\ Len(z) = k + 1 /\ (\A i \in 1..k : z[i] = y[i]) /\ z[k + 1] = u
    BY <1>5, <2>2, One
  <2> QED
    BY <2>1, <2>3
<1>7. PICK l \in Nat : l = m + 2 /\ Len(z) = l /\ DOMAIN z = 1..l
  BY <1>6
<1>8. (\A i \in 1..m : z[i] = v[i]) /\ z[m + 1] = f /\ z[m + 2] = u
  <2>1. m + 1 \in 1..(m + 1) /\ (m + 1) + 1 = m + 2 /\ \A i \in 1..m : i \in 1..(m + 1)
    OBVIOUS
  <2> QED
    BY <1>4, <1>6, <2>1
<1>9. Visible(SubSeq(z, 1, n)) = v
  <2>1. CASE m = n
    <3>1. n <= Len(z) /\ Len(v) = n /\ \A i \in 1..n : z[i] = v[i]
      BY <1>1, <1>7, <1>8, <2>1
    <3>2. SubSeq(z, 1, n) = v
      BY <1>2, <1>6, <3>1, CutIs
    <3> QED
      BY <1>2, <3>2, VisiblePlain
  <2>2. CASE m = n - 1
    <3>1. n <= Len(z) /\ Len(y) = n /\ \A i \in 1..n : z[i] = y[i]
      BY <1>4, <1>6, <1>7, <2>2
    <3>2. SubSeq(z, 1, n) = y
      BY <1>4, <1>6, <3>1, CutIs
    <3>3. Visible(y) = v
      BY <1>2, VisibleThen
    <3> QED
      BY <3>2, <3>3
  <2> QED
    BY <1>1, <2>1, <2>2
<1>10. m + 2 \in (n + 1)..Len(z) /\ z[m + 2].kind = "user"
  BY <1>1, <1>7, <1>8
<1>11. Begun(h, z, Len(h))
  BY <1>1, <1>9, <1>10 DEF Begun
<1>12. \A p \in 1..l : Injected(z[p]) => p = m + 1
  <2> SUFFICES ASSUME NEW p \in 1..l, Injected(z[p]), p # m + 1 PROVE FALSE
    OBVIOUS
  <2>1. ~Injected(u) /\ \A i \in 1..m : ~Injected(v[i])
    BY <1>2, OneFramingPlain DEF Plain
  <2>2. p \in 1..m \/ p = m + 2
    BY <1>7
  <2> QED
    BY <1>8, <2>1, <2>2
<1>13. (m + 1) + 1 = m + 2
  OBVIOUS
<1>14. Asked(z)
  BY <1>7, <1>8, <1>12, <1>13 DEF Asked
<1>15. ASSUME GuestSpoke(h) PROVE Framed(z)
  <2>1. PICK g \in 1..m : v[g].kind = "guest"
    BY <1>2, <1>15 DEF GuestSpoke
  <2>4. (m + 1) - 1 = m
    OBVIOUS
  <2>2. g \in 1..((m + 1) - 1) /\ z[g].kind = "guest"
    BY <1>8, <2>1, <2>4
  <2>3. m + 1 < l
    BY <1>7
  <2> QED
    BY <1>7, <1>8, <1>12, <1>13, <2>2, <2>3 DEF Framed
<1> QED
  BY <1>11, <1>14, <1>15

LEMMA BegunTurn ==
  ASSUME NEW h \in Seq(Entry), OneFraming(h), Framed(h), NEW u \in Plain, u.kind = "user"
  PROVE  /\ Begun(h, Prepared(h, u), Len(h)) /\ Framed(Prepared(h, u))
         /\ Begun(h, PreparedForGuest(h, u), Len(h)) /\ Asked(PreparedForGuest(h, u))
<1>1. PICK f, g \in Entry : f = Framing("framing") /\ g = Framing("system") /\ Injected(f) /\ Injected(g)
  BY FramingEntry
<1>2. PICK v : v = Visible(h)
  OBVIOUS
<1>3. Begun(h, PreparedForGuest(h, u), Len(h)) /\ Asked(PreparedForGuest(h, u))
  <2>4. PICK y : y = v \o <<g>>
    OBVIOUS
  <2>1. PICK z : z = y \o <<u>>
    OBVIOUS
  <2>2. PreparedForGuest(h, u) = z
    BY <1>1, <1>2, <2>4, <2>1, PreparedForGuestIs
  <2>3. Begun(h, z, Len(h)) /\ Asked(z)
    BY <1>1, <1>2, <2>4, <2>1, BegunFramed
  <2> QED
    BY <2>2, <2>3
<1>4. Begun(h, Prepared(h, u), Len(h)) /\ Framed(Prepared(h, u))
  <2>1. CASE GuestSpoke(h)
    <3>4. PICK y : y = v \o <<f>>
      OBVIOUS
    <3>1. PICK z : z = y \o <<u>>
      OBVIOUS
    <3>2. Prepared(h, u) = z
      BY <1>1, <1>2, <2>1, <3>4, <3>1, PreparedIs
    <3>3. Begun(h, z, Len(h)) /\ (GuestSpoke(h) => Framed(z))
      BY <1>1, <1>2, <3>4, <3>1, BegunFramed
    <3> QED
      BY <2>1, <3>2, <3>3
  <2>2. CASE ~GuestSpoke(h)
    <3>1. h \in Seq(Plain) /\ Visible(h) = h
      BY <2>2, NoGuestNoFraming
    <3>2. PICK z : z = h \o <<u>>
      OBVIOUS
    <3>3. Prepared(h, u) = z
      BY <2>2, <3>1, <3>2, PreparedIs
    <3>4. Begun(h, z, Len(h)) /\ Framed(z)
      BY <3>1, <3>2, BegunPlain
    <3> QED
      BY <3>3, <3>4
  <2> QED
    BY <2>1, <2>2
<1> QED
  BY <1>3, <1>4

(* An entry appended in a turn moves neither the slice nor the framing.    *)
LEMMA EntryMore ==
  ASSUME NEW h \in Seq(Entry), NEW e \in Plain, NEW b \in Nat, b <= Len(h), NEW z, z = h \o <<e>>
  PROVE  /\ z \in Seq(Entry) /\ b <= Len(z) /\ SubSeq(z, 1, b) = SubSeq(h, 1, b)
         /\ (\E i \in (b + 1)..Len(h) : h[i].kind = "user") => \E i \in (b + 1)..Len(z) : z[i].kind = "user"
         /\ Framed(h) => Framed(z)
         /\ Asked(h) /\ e.kind = "guest" => Framed(z)
<1>1. PICK n \in Nat : n = Len(h) /\ DOMAIN h = 1..n
  OBVIOUS
<1>2. e \in Entry /\ ~Injected(e)
  BY DEF Plain
<1>3. z \in Seq(Entry) /\ Len(z) = n + 1 /\ DOMAIN z = 1..(n + 1)
      /\ (\A i \in 1..n : z[i] = h[i]) /\ z[n + 1] = e
  BY <1>1, <1>2, One
<1>4. b <= Len(z)
  BY <1>1, <1>3
<1>5. SubSeq(z, 1, b) = SubSeq(h, 1, b)
  <2>1. PICK q : q = SubSeq(h, 1, b)
    OBVIOUS
  <2>2. q \in Seq(Entry) /\ Len(q) = b /\ \A i \in 1..b : q[i] = h[i]
    BY <2>1, Cut
  <2>3. \A i \in 1..b : z[i] = q[i]
    BY <1>1, <1>3, <2>2
  <2>4. SubSeq(z, 1, b) = q
    BY <1>3, <1>4, <2>2, <2>3, CutIs
  <2> QED
    BY <2>1, <2>4
<1>6. ASSUME NEW i \in (b + 1)..Len(h), h[i].kind = "user"
      PROVE  \E j \in (b + 1)..Len(z) : z[j].kind = "user"
  <2>1. i \in (b + 1)..Len(z) /\ i \in 1..n
    BY <1>1, <1>3
  <2> QED
    BY <1>3, <1>6, <2>1
<1>7. \A p \in 1..(n + 1) : Injected(z[p]) => p \in 1..n /\ Injected(h[p])
  <2>1. \A p \in 1..(n + 1) : p \in 1..n \/ p = n + 1
    OBVIOUS
  <2> QED
    BY <1>2, <1>3, <2>1
<1>8. ASSUME Framed(h) PROVE Framed(z)
  <2> SUFFICES ASSUME NEW p \in 1..n, Injected(h[p])
               PROVE  /\ p < n + 1 /\ z[p + 1].kind = "user"
                      /\ \/ \E g \in 1..(p - 1) : z[g].kind = "guest"
                         \/ p + 1 < n + 1 /\ z[p + 2].kind = "guest"
    BY <1>3, <1>7 DEF Framed
  <2>1. /\ p < n /\ h[p + 1].kind = "user"
        /\ \/ \E g \in 1..(p - 1) : h[g].kind = "guest"
           \/ p + 1 < n /\ h[p + 2].kind = "guest"
    BY <1>1, <1>8 DEF Framed
  <2>2. p + 1 \in 1..n /\ (\A g \in 1..(p - 1) : g \in 1..n) /\ (p + 1 < n => p + 2 \in 1..n)
    BY <2>1
  <2>3. p < n + 1 /\ (p + 1 < n => p + 1 < n + 1)
    BY <2>1
  <2> QED
    BY <1>3, <2>1, <2>2, <2>3
<1>9. ASSUME Asked(h), e.kind = "guest" PROVE Framed(z)
  <2> SUFFICES ASSUME NEW p \in 1..n, Injected(h[p])
               PROVE  /\ p < n + 1 /\ z[p + 1].kind = "user"
                      /\ p + 1 < n + 1 /\ z[p + 2].kind = "guest"
    BY <1>3, <1>7 DEF Framed
  <2>1. p + 1 = n /\ h[p + 1].kind = "user"
    BY <1>1, <1>9 DEF Asked
  <2>2. p + 1 \in 1..n /\ p + 2 = n + 1
    BY <2>1
  <2> QED
    BY <1>3, <1>9, <2>1, <2>2
<1> QED
  BY <1>3, <1>4, <1>5, <1>6, <1>8, <1>9

(* The store stands for a history as long as neither moves.                *)
LEMMA StoredStays ==
  ASSUME NEW h, NEW z, Stored(h), Visible(z) = Visible(h), UNCHANGED <<summary, msgs, meta, marker>>
  PROVE  /\ live' = z => Stored(live)'
         /\ SubSeq(live', 1, pre') = z => Stored(SubSeq(live, 1, pre))'
<1>1. Agree' /\ meta'.summary = summary' /\ DOMAIN msgs' = 0..(meta'.count - 1)
  BY DEF Stored, Agree
<1>2. (Lead \o First(meta.count))' = Visible(z)
  BY DEF Stored, Lead, First
<1>3. ASSUME live' = z PROVE Stored(live)'
  BY <1>1, <1>2, <1>3 DEF Stored
<1>4. ASSUME SubSeq(live', 1, pre') = z PROVE Stored(SubSeq(live, 1, pre))'
  BY <1>1, <1>2, <1>4 DEF Stored
<1> QED
  BY <1>3, <1>4

LEMMA NoneStored ==
  /\ Visible(<<>>) = <<>> /\ <<>> \o <<>> = <<>> /\ 0..(0 - 1) = {}
  /\ First(0) = <<>>
<1>1. <<>> \in Seq(Plain)
  BY EmptySeq
<1>2. PICK u \in Seq(Plain) : u = <<>>
  BY <1>1
<1>3. Visible(u) = u /\ u \o <<>> = u
  BY VisiblePlain, ConcatEmptySeq
<1>4. First(0) = <<>>
  <2>1. PICK g : g = First(0)
    OBVIOUS
  <2>2. g \in [1..0 -> Plain]
    BY <2>1 DEF First
  <2>3. g \in Seq(Plain)
    BY <2>2, SeqDef
  <2>4. Len(g) = 0
    BY <2>2, <2>3
  <2>5. g = <<>>
    BY <2>3, <2>4, EmptySeq
  <2> QED
    BY <2>1, <2>5
<1>5. 0..(0 - 1) = {}
  OBVIOUS
<1> QED
  BY <1>2, <1>3, <1>4, <1>5

LEMMA PlainFramed ==
  ASSUME NEW h \in Seq(Plain)
  PROVE  Framed(h)
BY OneFramingPlain DEF Framed

LEMMA EmptyFramed == Framed(<<>>)
<1>1. PICK u \in Seq(Plain) : u = <<>>
  BY EmptySeq
<1> QED
  BY <1>1, PlainFramed

LEMMA InitUndisturbed ==
  ASSUME Init
  PROVE  Undisturbed
<1>1. Exists
  BY DEF Init, Exists, NoMeta
<1>2. meta.count = 0 /\ meta.summary = FALSE /\ summary = FALSE /\ marker = 0 /\ msgs = <<>> /\ live = <<>>
  BY DEF Init
<1>3. DOMAIN msgs = {}
  <2>1. PICK u \in Seq(Plain) : u = <<>> /\ Len(u) = 0
    BY EmptySeq
  <2>2. DOMAIN u = {}
    BY <2>1
  <2> QED
    BY <1>2, <2>1, <2>2
<1>4. Lead = <<>> /\ Agree
  BY <1>2 DEF Lead, Agree
<1>5. Stored(live)
  BY <1>2, <1>3, <1>4, NoneStored DEF Stored
<1>6. Framed(live)
  BY <1>2, EmptyFramed
<1> QED
  BY <1>1, <1>5, <1>6 DEF Undisturbed, Init

(* In a turn.                                                              *)
LEMMA BeginUndisturbed ==
  ASSUME Always, Undisturbed, BeginTurn \/ BeginGuest, intact'
  PROVE  Undisturbed'
<1>1. pc = "idle" /\ said < MaxSaid /\ Stored(live) /\ Framed(live)
  <2>1. pc = "idle"
    BY DEF BeginTurn, BeginGuest
  <2>2. said \in Nat /\ MaxSaid \in Nat
    BY SaidAssumption DEF Always, LiveTypes
  <2>3. said < MaxSaid \/ said + 1 < MaxSaid
    BY DEF BeginTurn, BeginGuest
  <2>4. said < MaxSaid
    BY <2>2, <2>3
  <2> QED
    BY <2>1, <2>4 DEF Undisturbed
<1>2. PICK u \in Plain : u = Said("user", 1) /\ u.kind = "user"
  BY <1>1, SaidPlain, SaidAssumption DEF Always, LiveTypes
<1>3. PICK h \in Seq(Entry) : h = live /\ OneFraming(h) /\ Framed(h)
  BY <1>1 DEF Always, LiveTypes
<1>4. PICK z : z = live'
  OBVIOUS
<1>5. pre' = Len(h) /\ ((pc' = "run" /\ z = Prepared(h, u)) \/ (pc' = "guest" /\ z = PreparedForGuest(h, u)))
  BY <1>2, <1>3, <1>4 DEF BeginTurn, BeginGuest
<1>6. /\ Begun(h, Prepared(h, u), Len(h)) /\ Framed(Prepared(h, u))
      /\ Begun(h, PreparedForGuest(h, u), Len(h)) /\ Asked(PreparedForGuest(h, u))
  BY <1>2, <1>3, BegunTurn
<1>7. Begun(h, z, pre') /\ (pc' = "run" => Framed(z)) /\ (pc' = "guest" => Asked(z))
  BY <1>5, <1>6
<1>8. UNCHANGED <<summary, msgs, meta, marker, indexed, deletes>>
  BY DEF BeginTurn, BeginGuest, store
<1>9. PICK q : q = SubSeq(live', 1, pre')
  OBVIOUS
<1>10. Visible(q) = Visible(h) /\ Stored(h)
  BY <1>1, <1>3, <1>4, <1>7, <1>9 DEF Begun
<1>11. Stored(SubSeq(live, 1, pre))'
  BY <1>8, <1>9, <1>10, StoredStays
<1>12. InTurn'
  BY <1>4, <1>7, <1>11 DEF InTurn, Begun
<1>13. IF pc' = "guest" THEN Asked(live') ELSE Framed(live')
  BY <1>4, <1>5, <1>7
<1>14. (Exists /\ indexed /\ deletes = <<>>)'
  BY <1>8 DEF Undisturbed, Exists
<1> QED
  BY <1>5, <1>12, <1>13, <1>14 DEF Undisturbed

LEMMA TurnUndisturbed ==
  ASSUME Always, Undisturbed, pc \in {"run", "guest"}, pc' \in {"run", "final"}, pre' = pre,
         UNCHANGED <<summary, msgs, meta, marker, indexed, deletes>>,
         NEW z, live' = z, Framed(z), Len(z) \in Nat,
         SubSeq(z, 1, pre) = SubSeq(live, 1, pre),
         \E i \in (pre + 1)..Len(z) : z[i].kind = "user"
  PROVE  Undisturbed'
<1>1. PICK q : q = SubSeq(live, 1, pre)
  OBVIOUS
<1>2. Stored(q)
  BY <1>1 DEF Undisturbed, InTurn
<1>3. SubSeq(live', 1, pre') = q
  BY <1>1
<1>4. Stored(SubSeq(live, 1, pre))'
  BY <1>2, <1>3, StoredStays
<1>5. InTurn'
  BY <1>4 DEF InTurn
<1>6. (Exists /\ indexed /\ deletes = <<>>)'
  BY DEF Undisturbed, Exists
<1> QED
  BY <1>5, <1>6 DEF Undisturbed

LEMMA EntryUndisturbed ==
  ASSUME Always, Undisturbed, CommitReply \/ GuestReplies
  PROVE  Undisturbed'
<1>1. PICK e \in Plain : e = Said(IF pc = "run" THEN "reply" ELSE "guest", 1)
                         /\ (pc = "guest" => e.kind = "guest")
  <2>1. said \in 0..MaxSaid /\ said < MaxSaid /\ pc \in {"run", "guest"}
    BY DEF Always, LiveTypes, CommitReply, GuestReplies
  <2>2. Said("reply", 1) \in Plain /\ Said("guest", 1) \in Plain /\ Said("guest", 1).kind = "guest"
    BY <2>1, SaidPlain, SaidAssumption
  <2> QED
    BY <2>1, <2>2
<1>2. PICK h \in Seq(Entry) : h = live
  BY DEF Always, LiveTypes
<1>3. live' = Append(live, e) /\ pc \in {"run", "guest"} /\ pc' = "final"
  BY <1>1 DEF CommitReply, GuestReplies
<1>4. PICK z : z = h \o <<e>>
  OBVIOUS
<1>5. live' = z
  BY <1>2, <1>3, <1>4, VisibleMore
<1>6. PICK b \in Nat : b = pre /\ b <= Len(h)
  BY <1>2, <1>3 DEF Always, LiveTypes, SliceInBounds
<1>7. /\ z \in Seq(Entry) /\ SubSeq(z, 1, b) = SubSeq(h, 1, b)
      /\ (\E i \in (b + 1)..Len(h) : h[i].kind = "user") => \E i \in (b + 1)..Len(z) : z[i].kind = "user"
      /\ Framed(h) => Framed(z)
      /\ Asked(h) /\ e.kind = "guest" => Framed(z)
  BY <1>4, <1>6, EntryMore
<1>8. \E i \in (b + 1)..Len(z) : z[i].kind = "user"
  BY <1>2, <1>3, <1>6, <1>7 DEF Undisturbed, InTurn
<1>9. Framed(z)
  BY <1>1, <1>2, <1>3, <1>7 DEF Undisturbed
<1>10. UNCHANGED <<summary, msgs, meta, marker, indexed, deletes>> /\ pre' = pre
  BY DEF CommitReply, GuestReplies, store
<1>11. SubSeq(z, 1, pre) = SubSeq(live, 1, pre) /\ Len(z) \in Nat
       /\ \E i \in (pre + 1)..Len(z) : z[i].kind = "user"
  BY <1>2, <1>6, <1>7, <1>8
<1> QED
  BY <1>3, <1>5, <1>9, <1>10, <1>11, TurnUndisturbed

LEMMA CommitToolsUndisturbed ==
  ASSUME Always, Undisturbed, CommitTools
  PROVE  Undisturbed'
<1>1. PICK c, d \in Plain : c = Said("call", 1) /\ d = Said("result", 2)
  <2>1. said \in 0..MaxSaid /\ said + 1 < MaxSaid
    BY DEF Always, LiveTypes, CommitTools
  <2>2. said + 1 <= MaxSaid /\ said + 2 <= MaxSaid
    BY <2>1, SaidAssumption
  <2> QED
    BY <2>1, <2>2, SaidPlain
<1>2. PICK h \in Seq(Entry) : h = live
  BY DEF Always, LiveTypes
<1>3. live' = live \o <<c, d>> /\ pc = "run" /\ pc' = "run" /\ pre' = pre
      /\ UNCHANGED <<summary, msgs, meta, marker, indexed, deletes>>
  BY <1>1 DEF CommitTools, store
<1>4. PICK y : y = h \o <<c>>
  OBVIOUS
<1>5. PICK z : z = y \o <<d>>
  OBVIOUS
<1>6. c \in Entry /\ d \in Entry
  BY PlainEntries
<1>7. live' = z
  BY <1>2, <1>3, <1>4, <1>5, <1>6, TwoMore
<1>8. PICK b \in Nat : b = pre /\ b <= Len(h)
  BY <1>2, <1>3 DEF Always, LiveTypes, SliceInBounds
<1>9. /\ y \in Seq(Entry) /\ b <= Len(y) /\ SubSeq(y, 1, b) = SubSeq(h, 1, b)
      /\ (\E i \in (b + 1)..Len(h) : h[i].kind = "user") => \E i \in (b + 1)..Len(y) : y[i].kind = "user"
      /\ Framed(h) => Framed(y)
  BY <1>4, <1>8, EntryMore
<1>10. y \in Seq(Entry) /\ b <= Len(y)
  BY <1>9
<1>11. /\ z \in Seq(Entry) /\ b <= Len(z) /\ SubSeq(z, 1, b) = SubSeq(y, 1, b)
       /\ (\E i \in (b + 1)..Len(y) : y[i].kind = "user") => \E i \in (b + 1)..Len(z) : z[i].kind = "user"
       /\ Framed(y) => Framed(z)
  BY <1>5, <1>10, EntryMore
<1>12. \E i \in (b + 1)..Len(z) : z[i].kind = "user"
  BY <1>2, <1>3, <1>8, <1>9, <1>11 DEF Undisturbed, InTurn
<1>13. Framed(z)
  BY <1>2, <1>3, <1>9, <1>11 DEF Undisturbed
<1>14. SubSeq(z, 1, pre) = SubSeq(live, 1, pre) /\ Len(z) \in Nat
       /\ \E i \in (pre + 1)..Len(z) : z[i].kind = "user"
  BY <1>2, <1>8, <1>9, <1>11, <1>12
<1> QED
  BY <1>3, <1>7, <1>13, <1>14, TurnUndisturbed

LEMMA StopUndisturbed ==
  ASSUME Always, Undisturbed, StopRun
  PROVE  Undisturbed'
<1>1. PICK z : z = live
  OBVIOUS
<1>2. live' = z /\ pc = "run" /\ pc' = "final" /\ pre' = pre
      /\ UNCHANGED <<summary, msgs, meta, marker, indexed, deletes>>
  BY <1>1 DEF StopRun, store
<1>3. z \in Seq(Entry)
  BY <1>1 DEF Always, LiveTypes
<1>4. Framed(z) /\ Len(z) \in Nat /\ SubSeq(z, 1, pre) = SubSeq(live, 1, pre)
      /\ \E i \in (pre + 1)..Len(z) : z[i].kind = "user"
  BY <1>1, <1>2, <1>3 DEF Undisturbed, InTurn
<1> QED
  BY <1>2, <1>4, TurnUndisturbed
-----------------------------------------------------------------------------
(* Keys without a gap.                                                     *)

LEMMA FirstIs ==
  ASSUME StoreTypes, NEW n \in Nat, 0..(n - 1) \subseteq DOMAIN msgs, NEW g, g = First(n)
  PROVE  g \in Seq(Plain) /\ g \in Seq(Entry) /\ Len(g) = n /\ \A k \in 1..n : g[k] = msgs[k - 1]
<1>1. \A k \in 1..n : msgs[k - 1] \in Plain
  <2> SUFFICES ASSUME NEW k \in 1..n PROVE msgs[k - 1] \in Plain
    OBVIOUS
  <2>1. k - 1 \in DOMAIN msgs
    OBVIOUS
  <2> QED
    BY <2>1 DEF StoreTypes
<1>2. g \in [1..n -> Plain] /\ \A k \in 1..n : g[k] = msgs[k - 1]
  BY <1>1 DEF First
<1>3. g \in Seq(Plain)
  BY <1>2, SeqDef
<1>4. Len(g) = n
  BY <1>2, <1>3
<1>5. g \in Seq(Entry)
  BY <1>3, PlainEntries, SeqMonotonic
<1> QED
  BY <1>2, <1>3, <1>4, <1>5

LEMMA LeadIs ==
  ASSUME StoreTypes, NEW l, l = Lead
  PROVE  /\ l \in Seq(Plain) /\ l \in Seq(Entry)
         /\ marker = 0 => l = <<>> /\ Len(l) = 0
         /\ marker # 0 => Len(l) = 1 /\ l[1].kind = "summary"
<1>1. l \in Seq(Plain) /\ (marker = 0 => l = <<>> /\ Len(l) = 0)
      /\ (marker # 0 => Len(l) = 1 /\ l[1].kind = "summary")
  <2>1. CASE marker = 0
    <3>1. PICK u \in Seq(Plain) : u = <<>> /\ Len(u) = 0
      BY EmptySeq
    <3>2. l = u
      BY <2>1, <3>1 DEF Lead
    <3> QED
      BY <2>1, <3>1, <3>2
  <2>2. CASE marker # 0
    <3>1. PICK i \in 0..MaxSaid : i = marker
      BY DEF StoreTypes
    <3>2. PICK e \in Plain : e = [id |-> i, kind |-> "summary"] /\ e.kind = "summary"
      BY SummaryPlain
    <3>3. <<e>> \in Seq(Plain) /\ Len(<<e>>) = 1 /\ <<e>>[1] = e
      OBVIOUS
    <3>4. l = <<e>>
      BY <2>2, <3>1, <3>2 DEF Lead
    <3> QED
      BY <2>2, <3>2, <3>3, <3>4
  <2> QED
    BY <2>1, <2>2
<1>2. l \in Seq(Entry)
  BY <1>1, PlainEntries, SeqMonotonic
<1> QED
  BY <1>1, <1>2

LEMMA DenseKeys ==
  ASSUME StoreTypes, NEW n \in Nat, DOMAIN msgs = 0..(n - 1)
  PROVE  /\ Cardinality(DOMAIN msgs) = n /\ (\A k \in 1..n : Keys[k] = k - 1)
         /\ StoredMessages = First(n) /\ Resumed = Lead \o First(n)
<1>1. PICK S : S = 0..(n - 1) /\ S = DOMAIN msgs
  OBVIOUS
<1>2. PICK f : f = [k \in 1..n |-> k - 1]
  OBVIOUS
<1>3. f \in [1..n -> S] /\ S \subseteq Nat
  BY <1>1, <1>2
<1>4. Ascends(f, n)
  BY <1>2 DEF Ascends
<1>5. \A i \in S : \E k \in 1..n : f[k] = i
  <2> SUFFICES ASSUME NEW i \in S PROVE \E k \in 1..n : f[k] = i
    OBVIOUS
  <2>1. i + 1 \in 1..n /\ (i + 1) - 1 = i
    BY <1>1
  <2> QED
    BY <1>2, <2>1
<1>6. Cardinality(S) = n /\ InOrder(S) = f
  BY <1>3, <1>4, <1>5, InOrderIs
<1>7. \A k \in 1..n : Keys[k] = k - 1
  BY <1>1, <1>2, <1>6 DEF Keys
<1>8. StoredMessages = [k \in 1..n |-> msgs[f[k]]]
  BY <1>1, <1>6 DEF StoredMessages, Picked
<1>9. StoredMessages = First(n)
  BY <1>2, <1>8 DEF First
<1>10. Resumed = Lead \o First(n)
  <2>1. PICK g : g = First(n)
    OBVIOUS
  <2>2. g \in Seq(Plain)
    BY <1>1, <2>1, FirstIs
  <2>3. <<>> \o g = g
    BY <2>2, ConcatEmptySeq
  <2> QED
    BY <1>9, <2>1, <2>3 DEF Resumed, Lead
<1> QED
  BY <1>1, <1>6, <1>7, <1>9, <1>10

(* A load of a consistent store.                                           *)
LEMMA LoadUndisturbed ==
  ASSUME Always, Load, intact', deletes' = deletes \/ deletes' = <<>>
  PROVE  Undisturbed'
<1>1. Consistent' /\ deletes' = <<>> /\ pc' = "idle" /\ StoreTypes
  BY DEF Load, Always
<1>2. (Exists /\ indexed /\ DOMAIN msgs = 0..(meta.count - 1) /\ (meta.summary <=> marker # 0))'
  BY <1>1 DEF Consistent
<1>3. msgs' = msgs /\ marker' = marker
  BY DEF Load, store
<1>4. CASE Exists
  <2>1. live' = Resumed /\ summary' = meta.summary /\ meta' = meta
    BY <1>4 DEF Load, store
  <2>2. PICK n \in Nat : n = meta.count
    BY <1>1, <1>4, MetaKinds DEF StoreTypes
  <2>3. DOMAIN msgs = 0..(n - 1)
    BY <1>2, <1>3, <2>1, <2>2
  <2>4. PICK x : x = Resumed
    OBVIOUS
  <2>5. x = Lead \o First(n)
    BY <1>1, <2>3, <2>4, DenseKeys
  <2>6. x \in Seq(Plain)
    BY <1>1, <2>4, ResumedPlain
  <2>7. Visible(x) = x /\ Framed(x)
    BY <2>6, VisiblePlain, PlainFramed
  <2>8. (Lead \o First(meta.count))' = x
    BY <1>3, <2>1, <2>2, <2>5 DEF Lead, First
  <2>9. Agree' /\ meta'.summary = summary'
    BY <1>2, <2>1 DEF Agree
  <2>10. Stored(live)' /\ Framed(live)'
    BY <1>2, <2>1, <2>4, <2>7, <2>8, <2>9 DEF Stored
  <2> QED
    BY <1>1, <1>2, <2>10 DEF Undisturbed
<1>5. CASE ~Exists
  <2>1. live' = <<>> /\ summary' = FALSE /\ meta' = [count |-> 0, summary |-> FALSE]
    BY <1>5 DEF Load
  <2>2. meta'.count = 0 /\ meta'.summary = FALSE
    BY <2>1
  <2>3. marker' = 0
    BY <1>2, <2>2
  <2>4. Lead' = <<>> /\ Agree' /\ meta'.summary = summary'
    BY <2>1, <2>2, <2>3 DEF Lead, Agree
  <2>5. (First(meta.count))' = <<>>
    <3>1. First(0)' = <<>>
      <4>1. First(0)' = First(0)
        BY <1>3 DEF First
      <4> QED
        BY <4>1, NoneStored
    <3> QED
      BY <2>2, <3>1 DEF First
  <2>6. (Lead \o First(meta.count))' = Visible(live')
    BY <2>1, <2>4, <2>5, NoneStored
  <2>7. Stored(live)'
    BY <1>2, <2>4, <2>6 DEF Stored
  <2>8. Framed(live')
    BY <2>1, EmptyFramed
  <2> QED
    BY <1>1, <1>2, <2>7, <2>8 DEF Undisturbed
<1> QED
  BY <1>4, <1>5

(* The store moves on to a rewind's or a compaction's cuts.                *)
LEMMA CompactUndisturbed ==
  ASSUME Always, Undisturbed, Compact
  PROVE  Undisturbed'
<1>1. StoreTypes /\ Stored(live) /\ Framed(live) /\ Exists
  BY DEF Always, Undisturbed, Compact
<1>2. PICK n \in Nat : n = meta.count
  BY <1>1, MetaKinds DEF StoreTypes
<1>3. DOMAIN msgs = 0..(n - 1) /\ Agree /\ meta.summary = summary
  BY <1>1, <1>2 DEF Stored
<1>4. n = Cardinality(DOMAIN msgs) /\ \A k \in 1..n : Keys[k] = k - 1
  BY <1>1, <1>3, DenseKeys
<1>5. PICK id \in 1..MaxSaid : id = said + 1
  BY SaidAssumption DEF Always, LiveTypes, Compact
<1>6. PICK w : w = CompactWrites(id)
  OBVIOUS
<1>7. /\ Len(w) = n + 4 /\ Drops(w, 0, n) /\ w[n + 1] = CountWrite(0)
      /\ w[n + 2] = [op |-> "mark", id |-> id] /\ w[n + 3] = [op |-> "swap", id |-> id]
      /\ w[n + 4] = MetaWrite
  BY <1>1, <1>4, <1>6, CompactWritesAre
<1>8. writes' = w /\ pc' = "writing" /\ UNCHANGED <<live, summary, msgs, meta, marker, indexed, deletes>>
  BY <1>5, <1>6 DEF Compact, store
<1>9. \A i \in 1..n : w[i].op = "drop" /\ w[i].key = 0 + i - 1
  <2> SUFFICES ASSUME NEW i \in 1..n PROVE w[i].op = "drop" /\ w[i].key = 0 + i - 1
    OBVIOUS
  <2>1. 0 + i = i /\ Keys[i] = i - 1
    BY <1>4
  <2>2. w[i] = [op |-> "drop", key |-> Keys[0 + i]]
    BY <1>7 DEF Drops
  <2>3. w[i] = [op |-> "drop", key |-> i - 1]
    BY <2>1, <2>2
  <2> QED
    BY <2>3
<1>10. Compacting(n + 1)'
  <2>1. (n + 1) + 1 = n + 2 /\ (n + 1) + 2 = n + 3 /\ (n + 1) + 3 = n + 4
    OBVIOUS
  <2> QED
    BY <1>7, <1>8, <2>1 DEF Compacting
<1>11. DOMAIN msgs' = (0..(0 - 1)) \cup (0..(0 + n - 1))
  BY <1>3, <1>8
<1>12. Len(writes') > n /\ writes'[n + 1] = CountWrite(0)'
  BY <1>7, <1>8 DEF CountWrite
<1>13. Cutting(0, 0, n)'
  BY <1>3, <1>8, <1>9, <1>10, <1>11, <1>12 DEF Cutting, Agree
<1>14. Writing'
  BY <1>13 DEF Writing
<1> QED
  BY <1>1, <1>8, <1>14 DEF Undisturbed, Exists

LEMMA SplitAt ==
  ASSUME NEW h \in Seq(Entry), NEW b \in Nat, b <= Len(h)
  PROVE  h = SubSeq(h, 1, b) \o SubSeq(h, b + 1, Len(h))
<1>1. PICK n \in Nat : n = Len(h)
  OBVIOUS
<1>2. PICK m \in 1..(Len(h) + 1) : m = 1
  BY <1>1
<1>3. PICK k \in (m - 1)..Len(h) : k = b
  BY <1>1, <1>2
<1>4. PICK l \in k..Len(h) : l = Len(h)
  BY <1>1, <1>3
<1>5. SubSeq(h, m, k) \o SubSeq(h, k + 1, l) = SubSeq(h, m, l)
  BY ConcatAdjacentSubSeq
<1>6. SubSeq(h, 1, Len(h)) = h
  BY SubSeqFull
<1> QED
  BY <1>2, <1>3, <1>4, <1>5, <1>6

(* What is stored, and then what the puts bring.                           *)
LEMMA FinalizeUndisturbed ==
  ASSUME Always, Undisturbed, Finalize
  PROVE  Undisturbed'
<1>1. StoreTypes /\ Framed(live) /\ InTurn /\ Exists
  BY DEF Always, Undisturbed, Finalize
<1>2. PICK h \in Seq(Entry) : h = live
  BY DEF Always, LiveTypes
<1>3. PICK b \in Nat : b = pre /\ b <= Len(h)
  BY <1>2 DEF Always, LiveTypes, SliceInBounds, Finalize
<1>4. PICK a : a = SubSeq(h, 1, b)
  OBVIOUS
<1>5. PICK t \in Seq(Entry) : t = SubSeq(h, b + 1, Len(h))
  BY Slice
<1>6. a \in Seq(Entry)
  BY <1>3, <1>4, Cut
<1>7. h = a \o t
  BY <1>3, <1>4, <1>5, SplitAt
<1>8. PICK x \in Seq(Plain) : x = Visible(t)
  BY VisibleType
<1>9. Visible(h) = Visible(a) \o x
  BY <1>6, <1>7, <1>8, VisibleConcat
<1>10. PICK c \in Nat : c = meta.count
  BY <1>1, MetaKinds DEF StoreTypes
<1>11. Agree /\ meta.summary = summary /\ DOMAIN msgs = 0..(c - 1) /\ Lead \o First(c) = Visible(a)
  BY <1>1, <1>2, <1>3, <1>4, <1>10 DEF InTurn, Stored
<1>12. PICK l, g : l = Lead /\ g = First(c)
  OBVIOUS
<1>13. l \in Seq(Plain) /\ g \in Seq(Plain) /\ Len(g) = c /\ \A k \in 1..c : g[k] = msgs[k - 1]
  BY <1>1, <1>11, <1>12, LeadIs, FirstIs
<1>14. pc' = "writing" /\ UNCHANGED <<live, summary, msgs, meta, marker, indexed, deletes>>
       /\ writes' = AppendWrites(x) \o <<MetaWrite>>
  BY <1>2, <1>3, <1>5, <1>8 DEF Finalize, store, FinalizeWrites
<1>15. Agree' /\ Lead' = l
  BY <1>11, <1>12, <1>14 DEF Agree, Lead
<1>16. Writing'
  <2>1. CASE x = <<>>
    <3>1. AppendWrites(x) = <<>>
      BY <2>1 DEF AppendWrites
    <3>2. PICK e \in WriteSet : e = MetaWrite
      BY WriteKinds
    <3>3. <<e>> \in Seq(WriteSet)
      OBVIOUS
    <3>4. <<>> \o <<e>> = <<e>>
      BY <3>3, ConcatEmptySeq
    <3>5. writes' = <<MetaWrite>>
      BY <1>14, <3>1, <3>2, <3>4
    <3>6. Visible(a) \in Seq(Plain)
      BY <1>6, VisibleType
    <3>7. Visible(h) = Visible(a)
      BY <1>9, <2>1, <3>6, ConcatEmptySeq
    <3>8. (Lead \o First(meta.count))' = Visible(a)
      BY <1>10, <1>11, <1>14 DEF Lead, First
    <3>9. MetaLeft'
      BY <1>2, <1>10, <1>11, <1>14, <1>15, <3>5, <3>7, <3>8 DEF MetaLeft
    <3> QED
      BY <3>9 DEF Writing
  <2>2. CASE x # <<>>
    <3>1. PICK r \in Nat : r = Len(x) /\ DOMAIN x = 1..r
      OBVIOUS
    <3>2. PICK w : w = AppendWrites(x)
      OBVIOUS
    <3>3. ~(x = <<>> \/ ~Exists) /\ meta \in Metas \cup {NoMeta}
      BY <1>1, <2>2 DEF StoreTypes
    <3>4. /\ w \in Seq(WriteSet) /\ Len(w) = r + 1 /\ w[r + 1] = CountWrite(c + r)
          /\ \A i \in 1..r : w[i] = [op |-> "put", key |-> c + i - 1, entry |-> x[i]]
      BY <1>10, <3>1, <3>2, <3>3, AppendWritesAre
    <3>5. PICK e \in WriteSet : e = MetaWrite
      BY WriteKinds
    <3>6. PICK z : z = w \o <<e>>
      OBVIOUS
    <3>7. PICK m \in Nat : m = r + 1 /\ m = Len(w)
      BY <3>4
    <3>8. w \in Seq(WriteSet)
      BY <3>4
    <3>9. Len(z) = m + 1 /\ (\A i \in 1..m : z[i] = w[i]) /\ z[m + 1] = e
      BY <3>6, <3>7, <3>8, One
    <3>10. Len(z) = r + 2 /\ z[r + 2] = MetaWrite /\ z[r + 1] = CountWrite(c + r)
           /\ \A i \in 1..r : z[i] = w[i]
      <4>1. m + 1 = r + 2 /\ r + 1 \in 1..m /\ \A i \in 1..r : i \in 1..m
        BY <3>7
      <4> QED
        BY <3>4, <3>5, <3>9, <4>1
    <3>11. \A i \in 1..r : z[i].op = "put" /\ z[i].key = c + i - 1 /\ z[i].entry = x[i]
      <4> SUFFICES ASSUME NEW i \in 1..r
                   PROVE  z[i].op = "put" /\ z[i].key = c + i - 1 /\ z[i].entry = x[i]
        OBVIOUS
      <4>1. PICK y, k : y = x[i] /\ k = c + i - 1
        OBVIOUS
      <4>2. z[i] = [op |-> "put", key |-> k, entry |-> y]
        BY <3>4, <3>10, <4>1
      <4> QED
        BY <4>1, <4>2
    <3>12. writes' = z
      BY <1>14, <3>2, <3>5, <3>6
    <3>13. PICK y : y = Coming(c, r)'
      OBVIOUS
    <3>14. y = [k \in 1..(c + r) |-> IF k <= c THEN msgs[k - 1] ELSE z[k - c].entry]
      BY <1>14, <3>12, <3>13 DEF Coming
    <3>15. PICK gx : gx = g \o x
      OBVIOUS
    <3>16. gx \in Seq(Plain) /\ Len(gx) = Len(g) + Len(x)
           /\ \A i \in 1..(Len(g) + Len(x)) : gx[i] = IF i <= Len(g) THEN g[i] ELSE x[i - Len(g)]
      BY <1>13, <3>15, ConcatProperties
    <3>17. PICK s \in Nat : s = c + r
      OBVIOUS
    <3>18. \A k \in 1..s : y[k] = gx[k]
      <4> SUFFICES ASSUME NEW k \in 1..s PROVE y[k] = gx[k]
        OBVIOUS
      <4>1. gx[k] = IF k <= c THEN g[k] ELSE x[k - c]
        BY <1>13, <3>1, <3>16, <3>17
      <4>2. y[k] = IF k <= c THEN msgs[k - 1] ELSE z[k - c].entry
        BY <3>14, <3>17
      <4>3. CASE k <= c
        <5>1. k \in 1..c
          BY <4>3
        <5> QED
          BY <1>13, <4>1, <4>2, <4>3, <5>1
      <4>4. CASE ~(k <= c)
        <5>1. k - c \in 1..r
          BY <3>17, <4>4
        <5> QED
          BY <3>11, <4>1, <4>2, <4>4, <5>1
      <4> QED
        BY <4>3, <4>4
    <3>19. DOMAIN gx = 1..s /\ DOMAIN y = 1..s
      BY <1>13, <3>1, <3>14, <3>16, <3>17
    <3>20. y = gx
      <4>1. gx = [k \in 1..s |-> gx[k]] /\ y = [k \in 1..s |-> y[k]]
        BY <3>14, <3>16, <3>17, <3>19
      <4> QED
        BY <3>18, <4>1
    <3>21. l \o (g \o x) = (l \o g) \o x
      BY <1>13, ConcatAssociative
    <3>22. l \o y = Visible(h)
      BY <1>9, <1>11, <1>12, <3>15, <3>20, <3>21
    <3>23. (Lead \o Coming(c, r))' = l \o y
      BY <1>15, <3>13
    <3>24. CountWrite(c + r)' = CountWrite(c + r)
      BY <1>14 DEF CountWrite
    <3>25. Appending(c, r)'
      BY <1>2, <1>11, <1>14, <1>15, <3>10, <3>11, <3>12, <3>22, <3>23, <3>24 DEF Appending
    <3> QED
      BY <3>25 DEF Writing
  <2> QED
    BY <2>1, <2>2
<1> QED
  BY <1>1, <1>14, <1>16 DEF Undisturbed, Exists
-----------------------------------------------------------------------------
(* Rewinds.                                                                *)

LEMMA HeadOf ==
  ASSUME NEW e \in Plain, NEW v \in Seq(Plain), NEW z, z = <<e>> \o v
  PROVE  z[1] = e /\ Len(z) = Len(v) + 1
<1>1. <<e>> \in Seq(Plain) /\ Len(<<e>>) = 1 /\ <<e>>[1] = e
  OBVIOUS
<1>2. PICK s \in Seq(Plain) : s = <<e>> /\ Len(s) = 1 /\ s[1] = e
  BY <1>1
<1>3. PICK y : y = s \o v
  OBVIOUS
<1>4. Len(y) = Len(s) + Len(v) /\ \A i \in 1..(Len(s) + Len(v)) : y[i] = IF i <= Len(s) THEN s[i] ELSE v[i - Len(s)]
  BY <1>3, ConcatProperties
<1>5. PICK n \in Nat : n = Len(v)
  OBVIOUS
<1>6. 1 \in 1..(Len(s) + Len(v)) /\ Len(y) = n + 1
  BY <1>2, <1>4, <1>5
<1>7. y[1] = e
  BY <1>2, <1>4, <1>6
<1>8. y = z
  BY <1>2, <1>3
<1> QED
  BY <1>5, <1>6, <1>7, <1>8

LEMMA HeadThenTail ==
  ASSUME NEW h \in Seq(Entry), h # <<>>
  PROVE  /\ Tail(h) = SubSeq(h, 2, Len(h)) /\ Tail(h) \in Seq(Entry)
         /\ h[1] \in Entry /\ h = <<h[1]>> \o Tail(h)
<1>1. Len(h) \in Nat /\ Len(h) >= 1 /\ DOMAIN h = 1..Len(h)
  BY EmptySeq
<1>2. PICK m \in 1..Len(h) : m = 1
  BY <1>1
<1>14. Len(h) \in m..Len(h)
  OBVIOUS
<1>3. PICK n \in m..Len(h) : n = Len(h)
  BY <1>14
<1>4. SubSeq(h, m, n) = <<h[m]>> \o SubSeq(h, m + 1, n)
  BY SubSeqRecursiveFirst
<1>5. SubSeq(h, 1, Len(h)) = h
  BY SubSeqFull
<1>6. Tail(h) = SubSeq(h, 2, Len(h))
  BY TailIsSubSeq
<1>10. m + 1 = 2 /\ SubSeq(h, 1, n) = h
  BY <1>2, <1>3, <1>5
<1>11. SubSeq(h, m + 1, n) = Tail(h)
  BY <1>3, <1>6, <1>10
<1>12. PICK t : t = Tail(h)
  OBVIOUS
<1>13. h = <<h[m]>> \o t
  BY <1>2, <1>4, <1>10, <1>11, <1>12, Zenon
<1>7. h = <<h[1]>> \o Tail(h)
  BY <1>2, <1>12, <1>13, Zenon
<1>8. Tail(h) \in Seq(Entry)
  BY HeadTailProperties
<1>9. h[1] \in Entry
  BY <1>2, ElementOfSeq
<1> QED
  BY <1>6, <1>7, <1>8, <1>9

LEMMA HeadHidden ==
  ASSUME NEW h \in Seq(Entry), h # <<>>, Injected(h[1])
  PROVE  Visible(h) = Visible(Tail(h))
<1>1. PICK t \in Seq(Entry) : t = Tail(h) /\ h = <<h[1]>> \o t
  BY HeadThenTail
<1>2. PICK e \in Entry : e = h[1] /\ Injected(e)
  BY HeadThenTail
<1>3. <<e>> \in Seq(Entry)
  OBVIOUS
<1>4. PICK s \in Seq(Entry) : s = <<e>>
  BY <1>3
<1>5. Visible(s \o t) = Visible(s) \o Visible(t)
  BY VisibleConcat
<1>6. Visible(s) = <<>>
  BY <1>2, <1>4, VisibleNone
<1>7. PICK v \in Seq(Plain) : v = Visible(t)
  BY VisibleType
<1>8. <<>> \o v = v
  BY ConcatEmptySeq
<1> QED
  BY <1>1, <1>2, <1>4, <1>5, <1>6, <1>7, <1>8

LEMMA HeadShown ==
  ASSUME NEW h \in Seq(Entry), h # <<>>, ~Injected(h[1])
  PROVE  Visible(h)[1] = h[1] /\ Len(Visible(h)) = Len(Visible(Tail(h))) + 1
<1>1. PICK t \in Seq(Entry) : t = Tail(h) /\ h = <<h[1]>> \o t
  BY HeadThenTail
<1>2. PICK e \in Plain : e = h[1]
  BY HeadThenTail DEF Plain
<1>3. <<e>> \in Seq(Plain)
  OBVIOUS
<1>4. PICK s \in Seq(Plain) : s = <<e>>
  BY <1>3
<1>5. s \in Seq(Entry)
  BY PlainEntries, SeqMonotonic
<1>6. Visible(s \o t) = Visible(s) \o Visible(t)
  BY <1>5, VisibleConcat
<1>7. Visible(s) = s
  BY VisiblePlain
<1>8. PICK v \in Seq(Plain) : v = Visible(t)
  BY VisibleType
<1>9. PICK z : z = <<e>> \o v
  OBVIOUS
<1>10. z[1] = e /\ Len(z) = Len(v) + 1
  BY <1>9, HeadOf
<1>11. Visible(h) = z
  BY <1>1, <1>2, <1>4, <1>6, <1>7, <1>8, <1>9
<1> QED
  BY <1>1, <1>2, <1>8, <1>10, <1>11

(* The archived summary leads the history: no framing stands before it.    *)
LEMMA SummaryLeads ==
  ASSUME NEW h \in Seq(Entry), Framed(h), h # <<>>, Visible(h)[1].kind = "summary"
  PROVE  ~Injected(h[1])
<1>1. SUFFICES ASSUME Injected(h[1]) PROVE FALSE
  OBVIOUS
<1>2. PICK n \in Nat : n = Len(h) /\ DOMAIN h = 1..n /\ n >= 1
  BY EmptySeq
<1>3. 1 < n /\ h[1 + 1].kind = "user"
  BY <1>1, <1>2 DEF Framed
<1>4. PICK t \in Seq(Entry) : t = Tail(h)
  BY HeadThenTail
<1>5. Len(t) = n - 1 /\ t[1] = h[2]
  BY <1>2, <1>3, <1>4
<1>6. t # <<>> /\ t[1].kind = "user"
  BY <1>2, <1>3, <1>5
<1>7. ~Injected(t[1])
  BY <1>6 DEF Injected
<1>8. Visible(t)[1] = t[1]
  BY <1>6, <1>7, HeadShown
<1>9. Visible(h) = Visible(t)
  BY <1>1, <1>4, HeadHidden
<1> QED
  BY <1>6, <1>8, <1>9

(* keep: the survivors past the archived prefix.                           *)
LEMMA KeepIs ==
  ASSUME summary \in BOOLEAN, NEW h \in Seq(Entry), summary => h # <<>> /\ ~Injected(h[1])
  PROVE  /\ Keep(h) \in Nat
         /\ summary => Len(Visible(h)) = Keep(h) + 1
         /\ ~summary => Len(Visible(h)) = Keep(h)
<1>1. Keep(h) \in Nat
  BY KeepType
<1>2. SubSeq(h, 1, Len(h)) = h
  BY SubSeqFull
<1>3. CASE ~summary
  BY <1>1, <1>2, <1>3 DEF Keep
<1>4. CASE summary
  <2>1. h # <<>> /\ ~Injected(h[1])
    BY <1>4
  <2>2. Len(Visible(h)) = Len(Visible(Tail(h))) + 1
    BY <2>1, HeadShown
  <2>3. Tail(h) = SubSeq(h, 2, Len(h))
    BY <2>1, HeadThenTail
  <2>4. Keep(h) = Len(Visible(Tail(h)))
    BY <1>4, <2>3 DEF Keep
  <2> QED
    BY <1>1, <1>4, <2>2, <2>4
<1> QED
  BY <1>3, <1>4

(* A rewind to a user's entry that leaves no framing last.                 *)
LEMMA FramedCut ==
  ASSUME NEW h \in Seq(Entry), Framed(h), NEW b \in 1..Len(h), h[b].kind # "guest",
         NEW q, q = SubSeq(h, 1, b - 1), q = <<>> \/ ~Injected(Last(q))
  PROVE  Framed(q)
<1>1. PICK n, a \in Nat : n = Len(h) /\ a = b - 1 /\ DOMAIN h = 1..n
  OBVIOUS
<1>2. q \in Seq(Entry) /\ Len(q) = a /\ DOMAIN q = 1..a /\ \A i \in 1..a : q[i] = h[i]
  <2>1. a <= Len(h) /\ q = SubSeq(h, 1, a)
    BY <1>1
  <2> QED
    BY <2>1, Cut
<1>3. SUFFICES ASSUME NEW p \in 1..a, Injected(q[p])
               PROVE  /\ p < a /\ q[p + 1].kind = "user"
                      /\ \/ \E g \in 1..(p - 1) : q[g].kind = "guest"
                         \/ p + 1 < a /\ q[p + 2].kind = "guest"
  BY <1>2 DEF Framed
<1>4. p \in 1..n /\ q[p] = h[p] /\ a < n
  BY <1>1, <1>2
<1>5. /\ p < n /\ h[p + 1].kind = "user"
      /\ \/ \E g \in 1..(p - 1) : h[g].kind = "guest"
         \/ p + 1 < n /\ h[p + 2].kind = "guest"
  BY <1>1, <1>3, <1>4 DEF Framed
<1>6. q # <<>>
  BY <1>2
<1>7. p < a
  <2>1. ~Injected(q[a])
    BY <1>2, <1>6 DEF Last
  <2>2. p # a
    BY <1>3, <2>1
  <2> QED
    BY <2>2
<1>8. p + 1 \in 1..a /\ q[p + 1] = h[p + 1]
  BY <1>2, <1>7
<1>9. \/ \E g \in 1..(p - 1) : q[g].kind = "guest"
      \/ p + 1 < a /\ q[p + 2].kind = "guest"
  <2>1. CASE \E g \in 1..(p - 1) : h[g].kind = "guest"
    <3>1. \A g \in 1..(p - 1) : g \in 1..a
      BY <1>7
    <3> QED
      BY <1>2, <2>1, <3>1
  <2>2. CASE p + 1 < n /\ h[p + 2].kind = "guest"
    <3>1. p + 2 # b
      BY <2>2
    <3>2. p + 2 \in 1..a /\ p + 1 < a
      BY <1>1, <1>7, <3>1
    <3> QED
      BY <1>2, <2>2, <3>2
  <2> QED
    BY <1>5, <2>1, <2>2
<1> QED
  BY <1>5, <1>7, <1>8, <1>9

(* The first keys stand for the part of the history they fill.             *)
LEMMA PrefixStored ==
  ASSUME StoreTypes, NEW n \in Nat, NEW k \in Nat, k <= n, DOMAIN msgs = 0..(n - 1),
         NEW v \in Seq(Plain), NEW t \in Seq(Plain), Lead \o First(n) = v \o t,
         Len(v) = Len(Lead) + k
  PROVE  Lead \o First(k) = v
<1>1. PICK l, g, f : l = Lead /\ g = First(n) /\ f = First(k)
  OBVIOUS
<1>2. l \in Seq(Plain) /\ g \in Seq(Plain) /\ Len(g) = n /\ \A i \in 1..n : g[i] = msgs[i - 1]
  BY <1>1, LeadIs, FirstIs
<1>3. f \in Seq(Plain) /\ Len(f) = k /\ \A i \in 1..k : f[i] = msgs[i - 1]
  <2>1. 0..(k - 1) \subseteq DOMAIN msgs
    OBVIOUS
  <2> QED
    BY <1>1, <2>1, FirstIs
<1>4. \A i \in 1..k : f[i] = g[i]
  BY <1>2, <1>3
<1>5. PICK m \in Nat : m = Len(l)
  <2>1. Len(l) \in Nat
    BY <1>2, LenProperties, Zenon
  <2> QED
    BY <2>1
<1>6. PICK x, y, z : x = l \o g /\ y = l \o f /\ z = v \o t
  OBVIOUS
<1>7. \A i \in 1..(Len(l) + Len(g)) : x[i] = IF i <= Len(l) THEN l[i] ELSE g[i - Len(l)]
  BY <1>2, <1>6, ConcatProperties
<1>8. y \in Seq(Plain) /\ Len(y) = Len(l) + Len(f)
      /\ \A i \in 1..(Len(l) + Len(f)) : y[i] = IF i <= Len(l) THEN l[i] ELSE f[i - Len(l)]
  BY <1>2, <1>3, <1>6, ConcatProperties
<1>9. \A i \in 1..(Len(v) + Len(t)) : z[i] = IF i <= Len(v) THEN v[i] ELSE t[i - Len(v)]
  BY <1>6, ConcatProperties
<1>10. x = z
  BY <1>1, <1>6
<1>11. Len(v) = m + k /\ Len(t) \in Nat
  BY <1>1, <1>5
<1>12. Len(y) = Len(v)
  BY <1>3, <1>5, <1>8, <1>11
<1>13. ASSUME NEW i \in 1..Len(y) PROVE y[i] = v[i]
  <2>1. i \in 1..(m + k)
    BY <1>11, <1>12
  <2>2. y[i] = IF i <= m THEN l[i] ELSE f[i - m]
    BY <1>3, <1>5, <1>8, <2>1
  <2>3. x[i] = IF i <= m THEN l[i] ELSE g[i - m]
    <3>1. i \in 1..(m + n)
      BY <2>1
    <3> QED
      BY <1>2, <1>5, <1>7, <3>1
  <2>4. z[i] = v[i]
    <3>1. i \in 1..(Len(v) + Len(t)) /\ i <= Len(v)
      BY <1>11, <2>1
    <3> QED
      BY <1>9, <3>1
  <2>5. y[i] = x[i]
    <3>1. CASE i <= m
      BY <2>2, <2>3, <3>1
    <3>2. CASE ~(i <= m)
      <4>1. i - m \in 1..k
        BY <2>1, <3>2
      <4> QED
        BY <1>4, <2>2, <2>3, <3>2, <4>1
    <3> QED
      BY <3>1, <3>2
  <2> QED
    BY <1>10, <2>4, <2>5
<1>14. y = v
  BY <1>8, <1>12, <1>13, SeqEqual
<1> QED
  BY <1>1, <1>6, <1>14

LEMMA CutVisible ==
  ASSUME NEW h \in Seq(Entry), NEW a \in Nat, a <= Len(h), NEW q, q = SubSeq(h, 1, a)
  PROVE  /\ q \in Seq(Entry) /\ Len(q) = a /\ (\A i \in 1..a : q[i] = h[i])
         /\ \E t \in Seq(Plain) : Visible(h) = Visible(q) \o t
<1>1. q \in Seq(Entry) /\ Len(q) = a /\ \A i \in 1..a : q[i] = h[i]
  BY Cut
<1>2. PICK r \in Seq(Entry) : r = SubSeq(h, a + 1, Len(h))
  BY Slice
<1>3. h = q \o r
  BY <1>2, SplitAt
<1>4. Visible(h) = Visible(q) \o Visible(r)
  BY <1>1, <1>3, VisibleConcat
<1>5. Visible(r) \in Seq(Plain)
  BY VisibleType
<1> QED
  BY <1>1, <1>4, <1>5

(* The keys to keep are those of the entries that survive.                 *)
LEMMA KeptStored ==
  ASSUME StoreTypes, summary \in BOOLEAN, NEW h \in Seq(Entry), Framed(h), Stored(h), NEW n \in Nat,
         n = meta.count, NEW a \in Nat, a <= Len(h), NEW q, q = SubSeq(h, 1, a), summary => a > 0
  PROVE  Keep(q) \in Nat /\ Keep(q) <= n /\ Lead \o First(Keep(q)) = Visible(q)
<1>1. q \in Seq(Entry) /\ Len(q) = a /\ (\A i \in 1..a : q[i] = h[i])
  BY CutVisible
<1>2. PICK t \in Seq(Plain) : Visible(h) = Visible(q) \o t
  BY CutVisible
<1>3. (summary <=> marker # 0) /\ DOMAIN msgs = 0..(n - 1) /\ Lead \o First(n) = Visible(h)
  BY DEF Stored, Agree
<1>4. PICK l, g : l = Lead /\ g = First(n)
  OBVIOUS
<1>5. l \in Seq(Plain) /\ g \in Seq(Plain) /\ Len(g) = n
  BY <1>3, <1>4, LeadIs, FirstIs
<1>6. (marker = 0 => Len(l) = 0) /\ (marker # 0 => Len(l) = 1 /\ l[1].kind = "summary")
  BY <1>4, LeadIs
<1>7. PICK x : x = l \o g
  OBVIOUS
<1>8. Len(x) = Len(l) + Len(g) /\ \A i \in 1..(Len(l) + Len(g)) : x[i] = IF i <= Len(l) THEN l[i] ELSE g[i - Len(l)]
  BY <1>5, <1>7, ConcatProperties
<1>9. x = Visible(h)
  BY <1>3, <1>4, <1>7
<1>10. summary => q # <<>> /\ ~Injected(q[1])
  <2> SUFFICES ASSUME summary PROVE q # <<>> /\ ~Injected(q[1])
    OBVIOUS
  <2>1. a > 0 /\ h # <<>> /\ q # <<>> /\ q[1] = h[1]
    <3>1. a > 0 /\ Len(h) \in Nat
      OBVIOUS
    <3>2. Len(h) # 0 /\ Len(q) # 0 /\ 1 \in 1..a
      BY <1>1, <3>1
    <3>3. h # <<>> /\ q # <<>>
      BY <3>2, EmptySeq
    <3> QED
      BY <1>1, <3>1, <3>2, <3>3
  <2>2. Len(l) = 1 /\ l[1].kind = "summary"
    BY <1>3, <1>6
  <2>3. 1 \in 1..(Len(l) + Len(g)) /\ 1 <= Len(l)
    BY <1>5, <2>2
  <2>4. x[1] = l[1]
    BY <1>8, <2>3
  <2>5. Visible(h)[1].kind = "summary"
    BY <1>9, <2>2, <2>4
  <2>6. ~Injected(h[1])
    BY <2>1, <2>5, SummaryLeads
  <2> QED
    BY <2>1, <2>6
<1>11. PICK v \in Seq(Plain) : v = Visible(q)
  BY <1>1, VisibleType
<1>12. PICK k \in Nat : k = Keep(q) /\ (summary => Len(v) = k + 1) /\ (~summary => Len(v) = k)
  BY <1>1, <1>10, <1>11, KeepIs
<1>13. Len(v) = Len(l) + k /\ Len(l) \in Nat
  <2>1. CASE summary
    <3>1. Len(l) = 1 /\ Len(v) = k + 1
      BY <1>3, <1>6, <1>12, <2>1
    <3> QED
      BY <3>1
  <2>2. CASE ~summary
    <3>1. Len(l) = 0 /\ Len(v) = k
      BY <1>3, <1>6, <1>12, <2>2
    <3> QED
      BY <3>1
  <2> QED
    BY <2>1, <2>2
<1>14. PICK z : z = v \o t
  OBVIOUS
<1>15. Len(z) = Len(v) + Len(t) /\ Len(t) \in Nat
  BY <1>14, ConcatProperties
<1>16. z = x
  BY <1>2, <1>9, <1>11, <1>14
<1>17. k <= n
  <2>1. PICK lt, ll \in Nat : lt = Len(t) /\ ll = Len(l)
    BY <1>13, <1>15
  <2>2. Len(x) = ll + n /\ Len(x) = (ll + k) + lt
    BY <1>5, <1>8, <1>13, <1>15, <1>16, <2>1
  <2> QED
    BY <2>2
<1>18. Lead \o First(n) = v \o t /\ Len(v) = Len(Lead) + k
  BY <1>4, <1>7, <1>13, <1>14, <1>16
<1>19. Lead \o First(k) = v
  BY <1>3, <1>17, <1>18, PrefixStored
<1> QED
  BY <1>11, <1>12, <1>17, <1>19

LEMMA TruncateUndisturbed ==
  ASSUME Always, Undisturbed, NEW turns, Truncate(turns), intact'
  PROVE  Undisturbed'
<1>1. StoreTypes /\ Stored(live) /\ Framed(live) /\ Exists /\ summary \in BOOLEAN
  BY DEF Always, LiveTypes, Undisturbed, Truncate
<1>2. PICK n \in Nat : n = meta.count
  BY <1>1, MetaKinds DEF StoreTypes
<1>3. PICK h \in Seq(Entry) : h = live /\ Framed(h) /\ Stored(h)
  BY <1>1 DEF Always, LiveTypes
<1>4. PICK b \in Boundaries(turns) :
        LET kept == SubSeq(live, 1, b - 1) IN
        /\ live' = kept
        /\ \/ summary /\ kept = <<>> /\ intact' = FALSE /\ UNCHANGED <<pc, writes>>
           \/ /\ ~(summary /\ kept = <<>>)
              /\ writes' = TruncateWrites(Keep(kept))
              /\ pc' = "writing"
              /\ intact' = (intact /\ (kept = <<>> \/ ~Injected(Last(kept))))
  BY DEF Truncate
<1>5. PICK q : q = SubSeq(h, 1, b - 1)
  OBVIOUS
<1>6. /\ live' = q /\ ~(summary /\ q = <<>>) /\ writes' = TruncateWrites(Keep(q))
      /\ pc' = "writing" /\ (q = <<>> \/ ~Injected(Last(q)))
  BY <1>3, <1>4, <1>5
<1>7. b \in 1..Len(h) /\ h[b].kind # "guest"
  <2>1. b \in DOMAIN h /\ RoleIsUser(h[b])
    BY <1>3, <1>4 DEF Boundaries
  <2>2. h[b].kind # "guest"
    BY <2>1 DEF RoleIsUser, Role
  <2> QED
    BY <2>1, <2>2
<1>8. PICK a \in Nat : a = b - 1 /\ a <= Len(h)
  BY <1>7
<1>9. Framed(q)
  BY <1>3, <1>5, <1>6, <1>7, FramedCut
<1>10. q = SubSeq(h, 1, a)
  BY <1>5, <1>8
<1>11. summary => a > 0
  <2>1. Len(q) = a /\ q \in Seq(Entry)
    BY <1>8, <1>10, Cut
  <2>2. ASSUME a = 0 PROVE q = <<>>
    BY <2>1, <2>2, EmptySeq
  <2> QED
    BY <1>6, <2>2
<1>12. PICK k \in Nat : k = Keep(q) /\ k <= n /\ Lead \o First(k) = Visible(q)
  BY <1>1, <1>2, <1>3, <1>8, <1>10, <1>11, KeptStored
<1>13. DOMAIN msgs = 0..(n - 1) /\ Agree /\ meta.summary = summary
  BY <1>1, <1>2 DEF Stored
<1>14. n = Cardinality(DOMAIN msgs) /\ \A i \in 1..n : Keys[i] = i - 1
  BY <1>1, <1>13, DenseKeys
<1>15. PICK w : w = TruncateWrites(k)
  OBVIOUS
<1>16. Len(w) = (n - k) + 1 /\ Drops(w, k, n - k) /\ w[(n - k) + 1] = CountWrite(k)
  BY <1>1, <1>12, <1>14, <1>15, TruncateWritesAre
<1>17. PICK r \in Nat : r = n - k
  BY <1>12
<1>18. writes' = w /\ UNCHANGED <<summary, msgs, meta, marker, indexed, deletes>>
  BY <1>6, <1>12, <1>15 DEF Truncate, store
<1>19. \A i \in 1..r : w[i].op = "drop" /\ w[i].key = k + i - 1
  <2> SUFFICES ASSUME NEW i \in 1..r PROVE w[i].op = "drop" /\ w[i].key = k + i - 1
    OBVIOUS
  <2>1. k + i \in 1..n
    BY <1>17
  <2>2. Keys[k + i] = k + i - 1
    BY <1>14, <2>1
  <2>3. w[i] = [op |-> "drop", key |-> Keys[k + i]]
    BY <1>16, <1>17 DEF Drops
  <2>4. w[i] = [op |-> "drop", key |-> k + i - 1]
    BY <2>2, <2>3
  <2> QED
    BY <2>4
<1>20. DOMAIN msgs' = (0..(k - 1)) \cup (k..(k + r - 1))
  BY <1>12, <1>13, <1>17, <1>18
<1>21. Len(writes') = r + 1 /\ Len(writes') > r /\ writes'[r + 1] = CountWrite(k)'
  BY <1>16, <1>17, <1>18 DEF CountWrite
<1>22. (Lead \o First(k))' = Visible(live')
  BY <1>6, <1>12, <1>18 DEF Lead, First
<1>23. \A i \in 1..r : writes'[i].op = "drop" /\ writes'[i].key = k + i - 1
  BY <1>18, <1>19
<1>24. Agree' /\ meta'.summary = summary' /\ k <= k
  BY <1>13, <1>18 DEF Agree
<1>25. Cutting(k, k, r)'
  BY <1>20, <1>21, <1>22, <1>23, <1>24 DEF Cutting
<1>26. Writing'
  BY <1>25 DEF Writing
<1>27. Framed(live')
  BY <1>6, <1>9
<1> QED
  BY <1>1, <1>6, <1>18, <1>26, <1>27 DEF Undisturbed, Exists
-----------------------------------------------------------------------------
(* One write of an operation, phase by phase.                              *)

LEMMA WriteTakes ==
  ASSUME Always, Write, NEW n, n = Len(writes), NEW t, t = Tail(writes)
  PROVE  /\ n \in Nat /\ n >= 1 /\ writes[1] \in WriteSet /\ writes[1] = Head(writes)
         /\ writes' = t /\ t \in Seq(WriteSet) /\ Len(t) = n - 1
         /\ \A i \in 1..(n - 1) : t[i] = writes[i + 1]
<1>1. writes \in Seq(WriteSet) /\ writes # <<>> /\ writes' = Tail(writes)
  BY DEF Always, LiveTypes, Write
<1>2. n \in Nat /\ n >= 1 /\ DOMAIN writes = 1..n
  BY <1>1, EmptySeq
<1>3. t \in Seq(WriteSet) /\ Len(t) = n - 1 /\ \A i \in 1..(n - 1) : t[i] = writes[i + 1]
  BY <1>1, <1>2
<1>4. writes[1] \in WriteSet /\ writes[1] = Head(writes)
  BY <1>1, <1>2
<1> QED
  BY <1>1, <1>2, <1>3, <1>4

LEMMA OneLeft ==
  ASSUME NEW t \in Seq(WriteSet), Len(t) = 1, t[1] = MetaWrite
  PROVE  t = <<MetaWrite>>
<1>1. PICK e \in WriteSet : e = MetaWrite
  BY WriteKinds
<1>2. <<e>> \in Seq(WriteSet) /\ Len(<<e>>) = 1 /\ <<e>>[1] = e
  OBVIOUS
<1>3. PICK s \in Seq(WriteSet) : s = <<e>> /\ Len(s) = 1 /\ s[1] = e
  BY <1>2
<1>4. \A i \in 1..Len(t) : t[i] = s[i]
  BY <1>1, <1>3
<1>5. t = s
  BY <1>3, <1>4, SeqEqual
<1> QED
  BY <1>1, <1>3, <1>5

LEMMA MetaExists ==
  ASSUME NEW m \in Metas
  PROVE  m # NoMeta
BY DEF Metas, NoMeta

LEMMA WriteKeepsExists ==
  ASSUME Always, Exists, Write
  PROVE  Exists'
<1>1. PICK w : w = Head(writes)
  OBVIOUS
<1>2. /\ w.op = "count" => meta' = w.meta
      /\ w.op = "meta" => meta' = UpdatedMeta
      /\ w.op \notin {"count", "meta"} => meta' = meta
  BY <1>1, WriteEffect
<1>3. w \in WriteSet
  BY <1>1, WriteTakes
<1>4. meta \in Metas
  BY MetaKinds DEF Always, StoreTypes
<1>5. meta' \in Metas
  <2>1. CASE w.op = "count"
    BY <1>2, <1>3, <2>1, WriteCases
  <2>2. CASE w.op = "meta"
    <3>1. UpdatedMeta \in Metas
      BY UpdatedMetaIs DEF Always, StoreTypes, LiveTypes
    <3> QED
      BY <1>2, <2>2, <3>1
  <2>3. CASE w.op \notin {"count", "meta"}
    BY <1>2, <1>4, <2>3
  <2> QED
    BY <2>1, <2>2, <2>3
<1>6. meta' # NoMeta
  BY <1>5, MetaExists
<1> QED
  BY <1>6 DEF Exists

(* update_session_meta keeps the count and takes the summary's flag.       *)
LEMMA MetaLeftWrite ==
  ASSUME Always, Exists, MetaLeft, Write
  PROVE  Wrote' /\ live' = live
<1>1. PICK w : w = Head(writes)
  OBVIOUS
<1>2. PICK t : t = Tail(writes)
  OBVIOUS
<1>3. writes = <<MetaWrite>>
  BY DEF MetaLeft
<1>4. w = MetaWrite /\ w.op = "meta"
  BY <1>1, <1>3 DEF MetaWrite
<1>5. Len(writes) = 1
  BY <1>3
<1>6. writes' = t /\ t \in Seq(WriteSet) /\ Len(t) = 1 - 1
  BY <1>2, <1>5, WriteTakes
<1>7. writes' = <<>>
  <2>1. Len(t) = 0
    BY <1>6
  <2> QED
    BY <1>6, <2>1, EmptySeq
<1>8. msgs' = msgs /\ meta' = UpdatedMeta /\ marker' = marker /\ live' = live /\ summary' = summary
  <2>1. summary \in BOOLEAN
    BY DEF Always, LiveTypes
  <2>2. /\ w.op \notin {"put", "drop"} => msgs' = msgs
        /\ w.op = "meta" => meta' = UpdatedMeta
        /\ marker' = IF w.op = "mark" THEN w.id ELSE marker
        /\ live' = IF w.op = "swap" THEN <<[id |-> w.id, kind |-> "summary"]>> ELSE live
        /\ summary' = (summary \/ w.op = "swap")
    BY <1>1, WriteEffect
  <2>3. "meta" # "mark" /\ "meta" # "swap" /\ "meta" # "put" /\ "meta" # "drop"
    OBVIOUS
  <2>4. w.op # "mark" /\ w.op # "swap" /\ w.op \notin {"put", "drop"}
    BY <1>4, <2>3
  <2> QED
    BY <1>4, <2>1, <2>2, <2>4
<1>9. meta'.count = meta.count /\ meta'.summary = summary
  <2>1. PICK s \in BOOLEAN : s = summary
    BY DEF Always, LiveTypes
  <2>2. PICK c : c = meta.count
    OBVIOUS
  <2>3. UpdatedMeta = [count |-> c, summary |-> s]
    BY <2>1, <2>2, UpdatedMetaIs DEF Always, StoreTypes, LiveTypes
  <2>4. meta' = [count |-> c, summary |-> s]
    BY <1>8, <2>3
  <2> QED
    BY <2>1, <2>2, <2>4
<1>10. Agree' /\ meta'.summary = summary' /\ DOMAIN msgs' = 0..(meta'.count - 1)
  BY <1>8, <1>9 DEF MetaLeft, Agree
<1>11. (Lead \o First(meta.count))' = Visible(live')
  BY <1>8, <1>9 DEF MetaLeft, Lead, First
<1>12. Stored(live)'
  BY <1>10, <1>11 DEF Stored
<1> QED
  BY <1>7, <1>8, <1>12 DEF Wrote

(* The archive's marker is written, and then the history becomes it.       *)
LEMMA MarkingWrite ==
  ASSUME Always, Exists, Marking, Write
  PROVE  Swapping' /\ live' = live
<1>1. PICK w : w = Head(writes)
  OBVIOUS
<1>2. PICK t : t = Tail(writes)
  OBVIOUS
<1>3. Len(writes) = 3
  BY DEF Marking, Compacting
<1>4. PICK id \in 1..MaxSaid : writes[1] = [op |-> "mark", id |-> id]
        /\ writes[2] = [op |-> "swap", id |-> id] /\ writes[3] = MetaWrite
  BY DEF Marking, Compacting
<1>5. writes' = t /\ t \in Seq(WriteSet) /\ Len(t) = 2 /\ t[1] = writes[2] /\ t[2] = writes[3] /\ w = writes[1]
  <2>1. writes' = t /\ t \in Seq(WriteSet) /\ Len(t) = 3 - 1 /\ (\A i \in 1..(3 - 1) : t[i] = writes[i + 1])
        /\ w = writes[1]
    BY <1>1, <1>2, <1>3, WriteTakes
  <2>2. 1 \in 1..(3 - 1) /\ 2 \in 1..(3 - 1) /\ 3 - 1 = 2 /\ 1 + 1 = 2 /\ 2 + 1 = 3
    OBVIOUS
  <2> QED
    BY <2>1, <2>2
<1>6. w.op = "mark" /\ w.id = id
  BY <1>4, <1>5
<1>7. msgs' = msgs /\ meta' = meta /\ marker' = id /\ live' = live
  <2>1. /\ w.op \notin {"put", "drop"} => msgs' = msgs
        /\ w.op \notin {"count", "meta"} => meta' = meta
        /\ marker' = IF w.op = "mark" THEN w.id ELSE marker
        /\ live' = IF w.op = "swap" THEN <<[id |-> w.id, kind |-> "summary"]>> ELSE live
    BY <1>1, WriteEffect
  <2> QED
    BY <1>6, <2>1
<1>8. writes' = <<[op |-> "swap", id |-> marker'], MetaWrite>>
  <2>1. PICK a, b \in WriteSet : a = [op |-> "swap", id |-> id] /\ b = MetaWrite
    BY WriteKinds
  <2>2. <<a, b>> \in Seq(WriteSet) /\ Len(<<a, b>>) = 2 /\ <<a, b>>[1] = a /\ <<a, b>>[2] = b
    OBVIOUS
  <2>3. PICK s \in Seq(WriteSet) : s = <<a, b>> /\ Len(s) = 2 /\ s[1] = a /\ s[2] = b
    BY <2>2
  <2>4. \A i \in 1..Len(t) : t[i] = s[i]
    <3>1. \A i \in 1..2 : i = 1 \/ i = 2
      OBVIOUS
    <3> QED
      BY <1>4, <1>5, <2>1, <2>3, <3>1
  <2>5. t = s
    BY <1>5, <2>3, <2>4, SeqEqual
  <2> QED
    BY <1>5, <1>7, <2>1, <2>3, <2>5
<1>9. DOMAIN msgs' = {} /\ meta'.count = 0 /\ marker' # 0
  BY <1>7 DEF Marking
<1> QED
  BY <1>7, <1>8, <1>9 DEF Swapping

LEMMA SwappingWrite ==
  ASSUME Always, Exists, Swapping, Write
  PROVE  MetaLeft' /\ Framed(live')
<1>1. PICK w : w = Head(writes)
  OBVIOUS
<1>2. PICK t : t = Tail(writes)
  OBVIOUS
<1>3. writes = <<[op |-> "swap", id |-> marker], MetaWrite>> /\ marker # 0
  BY DEF Swapping
<1>4. Len(writes) = 2 /\ writes[1] = [op |-> "swap", id |-> marker] /\ writes[2] = MetaWrite
  BY <1>3
<1>5. writes' = t /\ t \in Seq(WriteSet) /\ Len(t) = 1 /\ t[1] = writes[2] /\ w = writes[1]
  <2>1. writes' = t /\ t \in Seq(WriteSet) /\ Len(t) = 2 - 1 /\ (\A i \in 1..(2 - 1) : t[i] = writes[i + 1])
        /\ w = writes[1]
    BY <1>1, <1>2, <1>4, WriteTakes
  <2>2. 1 \in 1..(2 - 1) /\ 2 - 1 = 1 /\ 1 + 1 = 2
    OBVIOUS
  <2> QED
    BY <2>1, <2>2
<1>6. writes' = <<MetaWrite>>
  BY <1>4, <1>5, OneLeft
<1>7. w.op = "swap" /\ w.id = marker
  BY <1>4, <1>5
<1>8. msgs' = msgs /\ meta' = meta /\ marker' = marker /\ summary' = TRUE
      /\ live' = <<[id |-> marker, kind |-> "summary"]>>
  <2>1. /\ w.op \notin {"put", "drop"} => msgs' = msgs
        /\ w.op \notin {"count", "meta"} => meta' = meta
        /\ marker' = IF w.op = "mark" THEN w.id ELSE marker
        /\ live' = IF w.op = "swap" THEN <<[id |-> w.id, kind |-> "summary"]>> ELSE live
        /\ summary' = (summary \/ w.op = "swap")
    BY <1>1, WriteEffect
  <2> QED
    BY <1>7, <2>1
<1>9. PICK l : l = Lead
  OBVIOUS
<1>10. l \in Seq(Plain)
  BY <1>9, LeadIs DEF Always
<1>11. live' = l /\ Lead' = l
  BY <1>3, <1>8, <1>9 DEF Lead
<1>12. Visible(l) = l /\ Framed(l) /\ l \o <<>> = l
  BY <1>10, VisiblePlain, PlainFramed, ConcatEmptySeq
<1>13. meta'.count = 0 /\ DOMAIN msgs' = 0..(meta'.count - 1)
  BY <1>8, NoneStored DEF Swapping
<1>14. First(meta.count)' = <<>>
  <2>1. First(meta.count)' = First(0)
    BY <1>8, <1>13 DEF First
  <2> QED
    BY <2>1, NoneStored
<1>15. (Lead \o First(meta.count))' = Visible(live')
  BY <1>11, <1>12, <1>14
<1>16. Agree'
  BY <1>3, <1>8 DEF Agree
<1>17. MetaLeft'
  BY <1>6, <1>13, <1>15, <1>16 DEF MetaLeft
<1> QED
  BY <1>11, <1>12, <1>17

(* A count is written: the first c messages are counted from now on.       *)
LEMMA CountIsWritten ==
  ASSUME Always, Exists, Write, NEW c \in Nat, writes[1] = CountWrite(c)
  PROVE  /\ meta'.count = c /\ meta'.summary = meta.summary
         /\ UNCHANGED <<msgs, marker, live, summary>>
<1>1. PICK w : w = Head(writes)
  OBVIOUS
<1>2. w = CountWrite(c)
  BY <1>1, WriteTakes
<1>3. meta \in Metas /\ summary \in BOOLEAN
  BY MetaKinds DEF Always, StoreTypes, LiveTypes
<1>4. w.op = "count" /\ w.meta = [count |-> c, summary |-> meta.summary]
  BY <1>2, <1>3, CountKind
<1>5. /\ w.op \notin {"put", "drop"} => msgs' = msgs
      /\ w.op = "count" => meta' = w.meta
      /\ marker' = IF w.op = "mark" THEN w.id ELSE marker
      /\ live' = IF w.op = "swap" THEN <<[id |-> w.id, kind |-> "summary"]>> ELSE live
      /\ summary' = (summary \/ w.op = "swap")
  BY <1>1, WriteEffect
<1>6. PICK s \in BOOLEAN : s = meta.summary
  BY <1>3 DEF Metas
<1>7. meta' = [count |-> c, summary |-> s]
  BY <1>4, <1>5, <1>6
<1>8. meta'.count = c /\ meta'.summary = meta.summary
  BY <1>6, <1>7
<1>9. w.op \notin {"put", "drop"} /\ w.op # "mark" /\ w.op # "swap"
  BY <1>4
<1> QED
  BY <1>3, <1>5, <1>8, <1>9

LEMMA AppendingWrite ==
  ASSUME Always, Exists, NEW c \in Nat, NEW r \in Nat, Appending(c, r), Write
  PROVE  Writing' /\ live' = live
<1>1. PICK w : w = Head(writes)
  OBVIOUS
<1>2. PICK t : t = Tail(writes)
  OBVIOUS
<1>3. PICK n \in Nat : n = Len(writes) /\ n = r + 2
  BY DEF Appending
<1>4. writes' = t /\ t \in Seq(WriteSet) /\ Len(t) = n - 1 /\ (\A i \in 1..(n - 1) : t[i] = writes[i + 1])
      /\ w = writes[1]
  BY <1>1, <1>2, <1>3, WriteTakes
<1>5. CASE r = 0
  <2>1. writes[1] = CountWrite(c) /\ writes[2] = MetaWrite
    <3>1. 0 + 1 = 1 /\ 0 + 2 = 2 /\ c + 0 = c
      OBVIOUS
    <3> QED
      BY <1>5, <3>1 DEF Appending
  <2>2. meta'.count = c /\ meta'.summary = meta.summary /\ UNCHANGED <<msgs, marker, live, summary>>
    BY <2>1, CountIsWritten
  <2>3. Len(t) = 1 /\ t[1] = MetaWrite
    <3>1. n - 1 = 1 /\ 1 \in 1..(n - 1) /\ 1 + 1 = 2
      BY <1>3, <1>5
    <3> QED
      BY <1>4, <2>1, <3>1
  <2>4. writes' = <<MetaWrite>>
    BY <1>4, <2>3, OneLeft
  <2>5. First(meta.count)' = Coming(c, r)
    <3>1. Coming(c, r) = [k \in 1..c |-> IF k <= c THEN msgs[k - 1] ELSE writes[k - c].entry]
      BY <1>5 DEF Coming
    <3>2. \A k \in 1..c : k <= c
      OBVIOUS
    <3>3. Coming(c, r) = [k \in 1..c |-> msgs[k - 1]]
      BY <3>1, <3>2
    <3> QED
      BY <2>2, <3>3 DEF First
  <2>6. (Lead \o First(meta.count))' = Visible(live')
    BY <2>2, <2>5 DEF Appending, Lead
  <2>7. Agree' /\ DOMAIN msgs' = 0..(meta'.count - 1)
    BY <2>2 DEF Appending, Agree
  <2>8. MetaLeft'
    BY <2>4, <2>6, <2>7 DEF MetaLeft
  <2> QED
    BY <2>2, <2>8 DEF Writing
<1>6. CASE r > 0
  <2>1. PICK d, s \in Nat : d = c + 1 /\ s = r - 1
    BY <1>6
  <2>2. w.op = "put" /\ w.key = c
    <3>1. 1 \in 1..r /\ c + 1 - 1 = c
      BY <1>6
    <3> QED
      BY <1>4, <3>1 DEF Appending
  <2>3. PICK x : x = w.entry
    OBVIOUS
  <2>4. /\ msgs' = [k \in (0..(c - 1)) \cup {c} |-> IF k = c THEN x ELSE msgs[k]]
        /\ UNCHANGED <<meta, marker, live, summary>>
    <3>1. summary \in BOOLEAN /\ DOMAIN msgs = 0..(c - 1)
      BY DEF Always, LiveTypes, Appending
    <3>2. /\ w.op = "put" => msgs' = [k \in DOMAIN msgs \cup {w.key} |-> IF k = w.key THEN w.entry ELSE msgs[k]]
          /\ w.op \notin {"count", "meta"} => meta' = meta
          /\ marker' = IF w.op = "mark" THEN w.id ELSE marker
          /\ live' = IF w.op = "swap" THEN <<[id |-> w.id, kind |-> "summary"]>> ELSE live
          /\ summary' = (summary \/ w.op = "swap")
      BY <1>1, WriteEffect
    <3>3. w.op \notin {"count", "meta"} /\ w.op # "mark" /\ w.op # "swap"
      BY <2>2
    <3>4. msgs' = [k \in (0..(c - 1)) \cup {c} |-> IF k = c THEN x ELSE msgs[k]]
      BY <2>2, <2>3, <3>1, <3>2
    <3> QED
      BY <3>1, <3>2, <3>3, <3>4
  <2>5. DOMAIN msgs' = 0..(d - 1) /\ (\A k \in 0..(c - 1) : msgs'[k] = msgs[k]) /\ msgs'[c] = x
    <3>1. (0..(c - 1)) \cup {c} = 0..(d - 1)
      BY <2>1
    <3>2. \A k \in 0..(c - 1) : k # c
      OBVIOUS
    <3> QED
      BY <2>4, <3>1, <3>2
  <2>6. n - 1 = s + 2 /\ r = s + 1
    BY <1>3, <2>1
  <2>7. \A i \in 1..s : t[i].op = "put" /\ t[i].key = d + i - 1
    <3> SUFFICES ASSUME NEW i \in 1..s PROVE t[i].op = "put" /\ t[i].key = d + i - 1
      OBVIOUS
    <3>1. i \in 1..(n - 1) /\ i + 1 \in 1..r /\ c + (i + 1) - 1 = d + i - 1
      BY <2>1, <2>6
    <3>2. writes[i + 1].op = "put" /\ writes[i + 1].key = c + (i + 1) - 1
      BY <3>1 DEF Appending
    <3> QED
      BY <1>4, <3>1, <3>2
  <2>8. t[s + 1] = CountWrite(d + s)' /\ t[s + 2] = MetaWrite
    <3>1. s + 1 \in 1..(n - 1) /\ s + 2 \in 1..(n - 1) /\ (s + 1) + 1 = r + 1 /\ (s + 2) + 1 = r + 2 /\ d + s = c + r
      BY <2>1, <2>6
    <3>2. writes[r + 1] = CountWrite(c + r) /\ writes[r + 2] = MetaWrite
      BY DEF Appending
    <3>3. CountWrite(d + s)' = CountWrite(c + r)
      BY <2>4, <3>1 DEF CountWrite
    <3> QED
      BY <1>4, <3>1, <3>2, <3>3
  <2>9. Coming(d, s)' = Coming(c, r)
    <3>1. PICK m \in Nat : m = c + r /\ m = d + s
      BY <2>1
    <3>2. Coming(d, s)' = [k \in 1..m |-> IF k <= d THEN msgs'[k - 1] ELSE t[k - d].entry]
      BY <1>4, <3>1 DEF Coming
    <3>3. Coming(c, r) = [k \in 1..m |-> IF k <= c THEN msgs[k - 1] ELSE writes[k - c].entry]
      BY <3>1 DEF Coming
    <3>4. ASSUME NEW k \in 1..m
          PROVE  (IF k <= d THEN msgs'[k - 1] ELSE t[k - d].entry)
                 = (IF k <= c THEN msgs[k - 1] ELSE writes[k - c].entry)
      <4>1. CASE k <= c
        <5>1. k <= d /\ k - 1 \in 0..(c - 1)
          BY <2>1, <4>1
        <5> QED
          BY <2>5, <4>1, <5>1
      <4>2. CASE k = d
        <5>1. k <= d /\ ~(k <= c) /\ k - 1 = c /\ k - c = 1
          BY <2>1, <4>2
        <5>2. writes[1].entry = x
          BY <1>4, <2>3
        <5> QED
          BY <2>5, <5>1, <5>2
      <4>3. CASE k > d
        <5>1. ~(k <= d) /\ ~(k <= c) /\ k - d \in 1..(n - 1) /\ (k - d) + 1 = k - c
          BY <2>1, <2>6, <3>1, <4>3
        <5>2. t[k - d] = writes[k - c]
          BY <1>4, <5>1
        <5> QED
          BY <5>1, <5>2
      <4> QED
        BY <2>1, <4>1, <4>2, <4>3
    <3> QED
      BY <3>2, <3>3, <3>4
  <2>10. (Lead \o Coming(d, s))' = Visible(live')
    BY <2>4, <2>9 DEF Appending, Lead
  <2>11. Agree' /\ meta'.summary = summary'
    BY <2>4 DEF Appending, Agree
  <2>12. Len(writes') = s + 2
    BY <1>4, <2>6
  <2>13. Appending(d, s)'
    BY <1>4, <2>5, <2>7, <2>8, <2>10, <2>11, <2>12 DEF Appending
  <2> QED
    BY <2>4, <2>13 DEF Writing
<1> QED
  BY <1>5, <1>6

LEMMA CuttingWrite ==
  ASSUME Always, Exists, NEW keep \in Nat, NEW a \in Nat, NEW r \in Nat, Cutting(keep, a, r), Write
  PROVE  Writing' /\ live' = live
<1>1. PICK w : w = Head(writes)
  OBVIOUS
<1>2. PICK t : t = Tail(writes)
  OBVIOUS
<1>3. PICK n : n = Len(writes)
  OBVIOUS
<1>4. n \in Nat /\ writes' = t /\ t \in Seq(WriteSet) /\ Len(t) = n - 1
      /\ (\A i \in 1..(n - 1) : t[i] = writes[i + 1]) /\ w = writes[1]
  BY <1>1, <1>2, <1>3, WriteTakes
<1>5. n > r /\ (n = r + 1 \/ (keep = 0 /\ Compacting(r + 1)))
  BY <1>3 DEF Cutting
<1>6. CASE r = 0
  <2>1. writes[1] = CountWrite(keep)
    <3>1. 0 + 1 = 1
      OBVIOUS
    <3> QED
      BY <1>6, <3>1 DEF Cutting
  <2>2. meta'.count = keep /\ meta'.summary = meta.summary /\ UNCHANGED <<msgs, marker, live, summary>>
    BY <2>1, CountIsWritten
  <2>3. DOMAIN msgs = 0..(keep - 1)
    <3>1. a..(a + 0 - 1) = {}
      OBVIOUS
    <3> QED
      BY <1>6, <3>1 DEF Cutting
  <2>4. Agree' /\ meta'.summary = summary' /\ DOMAIN msgs' = 0..(meta'.count - 1)
    BY <2>2, <2>3 DEF Cutting, Agree
  <2>5. CASE keep = 0 /\ Compacting(r + 1)
    <3>1. n = 4
      BY <1>3, <1>6, <2>5 DEF Compacting
    <3>2. PICK id \in 1..MaxSaid : writes[2] = [op |-> "mark", id |-> id]
            /\ writes[3] = [op |-> "swap", id |-> id] /\ writes[4] = MetaWrite
      <4>1. (0 + 1) + 1 = 2 /\ (0 + 1) + 2 = 3 /\ (0 + 1) + 3 = 4
        OBVIOUS
      <4> QED
        BY <1>6, <2>5, <4>1 DEF Compacting
    <3>3. Len(t) = 3 /\ t[1] = writes[2] /\ t[2] = writes[3] /\ t[3] = writes[4]
      <4>1. n - 1 = 3 /\ 1 \in 1..(n - 1) /\ 2 \in 1..(n - 1) /\ 3 \in 1..(n - 1)
            /\ 1 + 1 = 2 /\ 2 + 1 = 3 /\ 3 + 1 = 4
        BY <3>1
      <4> QED
        BY <1>4, <4>1
    <3>4. 0 + 1 = 1 /\ 0 + 2 = 2 /\ 0 + 3 = 3
      OBVIOUS
    <3>5. Compacting(0)'
      BY <1>4, <3>2, <3>3, <3>4 DEF Compacting
    <3>6. DOMAIN msgs' = {} /\ meta'.count = 0
      BY <2>2, <2>3, <2>5, NoneStored
    <3>7. Marking'
      BY <3>5, <3>6 DEF Marking
    <3> QED
      BY <2>2, <3>7 DEF Writing
  <2>6. CASE n = r + 1 /\ ~(keep = 0 /\ Compacting(r + 1))
    <3>1. Len(t) = 0
      BY <1>4, <1>6, <2>6
    <3>2. writes' = <<>>
      BY <1>4, <3>1, EmptySeq
    <3>3. Lead \o First(keep) = Visible(live)
      BY <2>6 DEF Cutting
    <3>4. (Lead \o First(meta.count))' = Visible(live')
      BY <2>2, <3>3 DEF Lead, First
    <3>5. Stored(live)'
      BY <2>4, <3>4 DEF Stored
    <3>6. Wrote'
      BY <3>2, <3>5 DEF Wrote
    <3> QED
      BY <2>2, <3>6 DEF Writing
  <2> QED
    BY <1>5, <2>5, <2>6
<1>7. CASE r > 0
  <2>1. PICK b, s \in Nat : b = a + 1 /\ s = r - 1
    BY <1>7
  <2>2. w.op = "drop" /\ w.key = a
    <3>1. 1 \in 1..r /\ a + 1 - 1 = a
      BY <1>7
    <3> QED
      BY <1>4, <3>1 DEF Cutting
  <2>3. /\ msgs' = [k \in DOMAIN msgs \ {a} |-> msgs[k]]
        /\ UNCHANGED <<meta, marker, live, summary>>
    <3>1. summary \in BOOLEAN
      BY DEF Always, LiveTypes
    <3>2. /\ w.op = "drop" => msgs' = [k \in DOMAIN msgs \ {w.key} |-> msgs[k]]
          /\ w.op \notin {"count", "meta"} => meta' = meta
          /\ marker' = IF w.op = "mark" THEN w.id ELSE marker
          /\ live' = IF w.op = "swap" THEN <<[id |-> w.id, kind |-> "summary"]>> ELSE live
          /\ summary' = (summary \/ w.op = "swap")
      BY <1>1, WriteEffect
    <3>3. w.op \notin {"count", "meta"} /\ w.op # "mark" /\ w.op # "swap"
      BY <2>2
    <3> QED
      BY <2>2, <3>1, <3>2, <3>3
  <2>4. keep <= a /\ DOMAIN msgs = (0..(keep - 1)) \cup (a..(a + r - 1))
    BY DEF Cutting
  <2>5. DOMAIN msgs' = (0..(keep - 1)) \cup (b..(b + s - 1))
    <3>1. ((0..(keep - 1)) \cup (a..(a + r - 1))) \ {a} = (0..(keep - 1)) \cup (b..(b + s - 1))
      BY <2>1, <2>4
    <3> QED
      BY <2>3, <2>4, <3>1
  <2>6. First(keep)' = First(keep)
    <3>1. \A k \in 1..keep : k - 1 \in DOMAIN msgs \ {a}
      BY <2>4
    <3>2. \A k \in 1..keep : msgs'[k - 1] = msgs[k - 1]
      BY <2>3, <3>1
    <3> QED
      BY <3>2 DEF First
  <2>7. r = s + 1 /\ n - 1 > s
    BY <1>4, <1>5, <2>1
  <2>8. \A i \in 1..s : t[i].op = "drop" /\ t[i].key = b + i - 1
    <3> SUFFICES ASSUME NEW i \in 1..s PROVE t[i].op = "drop" /\ t[i].key = b + i - 1
      OBVIOUS
    <3>1. i \in 1..(n - 1) /\ i + 1 \in 1..r /\ a + (i + 1) - 1 = b + i - 1
      BY <1>4, <2>1, <2>7
    <3>2. writes[i + 1].op = "drop" /\ writes[i + 1].key = a + (i + 1) - 1
      BY <3>1 DEF Cutting
    <3> QED
      BY <1>4, <3>1, <3>2
  <2>9. t[s + 1] = CountWrite(keep)'
    <3>1. s + 1 \in 1..(n - 1) /\ (s + 1) + 1 = r + 1
      BY <1>4, <2>7
    <3>2. CountWrite(keep)' = CountWrite(keep)
      BY <2>3 DEF CountWrite
    <3> QED
      BY <1>4, <3>1, <3>2 DEF Cutting
  <2>10. \/ Len(t) = s + 1 /\ (Lead \o First(keep))' = Visible(live')
         \/ keep = 0 /\ Compacting(s + 1)'
    <3>1. CASE keep = 0 /\ Compacting(r + 1)
      <4>1. n = (r + 1) + 3
        BY <1>3, <3>1 DEF Compacting
      <4>2. PICK id \in 1..MaxSaid : writes[(r + 1) + 1] = [op |-> "mark", id |-> id]
              /\ writes[(r + 1) + 2] = [op |-> "swap", id |-> id] /\ writes[(r + 1) + 3] = MetaWrite
        BY <3>1 DEF Compacting
      <4>3. /\ n - 1 = (s + 1) + 3 /\ (s + 1) + 1 \in 1..(n - 1) /\ (s + 1) + 2 \in 1..(n - 1)
            /\ (s + 1) + 3 \in 1..(n - 1) /\ ((s + 1) + 1) + 1 = (r + 1) + 1
            /\ ((s + 1) + 2) + 1 = (r + 1) + 2 /\ ((s + 1) + 3) + 1 = (r + 1) + 3
        BY <2>7, <4>1
      <4>4. t[(s + 1) + 1] = [op |-> "mark", id |-> id] /\ t[(s + 1) + 2] = [op |-> "swap", id |-> id]
            /\ t[(s + 1) + 3] = MetaWrite /\ Len(t) = (s + 1) + 3
        BY <1>4, <4>2, <4>3
      <4>5. Compacting(s + 1)'
        BY <1>4, <4>4 DEF Compacting
      <4> QED
        BY <3>1, <4>5
    <3>2. CASE n = r + 1 /\ ~(keep = 0 /\ Compacting(r + 1))
      <4>1. Len(t) = s + 1
        BY <1>4, <2>7, <3>2
      <4>2. Lead \o First(keep) = Visible(live)
        BY <3>2 DEF Cutting
      <4>3. (Lead \o First(keep))' = Visible(live')
        BY <2>3, <2>6, <4>2 DEF Lead
      <4> QED
        BY <4>1, <4>3
    <3> QED
      BY <1>5, <3>1, <3>2
  <2>11. Agree' /\ meta'.summary = summary' /\ keep <= b
    BY <2>1, <2>3, <2>4 DEF Cutting, Agree
  <2>12. Len(t) > s
    BY <1>4, <2>7
  <2>13. Cutting(keep, b, s)'
    BY <1>4, <2>5, <2>8, <2>9, <2>10, <2>11, <2>12 DEF Cutting
  <2> QED
    BY <2>3, <2>13 DEF Writing
<1> QED
  BY <1>6, <1>7

LEMMA WriteUndisturbed ==
  ASSUME Always, Undisturbed, Write
  PROVE  Undisturbed'
<1>1. pc = "writing" /\ writes # <<>> /\ UNCHANGED <<pc, indexed, deletes>>
  BY DEF Write
<1>2. Writing /\ Exists /\ indexed /\ deletes = <<>> /\ Framed(live)
  BY <1>1 DEF Undisturbed
<1>3. Exists'
  BY <1>2, WriteKeepsExists
<1>4. Writing' /\ Framed(live')
  <2>1. CASE Wrote
    BY <1>1, <2>1 DEF Wrote
  <2>2. CASE MetaLeft
    BY <1>2, <2>2, MetaLeftWrite DEF Writing
  <2>3. CASE Marking
    BY <1>2, <2>3, MarkingWrite DEF Writing
  <2>4. CASE Swapping
    BY <1>2, <2>4, SwappingWrite DEF Writing
  <2>5. ASSUME NEW c \in Nat, NEW r \in Nat, Appending(c, r) PROVE Writing' /\ Framed(live')
    BY <1>2, <2>5, AppendingWrite
  <2>6. ASSUME NEW keep \in Nat, NEW a \in Nat, NEW r \in Nat, Cutting(keep, a, r)
        PROVE  Writing' /\ Framed(live')
    BY <1>2, <2>6, CuttingWrite
  <2> QED
    BY <1>2, <2>1, <2>2, <2>3, <2>4, <2>5, <2>6 DEF Writing
<1> QED
  BY <1>1, <1>2, <1>3, <1>4 DEF Undisturbed

(* Nothing is left to write only when the store has it all.                *)
LEMMA DoneUndisturbed ==
  ASSUME Always, Undisturbed, Done
  PROVE  Undisturbed'
<1>1. writes = <<>> /\ pc = "writing" /\ pc' = "idle"
      /\ UNCHANGED <<live, summary, msgs, meta, marker, indexed, deletes>>
  BY DEF Done, store
<1>2. Writing /\ Framed(live) /\ Exists /\ indexed /\ deletes = <<>>
  BY <1>1 DEF Undisturbed
<1>3. Len(writes) = 0
  BY <1>1, EmptySeq
<1>4. Stored(live)
  <2>1. ~MetaLeft /\ ~Swapping
    <3>1. Len(<<MetaWrite>>) = 1 /\ \A x : Len(<<x, MetaWrite>>) = 2
      OBVIOUS
    <3> QED
      BY <1>3, <3>1 DEF MetaLeft, Swapping
  <2>2. ~Marking
    BY <1>3 DEF Marking, Compacting
  <2>3. \A c, r \in Nat : ~Appending(c, r)
    BY <1>3 DEF Appending
  <2>4. \A keep, a, r \in Nat : ~Cutting(keep, a, r)
    BY <1>3 DEF Cutting
  <2>5. Wrote
    BY <1>2, <2>1, <2>2, <2>3, <2>4 DEF Writing
  <2> QED
    BY <2>5 DEF Wrote
<1>5. PICK z : z = live
  OBVIOUS
<1>6. Stored(live)'
  BY <1>1, <1>4, <1>5, StoredStays
<1> QED
  BY <1>1, <1>2, <1>6 DEF Undisturbed, Exists

LEMMA StepUndisturbed ==
  ASSUME IInv, [Next]_vars, intact'
  PROVE  Undisturbed'
<1>1. Always /\ (intact => Undisturbed)
  BY DEF IInv
<1>2. CASE UNCHANGED vars
  <2>1. Undisturbed
    BY <1>1, <1>2 DEF vars
  <2>2. UNCHANGED <<live, summary, pre, pc, writes, msgs, meta, marker, indexed, deletes>>
    BY <1>2 DEF vars
  <2>3. Exists' /\ indexed' /\ deletes' = <<>> /\ (IF pc' = "guest" THEN Asked(live') ELSE Framed(live'))
    BY <2>1, <2>2 DEF Undisturbed, Exists
  <2>4. PICK z, q : z = live /\ q = SubSeq(live, 1, pre)
    OBVIOUS
  <2>5. Stored(z) => Stored(live)'
    BY <2>2, <2>4, StoredStays
  <2>6. Stored(q) => Stored(SubSeq(live, 1, pre))'
    BY <2>2, <2>4, StoredStays
  <2>7. InTurn => InTurn'
    BY <2>2, <2>4, <2>6 DEF InTurn
  <2>8. Wrote => Wrote'
    BY <2>2, <2>4, <2>5 DEF Wrote
  <2>9. MetaLeft => MetaLeft'
    BY <2>2 DEF MetaLeft, Agree, Lead, First
  <2>10. Marking => Marking'
    BY <2>2 DEF Marking, Compacting
  <2>11. Swapping => Swapping'
    BY <2>2 DEF Swapping
  <2>12. \A c, r \in Nat : Appending(c, r) => Appending(c, r)'
    BY <2>2 DEF Appending, Agree, Lead, Coming, CountWrite
  <2>13. \A keep, a, r \in Nat : Cutting(keep, a, r) => Cutting(keep, a, r)'
    BY <2>2 DEF Cutting, Agree, Lead, First, CountWrite, Compacting
  <2>14. Writing => Writing'
    BY <2>8, <2>9, <2>10, <2>11, <2>12, <2>13 DEF Writing
  <2> QED
    BY <2>1, <2>2, <2>3, <2>4, <2>5, <2>7, <2>14 DEF Undisturbed
<1>3. CASE BeginTurn \/ BeginGuest
  <2>1. intact
    BY <1>3 DEF BeginTurn, BeginGuest
  <2> QED
    BY <1>1, <1>3, <2>1, BeginUndisturbed
<1>4. CASE CommitReply \/ GuestReplies \/ CommitTools \/ StopRun
  <2>1. intact
    BY <1>4 DEF CommitReply, GuestReplies, CommitTools, StopRun
  <2> QED
    BY <1>1, <1>4, <2>1, EntryUndisturbed, CommitToolsUndisturbed, StopUndisturbed
<1>5. CASE GuestFails \/ Dropped \/ DeleteIndex
  BY <1>5 DEF GuestFails, Dropped, DeleteIndex
<1>6. CASE Finalize \/ Compact \/ Write \/ Done
  <2>1. intact
    BY <1>6 DEF Finalize, Compact, Write, Done
  <2> QED
    BY <1>1, <1>6, <2>1, FinalizeUndisturbed, CompactUndisturbed, WriteUndisturbed, DoneUndisturbed
<1>7. CASE \E turns \in 1..MaxSaid : Truncate(turns)
  <2>1. PICK turns \in 1..MaxSaid : Truncate(turns)
    BY <1>7
  <2>2. intact
    BY <2>1 DEF Truncate
  <2> QED
    BY <1>1, <2>1, <2>2, TruncateUndisturbed
<1>8. CASE Evicted \/ Crash
  BY <1>1, <1>8, LoadUndisturbed DEF Evicted, Crash
<1>9. CASE DeleteStep
  <2>1. intact /\ deletes # <<>>
    BY <1>9 DEF DeleteStep
  <2> QED
    BY <1>1, <2>1 DEF Undisturbed
<1> QED
  BY <1>2, <1>3, <1>4, <1>5, <1>6, <1>7, <1>8, <1>9 DEF Next

(* The invariant is inductive.                                             *)
THEOREM Invariance == Spec => []IInv
<1>1. Init => IInv
  BY InitAlways, InitUndisturbed DEF IInv
<1>2. IInv /\ [Next]_vars => IInv'
  <2> SUFFICES ASSUME IInv, [Next]_vars PROVE IInv'
    OBVIOUS
  <2>1. Always'
    BY StepAlways DEF IInv
  <2>2. intact' => Undisturbed'
    BY StepUndisturbed
  <2> QED
    BY <2>1, <2>2 DEF IInv
<1> QED
  BY <1>1, <1>2, PTL DEF Spec

(* What a client is shown: every entry of the store has a role it sees.    *)
LEMMA AllShown ==
  ASSUME StoreTypes
  PROVE  ConversationHistory = Resumed
<1>1. PICK x \in Seq(Plain) : x = Resumed
  BY ResumedPlain
<1>2. PICK n \in Nat : n = Len(x) /\ DOMAIN x = 1..n
  OBVIOUS
<1>3. \A i \in 1..n : Role(x[i]) \notin {"system", "tool"}
  <2> SUFFICES ASSUME NEW i \in 1..n PROVE Role(x[i]) \notin {"system", "tool"}
    OBVIOUS
  <2>1. x[i].kind # "system"
    BY <1>2 DEF Plain, Injected
  <2> QED
    BY <2>1 DEF Role
<1>4. PICK S : S = {i \in DOMAIN x : Role(x[i]) \notin {"system", "tool"}}
  OBVIOUS
<1>5. S = 1..n
  BY <1>2, <1>3, <1>4
<1>6. PICK f : f = [k \in 1..n |-> k]
  OBVIOUS
<1>7. f \in [1..n -> S] /\ S \subseteq Nat /\ Ascends(f, n) /\ \A i \in S : \E k \in 1..n : f[k] = i
  BY <1>5, <1>6 DEF Ascends
<1>8. Cardinality(S) = n /\ InOrder(S) = f
  BY <1>7, InOrderIs
<1>9. Picked(x, S) = [k \in 1..n |-> x[f[k]]]
  BY <1>8 DEF Picked
<1>10. Picked(x, S) = [k \in 1..n |-> x[k]]
  BY <1>6, <1>9
<1>11. x = [k \in 1..n |-> x[k]]
  BY <1>2
<1>12. ConversationHistory = Picked(x, S)
  BY <1>1, <1>4 DEF ConversationHistory
<1> QED
  BY <1>1, <1>10, <1>11, <1>12

LEMMA StoredResumes ==
  ASSUME IInv
  PROVE  ResumeMatchesLive
<1> SUFFICES ASSUME pc = "idle", intact
             PROVE  Resumed = Visible(live) /\ ConversationHistory = Visible(live) /\ Consistent
  BY DEF ResumeMatchesLive
<1>1. StoreTypes /\ Exists /\ indexed /\ Stored(live)
  BY DEF IInv, Always, Undisturbed
<1>2. PICK n \in Nat : n = meta.count
  BY <1>1, MetaKinds DEF StoreTypes
<1>3. DOMAIN msgs = 0..(n - 1) /\ Lead \o First(n) = Visible(live)
  BY <1>1, <1>2 DEF Stored
<1>4. Resumed = Visible(live)
  BY <1>1, <1>3, DenseKeys
<1>5. ConversationHistory = Visible(live)
  BY <1>1, <1>4, AllShown
<1>6. Consistent
  BY <1>1, <1>2, <1>3 DEF Consistent, Stored, Agree
<1> QED
  BY <1>4, <1>5, <1>6

(* As long as no operation was cut short since it was loaded, a reload     *)
(* rebuilds the history of a session between operations, framing aside,    *)
(* and a client is shown the same -- after any number of turns, rounds of  *)
(* tools, guests, compactions and rewinds, in any order.                   *)
THEOREM ReloadRebuildsHistory == Spec => []ResumeMatchesLive
<1>1. IInv => ResumeMatchesLive
  BY StoredResumes
<1> QED
  BY <1>1, Invariance, PTL

(* What finalize_run persists of an undisturbed turn begins at or before   *)
(* the message of the user that opened it.                                 *)
THEOREM UserIsPersisted == Spec => []UserMessagePersisted
<1>1. IInv => UserMessagePersisted
  BY DEF IInv, Undisturbed, InTurn, UserMessagePersisted
<1> QED
  BY <1>1, Invariance, PTL
=============================================================================
