--------------------------- MODULE CatalogProofs ---------------------------
(***************************************************************************)
(* For every number of tasks, names, sources and requests: an agent that   *)
(* was left alone is found by its name, the store mirrors the bus, and     *)
(* what was to fire once has fired once.                                   *)
(***************************************************************************)
EXTENDS Catalog, WellFoundedInduction, TLAPS

(* The subscriptions that the bus serves, that are stored and that are on  *)
(* their way to the store, with their ids.                                 *)
Known == {<<i, subs[i]>> : i \in DOMAIN subs}
         \cup {<<i, stored[i]>> : i \in DOMAIN stored}
         \cup {<<m.id, m.sub>> : m \in writes}

Sub == [source : Sources, once : BOOLEAN, serial : 1..Len(fired)]

(* An id is a number that was given out.                                   *)
BusShape ==
  /\ subs \in [DOMAIN subs -> Sub] /\ stored \in [DOMAIN stored -> Sub]
  /\ DOMAIN subs \subseteq 1..Len(fired) /\ DOMAIN stored \subseteq 1..Len(fired)
  /\ writes \subseteq [op : {"put", "remove"}, id : 1..Len(fired), sub : Sub]
  /\ next_id \in 1..Len(fired) + 1
  /\ fired \in Seq([once : BOOLEAN, times : Nat])
  /\ unsure \subseteq 1..Len(fired)

(* One id for each subscription and one subscription for each id.          *)
OneId == \A k, l \in Known : k[1] = l[1] \/ k[2].serial = l[2].serial => k = l

KnownOnce == \A k \in Known : fired[k[2].serial].once = k[2].once

BelowNext == daemon = "up" => \A k \in Known : k[1] < next_id

(* Until the bus is loaded there is nothing but the store.                 *)
Restarting == daemon # "up" =>
  writes = {} /\ DOMAIN subs = {} /\ \A w \in Workers : task[w].pc = "idle"

(* What may still fire has not fired, unless its removal is on its way.    *)
Unfired(sub, log, cut) == sub.once /\ sub.serial \notin cut => log[sub.serial].times = 0

NotYet ==
  /\ \A i \in DOMAIN subs : Unfired(subs[i], fired, unsure)
  /\ \A m \in writes : m.op = "put" => Unfired(m.sub, fired, unsure)
  /\ \A i \in DOMAIN stored :
       Unfired(stored[i], fired, unsure) \/ \E m \in writes : m.op = "remove" /\ m.id = i

(* What is being written is served, and what is being removed is not.      *)
WritesCurrent == \A m \in writes :
  /\ m.op = "put" => m.sub.serial \in unsure \/ (m.id \in DOMAIN subs /\ subs[m.id] = m.sub)
  /\ m.op = "remove" => m.id \notin DOMAIN subs

BusInv == /\ BusShape /\ OneId /\ KnownOnce /\ BelowNext /\ Restarting
          /\ NotYet /\ WritesCurrent /\ MirrorAgrees /\ OnceFiresOnce
-----------------------------------------------------------------------------
(* The agents                                                              *)

(* The names by which an agent is found, and the name it has.              *)
FoundBy(id) == {n \in DOMAIN idx : idx[n] = id}
NameOf(id) == {content[i] : i \in DOMAIN content \cap {id}}

Clean(id) == id \notin mixed \cup shared

(* How far the index has come, at every point of the one request that      *)
(* works on a clean agent.                                                 *)
AtPoint(found, has, t) ==
  /\ t.pc = "exists" => found = {} /\ has = {}
  /\ t.pc \in {"upsert", "up_put"} => found = has /\ has \subseteq {t.name}
  /\ t.pc # "up_unname"
  /\ t.pc = "up_name" => found \subseteq {t.name} /\ has = {t.name}
  /\ t.pc = "de_unname" => found = {t.name} /\ has = {t.name}
  /\ t.pc = "de_content" => found = {}
  /\ t.pc = "re_put" => found = {t.old} /\ has = {t.old} /\ t.name # t.old
  /\ t.pc = "re_name" => found = {t.old} /\ has = {t.name} /\ t.name # t.old
  /\ t.pc = "re_unname" => found = {t.old, t.name} /\ has = {t.name} /\ t.name # t.old

WorksOn(w, id) == task[w].pc # "idle" /\ task[w].id = id

Requests ==
  /\ \A w \in Workers : task[w].pc \notin {"idle", "subscribe"} => task[w].id \in 1..minted
  /\ \A w \in Workers : task[w].pc = "subscribe" => task[w].id = 0

Served(id) ==
  /\ \A w, v \in Workers : WorksOn(w, id) /\ WorksOn(v, id) => w = v
  /\ \A w \in Workers : WorksOn(w, id) => AtPoint(FoundBy(id), NameOf(id), task[w])

Settled(id) == ~Busy(id) =>
  IF id = minted /\ daemon = "name" THEN FoundBy(id) = {} /\ NameOf(id) = {Crab}
  ELSE /\ FoundBy(id) = NameOf(id)
       /\ id = minted /\ daemon = "crab" => NameOf(id) = {}

Scaffolding == daemon \in {"crab", "name"} => DOMAIN idx = {} /\ minted > 0

Idled == daemon # "up" => \A w \in Workers : task[w].pc = "idle"

AgentInv ==
  /\ AgentTypes /\ TaskTypes /\ mixed \subseteq 1..minted /\ shared \subseteq 1..minted
  /\ Requests /\ Scaffolding /\ Idled /\ Shared \subseteq shared
  /\ \A id \in 1..minted : Clean(id) => Served(id) /\ Settled(id)
-----------------------------------------------------------------------------
(* A bounded set of numbers has a least and a greatest one.                *)

LEMMA LeastNumber ==
  ASSUME NEW T, T \subseteq Nat, T # {}
  PROVE  \E x \in T : \A y \in T : x <= y
<1> DEFINE R == OpToRel(<, Nat)
<1>1. IsWellFoundedOn(R, Nat)
  BY NatLessThanWellFounded, Zenon
<1>2. \A x, y \in Nat : x < y => <<x, y>> \in R
  BY DEF OpToRel
<1> HIDE DEF R
<1>3. PICK x \in T : \A y \in T : ~(<<y, x>> \in R)
  BY <1>1, WFMin
<1>4. ASSUME NEW y \in T PROVE x <= y
  <2>1. x \in Nat /\ y \in Nat
    OBVIOUS
  <2>2. ~(y < x)
    BY <1>2, <1>3, <2>1
  <2> QED
    BY <2>1, <2>2
<1> QED
  BY <1>4

LEMMA MaxOfBounded ==
  ASSUME NEW S, NEW b \in Nat, S \subseteq 0..b, S # {}
  PROVE  Max(S) \in S /\ \A y \in S : Max(S) >= y
<1> DEFINE T == {b - x : x \in S}
<1>1. T \subseteq Nat
  OBVIOUS
<1>2. T # {}
  <2>1. PICK x \in S : TRUE
    OBVIOUS
  <2>2. b - x \in T
    OBVIOUS
  <2> QED
    BY <2>2
<1>3. PICK t \in T : \A u \in T : t <= u
  <2> HIDE DEF T
  <2> QED
    BY <1>1, <1>2, LeastNumber
<1>4. PICK x \in S : t = b - x
  OBVIOUS
<1>5. \A y \in S : x >= y
  <2> SUFFICES ASSUME NEW y \in S PROVE x >= y
    OBVIOUS
  <2>1. b - y \in T
    OBVIOUS
  <2>2. t <= b - y
    BY <1>3, <2>1
  <2> QED
    BY <1>4, <2>2
<1> QED
  BY <1>5 DEF Max
-----------------------------------------------------------------------------
(* The bus                                                                 *)

LEMMA KnownCases ==
  /\ \A i \in DOMAIN subs : <<i, subs[i]>> \in Known
  /\ \A i \in DOMAIN stored : <<i, stored[i]>> \in Known
  /\ \A m \in writes : <<m.id, m.sub>> \in Known
  /\ \A k \in Known : \/ \E i \in DOMAIN subs : k = <<i, subs[i]>>
                      \/ \E i \in DOMAIN stored : k = <<i, stored[i]>>
                      \/ \E m \in writes : k = <<m.id, m.sub>>
BY DEF Known

LEMMA KnownShape ==
  ASSUME BusShape PROVE Known \subseteq (1..Len(fired)) \X Sub
BY DEF BusShape, Known

LEMMA UpWhenServing ==
  ASSUME Restarting, AgentNext \/ \E w \in Workers : BusStep(w)
  PROVE  daemon = "up" /\ daemon' = daemon
<1>1. CASE daemon = "up"
  BY <1>1 DEF AgentNext, AgentRequest, AgentStep, CreateAgent, UpdateAgent, DeleteAgent, RenameAgent,
     AgentExists, UpsertLoad, UpsertUnname, UpsertPut, UpsertName, DeleteUnname, DeleteContent,
     RenamePut, RenameName, RenameUnname, BusStep, SubscribeEvent, Subscribe, Unsubscribe, Publish,
     Begin, Quiet
<1>2. CASE daemon # "up"
  <2>1. \A w \in Workers : task[w].pc = "idle"
    BY <1>2 DEF Restarting
  <2>2. ~AgentNext
    BY <1>2, <2>1 DEF AgentNext, AgentRequest, AgentStep, CreateAgent, UpdateAgent, DeleteAgent,
       RenameAgent, AgentExists, UpsertLoad, UpsertUnname, UpsertPut, UpsertName, DeleteUnname,
       DeleteContent, RenamePut, RenameName, RenameUnname, Begin
  <2>3. \A w \in Workers : ~BusStep(w)
    BY <1>2, <2>1 DEF BusStep, SubscribeEvent, Subscribe, Unsubscribe, Publish, Begin
  <2> QED
    BY <2>2, <2>3
<1> QED
  BY <1>1, <1>2

(* Steps that are about something else.                                    *)
LEMMA BusStays ==
  ASSUME BusInv, UNCHANGED <<busVars, stored, unsure>>, daemon' = "up" => daemon = "up",
         daemon' # "up" => daemon # "up" /\ \A w \in Workers : task'[w].pc = "idle"
  PROVE  BusInv'
<1>1. /\ subs' = subs /\ next_id' = next_id /\ writes' = writes /\ fired' = fired
      /\ stored' = stored /\ unsure' = unsure
  BY DEF busVars
<1>2. Known' = Known /\ Sub' = Sub
  BY <1>1 DEF Known, Sub
<1>3. BusShape' /\ OneId' /\ KnownOnce'
  BY <1>1, <1>2 DEF BusInv, BusShape, OneId, KnownOnce
<1>4. BelowNext' /\ Restarting'
  BY <1>1, <1>2 DEF BusInv, BelowNext, Restarting
<1>5. NotYet' /\ WritesCurrent'
  BY <1>1 DEF BusInv, NotYet, Unfired, WritesCurrent
<1>6. MirrorAgrees' /\ OnceFiresOnce'
  BY <1>1 DEF BusInv, MirrorAgrees, OnceFiresOnce
<1> QED
  BY <1>3, <1>4, <1>5, <1>6 DEF BusInv

LEMMA AgentNextBus ==
  ASSUME BusInv, AgentNext
  PROVE  BusInv'
<1>1. daemon = "up" /\ daemon' = "up"
  BY UpWhenServing DEF BusInv
<1> QED
  BY <1>1, BusStays DEF AgentNext

LEMMA SubscribeEventBus ==
  ASSUME BusInv, NEW w \in Workers, NEW id, SubscribeEvent(w, id),
         UNCHANGED <<agentVars, stored, mixed>>
  PROVE  BusInv'
<1>1. daemon = "up" /\ daemon' = "up"
  BY DEF SubscribeEvent, Begin
<1> QED
  BY <1>1, BusStays DEF SubscribeEvent, busVars

LEMMA SubscribeBus ==
  ASSUME BusInv, NEW w \in Workers, NEW source \in Sources, NEW once \in BOOLEAN,
         Subscribe(w, source, once), UNCHANGED <<agentVars, stored, mixed>>
  PROVE  BusInv'
<1>d. PICK N, sub, m :
        /\ N = Len(fired) + 1
        /\ sub = [source |-> source, once |-> once, serial |-> N]
        /\ m = [op |-> "put", id |-> next_id, sub |-> sub]
  OBVIOUS
<1>0. /\ fired \in Seq([once : BOOLEAN, times : Nat]) /\ N \in Nat /\ next_id \in 1..N
      /\ Len(fired) \in Nat
  BY <1>d DEF BusInv, BusShape
<1>1. /\ subs' = Put(subs, next_id, sub) /\ next_id' = next_id + 1
      /\ writes' = writes \cup {m} /\ fired' = Append(fired, [once |-> once, times |-> 0])
      /\ stored' = stored /\ unsure' = unsure
  BY <1>d DEF Subscribe
<1>2. daemon = "up" /\ daemon' = "up"
  BY UpWhenServing DEF BusInv, BusStep
<1>3. /\ Len(fired') = N /\ fired' \in Seq([once : BOOLEAN, times : Nat])
      /\ \A s \in 1..Len(fired) : fired'[s] = fired[s]
      /\ fired'[N] = [once |-> once, times |-> 0]
  <2>1. [once |-> once, times |-> 0] \in [once : BOOLEAN, times : Nat]
    BY Zenon
  <2> QED
    BY <1>0, <1>1, <1>d, <2>1
<1>4. sub \in Sub' /\ Sub \subseteq Sub' /\ sub.serial = N /\ sub.once = once
  <2>1. N \in 1..Len(fired') /\ 1..Len(fired) \subseteq 1..Len(fired')
    BY <1>0, <1>3, <1>d
  <2>2. sub \in Sub'
    BY <1>d, <2>1, Zenon DEF Sub
  <2>3. Sub \subseteq Sub'
    BY <2>1 DEF Sub
  <2> QED
    BY <1>d, <2>2, <2>3
<1>5. /\ DOMAIN subs' = DOMAIN subs \cup {next_id} /\ subs'[next_id] = sub
      /\ \A i \in DOMAIN subs : i < next_id /\ subs'[i] = subs[i]
  <2>1. \A i \in DOMAIN subs : i < next_id
    BY <1>2, KnownCases DEF BusInv, BelowNext
  <2>2. \A i \in DOMAIN subs : i # next_id
    BY <1>0, <2>1 DEF BusInv, BusShape
  <2> QED
    BY <1>1, <2>1, <2>2 DEF Put
<1>6. m.op = "put" /\ m.id = next_id /\ m.sub = sub
  BY <1>d
<1>7. Known' = Known \cup {<<next_id, sub>>}
  <2>1. Known' = {<<i, subs'[i]>> : i \in DOMAIN subs'}
                 \cup {<<i, stored[i]>> : i \in DOMAIN stored}
                 \cup {<<x.id, x.sub>> : x \in writes'}
    BY <1>1 DEF Known
  <2>2. {<<i, subs'[i]>> : i \in DOMAIN subs'}
          = {<<i, subs[i]>> : i \in DOMAIN subs} \cup {<<next_id, sub>>}
    BY <1>5
  <2>3. {<<x.id, x.sub>> : x \in writes'} = {<<x.id, x.sub>> : x \in writes} \cup {<<next_id, sub>>}
    BY <1>1, <1>6
  <2> QED
    BY <2>1, <2>2, <2>3 DEF Known
<1>8. \A k \in Known : k[1] < next_id /\ k[1] \in Nat /\ k[2].serial \in 1..Len(fired)
  BY <1>2, KnownShape DEF BusInv, BelowNext, Sub
<1>9. BusShape'
  <2>1. subs' \in [DOMAIN subs' -> Sub']
    BY <1>1, <1>4, <1>5 DEF BusInv, BusShape, Put
  <2>2. stored' \in [DOMAIN stored' -> Sub']
    BY <1>1, <1>4 DEF BusInv, BusShape
  <2>3. DOMAIN subs' \subseteq 1..Len(fired') /\ DOMAIN stored' \subseteq 1..Len(fired')
    BY <1>0, <1>1, <1>3, <1>5, <1>d DEF BusInv, BusShape
  <2>4. writes' \subseteq [op : {"put", "remove"}, id : 1..Len(fired'), sub : Sub']
    <3>1. m \in [op : {"put", "remove"}, id : 1..Len(fired'), sub : Sub']
      BY <1>0, <1>3, <1>4, <1>d
    <3>2. 1..Len(fired) \subseteq 1..Len(fired')
      BY <1>0, <1>3, <1>d
    <3>3. writes \subseteq [op : {"put", "remove"}, id : 1..Len(fired'), sub : Sub']
      BY <1>4, <3>2 DEF BusInv, BusShape
    <3> QED
      BY <1>1, <3>1, <3>3
  <2>5. next_id' \in 1..Len(fired') + 1 /\ unsure' \subseteq 1..Len(fired')
    BY <1>0, <1>1, <1>3, <1>d DEF BusInv, BusShape
  <2> QED
    BY <1>3, <2>1, <2>2, <2>3, <2>4, <2>5 DEF BusShape
<1>10. OneId'
  <2>1. \A k \in Known : k[1] # next_id /\ k[2].serial # sub.serial
    BY <1>0, <1>4, <1>8, <1>d
  <2> QED
    BY <1>7, <2>1 DEF BusInv, OneId
<1>11. KnownOnce'
  <2>1. \A k \in Known : fired'[k[2].serial].once = k[2].once
    BY <1>3, <1>8 DEF BusInv, KnownOnce
  <2>2. fired'[sub.serial].once = sub.once
    <3>1. [once |-> once, times |-> 0].once = once
      BY Zenon
    <3> QED
      BY <1>3, <1>4, <3>1, Zenon
  <2> QED
    BY <1>7, <2>1, <2>2 DEF KnownOnce
<1>12. BelowNext' /\ Restarting'
  BY <1>0, <1>1, <1>2, <1>7, <1>8 DEF BelowNext, Restarting
<1>13. NotYet'
  <2>1. \A s : s \in Sub /\ Unfired(s, fired, unsure) => Unfired(s, fired', unsure')
    BY <1>1, <1>3 DEF Unfired, Sub
  <2>2. Unfired(sub, fired', unsure')
    <3>1. fired'[sub.serial].times = 0
      BY <1>3, <1>4
    <3> QED
      BY <3>1 DEF Unfired
  <2>3. \A i \in DOMAIN subs' : Unfired(subs'[i], fired', unsure')
    BY <1>5, <2>1, <2>2 DEF BusInv, BusShape, NotYet
  <2>4. \A x \in writes' : x.op = "put" => Unfired(x.sub, fired', unsure')
    BY <1>1, <1>6, <2>1, <2>2 DEF BusInv, BusShape, NotYet
  <2>5. \A i \in DOMAIN stored' :
          Unfired(stored'[i], fired', unsure') \/ \E x \in writes' : x.op = "remove" /\ x.id = i
    BY <1>1, <2>1 DEF BusInv, BusShape, NotYet
  <2> QED
    BY <2>3, <2>4, <2>5 DEF NotYet
<1>14. WritesCurrent'
  <2>2. ASSUME NEW x \in writes PROVE x.id # next_id
    <3>1. <<x.id, x.sub>> \in Known /\ <<x.id, x.sub>>[1] = x.id
      BY KnownCases
    <3> QED
      BY <1>0, <1>8, <3>1
  <2> QED
    BY <1>1, <1>5, <1>6, <2>2 DEF BusInv, WritesCurrent
<1>15. MirrorAgrees'
  <2> SUFFICES ASSUME NEW i \in DOMAIN subs' \cup DOMAIN stored'
               PROVE  LET s == IF i \in DOMAIN subs' THEN subs'[i] ELSE stored'[i]
                      IN  \/ \E x \in writes' : x.id = i
                          \/ s.serial \in unsure'
                          \/ i \in DOMAIN subs' /\ i \in DOMAIN stored' /\ subs'[i] = stored'[i]
    BY DEF MirrorAgrees
  <2>1. CASE i = next_id
    BY <1>1, <1>6, <2>1
  <2>2. CASE i # next_id
    BY <1>1, <1>2, <1>5, <2>2 DEF BusInv, MirrorAgrees
  <2> QED
    BY <2>1, <2>2
<1>16. OnceFiresOnce'
  <2> SUFFICES ASSUME NEW s \in DOMAIN fired' \ unsure', fired'[s].once PROVE fired'[s].times <= 1
    BY DEF OnceFiresOnce
  <2>1. CASE s = N
    BY <1>3, <2>1
  <2>2. CASE s # N
    <3>1. s \in DOMAIN fired \ unsure /\ fired'[s] = fired[s]
      BY <1>0, <1>1, <1>3, <1>d, <2>2
    <3> QED
      BY <3>1 DEF BusInv, OnceFiresOnce
  <2> QED
    BY <2>1, <2>2
<1> QED
  BY <1>9, <1>10, <1>11, <1>12, <1>13, <1>14, <1>15, <1>16 DEF BusInv

(* What fires, and what leaves the map.                                    *)
LEMMA FireCounts ==
  ASSUME BusInv, NEW hit, Fire(hit)
  PROVE  /\ fired' \in Seq([once : BOOLEAN, times : Nat]) /\ Len(fired') = Len(fired)
         /\ \A s \in 1..Len(fired) :
              /\ fired'[s].once = fired[s].once
              /\ (\E i \in hit : subs[i].serial = s) => fired'[s].times = fired[s].times + 1
              /\ ~(\E i \in hit : subs[i].serial = s) => fired'[s] = fired[s]
<1> DEFINE R == [once : BOOLEAN, times : Nat]
<1>0. fired \in Seq(R) /\ Len(fired) \in Nat /\ DOMAIN fired = 1..Len(fired)
  BY DEF BusInv, BusShape
<1>1. /\ DOMAIN fired' = 1..Len(fired)
      /\ \A s \in 1..Len(fired) :
           fired'[s] = IF \E i \in hit : subs[i].serial = s
                       THEN [fired[s] EXCEPT !.times = @ + 1] ELSE fired[s]
  BY <1>0 DEF Fire
<1>2. ASSUME NEW s \in 1..Len(fired) PROVE fired[s] \in R
  <2> HIDE DEF R
  <2> QED
    BY <1>0
<1>3. ASSUME NEW s \in 1..Len(fired)
      PROVE  LET e == [fired[s] EXCEPT !.times = @ + 1]
             IN  e \in R /\ e.once = fired[s].once /\ e.times = fired[s].times + 1
  <2>1. PICK a, b : a = fired[s] /\ b = a.times + 1
    OBVIOUS
  <2>2. a \in R
    BY <1>3, <1>2, <2>1
  <2>3. b \in Nat
    BY <2>1, <2>2
  <2>4. [a EXCEPT !.times = b] \in R /\ [a EXCEPT !.times = b].once = a.once
        /\ [a EXCEPT !.times = b].times = b
    BY <2>2, <2>3, Zenon
  <2>5. [fired[s] EXCEPT !.times = @ + 1] = [a EXCEPT !.times = b]
    BY <2>1
  <2> QED
    BY <2>1, <2>4, <2>5
<1>4. \A s \in 1..Len(fired) : fired'[s] \in R
  <2> HIDE DEF R
  <2> QED
    BY <1>1, <1>2, <1>3
<1>5. fired' \in Seq(R) /\ Len(fired') = Len(fired)
  <2> HIDE DEF R
  <2>1. fired' = [s \in 1..Len(fired) |-> fired'[s]]
    BY <1>0 DEF Fire
  <2>2. fired' \in [1..Len(fired) -> R]
    BY <1>1, <1>4, <2>1
  <2> QED
    BY <1>0, <2>2, SMT
<1>6. ASSUME NEW s \in 1..Len(fired)
      PROVE  /\ fired'[s].once = fired[s].once
             /\ (\E i \in hit : subs[i].serial = s) => fired'[s].times = fired[s].times + 1
             /\ ~(\E i \in hit : subs[i].serial = s) => fired'[s] = fired[s]
  BY <1>1, <1>3, <1>6, Zenon
<1> QED
  BY <1>5, <1>6

LEMMA RetireBus ==
  ASSUME BusInv, daemon = "up", daemon' = "up",
         NEW gone, NEW hit, gone \subseteq DOMAIN subs, hit \subseteq DOMAIN subs,
         \A i \in hit : subs[i].once => i \in gone,
         subs' = Without(subs, gone), Erase(gone), Fire(hit),
         next_id' = next_id, stored' = stored
  PROVE  BusInv'
<1> DEFINE E == {[op |-> "remove", id |-> i, sub |-> subs[i]] : i \in gone}
<1>0. Len(fired) \in Nat /\ DOMAIN fired = 1..Len(fired) /\ subs \in [DOMAIN subs -> Sub]
      /\ DOMAIN subs \subseteq 1..Len(fired)
  BY DEF BusInv, BusShape
<1>1. /\ fired' \in Seq([once : BOOLEAN, times : Nat]) /\ Len(fired') = Len(fired)
      /\ \A s \in 1..Len(fired) :
           /\ fired'[s].once = fired[s].once
           /\ (\E i \in hit : subs[i].serial = s) => fired'[s].times = fired[s].times + 1
           /\ ~(\E i \in hit : subs[i].serial = s) => fired'[s] = fired[s]
  BY FireCounts
<1>2. DOMAIN subs' = DOMAIN subs \ gone /\ \A i \in DOMAIN subs' : subs'[i] = subs[i]
  BY DEF Without, Restrict
<1>3. writes' = writes \cup E /\ unsure \subseteq unsure'
  BY DEF Erase
<1>4. \A i \in gone : \E x \in writes' : x.op = "remove" /\ x.id = i
  <2> SUFFICES ASSUME NEW i \in gone PROVE \E x \in writes' : x.op = "remove" /\ x.id = i
    OBVIOUS
  <2>1. [op |-> "remove", id |-> i, sub |-> subs[i]] \in writes'
    BY <1>3
  <2> QED
    BY <2>1
<1>5. \A x \in E : x.op = "remove" /\ x.id \in gone /\ x.sub = subs[x.id]
  OBVIOUS
<1>6. \A m \in writes : m.op = "put" /\ m.id \in gone => subs[m.id].serial \in unsure'
  BY DEF Erase
<1>7. Known' \subseteq Known
  <2> SUFFICES ASSUME NEW k \in Known' PROVE k \in Known
    OBVIOUS
  <2>1. \/ \E i \in DOMAIN subs' : k = <<i, subs'[i]>>
        \/ \E i \in DOMAIN stored : k = <<i, stored[i]>>
        \/ \E x \in writes' : k = <<x.id, x.sub>>
    BY DEF Known
  <2>2. CASE \E i \in DOMAIN subs' : k = <<i, subs'[i]>>
    BY <1>2, <2>2, KnownCases
  <2>3. CASE \E i \in DOMAIN stored : k = <<i, stored[i]>>
    BY <2>3, KnownCases
  <2>4. ASSUME NEW x \in writes', k = <<x.id, x.sub>> PROVE k \in Known
    <3> HIDE DEF E
    <3>1. CASE x \in writes
      BY <2>4, <3>1, KnownCases
    <3>2. CASE x \in E
      BY <1>5, <2>4, <3>2, KnownCases
    <3> QED
      BY <1>3, <3>1, <3>2
  <2> QED
    BY <2>1, <2>2, <2>3, <2>4
<1>8. Sub' = Sub
  BY <1>1 DEF Sub
<1>9. \A k \in Known : k[2].serial \in 1..Len(fired)
  BY KnownShape DEF BusInv, Sub
(* Whatever has the serial of a subscription that is served is that one.   *)
<1>10. \A j \in DOMAIN subs, k \in Known : subs[j].serial = k[2].serial => k = <<j, subs[j]>>
  <2> SUFFICES ASSUME NEW j \in DOMAIN subs, NEW k \in Known, subs[j].serial = k[2].serial
               PROVE  k = <<j, subs[j]>>
    OBVIOUS
  <2>1. <<j, subs[j]>> \in Known /\ <<j, subs[j]>>[2] = subs[j]
    BY KnownCases
  <2> QED
    BY <2>1 DEF BusInv, OneId
<1>11. \A i \in DOMAIN subs : <<i, subs[i]>> \in Known /\ <<i, subs[i]>>[1] = i /\ <<i, subs[i]>>[2] = subs[i]
  BY KnownCases
<1>12. \A i \in DOMAIN stored :
         <<i, stored[i]>> \in Known /\ <<i, stored[i]>>[1] = i /\ <<i, stored[i]>>[2] = stored[i]
  BY KnownCases
<1>13. \A m \in writes :
         <<m.id, m.sub>> \in Known /\ <<m.id, m.sub>>[1] = m.id /\ <<m.id, m.sub>>[2] = m.sub
  BY KnownCases
<1>14. BusShape'
  <2>1. subs' \in [DOMAIN subs' -> Sub'] /\ stored' \in [DOMAIN stored' -> Sub']
    BY <1>0, <1>2, <1>8 DEF BusInv, BusShape, Without, Restrict
  <2>2. DOMAIN subs' \subseteq 1..Len(fired') /\ DOMAIN stored' \subseteq 1..Len(fired')
    BY <1>1, <1>2 DEF BusInv, BusShape
  <2>3. writes' \subseteq [op : {"put", "remove"}, id : 1..Len(fired'), sub : Sub']
    <3>1. E \subseteq [op : {"put", "remove"}, id : 1..Len(fired), sub : Sub]
      BY <1>0
    <3> QED
      BY <1>1, <1>3, <1>8, <3>1 DEF BusInv, BusShape
  <2>4. next_id' \in 1..Len(fired') + 1
    BY <1>1 DEF BusInv, BusShape
  <2>5. unsure' \subseteq 1..Len(fired')
    <3>1. \A i \in gone : subs[i].serial \in 1..Len(fired)
      BY <1>0 DEF Sub
    <3> QED
      BY <1>1, <3>1 DEF BusInv, BusShape, Erase
  <2> QED
    BY <1>1, <2>1, <2>2, <2>3, <2>4, <2>5 DEF BusShape
<1> HIDE DEF E
<1>15. OneId' /\ KnownOnce' /\ BelowNext' /\ Restarting'
  <2>1. OneId'
    BY <1>7 DEF BusInv, OneId
  <2>2. KnownOnce'
    BY <1>1, <1>7, <1>9 DEF BusInv, KnownOnce
  <2>3. BelowNext' /\ Restarting'
    BY <1>7 DEF BusInv, BelowNext, Restarting
  <2> QED
    BY <2>1, <2>2, <2>3
(* What was hit and is to fire once has left the map.                      *)
<1>16. \A k \in Known : k[2].once /\ k[2].serial \notin unsure' /\ fired[k[2].serial].times = 0
                        /\ fired'[k[2].serial].times # 0
                        => k[1] \in gone /\ k[2] = subs[k[1]]
  <2> SUFFICES ASSUME NEW k \in Known, k[2].once, k[2].serial \notin unsure',
                      fired[k[2].serial].times = 0, fired'[k[2].serial].times # 0
               PROVE  k[1] \in gone /\ k[2] = subs[k[1]]
    OBVIOUS
  <2>1. PICK i \in hit : subs[i].serial = k[2].serial
    BY <1>1, <1>9
  <2>2. k = <<i, subs[i]>>
    BY <1>10, <2>1
  <2> QED
    BY <2>1, <2>2
<1>17. NotYet'
  <2>1. ASSUME NEW i \in DOMAIN subs' PROVE Unfired(subs'[i], fired', unsure')
    <3>1. i \in DOMAIN subs /\ i \notin gone /\ subs'[i] = subs[i]
      BY <1>2
    <3>2. Unfired(subs[i], fired, unsure)
      BY <3>1 DEF BusInv, NotYet
    <3>3. PICK k : k = <<i, subs[i]>>
      OBVIOUS
    <3>4. k \in Known /\ k[1] = i /\ k[2] = subs[i]
      BY <1>11, <3>1, <3>3
    <3>5. ~(k[2].once /\ k[2].serial \notin unsure' /\ fired[k[2].serial].times = 0
            /\ fired'[k[2].serial].times # 0)
      BY <1>16, <3>1, <3>4
    <3> QED
      BY <1>3, <3>1, <3>2, <3>4, <3>5 DEF Unfired
  <2>2. ASSUME NEW x \in writes', x.op = "put" PROVE Unfired(x.sub, fired', unsure')
    <3>1. x \in writes
      BY <1>3, <1>5, <2>2
    <3>2. Unfired(x.sub, fired, unsure)
      BY <2>2, <3>1 DEF BusInv, NotYet
    <3> QED
      BY <1>3, <1>6, <1>13, <1>16, <2>2, <3>1, <3>2 DEF Unfired
  <2>3. ASSUME NEW i \in DOMAIN stored'
        PROVE  Unfired(stored'[i], fired', unsure') \/ \E x \in writes' : x.op = "remove" /\ x.id = i
    <3>1. CASE \E x \in writes : x.op = "remove" /\ x.id = i
      BY <1>3, <3>1
    <3>2. CASE Unfired(stored[i], fired, unsure)
      BY <1>3, <1>4, <1>12, <1>16, <3>2 DEF Unfired
    <3> QED
      BY <3>1, <3>2 DEF BusInv, NotYet
  <2> QED
    BY <2>1, <2>2, <2>3 DEF NotYet
<1>18. WritesCurrent'
  <2> SUFFICES ASSUME NEW m \in writes'
               PROVE  /\ m.op = "put" => m.sub.serial \in unsure'
                                         \/ (m.id \in DOMAIN subs' /\ subs'[m.id] = m.sub)
                      /\ m.op = "remove" => m.id \notin DOMAIN subs'
    BY DEF WritesCurrent
  <2>1. CASE m \in writes
    BY <1>2, <1>3, <1>6, <2>1 DEF BusInv, WritesCurrent
  <2>2. CASE m \in E
    BY <1>2, <1>5, <2>2
  <2> QED
    BY <1>3, <2>1, <2>2
<1>19. MirrorAgrees'
  <2> SUFFICES ASSUME NEW i \in DOMAIN subs' \cup DOMAIN stored'
               PROVE  LET s == IF i \in DOMAIN subs' THEN subs'[i] ELSE stored'[i]
                      IN  \/ \E x \in writes' : x.id = i
                          \/ s.serial \in unsure'
                          \/ i \in DOMAIN subs' /\ i \in DOMAIN stored' /\ subs'[i] = stored'[i]
    BY DEF MirrorAgrees
  <2>1. CASE i \in gone
    BY <1>4, <2>1
  <2>2. CASE i \notin gone
    BY <1>2, <1>3, <2>2 DEF BusInv, MirrorAgrees
  <2> QED
    BY <2>1, <2>2
<1>20. OnceFiresOnce'
  <2> SUFFICES ASSUME NEW s \in 1..Len(fired), s \notin unsure', fired'[s].once
               PROVE  fired'[s].times <= 1
    BY <1>1 DEF OnceFiresOnce
  <2>1. CASE \E i \in hit : subs[i].serial = s
    <3>1. PICK i \in hit : subs[i].serial = s
      BY <2>1
    <3>2. subs[i].once
      BY <1>1, <1>11, <3>1 DEF BusInv, KnownOnce
    <3>3. fired[s].times = 0
      BY <1>3, <3>1, <3>2 DEF BusInv, NotYet, Unfired
    <3>4. fired'[s].times = fired[s].times + 1
      BY <1>1, <2>1
    <3> QED
      BY <3>3, <3>4
  <2>2. CASE ~(\E i \in hit : subs[i].serial = s)
    BY <1>0, <1>1, <1>3, <2>2 DEF BusInv, OnceFiresOnce
  <2> QED
    BY <2>1, <2>2
<1> QED
  BY <1>14, <1>15, <1>17, <1>18, <1>19, <1>20 DEF BusInv

LEMMA UnsubscribeBus ==
  ASSUME BusInv, NEW w \in Workers, NEW id, Unsubscribe(w, id),
         UNCHANGED <<agentVars, stored, mixed>>
  PROVE  BusInv'
<1>1. daemon = "up" /\ daemon' = "up"
  BY DEF Unsubscribe, Begin
<1>2. fired = [s \in DOMAIN fired |-> fired[s]]
  BY DEF BusInv, BusShape
<1>3. Fire({})
  BY <1>2 DEF Fire, Unsubscribe
<1> QED
  BY <1>1, <1>3, RetireBus DEF Unsubscribe

LEMMA PublishBus ==
  ASSUME BusInv, NEW w \in Workers, NEW source, Publish(w, source),
         UNCHANGED <<agentVars, stored, mixed>>
  PROVE  BusInv'
<1>1. daemon = "up" /\ daemon' = "up"
  BY DEF Publish, Begin
<1>2. PICK hit, gone : hit = Matching(source) /\ gone = {i \in Matching(source) : subs[i].once}
  OBVIOUS
<1>3. /\ gone \subseteq DOMAIN subs /\ hit \subseteq DOMAIN subs
      /\ \A i \in hit : subs[i].once => i \in gone
  BY <1>2 DEF Matching
<1>4. /\ subs' = Without(subs, gone) /\ Erase(gone) /\ Fire(hit)
      /\ next_id' = next_id /\ stored' = stored
  BY <1>2 DEF Publish
<1> QED
  BY <1>1, <1>3, <1>4, RetireBus

(* A write that is done, or that failed.                                   *)
LEMMA MirrorBus ==
  ASSUME BusInv, NEW m \in writes, Mirror(m)
  PROVE  BusInv'
<1>0. /\ subs' = subs /\ next_id' = next_id /\ fired' = fired /\ writes' = writes \ {m}
      /\ daemon' = daemon /\ task' = task
  BY DEF Mirror
<1>1. Len(fired) \in Nat /\ m.sub \in Sub /\ m.id \in 1..Len(fired) /\ m.op \in {"put", "remove"}
  BY DEF BusInv, BusShape
<1>2. \A k \in Known : k[1] = m.id => k[2] = m.sub
  <2>1. <<m.id, m.sub>> \in Known /\ <<m.id, m.sub>>[1] = m.id /\ <<m.id, m.sub>>[2] = m.sub
    BY KnownCases
  <2> QED
    BY <2>1 DEF BusInv, OneId
<1>3. /\ \A i \in DOMAIN subs : i = m.id => subs[i] = m.sub
      /\ \A i \in DOMAIN stored : i = m.id => stored[i] = m.sub
  <2>1. \A i \in DOMAIN subs : <<i, subs[i]>> \in Known
                               /\ <<i, subs[i]>>[1] = i /\ <<i, subs[i]>>[2] = subs[i]
    BY KnownCases
  <2>2. \A i \in DOMAIN stored : <<i, stored[i]>> \in Known
                                 /\ <<i, stored[i]>>[1] = i /\ <<i, stored[i]>>[2] = stored[i]
    BY KnownCases
  <2> QED
    BY <1>2, <2>1, <2>2
<1>4. ASSUME /\ DOMAIN stored' \subseteq DOMAIN stored \cup {m.id}
             /\ stored' \in [DOMAIN stored' -> Sub]
             /\ \A i \in DOMAIN stored' : i # m.id => stored'[i] = stored[i]
             /\ m.id \in DOMAIN stored' => stored'[m.id] = m.sub
             /\ unsure \subseteq unsure' /\ unsure' \subseteq 1..Len(fired)
      PROVE  BusShape' /\ OneId' /\ KnownOnce' /\ BelowNext' /\ Restarting' /\ WritesCurrent'
             /\ OnceFiresOnce'
  <2>1. Known' \subseteq Known
    <3> SUFFICES ASSUME NEW k \in Known' PROVE k \in Known
      OBVIOUS
    <3>1. \/ \E i \in DOMAIN subs : k = <<i, subs[i]>>
          \/ \E i \in DOMAIN stored' : k = <<i, stored'[i]>>
          \/ \E x \in writes : k = <<x.id, x.sub>>
      BY <1>0 DEF Known
    <3>2. CASE \E i \in DOMAIN stored' : k = <<i, stored'[i]>>
      BY <1>4, <3>2, KnownCases
    <3> QED
      BY <3>1, <3>2, KnownCases
  <2>2. Sub' = Sub
    BY <1>0 DEF Sub
  <2>3. BusShape'
    BY <1>0, <1>1, <1>4, <2>2 DEF BusInv, BusShape
  <2>4. OneId' /\ KnownOnce'
    BY <1>0, <2>1 DEF BusInv, OneId, KnownOnce
  <2>5. BelowNext' /\ Restarting'
    BY <1>0, <2>1 DEF BusInv, BelowNext, Restarting
  <2>6. WritesCurrent'
    BY <1>0, <1>4 DEF BusInv, WritesCurrent
  <2>7. OnceFiresOnce'
    BY <1>0, <1>4 DEF BusInv, OnceFiresOnce
  <2> QED
    BY <2>3, <2>4, <2>5, <2>6, <2>7
<1>5. CASE m.op = "put" /\ stored' = Put(stored, m.id, m.sub) /\ unsure' = unsure
  <2>1. /\ DOMAIN stored' = DOMAIN stored \cup {m.id} /\ stored'[m.id] = m.sub
        /\ \A i \in DOMAIN stored : i # m.id => stored'[i] = stored[i]
        /\ stored' \in [DOMAIN stored' -> Sub]
    BY <1>1, <1>5 DEF Put, BusInv, BusShape
  <2>2. unsure' \subseteq 1..Len(fired)
    BY <1>5 DEF BusInv, BusShape
  <2>3. NotYet'
    BY <1>0, <1>5, <2>1 DEF BusInv, NotYet
  <2>4. MirrorAgrees'
    <3> SUFFICES ASSUME daemon = "up", NEW i \in DOMAIN subs' \cup DOMAIN stored'
                 PROVE  LET s == IF i \in DOMAIN subs' THEN subs'[i] ELSE stored'[i]
                        IN  \/ \E x \in writes' : x.id = i
                            \/ s.serial \in unsure'
                            \/ i \in DOMAIN subs' /\ i \in DOMAIN stored' /\ subs'[i] = stored'[i]
      BY <1>0 DEF MirrorAgrees
    <3>1. CASE i = m.id
      <4>1. m.sub.serial \in unsure \/ (m.id \in DOMAIN subs /\ subs[m.id] = m.sub)
        BY <1>5 DEF BusInv, WritesCurrent
      <4> QED
        BY <1>0, <1>3, <1>5, <2>1, <3>1, <4>1
    <3>2. CASE i # m.id
      BY <1>0, <1>5, <2>1, <3>2 DEF BusInv, MirrorAgrees
    <3> QED
      BY <3>1, <3>2
  <2> QED
    BY <1>4, <1>5, <2>1, <2>2, <2>3, <2>4 DEF BusInv
<1>6. CASE m.op = "remove" /\ stored' = Without(stored, {m.id}) /\ unsure' = unsure
  <2>1. /\ DOMAIN stored' = DOMAIN stored \ {m.id}
        /\ \A i \in DOMAIN stored' : stored'[i] = stored[i]
        /\ stored' \in [DOMAIN stored' -> Sub]
    BY <1>1, <1>6 DEF Without, Restrict, BusInv, BusShape
  <2>2. unsure' \subseteq 1..Len(fired)
    BY <1>6 DEF BusInv, BusShape
  <2>3. NotYet'
    BY <1>0, <1>6, <2>1 DEF BusInv, NotYet
  <2>4. MirrorAgrees'
    <3> SUFFICES ASSUME daemon = "up", NEW i \in DOMAIN subs' \cup DOMAIN stored'
                 PROVE  LET s == IF i \in DOMAIN subs' THEN subs'[i] ELSE stored'[i]
                        IN  \/ \E x \in writes' : x.id = i
                            \/ s.serial \in unsure'
                            \/ i \in DOMAIN subs' /\ i \in DOMAIN stored' /\ subs'[i] = stored'[i]
      BY <1>0 DEF MirrorAgrees
    <3>1. i # m.id
      BY <1>0, <1>6, <2>1 DEF BusInv, WritesCurrent
    <3> QED
      BY <1>0, <1>6, <2>1, <3>1 DEF BusInv, MirrorAgrees
  <2> QED
    BY <1>4, <1>6, <2>1, <2>2, <2>3, <2>4 DEF BusInv
<1>7. CASE unsure' = unsure \cup {m.sub.serial} /\ stored' = stored
  <2>1. unsure' \subseteq 1..Len(fired)
    BY <1>1, <1>7 DEF BusInv, BusShape, Sub
  <2>2. /\ stored' \in [DOMAIN stored' -> Sub]
        /\ m.id \in DOMAIN stored' => stored'[m.id] = m.sub
    BY <1>3, <1>7 DEF BusInv, BusShape
  <2>3. NotYet'
    <3>1. \A s : Unfired(s, fired, unsure) => Unfired(s, fired', unsure')
      BY <1>0, <1>7 DEF Unfired
    <3>2. ASSUME NEW i \in DOMAIN stored
          PROVE  Unfired(stored[i], fired', unsure') \/ \E x \in writes' : x.op = "remove" /\ x.id = i
      <4>1. CASE Unfired(stored[i], fired, unsure)
        BY <3>1, <4>1
      <4>2. ASSUME NEW x \in writes, x.op = "remove", x.id = i
            PROVE  Unfired(stored[i], fired', unsure')
                   \/ \E y \in writes' : y.op = "remove" /\ y.id = i
        <5>1. CASE x = m
          BY <1>3, <1>7, <4>2, <5>1 DEF Unfired
        <5>2. CASE x # m
          BY <1>0, <4>2, <5>2
        <5> QED
          BY <5>1, <5>2
      <4> QED
        BY <4>1, <4>2 DEF BusInv, NotYet
    <3> QED
      BY <1>0, <1>7, <3>1, <3>2 DEF BusInv, NotYet
  <2>4. MirrorAgrees'
    <3> SUFFICES ASSUME daemon = "up", NEW i \in DOMAIN subs' \cup DOMAIN stored'
                 PROVE  LET s == IF i \in DOMAIN subs' THEN subs'[i] ELSE stored'[i]
                        IN  \/ \E x \in writes' : x.id = i
                            \/ s.serial \in unsure'
                            \/ i \in DOMAIN subs' /\ i \in DOMAIN stored' /\ subs'[i] = stored'[i]
      BY <1>0 DEF MirrorAgrees
    <3>1. CASE i = m.id
      BY <1>0, <1>3, <1>7, <3>1
    <3>2. CASE i # m.id
      BY <1>0, <1>7, <3>2 DEF BusInv, MirrorAgrees
    <3> QED
      BY <3>1, <3>2
  <2> QED
    BY <1>4, <1>7, <2>1, <2>2, <2>3, <2>4 DEF BusInv
<1> QED
  BY <1>1, <1>5, <1>6, <1>7 DEF Mirror

LEMMA BootBus ==
  ASSUME BusInv, Boot
  PROVE  BusInv'
<1>1. CASE BootScan \/ BootContent \/ BootName \/ BootDefault
  <2>1. UNCHANGED <<busVars, stored, unsure>> /\ task' = task
    BY <1>1 DEF BootScan, BootContent, BootName, BootDefault
  <2>2. daemon # "up" /\ daemon' # "up"
    BY <1>1 DEF BootScan, BootContent, BootName, BootDefault
  <2>3. \A w \in Workers : task'[w].pc = "idle"
    BY <2>1, <2>2 DEF BusInv, Restarting
  <2> QED
    BY <2>1, <2>2, <2>3, BusStays
<1>2. CASE BootLoad
  <2>1. /\ daemon # "up" /\ daemon' = "up" /\ subs' = stored /\ stored' = stored /\ writes' = writes
        /\ fired' = fired /\ unsure' = unsure
        /\ next_id' = IF stored = <<>> THEN 1 ELSE Max(DOMAIN stored) + 1
    BY <1>2 DEF BootLoad
  <2>2. writes = {} /\ DOMAIN subs = {}
    BY <2>1 DEF BusInv, Restarting
  <2>3. Known = {<<i, stored[i]>> : i \in DOMAIN stored} /\ Known' = Known
    BY <2>1, <2>2 DEF Known
  <2>4. Len(fired) \in Nat /\ DOMAIN stored \subseteq 1..Len(fired)
    BY DEF BusInv, BusShape
  <2>5. next_id' \in 1..Len(fired) + 1 /\ \A i \in DOMAIN stored : i < next_id'
    <3>1. CASE DOMAIN stored = {}
      <4>1. stored = <<>>
        BY <3>1 DEF BusInv, BusShape
      <4> QED
        BY <2>1, <2>4, <3>1, <4>1
    <3>2. CASE DOMAIN stored # {}
      <4>1. stored # <<>>
        BY <3>2
      <4>2. DOMAIN stored \subseteq 0..Len(fired)
        BY <2>4
      <4>3. Max(DOMAIN stored) \in DOMAIN stored /\ \A i \in DOMAIN stored : Max(DOMAIN stored) >= i
        BY <2>4, <3>2, <4>2, MaxOfBounded
      <4> QED
        BY <2>1, <2>4, <4>1, <4>3
    <3> QED
      BY <3>1, <3>2
  <2>6. BusShape' /\ OneId' /\ KnownOnce'
    <3>1. Sub' = Sub
      BY <2>1 DEF Sub
    <3> QED
      BY <2>1, <2>2, <2>3, <2>5, <3>1 DEF BusInv, BusShape, OneId, KnownOnce
  <2>7. BelowNext' /\ Restarting'
    BY <2>1, <2>3, <2>5 DEF BelowNext, Restarting
  <2>8. NotYet' /\ WritesCurrent'
    BY <2>1, <2>2 DEF BusInv, NotYet, WritesCurrent
  <2>9. MirrorAgrees' /\ OnceFiresOnce'
    BY <2>1 DEF BusInv, MirrorAgrees, OnceFiresOnce
  <2> QED
    BY <2>6, <2>7, <2>8, <2>9 DEF BusInv
<1> QED
  BY <1>1, <1>2 DEF Boot

LEMMA CrashBus ==
  ASSUME BusInv, Crash
  PROVE  BusInv'
<1>1. /\ daemon' = "scan" /\ subs' = <<>> /\ next_id' = 1 /\ writes' = {} /\ stored' = stored
      /\ fired' = fired /\ task' = [w \in Workers |-> Idle]
      /\ unsure' = unsure \cup {m.sub.serial : m \in writes}
  BY DEF Crash
<1>2. Known' \subseteq Known
  BY <1>1 DEF Known
<1>3. Sub' = Sub /\ Len(fired) \in Nat
  BY <1>1 DEF Sub, BusInv, BusShape
<1>4. BusShape'
  <2>1. \A m \in writes : m.sub.serial \in 1..Len(fired)
    BY DEF BusInv, BusShape, Sub
  <2>2. unsure' \subseteq 1..Len(fired)
    BY <1>1, <2>1 DEF BusInv, BusShape
  <2>3. subs' \in [DOMAIN subs' -> Sub'] /\ DOMAIN subs' = {}
    BY <1>1
  <2> QED
    BY <1>1, <1>3, <2>2, <2>3 DEF BusInv, BusShape
<1>5. OneId' /\ KnownOnce' /\ BelowNext' /\ Restarting'
  BY <1>1, <1>2 DEF BusInv, OneId, KnownOnce, BelowNext, Restarting, Idle
<1>6. NotYet'
  <2>1. ASSUME NEW i \in DOMAIN stored PROVE Unfired(stored[i], fired', unsure')
    <3>1. CASE Unfired(stored[i], fired, unsure)
      BY <1>1, <3>1 DEF Unfired
    <3>2. ASSUME NEW m \in writes, m.id = i PROVE Unfired(stored[i], fired', unsure')
      <4>1. PICK k, l : k = <<i, stored[i]>> /\ l = <<m.id, m.sub>>
        OBVIOUS
      <4>2. k \in Known /\ l \in Known /\ k[1] = l[1] /\ k[2] = stored[i] /\ l[2] = m.sub
        BY <3>2, <4>1, KnownCases
      <4>3. stored[i] = m.sub
        BY <4>2 DEF BusInv, OneId
      <4> QED
        BY <1>1, <4>3 DEF Unfired
    <3> QED
      BY <3>1, <3>2 DEF BusInv, NotYet
  <2> QED
    BY <1>1, <2>1 DEF NotYet
<1>7. WritesCurrent' /\ MirrorAgrees' /\ OnceFiresOnce'
  BY <1>1 DEF BusInv, WritesCurrent, MirrorAgrees, OnceFiresOnce
<1> QED
  BY <1>4, <1>5, <1>6, <1>7 DEF BusInv
-----------------------------------------------------------------------------
LEMMA InitBus == Init => BusInv
<1> SUFFICES ASSUME Init PROVE BusInv
  OBVIOUS
<1>1. Known = {}
  BY DEF Init, Known
<1>2. BusShape
  BY DEF Init, BusShape
<1> QED
  BY <1>1, <1>2 DEF Init, Idle, BusInv, OneId, KnownOnce, BelowNext, Restarting, NotYet, WritesCurrent,
     MirrorAgrees, OnceFiresOnce

LEMMA StepBus == BusInv /\ [Next]_vars => BusInv'
<1> SUFFICES ASSUME BusInv, [Next]_vars PROVE BusInv'
  OBVIOUS
<1>1. CASE AgentNext
  BY <1>1, AgentNextBus
<1>2. ASSUME NEW w \in Workers, BusStep(w), UNCHANGED <<agentVars, stored, mixed>> PROVE BusInv'
  BY <1>2, SubscribeEventBus, SubscribeBus, UnsubscribeBus, PublishBus DEF BusStep
<1>3. CASE \E m \in writes : Mirror(m)
  BY <1>3, MirrorBus
<1>4. CASE Boot
  BY <1>4, BootBus
<1>5. CASE Crash
  BY <1>5, CrashBus
<1>6. CASE UNCHANGED vars
  BY <1>6, BusStays DEF vars, busVars, BusInv, Restarting
<1> QED
  BY <1>1, <1>2, <1>3, <1>4, <1>5, <1>6 DEF Next, BusNext

(* Once its writes are done, a subscription is stored if and only if the   *)
(* bus serves it, whatever was subscribed, published and lost in between   *)
(* (EventBus::mirror): for every number of tasks, sources and restarts.    *)
THEOREM MirrorCorrect == Spec => []MirrorAgrees
<1>1. BusInv => MirrorAgrees
  BY DEF BusInv
<1> QED
  BY <1>1, InitBus, StepBus, PTL DEF Spec

(* A once subscription whose writes were neither crossed nor cut off fires *)
(* at most once over all the lives of the daemon (EventBus::publish and    *)
(* EventBus::load).                                                        *)
THEOREM OnceCorrect == Spec => []OnceFiresOnce
<1>1. BusInv => OnceFiresOnce
  BY DEF BusInv
<1> QED
  BY <1>1, InitBus, StepBus, PTL DEF Spec
-----------------------------------------------------------------------------
(* The names                                                               *)

Request == [pc : Points, id : 0..minted, name : Names, old : Names, found : 0..minted]

LEMMA ClaimCases ==
  ASSUME NEW id
  PROVE  /\ FoundBy(id) \subseteq Claims(id)
         /\ \A w \in Workers : task[w].id = id /\ task[w].pc \notin {"idle", "exists"}
                               => task[w].name \in Claims(id) /\ task[w].old \in Claims(id)
BY DEF FoundBy, Claims

(* A clean agent has no claim on a name that another one works with.       *)
LEMMA NotMine ==
  ASSUME AgentInv, NEW id \in 1..minted, Clean(id), NEW w \in Workers,
         task[w].pc \notin {"idle", "exists", "subscribe"}, task[w].id # id
  PROVE  task[w].name \notin FoundBy(id) /\ task[w].old \notin FoundBy(id)
<1>1. task[w].id \in 1..minted
  BY DEF AgentInv, Requests
<1>2. id \notin Shared
  BY DEF AgentInv, Clean
<1>3. Claims(id) \cap Claims(task[w].id) = {}
  BY <1>1, <1>2 DEF Shared
<1> QED
  BY <1>3, ClaimCases

(* A request that moves leaves the agents it does not work on alone.       *)
LEMMA TaskMoves ==
  ASSUME AgentInv, NEW w \in Workers, NEW t \in Request', NEW j,
         daemon = "up", daemon' = "up", crashes' = crashes, ops' \in 0..MaxOps,
         task' = [task EXCEPT ![w] = t],
         task[w].pc # "idle" => task[w].id = j,
         t.pc # "idle" => t.id = j,
         t.pc \notin {"idle", "subscribe"} => j \in 1..minted',
         t.pc = "subscribe" => j = 0,
         AgentTypes', minted' = minted \/ (minted' = minted + 1 /\ j = minted'),
         mixed \subseteq mixed', mixed' \subseteq 1..minted', shared' = shared \cup Shared',
         \A id \in 1..minted : id # j /\ Clean(id)' =>
           FoundBy(id)' = FoundBy(id) /\ NameOf(id)' = NameOf(id),
         j \in 1..minted' /\ Clean(j)' =>
           /\ \A v \in Workers : v # w => ~WorksOn(v, j)
           /\ IF t.pc = "idle" THEN FoundBy(j)' = NameOf(j)'
              ELSE AtPoint(FoundBy(j)', NameOf(j)', t)
  PROVE  AgentInv'
<1>0. /\ minted \in Nat /\ 1..minted \subseteq 1..minted' /\ 0..minted \subseteq 0..minted'
      /\ task \in [Workers -> Request]
  BY DEF AgentInv, AgentTypes, TaskTypes, Request
<1>1. /\ task'[w] = t /\ \A v \in Workers : v # w => task'[v] = task[v]
      /\ task' \in [Workers -> Request']
  <2>1. Request \subseteq Request'
    BY <1>0 DEF Request
  <2> QED
    BY <1>0, <2>1
<1>2. AgentTypes' /\ TaskTypes' /\ mixed' \subseteq 1..minted' /\ shared' \subseteq 1..minted'
  <2>1. TaskTypes'
    BY <1>1 DEF AgentInv, TaskTypes, Request
  <2>2. Shared' \subseteq 1..minted'
    BY DEF Shared
  <2> QED
    BY <1>0, <2>1, <2>2 DEF AgentInv
<1>3. Requests'
  BY <1>0, <1>1 DEF AgentInv, Requests
<1>4. Scaffolding' /\ Idled' /\ Shared' \subseteq shared'
  BY DEF Scaffolding, Idled
<1>5. ASSUME NEW id \in 1..minted', Clean(id)' PROVE Served(id)' /\ Settled(id)'
  <2>1. \A v \in Workers : WorksOn(v, id)' <=> task'[v].pc # "idle" /\ task'[v].id = id
    BY DEF WorksOn
  <2>2. Clean(id)
    BY <1>5 DEF Clean
  <2>3. CASE id = j
    <3>1. \A v \in Workers : WorksOn(v, id)' => v = w
      BY <1>1, <1>5, <2>1, <2>3 DEF WorksOn
    <3>2. t.pc # "idle" => AtPoint(FoundBy(id)', NameOf(id)', t)
      BY <1>5, <2>3
    <3>3. Served(id)'
      BY <1>1, <2>1, <3>1, <3>2 DEF Served, WorksOn
    <3>4. Settled(id)'
      <4>1. CASE t.pc = "idle"
        BY <1>5, <2>3, <4>1 DEF Settled
      <4>2. CASE t.pc # "idle"
        BY <1>1, <2>3, <4>2 DEF Settled, Busy
      <4> QED
        BY <4>1, <4>2
    <3> QED
      BY <3>3, <3>4
  <2>4. CASE id # j
    <3>1. id \in 1..minted
      BY <1>0, <2>4
    <3>2. FoundBy(id)' = FoundBy(id) /\ NameOf(id)' = NameOf(id) /\ Served(id) /\ Settled(id)
      BY <1>5, <2>2, <2>4, <3>1 DEF AgentInv
    <3>3. \A v \in Workers : (WorksOn(v, id)' <=> WorksOn(v, id)) /\ (WorksOn(v, id) => v # w)
      BY <1>1, <2>1, <2>4 DEF WorksOn
    <3>4. Served(id)'
      BY <1>1, <3>2, <3>3 DEF Served
    <3>5. Busy(id)' <=> Busy(id)
      BY <3>3 DEF Busy, WorksOn
    <3> QED
      BY <3>2, <3>4, <3>5 DEF Settled
  <2> QED
    BY <2>3, <2>4
<1> QED
  BY <1>2, <1>3, <1>4, <1>5 DEF AgentInv

(* How the maps change.                                                    *)
LEMMA PutIdx ==
  ASSUME NEW n, NEW j, idx' = Put(idx, n, j), NEW id
  PROVE  /\ DOMAIN idx' = DOMAIN idx \cup {n}
         /\ id = j => FoundBy(id)' = FoundBy(id) \cup {n}
         /\ id # j => FoundBy(id)' = FoundBy(id) \ {n}
BY DEF Put, FoundBy

LEMMA DropIdx ==
  ASSUME NEW n, idx' = Without(idx, {n}), NEW id
  PROVE  FoundBy(id)' = FoundBy(id) \ {n} /\ DOMAIN idx' = DOMAIN idx \ {n}
BY DEF Without, Restrict, FoundBy

LEMMA PutContent ==
  ASSUME NEW n, NEW j, content' = Put(content, j, n), NEW id
  PROVE  NameOf(id)' = IF id = j THEN {n} ELSE NameOf(id)
BY DEF Put, NameOf

LEMMA DropContent ==
  ASSUME NEW j, content' = Without(content, {j}), NEW id
  PROVE  NameOf(id)' = IF id = j THEN {} ELSE NameOf(id)
BY DEF Without, Restrict, NameOf

LEMMA SameMaps ==
  ASSUME NEW id
  PROVE  (idx' = idx => FoundBy(id)' = FoundBy(id)) /\ (content' = content => NameOf(id)' = NameOf(id))
BY DEF FoundBy, NameOf

LEMMA MapTypes ==
  ASSUME AgentTypes, minted' = minted \/ minted' = minted + 1, default' = default,
         \/ content' = content
         \/ \E j \in 1..minted', n \in Names : content' = Put(content, j, n)
         \/ \E j : content' = Without(content, {j}),
         \/ idx' = idx
         \/ \E n \in Names, j \in 1..minted' : idx' = Put(idx, n, j)
         \/ \E n : idx' = Without(idx, {n})
  PROVE  AgentTypes'
<1>0. minted \in Nat /\ minted' \in Nat /\ 1..minted \subseteq 1..minted' /\ default' \in 0..minted'
  BY DEF AgentTypes
<1>1. DOMAIN content' \subseteq 1..minted' /\ Range(content') \subseteq Names
  <2>0. DOMAIN content \subseteq 1..minted /\ \A i \in DOMAIN content : content[i] \in Names
    BY DEF AgentTypes, Range
  <2>1. CASE content' = content
    BY <1>0, <2>1 DEF AgentTypes
  <2>2. ASSUME NEW j \in 1..minted', NEW n \in Names, content' = Put(content, j, n)
        PROVE  DOMAIN content' \subseteq 1..minted' /\ Range(content') \subseteq Names
    BY <1>0, <2>0, <2>2 DEF Put, Range
  <2>3. ASSUME NEW j, content' = Without(content, {j})
        PROVE  DOMAIN content' \subseteq 1..minted' /\ Range(content') \subseteq Names
    BY <1>0, <2>0, <2>3 DEF Without, Restrict, Range
  <2> QED
    BY <2>1, <2>2, <2>3
<1>2. DOMAIN idx' \subseteq Names /\ Range(idx') \subseteq 1..minted'
  <2>0. DOMAIN idx \subseteq Names /\ \A n \in DOMAIN idx : idx[n] \in 1..minted
    BY DEF AgentTypes, Range
  <2>1. CASE idx' = idx
    BY <1>0, <2>1 DEF AgentTypes
  <2>2. ASSUME NEW n \in Names, NEW j \in 1..minted', idx' = Put(idx, n, j)
        PROVE  DOMAIN idx' \subseteq Names /\ Range(idx') \subseteq 1..minted'
    <3>1. /\ DOMAIN idx' = DOMAIN idx \cup {n}
          /\ \A x \in DOMAIN idx' : idx'[x] = j \/ (idx'[x] = idx[x] /\ x \in DOMAIN idx)
      BY <2>2 DEF Put
    <3>2. \A x \in DOMAIN idx' : idx'[x] \in 1..minted'
      BY <1>0, <2>0, <3>1
    <3> QED
      BY <2>0, <3>1, <3>2 DEF Range
  <2>3. ASSUME NEW n, idx' = Without(idx, {n})
        PROVE  DOMAIN idx' \subseteq Names /\ Range(idx') \subseteq 1..minted'
    BY <1>0, <2>0, <2>3 DEF Without, Restrict, Range
  <2> QED
    BY <2>1, <2>2, <2>3
<1> QED
  BY <1>0, <1>1, <1>2 DEF AgentTypes

LEMMA TaskAt ==
  ASSUME AgentInv, NEW w \in Workers
  PROVE  /\ task \in [Workers -> Request] /\ task[w] \in Request
         /\ task[w].name \in Names /\ task[w].old \in Names /\ minted \in Nat
         /\ task[w].pc \notin {"idle", "subscribe"} => task[w].id \in 1..minted
BY DEF AgentInv, AgentTypes, TaskTypes, Request, Requests

LEMMA IdleRequest == minted \in Nat => Idle \in Request /\ Idle.pc = "idle"
BY NamesAssumption DEF Idle, Request, Points

LEMMA GotoMoves ==
  ASSUME AgentInv, NEW w \in Workers, NEW where \in Points, Goto(w, where)
  PROVE  \E t \in Request : /\ task' = [task EXCEPT ![w] = t] /\ t.pc = where
                            /\ t.id = task[w].id /\ t.name = task[w].name /\ t.old = task[w].old
<1>1. task[w] \in Request
  BY TaskAt
<1>2. PICK t : t = [task[w] EXCEPT !.pc = where]
  OBVIOUS
<1>3. t \in Request /\ t.pc = where /\ t.id = task[w].id /\ t.name = task[w].name /\ t.old = task[w].old
  BY <1>1, <1>2 DEF Request
<1>4. task' = [task EXCEPT ![w] = t]
  BY <1>2 DEF Goto
<1> QED
  BY <1>3, <1>4

(* One step of a request that is under way.                                *)
LEMMA StepMoves ==
  ASSUME AgentInv, NEW w \in Workers, NEW t \in Request, NEW j, task[w].id = j,
         task[w].pc \notin {"idle", "subscribe"}, task' = [task EXCEPT ![w] = t],
         t.pc # "idle" => t.id = j, t.pc # "subscribe",
         Quiet, minted' = minted, mixed' = mixed, shared' = shared \cup Shared', AgentTypes',
         \A id \in 1..minted : id # j /\ Clean(id) =>
           FoundBy(id)' = FoundBy(id) /\ NameOf(id)' = NameOf(id),
         AtPoint(FoundBy(j), NameOf(j), task[w]) =>
           IF t.pc = "idle" THEN FoundBy(j)' = NameOf(j)'
           ELSE AtPoint(FoundBy(j)', NameOf(j)', t)
  PROVE  AgentInv'
<1>1. j \in 1..minted /\ minted \in Nat
  BY TaskAt
<1>2. daemon = "up" /\ daemon' = "up" /\ crashes' = crashes /\ ops' \in 0..MaxOps
  BY DEF AgentInv, Idled, Quiet, TaskTypes
<1>3. \A id : Clean(id)' => Clean(id)
  BY DEF Clean
<1>4. mixed \subseteq mixed' /\ mixed' \subseteq 1..minted'
  BY DEF AgentInv
<1>5. ASSUME Clean(j)'
      PROVE  /\ \A v \in Workers : v # w => ~WorksOn(v, j)
             /\ IF t.pc = "idle" THEN FoundBy(j)' = NameOf(j)'
                ELSE AtPoint(FoundBy(j)', NameOf(j)', t)
  <2>1. Served(j)
    BY <1>1, <1>3, <1>5 DEF AgentInv
  <2>2. WorksOn(w, j)
    BY DEF WorksOn
  <2> QED
    BY <2>1, <2>2 DEF Served
<1>6. t \in Request'
  BY DEF Request
<1>7. \A id \in 1..minted : id # j /\ Clean(id)' =>
           FoundBy(id)' = FoundBy(id) /\ NameOf(id)' = NameOf(id)
  BY <1>3
<1> QED
  BY <1>1, <1>2, <1>4, <1>5, <1>6, <1>7, TaskMoves

(* A request that begins: an agent that another one works on is mixed.     *)
LEMMA BeginMoves ==
  ASSUME AgentInv, NEW w \in Workers, NEW t \in Request', NEW j, Begin(w), NEW S,
         task' = [task EXCEPT ![w] = t], t.id = j, t.pc \notin {"idle", "subscribe"},
         j \in 1..minted', UNCHANGED <<content, idx, default>>,
         minted' = minted \/ (minted' = minted + 1 /\ j = minted'),
         mixed' = mixed \cup S, S \subseteq {j}, shared' = shared \cup Shared',
         Busy(j) => j \in S,
         j \notin S /\ FoundBy(j) = NameOf(j) => AtPoint(FoundBy(j), NameOf(j), t)
  PROVE  AgentInv'
<1>1. minted \in Nat /\ AgentTypes
  BY TaskAt DEF AgentInv
<1>2. AgentTypes'
  BY <1>1, MapTypes
<1>3. daemon = "up" /\ daemon' = "up" /\ crashes' = crashes /\ ops' \in 0..MaxOps /\ task[w].pc = "idle"
  BY BoundsAssumption DEF AgentInv, Begin, TaskTypes
<1>4. mixed \subseteq mixed' /\ mixed' \subseteq 1..minted'
  BY <1>1 DEF AgentInv
<1>5. \A id : FoundBy(id)' = FoundBy(id) /\ NameOf(id)' = NameOf(id)
  BY SameMaps
<1>6. ASSUME Clean(j)'
      PROVE  (\A v \in Workers : v # w => ~WorksOn(v, j)) /\ AtPoint(FoundBy(j)', NameOf(j)', t)
  <2>1. j \notin S /\ ~Busy(j) /\ Clean(j)
    BY <1>6 DEF Clean
  <2>2. FoundBy(j) = NameOf(j)
    <3>1. CASE j \in 1..minted
      BY <1>3, <2>1, <3>1 DEF AgentInv, Settled
    <3>2. CASE j \notin 1..minted
      <4>1. \A n \in DOMAIN idx : idx[n] # j
        BY <1>1, <3>2 DEF AgentTypes, Range
      <4>2. j \notin DOMAIN content
        BY <1>1, <3>2 DEF AgentTypes
      <4> QED
        BY <4>1, <4>2 DEF FoundBy, NameOf
    <3> QED
      BY <3>1, <3>2
  <2> QED
    BY <1>5, <2>1, <2>2 DEF Busy, WorksOn
<1> QED
  BY <1>2, <1>3, <1>4, <1>5, <1>6, TaskMoves

LEMMA NameOfStored ==
  ASSUME NEW id
  PROVE  NameOf(id) = IF id \in DOMAIN content THEN {content[id]} ELSE {}
BY DEF NameOf

LEMMA RequestAgent ==
  ASSUME AgentInv, NEW w \in Workers, AgentRequest(w), shared' = shared \cup Shared'
  PROVE  AgentInv'
<1>0. minted \in Nat /\ AgentTypes
  BY TaskAt DEF AgentInv
<1>n. \A i \in DOMAIN content : content[i] \in Names
  BY <1>0 DEF AgentTypes, Range
<1>1. ASSUME NEW n \in Names, CreateAgent(w, n) PROVE AgentInv'
  <2>1. PICK t : t = [pc |-> IF n \in DOMAIN idx THEN "exists" ELSE "upsert", id |-> minted', name |-> n,
                      old |-> n, found |-> IF n \in DOMAIN idx THEN idx[n] ELSE 0]
    OBVIOUS
  <2>2. /\ t.pc = (IF n \in DOMAIN idx THEN "exists" ELSE "upsert") /\ t.id = minted' /\ t.name = n
        /\ task' = [task EXCEPT ![w] = t]
        /\ Begin(w) /\ minted' = minted + 1 /\ UNCHANGED <<content, idx, default, mixed>>
    BY <1>1, <2>1 DEF CreateAgent
  <2>3. t \in Request'
    <3>1. (IF n \in DOMAIN idx THEN idx[n] ELSE 0) \in 0..minted'
      <4>1. n \in DOMAIN idx => idx[n] \in 1..minted
        BY <1>0 DEF AgentTypes, Range
      <4> QED
        BY <1>0, <2>2, <4>1
    <3>2. minted' \in 0..minted'
      BY <1>0, <2>2
    <3> QED
      BY <2>1, <3>1, <3>2 DEF Request, Points
  <2>4. PICK j : j = minted'
    OBVIOUS
  <2>5. NameOf(j) = {} /\ FoundBy(j) = {} /\ ~Busy(j)
    <3>1. \A v \in Workers : task[v].id \in 0..minted
      BY TaskAt DEF Request
    <3>2. j \notin 0..minted
      BY <1>0, <2>2, <2>4
    <3>3. j \notin DOMAIN content /\ \A x \in DOMAIN idx : idx[x] # j
      BY <1>0, <3>2 DEF AgentTypes, Range
    <3> QED
      BY <3>1, <3>2, <3>3 DEF NameOf, FoundBy, Busy
  <2>6. AtPoint(FoundBy(j), NameOf(j), t)
    BY <2>2, <2>5 DEF AtPoint
  <2>7. j \in 1..minted' /\ mixed' = mixed \cup {}
    BY <1>0, <2>2, <2>4
  <2> QED
    BY <2>2, <2>3, <2>4, <2>5, <2>6, <2>7, BeginMoves
<1>2. ASSUME NEW id \in 1..minted, UpdateAgent(w, id) PROVE AgentInv'
  <2>1. PICK t, S : /\ t = [pc |-> "upsert", id |-> id, name |-> content[id], old |-> content[id], found |-> 0]
                    /\ S = IF Busy(id) THEN {id} ELSE {}
    OBVIOUS
  <2>2. /\ t.pc = "upsert" /\ t.id = id /\ t.name = content[id] /\ task' = [task EXCEPT ![w] = t]
        /\ Begin(w) /\ UNCHANGED <<content, idx, default, minted>> /\ mixed' = mixed \cup S
        /\ id \in DOMAIN content
    BY <1>2, <2>1 DEF UpdateAgent, Enter
  <2>3. t \in Request'
    BY <1>0, <1>n, <2>1, <2>2 DEF Request, Points
  <2>4. FoundBy(id) = NameOf(id) => AtPoint(FoundBy(id), NameOf(id), t)
    BY <2>2, NameOfStored DEF AtPoint
  <2>5. S \subseteq {id} /\ (Busy(id) => id \in S)
    BY <2>1
  <2> QED
    BY <2>2, <2>3, <2>4, <2>5, BeginMoves
<1>3. ASSUME NEW id \in 1..minted, DeleteAgent(w, id) PROVE AgentInv'
  <2>1. PICK t, S : /\ t = IF id \in DOMAIN content
                           THEN [pc |-> "de_unname", id |-> id, name |-> content[id], old |-> content[id],
                                 found |-> 0]
                           ELSE [pc |-> "de_content", id |-> id, name |-> Crab, old |-> Crab, found |-> 0]
                    /\ S = IF Busy(id) THEN {id} ELSE {}
    OBVIOUS
  <2>2. /\ task' = [task EXCEPT ![w] = t]
        /\ Begin(w) /\ UNCHANGED <<content, idx, default, minted>> /\ mixed' = mixed \cup S
    BY <1>3, <2>1 DEF DeleteAgent, Enter
  <2>3. t \in Request'
    BY <1>0, <1>n, <2>1, <2>2, NamesAssumption DEF Request, Points
  <2>4. /\ t.id = id
        /\ id \in DOMAIN content => t.pc = "de_unname" /\ t.name = content[id]
        /\ id \notin DOMAIN content => t.pc = "de_content"
    BY <2>1
  <2>5. FoundBy(id) = NameOf(id) => AtPoint(FoundBy(id), NameOf(id), t)
    BY <2>4, NameOfStored DEF AtPoint
  <2>6. S \subseteq {id} /\ (Busy(id) => id \in S) /\ t.pc \notin {"idle", "subscribe"}
    BY <2>1, <2>4
  <2> QED
    BY <2>2, <2>3, <2>4, <2>5, <2>6, BeginMoves
<1>4. ASSUME NEW id \in 1..minted, NEW n \in Names, RenameAgent(w, id, n) PROVE AgentInv'
  <2>1. PICK t, S : /\ t = [pc |-> "re_put", id |-> id, name |-> n, old |-> content[id], found |-> 0]
                    /\ S = IF Busy(id) \/ content[id] = n THEN {id} ELSE {}
    OBVIOUS
  <2>2. /\ t.pc = "re_put" /\ t.id = id /\ t.name = n /\ t.old = content[id]
        /\ task' = [task EXCEPT ![w] = t]
        /\ Begin(w) /\ UNCHANGED <<content, idx, default, minted>> /\ mixed' = mixed \cup S
        /\ id \in DOMAIN content
    BY <1>4, <2>1 DEF RenameAgent, Enter
  <2>3. t \in Request'
    BY <1>0, <1>n, <2>1, <2>2 DEF Request, Points
  <2>4. S \subseteq {id} /\ (Busy(id) => id \in S) /\ (id \notin S => content[id] # n)
    BY <2>1
  <2>5. id \notin S /\ FoundBy(id) = NameOf(id) => AtPoint(FoundBy(id), NameOf(id), t)
    BY <2>2, <2>4, NameOfStored DEF AtPoint
  <2> QED
    BY <2>2, <2>3, <2>4, <2>5, BeginMoves
<1> QED
  BY <1>1, <1>2, <1>3, <1>4 DEF AgentRequest

LEMMA StepAgent ==
  ASSUME AgentInv, NEW w \in Workers, AgentStep(w), shared' = shared \cup Shared'
  PROVE  AgentInv'
<1>0. /\ minted \in Nat /\ AgentTypes /\ task[w].name \in Names /\ task[w].old \in Names
      /\ Idle \in Request /\ Idle.pc = "idle"
  BY TaskAt, IdleRequest DEF AgentInv
<1>1. task[w].pc \notin {"idle", "subscribe"}
  BY DEF AgentStep, AgentExists, UpsertLoad, UpsertUnname, UpsertPut, UpsertName, DeleteUnname,
     DeleteContent, RenamePut, RenameName, RenameUnname
<1>2. Quiet /\ minted' = minted /\ mixed' = mixed /\ default' = default
  BY DEF AgentStep, AgentExists, UpsertLoad, UpsertUnname, UpsertPut, UpsertName, DeleteUnname,
     DeleteContent, RenamePut, RenameName, RenameUnname
<1>3. PICK j, n, o : j = task[w].id /\ n = task[w].name /\ o = task[w].old
  OBVIOUS
<1>4. j \in 1..minted /\ j \in 1..minted' /\ n \in Names /\ o \in Names
  BY <1>0, <1>1, <1>2, <1>3, TaskAt
<1>5. ASSUME task[w].pc # "exists", NEW id \in 1..minted, id # j, Clean(id)
      PROVE  n \notin FoundBy(id) /\ o \notin FoundBy(id)
  BY <1>1, <1>3, <1>5, NotMine
<1>6. CASE AgentExists(w)
  <2>1. task[w].pc = "exists" /\ UNCHANGED <<content, idx>>
    BY <1>6 DEF AgentExists
  <2>2. AgentTypes' /\ \A id : FoundBy(id)' = FoundBy(id) /\ NameOf(id)' = NameOf(id)
    BY <1>0, <1>2, <2>1, MapTypes, SameMaps
  <2>3. AtPoint(FoundBy(j), NameOf(j), task[w]) => FoundBy(j) = {} /\ NameOf(j) = {}
    BY <2>1 DEF AtPoint
  <2>4. PICK t \in Request : /\ task' = [task EXCEPT ![w] = t]
                             /\ t.pc = "idle" \/ (t.pc = "upsert" /\ t.id = j)
    BY <1>0, <1>3, <1>6, GotoMoves DEF AgentExists, Finish, Points
  <2>5. FoundBy(j) = {} /\ NameOf(j) = {} /\ t.pc = "upsert" => AtPoint(FoundBy(j)', NameOf(j)', t)
    BY <2>2 DEF AtPoint
  <2> QED
    BY <1>1, <1>2, <1>3, <2>2, <2>3, <2>4, <2>5, StepMoves
<1>7. CASE UpsertLoad(w)
  <2>1. task[w].pc = "upsert" /\ UNCHANGED <<content, idx>>
    BY <1>7 DEF UpsertLoad
  <2>2. AgentTypes' /\ \A id : FoundBy(id)' = FoundBy(id) /\ NameOf(id)' = NameOf(id)
    BY <1>0, <1>2, <2>1, MapTypes, SameMaps
  <2>3. PICK r, t : /\ r = (j \in DOMAIN content /\ content[j] # n)
                    /\ t = [pc |-> IF r THEN "up_unname" ELSE "up_put", id |-> j, name |-> n,
                            old |-> IF r THEN content[j] ELSE n, found |-> 0]
    OBVIOUS
  <2>4. task' = [task EXCEPT ![w] = t]
    BY <1>3, <1>7, <2>3 DEF UpsertLoad, Enter
  <2>5. t.pc = (IF r THEN "up_unname" ELSE "up_put") /\ t.id = j /\ t.name = n
    BY <2>3
  <2>6. t \in Request
    <3>1. (IF r THEN content[j] ELSE n) \in Names
      BY <1>0, <1>4, <2>3 DEF AgentTypes, Range
    <3>2. (IF r THEN "up_unname" ELSE "up_put") \in Points
      BY DEF Points
    <3>3. j \in 0..minted /\ 0 \in 0..minted
      BY <1>0, <1>4
    <3> QED
      BY <1>4, <2>3, <3>1, <3>2, <3>3 DEF Request
  <2>7. AtPoint(FoundBy(j), NameOf(j), task[w]) => AtPoint(FoundBy(j)', NameOf(j)', t)
    <3>1. NameOf(j) \subseteq {n} => ~r
      BY <2>3, NameOfStored
    <3>2. ~r => t.pc = "up_put"
      BY <2>5
    <3> QED
      BY <1>3, <2>1, <2>2, <2>5, <3>1, <3>2 DEF AtPoint
  <2>8. t.pc # "subscribe" /\ t.pc # "idle"
    BY <2>5
  <2> QED
    BY <1>1, <1>2, <1>3, <2>2, <2>4, <2>5, <2>6, <2>7, <2>8, StepMoves
<1>8. CASE UpsertUnname(w)
  <2>1. task[w].pc = "up_unname" /\ content' = content /\ idx' = Without(idx, {o}) /\ Goto(w, "up_put")
    BY <1>3, <1>8 DEF UpsertUnname
  <2>2. AgentTypes' /\ \A id : FoundBy(id)' = FoundBy(id) \ {o} /\ NameOf(id)' = NameOf(id)
    BY <1>0, <1>2, <2>1, MapTypes, DropIdx, SameMaps
  <2>3. PICK t \in Request : task' = [task EXCEPT ![w] = t] /\ t.pc = "up_put" /\ t.id = j
    BY <1>3, <2>1, GotoMoves DEF Points
  <2>4. ~AtPoint(FoundBy(j), NameOf(j), task[w])
    BY <2>1 DEF AtPoint
  <2>5. \A id \in 1..minted : id # j /\ Clean(id) =>
          FoundBy(id)' = FoundBy(id) /\ NameOf(id)' = NameOf(id)
    BY <1>5, <2>1, <2>2
  <2> QED
    BY <1>1, <1>2, <1>3, <2>2, <2>3, <2>4, <2>5, StepMoves
<1>9. CASE UpsertPut(w) \/ RenamePut(w)
  <2>1. /\ content' = Put(content, j, n) /\ idx' = idx
        /\ \/ task[w].pc = "up_put" /\ Goto(w, "up_name")
           \/ task[w].pc = "re_put" /\ Goto(w, "re_name")
    BY <1>3, <1>9 DEF UpsertPut, RenamePut
  <2>2. AgentTypes' /\ \A id : FoundBy(id)' = FoundBy(id)
    BY <1>0, <1>2, <1>4, <2>1, MapTypes, SameMaps
  <2>3. \A id : NameOf(id)' = IF id = j THEN {n} ELSE NameOf(id)
    BY <2>1, PutContent
  <2>4. PICK t \in Request :
          /\ task' = [task EXCEPT ![w] = t] /\ t.id = j /\ t.name = n /\ t.old = o
          /\ \/ task[w].pc = "up_put" /\ t.pc = "up_name"
             \/ task[w].pc = "re_put" /\ t.pc = "re_name"
    BY <1>3, <2>1, GotoMoves DEF Points
  <2>5. AtPoint(FoundBy(j), NameOf(j), task[w]) => AtPoint(FoundBy(j)', NameOf(j)', t)
    BY <1>3, <2>2, <2>3, <2>4 DEF AtPoint
  <2>6. t.pc # "subscribe" /\ t.pc # "idle"
    BY <2>4
  <2> QED
    BY <1>1, <1>2, <1>3, <2>2, <2>3, <2>4, <2>5, <2>6, StepMoves
<1>10. CASE UpsertName(w) \/ RenameName(w)
  <2>1. /\ content' = content /\ idx' = Put(idx, n, j)
        /\ \/ task[w].pc = "up_name" /\ Finish(w)
           \/ task[w].pc = "re_name" /\ Goto(w, "re_unname")
    BY <1>3, <1>10 DEF UpsertName, RenameName
  <2>2. AgentTypes' /\ \A id : NameOf(id)' = NameOf(id)
    BY <1>0, <1>2, <1>4, <2>1, MapTypes, SameMaps
  <2>3. /\ FoundBy(j)' = FoundBy(j) \cup {n}
        /\ \A id : id # j => FoundBy(id)' = FoundBy(id) \ {n}
    BY <2>1, PutIdx
  <2>4. PICK t \in Request :
          /\ task' = [task EXCEPT ![w] = t]
          /\ \/ task[w].pc = "up_name" /\ t.pc = "idle"
             \/ task[w].pc = "re_name" /\ t.pc = "re_unname" /\ t.id = j /\ t.name = n /\ t.old = o
    BY <1>0, <1>3, <2>1, GotoMoves DEF Points, Finish
  <2>5. ASSUME AtPoint(FoundBy(j), NameOf(j), task[w])
        PROVE  IF t.pc = "idle" THEN FoundBy(j)' = NameOf(j)' ELSE AtPoint(FoundBy(j)', NameOf(j)', t)
    BY <1>3, <2>2, <2>3, <2>4, <2>5 DEF AtPoint
  <2>6. \A id \in 1..minted : id # j /\ Clean(id) =>
          FoundBy(id)' = FoundBy(id) /\ NameOf(id)' = NameOf(id)
    BY <1>5, <2>1, <2>2, <2>3
  <2>7. t.pc # "subscribe" /\ (t.pc # "idle" => t.id = j)
    BY <2>4
  <2> QED
    BY <1>1, <1>2, <1>3, <2>2, <2>4, <2>5, <2>6, <2>7, StepMoves
<1>11. CASE DeleteUnname(w)
  <2>1. task[w].pc = "de_unname" /\ content' = content /\ idx' = Without(idx, {n}) /\ Goto(w, "de_content")
    BY <1>3, <1>11 DEF DeleteUnname
  <2>2. AgentTypes' /\ \A id : FoundBy(id)' = FoundBy(id) \ {n} /\ NameOf(id)' = NameOf(id)
    BY <1>0, <1>2, <2>1, MapTypes, DropIdx, SameMaps
  <2>3. PICK t \in Request : task' = [task EXCEPT ![w] = t] /\ t.pc = "de_content" /\ t.id = j
    BY <1>3, <2>1, GotoMoves DEF Points
  <2>4. AtPoint(FoundBy(j), NameOf(j), task[w]) => AtPoint(FoundBy(j)', NameOf(j)', t)
    BY <1>3, <2>1, <2>2, <2>3 DEF AtPoint
  <2>5. \A id \in 1..minted : id # j /\ Clean(id) =>
          FoundBy(id)' = FoundBy(id) /\ NameOf(id)' = NameOf(id)
    BY <1>5, <2>1, <2>2
  <2> QED
    BY <1>1, <1>2, <1>3, <2>2, <2>3, <2>4, <2>5, StepMoves
<1>12. CASE DeleteContent(w)
  <2>1. task[w].pc = "de_content" /\ content' = Without(content, {j}) /\ idx' = idx
        /\ task' = [task EXCEPT ![w] = Idle]
    BY <1>3, <1>12 DEF DeleteContent, Finish
  <2>2. AgentTypes' /\ \A id : FoundBy(id)' = FoundBy(id)
    BY <1>0, <1>2, <2>1, MapTypes, SameMaps
  <2>3. \A id : NameOf(id)' = IF id = j THEN {} ELSE NameOf(id)
    BY <2>1, DropContent
  <2>4. AtPoint(FoundBy(j), NameOf(j), task[w]) => FoundBy(j)' = NameOf(j)'
    BY <2>1, <2>2, <2>3 DEF AtPoint
  <2>5. PICK t : t = Idle
    OBVIOUS
  <2> QED
    BY <1>0, <1>1, <1>2, <1>3, <2>1, <2>2, <2>3, <2>4, <2>5, StepMoves
<1>13. CASE RenameUnname(w)
  <2>1. task[w].pc = "re_unname" /\ content' = content /\ idx' = Without(idx, {o})
        /\ task' = [task EXCEPT ![w] = Idle]
    BY <1>3, <1>13 DEF RenameUnname, Finish
  <2>2. AgentTypes' /\ \A id : FoundBy(id)' = FoundBy(id) \ {o} /\ NameOf(id)' = NameOf(id)
    BY <1>0, <1>2, <2>1, MapTypes, DropIdx, SameMaps
  <2>3. AtPoint(FoundBy(j), NameOf(j), task[w]) => FoundBy(j)' = NameOf(j)'
    BY <1>3, <2>1, <2>2 DEF AtPoint
  <2>4. \A id \in 1..minted : id # j /\ Clean(id) =>
          FoundBy(id)' = FoundBy(id) /\ NameOf(id)' = NameOf(id)
    BY <1>5, <2>1, <2>2
  <2>5. PICK t : t = Idle
    OBVIOUS
  <2> QED
    BY <1>0, <1>1, <1>2, <1>3, <2>1, <2>2, <2>3, <2>4, <2>5, StepMoves
<1> QED
  BY <1>6, <1>7, <1>8, <1>9, <1>10, <1>11, <1>12, <1>13 DEF AgentStep

LEMMA AgentStays ==
  ASSUME AgentInv, UNCHANGED <<content, idx, default, minted, daemon, task, crashes, mixed>>,
         ops' \in 0..MaxOps, shared' = shared \cup Shared'
  PROVE  AgentInv'
<1>1. \A id : /\ FoundBy(id)' = FoundBy(id) /\ NameOf(id)' = NameOf(id) /\ (Busy(id)' <=> Busy(id))
              /\ (Clean(id)' => Clean(id))
  BY DEF FoundBy, NameOf, Busy, Clean
<1>2. Shared' \subseteq 1..minted'
  BY DEF Shared
<1>3. \A id : /\ Served(id) => Served(id)'
              /\ Settled(id) => Settled(id)'
  BY <1>1 DEF Served, Settled, WorksOn
<1> QED
  BY <1>1, <1>2, <1>3 DEF AgentInv, AgentTypes, TaskTypes, Requests, Scaffolding, Idled

LEMMA BusStepAgent ==
  ASSUME AgentInv, NEW w \in Workers, BusStep(w), UNCHANGED <<agentVars, stored, mixed>>,
         shared' = shared \cup Shared'
  PROVE  AgentInv'
<1>0. /\ minted \in Nat /\ AgentTypes /\ Idle \in Request /\ Idle.pc = "idle"
      /\ UNCHANGED <<content, idx, default, minted, mixed>>
  BY TaskAt, IdleRequest DEF AgentInv, agentVars
<1>1. AgentTypes' /\ \A id : FoundBy(id)' = FoundBy(id) /\ NameOf(id)' = NameOf(id)
  BY <1>0, MapTypes, SameMaps
<1>2. mixed' \subseteq 1..minted' /\ mixed \subseteq mixed'
  BY <1>0 DEF AgentInv
<1>3. ASSUME NEW id, SubscribeEvent(w, id) PROVE AgentInv'
  <2>1. PICK t : t = [pc |-> "subscribe", id |-> 0, name |-> Crab, old |-> Crab, found |-> 0]
    OBVIOUS
  <2>2. t \in Request' /\ t.pc = "subscribe" /\ t.id = 0
    BY <1>0, <2>1, NamesAssumption DEF Request, Points
  <2>3. /\ daemon = "up" /\ daemon' = "up" /\ crashes' = crashes /\ ops' \in 0..MaxOps
        /\ task[w].pc = "idle" /\ task' = [task EXCEPT ![w] = t]
    BY <1>3, <2>1, BoundsAssumption DEF SubscribeEvent, Begin, Enter, AgentInv, TaskTypes
  <2>4. 0 \notin 1..minted'
    BY <1>0
  <2> QED
    BY <1>0, <1>1, <1>2, <2>2, <2>3, <2>4, TaskMoves
<1>4. ASSUME NEW source, NEW once, Subscribe(w, source, once) PROVE AgentInv'
  <2>1. PICK t : t = Idle
    OBVIOUS
  <2>2. t \in Request' /\ t.pc = "idle"
    BY <1>0, <2>1 DEF Request
  <2>3. /\ crashes' = crashes /\ ops' \in 0..MaxOps /\ daemon' = daemon
        /\ task[w].pc = "subscribe" /\ task' = [task EXCEPT ![w] = t]
    BY <1>4, <2>1 DEF Subscribe, Quiet, Finish, AgentInv, TaskTypes
  <2>4. daemon = "up" /\ daemon' = "up" /\ task[w].id = 0
    BY <2>3 DEF AgentInv, Idled, Requests
  <2>5. 0 \notin 1..minted'
    BY <1>0
  <2> QED
    BY <1>0, <1>1, <1>2, <2>2, <2>3, <2>4, <2>5, TaskMoves
<1>5. ASSUME NEW id, Unsubscribe(w, id) PROVE AgentInv'
  <2>1. UNCHANGED <<daemon, task, crashes>> /\ ops' \in 0..MaxOps
    BY <1>5, BoundsAssumption DEF Unsubscribe, Begin, AgentInv, TaskTypes
  <2> QED
    BY <1>0, <2>1, AgentStays
<1>6. ASSUME NEW source, Publish(w, source) PROVE AgentInv'
  <2>1. UNCHANGED <<daemon, task, crashes>> /\ ops' \in 0..MaxOps
    BY <1>6, BoundsAssumption DEF Publish, Begin, AgentInv, TaskTypes
  <2> QED
    BY <1>0, <2>1, AgentStays
<1> QED
  BY <1>3, <1>4, <1>5, <1>6 DEF BusStep

(* While nothing is served, only the agent that start-up gives an install  *)
(* changes.                                                                *)
LEMMA DownMoves ==
  ASSUME AgentInv, daemon' \in {"scan", "crab", "name", "default", "load", "up"},
         \A w \in Workers : task'[w].pc = "idle", task' \in [Workers -> Request'],
         ops' = ops, crashes' \in 0..MaxCrashes, AgentTypes', minted' >= minted,
         mixed \subseteq mixed', mixed' \subseteq 1..minted', shared' = shared \cup Shared',
         Scaffolding',
         \A id \in 1..minted' : Clean(id)' =>
           IF id = minted' /\ daemon' = "name" THEN FoundBy(id)' = {} /\ NameOf(id)' = {Crab}
           ELSE /\ FoundBy(id)' = NameOf(id)'
                /\ id = minted' /\ daemon' = "crab" => NameOf(id)' = {}
  PROVE  AgentInv'
<1>0. minted \in Nat /\ minted' \in Nat /\ 1..minted \subseteq 1..minted'
  BY DEF AgentInv, AgentTypes
<1>1. TaskTypes'
  BY DEF AgentInv, TaskTypes, Request
<1>2. shared' \subseteq 1..minted'
  <2>1. Shared' \subseteq 1..minted'
    BY DEF Shared
  <2> QED
    BY <1>0, <2>1 DEF AgentInv
<1>3. Requests' /\ Idled'
  BY DEF Requests, Idled
<1>4. ASSUME NEW id \in 1..minted', Clean(id)' PROVE Served(id)' /\ Settled(id)'
  BY <1>4 DEF Served, Settled, WorksOn
<1> QED
  BY <1>1, <1>2, <1>3, <1>4 DEF AgentInv

LEMMA BootAgent ==
  ASSUME AgentInv, Boot, shared' = shared \cup Shared'
  PROVE  AgentInv'
<1>0. /\ minted \in Nat /\ AgentTypes /\ task \in [Workers -> Request] /\ Shared \subseteq shared
      /\ \A i \in DOMAIN content : i \in 1..minted
      /\ \A n \in DOMAIN idx : idx[n] \in 1..minted
      /\ mixed \subseteq 1..minted
  BY DEF AgentInv, AgentTypes, TaskTypes, Request, Range
<1>1. /\ daemon # "up" /\ task' = task /\ ops' = ops /\ crashes' = crashes /\ mixed' = mixed
  BY DEF Boot, BootScan, BootContent, BootName, BootDefault, BootLoad
<1>2. \A w \in Workers : task'[w].pc = "idle"
  BY <1>1 DEF AgentInv, Idled
<1>3. \A id : Clean(id)' => Clean(id)
  BY <1>1 DEF Clean
<1>4. ASSUME NEW id \in 1..minted, Clean(id)
      PROVE  IF id = minted /\ daemon = "name" THEN FoundBy(id) = {} /\ NameOf(id) = {Crab}
             ELSE FoundBy(id) = NameOf(id) /\ (id = minted /\ daemon = "crab" => NameOf(id) = {})
  <2>1. ~Busy(id) /\ Settled(id)
    BY <1>1, <1>4 DEF AgentInv, Idled, Busy
  <2> QED
    BY <2>1 DEF Settled
<1>5. crashes' \in 0..MaxCrashes
  BY <1>1 DEF AgentInv, TaskTypes
<1>6. CASE BootScan
  <2>1. content' = content /\ idx' = idx /\ default' = default /\ daemon = "scan"
    BY <1>6 DEF BootScan
  <2>2. \/ daemon' = "load" /\ minted' = minted
        \/ daemon' = "crab" /\ minted' = minted + 1 /\ idx = <<>>
    BY <1>6 DEF BootScan
  <2>3. AgentTypes' /\ \A id : FoundBy(id)' = FoundBy(id) /\ NameOf(id)' = NameOf(id)
    BY <1>0, <2>1, <2>2, MapTypes, SameMaps
  <2>4. task' \in [Workers -> Request'] /\ mixed \subseteq mixed' /\ mixed' \subseteq 1..minted'
    <3>1. 0..minted \subseteq 0..minted' /\ 1..minted \subseteq 1..minted'
      BY <1>0, <2>2
    <3>2. Request \subseteq Request'
      BY <3>1 DEF Request
    <3> QED
      BY <1>0, <1>1, <3>1, <3>2
  <2>5. Scaffolding' /\ minted' >= minted
    BY <1>0, <2>1, <2>2 DEF Scaffolding
  <2>6. ASSUME NEW id \in 1..minted', Clean(id)'
        PROVE  FoundBy(id)' = NameOf(id)' /\ (id = minted' /\ daemon' = "crab" => NameOf(id)' = {})
    <3>1. CASE id \in 1..minted
      BY <1>0, <1>3, <1>4, <2>1, <2>2, <2>3, <2>6, <3>1
    <3>2. CASE id \notin 1..minted
      <4>1. NameOf(id) = {} /\ FoundBy(id) = {}
        BY <1>0, <3>2 DEF NameOf, FoundBy
      <4> QED
        BY <2>3, <4>1
    <3> QED
      BY <3>1, <3>2
  <2> QED
    BY <1>1, <1>2, <1>5, <2>2, <2>3, <2>4, <2>5, <2>6, DownMoves
<1>7. CASE BootContent
  <2>1. /\ daemon = "crab" /\ daemon' = "name" /\ idx' = idx /\ default' = default /\ minted' = minted
        /\ content' = Put(content, minted, Crab)
    BY <1>7 DEF BootContent
  <2>2. DOMAIN idx = {} /\ minted > 0
    BY <2>1 DEF AgentInv, Scaffolding
  <2>3. minted \in 1..minted'
    BY <1>0, <2>1, <2>2
  <2>4. AgentTypes' /\ \A id : FoundBy(id)' = FoundBy(id)
    BY <1>0, <2>1, <2>3, NamesAssumption, MapTypes, SameMaps
  <2>5. \A id : NameOf(id)' = IF id = minted THEN {Crab} ELSE NameOf(id)
    BY <2>1, PutContent
  <2>6. task' \in [Workers -> Request'] /\ mixed \subseteq mixed' /\ mixed' \subseteq 1..minted'
    BY <1>0, <1>1, <2>1 DEF Request
  <2>7. Scaffolding' /\ minted' >= minted
    BY <1>0, <2>1, <2>2 DEF Scaffolding
  <2>8. ASSUME NEW id \in 1..minted', Clean(id)'
        PROVE  IF id = minted' THEN FoundBy(id)' = {} /\ NameOf(id)' = {Crab}
               ELSE FoundBy(id)' = NameOf(id)'
    <3>1. FoundBy(id) = {}
      BY <2>2 DEF FoundBy
    <3> QED
      BY <1>3, <1>4, <2>1, <2>4, <2>5, <2>8, <3>1
  <2> QED
    BY <1>1, <1>2, <1>5, <2>1, <2>4, <2>6, <2>7, <2>8, DownMoves
<1>8. CASE BootName
  <2>1. /\ daemon = "name" /\ daemon' = "default" /\ idx' = Put(idx, Crab, minted) /\ default' = default
        /\ minted' = minted /\ content' = content
    BY <1>8 DEF BootName
  <2>2. DOMAIN idx = {} /\ minted > 0
    BY <2>1 DEF AgentInv, Scaffolding
  <2>3. minted \in 1..minted'
    BY <1>0, <2>1, <2>2
  <2>4. AgentTypes' /\ \A id : NameOf(id)' = NameOf(id)
    BY <1>0, <2>1, <2>3, NamesAssumption, MapTypes, SameMaps
  <2>5. \A id : /\ FoundBy(id) = {}
                /\ FoundBy(id)' = IF id = minted THEN {Crab} ELSE {}
    BY <2>1, <2>2 DEF FoundBy, Put
  <2>6. task' \in [Workers -> Request'] /\ mixed \subseteq mixed' /\ mixed' \subseteq 1..minted'
    BY <1>0, <1>1, <2>1 DEF Request
  <2>7. Scaffolding' /\ minted' >= minted
    BY <1>0, <2>1 DEF Scaffolding
  <2>8. ASSUME NEW id \in 1..minted', Clean(id)' PROVE FoundBy(id)' = NameOf(id)'
    BY <1>3, <1>4, <2>1, <2>4, <2>5, <2>8
  <2> QED
    BY <1>1, <1>2, <1>5, <2>1, <2>4, <2>6, <2>7, <2>8, DownMoves
<1>9. CASE BootDefault \/ BootLoad
  <2>1. /\ daemon \in {"default", "load"} /\ daemon' \in {"load", "up"} /\ idx' = idx /\ minted' = minted
        /\ content' = content /\ default' \in {default, minted}
    BY <1>9 DEF BootDefault, BootLoad, agentVars
  <2>2. AgentTypes'
    BY <1>0, <2>1 DEF AgentTypes
  <2>3. \A id : FoundBy(id)' = FoundBy(id) /\ NameOf(id)' = NameOf(id)
    BY <2>1, SameMaps
  <2>4. task' \in [Workers -> Request'] /\ mixed \subseteq mixed' /\ mixed' \subseteq 1..minted'
    BY <1>0, <1>1, <2>1 DEF Request
  <2>5. Scaffolding' /\ minted' >= minted
    BY <1>0, <2>1 DEF Scaffolding
  <2>6. ASSUME NEW id \in 1..minted', Clean(id)' PROVE FoundBy(id)' = NameOf(id)'
    BY <1>3, <1>4, <2>1, <2>3, <2>6
  <2> QED
    BY <1>1, <1>2, <1>5, <2>1, <2>2, <2>4, <2>5, <2>6, DownMoves
<1> QED
  BY <1>6, <1>7, <1>8, <1>9 DEF Boot

LEMMA CrashAgent ==
  ASSUME AgentInv, Crash, shared' = shared \cup Shared'
  PROVE  AgentInv'
<1>0. minted \in Nat /\ AgentTypes /\ mixed \subseteq 1..minted /\ Idle \in Request /\ Idle.pc = "idle"
  BY IdleRequest DEF AgentInv, AgentTypes
<1>1. /\ daemon' = "scan" /\ task' = [w \in Workers |-> Idle] /\ ops' = ops
      /\ content' = content /\ idx' = idx /\ minted' = minted /\ default' = default
      /\ mixed' = mixed \cup {id \in 1..minted : Busy(id)} \cup (IF daemon = "name" THEN {minted} ELSE {})
  BY DEF Crash, agentVars
<1>2. crashes' \in 0..MaxCrashes
  BY BoundsAssumption DEF Crash, AgentInv, TaskTypes
<1>3. AgentTypes' /\ \A id : FoundBy(id)' = FoundBy(id) /\ NameOf(id)' = NameOf(id)
  BY <1>0, <1>1, MapTypes, SameMaps
<1>4. task' \in [Workers -> Request'] /\ \A w \in Workers : task'[w].pc = "idle"
  BY <1>0, <1>1 DEF Request
<1>5. mixed \subseteq mixed' /\ mixed' \subseteq 1..minted'
  <2>1. daemon = "name" => minted \in 1..minted
    BY <1>0 DEF AgentInv, Scaffolding
  <2> QED
    BY <1>0, <1>1, <2>1
<1>6. Scaffolding' /\ minted' >= minted
  BY <1>0, <1>1 DEF Scaffolding
<1>7. ASSUME NEW id \in 1..minted', Clean(id)' PROVE FoundBy(id)' = NameOf(id)'
  <2>1. id \in 1..minted /\ Clean(id) /\ ~Busy(id) /\ ~(daemon = "name" /\ id = minted)
    BY <1>1, <1>7 DEF Clean
  <2>2. Settled(id)
    BY <2>1 DEF AgentInv
  <2> QED
    BY <1>3, <2>1, <2>2 DEF Settled
<1> QED
  BY <1>1, <1>2, <1>3, <1>4, <1>5, <1>6, <1>7, DownMoves
-----------------------------------------------------------------------------
LEMMA InitAgent == Init => AgentInv
<1> SUFFICES ASSUME Init PROVE AgentInv
  OBVIOUS
<1>1. minted = 0 /\ DOMAIN content = {} /\ DOMAIN idx = {} /\ Idle \in Request /\ 1..minted = {}
  BY IdleRequest DEF Init
<1>2. AgentTypes
  BY <1>1 DEF Init, AgentTypes, Range
<1>3. TaskTypes
  BY <1>1, BoundsAssumption DEF Init, TaskTypes, Request
<1>4. Requests /\ Scaffolding /\ Idled
  BY DEF Init, Requests, Scaffolding, Idled, Idle
<1>5. Shared = {}
  BY <1>1 DEF Shared
<1> QED
  BY <1>1, <1>2, <1>3, <1>4, <1>5 DEF Init, AgentInv

LEMMA NextAgent == AgentInv /\ [Next]_vars => AgentInv'
<1> SUFFICES ASSUME AgentInv, [Next]_vars PROVE AgentInv'
  OBVIOUS
<1>1. CASE AgentNext /\ shared' = shared \cup Shared'
  BY <1>1, RequestAgent, StepAgent DEF AgentNext
<1>2. CASE BusNext /\ shared' = shared \cup Shared'
  <2>1. ASSUME NEW m \in writes, Mirror(m) PROVE AgentInv'
    BY <1>2, <2>1, AgentStays DEF Mirror, agentVars, AgentInv, TaskTypes
  <2> QED
    BY <1>2, <2>1, BusStepAgent DEF BusNext
<1>3. CASE Boot /\ shared' = shared \cup Shared'
  BY <1>3, BootAgent
<1>4. CASE Crash /\ shared' = shared \cup Shared'
  BY <1>4, CrashAgent
<1>5. CASE UNCHANGED vars
  <2>1. Shared' = Shared
    BY <1>5 DEF vars, Shared, Claims
  <2> QED
    BY <1>5, <2>1, AgentStays DEF vars, AgentInv, TaskTypes
<1> QED
  BY <1>1, <1>2, <1>3, <1>4, <1>5 DEF Next

(* The types, no id of a subscription in use is given out again, and an    *)
(* agent whose requests ran alone and to their end is found by its name    *)
(* and by no other (upsert_agent, delete_agent, rename_agent, scaffold).   *)
THEOREM CatalogCorrect == Spec => []CatalogInv
<1>1. BusInv /\ AgentInv => CatalogInv
  <2> SUFFICES ASSUME BusInv, AgentInv PROVE CatalogInv
    OBVIOUS
  <2>1. BusTypes
    <3>1. \A i \in DOMAIN subs : i < next_id
      BY KnownCases DEF BusInv, BelowNext, Restarting
    <3>2. Range(subs) \subseteq Sub /\ Range(stored) \subseteq Sub
      BY DEF BusInv, BusShape, Range
    <3> QED
      BY <3>1, <3>2 DEF BusInv, BusShape, BusTypes, Sub
  <2>2. TypeOK
    BY <2>1 DEF TypeOK, AgentInv, BusInv, BusShape
  <2>3. NamesReach
    <3> SUFFICES ASSUME NEW id \in 1..minted, Clean(id), ~Busy(id),
                        ~(id = minted /\ daemon \in {"crab", "name"})
                 PROVE  FoundBy(id) = NameOf(id)
      BY DEF NamesReach, Clean, FoundBy, NameOf
    <3> QED
      BY DEF AgentInv, Settled
  <2> QED
    BY <2>2, <2>3 DEF CatalogInv
<1> QED
  BY <1>1, InitBus, StepBus, InitAgent, NextAgent, PTL DEF Spec
=============================================================================
