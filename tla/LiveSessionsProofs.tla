------------------------- MODULE LiveSessionsProofs -------------------------
(***************************************************************************)
(* Two components of the daemon, one above the other.                      *)
(*                                                                         *)
(* Live sessions, for every set of tasks and handles and every bound: the  *)
(* types of the registry, its requests and its sessions; the two indexes   *)
(* agree; an open inserts an id nobody else has; a registered token        *)
(* belongs to an operation in flight; a lock is held by the task that      *)
(* runs; an eviction spares what is in use, and brings the registry within *)
(* its bound unless all of it is in use.                                   *)
(*                                                                         *)
(* crabdb, from Log on, for every set of keys, every size of the values    *)
(* and wherever a crash strikes: the resident index is the one a restart   *)
(* rebuilds, the store opens again, and it is the map it promises to be.   *)
(***************************************************************************)
EXTENDS LiveSessions, CrabDb, FiniteSetTheorems, SequenceTheorems, WellFoundedInduction, TLAPS

(* What the invariant needs to know of an eviction: it only drops entries. *)
LEMMA VictimsAreLive ==
  ASSUME NEW lives, NEW held, NEW order
  PROVE  Victims(lives, held, order) \subseteq Candidates(lives, held)
BY DEF Victims

LEMMA CandidatesAreLive ==
  ASSUME NEW lives, NEW held
  PROVE  /\ Candidates(lives, held) \subseteq DOMAIN lives
         /\ \A i \in Candidates(lives, held) : lives[i].cancel = None /\ i \notin held
BY DEF Candidates

LiveRecord == [handle : Handles, cancel : Tasks \cup {None}, bytes : Nat]

(* The entries are well formed and their sessions exist.                   *)
WellFormed(lives) ==
  /\ DOMAIN lives \subseteq DOMAIN size
  /\ \A i \in DOMAIN size : size[i] \in Nat
  /\ \A i \in DOMAIN lives : lives[i] \in LiveRecord

(* The next registry is these indexes less some entries, both halves gone. *)
DropsFrom(lives, handles) ==
  /\ DOMAIN by_id' \subseteq DOMAIN lives
  /\ \A i \in DOMAIN by_id' :
       /\ by_id'[i] \in LiveRecord
       /\ by_id'[i].handle = lives[i].handle
       /\ by_id'[i].cancel = lives[i].cancel
  /\ DOMAIN by_handle' = DOMAIN handles \ {lives[i].handle : i \in DOMAIN lives \ DOMAIN by_id'}
  /\ \A h \in DOMAIN by_handle' : by_handle'[h] = handles[h]

(* The two indexes are inverse.                                            *)
Agree(lives, handles) ==
  /\ \A h \in DOMAIN handles : handles[h] \in DOMAIN lives /\ lives[handles[h]].handle = h
  /\ \A i \in DOMAIN lives : lives[i].handle \in DOMAIN handles /\ handles[lives[i].handle] = i

(* An eviction drops entries from both indexes, and only entries with no   *)
(* token that nobody holds.                                                *)
LEMMA EvictDropsOnly ==
  ASSUME NEW lives, NEW handles, NEW held, NEW order,
         WellFormed(lives), Evict(lives, handles, held, order)
  PROVE  /\ DropsFrom(lives, handles)
         /\ \A i \in DOMAIN lives \ DOMAIN by_id' : lives[i].cancel = None /\ i \notin held
<1> DEFINE priced == Repriced(lives)
           gone == Victims(priced, held, order)
<1>1. /\ DOMAIN priced = DOMAIN lives
      /\ \A i \in DOMAIN lives :
           /\ priced[i] \in LiveRecord
           /\ priced[i].handle = lives[i].handle
           /\ priced[i].cancel = lives[i].cancel
  BY DEF Repriced, LiveRecord, WellFormed
<1>2. gone \subseteq DOMAIN priced /\ \A i \in gone : priced[i].cancel = None /\ i \notin held
  BY VictimsAreLive, CandidatesAreLive
<1>3. /\ by_id' = Restrict(priced, DOMAIN priced \ gone)
      /\ by_handle' = RemoveByHandle(handles, priced, gone)
  BY DEF Evict
<1> HIDE DEF priced, gone
<1>4. DOMAIN by_id' = DOMAIN lives \ gone /\ \A i \in DOMAIN by_id' : by_id'[i] = priced[i]
  BY <1>1, <1>3 DEF Restrict
<1>5. DOMAIN lives \ DOMAIN by_id' = gone
  BY <1>1, <1>2, <1>4
<1>6. {priced[i].handle : i \in gone} = {lives[i].handle : i \in gone}
  BY <1>1, <1>2
<1>7. by_handle' = Restrict(handles, DOMAIN handles \ {lives[i].handle : i \in gone})
  BY <1>3, <1>6 DEF RemoveByHandle
<1>8. /\ DOMAIN by_handle' = DOMAIN handles \ {lives[i].handle : i \in gone}
      /\ \A h \in DOMAIN by_handle' : by_handle'[h] = handles[h]
  BY <1>7 DEF Restrict
<1> QED
  BY <1>1, <1>2, <1>4, <1>5, <1>8 DEF DropsFrom
-----------------------------------------------------------------------------
(* The inductive invariant.  An insert keeps the indexes inverse only      *)
(* because the id it carries is registered nowhere (PendingIdsFresh), and  *)
(* an EndCancel clears the right token only because a token's task still   *)
(* works on the session that holds it (NoOrphanToken).                     *)
IInv == TypeOK /\ IndexesAgree /\ PendingIdsFresh /\ NoOrphanToken /\ LockHeldByRunner

LEMMA InitIInv == Init => IInv
BY NoneAssumption
   DEF Init, IInv, TypeOK, RegistryTypes, RequestTypes, ObjectTypes, Locations,
       IndexesAgree, PendingIdsFresh, NoOrphanToken, LockHeldByRunner

-----------------------------------------------------------------------------
(* Frame lemmas: what keeps each conjunct, whatever the action is.         *)
Pending == {"load", "create", "insert"}

(* Tokens only disappear, and guarded tasks stay guarded and in place.     *)
LEMMA TokensKept ==
  ASSUME NoOrphanToken,
         \A i \in DOMAIN by_id' :
           by_id'[i].cancel = None \/ (i \in DOMAIN by_id /\ by_id'[i].cancel = by_id[i].cancel),
         \A u \in Tasks : UnderGuard(u) => UnderGuard(u)' /\ cur'[u] = cur[u]
  PROVE  NoOrphanToken'
<1> SUFFICES ASSUME NEW i \in DOMAIN by_id', NEW u \in Tasks, by_id'[i].cancel = u
             PROVE  cur'[u] = i /\ UnderGuard(u)'
  BY DEF NoOrphanToken
<1>1. i \in DOMAIN by_id /\ by_id[i].cancel = u
  BY NoneAssumption
<1> QED
  BY <1>1 DEF NoOrphanToken

(* No id is registered, and no task takes up a pending id.                 *)
LEMMA PendingKept ==
  ASSUME PendingIdsFresh, DOMAIN by_id' \subseteq DOMAIN by_id,
         \A u \in Tasks : pc'[u] \in Pending =>
           pc[u] \in Pending /\ cur'[u] = cur[u] /\ cur[u] # 0,
         \A u \in Tasks : cur'[u] = cur[u] \/ cur'[u] = 0 \/ cur'[u] \in DOMAIN by_id
  PROVE  PendingIdsFresh'
<1> SUFFICES ASSUME NEW t \in Tasks, pc'[t] \in Pending
             PROVE  /\ cur'[t] \notin DOMAIN by_id'
                    /\ \A u \in Tasks \ {t} : cur'[u] # cur'[t]
  BY DEF PendingIdsFresh, Pending
<1>1. /\ cur[t] \notin DOMAIN by_id
      /\ \A u \in Tasks \ {t} : cur[u] # cur[t]
      /\ cur'[t] = cur[t] /\ cur[t] # 0
  BY DEF PendingIdsFresh, Pending
<1> QED
  BY <1>1

(* No lock changes hands and no task enters or leaves a run.               *)
LEMMA LocksKept ==
  ASSUME LockHeldByRunner, owner' = owner,
         \A u \in Tasks : pc'[u] = "run" <=> pc[u] = "run",
         \A u \in Tasks : pc[u] = "run" => cur'[u] = cur[u]
  PROVE  LockHeldByRunner'
BY DEF LockHeldByRunner

(* Answering a request.                                                    *)
LEMMA ReplyTypes ==
  ASSUME RequestTypes, NEW t \in Tasks, Reply(t), next_id' = next_id, next_id \in Nat \ {0}
  PROVE  /\ RequestTypes'
         /\ pc'[t] = "idle" /\ cur'[t] = 0
         /\ \A u \in Tasks \ {t} : pc'[u] = pc[u] /\ cur'[u] = cur[u] /\ req'[u] = req[u]
BY DEF RequestTypes, Reply, Goto, Locations

LEMMA ReplyStep ==
  ASSUME IInv, NEW t \in Tasks, Reply(t), ~UnderGuard(t), pc[t] # "run",
         UNCHANGED <<by_id, by_handle, next_id, owner>>, ObjectTypes'
  PROVE  IInv'
<1>1. RequestTypes' /\ pc'[t] = "idle" /\ cur'[t] = 0
      /\ \A u \in Tasks \ {t} : pc'[u] = pc[u] /\ cur'[u] = cur[u] /\ req'[u] = req[u]
  BY ReplyTypes DEF IInv, TypeOK, RegistryTypes
<1>2. TypeOK' /\ IndexesAgree'
  BY <1>1 DEF IInv, TypeOK, RegistryTypes, IndexesAgree
<1>3. NoOrphanToken'
  BY <1>1, TokensKept DEF IInv, UnderGuard
<1>4. PendingIdsFresh'
  <2>1. \A u \in Tasks : pc[u] \in Pending => cur[u] # 0
    BY DEF IInv, TypeOK, RequestTypes, Pending
  <2> QED
    BY <1>1, <2>1, PendingKept DEF IInv, Pending
<1>5. LockHeldByRunner'
  BY <1>1, LocksKept DEF IInv
<1> QED
  BY <1>2, <1>3, <1>4, <1>5 DEF IInv

(* Moving on inside a request with the registry untouched.                 *)
LEMMA GotoStep ==
  ASSUME IInv, NEW t \in Tasks, NEW p \in Locations \ {"idle", "run"}, Goto(t, p),
         pc[t] \notin {"idle", "run"},
         p \in Pending => pc[t] \in Pending,
         p \notin {"check", "find", "list"} => cur[t] # 0,
         UnderGuard(t) => p \in {"opened", "wait", "guard"},
         UNCHANGED <<by_id, by_handle, next_id, owner, cur, req, fired>>,
         listed' \in [Tasks -> SUBSET (1..(next_id - 1))],
         ObjectTypes'
  PROVE  IInv'
<1>1. /\ pc' \in [Tasks -> Locations] /\ pc'[t] = p
      /\ \A u \in Tasks \ {t} : pc'[u] = pc[u]
  BY DEF Goto, IInv, TypeOK, RequestTypes
<1>2. RequestTypes'
  BY <1>1 DEF IInv, TypeOK, RequestTypes
<1>3. RegistryTypes' /\ IndexesAgree'
  BY DEF IInv, TypeOK, RegistryTypes, IndexesAgree
<1>4. NoOrphanToken'
  BY <1>1, TokensKept DEF IInv, UnderGuard
<1>5. PendingIdsFresh'
  <2>1. \A u \in Tasks : pc[u] \in Pending => cur[u] # 0
    BY DEF IInv, TypeOK, RequestTypes, Pending
  <2> QED
    BY <1>1, <2>1, PendingKept DEF IInv, Pending
<1>6. LockHeldByRunner'
  BY <1>1, LocksKept DEF IInv
<1> QED
  BY <1>2, <1>3, <1>4, <1>5, <1>6 DEF IInv, TypeOK
-----------------------------------------------------------------------------
(* One lemma per action (or group of actions of one shape).                *)
LEMMA RequestStep ==
  ASSUME IInv, NEW t \in Tasks, NEW k \in Kinds, NEW h \in Handles, Request(t, k, h)
  PROVE  IInv'
<1>1. /\ RequestTypes'
      /\ pc[t] = "idle" /\ pc'[t] \in {"check", "find"} /\ cur' = cur
      /\ \A u \in Tasks \ {t} : pc'[u] = pc[u] /\ req'[u] = req[u]
  BY KindsAssumption, NoneAssumption DEF IInv, TypeOK, RequestTypes, Request, Goto, Locations
<1>2. RegistryTypes' /\ IndexesAgree' /\ ObjectTypes'
  BY DEF IInv, TypeOK, RegistryTypes, IndexesAgree, ObjectTypes, Request, registry
<1>3. NoOrphanToken'
  BY <1>1, TokensKept DEF IInv, UnderGuard, Request, registry
<1>4. PendingIdsFresh'
  <2>1. \A u \in Tasks : pc[u] \in Pending => cur[u] # 0
    BY DEF IInv, TypeOK, RequestTypes, Pending
  <2> QED
    BY <1>1, <2>1, PendingKept DEF IInv, Pending, Request, registry
<1>5. LockHeldByRunner'
  BY <1>1, LocksKept DEF IInv, Request
<1> QED
  BY <1>1, <1>2, <1>3, <1>4, <1>5 DEF IInv, TypeOK

LEMMA ReplyingSteps ==
  ASSUME IInv, NEW t \in Tasks,
         \/ OpenFails(t) \/ Created(t) \/ ListDone(t)
         \/ CheckAbsent(t) /\ stored[req[t].handle] # None
         \/ FindMiss(t) /\ req[t].kind \notin Opening
  PROVE  IInv'
<1>1. Reply(t) /\ UNCHANGED <<by_id, by_handle, next_id, owner, size, stored>>
  BY DEF OpenFails, Created, ListDone, CheckAbsent, FindMiss, registry
<1>2. ~UnderGuard(t) /\ pc[t] # "run"
  BY DEF OpenFails, Created, ListDone, CheckAbsent, FindMiss, UnderGuard, Guarded
<1>3. ObjectTypes'
  BY <1>1 DEF IInv, TypeOK, ObjectTypes
<1> QED
  BY <1>1, <1>2, <1>3, ReplyStep

LEMMA CheckPasses ==
  ASSUME IInv, NEW t \in Tasks, CheckAbsent(t), stored[req[t].handle] = None
  PROVE  IInv'
<1>1. /\ pc[t] = "check" /\ Goto(t, "find")
      /\ UNCHANGED <<by_id, by_handle, next_id, owner, cur, req, fired, listed, size, stored>>
  BY DEF CheckAbsent, registry
<1>2. ObjectTypes' /\ listed' \in [Tasks -> SUBSET (1..(next_id - 1))]
  BY <1>1 DEF IInv, TypeOK, ObjectTypes, RequestTypes
<1> QED
  BY <1>1, <1>2, GotoStep DEF Locations, Pending, UnderGuard

LEMMA LoadStep ==
  ASSUME IInv, NEW t \in Tasks, Load(t)
  PROVE  IInv'
<1>1. /\ pc[t] = "load" /\ cur[t] # 0
      /\ UNCHANGED <<by_id, by_handle, next_id, owner, cur, req, fired, listed, stored>>
  BY DEF Load, registry, IInv, TypeOK, RequestTypes
<1>2. listed' \in [Tasks -> SUBSET (1..(next_id - 1))]
  BY <1>1 DEF IInv, TypeOK, RequestTypes
<1>3. ObjectTypes'
  <2>1. req[t] \in [kind : AllKinds, handle : Handles]
    BY <1>1 DEF IInv, TypeOK, RequestTypes
  <2>2. stored[req[t].handle] # None => Loaded(stored[req[t].handle]) \in Nat
    BY <2>1, BoundsAssumption DEF IInv, TypeOK, ObjectTypes, Loaded, Cap
  <2>3. size' \in [1..(next_id - 1) -> Nat]
    BY <2>2 DEF Load, IInv, TypeOK, ObjectTypes
  <2> QED
    BY <1>1, <2>3 DEF IInv, TypeOK, ObjectTypes
<1>4. CASE Goto(t, "insert")
  BY <1>1, <1>2, <1>3, <1>4, GotoStep DEF Locations, Pending, UnderGuard
<1>5. CASE Goto(t, "create")
  BY <1>1, <1>2, <1>3, <1>5, GotoStep DEF Locations, Pending, UnderGuard
<1> QED
  BY <1>4, <1>5 DEF Load

LEMMA CreateStoredStep ==
  ASSUME IInv, NEW t \in Tasks, CreateStored(t)
  PROVE  IInv'
<1>1. /\ pc[t] = "create" /\ cur[t] # 0 /\ Goto(t, "insert")
      /\ UNCHANGED <<by_id, by_handle, next_id, owner, cur, req, fired, listed, size>>
  BY DEF CreateStored, registry, IInv, TypeOK, RequestTypes
<1>2. listed' \in [Tasks -> SUBSET (1..(next_id - 1))]
  BY <1>1 DEF IInv, TypeOK, RequestTypes, CreateStored
<1>3. ObjectTypes'
  <2>1. req[t] \in [kind : AllKinds, handle : Handles]
    BY <1>1 DEF IInv, TypeOK, RequestTypes
  <2>2. stored' \in [Handles -> [count : Nat, keys : Nat, archived : BOOLEAN] \cup {None}]
    BY <2>1 DEF CreateStored, IInv, TypeOK, ObjectTypes
  <2> QED
    BY <1>1, <2>2 DEF IInv, TypeOK, ObjectTypes
<1> QED
  BY <1>1, <1>2, <1>3, GotoStep DEF Locations, Pending, UnderGuard

LEMMA UncancellableStep ==
  ASSUME IInv, NEW t \in Tasks, Uncancellable(t)
  PROVE  IInv'
<1>1. /\ pc[t] = "opened" /\ cur[t] # 0 /\ Goto(t, "wait")
      /\ UNCHANGED <<by_id, by_handle, next_id, owner, cur, req, fired, listed, size, stored>>
  BY DEF Uncancellable, registry, IInv, TypeOK, RequestTypes
<1>2. ObjectTypes' /\ listed' \in [Tasks -> SUBSET (1..(next_id - 1))]
  BY <1>1 DEF IInv, TypeOK, ObjectTypes, RequestTypes
<1> QED
  BY <1>1, <1>2, GotoStep DEF Locations, Pending

LEMMA ListStartStep ==
  ASSUME IInv, NEW t \in Tasks, ListStart(t)
  PROVE  IInv'
<1>1. /\ pc[t] = "find" /\ Goto(t, "list")
      /\ UNCHANGED <<by_id, by_handle, next_id, owner, cur, req, fired, size, stored>>
  BY DEF ListStart, registry
<1>2. ObjectTypes' /\ listed' \in [Tasks -> SUBSET (1..(next_id - 1))]
  BY <1>1 DEF IInv, TypeOK, ObjectTypes, RequestTypes, RegistryTypes, ListStart
<1> QED
  BY <1>1, <1>2, GotoStep DEF Locations, Pending, UnderGuard

LEMMA ListNextStep ==
  ASSUME IInv, NEW t \in Tasks, ListNext(t)
  PROVE  IInv'
<1>1. /\ \E S : listed' = [listed EXCEPT ![t] = @ \ S]
      /\ UNCHANGED <<by_id, by_handle, next_id, owner, cur, pc, req, fired, size, stored>>
  BY DEF ListNext, registry
<1>2. listed' \in [Tasks -> SUBSET (1..(next_id - 1))]
  BY <1>1 DEF IInv, TypeOK, RequestTypes
<1>3. TypeOK'
  BY <1>1, <1>2 DEF IInv, TypeOK, RegistryTypes, RequestTypes, ObjectTypes
<1> QED
  BY <1>1, <1>3 DEF IInv, IndexesAgree, PendingIdsFresh, NoOrphanToken, LockHeldByRunner, UnderGuard

LEMMA FindHitStep ==
  ASSUME IInv, NEW t \in Tasks, FindHit(t)
  PROVE  IInv'
<1> DEFINE h == req[t].handle
           p == CASE req[t].kind \in Opening -> "reprice"
                  [] req[t].kind = "compact" -> "opened"
                  [] OTHER -> "act"
<1>1. /\ pc[t] = "find" /\ h \in DOMAIN by_handle /\ by_handle[h] \in DOMAIN by_id
      /\ cur' = [cur EXCEPT ![t] = by_handle[h]]
      /\ pc' = [pc EXCEPT ![t] = p]
      /\ UNCHANGED <<by_id, by_handle, next_id, req, fired, listed, owner, size, stored>>
  BY DEF FindHit, Goto
<1>2. p \in {"reprice", "opened", "act"}
  OBVIOUS
<1> HIDE DEF p
<1>3. by_handle[h] \in 1..(next_id - 1)
  BY <1>1 DEF IInv, TypeOK, RegistryTypes
<1>4. RequestTypes'
  BY <1>1, <1>2, <1>3 DEF IInv, TypeOK, RequestTypes, Locations
<1>5. RegistryTypes' /\ IndexesAgree' /\ ObjectTypes'
  BY <1>1 DEF IInv, TypeOK, RegistryTypes, IndexesAgree, ObjectTypes
<1>6. /\ pc'[t] = p /\ cur'[t] = by_handle[h]
      /\ \A u \in Tasks \ {t} : pc'[u] = pc[u] /\ cur'[u] = cur[u]
  BY <1>1 DEF IInv, TypeOK, RequestTypes
<1>7. NoOrphanToken'
  BY <1>1, <1>2, <1>6, TokensKept DEF IInv, UnderGuard
<1>8. PendingIdsFresh'
  <2>1. \A u \in Tasks : pc[u] \in Pending => cur[u] # 0
    BY DEF IInv, TypeOK, RequestTypes, Pending
  <2> QED
    BY <1>1, <1>2, <1>6, <2>1, PendingKept DEF IInv, Pending
<1>9. LockHeldByRunner'
  BY <1>1, <1>2, <1>6, LocksKept DEF IInv
<1> QED
  BY <1>4, <1>5, <1>7, <1>8, <1>9 DEF IInv, TypeOK

(* A miss: the id it takes is below nobody's, so it is registered nowhere. *)
LEMMA FindMissStep ==
  ASSUME IInv, NEW t \in Tasks, FindMiss(t), req[t].kind \in Opening
  PROVE  IInv'
<1>1. /\ pc[t] = "find"
      /\ cur' = [cur EXCEPT ![t] = next_id] /\ next_id' = next_id + 1
      /\ owner' = With(owner, next_id, None) /\ size' = With(size, next_id, 0)
      /\ pc' = [pc EXCEPT ![t] = "load"]
      /\ UNCHANGED <<by_id, by_handle, req, fired, listed, stored>>
  BY DEF FindMiss, TakeId, Goto, registry
<1>2. next_id \in Nat \ {0} /\ 1..(next_id' - 1) = 1..(next_id - 1) \cup {next_id}
      /\ 0..(next_id' - 1) = 0..(next_id - 1) \cup {next_id}
  BY <1>1 DEF IInv, TypeOK, RegistryTypes
<1>3. RequestTypes'
  BY <1>1, <1>2 DEF IInv, TypeOK, RequestTypes, Locations
<1>4. RegistryTypes' /\ IndexesAgree'
  BY <1>1, <1>2 DEF IInv, TypeOK, RegistryTypes, IndexesAgree
<1>5. ObjectTypes'
  BY <1>1, <1>2 DEF IInv, TypeOK, ObjectTypes, With
<1>6. /\ pc'[t] = "load" /\ cur'[t] = next_id
      /\ \A u \in Tasks \ {t} : pc'[u] = pc[u] /\ cur'[u] = cur[u]
  BY <1>1 DEF IInv, TypeOK, RequestTypes
<1>7. NoOrphanToken'
  BY <1>1, <1>6, TokensKept DEF IInv, UnderGuard
<1>8. PendingIdsFresh'
  <2>1. next_id \notin DOMAIN by_id /\ \A u \in Tasks : cur[u] # next_id
    BY <1>2 DEF IInv, TypeOK, RegistryTypes, RequestTypes
  <2> QED
    BY <1>1, <1>6, <2>1 DEF IInv, PendingIdsFresh
<1>9. LockHeldByRunner'
  <2>1. /\ DOMAIN owner' = DOMAIN owner \cup {next_id}
        /\ owner'[next_id] = None
        /\ \A i \in DOMAIN owner : i # next_id /\ owner'[i] = owner[i]
    BY <1>1, <1>2 DEF IInv, TypeOK, ObjectTypes, With
  <2>2. \A u \in Tasks : pc[u] = "run" => cur[u] # next_id
    BY <1>2 DEF IInv, TypeOK, RequestTypes
  <2>3. ASSUME NEW i \in DOMAIN owner', NEW u \in Tasks
        PROVE  owner'[i] = u <=> pc'[u] = "run" /\ cur'[u] = i
    <3>1. CASE i = next_id
      BY <1>6, <2>1, <2>2, <3>1, NoneAssumption
    <3>2. CASE i # next_id
      <4>1. i \in DOMAIN owner /\ owner'[i] = owner[i]
        BY <2>1, <3>2
      <4>2. owner[i] = u <=> pc[u] = "run" /\ cur[u] = i
        BY <4>1 DEF IInv, LockHeldByRunner
      <4> QED
        BY <1>1, <1>6, <4>1, <4>2
    <3> QED
      BY <3>1, <3>2
  <2> QED
    BY <2>3 DEF LockHeldByRunner
<1> QED
  BY <1>3, <1>4, <1>5, <1>7, <1>8, <1>9 DEF IInv, TypeOK

(* Dropping entries from both indexes together keeps them inverse.         *)
LEMMA DropKeepsAgreement ==
  ASSUME NEW lives, NEW handles, Agree(lives, handles), DropsFrom(lives, handles)
  PROVE  IndexesAgree'
<1>1. ASSUME NEW h \in DOMAIN by_handle'
      PROVE  by_handle'[h] \in DOMAIN by_id' /\ by_id'[by_handle'[h]].handle = h
  <2>1. h \in DOMAIN handles /\ handles[h] \in DOMAIN lives /\ lives[handles[h]].handle = h
    BY DEF Agree, DropsFrom
  <2>2. handles[h] \in DOMAIN by_id'
    BY <2>1 DEF DropsFrom
  <2> QED
    BY <2>1, <2>2 DEF DropsFrom
<1>2. ASSUME NEW i \in DOMAIN by_id'
      PROVE  by_id'[i].handle \in DOMAIN by_handle' /\ by_handle'[by_id'[i].handle] = i
  <2>1. lives[i].handle \in DOMAIN handles /\ handles[lives[i].handle] = i
    BY DEF Agree, DropsFrom
  <2>2. \A j \in DOMAIN lives \ DOMAIN by_id' : lives[j].handle # lives[i].handle
    BY <2>1 DEF Agree
  <2> QED
    BY <2>1, <2>2 DEF DropsFrom
<1> QED
  BY <1>1, <1>2 DEF IndexesAgree

LEMMA RepriceStep ==
  ASSUME IInv, NEW t \in Tasks, Reprice(t)
  PROVE  IInv'
<1> DEFINE i == cur[t]
           priced == [by_id EXCEPT ![i].bytes = size[i]]
           held == UNION {Holding(u) : u \in Tasks}
<1>1. /\ pc[t] = "reprice" /\ pc' = [pc EXCEPT ![t] = "opened"]
      /\ UNCHANGED <<next_id, req, cur, fired, listed, owner, size, stored>>
  BY DEF Reprice, Goto
<1>2. RequestTypes' /\ ObjectTypes'
  BY <1>1 DEF IInv, TypeOK, RequestTypes, ObjectTypes, Locations
<1>3. DropsFrom(by_id, by_handle)
  <2>0. \A j \in DOMAIN by_id : by_id[j] \in LiveRecord
    BY DEF IInv, TypeOK, RegistryTypes, LiveRecord
  <2>1. CASE UNCHANGED registry
    BY <2>0, <2>1 DEF registry, DropsFrom
  <2>2. ASSUME i \in DOMAIN by_id
        PROVE  /\ DOMAIN priced = DOMAIN by_id
               /\ \A j \in DOMAIN by_id :
                    /\ priced[j] \in LiveRecord
                    /\ priced[j].handle = by_id[j].handle
                    /\ priced[j].cancel = by_id[j].cancel
    <3>1. size[i] \in Nat
      BY <2>2 DEF IInv, TypeOK, RegistryTypes, ObjectTypes
    <3> QED
      BY <2>0, <2>2, <3>1 DEF LiveRecord
  <2>3. CASE i \in DOMAIN by_id /\ by_id' = priced /\ UNCHANGED <<by_handle, recency>>
    <3> HIDE DEF priced
    <3> QED
      BY <2>2, <2>3 DEF DropsFrom
  <2>4. CASE i \in DOMAIN by_id /\ Evict(priced, by_handle, held, recency)
    <3>1. WellFormed(priced)
      <4>1. DOMAIN by_id \subseteq DOMAIN size /\ \A j \in DOMAIN size : size[j] \in Nat
        BY DEF IInv, TypeOK, RegistryTypes, ObjectTypes
      <4> HIDE DEF priced
      <4> QED
        BY <2>2, <2>4, <4>1 DEF WellFormed
    <3> HIDE DEF priced, held
    <3>2. DropsFrom(priced, by_handle)
      BY <2>4, <3>1, EvictDropsOnly
    <3>3. {priced[j].handle : j \in DOMAIN priced \ DOMAIN by_id'} =
          {by_id[j].handle : j \in DOMAIN by_id \ DOMAIN by_id'}
      BY <2>2, <2>4
    <3> QED
      BY <2>2, <2>4, <3>2, <3>3 DEF DropsFrom
  <2> QED
    BY <2>1, <2>3, <2>4 DEF Reprice
<1> HIDE DEF priced, held, i
<1>4. RegistryTypes'
  BY <1>1, <1>3 DEF IInv, TypeOK, RegistryTypes, LiveRecord, DropsFrom
<1>5. IndexesAgree'
  <2>1. Agree(by_id, by_handle)
    BY DEF IInv, IndexesAgree, Agree
  <2> QED
    BY <1>3, <2>1, DropKeepsAgreement
<1>6. pc'[t] = "opened" /\ \A u \in Tasks \ {t} : pc'[u] = pc[u]
  BY <1>1 DEF IInv, TypeOK, RequestTypes
<1>7. NoOrphanToken'
  BY <1>1, <1>3, <1>6, TokensKept DEF IInv, UnderGuard, DropsFrom
<1>8. PendingIdsFresh'
  <2>1. \A u \in Tasks : pc[u] \in Pending => cur[u] # 0
    BY DEF IInv, TypeOK, RequestTypes, Pending
  <2> QED
    BY <1>1, <1>3, <1>6, <2>1, PendingKept DEF IInv, Pending, DropsFrom
<1>9. LockHeldByRunner'
  BY <1>1, <1>6, LocksKept DEF IInv
<1> QED
  BY <1>2, <1>4, <1>5, <1>7, <1>8, <1>9 DEF IInv, TypeOK

(* Registering a session whose id is new displaces the live session of its *)
(* handle from both indexes, and leaves them inverse.                      *)
LEMMA InsertAgrees ==
  ASSUME IndexesAgree, NEW id, NEW live, id \notin DOMAIN by_id
  PROVE  /\ Agree(InsertById(id, live), InsertByHandle(id, live))
         /\ id \in DOMAIN InsertById(id, live) /\ InsertById(id, live)[id] = live
         /\ \A j \in DOMAIN InsertById(id, live) \ {id} :
              j \in DOMAIN by_id /\ InsertById(id, live)[j] = by_id[j]
<1> DEFINE h == live.handle
           gone == IF h \in DOMAIN by_handle THEN {by_handle[h]} ELSE {}
           L == InsertById(id, live)
           H == InsertByHandle(id, live)
<1>1. /\ DOMAIN L = (DOMAIN by_id \ gone) \cup {id}
      /\ L[id] = live
      /\ \A j \in DOMAIN by_id \ gone : L[j] = by_id[j]
  BY DEF InsertById, With, Restrict
<1>2. /\ DOMAIN H = DOMAIN by_handle \cup {h}
      /\ H[h] = id
      /\ \A g \in DOMAIN by_handle \ {h} : H[g] = by_handle[g]
  BY DEF InsertByHandle, With
<1> HIDE DEF L, H
<1>3. \A g \in DOMAIN H : H[g] \in DOMAIN L /\ L[H[g]].handle = g
  <2>1. SUFFICES ASSUME NEW g \in DOMAIN H PROVE H[g] \in DOMAIN L /\ L[H[g]].handle = g
    OBVIOUS
  <2>2. CASE g = h
    BY <1>1, <1>2, <2>2
  <2>3. CASE g # h
    <3>1. g \in DOMAIN by_handle /\ H[g] = by_handle[g]
          /\ by_handle[g] \in DOMAIN by_id /\ by_id[by_handle[g]].handle = g
      BY <1>2, <2>3 DEF IndexesAgree
    <3>2. by_handle[g] \notin gone
      BY <2>3, <3>1 DEF IndexesAgree
    <3> QED
      BY <1>1, <3>1, <3>2
  <2> QED
    BY <2>2, <2>3
<1>4. \A j \in DOMAIN L : L[j].handle \in DOMAIN H /\ H[L[j].handle] = j
  <2>1. SUFFICES ASSUME NEW j \in DOMAIN L PROVE L[j].handle \in DOMAIN H /\ H[L[j].handle] = j
    OBVIOUS
  <2>2. CASE j = id
    BY <1>1, <1>2, <2>2
  <2>3. CASE j # id
    <3>1. j \in DOMAIN by_id /\ j \notin gone /\ L[j] = by_id[j]
      BY <1>1, <2>3
    <3>2. by_id[j].handle \in DOMAIN by_handle /\ by_handle[by_id[j].handle] = j
      BY <3>1 DEF IndexesAgree
    <3>3. by_id[j].handle # h
      BY <3>1, <3>2
    <3> QED
      BY <1>2, <3>1, <3>2, <3>3
  <2> QED
    BY <2>2, <2>3
<1>5. Agree(L, H)
  BY <1>3, <1>4 DEF Agree
<1> QED
  BY <1>1, <1>5 DEF L, H

LEMMA InsertStep ==
  ASSUME IInv, NEW t \in Tasks, Insert(t)
  PROVE  IInv'
<1> DEFINE i == cur[t]
           live == [handle |-> req[t].handle, cancel |-> None, bytes |-> size[i]]
           L == InsertById(i, live)
           H == InsertByHandle(i, live)
           held == {i} \cup UNION {Holding(u) : u \in Tasks}
           order == SelectSeq(Touch(i), LAMBDA j : j \in DOMAIN L)
<1>1. /\ pc[t] = "insert" /\ pc' = [pc EXCEPT ![t] = "opened"]
      /\ Evict(L, H, held, order)
      /\ UNCHANGED <<next_id, req, cur, fired, listed, owner, size, stored>>
  BY DEF Insert, Goto
<1>2. RequestTypes' /\ ObjectTypes'
  BY <1>1 DEF IInv, TypeOK, RequestTypes, ObjectTypes, Locations
<1>3. /\ i \in 1..(next_id - 1) /\ i \notin DOMAIN by_id
      /\ next_id \in Nat \ {0}
      /\ req[t].handle \in Handles /\ size[i] \in Nat
      /\ \A u \in Tasks \ {t} : cur[u] # i
  <2>1. i \notin DOMAIN by_id /\ \A u \in Tasks \ {t} : cur[u] # i
    BY <1>1 DEF IInv, PendingIdsFresh
  <2>2. next_id \in Nat \ {0} /\ i \in 0..(next_id - 1) /\ i # 0
    BY <1>1 DEF IInv, TypeOK, RegistryTypes, RequestTypes
  <2>3. req[t] \in [kind : AllKinds, handle : Handles]
    BY <1>1 DEF IInv, TypeOK, RequestTypes
  <2>4. i \in 1..(next_id - 1)
    BY <2>2
  <2>5. size[i] \in Nat
    BY <2>4 DEF IInv, TypeOK, ObjectTypes
  <2> QED
    BY <2>1, <2>2, <2>3, <2>4, <2>5
<1>4. live \in LiveRecord /\ live.cancel = None /\ live.handle \in Handles
  BY <1>3 DEF LiveRecord
<1> HIDE DEF live, held, order
<1>5. /\ Agree(L, H) /\ i \in DOMAIN L /\ L[i] = live
      /\ \A j \in DOMAIN L \ {i} : j \in DOMAIN by_id /\ L[j] = by_id[j]
  BY <1>3, InsertAgrees DEF IInv
<1>6. /\ DOMAIN H \subseteq Handles
      /\ \A h \in DOMAIN H : H[h] \in 1..(next_id - 1)
  BY <1>3, <1>4 DEF InsertByHandle, With, IInv, TypeOK, RegistryTypes
<1> HIDE DEF L, H, i
<1>7. WellFormed(L)
  BY <1>3, <1>4, <1>5 DEF WellFormed, LiveRecord, IInv, TypeOK, RegistryTypes, ObjectTypes
<1>8. DropsFrom(L, H)
  BY <1>1, <1>7, EvictDropsOnly
<1>9. IndexesAgree'
  BY <1>5, <1>8, DropKeepsAgreement
<1>10. RegistryTypes'
  <2>1. DOMAIN L \subseteq 1..(next_id - 1)
    BY <1>3, <1>5 DEF IInv, TypeOK, RegistryTypes
  <2> QED
    BY <1>1, <1>3, <1>6, <1>8, <2>1 DEF RegistryTypes, DropsFrom, LiveRecord
<1>11. /\ pc'[t] = "opened" /\ cur' = cur /\ req' = req
       /\ \A u \in Tasks \ {t} : pc'[u] = pc[u]
  BY <1>1 DEF IInv, TypeOK, RequestTypes
<1>12. NoOrphanToken'
  <2>1. \A j \in DOMAIN by_id' :
          by_id'[j].cancel = None \/ (j \in DOMAIN by_id /\ by_id'[j].cancel = by_id[j].cancel)
    BY <1>4, <1>5, <1>8 DEF DropsFrom
  <2>2. \A u \in Tasks : UnderGuard(u) => UnderGuard(u)' /\ cur'[u] = cur[u]
    BY <1>1, <1>11 DEF UnderGuard
  <2> QED
    BY <2>1, <2>2, TokensKept DEF IInv
<1>13. PendingIdsFresh'
  <2>1. DOMAIN by_id' \subseteq DOMAIN by_id \cup {i}
    BY <1>5, <1>8 DEF DropsFrom
  <2> QED
    BY <1>3, <1>11, <2>1 DEF IInv, PendingIdsFresh, i
<1>14. LockHeldByRunner'
  BY <1>1, <1>11, LocksKept DEF IInv
<1> QED
  BY <1>2, <1>9, <1>10, <1>12, <1>13, <1>14 DEF IInv, TypeOK
-----------------------------------------------------------------------------
(* Runs: the token, the lock and the guard.                                *)

(* A token is registered by the task that goes on to work under its guard. *)
LEMMA BeginCancelStep ==
  ASSUME IInv, NEW t \in Tasks, BeginCancel(t)
  PROVE  IInv'
<1>1. /\ pc[t] = "opened" /\ req[t].kind \in Cancellable /\ pc' = [pc EXCEPT ![t] = "wait"]
      /\ by_id' = IF cur[t] \in DOMAIN by_id THEN [by_id EXCEPT ![cur[t]].cancel = t] ELSE by_id
      /\ UNCHANGED <<by_handle, next_id, req, cur, fired, listed, owner, size, stored>>
  BY DEF BeginCancel, Goto
<1>2. RequestTypes' /\ ObjectTypes'
  BY <1>1 DEF IInv, TypeOK, RequestTypes, ObjectTypes, Locations
<1>3. /\ DOMAIN by_id' = DOMAIN by_id
      /\ \A i \in DOMAIN by_id : by_id'[i] \in LiveRecord /\ by_id'[i].handle = by_id[i].handle
      /\ \A i \in DOMAIN by_id : i # cur[t] => by_id'[i] = by_id[i]
      /\ cur[t] \in DOMAIN by_id => by_id'[cur[t]].cancel = t
  <2>1. \A i \in DOMAIN by_id : by_id[i] \in LiveRecord
    BY DEF IInv, TypeOK, RegistryTypes, LiveRecord
  <2> QED
    BY <1>1, <2>1 DEF LiveRecord
<1>4. RegistryTypes' /\ IndexesAgree'
  BY <1>1, <1>3 DEF IInv, TypeOK, RegistryTypes, IndexesAgree, LiveRecord
<1>5. /\ pc'[t] = "wait" /\ req[t] # None
      /\ \A u \in Tasks \ {t} : pc'[u] = pc[u]
  BY <1>1 DEF IInv, TypeOK, RequestTypes
<1>6. UnderGuard(t)' /\ \A u \in Tasks : UnderGuard(u) => UnderGuard(u)'
  BY <1>1, <1>5 DEF UnderGuard, Cancellable, Guarded
<1>7. NoOrphanToken'
  <2>1. SUFFICES ASSUME NEW i \in DOMAIN by_id', NEW u \in Tasks, by_id'[i].cancel = u
                 PROVE  cur'[u] = i /\ UnderGuard(u)'
    BY DEF NoOrphanToken
  <2>2. CASE i = cur[t]
    BY <1>1, <1>3, <1>6, <2>1, <2>2
  <2>3. CASE i # cur[t]
    BY <1>1, <1>3, <1>6, <2>1, <2>3 DEF IInv, NoOrphanToken
  <2> QED
    BY <2>2, <2>3
<1>8. PendingIdsFresh'
  <2>1. \A u \in Tasks : pc[u] \in Pending => cur[u] # 0
    BY DEF IInv, TypeOK, RequestTypes, Pending
  <2> QED
    BY <1>1, <1>3, <1>5, <2>1, PendingKept DEF IInv, Pending
<1>9. LockHeldByRunner'
  BY <1>1, <1>5, LocksKept DEF IInv
<1> QED
  BY <1>2, <1>4, <1>7, <1>8, <1>9 DEF IInv, TypeOK

LEMMA AcquireStep ==
  ASSUME IInv, NEW t \in Tasks, Acquire(t)
  PROVE  IInv'
<1>1. /\ pc[t] = "wait" /\ owner[cur[t]] = None
      /\ owner' = [owner EXCEPT ![cur[t]] = t]
      /\ size' = [size EXCEPT ![cur[t]] = IF req[t].kind \in Turns THEN Cap(@ + 1) ELSE @]
      /\ pc' = [pc EXCEPT ![t] = "run"]
      /\ UNCHANGED <<by_id, by_handle, next_id, req, cur, fired, listed, stored>>
  BY DEF Acquire, LockFree, Goto, registry
<1>2. RequestTypes' /\ RegistryTypes' /\ IndexesAgree'
  BY <1>1 DEF IInv, TypeOK, RequestTypes, RegistryTypes, IndexesAgree, Locations
<1>3. next_id \in Nat \ {0} /\ cur[t] \in DOMAIN owner /\ DOMAIN owner = 1..(next_id - 1)
  <2>1. next_id \in Nat \ {0} /\ cur[t] \in 0..(next_id - 1) /\ cur[t] # 0
    BY <1>1 DEF IInv, TypeOK, RegistryTypes, RequestTypes
  <2> QED
    BY <2>1 DEF IInv, TypeOK, ObjectTypes
<1>4. ObjectTypes'
  <2>1. owner' \in [1..(next_id - 1) -> Tasks \cup {None}]
    BY <1>1 DEF IInv, TypeOK, ObjectTypes
  <2>2. size[cur[t]] \in Nat /\ Cap(size[cur[t]] + 1) \in Nat
    BY <1>3, BoundsAssumption DEF IInv, TypeOK, ObjectTypes, Cap
  <2>3. size' \in [1..(next_id - 1) -> Nat]
    BY <1>1, <2>2 DEF IInv, TypeOK, ObjectTypes
  <2> QED
    BY <1>1, <2>1, <2>3 DEF IInv, TypeOK, ObjectTypes
<1>5. pc'[t] = "run" /\ \A u \in Tasks \ {t} : pc'[u] = pc[u]
  BY <1>1 DEF IInv, TypeOK, RequestTypes
<1>6. NoOrphanToken'
  BY <1>1, <1>5, TokensKept DEF IInv, UnderGuard
<1>7. PendingIdsFresh'
  <2>1. \A u \in Tasks : pc[u] \in Pending => cur[u] # 0
    BY DEF IInv, TypeOK, RequestTypes, Pending
  <2> QED
    BY <1>1, <1>5, <2>1, PendingKept DEF IInv, Pending
<1>8. LockHeldByRunner'
  <2>1. SUFFICES ASSUME NEW i \in DOMAIN owner', NEW u \in Tasks
                 PROVE  owner'[i] = u <=> pc'[u] = "run" /\ cur'[u] = i
    BY DEF LockHeldByRunner
  <2>2. i \in DOMAIN owner /\ owner'[cur[t]] = t /\ (i # cur[t] => owner'[i] = owner[i])
    BY <1>1, <1>3
  <2>3. owner[i] = u <=> pc[u] = "run" /\ cur[u] = i
    BY <2>2 DEF IInv, LockHeldByRunner
  <2>4. CASE i = cur[t]
    BY <1>1, <1>5, <2>2, <2>3, <2>4, NoneAssumption
  <2>5. CASE i # cur[t]
    BY <1>1, <1>5, <2>2, <2>3, <2>5
  <2> QED
    BY <2>4, <2>5
<1> QED
  BY <1>2, <1>4, <1>6, <1>7, <1>8 DEF IInv, TypeOK

(* A task that leaves its run and gives the lock back, for its guard or    *)
(* for its next request.                                                   *)
LEMMA LeaveRun ==
  ASSUME IInv, NEW t \in Tasks, pc[t] = "run",
         owner' = [owner EXCEPT ![cur[t]] = None],
         UNCHANGED <<by_id, by_handle, next_id>>,
         RequestTypes', ObjectTypes',
         \A u \in Tasks \ {t} : pc'[u] = pc[u] /\ cur'[u] = cur[u] /\ req'[u] = req[u],
         pc'[t] \in {"idle", "guard"},
         cur'[t] = cur[t] \/ cur'[t] = 0,
         UnderGuard(t) => UnderGuard(t)' /\ cur'[t] = cur[t]
  PROVE  IInv'
<1>1. RegistryTypes' /\ IndexesAgree'
  BY DEF IInv, TypeOK, RegistryTypes, IndexesAgree
<1>2. NoOrphanToken'
  BY TokensKept DEF IInv, UnderGuard
<1>3. PendingIdsFresh'
  <2>1. \A u \in Tasks : pc[u] \in Pending => cur[u] # 0
    BY DEF IInv, TypeOK, RequestTypes, Pending
  <2> QED
    BY <2>1, PendingKept DEF IInv, Pending
<1>4. LockHeldByRunner'
  <2>1. SUFFICES ASSUME NEW i \in DOMAIN owner', NEW u \in Tasks
                 PROVE  owner'[i] = u <=> pc'[u] = "run" /\ cur'[u] = i
    BY DEF LockHeldByRunner
  <2>2. i \in DOMAIN owner /\ (i = cur[t] => owner'[i] = None) /\ (i # cur[t] => owner'[i] = owner[i])
    BY DEF IInv, TypeOK, ObjectTypes
  <2>3. owner[i] = u <=> pc[u] = "run" /\ cur[u] = i
    BY <2>2 DEF IInv, LockHeldByRunner
  <2>4. owner[i] = t <=> pc[t] = "run" /\ cur[t] = i
    BY <2>2 DEF IInv, LockHeldByRunner
  <2>5. CASE u = t
    BY <2>2, <2>4, <2>5, NoneAssumption
  <2>6. CASE u # t
    BY <2>2, <2>3, <2>4, <2>6, NoneAssumption
  <2> QED
    BY <2>5, <2>6
<1> QED
  BY <1>1, <1>2, <1>3, <1>4 DEF IInv, TypeOK

LEMMA UnlockStep ==
  ASSUME IInv, NEW t \in Tasks, pc[t] = "run", Unlock(t),
         size' \in [1..(next_id - 1) -> Nat],
         stored' \in [Handles -> [count : Nat, keys : Nat, archived : BOOLEAN] \cup {None}]
  PROVE  IInv'
<1>1. /\ owner' = [owner EXCEPT ![cur[t]] = None]
      /\ UNCHANGED <<by_id, by_handle, next_id>>
  BY DEF Unlock, Release, registry
<1>2. ObjectTypes'
  BY <1>1 DEF IInv, TypeOK, ObjectTypes
<1>3. CASE req[t].kind \in Guarded
  <2>1. pc' = [pc EXCEPT ![t] = "guard"] /\ UNCHANGED <<req, cur, fired, listed>>
    BY <1>3 DEF Unlock, Goto
  <2>2. RequestTypes'
    BY <1>1, <2>1 DEF IInv, TypeOK, RequestTypes, Locations
  <2>3. pc'[t] = "guard" /\ \A u \in Tasks \ {t} : pc'[u] = pc[u]
    BY <2>1 DEF IInv, TypeOK, RequestTypes
  <2>4. UnderGuard(t) => UnderGuard(t)'
    BY <2>1, <2>3 DEF UnderGuard
  <2> QED
    BY <1>1, <1>2, <2>1, <2>2, <2>3, <2>4, LeaveRun
<1>4. CASE req[t].kind \notin Guarded
  <2>1. Reply(t)
    BY <1>4 DEF Unlock
  <2>2. /\ RequestTypes' /\ pc'[t] = "idle" /\ cur'[t] = 0
        /\ \A u \in Tasks \ {t} : pc'[u] = pc[u] /\ cur'[u] = cur[u] /\ req'[u] = req[u]
    BY <1>1, <2>1, ReplyTypes DEF IInv, TypeOK, RegistryTypes
  <2>3. ~UnderGuard(t)
    BY <1>4 DEF UnderGuard
  <2> QED
    BY <1>1, <1>2, <2>2, <2>3, LeaveRun
<1> QED
  BY <1>3, <1>4

(* Every way out of a run through the lock's release.                      *)
LEMMA FinishSteps ==
  ASSUME IInv, NEW t \in Tasks,
         FinishTurn(t) \/ TurnFails(t) \/ FinishCompact(t) \/ StopCancelled(t)
  PROVE  IInv'
<1> DEFINE StoredType == [count : Nat, keys : Nat, archived : BOOLEAN] \cup {None}
<1>1. pc[t] = "run" /\ Unlock(t)
  BY DEF FinishTurn, TurnFails, FinishCompact, StopCancelled
<1>2. size' \in [1..(next_id - 1) -> Nat]
  <2>1. size' = size \/ size' = [size EXCEPT ![cur[t]] = 1]
    BY DEF FinishTurn, TurnFails, FinishCompact, StopCancelled
  <2> QED
    BY <2>1 DEF IInv, TypeOK, ObjectTypes
<1>3. \A s \in StoredType : AppendTurn(s) \in StoredType /\ Compacted(s) \in StoredType
  BY BoundsAssumption DEF AppendTurn, Compacted, Cap
<1>4. stored' \in [Handles -> StoredType]
  <2>1. \/ stored' = stored
        \/ stored' = [stored EXCEPT ![req[t].handle] = AppendTurn(@)]
        \/ stored' = [stored EXCEPT ![req[t].handle] = Compacted(@)]
    BY DEF FinishTurn, TurnFails, FinishCompact, StopCancelled
  <2>2. stored \in [Handles -> StoredType]
    BY DEF IInv, TypeOK, ObjectTypes
  <2> HIDE DEF StoredType
  <2> QED
    BY <1>3, <2>1, <2>2
<1> QED
  BY <1>1, <1>2, <1>4, UnlockStep

LEMMA AbandonStep ==
  ASSUME IInv, NEW t \in Tasks, Abandon(t)
  PROVE  IInv'
<1>1. /\ pc[t] \in {"opened", "wait", "run"} /\ req[t].kind \in Guarded
      /\ Goto(t, "guard") /\ cur[t] # 0
      /\ owner' = IF pc[t] = "run" THEN [owner EXCEPT ![cur[t]] = None] ELSE owner
      /\ UNCHANGED <<by_id, by_handle, next_id, req, cur, fired, listed, size, stored>>
  BY DEF Abandon, Release, registry, IInv, TypeOK, RequestTypes
<1>2. ObjectTypes' /\ listed' \in [Tasks -> SUBSET (1..(next_id - 1))]
  BY <1>1 DEF IInv, TypeOK, ObjectTypes, RequestTypes
<1>3. CASE pc[t] # "run"
  BY <1>1, <1>2, <1>3, GotoStep DEF Locations, Pending
<1>4. CASE pc[t] = "run"
  <2>1. pc' = [pc EXCEPT ![t] = "guard"]
    BY <1>1 DEF Goto
  <2>2. RequestTypes'
    BY <1>1, <2>1 DEF IInv, TypeOK, RequestTypes, Locations
  <2>3. pc'[t] = "guard" /\ \A u \in Tasks \ {t} : pc'[u] = pc[u]
    BY <2>1 DEF IInv, TypeOK, RequestTypes
  <2>4. UnderGuard(t) => UnderGuard(t)'
    BY <1>1, <2>3 DEF UnderGuard
  <2> QED
    BY <1>1, <1>2, <1>4, <2>2, <2>3, <2>4, LeaveRun
<1> QED
  BY <1>3, <1>4

(* The guard clears whatever token its session has; its own token, if it   *)
(* is registered at all, is on that session.                               *)
LEMMA EndCancelStep ==
  ASSUME IInv, NEW t \in Tasks, EndCancel(t)
  PROVE  IInv'
<1>1. /\ pc[t] = "guard" /\ Reply(t)
      /\ by_id' = IF cur[t] \in DOMAIN by_id THEN [by_id EXCEPT ![cur[t]].cancel = None] ELSE by_id
      /\ UNCHANGED <<by_handle, next_id, owner, size, stored>>
  BY DEF EndCancel
<1>2. /\ RequestTypes' /\ pc'[t] = "idle" /\ cur'[t] = 0
      /\ \A u \in Tasks \ {t} : pc'[u] = pc[u] /\ cur'[u] = cur[u] /\ req'[u] = req[u]
  BY <1>1, ReplyTypes DEF IInv, TypeOK, RegistryTypes
<1>3. /\ DOMAIN by_id' = DOMAIN by_id
      /\ \A i \in DOMAIN by_id : by_id'[i] \in LiveRecord /\ by_id'[i].handle = by_id[i].handle
      /\ \A i \in DOMAIN by_id : i # cur[t] => by_id'[i] = by_id[i]
      /\ cur[t] \in DOMAIN by_id => by_id'[cur[t]].cancel = None
  <2>1. \A i \in DOMAIN by_id : by_id[i] \in LiveRecord
    BY DEF IInv, TypeOK, RegistryTypes, LiveRecord
  <2> QED
    BY <1>1, <2>1 DEF LiveRecord
<1>4. RegistryTypes' /\ IndexesAgree' /\ ObjectTypes'
  <2>1. RegistryTypes'
    BY <1>1, <1>3 DEF IInv, TypeOK, RegistryTypes, LiveRecord
  <2>2. IndexesAgree'
    BY <1>1, <1>3 DEF IInv, IndexesAgree
  <2>3. ObjectTypes'
    BY <1>1 DEF IInv, TypeOK, ObjectTypes
  <2> QED
    BY <2>1, <2>2, <2>3
<1>5. NoOrphanToken'
  <2>1. SUFFICES ASSUME NEW i \in DOMAIN by_id', NEW u \in Tasks, by_id'[i].cancel = u
                 PROVE  cur'[u] = i /\ UnderGuard(u)'
    BY DEF NoOrphanToken
  <2>2. i \in DOMAIN by_id /\ i # cur[t] /\ by_id[i].cancel = u
    BY <1>3, <2>1, NoneAssumption
  <2>3. cur[u] = i /\ UnderGuard(u) /\ u # t
    BY <2>2 DEF IInv, NoOrphanToken
  <2> QED
    BY <1>2, <2>3 DEF UnderGuard
<1>6. PendingIdsFresh'
  <2>1. \A u \in Tasks : pc[u] \in Pending => cur[u] # 0
    BY DEF IInv, TypeOK, RequestTypes, Pending
  <2> QED
    BY <1>2, <1>3, <2>1, PendingKept DEF IInv, Pending
<1>7. LockHeldByRunner'
  BY <1>1, <1>2, LocksKept DEF IInv
<1> QED
  BY <1>2, <1>4, <1>5, <1>6, <1>7 DEF IInv, TypeOK

LEMMA CancelStep ==
  ASSUME IInv, NEW t \in Tasks, Cancel(t)
  PROVE  IInv'
<1>1. /\ pc[t] = "act" /\ pc' = [pc EXCEPT ![t] = "idle"]
      /\ req' = [req EXCEPT ![t] = None] /\ cur' = [cur EXCEPT ![t] = 0]
      /\ UNCHANGED <<by_id, by_handle, next_id, listed, owner, size, stored>>
  BY DEF Cancel, Goto, registry
<1>2. fired' \in SUBSET Tasks
  <2>1. \A i \in DOMAIN by_id : by_id[i].cancel \in Tasks \cup {None}
    BY DEF IInv, TypeOK, RegistryTypes
  <2>2. fired \in SUBSET Tasks
    BY DEF IInv, TypeOK, RequestTypes
  <2> QED
    BY <2>1, <2>2 DEF Cancel
<1>3. RequestTypes'
  BY <1>1, <1>2 DEF IInv, TypeOK, RequestTypes, RegistryTypes, Locations
<1>4. RegistryTypes' /\ IndexesAgree' /\ ObjectTypes'
  BY <1>1 DEF IInv, TypeOK, RegistryTypes, IndexesAgree, ObjectTypes
<1>5. /\ pc'[t] = "idle" /\ cur'[t] = 0
      /\ \A u \in Tasks \ {t} : pc'[u] = pc[u] /\ cur'[u] = cur[u] /\ req'[u] = req[u]
  BY <1>1 DEF IInv, TypeOK, RequestTypes
<1>6. NoOrphanToken'
  BY <1>1, <1>5, TokensKept DEF IInv, UnderGuard
<1>7. PendingIdsFresh'
  <2>1. \A u \in Tasks : pc[u] \in Pending => cur[u] # 0
    BY DEF IInv, TypeOK, RequestTypes, Pending
  <2> QED
    BY <1>1, <1>5, <2>1, PendingKept DEF IInv, Pending
<1>8. LockHeldByRunner'
  BY <1>1, <1>5, LocksKept DEF IInv
<1> QED
  BY <1>3, <1>4, <1>6, <1>7, <1>8 DEF IInv, TypeOK

LEMMA CloseStep ==
  ASSUME IInv, NEW t \in Tasks, Close(t)
  PROVE  IInv'
<1> DEFINE gone == {cur[t]} \cap DOMAIN by_id
<1>1. /\ pc[t] = "act" /\ Reply(t)
      /\ by_id' = Restrict(by_id, DOMAIN by_id \ gone)
      /\ by_handle' = RemoveByHandle(by_handle, by_id, gone)
      /\ UNCHANGED <<next_id, owner, size, stored>>
  BY DEF Close
<1>2. /\ RequestTypes' /\ pc'[t] = "idle" /\ cur'[t] = 0
      /\ \A u \in Tasks \ {t} : pc'[u] = pc[u] /\ cur'[u] = cur[u] /\ req'[u] = req[u]
  BY <1>1, ReplyTypes DEF IInv, TypeOK, RegistryTypes
<1>3. DropsFrom(by_id, by_handle)
  <2>1. \A i \in DOMAIN by_id : by_id[i] \in LiveRecord
    BY DEF IInv, TypeOK, RegistryTypes, LiveRecord
  <2>2. DOMAIN by_id' = DOMAIN by_id \ gone /\ \A i \in DOMAIN by_id' : by_id'[i] = by_id[i]
    BY <1>1 DEF Restrict
  <2>3. DOMAIN by_id \ DOMAIN by_id' = gone
    BY <2>2
  <2>4. /\ DOMAIN by_handle' = DOMAIN by_handle \ {by_id[i].handle : i \in gone}
        /\ \A h \in DOMAIN by_handle' : by_handle'[h] = by_handle[h]
    BY <1>1 DEF RemoveByHandle, Restrict
  <2> HIDE DEF gone
  <2> QED
    BY <2>1, <2>2, <2>3, <2>4 DEF DropsFrom
<1>4. IndexesAgree'
  <2>1. Agree(by_id, by_handle)
    BY DEF IInv, IndexesAgree, Agree
  <2> QED
    BY <1>3, <2>1, DropKeepsAgreement
<1>5. RegistryTypes' /\ ObjectTypes'
  BY <1>1, <1>3 DEF IInv, TypeOK, RegistryTypes, ObjectTypes, LiveRecord, DropsFrom
<1>6. NoOrphanToken'
  BY <1>1, <1>2, <1>3, TokensKept DEF IInv, UnderGuard, DropsFrom
<1>7. PendingIdsFresh'
  <2>1. \A u \in Tasks : pc[u] \in Pending => cur[u] # 0
    BY DEF IInv, TypeOK, RequestTypes, Pending
  <2> QED
    BY <1>1, <1>2, <1>3, <2>1, PendingKept DEF IInv, Pending, DropsFrom
<1>8. LockHeldByRunner'
  BY <1>1, <1>2, LocksKept DEF IInv
<1> QED
  BY <1>2, <1>4, <1>5, <1>6, <1>7, <1>8 DEF IInv, TypeOK
-----------------------------------------------------------------------------
LEMMA StutterIInv ==
  ASSUME IInv, UNCHANGED vars
  PROVE  IInv'
BY DEF vars, IInv, TypeOK, RegistryTypes, RequestTypes, ObjectTypes, IndexesAgree,
       PendingIdsFresh, NoOrphanToken, UnderGuard, LockHeldByRunner

LEMMA NextIInv == IInv /\ [Next]_vars => IInv'
<1> SUFFICES ASSUME IInv, [Next]_vars PROVE IInv'
  OBVIOUS
<1>1. CASE UNCHANGED vars
  BY <1>1, StutterIInv
<1>2. ASSUME NEW t \in Tasks, NEW k \in Kinds, NEW h \in Handles, Request(t, k, h)
      PROVE  IInv'
  BY <1>2, RequestStep
<1>3. ASSUME NEW t \in Tasks, Step(t) PROVE IInv'
  <2>1. CASE CheckAbsent(t)
    BY <2>1, ReplyingSteps, CheckPasses
  <2>2. CASE FindHit(t)
    BY <2>2, FindHitStep
  <2>3. CASE FindMiss(t)
    BY <2>3, ReplyingSteps, FindMissStep
  <2>4. CASE Reprice(t)
    BY <2>4, RepriceStep
  <2>5. CASE Load(t)
    BY <2>5, LoadStep
  <2>6. CASE OpenFails(t) \/ Created(t) \/ ListDone(t)
    BY <2>6, ReplyingSteps
  <2>7. CASE CreateStored(t)
    BY <2>7, CreateStoredStep
  <2>8. CASE Insert(t)
    BY <2>8, InsertStep
  <2>9. CASE BeginCancel(t)
    BY <2>9, BeginCancelStep
  <2>10. CASE Uncancellable(t)
    BY <2>10, UncancellableStep
  <2>11. CASE StopCancelled(t)
    BY <2>11, FinishSteps
  <2>12. CASE EndCancel(t)
    BY <2>12, EndCancelStep
  <2>13. CASE Cancel(t)
    BY <2>13, CancelStep
  <2>14. CASE Close(t)
    BY <2>14, CloseStep
  <2>15. CASE ListStart(t)
    BY <2>15, ListStartStep
  <2> QED
    BY <1>3, <2>1, <2>2, <2>3, <2>4, <2>5, <2>6, <2>7, <2>8, <2>9, <2>10, <2>11, <2>12,
       <2>13, <2>14, <2>15 DEF Step
<1>4. ASSUME NEW t \in Tasks, Locking(t) PROVE IInv'
  BY <1>4, AcquireStep, ListNextStep DEF Locking
<1>5. ASSUME NEW t \in Tasks, Finish(t) PROVE IInv'
  BY <1>5, FinishSteps DEF Finish
<1>6. ASSUME NEW t \in Tasks, Abandon(t) PROVE IInv'
  BY <1>6, AbandonStep
<1> QED
  BY <1>1, <1>2, <1>3, <1>4, <1>5, <1>6 DEF Next

(* The inductive invariant holds of every behaviour of the registry.       *)
THEOREM Invariance == Spec => []IInv
<1>1. Init => IInv
  BY InitIInv
<1>2. IInv /\ [Next]_vars => IInv'
  BY NextIInv
<1> QED
  BY <1>1, <1>2, PTL DEF Spec

(* Every variable of the registry, of the requests and of the session      *)
(* objects stays within its type.                                          *)
THEOREM TypeCorrect == Spec => []TypeOK
<1>1. IInv => TypeOK
  BY DEF IInv
<1> QED
  BY <1>1, Invariance, PTL

(* The two indexes of Registry never disagree, for any number of tasks and *)
(* handles and any byte bound.                                             *)
THEOREM IndexesNeverDisagree == Spec => []IndexesAgree
<1>1. IInv => IndexesAgree
  BY DEF IInv
<1> QED
  BY <1>1, Invariance, PTL

(* An id on its way to Sessions::insert is registered nowhere.             *)
THEOREM InsertsAreFresh == Spec => []PendingIdsFresh
<1>1. IInv => PendingIdsFresh
  BY DEF IInv
<1> QED
  BY <1>1, Invariance, PTL

(* A registered cancellation token is that of an operation on this session *)
(* whose CancelGuard is still alive.                                       *)
THEOREM TokensAreLive == Spec => []NoOrphanToken
<1>1. IInv => NoOrphanToken
  BY DEF IInv
<1> QED
  BY <1>1, Invariance, PTL

(* The lock of a session is held by exactly the task that runs on it.      *)
THEOREM LocksAreHeldByRunners == Spec => []LockHeldByRunner
<1>1. IInv => LockHeldByRunner
  BY DEF IInv
<1> QED
  BY <1>1, Invariance, PTL
-----------------------------------------------------------------------------
LEMMA RepriceSpares ==
  ASSUME IInv, NEW t \in Tasks, Reprice(t)
  PROVE  SparesInUse
<1> DEFINE i == cur[t]
           priced == [by_id EXCEPT ![i].bytes = size[i]]
           held == UNION {Holding(u) : u \in Tasks}
<1>1. \A j \in DOMAIN by_id : by_id[j] \in LiveRecord
  BY DEF IInv, TypeOK, RegistryTypes, LiveRecord
<1>2. ASSUME i \in DOMAIN by_id, Evict(priced, by_handle, held, recency)
      PROVE  \A j \in DOMAIN by_id \ DOMAIN by_id' : by_id[j].cancel = None /\ j \notin held
  <2>1. size[i] \in Nat
    BY <1>2 DEF IInv, TypeOK, RegistryTypes, ObjectTypes
  <2>2. /\ DOMAIN priced = DOMAIN by_id
        /\ \A j \in DOMAIN by_id : priced[j] \in LiveRecord /\ priced[j].cancel = by_id[j].cancel
    BY <1>1, <2>1 DEF LiveRecord
  <2>3. DOMAIN by_id \subseteq DOMAIN size /\ \A j \in DOMAIN size : size[j] \in Nat
    BY DEF IInv, TypeOK, RegistryTypes, ObjectTypes
  <2> HIDE DEF priced, held
  <2>4. WellFormed(priced)
    BY <2>2, <2>3 DEF WellFormed
  <2> QED
    BY <1>2, <2>2, <2>4, EvictDropsOnly
<1>3. CASE DOMAIN by_id' = DOMAIN by_id
  BY <1>3 DEF SparesInUse
<1>4. CASE i \in DOMAIN by_id /\ Evict(priced, by_handle, held, recency)
  BY <1>2, <1>4 DEF SparesInUse, InUse
<1> QED
  BY <1>3, <1>4 DEF Reprice, registry

LEMMA InsertSpares ==
  ASSUME IInv, NEW t \in Tasks, Insert(t)
  PROVE  SparesInUse
<1> DEFINE i == cur[t]
           live == [handle |-> req[t].handle, cancel |-> None, bytes |-> size[i]]
           L == InsertById(i, live)
           H == InsertByHandle(i, live)
           held == {i} \cup UNION {Holding(u) : u \in Tasks}
           order == SelectSeq(Touch(i), LAMBDA j : j \in DOMAIN L)
<1>1. pc[t] = "insert" /\ Evict(L, H, held, order)
  BY DEF Insert
<1>2. i \notin DOMAIN by_id
  BY <1>1 DEF IInv, PendingIdsFresh
<1>3. live \in LiveRecord /\ i \in DOMAIN size
  <2>1. next_id \in Nat \ {0} /\ i \in 0..(next_id - 1) /\ i # 0
    BY <1>1 DEF IInv, TypeOK, RegistryTypes, RequestTypes
  <2>2. req[t] \in [kind : AllKinds, handle : Handles]
    BY <1>1 DEF IInv, TypeOK, RequestTypes
  <2>3. i \in DOMAIN size /\ size[i] \in Nat
    BY <2>1 DEF IInv, TypeOK, ObjectTypes
  <2> QED
    BY <2>2, <2>3 DEF LiveRecord
<1>4. /\ i \in held /\ \A u \in Tasks : Holding(u) \subseteq held
      /\ \A j : j \in DOMAIN by_id \ DOMAIN L => by_id[j].handle = live.handle
  BY DEF InsertById, With, Restrict, IInv, IndexesAgree
<1>5. live.handle \in DOMAIN H /\ H[live.handle] = i
  BY DEF InsertByHandle, With
<1> HIDE DEF live, held, order
<1>6. /\ Agree(L, H) /\ i \in DOMAIN L /\ L[i] = live
      /\ \A j \in DOMAIN L \ {i} : j \in DOMAIN by_id /\ L[j] = by_id[j]
  BY <1>2, InsertAgrees DEF IInv
<1> HIDE DEF L, H, i
<1>7. WellFormed(L)
  BY <1>3, <1>6 DEF WellFormed, LiveRecord, IInv, TypeOK, RegistryTypes, ObjectTypes
<1>8. DropsFrom(L, H) /\ \A j \in DOMAIN L \ DOMAIN by_id' : L[j].cancel = None /\ j \notin held
  BY <1>1, <1>7, EvictDropsOnly
<1>9. i \in DOMAIN by_id' /\ live.handle \in DOMAIN by_handle' /\ by_handle'[live.handle] = i
  <2>1. i \in DOMAIN by_id'
    BY <1>4, <1>6, <1>8
  <2>2. \A j \in DOMAIN L \ DOMAIN by_id' : L[j].handle # live.handle
    BY <1>5, <1>6, <2>1 DEF Agree
  <2> QED
    BY <1>5, <1>8, <2>1, <2>2 DEF DropsFrom
<1>10. SUFFICES ASSUME NEW j \in DOMAIN by_id \ DOMAIN by_id'
                PROVE  \/ by_id[j].handle \in DOMAIN by_handle' /\ by_handle'[by_id[j].handle] # j
                       \/ ~InUse(j)
  BY DEF SparesInUse
<1>11. CASE j \in DOMAIN L
  BY <1>2, <1>4, <1>6, <1>8, <1>11 DEF InUse
<1>12. CASE j \notin DOMAIN L
  BY <1>2, <1>4, <1>9, <1>12
<1> QED
  BY <1>11, <1>12

LEMMA NextSpares == IInv /\ [Next]_vars => SparesInUse
<1> SUFFICES ASSUME IInv, [Next]_vars PROVE SparesInUse
  OBVIOUS
<1>1. CASE DOMAIN by_id' = DOMAIN by_id
  BY <1>1 DEF SparesInUse
<1>2. ASSUME NEW t \in Tasks, Close(t) PROVE SparesInUse
  <2>1. /\ pc[t] = "act" /\ req[t].kind = "kill"
        /\ DOMAIN by_id \ DOMAIN by_id' \subseteq {cur[t]}
    BY <1>2 DEF Close, Restrict
  <2>2. pc'[t] = "idle"
    BY <1>2, ReplyTypes DEF Close, IInv, TypeOK, RegistryTypes
  <2> QED
    BY <2>1, <2>2 DEF SparesInUse
<1>3. ASSUME NEW t \in Tasks, NEW k \in Kinds, NEW h \in Handles, Request(t, k, h)
      PROVE  DOMAIN by_id' = DOMAIN by_id
  BY <1>3 DEF Request, registry
<1>4. ASSUME NEW t \in Tasks, Step(t), ~Reprice(t), ~Insert(t), ~Close(t)
      PROVE  DOMAIN by_id' = DOMAIN by_id
  BY <1>4 DEF Step, CheckAbsent, FindHit, FindMiss, Load, OpenFails, CreateStored, Created,
       BeginCancel, Uncancellable, StopCancelled, EndCancel, Cancel, ListStart, ListDone,
       Unlock, registry
<1>5. ASSUME NEW t \in Tasks, Locking(t) \/ Finish(t) \/ Abandon(t)
      PROVE  DOMAIN by_id' = DOMAIN by_id
  BY <1>5 DEF Locking, Finish, Acquire, ListNext, FinishTurn, TurnFails, FinishCompact, Abandon,
       Unlock, registry
<1>6. CASE UNCHANGED vars
  BY <1>6, <1>1 DEF vars
<1> QED
  BY <1>1, <1>2, <1>3, <1>4, <1>5, <1>6, RepriceSpares, InsertSpares DEF Next

(* Only a close by name, an open of the same handle, or the eviction of a  *)
(* session nobody uses ever takes a session out of the registry.           *)
THEOREM EvictionIsSafe == Spec => EvictionSparesInUse
<1>1. IInv /\ [Next]_vars => [SparesInUse]_vars
  BY NextSpares
<1>2. Spec => [][SparesInUse]_vars
  BY <1>1, Invariance, PTL DEF Spec
<1> QED
  BY <1>2 DEF EvictionSparesInUse
-----------------------------------------------------------------------------
(* What an eviction leaves.                                                *)

LEMMA LeastNumber ==
  ASSUME NEW T, T \subseteq Nat, T # {}
  PROVE  \E x \in T : \A y \in T : x <= y
<1> DEFINE Less == OpToRel(<, Nat)
<1>1. IsWellFoundedOn(Less, Nat)
  BY NatLessThanWellFounded, Zenon
<1>2. \A x, y \in Nat : x < y => <<x, y>> \in Less
  BY DEF OpToRel
<1> HIDE DEF Less
<1>3. PICK x \in T : \A y \in T : ~(<<y, x>> \in Less)
  BY <1>1, WFMin
<1>4. ASSUME NEW y \in T PROVE x <= y
  <2>1. x \in Nat /\ y \in Nat
    OBVIOUS
  <2>2. ~(y < x)
    BY <1>2, <1>3, <2>1
  <2> QED
    BY <2>1, <2>2
<1> QED
  BY <1>4

(* What is left once the victims are gone fits, or has no candidate in it. *)
LEMMA VictimsSuffice ==
  ASSUME NEW lives, NEW held, NEW order, IsFiniteSet(DOMAIN lives)
  PROVE  \/ Resident(lives, DOMAIN lives \ Victims(lives, held, order)) <= MaxBytes
         \/ Victims(lives, held, order) = Candidates(lives, held)
<1> DEFINE cand == Candidates(lives, held)
           Before(i, j) == \E m, n \in DOMAIN order : m < n /\ order[m] = i /\ order[n] = j
           lru(n) == {i \in cand : Cardinality({j \in cand : Before(j, i)}) < n}
           fits(n) == Resident(lives, DOMAIN lives \ lru(n)) <= MaxBytes
           wanted == {n \in 0..Cardinality(cand) : fits(n)}
           least == CHOOSE n \in wanted : \A m \in wanted : n <= m
<1>1. Victims(lives, held, order) = IF wanted = {} THEN cand ELSE lru(least)
  BY DEF Victims
<1>2. CASE wanted = {}
  BY <1>1, <1>2
<1>3. CASE wanted # {}
  <2>1. Cardinality(cand) \in Nat
    BY CandidatesAreLive, FS_Subset, FS_CardinalityType
  <2>2. wanted \subseteq Nat
    BY <2>1
  <2> HIDE DEF wanted
  <2>3. \E n \in wanted : \A m \in wanted : n <= m
    BY <1>3, <2>2, LeastNumber
  <2>4. least \in wanted
    BY <2>3
  <2>5. fits(least)
    BY <2>4 DEF wanted
  <2> QED
    BY <1>1, <1>3, <2>5
<1> QED
  BY <1>2, <1>3

(* After an eviction the memory in use is within the bound, or what is     *)
(* left is in flight or held.                                              *)
LEMMA EvictBounds ==
  ASSUME NEW lives, NEW handles, NEW held, NEW order,
         IsFiniteSet(DOMAIN lives), WellFormed(lives),
         Evict(lives, handles, held, order), UNCHANGED <<owner, size>>
  PROVE  \/ Measured' <= MaxBytes
         \/ \A i \in DOMAIN by_id' : by_id'[i].cancel # None \/ i \in held
<1> DEFINE priced == Repriced(lives)
           gone == Victims(priced, held, order)
           left == DOMAIN priced \ gone
<1>1. by_id' = Restrict(priced, left)
  BY DEF Evict
<1>2. DOMAIN priced = DOMAIN lives
  BY DEF Repriced
<1>3. \A i \in DOMAIN priced : owner[i] = None => priced[i].bytes = size[i]
  BY DEF Repriced, WellFormed, LiveRecord
<1>4. \/ Resident(priced, left) <= MaxBytes
      \/ gone = Candidates(priced, held)
  BY <1>2, VictimsSuffice
<1>5. \A i \in DOMAIN priced \ Candidates(priced, held) : priced[i].cancel # None \/ i \in held
  BY DEF Candidates
<1> HIDE DEF priced, gone
<1>6. DOMAIN by_id' = left /\ \A i \in left : by_id'[i] = priced[i]
  BY <1>1 DEF Restrict
<1>7. [i \in DOMAIN by_id' |-> IF owner'[i] = None THEN size'[i] ELSE by_id'[i].bytes]
        = [i \in left |-> priced[i].bytes]
  BY <1>3, <1>6
<1>8. Measured' = Resident(priced, left)
  BY <1>7 DEF Measured, Resident
<1> QED
  BY <1>4, <1>5, <1>6, <1>8

LEMMA InsertBounds ==
  ASSUME IInv, NEW t \in Tasks, Insert(t)
  PROVE  Measured' <= MaxBytes \/ \A i \in DOMAIN by_id' : InUse(i)'
<1> DEFINE i == cur[t]
           live == [handle |-> req[t].handle, cancel |-> None, bytes |-> size[i]]
           L == InsertById(i, live)
           H == InsertByHandle(i, live)
           held == {i} \cup UNION {Holding(u) : u \in Tasks}
           order == SelectSeq(Touch(i), LAMBDA j : j \in DOMAIN L)
<1>1. /\ pc[t] = "insert" /\ pc' = [pc EXCEPT ![t] = "opened"]
      /\ Evict(L, H, held, order)
      /\ UNCHANGED <<cur, listed, owner, size>>
  BY DEF Insert, Goto
<1>2. i \notin DOMAIN by_id
  BY <1>1 DEF IInv, PendingIdsFresh
<1>3. live \in LiveRecord /\ i \in DOMAIN size
  <2>1. next_id \in Nat \ {0} /\ i \in 0..(next_id - 1) /\ i # 0
    BY <1>1 DEF IInv, TypeOK, RegistryTypes, RequestTypes
  <2>2. req[t] \in [kind : AllKinds, handle : Handles]
    BY <1>1 DEF IInv, TypeOK, RequestTypes
  <2>3. i \in DOMAIN size /\ size[i] \in Nat
    BY <2>1 DEF IInv, TypeOK, ObjectTypes
  <2> QED
    BY <2>2, <2>3 DEF LiveRecord
(* Who held a session still does, and the task that opens it holds it now. *)
<1>4. \A j \in held : \E u \in Tasks : j \in Holding(u)'
  <2>1. pc \in [Tasks -> Locations]
    BY DEF IInv, TypeOK, RequestTypes
  <2>2. i \in Holding(t)'
    BY <1>1, <2>1 DEF Holding
  <2>3. Holding(t) = {}
    BY <1>1 DEF Holding
  <2>4. \A u \in Tasks \ {t} : Holding(u)' = Holding(u)
    BY <1>1, <2>1 DEF Holding
  <2> QED
    BY <2>2, <2>3, <2>4
<1> HIDE DEF live, held, order
<1>5. /\ i \in DOMAIN L /\ L[i] = live
      /\ \A j \in DOMAIN L \ {i} : j \in DOMAIN by_id /\ L[j] = by_id[j]
  BY <1>2, InsertAgrees DEF IInv
<1> HIDE DEF L, H, i
<1>6. WellFormed(L)
  BY <1>3, <1>5 DEF WellFormed, LiveRecord, IInv, TypeOK, RegistryTypes, ObjectTypes
<1>7. IsFiniteSet(DOMAIN L)
  <2>1. next_id - 1 \in Int /\ DOMAIN size = 1..(next_id - 1)
    BY DEF IInv, TypeOK, RegistryTypes, ObjectTypes
  <2> QED
    BY <1>6, <2>1, FS_Interval, FS_Subset DEF WellFormed
<1> QED
  BY <1>1, <1>4, <1>6, <1>7, EvictBounds DEF InUse

LEMMA RepriceAddsNone ==
  ASSUME IInv, NEW t \in Tasks, Reprice(t)
  PROVE  DOMAIN by_id' \subseteq DOMAIN by_id
BY DEF Reprice, Evict, Repriced, Restrict, registry

LEMMA NextBounds == IInv /\ [Next]_vars => WithinBound
<1> SUFFICES ASSUME IInv, [Next]_vars, ~(\E t \in Tasks : Insert(t))
             PROVE  DOMAIN by_id' \subseteq DOMAIN by_id
  BY InsertBounds DEF WithinBound
<1>1. ASSUME NEW t \in Tasks, NEW k \in Kinds, NEW h \in Handles, Request(t, k, h)
      PROVE  DOMAIN by_id' = DOMAIN by_id
  BY <1>1 DEF Request, registry
<1>2. ASSUME NEW t \in Tasks, Step(t), ~Reprice(t), ~Insert(t)
      PROVE  DOMAIN by_id' \subseteq DOMAIN by_id
  BY <1>2 DEF Step, CheckAbsent, FindHit, FindMiss, Load, OpenFails, CreateStored, Created,
       BeginCancel, Uncancellable, StopCancelled, EndCancel, Cancel, Close, ListStart, ListDone,
       Unlock, Restrict, registry
<1>3. ASSUME NEW t \in Tasks, Locking(t) \/ Finish(t) \/ Abandon(t)
      PROVE  DOMAIN by_id' = DOMAIN by_id
  BY <1>3 DEF Locking, Finish, Acquire, ListNext, FinishTurn, TurnFails, FinishCompact, Abandon,
       Unlock, registry
<1>4. CASE UNCHANGED vars
  BY <1>4 DEF vars
<1> QED
  BY <1>1, <1>2, <1>3, <1>4, RepriceAddsNone DEF Next

(* Whenever Sessions::insert has made the registry grow, the history kept  *)
(* in memory is within max_bytes, whatever figures were stale before, or   *)
(* every session that is left is in use.                                   *)
THEOREM GrowthStaysBounded == Spec => BoundAfterInsert
<1>1. IInv /\ [Next]_vars => [WithinBound]_vars
  BY NextBounds
<1>2. Spec => [][WithinBound]_vars
  BY <1>1, Invariance, PTL DEF Spec
<1> QED
  BY <1>2 DEF BoundAfterInsert
-----------------------------------------------------------------------------
(***************************************************************************)
(* crabdb.  What is read of a log is a set of offsets, each led to by the  *)
(* one before it, so a write, a cut or a rewriting of the log is followed  *)
(* by what it does to that set, and the index by the largest offset of a   *)
(* key in it.                                                              *)
(***************************************************************************)

(* Induction over the natural numbers, as a set of numbers.                *)
LEMMA SetInduction ==
  ASSUME NEW T, 0 \in T, \A n \in Nat : n \in T => n + 1 \in T
  PROVE  Nat \subseteq T
<1> DEFINE Bad == {n \in Nat : n \notin T}
<1>1. SUFFICES ASSUME Bad # {} PROVE FALSE
  OBVIOUS
<1>2. PICK x \in Bad : \A y \in Bad : x <= y
  <2>1. Bad \subseteq Nat
    OBVIOUS
  <2> HIDE DEF Bad
  <2> QED
    BY <1>1, <2>1, LeastNumber
<1>3. x \in Nat /\ x # 0
  BY <1>2
<1>4. x - 1 \in Nat /\ ~(x <= x - 1)
  BY <1>3
<1>5. x - 1 \in T
  BY <1>2, <1>4
<1>6. (x - 1) + 1 \in T
  BY <1>4, <1>5
<1> QED
  BY <1>2, <1>3, <1>6

LEMMA GreatestNumber ==
  ASSUME NEW S, NEW b \in Nat, S \subseteq 0..b, S # {}
  PROVE  Max(S) \in S /\ \A y \in S : y <= Max(S)
<1> DEFINE T == {b - x : x \in S}
<1>0. \A x \in S : x \in 0..b /\ b - x \in Nat
  OBVIOUS
<1>1. T \subseteq Nat /\ T # {}
  BY <1>0
<1> HIDE DEF T
<1>2. PICK t \in T : \A y \in T : t <= y
  BY <1>1, LeastNumber
<1>3. PICK x \in S : t = b - x
  BY <1>2 DEF T
<1>4. \A y \in S : x >= y
  <2>1. SUFFICES ASSUME NEW y \in S PROVE x >= y
    OBVIOUS
  <2>2. b - y \in T
    BY DEF T
  <2>3. x \in 0..b /\ y \in 0..b
    OBVIOUS
  <2> QED
    BY <1>2, <1>3, <2>2, <2>3
<1>5. Max(S) \in S /\ \A y \in S : Max(S) >= y
  BY <1>4 DEF Max
<1> QED
  BY <1>5

LEMMA MaxIs ==
  ASSUME NEW S, S \subseteq Nat, NEW x \in S, \A y \in S : y <= x
  PROVE  Max(S) = x
<1>1. \A y \in S : x >= y
  OBVIOUS
<1>2. PICK m : m = Max(S) /\ m \in S /\ \A y \in S : m >= y
  BY <1>1 DEF Max
<1>3. m \in Nat /\ x \in Nat /\ m >= x /\ m <= x
  BY <1>2
<1> QED
  BY <1>2, <1>3
-----------------------------------------------------------------------------
(* The replay loop.                                                        *)

(* A file of cells: a sequence in which every record has cells.            *)
Log(f) ==
  /\ Len(f) \in Nat /\ DOMAIN f = 1..Len(f)
  /\ \A i \in 1..Len(f) : CellsOf(f[i].rec) \in Nat \ {0}

(* A replay that starts at s comes to the offsets R and stops at e.        *)
Chain(f, s, R, e) ==
  /\ R \subseteq 0..Len(f) /\ s \in R /\ e \in R
  /\ \A p \in R : s <= p /\ p <= e
  /\ \A p \in R : p # e => p < Len(f) /\ Decode(f, p) = "record" /\ p + CellsOf(f[p + 1].rec) \in R
  /\ \A p \in R : p # s => \E q \in R : q # e /\ p = q + CellsOf(f[q + 1].rec)
  /\ \A p, q \in R : p < q => p + CellsOf(f[p + 1].rec) <= q
  /\ e < Len(f) => Decode(f, e) # "record"

(* The definition of the function that Reached is made with has a value.   *)
Before(g, n) == IF n = 0 THEN {} ELSE g[n - 1]
Upto(f, s, g, n) ==
  Before(g, n) \cup {p \in {n} : p = s \/ \E q \in Before(g, n) : Leads(f, q, p)}

LEMMA UptoExists ==
  ASSUME NEW f, NEW s, NEW N \in Nat
  PROVE  \E g : g = [n \in 0..N |-> Upto(f, s, g, n)]
<1> DEFINE Val(g, n) == Upto(f, s, g, n)
           T == {m \in Nat : \E g : g = [n \in 0..m |-> Val(g, n)]}
<1>1. 0 \in T
  <2> DEFINE g == [n \in 0..0 |-> Val(<<>>, n)]
  <2>1. \A n \in 0..0 : Val(<<>>, n) = Val(g, n)
    BY DEF Upto, Before
  <2>2. g = [n \in 0..0 |-> Val(g, n)]
    BY <2>1
  <2> QED
    BY <2>2
<1>2. ASSUME NEW m \in Nat, m \in T PROVE m + 1 \in T
  <2>1. PICK g : g = [n \in 0..m |-> Val(g, n)]
    BY <1>2
  <2> DEFINE k == [n \in 0..(m + 1) |-> IF n = m + 1 THEN Val(g, n) ELSE g[n]]
  <2>2. \A n \in 0..(m + 1) : Before(k, n) = Before(g, n)
    <3>1. SUFFICES ASSUME NEW n \in 0..(m + 1), n # 0 PROVE k[n - 1] = g[n - 1]
      BY DEF Before
    <3>2. n - 1 \in 0..(m + 1) /\ n - 1 # m + 1
      BY <3>1
    <3> QED
      BY <3>2
  <2>3. \A n \in 0..(m + 1) : k[n] = Val(g, n)
    <3>1. SUFFICES ASSUME NEW n \in 0..(m + 1) PROVE k[n] = Val(g, n)
      OBVIOUS
    <3>2. CASE n = m + 1
      BY <3>2
    <3>3. CASE n # m + 1
      <4>1. n \in 0..m
        BY <3>3
      <4>2. k[n] = g[n]
        BY <3>3
      <4> HIDE DEF Val, k
      <4>3. g[n] = Val(g, n)
        BY <2>1, <4>1
      <4> QED
        BY <4>2, <4>3
    <3> QED
      BY <3>2, <3>3
  <2>4. \A n \in 0..(m + 1) : Val(k, n) = Val(g, n)
    <3> HIDE DEF k
    <3> QED
      BY <2>2 DEF Upto
  <2>5. DOMAIN k = 0..(m + 1) /\ k = [n \in 0..(m + 1) |-> k[n]]
    OBVIOUS
  <2> HIDE DEF Val, k
  <2>6. k = [n \in 0..(m + 1) |-> Val(k, n)]
    BY <2>3, <2>4, <2>5
  <2> QED
    BY <2>6
<1>3. N \in T
  <2> HIDE DEF T
  <2> QED
    BY <1>1, <1>2, SetInduction
<1> QED
  BY <1>3

(* An offset is reached exactly when the replay starts there or comes to   *)
(* it from one that is.                                                    *)
LEMMA ReachedRule ==
  ASSUME NEW f, NEW h, Log(f)
  PROVE  /\ Reached(f, h) \subseteq 0..Len(f)
         /\ \A p \in 0..Len(f) :
              p \in Reached(f, h) <=>
                p = ReplayFrom(h) \/ \E q \in Reached(f, h) : q < p /\ Leads(f, q, p)
<1>1. PICK N \in Nat : N = Len(f)
  BY DEF Log
<1> DEFINE s == ReplayFrom(h)
           U == CHOOSE g : g = [n \in 0..N |-> Upto(f, s, g, n)]
<1>2. Reached(f, h) = U[N]
  BY <1>1 DEF Reached, Upto, Before
<1>3. U = [n \in 0..N |-> Upto(f, s, U, n)]
  BY UptoExists
<1> HIDE DEF U, s
<1>4. U[0] = {p \in {0} : p = s}
  <2>1. 0 \in 0..N
    OBVIOUS
  <2> QED
    BY <1>3, <2>1 DEF Upto, Before
<1>5. ASSUME NEW n \in 0..N, n # 0
      PROVE  U[n] = U[n - 1] \cup {p \in {n} : p = s \/ \E q \in U[n - 1] : Leads(f, q, p)}
  BY <1>3, <1>5 DEF Upto, Before
(* U[n] holds what is reached up to n, and no later value changes it. *)
<1> DEFINE T == {m \in Nat : m <= N =>
                   U[m] \subseteq 0..m /\ \A n \in 0..m : \A p \in 0..n : p \in U[m] <=> p \in U[n]}
<1>6. 0 \in T
  BY <1>4
<1>7. ASSUME NEW m \in Nat, m \in T PROVE m + 1 \in T
  <2>1. SUFFICES ASSUME m + 1 <= N
                 PROVE  /\ U[m + 1] \subseteq 0..(m + 1)
                        /\ \A n \in 0..(m + 1) : \A p \in 0..n : p \in U[m + 1] <=> p \in U[n]
    OBVIOUS
  <2>2. /\ U[m] \subseteq 0..m
        /\ \A n \in 0..m : \A p \in 0..n : p \in U[m] <=> p \in U[n]
    BY <1>7, <2>1
  <2>3. \A p : p # m + 1 => (p \in U[m + 1] <=> p \in U[m])
    <3>1. m + 1 \in 0..N /\ m + 1 # 0 /\ (m + 1) - 1 = m
      BY <2>1
    <3>2. U[m + 1] = U[m] \cup {p \in {m + 1} : p = s \/ \E q \in U[m] : Leads(f, q, p)}
      BY <1>5, <3>1
    <3> QED
      BY <3>2
  <2>4. U[m + 1] \subseteq 0..(m + 1)
    BY <2>2, <2>3
  <2>5. ASSUME NEW n \in 0..(m + 1), NEW p \in 0..n PROVE p \in U[m + 1] <=> p \in U[n]
    <3>1. CASE n = m + 1
      BY <3>1
    <3>2. CASE n # m + 1
      <4>1. n \in 0..m /\ p # m + 1
        BY <3>2
      <4> QED
        BY <2>2, <2>3, <4>1
    <3> QED
      BY <3>1, <3>2
  <2> QED
    BY <2>4, <2>5
<1>8. N \in T
  <2> HIDE DEF T
  <2> QED
    BY <1>6, <1>7, SetInduction
<1>9. U[N] \subseteq 0..N /\ \A n \in 0..N : \A p \in 0..n : p \in U[N] <=> p \in U[n]
  BY <1>8
<1>10. ASSUME NEW p \in 0..N
       PROVE  p \in U[N] <=> p = s \/ \E q \in U[N] : q < p /\ Leads(f, q, p)
  <2>1. p \in U[N] <=> p \in U[p]
    BY <1>9
  <2>2. CASE p = 0
    <3>1. p \in U[p] <=> p = s
      BY <1>4, <2>2
    <3>2. \A q \in U[N] : ~(q < p)
      BY <1>9, <2>2
    <3> QED
      BY <2>1, <3>1, <3>2
  <2>3. CASE p # 0
    <3>1. p - 1 \in 0..N /\ p \notin 0..(p - 1)
      BY <2>3
    <3>2. U[p - 1] \subseteq U[N]
      <4>1. U[p - 1] \subseteq 0..(p - 1)
        <5>1. p - 1 \in T
          <6> HIDE DEF T
          <6> QED
            BY <1>6, <1>7, <3>1, SetInduction
        <5> QED
          BY <3>1, <5>1
      <4> QED
        BY <1>9, <3>1, <4>1
    <3>3. \A q \in U[p - 1] : q < p
      <4>1. p - 1 \in T
        <5> HIDE DEF T
        <5> QED
          BY <1>6, <1>7, <3>1, SetInduction
      <4> QED
        BY <3>1, <4>1
    <3>4. \A q \in U[N] : q < p => q \in U[p - 1]
      <4>1. SUFFICES ASSUME NEW q \in U[N], q < p PROVE q \in U[p - 1]
        OBVIOUS
      <4>2. q \in 0..(p - 1)
        BY <1>9, <4>1
      <4> QED
        BY <1>9, <3>1, <4>2
    <3>5. p \in U[p] <=> p = s \/ \E q \in U[p - 1] : Leads(f, q, p)
      <4>1. p \notin U[p - 1]
        BY <3>3, <3>1
      <4> QED
        BY <1>5, <2>3, <4>1
    <3> QED
      BY <2>1, <3>2, <3>3, <3>4, <3>5
  <2> QED
    BY <2>2, <2>3
<1> QED
  BY <1>1, <1>2, <1>9, <1>10 DEF s

LEMMA LeadsForward ==
  ASSUME NEW f, Log(f), NEW q \in Nat, NEW p, Leads(f, q, p)
  PROVE  /\ q < Len(f) /\ q + 1 \in 1..Len(f) /\ Decode(f, q) = "record"
         /\ p = q + CellsOf(f[q + 1].rec) /\ p \in Nat /\ q < p /\ p <= Len(f)
<1>1. q < Len(f) /\ Decode(f, q) = "record" /\ p = q + CellsOf(f[q + 1].rec)
  BY DEF Leads
<1>2. q + 1 \in 1..Len(f)
  BY <1>1 DEF Log
<1>3. PICK c \in Nat \ {0} : c = CellsOf(f[q + 1].rec)
  BY <1>2 DEF Log
<1>4. ~(q + c > Len(f))
  BY <1>1, <1>3 DEF Decode
<1> QED
  BY <1>1, <1>2, <1>3, <1>4 DEF Log

(* The rule has one solution.                                              *)
LEMMA ReachedIs ==
  ASSUME NEW f, NEW h, Log(f), NEW R, R \subseteq 0..Len(f),
         \A p \in 0..Len(f) :
           p \in R <=> p = ReplayFrom(h) \/ \E q \in R : q < p /\ Leads(f, q, p)
  PROVE  Reached(f, h) = R
<1>1. PICK M : /\ M = Reached(f, h) /\ M \subseteq 0..Len(f)
               /\ \A p \in 0..Len(f) :
                    p \in M <=> p = ReplayFrom(h) \/ \E q \in M : q < p /\ Leads(f, q, p)
  BY ReachedRule
<1> DEFINE Bad == {p \in 0..Len(f) : ~(p \in M <=> p \in R)}
<1>2. SUFFICES ASSUME Bad # {} PROVE FALSE
  BY <1>1
<1>3. Bad \subseteq Nat
  BY DEF Log
<1>4. PICK x \in Bad : \A y \in Bad : x <= y
  <2> HIDE DEF Bad
  <2> QED
    BY <1>2, <1>3, LeastNumber
<1>5. x \in 0..Len(f) /\ Len(f) \in Nat
  BY <1>4 DEF Log
<1>6. \A q \in 0..Len(f) : q < x => (q \in M <=> q \in R)
  BY <1>4, <1>5
<1>7. (\E q \in M : q < x /\ Leads(f, q, x)) <=> (\E q \in R : q < x /\ Leads(f, q, x))
  BY <1>1, <1>6
<1> QED
  BY <1>1, <1>4, <1>5, <1>7

LEMMA ReplayChain ==
  ASSUME NEW f, NEW h, Log(f), ReplayFrom(h) \in 0..Len(f)
  PROVE  Chain(f, ReplayFrom(h), Reached(f, h), ReplayEnd(f, h))
<1>1. PICK N \in Nat : N = Len(f)
  BY DEF Log
<1>2. PICK s \in 0..N : s = ReplayFrom(h)
  BY <1>1
<1>3. PICK R : /\ R = Reached(f, h) /\ R \subseteq 0..N
               /\ \A p \in 0..N : p \in R <=> p = s \/ \E q \in R : q < p /\ Leads(f, q, p)
  BY <1>1, <1>2, ReachedRule
<1>4. s \in R
  BY <1>3
<1>5. PICK e : e = ReplayEnd(f, h) /\ e \in R /\ \A p \in R : p <= e
  BY <1>3, <1>4, GreatestNumber DEF ReplayEnd
<1>6. \A q \in R : \A p : Leads(f, q, p) => p \in R /\ p \in 0..N /\ q < p
  <2>1. SUFFICES ASSUME NEW q \in R, NEW p, Leads(f, q, p) PROVE p \in R /\ p \in 0..N /\ q < p
    OBVIOUS
  <2>2. q \in Nat
    BY <1>3
  <2>3. p \in 0..N /\ q < p
    BY <1>1, <2>1, <2>2, LeadsForward
  <2> QED
    BY <1>3, <2>1, <2>3
<1>7. \A p \in R : s <= p
  <2>1. SUFFICES ASSUME NEW p \in R, p < s PROVE FALSE
    BY <1>2, <1>3
  <2> DEFINE Low == {x \in R : x < s}
  <2>2. Low \subseteq Nat /\ Low # {}
    BY <1>3, <2>1
  <2>3. PICK l \in Low : \A x \in Low : l <= x
    <3> HIDE DEF Low
    <3> QED
      BY <2>2, LeastNumber
  <2>4. PICK q \in R : q < l /\ Leads(f, q, l)
    BY <1>2, <1>3, <2>3
  <2>5. q \in Low /\ ~(l <= q)
    BY <1>2, <1>3, <2>3, <2>4
  <2> QED
    BY <2>3, <2>5
(* Below any reached offset the records follow each other. *)
<1> DEFINE Behind(x) == \A y \in R : y < x => \E p : Leads(f, y, p) /\ p <= x
           Bad == {x \in R : ~Behind(x)}
<1>8. Bad = {}
  <2>1. SUFFICES ASSUME Bad # {} PROVE FALSE
    OBVIOUS
  <2>2. Bad \subseteq Nat /\ Bad \subseteq R
    BY <1>3
  <2>3. PICK x \in Bad : \A y \in Bad : x <= y
    <3> HIDE DEF Bad
    <3> QED
      BY <2>1, <2>2, LeastNumber
  <2>4. PICK y \in R : y < x /\ \A p : Leads(f, y, p) => ~(p <= x)
    BY <2>3
  <2>5. x \in 0..N /\ y \in 0..N /\ x \in R
    BY <1>3, <2>2, <2>3
  <2>6. x # s
    BY <1>2, <1>7, <2>4, <2>5
  <2>7. PICK r \in R : r < x /\ Leads(f, r, x)
    BY <1>3, <2>5, <2>6
  <2>8. r \in 0..N /\ Behind(r)
    <3>1. r \in 0..N /\ ~(x <= r)
      BY <1>3, <2>5, <2>7
    <3>2. r \notin Bad
      BY <2>3, <3>1
    <3> QED
      BY <3>1, <3>2
  <2>9. y # r
    BY <2>4, <2>5, <2>7
  <2>10. ~(y < r)
    <3>1. SUFFICES ASSUME y < r PROVE FALSE
      OBVIOUS
    <3>2. PICK p : Leads(f, y, p) /\ p <= r
      BY <2>8, <3>1
    <3>3. p \in 0..N
      BY <1>6, <3>2
    <3> QED
      BY <2>4, <2>5, <2>7, <2>8, <3>2, <3>3
  <2>11. r < y
    BY <2>5, <2>8, <2>9, <2>10
  <2>12. Behind(y)
    <3>1. ~(x <= y)
      BY <2>4, <2>5
    <3>2. y \notin Bad
      BY <2>3, <3>1
    <3> QED
      BY <3>2
  <2>13. PICK p : Leads(f, r, p) /\ p <= y
    BY <2>11, <2>12
  <2>14. p = x
    BY <2>7, <2>13 DEF Leads
  <2> QED
    BY <2>4, <2>5, <2>13, <2>14
<1>9. \A p \in R : p # e => p < N /\ Decode(f, p) = "record" /\ p + CellsOf(f[p + 1].rec) \in R
  <2>1. SUFFICES ASSUME NEW p \in R, p # e
                 PROVE  p < N /\ Decode(f, p) = "record" /\ p + CellsOf(f[p + 1].rec) \in R
    OBVIOUS
  <2>2. p \in 0..N /\ e \in 0..N /\ p < e
    BY <1>3, <1>5, <2>1
  <2>3. Behind(e)
    BY <1>5, <1>8
  <2>4. PICK q : Leads(f, p, q)
    BY <2>2, <2>3
  <2> QED
    BY <1>1, <1>6, <2>2, <2>4 DEF Leads
<1>10. \A p \in R : p # s => \E q \in R : q # e /\ p = q + CellsOf(f[q + 1].rec)
  <2>1. SUFFICES ASSUME NEW p \in R, p # s PROVE \E q \in R : q # e /\ p = q + CellsOf(f[q + 1].rec)
    OBVIOUS
  <2>2. PICK q \in R : q < p /\ Leads(f, q, p)
    BY <1>3, <2>1
  <2>3. q # e
    BY <1>3, <1>5, <2>2
  <2> QED
    BY <2>2, <2>3 DEF Leads
<1>11. e < N => Decode(f, e) # "record"
  <2>1. SUFFICES ASSUME e < N, Decode(f, e) = "record" PROVE FALSE
    OBVIOUS
  <2>2. Leads(f, e, e + CellsOf(f[e + 1].rec))
    BY <1>1, <2>1 DEF Leads
  <2>3. PICK p : p = e + CellsOf(f[e + 1].rec) /\ p \in R /\ p \in 0..N /\ e < p
    BY <1>5, <1>6, <2>2
  <2> QED
    BY <1>3, <1>5, <2>3
<1>12. \A p \in R : s <= p /\ p <= e
  BY <1>5, <1>7
<1>13. \A p, q \in R : p < q => p + CellsOf(f[p + 1].rec) <= q
  BY <1>8 DEF Leads
<1> QED
  BY <1>1, <1>2, <1>3, <1>4, <1>5, <1>9, <1>10, <1>11, <1>12, <1>13 DEF Chain

LEMMA ChainIsReplay ==
  ASSUME NEW f, NEW h, Log(f), NEW R, NEW e, Chain(f, ReplayFrom(h), R, e)
  PROVE  Reached(f, h) = R /\ ReplayEnd(f, h) = e
<1>1. PICK N \in Nat : N = Len(f)
  BY DEF Log
<1>2. PICK s : s = ReplayFrom(h) /\ Chain(f, s, R, e)
  OBVIOUS
<1>3. /\ R \subseteq 0..N /\ s \in R /\ e \in R
      /\ \A p \in R : s <= p /\ p <= e
      /\ \A p \in R : p # e => p < N /\ Decode(f, p) = "record" /\ p + CellsOf(f[p + 1].rec) \in R
      /\ \A p \in R : p # s => \E q \in R : q # e /\ p = q + CellsOf(f[q + 1].rec)
      /\ e < N => Decode(f, e) # "record"
  BY <1>1, <1>2 DEF Chain
<1>4. ASSUME NEW p \in 0..N
      PROVE  p \in R <=> p = s \/ \E q \in R : q < p /\ Leads(f, q, p)
  <2>1. ASSUME p \in R, p # s PROVE \E q \in R : q < p /\ Leads(f, q, p)
    <3>1. PICK q \in R : q # e /\ p = q + CellsOf(f[q + 1].rec)
      BY <1>3, <2>1
    <3>2. q < N /\ Decode(f, q) = "record"
      BY <1>3, <3>1
    <3>3. Leads(f, q, p)
      BY <1>1, <3>1, <3>2 DEF Leads
    <3>4. q < p
      BY <1>3, <3>3, LeadsForward
    <3> QED
      BY <3>3, <3>4
  <2>2. ASSUME NEW q \in R, q < p, Leads(f, q, p) PROVE p \in R
    <3>1. q < N /\ Decode(f, q) = "record" /\ p = q + CellsOf(f[q + 1].rec)
      BY <1>1, <2>2 DEF Leads
    <3>2. q # e
      BY <1>3, <3>1
    <3> QED
      BY <1>3, <3>1, <3>2
  <2> QED
    BY <1>3, <2>1, <2>2
<1>5. Reached(f, h) = R
  BY <1>1, <1>2, <1>3, <1>4, ReachedIs
<1>6. Max(R) = e
  <2>1. R \subseteq Nat /\ \A p \in R : p <= e
    BY <1>3
  <2> QED
    BY <1>3, <2>1, MaxIs
<1> QED
  BY <1>5, <1>6 DEF ReplayEnd
-----------------------------------------------------------------------------
(* What writes and cuts do to a replay.                                    *)

Same(f, g, n) == \A i \in 1..n : g[i] = f[i]

LEMMA DecodeKept ==
  ASSUME NEW f, NEW g, NEW p, Decode(f, p) = "record", g[p + 1] = f[p + 1],
         ~(p + CellsOf(f[p + 1].rec) > Len(g))
  PROVE  Decode(g, p) = "record"
BY DEF Decode

(* A record cut off by the end of the file is torn.                        *)
LEMMA DecodeCut ==
  ASSUME NEW f, NEW g, NEW p, Decode(f, p) = "record", g[p + 1] = f[p + 1],
         p + CellsOf(f[p + 1].rec) > Len(g)
  PROVE  Decode(g, p) = "torn"
BY DEF Decode

LEMMA ChainBelow ==
  ASSUME NEW f, NEW g, NEW s, NEW R, NEW e, Log(f), Log(g), Chain(f, s, R, e),
         Same(f, g, e), e <= Len(g)
  PROVE  /\ R \subseteq 0..Len(g) /\ e \in 0..Len(g) /\ e \in 0..Len(f)
         /\ \A p \in R : p # e => /\ g[p + 1] = f[p + 1] /\ p < Len(g)
                                  /\ Decode(g, p) = "record"
                                  /\ p + CellsOf(f[p + 1].rec) \in R
<1>1. Len(f) \in Nat /\ Len(g) \in Nat
  BY DEF Log
<1>2. R \subseteq 0..Len(f) /\ e \in R /\ \A p \in R : p <= e
  BY DEF Chain
<1>3. ASSUME NEW p \in R, p # e
      PROVE  /\ g[p + 1] = f[p + 1] /\ p < Len(g) /\ Decode(g, p) = "record"
             /\ p + CellsOf(f[p + 1].rec) \in R
  <2>1. p + 1 \in 1..e /\ p < Len(g)
    BY <1>1, <1>2, <1>3
  <2>2. Decode(f, p) = "record" /\ p + CellsOf(f[p + 1].rec) \in R
    BY <1>3 DEF Chain
  <2>3. PICK n : n = p + CellsOf(f[p + 1].rec) /\ n \in R
    BY <2>2
  <2>4. ~(n > Len(g))
    BY <1>1, <1>2, <2>3
  <2> QED
    BY <2>1, <2>2, <2>3, <2>4, DecodeKept DEF Same
<1> QED
  BY <1>1, <1>2, <1>3

LEMMA ChainKept ==
  ASSUME NEW f, NEW g, NEW s, NEW R, NEW e, Log(f), Log(g), Chain(f, s, R, e),
         Same(f, g, e), e <= Len(g), e < Len(g) => Decode(g, e) # "record"
  PROVE  Chain(g, s, R, e)
<1>1. /\ R \subseteq 0..Len(g)
      /\ \A p \in R : p # e => /\ g[p + 1] = f[p + 1] /\ p < Len(g)
                               /\ Decode(g, p) = "record"
                               /\ p + CellsOf(f[p + 1].rec) \in R
  BY ChainBelow
<1>2. \A p, q \in R : p < q => p # e
  BY <1>1 DEF Chain, Log
<1> QED
  BY <1>1, <1>2 DEF Chain

(* An append ends the log where it ends.                                   *)
LEMMA ChainAppend ==
  ASSUME NEW f, NEW g, NEW s, NEW R, NEW e, Log(f), Log(g), Chain(f, s, R, e),
         Same(f, g, e), e < Len(g), Decode(g, e) = "record", Len(g) = e + CellsOf(g[e + 1].rec)
  PROVE  Chain(g, s, R \cup {Len(g)}, Len(g))
<1>1. PICK n \in Nat : n = Len(g)
  BY DEF Log
<1>2. /\ R \subseteq 0..n /\ e \in 0..n
      /\ \A p \in R : p # e => /\ g[p + 1] = f[p + 1] /\ p < n
                               /\ Decode(g, p) = "record"
                               /\ p + CellsOf(f[p + 1].rec) \in R
  <2>1. e <= Len(g)
    BY DEF Chain, Log
  <2> QED
    BY <1>1, <2>1, ChainBelow
<1>3. /\ s \in R /\ e \in R
      /\ \A p \in R : s <= p /\ p <= e
      /\ \A p \in R : p # s => \E q \in R : q # e /\ p = q + CellsOf(f[q + 1].rec)
      /\ \A p, q \in R : p < q => p + CellsOf(f[p + 1].rec) <= q
  BY DEF Chain
<1>4. e < n /\ n \notin R /\ Decode(g, e) = "record" /\ n = e + CellsOf(g[e + 1].rec)
  BY <1>1, <1>2, <1>3
<1> DEFINE Q == R \cup {n}
<1>5. \A p \in Q : s <= p /\ p <= n
  BY <1>2, <1>3, <1>4
<1>6. \A p \in Q : p # n => p < n /\ Decode(g, p) = "record" /\ p + CellsOf(g[p + 1].rec) \in Q
  BY <1>2, <1>4
<1>7. \A p \in Q : p # s => \E q \in Q : q # n /\ p = q + CellsOf(g[q + 1].rec)
  <2>1. SUFFICES ASSUME NEW p \in Q, p # s PROVE \E q \in Q : q # n /\ p = q + CellsOf(g[q + 1].rec)
    OBVIOUS
  <2>2. CASE p = n
    BY <1>3, <1>4, <2>2
  <2>3. CASE p # n
    <3>1. PICK q \in R : q # e /\ p = q + CellsOf(f[q + 1].rec)
      BY <1>3, <2>1, <2>3
    <3> QED
      BY <1>2, <1>4, <3>1
  <2> QED
    BY <2>2, <2>3
<1>8. \A p, q \in Q : p < q => p + CellsOf(g[p + 1].rec) <= q
  <2>1. SUFFICES ASSUME NEW p \in Q, NEW q \in Q, p < q PROVE p + CellsOf(g[p + 1].rec) <= q
    OBVIOUS
  <2>2. p \in R /\ p \in 0..n
    BY <1>2, <1>5, <2>1
  <2>3. CASE q = n
    <3>1. CASE p = e
      BY <1>4, <2>3, <3>1
    <3>2. CASE p # e
      <4>1. PICK x : x = p + CellsOf(g[p + 1].rec) /\ x \in R
        BY <1>2, <2>2, <3>2
      <4> QED
        BY <1>2, <2>3, <4>1
    <3> QED
      BY <3>1, <3>2
  <2>4. CASE q # n
    <3>1. q \in R /\ p # e
      BY <1>2, <1>3, <2>1, <2>2, <2>4
    <3> QED
      BY <1>2, <1>3, <2>1, <2>2, <3>1
  <2> QED
    BY <2>3, <2>4
<1>9. Q \subseteq 0..n /\ s \in Q /\ n \in Q
  BY <1>2, <1>3
<1> HIDE DEF Q
<1>10. Chain(g, s, Q, n)
  BY <1>1, <1>5, <1>6, <1>7, <1>8, <1>9 DEF Chain
<1> QED
  BY <1>1, <1>10 DEF Q

(* A file cut short is read up to the last record that is whole.           *)
LEMMA ChainCut ==
  ASSUME NEW f, NEW g, NEW s, NEW R, NEW e, Log(f), Log(g), Chain(f, s, R, e),
         Same(f, g, Len(g)), s <= Len(g), Len(g) < e, NEW T, T = {p \in R : p <= Len(g)}
  PROVE  \E d : /\ Chain(g, s, T, d)
                /\ d < Len(g) => Decode(g, d) = "torn"
<1>1. PICK n \in Nat : n = Len(g)
  BY DEF Log
<1>2. /\ R \subseteq Nat /\ s \in R /\ e \in R
      /\ \A p \in R : s <= p /\ p <= e
      /\ \A p \in R : p # e => Decode(f, p) = "record" /\ p + CellsOf(f[p + 1].rec) \in R
      /\ \A p \in R : p # s => \E q \in R : q # e /\ p = q + CellsOf(f[q + 1].rec)
      /\ \A p, q \in R : p < q => p + CellsOf(f[p + 1].rec) <= q
  BY DEF Chain
<1> DEFINE Q == {p \in R : p <= n}
<1>3. s \in Q /\ Q \subseteq 0..n /\ e \notin Q
  <2>1. s <= n /\ ~(e <= n)
    BY <1>1, <1>2
  <2>2. s \in R /\ e \in R /\ R \subseteq Nat
    BY <1>2
  <2>3. ASSUME NEW p \in Q PROVE p \in 0..n
    <3>1. p \in Nat /\ p <= n
      BY <2>2
    <3> QED
      BY <3>1
  <2> QED
    BY <2>1, <2>2, <2>3
<1>4. PICK d \in Q : \A p \in Q : p <= d
  <2> HIDE DEF Q
  <2> QED
    BY <1>3, GreatestNumber
<1>5. ASSUME NEW p \in Q, p < n PROVE g[p + 1] = f[p + 1]
  <2>1. p + 1 \in 1..n
    BY <1>3, <1>5
  <2> QED
    BY <1>1, <2>1 DEF Same
<1>6. ASSUME NEW p \in Q, p # d
      PROVE  /\ p < n /\ g[p + 1] = f[p + 1] /\ Decode(g, p) = "record"
             /\ p + CellsOf(f[p + 1].rec) \in Q
  <2>1. p < d /\ p \in 0..n /\ d \in 0..n
    BY <1>3, <1>4, <1>6
  <2>2. PICK x \in R : x = p + CellsOf(f[p + 1].rec)
    BY <1>2, <1>3
  <2>3. x <= d
    BY <1>2, <2>1, <2>2
  <2>4. x \in Q /\ ~(x > n) /\ p < n
    BY <1>2, <2>1, <2>2, <2>3
  <2>5. Decode(g, p) = "record"
    BY <1>1, <1>2, <1>3, <1>5, <2>2, <2>4, DecodeKept
  <2> QED
    BY <1>5, <2>2, <2>4, <2>5
<1>7. d < n => Decode(g, d) = "torn"
  <2>1. SUFFICES ASSUME d < n PROVE Decode(g, d) = "torn"
    OBVIOUS
  <2>2. PICK x \in R : x = d + CellsOf(f[d + 1].rec)
    BY <1>2, <1>3
  <2>3. PICK c \in Nat \ {0} : c = CellsOf(f[d + 1].rec)
    <3>1. d \in 0..Len(f) /\ e \in 0..Len(f) /\ Len(f) \in Nat /\ d <= e /\ d # e
      BY <1>2, <1>3 DEF Chain, Log
    <3>2. d + 1 \in 1..Len(f)
      BY <3>1
    <3> QED
      BY <3>2 DEF Log
  <2>4. x > n
    <3>1. ~(x <= d)
      BY <1>3, <2>2, <2>3
    <3>2. x \notin Q
      BY <1>4, <3>1
    <3> QED
      BY <1>2, <3>2
  <2> QED
    BY <1>1, <1>2, <1>3, <1>5, <2>1, <2>2, <2>4, DecodeCut
<1>8. \A p \in Q : p # s => \E q \in Q : q # d /\ p = q + CellsOf(g[q + 1].rec)
  <2>1. SUFFICES ASSUME NEW p \in Q, p # s PROVE \E q \in Q : q # d /\ p = q + CellsOf(g[q + 1].rec)
    OBVIOUS
  <2>2. PICK q \in R : q # e /\ p = q + CellsOf(f[q + 1].rec)
    BY <1>2, <2>1
  <2>3. PICK c \in Nat \ {0} : c = CellsOf(f[q + 1].rec)
    <3>1. q \in 0..Len(f) /\ e \in 0..Len(f) /\ Len(f) \in Nat /\ q <= e
      BY <1>2 DEF Chain, Log
    <3>2. q + 1 \in 1..Len(f)
      BY <2>2, <3>1
    <3> QED
      BY <3>2 DEF Log
  <2>4. q < p /\ q \in Nat /\ p \in 0..n
    BY <1>2, <1>3, <2>2, <2>3
  <2>5. q \in Q /\ q < n /\ q # d
    BY <1>3, <1>4, <2>4
  <2> QED
    BY <1>5, <2>2, <2>5
<1>9. \A p, q \in Q : p < q => p + CellsOf(g[p + 1].rec) <= q
  <2>1. SUFFICES ASSUME NEW p \in Q, NEW q \in Q, p < q PROVE p + CellsOf(g[p + 1].rec) <= q
    OBVIOUS
  <2>2. p < n
    BY <1>3, <2>1
  <2> QED
    BY <1>2, <1>5, <2>1, <2>2
<1>10. \A p \in Q : s <= p /\ p <= d
  BY <1>2, <1>4
<1>11. \A p \in Q : p # d => p < n /\ Decode(g, p) = "record" /\ p + CellsOf(g[p + 1].rec) \in Q
  BY <1>6
<1>12. d < n => Decode(g, d) # "record"
  BY <1>7
<1> HIDE DEF Q
<1>13. Chain(g, s, Q, d)
  BY <1>1, <1>3, <1>4, <1>8, <1>9, <1>10, <1>11, <1>12 DEF Chain
<1> QED
  BY <1>1, <1>7, <1>13 DEF Q
-----------------------------------------------------------------------------
(* The index a replay makes.                                               *)

Of(f, recs, p, k) == {q \in recs : q < p /\ f[q + 1].rec.key = k}

IsIndexAt(i, f, h, recs, p) ==
  /\ i = [k \in DOMAIN i |-> i[k]]
  /\ \A k : k \in DOMAIN i <=>
       k \in Keys /\ IF Of(f, recs, p, k) = {} THEN k \in DOMAIN Snapshot(f, h)
                     ELSE f[Max(Of(f, recs, p, k)) + 1].rec.op = "put"
  /\ \A k \in DOMAIN i : i[k] = IF Of(f, recs, p, k) = {} THEN Snapshot(f, h)[k]
                                ELSE Max(Of(f, recs, p, k))

LEMMA IndexAtIs ==
  ASSUME NEW f, NEW h, NEW recs, NEW p, NEW i, i = IndexAt(f, h, recs, p)
  PROVE  IsIndexAt(i, f, h, recs, p)
<1>1. i = [k \in {k \in Keys : IF Of(f, recs, p, k) = {} THEN k \in DOMAIN Snapshot(f, h)
                                ELSE f[Max(Of(f, recs, p, k)) + 1].rec.op = "put"}
              |-> IF Of(f, recs, p, k) = {} THEN Snapshot(f, h)[k] ELSE Max(Of(f, recs, p, k))]
  BY DEF IndexAt, Of
<1> QED
  BY <1>1 DEF IsIndexAt

LEMMA MaxOf ==
  ASSUME NEW f, NEW recs, NEW p \in Nat, NEW k, recs \subseteq Nat, Of(f, recs, p, k) # {}
  PROVE  /\ Max(Of(f, recs, p, k)) \in recs /\ Max(Of(f, recs, p, k)) < p
         /\ Max(Of(f, recs, p, k)) \in Nat
         /\ f[Max(Of(f, recs, p, k)) + 1].rec.key = k
<1>1. PICK S : S = Of(f, recs, p, k)
  OBVIOUS
<1>2. \A q \in S : q \in recs /\ q \in 0..p /\ q < p /\ f[q + 1].rec.key = k
  BY <1>1 DEF Of
<1>3. Max(S) \in S
  BY <1>1, <1>2, GreatestNumber
<1> QED
  BY <1>1, <1>2, <1>3

(* Two files that agree below p have the same index there.                 *)
Below(f, g, recs, p) == recs \subseteq Nat /\ \A q \in recs : q < p /\ g[q + 1] = f[q + 1]

LEMMA IndexSame ==
  ASSUME NEW f, NEW g, NEW h, NEW recs, NEW p \in Nat, NEW r \in Nat,
         Below(f, g, recs, p), p <= r, Snapshot(g, h) = Snapshot(f, h)
  PROVE  IndexAt(g, h, recs, r) = IndexAt(f, h, recs, p)
<1>0. recs \subseteq Nat /\ \A q \in recs : q < p /\ q < r /\ g[q + 1] = f[q + 1]
  BY DEF Below
<1>1. \A k : Of(g, recs, r, k) = Of(f, recs, p, k)
  BY <1>0 DEF Of
<1>2. \A k : Of(f, recs, p, k) # {} =>
        g[Max(Of(f, recs, p, k)) + 1] = f[Max(Of(f, recs, p, k)) + 1]
  BY <1>0, MaxOf
<1> DEFINE O(k) == Of(f, recs, p, k)
<1>3. PICK I : I = IndexAt(f, h, recs, p)
  OBVIOUS
<1>4. PICK J : J = IndexAt(g, h, recs, r)
  OBVIOUS
<1>5. /\ I = [k \in DOMAIN I |-> I[k]]
      /\ \A k : k \in DOMAIN I <=> k \in Keys /\ IF O(k) = {} THEN k \in DOMAIN Snapshot(f, h)
                                                 ELSE f[Max(O(k)) + 1].rec.op = "put"
      /\ \A k \in DOMAIN I : I[k] = IF O(k) = {} THEN Snapshot(f, h)[k] ELSE Max(O(k))
  <2>1. IsIndexAt(I, f, h, recs, p)
    BY <1>3, IndexAtIs
  <2> QED
    BY <2>1 DEF IsIndexAt
<1>6. /\ J = [k \in DOMAIN J |-> J[k]]
      /\ \A k : k \in DOMAIN J <=>
           k \in Keys /\ IF Of(g, recs, r, k) = {} THEN k \in DOMAIN Snapshot(g, h)
                         ELSE g[Max(Of(g, recs, r, k)) + 1].rec.op = "put"
      /\ \A k \in DOMAIN J : J[k] = IF Of(g, recs, r, k) = {} THEN Snapshot(g, h)[k]
                                    ELSE Max(Of(g, recs, r, k))
  <2>1. IsIndexAt(J, g, h, recs, r)
    BY <1>4, IndexAtIs
  <2> QED
    BY <2>1 DEF IsIndexAt
<1>7. /\ \A k : k \in DOMAIN J <=> k \in Keys /\ IF O(k) = {} THEN k \in DOMAIN Snapshot(f, h)
                                                 ELSE f[Max(O(k)) + 1].rec.op = "put"
      /\ \A k \in DOMAIN J : J[k] = IF O(k) = {} THEN Snapshot(f, h)[k] ELSE Max(O(k))
  BY <1>1, <1>2, <1>6
<1> HIDE DEF O
<1>8. DOMAIN I = DOMAIN J /\ \A k \in DOMAIN I : I[k] = J[k]
  BY <1>5, <1>7
<1> QED
  BY <1>3, <1>4, <1>5, <1>6, <1>8

(* The record at e is the newest of its key.                               *)
LEMMA IndexNext ==
  ASSUME NEW f, NEW g, NEW h, NEW recs, NEW e \in Nat, NEW r \in Nat, NEW x, e < r,
         NEW more, more = recs \cup {e}, Below(f, g, recs, e), g[e + 1].rec.key = x
  PROVE  /\ \A k : k # x => Of(g, more, r, k) = Of(f, recs, e, k)
         /\ Of(g, more, r, x) # {} /\ Max(Of(g, more, r, x)) = e
<1>0. recs \subseteq Nat /\ \A q \in recs : q < e /\ q < r /\ g[q + 1] = f[q + 1]
  BY DEF Below
<1>1. ASSUME NEW k, k # x
      PROVE  Of(g, more, r, k) = Of(f, recs, e, k)
  <2>1. ASSUME NEW q PROVE q \in Of(g, more, r, k) <=> q \in Of(f, recs, e, k)
    <3>1. CASE q = e
      BY <1>0, <1>1, <3>1 DEF Of
    <3>2. CASE q # e
      BY <1>0, <3>2 DEF Of
    <3> QED
      BY <3>1, <3>2
  <2>2. \A q : q \in Of(g, more, r, k) <=> q \in Of(f, recs, e, k)
    BY <2>1
  <2> QED
    BY <2>2
<1>2. PICK S : S = Of(g, more, r, x)
  OBVIOUS
<1>3. e \in S
  BY <1>2 DEF Of
<1>3a. ASSUME NEW q \in S PROVE q \in Nat /\ q <= e
  <2>1. q \in more
    BY <1>2 DEF Of
  <2>2. CASE q = e
    BY <2>2
  <2>3. CASE q \in recs
    <3>1. q \in Nat /\ q < e
      BY <2>3 DEF Below
    <3> QED
      BY <3>1
  <2> QED
    BY <2>1, <2>2, <2>3
<1>4. Max(S) = e
  BY <1>3, <1>3a, MaxIs
<1> QED
  BY <1>1, <1>2, <1>3, <1>4

LEMMA IndexPut ==
  ASSUME NEW f, NEW g, NEW h, NEW recs, NEW e \in Nat, NEW r \in Nat, NEW x \in Keys, NEW v, e < r,
         NEW more, more = recs \cup {e}, Below(f, g, recs, e),
         Snapshot(g, h) = Snapshot(f, h), g[e + 1].rec = PutRec(x, v)
  PROVE  IndexAt(g, h, more, r) = Indexed(IndexAt(f, h, recs, e), x, e)
<1>1. g[e + 1].rec.key = x /\ g[e + 1].rec.op = "put"
  BY DEF PutRec
<1>1a. g[e + 1].rec.key = x
  BY <1>1
<1>1b. /\ \A k : k # x => Of(g, more, r, k) = Of(f, recs, e, k)
       /\ Of(g, more, r, x) # {} /\ Max(Of(g, more, r, x)) = e
  BY <1>1a, IndexNext
<1> DEFINE O(k) == Of(f, recs, e, k)
           P(k) == Of(g, more, r, k)
<1>1c. PICK I : I = IndexAt(f, h, recs, e)
  OBVIOUS
<1>1d. PICK J : J = IndexAt(g, h, more, r)
  OBVIOUS
<1>2. \A k : k # x => P(k) = O(k)
  BY <1>1b
<1>3. P(x) # {} /\ Max(P(x)) = e
  BY <1>1b
<1>4. \A k : O(k) # {} => g[Max(O(k)) + 1] = f[Max(O(k)) + 1]
  BY MaxOf DEF Below
<1>5a. /\ J = [k \in DOMAIN J |-> J[k]]
       /\ \A k : k \in DOMAIN J <=> k \in Keys /\ IF P(k) = {} THEN k \in DOMAIN Snapshot(g, h)
                                                 ELSE g[Max(P(k)) + 1].rec.op = "put"
       /\ \A k \in DOMAIN J : J[k] = IF P(k) = {} THEN Snapshot(g, h)[k] ELSE Max(P(k))
  <2>1. IsIndexAt(J, g, h, more, r)
    BY <1>1d, IndexAtIs
  <2> QED
    BY <2>1 DEF IsIndexAt
<1>5. /\ \A k : k \in DOMAIN J <=> k \in Keys /\ IF P(k) = {} THEN k \in DOMAIN Snapshot(f, h)
                                                 ELSE g[Max(P(k)) + 1].rec.op = "put"
      /\ \A k \in DOMAIN J : J[k] = IF P(k) = {} THEN Snapshot(f, h)[k] ELSE Max(P(k))
  BY <1>5a
<1>6. /\ \A k : k \in DOMAIN I <=> k \in Keys /\ IF O(k) = {} THEN k \in DOMAIN Snapshot(f, h)
                                                 ELSE f[Max(O(k)) + 1].rec.op = "put"
      /\ \A k \in DOMAIN I : I[k] = IF O(k) = {} THEN Snapshot(f, h)[k] ELSE Max(O(k))
  <2>1. IsIndexAt(I, f, h, recs, e)
    BY <1>1c, IndexAtIs
  <2> QED
    BY <2>1 DEF IsIndexAt
<1> HIDE DEF O, P
<1>7. DOMAIN J = DOMAIN I \cup {x}
  <2>1. x \in DOMAIN J
    BY <1>1, <1>3, <1>5
  <2>2. \A k : k # x => (k \in DOMAIN J <=> k \in DOMAIN I)
    BY <1>2, <1>4, <1>5, <1>6
  <2> QED
    BY <2>1, <2>2
<1>8. \A k \in DOMAIN J : J[k] = IF k = x THEN e ELSE I[k]
  BY <1>2, <1>3, <1>5, <1>6, <1>7
<1>9. J = Indexed(I, x, e)
  BY <1>5a, <1>7, <1>8 DEF Indexed
<1> QED
  BY <1>1c, <1>1d, <1>9

LEMMA IndexDelete ==
  ASSUME NEW f, NEW g, NEW h, NEW recs, NEW e \in Nat, NEW r \in Nat, NEW x \in Keys, e < r,
         NEW more, more = recs \cup {e}, Below(f, g, recs, e),
         Snapshot(g, h) = Snapshot(f, h), g[e + 1].rec = DelRec(x)
  PROVE  IndexAt(g, h, more, r) = Unindexed(IndexAt(f, h, recs, e), x)
<1>1. g[e + 1].rec.key = x /\ g[e + 1].rec.op # "put"
  BY DEF DelRec
<1>1a. g[e + 1].rec.key = x
  BY <1>1
<1>1b. /\ \A k : k # x => Of(g, more, r, k) = Of(f, recs, e, k)
       /\ Of(g, more, r, x) # {} /\ Max(Of(g, more, r, x)) = e
  BY <1>1a, IndexNext
<1> DEFINE O(k) == Of(f, recs, e, k)
           P(k) == Of(g, more, r, k)
<1>1c. PICK I : I = IndexAt(f, h, recs, e)
  OBVIOUS
<1>1d. PICK J : J = IndexAt(g, h, more, r)
  OBVIOUS
<1>2. \A k : k # x => P(k) = O(k)
  BY <1>1b
<1>3. P(x) # {} /\ Max(P(x)) = e
  BY <1>1b
<1>4. \A k : O(k) # {} => g[Max(O(k)) + 1] = f[Max(O(k)) + 1]
  BY MaxOf DEF Below
<1>5a. /\ J = [k \in DOMAIN J |-> J[k]]
       /\ \A k : k \in DOMAIN J <=> k \in Keys /\ IF P(k) = {} THEN k \in DOMAIN Snapshot(g, h)
                                                 ELSE g[Max(P(k)) + 1].rec.op = "put"
       /\ \A k \in DOMAIN J : J[k] = IF P(k) = {} THEN Snapshot(g, h)[k] ELSE Max(P(k))
  <2>1. IsIndexAt(J, g, h, more, r)
    BY <1>1d, IndexAtIs
  <2> QED
    BY <2>1 DEF IsIndexAt
<1>5. /\ \A k : k \in DOMAIN J <=> k \in Keys /\ IF P(k) = {} THEN k \in DOMAIN Snapshot(f, h)
                                                 ELSE g[Max(P(k)) + 1].rec.op = "put"
      /\ \A k \in DOMAIN J : J[k] = IF P(k) = {} THEN Snapshot(f, h)[k] ELSE Max(P(k))
  BY <1>5a
<1>6. /\ \A k : k \in DOMAIN I <=> k \in Keys /\ IF O(k) = {} THEN k \in DOMAIN Snapshot(f, h)
                                                 ELSE f[Max(O(k)) + 1].rec.op = "put"
      /\ \A k \in DOMAIN I : I[k] = IF O(k) = {} THEN Snapshot(f, h)[k] ELSE Max(O(k))
  <2>1. IsIndexAt(I, f, h, recs, e)
    BY <1>1c, IndexAtIs
  <2> QED
    BY <2>1 DEF IsIndexAt
<1> HIDE DEF O, P
<1>7. DOMAIN J = DOMAIN I \ {x}
  <2>1. x \notin DOMAIN J
    BY <1>1, <1>3, <1>5
  <2>2. \A k : k # x => (k \in DOMAIN J <=> k \in DOMAIN I)
    BY <1>2, <1>4, <1>5, <1>6
  <2> QED
    BY <2>1, <2>2
<1>8. \A k \in DOMAIN J : J[k] = I[k]
  BY <1>2, <1>3, <1>5, <1>6, <1>7
<1>9. J = Unindexed(I, x)
  BY <1>5a, <1>7, <1>8 DEF Unindexed
<1> QED
  BY <1>1c, <1>1d, <1>9
-----------------------------------------------------------------------------
(* Files of cells.                                                         *)

Cells(f) == f \in Seq(Range(f)) /\ \A i \in DOMAIN f : IsCell(f[i])

LEMMA RecordCells ==
  ASSUME NEW r, IsRecord(r)
  PROVE  CellsOf(r) \in Nat \ {0} /\ r.op \in {"put", "delete", "index"}
<1>1. CASE \E k \in Keys : r = DelRec(k)
  BY <1>1 DEF DelRec, CellsOf
<1>2. CASE \E k \in Keys, v \in Values : r = PutRec(k, v)
  <2>1. PICK k \in Keys, v \in Values : r = PutRec(k, v)
    BY <1>2
  <2>2. Size[v] \in Nat
    BY SizeAssumption
  <2>3. r.op = "put" /\ r.val = v
    BY <2>1 DEF PutRec
  <2> QED
    BY <2>2, <2>3 DEF CellsOf
<1>3. CASE r = SnapRec(r.map) /\ IsIndex(r.map)
  <2>1. Cardinality(DOMAIN r.map) \in Nat
    BY <1>3, KeysAssumption, FS_Subset, FS_CardinalityType DEF IsIndex
  <2>2. r.op = "index"
    BY <1>3 DEF SnapRec
  <2> QED
    BY <2>1, <2>2 DEF CellsOf
<1> QED
  BY <1>1, <1>2, <1>3 DEF IsRecord

LEMMA CellsLog ==
  ASSUME NEW f, Cells(f)
  PROVE  Log(f) /\ Len(f) \in Nat /\ DOMAIN f = 1..Len(f) /\ \A i \in 1..Len(f) : IsCell(f[i])
<1>1. Len(f) \in Nat /\ DOMAIN f = 1..Len(f)
  BY DEF Cells
<1>2. \A i \in 1..Len(f) : IsCell(f[i])
  BY <1>1 DEF Cells
<1>3. \A i \in 1..Len(f) : CellsOf(f[i].rec) \in Nat \ {0}
  BY <1>2, RecordCells DEF IsCell
<1> QED
  BY <1>1, <1>2, <1>3 DEF Log

LEMMA CellsMade ==
  ASSUME NEW n \in Nat, NEW f, f = [i \in 1..n |-> f[i]], \A i \in 1..n : IsCell(f[i])
  PROVE  Cells(f) /\ Len(f) = n
<1>1. DOMAIN f = 1..n
  OBVIOUS
<1>2. \A i \in 1..n : f[i] \in Range(f)
  BY <1>1 DEF Range
<1>3. f \in Seq(Range(f))
  BY <1>2
<1>4. Len(f) = n
  BY <1>1, <1>3, LenProperties
<1> QED
  BY <1>1, <1>3, <1>4 DEF Cells

LEMMA CutIs ==
  ASSUME NEW f, Cells(f), NEW m \in 0..Len(f), NEW g, g = SubSeq(f, 1, m)
  PROVE  /\ Cells(g) /\ Len(g) = m /\ Same(f, g, m)
         /\ g = [i \in 1..m |-> f[i]]
<1>1. PICK n \in Nat : n = Len(f) /\ DOMAIN f = 1..n /\ m \in 0..n /\ \A i \in 1..n : IsCell(f[i])
  BY CellsLog
<1>2. g = [i \in 1..m |-> f[i]]
  <2>1. f \in Seq(Range(f))
    BY DEF Cells
  <2>2. SubSeq(f, 1, m) = [i \in 1..m |-> f[i]]
    <3>1. m \in Nat /\ 1 \in Int /\ m \in Int /\ m - 1 + 1 = m /\ \A i \in 1..m : 1 + i - 1 = i
      BY <1>1
    <3>2. PICK S : S = Range(f)
      OBVIOUS
    <3>2a. \A i \in 1..m : f[i] \in S
      BY <1>1, <3>2 DEF Range
    <3>3. PICK c : c = SubSeq(f, 1, m)
      OBVIOUS
    <3>4. c \in Seq(S) /\ Len(c) = (IF 1 <= m THEN m - 1 + 1 ELSE 0)
          /\ \A i \in 1..(m - 1 + 1) : c[i] = f[1 + i - 1]
      BY <3>1, <3>2a, <3>3, SubSeqProperties
    <3>5. Len(c) = m /\ \A i \in 1..m : c[i] = f[i]
      BY <3>1, <3>4
    <3>6. c = [i \in 1..m |-> c[i]]
      BY <3>4, <3>5
    <3> QED
      BY <3>3, <3>5, <3>6
  <2> QED
    BY <2>2
<1>3. m \in Nat /\ g = [i \in 1..m |-> g[i]] /\ \A i \in 1..m : g[i] = f[i] /\ i \in 1..n
  BY <1>1, <1>2
<1>4. \A i \in 1..m : IsCell(g[i])
  BY <1>1, <1>3
<1>5. Cells(g) /\ Len(g) = m
  BY <1>3, <1>4, CellsMade
<1> QED
  BY <1>2, <1>3, <1>5 DEF Same

LEMMA CutSame ==
  ASSUME NEW f, NEW g, Cells(f), Cells(g), NEW m \in 0..Len(f), m \in 0..Len(g), Same(f, g, m)
  PROVE  SubSeq(f, 1, m) = SubSeq(g, 1, m)
<1>1. SubSeq(f, 1, m) = [i \in 1..m |-> f[i]]
  BY CutIs
<1>2. SubSeq(g, 1, m) = [i \in 1..m |-> g[i]]
  BY CutIs
<1> QED
  BY <1>1, <1>2 DEF Same

LEMMA CutWhole ==
  ASSUME NEW f, Cells(f)
  PROVE  SubSeq(f, 1, Len(f)) = f
<1>1. Len(f) \in Nat /\ DOMAIN f = 1..Len(f) /\ f \in Seq(Range(f))
  BY CellsLog DEF Cells
<1>2. SubSeq(f, 1, Len(f)) = [i \in 1..Len(f) |-> f[i]]
  BY <1>1, CutIs
<1>3. f = [i \in DOMAIN f |-> f[i]]
  BY <1>1
<1> QED
  BY <1>1, <1>2, <1>3

(* The first n cells of a record.                                          *)
Piece(c, r, n) ==
  n \in 1..CellsOf(r) /\ Cells(c) /\ Len(c) = n /\ \A j \in 1..n : c[j] = [rec |-> r, part |-> j]

LEMMA EncodeIs ==
  ASSUME NEW r, IsRecord(r)
  PROVE  Piece(Encode(r), r, CellsOf(r))
<1>1. PICK n \in Nat \ {0} : n = CellsOf(r)
  BY RecordCells
<1>2. PICK c : c = Encode(r)
  OBVIOUS
<1>3. c = [i \in 1..n |-> c[i]] /\ \A i \in 1..n : c[i] = [rec |-> r, part |-> i]
  BY <1>1, <1>2 DEF Encode
<1>4. ASSUME NEW i \in 1..n PROVE IsCell(c[i])
  BY <1>1, <1>3 DEF IsCell
<1>5. Cells(c) /\ Len(c) = n
  BY <1>1, <1>3, <1>4, CellsMade
<1> QED
  BY <1>1, <1>2, <1>3, <1>5 DEF Piece

LEMMA PieceIs ==
  ASSUME NEW r, IsRecord(r), NEW n \in 1..CellsOf(r)
  PROVE  Piece(SubSeq(Encode(r), 1, n), r, n)
<1>1. PICK c : c = Encode(r) /\ Piece(c, r, CellsOf(r))
  BY EncodeIs
<1>2. PICK d : d = SubSeq(c, 1, n)
  OBVIOUS
<1>3. Cells(c) /\ Len(c) = CellsOf(r) /\ \A j \in 1..CellsOf(r) : c[j] = [rec |-> r, part |-> j]
  BY <1>1 DEF Piece
<1>4. PICK m \in Nat \ {0} : m = CellsOf(r)
  BY RecordCells
<1>5. n \in 0..Len(c) /\ \A j \in 1..n : j \in 1..m
  BY <1>3, <1>4
<1>6. Cells(d) /\ Len(d) = n /\ Same(c, d, n)
  BY <1>2, <1>3, <1>5, CutIs
<1>7. \A j \in 1..n : d[j] = [rec |-> r, part |-> j]
  BY <1>3, <1>4, <1>5, <1>6 DEF Same
<1> QED
  BY <1>1, <1>2, <1>6, <1>7 DEF Piece

(* g is f with the first n cells of r written at e.                        *)
Written(f, g, e, r, n) ==
  /\ Cells(g) /\ Len(g) = (IF e + n > Len(f) THEN e + n ELSE Len(f))
  /\ Same(f, g, e)
  /\ \A j \in 1..n : g[e + j] = [rec |-> r, part |-> j]

LEMMA WriteIs ==
  ASSUME NEW f, Cells(f), NEW e \in 0..Len(f), NEW r, NEW n, NEW c, IsRecord(r), Piece(c, r, n),
         NEW g, g = WriteAt(f, e, c)
  PROVE  Written(f, g, e, r, n)
<1>1. PICK N \in Nat : N = Len(f) /\ e \in 0..N /\ \A i \in 1..N : IsCell(f[i])
  BY CellsLog
<1>2. PICK k \in Nat \ {0} : k = CellsOf(r)
  BY RecordCells
<1>3. n \in 1..k /\ Cells(c) /\ Len(c) = n /\ \A j \in 1..n : c[j] = [rec |-> r, part |-> j]
  BY <1>2 DEF Piece
<1>4. \A j \in 1..n : IsCell(c[j])
  BY <1>3, CellsLog
<1>4a. e \in Nat /\ n \in Nat \ {0} /\ N \in Nat /\ e <= N
  BY <1>1, <1>2, <1>3
<1>4b. PICK x \in Nat : x = e + n
  BY <1>4a
<1>5. PICK M \in Nat : M = IF x > N THEN x ELSE N
  BY <1>4a
<1>5a. M >= N /\ M >= x /\ (M = N \/ M = x)
  BY <1>4a, <1>5
<1>6. g = [i \in 1..M |-> IF i > e /\ i <= x THEN c[i - e] ELSE f[i]]
  BY <1>1, <1>3, <1>4b, <1>5 DEF WriteAt
<1>7. g = [i \in 1..M |-> g[i]]
      /\ \A i \in 1..M : g[i] = IF i > e /\ i <= x THEN c[i - e] ELSE f[i]
  BY <1>6
<1>8. ASSUME NEW i \in 1..M PROVE IsCell(g[i])
  <2>1. CASE i > e /\ i <= x
    <3>1. i - e \in 1..n /\ g[i] = c[i - e]
      BY <1>4a, <1>4b, <1>7, <2>1
    <3> QED
      BY <1>4, <3>1
  <2>2. CASE ~(i > e /\ i <= x)
    <3>1. i \in 1..N /\ g[i] = f[i]
      BY <1>4a, <1>4b, <1>5a, <1>7, <2>2
    <3> QED
      BY <1>1, <3>1
  <2> QED
    BY <2>1, <2>2
<1>9. Cells(g) /\ Len(g) = M
  BY <1>7, <1>8, CellsMade
<1>10. ASSUME NEW i \in 1..e PROVE g[i] = f[i]
  <2>1. i \in 1..M /\ ~(i > e)
    BY <1>4a, <1>4b, <1>5a
  <2> QED
    BY <1>7, <2>1
<1>11. ASSUME NEW j \in 1..n PROVE g[e + j] = [rec |-> r, part |-> j]
  <2>1. PICK y : y = e + j /\ y \in 1..M /\ y > e /\ y <= x /\ y - e = j
    BY <1>4a, <1>4b, <1>5a
  <2>2. g[y] = c[y - e]
    BY <1>7, <2>1
  <2> QED
    BY <1>3, <2>1, <2>2
<1> QED
  BY <1>1, <1>4b, <1>5, <1>9, <1>10, <1>11 DEF Written, Same
-----------------------------------------------------------------------------
(* Headers and indexes of a file.                                          *)

Points(f, i, b) == \A k \in DOMAIN i : i[k] \in Nat /\ i[k] < b /\ f[i[k] + 1].rec.op = "put"

Headed(f, h, n) ==
  /\ Cells(f) /\ h \in [at : Nat, len : Nat] /\ n \in 0..Len(f) /\ h.at + h.len <= n
  /\ IsIndex(Snapshot(f, h)) /\ Points(f, Snapshot(f, h), h.at)

Led(f, h, i, e) == IsIndex(i) /\ Points(f, i, e) /\ e \in 0..Len(f) /\ h.at + h.len <= e

LEMMA PointsKept ==
  ASSUME NEW f, NEW g, NEW i, NEW e \in Nat, NEW d \in Nat, Points(f, i, e), Same(f, g, e), e <= d
  PROVE  Points(g, i, d) /\ ValuesAt(g, i) = ValuesAt(f, i)
<1>1. ASSUME NEW k \in DOMAIN i
      PROVE  i[k] \in Nat /\ i[k] < d /\ g[i[k] + 1] = f[i[k] + 1] /\ f[i[k] + 1].rec.op = "put"
  <2>1. i[k] \in Nat /\ i[k] < e /\ f[i[k] + 1].rec.op = "put"
    BY DEF Points
  <2>2. i[k] + 1 \in 1..e
    BY <2>1
  <2> QED
    BY <2>1, <2>2 DEF Same
<1> QED
  BY <1>1 DEF Points, ValuesAt, ReadValue

LEMMA HeadedKept ==
  ASSUME NEW f, NEW g, NEW h, NEW n, NEW m, Headed(f, h, n), Cells(g), m \in 0..Len(g),
         NEW b \in Nat, h.at + h.len <= b, Same(f, g, b), h.at + h.len <= m
  PROVE  Headed(g, h, m) /\ Snapshot(g, h) = Snapshot(f, h)
<1>1. h \in [at : Nat, len : Nat] /\ IsIndex(Snapshot(f, h)) /\ Points(f, Snapshot(f, h), h.at)
  BY DEF Headed
<1>2. Snapshot(g, h) = Snapshot(f, h)
  <2>1. CASE h.len = 0
    BY <2>1 DEF Snapshot
  <2>2. CASE h.len # 0
    <3>1. h.at + 1 \in 1..b
      BY <1>1, <2>2
    <3> QED
      BY <2>2, <3>1 DEF Snapshot, Same
  <2> QED
    BY <2>1, <2>2
<1>3. PICK S : S = Snapshot(f, h)
  OBVIOUS
<1>4. Same(f, g, h.at) /\ h.at \in Nat
  <2>1. h.at \in Nat /\ \A i \in 1..h.at : i \in 1..b
    BY <1>1
  <2> QED
    BY <2>1 DEF Same
<1>5. Points(g, S, h.at)
  BY <1>1, <1>3, <1>4, PointsKept
<1> QED
  BY <1>1, <1>2, <1>3, <1>5 DEF Headed

(* What a replay reads is an index into the file it reads.                 *)
LEMMA ReplayLeads ==
  ASSUME NEW f, NEW h, NEW n, Headed(f, h, n)
  PROVE  Led(f, h, ReplayIndex(f, h), ReplayEnd(f, h))
<1>1. Cells(f) /\ h \in [at : Nat, len : Nat] /\ n \in 0..Len(f) /\ h.at + h.len <= n
      /\ IsIndex(Snapshot(f, h)) /\ Points(f, Snapshot(f, h), h.at)
  BY DEF Headed
<1>2. Log(f) /\ Len(f) \in Nat
  BY <1>1, CellsLog
<1>3. PICK R : R = Reached(f, h)
  OBVIOUS
<1>4. PICK e : e = ReplayEnd(f, h)
  OBVIOUS
<1>5. Chain(f, ReplayFrom(h), R, e)
  <2>1. ReplayFrom(h) \in 0..Len(f)
    BY <1>1, <1>2 DEF ReplayFrom
  <2> QED
    BY <1>2, <1>3, <1>4, <2>1, ReplayChain
<1>6. R \subseteq 0..Len(f) /\ e \in R /\ h.at + h.len <= e
  BY <1>5 DEF Chain, ReplayFrom
<1>6a. PICK recs : recs = Replayed(f, h)
  OBVIOUS
<1>7. recs = Replayed(f, h) /\ recs \subseteq Nat
  BY <1>2, <1>3, <1>6, <1>6a DEF Replayed
<1>8. PICK i : i = ReplayIndex(f, h)
  OBVIOUS
<1>9. e \in Nat /\ h.at <= e /\ h.at \in Nat
  BY <1>1, <1>2, <1>6
<1>10. IsIndexAt(i, f, h, recs, e)
  BY <1>4, <1>7, <1>8, IndexAtIs DEF ReplayIndex
<1>11. PICK S : S = Snapshot(f, h)
  OBVIOUS
<1>12. /\ i = [k \in DOMAIN i |-> i[k]]
       /\ \A k : k \in DOMAIN i <=>
            k \in Keys /\ IF Of(f, recs, e, k) = {} THEN k \in DOMAIN S
                          ELSE f[Max(Of(f, recs, e, k)) + 1].rec.op = "put"
       /\ \A k \in DOMAIN i : i[k] = IF Of(f, recs, e, k) = {} THEN S[k]
                                     ELSE Max(Of(f, recs, e, k))
  BY <1>10, <1>11 DEF IsIndexAt
<1>13. ASSUME NEW k \in DOMAIN i PROVE i[k] \in Nat /\ i[k] < e /\ f[i[k] + 1].rec.op = "put"
  <2>1. CASE Of(f, recs, e, k) = {}
    <3>1. k \in DOMAIN S /\ i[k] = S[k]
      BY <1>12, <2>1
    <3>2. S[k] \in Nat /\ S[k] < h.at /\ f[S[k] + 1].rec.op = "put"
      BY <1>1, <1>11, <3>1 DEF Points
    <3> QED
      BY <1>9, <3>1, <3>2
  <2>2. CASE Of(f, recs, e, k) # {}
    <3>1. PICK x : x = Max(Of(f, recs, e, k))
      OBVIOUS
    <3>2. i[k] = x /\ f[x + 1].rec.op = "put"
      BY <1>12, <2>2, <3>1
    <3>3. x \in Nat /\ x < e
      BY <1>7, <1>9, <2>2, <3>1, MaxOf
    <3> QED
      BY <3>2, <3>3
  <2> QED
    BY <2>1, <2>2
<1>14. IsIndex(i) /\ Points(f, i, e)
  BY <1>12, <1>13 DEF IsIndex, Points
<1>15. e \in 0..Len(f)
  BY <1>6
<1> QED
  BY <1>4, <1>6, <1>8, <1>14, <1>15 DEF Led
-----------------------------------------------------------------------------
(* What a replay reads after a write, and after a cut.                     *)

Replays(f, h, i, e) == ReplayEnd(f, h) = e /\ ReplayIndex(f, h) = i /\ ~ReplayFails(f, h)

LEMMA ReplayGives ==
  ASSUME NEW f, NEW h, NEW n, NEW i, NEW e, Headed(f, h, n), Replays(f, h, i, e)
  PROVE  \E R, recs : /\ Chain(f, ReplayFrom(h), R, e) /\ recs = R \ {e} /\ e \in 0..Len(f)
                      /\ Below(f, f, recs, e) /\ i = IndexAt(f, h, recs, e)
                      /\ e < Len(f) => Decode(f, e) = "torn"
<1>1. Cells(f) /\ h \in [at : Nat, len : Nat] /\ n \in 0..Len(f) /\ h.at + h.len <= n
  BY DEF Headed
<1>2. Log(f) /\ Len(f) \in Nat
  BY <1>1, CellsLog
<1>3. PICK R : R = Reached(f, h)
  OBVIOUS
<1>4. ReplayEnd(f, h) = e /\ ReplayIndex(f, h) = i /\ ~ReplayFails(f, h)
  BY DEF Replays
<1>5. Chain(f, ReplayFrom(h), R, e)
  <2>1. ReplayFrom(h) \in 0..Len(f)
    BY <1>1, <1>2 DEF ReplayFrom
  <2> QED
    BY <1>2, <1>3, <1>4, <2>1, ReplayChain
<1>6. /\ R \subseteq 0..Len(f) /\ e \in R /\ \A p \in R : p <= e
      /\ e < Len(f) => Decode(f, e) # "record"
  BY <1>5 DEF Chain
<1>7. PICK recs : recs = R \ {e}
  OBVIOUS
<1>8. i = IndexAt(f, h, recs, e)
  BY <1>3, <1>4, <1>7 DEF ReplayIndex, Replayed
<1>9. Below(f, f, recs, e)
  <2>1. recs \subseteq Nat
    BY <1>2, <1>6, <1>7
  <2>2. \A q \in recs : q < e
    <3>1. SUFFICES ASSUME NEW q \in recs PROVE q < e
      OBVIOUS
    <3>2. q \in 0..Len(f) /\ e \in 0..Len(f) /\ q <= e /\ q # e
      BY <1>6, <1>7
    <3> QED
      BY <1>2, <3>2
  <2> QED
    BY <2>1, <2>2 DEF Below
<1>10. e < Len(f) => Decode(f, e) # "unknown"
  BY <1>4 DEF ReplayFails
<1>11. Decode(f, e) \in {"unknown", "torn", "record"}
  BY DEF Decode
<1> QED
  BY <1>5, <1>6, <1>7, <1>8, <1>9, <1>10, <1>11

LEMMA ReplayOf ==
  ASSUME NEW f, NEW h, NEW i, NEW e, NEW R, NEW recs, Log(f), Chain(f, ReplayFrom(h), R, e),
         recs = R \ {e}, i = IndexAt(f, h, recs, e), e < Len(f) => Decode(f, e) # "unknown"
  PROVE  Replays(f, h, i, e)
<1>1. Reached(f, h) = R /\ ReplayEnd(f, h) = e
  BY ChainIsReplay
<1>2. ReplayIndex(f, h) = i
  BY <1>1 DEF ReplayIndex, Replayed
<1>3. ~ReplayFails(f, h)
  BY <1>1 DEF ReplayFails
<1> QED
  BY <1>1, <1>2, <1>3 DEF Replays

(* What is torn beyond the end of the log is not read.                     *)
LEMMA ReplayTorn ==
  ASSUME NEW f, NEW g, NEW h, NEW n, NEW i, NEW e, Headed(f, h, n), Replays(f, h, i, e), Cells(g),
         Same(f, g, e), e <= Len(g), e < Len(g) => Decode(g, e) = "torn"
  PROVE  Replays(g, h, i, e)
<1>1. PICK R, recs : /\ Chain(f, ReplayFrom(h), R, e) /\ recs = R \ {e} /\ e \in 0..Len(f)
                     /\ Below(f, f, recs, e) /\ i = IndexAt(f, h, recs, e)
  BY ReplayGives
<1>2. Cells(f) /\ Log(f) /\ Log(g) /\ Len(f) \in Nat /\ Len(g) \in Nat
  BY CellsLog DEF Headed
<1>3. Chain(g, ReplayFrom(h), R, e)
  <2>1. PICK s : s = ReplayFrom(h)
    OBVIOUS
  <2>2. e < Len(g) => Decode(g, e) # "record"
    OBVIOUS
  <2> QED
    BY <1>1, <1>2, <2>1, <2>2, ChainKept
<1>4. e \in Nat
  BY <1>1, <1>2
<1>5. Below(f, g, recs, e)
  <2>1. recs \subseteq Nat /\ \A q \in recs : q < e
    BY <1>1 DEF Below
  <2>2. \A q \in recs : q + 1 \in 1..e
    BY <1>4, <2>1
  <2> QED
    BY <2>1, <2>2 DEF Below, Same
<1>6. Snapshot(g, h) = Snapshot(f, h)
  <2>1. h \in [at : Nat, len : Nat] /\ h.at + h.len <= e
    BY <1>1 DEF Headed, Chain, ReplayFrom
  <2>2. e \in 0..Len(g)
    BY <1>2, <1>4
  <2> QED
    BY <1>4, <2>1, <2>2, HeadedKept
<1>7. IndexAt(g, h, recs, e) = i
  BY <1>1, <1>4, <1>5, <1>6, IndexSame
<1> QED
  BY <1>1, <1>2, <1>3, <1>7, ReplayOf

(* A whole record at the end of the log is read.                           *)
LEMMA ReplayMore ==
  ASSUME NEW f, NEW g, NEW h, NEW n, NEW i, NEW e, Headed(f, h, n), Replays(f, h, i, e), Cells(g),
         Same(f, g, e), e < Len(g), NEW r, r.op # "index", g[e + 1] = [rec |-> r, part |-> 1],
         Len(g) = e + CellsOf(r)
  PROVE  \E recs, more :
           /\ more = recs \cup {e} /\ Below(f, g, recs, e) /\ i = IndexAt(f, h, recs, e)
           /\ Snapshot(g, h) = Snapshot(f, h) /\ e \in Nat /\ Len(g) \in Nat
           /\ \A j : j = IndexAt(g, h, more, Len(g)) => Replays(g, h, j, Len(g))
<1>1. PICK R, recs : /\ Chain(f, ReplayFrom(h), R, e) /\ recs = R \ {e} /\ e \in 0..Len(f)
                     /\ Below(f, f, recs, e) /\ i = IndexAt(f, h, recs, e)
  BY ReplayGives
<1>2. Cells(f) /\ Log(f) /\ Log(g) /\ Len(f) \in Nat /\ Len(g) \in Nat
  BY CellsLog DEF Headed
<1>3. PICK m \in Nat : m = Len(g)
  BY <1>2
<1>4. e \in Nat /\ e < m /\ e \in R
  BY <1>1, <1>2, <1>3 DEF Chain
<1>5. Decode(g, e) = "record" /\ m = e + CellsOf(g[e + 1].rec)
  BY <1>3, <1>4 DEF Decode
<1>6. PICK s : s = ReplayFrom(h)
  OBVIOUS
<1>7. PICK Q : Q = R \cup {m}
  OBVIOUS
<1>8. Chain(g, s, Q, m)
  BY <1>1, <1>2, <1>3, <1>4, <1>5, <1>6, <1>7, ChainAppend
<1>9. PICK more : more = Q \ {m}
  OBVIOUS
<1>10. more = recs \cup {e}
  <2>1. m \notin R
    <3>1. \A p \in R : p <= e
      BY <1>1 DEF Chain
    <3> QED
      BY <1>4, <3>1
  <2> QED
    BY <1>1, <1>4, <1>7, <1>9, <2>1
<1>11. Below(f, g, recs, e)
  <2>1. recs \subseteq Nat /\ \A q \in recs : q < e
    BY <1>1 DEF Below
  <2>2. \A q \in recs : q + 1 \in 1..e
    BY <1>4, <2>1
  <2> QED
    BY <2>1, <2>2 DEF Below, Same
<1>12. Snapshot(g, h) = Snapshot(f, h)
  <2>1. h \in [at : Nat, len : Nat] /\ h.at + h.len <= e
    BY <1>1 DEF Headed, Chain, ReplayFrom
  <2>2. e \in 0..Len(g)
    BY <1>2, <1>3, <1>4
  <2> QED
    BY <1>4, <2>1, <2>2, HeadedKept
<1>13. ASSUME NEW j, j = IndexAt(g, h, more, m) PROVE Replays(g, h, j, m)
  <2>1. m < Len(g) => Decode(g, m) # "unknown"
    BY <1>3
  <2> QED
    BY <1>2, <1>6, <1>8, <1>9, <1>13, <2>1, ReplayOf
<1> QED
  BY <1>1, <1>3, <1>4, <1>10, <1>11, <1>12, <1>13

LEMMA ReplayPut ==
  ASSUME NEW f, NEW g, NEW h, NEW n, NEW i, NEW e, Headed(f, h, n), Replays(f, h, i, e), Cells(g),
         Same(f, g, e), e < Len(g), NEW k \in Keys, NEW v, NEW r, r = PutRec(k, v),
         g[e + 1] = [rec |-> r, part |-> 1], Len(g) = e + CellsOf(r)
  PROVE  Replays(g, h, Indexed(i, k, e), Len(g))
<1>1. r.op # "index"
  BY DEF PutRec
<1>2. PICK recs, more :
        /\ more = recs \cup {e} /\ Below(f, g, recs, e) /\ i = IndexAt(f, h, recs, e)
        /\ Snapshot(g, h) = Snapshot(f, h) /\ e \in Nat /\ Len(g) \in Nat
        /\ \A j : j = IndexAt(g, h, more, Len(g)) => Replays(g, h, j, Len(g))
  BY <1>1, ReplayMore
<1>3. PICK m \in Nat : m = Len(g) /\ e < m
  BY <1>2
<1>4. g[e + 1].rec = PutRec(k, v)
  OBVIOUS
<1>5. IndexAt(g, h, more, m) = Indexed(IndexAt(f, h, recs, e), k, e)
  BY <1>2, <1>3, <1>4, IndexPut
<1> QED
  BY <1>2, <1>3, <1>5

LEMMA ReplayDelete ==
  ASSUME NEW f, NEW g, NEW h, NEW n, NEW i, NEW e, Headed(f, h, n), Replays(f, h, i, e), Cells(g),
         Same(f, g, e), e < Len(g), NEW k \in Keys, NEW r, r = DelRec(k),
         g[e + 1] = [rec |-> r, part |-> 1], Len(g) = e + CellsOf(r)
  PROVE  Replays(g, h, Unindexed(i, k), Len(g))
<1>1. r.op # "index"
  BY DEF DelRec
<1>2. PICK recs, more :
        /\ more = recs \cup {e} /\ Below(f, g, recs, e) /\ i = IndexAt(f, h, recs, e)
        /\ Snapshot(g, h) = Snapshot(f, h) /\ e \in Nat /\ Len(g) \in Nat
        /\ \A j : j = IndexAt(g, h, more, Len(g)) => Replays(g, h, j, Len(g))
  BY <1>1, ReplayMore
<1>3. PICK m \in Nat : m = Len(g) /\ e < m
  BY <1>2
<1>4. g[e + 1].rec = DelRec(k)
  OBVIOUS
<1>5. IndexAt(g, h, more, m) = Unindexed(IndexAt(f, h, recs, e), k)
  BY <1>2, <1>3, <1>4, IndexDelete
<1> QED
  BY <1>2, <1>3, <1>5

(* A file cut short, at or after its snapshot, opens.                      *)
LEMMA ReplayCut ==
  ASSUME NEW f, NEW g, NEW h, NEW n, NEW i, NEW e, Headed(f, h, n), Replays(f, h, i, e),
         NEW m \in n..Len(f), g = SubSeq(f, 1, m)
  PROVE  /\ Cells(g) /\ Len(g) = m /\ ~ReplayFails(g, h)
         /\ e <= m => Replays(g, h, i, e)
<1>1. PICK R, recs : /\ Chain(f, ReplayFrom(h), R, e) /\ recs = R \ {e} /\ e \in 0..Len(f)
                     /\ Below(f, f, recs, e) /\ i = IndexAt(f, h, recs, e)
                     /\ e < Len(f) => Decode(f, e) = "torn"
  BY ReplayGives
<1>2. PICK N \in Nat : /\ N = Len(f) /\ Cells(f) /\ Log(f) /\ n \in 0..N
                       /\ h \in [at : Nat, len : Nat] /\ h.at + h.len <= n
                       /\ \A j \in 1..N : IsCell(f[j])
  BY CellsLog DEF Headed
<1>3. m \in 0..N /\ e \in 0..N /\ n <= m
  BY <1>1, <1>2
<1>4. Cells(g) /\ Len(g) = m /\ Same(f, g, m)
  BY <1>2, <1>3, CutIs
<1>5. Log(g)
  BY <1>4, CellsLog
<1>6. CASE e <= m
  <2>1. Same(f, g, e)
    <3>1. \A j \in 1..e : j \in 1..m
      BY <1>3, <1>6
    <3> QED
      BY <1>4, <3>1 DEF Same
  <2>2. ASSUME e < m PROVE Decode(g, e) = "torn"
    <3>1. g[e + 1] = f[e + 1] /\ Decode(f, e) = "torn"
      <4>1. e + 1 \in 1..m /\ e < Len(f)
        BY <1>2, <1>3, <2>2
      <4> QED
        BY <1>1, <1>4, <4>1 DEF Same
    <3>2. PICK c \in Nat : c = CellsOf(f[e + 1].rec)
      <4>1. e + 1 \in 1..N
        BY <1>2, <1>3, <2>2
      <4> QED
        BY <1>2, <4>1 DEF Log
    <3>3. e + c > N => e + c > m
      BY <1>3
    <3> QED
      BY <1>2, <1>4, <3>1, <3>2, <3>3 DEF Decode
  <2>3. Replays(g, h, i, e)
    BY <1>4, <1>6, <2>1, <2>2, ReplayTorn
  <2> QED
    BY <1>4, <2>3 DEF Replays
<1>7. CASE ~(e <= m)
  <2>1. PICK s : s = ReplayFrom(h)
    OBVIOUS
  <2>2. s <= m /\ m < e
    BY <1>2, <1>3, <1>7, <2>1 DEF ReplayFrom
  <2>3. PICK Q : Q = {p \in R : p <= m}
    OBVIOUS
  <2>3a. Chain(f, s, R, e) /\ Same(f, g, Len(g)) /\ s <= Len(g) /\ Len(g) < e
    BY <1>1, <1>4, <2>1, <2>2
  <2>4. PICK d : /\ Chain(g, s, Q, d)
                 /\ d < Len(g) => Decode(g, d) = "torn"
    <3>1. Q = {p \in R : p <= Len(g)}
      BY <1>4, <2>3
    <3>2. Log(f) /\ Log(g)
      BY <1>2, <1>5
    <3> QED
      BY <3>1, <3>2, <2>3a, ChainCut
  <2>5. ReplayEnd(g, h) = d
    BY <1>5, <2>1, <2>4, ChainIsReplay
  <2> QED
    BY <1>4, <1>7, <2>4, <2>5 DEF ReplayFails
<1> QED
  BY <1>6, <1>7

LEMMA ReplayHolds ==
  ASSUME NEW f, NEW h, NEW i, NEW e, Replays(f, h, i, e)
  PROVE  Contents(f, h) = ValuesAt(f, i)
BY DEF Replays, Contents

(* A record is torn in a file that ends before it does.                    *)
LEMMA ShortIsTorn ==
  ASSUME NEW g, NEW e, NEW r, g[e + 1] = [rec |-> r, part |-> 1], r.op # "index",
         e + CellsOf(r) > Len(g)
  PROVE  Decode(g, e) = "torn"
BY DEF Decode

Lower(e, s) == IF e < s THEN e ELSE s

(* The maps a power loss may leave, after a write at the end of the log.   *)
Cuts(f, h, s, S) == \A m \in s..Len(f) : Contents(SubSeq(f, 1, m), h) \in S

LEMMA WriteCuts ==
  ASSUME NEW f, NEW g, NEW h, NEW s, NEW i, NEW e, NEW r, NEW n, Headed(f, h, s), Led(f, h, i, e),
         Replays(f, h, i, e), IsRecord(r), r.op # "index", Written(f, g, e, r, n),
         n \in 1..CellsOf(r), Len(g) = e + n, NEW S, NEW T, Cuts(f, h, s, S), ValuesAt(f, i) \in S,
         S \subseteq T, Contents(g, h) \in T, NEW t, t = Lower(e, s)
  PROVE  Cuts(g, h, t, T)
<1>1. PICK N \in Nat : N = Len(f) /\ Cells(f) /\ s \in 0..N /\ e \in 0..N
  BY CellsLog DEF Headed, Led
<1>2. PICK c \in Nat \ {0} : c = CellsOf(r) /\ n \in 1..c
  BY RecordCells
<1>3. PICK M \in Nat : M = Len(g) /\ M = e + n /\ Cells(g) /\ Same(f, g, e)
  BY CellsLog DEF Written
<1>3a. e \in Nat /\ s \in Nat /\ n \in Nat \ {0} /\ e < M /\ M <= e + c
  BY <1>1, <1>2, <1>3
<1>4. ASSUME NEW m \in t..M PROVE Contents(SubSeq(g, 1, m), h) \in T
  <2>0. m \in 0..M /\ (m < e => m >= s)
    BY <1>3a DEF Lower
  <2>1. CASE m < e
    <3>1. m \in s..N /\ m \in 0..N
      BY <1>1, <1>3a, <2>0, <2>1
    <3>2. Same(f, g, m)
      <4>1. \A j \in 1..m : j \in 1..e
        BY <1>3a, <2>0, <2>1
      <4> QED
        BY <1>3, <4>1 DEF Same
    <3>3. SubSeq(f, 1, m) = SubSeq(g, 1, m)
      BY <1>1, <1>3, <2>0, <3>1, <3>2, CutSame
    <3> QED
      BY <1>1, <3>1, <3>3 DEF Cuts
  <2>2. CASE m = M
    BY <1>3, <2>2, CutWhole
  <2>3. CASE ~(m < e) /\ m # M
    <3>1. PICK d : d = SubSeq(g, 1, m)
      OBVIOUS
    <3>2. Cells(d) /\ Len(d) = m /\ Same(g, d, m)
      BY <1>3, <2>0, <3>1, CutIs
    <3>3. Same(f, d, e)
      <4>1. \A j \in 1..e : j \in 1..m
        BY <1>3a, <2>0, <2>3
      <4> QED
        BY <1>3, <3>2, <4>1 DEF Same
    <3>4. ASSUME e < m PROVE Decode(d, e) = "torn"
      <4>1. e + 1 \in 1..m /\ e + c > m
        BY <1>3a, <2>0, <2>3, <3>4
      <4>2. d[e + 1] = [rec |-> r, part |-> 1]
        BY <1>3a, <3>2, <4>1 DEF Same, Written
      <4> QED
        BY <1>2, <3>2, <4>1, <4>2, ShortIsTorn
    <3>5. Replays(d, h, i, e)
      <4>1. e <= Len(d)
        BY <1>3a, <2>0, <2>3, <3>2
      <4> QED
        BY <3>2, <3>3, <3>4, <4>1, ReplayTorn
    <3>6. ValuesAt(d, i) = ValuesAt(f, i)
      BY <1>3a, <3>3, PointsKept DEF Led
    <3> QED
      BY <3>1, <3>5, <3>6, ReplayHolds
  <2> QED
    BY <2>1, <2>2, <2>3
<1> QED
  BY <1>3, <1>4 DEF Cuts

(* A torn write leaves the map as it was.                                  *)
LEMMA WriteTorn ==
  ASSUME NEW f, NEW g, NEW h, NEW s, NEW i, NEW e, NEW r, NEW n, Headed(f, h, s), Led(f, h, i, e),
         Replays(f, h, i, e), IsRecord(r), r.op # "index", Written(f, g, e, r, n),
         n \in 1..CellsOf(r), Len(g) = e + n, n # CellsOf(r)
  PROVE  Replays(g, h, i, e) /\ Contents(g, h) = ValuesAt(f, i)
<1>1. PICK c \in Nat \ {0} : c = CellsOf(r) /\ n \in 1..c
  BY RecordCells
<1>2. e \in Nat
  BY CellsLog DEF Headed, Led
<1>3. Cells(g) /\ Same(f, g, e) /\ g[e + 1] = [rec |-> r, part |-> 1]
  BY <1>1 DEF Written
<1>4. e + c > Len(g) /\ e <= Len(g)
  BY <1>1, <1>2
<1>5. Decode(g, e) = "torn"
  BY <1>1, <1>3, <1>4, ShortIsTorn
<1>6. Replays(g, h, i, e)
  BY <1>3, <1>4, <1>5, ReplayTorn
<1>7. ValuesAt(g, i) = ValuesAt(f, i)
  BY <1>2, <1>3, PointsKept DEF Led
<1> QED
  BY <1>6, <1>7, ReplayHolds

(* What holds after a write at the end of the log.                         *)
WrittenWell(f, g, h, s, e, r, n, t) ==
  /\ Headed(g, h, t) /\ Snapshot(g, h) = Snapshot(f, h) /\ Same(f, g, e)
  /\ e \in Nat /\ n \in Nat \ {0} /\ e < Len(g) /\ e + n <= Len(g) /\ Len(g) \in Nat
  /\ s \in Nat /\ t \in Nat /\ t <= e /\ g[e + 1] = [rec |-> r, part |-> 1]

LEMMA WriteHeaded ==
  ASSUME NEW f, NEW g, NEW h, NEW s, NEW i, NEW e, NEW r, NEW n, Headed(f, h, s), Led(f, h, i, e),
         IsRecord(r), n \in 1..CellsOf(r), Written(f, g, e, r, n),
         NEW t, t = Lower(e, s)
  PROVE  WrittenWell(f, g, h, s, e, r, n, t)
<1>1. PICK N \in Nat : N = Len(f) /\ Cells(f) /\ s \in 0..N /\ e \in 0..N
  BY CellsLog DEF Headed, Led
<1>2. PICK c \in Nat \ {0} : c = CellsOf(r) /\ n \in 1..c
  BY RecordCells
<1>3. PICK M \in Nat : M = Len(g) /\ M = (IF e + n > N THEN e + n ELSE N)
                       /\ Cells(g) /\ Same(f, g, e)
  BY <1>1, CellsLog DEF Written
<1>4. e \in Nat /\ s \in Nat /\ n \in Nat \ {0} /\ e < M /\ e + n <= M /\ t \in 0..M /\ t <= e
  BY <1>1, <1>2, <1>3 DEF Lower
<1>5. h \in [at : Nat, len : Nat] /\ h.at + h.len <= s /\ h.at + h.len <= e
  BY DEF Headed, Led
<1>6. h.at + h.len <= t
  BY <1>4, <1>5 DEF Lower
<1>7. Headed(g, h, t) /\ Snapshot(g, h) = Snapshot(f, h)
  BY <1>3, <1>4, <1>5, <1>6, HeadedKept
<1>8. g[e + 1] = [rec |-> r, part |-> 1]
  BY <1>4 DEF Written
<1> QED
  BY <1>3, <1>4, <1>7, <1>8 DEF WrittenWell

LEMMA LedPut ==
  ASSUME NEW f, NEW g, NEW h, NEW i, NEW e \in Nat, NEW d \in Nat, NEW k \in Keys, NEW v,
         NEW r, r = PutRec(k, v), NEW j, j = Indexed(i, k, e),
         Led(f, h, i, e), Same(f, g, e), g[e + 1] = [rec |-> r, part |-> 1],
         e < d, d <= Len(g), Len(g) \in Nat, h \in [at : Nat, len : Nat]
  PROVE  /\ Led(g, h, j, d)
         /\ ValuesAt(g, j) = Indexed(ValuesAt(f, i), k, v)
<1>1. /\ i = [x \in DOMAIN i |-> i[x]] /\ DOMAIN i \subseteq Keys /\ \A x \in DOMAIN i : i[x] \in Nat
      /\ Points(f, i, e) /\ h.at + h.len <= e
  BY DEF Led, IsIndex
<1>2. Points(g, i, d) /\ ValuesAt(g, i) = ValuesAt(f, i)
  BY <1>1, PointsKept
<1>4. /\ j = [x \in DOMAIN j |-> j[x]] /\ DOMAIN j = DOMAIN i \cup {k}
      /\ j[k] = e /\ \A x \in DOMAIN i : x # k => j[x] = i[x]
  BY DEF Indexed
<1>5. ASSUME NEW x \in DOMAIN j PROVE j[x] \in Nat /\ j[x] < d /\ g[j[x] + 1].rec.op = "put"
  <2>1. CASE x = k
    BY <1>4, <2>1 DEF PutRec
  <2>2. CASE x # k
    BY <1>2, <1>4, <2>2 DEF Points
  <2> QED
    BY <2>1, <2>2
<1>6. IsIndex(j) /\ Points(g, j, d)
  BY <1>1, <1>4, <1>5 DEF IsIndex, Points
<1>7. d \in 0..Len(g) /\ h.at + h.len <= d
  BY <1>1
<1>8. /\ DOMAIN ValuesAt(f, i) = DOMAIN i
      /\ \A x \in DOMAIN i : ValuesAt(f, i)[x] = g[i[x] + 1].rec.val
  BY <1>2 DEF ValuesAt, ReadValue
<1>9. g[e + 1].rec.val = v
  BY DEF PutRec
<1>10. ValuesAt(g, j) = [x \in DOMAIN i \cup {k} |-> IF x = k THEN v ELSE ValuesAt(f, i)[x]]
  <2>1. ValuesAt(g, j) = [x \in DOMAIN i \cup {k} |-> g[j[x] + 1].rec.val]
    BY <1>4 DEF ValuesAt, ReadValue
  <2>2. \A x \in DOMAIN i \cup {k} :
          g[j[x] + 1].rec.val = IF x = k THEN v ELSE ValuesAt(f, i)[x]
    BY <1>4, <1>8, <1>9
  <2> QED
    BY <2>1, <2>2
<1> QED
  BY <1>6, <1>7, <1>8, <1>10 DEF Led, Indexed

LEMMA LedDelete ==
  ASSUME NEW f, NEW g, NEW h, NEW i, NEW e \in Nat, NEW d \in Nat, NEW k,
         NEW j, j = Unindexed(i, k), Led(f, h, i, e), Same(f, g, e),
         e < d, d <= Len(g), Len(g) \in Nat, h \in [at : Nat, len : Nat]
  PROVE  /\ Led(g, h, j, d)
         /\ ValuesAt(g, j) = Unindexed(ValuesAt(f, i), k)
<1>1. /\ i = [x \in DOMAIN i |-> i[x]] /\ DOMAIN i \subseteq Keys /\ \A x \in DOMAIN i : i[x] \in Nat
      /\ Points(f, i, e) /\ h.at + h.len <= e
  BY DEF Led, IsIndex
<1>2. Points(g, i, d) /\ ValuesAt(g, i) = ValuesAt(f, i)
  BY <1>1, PointsKept
<1>4. /\ j = [x \in DOMAIN j |-> j[x]] /\ DOMAIN j = DOMAIN i \ {k}
      /\ \A x \in DOMAIN j : x \in DOMAIN i /\ j[x] = i[x]
  BY DEF Unindexed
<1>5. IsIndex(j) /\ Points(g, j, d)
  BY <1>1, <1>2, <1>4 DEF IsIndex, Points
<1>6. d \in 0..Len(g) /\ h.at + h.len <= d
  BY <1>1
<1>7. /\ DOMAIN ValuesAt(f, i) = DOMAIN i
      /\ \A x \in DOMAIN i : ValuesAt(f, i)[x] = g[i[x] + 1].rec.val
  BY <1>2 DEF ValuesAt, ReadValue
<1>8. ValuesAt(g, j) = [x \in DOMAIN i \ {k} |-> ValuesAt(f, i)[x]]
  BY <1>4, <1>7 DEF ValuesAt, ReadValue
<1> QED
  BY <1>5, <1>6, <1>7, <1>8 DEF Led, Unindexed
-----------------------------------------------------------------------------
(* The inductive invariant.                                                *)

Named(f, i, e) ==
  LET len == CellsOf(SnapRec(i)) IN
  len <= e /\ f[e - len + 1].rec = SnapRec(i) /\ Points(f, i, e - len)

Typed ==
  /\ dead \in Nat /\ stray \in BOOLEAN
  /\ mode \in {"ready", "compact", "snapshot", "header", "down", "broken"}

(* The index leads into the log, and the header to a snapshot of one that  *)
(* led into what comes before it.                                          *)
Sound ==
  /\ Headed(file, header, synced)
  /\ mode \in Running => Led(file, header, index, end)
  /\ mode \notin Running => index = <<>> /\ end = 0
  /\ mode = "header" => Named(file, index, end) /\ synced = Len(file)

(* As long as nothing stray is in the log, it is read up to the append     *)
(* position, and any cut of it that the power may leave as a map it was.   *)
Clean ==
  /\ mode \in Running \ {"header"} => Replays(file, header, index, end)
  /\ mode = "header" => end = Len(file) /\ since = {map}
  /\ mode = "down" => ~ReplayFails(file, header)
  /\ mode # "broken"
  /\ map = MapOf(file, header, index, mode) /\ map \in since
  /\ mode # "header" => Cuts(file, header, synced, since)

DbInv == Typed /\ Sound /\ (~stray => Clean)

(* What a step does to the promised map.                                   *)
Kept == UNCHANGED <<map, since>>

LEMMA PutStep ==
  ASSUME DbInv, NEW k \in Keys, NEW v \in Values, Put(k, v)
  PROVE  /\ DbInv'
         /\ stray' => Kept
         /\ ~stray' => map' = Indexed(map, k, v)
                       /\ since' = since \cup {map'}
<1> USE DEF Kept
<1>0. PICK r : r = PutRec(k, v)
  OBVIOUS
<1>0a. PICK g : g = file'
  OBVIOUS
<1>0b. PICK t : t = synced'
  OBVIOUS
<1>1. r = PutRec(k, v) /\ IsRecord(r) /\ r.op # "index"
  <2>1. IsRecord(r)
    BY <1>0 DEF IsRecord
  <2>2. r.op = "put"
    BY <1>0 DEF PutRec
  <2> QED
    BY <1>0, <2>1, <2>2
<1>2. /\ mode = "ready" /\ file' = WriteAt(file, end, Encode(r)) /\ end' = end + CellsOf(r)
      /\ index' = Indexed(index, k, end) /\ dead' = ChargeDead(k) /\ synced' = Synced(end)
      /\ mode' \in {"compact", "ready"} /\ header' = header
      /\ stray' = (stray \/ end' < Len(file')) /\ History
  BY <1>1 DEF Put, Appended, Covers
<1>3. /\ Headed(file, header, synced) /\ Led(file, header, index, end)
      /\ dead \in Nat /\ stray \in BOOLEAN
  BY <1>2 DEF DbInv, Sound, Typed, Running
<1>4. PICK n \in Nat \ {0} : n = CellsOf(r) /\ n \in 1..CellsOf(r)
  BY <1>1, RecordCells
<1>5. Written(file, g, end, r, n)
  <2>1. Piece(Encode(r), r, n) /\ Cells(file) /\ end \in 0..Len(file)
    BY <1>1, <1>3, <1>4, EncodeIs DEF Headed, Led
  <2> QED
    BY <1>0a, <1>1, <1>2, <2>1, WriteIs
<1>6. t = Lower(end, synced)
  BY <1>0b, <1>2 DEF Synced, Lower
<1>7. /\ Headed(g, header, t) /\ Snapshot(g, header) = Snapshot(file, header)
      /\ Same(file, g, end) /\ end \in Nat /\ end < Len(g) /\ end + n <= Len(g)
      /\ Len(g) \in Nat /\ synced \in Nat /\ t \in Nat /\ t <= end
      /\ g[end + 1] = [rec |-> r, part |-> 1]
  <2>1. WrittenWell(file, g, header, synced, end, r, n, t)
    BY <1>1, <1>3, <1>4, <1>5, <1>6, WriteHeaded
  <2> QED
    BY <2>1 DEF WrittenWell
<1>8. PICK d \in Nat : d = end' /\ d = end + n /\ end < d /\ d <= Len(g)
  BY <1>2, <1>4, <1>7
<1>8a. PICK j : j = index' /\ j = Indexed(index, k, end)
  BY <1>2
<1>9. /\ Led(g, header, j, d)
      /\ ValuesAt(g, j) = Indexed(ValuesAt(file, index), k, v)
  <2>1. header \in [at : Nat, len : Nat]
    BY <1>3 DEF Headed
  <2> QED
    BY <1>1, <1>3, <1>7, <1>8, <1>8a, <2>1, LedPut
<1>10. dead' \in Nat
  <2>1. CASE k \in DOMAIN index
    <3>1. index[k] \in Nat /\ index[k] < end /\ Cells(file) /\ end \in 0..Len(file)
      BY <1>3, <2>1 DEF Led, Points, Headed
    <3>2. index[k] + 1 \in 1..Len(file)
      BY <3>1
    <3>3. CellsOf(file[index[k] + 1].rec) \in Nat
      BY <3>1, <3>2, CellsLog DEF Log
    <3> QED
      BY <1>2, <1>3, <2>1, <3>3 DEF ChargeDead
  <2>2. CASE k \notin DOMAIN index
    BY <1>2, <1>3, <2>2 DEF ChargeDead
  <2> QED
    BY <2>1, <2>2
<1>11. Typed' /\ Sound'
  <2>1. Typed'
    BY <1>2, <1>3, <1>10 DEF Typed
  <2>2. mode' \in Running /\ mode' # "header"
    BY <1>2 DEF Running
  <2> QED
    BY <1>0a, <1>0b, <1>2, <1>7, <1>8, <1>8a, <1>9, <2>1, <2>2 DEF Sound
<1>12. ASSUME ~stray'
       PROVE  /\ Clean'
              /\ map' = Indexed(map, k, v)
              /\ since' = since \cup {map'}
  <2>0. ~stray /\ ~(d < Len(g))
    BY <1>0a, <1>2, <1>8, <1>12, Zenon
  <2>1. /\ Replays(file, header, index, end) /\ map = ValuesAt(file, index) /\ map \in since
        /\ Cuts(file, header, synced, since)
    BY <1>2, <2>0 DEF DbInv, Clean, MapOf, Running
  <2>2. Len(g) = d
    BY <1>7, <1>8, <2>0
  <2>3. Replays(g, header, j, d)
    <3>1. Cells(g)
      BY <1>7 DEF Headed
    <3>2. Len(g) = end + CellsOf(r)
      BY <1>4, <1>8, <2>2
    <3>3. Replays(g, header, Indexed(index, k, end), Len(g))
      BY <1>1, <1>3, <1>7, <2>1, <3>1, <3>2, ReplayPut
    <3> QED
      BY <1>8a, <2>2, <3>3
  <2>4. map' = ValuesAt(g, j) /\ since' = since \cup {map'}
    <3>1. t # Len(g)
      BY <1>7
    <3>2. mode' \in Running
      BY <1>2 DEF Running
    <3> QED
      BY <1>0a, <1>0b, <1>2, <1>8a, <1>12, <3>1, <3>2 DEF History, MapOf
  <2>5. PICK T : T = since'
    OBVIOUS
  <2>6. Cuts(g, header, t, T)
    <3>1. since \subseteq T /\ Contents(g, header) \in T /\ Len(g) = end + n
      BY <1>8, <2>2, <2>3, <2>4, <2>5, ReplayHolds
    <3>2. ValuesAt(file, index) \in since
      BY <2>1
    <3> QED
      BY <1>1, <1>3, <1>4, <1>5, <1>6, <2>1, <3>1, <3>2, WriteCuts
  <2>7. mode' \in Running \ {"header"}
    BY <1>2 DEF Running
  <2>8. Clean'
    BY <1>0a, <1>0b, <1>2, <1>8, <1>8a, <2>3, <2>4, <2>5, <2>6, <2>7 DEF Clean, MapOf, Running
  <2> QED
    BY <1>9, <2>1, <2>4, <2>8
<1>13. stray' => Kept
  BY <1>2 DEF History
<1> QED
  BY <1>11, <1>12, <1>13 DEF DbInv

LEMMA DeleteStep ==
  ASSUME DbInv, NEW k \in Keys, Delete(k)
  PROVE  /\ DbInv'
         /\ stray' => Kept
         /\ ~stray' => map' = Unindexed(map, k)
                       /\ since' = since \cup {map'} /\ k \in DOMAIN map
<1> USE DEF Kept
<1>0. PICK r : r = DelRec(k)
  OBVIOUS
<1>0a. PICK g : g = file'
  OBVIOUS
<1>0b. PICK t : t = synced'
  OBVIOUS
<1>1. r = DelRec(k) /\ IsRecord(r) /\ r.op # "index"
  <2>1. IsRecord(r)
    BY <1>0 DEF IsRecord
  <2>2. r.op = "delete"
    BY <1>0 DEF DelRec
  <2> QED
    BY <1>0, <2>1, <2>2
<1>2. /\ mode = "ready" /\ k \in DOMAIN index /\ file' = WriteAt(file, end, Encode(r)) /\ end' = end + CellsOf(r)
      /\ index' = Unindexed(index, k) /\ dead' = ChargeDead(k) /\ synced' = Synced(end)
      /\ mode' \in {"compact", "ready"} /\ header' = header
      /\ stray' = (stray \/ end' < Len(file')) /\ History
  BY <1>1 DEF Delete, Appended, Covers
<1>3. /\ Headed(file, header, synced) /\ Led(file, header, index, end)
      /\ dead \in Nat /\ stray \in BOOLEAN
  BY <1>2 DEF DbInv, Sound, Typed, Running
<1>4. PICK n \in Nat \ {0} : n = CellsOf(r) /\ n \in 1..CellsOf(r)
  BY <1>1, RecordCells
<1>5. Written(file, g, end, r, n)
  <2>1. Piece(Encode(r), r, n) /\ Cells(file) /\ end \in 0..Len(file)
    BY <1>1, <1>3, <1>4, EncodeIs DEF Headed, Led
  <2> QED
    BY <1>0a, <1>1, <1>2, <2>1, WriteIs
<1>6. t = Lower(end, synced)
  BY <1>0b, <1>2 DEF Synced, Lower
<1>7. /\ Headed(g, header, t) /\ Snapshot(g, header) = Snapshot(file, header)
      /\ Same(file, g, end) /\ end \in Nat /\ end < Len(g) /\ end + n <= Len(g)
      /\ Len(g) \in Nat /\ synced \in Nat /\ t \in Nat /\ t <= end
      /\ g[end + 1] = [rec |-> r, part |-> 1]
  <2>1. WrittenWell(file, g, header, synced, end, r, n, t)
    BY <1>1, <1>3, <1>4, <1>5, <1>6, WriteHeaded
  <2> QED
    BY <2>1 DEF WrittenWell
<1>8. PICK d \in Nat : d = end' /\ d = end + n /\ end < d /\ d <= Len(g)
  BY <1>2, <1>4, <1>7
<1>8a. PICK j : j = index' /\ j = Unindexed(index, k)
  BY <1>2
<1>9. /\ Led(g, header, j, d)
      /\ ValuesAt(g, j) = Unindexed(ValuesAt(file, index), k)
  <2>1. header \in [at : Nat, len : Nat]
    BY <1>3 DEF Headed
  <2> QED
    BY <1>1, <1>3, <1>7, <1>8, <1>8a, <2>1, LedDelete
<1>10. dead' \in Nat
  <2>1. CASE k \in DOMAIN index
    <3>1. index[k] \in Nat /\ index[k] < end /\ Cells(file) /\ end \in 0..Len(file)
      BY <1>3, <2>1 DEF Led, Points, Headed
    <3>2. index[k] + 1 \in 1..Len(file)
      BY <3>1
    <3>3. CellsOf(file[index[k] + 1].rec) \in Nat
      BY <3>1, <3>2, CellsLog DEF Log
    <3> QED
      BY <1>2, <1>3, <2>1, <3>3 DEF ChargeDead
  <2>2. CASE k \notin DOMAIN index
    BY <1>2, <1>3, <2>2 DEF ChargeDead
  <2> QED
    BY <2>1, <2>2
<1>11. Typed' /\ Sound'
  <2>1. Typed'
    BY <1>2, <1>3, <1>10 DEF Typed
  <2>2. mode' \in Running /\ mode' # "header"
    BY <1>2 DEF Running
  <2> QED
    BY <1>0a, <1>0b, <1>2, <1>7, <1>8, <1>8a, <1>9, <2>1, <2>2 DEF Sound
<1>12. ASSUME ~stray'
       PROVE  /\ Clean'
              /\ map' = Unindexed(map, k)
              /\ since' = since \cup {map'} /\ k \in DOMAIN map
  <2>0. ~stray /\ ~(d < Len(g))
    BY <1>0a, <1>2, <1>8, <1>12, Zenon
  <2>1. /\ Replays(file, header, index, end) /\ map = ValuesAt(file, index) /\ map \in since
        /\ Cuts(file, header, synced, since)
    BY <1>2, <2>0 DEF DbInv, Clean, MapOf, Running
  <2>2. Len(g) = d
    BY <1>7, <1>8, <2>0
  <2>3. Replays(g, header, j, d)
    <3>1. Cells(g)
      BY <1>7 DEF Headed
    <3>2. Len(g) = end + CellsOf(r)
      BY <1>4, <1>8, <2>2
    <3>3. Replays(g, header, Unindexed(index, k), Len(g))
      BY <1>1, <1>3, <1>7, <2>1, <3>1, <3>2, ReplayDelete
    <3> QED
      BY <1>8a, <2>2, <3>3
  <2>4. map' = ValuesAt(g, j) /\ since' = since \cup {map'}
    <3>1. t # Len(g)
      BY <1>7
    <3>2. mode' \in Running
      BY <1>2 DEF Running
    <3> QED
      BY <1>0a, <1>0b, <1>2, <1>8a, <1>12, <3>1, <3>2 DEF History, MapOf
  <2>5. PICK T : T = since'
    OBVIOUS
  <2>6. Cuts(g, header, t, T)
    <3>1. since \subseteq T /\ Contents(g, header) \in T /\ Len(g) = end + n
      BY <1>8, <2>2, <2>3, <2>4, <2>5, ReplayHolds
    <3>2. ValuesAt(file, index) \in since
      BY <2>1
    <3> QED
      BY <1>1, <1>3, <1>4, <1>5, <1>6, <2>1, <3>1, <3>2, WriteCuts
  <2>7. mode' \in Running \ {"header"}
    BY <1>2 DEF Running
  <2>8. Clean'
    BY <1>0a, <1>0b, <1>2, <1>8, <1>8a, <2>3, <2>4, <2>5, <2>6, <2>7 DEF Clean, MapOf, Running
  <2>9. k \in DOMAIN map
    BY <1>2, <2>1 DEF ValuesAt
  <2> QED
    BY <1>9, <2>1, <2>4, <2>8, <2>9
<1>13. stray' => Kept
  BY <1>2 DEF History
<1> QED
  BY <1>11, <1>12, <1>13 DEF DbInv

(* A piece of a record written at the end of the log.                      *)
LEMMA TornStep ==
  ASSUME DbInv, TornAppend
  PROVE  /\ DbInv'
         /\ stray' => Kept
         /\ ~stray' => /\ since' = since \cup {map'}
                       /\ \/ map' = map /\ since' = since
                          \/ \E k \in Keys, v \in Values : map' = Indexed(map, k, v)
                          \/ \E k \in Keys : map' = Unindexed(map, k) /\ k \in DOMAIN map
<1>0. PICK k \in Keys :
        \E r \in {PutRec(k, v) : v \in Values} \cup {DelRec(x) : x \in {k} \cap DOMAIN index} :
          \E n \in 1..CellsOf(r) :
            /\ file' = WriteAt(file, end, SubSeq(Encode(r), 1, n))
            /\ stray' = (stray \/ end + n < Len(file'))
  BY DEF TornAppend, Covers
<1>0a. PICK r, n :
         /\ r \in {PutRec(k, v) : v \in Values} \cup {DelRec(x) : x \in {k} \cap DOMAIN index}
         /\ n \in 1..CellsOf(r)
         /\ file' = WriteAt(file, end, SubSeq(Encode(r), 1, n))
         /\ stray' = (stray \/ end + n < Len(file'))
  BY <1>0
<1>0b. PICK g : g = file'
  OBVIOUS
<1>0c. PICK t : t = synced'
  OBVIOUS
<1>1. \/ \E v \in Values : r = PutRec(k, v)
      \/ r = DelRec(k) /\ k \in DOMAIN index
  BY <1>0a
<1>1a. IsRecord(r) /\ r.op # "index"
  <2>1. CASE \E v \in Values : r = PutRec(k, v)
    <3>1. r.op = "put"
      BY <2>1 DEF PutRec
    <3> QED
      BY <2>1, <3>1 DEF IsRecord
  <2>2. CASE r = DelRec(k)
    <3>1. r.op = "delete"
      BY <2>2 DEF DelRec
    <3> QED
      BY <2>2, <3>1 DEF IsRecord
  <2> QED
    BY <1>1, <2>1, <2>2
<1>2. /\ mode = "ready" /\ synced' = Synced(end) /\ mode' = "down" /\ index' = <<>>
      /\ end' = 0 /\ dead' = 0 /\ header' = header /\ History
  BY DEF TornAppend
<1>3. /\ Headed(file, header, synced) /\ Led(file, header, index, end)
      /\ dead \in Nat /\ stray \in BOOLEAN
  BY <1>2 DEF DbInv, Sound, Typed, Running
<1>4. PICK c : c = SubSeq(Encode(r), 1, n) /\ Piece(c, r, n)
  BY <1>0a, <1>1a, PieceIs
<1>5. Written(file, g, end, r, n) /\ n \in 1..CellsOf(r)
  <2>1. Cells(file) /\ end \in 0..Len(file) /\ g = WriteAt(file, end, c)
    BY <1>0a, <1>0b, <1>3, <1>4 DEF Headed, Led
  <2> QED
    BY <1>0a, <1>1a, <1>4, <2>1, WriteIs
<1>6. t = Lower(end, synced)
  BY <1>0c, <1>2 DEF Synced, Lower
<1>6a. n \in Nat \ {0}
  <2>1. CellsOf(r) \in Nat
    BY <1>1a, RecordCells
  <2> QED
    BY <1>5, <2>1
<1>7. /\ Headed(g, header, t) /\ Snapshot(g, header) = Snapshot(file, header)
      /\ Same(file, g, end) /\ end \in Nat /\ end < Len(g) /\ end + n <= Len(g)
      /\ Len(g) \in Nat /\ synced \in Nat /\ t \in Nat /\ t <= end
      /\ g[end + 1] = [rec |-> r, part |-> 1]
  <2>1. WrittenWell(file, g, header, synced, end, r, n, t)
    BY <1>1a, <1>3, <1>5, <1>6, WriteHeaded
  <2> QED
    BY <2>1 DEF WrittenWell
<1>8. Typed' /\ Sound'
  <2>1. Typed'
    BY <1>0a, <1>2, <1>3 DEF Typed
  <2>2. mode' \notin Running /\ mode' # "header"
    BY <1>2 DEF Running
  <2> QED
    BY <1>0b, <1>0c, <1>2, <1>7, <2>1, <2>2 DEF Sound
<1>9. ASSUME ~stray'
      PROVE  /\ Clean'
             /\ since' = since \cup {map'}
             /\ \/ map' = map /\ since' = since
                \/ \E v \in Values : map' = Indexed(map, k, v)
                \/ map' = Unindexed(map, k) /\ k \in DOMAIN map
  <2>0. ~stray /\ ~(end + n < Len(g))
    BY <1>0a, <1>0b, <1>9, Zenon
  <2>1. /\ Replays(file, header, index, end) /\ map = ValuesAt(file, index) /\ map \in since
        /\ Cuts(file, header, synced, since)
    BY <1>2, <2>0 DEF DbInv, Clean, MapOf, Running
  <2>2. Len(g) = end + n /\ Cells(g)
    BY <1>7, <1>6a, <2>0 DEF Headed
  <2>3. map' = Contents(g, header) /\ since' = since \cup {map'}
    <3>1. t # Len(g)
      BY <1>7
    <3>2. mode' \notin Running
      BY <1>2 DEF Running
    <3> QED
      BY <1>0b, <1>0c, <1>2, <1>9, <3>1, <3>2 DEF History, MapOf
  <2>4. /\ ~ReplayFails(g, header)
        /\ \/ map' = map
           \/ \E v \in Values : map' = Indexed(map, k, v)
           \/ map' = Unindexed(map, k) /\ k \in DOMAIN map
    <3>1. CASE n # CellsOf(r)
      <4>1. Replays(g, header, index, end) /\ Contents(g, header) = ValuesAt(file, index)
        BY <1>1a, <1>3, <1>5, <2>1, <2>2, <3>1, WriteTorn
      <4> QED
        BY <2>1, <2>3, <4>1 DEF Replays
    <3>2. ASSUME n = CellsOf(r), NEW v \in Values, r = PutRec(k, v)
          PROVE  ~ReplayFails(g, header) /\ map' = Indexed(map, k, v)
      <4>1. PICK j : j = Indexed(index, k, end)
        OBVIOUS
      <4>2. Replays(g, header, Indexed(index, k, end), Len(g))
        BY <1>3, <1>7, <2>1, <2>2, <3>2, ReplayPut
      <4>3. PICK d \in Nat : d = Len(g) /\ end < d /\ d <= Len(g)
        BY <1>7
      <4>4. ValuesAt(g, j) = Indexed(ValuesAt(file, index), k, v)
        <5>1. header \in [at : Nat, len : Nat]
          BY <1>3 DEF Headed
        <5> QED
          BY <1>3, <1>7, <3>2, <4>1, <4>3, <5>1, LedPut
      <4>5. Contents(g, header) = ValuesAt(g, j) /\ ~ReplayFails(g, header)
        BY <4>1, <4>2, ReplayHolds DEF Replays
      <4> QED
        BY <2>1, <2>3, <4>4, <4>5
    <3>3. ASSUME n = CellsOf(r), r = DelRec(k), k \in DOMAIN index
          PROVE  ~ReplayFails(g, header) /\ map' = Unindexed(map, k) /\ k \in DOMAIN map
      <4>1. PICK j : j = Unindexed(index, k)
        OBVIOUS
      <4>2. Replays(g, header, Unindexed(index, k), Len(g))
        BY <1>3, <1>7, <2>1, <2>2, <3>3, ReplayDelete
      <4>3. PICK d \in Nat : d = Len(g) /\ end < d /\ d <= Len(g)
        BY <1>7
      <4>4. ValuesAt(g, j) = Unindexed(ValuesAt(file, index), k)
        <5>1. header \in [at : Nat, len : Nat]
          BY <1>3 DEF Headed
        <5> QED
          BY <1>3, <1>7, <3>3, <4>1, <4>3, <5>1, LedDelete
      <4>5. Contents(g, header) = ValuesAt(g, j) /\ ~ReplayFails(g, header)
        BY <4>1, <4>2, ReplayHolds DEF Replays
      <4>6. k \in DOMAIN map
        BY <2>1, <3>3 DEF ValuesAt
      <4> QED
        BY <2>1, <2>3, <4>4, <4>5, <4>6
    <3> QED
      BY <1>1, <3>1, <3>2, <3>3
  <2>5. PICK T : T = since'
    OBVIOUS
  <2>6. Cuts(g, header, t, T)
    <3>1. since \subseteq T /\ Contents(g, header) \in T
      BY <2>3, <2>5
    <3>2. ValuesAt(file, index) \in since
      BY <2>1
    <3> QED
      BY <1>1a, <1>3, <1>5, <1>6, <2>1, <2>2, <3>1, <3>2, WriteCuts
  <2>7. mode' = "down" /\ mode' \notin Running
    BY <1>2 DEF Running
  <2>8. Clean'
    BY <1>0b, <1>0c, <1>2, <2>3, <2>4, <2>5, <2>6, <2>7 DEF Clean, MapOf
  <2>9. map' = map => since' = since
    BY <2>1, <2>3
  <2> QED
    BY <2>3, <2>4, <2>8, <2>9
<1>10. stray' => Kept
  BY <1>2 DEF History, Kept
<1> QED
  BY <1>8, <1>9, <1>10 DEF DbInv

(* A step that leaves the file as it is keeps the map, and may find it on  *)
(* disk already.                                                           *)
Quiet == map' = map /\ (since' = since \/ since' = {map})

LEMMA QuietCuts ==
  ASSUME NEW f, NEW h, NEW s, NEW S, NEW c, NEW T, Cells(f), Cuts(f, h, s, S), c = Contents(f, h),
         c \in S, T = IF s = Len(f) THEN {c} ELSE S \cup {c}
  PROVE  Cuts(f, h, s, T) /\ c \in T /\ (T = S \/ T = {c})
<1>1. CASE s = Len(f)
  <2>1. Len(f) \in Nat
    BY CellsLog
  <2>2. T = {c}
    BY <1>1
  <2>3. ASSUME NEW m \in s..Len(f) PROVE SubSeq(f, 1, m) = f
    <3>1. m = Len(f)
      BY <1>1, <2>1
    <3> QED
      BY <3>1, CutWhole
  <2> QED
    BY <2>2, <2>3 DEF Cuts
<1>2. CASE s # Len(f)
  BY <1>2
<1> QED
  BY <1>1, <1>2

LEMMA IdleStep ==
  ASSUME DbInv, Checkpoint \/ AskCompact
  PROVE  DbInv' /\ (stray' => Kept) /\ (~stray' => Quiet)
<1>1. /\ mode = "ready" /\ mode' \in {"snapshot", "compact"}
      /\ file' = file /\ header' = header /\ index' = index /\ end' = end /\ dead' = dead
      /\ synced' = synced /\ stray' = stray /\ History
  BY DEF Checkpoint, AskCompact
<1>2. /\ Headed(file, header, synced) /\ Led(file, header, index, end)
      /\ dead \in Nat /\ stray \in BOOLEAN
  BY <1>1 DEF DbInv, Sound, Typed, Running
<1>3. Typed' /\ Sound'
  BY <1>1, <1>2 DEF Typed, Sound, Running
<1>4. ASSUME ~stray' PROVE Clean' /\ Quiet
  <2>1. /\ Replays(file, header, index, end) /\ map = ValuesAt(file, index) /\ map \in since
        /\ Cuts(file, header, synced, since)
    BY <1>1, <1>4 DEF DbInv, Clean, MapOf, Running
  <2>2. map = Contents(file, header) /\ Cells(file)
    BY <1>2, <2>1, ReplayHolds DEF Headed
  <2>3. map' = map /\ since' = IF synced = Len(file) THEN {map} ELSE since \cup {map}
    BY <1>1, <1>4, <2>1 DEF History, MapOf, Running
  <2>4. PICK T : T = since' /\ T = IF synced = Len(file) THEN {map} ELSE since \cup {map}
    BY <2>3
  <2>5. Cuts(file, header, synced, T) /\ map \in T /\ (T = since \/ T = {map})
    BY <2>1, <2>2, <2>4, QuietCuts
  <2> QED
    BY <1>1, <2>1, <2>3, <2>4, <2>5 DEF Clean, MapOf, Running, Quiet
<1> QED
  BY <1>1, <1>3, <1>4 DEF DbInv, History, Kept

LEMMA CrashStep ==
  ASSUME DbInv, Crash
  PROVE  DbInv' /\ (stray' => Kept) /\ (~stray' => Quiet)
<1>1. /\ mode \in Running /\ mode' = "down" /\ index' = <<>> /\ end' = 0 /\ dead' = 0
      /\ stray' = (stray \/ mode = "header")
      /\ file' = file /\ header' = header /\ synced' = synced /\ History
  BY DEF Crash, Running
<1>2. Headed(file, header, synced) /\ stray \in BOOLEAN
  BY <1>1 DEF DbInv, Sound, Typed
<1>3. Typed' /\ Sound'
  BY <1>1, <1>2 DEF Typed, Sound, Running
<1>4. ASSUME ~stray' PROVE Clean' /\ Quiet
  <2>0. ~stray /\ mode # "header"
    BY <1>1, <1>4
  <2>1. /\ Replays(file, header, index, end) /\ map = ValuesAt(file, index) /\ map \in since
        /\ Cuts(file, header, synced, since)
    BY <1>1, <2>0 DEF DbInv, Clean, MapOf, Running
  <2>2. map = Contents(file, header) /\ Cells(file) /\ ~ReplayFails(file, header)
    BY <1>2, <2>1, ReplayHolds DEF Headed, Replays
  <2>2a. mode' \notin Running
    BY <1>1 DEF Running
  <2>3. map' = map /\ since' = IF synced = Len(file) THEN {map} ELSE since \cup {map}
    BY <1>1, <1>4, <2>2, <2>2a DEF History, MapOf
  <2>4. PICK T : T = since' /\ T = IF synced = Len(file) THEN {map} ELSE since \cup {map}
    BY <2>3
  <2>5. Cuts(file, header, synced, T) /\ map \in T /\ (T = since \/ T = {map})
    BY <2>1, <2>2, <2>4, QuietCuts
  <2> QED
    BY <1>1, <2>2, <2>2a, <2>3, <2>4, <2>5 DEF Clean, MapOf, Quiet
<1> QED
  BY <1>1, <1>3, <1>4 DEF DbInv, History, Kept

LEMMA OpenStep ==
  ASSUME DbInv, Open
  PROVE  DbInv' /\ (stray' => Kept) /\ (~stray' => Quiet)
<1>1. /\ mode \in {"down", "broken"} /\ mode \notin Running
      /\ file' = file /\ header' = header /\ synced' = synced /\ stray' = stray /\ History
      /\ \/ /\ ~ReplayFails(file, header) /\ mode' = "ready"
            /\ index' = ReplayIndex(file, header) /\ end' = ReplayEnd(file, header)
            /\ dead' = ReplayDead(file, header)
         \/ /\ ReplayFails(file, header) /\ mode' = "broken"
            /\ index' = index /\ end' = end /\ dead' = dead
  BY DEF Open, Running
<1>2. /\ Headed(file, header, synced) /\ index = <<>> /\ end = 0
      /\ dead \in Nat /\ stray \in BOOLEAN /\ Cells(file)
  BY <1>1 DEF DbInv, Sound, Typed, Headed
<1>3. Led(file, header, ReplayIndex(file, header), ReplayEnd(file, header))
  BY <1>2, ReplayLeads
<1>4. ReplayDead(file, header) \in Nat
  <2>1. PICK n \in Nat : n = Len(file)
    BY <1>2, CellsLog
  <2>2. \A P : IsFiniteSet({c \in 1..n : c \in P}) /\ Cardinality({c \in 1..n : c \in P}) \in Nat
    <3>1. SUFFICES ASSUME NEW P
                   PROVE  IsFiniteSet({c \in 1..n : c \in P}) /\ Cardinality({c \in 1..n : c \in P}) \in Nat
      OBVIOUS
    <3>2. IsFiniteSet(1..n)
      BY FS_Interval
    <3>3. {c \in 1..n : c \in P} \subseteq 1..n
      OBVIOUS
    <3> QED
      BY <3>2, <3>3, FS_Subset, FS_CardinalityType
  <2>3. \E D : D \subseteq 1..n /\ ReplayDead(file, header) = Cardinality(D)
    BY <2>1 DEF ReplayDead
  <2>4. PICK D : D \subseteq 1..n /\ ReplayDead(file, header) = Cardinality(D)
    BY <2>3
  <2>5. D = {c \in 1..n : c \in D}
    BY <2>4
  <2> QED
    BY <2>2, <2>4, <2>5
<1>5. Typed' /\ Sound'
  BY <1>1, <1>2, <1>3, <1>4 DEF Typed, Sound, Running
<1>6. ASSUME ~stray' PROVE Clean' /\ Quiet
  <2>0. mode = "down" /\ ~ReplayFails(file, header)
    BY <1>1, <1>6 DEF DbInv, Clean
  <2>1. map = Contents(file, header) /\ map \in since /\ Cuts(file, header, synced, since)
    BY <1>1, <1>6, <2>0 DEF DbInv, Clean, MapOf
  <2>2. Replays(file, header, index', end') /\ mode' = "ready"
    BY <1>1, <2>0 DEF Replays
  <2>3. map' = map /\ since' = IF synced = Len(file) THEN {map} ELSE since \cup {map}
    <3>1. map = ValuesAt(file, index')
      BY <2>1, <2>2, ReplayHolds
    <3> QED
      BY <1>1, <1>6, <2>2, <3>1 DEF History, MapOf, Running
  <2>4. PICK T : T = since' /\ T = IF synced = Len(file) THEN {map} ELSE since \cup {map}
    BY <2>3
  <2>5. Cuts(file, header, synced, T) /\ map \in T /\ (T = since \/ T = {map})
    BY <1>2, <2>1, <2>4, QuietCuts
  <2>6. map' = MapOf(file', header', index', mode')
    BY <1>6, <1>1 DEF History
  <2> QED
    BY <1>1, <2>2, <2>3, <2>4, <2>5, <2>6 DEF Clean, Running, Quiet
<1> QED
  BY <1>1, <1>5, <1>6 DEF DbInv, History, Kept

(* The power goes: the map is one it was since the last sync.              *)
LEMMA PowerStep ==
  ASSUME DbInv, PowerLoss
  PROVE  DbInv' /\ (stray' => Kept) /\ (~stray' => map' \in since /\ since' = {map'})
<1>1. /\ mode \in Running /\ mode # "header" /\ mode' = "down"
      /\ index' = <<>> /\ end' = 0 /\ dead' = 0 /\ stray' = stray /\ header' = header /\ History
  BY DEF PowerLoss, Running
<1>2. PICK m \in synced..Len(file) : file' = SubSeq(file, 1, m) /\ synced' = m
  BY DEF PowerLoss
<1>3. PICK g : g = file' /\ g = SubSeq(file, 1, m)
  BY <1>2
<1>4. Headed(file, header, synced) /\ Cells(file) /\ stray \in BOOLEAN
  BY <1>1 DEF DbInv, Sound, Typed, Headed
<1>5. PICK n \in Nat : n = Len(file) /\ synced \in 0..n /\ m \in 0..n /\ synced <= m
  BY <1>4, CellsLog DEF Headed
<1>6. Cells(g) /\ Len(g) = m /\ Same(file, g, m)
  BY <1>3, <1>4, <1>5, CutIs
<1>7. Headed(g, header, m)
  <2>1. header \in [at : Nat, len : Nat] /\ header.at + header.len <= m /\ m \in Nat /\ m \in 0..Len(g)
    BY <1>4, <1>5, <1>6 DEF Headed
  <2> QED
    BY <1>4, <1>6, <2>1, HeadedKept
<1>8. Typed' /\ Sound'
  BY <1>1, <1>2, <1>3, <1>4, <1>7 DEF Typed, Sound, Running
<1>9. ASSUME ~stray' PROVE Clean' /\ map' \in since /\ since' = {map'}
  <2>1. Replays(file, header, index, end) /\ Cuts(file, header, synced, since)
    BY <1>1, <1>9 DEF DbInv, Clean
  <2>2. mode' \notin Running
    BY <1>1 DEF Running
  <2>3. map' = Contents(g, header) /\ since' = {map'}
    BY <1>1, <1>2, <1>3, <1>6, <1>9, <2>2 DEF History, MapOf
  <2>4. map' \in since
    BY <1>2, <1>3, <2>1, <2>3 DEF Cuts
  <2>5. ~ReplayFails(g, header)
    BY <1>3, <1>4, <2>1, ReplayCut
  <2>6. PICK T : T = since'
    OBVIOUS
  <2>7. Cuts(g, header, m, T)
    <3>1. ASSUME NEW p \in m..Len(g) PROVE SubSeq(g, 1, p) = g
      <4>1. p = Len(g)
        BY <1>5, <1>6
      <4> QED
        BY <1>6, <4>1, CutWhole
    <3> QED
      BY <2>3, <2>6, <3>1 DEF Cuts
  <2>8. map' = MapOf(file', header', index', mode')
    BY <1>1, <1>9 DEF History
  <2> QED
    BY <1>1, <1>2, <1>3, <2>2, <2>3, <2>4, <2>5, <2>6, <2>7, <2>8 DEF Clean
<1> QED
  BY <1>1, <1>8, <1>9 DEF DbInv, History, Kept

(* The first half of a snapshot puts the map on disk.                      *)
LEMMA SnapshotStep ==
  ASSUME DbInv, SnapshotBytes
  PROVE  DbInv' /\ (stray' => Kept) /\ (~stray' => Quiet)
<1>0. PICK r : r = SnapRec(index)
  OBVIOUS
<1>0a. PICK g : g = file'
  OBVIOUS
<1>1. /\ mode = "snapshot" /\ file' = WriteAt(file, end, Encode(r)) /\ end' = end + CellsOf(r)
      /\ index' = index /\ dead' = dead /\ synced' = Len(file') /\ header' = header
      /\ mode' = "header" /\ stray' = (stray \/ end' < Len(file')) /\ History
  BY <1>0 DEF SnapshotBytes, Appended, Covers
<1>2. /\ Headed(file, header, synced) /\ Led(file, header, index, end)
      /\ dead \in Nat /\ stray \in BOOLEAN
  BY <1>1 DEF DbInv, Sound, Typed, Running
<1>3. IsRecord(r)
  <2>1. r.map = index /\ IsIndex(index)
    BY <1>0, <1>2 DEF SnapRec, Led
  <2> QED
    BY <1>0, <2>1 DEF IsRecord
<1>4. PICK n \in Nat \ {0} : n = CellsOf(r) /\ n \in 1..CellsOf(r)
  BY <1>3, RecordCells
<1>5. Written(file, g, end, r, n)
  <2>1. Piece(Encode(r), r, n) /\ Cells(file) /\ end \in 0..Len(file)
    BY <1>2, <1>3, <1>4, EncodeIs DEF Headed, Led
  <2> QED
    BY <1>0a, <1>1, <1>3, <2>1, WriteIs
<1>6. PICK t : t = Lower(end, synced)
  OBVIOUS
<1>7. /\ Headed(g, header, t) /\ Same(file, g, end) /\ end \in Nat /\ end < Len(g)
      /\ end + n <= Len(g) /\ Len(g) \in Nat /\ g[end + 1] = [rec |-> r, part |-> 1]
  <2>1. WrittenWell(file, g, header, synced, end, r, n, t)
    BY <1>2, <1>3, <1>4, <1>5, <1>6, WriteHeaded
  <2> QED
    BY <2>1 DEF WrittenWell
<1>8. PICK d \in Nat : d = end' /\ d = end + n /\ end < d /\ d <= Len(g) /\ d - n = end
  BY <1>1, <1>4, <1>7
<1>9. Headed(g, header, Len(g))
  <2>1. header \in [at : Nat, len : Nat] /\ header.at + header.len <= end /\ Cells(g)
    BY <1>2, <1>7 DEF Headed, Led
  <2>2. Len(g) \in 0..Len(g) /\ header.at + header.len <= Len(g)
    BY <1>7, <2>1
  <2> QED
    BY <1>2, <1>7, <2>1, <2>2, HeadedKept
<1>10. Points(g, index, end) /\ Points(g, index, d) /\ ValuesAt(g, index) = ValuesAt(file, index)
  <2>1. Points(file, index, end) /\ end <= end /\ end <= d
    BY <1>2, <1>7, <1>8 DEF Led
  <2> QED
    BY <1>7, <1>8, <2>1, PointsKept
<1>11. Led(g, header, index, d)
  <2>1. IsIndex(index) /\ header.at + header.len <= end /\ header.at \in Nat /\ header.len \in Nat
    BY <1>2 DEF Led, Headed
  <2>2. d \in 0..Len(g) /\ header.at + header.len <= d
    BY <1>7, <1>8, <2>1
  <2> QED
    BY <1>10, <2>1, <2>2 DEF Led
<1>12. Named(g, index, d)
  <2>1. n = CellsOf(SnapRec(index)) /\ n <= d
    BY <1>0, <1>4, <1>7, <1>8
  <2>2. g[d - n + 1].rec = SnapRec(index)
    BY <1>0, <1>7, <1>8
  <2>3. Points(g, index, d - n)
    BY <1>8, <1>10
  <2> QED
    BY <2>1, <2>2, <2>3 DEF Named
<1>13. Typed' /\ Sound'
  <2>1. Typed'
    BY <1>1, <1>2 DEF Typed
  <2> QED
    BY <1>0a, <1>1, <1>8, <1>9, <1>11, <1>12, <2>1 DEF Sound, Running
<1>14. ASSUME ~stray' PROVE Clean' /\ Quiet
  <2>0. ~stray /\ ~(d < Len(g))
    BY <1>0a, <1>1, <1>8, <1>14, Zenon
  <2>1. map = ValuesAt(file, index)
    BY <1>1, <2>0 DEF DbInv, Clean, MapOf, Running
  <2>2. Len(g) = d
    BY <1>7, <1>8, <2>0
  <2>3. map' = ValuesAt(g, index) /\ since' = {map'} /\ map' = MapOf(file', header', index', mode')
    BY <1>0a, <1>1, <1>14 DEF History, MapOf, Running
  <2> QED
    BY <1>0a, <1>1, <1>8, <1>10, <2>1, <2>2, <2>3 DEF Clean, Quiet, Running
<1> QED
  BY <1>1, <1>13, <1>14 DEF DbInv, History, Kept

LEMMA NoRecords ==
  ASSUME NEW f, NEW h, NEW e, IsIndex(Snapshot(f, h))
  PROVE  IndexAt(f, h, {}, e) = Snapshot(f, h)
<1>1. PICK i : i = IndexAt(f, h, {}, e)
  OBVIOUS
<1>2. PICK S : S = Snapshot(f, h) /\ S = [k \in DOMAIN S |-> S[k]] /\ DOMAIN S \subseteq Keys
  BY DEF IsIndex
<1>3. \A k : Of(f, {}, e, k) = {}
  BY DEF Of
<1>4. IsIndexAt(i, f, h, {}, e)
  BY <1>1, IndexAtIs
<1>5. i = [k \in DOMAIN i |-> i[k]] /\ DOMAIN i = DOMAIN S /\ \A k \in DOMAIN i : i[k] = S[k]
  BY <1>2, <1>3, <1>4 DEF IsIndexAt
<1> QED
  BY <1>1, <1>2, <1>5

(* The second half makes a replay start at its end, from its index.        *)
LEMMA HeaderStep ==
  ASSUME DbInv, SnapshotHeader
  PROVE  DbInv' /\ (stray' => Kept) /\ (~stray' => Quiet)
<1>0. PICK n : n = CellsOf(SnapRec(index))
  OBVIOUS
<1>0a. PICK h : h = header'
  OBVIOUS
<1>1. /\ mode = "header" /\ h = [at |-> end - n, len |-> n] /\ mode' = "ready"
      /\ file' = file /\ index' = index /\ end' = end /\ dead' = dead /\ synced' = synced
      /\ stray' = stray /\ History
  BY <1>0, <1>0a DEF SnapshotHeader
<1>2. /\ Headed(file, header, synced) /\ Led(file, header, index, end)
      /\ Named(file, index, end) /\ synced = Len(file)
      /\ dead \in Nat /\ stray \in BOOLEAN
  BY <1>1 DEF DbInv, Sound, Typed, Running
<1>3. Cells(file) /\ Len(file) \in Nat /\ IsIndex(index) /\ Points(file, index, end) /\ end \in 0..Len(file)
  BY <1>2, CellsLog DEF Headed, Led
<1>4. n \in Nat \ {0}
  <2>1. SnapRec(index).map = index
    BY DEF SnapRec
  <2>2. IsRecord(SnapRec(index))
    BY <1>3, <2>1 DEF IsRecord
  <2> QED
    BY <1>0, <2>2, RecordCells
<1>5. n <= end /\ file[end - n + 1].rec = SnapRec(index) /\ Points(file, index, end - n)
  BY <1>0, <1>2 DEF Named
<1>6. h.at = end - n /\ h.len = n /\ h.at \in Nat /\ h.len \in Nat /\ h.at + h.len = end
  BY <1>1, <1>3, <1>4, <1>5
<1>6a. h \in [at : Nat, len : Nat]
  BY <1>1, <1>6
<1>7. Snapshot(file, h) = index
  <2>1. h.len # 0
    BY <1>4, <1>6
  <2>2. file[h.at + 1].rec = SnapRec(index)
    BY <1>5, <1>6
  <2> QED
    BY <2>1, <2>2 DEF Snapshot, SnapRec
<1>8. Headed(file, h, synced)
  <2>1. synced \in 0..Len(file) /\ h.at + h.len <= synced
    BY <1>2, <1>3, <1>6
  <2>2. Points(file, index, h.at)
    BY <1>5, <1>6
  <2> QED
    BY <1>3, <1>6a, <1>7, <2>1, <2>2 DEF Headed
<1>9. Led(file, h, index, end)
  <2>1. h.at + h.len <= end
    BY <1>3, <1>6
  <2> QED
    BY <1>3, <2>1 DEF Led
<1>10. Typed' /\ Sound'
  BY <1>0a, <1>1, <1>2, <1>8, <1>9 DEF Typed, Sound, Running
<1>11. ASSUME ~stray' PROVE Clean' /\ Quiet
  <2>1. end = Len(file) /\ since = {map} /\ map = ValuesAt(file, index)
    BY <1>1, <1>11 DEF DbInv, Clean, MapOf, Running
  <2>2. Log(file)
    BY <1>3, CellsLog
  <2>3. PICK R, recs : R = {end} /\ recs = R \ {end} /\ recs = {}
    OBVIOUS
  <2>4. ReplayFrom(h) = end
    BY <1>6 DEF ReplayFrom
  <2>5. Chain(file, end, R, end)
    BY <1>3, <2>1, <2>3 DEF Chain
  <2>6. index = IndexAt(file, h, recs, end)
    BY <1>3, <1>7, <2>3, NoRecords
  <2>7. Replays(file, h, index, end)
    <3>1. end < Len(file) => Decode(file, end) # "unknown"
      BY <1>3, <2>1
    <3> QED
      BY <2>2, <2>3, <2>4, <2>5, <2>6, <3>1, ReplayOf
  <2>8. map' = map /\ since' = {map} /\ map' = MapOf(file', header', index', mode')
    BY <1>1, <1>2, <1>11, <2>1 DEF History, MapOf, Running
  <2>9. PICK T : T = since'
    OBVIOUS
  <2>10. Cuts(file, h, synced, T)
    <3>1. ASSUME NEW m \in synced..Len(file) PROVE SubSeq(file, 1, m) = file
      <4>1. m = Len(file)
        BY <1>2, <1>3
      <4> QED
        BY <1>3, <4>1, CutWhole
    <3>2. Contents(file, h) = map
      BY <2>1, <2>7, ReplayHolds
    <3> QED
      BY <2>8, <2>9, <3>1, <3>2 DEF Cuts
  <2> QED
    BY <1>0a, <1>1, <2>7, <2>8, <2>9, <2>10 DEF Clean, Quiet, Running
<1> QED
  BY <1>1, <1>10, <1>11 DEF DbInv, History, Kept
-----------------------------------------------------------------------------
(* Compaction: the records one after the other.                            *)

Placed(recs, j) == UNION {{i} \X (1..CellsOf(recs[i])) : i \in 1..(j - 1)}

LEMMA AtNext ==
  ASSUME NEW recs, NEW n \in Nat, \A i \in 1..n : CellsOf(recs[i]) \in Nat \ {0}
  PROVE  /\ At(recs, 1) = 0
         /\ \A j \in 1..(n + 1) : At(recs, j) \in Nat
         /\ \A j \in 1..n : At(recs, j + 1) = At(recs, j) + CellsOf(recs[j])
<1> DEFINE P(j) == Placed(recs, j)
<1>1. \A j : At(recs, j) = Cardinality(P(j))
  BY DEF At, Placed
<1>2. P(1) = {}
  <2>1. 1..(1 - 1) = {}
    OBVIOUS
  <2> QED
    BY <2>1 DEF Placed
<1>3. ASSUME NEW j \in 1..n PROVE P(j + 1) = P(j) \cup ({j} \X (1..CellsOf(recs[j])))
  <2>1. 1..((j + 1) - 1) = (1..(j - 1)) \cup {j}
    OBVIOUS
  <2> QED
    BY <2>1 DEF Placed
<1>4. ASSUME NEW j \in 1..n PROVE P(j) \cap ({j} \X (1..CellsOf(recs[j]))) = {}
  <2>1. j \notin 1..(j - 1)
    OBVIOUS
  <2>2. SUFFICES ASSUME NEW x \in P(j), x \in {j} \X (1..CellsOf(recs[j])) PROVE FALSE
    OBVIOUS
  <2>3. PICK i \in 1..(j - 1) : x \in {i} \X (1..CellsOf(recs[i]))
    BY <2>2 DEF Placed
  <2>4. x[1] = i /\ x[1] = j
    BY <2>2, <2>3
  <2> QED
    BY <2>1, <2>3, <2>4
<1>5. ASSUME NEW j \in 1..n
      PROVE  /\ IsFiniteSet({j} \X (1..CellsOf(recs[j])))
             /\ Cardinality({j} \X (1..CellsOf(recs[j]))) = CellsOf(recs[j])
  <2>1. PICK c \in Nat \ {0} : c = CellsOf(recs[j])
    OBVIOUS
  <2>2. IsFiniteSet(1..c) /\ Cardinality(1..c) = c
    <3>1. c \in Int /\ 1 \in Int /\ ~(1 > c) /\ c - 1 + 1 = c
      OBVIOUS
    <3> QED
      BY <3>1, FS_Interval
  <2>3. IsFiniteSet({j}) /\ Cardinality({j}) = 1
    BY FS_Singleton
  <2>4. IsFiniteSet({j} \X (1..c)) /\ Cardinality({j} \X (1..c)) = Cardinality({j}) * Cardinality(1..c)
    BY <2>2, <2>3, FS_Product
  <2> QED
    BY <2>1, <2>2, <2>3, <2>4
<1> DEFINE T == {j \in Nat : j + 1 <= n + 1 => IsFiniteSet(P(j + 1))}
<1> HIDE DEF P
<1>6. 0 \in T
  BY <1>2, FS_EmptySet
<1>7. ASSUME NEW j \in Nat, j \in T PROVE j + 1 \in T
  <2>1. SUFFICES ASSUME (j + 1) + 1 <= n + 1 PROVE IsFiniteSet(P((j + 1) + 1))
    OBVIOUS
  <2>2. j + 1 \in 1..n /\ j + 1 <= n + 1
    BY <2>1
  <2>3. IsFiniteSet(P(j + 1))
    BY <1>7, <2>2
  <2>4. PICK i \in 1..n : i = j + 1
    BY <2>2
  <2>5. PICK A, B : A = P(i) /\ B = {i} \X (1..CellsOf(recs[i]))
    OBVIOUS
  <2>6. IsFiniteSet(A) /\ IsFiniteSet(B) /\ P(i + 1) = A \cup B
    BY <1>3, <1>5, <2>3, <2>4, <2>5
  <2>7. IsFiniteSet(A \cup B)
    BY <2>6, FS_Union
  <2> QED
    BY <2>4, <2>6, <2>7
<1>8. Nat \subseteq T
  <2> HIDE DEF T
  <2> QED
    BY <1>6, <1>7, SetInduction
<1>9. ASSUME NEW j \in 1..(n + 1) PROVE IsFiniteSet(P(j)) /\ Cardinality(P(j)) \in Nat
  <2>1. j - 1 \in Nat /\ (j - 1) + 1 = j /\ j <= n + 1
    OBVIOUS
  <2>2. j - 1 \in T
    <3> HIDE DEF T
    <3> QED
      BY <1>8, <2>1
  <2> QED
    BY <2>1, <2>2, FS_CardinalityType
<1>10. ASSUME NEW j \in 1..n PROVE Cardinality(P(j + 1)) = Cardinality(P(j)) + CellsOf(recs[j])
  <2>1. j \in 1..(n + 1)
    OBVIOUS
  <2>2. PICK B : B = {j} \X (1..CellsOf(recs[j]))
    OBVIOUS
  <2>3. IsFiniteSet(P(j)) /\ IsFiniteSet(B) /\ P(j) \cap B = {} /\ P(j + 1) = P(j) \cup B
        /\ Cardinality(B) = CellsOf(recs[j])
    BY <1>3, <1>4, <1>5, <1>9, <2>1, <2>2
  <2>4. PICK A : A = P(j)
    OBVIOUS
  <2>5. Cardinality(A \cup B) = Cardinality(A) + Cardinality(B)
    <3>1. Cardinality(A \cup B) = Cardinality(A) + Cardinality(B) - Cardinality(A \cap B)
      BY <2>3, <2>4, FS_Union
    <3>2. Cardinality(A \cap B) = 0 /\ Cardinality(A) \in Nat /\ Cardinality(B) \in Nat
      BY <2>3, <2>4, FS_EmptySet, FS_CardinalityType
    <3> QED
      BY <3>1, <3>2
  <2> QED
    BY <2>3, <2>4, <2>5
<1> QED
  BY <1>1, <1>2, <1>9, <1>10, FS_EmptySet

(* Where the records of a compaction land.                                 *)
Landing(recs, n, a) ==
  /\ n \in Nat /\ \A i \in 1..n : CellsOf(recs[i]) \in Nat \ {0}
  /\ a[1] = 0 /\ \A j \in 1..(n + 1) : a[j] \in Nat
  /\ \A j \in 1..n : a[j + 1] = a[j] + CellsOf(recs[j])

LEMMA LandingGrows ==
  ASSUME NEW recs, NEW n, NEW a, Landing(recs, n, a), NEW i \in 1..(n + 1), NEW j \in 1..(n + 1), i < j
  PROVE  a[i] < a[j] /\ a[i] + CellsOf(recs[i]) <= a[j]
<1> DEFINE T == {m \in Nat : i + 1 + m <= n + 1 => a[i + 1] <= a[i + 1 + m]}
<1>0. /\ n \in Nat /\ \A x \in 1..n : CellsOf(recs[x]) \in Nat \ {0}
      /\ \A x \in 1..(n + 1) : a[x] \in Nat
      /\ \A x \in 1..n : a[x + 1] = a[x] + CellsOf(recs[x])
  BY DEF Landing
<1>1. 0 \in T
  <2>1. i + 1 \in 1..(n + 1) /\ i + 1 + 0 = i + 1
    BY <1>0
  <2>2. a[i + 1] \in Nat
    BY <1>0, <2>1
  <2> QED
    BY <2>1, <2>2
<1>2. ASSUME NEW m \in Nat, m \in T PROVE m + 1 \in T
  <2>1. SUFFICES ASSUME i + 1 + (m + 1) <= n + 1 PROVE a[i + 1] <= a[i + 1 + (m + 1)]
    OBVIOUS
  <2>2. PICK x \in Nat : x = i + 1 + m /\ x \in 1..n /\ x + 1 = i + 1 + (m + 1) /\ x \in 1..(n + 1)
                         /\ i + 1 \in 1..(n + 1)
    BY <1>0, <2>1
  <2>3. a[i + 1] <= a[x]
    BY <1>0, <1>2, <2>2
  <2>4. a[i + 1] \in Nat /\ a[x] \in Nat /\ CellsOf(recs[x]) \in Nat /\ a[x + 1] = a[x] + CellsOf(recs[x])
    BY <1>0, <2>2
  <2> QED
    BY <2>2, <2>3, <2>4
<1>3. PICK m \in Nat : j = i + 1 + m
  <2>1. j - (i + 1) \in Nat /\ j = i + 1 + (j - (i + 1))
    BY <1>0
  <2> QED
    BY <2>1
<1>4. m \in T
  <2> HIDE DEF T
  <2> QED
    BY <1>1, <1>2, SetInduction
<1>5. a[i + 1] <= a[j]
  BY <1>0, <1>3, <1>4
<1>6. i \in 1..n
  BY <1>0
<1>7. a[i] \in Nat /\ a[j] \in Nat /\ CellsOf(recs[i]) \in Nat \ {0} /\ a[i + 1] = a[i] + CellsOf(recs[i])
  BY <1>0, <1>6
<1> QED
  BY <1>5, <1>7

(* Every cell belongs to the one record that lands over it.                *)
Over(a, j, c) == a[j] < c /\ c <= a[j + 1]

LEMMA OwnerIs ==
  ASSUME NEW recs, NEW n, NEW a, Landing(recs, n, a), NEW c \in 1..a[n + 1]
  PROVE  \E j \in 1..n : Over(a, j, c) /\ \A i \in 1..n : Over(a, i, c) => i = j
<1>0. /\ n \in Nat /\ a[1] = 0 /\ \A x \in 1..(n + 1) : a[x] \in Nat
  BY DEF Landing
<1>1. c \in Nat \ {0} /\ a[n + 1] \in Nat
  BY <1>0
<1>2. n # 0
  BY <1>0, <1>1
<1> DEFINE S == {j \in 1..n : c <= a[j + 1]}
<1>3. S \subseteq Nat /\ n \in S
  BY <1>0, <1>2
<1>4. PICK j \in S : \A i \in S : j <= i
  <2> HIDE DEF S
  <2> QED
    BY <1>3, LeastNumber
<1>5. j \in 1..n /\ c <= a[j + 1]
  BY <1>4
<1>6. a[j] < c
  <2>1. CASE j = 1
    BY <1>0, <1>1, <2>1
  <2>2. CASE j # 1
    <3>1. PICK i \in 1..n : i + 1 = j /\ i < j
      <4>1. j - 1 \in 1..n /\ (j - 1) + 1 = j /\ j - 1 < j
        BY <1>0, <1>5, <2>2
      <4> QED
        BY <4>1
    <3>2. i \notin S
      BY <1>0, <1>4, <1>5, <3>1
    <3>3. ~(c <= a[j]) /\ a[j] \in Nat
      BY <1>0, <1>5, <3>1, <3>2
    <3> QED
      BY <1>1, <3>3
  <2> QED
    BY <2>1, <2>2
<1>7. ASSUME NEW i \in 1..n, Over(a, i, c) PROVE i = j
  <2>0. a[i] < c /\ c <= a[i + 1] /\ i \in S
    BY <1>7 DEF Over
  <2>1. SUFFICES ASSUME j < i PROVE FALSE
    BY <1>0, <1>4, <1>5, <2>0
  <2>2. j \in 1..(n + 1) /\ i \in 1..(n + 1)
    BY <1>0, <1>5
  <2>3. a[j] + CellsOf(recs[j]) <= a[i] /\ a[j + 1] = a[j] + CellsOf(recs[j])
    BY <1>5, <2>1, <2>2, LandingGrows DEF Landing
  <2>4. PICK x \in Nat, y \in Nat : x = a[j + 1] /\ y = a[i]
    <3>1. j + 1 \in 1..(n + 1)
      BY <1>0, <1>5
    <3> QED
      BY <1>0, <2>2, <3>1
  <2>5. x <= y /\ c <= x /\ y < c
    BY <1>5, <2>0, <2>3, <2>4
  <2> QED
    BY <1>1, <2>4, <2>5
<1> QED
  BY <1>5, <1>6, <1>7 DEF Over

LEMMA RewrittenIs ==
  ASSUME NEW recs, NEW n, NEW a, Landing(recs, n, a), Len(recs) = n,
         \A j \in 1..(n + 1) : a[j] = At(recs, j), \A j \in 1..n : IsRecord(recs[j]),
         NEW g, g = Rewritten(recs)
  PROVE  /\ Cells(g) /\ Len(g) = a[n + 1] /\ a[n + 1] \in Nat
         /\ \A j \in 1..n : \A x \in 1..CellsOf(recs[j]) :
              g[a[j] + x] = [rec |-> recs[j], part |-> x]
<1>0. /\ n \in Nat /\ \A x \in 1..n : CellsOf(recs[x]) \in Nat \ {0}
      /\ a[1] = 0 /\ \A x \in 1..(n + 1) : a[x] \in Nat
      /\ \A x \in 1..n : a[x + 1] = a[x] + CellsOf(recs[x])
  BY DEF Landing
<1>1. PICK N \in Nat : N = a[n + 1]
  BY <1>0
<1> DEFINE Owner(c) == CHOOSE j \in 1..n : At(recs, j) < c /\ c <= At(recs, j + 1)
<1>2. g = [c \in 1..N |-> [rec |-> recs[Owner(c)], part |-> c - At(recs, Owner(c))]]
  <2>1. At(recs, n + 1) = N
    BY <1>0, <1>1
  <2> QED
    BY <2>1 DEF Rewritten
<1>3. ASSUME NEW c \in 1..N, NEW j \in 1..n, Over(a, j, c) PROVE Owner(c) = j
  <2>1. \A i \in 1..n : Over(a, i, c) <=> At(recs, i) < c /\ c <= At(recs, i + 1)
    <3>1. \A i \in 1..n : i \in 1..(n + 1) /\ i + 1 \in 1..(n + 1)
      BY <1>0
    <3> QED
      BY <3>1 DEF Over
  <2>2. \A i \in 1..n : Over(a, i, c) => i = j
    BY <1>1, <1>3, OwnerIs
  <2> QED
    BY <1>3, <2>1, <2>2
<1> HIDE DEF Owner
<1>4. ASSUME NEW j \in 1..n, NEW x \in 1..CellsOf(recs[j])
      PROVE  a[j] + x \in 1..N /\ g[a[j] + x] = [rec |-> recs[j], part |-> x]
  <2>1. j \in 1..(n + 1) /\ n + 1 \in 1..(n + 1) /\ j < n + 1 /\ a[j] \in Nat
        /\ a[j + 1] = a[j] + CellsOf(recs[j]) /\ CellsOf(recs[j]) \in Nat
    BY <1>0
  <2>2. a[j] + CellsOf(recs[j]) <= a[n + 1]
    BY <2>1, LandingGrows
  <2>2a. PICK b \in Nat, w \in Nat : b = a[j] /\ w = CellsOf(recs[j]) /\ a[j + 1] = b + w /\ b + w <= N
    BY <1>1, <2>1, <2>2
  <2>2b. x \in 1..w
    BY <2>2a
  <2>2c. PICK c \in Nat : c = b + x /\ c \in 1..N /\ b < c /\ c <= b + w /\ c - b = x
    <3>1. b + w <= N /\ x \in Nat /\ 1 <= x /\ x <= w
      BY <2>2a, <2>2b
    <3>2. b + x \in Nat /\ b + x \in 1..N /\ b < b + x /\ b + x <= b + w /\ (b + x) - b = x
      BY <3>1
    <3> QED
      BY <3>2
  <2>3. c = a[j] + x /\ c \in 1..N /\ Over(a, j, c) /\ c - a[j] = x
    BY <2>2a, <2>2c DEF Over
  <2>4. Owner(c) = j
    BY <1>3, <2>3
  <2>5. g[c] = [rec |-> recs[j], part |-> c - At(recs, j)]
    BY <1>2, <2>3, <2>4
  <2> QED
    BY <2>1, <2>3, <2>5
<1>5. ASSUME NEW c \in 1..N PROVE IsCell(g[c])
  <2>1. PICK j \in 1..n : Over(a, j, c)
    BY <1>1, OwnerIs
  <2>2. a[j] \in Nat /\ a[j + 1] = a[j] + CellsOf(recs[j]) /\ CellsOf(recs[j]) \in Nat
    <3>1. j \in 1..(n + 1)
      BY <1>0
    <3> QED
      BY <1>0, <3>1
  <2>2a. PICK b \in Nat, w \in Nat : b = a[j] /\ w = CellsOf(recs[j]) /\ a[j + 1] = b + w
    BY <2>2
  <2>2b. b < c /\ c <= b + w
    BY <2>1, <2>2a DEF Over
  <2>2c. PICK x \in 1..w : c = b + x
    <3>1. c - b \in 1..w /\ c = b + (c - b)
      BY <2>2b
    <3> QED
      BY <3>1
  <2>3. x \in 1..CellsOf(recs[j]) /\ c = a[j] + x
    BY <2>2a, <2>2c
  <2>4. g[c] = [rec |-> recs[j], part |-> x]
    BY <1>4, <2>3
  <2>5. IsRecord(recs[j])
    OBVIOUS
  <2> QED
    BY <2>3, <2>4, <2>5 DEF IsCell
<1>6. g = [c \in 1..N |-> g[c]]
  BY <1>2
<1>7. Cells(g) /\ Len(g) = N
  BY <1>5, <1>6, CellsMade
<1> QED
  BY <1>1, <1>4, <1>7

(* A file of one put after the other, and the index that leads to them.    *)
Packed(g, recs, n, a) ==
  /\ Landing(recs, n, a) /\ Cells(g) /\ Len(g) = a[n + 1]
  /\ \A j \in 1..n : g[a[j] + 1] = [rec |-> recs[j], part |-> 1] /\ recs[j].op = "put"

Listed(i, recs, n, a) ==
  /\ i = [k \in DOMAIN i |-> i[k]] /\ DOMAIN i \subseteq Keys
  /\ \A j \in 1..n : recs[j].key \in DOMAIN i /\ i[recs[j].key] = a[j]
  /\ \A k \in DOMAIN i : \E j \in 1..n : k = recs[j].key

LEMMA PackedChain ==
  ASSUME NEW g, NEW recs, NEW n, NEW a, Packed(g, recs, n, a), NEW R, R = {a[j] : j \in 1..(n + 1)}
  PROVE  Chain(g, 0, R, Len(g))
<1>0. /\ Landing(recs, n, a) /\ Cells(g) /\ Len(g) = a[n + 1]
      /\ n \in Nat /\ \A x \in 1..n : CellsOf(recs[x]) \in Nat \ {0}
      /\ a[1] = 0 /\ \A x \in 1..(n + 1) : a[x] \in Nat
      /\ \A x \in 1..n : a[x + 1] = a[x] + CellsOf(recs[x])
      /\ \A x \in 1..n : g[a[x] + 1] = [rec |-> recs[x], part |-> 1] /\ recs[x].op = "put"
  BY DEF Landing, Packed
<1>1. PICK e \in Nat : e = Len(g) /\ e = a[n + 1]
  <2>1. n + 1 \in 1..(n + 1)
    BY <1>0
  <2> QED
    BY <1>0, <2>1
<1>1a. PICK m \in 1..(n + 1) : m = n + 1 /\ e = a[m]
  BY <1>0, <1>1
<1>1b. ASSUME NEW x \in 1..n PROVE g[a[x] + 1].rec = recs[x] /\ g[a[x] + 1].part = 1
  <2>1. g[a[x] + 1] = [rec |-> recs[x], part |-> 1]
    BY <1>0
  <2> QED
    BY <2>1
<1>2. \A x \in 1..(n + 1) : a[x] <= e
  <2>1. SUFFICES ASSUME NEW x \in 1..(n + 1) PROVE a[x] <= e
    OBVIOUS
  <2>2. CASE x = n + 1
    BY <1>1, <2>2
  <2>3. CASE x # n + 1
    <3>1. x < m
      BY <1>0, <1>1a, <2>3
    <3>2. a[x] < e
      BY <1>0, <1>1a, <3>1, LandingGrows
    <3> QED
      BY <1>0, <1>1, <3>2
  <2> QED
    BY <2>2, <2>3
<1>3. 0 \in R /\ e \in R /\ R \subseteq 0..e
  <2>1. 1 \in 1..(n + 1) /\ n + 1 \in 1..(n + 1)
    BY <1>0
  <2>2. \A x \in 1..(n + 1) : a[x] \in 0..e
    BY <1>0, <1>2
  <2> QED
    BY <1>0, <1>1, <2>1, <2>2
<1>4. ASSUME NEW j \in 1..n
      PROVE  /\ a[j] < e /\ a[j + 1] \in R /\ a[j + 1] = a[j] + CellsOf(g[a[j] + 1].rec)
             /\ Decode(g, a[j]) = "record"
  <2>1. j \in 1..(n + 1) /\ j + 1 \in 1..(n + 1) /\ j < m
    BY <1>0, <1>1a
  <2>2. a[j] < e
    BY <1>0, <1>1a, <2>1, LandingGrows
  <2>3. g[a[j] + 1].rec = recs[j] /\ g[a[j] + 1].part = 1 /\ recs[j].op = "put"
    BY <1>0, <1>1b
  <2>4. PICK x \in Nat : x = a[j + 1] /\ x <= e /\ x = a[j] + CellsOf(g[a[j] + 1].rec)
    BY <1>0, <1>2, <2>1, <2>3
  <2>5. ~(a[j] + CellsOf(g[a[j] + 1].rec) > Len(g))
    BY <1>1, <2>4
  <2>6. Decode(g, a[j]) = "record"
    BY <2>3, <2>5 DEF Decode
  <2> QED
    BY <2>1, <2>2, <2>4, <2>6
<1>5. \A p \in R : p # e => p < e /\ Decode(g, p) = "record" /\ p + CellsOf(g[p + 1].rec) \in R
  <2>1. SUFFICES ASSUME NEW p \in R, p # e
                 PROVE  p < e /\ Decode(g, p) = "record" /\ p + CellsOf(g[p + 1].rec) \in R
    OBVIOUS
  <2>2. PICK j \in 1..(n + 1) : p = a[j]
    OBVIOUS
  <2>3. j \in 1..n
    BY <1>0, <1>1a, <2>1, <2>2
  <2> QED
    BY <1>4, <2>2, <2>3
<1>6. \A p \in R : p # 0 => \E q \in R : q # e /\ p = q + CellsOf(g[q + 1].rec)
  <2>1. SUFFICES ASSUME NEW p \in R, p # 0
                 PROVE  \E q \in R : q # e /\ p = q + CellsOf(g[q + 1].rec)
    OBVIOUS
  <2>2. PICK j \in 1..(n + 1) : p = a[j]
    OBVIOUS
  <2>3. PICK i \in 1..n : j = i + 1
    <3>1. j # 1
      BY <1>0, <2>1, <2>2
    <3>2. j - 1 \in 1..n /\ j = (j - 1) + 1
      BY <1>0, <3>1
    <3> QED
      BY <3>2
  <2>4. a[i] \in R /\ a[i] # e /\ p = a[i] + CellsOf(g[a[i] + 1].rec)
    <3>1. i \in 1..(n + 1) /\ a[i] \in Nat
      BY <1>0
    <3>2. a[i] < e
      BY <1>4
    <3> QED
      BY <1>4, <2>2, <2>3, <3>1, <3>2
  <2> QED
    BY <2>4
<1>7. \A p, q \in R : p < q => p + CellsOf(g[p + 1].rec) <= q
  <2>1. SUFFICES ASSUME NEW p \in R, NEW q \in R, p < q PROVE p + CellsOf(g[p + 1].rec) <= q
    OBVIOUS
  <2>2. PICK i \in 1..(n + 1), j \in 1..(n + 1) : p = a[i] /\ q = a[j]
    OBVIOUS
  <2>3. p \in Nat /\ q \in Nat
    BY <1>0, <2>2
  <2>4. i < j
    <3>1. i # j /\ ~(q < p)
      BY <2>1, <2>2, <2>3
    <3>2. ~(j < i)
      BY <1>0, <2>2, <3>1, LandingGrows
    <3> QED
      BY <1>0, <3>1, <3>2
  <2>5. i \in 1..n
    BY <1>0, <2>4
  <2>6. a[i] + CellsOf(recs[i]) <= a[j]
    BY <1>0, <2>4, LandingGrows
  <2> QED
    BY <1>1b, <2>2, <2>5, <2>6
<1>8. \A p \in R : 0 <= p /\ p <= e
  BY <1>3
<1> QED
  BY <1>1, <1>3, <1>5, <1>6, <1>7, <1>8 DEF Chain

LEMMA PackedReplays ==
  ASSUME NEW g, NEW recs, NEW n, NEW a, Packed(g, recs, n, a), NEW i, Listed(i, recs, n, a),
         NEW h, h = [at |-> 0, len |-> 0], NEW e, e = Len(g)
  PROVE  Replays(g, h, i, e) /\ Headed(g, h, e) /\ Led(g, h, i, e)
<1>0. /\ Landing(recs, n, a) /\ Cells(g) /\ Len(g) = a[n + 1] /\ Log(g) /\ e \in Nat
      /\ n \in Nat /\ \A x \in 1..(n + 1) : a[x] \in Nat
  BY CellsLog DEF Landing, Packed
<1>0a. ASSUME NEW j \in 1..n
       PROVE  g[a[j] + 1].rec.key = recs[j].key /\ g[a[j] + 1].rec.op = "put" /\ a[j] < e /\ a[j] \in Nat
  <2>1. g[a[j] + 1] = [rec |-> recs[j], part |-> 1] /\ recs[j].op = "put"
    BY DEF Packed
  <2>2. PICK m \in 1..(n + 1) : m = n + 1 /\ e = a[m] /\ j < m /\ j \in 1..(n + 1)
    BY <1>0
  <2>3. a[j] < e
    BY <1>0, <2>2, LandingGrows
  <2> QED
    BY <1>0, <2>1, <2>2, <2>3
<1>1. /\ i = [k \in DOMAIN i |-> i[k]] /\ DOMAIN i \subseteq Keys
      /\ \A j \in 1..n : recs[j].key \in DOMAIN i /\ i[recs[j].key] = a[j]
      /\ \A k \in DOMAIN i : \E j \in 1..n : k = recs[j].key
  BY DEF Listed
<1>2. Snapshot(g, h) = <<>> /\ ReplayFrom(h) = 0 /\ h \in [at : Nat, len : Nat] /\ h.at + h.len = 0
  BY DEF Snapshot, ReplayFrom
<1>3. PICK R : R = {a[j] : j \in 1..(n + 1)}
  OBVIOUS
<1>4. Chain(g, 0, R, e)
  BY <1>3, PackedChain
<1>5. PICK D : D = R \ {e}
  OBVIOUS
<1>6. ASSUME NEW q \in D PROVE \E j \in 1..n : q = a[j]
  <2>1. PICK j \in 1..(n + 1) : q = a[j] /\ q # e
    BY <1>3, <1>5
  <2>2. j # n + 1
    BY <1>0, <2>1
  <2> QED
    BY <1>0, <2>1, <2>2
<1>7. ASSUME NEW j \in 1..n PROVE a[j] \in D
  <2>1. j \in 1..(n + 1) /\ ~(a[j] = e)
    BY <1>0, <1>0a
  <2> QED
    BY <1>3, <1>5, <2>1
<1>8. \A k : k \notin DOMAIN i => Of(g, D, e, k) = {}
  BY <1>0a, <1>1, <1>6 DEF Of
<1>9. ASSUME NEW k \in DOMAIN i
      PROVE  Of(g, D, e, k) = {i[k]} /\ g[i[k] + 1].rec.op = "put" /\ i[k] \in Nat /\ i[k] < e
  <2>1. PICK j \in 1..n : k = recs[j].key /\ i[k] = a[j]
    BY <1>1
  <2>2. a[j] \in Of(g, D, e, k)
    BY <1>0a, <1>7, <2>1 DEF Of
  <2>3. ASSUME NEW q \in Of(g, D, e, k) PROVE q = a[j]
    <3>1. q \in D /\ g[q + 1].rec.key = k
      BY DEF Of
    <3>2. PICK x \in 1..n : q = a[x]
      BY <1>6, <3>1
    <3>3. recs[x].key = k
      BY <1>0a, <3>1, <3>2
    <3> QED
      BY <1>1, <2>1, <3>2, <3>3
  <2> QED
    BY <1>0a, <2>1, <2>2, <2>3
<1>10. ASSUME NEW k \in DOMAIN i PROVE Max(Of(g, D, e, k)) = i[k]
  <2>1. PICK S : S = Of(g, D, e, k) /\ S = {i[k]}
    BY <1>9
  <2>2. PICK x \in S : x = i[k] /\ x \in Nat
    BY <1>9, <2>1
  <2>3. S \subseteq Nat /\ \A y \in S : y <= x
    BY <2>1, <2>2
  <2>4. Max(S) = x
    BY <2>3, MaxIs
  <2> QED
    BY <2>1, <2>2, <2>4
<1>11. PICK J : J = IndexAt(g, h, D, e)
  OBVIOUS
<1>12. IsIndexAt(J, g, h, D, e)
  BY <1>11, IndexAtIs
<1>13. DOMAIN J = DOMAIN i
  <2>1. DOMAIN Snapshot(g, h) = {}
    BY <1>2
  <2>2. \A k : k \in DOMAIN J <=> k \in Keys /\ IF Of(g, D, e, k) = {} THEN k \in DOMAIN Snapshot(g, h)
                     ELSE g[Max(Of(g, D, e, k)) + 1].rec.op = "put"
    BY <1>12 DEF IsIndexAt
  <2>3. ASSUME NEW k \in DOMAIN i PROVE k \in DOMAIN J
    <3>1. k \in Keys
      BY <1>1
    <3>2. Of(g, D, e, k) = {i[k]} /\ g[i[k] + 1].rec.op = "put"
      BY <1>9
    <3>3. Max(Of(g, D, e, k)) = i[k]
      BY <1>10
    <3>4. Of(g, D, e, k) # {}
      BY <3>2
    <3>5. g[Max(Of(g, D, e, k)) + 1].rec.op = "put"
      BY <3>2, <3>3
    <3> QED
      BY <2>2, <3>1, <3>4, <3>5
  <2>4. ASSUME NEW k \in DOMAIN J PROVE k \in DOMAIN i
    BY <1>8, <2>1, <2>2
  <2> QED
    BY <2>3, <2>4
<1>14. ASSUME NEW k \in DOMAIN J PROVE J[k] = i[k]
  <2>1. Of(g, D, e, k) # {} /\ Max(Of(g, D, e, k)) = i[k]
    BY <1>9, <1>10, <1>13
  <2>2. J[k] = IF Of(g, D, e, k) = {} THEN Snapshot(g, h)[k] ELSE Max(Of(g, D, e, k))
    BY <1>12 DEF IsIndexAt
  <2> QED
    BY <2>1, <2>2
<1>15. J = i
  <2>1. J = [k \in DOMAIN J |-> J[k]]
    BY <1>12 DEF IsIndexAt
  <2> QED
    BY <1>1, <1>13, <1>14, <2>1
<1>16. Replays(g, h, i, e)
  <2>1. e < Len(g) => Decode(g, e) # "unknown"
    BY <1>0
  <2> QED
    BY <1>0, <1>2, <1>4, <1>5, <1>11, <1>15, <2>1, ReplayOf
<1>17. Headed(g, h, e)
  <2>1. IsIndex(<<>>) /\ Points(g, <<>>, h.at)
    BY DEF IsIndex, Points
  <2> QED
    BY <1>0, <1>2, <2>1 DEF Headed
<1>18. Led(g, h, i, e)
  <2>1. IsIndex(i) /\ Points(g, i, e)
    BY <1>1, <1>9 DEF IsIndex, Points
  <2> QED
    BY <1>0, <1>2, <2>1 DEF Led
<1> QED
  BY <1>16, <1>17, <1>18

(* An order of a finite set names each element once.                       *)
Orders(order, S, n) ==
  /\ n \in Nat /\ Len(order) = n /\ \A j \in 1..n : order[j] \in S
  /\ \A k \in S : \E j \in 1..n : order[j] = k
  /\ \A i, j \in 1..n : order[i] = order[j] => i = j

LEMMA OrderIs ==
  ASSUME NEW S, IsFiniteSet(S), NEW order \in SetToSeqs(S)
  PROVE  \E n \in Nat : Orders(order, S, n)
<1>1. PICK n \in Nat : n = Cardinality(S)
  BY FS_CardinalityType
<1>2. order \in [1..n -> S] /\ \A i, j \in 1..n : i # j => order[i] # order[j]
  BY <1>1 DEF SetToSeqs
<1>3. Len(order) = n
  BY <1>2
<1>4. IsFiniteSet(1..n) /\ Cardinality(1..n) = n
  <2>1. n \in Int /\ 1 \in Int /\ n - 1 + 1 = n /\ (1 > n => n = 0)
    OBVIOUS
  <2> QED
    BY <2>1, FS_Interval
<1>5. IsInjective(order)
  BY <1>2 DEF IsInjective
<1>6. order \in Injection(1..n, S)
  BY <1>2, <1>5 DEF Injection
<1>7. order \in Surjection(1..n, S)
  BY <1>1, <1>4, <1>6, FS_Injection
<1>8. \A k \in S : \E j \in 1..n : order[j] = k
  BY <1>7 DEF Surjection
<1>9. Orders(order, S, n)
  BY <1>2, <1>3, <1>8 DEF Orders
<1> QED
  BY <1>9

LEMMA CompactStep ==
  ASSUME DbInv, Compact
  PROVE  DbInv' /\ (stray' => Kept) /\ (~stray' => Quiet)
<1>1. /\ mode = "compact" /\ end' = Len(file') /\ synced' = Len(file')
      /\ header' = [at |-> 0, len |-> 0] /\ dead' = 0 /\ mode' = "snapshot"
      /\ stray' = stray /\ History
  BY DEF Compact
<1>2. PICK order \in SetToSeqs(DOMAIN index) :
        LET rs == [j \in 1..Len(order) |-> PutRec(order[j], ReadValue(file, index[order[j]]))]
        IN  /\ file' = Rewritten(rs)
            /\ index' = [k \in DOMAIN index |-> At(rs, CHOOSE j \in 1..Len(order) : order[j] = k)]
  BY Zenon DEF Compact
<1>2a. PICK recs : recs = [j \in 1..Len(order) |-> PutRec(order[j], ReadValue(file, index[order[j]]))]
  OBVIOUS
<1>2b. /\ file' = Rewritten(recs)
       /\ index' = [k \in DOMAIN index |-> At(recs, CHOOSE j \in 1..Len(order) : order[j] = k)]
  BY <1>2, <1>2a
<1>3. /\ Headed(file, header, synced) /\ Led(file, header, index, end)
      /\ dead \in Nat /\ stray \in BOOLEAN
  BY <1>1 DEF DbInv, Sound, Typed, Running
<1>4. /\ Cells(file) /\ IsIndex(index) /\ Points(file, index, end) /\ end \in 0..Len(file)
      /\ DOMAIN index \subseteq Keys /\ Len(file) \in Nat
  BY <1>3, CellsLog DEF Headed, Led, IsIndex
<1>4a. PICK n \in Nat : Orders(order, DOMAIN index, n)
  <2>1. PICK S : S = DOMAIN index
    OBVIOUS
  <2>2. IsFiniteSet(S)
    BY <1>4, <2>1, KeysAssumption, FS_Subset
  <2> QED
    BY <1>2, <2>1, <2>2, OrderIs
<1>5. /\ Len(order) = n /\ \A j \in 1..n : order[j] \in DOMAIN index
      /\ \A k \in DOMAIN index : \E j \in 1..n : order[j] = k
      /\ \A i, j \in 1..n : order[i] = order[j] => i = j
  BY <1>4a DEF Orders
<1>6. Len(recs) = n /\ \A j \in 1..n : recs[j] = PutRec(order[j], ReadValue(file, index[order[j]]))
  BY <1>2a, <1>5
<1>7. ASSUME NEW j \in 1..n
      PROVE  /\ IsRecord(recs[j]) /\ recs[j].op = "put" /\ recs[j].key = order[j]
             /\ recs[j].val = ReadValue(file, index[order[j]])
  <2>1. PICK k \in DOMAIN index : k = order[j]
    BY <1>5
  <2>2. PICK o \in Nat : o = index[k] /\ o < end /\ file[o + 1].rec.op = "put"
    BY <1>4, <2>1 DEF Points
  <2>3. PICK c : c = file[o + 1] /\ IsCell(c)
    <3>1. o + 1 \in 1..Len(file)
      BY <1>4, <2>2
    <3> QED
      BY <1>4, <3>1, CellsLog
  <2>4. c.rec.op = "put" /\ IsRecord(c.rec)
    BY <2>2, <2>3 DEF IsCell
  <2>5. c.rec.val \in Values
    <3>1. c.rec = SnapRec(c.rec.map) => c.rec.op = "index"
      BY DEF SnapRec
    <3>2. \A x : c.rec = DelRec(x) => c.rec.op = "delete"
      BY DEF DelRec
    <3>3. PICK x \in Keys, v \in Values : c.rec = PutRec(x, v)
      BY <2>4, <3>1, <3>2 DEF IsRecord
    <3> QED
      BY <3>3 DEF PutRec
  <2>6. PICK v \in Values : v = ReadValue(file, index[order[j]])
    BY <2>1, <2>2, <2>3, <2>5 DEF ReadValue
  <2>7. recs[j] = PutRec(k, v) /\ k \in Keys
    BY <1>4, <1>6, <2>1, <2>6
  <2>8. IsRecord(recs[j])
    BY <2>7 DEF IsRecord
  <2> QED
    BY <2>1, <2>6, <2>7, <2>8 DEF PutRec
<1>8. \A j \in 1..n : CellsOf(recs[j]) \in Nat \ {0}
  BY <1>7, RecordCells
<1>9. PICK a : a = [j \in 1..(n + 1) |-> At(recs, j)]
  OBVIOUS
<1>10. \A j \in 1..(n + 1) : a[j] = At(recs, j)
  BY <1>9
<1>11. Landing(recs, n, a)
  <2>1. 1 \in 1..(n + 1) /\ \A j \in 1..n : j \in 1..(n + 1) /\ j + 1 \in 1..(n + 1)
    OBVIOUS
  <2>2. a[1] = 0 /\ \A j \in 1..(n + 1) : a[j] \in Nat
    BY <1>8, <1>10, <2>1, AtNext
  <2>3. ASSUME NEW j \in 1..n PROVE a[j + 1] = a[j] + CellsOf(recs[j])
    <3>1. At(recs, j + 1) = At(recs, j) + CellsOf(recs[j])
      BY <1>8, AtNext
    <3> QED
      BY <1>10, <2>1, <3>1
  <2> QED
    BY <1>8, <2>2, <2>3 DEF Landing
<1>12. PICK g : g = file'
  OBVIOUS
<1>13. /\ Cells(g) /\ Len(g) = a[n + 1] /\ Len(g) \in Nat
       /\ \A j \in 1..n : \A x \in 1..CellsOf(recs[j]) : g[a[j] + x] = [rec |-> recs[j], part |-> x]
  <2>1. g = Rewritten(recs) /\ \A j \in 1..n : IsRecord(recs[j])
    BY <1>2b, <1>7, <1>12
  <2> QED
    BY <1>6, <1>10, <1>11, <2>1, RewrittenIs
<1>14. Packed(g, recs, n, a)
  <2>1. ASSUME NEW j \in 1..n PROVE g[a[j] + 1] = [rec |-> recs[j], part |-> 1] /\ recs[j].op = "put"
    <3>1. 1 \in 1..CellsOf(recs[j])
      BY <1>8
    <3> QED
      BY <1>7, <1>13, <3>1
  <2> QED
    BY <1>11, <1>13, <2>1 DEF Packed
<1>15. PICK i : i = index'
  OBVIOUS
<1>16. i = [k \in DOMAIN index |-> At(recs, CHOOSE j \in 1..n : order[j] = k)]
  BY <1>2b, <1>5, <1>15
<1>17. ASSUME NEW j \in 1..n PROVE order[j] \in DOMAIN i /\ i[order[j]] = a[j]
  <2>1. order[j] \in DOMAIN index
    BY <1>5
  <2>2. (CHOOSE x \in 1..n : order[x] = order[j]) = j
    BY <1>5
  <2>3. i[order[j]] = At(recs, j)
    BY <1>16, <2>1, <2>2
  <2>4. j \in 1..(n + 1)
    OBVIOUS
  <2> QED
    BY <1>10, <1>16, <2>1, <2>3, <2>4
<1>18. Listed(i, recs, n, a)
  <2>1. i = [k \in DOMAIN i |-> i[k]] /\ DOMAIN i = DOMAIN index
    BY <1>16
  <2>2. \A j \in 1..n : recs[j].key \in DOMAIN i /\ i[recs[j].key] = a[j]
    BY <1>7, <1>17
  <2>3. \A k \in DOMAIN i : \E j \in 1..n : k = recs[j].key
    BY <1>5, <1>7, <2>1
  <2> QED
    BY <1>4, <2>1, <2>2, <2>3 DEF Listed
<1>19. PICK h, e : h = header' /\ e = end' /\ h = [at |-> 0, len |-> 0] /\ e = Len(g)
  BY <1>1, <1>12
<1>20. Replays(g, h, i, e) /\ Headed(g, h, e) /\ Led(g, h, i, e)
  BY <1>14, <1>18, <1>19, PackedReplays
<1>21. Typed' /\ Sound'
  BY <1>1, <1>3, <1>12, <1>15, <1>19, <1>20 DEF Typed, Sound, Running
<1>22. ValuesAt(g, i) = ValuesAt(file, index)
  <2>1. DOMAIN i = DOMAIN index
    BY <1>16
  <2>2. ASSUME NEW k \in DOMAIN index PROVE ReadValue(g, i[k]) = ReadValue(file, index[k])
    <3>1. PICK j \in 1..n : order[j] = k
      BY <1>5
    <3>2. i[k] = a[j] /\ recs[j].val = ReadValue(file, index[k])
      BY <1>7, <1>17, <3>1
    <3>3. g[a[j] + 1].rec = recs[j]
      <4>1. g[a[j] + 1] = [rec |-> recs[j], part |-> 1]
        BY <1>14 DEF Packed
      <4> QED
        BY <4>1
    <3> QED
      BY <3>2, <3>3 DEF ReadValue
  <2> QED
    BY <2>1, <2>2 DEF ValuesAt
<1>23. ASSUME ~stray' PROVE Clean' /\ Quiet
  <2>1. map = ValuesAt(file, index)
    BY <1>1, <1>23 DEF DbInv, Clean, MapOf, Running
  <2>2. map' = map /\ since' = {map} /\ map' = MapOf(file', header', index', mode')
    <3>1. MapOf(g, h, i, mode') = ValuesAt(g, i)
      BY <1>1 DEF MapOf, Running
    <3>2. map' = MapOf(file', header', index', mode')
      BY <1>23, <1>1 DEF History
    <3>3. map' = map
      BY <1>12, <1>15, <1>19, <1>22, <2>1, <3>1, <3>2
    <3>4. since' = {map'}
      BY <1>23, <1>1 DEF History
    <3> QED
      BY <3>2, <3>3, <3>4
  <2>3. PICK T : T = since'
    OBVIOUS
  <2>4. Cuts(g, h, e, T)
    <3>1. ASSUME NEW m \in e..Len(g) PROVE SubSeq(g, 1, m) = g
      <4>1. m = Len(g)
        BY <1>13, <1>19
      <4> QED
        BY <1>13, <4>1, CutWhole
    <3>2. Contents(g, h) = ValuesAt(g, i)
      BY <1>20, ReplayHolds
    <3> QED
      BY <1>22, <2>1, <2>2, <2>3, <3>1, <3>2 DEF Cuts
  <2> QED
    BY <1>1, <1>12, <1>15, <1>19, <1>20, <2>2, <2>3, <2>4 DEF Clean, Quiet, Running
<1> QED
  BY <1>1, <1>21, <1>23 DEF DbInv, History, Kept
-----------------------------------------------------------------------------
LEMMA InitHolds == DbInit => DbInv
<1>1. SUFFICES ASSUME DbInit PROVE DbInv
  OBVIOUS
<1>2. PICK h : h = header /\ h = [at |-> 0, len |-> 0]
  BY <1>1 DEF DbInit
<1>3. /\ file = <<>> /\ synced = 0 /\ index = <<>> /\ end = 0 /\ dead = 0 /\ mode = "ready"
      /\ map = <<>> /\ since = {map} /\ stray = FALSE
  BY <1>1 DEF DbInit
<1>4. Len(file) = 0
  BY <1>3
<1>5. Cells(file) /\ Log(file)
  <2>1. PICK N \in Nat : N = 0
    OBVIOUS
  <2>2. file = [c \in 1..N |-> file[c]]
    BY <1>3, <2>1
  <2>3. \A c \in 1..N : IsCell(file[c])
    BY <2>1
  <2>4. Cells(file)
    BY <2>1, <2>2, <2>3, CellsMade
  <2> QED
    BY <2>4, CellsLog
<1>6. Snapshot(file, h) = <<>> /\ ReplayFrom(h) = 0 /\ h.at + h.len = 0 /\ h \in [at : Nat, len : Nat]
  BY <1>2 DEF Snapshot, ReplayFrom
<1>7. IsIndex(<<>>) /\ \A f, b : Points(f, <<>>, b)
  BY DEF IsIndex, Points
<1>8. Headed(file, h, synced) /\ Led(file, h, index, end)
  BY <1>3, <1>4, <1>5, <1>6, <1>7 DEF Headed, Led
<1>9. Replays(file, h, index, end)
  <2>1. PICK R, recs : R = {end} /\ recs = R \ {end} /\ recs = {}
    OBVIOUS
  <2>2. Chain(file, end, R, end)
    BY <1>3, <1>4, <2>1 DEF Chain
  <2>3. index = IndexAt(file, h, recs, end)
    BY <1>3, <1>6, <1>7, <2>1, NoRecords
  <2>4. end < Len(file) => Decode(file, end) # "unknown"
    BY <1>3, <1>4
  <2> QED
    BY <1>3, <1>5, <1>6, <2>1, <2>2, <2>3, <2>4, ReplayOf
<1>10. ValuesAt(file, index) = map
  BY <1>3 DEF ValuesAt
<1>11. Cuts(file, h, synced, since)
  <2>1. ASSUME NEW m \in synced..Len(file) PROVE SubSeq(file, 1, m) = file
    <3>1. m = Len(file)
      BY <1>3, <1>4
    <3> QED
      BY <1>5, <3>1, CutWhole
  <2>2. Contents(file, h) = map
    BY <1>9, <1>10, ReplayHolds
  <2> QED
    BY <1>3, <2>1, <2>2 DEF Cuts
<1>12. Typed /\ Sound
  BY <1>2, <1>3, <1>8 DEF Typed, Sound, Running
<1>13. Clean
  BY <1>2, <1>3, <1>9, <1>10, <1>11 DEF Clean, MapOf, Running
<1> QED
  BY <1>12, <1>13 DEF DbInv

(* Every step keeps the invariant, and is one of the store's, or leaves    *)
(* the promised map alone.                                                 *)
LEMMA StepHolds ==
  ASSUME DbInv, [DbNext]_dbVars
  PROVE  DbInv' /\ [KV!Next]_<<map, since>>
<1>0. stray' \in BOOLEAN /\ (stray' => Kept) /\ (~stray' => Quiet) => [KV!Next]_<<map, since>>
  BY DEF Kept, Quiet, KV!Next, KV!Sync
<1>0a. DbInv' => stray' \in BOOLEAN
  BY DEF DbInv, Typed
<1>1. ASSUME NEW k \in Keys, NEW v \in Values, Put(k, v) PROVE DbInv' /\ [KV!Next]_<<map, since>>
  <2>1. DbInv' /\ (stray' => Kept) /\ (~stray' => map' = Indexed(map, k, v) /\ since' = since \cup {map'})
    BY <1>1, PutStep
  <2>2. ~stray' => KV!Put(k, v)
    BY <2>1 DEF KV!Put, KV!With, Indexed
  <2> QED
    BY <2>1, <2>2 DEF Kept, KV!Next
<1>2. ASSUME NEW k \in Keys, Delete(k) PROVE DbInv' /\ [KV!Next]_<<map, since>>
  <2>1. DbInv' /\ (stray' => Kept)
    BY <1>2, DeleteStep
  <2>2. ~stray' => k \in DOMAIN map /\ map' = Unindexed(map, k) /\ since' = since \cup {map'}
    BY <1>2, DeleteStep
  <2>3. ~stray' => KV!Delete(k)
    BY <2>2 DEF KV!Delete, KV!Without, Unindexed
  <2> QED
    BY <2>1, <2>3 DEF Kept, KV!Next
<1>3. CASE TornAppend
  <2>1. DbInv' /\ (stray' => Kept)
    BY <1>3, TornStep
  <2>2. ASSUME ~stray' PROVE [KV!Next]_<<map, since>>
    <3>1. since' = since \cup {map'}
      BY <1>3, <2>2, TornStep
    <3>2. \/ map' = map /\ since' = since
          \/ \E k \in Keys, v \in Values : map' = Indexed(map, k, v)
          \/ \E k \in Keys : map' = Unindexed(map, k) /\ k \in DOMAIN map
      BY <1>3, <2>2, TornStep
    <3>3. CASE map' = map /\ since' = since
      BY <3>3
    <3>4. ASSUME NEW k \in Keys, NEW v \in Values, map' = Indexed(map, k, v) PROVE KV!Next
      <4>1. KV!Put(k, v)
        BY <3>1, <3>4 DEF KV!Put, KV!With, Indexed
      <4> QED
        BY <4>1 DEF KV!Next
    <3>5. ASSUME NEW k \in Keys, map' = Unindexed(map, k), k \in DOMAIN map PROVE KV!Next
      <4>1. KV!Delete(k)
        BY <3>1, <3>5 DEF KV!Delete, KV!Without, Unindexed
      <4> QED
        BY <4>1 DEF KV!Next
    <3> QED
      BY <3>2, <3>3, <3>4, <3>5
  <2> QED
    BY <2>1, <2>2 DEF Kept
<1>4. CASE Checkpoint \/ AskCompact
  BY <1>0, <1>0a, <1>4, IdleStep
<1>5. CASE Compact
  BY <1>0, <1>0a, <1>5, CompactStep
<1>6. CASE SnapshotBytes
  BY <1>0, <1>0a, <1>6, SnapshotStep
<1>7. CASE SnapshotHeader
  BY <1>0, <1>0a, <1>7, HeaderStep
<1>8. CASE Crash
  BY <1>0, <1>0a, <1>8, CrashStep
<1>9. CASE Open
  BY <1>0, <1>0a, <1>9, OpenStep
<1>10. CASE PowerLoss
  BY <1>10, PowerStep DEF Kept, KV!Next, KV!PowerLoss
<1>11. CASE UNCHANGED dbVars
  <2>1. DbInv'
    BY <1>11 DEF dbVars, DbInv, Typed, Sound, Clean, Headed, Led, Named, Points, Replays, Cuts, Cells, Contents, MapOf
  <2> QED
    BY <1>11, <2>1 DEF dbVars
<1> QED
  BY <1>1, <1>2, <1>3, <1>4, <1>5, <1>6, <1>7, <1>8, <1>9, <1>10, <1>11 DEF DbNext

(* What the invariant says of the log.                                     *)
LEMMA LogIsTyped == DbInv => DbTypeOK
<1>1. SUFFICES ASSUME DbInv PROVE DbTypeOK
  OBVIOUS
<1>2. /\ Cells(file) /\ header \in [at : Nat, len : Nat] /\ synced \in 0..Len(file)
      /\ header.at + header.len <= synced /\ Len(file) \in Nat
  BY <1>1, CellsLog DEF DbInv, Sound, Headed
<1>3. IsIndex(index) /\ end \in 0..Len(file) /\ \A k \in DOMAIN index : index[k] < Len(file)
  <2>1. CASE mode \in Running
    <3>1. IsIndex(index) /\ Points(file, index, end) /\ end \in 0..Len(file)
      BY <1>1, <2>1 DEF DbInv, Sound, Led
    <3>2. ASSUME NEW k \in DOMAIN index PROVE index[k] < Len(file)
      <4>1. index[k] \in Nat /\ index[k] < end
        BY <3>1 DEF Points
      <4> QED
        BY <1>2, <3>1, <4>1
    <3> QED
      BY <3>1, <3>2
  <2>2. CASE mode \notin Running
    BY <1>1, <1>2, <2>2 DEF DbInv, Sound, IsIndex
  <2> QED
    BY <2>1, <2>2
<1> QED
  BY <1>1, <1>2, <1>3 DEF DbInv, Typed, DbTypeOK, Cells

(* The invariant holds of every state, whatever the keys, the values and   *)
(* their sizes.                                                            *)
LEMMA AlwaysHolds == DbSpec => []DbInv
<1>1. DbInv /\ [DbNext]_dbVars => DbInv'
  BY StepHolds
<1> QED
  BY <1>1, InitHolds, PTL DEF DbSpec

(* crabdb (db.rs, append and open_with): the resident index is the one a   *)
(* restart would rebuild from the file, and nothing beyond the append      *)
(* position is read as a record, as long as no write ended short of the    *)
(* fragment it went over.                                                  *)
THEOREM IndexRebuilds == DbSpec => []FileInv
<1>1. DbInv => FileInv
  <2>1. DbInv /\ ~stray /\ mode \in Running \ {"header"} => IndexIsReplay /\ NothingBeyondEnd
    BY DEF DbInv, Clean, Replays, IndexIsReplay, NothingBeyondEnd
  <2> QED
    BY <2>1, LogIsTyped DEF FileInv
<1> QED
  BY <1>1, AlwaysHolds, PTL

(* crabdb (db.rs, open_with): a store closed by a crash, a torn write or a *)
(* power loss opens again, if what it left was not stray.                  *)
THEOREM StoreOpensAgain == DbSpec => []OpensAgain
<1>1. DbInv => OpensAgain
  BY DEF DbInv, Clean, OpensAgain
<1> QED
  BY <1>1, AlwaysHolds, PTL

(* crabdb (db.rs, module comment): the log, its snapshots and compactions  *)
(* implement the map the store promises: a crash, a torn write and a       *)
(* compaction change no key, and a power loss goes back to a map it was    *)
(* since the last sync.                                                    *)
THEOREM LogImplementsMap == DbSpec => ImplementsKV
<1>1. DbInit => KV!Init
  BY DEF DbInit, KV!Init
<1>2. DbInv /\ [DbNext]_dbVars => [KV!Next]_<<map, since>>
  BY StepHolds
<1> QED
  BY <1>1, <1>2, AlwaysHolds, PTL DEF DbSpec, ImplementsKV, KV!Spec
=============================================================================
