---------------------------- MODULE LiveSessions ----------------------------
(***************************************************************************)
(* The daemon's registry of live sessions (runtime/src/session) under the  *)
(* requests that reach it (crabtalk/src/protocol).  A task is one client   *)
(* connection serving one request at a time; the registry lock is taken    *)
(* for one step at a time and never across an await, so a request is a     *)
(* sequence of steps that interleave with those of every other task.       *)
(*                                                                         *)
(* A session object (an Arc<Mutex<Session>>) is named by its runtime id,   *)
(* and outlives its registry entry for as long as a task holds it.  A      *)
(* cancellation token is named by the task whose operation opened it.      *)
(* History is counted in turns, one byte each.                             *)
(***************************************************************************)
EXTENDS Naturals, Sequences, FiniteSets, Functions

CONSTANTS
  Tasks,       \* client connections
  Handles,     \* session handles clients may name
  Kinds,       \* the requests this instance lets clients make
  MaxBytes,    \* bound on resident history (Sessions::max_bytes)
  MaxId,       \* bound: session ids handed out
  MaxHistory,  \* bound: a history longer than this is counted as this long
  None

AllKinds == {"create", "send", "stream", "guest", "compact", "kill", "cancel", "list"}

ASSUME KindsAssumption == Kinds \subseteq AllKinds
ASSUME BoundsAssumption == MaxBytes \in Nat /\ MaxId \in Nat /\ MaxHistory \in Nat
ASSUME NoneAssumption ==
  None \notin Tasks /\ None \notin [kind : AllKinds, handle : Handles]

VARIABLES
  by_id,      \* Registry::by_id: id -> [handle, cancel, bytes]
  by_handle,  \* Registry::by_handle: handle -> id
  next_id,    \* Sessions::next_id
  recency,    \* live ids, least recently touched first (the order of Live::touched)
  pc,         \* where each task is in its request
  req,        \* the request each task serves: [kind, handle]
  cur,        \* the session id the task works with
  fired,      \* tasks whose cancellation token has been cancelled
  listed,     \* sessions a list_active still has to visit, held meanwhile
  owner,      \* session object -> task holding its lock, or None
  size,       \* session object -> length of its live history
  stored      \* handle -> None, or [count (message_count), keys (messages stored),
              \*                     archived (a compacted prefix is replayed on load)]

registry == <<by_id, by_handle, recency>>
vars == <<by_id, by_handle, next_id, recency, pc, req, cur, fired, listed,
          owner, size, stored>>

With(f, k, v) == [x \in DOMAIN f \cup {k} |-> IF x = k THEN v ELSE f[x]]
Cap(n) == IF n > MaxHistory THEN MaxHistory ELSE n

Opening == {"create", "send", "stream", "guest"}   \* go through Sessions::open
Turns == {"send", "stream", "guest"}               \* append a turn to the history
Cancellable == {"stream", "compact"}               \* open a cancellation token
GuardedStreams == {"stream", "guest"}              \* fault: compact without a CancelGuard
Guarded == {"stream", "guest", "compact"}          \* drop a CancelGuard on the way out
-----------------------------------------------------------------------------
(* The Arc clones a task owns: its session from the lookup until the run   *)
(* is over, or every session a listing has not reached.                    *)
Holding(t) ==
  CASE pc[t] \in {"reprice", "opened", "wait", "run"} -> {cur[t]}
    [] pc[t] = "list" -> listed[t]
    [] OTHER -> {}

(* Sessions::touch: the session becomes the most recently used one.        *)
Touch(id) == Append(SelectSeq(recency, LAMBDA i : i # id), id)

(* Fault: the displaced session stays in the first index.                  *)
InsertKeepsDisplaced(id, live) == With(by_id, id, live)

(* Registry::insert: a live session under the same handle is displaced.    *)
InsertById(id, live) ==
  LET displaced == IF live.handle \in DOMAIN by_handle THEN {by_handle[live.handle]} ELSE {}
  IN  With(Restrict(by_id, DOMAIN by_id \ displaced), id, live)

InsertByHandle(id, live) == With(by_handle, live.handle, id)

(* Registry::remove for each id of a set, on the second index.             *)
RemoveByHandle(handles, lives, ids) ==
  Restrict(handles, DOMAIN handles \ {lives[i].handle : i \in ids})

(* Sessions::resident                                                      *)
Resident(lives, ids) == SumFunction([i \in ids |-> lives[i].bytes])

(* Fault: evict goes by the figures it finds.                              *)
StalePrices(lives) == lives

(* The refresh at the head of evict: sessions whose lock is free.          *)
Repriced(lives) ==
  [i \in DOMAIN lives |->
     IF owner[i] # None THEN lives[i] ELSE [lives[i] EXCEPT !.bytes = size[i]]]

(* Fault: a clone somebody holds does not protect the session.             *)
CandidatesIgnoringClones(lives, held) == {i \in DOMAIN lives : lives[i].cancel = None}

(* evict's filter: no operation in flight and nobody else holds the Arc.   *)
Candidates(lives, held) == {i \in DOMAIN lives : lives[i].cancel = None /\ i \notin held}

(* evict: the least recently used candidates, as few as bring the resident *)
(* bytes within the bound, or all of them.  Order lists ids oldest first.  *)
Victims(lives, held, order) ==
  LET cand == Candidates(lives, held)
      Before(i, j) == \E m, n \in DOMAIN order : m < n /\ order[m] = i /\ order[n] = j
      lru(n) == {i \in cand : Cardinality({j \in cand : Before(j, i)}) < n}
      fits(n) == Resident(lives, DOMAIN lives \ lru(n)) <= MaxBytes
      wanted == {n \in 0..Cardinality(cand) : fits(n)}
  IN  IF wanted = {} THEN cand
      ELSE lru(CHOOSE n \in wanted : \A m \in wanted : n <= m)

(* The registry after evict has run over the given indexes.                *)
Evict(lives, handles, held, order) ==
  LET priced == Repriced(lives)
      gone == Victims(priced, held, order)
      left == DOMAIN priced \ gone
  IN  /\ by_id' = Restrict(priced, left)
      /\ by_handle' = RemoveByHandle(handles, priced, gone)
      /\ recency' = SelectSeq(order, LAMBDA i : i \in left)
-----------------------------------------------------------------------------
Init ==
  /\ by_id = <<>>
  /\ by_handle = <<>>
  /\ next_id = 1
  /\ recency = <<>>
  /\ pc = [t \in Tasks |-> "idle"]
  /\ req = [t \in Tasks |-> None]
  /\ cur = [t \in Tasks |-> 0]
  /\ fired = {}
  /\ listed = [t \in Tasks |-> {}]
  /\ owner = <<>>
  /\ size = <<>>
  /\ stored = [h \in Handles |-> None]

Goto(t, to) == pc' = [pc EXCEPT ![t] = to]

(* Back to waiting for the client's next request.                          *)
Reply(t) ==
  /\ Goto(t, "idle")
  /\ req' = [req EXCEPT ![t] = None]
  /\ cur' = [cur EXCEPT ![t] = 0]
  /\ fired' = fired \ {t}
  /\ UNCHANGED listed

(* Requests that may still take an id out of the bound.                    *)
MayTakeId == {t \in Tasks : pc[t] \in {"check", "find"} /\ req[t].kind \in Opening}

(* A client sends a request.                                               *)
Request(t, k, h) ==
  /\ pc[t] = "idle"
  /\ k \in Opening => next_id + Cardinality(MayTakeId) <= MaxId
  /\ Goto(t, IF k = "create" THEN "check" ELSE "find")
  /\ req' = [req EXCEPT ![t] = [kind |-> k, handle |-> h]]
  /\ UNCHANGED <<registry, next_id, cur, fired, listed, owner, size, stored>>

(* create_session refuses a handle the store already knows.                *)
CheckAbsent(t) ==
  /\ pc[t] = "check"
  /\ \/ /\ stored[req[t].handle] = None
        /\ Goto(t, "find")
        /\ UNCHANGED <<req, cur, fired, listed>>
     \/ /\ stored[req[t].handle] # None
        /\ Reply(t)
  /\ UNCHANGED <<registry, next_id, owner, size, stored>>

(* find_by_handle, the first step of every request but a listing: a hit    *)
(* touches the session and names it.                                       *)
FindHit(t) ==
  LET h == req[t].handle IN
  /\ pc[t] = "find"
  /\ req[t].kind # "list"
  /\ h \in DOMAIN by_handle
  /\ by_handle[h] \in DOMAIN by_id
  /\ recency' = Touch(by_handle[h])
  /\ cur' = [cur EXCEPT ![t] = by_handle[h]]
  /\ Goto(t, CASE req[t].kind \in Opening -> "reprice"
               [] req[t].kind = "compact" -> "opened"
               [] OTHER -> "act")
  /\ UNCHANGED <<by_id, by_handle, next_id, req, fired, listed, owner, size, stored>>

(* Fault: the id is handed out but not used up.                            *)
ReuseId == UNCHANGED next_id

(* next_id.fetch_add(1)                                                    *)
TakeId == next_id' = next_id + 1

(* A miss takes an id and goes to the store, or fails the request.         *)
FindMiss(t) ==
  /\ pc[t] = "find"
  /\ req[t].kind # "list"
  /\ req[t].handle \notin DOMAIN by_handle
  /\ \/ /\ req[t].kind \in Opening
        /\ cur' = [cur EXCEPT ![t] = next_id]
        /\ TakeId
        /\ owner' = With(owner, next_id, None)
        /\ size' = With(size, next_id, 0)
        /\ Goto(t, "load")
        /\ UNCHANGED <<req, fired, listed>>
     \/ /\ req[t].kind \notin Opening
        /\ Reply(t)
        /\ UNCHANGED <<next_id, owner, size>>
  /\ UNCHANGED <<registry, stored>>

(* reprice, on a hit: re-measure the session if its lock is free, and      *)
(* evict when the sum is then over the bound.                              *)
Reprice(t) ==
  LET i == cur[t]
      priced == [by_id EXCEPT ![i].bytes = size[i]]
  IN
  /\ pc[t] = "reprice"
  /\ Goto(t, "opened")
  /\ IF i \notin DOMAIN by_id \/ owner[i] # None THEN UNCHANGED registry
     ELSE IF Resident(priced, DOMAIN priced) <= MaxBytes
     THEN by_id' = priced /\ UNCHANGED <<by_handle, recency>>
     ELSE Evict(priced, by_handle, UNION {Holding(u) : u \in Tasks}, recency)
  /\ UNCHANGED <<next_id, req, cur, fired, listed, owner, size, stored>>

(* The history a load rebuilds: the archived summary, then the messages.   *)
Loaded(s) == Cap(s.keys + IF s.archived THEN 1 ELSE 0)

(* Runtime::load: rebuild the session from the store, or find none there.  *)
Load(t) ==
  LET s == stored[req[t].handle] IN
  /\ pc[t] = "load"
  /\ \/ s # None /\ Goto(t, "insert") /\ size' = [size EXCEPT ![cur[t]] = Loaded(s)]
     \/ s = None /\ Goto(t, "create") /\ UNCHANGED size
  /\ UNCHANGED <<registry, next_id, req, cur, fired, listed, owner, stored>>

(* open's error paths: the agent is not registered, or the store failed.   *)
OpenFails(t) ==
  /\ pc[t] \in {"load", "create"}
  /\ Reply(t)
  /\ UNCHANGED <<registry, next_id, owner, size, stored>>

(* The store's create_session: a new meta record counting no messages;     *)
(* messages already under the handle stay where they are.                  *)
CreateStored(t) ==
  LET h == req[t].handle IN
  /\ pc[t] = "create"
  /\ stored' = [stored EXCEPT ![h] =
       IF @ = None THEN [count |-> 0, keys |-> 0, archived |-> FALSE]
       ELSE [count |-> 0, keys |-> @.keys, archived |-> @.archived]]
  /\ Goto(t, "insert")
  /\ UNCHANGED <<registry, next_id, req, cur, fired, listed, owner, size>>

(* Sessions::insert: register the session and evict.  The caller's clone   *)
(* already exists, so the new session is no candidate.                     *)
Insert(t) ==
  LET i == cur[t]
      live == [handle |-> req[t].handle, cancel |-> None, bytes |-> size[i]]
      order == SelectSeq(Touch(i), LAMBDA j : j \in DOMAIN InsertById(i, live))
  IN
  /\ pc[t] = "insert"
  /\ Evict(InsertById(i, live), InsertByHandle(i, live),
           {i} \cup UNION {Holding(u) : u \in Tasks}, order)
  /\ Goto(t, "opened")
  /\ UNCHANGED <<next_id, req, cur, fired, listed, owner, size, stored>>
-----------------------------------------------------------------------------
(* create_session has its session, and drops it.                           *)
Created(t) ==
  /\ pc[t] = "opened"
  /\ req[t].kind = "create"
  /\ Reply(t)
  /\ UNCHANGED <<registry, next_id, owner, size, stored>>

(* begin_cancel: the session's token becomes this operation's, if the      *)
(* session is still registered.                                            *)
BeginCancel(t) ==
  /\ pc[t] = "opened"
  /\ req[t].kind \in Cancellable
  /\ by_id' = IF cur[t] \in DOMAIN by_id THEN [by_id EXCEPT ![cur[t]].cancel = t] ELSE by_id
  /\ Goto(t, "wait")
  /\ UNCHANGED <<by_handle, recency, next_id, req, cur, fired, listed, owner, size, stored>>

(* A send or a guest turn goes straight for the session's lock.            *)
Uncancellable(t) ==
  /\ pc[t] = "opened"
  /\ req[t].kind \in {"send", "guest"}
  /\ Goto(t, "wait")
  /\ UNCHANGED <<registry, next_id, req, cur, fired, listed, owner, size, stored>>

(* Fault: a held lock does not keep others out.                            *)
LockShared(i) == TRUE

(* The session's Tokio mutex.                                              *)
LockFree(i) == owner[i] = None

(* Fault: the lock outlives the run.                                       *)
KeepLock(i) == owner

(* Dropping the MutexGuard.                                                *)
Release(i) == [owner EXCEPT ![i] = None]

(* session.lock().await returns; a turn pushes the user's message first.   *)
Acquire(t) ==
  /\ pc[t] = "wait"
  /\ LockFree(cur[t])
  /\ owner' = [owner EXCEPT ![cur[t]] = t]
  /\ size' = [size EXCEPT ![cur[t]] = IF req[t].kind \in Turns THEN Cap(@ + 1) ELSE @]
  /\ Goto(t, "run")
  /\ UNCHANGED <<registry, next_id, req, cur, fired, listed, stored>>

(* Leaving the run: the lock and the Arc go first, then the CancelGuard.   *)
Unlock(t) ==
  /\ owner' = Release(cur[t])
  /\ IF req[t].kind \in Guarded
     THEN Goto(t, "guard") /\ UNCHANGED <<req, cur, fired, listed>>
     ELSE Reply(t)
  /\ UNCHANGED <<registry, next_id>>

(* finalize_run appends the turn at the store's message_count, and ignores *)
(* the error of a session the store does not know.                         *)
AppendTurn(s) ==
  LET count == Cap(s.count + 1)
  IN  IF s = None THEN None
      ELSE [count |-> count, keys |-> IF count > s.keys THEN count ELSE s.keys,
            archived |-> s.archived]

(* A turn is over and persisted before the lock goes.                      *)
FinishTurn(t) ==
  /\ pc[t] = "run"
  /\ req[t].kind \in Turns
  /\ stored' = [stored EXCEPT ![req[t].handle] = AppendTurn(@)]
  /\ Unlock(t)
  /\ UNCHANGED size

(* append_session_compact: every message goes, the archive marker stays.   *)
Compacted(s) == IF s = None THEN None ELSE [count |-> 0, keys |-> 0, archived |-> TRUE]

(* A compaction is over: the history is one summary, and the store keeps   *)
(* the summary instead of the messages; or there was nothing to summarize. *)
FinishCompact(t) ==
  /\ pc[t] = "run"
  /\ req[t].kind = "compact"
  /\ \/ /\ size[cur[t]] > 0
        /\ size' = [size EXCEPT ![cur[t]] = 1]
        /\ stored' = [stored EXCEPT ![req[t].handle] = Compacted(@)]
     \/ UNCHANGED <<size, stored>>
  /\ Unlock(t)

(* Fault: a compaction never looks at its token.                           *)
CancelledStream(t) == t \in fired /\ req[t].kind = "stream"

(* The race of every provider call against token.cancelled().              *)
Cancelled(t) == t \in fired

(* The run sees its token cancelled: a stream persists what it has, a      *)
(* compaction gives up.                                                    *)
StopCancelled(t) ==
  /\ pc[t] = "run"
  /\ Cancelled(t)
  /\ IF req[t].kind = "compact" THEN UNCHANGED stored
     ELSE stored' = [stored EXCEPT ![req[t].handle] = AppendTurn(@)]
  /\ Unlock(t)
  /\ UNCHANGED size

(* A turn ends without being persisted: its agent is gone, or the guest's  *)
(* model failed before it finished.                                        *)
TurnFails(t) ==
  /\ pc[t] = "run"
  /\ req[t].kind \in Turns
  /\ Unlock(t)
  /\ UNCHANGED <<size, stored>>

(* The consumer goes away: the operation's future is dropped where it      *)
(* stands, and nothing more is persisted.                                  *)
Abandon(t) ==
  /\ pc[t] \in {"opened", "wait", "run"}
  /\ req[t].kind \in Guarded
  /\ pc[t] = "opened" => req[t].kind # "compact"
  /\ owner' = IF pc[t] = "run" THEN Release(cur[t]) ELSE owner
  /\ Goto(t, "guard")
  /\ UNCHANGED <<registry, next_id, req, cur, fired, listed, size, stored>>

(* CancelGuard::drop calls end_cancel: whatever token the session has goes. *)
EndCancel(t) ==
  /\ pc[t] = "guard"
  /\ by_id' = IF cur[t] \in DOMAIN by_id THEN [by_id EXCEPT ![cur[t]].cancel = None] ELSE by_id
  /\ Reply(t)
  /\ UNCHANGED <<by_handle, recency, next_id, owner, size, stored>>

(* cancel_stream, second half: fire the session's token if it has one.     *)
Cancel(t) ==
  LET i == cur[t] IN
  /\ pc[t] = "act"
  /\ req[t].kind = "cancel"
  /\ Goto(t, "idle")
  /\ req' = [req EXCEPT ![t] = None]
  /\ cur' = [cur EXCEPT ![t] = 0]
  /\ fired' = IF i \in DOMAIN by_id /\ by_id[i].cancel # None
              THEN fired \cup {by_id[i].cancel} ELSE fired
  /\ UNCHANGED <<registry, next_id, listed, owner, size, stored>>

(* kill_conversation, second half: close the id it found.                  *)
Close(t) ==
  LET gone == {cur[t]} \cap DOMAIN by_id IN
  /\ pc[t] = "act"
  /\ req[t].kind = "kill"
  /\ by_id' = Restrict(by_id, DOMAIN by_id \ gone)
  /\ by_handle' = RemoveByHandle(by_handle, by_id, gone)
  /\ recency' = SelectSeq(recency, LAMBDA i : i \notin gone)
  /\ Reply(t)
  /\ UNCHANGED <<next_id, owner, size, stored>>

(* list_active clones every live session, then waits on each one's lock    *)
(* in turn, in id order.                                                   *)
ListStart(t) ==
  /\ pc[t] = "find"
  /\ req[t].kind = "list"
  /\ listed' = [listed EXCEPT ![t] = DOMAIN by_id]
  /\ Goto(t, "list")
  /\ UNCHANGED <<registry, next_id, req, cur, fired, owner, size, stored>>

ListNext(t) ==
  /\ pc[t] = "list"
  /\ listed[t] # {}
  /\ LET i == CHOOSE j \in listed[t] : \A k \in listed[t] : j <= k
     IN  /\ LockFree(i)
         /\ listed' = [listed EXCEPT ![t] = @ \ {i}]
  /\ UNCHANGED <<registry, next_id, pc, req, cur, fired, owner, size, stored>>

ListDone(t) ==
  /\ pc[t] = "list"
  /\ listed[t] = {}
  /\ Reply(t)
  /\ UNCHANGED <<registry, next_id, owner, size, stored>>
-----------------------------------------------------------------------------
(* What a task does without waiting for anybody.                           *)
Step(t) ==
  \/ CheckAbsent(t) \/ FindHit(t) \/ FindMiss(t) \/ Reprice(t)
  \/ Load(t) \/ OpenFails(t) \/ CreateStored(t) \/ Insert(t)
  \/ Created(t) \/ BeginCancel(t) \/ Uncancellable(t)
  \/ StopCancelled(t) \/ EndCancel(t)
  \/ Cancel(t) \/ Close(t)
  \/ ListStart(t) \/ ListDone(t)

(* What it does once a session's lock is free.                             *)
Locking(t) == Acquire(t) \/ ListNext(t)

(* What it does once the model provider has answered.                      *)
Finish(t) == FinishTurn(t) \/ TurnFails(t) \/ FinishCompact(t)

Next ==
  \E t \in Tasks :
    \/ \E k \in Kinds, h \in Handles : Request(t, k, h)
    \/ Step(t)
    \/ Locking(t)
    \/ Finish(t)
    \/ Abandon(t)

(* The executor polls every ready task; a Tokio mutex is first come, first *)
(* served, so a waiter is not passed over for ever.                        *)
Fairness == \A t \in Tasks : WF_vars(Step(t)) /\ SF_vars(Locking(t))

Spec == Init /\ [][Next]_vars /\ Fairness

(* A provider that answers every request it is sent.                       *)
ProviderAnswers == \A t \in Tasks : WF_vars(Finish(t))
-----------------------------------------------------------------------------
(* Type invariant, in three parts: the registry, the requests in service   *)
(* and the session objects with the store behind them.                     *)
RegistryTypes ==
  /\ next_id \in Nat \ {0}
  /\ DOMAIN by_id \subseteq 1..(next_id - 1)
  /\ \A i \in DOMAIN by_id :
       by_id[i] \in [handle : Handles, cancel : Tasks \cup {None}, bytes : Nat]
  /\ DOMAIN by_handle \subseteq Handles
  /\ \A h \in DOMAIN by_handle : by_handle[h] \in 1..(next_id - 1)

Locations == {"idle", "check", "find", "reprice", "load", "create", "insert", "opened",
              "wait", "run", "guard", "act", "list"}

RequestTypes ==
  /\ pc \in [Tasks -> Locations]
  /\ req \in [Tasks -> [kind : AllKinds, handle : Handles] \cup {None}]
  /\ cur \in [Tasks -> 0..(next_id - 1)]
  /\ fired \in SUBSET Tasks
  /\ listed \in [Tasks -> SUBSET (1..(next_id - 1))]
  /\ \A t \in Tasks : pc[t] # "idle" => req[t] # None
  /\ \A t \in Tasks : pc[t] \notin {"idle", "check", "find", "list"} => cur[t] # 0

ObjectTypes ==
  /\ owner \in [1..(next_id - 1) -> Tasks \cup {None}]
  /\ size \in [1..(next_id - 1) -> Nat]
  /\ stored \in [Handles -> [count : Nat, keys : Nat, archived : BOOLEAN] \cup {None}]

TypeOK == RegistryTypes /\ RequestTypes /\ ObjectTypes

(* registry.rs: "Both indexes, under one lock so they cannot disagree."    *)
(* Every handle leads to a live session of that handle, and every live     *)
(* session is the one its handle leads to, whatever opens race, displace,  *)
(* evict or close.                                                         *)
IndexesAgree ==
  /\ \A h \in DOMAIN by_handle :
       by_handle[h] \in DOMAIN by_id /\ by_id[by_handle[h]].handle = h
  /\ \A i \in DOMAIN by_id :
       by_id[i].handle \in DOMAIN by_handle /\ by_handle[by_id[i].handle] = i

(* The ids of opens still on their way to Sessions::insert are registered  *)
(* nowhere, and no two opens carry the same one, so an insert never lands  *)
(* on another session.                                                     *)
PendingIdsFresh ==
  \A t \in Tasks : pc[t] \in {"load", "create", "insert"} =>
    /\ cur[t] \notin DOMAIN by_id
    /\ \A u \in Tasks \ {t} : cur[u] # cur[t]

(* Where a task's CancelGuard is alive.                                    *)
UnderGuard(t) == req[t] # None /\ req[t].kind \in Guarded /\ pc[t] \in {"opened", "wait", "run", "guard"}

(* Live::cancel is "present only while one is running": a registered token *)
(* is that of an operation on this very session whose CancelGuard has not  *)
(* been dropped, so a cancel is never accepted into a token nobody reads.  *)
NoOrphanToken ==
  \A i \in DOMAIN by_id : \A t \in Tasks :
    by_id[i].cancel = t => cur[t] = i /\ UnderGuard(t)

(* A session's lock is held by a task that is running on that session and  *)
(* by nobody else: no exit path (end, error, cancel, dropped consumer)     *)
(* leaves the lock behind.                                                 *)
LockHeldByRunner ==
  \A i \in DOMAIN owner : \A t \in Tasks :
    owner[i] = t <=> pc[t] = "run" /\ cur[t] = i

InUse(i) == by_id[i].cancel # None \/ \E t \in Tasks : i \in Holding(t)

(* A session that leaves the registry was closed by name, displaced by an  *)
(* open of its own handle, or idle: no token, and no task holding it.      *)
SparesInUse ==
  \A i \in DOMAIN by_id \ DOMAIN by_id' :
    \/ \E t \in Tasks : pc[t] = "act" /\ cur[t] = i /\ req[t].kind = "kill" /\ pc'[t] = "idle"
    \/ by_id[i].handle \in DOMAIN by_handle' /\ by_handle'[by_id[i].handle] # i
    \/ ~InUse(i)

(* evict: "Only sessions nothing else holds are candidates": no step takes *)
(* a session in use out of the registry behind its user's back.            *)
EvictionSparesInUse == [][SparesInUse]_vars

(* What the registry really keeps in memory, as far as evict can know: a   *)
(* session whose lock is held goes by its figure.                          *)
Measured == SumFunction([i \in DOMAIN by_id |-> IF owner[i] = None THEN size[i] ELSE by_id[i].bytes])

(* A registry that grew is within the bound, or in use as a whole.         *)
WithinBound ==
  DOMAIN by_id' \ DOMAIN by_id # {} =>
    Measured' <= MaxBytes \/ \A i \in DOMAIN by_id' : InUse(i)'

(* evict: "Everything left is in flight.  The bound gives way rather than  *)
(* the run."  When the registry grows, what it then keeps in memory is     *)
(* within the bound, or every session left is in use.                      *)
BoundAfterInsert == [][WithinBound]_vars

(* Every request is answered when the provider answers: no lock, guard or  *)
(* listing is waited on for ever.                                          *)
EveryRequestAnswered ==
  ProviderAnswers => \A t \in Tasks : pc[t] # "idle" ~> pc[t] = "idle"

(* A cancel that reached a run's token ends the run, even when the         *)
(* provider never answers.                                                 *)
CancelStopsRun == \A t \in Tasks : (pc[t] = "run" /\ t \in fired) ~> pc[t] # "run"
=============================================================================
