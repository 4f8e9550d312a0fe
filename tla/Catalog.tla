------------------------------ MODULE Catalog ------------------------------
(* The daemon's durable catalogue: agents, filed by id and found by name   *)
(* through an index, and event subscriptions, answered from memory and     *)
(* mirrored to the store.  No write is a transaction: every get, put and   *)
(* delete is a step, requests interleave between them, and the daemon may  *)
(* crash at any of them and start again from what is stored.               *)
(* A configuration is abstracted to its name; ids are never minted twice.  *)
EXTENDS Naturals, Sequences, FiniteSets, FiniteSetsExt, Functions

CONSTANTS
  Workers,    \* tasks that serve requests
  Names,
  Crab,       \* the name of the agent a fresh install is given
  Sources,    \* sources of events
  MaxOps,     \* bound on the number of requests
  MaxCrashes

ASSUME NamesAssumption == Crab \in Names
ASSUME BoundsAssumption == MaxOps \in Nat /\ MaxCrashes \in Nat

VARIABLES
  content,    \* agent/{id}: id -> name
  idx,        \* idx/agent/{name}: name -> id
  default,    \* default_agent, 0 before it is set
  minted,     \* ids minted so far
  daemon,     \* where start-up is, or "up"
  task,       \* per worker: [pc, id, name, old, found]
  ops, crashes,
  subs,       \* EventBus.subscriptions: id -> [source, once, serial]
  next_id,
  stored,     \* subscription/{id}
  writes,     \* mirror tasks that have not run
  fired,      \* per subscription, in the order they were made: [once, times] (ghost)
  mixed,      \* agents touched by two requests at once, cut off, or renamed to their name (ghost)
  shared,     \* agents that had a claim on the same name as another (ghost)
  unsure      \* subscriptions whose writes crossed, failed or were cut off (ghost)

agentVars == <<content, idx, default, minted>>
busVars == <<subs, next_id, writes, fired>>
vars == <<content, idx, default, minted, daemon, task, ops, crashes,
          subs, next_id, stored, writes, fired, mixed, shared, unsure>>

Put(f, k, v) == [x \in DOMAIN f \cup {k} |-> IF x = k THEN v ELSE f[x]]
Without(f, S) == Restrict(f, DOMAIN f \ S)

Idle == [pc |-> "idle", id |-> 0, name |-> Crab, old |-> Crab, found |-> 0]
Goto(w, where) == task' = [task EXCEPT ![w].pc = where]
Finish(w) == task' = [task EXCEPT ![w] = Idle]

-----------------------------------------------------------------------------
(* Ghosts: which agents the name index can be vouched for.                 *)

Busy(id) == \E w \in Workers : task[w].pc # "idle" /\ task[w].id = id

(* The names an agent has, had in an index entry, or is about to have.     *)
Claims(id) ==
  {content[i] : i \in DOMAIN content \cap {id}}
  \cup {n \in DOMAIN idx : idx[n] = id}
  \cup UNION {{task[w].name, task[w].old} :
                w \in {w \in Workers : task[w].id = id /\ task[w].pc \notin {"idle", "exists"}}}

Shared == {i \in 1..minted : \E j \in 1..minted : i # j /\ Claims(i) \cap Claims(j) # {}}

-----------------------------------------------------------------------------
(* Requests.  One for an agent that is not there is answered "not found".  *)

Begin(w) ==
  /\ daemon = "up" /\ task[w].pc = "idle"
  /\ ops < MaxOps /\ ops' = ops + 1
  /\ UNCHANGED <<daemon, crashes>>

Quiet == UNCHANGED <<daemon, ops, crashes>>

Enter(w, where, id, name, old) ==
  task' = [task EXCEPT ![w] = [pc |-> where, id |-> id, name |-> name, old |-> old, found |-> 0]]

(* create_agent: a fresh id, and load_agent_by_name: the index, and then   *)
(* the content it points at.                                               *)
CreateAgent(w, n) ==
  /\ Begin(w)
  /\ minted' = minted + 1
  /\ task' = [task EXCEPT ![w] =
       [pc |-> IF n \in DOMAIN idx THEN "exists" ELSE "upsert", id |-> minted', name |-> n,
        old |-> n, found |-> IF n \in DOMAIN idx THEN idx[n] ELSE 0]]
  /\ UNCHANGED <<content, idx, default, mixed>>

AgentExists(w) ==
  /\ task[w].pc = "exists" /\ Quiet
  /\ IF task[w].found \in DOMAIN content THEN Finish(w) ELSE Goto(w, "upsert")
  /\ UNCHANGED <<content, idx, default, minted, mixed>>

(* update_agent keeps the name that was stored when it started.            *)
UpdateAgent(w, id) ==
  /\ Begin(w)
  /\ id \in DOMAIN content
  /\ mixed' = mixed \cup (IF Busy(id) THEN {id} ELSE {})
  /\ Enter(w, "upsert", id, content[id], content[id])
  /\ UNCHANGED <<content, idx, default, minted>>

(* upsert_agent: what is stored now; a name that is no longer the agent's  *)
(* is taken out of the index.                                              *)
UpsertLoad(w) ==
  LET t == task[w]
      renamed == t.id \in DOMAIN content /\ content[t.id] # t.name
  IN  /\ t.pc = "upsert" /\ Quiet
      /\ Enter(w, IF renamed THEN "up_unname" ELSE "up_put", t.id, t.name,
               IF renamed THEN content[t.id] ELSE t.name)
      /\ UNCHANGED <<content, idx, default, minted, mixed>>

UpsertUnname(w) ==
  /\ task[w].pc = "up_unname" /\ Quiet
  /\ idx' = Without(idx, {task[w].old})
  /\ Goto(w, "up_put")
  /\ UNCHANGED <<content, default, minted, mixed>>

(* Content first, then the name.                                           *)
UpsertPut(w) ==
  /\ task[w].pc = "up_put" /\ Quiet
  /\ content' = Put(content, task[w].id, task[w].name)
  /\ Goto(w, "up_name")
  /\ UNCHANGED <<idx, default, minted, mixed>>

UpsertName(w) ==
  /\ task[w].pc = "up_name" /\ Quiet
  /\ idx' = Put(idx, task[w].name, task[w].id)
  /\ Finish(w)
  /\ UNCHANGED <<content, default, minted, mixed>>

(* delete_agent: the name and then the content.                            *)
DeleteAgent(w, id) ==
  /\ Begin(w)
  /\ mixed' = mixed \cup (IF Busy(id) THEN {id} ELSE {})
  /\ IF id \in DOMAIN content THEN Enter(w, "de_unname", id, content[id], content[id])
     ELSE Enter(w, "de_content", id, Crab, Crab)
  /\ UNCHANGED <<content, idx, default, minted>>

DeleteUnname(w) ==
  /\ task[w].pc = "de_unname" /\ Quiet
  /\ idx' = Without(idx, {task[w].name})
  /\ Goto(w, "de_content")
  /\ UNCHANGED <<content, default, minted, mixed>>

DeleteContent(w) ==
  /\ task[w].pc = "de_content" /\ Quiet
  /\ content' = Without(content, {task[w].id})
  /\ Finish(w)
  /\ UNCHANGED <<idx, default, minted, mixed>>

(* rename_agent: content, the new name, and then the old one goes, even    *)
(* when the two are the same.                                              *)
RenameAgent(w, id, n) ==
  /\ Begin(w)
  /\ id \in DOMAIN content
  /\ mixed' = mixed \cup (IF Busy(id) \/ content[id] = n THEN {id} ELSE {})
  /\ Enter(w, "re_put", id, n, content[id])
  /\ UNCHANGED <<content, idx, default, minted>>

RenamePut(w) ==
  /\ task[w].pc = "re_put" /\ Quiet
  /\ content' = Put(content, task[w].id, task[w].name)
  /\ Goto(w, "re_name")
  /\ UNCHANGED <<idx, default, minted, mixed>>

RenameName(w) ==
  /\ task[w].pc = "re_name" /\ Quiet
  /\ idx' = Put(idx, task[w].name, task[w].id)
  /\ Goto(w, "re_unname")
  /\ UNCHANGED <<content, default, minted, mixed>>

(* Fault: the old name stays.                                              *)
RenameKeepsOld(w) ==
  /\ task[w].pc = "re_unname" /\ Quiet
  /\ Finish(w)
  /\ UNCHANGED <<content, idx, default, minted, mixed>>

RenameUnname(w) ==
  /\ task[w].pc = "re_unname" /\ Quiet
  /\ idx' = Without(idx, {task[w].old})
  /\ Finish(w)
  /\ UNCHANGED <<content, default, minted, mixed>>

AgentRequest(w) ==
  \/ \E n \in Names : CreateAgent(w, n)
  \/ \E id \in 1..minted :
       UpdateAgent(w, id) \/ DeleteAgent(w, id) \/ \E n \in Names : RenameAgent(w, id, n)

AgentStep(w) ==
  \/ AgentExists(w) \/ UpsertLoad(w) \/ UpsertUnname(w) \/ UpsertPut(w) \/ UpsertName(w)
  \/ DeleteUnname(w) \/ DeleteContent(w)
  \/ RenamePut(w) \/ RenameName(w) \/ RenameUnname(w)

-----------------------------------------------------------------------------
(* The event bus.  Each operation runs under its lock.                     *)

(* mirror: a task of its own for each write.                               *)
Erase(gone) ==
  /\ writes' = writes \cup {[op |-> "remove", id |-> i, sub |-> subs[i]] : i \in gone}
  /\ unsure' = unsure \cup {subs[i].serial : i \in
                 {i \in gone : \E m \in writes : m.op = "put" /\ m.id = i}}

(* subscribe_event checks that its agent exists ...                        *)
SubscribeEvent(w, id) ==
  /\ Begin(w)
  /\ id \in DOMAIN content
  /\ Enter(w, "subscribe", 0, Crab, Crab)
  /\ UNCHANGED <<subs, next_id, writes, fired, unsure>>

(* ... and subscribes.                                                     *)
Subscribe(w, source, once) ==
  LET sub == [source |-> source, once |-> once, serial |-> Len(fired) + 1]
  IN  /\ task[w].pc = "subscribe" /\ Quiet
      /\ subs' = Put(subs, next_id, sub)
      /\ next_id' = next_id + 1
      /\ writes' = writes \cup {[op |-> "put", id |-> next_id, sub |-> sub]}
      /\ fired' = Append(fired, [once |-> once, times |-> 0])
      /\ Finish(w)
      /\ UNCHANGED unsure

Unsubscribe(w, id) ==
  /\ Begin(w)
  /\ id \in DOMAIN subs
  /\ subs' = Without(subs, {id})
  /\ Erase({id})
  /\ UNCHANGED <<task, next_id, fired>>

Matching(source) == {i \in DOMAIN subs : subs[i].source = source}

Fire(ids) ==
  fired' = [s \in DOMAIN fired |-> IF \E i \in ids : subs[i].serial = s
                                   THEN [fired[s] EXCEPT !.times = @ + 1] ELSE fired[s]]

(* Fault: what fired once stays in the map.                                *)
PublishKeepsOnce(w, source) ==
  /\ Begin(w)
  /\ Fire(Matching(source))
  /\ Erase({i \in Matching(source) : subs[i].once})
  /\ UNCHANGED <<task, subs, next_id>>

(* Fault: what fired once is not erased from the store.                    *)
PublishNoErase(w, source) ==
  /\ Begin(w)
  /\ Fire(Matching(source))
  /\ subs' = Without(subs, {i \in Matching(source) : subs[i].once})
  /\ UNCHANGED <<task, next_id, writes, unsure>>

Publish(w, source) ==
  LET once == {i \in Matching(source) : subs[i].once}
  IN  /\ Begin(w)
      /\ Fire(Matching(source))
      /\ subs' = Without(subs, once)
      /\ Erase(once)
      /\ UNCHANGED <<task, next_id>>

BusStep(w) ==
  \/ \E id \in 1..minted : SubscribeEvent(w, id)
  \/ \E s \in Sources, once \in BOOLEAN : Subscribe(w, s, once)
  \/ \E id \in DOMAIN subs : Unsubscribe(w, id)
  \/ \E s \in Sources : Publish(w, s)

(* A mirror task writes, in any order; a failure is logged.                *)
Mirror(m) ==
  /\ writes' = writes \ {m}
  /\ \/ /\ stored' = IF m.op = "put" THEN Put(stored, m.id, m.sub) ELSE Without(stored, {m.id})
        /\ UNCHANGED unsure
     \/ unsure' = unsure \cup {m.sub.serial} /\ UNCHANGED stored
  /\ UNCHANGED <<agentVars, daemon, task, ops, crashes, subs, next_id, fired, mixed>>

-----------------------------------------------------------------------------
(* Start-up and crashes.                                                   *)

(* scaffold: an install without agents is given one, by upsert_agent ...   *)
BootScan ==
  /\ daemon = "scan"
  /\ IF idx # <<>> THEN daemon' = "load" /\ UNCHANGED minted
     ELSE daemon' = "crab" /\ minted' = minted + 1
  /\ UNCHANGED <<content, idx, default, task, ops, crashes, busVars, stored, mixed, unsure>>

BootContent ==
  /\ daemon = "crab" /\ daemon' = "name"
  /\ content' = Put(content, minted, Crab)
  /\ UNCHANGED <<idx, default, minted, task, ops, crashes, busVars, stored, mixed, unsure>>

BootName ==
  /\ daemon = "name" /\ daemon' = "default"
  /\ idx' = Put(idx, Crab, minted)
  /\ UNCHANGED <<content, default, minted, task, ops, crashes, busVars, stored, mixed, unsure>>

(* ... and it becomes the default.                                         *)
BootDefault ==
  /\ daemon = "default" /\ daemon' = "load"
  /\ default' = minted
  /\ UNCHANGED <<content, idx, minted, task, ops, crashes, busVars, stored, mixed, unsure>>

(* EventBus::load                                                          *)
BootLoad ==
  /\ daemon = "load" /\ daemon' = "up"
  /\ subs' = stored
  /\ next_id' = IF stored = <<>> THEN 1 ELSE Max(DOMAIN stored) + 1
  /\ UNCHANGED <<agentVars, task, ops, crashes, stored, writes, fired, mixed, unsure>>

Boot == BootScan \/ BootContent \/ BootName \/ BootDefault \/ BootLoad

(* What is stored is left; tasks and memory are gone.                      *)
Crash ==
  /\ crashes < MaxCrashes /\ crashes' = crashes + 1
  /\ daemon' = "scan"
  /\ mixed' = mixed \cup {id \in 1..minted : Busy(id)}
                    \cup (IF daemon = "name" THEN {minted} ELSE {})
  /\ unsure' = unsure \cup {m.sub.serial : m \in writes}
  /\ task' = [w \in Workers |-> Idle]
  /\ subs' = <<>> /\ next_id' = 1 /\ writes' = {}
  /\ UNCHANGED <<agentVars, ops, stored, fired>>

-----------------------------------------------------------------------------
Init ==
  /\ content = <<>> /\ idx = <<>> /\ default = 0 /\ minted = 0
  /\ daemon = "scan" /\ task = [w \in Workers |-> Idle]
  /\ ops = 0 /\ crashes = 0
  /\ subs = <<>> /\ next_id = 1 /\ stored = <<>> /\ writes = {} /\ fired = <<>>
  /\ mixed = {} /\ shared = {} /\ unsure = {}

AgentNext ==
  \E w \in Workers :
    /\ AgentRequest(w) \/ AgentStep(w)
    /\ UNCHANGED <<busVars, stored, unsure>>

BusNext ==
  \/ \E w \in Workers : BusStep(w) /\ UNCHANGED <<agentVars, stored, mixed>>
  \/ \E m \in writes : Mirror(m)

(* The history variable looks at the state every step leads to.            *)
Next ==
  /\ AgentNext \/ BusNext \/ Boot \/ Crash
  /\ shared' = shared \cup Shared'

Spec == Init /\ [][Next]_vars

-----------------------------------------------------------------------------
AgentTypes ==
  /\ DOMAIN content \subseteq 1..minted /\ Range(content) \subseteq Names
  /\ DOMAIN idx \subseteq Names /\ Range(idx) \subseteq 1..minted
  /\ default \in 0..minted /\ minted \in Nat

Points == {"idle", "exists", "upsert", "up_unname", "up_put", "up_name", "de_unname", "de_content",
           "re_put", "re_name", "re_unname", "subscribe"}

TaskTypes ==
  /\ daemon \in {"scan", "crab", "name", "default", "load", "up"}
  /\ task \in [Workers -> [pc : Points, id : 0..minted, name : Names, old : Names,
                           found : 0..minted]]
  /\ ops \in 0..MaxOps /\ crashes \in 0..MaxCrashes

BusTypes ==
  /\ \A f \in {subs, stored} :
       Range(f) \subseteq [source : Sources, once : BOOLEAN, serial : 1..Len(fired)]
  /\ \A i \in DOMAIN subs : i < next_id
  /\ fired \in Seq([once : BOOLEAN, times : Nat])

TypeOK ==
  /\ AgentTypes /\ TaskTypes /\ BusTypes
  /\ mixed \subseteq 1..minted /\ shared \subseteq 1..minted /\ unsure \subseteq 1..Len(fired)

(* An agent that no two requests touched at once, that shared no name and  *)
(* whose requests ran to their end is found by its name and by no other,   *)
(* and by none once it is deleted, whatever happened to the agents beside  *)
(* it.                                                                     *)
NamesReach == \A id \in (1..minted) \ (mixed \cup shared) :
  ~Busy(id) /\ ~(id = minted /\ daemon \in {"crab", "name"}) =>
    {n \in DOMAIN idx : idx[n] = id} = {content[i] : i \in DOMAIN content \cap {id}}

(* The types, no id of a subscription in use is given out again, and names *)
(* reach their agents.                                                     *)
CatalogInv == TypeOK /\ NamesReach

(* Once its writes are done, a subscription is stored if and only if the   *)
(* bus serves it, under the same id; what a restart recovers is what was   *)
(* subscribed.  Only writes that crossed, failed or were cut off can break *)
(* this.                                                                   *)
MirrorAgrees == daemon = "up" =>
  \A i \in DOMAIN subs \cup DOMAIN stored :
    LET sub == IF i \in DOMAIN subs THEN subs[i] ELSE stored[i]
    IN  \/ \E m \in writes : m.id = i
        \/ sub.serial \in unsure
        \/ i \in DOMAIN subs /\ i \in DOMAIN stored /\ subs[i] = stored[i]

(* A subscription made with once fires once, in all the lives of the       *)
(* daemon together, unless a crash came before its removal was written.    *)
OnceFiresOnce == \A s \in DOMAIN fired \ unsure : fired[s].once => fired[s].times <= 1
=============================================================================
