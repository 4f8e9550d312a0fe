----------------------------- MODULE McpPeers -----------------------------
(* The MCP subsystem: agents declare servers, identical configurations     *)
(* share one peer, a peer's process is started by the first tool call that *)
(* needs it and stopped by the reaper, and every party is a task of its    *)
(* own.  A worker is a Tokio task; pc[w] is the await, or the point between *)
(* two lock acquisitions, that it is at.  A configuration is named by its  *)
(* fingerprint.                                                            *)
EXTENDS Naturals, Sequences, FiniteSets, Functions

CONSTANTS
  Workers,      \* tasks: tool calls, reconnects, spawned jobs, the reaper
  Agents,
  Names,        \* names under which an agent declares its servers
  Fps,          \* fingerprints of the effective configurations
  MaxResolves   \* bound on the number of times agents are (re)registered

ASSUME SetsAssumption == Agents # {} /\ Names # {} /\ Fps # {}
ASSUME ResolvesAssumption == MaxResolves \in Nat

VARIABLES
  agent_mcps,  \* McpHarness: the names each agent declares, with the configuration
  spawned,     \* jobs handed to tokio::spawn that have not started
  resolves,    \* how many times an agent was resolved or forgotten
  by_owner,    \* (agent, name) -> fingerprint
  peers,       \* fingerprint -> PeerEntry
  gates,       \* how many gates were made; a gate is named by its number
  bridge,      \* fingerprint -> processes the bridge holds under that id
  pc, arg,     \* per worker: where it is, and what it works on
  cpc, gate,   \* per worker and fingerprint: its connect_peer, and the gate it cloned
  overlapped,  \* ghost: owners for which a job was spawned beside another one
  raced        \* ghost: fingerprints stopped while a connect or a call was under way

vars == <<agent_mcps, spawned, resolves, by_owner, peers, gates, bridge,
          pc, arg, cpc, gate, overlapped, raced>>

Owners == Agents \X Names
NoArg == [owner |-> CHOOSE o \in Owners : TRUE, fp |-> CHOOSE f \in Fps : TRUE,
          names |-> {}, fps |-> {}]

Statuses == {"connecting", "connected", "failed", "disconnected"}
PeerEntry == [status : Statuses, tools : BOOLEAN, refs : SUBSET Owners,
              used : {"never", "recently", "long ago"}, gate : Nat]

Put(f, k, v) == [x \in DOMAIN f \cup {k} |-> IF x = k THEN v ELSE f[x]]
Without(f, S) == Restrict(f, DOMAIN f \ S)

-----------------------------------------------------------------------------
(* Locks.  peers and by_owner are taken and released within one step,      *)
(* except where one is taken while the other is held; the bridge's lock is *)
(* held while the bridge waits for a server's answer.                      *)
PeersFree == \A w \in Workers : pc[w] # "rg_owner"
OwnersReadable == \A w \in Workers : pc[w] # "un_peers"
OwnersWritable == \A w \in Workers : pc[w] \notin {"un_peers", "ec_peers", "al_peers"}
BridgeFree == \A w \in Workers : pc[w] # "await"

(* The phases in which a connect_peer holds the gate it cloned.            *)
Gated == {"spawn", "push", "settle", "fail"}
GateFree(f, g) == \A v \in Workers : ~(cpc[v][f] \in Gated /\ gate[v][f] = g)

Goto(w, where) == pc' = [pc EXCEPT ![w] = where]
Finish(w) == Goto(w, "idle") /\ arg' = [arg EXCEPT ![w] = NoArg]

(* A spawned job for this owner has not finished with the indexes.         *)
JobFor(o) ==
  \/ \E j \in spawned : j.owner = o
  \/ \E w \in Workers : pc[w] \in {"rg_owner", "un_peers"} /\ arg[w].owner = o

(* A remove_server for this fingerprint is still to come.                  *)
Removing(f) == \E w \in Workers :
  \/ pc[w] \in {"stop", "rc_stop"} /\ arg[w].fp = f
  \/ pc[w] = "reap" /\ f \in arg[w].fps

Connecting(f) == \E w \in Workers : cpc[w][f] # "none"
Calling(f) == \E w \in Workers : pc[w] \in {"call", "await", "mark"} /\ arg[w].fp = f

-----------------------------------------------------------------------------
(* McpHarness: declarations become jobs.                                   *)

(* tokio::spawn: nothing orders the jobs.                                  *)
Spawn(jobs) ==
  /\ spawned' = spawned \cup jobs
  /\ overlapped' = overlapped \cup {o \in Owners : JobFor(o) /\ \E j \in jobs : j.owner = o}
  /\ resolves' = resolves + 1

Job(op, o, f) == [op |-> op, owner |-> o, fp |-> f, no |-> resolves]
Declared(a) == {o \in DOMAIN agent_mcps : o[1] = a}

(* Fault: declarations that disappeared are not unregistered.              *)
ResolveKeepsOld(a, config) ==
  /\ resolves < MaxResolves
  /\ agent_mcps' = [o \in (DOMAIN agent_mcps \ Declared(a)) \cup {<<a, n>> : n \in DOMAIN config} |->
                      IF o[1] = a THEN config[o[2]] ELSE agent_mcps[o]]
  /\ Spawn({Job("register", <<a, n>>, config[n]) : n \in DOMAIN config})

(* on_resolve_agent                                                        *)
Resolve(a, config) ==
  LET new == {<<a, n>> : n \in DOMAIN config}
  IN  /\ resolves < MaxResolves
      /\ agent_mcps' = [o \in (DOMAIN agent_mcps \ Declared(a)) \cup new |->
                          IF o \in new THEN config[o[2]] ELSE agent_mcps[o]]
      /\ Spawn({Job("unregister", o, agent_mcps[o]) : o \in Declared(a) \ new}
               \cup {Job("register", o, config[o[2]]) : o \in new})

(* on_forget_agent                                                         *)
Forget(a) ==
  /\ resolves < MaxResolves
  /\ Declared(a) # {}
  /\ agent_mcps' = Without(agent_mcps, Declared(a))
  /\ Spawn({Job("unregister", o, agent_mcps[o]) : o \in Declared(a)})

ResolveOrForget ==
  /\ \E a \in Agents :
       \/ \E ns \in SUBSET Names : \E config \in [ns -> Fps] : Resolve(a, config)
       \/ Forget(a)
  /\ UNCHANGED <<by_owner, peers, gates, bridge, pc, arg, cpc, gate>>

-----------------------------------------------------------------------------
(* McpHandler::register_for_agent                                          *)

(* The first lock: peers.                                                  *)
RegisterPeers(w, j) ==
  /\ pc[w] = "idle" /\ j.op = "register" /\ PeersFree
  /\ spawned' = spawned \ {j}
  /\ Goto(w, "rg_owner")
  /\ arg' = [arg EXCEPT ![w].owner = j.owner, ![w].fp = j.fp]
  /\ UNCHANGED <<agent_mcps, resolves, by_owner, peers, gates, bridge, cpc, gate, overlapped>>

(* What is left of the entries once owner o has dropped its claim on f.    *)
Released(o, f) ==
  IF f \notin DOMAIN peers THEN peers
  ELSE IF peers[f].refs = {o} THEN Without(peers, {f})
  ELSE [peers EXCEPT ![f].refs = @ \ {o}]

(* Fault: the claim on the configuration the owner had before stays.       *)
KeepPriorClaim(o, f) == peers

(* The prior claim of an owner that now declares f.                        *)
PriorDropped(o, f) ==
  IF o \in DOMAIN by_owner /\ by_owner[o] # f THEN Released(o, by_owner[o]) ELSE peers

Idle(o) == [status |-> "disconnected", tools |-> FALSE, refs |-> {o}, used |-> "never",
            gate |-> gates + 1]

(* The second lock, by_owner, and the body under both.                     *)
RegisterOwner(w) ==
  LET o == arg[w].owner
      f == arg[w].fp
      rest == PriorDropped(o, f)
      stale == DOMAIN peers \ DOMAIN rest
  IN  /\ pc[w] = "rg_owner" /\ OwnersWritable
      /\ by_owner' = Put(by_owner, o, f)
      /\ IF f \in DOMAIN rest
         THEN /\ peers' = [rest EXCEPT ![f].refs = @ \cup {o}]
              /\ UNCHANGED gates
         ELSE /\ peers' = Put(rest, f, Idle(o))
              /\ gates' = gates + 1
      /\ IF stale = {} THEN Finish(w)
         ELSE Goto(w, "stop") /\ arg' = [arg EXCEPT ![w] = [NoArg EXCEPT !.fp = by_owner[o]]]
      /\ UNCHANGED <<agent_mcps, spawned, resolves, bridge, cpc, gate, overlapped>>

(* McpHandler::unregister_for_agent, by_owner first.                       *)
UnregisterOwner(w, j) ==
  /\ pc[w] = "idle" /\ j.op = "unregister" /\ OwnersWritable
  /\ spawned' = spawned \ {j}
  /\ IF j.owner \notin DOMAIN by_owner THEN UNCHANGED <<by_owner, pc, arg>>
     ELSE /\ by_owner' = Without(by_owner, {j.owner})
          /\ Goto(w, "un_peers")
          /\ arg' = [arg EXCEPT ![w].owner = j.owner, ![w].fp = by_owner[j.owner]]
  /\ UNCHANGED <<agent_mcps, resolves, peers, gates, bridge, cpc, gate, overlapped>>

UnregisterPeers(w) ==
  LET f == arg[w].fp
  IN  /\ pc[w] = "un_peers" /\ PeersFree
      /\ peers' = Released(arg[w].owner, f)
      /\ IF DOMAIN peers' = DOMAIN peers THEN Finish(w)
         ELSE Goto(w, "stop") /\ arg' = [arg EXCEPT ![w] = [NoArg EXCEPT !.fp = f]]
      /\ UNCHANGED <<agent_mcps, spawned, resolves, by_owner, gates, bridge, cpc, gate, overlapped>>

(* McpBridge::remove_server; dropping a transport kills its process.       *)
RemoveServer(f) == BridgeFree /\ bridge' = [bridge EXCEPT ![f] = 0]

Stop(w) ==
  /\ pc[w] = "stop"
  /\ RemoveServer(arg[w].fp)
  /\ Finish(w)
  /\ UNCHANGED <<agent_mcps, spawned, resolves, by_owner, peers, gates, cpc, gate, overlapped>>

-----------------------------------------------------------------------------
(* McpHandler::connect_peer, one per worker and fingerprint.               *)

Connect(w, f, phase) == cpc' = [cpc EXCEPT ![w][f] = phase]

(* The entry's gate and configuration, cloned under the read lock.         *)
CloneGate(w, f) ==
  /\ cpc[w][f] = "start" /\ PeersFree
  /\ IF f \in DOMAIN peers
     THEN Connect(w, f, "gate") /\ gate' = [gate EXCEPT ![w][f] = peers[f].gate]
     ELSE Connect(w, f, "none") /\ UNCHANGED gate
  /\ UNCHANGED <<agent_mcps, spawned, resolves, by_owner, peers, gates, bridge, pc, arg, overlapped>>

(* Fault: the status is not looked at again under the gate.                *)
NotSettled(f) == TRUE

(* The re-check under the gate: nobody has brought the peer up meanwhile.  *)
StillNeeded(f) == peers[f].status \notin {"connected", "failed"}

(* The gate, and the section under the write lock that follows it.         *)
PassGate(w, f) ==
  /\ cpc[w][f] = "gate" /\ GateFree(f, gate[w][f]) /\ PeersFree
  /\ IF f \in DOMAIN peers /\ StillNeeded(f)
     THEN /\ Connect(w, f, "spawn")
          /\ peers' = [peers EXCEPT ![f].status = "connecting", ![f].tools = FALSE]
          /\ UNCHANGED gate
     ELSE Connect(w, f, "none") /\ gate' = [gate EXCEPT ![w][f] = 0] /\ UNCHANGED peers
  /\ UNCHANGED <<agent_mcps, spawned, resolves, by_owner, gates, bridge, pc, arg, overlapped>>

(* connect_one: the handshake and the listing of the tools succeed, or one *)
(* of them fails or is cut off by the timeout; then the process is killed. *)
Handshake(w, f) ==
  /\ cpc[w][f] = "spawn"
  /\ \E phase \in {"push", "fail"} : Connect(w, f, phase)
  /\ UNCHANGED <<agent_mcps, spawned, resolves, by_owner, peers, gates, bridge, pc, arg, gate, overlapped>>

(* register_peer waits for the bridge's lock, still under the timeout.     *)
PushPeer(w, f) ==
  /\ cpc[w][f] = "push"
  /\ \/ /\ BridgeFree
        /\ bridge' = [bridge EXCEPT ![f] = @ + 1]
        /\ Connect(w, f, "settle")
     \/ Connect(w, f, "fail") /\ UNCHANGED bridge
  /\ UNCHANGED <<agent_mcps, spawned, resolves, by_owner, peers, gates, pc, arg, gate, overlapped>>

(* The outcome is recorded in whatever entry now has the fingerprint.      *)
Settle(w, f) ==
  /\ cpc[w][f] \in {"settle", "fail"} /\ PeersFree
  /\ LET ok == cpc[w][f] = "settle"
     IN  peers' = IF f \notin DOMAIN peers THEN peers
                  ELSE [peers EXCEPT ![f].status = IF ok THEN "connected" ELSE "failed",
                                     ![f].tools = ok, ![f].used = "recently"]
  /\ Connect(w, f, "none")
  /\ gate' = [gate EXCEPT ![w][f] = 0]
  /\ UNCHANGED <<agent_mcps, spawned, resolves, by_owner, gates, bridge, pc, arg, overlapped>>

ConnectStep(w) == \E f \in Fps :
  CloneGate(w, f) \/ PassGate(w, f) \/ Handshake(w, f) \/ PushPeer(w, f) \/ Settle(w, f)

-----------------------------------------------------------------------------
(* A tool call: McpHarness::dispatch and dispatch_mcp.                     *)

(* The declared names, and the first lock of ensure_connected.             *)
Dispatch(w, a) ==
  /\ pc[w] = "idle" /\ OwnersReadable
  /\ Goto(w, "ec_peers")
  /\ arg' = [arg EXCEPT ![w].owner = <<a, CHOOSE n \in Names : TRUE>>,
                        ![w].names = {o[2] : o \in Declared(a)}]
  /\ UNCHANGED <<agent_mcps, spawned, resolves, by_owner, peers, gates, bridge, cpc, gate, overlapped>>

(* The peers behind the names an agent had when it called.                 *)
Named(w) == {by_owner[o] : o \in {o \in DOMAIN by_owner :
                                    o[1] = arg[w].owner[1] /\ o[2] \in arg[w].names}}
            \cap DOMAIN peers

(* ensure_connected, second lock: the peers to bring up, all at once.      *)
EnsureConnected(w) ==
  LET pending == {f \in Named(w) : peers[f].status \in {"disconnected", "connecting"}}
  IN  /\ pc[w] = "ec_peers" /\ PeersFree
      /\ Goto(w, "join")
      /\ cpc' = [cpc EXCEPT ![w] = [f \in Fps |-> IF f \in pending THEN "start" ELSE "none"]]
      /\ UNCHANGED <<agent_mcps, spawned, resolves, by_owner, peers, gates, bridge, arg, gate, overlapped>>

Joined(w) == \A f \in Fps : cpc[w][f] = "none"

(* All connects are over, whatever came of them: allowed, first lock.      *)
AllowedOwners(w) ==
  /\ pc[w] = "join" /\ Joined(w) /\ OwnersReadable
  /\ Goto(w, "al_peers")
  /\ UNCHANGED <<agent_mcps, spawned, resolves, by_owner, peers, gates, bridge, arg, cpc, gate, overlapped>>

(* allowed, second lock: a tool of one of the peers, the list of tools, or *)
(* "tool not available".                                                   *)
Allowed(w) ==
  /\ pc[w] = "al_peers" /\ PeersFree
  /\ \/ \E f \in {f \in Named(w) : peers[f].tools} :
          Goto(w, "touch") /\ arg' = [arg EXCEPT ![w] = [NoArg EXCEPT !.fp = f]]
     \/ Goto(w, "list") /\ UNCHANGED arg
     \/ Finish(w)
  /\ UNCHANGED <<agent_mcps, spawned, resolves, by_owner, peers, gates, bridge, cpc, gate, overlapped>>

(* McpBridge::tools_for                                                    *)
ListTools(w) ==
  /\ pc[w] = "list" /\ BridgeFree
  /\ Finish(w)
  /\ UNCHANGED <<agent_mcps, spawned, resolves, by_owner, peers, gates, bridge, cpc, gate, overlapped>>

(* McpHandler::call notes the use before it goes to the bridge.            *)
Touch(w) ==
  /\ pc[w] = "touch" /\ PeersFree
  /\ Goto(w, "call")
  /\ peers' = IF arg[w].fp \in DOMAIN peers
              THEN [peers EXCEPT ![arg[w].fp].used = "recently"] ELSE peers
  /\ UNCHANGED <<agent_mcps, spawned, resolves, by_owner, gates, bridge, arg, cpc, gate, overlapped>>

(* McpBridge::call: rejected at once, or sent to the process.              *)
CallPeer(w) ==
  /\ pc[w] = "call" /\ BridgeFree
  /\ IF bridge[arg[w].fp] > 0 THEN Goto(w, "await") /\ UNCHANGED arg ELSE Finish(w)
  /\ UNCHANGED <<agent_mcps, spawned, resolves, by_owner, peers, gates, bridge, cpc, gate, overlapped>>

(* An answer, good or bad; or the transport breaks or times out.           *)
Answer(w) ==
  /\ pc[w] = "await"
  /\ Finish(w) \/ (Goto(w, "mark") /\ UNCHANGED arg)
  /\ UNCHANGED <<agent_mcps, spawned, resolves, by_owner, peers, gates, bridge, cpc, gate, overlapped>>

(* McpHandler::mark_failed; the tools stay.                                *)
MarkFailed(w) ==
  /\ pc[w] = "mark" /\ PeersFree
  /\ peers' = IF arg[w].fp \in DOMAIN peers
              THEN [peers EXCEPT ![arg[w].fp].status = "failed"] ELSE peers
  /\ Finish(w)
  /\ UNCHANGED <<agent_mcps, spawned, resolves, by_owner, gates, bridge, cpc, gate, overlapped>>

CallStep(w) ==
  \/ EnsureConnected(w) \/ AllowedOwners(w) \/ Allowed(w) \/ ListTools(w)
  \/ Touch(w) \/ CallPeer(w) \/ Answer(w) \/ MarkFailed(w)

(* The run is cancelled: the call's future is dropped at an await, and     *)
(* with it its connects, the gates they hold and the bridge's lock.        *)
DropCall(w) ==
  /\ \/ pc[w] \in {"list", "call", "await"}
     \/ /\ pc[w] = "join" /\ arg[w].names # {}
        /\ \A f \in Fps : cpc[w][f] \in {"none", "gate", "spawn", "push"}
  /\ Finish(w)
  /\ cpc' = [cpc EXCEPT ![w] = [f \in Fps |-> "none"]]
  /\ gate' = [gate EXCEPT ![w] = [f \in Fps |-> 0]]
  /\ UNCHANGED <<agent_mcps, spawned, resolves, by_owner, peers, gates, bridge, overlapped>>

-----------------------------------------------------------------------------
(* McpHandler::reconnect_for_agent                                         *)
Reconnect(w, o) ==
  /\ pc[w] = "idle" /\ OwnersReadable
  /\ o \in DOMAIN by_owner
  /\ Goto(w, "rc_idle")
  /\ arg' = [arg EXCEPT ![w].fp = by_owner[o]]
  /\ UNCHANGED <<agent_mcps, spawned, resolves, by_owner, peers, gates, bridge, cpc, gate, overlapped>>

(* The peer is marked as not running, so that connect_peer starts it.      *)
ReconnectIdle(w) ==
  LET f == arg[w].fp
  IN  /\ pc[w] = "rc_idle" /\ PeersFree
      /\ IF f \notin DOMAIN peers THEN Finish(w) /\ UNCHANGED peers
         ELSE /\ peers' = [peers EXCEPT ![f].status = "disconnected", ![f].tools = FALSE]
              /\ Goto(w, "rc_stop") /\ UNCHANGED arg
      /\ UNCHANGED <<agent_mcps, spawned, resolves, by_owner, gates, bridge, cpc, gate, overlapped>>

ReconnectStop(w) ==
  /\ pc[w] = "rc_stop"
  /\ RemoveServer(arg[w].fp)
  /\ Connect(w, arg[w].fp, "start")
  /\ Goto(w, "rc_join")
  /\ UNCHANGED <<agent_mcps, spawned, resolves, by_owner, peers, gates, arg, gate, overlapped>>

Reconnected(w) ==
  /\ pc[w] = "rc_join" /\ Joined(w)
  /\ Finish(w)
  /\ UNCHANGED <<agent_mcps, spawned, resolves, by_owner, peers, gates, bridge, cpc, gate, overlapped>>

-----------------------------------------------------------------------------
(* The reaper.  There is one task, and it sleeps between its rounds.       *)

(* Time passes: a peer's last use falls behind the idle timeout.           *)
Age(f) ==
  /\ f \in DOMAIN peers /\ peers[f].used = "recently" /\ PeersFree
  /\ peers' = [peers EXCEPT ![f].used = "long ago"]
  /\ UNCHANGED <<agent_mcps, spawned, resolves, by_owner, gates, bridge, pc, arg, cpc, gate, overlapped>>

Expired == {f \in DOMAIN peers : /\ peers[f].status \in {"connected", "failed"}
                                 /\ peers[f].used = "long ago"}

(* reap_idle under the write lock; nothing expired ends the round.         *)
Reap(w) ==
  /\ pc[w] = "idle" /\ PeersFree /\ Expired # {}
  /\ \A v \in Workers : pc[v] # "reap"
  /\ peers' = [f \in DOMAIN peers |->
                 IF f \in Expired
                 THEN [peers[f] EXCEPT !.status = "disconnected", !.tools = FALSE, !.used = "never"]
                 ELSE peers[f]]
  /\ Goto(w, "reap")
  /\ arg' = [arg EXCEPT ![w].fps = Expired]
  /\ UNCHANGED <<agent_mcps, spawned, resolves, by_owner, gates, bridge, cpc, gate, overlapped>>

(* The processes are stopped one after the other.                          *)
ReapStop(w) ==
  /\ pc[w] = "reap"
  /\ \E f \in arg[w].fps :
       /\ RemoveServer(f)
       /\ IF arg[w].fps = {f} THEN Finish(w)
          ELSE arg' = [arg EXCEPT ![w].fps = @ \ {f}] /\ UNCHANGED pc
  /\ UNCHANGED <<agent_mcps, spawned, resolves, by_owner, peers, gates, cpc, gate, overlapped>>

-----------------------------------------------------------------------------
Init ==
  /\ agent_mcps = <<>> /\ spawned = {} /\ resolves = 0
  /\ by_owner = <<>> /\ peers = <<>> /\ gates = 0
  /\ bridge = [f \in Fps |-> 0]
  /\ pc = [w \in Workers |-> "idle"]
  /\ arg = [w \in Workers |-> NoArg]
  /\ cpc = [w \in Workers |-> [f \in Fps |-> "none"]]
  /\ gate = [w \in Workers |-> [f \in Fps |-> 0]]
  /\ overlapped = {} /\ raced = {}

(* What a task does without being asked.                                   *)
Step(w) ==
  \/ RegisterOwner(w) \/ UnregisterPeers(w) \/ Stop(w)
  \/ ConnectStep(w) \/ CallStep(w)
  \/ ReconnectIdle(w) \/ ReconnectStop(w) \/ Reconnected(w)
  \/ ReapStop(w)

Start(w) ==
  \/ \E j \in spawned : RegisterPeers(w, j) \/ UnregisterOwner(w, j)
  \/ \E a \in Agents : Dispatch(w, a)
  \/ \E o \in Owners : Reconnect(w, o)
  \/ Reap(w)

(* The history variable looks at the state every step leads to.            *)
Observe == raced' = raced \cup {f \in Fps : (Removing(f) /\ (Connecting(f) \/ Calling(f)))'}

Next ==
  /\ \/ ResolveOrForget
     \/ \E w \in Workers : Start(w) \/ Step(w) \/ DropCall(w)
     \/ \E f \in Fps : Age(f)
  /\ Observe

Spec == Init /\ [][Next]_vars

-----------------------------------------------------------------------------
HarnessTypes ==
  /\ DOMAIN agent_mcps \subseteq Owners /\ \A o \in DOMAIN agent_mcps : agent_mcps[o] \in Fps
  /\ spawned \subseteq [op : {"register", "unregister"}, owner : Owners, fp : Fps, no : Nat]
  /\ resolves \in Nat /\ overlapped \subseteq Owners

IndexTypes ==
  /\ DOMAIN by_owner \subseteq Owners /\ \A o \in DOMAIN by_owner : by_owner[o] \in Fps
  /\ DOMAIN peers \subseteq Fps /\ \A f \in DOMAIN peers : peers[f] \in PeerEntry
  /\ gates \in Nat /\ bridge \in [Fps -> Nat]

Locations == {"idle", "rg_owner", "un_peers", "stop", "ec_peers", "join", "al_peers", "list",
              "touch", "call", "await", "mark", "rc_idle", "rc_stop", "rc_join", "reap"}

TaskTypes ==
  /\ pc \in [Workers -> Locations]
  /\ arg \in [Workers -> [owner : Owners, fp : Fps, names : SUBSET Names, fps : SUBSET Fps]]
  /\ cpc \in [Workers -> [Fps -> {"none", "start", "gate"} \cup Gated]]
  /\ gate \in [Workers -> [Fps -> Nat]]

TypeOK == HarnessTypes /\ IndexTypes /\ TaskTypes /\ raced \subseteq Fps

OwnersAgree ==
  LET leaving == {arg[w].owner : w \in {w \in Workers : pc[w] = "un_peers"}}
  IN  /\ \A o \in DOMAIN by_owner : /\ by_owner[o] \in DOMAIN peers
                                    /\ o \in peers[by_owner[o]].refs
      /\ \A f \in DOMAIN peers : \A o \in peers[f].refs :
           \/ o \in DOMAIN by_owner /\ by_owner[o] = f
           \/ o \in leaving

(* Outside unregister's two sections, an owner's fingerprint leads to an   *)
(* entry that counts it, and an entry counts no one else: a peer is never  *)
(* kept, and never dropped, on account of a stale claim.                   *)
PeersInv == TypeOK /\ OwnersAgree

(* When nobody works on a peer, its status tells the truth about its       *)
(* process: connected is exactly one, disconnected or undeclared none, and *)
(* failed is something the reaper will come to.  The one thing that can    *)
(* break this is a stop of the peer that overlaps a connect or a call.     *)
SettledPeers == \A f \in Fps \ raced :
  ~Removing(f) /\ ~Connecting(f) =>
    IF f \notin DOMAIN peers THEN bridge[f] = 0
    ELSE CASE peers[f].status = "connected" -> bridge[f] = 1
           [] peers[f].status = "failed" -> bridge[f] <= 1 /\ peers[f].used # "never"
           [] OTHER -> bridge[f] = 0

(* When the jobs for an owner are done, what the handler has for it is     *)
(* what its agent declares, provided no two jobs for it were outstanding   *)
(* at once: their order is the scheduler's.                                *)
DeclarationsMatch == \A o \in Owners \ overlapped :
  ~JobFor(o) =>
    /\ o \in DOMAIN by_owner <=> o \in DOMAIN agent_mcps
    /\ o \in DOMAIN by_owner => by_owner[o] = agent_mcps[o]
=============================================================================
