--------------------------- MODULE McpPeersProofs ---------------------------
(***************************************************************************)
(* For every set of tasks, agents, names and configurations: the types of  *)
(* the MCP handler; its two indexes count the same claims; what is         *)
(* registered is what is declared; and the status of a peer tells the      *)
(* truth about its process.                                                *)
(***************************************************************************)
EXTENDS McpPeers, TLAPS

(* Who may be counted by the entry of f: an owner that the index files     *)
(* under f, or one whose unregistration has left the index and is on its   *)
(* way to the entry.                                                       *)
Entitled(o, f) ==
  \/ o \in DOMAIN by_owner /\ by_owner[o] = f
  \/ \E w \in Workers : pc[w] = "un_peers" /\ arg[w].owner = o /\ arg[w].fp = f

ClaimsCounted == \A o \in DOMAIN by_owner :
  by_owner[o] \in DOMAIN peers /\ o \in peers[by_owner[o]].refs

ClaimsEntitled == \A f \in DOMAIN peers : \A o \in peers[f].refs : Entitled(o, f)

(* The second section of unregister holds by_owner for itself.             *)
LeavesAlone == \A w \in Workers : pc[w] = "un_peers" =>
  /\ arg[w].owner \notin DOMAIN by_owner
  /\ \A v \in Workers \ {w} : pc[v] # "un_peers"

(* Connects belong to the calls and reconnects that wait for them.         *)
ConnectsJoined == \A w \in Workers : pc[w] \notin {"join", "rc_join"} => Joined(w)

(* Jobs of an owner that never had two at once: there is one at most, and  *)
(* it is for what the agent declares now.                                  *)
Working(w, o) == pc[w] \in {"rg_owner", "un_peers"} /\ arg[w].owner = o

JobsCurrent(o) ==
  /\ \A j \in spawned : j.owner = o =>
       /\ \A k \in spawned : k.owner = o => k = j
       /\ \A w \in Workers : ~Working(w, o)
       /\ j.op = "register" => o \in DOMAIN agent_mcps /\ agent_mcps[o] = j.fp
       /\ j.op = "unregister" => o \notin DOMAIN agent_mcps
  /\ \A w \in Workers : Working(w, o) =>
       /\ \A v \in Workers : Working(v, o) => v = w
       /\ pc[w] = "rg_owner" => o \in DOMAIN agent_mcps /\ agent_mcps[o] = arg[w].fp
       /\ pc[w] = "un_peers" => o \notin DOMAIN agent_mcps
  /\ ~JobFor(o) =>
       /\ o \in DOMAIN by_owner <=> o \in DOMAIN agent_mcps
       /\ o \in DOMAIN by_owner => by_owner[o] = agent_mcps[o]

(* A peer that was never stopped beside a connect or a call.  Its gate is  *)
(* the one that everybody who connects it has cloned, so one of them at a  *)
(* time is past it; where that one is, or else the entry's status, says    *)
(* what the bridge holds.                                                  *)
Untroubled(f) ==
  Removing(f) => /\ ~Connecting(f) /\ ~Calling(f)
                 /\ f \in DOMAIN peers => peers[f].status = "disconnected"

OneGate(f) ==
  /\ \A w \in Workers : cpc[w][f] \in {"gate"} \cup Gated =>
       f \in DOMAIN peers /\ gate[w][f] = peers[f].gate
  /\ \A w, v \in Workers : cpc[w][f] \in Gated /\ cpc[v][f] \in Gated => w = v

InGate(f) == \A w \in Workers :
  /\ cpc[w][f] \in {"spawn", "push", "fail"} => peers[f].status = "connecting" /\ bridge[f] = 0
  /\ cpc[w][f] = "settle" => peers[f].status \in {"connecting", "failed"} /\ bridge[f] = 1

CallsHaveProcess(f) == \A w \in Workers :
  pc[w] \in {"await", "mark"} /\ arg[w].fp = f => bridge[f] > 0

StatusTrue(f) ==
  ~Removing(f) /\ (\A w \in Workers : cpc[w][f] \notin Gated) =>
    /\ f \notin DOMAIN peers => bridge[f] = 0
    /\ f \in DOMAIN peers =>
         CASE peers[f].status = "connected" -> bridge[f] = 1 /\ peers[f].used # "never"
           [] peers[f].status = "failed" -> bridge[f] <= 1 /\ peers[f].used # "never"
           [] OTHER -> bridge[f] = 0

Sound(f) == Untroubled(f) /\ OneGate(f) /\ InGate(f) /\ CallsHaveProcess(f) /\ StatusTrue(f)

(* The inductive invariant.                                                *)
IInv == TypeOK /\ ClaimsCounted /\ ClaimsEntitled /\ LeavesAlone /\ ConnectsJoined
Declarations == \A o \in Owners \ overlapped : JobsCurrent(o)
Truth == \A f \in Fps \ raced : Sound(f)
-----------------------------------------------------------------------------
(* Types                                                                   *)

Args == [owner : Owners, fp : Fps, names : SUBSET Names, fps : SUBSET Fps]
Phases == {"none", "start", "gate"} \cup Gated

LEMMA NoArgType == NoArg \in Args
<1> DEFINE o1 == CHOOSE o \in Owners : TRUE
           f1 == CHOOSE f \in Fps : TRUE
<1>1. o1 \in Owners
  <2>1. PICK a \in Agents, n \in Names : TRUE
    BY SetsAssumption
  <2>2. <<a, n>> \in Owners
    BY <2>1 DEF Owners
  <2> QED
    BY <2>2
<1>2. f1 \in Fps
  BY SetsAssumption
<1>3. NoArg = [owner |-> o1, fp |-> f1, names |-> {}, fps |-> {}]
  BY DEF NoArg
<1> HIDE DEF o1, f1
<1> QED
  BY <1>1, <1>2, <1>3 DEF Args

(* Everything but the history variable, which every step extends.          *)
Types == HarnessTypes /\ IndexTypes /\ TaskTypes

LEMMA SpawnTypes ==
  ASSUME HarnessTypes, NEW jobs, Spawn(jobs),
         jobs \subseteq [op : {"register", "unregister"}, owner : Owners, fp : Fps, no : Nat]
  PROVE  /\ spawned' \subseteq [op : {"register", "unregister"}, owner : Owners, fp : Fps, no : Nat]
         /\ resolves' \in Nat /\ overlapped' \subseteq Owners
BY DEF Spawn, HarnessTypes

LEMMA ResolveTypes ==
  ASSUME Types, ResolveOrForget PROVE Types'
<1>1. IndexTypes' /\ TaskTypes'
  BY DEF ResolveOrForget, Types, IndexTypes, TaskTypes
<1>2. PICK a \in Agents : (\E ns \in SUBSET Names : \E config \in [ns -> Fps] : Resolve(a, config))
                          \/ Forget(a)
  BY DEF ResolveOrForget
<1>3. ASSUME NEW ns \in SUBSET Names, NEW config \in [ns -> Fps], Resolve(a, config)
      PROVE  HarnessTypes'
  <2> DEFINE new == {<<a, n>> : n \in DOMAIN config}
             jobs == {Job("unregister", o, agent_mcps[o]) : o \in Declared(a) \ new}
                     \cup {Job("register", o, config[o[2]]) : o \in new}
  <2>1. /\ DOMAIN agent_mcps' \subseteq Owners
        /\ \A o \in DOMAIN agent_mcps' : agent_mcps'[o] \in Fps
    BY <1>3 DEF Resolve, Types, HarnessTypes, Owners, Declared
  <2>2. jobs \subseteq [op : {"register", "unregister"}, owner : Owners, fp : Fps, no : Nat]
    BY DEF Job, Types, HarnessTypes, Owners, Declared
  <2>3. Spawn(jobs)
    BY <1>3 DEF Resolve
  <2> QED
    BY <2>1, <2>2, <2>3, SpawnTypes DEF HarnessTypes, Types
<1>4. ASSUME Forget(a)
      PROVE  HarnessTypes'
  <2> DEFINE jobs == {Job("unregister", o, agent_mcps[o]) : o \in Declared(a)}
  <2>1. /\ DOMAIN agent_mcps' \subseteq Owners
        /\ \A o \in DOMAIN agent_mcps' : agent_mcps'[o] \in Fps
    BY <1>4 DEF Forget, Types, HarnessTypes, Without, Restrict
  <2>2. jobs \subseteq [op : {"register", "unregister"}, owner : Owners, fp : Fps, no : Nat]
    BY DEF Job, Types, HarnessTypes, Declared
  <2>3. Spawn(jobs)
    BY <1>4 DEF Forget
  <2> QED
    BY <2>1, <2>2, <2>3, SpawnTypes DEF HarnessTypes, Types
<1> QED
  BY <1>1, <1>2, <1>3, <1>4 DEF Types

(* A task moves on, with a new argument or its old one.                    *)
LEMMA GotoTypes ==
  ASSUME TaskTypes, NEW w \in Workers, NEW p \in Locations, Goto(w, p), UNCHANGED <<cpc, gate>>,
         arg' = arg \/ \E a \in Args : arg' = [arg EXCEPT ![w] = a]
  PROVE  TaskTypes'
BY DEF TaskTypes, Goto, Args

LEMMA FinishTypes ==
  ASSUME TaskTypes, NEW w \in Workers, Finish(w), UNCHANGED <<cpc, gate>>
  PROVE  TaskTypes'
BY NoArgType, GotoTypes DEF Finish, Locations

(* A task takes up an owner and a configuration.                           *)
LEMMA WorkOnTypes ==
  ASSUME TaskTypes, NEW w \in Workers, NEW p \in Locations, Goto(w, p), UNCHANGED <<cpc, gate>>,
         NEW o \in Owners, NEW f \in Fps, arg' = [arg EXCEPT ![w].owner = o, ![w].fp = f]
  PROVE  TaskTypes'
<1> DEFINE a == [arg[w] EXCEPT !.owner = o, !.fp = f]
<1>1. a \in Args
  BY DEF TaskTypes, Args
<1>2. arg' = [arg EXCEPT ![w] = a]
  BY DEF TaskTypes
<1> QED
  BY <1>1, <1>2, GotoTypes

LEMMA RegisterPeersTypes ==
  ASSUME Types, NEW w \in Workers, NEW j \in spawned, RegisterPeers(w, j)
  PROVE  Types'
<1>1. HarnessTypes' /\ IndexTypes'
  BY DEF Types, HarnessTypes, IndexTypes, RegisterPeers
<1>2. j.owner \in Owners /\ j.fp \in Fps
  BY DEF Types, HarnessTypes
<1>3. TaskTypes'
  BY <1>2, WorkOnTypes DEF RegisterPeers, Locations, Types
<1> QED
  BY <1>1, <1>3 DEF Types

LEMMA UnregisterOwnerTypes ==
  ASSUME Types, NEW w \in Workers, NEW j \in spawned, UnregisterOwner(w, j)
  PROVE  Types'
<1>1. HarnessTypes' /\ IndexTypes'
  BY DEF Types, HarnessTypes, IndexTypes, UnregisterOwner, Without, Restrict
<1>2. TaskTypes'
  <2>1. CASE j.owner \in DOMAIN by_owner
    <3>1. j.owner \in Owners /\ by_owner[j.owner] \in Fps
      BY <2>1 DEF Types, HarnessTypes, IndexTypes
    <3> QED
      BY <2>1, <3>1, WorkOnTypes DEF UnregisterOwner, Locations, Types
  <2>2. CASE j.owner \notin DOMAIN by_owner
    BY <2>2 DEF UnregisterOwner, Types, TaskTypes
  <2> QED
    BY <2>1, <2>2
<1> QED
  BY <1>1, <1>2 DEF Types

(* Dropping a claim leaves entries of the right type.                      *)
LEMMA ReleasedTypes ==
  ASSUME IndexTypes, NEW o \in Owners, NEW f \in Fps
  PROVE  /\ DOMAIN Released(o, f) \subseteq DOMAIN peers
         /\ \A g \in DOMAIN Released(o, f) : Released(o, f)[g] \in PeerEntry
BY DEF IndexTypes, Released, Without, Restrict, PeerEntry

(* A task that has dropped an entry goes on to stop the process.           *)
LEMMA ToStopTypes ==
  ASSUME TaskTypes, NEW w \in Workers, NEW f \in Fps, Goto(w, "stop"), UNCHANGED <<cpc, gate>>,
         arg' = [arg EXCEPT ![w] = [NoArg EXCEPT !.fp = f]]
  PROVE  TaskTypes'
<1>1. [NoArg EXCEPT !.fp = f] \in Args
  BY NoArgType DEF Args
<1> QED
  BY <1>1, GotoTypes DEF Locations

LEMMA RegisterOwnerTypes ==
  ASSUME Types, NEW w \in Workers, RegisterOwner(w)
  PROVE  Types'
<1> DEFINE o == arg[w].owner
           f == arg[w].fp
           rest == PriorDropped(o, f)
<1>1. o \in Owners /\ f \in Fps
  BY DEF Types, TaskTypes
<1>2. DOMAIN rest \subseteq Fps /\ \A g \in DOMAIN rest : rest[g] \in PeerEntry
  <2>1. CASE o \in DOMAIN by_owner /\ by_owner[o] # f
    <3>1. rest = Released(o, by_owner[o]) /\ by_owner[o] \in Fps
      BY <2>1 DEF PriorDropped, Types, IndexTypes
    <3> QED
      BY <1>1, <3>1, ReleasedTypes DEF Types, IndexTypes
  <2>2. CASE ~(o \in DOMAIN by_owner /\ by_owner[o] # f)
    BY <2>2 DEF PriorDropped, Types, IndexTypes
  <2> QED
    BY <2>1, <2>2
<1>3. Idle(o) \in PeerEntry /\ gates + 1 \in Nat
  <2>1. gates + 1 \in Nat
    BY DEF Types, IndexTypes
  <2> QED
    BY <1>1, <2>1, Zenon DEF Idle, PeerEntry, Statuses
<1>4. /\ by_owner' = Put(by_owner, o, f)
      /\ \/ f \in DOMAIN rest /\ peers' = [rest EXCEPT ![f].refs = @ \cup {o}] /\ gates' = gates
         \/ f \notin DOMAIN rest /\ peers' = Put(rest, f, Idle(o)) /\ gates' = gates + 1
      /\ bridge' = bridge
  BY DEF RegisterOwner
<1>5. HarnessTypes'
  BY DEF RegisterOwner, Types, HarnessTypes
<1>6. TaskTypes'
  <2>1. CASE Finish(w)
    BY <2>1, FinishTypes DEF RegisterOwner, Types
  <2>2. CASE ~Finish(w)
    <3>1. o \in DOMAIN by_owner
      BY <2>2 DEF RegisterOwner, PriorDropped
    <3>2. by_owner[o] \in Fps
      BY <3>1 DEF Types, IndexTypes
    <3> QED
      BY <2>2, <3>2, ToStopTypes DEF RegisterOwner, Types
  <2> QED
    BY <2>1, <2>2
<1> HIDE DEF o, f, rest
<1>7. IndexTypes'
  <2>1. DOMAIN by_owner' \subseteq Owners /\ \A x \in DOMAIN by_owner' : by_owner'[x] \in Fps
    BY <1>1, <1>4 DEF Types, IndexTypes, Put
  <2>2. DOMAIN peers' \subseteq Fps /\ \A g \in DOMAIN peers' : peers'[g] \in PeerEntry
    <3>1. CASE f \in DOMAIN rest
      <4>1. [rest[f] EXCEPT !.refs = @ \cup {o}] \in PeerEntry
        BY <1>1, <1>2, <3>1 DEF PeerEntry
      <4> QED
        BY <1>2, <1>4, <3>1, <4>1
    <3>2. CASE f \notin DOMAIN rest
      BY <1>1, <1>2, <1>3, <1>4, <3>2 DEF Put
    <3> QED
      BY <3>1, <3>2
  <2> QED
    BY <1>3, <1>4, <2>1, <2>2 DEF Types, IndexTypes
<1> QED
  BY <1>5, <1>6, <1>7 DEF Types

LEMMA UnregisterPeersTypes ==
  ASSUME Types, NEW w \in Workers, UnregisterPeers(w)
  PROVE  Types'
<1>1. arg[w].owner \in Owners /\ arg[w].fp \in Fps
  BY DEF Types, TaskTypes
<1>2. HarnessTypes'
  BY DEF UnregisterPeers, Types, HarnessTypes
<1>3. IndexTypes'
  BY <1>1, ReleasedTypes DEF UnregisterPeers, Types, IndexTypes
<1>4. TaskTypes'
  BY <1>1, FinishTypes, ToStopTypes DEF UnregisterPeers, Types
<1> QED
  BY <1>2, <1>3, <1>4 DEF Types

LEMMA StopTypes ==
  ASSUME Types, NEW w \in Workers, Stop(w) PROVE Types'
<1>1. TaskTypes'
  BY FinishTypes DEF Stop, Types
<1>2. HarnessTypes' /\ IndexTypes'
  BY DEF Stop, RemoveServer, Types, HarnessTypes, IndexTypes
<1> QED
  BY <1>1, <1>2 DEF Types

(* A function of two arguments, changed at one point.                      *)
LEMMA PointUpdate ==
  ASSUME NEW A, NEW B, NEW S, NEW h \in [A -> [B -> S]], NEW a \in A, NEW b \in B, NEW s \in S
  PROVE  /\ [h EXCEPT ![a][b] = s] \in [A -> [B -> S]]
         /\ [h EXCEPT ![a][b] = s][a][b] = s
         /\ \A x \in A, y \in B : <<x, y>> # <<a, b>> => [h EXCEPT ![a][b] = s][x][y] = h[x][y]
OBVIOUS

LEMMA ConnectTypes ==
  ASSUME Types, NEW w \in Workers, NEW f \in Fps,
         CloneGate(w, f) \/ PassGate(w, f) \/ Handshake(w, f) \/ PushPeer(w, f) \/ Settle(w, f)
  PROVE  Types'
<1>1. HarnessTypes'
  BY DEF Types, HarnessTypes, CloneGate, PassGate, Handshake, PushPeer, Settle
<1>2. IndexTypes'
  <2>1. CASE CloneGate(w, f) \/ Handshake(w, f)
    BY <2>1 DEF Types, IndexTypes, CloneGate, Handshake
  <2>2. CASE PushPeer(w, f)
    BY <2>2 DEF Types, IndexTypes, PushPeer
  <2>3. CASE PassGate(w, f)
    <3>1. ASSUME f \in DOMAIN peers
          PROVE  [peers[f] EXCEPT !.status = "connecting", !.tools = FALSE] \in PeerEntry
      BY <3>1 DEF Types, IndexTypes, PeerEntry, Statuses
    <3> QED
      BY <2>3, <3>1 DEF Types, IndexTypes, PassGate
  <2>4. CASE Settle(w, f)
    <3>1. ASSUME NEW ok \in BOOLEAN, f \in DOMAIN peers
          PROVE  [peers[f] EXCEPT !.status = IF ok THEN "connected" ELSE "failed",
                                  !.tools = ok, !.used = "recently"] \in PeerEntry
      <4>1. CASE ok = TRUE
        BY <3>1, <4>1 DEF Types, IndexTypes, PeerEntry, Statuses
      <4>2. CASE ok = FALSE
        BY <3>1, <4>2 DEF Types, IndexTypes, PeerEntry, Statuses
      <4> QED
        BY <4>1, <4>2
    <3> QED
      BY <2>4, <3>1 DEF Types, IndexTypes, Settle
  <2> QED
    BY <2>1, <2>2, <2>3, <2>4
<1>3. /\ pc' = pc /\ arg' = arg
      /\ \E p \in Phases : cpc' = [cpc EXCEPT ![w][f] = p]
  BY DEF CloneGate, PassGate, Handshake, PushPeer, Settle, Connect, Phases, Gated
<1>4. gate' = gate \/ \E g \in Nat : gate' = [gate EXCEPT ![w][f] = g]
  <2>1. f \in DOMAIN peers => peers[f].gate \in Nat
    BY DEF Types, IndexTypes, PeerEntry
  <2> QED
    BY <2>1 DEF CloneGate, PassGate, Handshake, PushPeer, Settle
<1>5. cpc' \in [Workers -> [Fps -> Phases]]
  <2>1. PICK p \in Phases : cpc' = [cpc EXCEPT ![w][f] = p]
    BY <1>3
  <2>2. cpc \in [Workers -> [Fps -> Phases]]
    BY DEF Types, TaskTypes, Phases
  <2> QED
    BY <2>1, <2>2, PointUpdate
<1>6. gate' \in [Workers -> [Fps -> Nat]]
  <2>1. gate \in [Workers -> [Fps -> Nat]]
    BY DEF Types, TaskTypes
  <2>2. CASE gate' # gate
    <3>1. PICK g \in Nat : gate' = [gate EXCEPT ![w][f] = g]
      BY <1>4, <2>2
    <3> QED
      BY <2>1, <3>1, PointUpdate
  <2> QED
    BY <2>1, <2>2
<1>7. TaskTypes'
  BY <1>3, <1>5, <1>6 DEF Types, TaskTypes, Phases
<1> QED
  BY <1>1, <1>2, <1>7 DEF Types

LEMMA DispatchTypes ==
  ASSUME Types, NEW w \in Workers, NEW a \in Agents, Dispatch(w, a)
  PROVE  Types'
<1>1. HarnessTypes' /\ IndexTypes'
  BY DEF Dispatch, Types, HarnessTypes, IndexTypes
<1> DEFINE o == <<a, CHOOSE n \in Names : TRUE>>
           ns == {d[2] : d \in Declared(a)}
           b == [arg[w] EXCEPT !.owner = o, !.names = ns]
<1>2. o \in Owners /\ ns \subseteq Names
  <2>1. (CHOOSE n \in Names : TRUE) \in Names
    BY SetsAssumption
  <2>2. o \in Owners
    BY <2>1 DEF Owners
  <2>3. \A d \in Declared(a) : d \in Agents \X Names
    BY DEF Owners, Types, HarnessTypes, Declared
  <2> QED
    BY <2>2, <2>3
<1>3. arg' = [arg EXCEPT ![w] = b]
  <2>1. arg' = [arg EXCEPT ![w].owner = o, ![w].names = ns]
    BY Zenon DEF Dispatch
  <2> HIDE DEF o, ns
  <2> QED
    BY <2>1 DEF Types, TaskTypes
<1> HIDE DEF o, ns
<1>4. b \in Args
  BY <1>2 DEF Types, TaskTypes, Args
<1>5. TaskTypes'
  BY <1>3, <1>4, GotoTypes DEF Dispatch, Types, Locations
<1> QED
  BY <1>1, <1>5 DEF Types

LEMMA EnsureConnectedTypes ==
  ASSUME Types, NEW w \in Workers, EnsureConnected(w)
  PROVE  Types'
<1>1. HarnessTypes' /\ IndexTypes'
  BY DEF EnsureConnected, Types, HarnessTypes, IndexTypes
<1>2. TaskTypes'
  BY DEF EnsureConnected, Types, TaskTypes, Goto, Locations
<1> QED
  BY <1>1, <1>2 DEF Types

LEMMA CallTypes ==
  ASSUME Types, NEW w \in Workers,
         AllowedOwners(w) \/ Allowed(w) \/ ListTools(w) \/ CallPeer(w) \/ Answer(w)
  PROVE  Types'
<1>1. HarnessTypes' /\ IndexTypes'
  BY DEF AllowedOwners, Allowed, ListTools, CallPeer, Answer, Types, HarnessTypes, IndexTypes
<1>2. UNCHANGED <<cpc, gate>>
  BY DEF AllowedOwners, Allowed, ListTools, CallPeer, Answer
<1>3. \/ Finish(w)
      \/ \E p \in Locations : Goto(w, p) /\ arg' = arg
      \/ \E f \in Fps : Goto(w, "touch") /\ arg' = [arg EXCEPT ![w] = [NoArg EXCEPT !.fp = f]]
  <2>1. Named(w) \subseteq Fps
    BY DEF Named, Types, IndexTypes
  <2> QED
    BY <2>1 DEF AllowedOwners, Allowed, ListTools, CallPeer, Answer, Locations
<1>4. TaskTypes'
  <2>1. \A f \in Fps : [NoArg EXCEPT !.fp = f] \in Args
    BY NoArgType DEF Args
  <2> QED
    BY <1>2, <1>3, <2>1, FinishTypes, GotoTypes DEF Types, Locations
<1> QED
  BY <1>1, <1>4 DEF Types

LEMMA TouchTypes ==
  ASSUME Types, NEW w \in Workers, Touch(w) \/ MarkFailed(w)
  PROVE  Types'
<1>1. HarnessTypes'
  BY DEF Touch, MarkFailed, Types, HarnessTypes
<1>2. IndexTypes'
  <2>1. ASSUME NEW f \in DOMAIN peers
        PROVE  /\ [peers[f] EXCEPT !.used = "recently"] \in PeerEntry
               /\ [peers[f] EXCEPT !.status = "failed"] \in PeerEntry
    BY DEF Types, IndexTypes, PeerEntry, Statuses
  <2> QED
    BY <2>1 DEF Touch, MarkFailed, Types, IndexTypes
<1>3. TaskTypes'
  BY FinishTypes, GotoTypes DEF Touch, MarkFailed, Types, Locations
<1> QED
  BY <1>1, <1>2, <1>3 DEF Types

LEMMA DropCallTypes ==
  ASSUME Types, NEW w \in Workers, DropCall(w)
  PROVE  Types'
<1>1. HarnessTypes' /\ IndexTypes'
  BY DEF DropCall, Types, HarnessTypes, IndexTypes
<1>2. TaskTypes'
  BY NoArgType DEF DropCall, Finish, Goto, Types, TaskTypes, Locations, Args
<1> QED
  BY <1>1, <1>2 DEF Types

LEMMA ReconnectTypes ==
  ASSUME Types, NEW w \in Workers,
         (\E o \in Owners : Reconnect(w, o)) \/ ReconnectIdle(w) \/ ReconnectStop(w) \/ Reconnected(w)
  PROVE  Types'
<1>1. HarnessTypes'
  BY DEF Reconnect, ReconnectIdle, ReconnectStop, Reconnected, Types, HarnessTypes
<1>2. IndexTypes'
  <2>1. ASSUME NEW f \in DOMAIN peers
        PROVE  [peers[f] EXCEPT !.status = "disconnected", !.tools = FALSE] \in PeerEntry
    BY DEF Types, IndexTypes, PeerEntry, Statuses
  <2> QED
    <3>1. CASE (\E o \in Owners : Reconnect(w, o)) \/ Reconnected(w)
      BY <3>1 DEF Reconnect, Reconnected, Types, IndexTypes
    <3>2. CASE ReconnectIdle(w)
      BY <2>1, <3>2 DEF ReconnectIdle, Types, IndexTypes
    <3>3. CASE ReconnectStop(w)
      BY <3>3 DEF ReconnectStop, RemoveServer, Types, IndexTypes
    <3> QED
      BY <3>1, <3>2, <3>3
<1>3. TaskTypes'
  <2>1. CASE \E o \in Owners : Reconnect(w, o)
    <3>1. PICK f \in Fps : arg' = [arg EXCEPT ![w].fp = f]
      BY <2>1 DEF Reconnect, Types, IndexTypes
    <3>2. [arg[w] EXCEPT !.fp = f] \in Args
      BY DEF Types, TaskTypes, Args
    <3>3. arg' = [arg EXCEPT ![w] = [arg[w] EXCEPT !.fp = f]]
      BY <3>1 DEF Types, TaskTypes
    <3> QED
      BY <2>1, <3>2, <3>3, GotoTypes DEF Reconnect, Types, Locations
  <2>2. CASE ReconnectIdle(w) \/ Reconnected(w)
    BY <2>2, FinishTypes, GotoTypes DEF ReconnectIdle, Reconnected, Types, Locations
  <2>3. CASE ReconnectStop(w)
    <3>1. arg[w].fp \in Fps
      BY DEF Types, TaskTypes
    <3>2. cpc' \in [Workers -> [Fps -> Phases]]
      BY <2>3, <3>1, PointUpdate DEF ReconnectStop, Connect, Types, TaskTypes, Phases
    <3> QED
      BY <2>3, <3>2 DEF ReconnectStop, Goto, Types, TaskTypes, Locations, Phases
  <2> QED
    BY <2>1, <2>2, <2>3
<1> QED
  BY <1>1, <1>2, <1>3 DEF Types

LEMMA ReapTypes ==
  ASSUME Types, NEW w \in Workers, Reap(w) \/ ReapStop(w)
  PROVE  Types'
<1>1. HarnessTypes'
  BY DEF Reap, ReapStop, Types, HarnessTypes
<1>2. IndexTypes'
  <2>1. ASSUME NEW f \in DOMAIN peers
        PROVE  [peers[f] EXCEPT !.status = "disconnected", !.tools = FALSE, !.used = "never"] \in PeerEntry
    BY DEF Types, IndexTypes, PeerEntry, Statuses
  <2> QED
    <3>1. CASE Reap(w)
      BY <2>1, <3>1 DEF Reap, Types, IndexTypes
    <3>2. CASE ReapStop(w)
      <4>1. PICK f : bridge' = [bridge EXCEPT ![f] = 0]
        BY <3>2 DEF ReapStop, RemoveServer
      <4>2. UNCHANGED <<by_owner, peers, gates>>
        BY <3>2 DEF ReapStop
      <4> QED
        BY <4>1, <4>2 DEF Types, IndexTypes
    <3> QED
      BY <3>1, <3>2
<1>3. TaskTypes'
  <2>1. \A S \in SUBSET Fps : [arg[w] EXCEPT !.fps = S] \in Args
    BY DEF Types, TaskTypes, Args
  <2>2. CASE Reap(w)
    <3>1. Expired \in SUBSET Fps
      BY DEF Expired, Types, IndexTypes
    <3>2. arg' = [arg EXCEPT ![w] = [arg[w] EXCEPT !.fps = Expired]]
      BY <2>2 DEF Reap, Types, TaskTypes
    <3> QED
      BY <2>1, <2>2, <3>1, <3>2, GotoTypes DEF Reap, Types, Locations
  <2>3. CASE ReapStop(w)
    <3>1. CASE Finish(w)
      BY <2>3, <3>1, FinishTypes DEF ReapStop, Types
    <3>2. CASE ~Finish(w)
      <4>1. PICK S \in SUBSET Fps : arg' = [arg EXCEPT ![w] = [arg[w] EXCEPT !.fps = S]]
        <5>1. PICK f \in arg[w].fps : arg' = [arg EXCEPT ![w].fps = @ \ {f}]
          BY <2>3, <3>2 DEF ReapStop
        <5>2. arg' = [arg EXCEPT ![w] = [arg[w] EXCEPT !.fps = arg[w].fps \ {f}]]
          BY <5>1 DEF Types, TaskTypes
        <5>3. arg[w].fps \ {f} \in SUBSET Fps
          BY DEF Types, TaskTypes
        <5> QED
          BY <5>2, <5>3
      <4>2. pc' = pc /\ cpc' = cpc /\ gate' = gate
        BY <2>3, <3>2 DEF ReapStop
      <4> QED
        BY <2>1, <4>1, <4>2 DEF Types, TaskTypes, Args
    <3> QED
      BY <3>1, <3>2
  <2> QED
    BY <2>2, <2>3
<1> QED
  BY <1>1, <1>2, <1>3 DEF Types

LEMMA AgeTypes ==
  ASSUME Types, NEW f \in Fps, Age(f)
  PROVE  Types'
<1>1. [peers[f] EXCEPT !.used = "long ago"] \in PeerEntry
  BY DEF Age, Types, IndexTypes, PeerEntry
<1> QED
  BY <1>1 DEF Age, Types, HarnessTypes, IndexTypes, TaskTypes
-----------------------------------------------------------------------------
(* What a step leaves alone                                                *)

(* A task changes nothing of what another one has of its own.              *)
OnlyMoves(w) == \A v \in Workers \ {w} :
  pc'[v] = pc[v] /\ arg'[v] = arg[v] /\ cpc'[v] = cpc[v] /\ gate'[v] = gate[v]

Quiet(w) ==
  \/ Stop(w) \/ ConnectStep(w) \/ CallStep(w) \/ DropCall(w)
  \/ (\E a \in Agents : Dispatch(w, a))
  \/ (\E o \in Owners : Reconnect(w, o))
  \/ ReconnectIdle(w) \/ ReconnectStop(w) \/ Reconnected(w)
  \/ Reap(w) \/ ReapStop(w)

Busy(w) == RegisterOwner(w) \/ UnregisterPeers(w)
           \/ \E j \in spawned : RegisterPeers(w, j) \/ UnregisterOwner(w, j)

LEMMA NextCases ==
  ASSUME Next
  PROVE  \/ ResolveOrForget
         \/ \E w \in Workers : Quiet(w) \/ Busy(w)
         \/ \E f \in Fps : Age(f)
BY DEF Next, Start, Step, Quiet, Busy

LEMMA GotoMoves ==
  ASSUME TaskTypes, NEW w \in Workers, NEW p, Goto(w, p),
         arg' = arg \/ \E a : arg' = [arg EXCEPT ![w] = a]
  PROVE  /\ \A v \in Workers \ {w} : pc'[v] = pc[v] /\ arg'[v] = arg[v]
         /\ pc'[w] = p
BY DEF TaskTypes, Goto

LEMMA FinishMoves ==
  ASSUME TaskTypes, NEW w \in Workers, Finish(w)
  PROVE  /\ \A v \in Workers \ {w} : pc'[v] = pc[v] /\ arg'[v] = arg[v]
         /\ pc'[w] = "idle"
BY GotoMoves DEF Finish

LEMMA ConnectMoves ==
  ASSUME Types, NEW w \in Workers, ConnectStep(w)
  PROVE  OnlyMoves(w)
<1>1. PICK f \in Fps : \/ CloneGate(w, f) \/ PassGate(w, f) \/ Handshake(w, f)
                       \/ PushPeer(w, f) \/ Settle(w, f)
  BY DEF ConnectStep
<1>2. /\ pc' = pc /\ arg' = arg
      /\ \E p : cpc' = [cpc EXCEPT ![w][f] = p]
      /\ gate' = gate \/ \E g : gate' = [gate EXCEPT ![w][f] = g]
  BY <1>1 DEF CloneGate, PassGate, Handshake, PushPeer, Settle, Connect
<1> QED
  BY <1>2 DEF OnlyMoves, Types, TaskTypes

LEMMA CallMoves ==
  ASSUME Types, NEW w \in Workers, CallStep(w)
  PROVE  OnlyMoves(w)
<1>1. gate' = gate /\ \A v \in Workers \ {w} : cpc'[v] = cpc[v]
  BY DEF CallStep, EnsureConnected, AllowedOwners, Allowed, ListTools, Touch, CallPeer, Answer,
         MarkFailed, Types, TaskTypes
<1>2. Finish(w) \/ \E p : Goto(w, p) /\ (arg' = arg \/ \E a : arg' = [arg EXCEPT ![w] = a])
  BY DEF CallStep, EnsureConnected, AllowedOwners, Allowed, ListTools, Touch, CallPeer, Answer,
         MarkFailed
<1> QED
  BY <1>1, <1>2, GotoMoves, FinishMoves DEF OnlyMoves, Types

LEMMA QuietMoves ==
  ASSUME Types, NEW w \in Workers, Quiet(w)
  PROVE  OnlyMoves(w)
<1>1. CASE Stop(w) \/ Reconnected(w)
  BY <1>1, FinishMoves DEF Stop, Reconnected, Types, OnlyMoves
<1>2. CASE DropCall(w)
  <2>1. \A v \in Workers \ {w} : cpc'[v] = cpc[v] /\ gate'[v] = gate[v]
    BY <1>2 DEF DropCall, Types, TaskTypes
  <2> QED
    BY <1>2, <2>1, FinishMoves DEF DropCall, Types, OnlyMoves
<1>3. CASE \E a \in Agents : Dispatch(w, a)
  <2>1. PICK a \in Agents : Dispatch(w, a)
    BY <1>3
  <2> DEFINE o == <<a, CHOOSE n \in Names : TRUE>>
             ns == {d[2] : d \in Declared(a)}
  <2>2. arg' = [arg EXCEPT ![w].owner = o, ![w].names = ns]
    BY <2>1, Zenon DEF Dispatch
  <2>3. pc' = [pc EXCEPT ![w] = "ec_peers"] /\ cpc' = cpc /\ gate' = gate
    BY <2>1 DEF Dispatch, Goto
  <2> HIDE DEF o, ns
  <2> QED
    BY <2>2, <2>3 DEF OnlyMoves, Types, TaskTypes
<1>4. CASE \E o \in Owners : Reconnect(w, o)
  BY <1>4 DEF Reconnect, Goto, OnlyMoves, Types, TaskTypes
<1>5. CASE ReconnectIdle(w)
  BY <1>5, FinishMoves, GotoMoves DEF ReconnectIdle, Types, OnlyMoves
<1>6. CASE ReconnectStop(w)
  BY <1>6 DEF ReconnectStop, Goto, Connect, Types, TaskTypes, OnlyMoves
<1>7. CASE Reap(w)
  BY <1>7 DEF Reap, Goto, OnlyMoves, Types, TaskTypes
<1>8. CASE ReapStop(w)
  <2>1. cpc' = cpc /\ gate' = gate
    BY <1>8 DEF ReapStop
  <2>2. Finish(w) \/ (pc' = pc /\ \E f : arg' = [arg EXCEPT ![w].fps = @ \ {f}])
    BY <1>8 DEF ReapStop
  <2> QED
    BY <2>1, <2>2, FinishMoves DEF Types, TaskTypes, OnlyMoves
<1> QED
  BY <1>1, <1>2, <1>3, <1>4, <1>5, <1>6, <1>7, <1>8, ConnectMoves, CallMoves DEF Quiet

(* Steps that are no part of a registration: they leave the indexes, the   *)
(* claims and the jobs as they are.                                        *)
JobPoints == {"rg_owner", "un_peers"}

Elsewhere ==
  /\ UNCHANGED <<agent_mcps, spawned, by_owner, overlapped>>
  /\ DOMAIN peers' = DOMAIN peers
  /\ \A f \in DOMAIN peers : peers'[f].refs = peers[f].refs /\ peers'[f].gate = peers[f].gate
  /\ \A v \in Workers : \/ pc'[v] = pc[v] /\ arg'[v] = arg[v]
                        \/ pc[v] \notin JobPoints /\ pc'[v] \notin JobPoints

LEMMA QuietJobs ==
  ASSUME Types, NEW w \in Workers, Quiet(w)
  PROVE  UNCHANGED <<agent_mcps, spawned, by_owner, gates, overlapped>>
BY DEF Quiet, Stop, ConnectStep, CallStep, DropCall, Dispatch, Reconnect, ReconnectIdle,
       ReconnectStop, Reconnected, Reap, ReapStop, CloneGate, PassGate, Handshake, PushPeer, Settle,
       EnsureConnected, AllowedOwners, Allowed, ListTools, Touch, CallPeer, Answer, MarkFailed

LEMMA QuietPoints ==
  ASSUME Types, NEW w \in Workers, Quiet(w)
  PROVE  (pc'[w] = pc[w] /\ arg'[w] = arg[w]) \/ (pc[w] \notin JobPoints /\ pc'[w] \notin JobPoints)
<1>1. CASE Stop(w) \/ Reconnected(w)
  BY <1>1, FinishMoves DEF Stop, Reconnected, Types, JobPoints
<1>2. CASE DropCall(w)
  BY <1>2, FinishMoves DEF DropCall, Types, JobPoints
<1>3. CASE (\E a \in Agents : Dispatch(w, a)) \/ (\E o \in Owners : Reconnect(w, o))
  BY <1>3 DEF Dispatch, Reconnect, Goto, Types, TaskTypes, JobPoints
<1>4. CASE ReconnectIdle(w) \/ ReconnectStop(w)
  BY <1>4, FinishMoves DEF ReconnectIdle, ReconnectStop, Goto, Types, TaskTypes, JobPoints
<1>5. CASE Reap(w) \/ ReapStop(w)
  BY <1>5, FinishMoves DEF Reap, ReapStop, Goto, Types, TaskTypes, JobPoints
<1>6. CASE ConnectStep(w)
  BY <1>6 DEF ConnectStep, CloneGate, PassGate, Handshake, PushPeer, Settle
<1>7. CASE CallStep(w)
  BY <1>7, FinishMoves DEF CallStep, EnsureConnected, AllowedOwners, Allowed, ListTools, Touch,
     CallPeer, Answer, MarkFailed, Goto, Types, TaskTypes, JobPoints
<1> QED
  BY <1>1, <1>2, <1>3, <1>4, <1>5, <1>6, <1>7 DEF Quiet

(* The entries keep their claims and their gates.                          *)
SameClaims ==
  /\ DOMAIN peers' = DOMAIN peers
  /\ \A f \in DOMAIN peers : peers'[f].refs = peers[f].refs /\ peers'[f].gate = peers[f].gate

(* The fields of an entry after a change of its status.                    *)
Revised(f, e) ==
  /\ DOMAIN peers' = DOMAIN peers
  /\ \A g \in DOMAIN peers \ {f} : peers'[g] = peers[g]
  /\ f \in DOMAIN peers =>
       /\ peers'[f].status = e.status /\ peers'[f].used = e.used
       /\ peers'[f].refs = peers[f].refs /\ peers'[f].gate = peers[f].gate

LEMMA StatusRevised ==
  ASSUME IndexTypes, NEW f \in DOMAIN peers, NEW s, NEW t,
         peers' = [peers EXCEPT ![f].status = s, ![f].tools = t]
  PROVE  Revised(f, [status |-> s, used |-> peers[f].used])
<1>1. peers[f] \in PeerEntry
  BY DEF IndexTypes
<1> DEFINE e1 == [peers[f] EXCEPT !.status = s]
           e == [e1 EXCEPT !.tools = t]
<1>2. DOMAIN peers[f] = {"status", "tools", "refs", "used", "gate"}
  BY <1>1 DEF PeerEntry
<1>3. /\ e1.status = s /\ e1.used = peers[f].used /\ e1.refs = peers[f].refs
      /\ e1.gate = peers[f].gate /\ DOMAIN e1 = DOMAIN peers[f]
  BY <1>2
<1>4. /\ e.status = s /\ e.used = peers[f].used /\ e.refs = peers[f].refs
      /\ e.gate = peers[f].gate
  <2> HIDE DEF e1
  <2> QED
    BY <1>2, <1>3
<1>5. peers' = [peers EXCEPT ![f] = e]
  OBVIOUS
<1> HIDE DEF e
<1> QED
  BY <1>4, <1>5 DEF Revised

LEMMA OutcomeRevised ==
  ASSUME IndexTypes, NEW f \in DOMAIN peers, NEW s, NEW t, NEW u,
         peers' = [peers EXCEPT ![f].status = s, ![f].tools = t, ![f].used = u]
  PROVE  Revised(f, [status |-> s, used |-> u])
<1>1. peers[f] \in PeerEntry
  BY DEF IndexTypes
<1> DEFINE e1 == [peers[f] EXCEPT !.status = s]
           e2 == [e1 EXCEPT !.tools = t]
           e == [e2 EXCEPT !.used = u]
<1>2. DOMAIN peers[f] = {"status", "tools", "refs", "used", "gate"}
  BY <1>1 DEF PeerEntry
<1>3. /\ e1.status = s /\ e1.refs = peers[f].refs
      /\ e1.gate = peers[f].gate /\ DOMAIN e1 = DOMAIN peers[f]
  BY <1>2
<1>4. /\ e2.status = s /\ e2.refs = peers[f].refs
      /\ e2.gate = peers[f].gate /\ DOMAIN e2 = DOMAIN peers[f]
  <2> HIDE DEF e1
  <2> QED
    BY <1>2, <1>3
<1>5. e.status = s /\ e.used = u /\ e.refs = peers[f].refs /\ e.gate = peers[f].gate
  <2> HIDE DEF e2
  <2> QED
    BY <1>2, <1>4
<1>6. peers' = [peers EXCEPT ![f] = e]
  OBVIOUS
<1> HIDE DEF e
<1> QED
  BY <1>5, <1>6 DEF Revised

LEMMA FieldRevised ==
  ASSUME IndexTypes, NEW f \in DOMAIN peers, NEW x,
         \/ peers' = [peers EXCEPT ![f].status = x]
         \/ peers' = [peers EXCEPT ![f].used = x]
  PROVE  \/ /\ peers' = [peers EXCEPT ![f].status = x]
            /\ Revised(f, [status |-> x, used |-> peers[f].used])
         \/ /\ peers' = [peers EXCEPT ![f].used = x]
            /\ Revised(f, [status |-> peers[f].status, used |-> x])
<1>1. peers[f] \in PeerEntry
  BY DEF IndexTypes
<1>2. DOMAIN peers[f] = {"status", "tools", "refs", "used", "gate"}
  BY <1>1 DEF PeerEntry
<1>3. CASE peers' = [peers EXCEPT ![f].status = x]
  BY <1>2, <1>3 DEF Revised
<1>4. CASE peers' = [peers EXCEPT ![f].used = x]
  BY <1>2, <1>4 DEF Revised
<1> QED
  BY <1>3, <1>4

LEMMA ReapedRevised ==
  ASSUME IndexTypes, NEW f \in DOMAIN peers,
         peers'[f] = [peers[f] EXCEPT !.status = "disconnected", !.tools = FALSE, !.used = "never"]
  PROVE  /\ peers'[f].status = "disconnected" /\ peers'[f].used = "never"
         /\ peers'[f].refs = peers[f].refs /\ peers'[f].gate = peers[f].gate
<1>1. peers[f] \in PeerEntry
  BY DEF IndexTypes
<1>2. DOMAIN peers[f] = {"status", "tools", "refs", "used", "gate"}
  BY <1>1 DEF PeerEntry
<1> QED
  BY <1>2

LEMMA SettleRevised ==
  ASSUME Types, NEW w \in Workers, NEW f \in Fps, Settle(w, f)
  PROVE  Revised(f, [status |-> IF cpc[w][f] = "settle" THEN "connected" ELSE "failed",
                     used |-> "recently"])
<1>1. CASE f \notin DOMAIN peers
  BY <1>1 DEF Settle, Revised
<1>2. CASE f \in DOMAIN peers
  <2> DEFINE ok == cpc[w][f] = "settle"
             s == IF ok THEN "connected" ELSE "failed"
  <2>1. peers' = [peers EXCEPT ![f].status = s, ![f].tools = ok, ![f].used = "recently"]
    BY <1>2, Zenon DEF Settle
  <2> HIDE DEF s, ok
  <2>2. Revised(f, [status |-> s, used |-> "recently"])
    BY <1>2, <2>1, OutcomeRevised DEF Types
  <2> QED
    BY <2>2 DEF s, ok
<1> QED
  BY <1>1, <1>2

LEMMA PassGateRevised ==
  ASSUME Types, NEW w \in Workers, NEW f \in Fps, PassGate(w, f)
  PROVE  \/ /\ f \in DOMAIN peers /\ StillNeeded(f)
            /\ Connect(w, f, "spawn") /\ gate' = gate
            /\ Revised(f, [status |-> "connecting", used |-> peers[f].used])
         \/ /\ ~(f \in DOMAIN peers /\ StillNeeded(f))
            /\ Connect(w, f, "none") /\ gate' = [gate EXCEPT ![w][f] = 0]
            /\ peers' = peers
<1>1. CASE f \in DOMAIN peers /\ StillNeeded(f)
  <2>1. peers' = [peers EXCEPT ![f].status = "connecting", ![f].tools = FALSE]
    BY <1>1, Zenon DEF PassGate
  <2>2. Revised(f, [status |-> "connecting", used |-> peers[f].used])
    BY <1>1, <2>1, StatusRevised DEF Types
  <2> QED
    BY <1>1, <2>2 DEF PassGate
<1>2. CASE ~(f \in DOMAIN peers /\ StillNeeded(f))
  BY <1>2, Zenon DEF PassGate
<1> QED
  BY <1>1, <1>2

LEMMA QuietClaims ==
  ASSUME Types, NEW w \in Workers, Quiet(w)
  PROVE  SameClaims
<1>1. CASE peers' = peers
  BY <1>1 DEF SameClaims
<1>2. CASE \E f \in Fps : PassGate(w, f)
  BY <1>1, <1>2, PassGateRevised DEF SameClaims, Revised
<1>3. CASE \E f \in Fps : Settle(w, f)
  BY <1>3, SettleRevised DEF SameClaims, Revised
<1>4. CASE Touch(w)
  BY <1>1, <1>4, FieldRevised DEF Touch, SameClaims, Revised, Types
<1>5. CASE MarkFailed(w)
  BY <1>1, <1>5, FieldRevised DEF MarkFailed, SameClaims, Revised, Types
<1>6. CASE ReconnectIdle(w)
  BY <1>1, <1>6, StatusRevised DEF ReconnectIdle, SameClaims, Revised, Types
<1>7. CASE Reap(w)
  BY <1>7, ReapedRevised DEF Reap, SameClaims, Types
<1>8. \/ peers' = peers \/ (\E f \in Fps : PassGate(w, f)) \/ (\E f \in Fps : Settle(w, f))
      \/ Touch(w) \/ MarkFailed(w) \/ ReconnectIdle(w) \/ Reap(w)
  BY DEF Quiet, Stop, ConnectStep, CallStep, DropCall, Dispatch, Reconnect,
         ReconnectStop, Reconnected, ReapStop, CloneGate, Handshake, PushPeer,
         EnsureConnected, AllowedOwners, Allowed, ListTools, CallPeer, Answer
<1> QED
  BY <1>1, <1>2, <1>3, <1>4, <1>5, <1>6, <1>7, <1>8

LEMMA QuietElsewhere ==
  ASSUME Types, NEW w \in Workers, Quiet(w)
  PROVE  Elsewhere
BY QuietJobs, QuietPoints, QuietClaims, QuietMoves DEF Elsewhere, SameClaims, OnlyMoves

LEMMA AgeElsewhere ==
  ASSUME Types, NEW f \in Fps, Age(f)
  PROVE  Elsewhere
<1>1. \A g \in DOMAIN peers : peers[g] \in PeerEntry
  BY DEF Types, IndexTypes
<1> QED
  BY <1>1 DEF Age, Elsewhere, PeerEntry
-----------------------------------------------------------------------------
(* The claims                                                              *)

SameEntry(e, d) == e.status = d.status /\ e.used = d.used /\ e.gate = d.gate

(* Released drops one claim, and the entry with its last one.              *)
Last(o, f) == f \in DOMAIN peers /\ peers[f].refs = {o}

LEMMA ReleasedEntries ==
  ASSUME IndexTypes, NEW o \in Owners, NEW f \in Fps
  PROVE  /\ \A g : g \in DOMAIN Released(o, f) <=> g \in DOMAIN peers /\ ~(g = f /\ Last(o, f))
         /\ \A g \in DOMAIN Released(o, f) :
              /\ SameEntry(Released(o, f)[g], peers[g])
              /\ Released(o, f)[g].refs = IF g = f THEN peers[g].refs \ {o} ELSE peers[g].refs
<1>1. CASE f \notin DOMAIN peers
  BY <1>1 DEF Released, Last, SameEntry
<1>2. CASE f \in DOMAIN peers /\ peers[f].refs = {o}
  BY <1>2 DEF Released, Last, SameEntry, Without, Restrict
<1>3. CASE f \in DOMAIN peers /\ peers[f].refs # {o}
  <2>1. Released(o, f) = [peers EXCEPT ![f].refs = @ \ {o}]
    BY <1>3 DEF Released
  <2>2. DOMAIN peers[f] = {"status", "tools", "refs", "used", "gate"}
    BY <1>3 DEF IndexTypes, PeerEntry
  <2> QED
    BY <1>3, <2>1, <2>2 DEF Last, SameEntry
<1> QED
  BY <1>1, <1>2, <1>3

(* What a registration does to the entries: the claim on the owner's       *)
(* earlier configuration goes, and the new one's entry counts it.          *)
Moved(o, f, p) == o \in DOMAIN by_owner /\ by_owner[o] = p /\ p # f

LEMMA RegisterOwnerEntries ==
  ASSUME Types, NEW w \in Workers, NEW o, NEW f, o = arg[w].owner, f = arg[w].fp, RegisterOwner(w)
  PROVE  /\ o \in Owners /\ f \in Fps /\ by_owner' = Put(by_owner, o, f)
         /\ f \in DOMAIN peers'
         /\ peers'[f].refs = {o} \cup (IF f \in DOMAIN peers THEN peers[f].refs ELSE {})
         /\ f \in DOMAIN peers => SameEntry(peers'[f], peers[f])
         /\ f \notin DOMAIN peers => peers'[f].status = "disconnected"
         /\ \A g \in Fps \ {f} :
              g \in DOMAIN peers' <=> g \in DOMAIN peers /\ ~(Moved(o, f, g) /\ Last(o, g))
         /\ \A g \in DOMAIN peers' \ {f} :
              /\ SameEntry(peers'[g], peers[g])
              /\ peers'[g].refs = IF Moved(o, f, g) THEN peers[g].refs \ {o} ELSE peers[g].refs
<1> DEFINE rest == PriorDropped(o, f)
<1>1. o \in Owners /\ f \in Fps
  BY DEF Types, TaskTypes
<1>2. /\ \A g : g \in DOMAIN rest <=> g \in DOMAIN peers /\ ~(Moved(o, f, g) /\ Last(o, g))
      /\ \A g \in DOMAIN rest :
           /\ SameEntry(rest[g], peers[g])
           /\ rest[g].refs = IF Moved(o, f, g) THEN peers[g].refs \ {o} ELSE peers[g].refs
  <2>1. CASE o \in DOMAIN by_owner /\ by_owner[o] # f
    <3>1. rest = Released(o, by_owner[o]) /\ by_owner[o] \in Fps
      BY <2>1 DEF PriorDropped, Types, IndexTypes
    <3>2. \A g : Moved(o, f, g) <=> g = by_owner[o]
      BY <2>1 DEF Moved
    <3>3. PICK p \in Fps : p = by_owner[o]
      BY <3>1
    <3>4. /\ \A g : g \in DOMAIN Released(o, p) <=> g \in DOMAIN peers /\ ~(g = p /\ Last(o, p))
          /\ \A g \in DOMAIN Released(o, p) :
               /\ SameEntry(Released(o, p)[g], peers[g])
               /\ Released(o, p)[g].refs = IF g = p THEN peers[g].refs \ {o} ELSE peers[g].refs
      BY <1>1, ReleasedEntries DEF Types
    <3>5. rest = Released(o, p) /\ \A g : Moved(o, f, g) <=> g = p
      BY <3>1, <3>2, <3>3
    <3> HIDE DEF rest
    <3> QED
      BY <3>4, <3>5
  <2>2. CASE ~(o \in DOMAIN by_owner /\ by_owner[o] # f)
    BY <2>2 DEF PriorDropped, Moved, SameEntry
  <2> QED
    BY <2>1, <2>2
<1>3. ~Moved(o, f, f)
  BY DEF Moved
<1>4. /\ by_owner' = Put(by_owner, o, f)
      /\ \/ f \in DOMAIN rest /\ peers' = [rest EXCEPT ![f].refs = @ \cup {o}]
         \/ f \notin DOMAIN rest /\ peers' = Put(rest, f, Idle(o))
  BY DEF RegisterOwner
<1>5. \A g \in DOMAIN rest : DOMAIN rest[g] = {"status", "tools", "refs", "used", "gate"}
  <2>1. \A g \in DOMAIN rest : rest[g] \in PeerEntry
    <3>1. CASE o \in DOMAIN by_owner /\ by_owner[o] # f
      <4>1. rest = Released(o, by_owner[o]) /\ by_owner[o] \in Fps
        BY <3>1 DEF PriorDropped, Types, IndexTypes
      <4> QED
        BY <1>1, <4>1, ReleasedTypes DEF Types
    <3>2. CASE ~(o \in DOMAIN by_owner /\ by_owner[o] # f)
      BY <3>2 DEF PriorDropped, Types, IndexTypes
    <3> QED
      BY <3>1, <3>2
  <2> QED
    BY <2>1 DEF PeerEntry
<1> HIDE DEF rest
<1>6. CASE f \in DOMAIN rest
  <2>1. peers' = [rest EXCEPT ![f] = [rest[f] EXCEPT !.refs = @ \cup {o}]]
    BY <1>4, <1>6
  <2>2. SameEntry(peers'[f], rest[f]) /\ peers'[f].refs = rest[f].refs \cup {o}
    BY <1>5, <1>6, <2>1 DEF SameEntry
  <2>3. DOMAIN peers' = DOMAIN rest /\ \A g \in DOMAIN rest \ {f} : peers'[g] = rest[g]
    BY <2>1
  <2>4. f \in DOMAIN peers /\ rest[f].refs = peers[f].refs /\ SameEntry(peers'[f], peers[f])
    BY <1>2, <1>3, <1>6, <2>2 DEF SameEntry
  <2> QED
    BY <1>1, <1>2, <1>4, <1>6, <2>2, <2>3, <2>4
<1>7. CASE f \notin DOMAIN rest
  <2>1. peers' = Put(rest, f, Idle(o)) /\ f \notin DOMAIN peers
    BY <1>2, <1>3, <1>4, <1>7
  <2>2. Idle(o).refs = {o} /\ Idle(o).status = "disconnected"
    BY DEF Idle
  <2> QED
    BY <1>1, <1>2, <1>4, <1>7, <2>1, <2>2 DEF Put
<1> QED
  BY <1>6, <1>7

(* Where the four steps of a registration leave their task.                *)
LEMMA ToStopMoves ==
  ASSUME TaskTypes, NEW w \in Workers, NEW f \in Fps, Goto(w, "stop"),
         arg' = [arg EXCEPT ![w] = [NoArg EXCEPT !.fp = f]]
  PROVE  /\ \A v \in Workers \ {w} : pc'[v] = pc[v] /\ arg'[v] = arg[v]
         /\ pc'[w] = "stop" /\ arg'[w].fp = f
<1>1. [NoArg EXCEPT !.fp = f].fp = f
  BY NoArgType DEF Args
<1>2. arg'[w] = [NoArg EXCEPT !.fp = f]
  BY DEF TaskTypes
<1> QED
  BY <1>1, <1>2, GotoMoves

LEMMA RegisterOwnerMoves ==
  ASSUME Types, NEW w \in Workers, NEW o, NEW f, o = arg[w].owner, f = arg[w].fp, RegisterOwner(w)
  PROVE  /\ OnlyMoves(w) /\ pc[w] = "rg_owner"
         /\ \/ pc'[w] = "idle" /\ \A g \in Fps : ~(Moved(o, f, g) /\ Last(o, g))
            \/ pc'[w] = "stop" /\ Moved(o, f, arg'[w].fp) /\ Last(o, arg'[w].fp)
<1>1. o \in Owners /\ f \in Fps /\ cpc' = cpc /\ gate' = gate /\ pc[w] = "rg_owner"
  BY DEF Types, TaskTypes, RegisterOwner
<1> DEFINE rest == PriorDropped(o, f)
<1>2. CASE DOMAIN peers \ DOMAIN rest = {}
  <2>1. Finish(w)
    BY <1>2 DEF RegisterOwner
  <2>2. \A g \in Fps : ~(Moved(o, f, g) /\ Last(o, g))
    <3> SUFFICES ASSUME NEW g \in Fps, Moved(o, f, g), Last(o, g) PROVE FALSE
      OBVIOUS
    <3>1. rest = Released(o, g)
      BY DEF PriorDropped, Moved
    <3>2. g \notin DOMAIN Released(o, g)
      BY <1>1, ReleasedEntries DEF Types
    <3> QED
      BY <1>2, <3>1, <3>2 DEF Last
  <2> QED
    BY <1>1, <2>1, <2>2, FinishMoves DEF Types, OnlyMoves
<1>3. CASE DOMAIN peers \ DOMAIN rest # {}
  <2>1. o \in DOMAIN by_owner /\ by_owner[o] # f
    BY <1>3 DEF PriorDropped
  <2>2. PICK p \in Fps : p = by_owner[o]
    BY <2>1 DEF Types, IndexTypes
  <2>3. rest = Released(o, p)
    BY <2>1, <2>2 DEF PriorDropped
  <2>4. Last(o, p)
    BY <1>1, <1>3, <2>3, ReleasedEntries DEF Types
  <2>5. Goto(w, "stop") /\ arg' = [arg EXCEPT ![w] = [NoArg EXCEPT !.fp = p]]
    BY <1>3, <2>2 DEF RegisterOwner
  <2> QED
    BY <1>1, <2>1, <2>2, <2>4, <2>5, ToStopMoves DEF Types, OnlyMoves, Moved
<1> QED
  BY <1>2, <1>3

LEMMA UnregisterPeersMoves ==
  ASSUME Types, NEW w \in Workers, NEW o, NEW f, o = arg[w].owner, f = arg[w].fp, UnregisterPeers(w)
  PROVE  /\ OnlyMoves(w) /\ pc[w] = "un_peers"
         /\ o \in Owners /\ f \in Fps /\ peers' = Released(o, f)
         /\ \/ pc'[w] = "idle" /\ ~Last(o, f)
            \/ pc'[w] = "stop" /\ arg'[w].fp = f /\ Last(o, f)
<1>1. /\ o \in Owners /\ f \in Fps /\ cpc' = cpc /\ gate' = gate /\ pc[w] = "un_peers"
      /\ peers' = Released(o, f)
  BY DEF Types, TaskTypes, UnregisterPeers
<1>2. CASE DOMAIN peers' = DOMAIN peers
  <2>1. Finish(w)
    BY <1>2 DEF UnregisterPeers
  <2>2. ~Last(o, f)
    BY <1>1, <1>2, ReleasedEntries DEF Types, Last
  <2> QED
    BY <1>1, <2>1, <2>2, FinishMoves DEF Types, OnlyMoves
<1>3. CASE DOMAIN peers' # DOMAIN peers
  <2>1. Last(o, f)
    BY <1>1, <1>3, ReleasedEntries DEF Types, Last
  <2>2. Goto(w, "stop") /\ arg' = [arg EXCEPT ![w] = [NoArg EXCEPT !.fp = f]]
    BY <1>3 DEF UnregisterPeers
  <2> QED
    BY <1>1, <2>1, <2>2, ToStopMoves DEF Types, OnlyMoves
<1> QED
  BY <1>2, <1>3

LEMMA WorkOnMoves ==
  ASSUME NEW A, A \in [Workers -> Args], NEW w \in Workers, NEW o, NEW f
  PROVE  LET B == [A EXCEPT ![w].owner = o, ![w].fp = f]
         IN  /\ \A v \in Workers \ {w} : B[v] = A[v]
             /\ B[w].owner = o /\ B[w].fp = f
<1>1. DOMAIN A[w] = {"owner", "fp", "names", "fps"}
  BY DEF Args
<1> DEFINE B == [A EXCEPT ![w].owner = o, ![w].fp = f]
<1>2. B[w] = [[A[w] EXCEPT !.owner = o] EXCEPT !.fp = f]
  OBVIOUS
<1>3. B[w].owner = o /\ B[w].fp = f
  BY <1>1, <1>2
<1>4. \A v \in Workers \ {w} : B[v] = A[v]
  OBVIOUS
<1> QED
  BY <1>3, <1>4

LEMMA UnregisterOwnerMoves ==
  ASSUME Types, NEW w \in Workers, NEW j \in spawned, UnregisterOwner(w, j)
  PROVE  /\ OnlyMoves(w) /\ pc[w] = "idle"
         /\ \/ j.owner \notin DOMAIN by_owner /\ UNCHANGED <<by_owner, pc, arg>>
            \/ /\ j.owner \in DOMAIN by_owner /\ by_owner' = Without(by_owner, {j.owner})
               /\ pc'[w] = "un_peers" /\ arg'[w].owner = j.owner
               /\ arg'[w].fp = by_owner[j.owner]
<1>1. CASE j.owner \notin DOMAIN by_owner
  BY <1>1 DEF UnregisterOwner, OnlyMoves
<1>2. CASE j.owner \in DOMAIN by_owner
  <2>1. PICK o, f : o = j.owner /\ f = by_owner[j.owner]
    OBVIOUS
  <2>2. Goto(w, "un_peers") /\ arg' = [arg EXCEPT ![w].owner = o, ![w].fp = f]
    BY <1>2, <2>1 DEF UnregisterOwner
  <2>3. /\ \A v \in Workers \ {w} : pc'[v] = pc[v] /\ arg'[v] = arg[v]
        /\ pc'[w] = "un_peers" /\ arg'[w].owner = o /\ arg'[w].fp = f
    <3>1. /\ \A v \in Workers \ {w} : arg'[v] = arg[v]
          /\ arg'[w].owner = o /\ arg'[w].fp = f
      BY <2>2, WorkOnMoves DEF Types, TaskTypes, Args
    <3> QED
      BY <2>2, <3>1 DEF Goto, Types, TaskTypes
  <2> QED
    BY <1>2, <2>1, <2>3 DEF UnregisterOwner, OnlyMoves
<1> QED
  BY <1>1, <1>2

LEMMA RegisterPeersMoves ==
  ASSUME Types, NEW w \in Workers, NEW j \in spawned, RegisterPeers(w, j)
  PROVE  /\ OnlyMoves(w) /\ pc[w] = "idle"
         /\ pc'[w] = "rg_owner" /\ arg'[w].owner = j.owner /\ arg'[w].fp = j.fp
<1>1. PICK o, f : o = j.owner /\ f = j.fp
  OBVIOUS
<1>2. Goto(w, "rg_owner") /\ arg' = [arg EXCEPT ![w].owner = o, ![w].fp = f]
  BY <1>1 DEF RegisterPeers
<1>3. /\ \A v \in Workers \ {w} : pc'[v] = pc[v] /\ arg'[v] = arg[v]
      /\ pc'[w] = "rg_owner" /\ arg'[w].owner = o /\ arg'[w].fp = f
  <2>1. /\ \A v \in Workers \ {w} : arg'[v] = arg[v]
        /\ arg'[w].owner = o /\ arg'[w].fp = f
    BY <1>2, WorkOnMoves DEF Types, TaskTypes, Args
  <2> QED
    BY <1>2, <2>1 DEF Goto, Types, TaskTypes
<1> QED
  BY <1>1, <1>3 DEF RegisterPeers, OnlyMoves

Claims == ClaimsCounted /\ ClaimsEntitled /\ LeavesAlone

LEMMA ClaimsStay ==
  ASSUME Claims, by_owner' = by_owner, SameClaims,
         \A v \in Workers : /\ pc'[v] = "un_peers" <=> pc[v] = "un_peers"
                            /\ pc[v] = "un_peers" => arg'[v] = arg[v]
  PROVE  Claims'
<1>1. ClaimsCounted'
  BY DEF Claims, ClaimsCounted, SameClaims
<1>2. ClaimsEntitled'
  <2> SUFFICES ASSUME NEW f \in DOMAIN peers', NEW o \in peers'[f].refs PROVE Entitled(o, f)'
    BY DEF ClaimsEntitled
  <2>1. Entitled(o, f)
    BY DEF Claims, ClaimsEntitled, SameClaims
  <2> QED
    BY <2>1 DEF Entitled
<1>3. LeavesAlone'
  BY DEF Claims, LeavesAlone
<1> QED
  BY <1>1, <1>2, <1>3 DEF Claims

LEMMA ElsewhereClaims ==
  ASSUME Claims, Elsewhere PROVE Claims'
BY ClaimsStay DEF Elsewhere, SameClaims, JobPoints

LEMMA RegisterPeersClaims ==
  ASSUME Types, Claims, NEW w \in Workers, NEW j \in spawned, RegisterPeers(w, j)
  PROVE  Claims'
<1>1. by_owner' = by_owner /\ peers' = peers
  BY DEF RegisterPeers
<1> QED
  BY <1>1, RegisterPeersMoves, ClaimsStay DEF SameClaims, OnlyMoves

(* The owner leaves the index and is owed to the entry it had.             *)
LEMMA UnregisterOwnerClaims ==
  ASSUME Types, Claims, NEW w \in Workers, NEW j \in spawned, UnregisterOwner(w, j)
  PROVE  Claims'
<1>1. peers' = peers /\ \A v \in Workers : pc[v] # "un_peers"
  BY DEF UnregisterOwner, OwnersWritable
<1>2. CASE j.owner \notin DOMAIN by_owner
  BY <1>1, <1>2, ClaimsStay, UnregisterOwnerMoves DEF SameClaims
<1>3. CASE j.owner \in DOMAIN by_owner
  <2>1. /\ \A v \in Workers \ {w} : pc'[v] = pc[v] /\ arg'[v] = arg[v]
        /\ by_owner' = Without(by_owner, {j.owner})
        /\ pc'[w] = "un_peers" /\ arg'[w].owner = j.owner /\ arg'[w].fp = by_owner[j.owner]
    BY <1>3, UnregisterOwnerMoves DEF OnlyMoves
  <2>2. /\ DOMAIN by_owner' = DOMAIN by_owner \ {j.owner}
        /\ \A o \in DOMAIN by_owner' : by_owner'[o] = by_owner[o]
    BY <2>1 DEF Without, Restrict
  <2>3. ClaimsCounted'
    BY <1>1, <2>2 DEF Claims, ClaimsCounted
  <2>4. ClaimsEntitled'
    <3> SUFFICES ASSUME NEW f \in DOMAIN peers, NEW o \in peers[f].refs PROVE Entitled(o, f)'
      BY <1>1 DEF ClaimsEntitled
    <3>1. o \in DOMAIN by_owner /\ by_owner[o] = f
      BY <1>1 DEF Claims, ClaimsEntitled, Entitled
    <3> QED
      BY <2>1, <2>2, <3>1 DEF Entitled
  <2>5. LeavesAlone'
    BY <1>1, <2>1, <2>2 DEF LeavesAlone
  <2> QED
    BY <2>3, <2>4, <2>5 DEF Claims
<1> QED
  BY <1>2, <1>3

(* Under both locks a claim moves from one entry to another.               *)
LEMMA RegisterOwnerClaims ==
  ASSUME Types, Claims, NEW w \in Workers, RegisterOwner(w)
  PROVE  Claims'
<1>1. \A v \in Workers : pc[v] # "un_peers"
  BY DEF RegisterOwner, OwnersWritable
<1>2. PICK o, f : o = arg[w].owner /\ f = arg[w].fp
  OBVIOUS
<1>3. /\ o \in Owners /\ f \in Fps
      /\ DOMAIN by_owner' = DOMAIN by_owner \cup {o}
      /\ by_owner'[o] = f /\ \A x \in DOMAIN by_owner \ {o} : by_owner'[x] = by_owner[x]
      /\ f \in DOMAIN peers'
      /\ peers'[f].refs = {o} \cup (IF f \in DOMAIN peers THEN peers[f].refs ELSE {})
      /\ \A g \in Fps \ {f} :
           g \in DOMAIN peers' <=> g \in DOMAIN peers /\ ~(Moved(o, f, g) /\ Last(o, g))
      /\ \A g \in DOMAIN peers' \ {f} :
           peers'[g].refs = IF Moved(o, f, g) THEN peers[g].refs \ {o} ELSE peers[g].refs
  <2>1. by_owner' = Put(by_owner, o, f)
    BY <1>2 DEF RegisterOwner
  <2>2. /\ DOMAIN by_owner' = DOMAIN by_owner \cup {o}
        /\ by_owner'[o] = f /\ \A x \in DOMAIN by_owner \ {o} : by_owner'[x] = by_owner[x]
    BY <2>1 DEF Put
  <2> QED
    BY <1>2, <2>2, RegisterOwnerEntries
<1>4. \A v \in Workers : pc'[v] # "un_peers"
  BY <1>1, <1>2, RegisterOwnerMoves DEF OnlyMoves
<1>5. DOMAIN peers \subseteq Fps /\ DOMAIN peers' \subseteq Fps
  BY RegisterOwnerTypes DEF Types, IndexTypes
<1>6. \A g \in DOMAIN peers : \A x \in peers[g].refs : x \in DOMAIN by_owner /\ by_owner[x] = g
  BY <1>1 DEF Claims, ClaimsEntitled, Entitled
<1>7. ClaimsCounted'
  <2> SUFFICES ASSUME NEW x \in DOMAIN by_owner'
               PROVE  by_owner'[x] \in DOMAIN peers' /\ x \in peers'[by_owner'[x]].refs
    BY DEF ClaimsCounted
  <2>1. CASE x = o
    BY <1>3, <2>1
  <2>2. CASE x # o
    <3>1. PICK g : g = by_owner[x] /\ g \in DOMAIN peers /\ x \in peers[g].refs /\ by_owner'[x] = g
      BY <1>3, <2>2 DEF Claims, ClaimsCounted
    <3>2. ~Last(o, g)
      BY <2>2, <3>1 DEF Last
    <3> QED
      BY <1>3, <1>5, <2>2, <3>1, <3>2
  <2> QED
    BY <2>1, <2>2
<1>8. ClaimsEntitled'
  <2> SUFFICES ASSUME NEW g \in DOMAIN peers', NEW x \in peers'[g].refs
               PROVE  x \in DOMAIN by_owner' /\ by_owner'[x] = g
    BY DEF ClaimsEntitled, Entitled
  <2>1. CASE g = f
    BY <1>3, <1>6, <2>1
  <2>2. CASE g # f
    <3>1. g \in DOMAIN peers /\ x \in peers[g].refs
      BY <1>3, <1>5, <2>2
    <3>2. x \in DOMAIN by_owner /\ by_owner[x] = g
      BY <1>6, <3>1
    <3>3. x # o
      BY <1>3, <2>2, <3>2 DEF Moved
    <3> QED
      BY <1>3, <3>2, <3>3
  <2> QED
    BY <2>1, <2>2
<1> QED
  BY <1>4, <1>7, <1>8 DEF Claims, LeavesAlone

(* The claim that was owed is dropped.                                     *)
LEMMA UnregisterPeersClaims ==
  ASSUME Types, Claims, NEW w \in Workers, UnregisterPeers(w)
  PROVE  Claims'
<1>1. PICK o, f : o = arg[w].owner /\ f = arg[w].fp
  OBVIOUS
<1>2. /\ OnlyMoves(w) /\ pc[w] = "un_peers" /\ o \in Owners /\ f \in Fps
      /\ peers' = Released(o, f) /\ pc'[w] # "un_peers"
  BY <1>1, UnregisterPeersMoves
<1>3. by_owner' = by_owner /\ o \notin DOMAIN by_owner /\ \A v \in Workers \ {w} : pc[v] # "un_peers"
  BY <1>1, <1>2 DEF UnregisterPeers, Claims, LeavesAlone
<1>4. /\ \A g : g \in DOMAIN peers' <=> g \in DOMAIN peers /\ ~(g = f /\ Last(o, f))
      /\ \A g \in DOMAIN peers' :
           peers'[g].refs = IF g = f THEN peers[g].refs \ {o} ELSE peers[g].refs
  BY <1>2, ReleasedEntries DEF Types
<1>5. ClaimsCounted'
  <2> SUFFICES ASSUME NEW x \in DOMAIN by_owner
               PROVE  by_owner[x] \in DOMAIN peers' /\ x \in peers'[by_owner[x]].refs
    BY <1>3 DEF ClaimsCounted
  <2>1. by_owner[x] \in DOMAIN peers /\ x \in peers[by_owner[x]].refs /\ x # o
    BY <1>3 DEF Claims, ClaimsCounted
  <2> QED
    BY <1>4, <2>1 DEF Last
<1>6. ClaimsEntitled'
  <2> SUFFICES ASSUME NEW g \in DOMAIN peers', NEW x \in peers'[g].refs
               PROVE  x \in DOMAIN by_owner /\ by_owner[x] = g
    BY <1>3 DEF ClaimsEntitled, Entitled
  <2>1. Entitled(x, g)
    BY <1>4 DEF Claims, ClaimsEntitled
  <2>2. ~(g = f /\ x = o)
    BY <1>4
  <2> QED
    BY <1>1, <1>3, <2>1, <2>2 DEF Entitled
<1>7. LeavesAlone'
  BY <1>2, <1>3 DEF OnlyMoves, LeavesAlone
<1> QED
  BY <1>5, <1>6, <1>7 DEF Claims

(* Only a task that waits for connects has any under way.                  *)
LEMMA QuietJoined ==
  ASSUME Types, ConnectsJoined, NEW w \in Workers, Quiet(w)
  PROVE  pc'[w] \notin {"join", "rc_join"} => Joined(w)'
<1> USE DEF ConnectsJoined, Joined
<1>1. CASE Stop(w) \/ Reconnected(w)
  BY <1>1 DEF Stop, Reconnected
<1>2. CASE DropCall(w)
  <2>1. cpc'[w] = [f \in Fps |-> "none"]
    BY <1>2 DEF DropCall, Types, TaskTypes
  <2> QED
    BY <2>1
<1>3. CASE (\E a \in Agents : Dispatch(w, a)) \/ (\E o \in Owners : Reconnect(w, o))
  BY <1>3 DEF Dispatch, Reconnect
<1>4. CASE ReconnectIdle(w)
  BY <1>4 DEF ReconnectIdle
<1>5. CASE ReconnectStop(w) \/ EnsureConnected(w)
  BY <1>5 DEF ReconnectStop, EnsureConnected, Goto, Types, TaskTypes
<1>6. CASE Reap(w) \/ ReapStop(w)
  BY <1>6 DEF Reap, ReapStop
<1>7. CASE ConnectStep(w)
  <2>1. PICK f \in Fps : cpc[w][f] # "none" /\ pc' = pc
    BY <1>7 DEF ConnectStep, CloneGate, PassGate, Handshake, PushPeer, Settle
  <2> QED
    BY <2>1
<1>8. CASE \/ AllowedOwners(w) \/ Allowed(w) \/ ListTools(w) \/ Touch(w) \/ CallPeer(w)
           \/ Answer(w) \/ MarkFailed(w)
  BY <1>8 DEF AllowedOwners, Allowed, ListTools, Touch, CallPeer, Answer, MarkFailed
<1> QED
  BY <1>1, <1>2, <1>3, <1>4, <1>5, <1>6, <1>7, <1>8 DEF Quiet, CallStep

LEMMA BusyMoves ==
  ASSUME Types, NEW w \in Workers, Busy(w)
  PROVE  /\ OnlyMoves(w) /\ cpc' = cpc /\ gate' = gate
         /\ pc[w] \notin {"join", "rc_join"}
BY RegisterPeersMoves, UnregisterOwnerMoves, RegisterOwnerMoves, UnregisterPeersMoves
   DEF Busy, RegisterPeers, UnregisterOwner, RegisterOwner, UnregisterPeers

LEMMA JoinedNext ==
  ASSUME Types, ConnectsJoined, [Next]_vars
  PROVE  ConnectsJoined'
<1>1. CASE UNCHANGED vars \/ ResolveOrForget \/ (\E f \in Fps : Age(f))
  BY <1>1 DEF vars, ResolveOrForget, Age, ConnectsJoined, Joined
<1>2. ASSUME NEW w \in Workers, Quiet(w) PROVE ConnectsJoined'
  BY <1>2, QuietJoined, QuietMoves DEF ConnectsJoined, OnlyMoves, Joined
<1>3. ASSUME NEW w \in Workers, Busy(w) PROVE ConnectsJoined'
  BY <1>3, BusyMoves DEF ConnectsJoined, OnlyMoves, Joined
<1> QED
  BY <1>1, <1>2, <1>3, NextCases

LEMMA ClaimsNext ==
  ASSUME Types, Claims, [Next]_vars
  PROVE  Claims'
<1>1. CASE UNCHANGED vars \/ ResolveOrForget
  BY <1>1, ClaimsStay DEF vars, ResolveOrForget, SameClaims
<1>2. CASE \E f \in Fps : Age(f)
  BY <1>2, AgeElsewhere, ElsewhereClaims
<1>3. CASE \E w \in Workers : Quiet(w)
  BY <1>3, QuietElsewhere, ElsewhereClaims
<1>4. CASE \E w \in Workers : Busy(w)
  BY <1>4, RegisterPeersClaims, UnregisterOwnerClaims, RegisterOwnerClaims, UnregisterPeersClaims
     DEF Busy
<1> QED
  BY <1>1, <1>2, <1>3, <1>4, NextCases

LEMMA QuietTypes ==
  ASSUME Types, NEW w \in Workers, Quiet(w)
  PROVE  Types'
BY StopTypes, ConnectTypes, CallTypes, TouchTypes, EnsureConnectedTypes, DispatchTypes,
   DropCallTypes, ReconnectTypes, ReapTypes DEF Quiet, ConnectStep, CallStep

LEMMA TypesNext ==
  ASSUME Types, [Next]_vars
  PROVE  Types'
<1>1. CASE UNCHANGED vars
  BY <1>1 DEF vars, Types, HarnessTypes, IndexTypes, TaskTypes
<1>2. CASE \E w \in Workers : Busy(w)
  BY <1>2, RegisterPeersTypes, UnregisterOwnerTypes, RegisterOwnerTypes, UnregisterPeersTypes
     DEF Busy
<1> QED
  BY <1>1, <1>2, NextCases, ResolveTypes, QuietTypes, AgeTypes

LEMMA InitIInv == Init => IInv
<1> SUFFICES ASSUME Init PROVE IInv
  OBVIOUS
<1>1. /\ agent_mcps = <<>> /\ by_owner = <<>> /\ peers = <<>>
      /\ DOMAIN agent_mcps = {} /\ DOMAIN by_owner = {} /\ DOMAIN peers = {}
  BY DEF Init
<1>2. HarnessTypes /\ IndexTypes
  BY <1>1 DEF Init, HarnessTypes, IndexTypes
<1>3. TaskTypes
  BY NoArgType DEF Init, TaskTypes, Locations, Args
<1>4. \A w \in Workers : pc[w] = "idle" /\ Joined(w)
  BY DEF Init, Joined
<1> QED
  BY <1>1, <1>2, <1>3, <1>4
     DEF Init, IInv, TypeOK, ClaimsCounted, ClaimsEntitled, LeavesAlone, ConnectsJoined

LEMMA NextIInv == IInv /\ [Next]_vars => IInv'
<1> SUFFICES ASSUME IInv, [Next]_vars PROVE IInv'
  OBVIOUS
<1>1. Types /\ Claims
  BY DEF IInv, TypeOK, Types, Claims
<1>2. raced' \subseteq Fps
  BY DEF IInv, TypeOK, Next, Observe, vars
<1> QED
  BY <1>1, <1>2, TypesNext, ClaimsNext, JoinedNext DEF IInv, TypeOK, Types, Claims

LEMMA IInvAlways == Spec => []IInv
BY InitIInv, NextIInv, PTL DEF Spec

(* For every set of tasks and every order of their steps, the handler's    *)
(* two indexes have their types and agree: by_owner leads to an entry that *)
(* counts the owner, and an entry counts nobody but the owners the index   *)
(* files under it and the one whose unregistration is half done.           *)
THEOREM PeersCorrect == Spec => []PeersInv
<1>1. IInv => PeersInv
  BY DEF IInv, PeersInv, OwnersAgree, ClaimsCounted, ClaimsEntitled, Entitled
<1> QED
  BY <1>1, IInvAlways, PTL
-----------------------------------------------------------------------------
(* The declarations                                                        *)

LEMMA JobForWorking ==
  ASSUME NEW o
  PROVE  JobFor(o) <=> (\E j \in spawned : j.owner = o) \/ (\E w \in Workers : Working(w, o))
BY DEF JobFor, Working

LEMMA ElsewhereDeclarations ==
  ASSUME Declarations, Elsewhere PROVE Declarations'
<1> SUFFICES ASSUME NEW o \in Owners \ overlapped' PROVE JobsCurrent(o)'
  BY DEF Declarations
<1>1. JobsCurrent(o)
  BY DEF Declarations, Elsewhere
<1>2. \A v \in Workers : /\ Working(v, o)' <=> Working(v, o)
                         /\ Working(v, o) => pc'[v] = pc[v] /\ arg'[v] = arg[v]
  BY DEF Elsewhere, Working, JobPoints
<1>3. JobFor(o)' <=> JobFor(o)
  BY <1>2, JobForWorking DEF Elsewhere, JobFor, Working
<1> QED
  BY <1>1, <1>2, <1>3 DEF JobsCurrent, Elsewhere

(* An owner that is given a job while it has none has just that one.       *)
LEMMA SpawnDeclarations ==
  ASSUME NEW o \in Owners \ overlapped', NEW jobs, Spawn(jobs), JobsCurrent(o), o \notin overlapped,
         UNCHANGED <<by_owner, pc, arg>>,
         \A j, k \in jobs : j.owner = o /\ k.owner = o => j = k,
         \A j \in jobs : j.owner = o =>
           /\ j.op = "register" => o \in DOMAIN agent_mcps' /\ agent_mcps'[o] = j.fp
           /\ j.op = "unregister" => o \notin DOMAIN agent_mcps',
         (\A j \in jobs : j.owner # o) =>
           /\ o \in DOMAIN agent_mcps' <=> o \in DOMAIN agent_mcps
           /\ o \in DOMAIN agent_mcps => agent_mcps'[o] = agent_mcps[o]
  PROVE  JobsCurrent(o)'
<1>1. spawned' = spawned \cup jobs
  BY DEF Spawn
<1>2. \A v \in Workers : Working(v, o)' <=> Working(v, o)
  BY DEF Working
<1>3. CASE \A j \in jobs : j.owner # o
  <2>1. \A j : j \in spawned' /\ j.owner = o <=> j \in spawned /\ j.owner = o
    BY <1>1, <1>3
  <2>2. JobFor(o)' <=> JobFor(o)
    BY <1>2, <2>1 DEF JobFor, Working
  <2> QED
    BY <1>2, <1>3, <2>1, <2>2 DEF JobsCurrent
<1>4. CASE \E j \in jobs : j.owner = o
  <2>1. ~JobFor(o)
    BY <1>4 DEF Spawn
  <2>2. /\ \A j \in spawned : j.owner # o
        /\ \A v \in Workers : ~Working(v, o)
    BY <2>1, JobForWorking
  <2>3. JobFor(o)'
    BY <1>1, <1>4 DEF JobFor
  <2> QED
    BY <1>1, <1>2, <2>2, <2>3 DEF JobsCurrent
<1> QED
  BY <1>3, <1>4

LEMMA ResolveDeclarations ==
  ASSUME Types, Declarations, ResolveOrForget
  PROVE  Declarations'
<1> SUFFICES ASSUME NEW o \in Owners \ overlapped' PROVE JobsCurrent(o)'
  BY DEF Declarations
<1>1. UNCHANGED <<by_owner, pc, arg>>
  BY DEF ResolveOrForget
<1>2. PICK a \in Agents : (\E ns \in SUBSET Names : \E config \in [ns -> Fps] : Resolve(a, config))
                          \/ Forget(a)
  BY DEF ResolveOrForget
<1>3. ASSUME NEW ns \in SUBSET Names, NEW config \in [ns -> Fps], Resolve(a, config)
      PROVE  JobsCurrent(o)'
  <2> DEFINE new == {<<a, n>> : n \in DOMAIN config}
             gone == {Job("unregister", d, agent_mcps[d]) : d \in Declared(a) \ new}
             come == {Job("register", d, config[d[2]]) : d \in new}
  <2>1. Spawn(gone \cup come)
    BY <1>3 DEF Resolve
  <2>2. /\ DOMAIN agent_mcps' = (DOMAIN agent_mcps \ Declared(a)) \cup new
        /\ \A d \in DOMAIN agent_mcps' : agent_mcps'[d] = IF d \in new THEN config[d[2]] ELSE agent_mcps[d]
    BY <1>3 DEF Resolve
  <2>3. o \notin overlapped /\ JobsCurrent(o)
    BY <2>1 DEF Spawn, Declarations
  <2>4. \A j \in gone : j.owner \in Declared(a) \ new /\ j.op = "unregister"
    BY DEF Job
  <2>5. \A j \in come : j.owner \in new /\ j.op = "register" /\ j.fp = config[j.owner[2]]
    BY DEF Job
  <2>6. \A d \in Declared(a) \ new : \E j \in gone : j.owner = d
    <3> SUFFICES ASSUME NEW d \in Declared(a) \ new PROVE \E j \in gone : j.owner = d
      OBVIOUS
    <3>1. Job("unregister", d, agent_mcps[d]) \in gone /\ Job("unregister", d, agent_mcps[d]).owner = d
      BY DEF Job
    <3> QED
      BY <3>1
  <2>7. \A d \in new : \E j \in come : j.owner = d
    <3> SUFFICES ASSUME NEW d \in new PROVE \E j \in come : j.owner = d
      OBVIOUS
    <3>1. Job("register", d, config[d[2]]) \in come /\ Job("register", d, config[d[2]]).owner = d
      BY DEF Job
    <3> QED
      BY <3>1
  <2>8. \A j, k \in gone : j.owner = k.owner => j = k
    BY DEF Job
  <2>9. \A j, k \in come : j.owner = k.owner => j = k
    BY DEF Job
  <2>10. Declared(a) \subseteq DOMAIN agent_mcps
    BY DEF Declared
  <2> HIDE DEF new, gone, come
  <2> DEFINE jobs == gone \cup come
  <2>11. \A j, k \in jobs : j.owner = o /\ k.owner = o => j = k
    BY <2>4, <2>5, <2>8, <2>9
  <2>12. \A j \in jobs : j.owner = o =>
           /\ j.op = "register" => o \in DOMAIN agent_mcps' /\ agent_mcps'[o] = j.fp
           /\ j.op = "unregister" => o \notin DOMAIN agent_mcps'
    BY <2>2, <2>4, <2>5
  <2>13. (\A j \in jobs : j.owner # o) =>
           /\ o \in DOMAIN agent_mcps' <=> o \in DOMAIN agent_mcps
           /\ o \in DOMAIN agent_mcps => agent_mcps'[o] = agent_mcps[o]
    BY <2>2, <2>6, <2>7, <2>10
  <2> HIDE DEF jobs
  <2>14. Spawn(jobs)
    BY <2>1 DEF jobs
  <2> QED
    BY <1>1, <2>3, <2>11, <2>12, <2>13, <2>14, SpawnDeclarations
<1>4. ASSUME Forget(a)
      PROVE  JobsCurrent(o)'
  <2> DEFINE jobs == {Job("unregister", d, agent_mcps[d]) : d \in Declared(a)}
  <2>1. Spawn(jobs)
    BY <1>4 DEF Forget
  <2>2. /\ DOMAIN agent_mcps' = DOMAIN agent_mcps \ Declared(a)
        /\ \A d \in DOMAIN agent_mcps' : agent_mcps'[d] = agent_mcps[d]
    BY <1>4 DEF Forget, Without, Restrict
  <2>3. o \notin overlapped /\ JobsCurrent(o)
    BY <2>1 DEF Spawn, Declarations
  <2>4. \A j \in jobs : j.owner \in Declared(a) /\ j.op = "unregister"
    BY DEF Job
  <2>5. \A d \in Declared(a) : \E j \in jobs : j.owner = d
    <3> SUFFICES ASSUME NEW d \in Declared(a) PROVE \E j \in jobs : j.owner = d
      OBVIOUS
    <3>1. Job("unregister", d, agent_mcps[d]) \in jobs /\ Job("unregister", d, agent_mcps[d]).owner = d
      BY DEF Job
    <3> QED
      BY <3>1
  <2>6. \A j, k \in jobs : j.owner = k.owner => j = k
    BY DEF Job
  <2>7. Declared(a) \subseteq DOMAIN agent_mcps
    BY DEF Declared
  <2> HIDE DEF jobs
  <2>8. \A j \in jobs : j.owner = o =>
           /\ j.op = "register" => o \in DOMAIN agent_mcps' /\ agent_mcps'[o] = j.fp
           /\ j.op = "unregister" => o \notin DOMAIN agent_mcps'
    BY <2>2, <2>4
  <2>9. (\A j \in jobs : j.owner # o) =>
           /\ o \in DOMAIN agent_mcps' <=> o \in DOMAIN agent_mcps
           /\ o \in DOMAIN agent_mcps => agent_mcps'[o] = agent_mcps[o]
    BY <2>2, <2>5, <2>7
  <2> QED
    BY <1>1, <2>1, <2>3, <2>6, <2>8, <2>9, SpawnDeclarations
<1> QED
  BY <1>2, <1>3, <1>4

LEMMA RegisterPeersDeclarations ==
  ASSUME Types, Declarations, NEW w \in Workers, NEW j \in spawned, RegisterPeers(w, j)
  PROVE  Declarations'
<1> SUFFICES ASSUME NEW o \in Owners \ overlapped' PROVE JobsCurrent(o)'
  BY DEF Declarations
<1>1. /\ UNCHANGED <<agent_mcps, by_owner, overlapped>> /\ spawned' = spawned \ {j}
      /\ j.op = "register"
  BY DEF RegisterPeers
<1>2. JobsCurrent(o)
  BY <1>1 DEF Declarations
<1>3. /\ \A v \in Workers \ {w} : pc'[v] = pc[v] /\ arg'[v] = arg[v]
      /\ pc[w] = "idle"
      /\ pc'[w] = "rg_owner" /\ arg'[w].owner = j.owner /\ arg'[w].fp = j.fp
  BY RegisterPeersMoves DEF OnlyMoves
<1>4. /\ \A v \in Workers \ {w} : Working(v, o)' <=> Working(v, o)
      /\ ~Working(w, o) /\ (Working(w, o)' <=> j.owner = o)
  BY <1>3 DEF Working
<1>5. JobFor(o)' <=> (\E k \in spawned' : k.owner = o) \/ (\E v \in Workers : Working(v, o)')
  BY DEF JobFor, Working
<1>6. JobFor(o)' <=> JobFor(o)
  BY <1>1, <1>4, <1>5, JobForWorking
<1> QED
  BY <1>1, <1>2, <1>3, <1>4, <1>6 DEF JobsCurrent

LEMMA UnregisterOwnerDeclarations ==
  ASSUME Types, Declarations, NEW w \in Workers, NEW j \in spawned, UnregisterOwner(w, j)
  PROVE  Declarations'
<1> SUFFICES ASSUME NEW o \in Owners \ overlapped' PROVE JobsCurrent(o)'
  BY DEF Declarations
<1>1. /\ UNCHANGED <<agent_mcps, overlapped>> /\ spawned' = spawned \ {j}
      /\ j.op = "unregister"
  BY DEF UnregisterOwner
<1>2. JobsCurrent(o)
  BY <1>1 DEF Declarations
<1>3. JobFor(o)' <=> (\E k \in spawned' : k.owner = o) \/ (\E v \in Workers : Working(v, o)')
  BY DEF JobFor, Working
<1>4. CASE j.owner \notin DOMAIN by_owner
  <2>1. UNCHANGED <<by_owner, pc, arg>>
    BY <1>4, UnregisterOwnerMoves
  <2>2. \A v \in Workers : Working(v, o)' <=> Working(v, o)
    BY <2>1 DEF Working
  <2>3. CASE j.owner = o
    BY <1>1, <1>2, <1>3, <1>4, <2>1, <2>2, <2>3 DEF JobsCurrent
  <2>4. CASE j.owner # o
    <3>1. JobFor(o)' <=> JobFor(o)
      BY <1>1, <1>3, <2>2, <2>4, JobForWorking
    <3> QED
      BY <1>1, <1>2, <2>1, <2>2, <3>1 DEF JobsCurrent
  <2> QED
    BY <2>3, <2>4
<1>5. CASE j.owner \in DOMAIN by_owner
  <2>1. /\ \A v \in Workers \ {w} : pc'[v] = pc[v] /\ arg'[v] = arg[v]
        /\ by_owner' = Without(by_owner, {j.owner}) /\ pc[w] = "idle"
        /\ pc'[w] = "un_peers" /\ arg'[w].owner = j.owner
    BY <1>5, UnregisterOwnerMoves DEF OnlyMoves
  <2>2. /\ \A v \in Workers \ {w} : Working(v, o)' <=> Working(v, o)
        /\ ~Working(w, o) /\ (Working(w, o)' <=> j.owner = o)
    BY <2>1 DEF Working
  <2>3. JobFor(o)' <=> JobFor(o)
    BY <1>1, <1>3, <2>2, JobForWorking
  <2>4. j.owner # o => /\ o \in DOMAIN by_owner' <=> o \in DOMAIN by_owner
                       /\ o \in DOMAIN by_owner => by_owner'[o] = by_owner[o]
    BY <2>1 DEF Without, Restrict
  <2>5. j.owner = o => JobFor(o)
    BY JobForWorking
  <2> QED
    BY <1>1, <1>2, <2>1, <2>2, <2>3, <2>4, <2>5 DEF JobsCurrent
<1> QED
  BY <1>4, <1>5

LEMMA RegisterOwnerDeclarations ==
  ASSUME Types, Declarations, NEW w \in Workers, RegisterOwner(w)
  PROVE  Declarations'
<1> SUFFICES ASSUME NEW o \in Owners \ overlapped' PROVE JobsCurrent(o)'
  BY DEF Declarations
<1>1. /\ UNCHANGED <<agent_mcps, spawned, overlapped>> /\ pc[w] = "rg_owner"
      /\ by_owner' = Put(by_owner, arg[w].owner, arg[w].fp)
  BY DEF RegisterOwner
<1>2. JobsCurrent(o)
  BY <1>1 DEF Declarations
<1>3. /\ \A v \in Workers \ {w} : pc'[v] = pc[v] /\ arg'[v] = arg[v]
      /\ pc'[w] \in {"idle", "stop"}
  BY RegisterOwnerMoves DEF OnlyMoves
<1>4. /\ \A v \in Workers \ {w} : Working(v, o)' <=> Working(v, o)
      /\ ~Working(w, o)' /\ (Working(w, o) <=> arg[w].owner = o)
  BY <1>1, <1>3 DEF Working
<1>5. JobFor(o)' <=> (\E k \in spawned' : k.owner = o) \/ (\E v \in Workers : Working(v, o)')
  BY DEF JobFor, Working
<1>6. CASE arg[w].owner = o
  <2>1. o \in DOMAIN by_owner' /\ by_owner'[o] = arg[w].fp
    BY <1>1, <1>6 DEF Put
  <2>2. o \in DOMAIN agent_mcps /\ agent_mcps[o] = arg[w].fp
    BY <1>1, <1>2, <1>4, <1>6 DEF JobsCurrent
  <2> QED
    BY <1>1, <1>2, <1>3, <1>4, <1>6, <2>1, <2>2 DEF JobsCurrent
<1>7. CASE arg[w].owner # o
  <2>1. JobFor(o)' <=> JobFor(o)
    BY <1>1, <1>4, <1>5, <1>7, JobForWorking
  <2>2. /\ o \in DOMAIN by_owner' <=> o \in DOMAIN by_owner
        /\ o \in DOMAIN by_owner => by_owner'[o] = by_owner[o]
    BY <1>1, <1>7 DEF Put
  <2> QED
    BY <1>1, <1>2, <1>3, <1>4, <1>7, <2>1, <2>2 DEF JobsCurrent
<1> QED
  BY <1>6, <1>7

LEMMA UnregisterPeersDeclarations ==
  ASSUME Types, LeavesAlone, Declarations, NEW w \in Workers, UnregisterPeers(w)
  PROVE  Declarations'
<1> SUFFICES ASSUME NEW o \in Owners \ overlapped' PROVE JobsCurrent(o)'
  BY DEF Declarations
<1>1. /\ UNCHANGED <<agent_mcps, spawned, overlapped, by_owner>> /\ pc[w] = "un_peers"
      /\ arg[w].owner \notin DOMAIN by_owner
  BY DEF UnregisterPeers, LeavesAlone
<1>2. JobsCurrent(o)
  BY <1>1 DEF Declarations
<1>3. /\ \A v \in Workers \ {w} : pc'[v] = pc[v] /\ arg'[v] = arg[v]
      /\ pc'[w] \in {"idle", "stop"}
  BY UnregisterPeersMoves DEF OnlyMoves
<1>4. /\ \A v \in Workers \ {w} : Working(v, o)' <=> Working(v, o)
      /\ ~Working(w, o)' /\ (Working(w, o) <=> arg[w].owner = o)
  BY <1>1, <1>3 DEF Working
<1>5. JobFor(o)' <=> (\E k \in spawned' : k.owner = o) \/ (\E v \in Workers : Working(v, o)')
  BY DEF JobFor, Working
<1>6. CASE arg[w].owner = o
  <2>1. o \notin DOMAIN agent_mcps
    BY <1>1, <1>2, <1>4, <1>6 DEF JobsCurrent
  <2> QED
    BY <1>1, <1>2, <1>3, <1>4, <1>6, <2>1 DEF JobsCurrent
<1>7. CASE arg[w].owner # o
  <2>1. JobFor(o)' <=> JobFor(o)
    BY <1>1, <1>4, <1>5, <1>7, JobForWorking
  <2> QED
    BY <1>1, <1>2, <1>3, <1>4, <1>7, <2>1 DEF JobsCurrent
<1> QED
  BY <1>6, <1>7

LEMMA InitDeclarations == Init => Declarations
<1> SUFFICES ASSUME Init, NEW o \in Owners PROVE JobsCurrent(o)
  BY DEF Declarations
<1>1. /\ spawned = {} /\ DOMAIN agent_mcps = {} /\ DOMAIN by_owner = {}
      /\ \A w \in Workers : ~Working(w, o)
  BY DEF Init, Working
<1> QED
  BY <1>1 DEF JobsCurrent

LEMMA NextDeclarations == IInv /\ Declarations /\ [Next]_vars => Declarations'
<1> SUFFICES ASSUME IInv, Declarations, [Next]_vars PROVE Declarations'
  OBVIOUS
<1>1. Types /\ LeavesAlone
  BY DEF IInv, TypeOK, Types
<1>2. CASE UNCHANGED vars
  BY <1>2, ElsewhereDeclarations DEF vars, Elsewhere
<1>3. CASE \E f \in Fps : Age(f)
  BY <1>1, <1>3, AgeElsewhere, ElsewhereDeclarations
<1>4. CASE \E w \in Workers : Quiet(w)
  BY <1>1, <1>4, QuietElsewhere, ElsewhereDeclarations
<1>5. CASE \E w \in Workers : Busy(w)
  BY <1>1, <1>5, RegisterPeersDeclarations, UnregisterOwnerDeclarations,
     RegisterOwnerDeclarations, UnregisterPeersDeclarations DEF Busy
<1> QED
  BY <1>1, <1>2, <1>3, <1>4, <1>5, NextCases, ResolveDeclarations

(* For an owner whose jobs never ran side by side, the handler's index     *)
(* holds what its agent declares as soon as the last job is done, however  *)
(* the jobs of other owners, the calls and the reaper interleave with it.  *)
THEOREM DeclarationsCorrect == Spec => []DeclarationsMatch
<1>1. Declarations => DeclarationsMatch
  BY DEF Declarations, DeclarationsMatch, JobsCurrent
<1> QED
  BY <1>1, InitDeclarations, NextDeclarations, IInvAlways, PTL DEF Spec
-----------------------------------------------------------------------------
(* The truth of a peer's status                                            *)

Removes(w, f) == \/ pc[w] \in {"stop", "rc_stop"} /\ arg[w].fp = f
                 \/ pc[w] = "reap" /\ f \in arg[w].fps
Awaits(w, f) == pc[w] \in {"await", "mark"} /\ arg[w].fp = f
PastGate == {"gate"} \cup Gated

LEMMA RemovingRemoves == \A f : Removing(f) <=> \E w \in Workers : Removes(w, f)
BY DEF Removing, Removes

LEMMA RemovingRemovesNext == \A f : Removing(f)' <=> \E w \in Workers : Removes(w, f)'
BY DEF Removing, Removes

(* The step has not made f one of the raced.                               *)
Clear(f) == ~(Removing(f)' /\ (Connecting(f)' \/ Calling(f)'))

SameStatus(f) ==
  /\ f \in DOMAIN peers' <=> f \in DOMAIN peers
  /\ f \in DOMAIN peers => /\ peers'[f].status = peers[f].status
                           /\ peers'[f].gate = peers[f].gate
                           /\ peers[f].used # "never" => peers'[f].used # "never"

SameConnects(f) == \A v \in Workers :
  /\ cpc'[v][f] \in Gated <=> cpc[v][f] \in Gated
  /\ cpc'[v][f] \in PastGate => cpc'[v][f] = cpc[v][f] /\ gate'[v][f] = gate[v][f]

(* A step that is about something else.                                    *)
LEMMA SoundSame ==
  ASSUME NEW f \in Fps, Sound(f), Clear(f), SameStatus(f), SameConnects(f), bridge'[f] = bridge[f],
         \A v \in Workers : Removes(v, f)' <=> Removes(v, f),
         \A v \in Workers : Awaits(v, f)' => Awaits(v, f)
  PROVE  Sound(f)'
<1>1. Removing(f)' <=> Removing(f)
  BY RemovingRemoves, RemovingRemovesNext
<1>2. Untroubled(f)'
  BY <1>1 DEF Sound, Untroubled, Clear, SameStatus
<1>3. OneGate(f)'
  BY DEF Sound, OneGate, SameStatus, SameConnects, PastGate
<1>4. InGate(f)'
  <2> SUFFICES ASSUME NEW w \in Workers, cpc'[w][f] \in Gated
               PROVE  /\ cpc'[w][f] \in {"spawn", "push", "fail"} =>
                           peers'[f].status = "connecting" /\ bridge'[f] = 0
                      /\ cpc'[w][f] = "settle" =>
                           peers'[f].status \in {"connecting", "failed"} /\ bridge'[f] = 1
    BY DEF InGate, Gated
  <2>1. cpc'[w][f] = cpc[w][f]
    BY DEF SameConnects, PastGate
  <2>2. f \in DOMAIN peers
    BY <2>1 DEF Sound, OneGate
  <2> QED
    BY <2>1, <2>2 DEF Sound, InGate, SameStatus
<1>5. CallsHaveProcess(f)'
  BY DEF Sound, CallsHaveProcess, Awaits
<1>6. StatusTrue(f)'
  BY <1>1 DEF Sound, StatusTrue, SameStatus, SameConnects
<1> QED
  BY <1>2, <1>3, <1>4, <1>5, <1>6 DEF Sound

(* A step after which f is about to be stopped.                            *)
LEMMA SoundRemoved ==
  ASSUME NEW f \in Fps, Clear(f), Removing(f)',
         f \in DOMAIN peers' => peers'[f].status = "disconnected"
  PROVE  Sound(f)'
<1>1. ~Connecting(f)' /\ ~Calling(f)'
  BY DEF Clear
<1>2. \A v \in Workers : cpc'[v][f] = "none"
  BY <1>1 DEF Connecting
<1> QED
  BY <1>1, <1>2 DEF Sound, Untroubled, OneGate, InGate, CallsHaveProcess, StatusTrue, Calling, Gated

(* A step that stops f.                                                    *)
LEMMA SoundStopped ==
  ASSUME NEW f \in Fps, Sound(f), Clear(f), Removing(f), SameStatus(f), bridge'[f] = 0,
         \A v \in Workers : cpc'[v][f] \in {"none", "start"},
         \A v \in Workers : ~Awaits(v, f)'
  PROVE  Sound(f)'
<1>1. f \in DOMAIN peers => peers[f].status = "disconnected"
  BY DEF Sound, Untroubled
<1> QED
  BY <1>1 DEF Sound, Untroubled, Clear, OneGate, InGate, CallsHaveProcess, StatusTrue, Awaits, Gated,
              SameStatus

(* The same, when one task moves.                                          *)
LEMMA SoundAside ==
  ASSUME NEW f \in Fps, NEW w \in Workers, OnlyMoves(w), Sound(f), Clear(f), SameStatus(f),
         bridge'[f] = bridge[f],
         cpc'[w][f] \in Gated <=> cpc[w][f] \in Gated,
         cpc'[w][f] \in PastGate => cpc'[w][f] = cpc[w][f] /\ gate'[w][f] = gate[w][f],
         Removes(w, f)' <=> Removes(w, f), Awaits(w, f)' => Awaits(w, f)
  PROVE  Sound(f)'
<1>1. \A v \in Workers \ {w} : /\ Removes(v, f)' <=> Removes(v, f)
                               /\ Awaits(v, f)' <=> Awaits(v, f)
  BY DEF OnlyMoves, Removes, Awaits
<1>2. SameConnects(f)
  BY DEF OnlyMoves, SameConnects
<1> QED
  BY <1>1, <1>2, SoundSame

(* Locations at which a task neither removes nor awaits.                   *)
Harmless == Locations \ {"stop", "rc_stop", "reap", "await", "mark"}

LEMMA HarmlessTask ==
  ASSUME NEW f, NEW w, pc[w] \in Harmless
  PROVE  ~Removes(w, f) /\ ~Awaits(w, f)
BY DEF Harmless, Removes, Awaits

LEMMA HarmlessTaskNext ==
  ASSUME NEW f, NEW w, pc'[w] \in Harmless
  PROVE  ~Removes(w, f)' /\ ~Awaits(w, f)'
BY DEF Harmless, Removes, Awaits

LEMMA SameEntrySame ==
  ASSUME NEW f, f \in DOMAIN peers' <=> f \in DOMAIN peers,
         f \in DOMAIN peers => SameEntry(peers'[f], peers[f])
  PROVE  SameStatus(f)
BY DEF SameStatus, SameEntry

LEMMA BusySound ==
  ASSUME Types, NEW w \in Workers, Busy(w), NEW f \in Fps, Sound(f), Clear(f)
  PROVE  Sound(f)'
<1>1. OnlyMoves(w) /\ cpc' = cpc /\ gate' = gate /\ bridge' = bridge
  BY BusyMoves DEF Busy, RegisterPeers, UnregisterOwner, RegisterOwner, UnregisterPeers
<1>2. ASSUME NEW j \in spawned, RegisterPeers(w, j) \/ UnregisterOwner(w, j)
      PROVE  Sound(f)'
  <2>1. pc[w] \in Harmless /\ pc'[w] \in Harmless
    BY <1>2, RegisterPeersMoves, UnregisterOwnerMoves DEF Harmless, Locations
  <2>2. SameStatus(f)
    BY <1>2 DEF RegisterPeers, UnregisterOwner, SameStatus
  <2> QED
    BY <1>1, <2>1, <2>2, HarmlessTask, HarmlessTaskNext, SoundAside
<1>3. CASE RegisterOwner(w)
  <2>1. PICK o, g : o = arg[w].owner /\ g = arg[w].fp
    OBVIOUS
  <2>2. /\ pc[w] = "rg_owner"
        /\ \/ pc'[w] = "idle" /\ \A p \in Fps : ~(Moved(o, g, p) /\ Last(o, p))
           \/ pc'[w] = "stop" /\ Moved(o, g, arg'[w].fp) /\ Last(o, arg'[w].fp)
    BY <1>3, <2>1, RegisterOwnerMoves
  <2>3. /\ g \in DOMAIN peers => SameEntry(peers'[g], peers[g])
        /\ g \in DOMAIN peers' /\ (g \notin DOMAIN peers => peers'[g].status = "disconnected")
        /\ \A p \in Fps \ {g} :
             p \in DOMAIN peers' <=> p \in DOMAIN peers /\ ~(Moved(o, g, p) /\ Last(o, p))
        /\ \A p \in DOMAIN peers' \ {g} : SameEntry(peers'[p], peers[p])
    BY <1>3, <2>1, RegisterOwnerEntries
  <2>4. ~Awaits(w, f)' /\ ~Removes(w, f)
    BY <2>2 DEF Awaits, Removes
  <2>5. CASE Moved(o, g, f) /\ Last(o, f)
    <3>1. pc'[w] = "stop" /\ arg'[w].fp = f
      BY <2>2, <2>5 DEF Moved
    <3>2. Removing(f)'
      BY <3>1 DEF Removing
    <3>3. f \notin DOMAIN peers'
      BY <2>3, <2>5 DEF Moved
    <3> QED
      BY <3>2, <3>3, SoundRemoved
  <2>6. CASE ~(Moved(o, g, f) /\ Last(o, f))
    <3>1. ~Removes(w, f)'
      BY <2>2, <2>6 DEF Removes
    <3>2. CASE f # g \/ g \in DOMAIN peers
      <4>1. SameStatus(f)
        BY <2>3, <2>6, <3>2, SameEntrySame
      <4> QED
        BY <1>1, <2>4, <3>1, <4>1, SoundAside
    <3>3. CASE f = g /\ g \notin DOMAIN peers
      <4>1. peers'[f].status = "disconnected" /\ f \notin DOMAIN peers
        BY <2>3, <3>3
      <4>2. \A v \in Workers : cpc[v][f] \notin PastGate
        BY <4>1 DEF Sound, OneGate, PastGate
      <4>3. \A v \in Workers : /\ Removes(v, f)' <=> Removes(v, f)
                               /\ Awaits(v, f)' => Awaits(v, f)
        BY <1>1, <2>4, <3>1 DEF OnlyMoves, Removes, Awaits
      <4>4. Removing(f)' <=> Removing(f)
        BY <4>3, RemovingRemoves, RemovingRemovesNext
      <4>5. ~Removing(f) => bridge[f] = 0
        BY <4>1, <4>2 DEF Sound, StatusTrue, PastGate
      <4>6. Untroubled(f)'
        BY <4>1 DEF Untroubled, Clear
      <4>7. OneGate(f)' /\ InGate(f)'
        BY <1>1, <4>2 DEF OneGate, InGate, PastGate, Gated
      <4>8. CallsHaveProcess(f)'
        BY <1>1, <4>3 DEF Sound, CallsHaveProcess, Awaits
      <4>9. StatusTrue(f)'
        BY <1>1, <4>1, <4>4, <4>5 DEF StatusTrue
      <4> QED
        BY <4>6, <4>7, <4>8, <4>9 DEF Sound
    <3> QED
      BY <3>2, <3>3
  <2> QED
    BY <2>5, <2>6
<1>4. CASE UnregisterPeers(w)
  <2>1. PICK o, g : o = arg[w].owner /\ g = arg[w].fp
    OBVIOUS
  <2>2. /\ pc[w] = "un_peers" /\ o \in Owners /\ g \in Fps /\ peers' = Released(o, g)
        /\ \/ pc'[w] = "idle" /\ ~Last(o, g)
           \/ pc'[w] = "stop" /\ arg'[w].fp = g /\ Last(o, g)
    BY <1>4, <2>1, UnregisterPeersMoves
  <2>3. /\ \A p : p \in DOMAIN peers' <=> p \in DOMAIN peers /\ ~(p = g /\ Last(o, g))
        /\ \A p \in DOMAIN peers' : SameEntry(peers'[p], peers[p])
    BY <2>2, ReleasedEntries DEF Types
  <2>4. CASE f = g /\ Last(o, g)
    <3>1. Removing(f)'
      BY <2>2, <2>4 DEF Removing
    <3> QED
      BY <2>3, <2>4, <3>1, SoundRemoved
  <2>5. CASE ~(f = g /\ Last(o, g))
    <3>1. ~Removes(w, f)' /\ ~Awaits(w, f)' /\ ~Removes(w, f)
      BY <2>2, <2>5 DEF Removes, Awaits
    <3>2. SameStatus(f)
      BY <2>3, <2>5, SameEntrySame
    <3> QED
      BY <1>1, <3>1, <3>2, SoundAside
  <2> QED
    BY <2>4, <2>5
<1> QED
  BY <1>2, <1>3, <1>4 DEF Busy

(* The connects.  Every step is at one peer; the others see nothing.       *)
LEMMA PeersSame ==
  ASSUME NEW f, peers' = peers
  PROVE  SameStatus(f)
BY DEF SameStatus

LEMMA RevisedSame ==
  ASSUME NEW f, NEW g, f # g, NEW e, Revised(g, e)
  PROVE  SameStatus(f)
BY DEF SameStatus, Revised

LEMMA ConnectOther ==
  ASSUME Types, NEW w \in Workers, NEW g \in Fps, NEW f \in Fps, f # g, Sound(f), Clear(f),
         CloneGate(w, g) \/ PassGate(w, g) \/ Handshake(w, g) \/ PushPeer(w, g) \/ Settle(w, g)
  PROVE  Sound(f)'
<1>1. pc' = pc /\ arg' = arg /\ OnlyMoves(w)
  BY ConnectMoves DEF ConnectStep, CloneGate, PassGate, Handshake, PushPeer, Settle
<1>2. cpc'[w][f] = cpc[w][f]
  BY DEF CloneGate, PassGate, Handshake, PushPeer, Settle, Connect, Types, TaskTypes
<1>3. gate'[w][f] = gate[w][f]
  BY DEF CloneGate, PassGate, Handshake, PushPeer, Settle, Types, TaskTypes
<1>4. bridge'[f] = bridge[f]
  BY DEF CloneGate, PassGate, Handshake, PushPeer, Settle, Types, IndexTypes
<1>5. SameStatus(f)
  <2>1. CASE CloneGate(w, g) \/ Handshake(w, g) \/ PushPeer(w, g)
    BY <2>1, PeersSame DEF CloneGate, Handshake, PushPeer
  <2>2. CASE PassGate(w, g)
    BY <2>2, PassGateRevised, PeersSame, RevisedSame
  <2>3. CASE Settle(w, g)
    BY <2>3, SettleRevised, RevisedSame
  <2> QED
    BY <2>1, <2>2, <2>3
<1>6. (Removes(w, f)' <=> Removes(w, f)) /\ (Awaits(w, f)' => Awaits(w, f))
  BY <1>1 DEF Removes, Awaits
<1> QED
  BY <1>1, <1>2, <1>3, <1>4, <1>5, <1>6, SoundAside

(* At the peer itself: what the step does to its connects and no more.     *)
LEMMA ConnectHere ==
  ASSUME Types, NEW w \in Workers, NEW f \in Fps,
         CloneGate(w, f) \/ PassGate(w, f) \/ Handshake(w, f) \/ PushPeer(w, f) \/ Settle(w, f)
  PROVE  /\ pc' = pc /\ arg' = arg /\ (Removing(f)' <=> Removing(f))
         /\ \A v \in Workers \ {w} : cpc'[v][f] = cpc[v][f] /\ gate'[v][f] = gate[v][f]
         /\ cpc[w][f] # "none" /\ (Sound(f) => ~Removing(f))
<1>1. pc' = pc /\ arg' = arg /\ OnlyMoves(w) /\ cpc[w][f] # "none"
  BY ConnectMoves DEF ConnectStep, CloneGate, PassGate, Handshake, PushPeer, Settle
<1> QED
  BY <1>1 DEF OnlyMoves, Removing, Sound, Untroubled, Connecting

LEMMA CloneGateSound ==
  ASSUME Types, NEW w \in Workers, NEW f \in Fps, CloneGate(w, f), Sound(f), Clear(f)
  PROVE  Sound(f)'
<1>1. /\ peers' = peers /\ bridge' = bridge
      /\ cpc[w][f] = "start"
      /\ \/ f \in DOMAIN peers /\ cpc'[w][f] = "gate" /\ gate'[w][f] = peers[f].gate
         \/ cpc'[w][f] = "none"
  BY DEF CloneGate, Connect, Types, TaskTypes
<1>2. /\ pc' = pc /\ arg' = arg /\ (Removing(f)' <=> Removing(f))
      /\ \A v \in Workers \ {w} : cpc'[v][f] = cpc[v][f] /\ gate'[v][f] = gate[v][f]
  BY ConnectHere
<1>3. Untroubled(f)'
  BY <1>1, <1>2 DEF Sound, Untroubled, Clear
<1>4. OneGate(f)'
  BY <1>1, <1>2 DEF Sound, OneGate, Gated
<1>5. InGate(f)'
  BY <1>1, <1>2 DEF Sound, InGate
<1>6. CallsHaveProcess(f)'
  BY <1>1, <1>2 DEF Sound, CallsHaveProcess
<1>7. StatusTrue(f)'
  <2>1. (\A v \in Workers : cpc'[v][f] \notin Gated) => (\A v \in Workers : cpc[v][f] \notin Gated)
    BY <1>1, <1>2 DEF Gated
  <2> QED
    BY <1>1, <1>2, <2>1 DEF Sound, StatusTrue
<1> QED
  BY <1>3, <1>4, <1>5, <1>6, <1>7 DEF Sound

(* Nobody else is past the gate that w passes.                             *)
LEMMA PassGateAlone ==
  ASSUME Types, NEW w \in Workers, NEW f \in Fps, PassGate(w, f), Sound(f)
  PROVE  f \in DOMAIN peers /\ \A v \in Workers : cpc[v][f] \notin Gated
<1>1. cpc[w][f] = "gate" /\ GateFree(f, gate[w][f])
  BY DEF PassGate
<1> QED
  BY <1>1 DEF Sound, OneGate, GateFree, Gated

LEMMA PassGateSound ==
  ASSUME Types, NEW w \in Workers, NEW f \in Fps, PassGate(w, f), Sound(f), Clear(f)
  PROVE  Sound(f)'
<1>1. f \in DOMAIN peers /\ \A v \in Workers : cpc[v][f] \notin Gated
  BY PassGateAlone
<1>2. /\ pc' = pc /\ arg' = arg /\ (Removing(f)' <=> Removing(f)) /\ ~Removing(f)
      /\ \A v \in Workers \ {w} : cpc'[v][f] = cpc[v][f] /\ gate'[v][f] = gate[v][f]
      /\ bridge' = bridge
  BY ConnectHere DEF PassGate
<1>3. cpc[w][f] = "gate" /\ gate[w][f] = peers[f].gate
  BY DEF PassGate, Sound, OneGate
<1>4. CASE /\ StillNeeded(f) /\ Connect(w, f, "spawn") /\ gate' = gate
           /\ Revised(f, [status |-> "connecting", used |-> peers[f].used])
  <2>1. cpc'[w][f] = "spawn" /\ gate'[w][f] = gate[w][f]
    BY <1>4 DEF Connect, Types, TaskTypes
  <2>2. f \in DOMAIN peers' /\ peers'[f].status = "connecting" /\ peers'[f].gate = peers[f].gate
    BY <1>1, <1>4 DEF Revised
  <2>3. bridge[f] = 0
    <3>1. peers[f].status \in Statuses
      BY <1>1 DEF Types, IndexTypes, PeerEntry
    <3> QED
      BY <1>1, <1>2, <1>4, <3>1 DEF Sound, StatusTrue, StillNeeded, Statuses
  <2>4. Untroubled(f)'
    BY <1>2 DEF Untroubled
  <2>5. OneGate(f)'
    BY <1>1, <1>2, <1>3, <2>1, <2>2 DEF Sound, OneGate
  <2>6. InGate(f)'
    BY <1>1, <1>2, <2>1, <2>2, <2>3 DEF InGate, Gated
  <2>7. CallsHaveProcess(f)'
    BY <1>2 DEF Sound, CallsHaveProcess
  <2>8. StatusTrue(f)'
    BY <2>1 DEF StatusTrue, Gated
  <2> QED
    BY <2>4, <2>5, <2>6, <2>7, <2>8 DEF Sound
<1>5. CASE Connect(w, f, "none") /\ peers' = peers
  <2>1. cpc'[w][f] = "none"
    BY <1>5 DEF Connect, Types, TaskTypes
  <2>2. OneGate(f)'
    BY <1>2, <1>5, <2>1 DEF Sound, OneGate, Gated
  <2>3. InGate(f)' /\ CallsHaveProcess(f)'
    BY <1>1, <1>2, <2>1, <1>5 DEF Sound, InGate, Gated, CallsHaveProcess
  <2>4. StatusTrue(f)'
    BY <1>1, <1>2, <1>5 DEF Sound, StatusTrue
  <2>5. Untroubled(f)'
    BY <1>2 DEF Untroubled
  <2> QED
    BY <2>2, <2>3, <2>4, <2>5 DEF Sound
<1> QED
  BY <1>4, <1>5, PassGateRevised

LEMMA ProcessSound ==
  ASSUME Types, NEW w \in Workers, NEW f \in Fps, Handshake(w, f) \/ PushPeer(w, f), Sound(f), Clear(f)
  PROVE  Sound(f)'
<1>1. /\ pc' = pc /\ arg' = arg /\ (Removing(f)' <=> Removing(f)) /\ ~Removing(f)
      /\ \A v \in Workers \ {w} : cpc'[v][f] = cpc[v][f] /\ gate'[v][f] = gate[v][f]
      /\ peers' = peers /\ gate' = gate
  BY ConnectHere DEF Handshake, PushPeer
<1>2. /\ cpc[w][f] \in {"spawn", "push"}
      /\ \/ cpc'[w][f] \in {"push", "fail"} /\ bridge' = bridge
         \/ cpc'[w][f] = "settle" /\ bridge'[f] = bridge[f] + 1
  BY DEF Handshake, PushPeer, Connect, Types, TaskTypes, IndexTypes
<1>3. /\ f \in DOMAIN peers /\ peers[f].status = "connecting" /\ bridge[f] = 0
      /\ \A v \in Workers \ {w} : cpc[v][f] \notin Gated
  BY <1>2 DEF Sound, OneGate, InGate, Gated
<1>4. cpc'[w][f] \in Gated /\ cpc[w][f] \in Gated
  BY <1>2 DEF Gated
<1>5. Untroubled(f)'
  BY <1>1 DEF Untroubled
<1>6. OneGate(f)'
  <2>1. gate[w][f] = peers[f].gate
    BY <1>4 DEF Sound, OneGate
  <2> QED
    BY <1>1, <1>3, <2>1 DEF Sound, OneGate
<1>7. InGate(f)'
  BY <1>1, <1>2, <1>3 DEF InGate, Gated
<1>8. CallsHaveProcess(f)'
  <2>1. \A v \in Workers : ~(pc[v] \in {"await", "mark"} /\ arg[v].fp = f)
    BY <1>3 DEF Sound, CallsHaveProcess
  <2> QED
    BY <1>1, <2>1 DEF CallsHaveProcess
<1>9. StatusTrue(f)'
  BY <1>4 DEF StatusTrue
<1> QED
  BY <1>5, <1>6, <1>7, <1>8, <1>9 DEF Sound

LEMMA SettleSound ==
  ASSUME Types, NEW w \in Workers, NEW f \in Fps, Settle(w, f), Sound(f), Clear(f)
  PROVE  Sound(f)'
<1>1. /\ pc' = pc /\ arg' = arg /\ (Removing(f)' <=> Removing(f)) /\ ~Removing(f)
      /\ \A v \in Workers \ {w} : cpc'[v][f] = cpc[v][f] /\ gate'[v][f] = gate[v][f]
      /\ bridge' = bridge
  BY ConnectHere DEF Settle
<1>2. cpc[w][f] \in {"settle", "fail"} /\ cpc'[w][f] = "none"
  BY DEF Settle, Connect, Types, TaskTypes
<1>3. /\ f \in DOMAIN peers
      /\ \A v \in Workers \ {w} : cpc[v][f] \notin Gated
      /\ cpc[w][f] = "settle" => bridge[f] = 1
      /\ cpc[w][f] = "fail" => bridge[f] = 0
  BY <1>2 DEF Sound, OneGate, InGate, Gated
<1>4. /\ f \in DOMAIN peers' /\ peers'[f].used = "recently" /\ peers'[f].gate = peers[f].gate
      /\ peers'[f].status = IF cpc[w][f] = "settle" THEN "connected" ELSE "failed"
  BY <1>3, SettleRevised DEF Revised
<1>5. \A v \in Workers : cpc'[v][f] \notin Gated
  BY <1>1, <1>2, <1>3 DEF Gated
<1>6. Untroubled(f)'
  BY <1>1 DEF Untroubled
<1>7. OneGate(f)' /\ InGate(f)'
  BY <1>1, <1>2, <1>3, <1>4, <1>5 DEF Sound, OneGate, InGate, Gated
<1>8. CallsHaveProcess(f)'
  BY <1>1 DEF Sound, CallsHaveProcess
<1>9. StatusTrue(f)'
  <2>1. bridge'[f] = IF cpc[w][f] = "settle" THEN 1 ELSE 0
    BY <1>1, <1>2, <1>3
  <2> QED
    BY <1>2, <1>4, <2>1 DEF StatusTrue
<1> QED
  BY <1>6, <1>7, <1>8, <1>9 DEF Sound

LEMMA ConnectSound ==
  ASSUME Types, NEW w \in Workers, ConnectStep(w), NEW f \in Fps, Sound(f), Clear(f)
  PROVE  Sound(f)'
<1>1. PICK g \in Fps : \/ CloneGate(w, g) \/ PassGate(w, g) \/ Handshake(w, g)
                       \/ PushPeer(w, g) \/ Settle(w, g)
  BY DEF ConnectStep
<1>2. CASE g # f
  BY <1>1, <1>2, ConnectOther
<1>3. CASE g = f
  BY <1>1, <1>3, CloneGateSound, PassGateSound, ProcessSound, SettleSound
<1> QED
  BY <1>2, <1>3

(* The calls, and the other steps of a task that has nothing to stop.      *)
LEMMA HarmlessSound ==
  ASSUME Types, ConnectsJoined, NEW w \in Workers, NEW f \in Fps, Sound(f), Clear(f),
         \/ \E a \in Agents : Dispatch(w, a)
         \/ \E o \in Owners : Reconnect(w, o)
         \/ Reconnected(w) \/ EnsureConnected(w) \/ AllowedOwners(w) \/ Allowed(w)
         \/ ListTools(w) \/ Touch(w)
  PROVE  Sound(f)'
<1>1. Quiet(w)
  BY DEF Quiet, CallStep
<1>2. OnlyMoves(w)
  BY <1>1, QuietMoves
<1>3. pc[w] \in Harmless /\ pc'[w] \in Harmless
  <2>1. pc[w] \in Harmless
    BY DEF Dispatch, Reconnect, Reconnected, EnsureConnected, AllowedOwners, Allowed, ListTools,
           Touch, Harmless, Locations
  <2>2. Finish(w) \/ \E p \in Harmless : Goto(w, p)
    BY DEF Dispatch, Reconnect, Reconnected, EnsureConnected, AllowedOwners, Allowed, ListTools,
           Touch, Harmless, Locations
  <2> QED
    BY <2>1, <2>2 DEF Finish, Goto, Harmless, Locations, Types, TaskTypes
<1>4. bridge' = bridge /\ gate' = gate
  BY DEF Dispatch, Reconnect, Reconnected, EnsureConnected, AllowedOwners, Allowed, ListTools, Touch
<1>5. SameStatus(f)
  <2>1. CASE Touch(w) /\ arg[w].fp \in DOMAIN peers
    <3>1. PICK g \in DOMAIN peers : peers' = [peers EXCEPT ![g].used = "recently"]
      BY <2>1 DEF Touch
    <3>2. peers[g] \in PeerEntry
      BY DEF Types, IndexTypes
    <3> QED
      BY <3>1, <3>2 DEF SameStatus, PeerEntry
  <2>2. CASE ~(Touch(w) /\ arg[w].fp \in DOMAIN peers)
    BY <2>2 DEF Dispatch, Reconnect, Reconnected, EnsureConnected, AllowedOwners, Allowed, ListTools,
                Touch, SameStatus
  <2> QED
    BY <2>1, <2>2
<1>6. cpc'[w][f] = cpc[w][f] \/ (cpc[w][f] = "none" /\ cpc'[w][f] \in {"none", "start"})
  <2>1. CASE EnsureConnected(w)
    BY <2>1 DEF EnsureConnected, ConnectsJoined, Joined, Types, TaskTypes
  <2>2. CASE ~EnsureConnected(w)
    BY <2>2 DEF Dispatch, Reconnect, Reconnected, AllowedOwners, Allowed, ListTools, Touch
  <2> QED
    BY <2>1, <2>2
<1>7. /\ cpc'[w][f] \in Gated <=> cpc[w][f] \in Gated
      /\ cpc'[w][f] \in PastGate => cpc'[w][f] = cpc[w][f] /\ gate'[w][f] = gate[w][f]
  BY <1>4, <1>6 DEF Gated, PastGate
<1> QED
  BY <1>2, <1>3, <1>4, <1>5, <1>7, HarmlessTask, HarmlessTaskNext, SoundAside

LEMMA CallSound ==
  ASSUME Types, NEW w \in Workers, NEW f \in Fps, Sound(f), Clear(f), CallPeer(w) \/ Answer(w)
  PROVE  Sound(f)'
<1>1. OnlyMoves(w)
  BY QuietMoves DEF Quiet, CallStep
<1>2. peers' = peers /\ bridge' = bridge /\ cpc' = cpc /\ gate' = gate
  BY DEF CallPeer, Answer
<1>3. ~Removes(w, f)' /\ ~Removes(w, f)
  BY DEF CallPeer, Answer, Finish, Goto, Removes, Types, TaskTypes
<1>4. CASE Awaits(w, f)' => Awaits(w, f)
  BY <1>1, <1>2, <1>3, <1>4, PeersSame, SoundAside
<1>5. CASE Awaits(w, f)' /\ ~Awaits(w, f)
  <2>1. bridge[f] > 0
    BY <1>5 DEF CallPeer, Answer, Finish, Goto, Awaits, Types, TaskTypes
  <2>2. \A v \in Workers : Removes(v, f)' <=> Removes(v, f)
    BY <1>1, <1>3 DEF OnlyMoves, Removes
  <2>3. Removing(f)' <=> Removing(f)
    BY <2>2, RemovingRemoves, RemovingRemovesNext
  <2>4. Untroubled(f)'
    BY <1>2, <2>3 DEF Sound, Untroubled, Clear
  <2>5. OneGate(f)' /\ InGate(f)'
    BY <1>2 DEF Sound, OneGate, InGate
  <2>6. StatusTrue(f)'
    BY <1>2, <2>3 DEF Sound, StatusTrue
  <2>7. CallsHaveProcess(f)'
    BY <1>2, <2>1 DEF CallsHaveProcess
  <2> QED
    BY <2>4, <2>5, <2>6, <2>7 DEF Sound
<1> QED
  BY <1>4, <1>5

(* A call that lost its process: the entry fails, and the reaper will come *)
(* to what the bridge still holds.                                         *)
LEMMA MarkFailedSound ==
  ASSUME Types, NEW w \in Workers, NEW f \in Fps, Sound(f), Clear(f), MarkFailed(w)
  PROVE  Sound(f)'
<1>1. OnlyMoves(w)
  BY QuietMoves DEF Quiet, CallStep
<1>2. bridge' = bridge /\ cpc' = cpc /\ gate' = gate /\ pc[w] = "mark" /\ pc'[w] = "idle"
  BY FinishMoves DEF MarkFailed, Types
<1>3. ~Removes(w, f)' /\ ~Removes(w, f) /\ ~Awaits(w, f)'
  BY <1>2 DEF Removes, Awaits
<1>4. PICK g : g = arg[w].fp
  OBVIOUS
<1>5. CASE g \notin DOMAIN peers
  <2>1. peers' = peers
    BY <1>4, <1>5 DEF MarkFailed
  <2> QED
    BY <1>1, <1>2, <1>3, <2>1, PeersSame, SoundAside
<1>6. CASE g \in DOMAIN peers
  <2>1. peers' = [peers EXCEPT ![g].status = "failed"]
    BY <1>4, <1>6 DEF MarkFailed
  <2>2. DOMAIN peers[g] = {"status", "tools", "refs", "used", "gate"}
    BY <1>6 DEF Types, IndexTypes, PeerEntry
  <2>3. CASE g # f
    <3>1. SameStatus(f)
      BY <2>1, <2>3 DEF SameStatus
    <3> QED
      BY <1>1, <1>2, <1>3, <3>1, SoundAside
  <2>4. CASE g = f
    <3>1. /\ f \in DOMAIN peers' /\ f \in DOMAIN peers /\ peers'[f].status = "failed"
          /\ peers'[f].gate = peers[f].gate /\ peers'[f].used = peers[f].used
      BY <1>6, <2>1, <2>2, <2>4
    <3>2. bridge[f] > 0 /\ Calling(f)
      BY <1>2, <1>4, <2>4 DEF Sound, CallsHaveProcess, Calling
    <3>3. ~Removing(f)
      BY <3>2 DEF Sound, Untroubled
    <3>4. \A v \in Workers : Removes(v, f)' <=> Removes(v, f)
      BY <1>1, <1>3 DEF OnlyMoves, Removes
    <3>5. ~Removing(f)'
      BY <3>3, <3>4, RemovingRemoves, RemovingRemovesNext
    <3>6. OneGate(f)'
      BY <1>2, <3>1 DEF Sound, OneGate
    <3>7. InGate(f)'
      BY <1>2, <3>1, <3>2 DEF Sound, InGate
    <3>8. CallsHaveProcess(f)'
      BY <1>2, <3>2 DEF CallsHaveProcess
    <3>9. StatusTrue(f)'
      <4>1. CASE \A v \in Workers : cpc[v][f] \notin Gated
        <5>1. peers[f].status \in Statuses /\ bridge[f] \in Nat
          BY <3>1 DEF Types, IndexTypes, PeerEntry
        <5>2. bridge[f] <= 1 /\ peers[f].used # "never"
          BY <3>1, <3>2, <3>3, <4>1, <5>1 DEF Sound, StatusTrue, Statuses
        <5> QED
          BY <1>2, <3>1, <5>2 DEF StatusTrue
      <4>2. CASE \E v \in Workers : cpc[v][f] \in Gated
        BY <1>2, <4>2 DEF StatusTrue
      <4> QED
        BY <4>1, <4>2
    <3> QED
      BY <3>5, <3>6, <3>7, <3>8, <3>9 DEF Sound, Untroubled
  <2> QED
    BY <2>3, <2>4
<1> QED
  BY <1>5, <1>6

(* A dropped call gives up its connects before they have left a process.   *)
LEMMA DropCallSound ==
  ASSUME Types, ConnectsJoined, NEW w \in Workers, NEW f \in Fps, Sound(f), Clear(f), DropCall(w)
  PROVE  Sound(f)'
<1>1. OnlyMoves(w)
  BY QuietMoves DEF Quiet
<1>2. /\ peers' = peers /\ bridge' = bridge /\ pc'[w] = "idle" /\ cpc'[w][f] = "none"
      /\ pc[w] \in {"list", "call", "await", "join"}
  BY FinishMoves DEF DropCall, Types, TaskTypes
<1>3. cpc[w][f] \in {"none", "gate", "spawn", "push"}
  BY DEF DropCall, ConnectsJoined, Joined
<1>4. ~Removes(w, f)' /\ ~Removes(w, f) /\ ~Awaits(w, f)'
  BY <1>2 DEF Removes, Awaits
<1>5. CASE cpc[w][f] \in {"none", "gate"}
  <2>1. cpc'[w][f] \notin PastGate /\ cpc'[w][f] \notin Gated /\ cpc[w][f] \notin Gated
    BY <1>2, <1>5 DEF PastGate, Gated
  <2> QED
    BY <1>1, <1>2, <1>4, <2>1, PeersSame, SoundAside
<1>6. CASE cpc[w][f] \in {"spawn", "push"}
  <2>1. /\ f \in DOMAIN peers /\ peers[f].status = "connecting" /\ bridge[f] = 0
        /\ ~Removing(f)
    BY <1>6 DEF Sound, OneGate, InGate, Untroubled, Connecting, Gated
  <2>2. \A v \in Workers : /\ Removes(v, f)' <=> Removes(v, f)
                           /\ Awaits(v, f)' => Awaits(v, f)
    BY <1>1, <1>4 DEF OnlyMoves, Removes, Awaits
  <2>3. ~Removing(f)'
    BY <2>1, <2>2, RemovingRemoves, RemovingRemovesNext
  <2>4. \A v \in Workers : \/ cpc'[v][f] = cpc[v][f] /\ gate'[v][f] = gate[v][f]
                           \/ cpc'[v][f] = "none"
    BY <1>1, <1>2 DEF OnlyMoves
  <2>5. OneGate(f)' /\ InGate(f)'
    BY <1>2, <2>1, <2>4 DEF Sound, OneGate, InGate, Gated
  <2>6. CallsHaveProcess(f)'
    BY <1>2, <2>2 DEF Sound, CallsHaveProcess, Awaits
  <2>7. StatusTrue(f)'
    BY <1>2, <2>1 DEF StatusTrue
  <2> QED
    BY <2>3, <2>5, <2>6, <2>7 DEF Sound, Untroubled
<1> QED
  BY <1>3, <1>5, <1>6

(* The stops.                                                              *)
LEMMA StoppedSound ==
  ASSUME Types, NEW w \in Workers, NEW f \in Fps, Sound(f), Clear(f), OnlyMoves(w), Removes(w, f),
         peers' = peers, bridge'[f] = 0, cpc'[w][f] \in {"none", "start"}, ~Awaits(w, f)'
  PROVE  Sound(f)'
<1>1. Removing(f)
  BY RemovingRemoves
<1>2. ~Connecting(f) /\ ~Calling(f)
  BY <1>1 DEF Sound, Untroubled
<1>3. \A v \in Workers : cpc'[v][f] \in {"none", "start"} /\ ~Awaits(v, f)'
  BY <1>2 DEF OnlyMoves, Connecting, Calling, Awaits
<1> QED
  BY <1>1, <1>3, PeersSame, SoundStopped

LEMMA StopSound ==
  ASSUME Types, ConnectsJoined, NEW w \in Workers, NEW f \in Fps, Sound(f), Clear(f),
         Stop(w) \/ ReconnectStop(w)
  PROVE  Sound(f)'
<1>1. OnlyMoves(w)
  BY QuietMoves DEF Quiet
<1>2. PICK g \in Fps : g = arg[w].fp
  BY DEF Types, TaskTypes
<1>3. /\ peers' = peers /\ bridge' = [bridge EXCEPT ![g] = 0] /\ gate' = gate
      /\ pc[w] \in {"stop", "rc_stop"}
  BY <1>2 DEF Stop, ReconnectStop, RemoveServer
<1>4. pc'[w] \in {"idle", "rc_join"}
  BY DEF Stop, ReconnectStop, Finish, Goto, Types, TaskTypes
<1>5. cpc[w][f] = "none"
  BY <1>3 DEF ConnectsJoined, Joined
<1>6. cpc' = cpc \/ cpc' = [cpc EXCEPT ![w][g] = "start"]
  BY <1>2 DEF Stop, ReconnectStop, Connect
<1>7. cpc'[w][f] \in {"none", "start"}
  BY <1>5, <1>6 DEF Types, TaskTypes
<1>8. ~Awaits(w, f)' /\ ~Removes(w, f)'
  BY <1>4 DEF Awaits, Removes
<1>9. CASE f = g
  <2>1. Removes(w, f) /\ bridge'[f] = 0
    BY <1>2, <1>3, <1>9 DEF Removes, Types, IndexTypes
  <2> QED
    BY <1>1, <1>3, <1>7, <1>8, <2>1, StoppedSound
<1>10. CASE f # g
  <2>1. ~Removes(w, f) /\ bridge'[f] = bridge[f]
    BY <1>2, <1>3, <1>10 DEF Removes, Types, IndexTypes
  <2>2. cpc'[w][f] \notin PastGate /\ cpc'[w][f] \notin Gated /\ cpc[w][f] \notin Gated
    BY <1>5, <1>7 DEF PastGate, Gated
  <2> QED
    BY <1>1, <1>3, <1>8, <2>1, <2>2, PeersSame, SoundAside
<1> QED
  BY <1>9, <1>10

LEMMA ReconnectIdleSound ==
  ASSUME Types, NEW w \in Workers, NEW f \in Fps, Sound(f), Clear(f), ReconnectIdle(w)
  PROVE  Sound(f)'
<1>1. OnlyMoves(w)
  BY QuietMoves DEF Quiet
<1>2. PICK g \in Fps : g = arg[w].fp
  BY DEF Types, TaskTypes
<1>3. bridge' = bridge /\ cpc' = cpc /\ gate' = gate /\ pc[w] = "rc_idle"
  BY DEF ReconnectIdle
<1>4. ~Removes(w, f) /\ ~Awaits(w, f)
  BY <1>3 DEF Removes, Awaits
<1>5. CASE g \notin DOMAIN peers
  <2>1. peers' = peers /\ pc'[w] = "idle"
    BY <1>2, <1>5, FinishMoves DEF ReconnectIdle, Types
  <2>2. ~Removes(w, f)' /\ ~Awaits(w, f)'
    BY <2>1 DEF Removes, Awaits
  <2> QED
    BY <1>1, <1>3, <1>4, <2>1, <2>2, PeersSame, SoundAside
<1>6. CASE g \in DOMAIN peers
  <2>1. peers' = [peers EXCEPT ![g].status = "disconnected", ![g].tools = FALSE]
    BY <1>2, <1>6, Zenon DEF ReconnectIdle
  <2>2. pc'[w] = "rc_stop" /\ arg' = arg
    BY <1>2, <1>6 DEF ReconnectIdle, Goto, Types, TaskTypes
  <2>3. Revised(g, [status |-> "disconnected", used |-> peers[g].used])
    BY <1>6, <2>1, StatusRevised DEF Types
  <2>4. CASE f = g
    <3>1. Removing(f)'
      BY <1>2, <2>2, <2>4 DEF Removing
    <3>2. peers'[f].status = "disconnected"
      BY <1>6, <2>3, <2>4 DEF Revised
    <3> QED
      BY <3>1, <3>2, SoundRemoved
  <2>5. CASE f # g
    <3>1. ~Removes(w, f)' /\ ~Awaits(w, f)'
      BY <1>2, <2>2, <2>5 DEF Removes, Awaits
    <3> QED
      BY <1>1, <1>3, <1>4, <2>3, <2>5, <3>1, RevisedSame, SoundAside
  <2> QED
    BY <2>4, <2>5
<1> QED
  BY <1>5, <1>6

LEMMA ReapSound ==
  ASSUME Types, NEW w \in Workers, NEW f \in Fps, Sound(f), Clear(f), Reap(w)
  PROVE  Sound(f)'
<1>1. OnlyMoves(w)
  BY QuietMoves DEF Quiet
<1>2. bridge' = bridge /\ cpc' = cpc /\ gate' = gate /\ pc[w] = "idle" /\ pc'[w] = "reap"
  BY DEF Reap, Goto, Types, TaskTypes
<1>3. arg'[w].fps = Expired
  BY DEF Reap, Types, TaskTypes
<1>4. /\ DOMAIN peers' = DOMAIN peers
      /\ \A g \in DOMAIN peers \ Expired : peers'[g] = peers[g]
      /\ \A g \in Expired : peers'[g].status = "disconnected"
  <2>1. Expired \subseteq DOMAIN peers
    BY DEF Expired
  <2> QED
    BY <2>1, ReapedRevised DEF Reap, Types
<1>5. CASE f \in Expired
  <2>1. Removing(f)'
    BY <1>2, <1>3, <1>5 DEF Removing
  <2> QED
    BY <1>4, <1>5, <2>1, SoundRemoved
<1>6. CASE f \notin Expired
  <2>1. SameStatus(f)
    BY <1>4, <1>6 DEF SameStatus
  <2>2. ~Removes(w, f) /\ ~Removes(w, f)' /\ ~Awaits(w, f)'
    BY <1>2, <1>3, <1>6 DEF Removes, Awaits
  <2> QED
    BY <1>1, <1>2, <2>1, <2>2, SoundAside
<1> QED
  BY <1>5, <1>6

LEMMA ReapStopSound ==
  ASSUME Types, ConnectsJoined, NEW w \in Workers, NEW f \in Fps, Sound(f), Clear(f), ReapStop(w)
  PROVE  Sound(f)'
<1>1. OnlyMoves(w)
  BY QuietMoves DEF Quiet
<1>2. PICK g \in arg[w].fps :
        /\ RemoveServer(g)
        /\ IF arg[w].fps = {g} THEN Finish(w)
           ELSE arg' = [arg EXCEPT ![w].fps = @ \ {g}] /\ UNCHANGED pc
  BY DEF ReapStop
<1>3. peers' = peers /\ cpc' = cpc /\ gate' = gate /\ pc[w] = "reap" /\ g \in Fps
  BY DEF ReapStop, Types, TaskTypes
<1>4. bridge'[g] = 0 /\ (f # g => bridge'[f] = bridge[f])
  BY <1>2, <1>3 DEF RemoveServer, Types, IndexTypes
<1>5. cpc[w][f] = "none"
  BY <1>3 DEF ConnectsJoined, Joined
<1>6. \/ arg[w].fps = {g} /\ pc'[w] = "idle"
      \/ arg[w].fps # {g} /\ pc'[w] = "reap" /\ arg'[w].fps = arg[w].fps \ {g}
  <2>1. CASE arg[w].fps = {g}
    BY <1>2, <2>1, FinishMoves DEF Types
  <2>2. CASE arg[w].fps # {g}
    <3>1. arg' = [arg EXCEPT ![w].fps = @ \ {g}] /\ pc' = pc
      BY <1>2, <2>2
    <3> QED
      BY <1>3, <2>2, <3>1 DEF Types, TaskTypes
  <2> QED
    BY <2>1, <2>2
<1>7. ~Awaits(w, f)'
  BY <1>6 DEF Awaits
<1>8. CASE f = g
  <2>1. Removes(w, f)
    BY <1>3, <1>8 DEF Removes
  <2> QED
    BY <1>1, <1>3, <1>4, <1>5, <1>7, <1>8, <2>1, StoppedSound
<1>9. CASE f # g
  <2>1. Removes(w, f)' <=> Removes(w, f)
    BY <1>3, <1>6, <1>9 DEF Removes
  <2> QED
    BY <1>1, <1>3, <1>4, <1>7, <1>9, <2>1, PeersSame, SoundAside
<1> QED
  BY <1>8, <1>9

LEMMA QuietSound ==
  ASSUME Types, ConnectsJoined, NEW w \in Workers, Quiet(w), NEW f \in Fps, Sound(f), Clear(f)
  PROVE  Sound(f)'
BY ConnectSound, HarmlessSound, CallSound, MarkFailedSound, DropCallSound, StopSound,
   ReconnectIdleSound, ReapSound, ReapStopSound DEF Quiet, CallStep

(* Steps in which no task moves.                                           *)
LEMMA IdleSound ==
  ASSUME Types, NEW f \in Fps, Sound(f), Clear(f),
         UNCHANGED vars \/ ResolveOrForget \/ \E g \in Fps : Age(g)
  PROVE  Sound(f)'
<1>1. UNCHANGED <<pc, arg, cpc, gate, bridge>>
  BY DEF vars, ResolveOrForget, Age
<1>2. SameStatus(f)
  <2>1. CASE peers' = peers
    BY <2>1, PeersSame
  <2>2. CASE \E g \in Fps : Age(g)
    <3>1. PICK g \in DOMAIN peers : peers' = [peers EXCEPT ![g].used = "long ago"]
      BY <2>2 DEF Age
    <3>2. peers[g] \in PeerEntry
      BY DEF Types, IndexTypes
    <3> QED
      BY <3>1, <3>2 DEF SameStatus, PeerEntry
  <2> QED
    BY <2>1, <2>2 DEF vars, ResolveOrForget
<1>3. \A v \in Workers : (Removes(v, f)' <=> Removes(v, f)) /\ (Awaits(v, f)' => Awaits(v, f))
  BY <1>1 DEF Removes, Awaits
<1>4. SameConnects(f)
  BY <1>1 DEF SameConnects
<1> QED
  BY <1>1, <1>2, <1>3, <1>4, SoundSame

LEMMA InitTruth == Init => Truth
<1> SUFFICES ASSUME Init, NEW f \in Fps PROVE Sound(f)
  BY DEF Truth
<1>1. /\ \A w \in Workers : pc[w] = "idle" /\ cpc[w][f] = "none"
      /\ DOMAIN peers = {} /\ bridge[f] = 0
  BY DEF Init
<1>2. ~Removing(f)
  BY <1>1 DEF Removing
<1> QED
  BY <1>1, <1>2 DEF Sound, Untroubled, OneGate, InGate, CallsHaveProcess, StatusTrue, Gated

LEMMA NextTruth == IInv /\ Truth /\ [Next]_vars => Truth'
<1> SUFFICES ASSUME IInv, Truth, [Next]_vars, NEW f \in Fps \ raced' PROVE Sound(f)'
  BY DEF Truth
<1>1. Types /\ ConnectsJoined
  BY DEF IInv, TypeOK, Types
<1>2. CASE UNCHANGED vars
  <2>1. f \notin raced
    BY <1>2 DEF vars
  <2>2. Sound(f)
    BY <2>1 DEF Truth
  <2>3. Removing(f)' <=> Removing(f)
    BY <1>2 DEF vars, Removing
  <2>4. (Connecting(f)' <=> Connecting(f)) /\ (Calling(f)' <=> Calling(f))
    BY <1>2 DEF vars, Connecting, Calling
  <2>5. Clear(f)
    BY <2>2, <2>3, <2>4 DEF Clear, Sound, Untroubled
  <2> QED
    BY <1>1, <1>2, <2>2, <2>5, IdleSound
<1>3. CASE Next
  <2>1. f \notin raced /\ Clear(f)
    BY <1>3 DEF Next, Observe, Clear
  <2>2. Sound(f)
    BY <2>1 DEF Truth
  <2> QED
    BY <1>1, <1>3, <2>1, <2>2, NextCases, IdleSound, QuietSound, BusySound
<1> QED
  BY <1>2, <1>3

(* A peer that was never stopped beside one of its own connects or calls   *)
(* tells the truth when it comes to rest: connected is one process, no     *)
(* entry or a disconnected one is none, and what is left behind a failed   *)
(* one is in the reaper's sight.                                           *)
THEOREM SettledCorrect == Spec => []SettledPeers
<1>1. IInv /\ Truth => SettledPeers
  <2> SUFFICES ASSUME IInv, NEW f \in Fps, Sound(f), ~Removing(f), ~Connecting(f)
               PROVE  IF f \notin DOMAIN peers THEN bridge[f] = 0
                      ELSE CASE peers[f].status = "connected" -> bridge[f] = 1
                             [] peers[f].status = "failed" -> bridge[f] <= 1 /\ peers[f].used # "never"
                             [] OTHER -> bridge[f] = 0
    BY DEF Truth, SettledPeers
  <2>1. \A w \in Workers : cpc[w][f] \notin Gated
    BY DEF Connecting, Gated
  <2> QED
    BY <2>1 DEF Sound, StatusTrue
<1> QED
  BY <1>1, InitTruth, NextTruth, IInvAlways, PTL DEF Spec
=============================================================================
