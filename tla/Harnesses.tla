----------------------------- MODULE Harnesses -----------------------------
(* The sandboxed images of BermHarness.  An agent declares images by name; *)
(* what an image may reach is closed over when it is built, and images are *)
(* kept under a digest of all of that.  A worker is a run: it resolves its *)
(* agent, calls tools of its images, and is inside a guest while one runs, *)
(* which may call the guest's siblings in turn.  Tools are called on       *)
(* BermHarness itself: HarnessRegistry, in front of it in the daemon,      *)
(* indexes tools once, before any agent has declared an image.  BermInit,  *)
(* BermNext and BermSpec are named apart from AgentLoop's: the proofs of   *)
(* both are in one module, which extends both.                             *)
EXTENDS Naturals, Sequences, FiniteSets, Functions

CONSTANTS
  Workers,
  Agents,
  Configs,     \* agent configurations: [harnesses : Seq(HarnessConfig), skills : ...]
  Sessions,    \* roots that sessions name, NoRoot included
  NoRoot,      \* a session without a root
  Inside,      \* the session roots that lie inside a declaration's bound
  Manifest,    \* what an image exports: Manifest[name][version], a set of tools
  MaxChanges,  \* bound on updates and purges of agents and on installs of images
  MaxSiblings  \* bound on the sibling calls of one invocation, per worker

ASSUME RootsAssumption == NoRoot \in Sessions /\ Inside \subseteq Sessions

VARIABLES
  stored,        \* the agents in storage: agent -> configuration
  disk,          \* installed images: name -> version, 0 when there is none
  changes,
  reg,           \* BermHarness's Registry: [images, declared, agents]
  forgetting,    \* agents deleted from storage whose on_forget_agent is to come
  run            \* per worker: [phase, agent, root, config, name, tool,
                 \* stack, calls, guard]; guard counts the read locks it
                 \* holds while a sibling runs, of which there are none

bermVars == <<stored, disk, changes, reg, forgetting, run>>

Put(f, k, v) == [x \in DOMAIN f \cup {k} |-> IF x = k THEN v ELSE f[x]]

-----------------------------------------------------------------------------
(* Images                                                                  *)

(* bind: the path that fs and exec are bounded by.  A session narrows the  *)
(* bound of a session declaration, and cannot leave it.                    *)
Bind(root, session) ==
  IF root \in {"none", "fixed"} THEN root
  ELSE IF session = NoRoot THEN "bound"
  ELSE IF session \in Inside THEN session
  ELSE "refused"

(* Everything an image is built with: the bytes, the bounds of its doors,  *)
(* and what its runtime doors and berm.call close over.                    *)
Image(a, d, skills, s) ==
  [elf |-> <<d.name, disk[d.name]>>, root |-> Bind(d.root, s), hosts |-> d.hosts,
   agent |-> a, skills |-> skills, session |-> s]

(* Fault: the session is left out of the digest.                           *)
DigestNoSession(i) == [i EXCEPT !.session = NoRoot]

(* digest: what names an image.                                            *)
Digest(i) == i

Loads(d, s) == disk[d.name] # 0 /\ Bind(d.root, s) # "refused"

(* The system harnesses an image is given.                                 *)
Doors(i) ==
  (IF i.root = "none" THEN {} ELSE {"fs", "exec"})
  \cup (IF i.hosts = {} THEN {} ELSE {"http"})
  \cup {"peers", "sessions", "skills", "call"}

Tools(i) == Manifest[i.elf[1]][i.elf[2]]

-----------------------------------------------------------------------------
(* Registry                                                                *)

Entries(r) == UNION {Range(r.agents[k]) : k \in DOMAIN r.agents}

(* Fault: images stay until the daemon ends.                               *)
SweepNothing(r) == r

(* sweep: images that no resolution points at are dropped.                 *)
Sweep(r) == [r EXCEPT !.images = Restrict(@, DOMAIN @ \cap {e[2] : e \in Entries(r)})]

(* clear: the agent's resolutions, under every root.                       *)
Clear(r, a) == [r EXCEPT !.agents = Restrict(@, {k \in DOMAIN @ : k[1] # a})]

(* resolve: the declarations that load, each at its place in the list and  *)
(* under its digest; an image that is there already is taken as it is.     *)
ResolveIn(r, a, s) ==
  IF <<a, s>> \in DOMAIN r.agents \/ a \notin DOMAIN r.declared THEN r
  ELSE LET config == r.declared[a]
           h == config.harnesses
           loaded == {j \in DOMAIN h : Loads(h[j], s)}
           built == [j \in loaded |-> Image(a, h[j], config.skills, s)]
           fresh == {Digest(i) : i \in Range(built)} \ DOMAIN r.images
       IN  [r EXCEPT
             !.images = [d \in DOMAIN @ \cup fresh |->
                           IF d \in fresh THEN CHOOSE i \in Range(built) : Digest(i) = d ELSE @[d]],
             !.agents = Put(@, <<a, s>>, [j \in loaded |-> <<h[j].name, Digest(built[j])>>])]

(* load: the agent's declarations replace those it had.                    *)
Load(r, a, config) ==
  Sweep(ResolveIn([Clear(r, a) EXCEPT !.declared = Put(@, a, config)], a, NoRoot))

(* on_forget_agent                                                         *)
Forgotten(r, a) ==
  Sweep([Clear(r, a) EXCEPT !.declared = Restrict(@, DOMAIN @ \ {a})])

(* resolved: the entries under the agent and the root.                     *)
Resolved(r, a, s) == IF <<a, s>> \in DOMAIN r.agents THEN r.agents[<<a, s>>] ELSE <<>>

First(S) == {j \in S : \A i \in S : j <= i}

(* owner: the first image of the agent that exports the tool, if any.      *)
Owner(r, a, s, tool) ==
  LET of == Resolved(r, a, s)
  IN  {r.images[of[j][2]] : j \in First({j \in DOMAIN of : tool \in Tools(r.images[of[j][2]])})}

(* named: the image that the agent declared under a name.                  *)
HarnessNamed(r, a, s, name) ==
  LET of == Resolved(r, a, s)
  IN  {r.images[of[j][2]] : j \in First({j \in DOMAIN of : of[j][1] = name})}

-----------------------------------------------------------------------------
(* The registry's lock: a reader waits for a writer that waits.            *)

Waiting == \E w \in Workers : run[w].phase \in {"load", "build"}
Guarded == \E w \in Workers : run[w].guard > 0
Readable == ~(Guarded /\ Waiting)

Idle == [phase |-> "idle", agent |-> CHOOSE a \in Agents : TRUE, root |-> NoRoot,
         config |-> CHOOSE c \in Configs : TRUE, name |-> "", tool |-> "",
         stack |-> <<>>, calls |-> 0, guard |-> 0]

(* Storage and the images directory change under the daemon.               *)
UpdateAgent(a, config) ==
  /\ changes < MaxChanges /\ changes' = changes + 1
  /\ a \in DOMAIN stored /\ config # stored[a]
  /\ stored' = [stored EXCEPT ![a] = config]
  /\ UNCHANGED <<disk, reg, forgetting, run>>

InstallImage(n) ==
  /\ changes < MaxChanges /\ changes' = changes + 1
  /\ \E v \in DOMAIN Manifest[n] \ {disk[n]} : disk' = [disk EXCEPT ![n] = v]
  /\ UNCHANGED <<stored, reg, forgetting, run>>

(* purge_agent: the record goes first, on_forget_agent comes after.        *)
PurgeAgent(a) ==
  /\ changes < MaxChanges /\ changes' = changes + 1
  /\ a \in DOMAIN stored
  /\ stored' = Restrict(stored, DOMAIN stored \ {a})
  /\ forgetting' = forgetting \cup {a}
  /\ UNCHANGED <<disk, reg, run>>

ForgetAgent(a) ==
  /\ a \in forgetting /\ ~Guarded
  /\ forgetting' = forgetting \ {a}
  /\ reg' = Forgotten(reg, a)
  /\ UNCHANGED <<stored, disk, changes, run>>

(* resolve_agent reads the configuration ...                               *)
StartRun(w, a, s) ==
  /\ run[w].phase = "idle" /\ a \in DOMAIN stored
  /\ run' = [run EXCEPT ![w] = [Idle EXCEPT !.phase = "load", !.agent = a, !.root = s,
                                            !.config = stored[a]]]
  /\ UNCHANGED <<stored, disk, changes, reg, forgetting>>

(* ... and on_resolve_agent builds the images.                             *)
ResolveAgent(w) ==
  /\ run[w].phase = "load" /\ ~Guarded
  /\ run' = [run EXCEPT ![w].phase = "run", ![w].config = Idle.config]
  /\ reg' = Load(reg, run[w].agent, run[w].config)
  /\ UNCHANGED <<stored, disk, changes, forgetting>>

Enter(w, image) ==
  run' = [run EXCEPT ![w].phase = "guest", ![w].stack = <<image>>, ![w].tool = ""]

(* dispatch: owner looks under the read lock.                              *)
CallTool(w, tool) ==
  LET found == Owner(reg, run[w].agent, run[w].root, tool)
  IN  /\ run[w].phase = "run" /\ Readable
      /\ \/ \E image \in found : Enter(w, image)
         \/ found = {} /\ run' = [run EXCEPT ![w].phase = "build", ![w].tool = tool]
      /\ UNCHANGED <<stored, disk, changes, reg, forgetting>>

(* The resolution under this root is built, and then searched again.       *)
BuildOwner(w) ==
  LET found == Owner(reg', run[w].agent, run[w].root, run[w].tool)
  IN  /\ run[w].phase = "build" /\ ~Guarded
      /\ reg' = ResolveIn(reg, run[w].agent, run[w].root)
      /\ \/ \E image \in found : Enter(w, image)
         \/ found = {} /\ run' = [run EXCEPT ![w].phase = "run", ![w].tool = ""]
      /\ UNCHANGED <<stored, disk, changes, forgetting>>

Top(w) == Head(run[w].stack)

(* A guest asks for a tool of a sibling, by name.                          *)
AskSibling(w, name, tool) ==
  /\ run[w].phase = "guest" /\ run[w].calls < MaxSiblings[w]
  /\ run' = [run EXCEPT ![w].phase = "calling", ![w].name = name, ![w].tool = tool,
                          ![w].calls = @ + 1]
  /\ UNCHANGED <<stored, disk, changes, reg, forgetting>>

(* The sibling that serves the call, in the resolution that the image on   *)
(* top was built for.                                                      *)
Sibling(w) ==
  {i \in HarnessNamed(reg, Top(w).agent, Top(w).session, run[w].name) : run[w].tool \in Tools(i)}

(* Fault: the registry is read-locked while the sibling runs.              *)
CallSiblingGuarded(w) ==
  /\ run[w].phase = "calling" /\ Readable
  /\ \/ \E target \in Sibling(w) :
          run' = [run EXCEPT ![w].phase = "guest", ![w].name = "", ![w].tool = "",
                              ![w].stack = <<target>> \o @, ![w].guard = @ + 1]
     \/ Sibling(w) = {} /\ run' = [run EXCEPT ![w].phase = "guest", ![w].name = "", ![w].tool = ""]
  /\ UNCHANGED <<stored, disk, changes, reg, forgetting>>

(* berm.call: the guard is gone before the target is entered.  A name that *)
(* is not there, or does not export the tool, is refused, and the guest    *)
(* goes on.                                                                *)
CallSibling(w) ==
  /\ run[w].phase = "calling" /\ Readable
  /\ \/ \E target \in Sibling(w) :
          run' = [run EXCEPT ![w].phase = "guest", ![w].name = "", ![w].tool = "",
                              ![w].stack = <<target>> \o @]
     \/ Sibling(w) = {} /\ run' = [run EXCEPT ![w].phase = "guest", ![w].name = "", ![w].tool = ""]
  /\ UNCHANGED <<stored, disk, changes, reg, forgetting>>

(* The guest on top returns, well or badly, or is stopped by the watchdog. *)
Return(w) ==
  /\ run[w].phase = "guest"
  /\ run' = IF Len(run[w].stack) > 1
            THEN [run EXCEPT ![w].stack = Tail(@), ![w].guard = IF @ > 0 THEN @ - 1 ELSE 0]
            ELSE [run EXCEPT ![w] = [Idle EXCEPT !.phase = "run", !.agent = run[w].agent,
                                                 !.root = run[w].root]]
  /\ UNCHANGED <<stored, disk, changes, reg, forgetting>>

EndRun(w) ==
  /\ run[w].phase = "run"
  /\ run' = [run EXCEPT ![w] = Idle]
  /\ UNCHANGED <<stored, disk, changes, reg, forgetting>>

-----------------------------------------------------------------------------
HarnessNames == DOMAIN Manifest
AllTools == UNION {UNION Range(Manifest[n]) : n \in HarnessNames}

BermInit ==
  /\ stored \in [Agents -> Configs]
  /\ disk = [n \in HarnessNames |-> 1]
  /\ changes = 0
  /\ reg = [images |-> <<>>, declared |-> <<>>, agents |-> <<>>]
  /\ forgetting = {}
  /\ run = [w \in Workers |-> Idle]

Progress(w) == ResolveAgent(w) \/ BuildOwner(w) \/ CallSibling(w) \/ Return(w)

BermNext ==
  \/ \E a \in Agents : (\E c \in Configs : UpdateAgent(a, c)) \/ PurgeAgent(a) \/ ForgetAgent(a)
  \/ \E n \in HarnessNames : InstallImage(n)
  \/ \E w \in Workers :
       \/ \E a \in Agents, s \in Sessions : StartRun(w, a, s)
       \/ Progress(w)
       \/ \E t \in AllTools : CallTool(w, t)
       \/ \E n \in HarnessNames, t \in AllTools : AskSibling(w, n, t)
       \/ EndRun(w)

(* A lock that is free is given to who waits, and guests return or are     *)
(* stopped.                                                                *)
Fairness == \A w \in Workers : WF_run(Progress(w))

BermSpec == BermInit /\ [][BermNext]_bermVars /\ Fairness

-----------------------------------------------------------------------------
(* Every resolution leads to an image that was built for that agent and    *)
(* that session, with the bounds its declaration gives and none that was   *)
(* refused, and the registry holds no image and no resolution besides      *)
(* those of agents that declare.                                           *)
ImagesFit ==
  /\ \A k \in DOMAIN reg.agents :
       /\ k[1] \in DOMAIN reg.declared
       /\ \A j \in DOMAIN reg.agents[k] :
            LET declared == reg.declared[k[1]]
                d == declared.harnesses[j]
                e == reg.agents[k][j]
                image == reg.images[e[2]]
            IN  /\ j \in DOMAIN declared.harnesses /\ e[1] = d.name
                /\ e[2] \in DOMAIN reg.images
                /\ image.elf[1] = d.name /\ image.hosts = d.hosts
                /\ image.root = Bind(d.root, k[2]) /\ image.root # "refused"
                /\ image.agent = k[1] /\ image.session = k[2]
                /\ image.skills = declared.skills
  /\ DOMAIN reg.images = {e[2] : e \in Entries(reg)}

(* Whatever a run's tool call reaches, through any number of siblings and  *)
(* reloads, acts for the run's own agent and under the run's own root.     *)
GuestsActForTheirRun == \A w \in Workers : \A i \in Range(run[w].stack) :
  /\ i.agent = run[w].agent /\ i.session = run[w].root
  /\ i.root \in {"none", "fixed", "bound", run[w].root}

(* A tool call comes back, whoever loads agents meanwhile.                 *)
ToolCallsReturn == \A w \in Workers :
  run[w].phase \in {"load", "build", "guest", "calling"} ~> run[w].phase = "run"
=============================================================================
