# A TLA+ development for crabtalk

crabtalk is a daemon that hosts agents. Clients connect to it, name a session
by a *handle*, and send it turns; the daemon keeps live sessions in memory, runs
the agent loop against a model provider and tools, and persists the history in a
single-file store. `crab` is a coding agent with the same engine in its own
process and plain files for a store. This project models the parts whose
correctness depends on the order of steps taken by several parties: clients,
runs in flight, evictions, spawned jobs, one-key and one-file writes, and crashes.

* [1. The system](#1-the-system) — components, state, interactions, what is hard
* [2. Modules](#2-modules) — how state and actions correspond to the code
* [3. Runs](#3-runs) — what TLC checks, with which bounds and fairness
* [4. Proofs](#4-proofs) — what TLAPS proves, and along which argument
* [5. Where code and documentation disagree](#5-where-code-and-documentation-disagree)
* [6. Not modelled](#6-not-modelled)
* [7. Plan](#7-plan)

## 1. The system

### Components

| Component | State | Operations | Correct when |
|---|---|---|---|
| Live session registry, `crates/runtime/src/session` | `by_id`, `by_handle`, `next_id`; per session its recency, cached bytes, cancellation token and `Arc<Mutex<Session>>` | `open`, `find_by_handle`, `insert`, `reprice`, `evict`, `close`, `begin_cancel`, `end_cancel`, `cancel`, `list_active` | the indexes are inverse to each other; ids are not reused; eviction takes nothing in use and keeps the bound; a token is there only while an operation runs |
| Session requests, `crates/crabtalk/src/protocol` | where each connection is in its request | `create_session`, `send`, `stream`, guest stream, `compact`, `kill_conversation`, `cancel_stream`, listings | every request is answered; a cancel ends the run; every way out of a run releases the lock and the token |
| Session history engine, `crates/runtime/src/engine` | `Session::history`, `summary`, `pre_run_len` of a turn | `prepare_history`, `finalize_run`, `guest_stream_to`, `compact`, `truncate`, `load`, `load_conversation_history`, `delete_session` | what is reloaded, and what a client is shown, is what the session had; framing is never stored; the user's message is |
| Session store, `crates/store/src/interface/session.rs` | message keys, metadata, archive marker, listing key, event lines, a text index | create, append, truncate, compact, update_meta, delete, search | an interrupted operation costs nothing that was counted; a search finds what is stored |
| crabdb, `lib/crabdb` | the log, header, resident index, `end`, `dead` | `open_with`, `put`, `delete`, `checkpoint`, `compact`, reads | it is a map that survives a process crash, and loses no more than the unsynced suffix to a power loss |
| Agent loop, `crates/runtime/src/agent` | rounds, stream segments, tool calls in flight | `run_stream`, tool dispatch, cancel | calls and results are committed together and in order; exactly one end |
| Event bus, `crates/crabtalk/src/system/event.rs` | subscriptions in memory, a mirror in the store | subscribe, unsubscribe, publish, restore | the mirror restores what was subscribed; once is once |
| Agent store, `crates/store/src/interface/agent.rs` | configs, name index, default | create, upsert, rename, delete, scaffold | a name leads to the agent that has it |
| MCP handler, `lib/mcp` and `crates/crabtalk/src/harness/mcp.rs` | peers, owners, connection gates, processes | register, unregister, connect, call, reconnect, reap | no peer without an owner; a status tells whether a process runs |
| Text index, `crates/store/src/text.rs`, and memory | entries, documents, postings, shared counters | `index_text`, `drop_text`, `search_text`, `put_memory`, `remove_memory`, `recall` | the index holds what is stored; a search finds what a scan would |
| Wire: `crates/proto`, `crates/transport`, `crates/client` | per connection a reader, a writer, a bounded reply channel and the socket | every operation of the protocol, streams, subscriptions | an answer goes to its request; every call returns; nothing is kept for a client that is gone |
| Harness sandbox, `crates/berm` | declarations, images by digest, resolutions by agent and root | load, resolve, sweep, call, call a sibling, forget | a guest acts for the agent and under the root of its run |
| crab, `apps/code` | a loop, engines, files of a session | open, turn, interrupt, compact, reconnect, resume | what was shown as done is there after a restart |

`PROJECT.json` lists these and the parts that are not modelled (harness guests,
web search, skills, the other applications), with the reason for each.

### How they interact

A connection has one task that reads requests and one that writes replies; every
request is dispatched in a task of its own, and all share the connection's reply
channel. A request looks its handle up in the
registry (`find_by_handle`), or goes through `Sessions::open`: look up, load from
the store, create in the store, insert. Each of these takes the registry's lock
by itself, and no lock is held across an `await`, so requests of other clients
fall in between. The request then holds a clone of the session's `Arc` and waits
on the session's own Tokio mutex, which a run holds from its first to its last
await, the provider's answer and every store write included. At the start of a
run the agent is resolved: the harnesses load the images it declares, and the MCP
harness spawns jobs that register its servers. The run's tool calls go to those.
`delete_session` goes to the store directly and takes no session lock. The store
turns every operation into a series of one-key writes, and crabdb turns each of
those into an append to its log; `crab` puts files in the place of both.

### What is hard

The hazards, each at its line and with the properties that watch it, are in
`PROJECT.json`. They fall in these groups:

* check-then-act over several steps: two opens of one handle, a kill of an id that
  has been displaced, a token replaced by a second operation, name index and
  configuration, counters read and written back;
* eviction, reaping and unregistering against tasks that have just looked the
  thing up, or are inside it;
* ways out of a run: the end, an error, a cancel, a dropped consumer, each at any
  await;
* jobs and writes handed to `tokio::spawn`, which nothing orders;
* a turn's slice of the history (`pre_run_len`) against the framing that comes
  and goes around it, and the live history against the store's count through
  rewinds and compactions;
* locks taken while others wait: sibling calls under the registry's lock, a full
  reply channel, two locks in two orders;
* crashes, torn writes and power losses between any two writes.

## 2. Modules

| Module | What it is |
|---|---|
| `LiveSessions`, `LiveSessionsProofs` | the registry and the requests over it; theorems about them, and about `CrabDb` |
| `AgentRun` | abstract: what a run of the agent loop does to its session's history |
| `AgentLoop`, `AgentLoopProofs` | the agent loop, event by event; implements `AgentRun`; theorems about it, and about the images its tool calls reach (`Harnesses`) |
| `SessionHistory`, `SessionHistoryProofs` | one session's history, in memory and in the store; theorems |
| `KVStore` | abstract: what crabdb promises |
| `CrabDb` | crabdb's file, index, snapshots and compaction; implements `KVStore`; its theorems are in `LiveSessionsProofs` |
| `Catalog`, `CatalogProofs` | agents, their name index, event subscriptions and their mirror; theorems |
| `McpPeers`, `McpPeersProofs` | the MCP handler, its harness and the processes it runs; theorems |
| `TextIndex`, `TextIndexProofs` | stored texts, their inverted index, and searches of it; theorems |
| `Wire`, `WireProofs` | a connection between a client and the daemon; theorems |
| `Harnesses` | sandboxed images, who may reach what, and calls into them; its theorems are in `AgentLoopProofs` |
| `Crab`, `CrabProofs` | the coding agent: loop, engines and files composed; theorems |
| `MC...` | small instances for TLC (`SessionHistory` and `Crab` need none) |

Names are those of the source where TLA+ allows it; `PROJECT.json` maps every
definition to its lines. Definitions whose comment starts with *Fault* are
variants that put a plausible bug in place of a definition; nothing uses them
except the mutants, which show that each property can fail. Variables marked
*ghost* are not in the code: they record what a property is conditioned on, and no
guard reads them.

### LiveSessions

A *task* is a client connection. `pc[t]` is the await or critical section it
is at; `req[t]` its request; `cur[t]` the session id it found or took.

| State | Code |
|---|---|
| `by_id`, `by_handle`, `next_id` | `Registry` and `Sessions::next_id` |
| `recency` | the order of `Live::touched`: only the order is ever used |
| `by_id[i].bytes`, `size[i]` | `Live::bytes`, and what measuring the session would give |
| `by_id[i].cancel`, `fired` | `Live::cancel`, and the tokens that were cancelled; a token is named by the task that opened it |
| `owner[i]` | who holds the session's mutex |
| `listed[t]` | the clones `list_active` has not come to |
| `stored[h]` | the stored session, as far as open and append look at it |

`Holding(t)` is what `Arc::strong_count` sees: the clones a task owns, from the
lookup until the run is over. Each critical section of the code is one action,
calls it makes included (`Insert` displaces, registers and evicts; `Evict`
re-measures, sorts and drops), with one exception: `reprice` takes the lock to
read and again to write, and `Reprice` is one step. In `Abandon` the consumer's
disappearance drops the future at any await, and the `CancelGuard` runs next.
History is counted in turns of one byte each, and capped at `MaxHistory`.

### AgentLoop and AgentRun

One run of `run_stream`. `ask` has the stream but has not sent the request, since a
stream and a future do nothing until they are polled. With the tools' futures the loop
is at the select (`call`) or inside `pending.next()` (`dispatch`). Every select is
biased towards the token: `PollsOn` guards its second branch. A poll of the futures
then goes from one to the next without looking at the token, which may fire
meanwhile: `StartTool` starts one tool whose future is not ready, `ToolFinishes` is a
future that is, and takes the loop back to the select before any other is polled, and
`ToolsPending` takes it there when none is. So a round's tools may be started in part.
`EffectsAccounted` says what becomes of them: their results are in the history, or
they are of the round in progress or the one cut short. `open` is the segment the loop believes open,
`built` what `MessageBuilder` has gathered (whether there is text, how many calls,
whether one cannot be parsed), `pending` and `buffered` the dispatch loop's own
variables, `log` the events yielded. A tool's output is named by its call, so that
an output at the wrong index is visible. The provider and the tools are external:
they stream any events in any order, fail, end, or never answer.

`AgentRun` is the contract `SessionHistory` takes the loop by (`CommitReply`,
`CommitTools`, `StopRun`): whole groups of a message with calls and its results
in call order, at most `max_iterations` of them, and possibly a last reply.

### SessionHistory

`live`, `summary` and `pre` are `Session::history`, `Session::summary` and the
turn's `pre_run_len`; `msgs`, `meta`, `marker` and `indexed` are the keys of the
store. Entries carry an id (the order they were said in) and a kind, which is
what `role()`, `auto_injected` and the guest check tell apart. An operation of
the store is computed as the sequence of writes it will make (`AppendWrites`,
`TruncateWrites`, `CompactWrites`, `FinalizeWrites`), from the metadata it reads
first, and `Write` performs one of them; `Dropped`, `Crash` and another client's
`DeleteStep` may come between any two. A delete is likewise a sequence: the
listing key, the scan, and one key after the other.

`intact` is a ghost: it says that since the last load no operation was cut short
(by a fault, or by a panic) and no rewind left framing at the end of the history.
Properties that speak about undisturbed operation are conditioned on it; the
others hold always. `ConversationHistory` is what `load_conversation_history` shows a
client; `ResumeMatchesLive` says that it, a reload and the live history are one.
`AllFaults` are the unregistered agent, the guest's error,
the dropped consumer, the crash and the concurrent delete.

### CrabDb and KVStore

The file is a sequence of cells after the header. A record is one cell for its
key and lengths and `Size[v]` for its value; a snapshot is one cell and one per
entry. A torn write leaves a prefix of the cells. `Decode` says what
`decode_record` makes of the bytes at an offset: a record, a torn one, or an
error. `Reached`, `ReplayIndex`, `ReplayEnd`, `ReplayFails` and `ReplayDead` are
the replay loop of `open_with`, as the set of offsets it comes to: each is led to by
the one before it (`Leads`), and the key of the index is where the largest of them that
has it lies. `Compact` writes the live records one after the other in some order;
`At` is where the j-th lands.

`mode` is the point the one mutex is held at: between `compact` and its
`snapshot`, and between the snapshot's bytes and the header. `map` and `since` are
history variables: the map read through the index (or, when the store is down,
what the file will be read as), and the maps it was since the last sync.
`KVStore` is a map with `Put`, `Delete`, `Sync` and `PowerLoss`, the last to one
of the maps since the sync; `ImplementsKV` instantiates it with those two.

`stray` is the third history variable: a write ended short of the fragment it went
over, or a crash left a snapshot that no header names. What the log is read as then
depends on the bytes of somebody's value, and the store may not open again (section 5;
`CrabDbSnapshot` shows it of the snapshot). The properties speak of the log
as long as nothing stray is in it, `map` and `since` are not followed beyond, and no
guard reads `stray`; it is never reset, not even by a compaction.

### Catalog

`content` and `idx` are the agent records and the name index, `default` the default
agent; `subs` and `next_id` are `EventBus`, `stored` its records, and `writes` the
mirror tasks that were spawned and have not run. `task[w]` is a request: which
store call is next, and the names and the id it read before. `upsert_agent`,
`rename_agent` and `delete_agent` are one action per store call. `Publish` fires every
subscription of the source and drops those made with *once*; `Mirror` lets any
outstanding write land, or fail. `Boot` is `scaffold` in its three writes and the
load of the subscriptions; `Crash` leaves what was written.

Two requests that touch one agent, or agents that claim one name, do leave the
index wrong (section 5), so `NamesReach` speaks of the agents outside the ghosts
`mixed` and `shared`: whatever happens around it, an undisturbed agent is reached by
its name and nothing else. `MirrorAgrees` and `OnceFiresOnce` leave out
subscriptions whose writes crossed, failed or were cut off (`unsure`).

### McpPeers

`by_owner` and `peers` are the handler's two maps, each behind its lock; a `PeerEntry`
has its status, whether tools are known, its owners, its recency and its gate.
`bridge[f]` counts the processes the bridge holds under a fingerprint. `pc[w]` is the
await, or the point between two lock acquisitions, at which a task is;
`cpc[w][f]` is the same for its `connect_peer` of one peer, since a task connects
several at once. A job is spawned by `Resolve` or `Forget` and picked up in any order.
The locks are predicates on `pc` (`PeersFree`, `OwnersWritable`, ...): they are held for
longer than a step only where the other is taken inside, so `register` and
`unregister` can wait for each other as in the code. The server's side is external:
it starts or not, answers or not, or breaks. `DropCall` is the caller's
disappearance.

`SettledPeers` leaves out peers that were stopped while a connect or a call was under
way (`raced`), `DeclarationsMatch` owners for which two jobs were outstanding
at once (`overlapped`).

### TextIndex

A text is the set of its terms. The module is one of two indexes, which share nothing:
that of memory entries (`index = "memory"`), which `PutMemory` and `RemoveMemory`
write, or that of messages, whose keys are a session and a position. The messages
are written by the loops of `append_session_messages` and
`truncate_session_messages`: `call[w]` is the loop a task is in, which begins by
reading the metadata (`Call`), puts or drops one message after the other, and ends by
writing the count (`WriteCount`). A message that `indexable` lets through is put and
indexed (`PutMessage`); one that it does not is put and no more (`HideMessage`), so
that what the index has for the key stays. `left` records, as a ghost, the text the
index still has for a message that took the place of another; `IndexedText` is that
text or the stored one, and `Held` all of them. Then come `drop_text` (the record,
each posting, the record's deletion, the counters read and written) and
`index_text`, one store call each.

Anything may be cut off where it stands (`CutOff`): everything by a crash, one task by
its run being dropped or a store call failing. `CreateAgain` is the second
`create_session` of two opens of one new handle. `StaleAfterFault` says that only
these, or two calls on one session, ever part the index from the messages; `mixed`
holds the keys that two tasks were on or that one was cut off on, and all of a session
once two calls overlap on it.

`Recall` and `SearchSessions` are the queries
over the index; `Rank` and `ScanSessions` those of crab's store, which ranks every
text it has. Scores are real numbers in the code; a query of one term orders by the
length of the text, which `Best` compares, and drops a match whose weight is
not positive, which `PositiveIdf` tells from the counters.

### Wire

`requests` are numbered in the order they were made; a reply carries its request's
number in the model and not in the code, so the number is only ever looked at by
`taken`, a ghost that records what the client made of a message. `Replies` and
`ErrorOf` are `Server::dispatch`, and the `...Methods` sets what each client method
accepts. `chan`, `s2c` and `c2s` are the reply channel and the two directions of the
socket; a full one makes the sender wait, which is how a slow client holds a
dispatch up. `WriteReply` may find a reply too large, which ends the writer;
`HangUp` is the reader's end, which aborts the writer. A subscription may lag and
skip events; a stream may not.

### Harnesses

`reg` is `Registry`: declarations by agent, images by digest, and resolutions by agent
and root. A resolution is a function on the positions of the declarations that could be
built, so that the order in which tools are looked up is that of the declarations. An image carries everything it was built with: bytes, bounds, hosts,
agent, skills, root; `Digest` names it by all of them. `run[w]` is a run: its agent and root, and
while it is in a guest the stack of images from the tool it called down to the
sibling that runs. `StartRun` takes the configuration from storage and `ResolveAgent`
loads it, with updates, purges and installs of other images in between;
`BuildOwner` resolves under the write lock and `CallTool`, `AskSibling` and
`CallSibling` look images up under the read lock, which a waiting writer withholds from
new readers. Guests are external: in a run `w` they call siblings up to `MaxSiblings[w]`
times, each of which may call on, and return. What the code relies on is that no read
lock is held while a sibling runs, since its own calls take the lock again; `guard`
counts such locks, and only the fault of `CallSibling` holds one. The model calls tools on `BermHarness` itself (see section 5).

### Crab

`disk` is the session's directory, as far as a resume reads it: the metadata and its
temporary file, the message lines with a possible fragment at the end, the rewritten
message file, the archive marker, and the archives. `engines` are the one
in use and the one before a reconnect; each has its loaded history, the
operation that holds the session's lock, the file calls it has left (`todo`) and the
operations that wait. `app` is the loop. `Finalize` and `CompactFiles` are the
calls of `finalize_run` and `compact` in order, `Effect` what each does to the
directory. A crash may fall between any two, and inside an append, of which then
some lines and a part of the next remain. `shown` is what the loop has shown as
done; `ShownIsKept` excuses the known deviations of section 5 and nothing else.

## 3. Runs

| Run | Instance | Distinct states | Shows |
|---|---|---|---|
| `LiveSessions` | 2 tasks, 2 handles, 3 ids, 1 byte resident; send, stream, compact, kill, list; symmetry | 2.1 M | `IndexesAgree`, `NoOrphanToken`, `LockHeldByRunner`, `EvictionSparesInUse`, `BoundAfterInsert` |
| `LiveSessionsLive` | 2 tasks, 1 handle, every request | 80 k | `EveryRequestAnswered`, `CancelStopsRun` |
| `AgentLoop` | 2 rounds, 2 calls, 3 provider events per round | 178 k | `Bracketed`, `SteerKeepsText`, `EffectsAccounted`, `ImplementsRun`, `Terminates` |
| `SessionHistory` | 5 entries said, every fault until 2 are | 1.8 M | `HistoryInv`, `ResumeMatchesLive`, `UserMessagePersisted`, `AppendsOverwriteNothing` |
| `CrabDb` | 2 keys, 2 values of 1 and 2 cells, writes start below cell 5; every crash; symmetry | 238 k | `FileInv`, `OpensAgain`, `ImplementsKV` |
| `CrabDbSnapshot` | writes below cell 7; only the crash between a snapshot and its header | — | violates `OpensAfterCrash` (section 5) |
| `Catalog` | 2 tasks, 2 names, 2 sources, 4 requests, 1 crash; symmetry | 1.4 M | `CatalogInv`, `MirrorAgrees`, `OnceFiresOnce` |
| `McpPeers` | 2 tasks, 2 agents, 1 name each, 2 configurations, 2 registrations; symmetry | 2.4 M | `PeersInv`, `SettledPeers`, `DeclarationsMatch` |
| `TextIndex` | 2 tasks, 3 texts of 2 sessions, 2 terms, 3 writes or truncations, 1 fault; symmetry | 1.6 M | `IndexInv`, `StaleAfterFault`, `SearchAgrees` |
| `Wire` | 1 connection, every operation, 2 requests, 2 events per stream, a channel and a socket of 1 | 840 k | `WireInv`, `ReplyIsMine`, `ClientGoneReleases`, `EveryCallReturns` |
| `Harnesses` | 2 runs of one agent, 3 roots (none, inside the bound, outside), 2 configurations, 2 images, 1 change; 2 sibling calls in one run, none in the other | 86 k | `ImagesFit`, `GuestsActForTheirRun`, `ToolCallsReturn` |
| `Crab` | 3 turns, 1 crash, 1 reconnect, 1 compaction | 201 k | `FilesWhole`, `ShownIsKept`, `LoopComesBack` |

`HistoryInv`, `FileInv`, `CatalogInv`, `PeersInv`, `IndexInv` and `WireInv` include
their module's `TypeOK`.

### Why the bounds are enough

In `LiveSessions` two tasks suffice for every race
between two requests, and races of three requests on one session reduce to the
order in which two of them reach the same critical section; a resident bound of
one byte puts every second session over it, so every insert may evict; three ids
let one handle be opened, displaced and opened again. Symmetry is over tasks and
handles, used only where no liveness is checked. In `SessionHistory` five
entries make a turn with tools followed by a guest or a compaction and a rewind
over it; faults are limited to the first two entries said, which still places
them in every phase of a turn with all of its writes, and leaves three entries to
show the consequences. In `AgentLoop` three provider events switch between the two
kinds of segment, or put text beside two calls; two calls can be started and finish
in both orders, or one be started and the other not when the token fires, and two rounds show what is carried over from one to the next and what
happens when none is left. In `CrabDb`, writes that
start below cell five, and are of one to three cells, put a checkpoint between two
records, a torn tail under a longer, an equal and a shorter record, and a compaction of
the result; the proofs have no bound. In `Catalog` four
requests make two agents, and then rename and delete them in each other's way, or make,
fire, remove and restore subscriptions; the crash falls between any two writes of a
request or of the scaffold. In `McpPeers` two registrations declare a server of two
agents, move one to another configuration or forget it, while the two tasks
connect, call, reconnect and reap. In `TextIndex` three writes put a text,
replace it and remove it, or interleave with those of another text of the session; put
two messages, are cut off before they are counted and put one over them that is not
indexable; or truncate a session and append to it again. In `Wire` a capacity of one makes every second reply wait,
and two requests are enough for one to read what the other left. In `Harnesses` one
agent under two runs is where resolutions are shared and cleared; a guest whose sibling
calls on while the other run waits to write is what a nested read lock would hang on.
The other run makes no such call, to keep the instance small; the theorems have no
such bound. In `Crab` the third turn comes
after a compaction and a crash, or after a reconnect with the first still running.

Where deadlock is not checked the system may stop: a run of the loop is over, a
client has closed, the bound on requests is used up; and in `McpPeers` two tasks may
wait for each other (section 5).

### Fairness

`Spec` of `LiveSessions` assumes weak fairness of what a task does without
waiting for anybody (`Step`): the Tokio executor polls every task that is ready,
and the registry's lock is held for no await. It assumes strong fairness of
getting a session's lock (`Locking`): a Tokio mutex queues its waiters first come,
first served, so one that keeps becoming free is not withheld from a waiter for
ever. Nothing is assumed of clients, nor of the provider: that it answers is a
hypothesis of `EveryRequestAnswered` (`ProviderAnswers`) and is not one of
`CancelStopsRun`, which is about a provider that does not. `AgentLoop` assumes weak
fairness of what the loop does by itself when it is polled; that streams end and
tools finish is a hypothesis of `RunEnds` (`OthersAnswer`), one half of `Terminates`;
the other, that a cancel ends the run, has none. The fairness of the tools is strong,
because between two polls the loop is at the select, where no tool can finish. Where a
select polls a single stream (`Ask`, `Item`), the check of the token and the poll are one
step: a token that fires between them is one that fires right after.
`Wire` assumes that ready tasks are polled (the reader, the writer and every
dispatch), that a client which waits for a message reads it when it is there, and
that a daemon told to stop exits: handlers end, as `EveryRequestAnswered` says of the
longest of them. Nobody has to publish an event or to close. `Harnesses` assumes that
a run which can go on does, guests included, which the sandbox stops if need be.
`Crab` assumes that an engine's operations go on and that the loop polls its turn;
nothing of the user. The other modules state safety only.

## 4. Proofs

`LiveSessionsProofs` proves, for any tasks, handles, kinds of requests and
bounds:

| Theorem | States |
|---|---|
| `TypeCorrect` | `Spec => []TypeOK` |
| `IndexesNeverDisagree` | `Spec => []IndexesAgree` |
| `InsertsAreFresh` | `Spec => []PendingIdsFresh` |
| `TokensAreLive` | `Spec => []NoOrphanToken` |
| `LocksAreHeldByRunners` | `Spec => []LockHeldByRunner` |
| `EvictionIsSafe` | `Spec => EvictionSparesInUse` |
| `GrowthStaysBounded` | `Spec => BoundAfterInsert` |

The assumptions on the constants are `KindsAssumption` (the requests are of the
eight kinds), `BoundsAssumption` (the bounds are natural numbers) and
`NoneAssumption` (`None` is neither a task nor a request).

The inductive invariant is

    IInv == TypeOK /\ IndexesAgree /\ PendingIdsFresh /\ NoOrphanToken /\ LockHeldByRunner

and no part of it is inductive alone. Every part but `PendingIdsFresh`, which is
there for the induction only, is checked by the `LiveSessions` run. `IndexesAgree` needs `PendingIdsFresh`: an
insert of an id that is already registered under another handle would leave that
handle pointing at a session of this one. `PendingIdsFresh` needs from `TypeOK` that
every id in use lies below `next_id`, so that a fresh one differs from all. `NoOrphanToken`
needs it again, since an insert writes an entry with no token under an id some
other operation might have. `LockHeldByRunner` needs only types.
One lemma per action, or per group of actions that leave the same way
(`ReplyStep`, `GotoStep`, `UnlockStep`), shows that it preserves `IInv`; what the
proofs need of an eviction is one lemma, `EvictDropsOnly`: whatever the order and
the figures, the entries it leaves are those it was given, re-measured, and those
it takes were candidates. `EvictionIsSafe` follows from the invariant by an
argument over one step: only `Reprice`, `Insert` and `Close` remove entries. So does
`GrowthStaysBounded`: only `Insert` adds one, the least number of victims that fits is
taken if any does (`VictimsSuffice`), and what `evict` adds up after its refresh is
what the sessions left really have (`EvictBounds`), so that the sum itself is
never computed.

`AgentLoopProofs` proves, for any number of iterations, calls and provider events:

| Theorem | States |
|---|---|
| `TypeCorrect` | `Spec => []TypeOK` |
| `EffectsAreAccounted` | `Spec => []EffectsAccounted` |
| `RunIsRefined` | `Spec => ImplementsRun` |
| `EventsBracketed` | `Spec => []Bracketed` |
| `SteerKeepsWhatWasSaid` | `Spec => []SteerKeepsText` |

Its invariant adds to the types that a call whose future has completed has its own
output at its own index (`AnswersInPlace`), which is what makes the commit a group
of `AgentRun`, and that one request is sent per round (`AskedPerRound`), which
bounds the requests by the iterations. The refinement then goes step by step:
`CommitTools` is the abstract commit (`CommitIsGroup`), a reply or a kept partial
text is the last one, every other end is `Stop`, and the rest is invisible
(`StepRefines`). The two properties over the event log need what the loop's own
variables have to do with it (`LogInv`): the segment the loop believes open is the one
the log has open, the calls of the round that have a result in the log are those that
are not pending, and `built` has text when the log has a delta of it in this round.
`EffectsAreAccounted` needs in addition (`Accounts`) that what is not pending of this
round has been started, and that what was started of it is one of its calls: so a
commit, which finds nothing pending, records all that was started.
Assumed: the bounds are natural numbers, and `None` is not a call (`NoneAssumption`).

`SessionHistoryProofs` proves, for any number of entries said, any set of faults and any
order of them:

| Theorem | States |
|---|---|
| `HistoryStaysInBounds` | `Spec => []HistoryInv` |
| `NothingIsOverwritten` | `Spec => AppendsOverwriteNothing` |
| `ReloadRebuildsHistory` | `Spec => []ResumeMatchesLive` |
| `UserIsPersisted` | `Spec => []UserMessagePersisted` |

The inductive invariant has two halves, `IInv == Always /\ (intact => Undisturbed)`.
`Always` is what no fault can break: the types, that the live history has at most
one framing (so that stripping it costs a turn no more than the user's message it has just
pushed, and `pre_run_len` stays within the history), and that pending puts come before
every other pending write and past the stored count (`PutsPastCount`), from which
`NothingIsOverwritten` follows. `HistoryStaysInBounds` needs `Always` only.

`Undisturbed` is about a session in which nothing was cut short. Between operations
the store stands for the live history (`Stored`): the archived summary, if any, and the
first `message_count` keys are what is visible of it. Within a turn it stands for the
history before `pre`, and a user's message comes after (`InTurn`). While an operation writes,
`Writing` names each phase and says what the store and the writes left to make come to
together: `Appending(c, r)` has `c` messages and `r` more on their way, `Cutting(keep, a, r)`
has dropped the keys from `keep` to before `a` and has `r` left to drop, `Marking` and
`Swapping` are a compaction past its cut, and `MetaLeft` is the last write of each. What
makes the user's message survive the stripping is `Framed`: a framing stands directly
before a user's message, and a guest has spoken before it or answers it, so that the next
turn, which strips it, frames again and the two shifts cancel. That is the fact a rewind to
a guest's turn breaks (section 5), and why `intact` ends there.

The lemmas under it are about `InOrder` and `Picked`: the rank of a number in a finite set
is a bijection (`RankType` and what follows), and a filter of a concatenation, of an
appended entry and of a prefix is made of the filters of its parts. They need no induction
over sequences, only cardinalities of sets of positions. Assumed: the bounds are
natural numbers (`SaidAssumption`).

### The other modules

| Module | Theorems | For any |
|---|---|---|
| `LiveSessionsProofs`, of `CrabDb` | `IndexRebuilds` (`FileInv`), `StoreOpensAgain` (`OpensAgain`), `LogImplementsMap` (`ImplementsKV`) | keys, values and their sizes, crashes, length of the log |
| `McpPeersProofs` | `PeersCorrect` (`PeersInv`), `SettledCorrect` (`SettledPeers`), `DeclarationsCorrect` (`DeclarationsMatch`) | agents, names, configurations, tasks, registrations |
| `CatalogProofs` | `CatalogCorrect` (`CatalogInv`), `MirrorCorrect` (`MirrorAgrees`), `OnceCorrect` (`OnceFiresOnce`) | names, sources, tasks, requests, crashes |
| `WireProofs` | `WireCorrect` (`WireInv`), `ReplyIsMineCorrect` (`ReplyIsMine`) | connections, requests, events, capacities |
| `AgentLoopProofs`, of `Harnesses` | `ImagesFitTheirAgents` (`ImagesFit`), `GuestsAreTheirRuns` (`GuestsActForTheirRun`) | agents, declarations, roots, runs, depth of calls |
| `TextIndexProofs` | `IndexCorrect` (`IndexInv`), `StaleOnlyAfterFault` (`StaleAfterFault`), `SearchMatchesRanking` (`SearchAgrees`) | tasks, entries, texts, writes, faults |
| `CrabProofs` | `FilesStayWhole` (`FilesWhole`), `ShownStaysKept` (`ShownIsKept`) | turns, compactions, reconnects, crashes |

Each has the form `Spec => []...` (of `Harnesses`, `BermSpec => []...`; of `CrabDb`,
`DbSpec => []...` and `DbSpec => ImplementsKV`) for the property in
parentheses. TLC checked each
inductive invariant on the instance of section 3 before it was proved.

**CrabDb.** The lemmas come first, and are about any log. The offsets a replay comes to
are a `Chain`: the start is in it, every offset but the last leads into it, every offset
but the first is led to, and a record ends no later than the next one starts. A chain is what
`Reached` computes and the only one there is (`ReplayChain`, `ChainIsReplay`); so what a
write does to the log is said by what it does to the chain: one more offset
(`ChainAppend`), the same ones under a torn tail (`ChainKept`), those that fit under a cut
(`ChainCut`), or a new one (`PackedChain`, a compaction). The index is then the largest
offset of each key (`IndexPut`, `IndexDelete`, `NoRecords`).

The invariant is `DbInv == Typed /\ Sound /\ (~stray => Clean)`. `Sound` holds whatever the
log contains: the header names a snapshot whose entries lie before it, the resident index
leads to records of puts, and between the two halves of a snapshot the bytes at the end are
those of the index. `Clean` says that the resident index and the append position are what a
replay computes (`Replays`), that `map` is what is read through them, and, for the power, that
every cut of the log from the synced cells on is read as a map it was since the sync
(`Cuts`). `Cuts` is why a torn write has to be followed too: a later cut may make its
fragment longer or shorter than a record, and it stays torn (`ReplayTorn`, `ReplayCut`).
One lemma per action shows that it keeps the invariant and is a step of `KVStore`,
or leaves `map` alone. A torn write may be whole, and is then the put it was.
Assumed: there are finitely many keys (an index is counted), and sizes are natural numbers;
a value may be of no cells.

**McpPeers.** `register` and `unregister` have two critical sections each, and
`PeersInv` speaks of the points outside of them. The invariant (`IInv`) says who may be
counted by an entry in between: an owner the index files under it, or one whose
unregistration has left the index and holds it for itself on its way to the entry
(`ClaimsEntitled`, `LeavesAlone`). `Declarations` follows the one job of an owner that
never had two: as long as it is spawned or under way it is for what the agent declares
now. `Truth` is about a peer no stop of which overlapped a connect or a call: everyone
who connects it has cloned the entry's gate, so at most one is past it
(`OneGate`), and where that one is, or else the status, tells what the bridge holds.
Assumed: agents, names and configurations exist, and registrations are bounded.

**Catalog.** `BusInv` covers subscriptions: an id has one subscription over what the bus
serves, what is stored and what is on its way to the store; an outstanding put is of
something served, and an outstanding removal of something not. `OnceFiresOnce` needs
that whatever may still fire has not, unless its removal is on its way (`NotYet`). `AgentInv`
covers agents: for one that a single request at a time has worked on, `AtPoint` says at
every store call of that request by which names the agent is found and which it has.
Assumed: the scaffold's name is a name, and the bounds are natural numbers.

**Wire.** A reply does not say whose it is, so `ReplyIsMine` rests on the order of all
that is on its way: for a client that never dropped a call, everything in the channel and the socket
belongs to its current call (`Calls`), each message is later than what was read and no
message closes an answer but the last (`Fits`), and of a stream none is missing
(`NoGaps`). `RepliesAccepted` shows that what the dispatch answers an operation with
is what the client's method accepts. Assumed: `Ops` are operations of the protocol,
and the bounds are natural numbers.

**Harnesses.** Every image sits under the digest made of it (`OwnDigest`), and every
position of a resolution leads to an image that was built for the declaration at that
position, for this agent and root (`ResolvedFor`); so a purge, a reload or a build cannot
change what a digest in somebody's resolution stands for, and no image is left that
nothing points at (`Swept`). A run's stack holds images that act for its agent under
its root, to any depth (`StackOK`). No assumption is used.

**TextIndex.** For an entry that one task at a time worked on, `Stage` says at each store
call of `drop_text` and `index_text` which part of the terms has postings and whether the
record is there; when no task works on it, index and record are the terms it was
last indexed with, which a message put over it without being indexable does not
change. `StaleOnlyAfterFault` adds `Messages`: while there is no fault, of a session that
one call at a time has worked on, it is known what is stored (`InOrder`). Between calls
that is one message for each that is counted; in an append, what it has put besides; in
a truncation, what stays and what is left to drop (`Tracks`). So an append writes where
there is no message, and no text is left behind there. Two calls that overlap mark the
session as a whole (`Whole`, `Apart`). The
counters may be overwritten by stale reads; what bounds them (`Counted`) is that what
is stored and what any task has read leave room for one more document per task that is still to
count. `SearchAgrees` needs them exactly, as long as no counter was overwritten and no
entry had two tasks: then (`Tallied`) they are the number of entries and the number
of pairs of a term and an entry whose record is counted, where a record taken away and
not counted yet still counts (`Late`) and one put and not counted yet does not (`Early`);
one task counts at a time, and it has read what is there. At rest those are the records
of the stored texts, so both stores compare the same documents, lengths and frequencies;
and in a session without gaps a message's line is its position. Assumed: terms and tasks
are finite sets, an entry is a session and a position, there is one, and `MaxOps`
is a natural number.

**Crab.** The properties hold as long as no engine writes behind another (`shared`); so
the invariant is `Shapes /\ (~shared => FilesOK)`. `Shapes` holds whoever writes: what an
engine has left to do is a suffix of `Finalize` or of `CompactFiles`, a compaction is
the last thing in the queue of the engine in use, and past its second call the archive it
names is there. `FilesOK` says what an engine knows of the files (`Knows`): the
temporary file is there to be filled, and filled to be renamed (`TmpFits`); the history in memory contains every
readable line and all that was shown; the archive being written is that history; what
was shown is in what a resume reads, except from the replace to the point of a
compaction; and an old engine, once the new one has loaded the session, has not begun
its calls. Each file call is then one lemma (`AppendEffect` to `PointEffect`), a
turn's or a compaction's next call one more (`StoreKnows`, `PackKnows`), and `FileStep`
puts them together. That the marker of no bytes is no archive's name is not needed:
while it is there, nothing is claimed of what a resume reads but that a compaction is
under way. Assumed: `MaxTurns` is a natural number.

Some definitions have the form they have so that the prover can work with them, and
mean the same: the filters of a history in `SessionHistory` are the positions that pass,
in order of their rank (`InOrder`, `Picked`), and not `SelectSeq`, which recurs over the
history; in `TextIndex` the length of all texts is a number of pairs of a term and an entry,
and a message's line the number of lines before it; resolutions in `Harnesses` are functions on positions and not filtered
sequences, alternatives whose conditions overlap are `IF`s (a `CASE` picks any arm), and
`Crab` names an engine in an update of it where `@` would nest.

### Only model-checked

* Liveness: fairness is outside what the prover handles.
  That is `EveryRequestAnswered`, `CancelStopsRun`, `Terminates`, `ClientGoneReleases`,
  `EveryCallReturns`, `ToolCallsReturn` and `LoopComesBack`. Every other property of a
  passing run has a theorem.

## 5. Where code and documentation disagree

One disagreement has a run of its own:

* **A store that does not open** (`CrabDbSnapshot`). After a crash between the
  snapshot and the header that names it, the replay reads the snapshot as a record.

The others were met while modelling. The models contain these behaviours, and the
properties are conditioned so as to say what does hold beside them.

* *A stream no cancel reaches* (`sessions.rs:219`). `begin_cancel` overwrites the
  session's token and `end_cancel` clears whichever is there: of two streams on one
  session the first to end leaves the other without one.
* *A session counted from zero again* (`sessions.rs:97`). Two opens of a new handle
  both find nothing; the slower one's `create_session` resets `message_count` under
  messages that are stored, and the next append overwrites them.
* *A re-sent message that is not stored* (`engine/session.rs:103`). A rewind that ends
  at a guest's turn keeps its framing; the next turn counts it in `pre_run_len` and
  strips it, so the persisted slice starts after the user's message.
* *A rewind into the middle of a turn* (`engine/session.rs:92`). A tool's result has
  the role of a user, so `truncate` counts it as the start of a turn; for the same
  reason `load_conversation_history` (`engine/history.rs:107`) does not filter it, and
  a client is shown a blank message of the user.
* *A fragment that outlives its overwriting* (`db.rs:151`). `open_with` does not cut the
  file at the last clean boundary, so a record shorter than the torn one leaves the rest
  of it where the next open decodes it: after a torn put and a delete, the byte after the
  delete is one of the old value, and as an op it is likely unknown. With crashes in
  appends and between writes only, `OpensAfterCrash` fails within five steps of `CrabDb`.
* *Names that lead nowhere* (`interface/agent.rs:107`). Renaming an agent to its own name
  deletes its index entry; agents of one name, or two requests on one agent, take each
  other's. `create_agent` checks for a name and writes it later.
* *An install without a default* (`builder.rs:213`). After a crash between the writes of
  `scaffold` there is an agent, so the next start does not set the default.
* *Crossed mirror writes* (`event.rs:90`). A subscription's put may land after its
  removal; it is back after a restart.
* *Two locks in two orders* (`handler.rs:566`). `register` takes `peers` and then
  `by_owner`, `unregister` the reverse.
* *A process nobody owns* (`handler.rs:427`, `:461`). A peer that is unregistered, reaped
  or reconnected while a connect or a call is under way may leave its process running
  under no entry, or an entry that says connected without one.
* *Counters that drift* (`text.rs:196`). Two tasks that count at once lose one of the
  counts, and a crash leaves postings no record names.
* *A text that outlives its message* (`interface/session.rs:227`). An append that is cut
  off leaves indexed messages past the count. The next append puts its own over them, and
  where one is not indexable (a tool's result) it does not touch the index: the old record
  and postings stay under the key, and a search finds, by the old text, a message that does
  not have it. A second `create_session` of a handle leads to the same. The states are in
  `TextIndex` (`left`), and `StaleAfterFault` says that nothing else leads to them.
* *A prefix that matches too much* (`text.rs:262`). A document counts once per term the
  prefix matches, so the document frequency may exceed the documents and the
  matches vanish; the file store takes `foo*` as a whole term, and counts texts without
  terms, so the claim at `apps/code/src/backend/search.rs:5` holds for single whole terms.
* *Harness tools that are not routed* (`crabtalk/src/harness/mod.rs:75`). The registry
  indexes tools when it is built, before any agent has declared an image. A `load` that
  comes after `forget` reinstates the agent (`berm/src/harness.rs:165`).
* *A conversation cut without a marker* (`apps/code/src/backend/session.rs:166`; the
  store of the daemon, `interface/session.rs:258`, has the same order). A crash between the cut and the
  marker leaves the archive, and nothing that leads to it.
* *A line glued to a fragment* (`apps/code/src/backend/mod.rs:152`). The append after a
  torn one continues its line, and that entry is dropped on reading.
* *Two engines, one session* (`crab.rs:101`). A reconnect does not wait for the turn the old
  engine runs; what that stores behind the new engine is gone with the next
  compaction. Two writers also share one temporary file.

## 6. Not modelled

* `LiveSessions`: ephemeral streams, which touch no session; read-only listings
  other than `list_active`; the rewind request (`SessionHistory` has it).
* `SessionHistory`: event lines; the contents of metadata beyond the count and the
  summary; store calls that fail. The agent loop is what it commits: a reply, a call
  with its result, or nothing.
* `AgentLoop`: how a request is built, `ContextUsage` events, and `Agent::step`, which
  nothing in the daemon calls. How `MessageBuilder` puts a message together is that
  of the library.
* `CrabDb`: a write that fails while the process goes on (a full disk); the
  fallback for a snapshot that cannot be read; the option that turns snapshots
  off. The header's 32 bytes are written in one step. A power loss takes a suffix of
  the unsynced cells; the file system reordering them is not modelled.
* `Catalog`: what a configuration contains, and the run an event fires.
* `McpPeers`: the MCP protocol itself, and the announcements to clients.
* `TextIndex`: the numbers of a ranking; queries of several terms; tokenizing; the index
  of titles and summaries; `drop_text_prefix` and the rest of `delete_session`
  (`SessionHistory` has the messages it deletes).
* `Wire`: what messages contain; `len as u32` of a message over 4 GiB; more than one
  connection, which share nothing here.
* `Harnesses`: files, processes and requests behind a guest's doors, and the bounds
  on time and memory the sandbox puts on it; the depth of sibling calls, which the code
  does not bound.
* `Crab`: rendering, the transcript and the input line; the agent record written on
  opening; listing, deleting and rewinding files; event traces; two processes in one
  directory.
* Not at all: harness guests, which translate a tool's arguments into calls of their
  doors; web search and the skill and embedding libraries, which parse and fetch; the
  skill and harness stores, one record per key; the command line, the installer and
  the daemon's main. None keeps state that several steps have to agree on.

## 7. Plan

1. **Done**: every module of section 2, with the proofs of section 4.
2. **Done**: a theorem for every invariant and every action property the passing runs
   check; what is left to TLC is liveness.
