--------------------------- MODULE SessionHistory ---------------------------
(***************************************************************************)
(* One session's history, in memory and in the store.                      *)
(*                                                                         *)
(* The session's lock is held for a whole turn, compaction or rewind       *)
(* (runtime/src/engine), so these exclude each other; but the store        *)
(* (store/src/interface/session.rs) writes one key at a time, so a dropped *)
(* consumer, a crash or a delete by another client can fall between any    *)
(* two writes.  Pending writes are a queue; each step performs one.        *)
(***************************************************************************)
EXTENDS Integers, Sequences, FiniteSets, SequencesExt

CONSTANTS
  MaxSaid,  \* bound: entries ever said
  Faults,   \* what may go wrong, of AllFaults
  LastFault \* bound: nothing goes wrong once more than this has been said

AllFaults == {"unregistered", "guest_error", "drop", "crash", "delete"}

ASSUME SaidAssumption == MaxSaid \in Nat /\ LastFault \in Nat
ASSUME FaultsAssumption == Faults \subseteq AllFaults

VARIABLES
  live,     \* Session::history
  summary,  \* Session::summary is some
  pre,      \* pre_run_len of the turn in flight, 0 between turns
  pc,       \* idle, run (agent loop), guest (guest's stream), final, writing
  writes,   \* store writes the operation in flight still has to make
  msgs,     \* message keys: index -> entry
  meta,     \* [count, summary] of SessionMeta, or NoMeta
  marker,   \* archive key: the summary entry it leads to, or 0
  deletes,  \* steps another client's delete_session still has to make
  indexed,  \* the listing's index key exists
  said,     \* entries said so far; an entry's id is its turn in that order
  intact    \* ghost: since the history was last loaded, no operation was cut
            \* short and no rewind left a turn's framing behind

vars == <<live, summary, pre, pc, writes, msgs, meta, marker, indexed, deletes, said, intact>>
store == <<msgs, meta, marker, indexed>>

Kinds == {"user", "reply", "call", "result", "guest", "summary", "framing", "system"}
Entry == [id : 0..MaxSaid, kind : Kinds]
NoMeta == [count |-> -1, summary |-> FALSE]
Exists == meta # NoMeta
-----------------------------------------------------------------------------
(* HistoryEntry::auto_injected is set on the two framings only.            *)
Injected(e) == e.kind \in {"framing", "system"}

(* HistoryEntry::role: whatever is neither assistant nor system is a user, *)
(* a tool's result and a compaction's summary included; nothing has the    *)
(* role of a tool.                                                         *)
Role(e) ==
  CASE e.kind \in {"reply", "call", "guest"} -> "assistant"
    [] e.kind = "system" -> "system"
    [] OTHER -> "user"
RoleIsUser(e) == Role(e) = "user"

(* The numbers of S, in ascending order, and h at these numbers.           *)
InOrder(S) ==
  [k \in 1..Cardinality(S) |-> CHOOSE i \in S : Cardinality({j \in S : j < i}) = k - 1]
Picked(h, S) == LET order == InOrder(S) IN [k \in 1..Cardinality(S) |-> h[order[k]]]

Visible(h) == Picked(h, {i \in DOMAIN h : ~Injected(h[i])})

Framing(kind) == [id |-> 0, kind |-> kind]
Said(kind, n) == [id |-> said + n, kind |-> kind]

(* Insert before the last entry (len().saturating_sub(1)).                 *)
BeforeLast(h, e) == Append(Front(h), e) \o <<Last(h)>>

(* Fault: the framing is stripped and not put back.                        *)
PreparedWithoutFraming(h, user) == Visible(Append(h, user))

(* prepare_history: push the user's message, strip the framing of earlier  *)
(* turns, and frame the turn again if a guest has ever spoken.             *)
Prepared(h, user) ==
  LET plain == Visible(Append(h, user))
  IN  IF \E i \in DOMAIN plain : plain[i].kind = "guest"
      THEN BeforeLast(plain, Framing("framing"))
      ELSE plain

(* Fault: the framing of earlier turns stays.                              *)
GuestKeepsFraming(h, user) == BeforeLast(Append(h, user), Framing("system"))

(* The same head in guest_stream_to: a guest's turn is always framed.      *)
PreparedForGuest(h, user) == BeforeLast(Visible(Append(h, user)), Framing("system"))

(* Message keys in key order.                                              *)
Keys == InOrder(DOMAIN msgs)
StoredMessages == Picked(msgs, DOMAIN msgs)

(* load_session and resumed_history: the archived summary, then every      *)
(* message key in order, whatever message_count says.                      *)
Resumed ==
  IF marker = 0 THEN StoredMessages
  ELSE <<[id |-> marker, kind |-> "summary"]>> \o StoredMessages

(* load_conversation_history: what a client is shown of a stored session.  *)
ConversationHistory ==
  Picked(Resumed, {i \in DOMAIN Resumed : Role(Resumed[i]) \notin {"system", "tool"}})

(* What a clean stop leaves: a listed session, its keys counted exactly,   *)
(* marker and metadata in agreement.                                       *)
Consistent ==
  Exists /\ indexed /\ DOMAIN msgs = 0..(meta.count - 1) /\ (meta.summary <=> marker # 0)
-----------------------------------------------------------------------------
(* The store's operations, as the writes they make.  Each starts by        *)
(* reading the metadata.                                                   *)
CountWrite(n) == [op |-> "count", meta |-> [meta EXCEPT !.count = n]]
MetaWrite == [op |-> "meta"]

(* Fault: append at the end of the live history.                           *)
FromLiveLength == pre

(* append_session_messages appends at the stored message_count.            *)
AppendFrom == meta.count

AppendWrites(es) ==
  IF es = <<>> \/ ~Exists THEN <<>>
  ELSE [i \in DOMAIN es |-> [op |-> "put", key |-> AppendFrom + i - 1, entry |-> es[i]]]
       \o <<CountWrite(meta.count + Len(es))>>

(* truncate_session_messages drops every key past the first `keep`.        *)
TruncateWrites(keep) ==
  IF ~Exists THEN <<>>
  ELSE [i \in 1..(IF keep > Len(Keys) THEN 0 ELSE Len(Keys) - keep) |->
          [op |-> "drop", key |-> Keys[keep + i]]]
       \o <<CountWrite(IF keep > Len(Keys) THEN Len(Keys) ELSE keep)>>

(* compact: append_session_compact, then the live history becomes the      *)
(* summary, then update_session_meta.                                      *)
CompactWrites(id) ==
  TruncateWrites(0) \o <<[op |-> "mark", id |-> id], [op |-> "swap", id |-> id], MetaWrite>>

(* finalize_run persists what the turn left past pre_run_len.              *)
FinalizeWrites == AppendWrites(Visible(SubSeq(live, pre + 1, Len(live)))) \o <<MetaWrite>>

(* delete_session's scan, in key order: archive, meta, then the messages.  *)
DeletesOfKeys ==
  (IF marker = 0 THEN <<>> ELSE <<[op |-> "archive"]>>)
  \o (IF Exists THEN <<[op |-> "meta"]>> ELSE <<>>)
  \o [i \in DOMAIN Keys |-> [op |-> "msg", key |-> Keys[i]]]

(* Session::meta counts the live history, framing and prefix included;     *)
(* update_session_meta: the stored message_count wins, if there is one.    *)
LiveMeta == [count |-> Len(live), summary |-> summary]
UpdatedMeta == [LiveMeta EXCEPT !.count = IF Exists THEN meta.count ELSE @]
-----------------------------------------------------------------------------
May(fault) == fault \in Faults /\ said <= LastFault

Init ==
  /\ live = <<>> /\ summary = FALSE /\ pre = 0 /\ pc = "idle" /\ writes = <<>>
  /\ msgs = <<>> /\ meta = [count |-> 0, summary |-> FALSE] /\ marker = 0 /\ indexed = TRUE
  /\ deletes = <<>> /\ said = 0 /\ intact = TRUE

(* send_to and stream_to, up to the agent's run.                           *)
BeginTurn ==
  /\ pc = "idle" /\ said < MaxSaid
  /\ live' = Prepared(live, Said("user", 1))
  /\ said' = said + 1
  /\ \/ pc' = "run" /\ pre' = Len(live) /\ UNCHANGED intact
     \/ May("unregistered") /\ pc' = "idle" /\ intact' = FALSE /\ UNCHANGED pre
  /\ UNCHANGED <<store, deletes, summary, writes>>

(* A round of the agent loop commits a reply, which ends the run ...       *)
CommitReply ==
  /\ pc = "run" /\ said < MaxSaid
  /\ live' = Append(live, Said("reply", 1))
  /\ said' = said + 1
  /\ pc' = "final"
  /\ UNCHANGED <<store, deletes, summary, pre, writes, intact>>

(* ... or tool calls together with their results.                          *)
CommitTools ==
  /\ pc = "run" /\ said + 1 < MaxSaid
  /\ live' = live \o <<Said("call", 1), Said("result", 2)>>
  /\ said' = said + 2
  /\ UNCHANGED <<store, deletes, summary, pre, pc, writes, intact>>

(* The run ends with nothing more to commit: cancelled, failed, empty      *)
(* round, or out of iterations.                                            *)
StopRun ==
  /\ pc = "run"
  /\ pc' = "final"
  /\ UNCHANGED <<live, summary, pre, writes, store, deletes, said, intact>>

(* guest_stream_to, up to the guest's stream.                              *)
BeginGuest ==
  /\ pc = "idle" /\ said + 1 < MaxSaid
  /\ pre' = Len(live)
  /\ live' = PreparedForGuest(live, Said("user", 1))
  /\ said' = said + 1
  /\ pc' = "guest"
  /\ UNCHANGED <<store, deletes, summary, writes, intact>>

GuestReplies ==
  /\ pc = "guest"
  /\ live' = Append(live, Said("guest", 1))
  /\ said' = said + 1
  /\ pc' = "final"
  /\ UNCHANGED <<store, deletes, summary, pre, writes, intact>>

(* The guest's provider fails: the stream returns without finalize_run.    *)
GuestFails ==
  /\ pc = "guest" /\ May("guest_error")
  /\ pc' = "idle" /\ pre' = 0
  /\ intact' = FALSE
  /\ UNCHANGED <<live, summary, writes, store, deletes, said>>

(* finalize_run reads the metadata and starts writing.                     *)
Finalize ==
  /\ pc = "final"
  /\ writes' = FinalizeWrites
  /\ pre' = 0
  /\ pc' = "writing"
  /\ UNCHANGED <<live, summary, store, deletes, said, intact>>

(* compact, once the summary is back and archived in memory.               *)
Compact ==
  /\ pc = "idle" /\ live # <<>> /\ said < MaxSaid
  /\ said' = said + 1
  /\ writes' = CompactWrites(said + 1)
  /\ pc' = "writing"
  /\ UNCHANGED <<live, summary, pre, store, deletes, intact>>

(* truncate: the boundary is the turns-th user entry from the end.  If the *)
(* summary itself is cut, slicing the empty history past it panics, and    *)
(* the store is never told.                                                *)
Boundaries(turns) ==
  {i \in DOMAIN live :
     /\ RoleIsUser(live[i]) /\ ~Injected(live[i])
     /\ Cardinality({j \in i..Len(live) : RoleIsUser(live[j]) /\ ~Injected(live[j])}) = turns}

(* Fault: keep counts the archived prefix as a stored message.             *)
KeepWithPrefix(kept) == Len(Visible(kept))

(* The survivors the store holds: past the archived prefix, not injected.  *)
Keep(kept) == Len(Visible(SubSeq(kept, IF summary THEN 2 ELSE 1, Len(kept))))

Truncate(turns) ==
  /\ pc = "idle"
  /\ \E b \in Boundaries(turns) :
       LET kept == SubSeq(live, 1, b - 1) IN
       /\ live' = kept
       /\ \/ summary /\ kept = <<>> /\ intact' = FALSE /\ UNCHANGED <<pc, writes>>
          \/ /\ ~(summary /\ kept = <<>>)
             /\ writes' = TruncateWrites(Keep(kept))
             /\ pc' = "writing"
             /\ intact' = (intact /\ (kept = <<>> \/ ~Injected(Last(kept))))
  /\ UNCHANGED <<summary, pre, store, deletes, said>>

(* One write of the operation in flight.                                   *)
Write ==
  /\ pc = "writing" /\ writes # <<>>
  /\ LET w == Head(writes) IN
     /\ msgs' = CASE w.op = "put" -> [k \in DOMAIN msgs \cup {w.key} |->
                                        IF k = w.key THEN w.entry ELSE msgs[k]]
                  [] w.op = "drop" -> [k \in DOMAIN msgs \ {w.key} |-> msgs[k]]
                  [] OTHER -> msgs
     /\ meta' = CASE w.op = "count" -> w.meta
                  [] w.op = "meta" -> UpdatedMeta
                  [] OTHER -> meta
     /\ marker' = IF w.op = "mark" THEN w.id ELSE marker
     /\ live' = IF w.op = "swap" THEN <<[id |-> w.id, kind |-> "summary"]>> ELSE live
     /\ summary' = (summary \/ w.op = "swap")
  /\ writes' = Tail(writes)
  /\ UNCHANGED <<pre, pc, indexed, deletes, said, intact>>

(* The last write is done and the lock is released.                        *)
Done ==
  /\ pc = "writing" /\ writes = <<>>
  /\ pc' = "idle"
  /\ UNCHANGED <<live, summary, pre, writes, store, deletes, said, intact>>

(* The consumer goes away and the operation is dropped where it stands.    *)
Dropped ==
  /\ pc # "idle" /\ May("drop")
  /\ pc' = "idle" /\ writes' = <<>> /\ pre' = 0
  /\ intact' = FALSE
  /\ UNCHANGED <<live, summary, store, deletes, said>>

(* Sessions::open with the session not live: load it, or create it anew.   *)
Load ==
  /\ pc' = "idle" /\ writes' = <<>> /\ pre' = 0
  /\ IF Exists
     THEN live' = Resumed /\ summary' = meta.summary /\ UNCHANGED store
     ELSE /\ live' = <<>> /\ summary' = FALSE
          /\ meta' = [count |-> 0, summary |-> FALSE] /\ indexed' = TRUE
          /\ UNCHANGED <<msgs, marker>>
  /\ intact' = (Consistent' /\ deletes' = <<>>)
  /\ UNCHANGED said

(* The session is evicted or closed, and touched again.                    *)
Evicted == pc = "idle" /\ UNCHANGED deletes /\ Load

(* The daemon dies, and the session is touched again after its restart.    *)
Crash == May("crash") /\ deletes' = <<>> /\ Load

(* delete_session, called by another client and taking no session lock: it *)
(* drops the listing's index key, scans, and drops the keys it found, in   *)
(* key order.  A write may fall between any two of these.                  *)
DeleteIndex ==
  /\ May("delete") /\ deletes = <<>>
  /\ Exists \/ msgs # <<>> \/ marker # 0   \* else "session not found"
  /\ indexed' = (indexed /\ ~Exists)
  /\ deletes' = <<[op |-> "scan"]>>
  /\ intact' = FALSE
  /\ UNCHANGED <<live, summary, pre, pc, writes, msgs, meta, marker, said>>

DeleteStep ==
  /\ deletes # <<>>
  /\ LET d == Head(deletes) IN
     /\ deletes' = IF d.op = "scan" THEN DeletesOfKeys ELSE Tail(deletes)
     /\ marker' = IF d.op = "archive" THEN 0 ELSE marker
     /\ meta' = IF d.op = "meta" THEN NoMeta ELSE meta
     /\ msgs' = IF d.op = "msg" THEN [k \in DOMAIN msgs \ {d.key} |-> msgs[k]] ELSE msgs
  /\ UNCHANGED <<live, summary, pre, pc, writes, indexed, said, intact>>

Next ==
  \/ BeginTurn \/ CommitReply \/ CommitTools \/ StopRun
  \/ BeginGuest \/ GuestReplies \/ GuestFails
  \/ Finalize \/ Write \/ Done
  \/ Compact \/ \E turns \in 1..MaxSaid : Truncate(turns)
  \/ Dropped \/ Evicted \/ Crash \/ DeleteIndex \/ DeleteStep

Spec == Init /\ [][Next]_vars
-----------------------------------------------------------------------------
(* Type invariant.                                                         *)
TypeOK ==
  /\ live \in Seq(Entry) /\ StoredMessages \in Seq(Entry)
  /\ summary \in BOOLEAN /\ intact \in BOOLEAN /\ indexed \in BOOLEAN
  /\ pre \in Nat /\ said \in 0..MaxSaid /\ marker \in 0..MaxSaid
  /\ pc \in {"idle", "run", "guest", "final", "writing"}
  /\ meta = NoMeta \/ (meta.count \in Nat /\ meta.summary \in BOOLEAN)
  /\ \A i \in DOMAIN deletes : deletes[i].op \in {"scan", "archive", "meta", "msg"}
  /\ \A i \in DOMAIN writes : writes[i].op \in {"put", "drop", "count", "mark", "swap", "meta"}

(* What goes on eviction "is a cache entry rather than state": between     *)
(* operations, as long as none was cut short, a reload rebuilds exactly    *)
(* the history the session has, framing aside -- through turns with tools, *)
(* guests, compactions and rewinds in any order -- and a client that asks  *)
(* for it is shown "the same pre-compact context the model" gets.          *)
ResumeMatchesLive ==
  pc = "idle" /\ intact =>
    Resumed = Visible(live) /\ ConversationHistory = Visible(live) /\ Consistent

(* A turn that runs to its end from an intact state persists the user's    *)
(* message that opened it: the slice starts at or before that message.     *)
UserMessagePersisted ==
  pc \in {"run", "guest", "final"} /\ intact =>
    \E i \in (pre + 1)..Len(live) : live[i].kind = "user"

(* An append writes past the counted messages only: a crash, a drop or a   *)
(* delete between its writes never costs a message counted before.         *)
AppendsOverwriteNothing ==
  [][\A k \in DOMAIN msgs :
       k < meta.count => k \notin DOMAIN msgs' \/ msgs'[k] = msgs[k]]_vars

SliceInBounds == pc \in {"run", "guest", "final"} => pre <= Len(live)
FramingNeverStored == \A k \in DOMAIN msgs : ~Injected(msgs[k])

(* Whatever was cut short before: finalize_run, which slices the history   *)
(* at pre_run_len, measured before the framing of earlier turns is         *)
(* stripped, never slices out of bounds, and auto_injected entries are     *)
(* "never persisted as session steps".                                     *)
HistoryInv == TypeOK /\ SliceInBounds /\ FramingNeverStored
=============================================================================
