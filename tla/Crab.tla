-------------------------------- MODULE Crab --------------------------------
(* crab, the coding agent: a chat loop, an engine in the same process, and *)
(* a session kept as files in a directory.  A file is replaced by writing  *)
(* a temporary one and renaming it, or grows by appended lines; a crash    *)
(* stops whatever is under way.  An engine runs one operation at a time on *)
(* the session; what the loop walks away from, a new turn, a compaction or *)
(* a reconnect leaves running until its next event.                        *)
EXTENDS Naturals, Sequences, FiniteSets, Functions

CONSTANTS
  MaxTurns,       \* bound on the prompts submitted
  MaxCrashes,     \* bound on crashes and exits
  MaxReconnects,  \* bound on /reconnect
  MaxCompactions  \* bound on compactions

ASSUME TurnsAssumption == MaxTurns \in Nat

Engines == {1, 2}   \* the engine in use and the one before a reconnect
Compact == 0        \* an operation is a turn, 1..MaxTurns, or this
None == MaxTurns + 1

VARIABLES
  disk,     \* [meta, meta_tmp, lines, torn, cut_tmp, archive, memory]
  engines,  \* per engine: [loaded, live, op, todo, name, queue]
  cur,      \* the engine the loop uses
  app,      \* the loop: [phase, turn, ended]
  shown,    \* entries of the turns whose end the loop has shown
  shared,   \* whether the engine before a reconnect wrote behind the new one
  count     \* [turns, crashes, reconnects, compactions]

vars == <<disk, engines, cur, app, shown, shared, count>>

-----------------------------------------------------------------------------
(* The directory                                                           *)

(* A turn adds the user's entry and the answer.                            *)
Entries(t) == {<<t, 1>>, <<t, 2>>}

(* append_json of the first k of a turn's lines: a line that follows a     *)
(* fragment is one line with it.                                           *)
Appended(d, t, k) ==
  [d EXCEPT !.lines = @ \o [i \in 1..k |-> [entry |-> <<t, i>>, whole |-> i > 1 \/ ~d.torn]],
            !.torn = k = 0 /\ @]

(* read_lines: lines that do not parse are dropped.                        *)
Readable(d) == {l.entry : l \in {l \in Range(d.lines) : l.whole}}

(* The entries the marker's archive summarises.  The marker may be absent  *)
(* (0), or empty because its writing was cut short.                        *)
Archived(d) == IF d.archive \in DOMAIN d.memory THEN d.memory[d.archive] ELSE {}

(* load_session and resumed_history                                        *)
Resumed(d) == Archived(d) \cup Readable(d)

Empty == MaxCompactions + 1   \* an archive marker of no bytes

(* What is left of the file calls of each operation.  write_json: create   *)
(* the temporary file, fill it, rename it.                                 *)
WriteMeta == <<"create", "fill", "rename">>

(* finalize_run: append_session_messages, then update_session_meta.        *)
Finalize == <<"append">> \o WriteMeta \o WriteMeta

(* Fault: the marker comes before the archive it names.                    *)
CompactFilesMarkFirst ==
  <<"name", "cut", "replace">> \o WriteMeta \o <<"mark", "point", "archive">> \o WriteMeta

(* compact: write_archive, append_session_compact, which cuts the messages *)
(* and then writes the marker, and update_session_meta.                    *)
CompactFiles ==
  <<"name", "archive", "cut", "replace">> \o WriteMeta \o <<"mark", "point">> \o WriteMeta

(* Fault: write_json truncates and writes the file itself.                 *)
CreatedInPlace(d) == [d EXCEPT !.meta = "half", !.meta_tmp = "half"]

(* The temporary file's name is fixed, so two writers share it.            *)
Created(d) == [d EXCEPT !.meta_tmp = "half"]

(* rename, which fails when another writer's rename took the file.         *)
Renamed(d) ==
  IF d.meta_tmp = "none" THEN d ELSE [d EXCEPT !.meta = d.meta_tmp, !.meta_tmp = "none"]

(* A call that cannot be made ends the operation: a compaction's whose     *)
(* metadata does not parse, or whose temporary file another writer has     *)
(* renamed, and update_session_meta, the last of both, which reads the     *)
(* metadata that it replaces.                                              *)
Fails(d, e, do) ==
  \/ do = "cut" /\ d.meta # "whole"
  \/ do = "replace" /\ ~d.cut_tmp
  \/ do = "rename" /\ e.op = Compact /\ d.meta_tmp = "none"
  \/ do = "create" /\ e.todo = WriteMeta /\ d.meta = "half"

(* One file call of engine e.  A filled temporary file that was renamed    *)
(* meanwhile is filled where it is now.                                    *)
Effect(d, e, do) ==
  CASE do = "append" -> IF d.meta = "whole" THEN Appended(d, e.op, 2) ELSE d
    [] do = "create" -> IF Fails(d, e, do) THEN d ELSE Created(d)
    [] do = "fill" -> IF d.meta_tmp = "none" THEN [d EXCEPT !.meta = "whole"]
                      ELSE [d EXCEPT !.meta_tmp = "whole"]
    [] do = "rename" -> Renamed(d)
    [] do = "name" -> d
    [] do = "archive" -> [d EXCEPT !.memory = [n \in DOMAIN @ \cup {e.name} |->
                                                 IF n = e.name THEN e.live ELSE @[n]]]
    [] do = "cut" -> [d EXCEPT !.cut_tmp = TRUE]
    [] do = "replace" -> IF d.cut_tmp THEN [d EXCEPT !.lines = <<>>, !.torn = FALSE, !.cut_tmp = FALSE]
                         ELSE d
    [] do = "mark" -> [d EXCEPT !.archive = Empty]
    [] do = "point" -> [d EXCEPT !.archive = e.name]

(* The calls that remain: a turn goes on to its next storage call when the *)
(* metadata does not parse, or cannot be renamed.                          *)
Remaining(d, e, do) ==
  IF Fails(d, e, do) THEN <<>>
  ELSE IF do = "append" /\ d.meta # "whole" THEN WriteMeta
  ELSE Tail(e.todo)

(* The lines are gone from the file and the marker does not name the       *)
(* archive yet.                                                            *)
Cutting(e) ==
  /\ e.op = Compact /\ e.todo # <<>>
  /\ "point" \in Range(e.todo) /\ "replace" \notin Range(e.todo)

-----------------------------------------------------------------------------
(* The engine: operations wait for the session's lock in its queue         *)

Fresh == [loaded |-> FALSE, live |-> {}, op |-> None, todo |-> <<>>, name |-> 0,
          queue |-> <<>>]

Free(e) == e.op = None

(* Nobody receives the turn's events any more.                             *)
Walked(e) == engines[e].op # Compact /\ ~(cur = e /\ app.turn = engines[e].op)

(* Another engine is in the middle of its file calls, or holds a history   *)
(* that does not have what is being written.                               *)
Writing(e) == engines[e].todo # <<>>
Behind(e) == e # cur /\ engines[cur].loaded

(* The session is loaded by the first turn that asks for it.  Opening has  *)
(* found its metadata whole, and it takes two engines that have both       *)
(* loaded it to break it.                                                  *)
Lock(e) ==
  LET this == engines[e]
      loading == ~this.loaded
  IN  /\ Free(this) /\ this.queue # <<>>
      /\ engines' = [engines EXCEPT
           ![e] = [this EXCEPT !.op = Head(this.queue), !.queue = Tail(this.queue), !.loaded = TRUE,
                               !.live = IF loading THEN Resumed(disk) ELSE this.live]]
      /\ shared' = (shared \/ (loading /\ \E o \in Engines \ {e} : Writing(o)))
      /\ UNCHANGED <<disk, cur, app, shown, count>>

(* Fault: the lock is kept when the stream is dropped.                     *)
AbandonKeepsLock(e) ==
  /\ engines[e].op \in 1..MaxTurns /\ ~Writing(e) /\ Walked(e)
  /\ engines' = [engines EXCEPT ![e].op = None + 1]
  /\ UNCHANGED <<disk, cur, app, shown, shared, count>>

(* The next event of a turn nobody receives drops its stream: the history  *)
(* in memory keeps what the turn had added, and nothing is stored.         *)
Abandon(e) ==
  /\ engines[e].op \in 1..MaxTurns /\ ~Writing(e) /\ Walked(e)
  /\ engines' = [engines EXCEPT ![e].op = None, ![e].live = @ \cup {<<engines[e].op, 1>>}]
  /\ UNCHANGED <<disk, cur, app, shown, shared, count>>

(* The model is done, with no event since the loop walked away, if it did. *)
RunDone(e) ==
  /\ engines[e].op \in 1..MaxTurns /\ ~Writing(e)
  /\ engines' = [engines EXCEPT ![e].todo = Finalize, ![e].live = @ \cup Entries(engines[e].op)]
  /\ UNCHANGED <<disk, cur, app, shown, shared, count>>

(* The summary comes back, and files are written ...                       *)
Summarized(e) ==
  /\ engines[e].op = Compact /\ ~Writing(e) /\ engines[e].live # {}
  /\ engines' = [engines EXCEPT ![e].todo = CompactFiles]
  /\ UNCHANGED <<disk, cur, app, shown, shared, count>>

(* ... or there is nothing to summarise, or no summary.                    *)
NoSummary(e) ==
  /\ engines[e].op = Compact /\ ~Writing(e)
  /\ engines' = [engines EXCEPT ![e].op = None]
  /\ app' = [app EXCEPT !.phase = IF cur = e THEN "ready" ELSE @]
  /\ UNCHANGED <<disk, cur, shown, shared, count>>

Highest(d) == CHOOSE n \in 0..Cardinality(DOMAIN d.memory) : DOMAIN d.memory = 1..n

(* One file call.  After the last one the turn's end is sent, or the loop  *)
(* has its summary.                                                        *)
File(e) ==
  LET this == engines[e]
      do == Head(this.todo)
      rest == Remaining(disk, this, do)
  IN  /\ Writing(e)
      /\ disk' = Effect(disk, this, do)
      /\ engines' = [engines EXCEPT
           ![e] = [this EXCEPT !.todo = rest,
                               !.op = IF rest = <<>> THEN None ELSE this.op,
                               !.name = IF do = "name" THEN Highest(disk) + 1
                                        ELSE IF rest = <<>> THEN 0 ELSE this.name]]
      /\ app' = [app EXCEPT
           !.phase = IF rest = <<>> /\ this.op = Compact /\ cur = e THEN "ready" ELSE @,
           !.ended = IF rest = <<>> /\ ~Walked(e) /\ this.op # Compact THEN TRUE ELSE @]
      /\ shared' = (shared \/ Behind(e))
      /\ UNCHANGED <<cur, shown, count>>

EngineStep(e) ==
  \/ Lock(e) \/ Abandon(e) \/ RunDone(e) \/ Summarized(e) \/ NoSummary(e)
  \/ File(e)

-----------------------------------------------------------------------------
(* The chat loop                                                           *)

Closed == [phase |-> "closed", turn |-> None, ended |-> FALSE]
Ready == [Closed EXCEPT !.phase = "ready"]

(* open: a directory without a session gets one, which is live at once.    *)
Open ==
  /\ app.phase = "closed" /\ disk.meta # "half"
  /\ app' = Ready
  /\ engines' = [engines EXCEPT ![cur] = [Fresh EXCEPT !.loaded = disk.meta = "none"]]
  /\ disk' = [disk EXCEPT !.meta = "whole"]
  /\ UNCHANGED <<cur, shown, shared, count>>

(* key: a prompt starts a turn, and the one in flight is left.             *)
Submit ==
  /\ app.phase = "ready" /\ count.turns < MaxTurns
  /\ count' = [count EXCEPT !.turns = @ + 1]
  /\ app' = [app EXCEPT !.turn = count'.turns, !.ended = FALSE]
  /\ engines' = [engines EXCEPT ![cur].queue = Append(@, count'.turns)]
  /\ UNCHANGED <<disk, cur, shown, shared>>

(* cancel: the run stops soon, and its receiver is gone.                   *)
Interrupt ==
  /\ app.phase = "ready" /\ app.turn # None
  /\ app' = Ready
  /\ UNCHANGED <<disk, engines, cur, shown, shared, count>>

(* Entries in a line that begins with a fragment, which no reader gets.    *)
Glued == {l.entry : l \in {l \in Range(disk.lines) : ~l.whole}}

(* chunk: the turn's end, shown as such, and a compaction when the next    *)
(* turn would not fit; or fail, for an end with an error.                  *)
EndTurn ==
  /\ app.phase = "ready" /\ app.turn # None /\ app.ended
  /\ \/ shown' = shown \cup (Entries(app.turn) \ Glued)
     \/ UNCHANGED shown
  /\ app' = Ready
  /\ UNCHANGED <<disk, engines, cur, shared, count>>

(* Crab::compact: compact_conversation knows live sessions only.           *)
Compactable == engines[cur].loaded

(* compact: asked for, or due; the loop waits for the summary.             *)
CompactSession ==
  /\ app.phase = "ready" /\ count.compactions < MaxCompactions
  /\ count' = [count EXCEPT !.compactions = @ + 1]
  /\ app' = IF Compactable THEN [Ready EXCEPT !.phase = "compacting"] ELSE Ready
  /\ engines' = IF Compactable
                THEN [engines EXCEPT ![cur].queue = Append(@, Compact)] ELSE engines
  /\ UNCHANGED <<disk, cur, shown, shared>>

(* Crab::reconnect: a new engine over the same files, if they open; the    *)
(* turn in flight, and those that wait, stay with the old one.             *)
Replaced(other) ==
  IF disk.meta = "whole"
  THEN cur' = other /\ engines' = [engines EXCEPT ![other] = Fresh]
  ELSE UNCHANGED <<cur, engines>>

(* /reconnect: the turn's receiver is dropped, and the engine replaced.    *)
Reconnect ==
  LET other == 3 - cur
  IN  /\ app.phase = "ready" /\ count.reconnects < MaxReconnects
      /\ Free(engines[other]) /\ engines[other].queue = <<>>
      /\ count' = [count EXCEPT !.reconnects = @ + 1]
      /\ app' = Ready
      /\ Replaced(other)
      /\ UNCHANGED <<disk, shown, shared>>

(* The process ends, by a crash or because it is left.  A write under way  *)
(* is cut short: of an append, some lines and a part of the next remain.   *)
CutShort(d, e) ==
  IF ~Writing(e) \/ Head(engines[e].todo) # "append" \/ d.meta # "whole" THEN {d}
  ELSE {[Appended(d, engines[e].op, k) EXCEPT !.torn = @ \/ part] :
          k \in {0, 1}, part \in BOOLEAN}

Crash ==
  /\ app.phase # "closed" /\ count.crashes < MaxCrashes
  /\ count' = [count EXCEPT !.crashes = @ + 1]
  /\ disk' \in UNION {CutShort(d, 2) : d \in CutShort(disk, 1)}
  /\ engines' = [e \in Engines |-> Fresh]
  /\ app' = Closed
  \* Between the cut and the marker the conversation is in no file a resume reads.
  /\ shown' = IF \E e \in Engines : Cutting(engines[e]) THEN {} ELSE shown
  /\ UNCHANGED <<cur, shared>>

-----------------------------------------------------------------------------
Init ==
  /\ disk = [meta |-> "none", meta_tmp |-> "none", lines |-> <<>>, torn |-> FALSE,
             cut_tmp |-> FALSE, archive |-> 0, memory |-> <<>>]
  /\ engines = [e \in Engines |-> Fresh]
  /\ cur = 1
  /\ app = Closed
  /\ shown = {}
  /\ shared = FALSE
  /\ count = [turns |-> 0, crashes |-> 0, reconnects |-> 0, compactions |-> 0]

Next ==
  \/ \E e \in Engines : EngineStep(e)
  \/ Open \/ Submit \/ Interrupt \/ EndTurn \/ CompactSession \/ Reconnect \/ Crash

(* Runs end, file calls return, and the loop polls its turn.               *)
Fairness == (\A e \in Engines : WF_vars(EngineStep(e))) /\ WF_vars(EndTurn)

Spec == Init /\ [][Next]_vars /\ Fairness

-----------------------------------------------------------------------------
(* The marker's archive is there, and the files a resume reads are whole:  *)
(* a reader never sees half of one.  A marker of no bytes is what a crash  *)
(* leaves between creating and writing it.                                 *)
FilesWhole == ~shared =>
  /\ disk.meta # "half"
  /\ disk.archive \in {0, Empty} \cup DOMAIN disk.memory

(* Whatever the loop showed as done stays in what a resume reads, through  *)
(* compactions, reconnects and crashes, but for a line that was appended   *)
(* to a fragment and a crash between the cut and the marker.  While a      *)
(* compaction cuts, the archive it is about to name holds it.              *)
ShownIsKept == ~shared =>
  shown \subseteq
    Resumed(disk) \cup UNION {Archived([disk EXCEPT !.archive = engines[e].name]) :
                                e \in {e \in Engines : Cutting(engines[e])}}

(* A turn's end, a walk away or an error comes for every turn, and the     *)
(* loop comes back from every compaction, whatever the engine was left     *)
(* with before.                                                            *)
LoopComesBack ==
  /\ \A t \in 1..MaxTurns : app.turn = t ~> app.turn # t
  /\ app.phase = "compacting" ~> app.phase # "compacting"
=============================================================================
