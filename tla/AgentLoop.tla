------------------------------ MODULE AgentLoop ------------------------------
(***************************************************************************)
(* One run of Agent::run_stream (runtime/src/agent/mod.rs): rounds of a    *)
(* streamed model answer and of tool calls dispatched concurrently, each   *)
(* await raced against the session's cancellation token with the token     *)
(* first.  A generator that is not polled does nothing: the provider is    *)
(* asked when a select polls its stream, and a tool starts when a poll of  *)
(* the futures reaches its own.  Such a poll goes from future to future    *)
(* until one is ready, and does not look at the token in between, which    *)
(* another thread may fire.  The consumer may drop the run at any await or *)
(* yield.  ContextUsage, an event beside the others, is left out.          *)
(***************************************************************************)
EXTENDS Naturals, Sequences, FiniteSets, FiniteSetsExt

CONSTANTS
  MaxIterations,  \* AgentConfig::max_iterations
  MaxCalls,       \* bound: tool calls in one message
  MaxItems,       \* bound: events the provider streams in one round
  None

ASSUME BoundsAssumption == MaxIterations \in Nat /\ MaxCalls \in Nat /\ MaxItems \in Nat
ASSUME NoneAssumption == None \notin Nat \X Nat

VARIABLES
  pc,        \* loop, ask (stream built), stream, call (at the select over the
             \* tools' futures), dispatch (inside pending.next()), done, dropped
  history,   \* what the run has appended to the session's history
  steps,     \* number of AgentSteps pushed
  fired,     \* the cancellation token has fired
  open,      \* OpenSegment: none, text, thinking
  built,     \* MessageBuilder: [text, calls, malformed]
  length,    \* finish_reason is Length
  items,     \* provider events received this round
  pending,   \* indexes of the calls whose future has not completed
  buffered,  \* call index -> output, or None
  asked,     \* requests the provider has been sent
  started,   \* tools that have been started, over the run
  log,       \* events yielded
  stop       \* the stop reason of Done, or none

received == <<open, built, length, items>>
futures == <<pending, buffered>>
effects == <<asked, started>>
vars == <<pc, history, steps, fired, received, futures, effects, log, stop>>

Over == {"done", "dropped"}

(* The run as the session sees it.                                         *)
Phase == IF pc \in Over THEN "over" ELSE "running"
R == INSTANCE AgentRun WITH rounds <- steps, phase <- Phase

Round == steps + 1
Empty == [text |-> FALSE, calls |-> 0, malformed |-> FALSE]
Event(name) == <<name>>
-----------------------------------------------------------------------------
Init ==
  /\ pc = "loop" /\ history = <<>> /\ steps = 0 /\ fired = FALSE
  /\ open = "none" /\ built = Empty /\ length = FALSE /\ items = 0
  /\ pending = {} /\ buffered = <<>>
  /\ asked = 0 /\ started = {} /\ log = <<>> /\ stop = "none"

(* A biased select goes on to its second branch only if the token has not  *)
(* fired.                                                                  *)
PollsOn == ~fired

(* The tools of this round that have been started.                         *)
Begun == {i \in DOMAIN buffered : <<Round, i>> \in started}

(* The events that switch segments before a delta of the given kind.       *)
Switch(kind) ==
  LET ends == [text |-> <<Event("TextEnd")>>, thinking |-> <<Event("ThinkingEnd")>>,
               none |-> <<>>]
      starts == [text |-> Event("TextStart"), thinking |-> Event("ThinkingStart")]
  IN  IF open = kind THEN <<>> ELSE Append(ends[open], starts[kind])

(* Fault: a segment is left open at the end of its stream.                 *)
LeaveOpen == <<>>

(* The match on the open segment after the stream.                         *)
CloseSegment ==
  CASE open = "text" -> <<Event("TextEnd")>>
    [] open = "thinking" -> <<Event("ThinkingEnd")>>
    [] OTHER -> <<>>

(* Done is yielded, after what the round still had to yield.               *)
Done(events, reason) ==
  /\ pc' = "done"
  /\ stop' = reason
  /\ log' = log \o events \o <<Event("Done")>>

(* Fault: one round more than configured.                                  *)
RoundsLeftInclusive == steps <= MaxIterations

(* for _ in 0..max                                                         *)
RoundsLeft == steps < MaxIterations

(* The head of a round: the request is built from the history, the stream  *)
(* over it is not polled yet.                                              *)
BeginRound ==
  /\ pc = "loop" /\ RoundsLeft
  /\ pc' = "ask"
  /\ open' = "none" /\ built' = Empty /\ length' = FALSE /\ items' = 0
  /\ pending' = {} /\ buffered' = <<>>
  /\ UNCHANGED <<history, steps, fired, effects, log, stop>>

OutOfIterations ==
  /\ pc = "loop" /\ ~RoundsLeft
  /\ Done(<<>>, "MaxIterations")
  /\ UNCHANGED <<history, steps, fired, received, futures, effects>>

(* The first poll of the stream sends the request.                         *)
Ask ==
  /\ pc = "ask" /\ PollsOn
  /\ pc' = "stream"
  /\ asked' = asked + 1
  /\ UNCHANGED <<history, steps, fired, received, futures, started, log, stop>>

(* One event of the stream.                                                *)
Item ==
  /\ pc = "stream" /\ PollsOn /\ items < MaxItems
  /\ items' = items + 1
  /\ UNCHANGED <<pc, history, steps, fired, futures, effects, stop>>

(* A text delta opens a text segment even when there is nothing in it.     *)
TextDelta(some) ==
  /\ Item
  /\ log' = log \o Switch("text") \o <<Event(IF some THEN "TextDelta" ELSE "EmptyDelta")>>
  /\ open' = "text"
  /\ built' = [built EXCEPT !.text = @ \/ some]
  /\ UNCHANGED length

ThinkingDelta ==
  /\ Item
  /\ log' = log \o Switch("thinking") \o <<Event("ThinkingDelta")>>
  /\ open' = "thinking"
  /\ UNCHANGED <<built, length>>

(* A tool-use block: the first of a round is announced at once.            *)
ToolUse(malformed) ==
  /\ Item /\ built.calls < MaxCalls
  /\ built' = [built EXCEPT !.calls = @ + 1, !.malformed = @ \/ malformed]
  /\ log' = IF built.calls = 0 THEN Append(log, Event("ToolCallsBegin")) ELSE log
  /\ UNCHANGED <<open, length>>

MessageDelta(truncated) ==
  /\ Item
  /\ length' = truncated
  /\ UNCHANGED <<open, built, log>>

(* Fault: text next to a half-streamed call goes with it.                  *)
KeepsTextAlone == built.text /\ built.calls = 0

(* On a cancel, what has been said is kept, without its calls.             *)
KeepsText == built.text

(* The token fires before or during the stream.                            *)
StopStream ==
  /\ pc \in {"ask", "stream"} /\ fired
  /\ history' = IF KeepsText THEN Append(history, R!Reply) ELSE history
  /\ Done(CloseSegment, "Cancelled")
  /\ UNCHANGED <<steps, fired, received, futures, effects>>

StreamFails ==
  /\ pc = "stream" /\ PollsOn
  /\ Done(CloseSegment, "Error")
  /\ UNCHANGED <<history, steps, fired, received, futures, effects>>

(* The stream ends: mangled arguments, unless the output was truncated, or *)
(* nothing at all, end the run with nothing committed;                     *)
EndsBadly ==
  /\ pc = "stream" /\ PollsOn
  /\ \/ built.malformed /\ ~length /\ Done(CloseSegment, "Error")
     \/ ~built.text /\ built.calls = 0 /\ Done(CloseSegment, "NoAction")
  /\ UNCHANGED <<history, steps, fired, received, futures, effects>>

Usable == built.malformed => length

(* a text without calls is committed and ends it;                          *)
EndsWithReply ==
  /\ pc = "stream" /\ PollsOn
  /\ Usable /\ built.text /\ built.calls = 0
  /\ history' = Append(history, R!Reply)
  /\ steps' = steps + 1
  /\ Done(CloseSegment, "TextResponse")
  /\ UNCHANGED <<fired, received, futures, effects>>

(* and with calls, their futures are built.                                *)
EndsWithCalls ==
  /\ pc = "stream" /\ PollsOn
  /\ Usable /\ built.calls > 0
  /\ log' = log \o CloseSegment \o <<Event("ToolCallsStart")>>
  /\ pending' = 1..built.calls
  /\ buffered' = [i \in 1..built.calls |-> None]
  /\ pc' = "call"
  /\ UNCHANGED <<history, steps, fired, received, effects, stop>>

(* The select goes on to pending.next().                                   *)
PollTools ==
  /\ pc = "call" /\ PollsOn
  /\ pc' = "dispatch"
  /\ UNCHANGED <<history, steps, fired, received, futures, effects, log, stop>>

(* A future is polled for the first time, which starts its tool, and is    *)
(* not ready: the poll goes on to the next one, in an order of its own.    *)
StartTool(i) ==
  /\ pc = "dispatch" /\ i \in pending \ Begun
  /\ started' = started \cup {<<Round, i>>}
  /\ UNCHANGED <<pc, history, steps, fired, received, futures, asked, log, stop>>

(* None is ready, of those that the poll got to: at least one, when none   *)
(* has been polled before.                                                 *)
ToolsPending ==
  /\ pc = "dispatch" /\ pending # {} /\ Begun # {}
  /\ pc' = "call"
  /\ UNCHANGED <<history, steps, fired, received, futures, effects, log, stop>>

(* Fault: outputs in the order the tools finish in.                        *)
BufferedInTurn(i, output) ==
  LET free == Min({j \in DOMAIN buffered : buffered[j] = None})
  IN  [buffered EXCEPT ![free] = output]

(* buffered[idx] = Some(output)                                            *)
Buffered(i, output) == [buffered EXCEPT ![i] = output]

(* A future is ready, on its first poll or a later one: its result is      *)
(* yielded at once and kept at its index, and the select looks at the      *)
(* token again before any other future is polled.                          *)
ToolFinishes(i) ==
  /\ pc = "dispatch" /\ i \in pending
  /\ pc' = "call"
  /\ started' = started \cup {<<Round, i>>}
  /\ pending' = pending \ {i}
  /\ buffered' = Buffered(i, <<Round, i>>)
  /\ log' = Append(log, <<"ToolResult", Round, i>>)
  /\ UNCHANGED <<history, steps, fired, received, asked, stop>>

(* Fault: the futures that have been polled are taken for all.             *)
DrainedBegun == pending \cap Begun = {}

(* pending.next() is None.                                                 *)
Drained == pending = {}

(* The assistant message and every result, with no await in between.       *)
CommitTools ==
  /\ pc = "dispatch" /\ Drained
  /\ history' = history \o (<<R!Calls(Round, built.calls)>>
                   \o [i \in 1..built.calls |-> R!Result(<<Round, i>>, buffered[i])])
  /\ log' = Append(log, Event("ToolCallsComplete"))
  /\ steps' = steps + 1
  /\ pc' = "loop"
  /\ UNCHANGED <<fired, received, futures, effects, stop>>

(* Fault: tools that run are waited for.                                   *)
StopsUnstarted == fired /\ Begun = {}

(* The token's branch of the select over the tools.                        *)
Stops == fired

StopDispatch ==
  /\ pc = "call" /\ Stops
  /\ Done(<<>>, "Cancelled")
  /\ UNCHANGED <<history, steps, fired, received, futures, effects>>

(* Somebody cancels the session's operation.                               *)
Fire ==
  /\ pc \notin Over /\ ~fired
  /\ fired' = TRUE
  /\ UNCHANGED <<pc, history, steps, received, futures, effects, log, stop>>

(* The consumer drops the stream.                                          *)
Drop ==
  /\ pc \notin Over
  /\ pc' = "dropped"
  /\ UNCHANGED <<history, steps, fired, received, futures, effects, log, stop>>

(* What the loop does whenever it is polled,                               *)
Advance ==
  \/ BeginRound \/ OutOfIterations \/ Ask \/ StopStream
  \/ PollTools \/ (\E i \in 1..MaxCalls : StartTool(i)) \/ ToolsPending
  \/ CommitTools \/ StopDispatch

(* what it does with the provider's stream,                                *)
Streamed ==
  \/ \E some \in BOOLEAN : TextDelta(some)
  \/ ThinkingDelta
  \/ \E malformed \in BOOLEAN : ToolUse(malformed)
  \/ \E truncated \in BOOLEAN : MessageDelta(truncated)

StreamEnds == StreamFails \/ EndsBadly \/ EndsWithReply \/ EndsWithCalls

(* and with the tools.                                                     *)
ToolDone == \E i \in 1..MaxCalls : ToolFinishes(i)

Next == Advance \/ Streamed \/ StreamEnds \/ ToolDone \/ Fire \/ Drop

(* The consumer polls the run for as long as it keeps it.                  *)
Spec == Init /\ [][Next]_vars /\ WF_vars(Advance)

(* Streams that end, and tools that finish if they are polled again and    *)
(* again: between two polls the select is at the token.                    *)
OthersAnswer == WF_vars(StreamEnds) /\ SF_vars(ToolDone)
-----------------------------------------------------------------------------
(* Type invariant.                                                         *)
TypeOK ==
  /\ pc \in {"loop", "ask", "stream", "call", "dispatch", "done", "dropped"}
  /\ steps \in 0..MaxIterations /\ asked \in 0..MaxIterations
  /\ fired \in BOOLEAN /\ length \in BOOLEAN
  /\ open \in {"none", "text", "thinking"}
  /\ built \in [text : BOOLEAN, calls : 0..MaxCalls, malformed : BOOLEAN]
  /\ items \in 0..MaxItems
  /\ started \subseteq (1..MaxIterations) \X (1..MaxCalls)
  /\ pending \subseteq DOMAIN buffered
  /\ pc \in {"ask", "stream", "call", "dispatch"} => steps < MaxIterations
  /\ pc \in {"call", "dispatch"} => built.calls > 0
  /\ pc \in {"call", "dispatch"} => buffered \in [1..built.calls -> (Nat \X Nat) \cup {None}]
  /\ stop \in {"none", "MaxIterations", "Cancelled", "Error", "NoAction", "TextResponse"}

Named(name) == {n \in DOMAIN log : log[n][1] = name}

(* The segment open after the first n events, as a client reads them.      *)
SegmentAt(n) ==
  LET edges == {"TextStart", "TextEnd", "ThinkingStart", "ThinkingEnd"}
      marks == {m \in 1..n : log[m][1] \in edges}
  IN  IF marks = {} THEN "none"
      ELSE CASE log[Max(marks)][1] = "TextStart" -> "text"
             [] log[Max(marks)][1] = "ThinkingStart" -> "thinking"
             [] OTHER -> "none"

SegmentsClosed ==
  /\ \A n \in Named("TextDelta") \cup Named("EmptyDelta") : SegmentAt(n) = "text"
  /\ \A n \in Named("ThinkingDelta") : SegmentAt(n) = "thinking"
  /\ \A n \in Named("TextStart") \cup Named("ThinkingStart") \cup Named("ToolCallsStart")
               \cup Named("Done") : SegmentAt(n - 1) = "none"

ResultsBeforeComplete ==
  /\ \A n \in Named("ToolCallsComplete") :
       LET first == Max({m \in Named("ToolCallsStart") : m < n})
           r == Cardinality({m \in Named("ToolCallsComplete") : m <= n})
       IN  {log[m] : m \in (first + 1)..(n - 1)} =
             {<<"ToolResult", r, i>> : i \in 1..(n - first - 1)}
           /\ \E e \in DOMAIN history : history[e] = R!Calls(r, n - first - 1)
  /\ \A n \in Named("Done") : n = Len(log)

(* What a client is told in AgentEvents is bracketed.  A segment's deltas  *)
(* lie between its start and its end, and none is open when tools are      *)
(* called, when a round is over or when the run is, however the stream     *)
(* came to its end; every announced call has had exactly one ToolResult    *)
(* when its round is complete; and nothing follows Done.                   *)
Bracketed == SegmentsClosed /\ ResultsBeforeComplete

(* The calls that the history has a result of.                             *)
Recorded == {history[n].call : n \in {n \in DOMAIN history : history[n].kind = "result"}}

(* What a tool did to the world is in the history for the next turn to     *)
(* see: each tool that was started has a result there, unless it is of the *)
(* round in progress or of the one that a cancel or the loss of the        *)
(* consumer cut short; and the result of a call is that of a tool that was *)
(* started.  A round's tools may be started in part: one that is ready on  *)
(* its first poll brings the select back to the token, which may have      *)
(* fired by then.                                                          *)
EffectsAccounted ==
  /\ Recorded \subseteq started
  /\ \A t \in started \ Recorded :
       t[1] = Round /\ (pc \in {"call", "dispatch", "dropped"} \/ stop = "Cancelled")

(* Comment in run_stream: "A steer lands mid-sentence; keep the partial    *)
(* text so the next turn can react to it."  When a cancel cuts a stream    *)
(* short, text a client has seen in that round is in the history.          *)
SteerKeepsText ==
  LET thisRound == (1 + Max({0} \cup Named("ToolCallsComplete")))..Len(log)
  IN  stop = "Cancelled" /\ Named("TextDelta") \cap thisRound # {}
        /\ Named("ToolCallsStart") \cap thisRound = {}
      => history # <<>> /\ history[Len(history)] = R!Reply

(* "no orphan tool_use without tool_result": whatever is cancelled, fails  *)
(* or is dropped, the history grows as AgentRun says, in whole groups and  *)
(* in call order, although tools finish in any order.                      *)
ImplementsRun == R!Spec

(* A cancel ends the run, whatever the provider and the tools do.          *)
CancelEndsRun == fired ~> pc \in Over

(* A run whose streams end and whose tools finish comes to its end: the    *)
(* iterations are bounded however often the model calls tools.             *)
RunEnds == OthersAnswer => <>(pc \in Over)

(* A run ends by its own bounds, and a cancel ends it regardless.          *)
Terminates == CancelEndsRun /\ RunEnds
=============================================================================
