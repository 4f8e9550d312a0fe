--------------------------- MODULE AgentLoopProofs ---------------------------
(***************************************************************************)
(* For every number of iterations and of tool calls: the types of a run;   *)
(* that the run implements AgentRun, the way its session sees it; what the *)
(* events it yields tell a client; and that its history accounts for the   *)
(* tools it started.  The last part is about the sandbox its tools are     *)
(* called in.                                                              *)
(***************************************************************************)
EXTENDS AgentLoop, Harnesses, FiniteSetTheorems, WellFoundedInduction, TLAPS

(* A call whose future has completed has its own output at its own index,  *)
(* whatever order the tools finish in.                                     *)
AnswersInPlace ==
  pc \in {"call", "dispatch"} =>
    \A i \in 1..built.calls : i \in pending \/ buffered[i] = <<Round, i>>

(* One request per round.                                                  *)
AskedPerRound ==
  /\ pc \in {"loop", "ask"} => asked = steps
  /\ pc \in {"stream", "call", "dispatch"} => asked = steps + 1

(* The inductive invariant.                                                *)
IInv == TypeOK /\ AnswersInPlace /\ AskedPerRound

Built == [text : BOOLEAN, calls : 0..MaxCalls, malformed : BOOLEAN]

LEMMA EmptyBuilt == Empty \in Built
  <1>1. 0 \in 0..MaxCalls
    BY BoundsAssumption
  <1>2. QED
    BY <1>1, Zenon DEF Empty, Built

LEMMA InitIInv == Init => IInv
  <1> SUFFICES ASSUME Init PROVE IInv
    OBVIOUS
  <1>1. built \in [text : BOOLEAN, calls : 0..MaxCalls, malformed : BOOLEAN]
    BY EmptyBuilt DEF Init, Built
  <1>2. TypeOK
    <2>1. fired \in BOOLEAN /\ length \in BOOLEAN
      BY Zenon DEF Init
    <2>2. /\ pc = "loop" /\ open = "none" /\ stop = "none"
          /\ started = {} /\ pending = {}
      BY Zenon DEF Init
    <2>3. steps \in 0..MaxIterations /\ asked \in 0..MaxIterations /\ items \in 0..MaxItems
      BY BoundsAssumption DEF Init
    <2>4. QED
      BY <1>1, <2>1, <2>2, <2>3 DEF TypeOK
  <1>3. AnswersInPlace /\ AskedPerRound
    BY DEF Init, AnswersInPlace, AskedPerRound
  <1>4. QED
    BY <1>2, <1>3 DEF IInv

(* Actions that end the run.                                               *)
LEMMA EndingSteps ==
  IInv /\ (OutOfIterations \/ StopStream \/ StreamFails \/ EndsBadly \/ StopDispatch \/ Drop) => IInv'
  BY BoundsAssumption
  DEF IInv, TypeOK, AnswersInPlace, AskedPerRound, OutOfIterations, StopStream, StreamFails,
      EndsBadly, StopDispatch, Drop, Done, received, futures, effects, Over

LEMMA EndsWithReplyStep == IInv /\ EndsWithReply => IInv'
  BY BoundsAssumption
  DEF IInv, TypeOK, AnswersInPlace, AskedPerRound, EndsWithReply, Done, received, futures, effects

LEMMA BeginRoundStep == IInv /\ BeginRound => IInv'
  <1> SUFFICES ASSUME IInv, BeginRound PROVE IInv'
    OBVIOUS
  <1>1. built' \in [text : BOOLEAN, calls : 0..MaxCalls, malformed : BOOLEAN]
    BY EmptyBuilt DEF BeginRound, Built
  <1>2. TypeOK'
    <2>1. fired' \in BOOLEAN /\ length' \in BOOLEAN
      BY Zenon DEF IInv, TypeOK, BeginRound
    <2>2. /\ pc' = "ask" /\ open' = "none" /\ stop' = stop
          /\ started' = started /\ pending' = {}
      BY Zenon DEF BeginRound, effects
    <2>3. /\ steps' \in 0..MaxIterations /\ steps' < MaxIterations
          /\ asked' \in 0..MaxIterations /\ items' \in 0..MaxItems
      BY BoundsAssumption DEF IInv, TypeOK, BeginRound, RoundsLeft, effects
    <2>4. QED
      BY <1>1, <2>1, <2>2, <2>3 DEF IInv, TypeOK
  <1>3. AnswersInPlace' /\ AskedPerRound'
    BY DEF IInv, AnswersInPlace, AskedPerRound, BeginRound, effects
  <1>4. QED
    BY <1>2, <1>3 DEF IInv

LEMMA AskStep == IInv /\ Ask => IInv'
  BY BoundsAssumption
  DEF IInv, TypeOK, AnswersInPlace, AskedPerRound, Ask, received, futures

(* One event of the provider's stream.                                     *)
LEMMA StreamedStep == IInv /\ Streamed => IInv'
  <1> SUFFICES ASSUME IInv, Streamed PROVE IInv'
    OBVIOUS
  <1>1. /\ Item
        /\ open' \in {"none", "text", "thinking"}
        /\ length' \in BOOLEAN
    BY DEF Streamed, TextDelta, ThinkingDelta, ToolUse, MessageDelta, IInv, TypeOK
  <1>2. built' \in Built
    <2>1. CASE \E some \in BOOLEAN : TextDelta(some)
      BY <2>1, Zenon DEF TextDelta, IInv, TypeOK, Built
    <2>2. CASE ThinkingDelta \/ \E truncated \in BOOLEAN : MessageDelta(truncated)
      BY <2>2 DEF ThinkingDelta, MessageDelta, IInv, TypeOK, Built
    <2>3. CASE \E malformed \in BOOLEAN : ToolUse(malformed)
      <3>1. built.calls + 1 \in 0..MaxCalls
        BY <2>3, BoundsAssumption DEF ToolUse, IInv, TypeOK
      <3>2. QED
        BY <2>3, <3>1, Zenon DEF ToolUse, IInv, TypeOK, Built
    <2>4. QED
      BY <2>1, <2>2, <2>3 DEF Streamed
  <1>3. TypeOK'
    BY <1>1, <1>2, BoundsAssumption DEF IInv, TypeOK, Item, Built, futures, effects
  <1>4. AnswersInPlace' /\ AskedPerRound'
    BY <1>1 DEF IInv, AnswersInPlace, AskedPerRound, Item, futures, effects
  <1>5. QED
    BY <1>3, <1>4 DEF IInv

LEMMA EndsWithCallsStep == IInv /\ EndsWithCalls => IInv'
  BY BoundsAssumption
  DEF IInv, TypeOK, AnswersInPlace, AskedPerRound, EndsWithCalls, received, effects

(* A poll of the futures, up to the one that is ready.                     *)
StartsTool == \E i \in 1..MaxCalls : StartTool(i)
PollSteps == PollTools \/ StartsTool \/ ToolsPending

LEMMA PollStep == IInv /\ PollSteps => IInv'
  <1> SUFFICES ASSUME IInv, PollSteps PROVE IInv'
    OBVIOUS
  <1>1. CASE PollTools \/ ToolsPending
    BY <1>1 DEF IInv, TypeOK, AnswersInPlace, AskedPerRound, PollTools, ToolsPending, received,
                futures, effects, Round
  <1>2. CASE StartsTool
    <2>1. PICK i \in 1..MaxCalls : StartTool(i)
      BY <1>2 DEF StartsTool
    <2>2. started' \subseteq (1..MaxIterations) \X (1..MaxCalls)
      BY <2>1, BoundsAssumption DEF IInv, TypeOK, StartTool, Round
    <2>3. QED
      BY <2>1, <2>2 DEF IInv, TypeOK, AnswersInPlace, AskedPerRound, StartTool, received, futures, Round
  <1>3. QED
    BY <1>1, <1>2 DEF PollSteps

LEMMA ToolDoneStep == IInv /\ ToolDone => IInv'
  BY BoundsAssumption
  DEF IInv, TypeOK, AnswersInPlace, AskedPerRound, ToolDone, ToolFinishes, Buffered, received,
      effects, Round

LEMMA CommitToolsStep == IInv /\ CommitTools => IInv'
  BY BoundsAssumption
  DEF IInv, TypeOK, AnswersInPlace, AskedPerRound, CommitTools, received, futures, effects

LEMMA FireStep == IInv /\ Fire => IInv'
  BY DEF IInv, TypeOK, AnswersInPlace, AskedPerRound, Fire, received, futures, effects, Round

(* Every step of the run, and every stuttering step, keeps the invariant.  *)
LEMMA NextIInv == IInv /\ [Next]_vars => IInv'
  <1> SUFFICES ASSUME IInv, [Next]_vars PROVE IInv'
    OBVIOUS
  <1>1. CASE Advance
    BY <1>1, BeginRoundStep, EndingSteps, AskStep, PollStep, CommitToolsStep DEF Advance, PollSteps, StartsTool
  <1>2. CASE Streamed
    BY <1>2, StreamedStep
  <1>3. CASE StreamEnds
    BY <1>3, EndingSteps, EndsWithReplyStep, EndsWithCallsStep DEF StreamEnds
  <1>4. CASE ToolDone
    BY <1>4, ToolDoneStep
  <1>5. CASE Fire \/ Drop
    BY <1>5, FireStep, EndingSteps
  <1>6. CASE UNCHANGED vars
    BY <1>6 DEF vars, received, futures, effects, IInv, TypeOK, AnswersInPlace, AskedPerRound, Round
  <1>7. QED
    BY <1>1, <1>2, <1>3, <1>4, <1>5, <1>6 DEF Next

(* The inductive invariant holds throughout.                               *)
THEOREM Invariance == Spec => []IInv
  BY InitIInv, NextIInv, PTL DEF Spec

(* Types of a run; among them, that it commits and asks for no more rounds *)
(* than max_iterations.                                                    *)
THEOREM TypeCorrect == Spec => []TypeOK
  <1>1. IInv => TypeOK
    BY DEF IInv
  <1>2. QED
    BY <1>1, Invariance, PTL
-----------------------------------------------------------------------------
(* The commit of a round is a group of AgentRun: every slot has been       *)
(* filled with the output of its own call.                                 *)
LEMMA CommitsGroup ==
  ASSUME IInv, CommitTools
  PROVE  built.calls \in 1..MaxCalls /\ history' = history \o R!Group(Round, built.calls)
  <1>1. built.calls \in 1..MaxCalls
    BY BoundsAssumption DEF IInv, TypeOK, CommitTools
  <1>2. \A i \in 1..built.calls : buffered[i] = <<Round, i>>
    BY DEF IInv, AnswersInPlace, CommitTools, Drained
  <1>3. [i \in 1..built.calls |-> R!Result(<<Round, i>>, buffered[i])]
          = [i \in 1..built.calls |-> R!Result(<<Round, i>>, <<Round, i>>)]
    BY <1>2 DEF R!Result
  <1>4. QED
    BY <1>1, <1>3 DEF CommitTools, R!Group, Round

LEMMA CommitIsGroup ==
  ASSUME IInv, CommitTools
  PROVE  R!CommitTools
  <1>1. built.calls \in 1..MaxCalls /\ history' = history \o R!Group(steps + 1, built.calls)
    BY CommitsGroup DEF Round
  <1>5. steps < MaxIterations /\ pc \notin Over /\ pc' \notin Over /\ steps' = steps + 1
    BY DEF IInv, TypeOK, CommitTools, Over
  <1>6. Phase = "running" /\ UNCHANGED Phase
    BY <1>5 DEF Phase
  <1>7. QED
    BY <1>1, <1>5, <1>6, Zenon DEF R!CommitTools

(* Every step is one of AgentRun, or nothing to it.                        *)
LEMMA StepRefines == IInv /\ [Next]_vars => [R!Next]_(<<history, steps, Phase>>)
  <1> SUFFICES ASSUME IInv, [Next]_vars
               PROVE  R!Next \/ UNCHANGED <<history, steps, Phase>>
    OBVIOUS
  <1>1. CASE CommitTools
    BY <1>1, CommitIsGroup DEF R!Next
  <1>2. CASE EndsWithReply \/ (StopStream /\ KeepsText)
    BY <1>2 DEF EndsWithReply, StopStream, Done, R!Next, R!CommitReply, Over, Phase, IInv, TypeOK
  <1>3. CASE OutOfIterations \/ StreamFails \/ EndsBadly \/ StopDispatch \/ Drop
             \/ (StopStream /\ ~KeepsText)
    BY <1>3 DEF OutOfIterations, StreamFails, EndsBadly, StopDispatch, Drop, StopStream, Done,
                R!Next, R!Stop, Over, Phase
  <1>4. CASE BeginRound \/ Ask \/ Streamed \/ EndsWithCalls \/ PollSteps \/ ToolDone \/ Fire
    <2>1. UNCHANGED <<history, steps>> /\ pc \notin Over /\ pc' \notin Over
      BY <1>4 DEF BeginRound, Ask, Streamed, Item, TextDelta, ThinkingDelta, ToolUse, MessageDelta,
                  EndsWithCalls, PollSteps, PollTools, StartsTool, StartTool, ToolsPending, ToolDone, ToolFinishes, Fire, Over, IInv, TypeOK
    <2>2. QED
      BY <2>1 DEF Phase
  <1>5. CASE UNCHANGED vars
    BY <1>5 DEF vars, Phase
  <1>6. QED
    BY <1>1, <1>2, <1>3, <1>4, <1>5 DEF Next, Advance, StreamEnds, PollSteps, StartsTool

(* The run implements AgentRun: whatever is cancelled, fails or is         *)
(* dropped, the history grows by whole groups in call order, or by a last  *)
(* reply.                                                                  *)
THEOREM RunIsRefined == Spec => ImplementsRun
  <1>1. Init => R!Init
    BY DEF Init, R!Init, Over, Phase
  <1>2. QED
    BY <1>1, StepRefines, Invariance, PTL DEF Spec, ImplementsRun, R!Spec
-----------------------------------------------------------------------------
(* What a client is told.  The properties of the log are stated here of    *)
(* any log l, since a step may yield several events.                       *)

Names == {"TextStart", "TextEnd", "ThinkingStart", "ThinkingEnd", "TextDelta", "EmptyDelta",
          "ThinkingDelta", "ToolCallsBegin", "ToolCallsStart", "ToolCallsComplete", "Done"}
Events == {<<name>> : name \in Names} \cup {<<"ToolResult", r, i>> : r \in Nat, i \in Nat}

RunEntries == {R!Reply} \cup {R!Calls(r, n) : r \in Nat, n \in Nat}
           \cup {R!Result(<<r, i>>, <<r, i>>) : r \in Nat, i \in Nat}

Edges == {"TextStart", "TextEnd", "ThinkingStart", "ThinkingEnd"}

Seg(l, n) ==
  LET marks == {m \in 1..n : l[m][1] \in Edges}
  IN  IF marks = {} THEN "none"
      ELSE CASE l[Max(marks)][1] = "TextStart" -> "text"
             [] l[Max(marks)][1] = "ThinkingStart" -> "thinking"
             [] OTHER -> "none"

(* The segment that is open after one event more.                          *)
After(seg, name) ==
  IF name = "TextStart" THEN "text"
  ELSE IF name = "ThinkingStart" THEN "thinking"
  ELSE IF name \in {"TextEnd", "ThinkingEnd"} THEN "none"
  ELSE seg

(* Whether an event may come while a segment is open.                      *)
Admits(seg, name) ==
  /\ name \in {"TextDelta", "EmptyDelta"} => seg = "text"
  /\ name = "ThinkingDelta" => seg = "thinking"
  /\ name \in {"TextStart", "ThinkingStart", "ToolCallsStart", "Done"} => seg = "none"

SegmentsIn(l) == \A n \in 1..Len(l) : Admits(Seg(l, n - 1), l[n][1])

Completes(l, n) == {m \in 1..n : l[m][1] = "ToolCallsComplete"}

RoundIn(l, h, n) ==
  \E f \in 1..n - 1 :
    /\ l[f][1] = "ToolCallsStart" /\ \A m \in f + 1 .. n - 1 : l[m][1] = "ToolResult"
    /\ {l[m] : m \in f + 1 .. n - 1} =
         {<<"ToolResult", Cardinality(Completes(l, n)), i>> : i \in 1..n - f - 1}
    /\ \E e \in DOMAIN h : h[e] = R!Calls(Cardinality(Completes(l, n)), n - f - 1)

ResultsIn(l, h) ==
  \A n \in 1..Len(l) : l[n][1] = "ToolCallsComplete" => RoundIn(l, h, n)

LogOK(l, h) == SegmentsIn(l) /\ ResultsIn(l, h)

(* Where the log stands: the open segment, rounds that are complete, and   *)
(* Done at its end only.                                                   *)
Told ==
  /\ log \in Seq(Events) /\ history \in Seq(RunEntries)
  /\ LogOK(log, history)
  /\ pc = "stream" => Seg(log, Len(log)) = open
  /\ pc \in {"loop", "ask", "call", "dispatch"} => Seg(log, Len(log)) = "none"
  /\ pc = "ask" => open = "none"
  /\ pc \notin Over => Cardinality(Completes(log, Len(log))) = steps
  /\ \A n \in 1..Len(log) : log[n][1] = "Done" => n = Len(log) /\ pc = "done"
  /\ pc # "done" => stop = "none"

(* The calls of round r were announced at f, and those in done have had    *)
(* their results since.                                                    *)
ResultsAt(l, f, r, done) ==
  /\ l[f][1] = "ToolCallsStart" /\ \A m \in f + 1 .. Len(l) : l[m][1] = "ToolResult"
  /\ {l[m] : m \in f + 1 .. Len(l)} = {<<"ToolResult", r, i>> : i \in done}
  /\ Len(l) - f = Cardinality(done)

(* The calls of a round that is under way, and their results so far.       *)
Dispatching == pc \in {"call", "dispatch"} =>
  \E f \in 1..Len(log) : ResultsAt(log, f, Round, (1..built.calls) \ pending)

(* Since the last round was complete, at L.                                *)
Since(l, L) ==
  /\ L \in 0..Len(l) /\ (L = 0 \/ l[L][1] = "ToolCallsComplete")
  /\ \A m \in L + 1 .. Len(l) : l[m][1] # "ToolCallsComplete"

Yielded(l, L, name) == \E m \in L + 1 .. Len(l) : l[m][1] = name

ThisRound == \E L \in 0..Len(log) :
  /\ Since(log, L)
  /\ pc \in {"loop", "ask"} => L = Len(log)
  /\ pc = "stream" => (Yielded(log, L, "TextDelta") => built.text)
  /\ pc \in {"call", "dispatch"} => Yielded(log, L, "ToolCallsStart")
  /\ stop = "Cancelled" /\ Yielded(log, L, "TextDelta") /\ ~Yielded(log, L, "ToolCallsStart") =>
       history # <<>> /\ history[Len(history)] = R!Reply

LogInv == Told /\ Dispatching /\ ThisRound

LEMMA LeastNumber ==
  ASSUME NEW T, T \subseteq Nat, T # {}
  PROVE  \E x \in T : \A y \in T : x <= y
<1> DEFINE Rel == OpToRel(<, Nat)
<1>1. IsWellFoundedOn(Rel, Nat)
  BY NatLessThanWellFounded, Zenon
<1>2. \A x, y \in Nat : x < y => <<x, y>> \in Rel
  BY DEF OpToRel
<1> HIDE DEF Rel
<1>3. PICK x \in T : \A y \in T : ~(<<y, x>> \in Rel)
  BY <1>1, WFMin
<1>4. ASSUME NEW y \in T PROVE x <= y
  <2>1. x \in Nat /\ y \in Nat
    OBVIOUS
  <2>2. ~(y < x)
    BY <1>2, <1>3, <2>1
  <2> QED
    BY <2>1, <2>2
<1> QED
  BY <1>4

LEMMA MaxIn ==
  ASSUME NEW S, NEW b \in Nat, S \subseteq 0..b, S # {}
  PROVE  Max(S) \in S /\ \A y \in S : Max(S) >= y
<1> DEFINE T == {b - x : x \in S}
<1>1. T \subseteq Nat
  OBVIOUS
<1>2. T # {}
  <2>1. PICK x \in S : TRUE
    OBVIOUS
  <2>2. b - x \in T
    OBVIOUS
  <2> QED
    BY <2>2
<1>3. PICK t \in T : \A u \in T : t <= u
  <2> HIDE DEF T
  <2> QED
    BY <1>1, <1>2, LeastNumber
<1>4. PICK x \in S : t = b - x
  OBVIOUS
<1>5. \A y \in S : x >= y
  <2> SUFFICES ASSUME NEW y \in S PROVE x >= y
    OBVIOUS
  <2>1. b - y \in T
    OBVIOUS
  <2>2. t <= b - y
    BY <1>3, <2>1
  <2> QED
    BY <1>4, <2>2
<1> QED
  BY <1>5 DEF Max

LEMMA MaxIs ==
  ASSUME NEW S, NEW b \in Nat, S \subseteq 0..b, NEW x \in S, \A y \in S : x >= y
  PROVE  Max(S) = x
<1>1. Max(S) \in S /\ Max(S) >= x
  BY MaxIn
<1>2. PICK z : z = Max(S)
  OBVIOUS
<1>3. z \in S /\ z >= x /\ x >= z
  BY <1>1, <1>2
<1>4. x \in 0..b /\ z \in 0..b
  BY <1>3
<1>5. x = z
  BY <1>3, <1>4
<1> QED
  BY <1>2, <1>5

LEMMA SegNone ==
  ASSUME NEW l, NEW n \in Nat, \A m \in 1..n : l[m][1] \notin Edges
  PROVE  Seg(l, n) = "none"
BY DEF Seg

LEMMA SegEdge ==
  ASSUME NEW l, NEW n \in Nat, NEW m \in 1..n, l[m][1] \in Edges,
         \A k \in m + 1 .. n : l[k][1] \notin Edges
  PROVE  Seg(l, n) = After("none", l[m][1])
<1> DEFINE marks == {k \in 1..n : l[k][1] \in Edges}
<1>1. m \in marks /\ marks \subseteq 0..n
  OBVIOUS
<1>2. \A y \in marks : m >= y
  OBVIOUS
<1>3. Max(marks) = m
  <2> HIDE DEF marks
  <2> QED
    BY <1>1, <1>2, MaxIs
<1>4. marks # {}
  BY <1>1
<1> QED
  BY <1>3, <1>4 DEF Seg, After, Edges

(* The last edge of a log, if there is one.                                *)
LEMMA LastEdge ==
  ASSUME NEW l, NEW n \in Nat
  PROVE  \/ \A m \in 1..n : l[m][1] \notin Edges
         \/ \E m \in 1..n : l[m][1] \in Edges /\ \A k \in m + 1 .. n : l[k][1] \notin Edges
<1> DEFINE marks == {m \in 1..n : l[m][1] \in Edges}
<1> SUFFICES ASSUME marks # {}
             PROVE  \E m \in marks : \A k \in m + 1 .. n : l[k][1] \notin Edges
  OBVIOUS
<1>1. marks \subseteq 0..n
  OBVIOUS
<1>2. Max(marks) \in marks /\ \A y \in marks : Max(marks) >= y
  <2> HIDE DEF marks
  <2> QED
    BY <1>1, MaxIn
<1>3. PICK m \in marks : \A y \in marks : m >= y
  BY <1>2
<1>4. \A k \in m + 1 .. n : k \notin marks
  BY <1>3
<1> QED
  BY <1>4

(* One event more.                                                         *)
Grown(l, e, x) ==
  /\ Len(x) = Len(l) + 1 /\ Len(l) \in Nat /\ x[Len(l) + 1] = e
  /\ \A n \in 1..Len(l) : x[n] = l[n]
  /\ \A n \in 0..Len(l) : Seg(x, n) = Seg(l, n)
  /\ Seg(x, Len(l) + 1) = After(Seg(l, Len(l)), e[1])

LEMMA SegGrows ==
  ASSUME NEW E, NEW l \in Seq(E), NEW e \in E, NEW x, x = Append(l, e)
  PROVE  x \in Seq(E) /\ Grown(l, e, x)
<1>1. /\ x \in Seq(E) /\ Len(x) = Len(l) + 1 /\ Len(l) \in Nat /\ x[Len(l) + 1] = e
      /\ \A n \in 1..Len(l) : x[n] = l[n]
  OBVIOUS
<1>2. ASSUME NEW n \in 0..Len(l) PROVE Seg(x, n) = Seg(l, n)
  <2>0. n \in Nat
    BY <1>1
  <2>1. \A m \in 1..n : x[m] = l[m]
    BY <1>1
  <2>2. CASE \A m \in 1..n : l[m][1] \notin Edges
    <3>1. \A m \in 1..n : x[m][1] \notin Edges
      BY <2>1, <2>2
    <3> QED
      BY <2>0, <2>2, <3>1, SegNone
  <2>3. CASE \E m \in 1..n : l[m][1] \in Edges /\ \A k \in m + 1 .. n : l[k][1] \notin Edges
    <3>1. PICK m \in 1..n : l[m][1] \in Edges /\ \A k \in m + 1 .. n : l[k][1] \notin Edges
      BY <2>3
    <3>2. x[m][1] \in Edges /\ \A k \in m + 1 .. n : x[k][1] \notin Edges
      BY <2>1, <3>1
    <3> QED
      <4>1. Seg(l, n) = After("none", l[m][1])
        BY <2>0, <3>1, SegEdge
      <4>2. Seg(x, n) = After("none", x[m][1])
        BY <2>0, <3>2, SegEdge
      <4> QED
        BY <2>1, <4>1, <4>2
  <2> QED
    BY <2>0, <2>2, <2>3, LastEdge
<1>3. Seg(x, Len(l) + 1) = After(Seg(l, Len(l)), e[1])
  <2>1. PICK N \in Nat : N = Len(l)
    BY <1>1
  <2>2. N + 1 \in Nat /\ N + 1 \in 1..N + 1 /\ N \in 0..N /\ \A k \in 1..N + 1 : k \in 1..N \/ k = N + 1
    BY <2>1
  <2>3. CASE e[1] \in Edges
    <3>1. x[N + 1][1] \in Edges /\ \A k \in N + 1 + 1 .. N + 1 : x[k][1] \notin Edges
      BY <1>1, <2>1, <2>3
    <3>2. Seg(x, N + 1) = After("none", e[1])
      <4>1. Seg(x, N + 1) = After("none", x[N + 1][1])
        BY <2>2, <3>1, SegEdge
      <4> QED
        BY <1>1, <2>1, <4>1
    <3> QED
      BY <2>1, <2>3, <3>2 DEF After, Edges
  <2>4. CASE e[1] \notin Edges
    <3>1. After(Seg(l, N), e[1]) = Seg(l, N)
      BY <2>4 DEF After, Edges
    <3>2. CASE \A m \in 1..N : l[m][1] \notin Edges
      <4>1. \A m \in 1..N + 1 : x[m][1] \notin Edges
        BY <1>1, <2>1, <2>2, <2>4, <3>2
      <4> QED
        BY <2>1, <2>2, <3>1, <3>2, <4>1, SegNone
    <3>3. CASE \E m \in 1..N : l[m][1] \in Edges /\ \A k \in m + 1 .. N : l[k][1] \notin Edges
      <4>1. PICK m \in 1..N : l[m][1] \in Edges /\ \A k \in m + 1 .. N : l[k][1] \notin Edges
        BY <3>3
      <4>2. m \in 1..N + 1 /\ \A k \in m + 1 .. N + 1 : k \in m + 1 .. N \/ k = N + 1
        BY <2>1
      <4>3. x[m][1] = l[m][1] /\ \A k \in m + 1 .. N + 1 : x[k][1] \notin Edges
        BY <1>1, <2>1, <2>4, <4>1, <4>2
      <4> QED
        <5>1. Seg(l, N) = After("none", l[m][1])
          BY <4>1, SegEdge
        <5>2. Seg(x, N + 1) = After("none", x[m][1])
          BY <2>2, <4>1, <4>2, <4>3, SegEdge
        <5> QED
          BY <2>1, <3>1, <4>3, <5>1, <5>2
    <3> QED
      BY <3>2, <3>3, LastEdge
  <2> QED
    BY <2>3, <2>4
<1> QED
  BY <1>1, <1>2, <1>3 DEF Grown

LEMMA RoundStays ==
  ASSUME NEW l, NEW x, NEW h, NEW g, NEW n \in Nat, \A m \in 1..n : x[m] = l[m],
         \A e \in DOMAIN h : e \in DOMAIN g /\ g[e] = h[e], RoundIn(l, h, n)
  PROVE  RoundIn(x, g, n)
<1>1. Completes(x, n) = Completes(l, n)
  BY DEF Completes
<1>2. PICK c : c = Cardinality(Completes(l, n))
  OBVIOUS
<1>3. PICK f \in 1..n - 1 :
        /\ l[f][1] = "ToolCallsStart" /\ \A m \in f + 1 .. n - 1 : l[m][1] = "ToolResult"
        /\ {l[m] : m \in f + 1 .. n - 1} = {<<"ToolResult", c, i>> : i \in 1..n - f - 1}
        /\ \E e \in DOMAIN h : h[e] = R!Calls(c, n - f - 1)
  BY <1>2 DEF RoundIn
<1>4. f \in 1..n /\ \A m \in f + 1 .. n - 1 : m \in 1..n
  OBVIOUS
<1>5. {x[m] : m \in f + 1 .. n - 1} = {l[m] : m \in f + 1 .. n - 1}
  BY <1>4
<1>6. /\ x[f][1] = "ToolCallsStart" /\ \A m \in f + 1 .. n - 1 : x[m][1] = "ToolResult"
      /\ {x[m] : m \in f + 1 .. n - 1} = {<<"ToolResult", c, i>> : i \in 1..n - f - 1}
      /\ \E e \in DOMAIN g : g[e] = R!Calls(c, n - f - 1)
  BY <1>3, <1>4, <1>5
<1>7. c = Cardinality(Completes(x, n))
  BY <1>1, <1>2
<1> QED
  BY <1>6, <1>7 DEF RoundIn

LEMMA SegmentsGrow ==
  ASSUME NEW E, NEW l \in Seq(E), NEW e \in E, NEW x, x = Append(l, e), SegmentsIn(l),
         Admits(Seg(l, Len(l)), e[1])
  PROVE  SegmentsIn(x)
<1>1. PICK N \in Nat : N = Len(l)
  OBVIOUS
<1>2. /\ Len(x) = N + 1 /\ x[N + 1] = e /\ \A n \in 1..N : x[n] = l[n]
      /\ \A n \in 0..N : Seg(x, n) = Seg(l, n)
  <2>1. x \in Seq(E) /\ Grown(l, e, x)
    BY SegGrows, Zenon
  <2> QED
    BY <1>1, <2>1 DEF Grown
<1> SUFFICES ASSUME NEW n \in 1..N + 1 PROVE Admits(Seg(x, n - 1), x[n][1])
  BY <1>2 DEF SegmentsIn
<1>3. CASE n \in 1..N
  <2>1. n - 1 \in 0..N /\ Admits(Seg(l, n - 1), l[n][1])
    BY <1>1, <1>3 DEF SegmentsIn
  <2> QED
    BY <1>2, <1>3, <2>1
<1>4. CASE n = N + 1
  <2>1. n - 1 = N /\ N \in 0..N
    BY <1>4
  <2> QED
    BY <1>1, <1>2, <1>4, <2>1
<1>5. n \in 1..N \/ n = N + 1
  OBVIOUS
<1> QED
  BY <1>3, <1>4, <1>5

(* An event that completes no round.                                       *)
GrownOK(l, e, x, h, E) ==
  /\ LogOK(x, h) /\ Completes(x, Len(x)) = Completes(l, Len(l))
  /\ Seg(x, Len(x)) = After(Seg(l, Len(l)), e[1])
  /\ x \in Seq(E) /\ Len(x) = Len(l) + 1 /\ Len(l) \in Nat /\ x[Len(x)] = e
  /\ \A n \in 1..Len(l) : x[n] = l[n]

LEMMA LogGrows ==
  ASSUME NEW E, NEW l \in Seq(E), NEW e \in E, NEW x, x = Append(l, e), NEW h, LogOK(l, h),
         Admits(Seg(l, Len(l)), e[1]), e[1] # "ToolCallsComplete"
  PROVE  GrownOK(l, e, x, h, E)
<1>1. PICK N \in Nat : N = Len(l)
  OBVIOUS
<1>2. /\ Len(x) = N + 1 /\ x[N + 1] = e /\ (\A n \in 1..N : x[n] = l[n]) /\ x \in Seq(E)
      /\ Seg(x, N + 1) = After(Seg(l, N), e[1])
  <2>1. x \in Seq(E) /\ Grown(l, e, x)
    BY SegGrows, Zenon
  <2> QED
    BY <1>1, <2>1 DEF Grown
<1>3. SegmentsIn(x)
  BY SegmentsGrow DEF LogOK
<1>4. \A n \in 1..N + 1 : n \in 1..N \/ n = N + 1
  OBVIOUS
<1>5. ResultsIn(x, h)
  <2> SUFFICES ASSUME NEW n \in 1..N + 1, x[n][1] = "ToolCallsComplete" PROVE RoundIn(x, h, n)
    BY <1>2 DEF ResultsIn
  <2>1. n \in 1..N
    BY <1>2, <1>4
  <2>2. l[n][1] = "ToolCallsComplete"
    BY <1>2, <2>1
  <2>3. RoundIn(l, h, n)
    BY <1>1, <2>1, <2>2 DEF LogOK, ResultsIn
  <2>4. n \in Nat /\ \A m \in 1..n : x[m] = l[m]
    BY <1>2, <2>1
  <2> QED
    BY <2>3, <2>4, RoundStays
<1>6. Completes(x, N + 1) = Completes(l, N)
  BY <1>2, <1>4 DEF Completes
<1> QED
  BY <1>1, <1>2, <1>3, <1>5, <1>6 DEF LogOK, GrownOK

(* A log that has grown, by events of S that complete no round.            *)
Quiet(l, x, h, S) ==
  /\ x \in Seq(Events) /\ LogOK(x, h)
  /\ Len(l) \in Nat /\ Len(x) \in Nat /\ Len(l) <= Len(x)
  /\ \A n \in 1..Len(l) : x[n] = l[n]
  /\ \A n \in Len(l) + 1 .. Len(x) : x[n][1] \in S
  /\ Completes(x, Len(x)) = Completes(l, Len(l))

(* It leaves segment s open.                                               *)
QuietTo(l, x, h, S, s) == Quiet(l, x, h, S) /\ Seg(x, Len(x)) = s

LEMMA QuietStart ==
  ASSUME NEW l \in Seq(Events), NEW h, LogOK(l, h), NEW S
  PROVE  Quiet(l, l, h, S)
BY DEF Quiet

LEMMA QuietStep ==
  ASSUME NEW l, NEW h, NEW S, NEW x, NEW s, QuietTo(l, x, h, S, s), NEW e \in Events, e[1] \in S,
         e[1] # "ToolCallsComplete", Admits(s, e[1]), NEW t, t = After(s, e[1]),
         NEW y, y = Append(x, e)
  PROVE  QuietTo(l, y, h, S, t)
<1>0. Quiet(l, x, h, S) /\ Seg(x, Len(x)) = s
  BY DEF QuietTo
<1>1. x \in Seq(Events) /\ LogOK(x, h)
  BY <1>0 DEF Quiet
<1>2. /\ LogOK(y, h) /\ Completes(y, Len(y)) = Completes(x, Len(x))
      /\ Seg(y, Len(y)) = After(Seg(x, Len(x)), e[1])
      /\ y \in Seq(Events) /\ Len(y) = Len(x) + 1 /\ Len(x) \in Nat /\ y[Len(y)] = e
      /\ \A n \in 1..Len(x) : y[n] = x[n]
  <2>1. GrownOK(x, e, y, h, Events)
    BY <1>0, <1>1, LogGrows
  <2> QED
    BY <2>1 DEF GrownOK
<1>3. PICK a, b \in Nat : a = Len(l) /\ b = Len(x) /\ a <= b
  BY <1>0 DEF Quiet
<1>4. \A n \in 1..a : y[n] = l[n]
  BY <1>0, <1>2, <1>3 DEF Quiet
<1>5. \A n \in a + 1 .. b + 1 : (n \in 1..b /\ n \in a + 1 .. b) \/ n = b + 1
  BY <1>3
<1>6. \A n \in a + 1 .. b + 1 : y[n][1] \in S
  BY <1>0, <1>2, <1>3, <1>5 DEF Quiet
<1>7. Quiet(l, y, h, S)
  BY <1>0, <1>2, <1>3, <1>4, <1>6 DEF Quiet
<1> QED
  BY <1>0, <1>2, <1>7 DEF QuietTo

(* More history takes nothing from the log.                                *)
LEMMA QuietKept ==
  ASSUME NEW l, NEW x, NEW h, NEW g, NEW S, Quiet(l, x, h, S),
         \A e \in DOMAIN h : e \in DOMAIN g /\ g[e] = h[e]
  PROVE  Quiet(l, x, g, S)
<1>1. ASSUME NEW n \in 1..Len(x), x[n][1] = "ToolCallsComplete" PROVE RoundIn(x, g, n)
  <2>1. RoundIn(x, h, n) /\ n \in Nat
    BY <1>1 DEF Quiet, LogOK, ResultsIn
  <2> QED
    BY <2>1, RoundStays
<1> QED
  BY <1>1 DEF Quiet, LogOK, ResultsIn

LEMMA Named1 == \A name \in Names : <<name>> \in Events /\ <<name>>[1] = name
  BY DEF Events

(* The deltas: the segment is switched, if need be, and the delta follows. *)
LEMMA Concats ==
  ASSUME NEW l \in Seq(Events), NEW a \in Events, NEW b \in Events, NEW c \in Events
  PROVE  /\ l \o <<>> \o <<c>> = Append(l, c)
         /\ l \o <<a>> \o <<c>> = Append(Append(l, a), c)
         /\ l \o Append(<<>>, a) \o <<c>> = Append(Append(l, a), c)
         /\ l \o Append(<<a>>, b) \o <<c>> = Append(Append(Append(l, a), b), c)
<1>1. l \o <<>> \o <<c>> = Append(l, c)
  OBVIOUS
<1>2. l \o <<a>> \o <<c>> = Append(Append(l, a), c)
  OBVIOUS
<1>3. Append(<<>>, a) = <<a>>
  OBVIOUS
<1>4. l \o Append(<<a>>, b) \o <<c>> = Append(Append(Append(l, a), b), c)
  <2>1. PICK s : s = <<a>>
    OBVIOUS
  <2>2. s \in Seq(Events)
    BY <2>1
  <2>3. l \o Append(s, b) = Append(l \o s, b)
    BY <2>2
  <2>4. l \o s = Append(l, a)
    BY <2>1
  <2>5. PICK t : t = l \o Append(s, b)
    OBVIOUS
  <2>6. t \in Seq(Events)
    BY <2>2, <2>5
  <2>7. t \o <<c>> = Append(t, c)
    BY <2>6
  <2> QED
    BY <2>1, <2>3, <2>4, <2>5, <2>7
<1> QED
  BY <1>1, <1>2, <1>3, <1>4

LEMMA Says ==
  ASSUME NEW l, NEW h, NEW S, NEW x, NEW s, QuietTo(l, x, h, S, s),
         NEW name \in Names \ {"ToolCallsComplete"}, name \in S, Admits(s, name),
         NEW t, t = After(s, name), NEW y, y = Append(x, Event(name))
  PROVE  QuietTo(l, y, h, S, t)
<1>1. PICK e : e = Event(name)
  OBVIOUS
<1>2. e \in Events /\ e[1] = name
  BY <1>1, Named1 DEF Event
<1>3. /\ e[1] \in S /\ e[1] # "ToolCallsComplete" /\ Admits(s, e[1]) /\ t = After(s, e[1])
      /\ y = Append(x, e)
  BY <1>1, <1>2
<1> QED
  BY <1>2, <1>3, QuietStep

LEMMA Delta ==
  ASSUME Told, pc = "stream", NEW kind, NEW d, NEW o, o = open, o \in {"none", "text", "thinking"},
         \/ kind = "text" /\ d \in {"TextDelta", "EmptyDelta"}
         \/ kind = "thinking" /\ d = "ThinkingDelta",
         NEW x, x = log \o Switch(kind) \o <<Event(d)>>
  PROVE  QuietTo(log, x, history, Edges \cup {d}, kind)
<1>1. PICK l, h, S : l = log /\ h = history /\ S = Edges \cup {d}
  OBVIOUS
<1>2. l \in Seq(Events) /\ QuietTo(l, l, h, S, o)
  BY <1>1, QuietStart DEF Told, QuietTo
<1>3. PICK start, end : /\ start = IF kind = "text" THEN "TextStart" ELSE "ThinkingStart"
                        /\ end = IF kind = "text" THEN "ThinkingEnd" ELSE "TextEnd"
  OBVIOUS
<1>4. /\ {d, start, end} \subseteq Names \ {"ToolCallsComplete"} /\ {d, start, end} \subseteq S
  BY <1>1, <1>3 DEF Names, Edges
<1>5. Event(d) \in Events /\ Event(start) \in Events /\ Event(end) \in Events
  BY <1>4, Named1 DEF Event
<1>6. Admits("none", start) /\ After("none", start) = kind /\ Admits(kind, d) /\ After(kind, d) = kind
  BY <1>3 DEF Admits, After
<1>7. PICK w : w = Switch(kind) /\ x = l \o w \o <<Event(d)>>
  BY <1>1
<1>8. CASE o = kind
  <2>1. w = <<>>
    BY <1>7, <1>8 DEF Switch
  <2>2. x = Append(l, Event(d))
    BY <1>2, <1>5, <1>7, <2>1, Concats
  <2> QED
    BY <1>1, <1>2, <1>4, <1>6, <1>8, <2>2, Says
<1>9. CASE o = "none"
  <2>1. w = Append(<<>>, Event(start))
    BY <1>3, <1>7, <1>9 DEF Switch
  <2>2. x = Append(Append(l, Event(start)), Event(d))
    BY <1>2, <1>5, <1>7, <2>1, Concats
  <2>3. PICK y : y = Append(l, Event(start))
    OBVIOUS
  <2>4. QuietTo(l, y, h, S, kind)
    BY <1>2, <1>4, <1>6, <1>9, <2>3, Says
  <2> QED
    BY <1>1, <1>4, <1>6, <2>2, <2>3, <2>4, Says
<1>10. CASE o # kind /\ o # "none"
  <2>1. w = Append(<<Event(end)>>, Event(start))
    <3>1. CASE kind = "text"
      <4>1. o = "thinking" /\ start = "TextStart" /\ end = "ThinkingEnd"
        BY <1>3, <1>10, <3>1
      <4> QED
        BY <1>7, <3>1, <4>1 DEF Switch
    <3>2. CASE kind = "thinking"
      <4>1. o = "text" /\ start = "ThinkingStart" /\ end = "TextEnd"
        BY <1>3, <1>10, <3>2
      <4> QED
        BY <1>7, <3>2, <4>1 DEF Switch
    <3> QED
      BY <3>1, <3>2
  <2>2. x = Append(Append(Append(l, Event(end)), Event(start)), Event(d))
    BY <1>2, <1>5, <1>7, <2>1, Concats
  <2>3. PICK y, z : y = Append(l, Event(end)) /\ z = Append(y, Event(start))
    OBVIOUS
  <2>4. Admits(o, end) /\ After(o, end) = "none"
    BY <1>3, <1>10 DEF Admits, After
  <2>5. QuietTo(l, y, h, S, "none")
    BY <1>2, <1>4, <2>3, <2>4, Says
  <2>6. QuietTo(l, z, h, S, kind)
    BY <1>4, <1>6, <2>3, <2>5, Says
  <2> QED
    BY <1>1, <1>4, <1>6, <2>2, <2>3, <2>6, Says
<1> QED
  BY <1>8, <1>9, <1>10

(* The segment, if one is open, is closed before the last event.           *)
LEMMA Closed ==
  ASSUME Told, NEW o, o = open, o \in {"none", "text", "thinking"}, Seg(log, Len(log)) = o,
         NEW last \in {"Done", "ToolCallsStart"},
         NEW x, x = log \o CloseSegment \o <<Event(last)>>
  PROVE  \E y : QuietTo(log, y, history, Edges, "none") /\ x = Append(y, Event(last))
<1>1. PICK l, h : l = log /\ h = history
  OBVIOUS
<1>2. l \in Seq(Events) /\ QuietTo(l, l, h, Edges, o)
  BY <1>1, QuietStart DEF Told, QuietTo
<1>3. Event(last) \in Events /\ Event("TextEnd") \in Events /\ Event("ThinkingEnd") \in Events
  BY Named1 DEF Event, Names
<1>4. CASE o = "none"
  <2>1. x = Append(l, Event(last))
    BY <1>1, <1>2, <1>3, <1>4, Concats DEF CloseSegment
  <2> QED
    BY <1>1, <1>2, <1>4, <2>1
<1>5. CASE o # "none"
  <2>1. PICK end : end = IF o = "text" THEN "TextEnd" ELSE "ThinkingEnd"
    OBVIOUS
  <2>2. x = Append(Append(l, Event(end)), Event(last))
    <3>1. CloseSegment = <<Event(end)>>
      BY <1>5, <2>1 DEF CloseSegment
    <3>2. Event(end) \in Events
      BY <1>3, <2>1
    <3> QED
      BY <1>1, <1>2, <1>3, <3>1, <3>2, Concats
  <2>3. PICK y : y = Append(l, Event(end))
    OBVIOUS
  <2>4. Admits(o, end) /\ After(o, end) = "none"
    BY <2>1 DEF Admits, After
  <2>5. end \in Names \ {"ToolCallsComplete"} /\ end \in Edges
    BY <2>1 DEF Names, Edges
  <2>6. QuietTo(l, y, h, Edges, "none")
    BY <1>2, <2>3, <2>4, <2>5, Says
  <2> QED
    BY <1>1, <2>2, <2>3, <2>6
<1> QED
  BY <1>4, <1>5

LEMMA QuietWider ==
  ASSUME NEW l, NEW x, NEW h, NEW S, NEW T, S \subseteq T, NEW s, QuietTo(l, x, h, S, s)
  PROVE  QuietTo(l, x, h, T, s)
BY DEF Quiet, QuietTo

(* The round under way goes on through a quiet log.                        *)
LEMMA SinceGrows ==
  ASSUME NEW l, NEW x, NEW h, NEW S, Quiet(l, x, h, S), "ToolCallsComplete" \notin S,
         NEW L, Since(l, L)
  PROVE  /\ Since(x, L)
         /\ \A name : Yielded(l, L, name) => Yielded(x, L, name)
         /\ \A name : Yielded(x, L, name) => Yielded(l, L, name) \/ name \in S
<1>1. PICK a, b \in Nat : /\ a = Len(l) /\ b = Len(x) /\ a <= b /\ L \in 0..a
                          /\ \A n \in 1..a : x[n] = l[n]
                          /\ \A n \in a + 1 .. b : x[n][1] \in S
  BY DEF Quiet, Since
<1>2. /\ L \in Nat /\ L \in 0..b
      /\ \A m \in L + 1 .. b : (m \in L + 1 .. a /\ m \in 1..a) \/ m \in a + 1 .. b
  BY <1>1
<1>3. \A m \in L + 1 .. a : m \in 1..a /\ m \in L + 1 .. b
  BY <1>1, <1>2
<1>4. Since(x, L)
  <2>1. L = 0 \/ L \in 1..a
    BY <1>1
  <2>2. L = 0 \/ x[L][1] = "ToolCallsComplete"
    BY <1>1, <2>1 DEF Since
  <2>3. \A m \in L + 1 .. b : x[m][1] # "ToolCallsComplete"
    BY <1>1, <1>2 DEF Since
  <2> QED
    BY <1>1, <1>2, <2>2, <2>3 DEF Since
<1>5. ASSUME NEW name, Yielded(l, L, name) PROVE Yielded(x, L, name)
  BY <1>1, <1>3, <1>5 DEF Yielded
<1>6. ASSUME NEW name, Yielded(x, L, name) PROVE Yielded(l, L, name) \/ name \in S
  BY <1>1, <1>2, <1>6 DEF Yielded
<1> QED
  BY <1>4, <1>5, <1>6

(* An event of the stream.                                                 *)
LEMMA StreamLog ==
  ASSUME LogInv, pc = "stream", pc' = "stream", history' = history, steps' = steps, stop' = stop,
         NEW S, QuietTo(log, log', history, S, open'), {"ToolCallsComplete", "Done"} \cap S = {},
         "TextDelta" \in S => built'.text, built.text => built'.text
  PROVE  LogInv'
<1>1. PICK l, x, h, a, b : l = log /\ x = log' /\ h = history /\ a = Len(l) /\ b = Len(x)
  OBVIOUS
<1>2. /\ a \in Nat /\ b \in Nat /\ a <= b
      /\ \A n \in 1..a : x[n] = l[n]
      /\ \A n \in a + 1 .. b : x[n][1] \in S
      /\ Completes(x, b) = Completes(l, a) /\ Seg(x, b) = open' /\ x \in Seq(Events) /\ LogOK(x, h)
      /\ Quiet(l, x, h, S)
  BY <1>1 DEF QuietTo, Quiet
<1>3. \A n \in 1..b : n \in 1..a \/ n \in a + 1 .. b
  BY <1>2
<1>4. \A n \in 1..b : x[n][1] # "Done"
  BY <1>1, <1>2, <1>3 DEF LogInv, Told
<1>5. Told'
  BY <1>1, <1>2, <1>4 DEF LogInv, Told, Over
<1>6. Dispatching'
  BY DEF Dispatching
<1>7. PICK L \in 0..a : /\ Since(l, L) /\ (Yielded(l, L, "TextDelta") => built.text)
  BY <1>1 DEF LogInv, ThisRound
<1>8. Since(x, L) /\ (Yielded(x, L, "TextDelta") => Yielded(l, L, "TextDelta") \/ "TextDelta" \in S)
  BY <1>2, <1>7, SinceGrows
<1>9. stop' # "Cancelled" /\ L \in 0..b
  BY <1>2 DEF LogInv, Told
<1>10. ThisRound'
  BY <1>1, <1>7, <1>8, <1>9 DEF ThisRound
<1> QED
  BY <1>5, <1>6, <1>10 DEF LogInv

LEMMA StreamedLog == IInv /\ LogInv /\ Streamed => LogInv'
<1> SUFFICES ASSUME IInv, LogInv, Streamed PROVE LogInv'
  OBVIOUS
<1>1. /\ pc = "stream" /\ pc' = "stream" /\ history' = history /\ steps' = steps /\ stop' = stop
      /\ Told
  BY DEF Streamed, TextDelta, ThinkingDelta, ToolUse, MessageDelta, Item, LogInv
<1>2. open \in {"none", "text", "thinking"} /\ log \in Seq(Events) /\ Seg(log, Len(log)) = open
  BY <1>1 DEF IInv, TypeOK, Told
<1>3. QuietTo(log, log, history, {}, open)
  BY <1>1, <1>2, QuietStart DEF QuietTo, Told
<1>4. CASE \E some \in BOOLEAN : TextDelta(some)
  <2>1. PICK some \in BOOLEAN : TextDelta(some)
    BY <1>4
  <2>2. PICK d : d = IF some THEN "TextDelta" ELSE "EmptyDelta"
    OBVIOUS
  <2>3. QuietTo(log, log', history, Edges \cup {d}, "text")
    BY <1>1, <1>2, <2>1, <2>2, Delta DEF TextDelta
  <2>4. open' = "text" /\ built' = [built EXCEPT !.text = @ \/ some]
    BY <2>1 DEF TextDelta
  <2>5. (built.text => built'.text) /\ (some => built'.text)
    BY <2>4, Zenon DEF IInv, TypeOK
  <2>6. {"ToolCallsComplete", "Done"} \cap (Edges \cup {d}) = {} /\ ("TextDelta" \in Edges \cup {d} => some)
    BY <2>2 DEF Edges
  <2> QED
    BY <1>1, <2>3, <2>4, <2>5, <2>6, StreamLog
<1>5. CASE ThinkingDelta
  <2>1. QuietTo(log, log', history, Edges \cup {"ThinkingDelta"}, "thinking")
    BY <1>1, <1>2, <1>5, Delta DEF ThinkingDelta
  <2>2. open' = "thinking" /\ built' = built
    BY <1>5 DEF ThinkingDelta
  <2>3. {"ToolCallsComplete", "Done", "TextDelta"} \cap (Edges \cup {"ThinkingDelta"}) = {}
    BY DEF Edges
  <2> QED
    BY <1>1, <2>1, <2>2, <2>3, StreamLog
<1>6. CASE \E malformed \in BOOLEAN : ToolUse(malformed)
  <2>1. PICK malformed \in BOOLEAN : ToolUse(malformed)
    BY <1>6
  <2>2. open' = open
    BY <2>1 DEF ToolUse
  <2>3. built.text => built'.text
    BY <2>1, Zenon DEF ToolUse, IInv, TypeOK
  <2>4. CASE log' = log
    BY <1>1, <1>3, <2>2, <2>3, <2>4, StreamLog
  <2>5. CASE log' = Append(log, Event("ToolCallsBegin"))
    <3>1. QuietTo(log, log, history, {"ToolCallsBegin"}, open)
      BY <1>3, QuietWider
    <3>2. Admits(open, "ToolCallsBegin") /\ After(open, "ToolCallsBegin") = open
          /\ "ToolCallsBegin" \in Names \ {"ToolCallsComplete"}
      BY DEF Admits, After, Names
    <3>3. QuietTo(log, log', history, {"ToolCallsBegin"}, open)
      BY <2>5, <3>1, <3>2, Says
    <3> QED
      BY <1>1, <2>2, <2>3, <3>3, StreamLog
  <2> QED
    BY <2>1, <2>4, <2>5 DEF ToolUse
<1>7. CASE \E truncated \in BOOLEAN : MessageDelta(truncated)
  <2>1. open' = open /\ built' = built /\ log' = log
    BY <1>7 DEF MessageDelta
  <2> QED
    BY <1>1, <1>3, <2>1, StreamLog
<1> QED
  BY <1>4, <1>5, <1>6, <1>7 DEF Streamed

(* Done, once no segment is open.                                          *)
LEMMA DoneLog ==
  ASSUME LogInv, pc \notin Over, pc' = "done", history' \in Seq(RunEntries),
         \A e \in DOMAIN history : e \in DOMAIN history' /\ history'[e] = history[e],
         NEW y, QuietTo(log, y, history, Edges, "none"), log' = Append(y, Event("Done")),
         stop' = "Cancelled" =>
           \/ pc \in {"loop", "ask", "call", "dispatch"}
           \/ built.text => history' # <<>> /\ history'[Len(history')] = R!Reply,
         pc \in {"loop", "ask", "stream", "call", "dispatch"}
  PROVE  LogInv'
<1>1. PICK l, x, h, g, S : /\ l = log /\ x = log' /\ h = history /\ g = history'
                           /\ S = Edges \cup {"Done"}
  OBVIOUS
<1>2. /\ "Done" \in Names \ {"ToolCallsComplete"} /\ "Done" \in S /\ Admits("none", "Done")
      /\ After("none", "Done") = "none" /\ Edges \subseteq S
      /\ {"ToolCallsComplete", "ToolCallsStart", "TextDelta"} \cap S = {} /\ "Done" \notin Edges
  BY <1>1 DEF Names, Admits, After, Edges
<1>3. QuietTo(l, y, h, S, "none")
  BY <1>1, <1>2, QuietWider
<1>4. QuietTo(l, x, h, S, "none")
  BY <1>1, <1>2, <1>3, Says
<1>5. Quiet(l, x, h, S) /\ Quiet(l, y, h, Edges)
  BY <1>1, <1>4 DEF QuietTo
<1>6. Quiet(l, x, g, S)
  BY <1>1, <1>5, QuietKept
<1>7. PICK a, b \in Nat : /\ a = Len(l) /\ b = Len(y) /\ a <= b /\ y \in Seq(Events)
                          /\ \A n \in 1..a : y[n] = l[n]
                          /\ \A n \in a + 1 .. b : y[n][1] \in Edges
  BY <1>5 DEF Quiet
<1>8. Len(x) = b + 1 /\ \A n \in 1..b : x[n] = y[n]
  BY <1>1, <1>7, Named1 DEF Event, Names
<1>9. \A n \in 1..b + 1 : (n \in 1..a /\ n \in 1..b) \/ (n \in a + 1 .. b /\ n \in 1..b) \/ n = b + 1
  BY <1>7
<1>10. \A n \in 1..a : l[n][1] # "Done"
  BY <1>1, <1>7 DEF LogInv, Told, Over
<1>11. \A n \in 1..b + 1 : x[n][1] = "Done" => n = b + 1
  BY <1>2, <1>7, <1>8, <1>9, <1>10
<1>12. x \in Seq(Events) /\ LogOK(x, g)
  BY <1>6 DEF Quiet
<1>13. Told'
  BY <1>1, <1>8, <1>11, <1>12 DEF Told, Over
<1>14. PICK L \in 0..a : /\ Since(l, L)
                         /\ pc \in {"loop", "ask"} => L = Len(l)
                         /\ pc = "stream" => (Yielded(l, L, "TextDelta") => built.text)
                         /\ pc \in {"call", "dispatch"} => Yielded(l, L, "ToolCallsStart")
  BY <1>1, <1>7 DEF LogInv, ThisRound
<1>15. /\ Since(x, L) /\ (Yielded(x, L, "TextDelta") => Yielded(l, L, "TextDelta"))
       /\ (Yielded(l, L, "ToolCallsStart") => Yielded(x, L, "ToolCallsStart"))
  BY <1>2, <1>5, <1>14, SinceGrows
<1>16. pc \in {"loop", "ask"} => ~Yielded(l, L, "TextDelta")
  BY <1>7, <1>14 DEF Yielded
<1>17. stop' = "Cancelled" /\ Yielded(x, L, "TextDelta") /\ ~Yielded(x, L, "ToolCallsStart") =>
         history' # <<>> /\ history'[Len(history')] = R!Reply
  BY <1>14, <1>15, <1>16
<1>18. L \in 0..Len(x)
  BY <1>7, <1>8, <1>14
<1>19. ThisRound'
  BY <1>1, <1>15, <1>17, <1>18 DEF ThisRound
<1>20. Dispatching'
  BY DEF Dispatching
<1> QED
  BY <1>13, <1>19, <1>20 DEF LogInv

LEMMA ReplyKept ==
  ASSUME NEW h \in Seq(RunEntries), NEW g, g = Append(h, R!Reply)
  PROVE  /\ g \in Seq(RunEntries) /\ g # <<>> /\ g[Len(g)] = R!Reply
         /\ \A e \in DOMAIN h : e \in DOMAIN g /\ g[e] = h[e]
<1>1. R!Reply \in RunEntries
  BY DEF RunEntries
<1>2. PICK r : r = R!Reply /\ r \in RunEntries
  BY <1>1
<1>3. /\ g \in Seq(RunEntries) /\ Len(g) = Len(h) + 1 /\ Len(h) \in Nat /\ g[Len(h) + 1] = r
      /\ \A e \in 1..Len(h) : e \in 1..Len(g) /\ g[e] = h[e]
  BY <1>2
<1> QED
  BY <1>2, <1>3

LEMMA EndsLog ==
  ASSUME IInv, LogInv,
         OutOfIterations \/ StopStream \/ StreamFails \/ EndsBadly \/ EndsWithReply \/ StopDispatch
  PROVE  LogInv'
<1>0. history \in Seq(RunEntries) /\ log \in Seq(Events) /\ Told /\ LogOK(log, history)
  BY DEF LogInv, Told
<1>1. /\ history' = history \/ history' = Append(history, R!Reply)
      /\ pc' = "done" /\ pc \notin Over /\ pc \in {"loop", "ask", "stream", "call", "dispatch"}
  BY DEF OutOfIterations, StopStream, StreamFails, EndsBadly, EndsWithReply, StopDispatch, Done, Over
<1>2. /\ history' \in Seq(RunEntries)
      /\ \A e \in DOMAIN history : e \in DOMAIN history' /\ history'[e] = history[e]
      /\ history' = Append(history, R!Reply) =>
           history' # <<>> /\ history'[Len(history')] = R!Reply
  BY <1>0, <1>1, ReplyKept
<1>3. stop' = "Cancelled" =>
           \/ pc \in {"loop", "ask", "call", "dispatch"}
           \/ built.text => history' # <<>> /\ history'[Len(history')] = R!Reply
  BY <1>2 DEF OutOfIterations, StopStream, StreamFails, EndsBadly, EndsWithReply, StopDispatch, Done, KeepsText
<1>4. \E y : QuietTo(log, y, history, Edges, "none") /\ log' = Append(y, Event("Done"))
  <2>1. CASE OutOfIterations \/ StopDispatch
    <3>1. log' = log \o <<>> \o <<Event("Done")>> /\ Seg(log, Len(log)) = "none"
      BY <1>0, <2>1 DEF OutOfIterations, StopDispatch, Done, Told
    <3>2. log' = Append(log, Event("Done"))
      BY <1>0, <3>1, Concats, Named1 DEF Event, Names
    <3>3. QuietTo(log, log, history, Edges, "none")
      BY <1>0, <3>1, QuietStart DEF QuietTo
    <3> QED
      BY <3>2, <3>3
  <2>2. CASE StopStream \/ StreamFails \/ EndsBadly \/ EndsWithReply
    <3>1. log' = log \o CloseSegment \o <<Event("Done")>> /\ pc \in {"ask", "stream"}
      BY <2>2 DEF StopStream, StreamFails, EndsBadly, EndsWithReply, Done
    <3>2. Seg(log, Len(log)) = open /\ open \in {"none", "text", "thinking"}
      BY <1>0, <3>1 DEF Told, IInv, TypeOK
    <3> QED
      BY <1>0, <3>1, <3>2, Closed
  <2> QED
    BY <2>1, <2>2
<1> QED
  BY <1>1, <1>2, <1>3, <1>4, DoneLog

(* Steps that yield nothing.                                               *)
LEMMA SilentLog ==
  ASSUME LogInv, log' = log, history' = history, stop' = stop, steps' = steps,
         BeginRound \/ Ask \/ PollSteps \/ Fire \/ Drop \/ UNCHANGED vars
  PROVE  LogInv'
<1>1. Told'
  <2>1. CASE BeginRound
    BY <2>1 DEF LogInv, Told, BeginRound, Over
  <2>2. CASE Ask
    BY <2>2 DEF LogInv, Told, Ask, received, Over
  <2>3. CASE PollSteps
    BY <2>3 DEF LogInv, Told, PollSteps, PollTools, StartsTool, StartTool, ToolsPending, Over
  <2>4. CASE Fire \/ UNCHANGED vars
    BY <2>4 DEF LogInv, Told, Fire, received, vars
  <2>5. CASE Drop
    BY <2>5 DEF LogInv, Told, Drop, Over
  <2> QED
    BY <2>1, <2>2, <2>3, <2>4, <2>5
<1>2. Dispatching'
  <2>1. \/ pc' \notin {"call", "dispatch"}
        \/ pc \in {"call", "dispatch"} /\ pending' = pending /\ built' = built
    BY DEF BeginRound, Ask, PollSteps, PollTools, StartsTool, StartTool, ToolsPending, Fire, Drop, received, futures, vars
  <2> QED
    BY <2>1 DEF LogInv, Dispatching, Round
<1>3. ThisRound'
  <2>1. PICK L \in 0..Len(log) : 
          /\ Since(log, L)
          /\ pc \in {"loop", "ask"} => L = Len(log)
          /\ pc = "stream" => (Yielded(log, L, "TextDelta") => built.text)
          /\ pc \in {"call", "dispatch"} => Yielded(log, L, "ToolCallsStart")
          /\ stop = "Cancelled" /\ Yielded(log, L, "TextDelta") /\ ~Yielded(log, L, "ToolCallsStart") =>
               history # <<>> /\ history[Len(history)] = R!Reply
    BY DEF LogInv, ThisRound
  <2>2. pc' \in {"loop", "ask"} => pc \in {"loop", "ask"}
    BY DEF BeginRound, Ask, PollSteps, PollTools, StartsTool, StartTool, ToolsPending, Fire, Drop, vars
  <2>3. pc' \in {"call", "dispatch"} => pc \in {"call", "dispatch"}
    BY DEF BeginRound, Ask, PollSteps, PollTools, StartsTool, StartTool, ToolsPending, Fire, Drop, vars
  <2>4. pc' = "stream" => pc = "ask" \/ (pc = "stream" /\ built' = built)
    BY DEF BeginRound, Ask, PollSteps, PollTools, StartsTool, StartTool, ToolsPending, Fire, Drop, received, vars
  <2>5. pc = "ask" => ~Yielded(log, L, "TextDelta")
    <3>1. Len(log) \in Nat
      BY DEF LogInv, Told
    <3> QED
      BY <2>1, <3>1 DEF Yielded
  <2> QED
    BY <2>1, <2>2, <2>3, <2>4, <2>5 DEF ThisRound
<1> QED
  BY <1>1, <1>2, <1>3 DEF LogInv

LEMMA CallsLog ==
  ASSUME IInv, LogInv, EndsWithCalls
  PROVE  LogInv'
<1>1. /\ pc = "stream" /\ pc' = "call" /\ history' = history /\ steps' = steps /\ stop' = stop
      /\ pending' = 1..built.calls /\ built' = built
      /\ log' = log \o CloseSegment \o <<Event("ToolCallsStart")>> /\ Told
  BY DEF EndsWithCalls, LogInv, received
<1>2. Seg(log, Len(log)) = open /\ open \in {"none", "text", "thinking"}
  BY <1>1 DEF Told, IInv, TypeOK
<1>3. PICK y : QuietTo(log, y, history, Edges, "none") /\ log' = Append(y, Event("ToolCallsStart"))
  BY <1>1, <1>2, Closed
<1>4. PICK l, x, h, S : /\ l = log /\ x = log' /\ h = history /\ S = Edges \cup {"ToolCallsStart"}
  OBVIOUS
<1>5. /\ "ToolCallsStart" \in Names \ {"ToolCallsComplete"} /\ "ToolCallsStart" \in S
      /\ Admits("none", "ToolCallsStart") /\ After("none", "ToolCallsStart") = "none" /\ Edges \subseteq S
      /\ {"ToolCallsComplete", "TextDelta", "Done"} \cap S = {}
  BY <1>4 DEF Names, Admits, After, Edges
<1>6. QuietTo(l, y, h, S, "none")
  BY <1>3, <1>4, <1>5, QuietWider
<1>7. QuietTo(l, x, h, S, "none")
  BY <1>3, <1>4, <1>5, <1>6, Says
<1>8. PICK a, b \in Nat : a = Len(l) /\ b = Len(x)
  BY <1>7 DEF QuietTo, Quiet
<1>9. /\ a <= b
      /\ \A n \in 1..a : x[n] = l[n]
      /\ \A n \in a + 1 .. b : x[n][1] \in S
      /\ Completes(x, b) = Completes(l, a) /\ Seg(x, b) = "none" /\ x \in Seq(Events) /\ LogOK(x, h)
      /\ Quiet(l, x, h, S)
  BY <1>7, <1>8 DEF QuietTo, Quiet
<1>10. a < b /\ x[b][1] = "ToolCallsStart"
  <2>1. y \in Seq(Events) /\ Len(y) \in Nat /\ a <= Len(y)
    BY <1>6, <1>8 DEF QuietTo, Quiet
  <2>2. PICK e : e = Event("ToolCallsStart") /\ e \in Events /\ e[1] = "ToolCallsStart"
    BY <1>5, Named1 DEF Event
  <2>3. Len(x) = Len(y) + 1 /\ x[Len(y) + 1] = e
    BY <1>3, <1>4, <2>1, <2>2
  <2> QED
    BY <1>8, <2>1, <2>2, <2>3
<1>11. Told'
  <2>1. \A n \in 1..b : n \in 1..a \/ n \in a + 1 .. b
    BY <1>9
  <2>2. \A n \in 1..b : x[n][1] # "Done"
    <3>1. \A n \in 1..a : l[n][1] # "Done"
      BY <1>1, <1>4, <1>8 DEF Told
    <3>2. \A n \in a + 1 .. b : x[n][1] # "Done"
      BY <1>5, <1>9
    <3> QED
      BY <1>9, <2>1, <3>1, <3>2
  <2> QED
    BY <1>1, <1>4, <1>8, <1>9, <2>2 DEF Told, Over
<1>12. Dispatching'
  <2>1. /\ b \in 1..b /\ x[b][1] = "ToolCallsStart" /\ (\A m \in b + 1 .. b : x[m][1] = "ToolResult")
        /\ {x[m] : m \in b + 1 .. b} = {}
    BY <1>10
  <2>2. (1..built'.calls) \ pending' = {}
    BY <1>1
  <2>3. Cardinality({}) = 0 /\ b - b = 0
    BY FS_EmptySet
  <2>4. PICK r : r = Round'
    OBVIOUS
  <2>5. {<<"ToolResult", r, i>> : i \in {}} = {}
    OBVIOUS
  <2>6. ResultsAt(x, b, r, {})
    BY <1>8, <2>1, <2>3, <2>5 DEF ResultsAt
  <2>7. \E f \in 1..Len(x) : ResultsAt(x, f, r, {})
    BY <1>8, <2>1, <2>6
  <2> QED
    BY <1>4, <2>2, <2>4, <2>7 DEF Dispatching
<1>13. ThisRound'
  <2>1. PICK L \in 0..a : Since(l, L)
    BY <1>4, <1>8 DEF LogInv, ThisRound
  <2>2. Since(x, L)
    BY <1>5, <1>9, <2>1, SinceGrows
  <2>3. Yielded(x, L, "ToolCallsStart") /\ L \in 0..b
    BY <1>8, <1>9, <1>10, <2>1 DEF Yielded
  <2>4. stop' # "Cancelled"
    BY <1>1 DEF Told
  <2> QED
    BY <1>1, <1>4, <1>8, <2>2, <2>3, <2>4 DEF ThisRound
<1> QED
  BY <1>11, <1>12, <1>13 DEF LogInv

LEMMA ResultsMore ==
  ASSUME NEW l, NEW x, NEW f, NEW r, NEW D, ResultsAt(l, f, r, D), Len(l) \in Nat, f \in 1..Len(l),
         IsFiniteSet(D), NEW i, i \notin D, Len(x) = Len(l) + 1,
         x[Len(l) + 1] = <<"ToolResult", r, i>>, \A n \in 1..Len(l) : x[n] = l[n]
  PROVE  ResultsAt(x, f, r, D \cup {i})
<1>1. PICK N \in Nat : N = Len(l)
  OBVIOUS
<1>2. /\ f \in 1..N /\ Len(x) = N + 1 /\ x[N + 1] = <<"ToolResult", r, i>>
      /\ \A n \in 1..N : x[n] = l[n]
  BY <1>1
<1>3. /\ l[f][1] = "ToolCallsStart" /\ \A m \in f + 1 .. N : l[m][1] = "ToolResult"
      /\ {l[m] : m \in f + 1 .. N} = {<<"ToolResult", r, j>> : j \in D}
      /\ N - f = Cardinality(D)
  BY <1>1 DEF ResultsAt
<1>4. /\ \A m \in f + 1 .. N + 1 : (m \in f + 1 .. N /\ m \in 1..N) \/ m = N + 1
      /\ \A m \in f + 1 .. N : m \in 1..N /\ m \in f + 1 .. N + 1
      /\ N + 1 \in f + 1 .. N + 1
  BY <1>2
<1>5. \A m \in f + 1 .. N + 1 : x[m][1] = "ToolResult"
  <2>1. x[N + 1][1] = "ToolResult"
    BY <1>2
  <2> QED
    BY <1>2, <1>3, <1>4, <2>1
<1>6. {x[m] : m \in f + 1 .. N + 1} = {l[m] : m \in f + 1 .. N} \cup {x[N + 1]}
  BY <1>2, <1>4
<1>7. {<<"ToolResult", r, j>> : j \in D \cup {i}} =
        {<<"ToolResult", r, j>> : j \in D} \cup {<<"ToolResult", r, i>>}
  OBVIOUS
<1>8. N + 1 - f = Cardinality(D \cup {i})
  <2>1. Cardinality(D \cup {i}) = Cardinality(D) + 1
    BY FS_AddElement
  <2> QED
    BY <1>2, <1>3, <2>1
<1>9. {x[m] : m \in f + 1 .. N + 1} = {<<"ToolResult", r, j>> : j \in D \cup {i}}
  BY <1>2, <1>3, <1>6, <1>7
<1> QED
  BY <1>2, <1>3, <1>5, <1>8, <1>9 DEF ResultsAt

LEMMA ToolLog ==
  ASSUME IInv, LogInv, NEW i \in 1..MaxCalls, ToolFinishes(i)
  PROVE  LogInv'
<1>1. /\ pc = "dispatch" /\ pc' = "call" /\ history' = history /\ steps' = steps /\ stop' = stop
      /\ built' = built /\ i \in pending /\ pending' = pending \ {i}
      /\ log' = Append(log, <<"ToolResult", Round, i>>) /\ Told
  BY DEF ToolFinishes, LogInv, received
<1>2. PICK l, x, h, r, e, S : /\ l = log /\ x = log' /\ h = history /\ r = Round
                              /\ e = <<"ToolResult", r, i>> /\ S = {"ToolResult"}
  OBVIOUS
<1>3. r \in Nat /\ i \in Nat /\ built.calls \in Nat /\ pending \subseteq 1..built.calls
  BY <1>1, <1>2, BoundsAssumption DEF IInv, TypeOK, Round
<1>4. e \in Events /\ e[1] = "ToolResult"
  BY <1>2, <1>3 DEF Events
<1>5. l \in Seq(Events) /\ QuietTo(l, l, h, S, "none")
  BY <1>1, <1>2, QuietStart DEF Told, QuietTo
<1>6. QuietTo(l, x, h, S, "none")
  <2>1. /\ e[1] \in S /\ e[1] # "ToolCallsComplete" /\ Admits("none", e[1])
        /\ After("none", e[1]) = "none" /\ x = Append(l, e)
    BY <1>1, <1>2, <1>4 DEF Admits, After
  <2> QED
    BY <1>4, <1>5, <2>1, QuietStep
<1>7. PICK N \in Nat : N = Len(l)
  BY <1>5
<1>8. Len(x) = N + 1 /\ x[N + 1] = e /\ \A n \in 1..N : x[n] = l[n]
  BY <1>1, <1>2, <1>4, <1>5, <1>7
<1>9. /\ Completes(x, N + 1) = Completes(l, N) /\ Seg(x, N + 1) = "none" /\ x \in Seq(Events)
      /\ LogOK(x, h) /\ Quiet(l, x, h, S)
  BY <1>6, <1>7, <1>8 DEF QuietTo, Quiet
<1>10. Told'
  <2>1. \A n \in 1..N + 1 : n \in 1..N \/ n = N + 1
    OBVIOUS
  <2>2. \A n \in 1..N : l[n][1] # "Done"
    BY <1>1, <1>2, <1>7 DEF Told
  <2>3. \A n \in 1..N + 1 : x[n][1] # "Done"
    BY <1>4, <1>8, <2>1, <2>2
  <2> QED
    BY <1>1, <1>2, <1>7, <1>8, <1>9, <2>3 DEF Told, Over
<1>11. Dispatching'
  <2>1. PICK D, E : D = (1..built.calls) \ pending /\ E = (1..built'.calls) \ pending'
    OBVIOUS
  <2>2. E = D \cup {i} /\ i \notin D
    BY <1>1, <1>3, <2>1
  <2>3. IsFiniteSet(D)
    <3>1. PICK k \in Nat : k = built.calls
      BY <1>3
    <3>2. IsFiniteSet(1..k)
      BY FS_Interval
    <3>3. D \in SUBSET (1..k)
      BY <2>1, <3>1
    <3> QED
      BY <3>2, <3>3, FS_Subset
  <2>4. PICK f \in 1..N : ResultsAt(l, f, r, D)
    BY <1>1, <1>2, <1>7, <2>1 DEF LogInv, Dispatching
  <2>5. ResultsAt(x, f, r, D \cup {i})
    BY <1>2, <1>7, <1>8, <2>2, <2>3, <2>4, ResultsMore
  <2>6. \E k \in 1..Len(x) : ResultsAt(x, k, r, E)
    BY <1>8, <2>2, <2>4, <2>5
  <2>7. Round' = r
    BY <1>1, <1>2 DEF Round
  <2> QED
    BY <1>2, <2>1, <2>6, <2>7 DEF Dispatching
<1>12. ThisRound'
  <2>1. PICK L \in 0..N : Since(l, L) /\ Yielded(l, L, "ToolCallsStart")
    BY <1>1, <1>2, <1>7 DEF LogInv, ThisRound
  <2>2. Since(x, L) /\ Yielded(x, L, "ToolCallsStart")
    BY <1>2, <1>9, <2>1, SinceGrows
  <2>3. stop' # "Cancelled" /\ L \in 0..Len(x)
    BY <1>1, <1>8 DEF Told
  <2> QED
    BY <1>1, <1>2, <2>2, <2>3 DEF ThisRound
<1> QED
  BY <1>10, <1>11, <1>12 DEF LogInv

IsJoin(a, b, c, S) ==
  /\ c \in Seq(S) /\ Len(a) \in Nat /\ Len(b) \in Nat /\ Len(c) = Len(a) + Len(b)
  /\ \A i \in 1..Len(a) : c[i] = a[i]

LEMMA Joined ==
  ASSUME NEW S, NEW a \in Seq(S), NEW b \in Seq(S), NEW c, c = a \o b
  PROVE  IsJoin(a, b, c, S)
BY DEF IsJoin

WithGroup(h, g, r, k) ==
  /\ g \in Seq(RunEntries) /\ \A e \in DOMAIN h : e \in DOMAIN g /\ g[e] = h[e]
  /\ \E e \in DOMAIN g : g[e] = R!Calls(r, k)

LEMMA GroupKept ==
  ASSUME NEW h \in Seq(RunEntries), NEW r \in Nat, NEW k \in Nat, NEW g, g = h \o R!Group(r, k)
  PROVE  WithGroup(h, g, r, k)
<1>1. PICK c, t : c = R!Calls(r, k) /\ t = [i \in 1..k |-> R!Result(<<r, i>>, <<r, i>>)]
  OBVIOUS
<1>2. c \in RunEntries
  BY <1>1 DEF RunEntries
<1>3. \A i \in 1..k : R!Result(<<r, i>>, <<r, i>>) \in RunEntries
  BY DEF RunEntries
<1>4. t \in Seq(RunEntries)
  BY <1>1, <1>3
<1>5. PICK s : s = <<c>>
  OBVIOUS
<1>6. s \in Seq(RunEntries) /\ Len(s) = 1 /\ s[1] = c
  BY <1>2, <1>5
<1>7. PICK u : u = s \o t
  OBVIOUS
<1>8. u \in Seq(RunEntries) /\ Len(u) \in Nat /\ Len(u) >= 1 /\ u[1] = c
  <2>1. /\ u \in Seq(RunEntries) /\ Len(t) \in Nat /\ Len(u) = Len(s) + Len(t)
        /\ \A i \in 1..Len(s) : u[i] = s[i]
    <3>1. IsJoin(s, t, u, RunEntries)
      BY <1>4, <1>6, <1>7, Joined
    <3> QED
      BY <3>1 DEF IsJoin
  <2>2. Len(u) \in Nat /\ Len(u) >= 1
    BY <1>6, <2>1
  <2>3. 1 \in 1..Len(s)
    BY <1>6
  <2> QED
    BY <1>6, <2>1, <2>2, <2>3
<1>9. g = h \o u
  BY <1>1, <1>5, <1>7 DEF R!Group
<1>10. /\ g \in Seq(RunEntries) /\ Len(h) \in Nat /\ Len(g) = Len(h) + Len(u)
       /\ \A e \in 1..Len(h) : g[e] = h[e]
  BY <1>8, <1>9
<1>11. g[Len(h) + 1] = c
  BY <1>8, <1>9
<1>12. Len(h) + 1 \in 1..Len(g) /\ \A e \in 1..Len(h) : e \in 1..Len(g)
  BY <1>8, <1>10
<1> QED
  <2>1. DOMAIN h = 1..Len(h) /\ DOMAIN g = 1..Len(g)
    BY <1>10
  <2> QED
    BY <1>1, <1>10, <1>11, <1>12, <2>1 DEF WithGroup

(* The round is complete: every call has had its one result.               *)
LEMMA CommitLog ==
  ASSUME IInv, LogInv, CommitTools
  PROVE  LogInv'
<1>1. /\ pc = "dispatch" /\ pc' = "loop" /\ stop' = stop /\ steps' = steps + 1 /\ pending = {}
      /\ log' = Append(log, Event("ToolCallsComplete")) /\ Told
  BY DEF CommitTools, Drained, LogInv
<1>2. PICK l, x, h, g, r, e, k, N : /\ l = log /\ x = log' /\ h = history /\ g = history' /\ r = Round
                                    /\ e = Event("ToolCallsComplete") /\ k = built.calls /\ N = Len(l)
  OBVIOUS
<1>3. r \in Nat /\ k \in Nat /\ steps \in Nat /\ r = steps + 1 /\ h \in Seq(RunEntries)
  BY <1>1, <1>2, BoundsAssumption DEF IInv, TypeOK, Round, Told
<1>4. e \in Events /\ e[1] = "ToolCallsComplete" /\ l \in Seq(Events) /\ N \in Nat
  BY <1>1, <1>2, Named1 DEF Event, Names, Told
<1>5. g = h \o R!Group(r, k)
  BY <1>2, CommitsGroup
<1>6. /\ g \in Seq(RunEntries) /\ \A i \in DOMAIN h : i \in DOMAIN g /\ g[i] = h[i]
      /\ \E i \in DOMAIN g : g[i] = R!Calls(r, k)
  <2>1. WithGroup(h, g, r, k)
    BY <1>3, <1>5, GroupKept
  <2> QED
    BY <2>1 DEF WithGroup
<1>7. /\ LogOK(l, h) /\ Seg(l, N) = "none" /\ Cardinality(Completes(l, N)) = steps
      /\ \A n \in 1..N : l[n][1] # "Done"
  BY <1>1, <1>2 DEF Told, Over
<1>8. /\ Len(x) = N + 1 /\ x[N + 1] = e /\ (\A n \in 1..N : x[n] = l[n]) /\ x \in Seq(Events)
      /\ Seg(x, N + 1) = "none"
  <2>1. x \in Seq(Events) /\ Grown(l, e, x)
    BY <1>1, <1>2, <1>4, SegGrows, Zenon
  <2>2. After("none", e[1]) = "none"
    BY <1>4 DEF After
  <2> QED
    BY <1>2, <1>7, <2>1, <2>2 DEF Grown
<1>9. SegmentsIn(x)
  <2>1. Admits(Seg(l, Len(l)), e[1]) /\ SegmentsIn(l) /\ x = Append(l, e)
    BY <1>1, <1>2, <1>4, <1>7 DEF Admits, LogOK
  <2> QED
    BY <1>4, <2>1, SegmentsGrow
<1>10. \A n \in 1..N + 1 : n \in 1..N \/ n = N + 1
  BY <1>4
<1>11. Cardinality(Completes(x, N + 1)) = r
  <2>1. PICK C : C = Completes(l, N)
    OBVIOUS
  <2>2. Completes(x, N + 1) = C \cup {N + 1} /\ N + 1 \notin C
    BY <1>4, <1>8, <1>10, <2>1 DEF Completes
  <2>3. IsFiniteSet(C)
    <3>1. IsFiniteSet(1..N) /\ C \in SUBSET (1..N)
      BY <1>4, <2>1, FS_Interval DEF Completes
    <3> QED
      BY <3>1, FS_Subset
  <2>4. Cardinality(C \cup {N + 1}) = Cardinality(C) + 1
    BY <2>2, <2>3, FS_AddElement
  <2> QED
    BY <1>3, <1>7, <2>1, <2>2, <2>4
<1>12. RoundIn(x, g, N + 1)
  <2>1. PICK f \in 1..N : ResultsAt(l, f, r, 1..k)
    <3>1. (1..k) \ pending = 1..k
      BY <1>1
    <3> QED
      BY <1>1, <1>2, <3>1 DEF LogInv, Dispatching
  <2>2. Cardinality(1..k) = k
    BY <1>3, FS_Interval
  <2>3. /\ l[f][1] = "ToolCallsStart" /\ \A m \in f + 1 .. N : l[m][1] = "ToolResult"
        /\ {l[m] : m \in f + 1 .. N} = {<<"ToolResult", r, i>> : i \in 1..k}
        /\ N - f = k
    BY <1>2, <2>1, <2>2 DEF ResultsAt
  <2>4. N + 1 - 1 = N /\ N + 1 - f - 1 = k /\ f \in 1..N + 1 - 1 /\ \A m \in f + 1 .. N : m \in 1..N
    BY <1>4, <2>3
  <2>5. {x[m] : m \in f + 1 .. N} = {l[m] : m \in f + 1 .. N}
    BY <1>8, <2>4
  <2>6. x[f][1] = "ToolCallsStart" /\ \A m \in f + 1 .. N : x[m][1] = "ToolResult"
    BY <1>8, <2>3, <2>4
  <2>7. PICK M : M = N + 1
    OBVIOUS
  <2>8. M - 1 = N /\ M - f - 1 = k /\ Cardinality(Completes(x, M)) = r /\ f \in 1..M - 1
    BY <1>4, <1>11, <2>4, <2>7
  <2>9. /\ x[f][1] = "ToolCallsStart" /\ \A m \in f + 1 .. M - 1 : x[m][1] = "ToolResult"
        /\ {x[m] : m \in f + 1 .. M - 1} =
             {<<"ToolResult", Cardinality(Completes(x, M)), i>> : i \in 1..M - f - 1}
        /\ \E i \in DOMAIN g : g[i] = R!Calls(Cardinality(Completes(x, M)), M - f - 1)
    BY <1>6, <2>3, <2>5, <2>6, <2>8
  <2>10. RoundIn(x, g, M)
    BY <2>8, <2>9 DEF RoundIn
  <2> QED
    BY <2>7, <2>10
<1>13. ResultsIn(x, g)
  <2> SUFFICES ASSUME NEW n \in 1..N + 1, x[n][1] = "ToolCallsComplete", n # N + 1 PROVE RoundIn(x, g, n)
    BY <1>8, <1>12 DEF ResultsIn
  <2>1. n \in 1..N
    BY <1>10
  <2>2. l[n][1] = "ToolCallsComplete"
    BY <1>8, <2>1
  <2>3. RoundIn(l, h, n)
    BY <1>2, <1>7, <2>1, <2>2 DEF LogOK, ResultsIn
  <2>4. n \in Nat /\ \A m \in 1..n : x[m] = l[m]
    BY <1>4, <1>8, <2>1
  <2> QED
    BY <1>6, <2>3, <2>4, RoundStays
<1>14. Told'
  <2>1. \A n \in 1..N + 1 : x[n][1] # "Done"
    BY <1>4, <1>7, <1>8, <1>10
  <2>2. LogOK(x, g)
    BY <1>9, <1>13 DEF LogOK
  <2> QED
    BY <1>1, <1>2, <1>3, <1>6, <1>8, <1>11, <2>1, <2>2 DEF Told
<1>15. Dispatching'
  BY <1>1 DEF Dispatching
<1>16. ThisRound'
  <2>1. Since(x, N + 1) /\ N + 1 \in 0..Len(x)
    BY <1>4, <1>8 DEF Since
  <2>2. stop' # "Cancelled"
    BY <1>1 DEF Told
  <2> QED
    BY <1>1, <1>2, <1>8, <2>1, <2>2 DEF ThisRound
<1> QED
  BY <1>14, <1>15, <1>16 DEF LogInv

LEMMA InitLog == Init => LogInv
<1> SUFFICES ASSUME Init PROVE LogInv
  OBVIOUS
<1>1. log = <<>> /\ Len(log) = 0 /\ history = <<>> /\ pc = "loop" /\ steps = 0 /\ stop = "none"
  BY DEF Init
<1>2. Seg(log, 0) = "none"
  BY SegNone
<1>3. Completes(log, 0) = {} /\ Cardinality({}) = 0
  BY FS_EmptySet DEF Completes
<1>4. LogOK(log, history) /\ log \in Seq(Events) /\ history \in Seq(RunEntries)
  BY <1>1 DEF LogOK, SegmentsIn, ResultsIn
<1>5. Told
  <2>1. Seg(log, Len(log)) = "none" /\ Cardinality(Completes(log, Len(log))) = steps
    BY <1>1, <1>2, <1>3
  <2>2. \A n \in 1..Len(log) : FALSE
    BY <1>1
  <2> QED
    BY <1>1, <1>4, <2>1, <2>2 DEF Told
<1>6. Dispatching
  BY <1>1 DEF Dispatching
<1>7. ThisRound
  <2>1. Since(log, 0) /\ 0 \in 0..Len(log)
    BY <1>1 DEF Since
  <2> QED
    BY <1>1, <2>1 DEF ThisRound
<1> QED
  BY <1>5, <1>6, <1>7 DEF LogInv

LEMMA NextLog == IInv /\ LogInv /\ [Next]_vars => LogInv'
<1> SUFFICES ASSUME IInv, LogInv, [Next]_vars PROVE LogInv'
  OBVIOUS
<1>1. CASE BeginRound \/ Ask \/ PollSteps \/ Fire \/ Drop \/ UNCHANGED vars
  <2>1. log' = log /\ history' = history /\ stop' = stop /\ steps' = steps
    BY <1>1 DEF BeginRound, Ask, PollSteps, PollTools, StartsTool, StartTool, ToolsPending, Fire, Drop, vars
  <2> QED
    BY <1>1, <2>1, SilentLog
<1>2. CASE OutOfIterations \/ StopStream \/ StreamFails \/ EndsBadly \/ EndsWithReply \/ StopDispatch
  BY <1>2, EndsLog
<1>3. CASE Streamed
  BY <1>3, StreamedLog
<1>4. CASE EndsWithCalls
  BY <1>4, CallsLog
<1>5. CASE ToolDone
  BY <1>5, ToolLog DEF ToolDone
<1>6. CASE CommitTools
  BY <1>6, CommitLog
<1> QED
  BY <1>1, <1>2, <1>3, <1>4, <1>5, <1>6 DEF Next, Advance, StreamEnds, PollSteps, StartsTool

LEMMA LogInvariance == Spec => []LogInv
BY InitLog, NextLog, Invariance, PTL DEF Spec

LEMMA LogBracketed == LogInv => Bracketed
<1> SUFFICES ASSUME LogInv PROVE Bracketed
  OBVIOUS
<1>1. PICK l, h, N : l = log /\ h = history /\ N = Len(l)
  OBVIOUS
<1>2. /\ l \in Seq(Events) /\ N \in Nat /\ DOMAIN log = 1..N
      /\ \A n \in 1..N : Admits(Seg(l, n - 1), l[n][1])
      /\ \A n \in 1..N : l[n][1] = "ToolCallsComplete" => RoundIn(l, h, n)
      /\ \A n \in 1..N : l[n][1] = "Done" => n = N
  BY <1>1 DEF LogInv, Told, LogOK, SegmentsIn, ResultsIn
<1>3. \A n : SegmentAt(n) = Seg(l, n)
  BY <1>1 DEF SegmentAt, Seg, Edges
<1>4. \A name, n : n \in Named(name) <=> n \in 1..N /\ l[n][1] = name
  BY <1>1, <1>2 DEF Named
<1>5. ASSUME NEW n \in 1..N, l[n][1] \notin Edges PROVE Seg(l, n) = Seg(l, n - 1)
  <2>1. n \in Nat /\ n - 1 \in Nat /\ \A m \in 1..n : m \in 1..n - 1 \/ m = n
    BY <1>2
  <2>2. {m \in 1..n : l[m][1] \in Edges} = {m \in 1..n - 1 : l[m][1] \in Edges}
    BY <1>5, <2>1
  <2> QED
    BY <2>2 DEF Seg
<1>6. SegmentsClosed
  <2>1. ASSUME NEW n \in Named("TextDelta") \cup Named("EmptyDelta") PROVE SegmentAt(n) = "text"
    <3>1. n \in 1..N /\ l[n][1] \in {"TextDelta", "EmptyDelta"}
      BY <1>4
    <3>2. Seg(l, n) = Seg(l, n - 1) /\ Admits(Seg(l, n - 1), l[n][1])
      BY <1>2, <1>5, <3>1 DEF Edges
    <3> QED
      BY <1>3, <3>1, <3>2 DEF Admits
  <2>2. ASSUME NEW n \in Named("ThinkingDelta") PROVE SegmentAt(n) = "thinking"
    <3>1. n \in 1..N /\ l[n][1] = "ThinkingDelta"
      BY <1>4
    <3>2. Seg(l, n) = Seg(l, n - 1) /\ Admits(Seg(l, n - 1), l[n][1])
      BY <1>2, <1>5, <3>1 DEF Edges
    <3> QED
      BY <1>3, <3>1, <3>2 DEF Admits
  <2>3. ASSUME NEW n \in Named("TextStart") \cup Named("ThinkingStart") \cup Named("ToolCallsStart")
                           \cup Named("Done")
        PROVE  SegmentAt(n - 1) = "none"
    <3>1. n \in 1..N /\ l[n][1] \in {"TextStart", "ThinkingStart", "ToolCallsStart", "Done"}
      BY <1>4
    <3> QED
      BY <1>2, <1>3, <3>1 DEF Admits
  <2> QED
    BY <2>1, <2>2, <2>3 DEF SegmentsClosed
<1>7. ASSUME NEW n \in Named("ToolCallsComplete")
      PROVE  LET first == Max({m \in Named("ToolCallsStart") : m < n})
                 r == Cardinality({m \in Named("ToolCallsComplete") : m <= n})
             IN  {log[m] : m \in (first + 1)..(n - 1)} =
                   {<<"ToolResult", r, i>> : i \in 1..(n - first - 1)}
                 /\ \E e \in DOMAIN history : history[e] = R!Calls(r, n - first - 1)
  <2>1. n \in 1..N /\ n \in Nat /\ RoundIn(l, h, n)
    BY <1>2, <1>4
  <2>2. PICK r : r = Cardinality(Completes(l, n))
    OBVIOUS
  <2>3. PICK f \in 1..n - 1 :
          /\ l[f][1] = "ToolCallsStart" /\ \A m \in f + 1 .. n - 1 : l[m][1] = "ToolResult"
          /\ {l[m] : m \in f + 1 .. n - 1} = {<<"ToolResult", r, i>> : i \in 1..n - f - 1}
          /\ \E e \in DOMAIN h : h[e] = R!Calls(r, n - f - 1)
    BY <2>1, <2>2 DEF RoundIn
  <2>4. {m \in Named("ToolCallsComplete") : m <= n} = Completes(l, n)
    BY <1>2, <1>4, <2>1 DEF Completes
  <2>5. PICK T : T = {m \in Named("ToolCallsStart") : m < n}
    OBVIOUS
  <2>6. f \in T /\ T \subseteq 0..n
    <3>1. f \in 1..N /\ f < n
      BY <1>2, <2>1
    <3>2. f \in Named("ToolCallsStart")
      BY <1>4, <2>3, <3>1
    <3>3. \A m \in T : m \in 1..N /\ m < n
      BY <1>4, <2>5
    <3>4. T \subseteq 0..n
      BY <1>2, <2>1, <3>3
    <3> QED
      BY <2>5, <3>1, <3>2, <3>4
  <2>7. \A m \in T : f >= m
    <3> SUFFICES ASSUME NEW m \in T, m > f PROVE FALSE
      BY <2>1, <2>6
    <3>1. m \in 1..N /\ m < n /\ l[m][1] = "ToolCallsStart"
      BY <1>4, <2>5
    <3>2. m \in f + 1 .. n - 1
      BY <2>1, <3>1
    <3> QED
      BY <2>3, <3>1, <3>2
  <2>8. Max(T) = f
    BY <2>1, <2>6, <2>7, MaxIs
  <2>9. {log[m] : m \in (f + 1)..(n - 1)} = {<<"ToolResult", r, i>> : i \in 1..(n - f - 1)}
        /\ \E e \in DOMAIN history : history[e] = R!Calls(r, n - f - 1)
    BY <1>1, <2>3
  <2>10. /\ Max({m \in Named("ToolCallsStart") : m < n}) = f
         /\ Cardinality({m \in Named("ToolCallsComplete") : m <= n}) = r
    BY <2>2, <2>4, <2>5, <2>8
  <2> QED
    BY <2>9, <2>10
<1>8. \A n \in Named("Done") : n = Len(log)
  BY <1>1, <1>2, <1>4
<1>9. ResultsBeforeComplete
  BY <1>7, <1>8 DEF ResultsBeforeComplete
<1> QED
  BY <1>6, <1>9 DEF Bracketed

(* For any number of rounds, calls and provider events, and wherever the   *)
(* stream is cut short, what run_stream yields is bracketed: deltas within *)
(* their segment, no segment open when tools are called or when Done is    *)
(* yielded, one result for each call by the time its round is complete,    *)
(* and nothing after Done.                                                 *)
THEOREM EventsBracketed == Spec => []Bracketed
BY LogInvariance, LogBracketed, PTL

LEMMA LogSteer == LogInv => SteerKeepsText
<1> SUFFICES ASSUME LogInv PROVE SteerKeepsText
  OBVIOUS
<1>1. PICK l, N : l = log /\ N = Len(l)
  OBVIOUS
<1>2. l \in Seq(Events) /\ N \in Nat /\ DOMAIN log = 1..N
  BY <1>1 DEF LogInv, Told
<1>3. PICK L \in 0..N :
        /\ Since(l, L)
        /\ stop = "Cancelled" /\ Yielded(l, L, "TextDelta") /\ ~Yielded(l, L, "ToolCallsStart") =>
             history # <<>> /\ history[Len(history)] = R!Reply
  BY <1>1 DEF LogInv, ThisRound
<1>4. \A name, n : n \in Named(name) <=> n \in 1..N /\ l[n][1] = name
  BY <1>1, <1>2 DEF Named
<1>5. PICK T : T = {0} \cup Named("ToolCallsComplete")
  OBVIOUS
<1>6. L \in T /\ T \subseteq 0..N
  BY <1>1, <1>2, <1>3, <1>4, <1>5 DEF Since
<1>7. \A m \in T : L >= m
  <2> SUFFICES ASSUME NEW m \in T, m > L PROVE FALSE
    BY <1>2, <1>6
  <2>1. m \in 1..N /\ l[m][1] = "ToolCallsComplete"
    BY <1>3, <1>4, <1>5
  <2>2. m \in L + 1 .. N
    BY <1>2, <1>3, <2>1
  <2> QED
    BY <1>1, <1>3, <2>1, <2>2 DEF Since
<1>8. Max(T) = L
  BY <1>2, <1>6, <1>7, MaxIs
<1>9. PICK W : W = (1 + L)..N
  OBVIOUS
<1>10. \A name : Named(name) \cap W # {} <=> Yielded(l, L, name)
  <2>1. \A m \in L + 1 .. N : m \in 1..N /\ m \in W
    BY <1>2, <1>3, <1>9
  <2>2. \A m \in W : m \in L + 1 .. N
    BY <1>2, <1>3, <1>9
  <2> QED
    BY <1>1, <1>4, <2>1, <2>2 DEF Yielded
<1>11. W = (1 + Max({0} \cup Named("ToolCallsComplete")))..Len(log)
  BY <1>1, <1>5, <1>8, <1>9
<1> QED
  BY <1>3, <1>10, <1>11 DEF SteerKeepsText

(* Whenever a cancel ends a run, text that a client has been sent since    *)
(* the last complete round, with no calls announced after it, is the last  *)
(* message of the history: what StopStream keeps is what has been yielded, *)
(* whatever else the provider has streamed.                                *)
THEOREM SteerKeepsWhatWasSaid == Spec => []SteerKeepsText
BY LogInvariance, LogSteer, PTL

-----------------------------------------------------------------------------
(* What the tools did, and what the history tells of it.                   *)

RecordedIn(h) == {h[n].call : n \in {n \in DOMAIN h : h[n].kind = "result"}}

LEMMA RecordedJoin ==
  ASSUME NEW g, NEW h, g \in Seq(RunEntries), h \in Seq(RunEntries)
  PROVE  RecordedIn(g \o h) = RecordedIn(g) \cup RecordedIn(h)
<1>1. PICK N \in Nat, M \in Nat : N = Len(g) /\ M = Len(h)
  OBVIOUS
<1>2. PICK j : j = g \o h
  OBVIOUS
<1>3. /\ DOMAIN j = 1..N + M /\ DOMAIN g = 1..N /\ DOMAIN h = 1..M
      /\ \A n \in 1..N : j[n] = g[n]
      /\ \A n \in 1..M : j[N + n] = h[n]
  BY <1>1, <1>2
<1>4. /\ \A n \in 1..N : n \in 1..N + M
      /\ \A n \in 1..M : N + n \in 1..N + M
      /\ \A n \in 1..N + M : n \in 1..N \/ \E m \in 1..M : n = N + m
  <2>1. \A n \in 1..N + M : n \in 1..N \/ (n - N \in 1..M /\ n = N + (n - N))
    BY <1>1
  <2>2. ASSUME NEW n \in 1..N + M, n \notin 1..N
        PROVE  \E m \in 1..M : n = N + m
    <3>1. n - N \in 1..M /\ n = N + (n - N)
      BY <2>1, <2>2
    <3> QED
      BY <3>1
  <2>3. /\ \A n \in 1..N : n \in 1..N + M
        /\ \A n \in 1..M : N + n \in 1..N + M
    BY <1>1
  <2> QED
    BY <2>2, <2>3
<1>5. ASSUME NEW x \in RecordedIn(g) PROVE x \in RecordedIn(j)
  <2>1. PICK n \in 1..N : g[n].kind = "result" /\ x = g[n].call
    BY <1>3, <1>5 DEF RecordedIn
  <2>2. n \in DOMAIN j /\ j[n].kind = "result" /\ x = j[n].call
    BY <1>3, <1>4, <2>1
  <2> QED
    BY <2>2 DEF RecordedIn
<1>6. ASSUME NEW x \in RecordedIn(h) PROVE x \in RecordedIn(j)
  <2>1. PICK n \in 1..M : h[n].kind = "result" /\ x = h[n].call
    BY <1>3, <1>6 DEF RecordedIn
  <2>2. PICK k : k = N + n
    OBVIOUS
  <2>3. k \in DOMAIN j /\ j[k].kind = "result" /\ x = j[k].call
    BY <1>3, <1>4, <2>1, <2>2
  <2> QED
    BY <2>3 DEF RecordedIn
<1>7. ASSUME NEW x \in RecordedIn(j) PROVE x \in RecordedIn(g) \cup RecordedIn(h)
  <2>1. PICK n \in 1..N + M : j[n].kind = "result" /\ x = j[n].call
    BY <1>3, <1>7 DEF RecordedIn
  <2>2. CASE n \in 1..N
    <3>1. n \in DOMAIN g /\ g[n].kind = "result" /\ x = g[n].call
      BY <1>3, <2>1, <2>2
    <3> QED
      BY <3>1 DEF RecordedIn
  <2>3. CASE n \notin 1..N
    <3>1. PICK m \in 1..M : n = N + m
      BY <1>4, <2>3
    <3>2. m \in DOMAIN h /\ h[m].kind = "result" /\ x = h[m].call
      BY <1>3, <2>1, <3>1
    <3> QED
      BY <3>2 DEF RecordedIn
  <2> QED
    BY <2>2, <2>3
<1> QED
  BY <1>2, <1>5, <1>6, <1>7

LEMMA RecordedReply ==
  ASSUME NEW h, h \in Seq(RunEntries)
  PROVE  RecordedIn(Append(h, R!Reply)) = RecordedIn(h)
<1>1. PICK N \in Nat : N = Len(h)
  OBVIOUS
<1>2. PICK e, j : e = R!Reply /\ j = Append(h, e)
  OBVIOUS
<1>3. e \in RunEntries /\ e.kind = "reply"
  BY <1>2 DEF RunEntries, R!Reply
<1>4. /\ DOMAIN j = 1..N + 1 /\ DOMAIN h = 1..N /\ \A n \in 1..N : j[n] = h[n]
      /\ j[N + 1] = e
  BY <1>1, <1>2, <1>3
<1>5. \A n \in 1..N + 1 : n \in 1..N \/ (n = N + 1 /\ j[n].kind # "result")
  BY <1>1, <1>3, <1>4
<1>6. \A n \in 1..N : n \in 1..N + 1
  BY <1>1
<1>7. {n \in DOMAIN j : j[n].kind = "result"} = {n \in DOMAIN h : h[n].kind = "result"}
  BY <1>4, <1>5, <1>6
<1> QED
  BY <1>2, <1>4, <1>7 DEF RecordedIn

LEMMA RecordedGroup ==
  ASSUME NEW r \in Nat, NEW n \in Nat
  PROVE  /\ R!Group(r, n) \in Seq(RunEntries)
         /\ RecordedIn(R!Group(r, n)) = {<<r, i>> : i \in 1..n}
<1>1. PICK g : g = R!Group(r, n)
  OBVIOUS
<1>2. PICK a, b : a = <<R!Calls(r, n)>> /\ b = [i \in 1..n |-> R!Result(<<r, i>>, <<r, i>>)]
  OBVIOUS
<1>3. a \in Seq(RunEntries) /\ Len(a) = 1 /\ a[1].kind = "call"
  <2>1. PICK c : c = R!Calls(r, n)
    OBVIOUS
  <2>2. c \in RunEntries /\ c.kind = "call"
    BY <2>1 DEF RunEntries, R!Calls
  <2> QED
    BY <1>2, <2>1, <2>2
<1>4. \A i \in 1..n : R!Result(<<r, i>>, <<r, i>>) \in RunEntries
  BY DEF RunEntries
<1>5. b \in Seq(RunEntries) /\ DOMAIN b = 1..n
  BY <1>2, <1>4
<1>6. \A i \in 1..n : b[i].kind = "result" /\ b[i].call = <<r, i>>
  BY <1>2 DEF R!Result
<1>7. RecordedIn(b) = {<<r, i>> : i \in 1..n}
  BY <1>5, <1>6 DEF RecordedIn
<1>8. RecordedIn(a) = {}
  BY <1>3 DEF RecordedIn
<1>9. g = a \o b
  BY <1>1, <1>2 DEF R!Group
<1> QED
  BY <1>1, <1>3, <1>5, <1>7, <1>8, <1>9, RecordedJoin

(* Before the tools of a round are at hand, all that were ever started are *)
(* in the history, and it has results of past rounds only.                 *)
Accounts ==
  /\ Recorded \subseteq started /\ \A t \in Recorded : t[1] <= steps
  /\ \A t \in started \ Recorded :
       t[1] = Round /\ (pc \in {"call", "dispatch", "dropped"} \/ stop = "Cancelled")
  /\ pc \in {"call", "dispatch"} =>
       /\ \A t \in started : t[1] = Round => t[2] \in 1..built.calls
       /\ \A i \in (1..built.calls) \ pending : <<Round, i>> \in started

LEMMA RecordedHere == Recorded = RecordedIn(history) /\ Recorded' = RecordedIn(history')
  BY DEF Recorded, RecordedIn

Settled == pc \in {"loop", "ask", "stream"} /\ pc' \notin {"call", "dispatch"}
Dispatched == pc \in {"call", "dispatch"} /\ pc' \in {"call", "dispatch", "dropped", "done"}

(* Away from the tools, nothing is owed to the history.                    *)
LEMMA SettledAccounts ==
  ASSUME IInv, LogInv, Accounts, Settled, started' = started, Recorded' = Recorded,
         steps' \in {steps, steps + 1}
  PROVE  Accounts'
<1>1. started \subseteq Recorded
  BY DEF Accounts, Settled, LogInv, Told
<1>2. \A t \in Recorded : t[1] <= steps'
  <2>1. steps \in Nat /\ \A t \in started : t[1] \in Nat
    BY BoundsAssumption DEF IInv, TypeOK
  <2> QED
    BY <2>1 DEF Accounts
<1> QED
  BY <1>1, <1>2 DEF Accounts, Settled

(* A step with tools at hand that leaves the history as it is.             *)
LEMMA DispatchedAccounts ==
  ASSUME Accounts, Dispatched, Recorded' = Recorded, steps' = steps, started' = started,
         pc' \in {"call", "dispatch"} => built' = built /\ pending' = pending,
         pc' = "done" => stop' = "Cancelled"
  PROVE  Accounts'
BY DEF Accounts, Dispatched, Round

(* A tool is started, or started and ready.                                *)
LEMMA StartedAccounts ==
  ASSUME IInv, Accounts, NEW i, StartTool(i) \/ ToolFinishes(i)
  PROVE  Accounts'
<1>1. /\ i \in pending /\ pc = "dispatch" /\ pc' \in {"call", "dispatch"}
      /\ started' = started \cup {<<Round, i>>} /\ steps' = steps /\ history' = history
      /\ built' = built /\ pending' \in {pending, pending \ {i}}
  BY DEF StartTool, ToolFinishes, received, futures
<1>2. i \in 1..built.calls /\ Round' = Round /\ Recorded' = Recorded
  BY <1>1 DEF IInv, TypeOK, Round, Recorded
<1>3. \A t \in started' : t \in started \/ (t[1] = Round /\ t[2] = i)
  BY <1>1
<1>4. \A j \in (1..built.calls) \ pending' : <<Round, j>> \in started'
  BY <1>1 DEF Accounts
<1> QED
  BY <1>1, <1>2, <1>3, <1>4 DEF Accounts

(* The round is over: every tool of it was started and is told of.         *)
LEMMA CommitAccounts ==
  ASSUME IInv, LogInv, Accounts, CommitTools
  PROVE  Accounts'
<1>1. PICK n \in Nat, r \in Nat : n = built.calls /\ r = Round
  BY BoundsAssumption DEF IInv, TypeOK, Round
<1>2. history' = history \o R!Group(r, n) /\ history \in Seq(RunEntries)
  BY <1>1, CommitsGroup DEF LogInv, Told
<1>3. Recorded' = Recorded \cup {<<r, i>> : i \in 1..n}
  <2>1. PICK g : g = R!Group(r, n)
    OBVIOUS
  <2>2. g \in Seq(RunEntries) /\ RecordedIn(g) = {<<r, i>> : i \in 1..n}
    BY <2>1, RecordedGroup
  <2>3. RecordedIn(history \o g) = RecordedIn(history) \cup RecordedIn(g)
    BY <1>2, <2>2, RecordedJoin
  <2> QED
    BY <1>2, <2>1, <2>2, <2>3, RecordedHere
<1>4. /\ pc \in {"call", "dispatch"} /\ pc' = "loop" /\ started' = started /\ steps' = steps + 1
      /\ pending = {} /\ r = steps + 1
  BY <1>1 DEF CommitTools, Drained, effects, Round
<1>5. \A i \in 1..n : <<r, i>> \in started
  BY <1>1, <1>4 DEF Accounts
<1>6. \A t \in started : t = <<t[1], t[2]>>
  BY DEF IInv, TypeOK
<1>7. \A t \in started \ Recorded : t[1] = r /\ t[2] \in 1..n
  BY <1>1, <1>4 DEF Accounts
<1>8. started \subseteq Recorded'
  BY <1>3, <1>6, <1>7
<1>9. \A t \in Recorded' : t[1] <= steps'
  <2>1. steps \in Nat /\ \A t \in started : t[1] \in Nat
    BY BoundsAssumption DEF IInv, TypeOK
  <2>2. \A t \in Recorded : t[1] <= steps'
    BY <1>4, <2>1 DEF Accounts
  <2> QED
    BY <1>3, <1>4, <2>1, <2>2
<1>10. Recorded' \subseteq started'
  BY <1>3, <1>4, <1>5 DEF Accounts
<1> QED
  BY <1>4, <1>8, <1>9, <1>10 DEF Accounts

LEMMA NextAccounts == IInv /\ LogInv /\ Accounts /\ [Next]_vars => Accounts'
<1> SUFFICES ASSUME IInv, LogInv, Accounts, [Next]_vars PROVE Accounts'
  OBVIOUS
<1>1. CASE BeginRound \/ Ask \/ Streamed
  <2>1. Settled /\ history' = history /\ started' = started /\ steps' = steps
    BY <1>1 DEF BeginRound, Ask, Streamed, TextDelta, ThinkingDelta, ToolUse, MessageDelta, Item,
                effects, Settled
  <2> QED
    BY <2>1, RecordedHere, SettledAccounts
<1>2. CASE OutOfIterations \/ StopStream \/ StreamFails \/ EndsBadly \/ EndsWithReply
  <2>1. /\ Settled /\ started' = started /\ steps' \in {steps, steps + 1}
        /\ history' = history \/ history' = Append(history, R!Reply)
    BY <1>2 DEF OutOfIterations, StopStream, StreamFails, EndsBadly, EndsWithReply, Done, effects,
                Settled
  <2>2. Recorded' = Recorded
    BY <2>1, RecordedReply, RecordedHere DEF LogInv, Told
  <2> QED
    BY <2>1, <2>2, SettledAccounts
<1>3. CASE EndsWithCalls
  <2>1. /\ pc = "stream" /\ pc' = "call" /\ history' = history /\ started' = started
        /\ steps' = steps /\ built' = built /\ pending' = 1..built.calls
    BY <1>3 DEF EndsWithCalls, received, effects
  <2>2. started \subseteq Recorded /\ Recorded' = Recorded /\ Round' = Round
    BY <2>1, RecordedHere DEF Accounts, LogInv, Told, Round
  <2>3. \A t \in started : t[1] # Round
    <3>1. steps \in Nat /\ \A t \in started : t[1] \in Nat
      BY BoundsAssumption DEF IInv, TypeOK
    <3> QED
      BY <2>2, <3>1 DEF Accounts, Round
  <2> QED
    BY <2>1, <2>2, <2>3 DEF Accounts
<1>4. CASE PollTools \/ ToolsPending \/ StopDispatch
  <2>1. /\ Dispatched /\ history' = history /\ started' = started /\ steps' = steps
        /\ pc' \in {"call", "dispatch"} => built' = built /\ pending' = pending
        /\ pc' = "done" => stop' = "Cancelled"
    BY <1>4 DEF PollTools, ToolsPending, StopDispatch, Done, received, futures, effects, Dispatched
  <2> QED
    BY <2>1, RecordedHere, DispatchedAccounts
<1>5. CASE StartsTool \/ ToolDone
  BY <1>5, StartedAccounts DEF StartsTool, ToolDone
<1>6. CASE CommitTools
  BY <1>6, CommitAccounts
<1>7. CASE Fire
  <2>1. UNCHANGED <<pc, history, steps, built, pending, started, stop>>
    BY <1>7 DEF Fire, received, futures, effects
  <2> QED
    BY <2>1 DEF Accounts, Recorded, Round
<1>8. CASE Drop
  <2>1. pc' = "dropped" /\ UNCHANGED <<history, steps, started>>
    BY <1>8 DEF Drop, effects
  <2> QED
    BY <2>1 DEF Accounts, Recorded, Round
<1>9. CASE UNCHANGED vars
  <2>1. UNCHANGED <<pc, history, steps, built, pending, started, stop>>
    BY <1>9 DEF vars, received, futures, effects
  <2> QED
    BY <2>1 DEF Accounts, Recorded, Round
<1> QED
  BY <1>1, <1>2, <1>3, <1>4, <1>5, <1>6, <1>7, <1>8, <1>9 DEF Next, Advance, StreamEnds, StartsTool

LEMMA InitAccounts == Init => Accounts
  BY DEF Init, Accounts, Recorded

(* Whatever was started is in the history or of the round that was cut     *)
(* short, and the history has results of what was started only, for every  *)
(* order in which a poll reaches the tools and every moment the token      *)
(* fires at.                                                               *)
THEOREM EffectsAreAccounted == Spec => []EffectsAccounted
<1>1. Accounts => EffectsAccounted
  BY DEF Accounts, EffectsAccounted
<1> QED
  BY <1>1, InitAccounts, NextAccounts, Invariance, LogInvariance, PTL DEF Spec
-----------------------------------------------------------------------------
(***************************************************************************)
(* The sandbox that the tools of a run are called in, for any agents,      *)
(* declarations, session roots and number of runs: the registry's          *)
(* resolutions lead to images built for them, and a guest acts for the run *)
(* that called it.  Harnesses is a component of its own, with its own      *)
(* constants, variables and specification (BermSpec).                      *)
(***************************************************************************)

(* An image that acts for an agent under a session's root.                 *)
ActsFor(i, a, s) ==
  /\ i.agent = a /\ i.session = s
  /\ i.root \in {"none", "fixed", "bound", s}

IsReg(r) == r = [images |-> r.images, declared |-> r.declared, agents |-> r.agents]

(* What the digest is for: under it, there is the image it is made of.     *)
OwnDigest(r) == \A d \in DOMAIN r.images : Digest(r.images[d]) = d

(* The image under digest i was built for declaration d.                   *)
BuiltFor(i, d, skills, a, s) ==
  /\ i.elf[1] = d.name /\ i.hosts = d.hosts /\ i.skills = skills
  /\ i.root = Bind(d.root, s) /\ i.root # "refused"
  /\ i.agent = a /\ i.session = s

ResolvedFor(r, k) ==
  /\ k[1] \in DOMAIN r.declared
  /\ \A j \in DOMAIN r.agents[k] :
       /\ j \in DOMAIN r.declared[k[1]].harnesses
       /\ r.agents[k][j][1] = r.declared[k[1]].harnesses[j].name
       /\ r.agents[k][j][2] \in DOMAIN r.images
       /\ BuiltFor(r.agents[k][j][2], r.declared[k[1]].harnesses[j], r.declared[k[1]].skills, k[1], k[2])

Held(r) == IsReg(r) /\ OwnDigest(r) /\ \A k \in DOMAIN r.agents : ResolvedFor(r, k)

(* No image besides those that a resolution points at.                     *)
Digests(r) == {e[2] : e \in Entries(r)}
Swept(r) == DOMAIN r.images = Digests(r)

IsRun(r) ==
  r = [phase |-> r.phase, agent |-> r.agent, root |-> r.root, config |-> r.config, name |-> r.name,
       tool |-> r.tool, stack |-> r.stack, calls |-> r.calls, guard |-> r.guard]

(* The guests a run is inside of, innermost first.                         *)
StackOK(r) ==
  /\ \E S : r.stack \in Seq(S) /\ \A i \in S : ActsFor(i, r.agent, r.root)
  /\ r.phase \in {"guest", "calling"} => r.stack # <<>>

Runs == run = [w \in Workers |-> run[w]] /\ \A w \in Workers : IsRun(run[w]) /\ StackOK(run[w])

(* The inductive invariant.                                                *)
BermIInv == Held(reg) /\ Swept(reg) /\ Runs
-----------------------------------------------------------------------------
(* Operations of the registry.                                             *)

LEMMA BindInside ==
  ASSUME NEW root, NEW s, Bind(root, s) # "refused"
  PROVE  Bind(root, s) \in {"none", "fixed", "bound", s}
BY DEF Bind

PointedAt(r, x) ==
  \E k \in DOMAIN r.agents : \E j \in DOMAIN r.agents[k] : x = r.agents[k][j][2]

LEMMA EntriesOf ==
  ASSUME NEW r, NEW x
  PROVE  x \in Digests(r) <=> PointedAt(r, x)
BY DEF Digests, PointedAt, Entries, Range

(* Clear: what is left is as it was.                                       *)
LEMMA ClearHeld ==
  ASSUME NEW r, Held(r), NEW a
  PROVE  /\ Held(Clear(r, a)) /\ Clear(r, a).declared = r.declared /\ Clear(r, a).images = r.images
         /\ \A k \in DOMAIN Clear(r, a).agents : k[1] # a
         /\ Clear(r, a) = [images |-> r.images, declared |-> r.declared, agents |-> Clear(r, a).agents]
<1>1. PICK A : A = Restrict(r.agents, {k \in DOMAIN r.agents : k[1] # a})
  OBVIOUS
<1>2. Clear(r, a) = [images |-> r.images, declared |-> r.declared, agents |-> A]
  BY <1>1 DEF Clear, Held, IsReg
<1>3. DOMAIN A = {k \in DOMAIN r.agents : k[1] # a} /\ \A k \in DOMAIN A : A[k] = r.agents[k]
  BY <1>1 DEF Restrict
<1> QED
  BY <1>2, <1>3 DEF Held, IsReg, OwnDigest, ResolvedFor

(* A declaration, or the lack of one, touches only its own agent.          *)
LEMMA DeclaredHeld ==
  ASSUME NEW r, Held(r), NEW a, NEW D, \A b \in DOMAIN r.declared : b # a => b \in DOMAIN D /\ D[b] = r.declared[b]
  PROVE  Held([Clear(r, a) EXCEPT !.declared = D])
<1>1. PICK c : c = Clear(r, a)
  OBVIOUS
<1>2. /\ Held(c) /\ c.declared = r.declared /\ (\A k \in DOMAIN c.agents : k[1] # a)
      /\ c = [images |-> r.images, declared |-> r.declared, agents |-> c.agents]
  BY <1>1, ClearHeld
<1>3. PICK q : q = [c EXCEPT !.declared = D]
  OBVIOUS
<1>4. q = [images |-> c.images, declared |-> D, agents |-> c.agents]
  BY <1>2, <1>3
<1>5. q.images = c.images /\ q.declared = D /\ q.agents = c.agents
  BY <1>4
<1>6. ASSUME NEW k \in DOMAIN q.agents PROVE ResolvedFor(q, k)
  <2>1. k \in DOMAIN c.agents /\ k[1] # a /\ ResolvedFor(c, k)
    BY <1>2, <1>5 DEF Held
  <2>2. k[1] \in DOMAIN D /\ D[k[1]] = c.declared[k[1]]
    BY <1>2, <2>1 DEF ResolvedFor
  <2> QED
    BY <1>5, <2>1, <2>2 DEF ResolvedFor
<1>7. IsReg(q) /\ OwnDigest(q)
  BY <1>2, <1>4, <1>5 DEF Held, IsReg, OwnDigest
<1> QED
  BY <1>1, <1>3, <1>6, <1>7 DEF Held

LEMMA SweepHeld ==
  ASSUME NEW r, Held(r)
  PROVE  Held(Sweep(r)) /\ Swept(Sweep(r))
<1>1. PICK M : M = Restrict(r.images, DOMAIN r.images \cap Digests(r))
  OBVIOUS
<1>2. PICK q : q = Sweep(r)
  OBVIOUS
<1>3. q = [images |-> M, declared |-> r.declared, agents |-> r.agents]
  BY <1>1, <1>2 DEF Sweep, Held, IsReg, Digests
<1>4. DOMAIN M = DOMAIN r.images \cap Digests(r) /\ \A d \in DOMAIN M : M[d] = r.images[d]
  BY <1>1 DEF Restrict
<1>5. q.images = M /\ q.declared = r.declared /\ q.agents = r.agents /\ IsReg(q)
  BY <1>3 DEF IsReg
<1>6. ASSUME NEW k \in DOMAIN r.agents, NEW j \in DOMAIN r.agents[k] PROVE r.agents[k][j][2] \in DOMAIN M
  <2>1. r.agents[k][j][2] \in DOMAIN r.images
    BY DEF Held, ResolvedFor
  <2>2. r.agents[k][j][2] \in Digests(r)
    <3>1. PointedAt(r, r.agents[k][j][2])
      BY DEF PointedAt
    <3> QED
      BY <3>1, EntriesOf
  <2> QED
    BY <1>4, <2>1, <2>2
<1>7. \A k \in DOMAIN q.agents : ResolvedFor(q, k)
  BY <1>5, <1>6 DEF Held, ResolvedFor
<1>8. OwnDigest(q)
  BY <1>4, <1>5 DEF Held, OwnDigest
<1>9. Digests(q) = Digests(r)
  BY <1>5 DEF Digests, Entries
<1>10. Digests(r) \subseteq DOMAIN r.images
  <2> SUFFICES ASSUME NEW x \in Digests(r) PROVE x \in DOMAIN r.images
    OBVIOUS
  <2>1. PICK k \in DOMAIN r.agents : \E j \in DOMAIN r.agents[k] : x = r.agents[k][j][2]
    <3>1. PointedAt(r, x)
      BY EntriesOf
    <3> QED
      BY <3>1 DEF PointedAt
  <2> QED
    BY <2>1 DEF Held, ResolvedFor
<1>11. Swept(q)
  BY <1>4, <1>5, <1>9, <1>10 DEF Swept
<1> QED
  BY <1>2, <1>5, <1>7, <1>8, <1>11 DEF Held

(* resolve: new images under their digests, and one resolution more.       *)
LEMMA ResolveHeld ==
  ASSUME NEW r, Held(r), NEW a, NEW s
  PROVE  Held(ResolveIn(r, a, s)) /\ (Swept(r) => Swept(ResolveIn(r, a, s)))
<1>1. CASE <<a, s>> \in DOMAIN r.agents \/ a \notin DOMAIN r.declared
  BY <1>1 DEF ResolveIn
<1>2. CASE ~(<<a, s>> \in DOMAIN r.agents \/ a \notin DOMAIN r.declared)
  <2> DEFINE config == r.declared[a]
             h == config.harnesses
             loaded == {j \in DOMAIN h : Loads(h[j], s)}
             made == [j \in loaded |-> Image(a, h[j], config.skills, s)]
             fresh == {Digest(i) : i \in Range(made)} \ DOMAIN r.images
             M == [d \in DOMAIN r.images \cup fresh |->
                     IF d \in fresh THEN CHOOSE i \in Range(made) : Digest(i) = d ELSE r.images[d]]
             e == [j \in loaded |-> <<h[j].name, Digest(made[j])>>]
             A == Put(r.agents, <<a, s>>, e)
             q == ResolveIn(r, a, s)
  <2>1. q = [r EXCEPT !.images = M, !.agents = A]
    BY <1>2 DEF ResolveIn
  <2> HIDE DEF config, h, loaded, made, fresh, M, e, A, q
  <2>2. q = [images |-> M, declared |-> r.declared, agents |-> A]
    BY <2>1 DEF Held, IsReg
  <2>3. q.images = M /\ q.declared = r.declared /\ q.agents = A /\ IsReg(q)
    BY <2>2 DEF IsReg
  <2>4. ASSUME NEW d \in DOMAIN M PROVE Digest(M[d]) = d
    <3>1. CASE d \in fresh
      <4>1. \E i \in Range(made) : Digest(i) = d
        BY <3>1 DEF fresh
      <4> QED
        BY <3>1, <4>1 DEF M
    <3>2. CASE d \notin fresh
      BY <3>2 DEF Held, OwnDigest, M
    <3> QED
      BY <3>1, <3>2
  <2>5. DOMAIN M = DOMAIN r.images \cup {Digest(i) : i \in Range(made)}
    BY DEF M, fresh
  <2>6. /\ DOMAIN A = DOMAIN r.agents \cup {<<a, s>>} /\ A[<<a, s>>] = e
         /\ \A k \in DOMAIN r.agents : A[k] = r.agents[k]
    BY <1>2 DEF Put, A
  <2>7. ASSUME NEW j \in DOMAIN e
         PROVE  /\ j \in DOMAIN h /\ e[j][1] = h[j].name /\ e[j][2] \in DOMAIN M
                /\ BuiltFor(e[j][2], h[j], config.skills, a, s)
    <3>1. j \in DOMAIN h /\ Loads(h[j], s) /\ j \in loaded
      BY DEF loaded, e
    <3>2. made[j] = Image(a, h[j], config.skills, s) /\ made[j] \in Range(made)
      BY <3>1 DEF Range, made
    <3>3. e[j][1] = h[j].name /\ e[j][2] = Digest(made[j])
      BY <3>1 DEF e
    <3>4. BuiltFor(made[j], h[j], config.skills, a, s)
      BY <3>1, <3>2 DEF BuiltFor, Image, Loads
    <3> QED
      BY <2>5, <3>1, <3>2, <3>3, <3>4 DEF Digest
  <2>8. ASSUME NEW k \in DOMAIN A PROVE ResolvedFor(q, k)
    <3>1. CASE k \in DOMAIN r.agents
      <4>1. ResolvedFor(r, k) /\ A[k] = r.agents[k]
        BY <2>6, <3>1 DEF Held
      <4> QED
        BY <2>3, <2>5, <4>1 DEF ResolvedFor
    <3>2. CASE k = <<a, s>>
      <4>1. k[1] = a /\ k[2] = s /\ A[k] = e /\ a \in DOMAIN r.declared
        BY <1>2, <2>6, <3>2
      <4> QED
        BY <2>3, <2>7, <4>1 DEF ResolvedFor, config, h
    <3> QED
      BY <2>6, <3>1, <3>2
  <2>9. ASSUME Swept(r) PROVE Swept(q)
    <3>1. ASSUME NEW x \in Digests(q) PROVE x \in DOMAIN M
      <4>1. PICK k \in DOMAIN A : \E j \in DOMAIN A[k] : x = A[k][j][2]
        <5>1. PointedAt(q, x)
          BY EntriesOf
        <5> QED
          BY <2>3, <5>1 DEF PointedAt
      <4> QED
        BY <2>3, <2>8, <4>1 DEF ResolvedFor
    <3>2. ASSUME NEW x \in DOMAIN M PROVE x \in Digests(q)
      <4>1. CASE x \in DOMAIN r.images
        <5>1. x \in Digests(r)
          BY <2>9, <4>1 DEF Swept
        <5>2. PICK k \in DOMAIN r.agents : \E j \in DOMAIN r.agents[k] : x = r.agents[k][j][2]
          <6>1. PointedAt(r, x)
            BY <5>1, EntriesOf
          <6> QED
            BY <6>1 DEF PointedAt
        <5>3. k \in DOMAIN q.agents /\ \E j \in DOMAIN q.agents[k] : x = q.agents[k][j][2]
          BY <2>3, <2>6, <5>2
        <5> QED
          <6>1. PointedAt(q, x)
            BY <5>3 DEF PointedAt
          <6> QED
            BY <6>1, EntriesOf
      <4>2. CASE x \in {Digest(i) : i \in Range(made)}
        <5>1. PICK j \in loaded : x = Digest(made[j])
          BY <4>2 DEF Range, made
        <5>2. j \in DOMAIN e /\ x = e[j][2]
          BY <5>1 DEF e
        <5>3. <<a, s>> \in DOMAIN q.agents /\ j \in DOMAIN q.agents[<<a, s>>] /\ x = q.agents[<<a, s>>][j][2]
          BY <2>3, <2>6, <5>2
        <5> QED
          <6>1. PointedAt(q, x)
            BY <5>3 DEF PointedAt
          <6> QED
            BY <6>1, EntriesOf
      <4> QED
        BY <2>5, <4>1, <4>2
    <3> QED
      BY <2>3, <3>1, <3>2 DEF Swept
  <2> QED
    BY <2>3, <2>4, <2>8, <2>9 DEF Held, OwnDigest, q
<1> QED
  BY <1>1, <1>2

LEMMA LoadHeld ==
  ASSUME NEW r, Held(r), NEW a, NEW config
  PROVE  Held(Load(r, a, config)) /\ Swept(Load(r, a, config))
<1>1. PICK D : D = Put(r.declared, a, config)
  OBVIOUS
<1>2. \A b \in DOMAIN r.declared : b # a => b \in DOMAIN D /\ D[b] = r.declared[b]
  BY <1>1 DEF Put
<1>3. PICK q : q = [Clear(r, a) EXCEPT !.declared = D]
  OBVIOUS
<1>4. Held(q)
  BY <1>2, <1>3, DeclaredHeld
<1>5. Clear(r, a).declared = r.declared
      /\ Clear(r, a) = [images |-> r.images, declared |-> r.declared, agents |-> Clear(r, a).agents]
  BY ClearHeld
<1>6. q = [Clear(r, a) EXCEPT !.declared = Put(@, a, config)]
  BY <1>1, <1>3, <1>5
<1>7. Load(r, a, config) = Sweep(ResolveIn(q, a, NoRoot))
  BY <1>6 DEF Load
<1> QED
  BY <1>4, <1>7, ResolveHeld, SweepHeld

LEMMA ForgottenHeld ==
  ASSUME NEW r, Held(r), NEW a
  PROVE  Held(Forgotten(r, a)) /\ Swept(Forgotten(r, a))
<1>1. PICK D : D = Restrict(r.declared, DOMAIN r.declared \ {a})
  OBVIOUS
<1>2. \A b \in DOMAIN r.declared : b # a => b \in DOMAIN D /\ D[b] = r.declared[b]
  BY <1>1 DEF Restrict
<1>3. PICK q : q = [Clear(r, a) EXCEPT !.declared = D]
  OBVIOUS
<1>4. Held(q)
  BY <1>2, <1>3, DeclaredHeld
<1>5. Clear(r, a).declared = r.declared
      /\ Clear(r, a) = [images |-> r.images, declared |-> r.declared, agents |-> Clear(r, a).agents]
  BY ClearHeld
<1>6. Forgotten(r, a) = Sweep(q)
  BY <1>1, <1>3, <1>5 DEF Forgotten
<1> QED
  BY <1>4, <1>6, SweepHeld

(* What a lookup finds acts for whom it was looked up for.                 *)
LEMMA FoundActs ==
  ASSUME NEW r, Held(r), NEW a, NEW s,
         NEW i \in {r.images[Resolved(r, a, s)[j][2]] : j \in DOMAIN Resolved(r, a, s)}
  PROVE  ActsFor(i, a, s)
<1>1. PICK of : of = Resolved(r, a, s)
  OBVIOUS
<1>2. PICK j \in DOMAIN of : i = r.images[of[j][2]]
  BY <1>1
<1>3. PICK k : k = <<a, s>>
  OBVIOUS
<1>4. k \in DOMAIN r.agents /\ of = r.agents[k] /\ k[1] = a /\ k[2] = s
  BY <1>1, <1>2, <1>3 DEF Resolved
<1>5. /\ of[j][2] \in DOMAIN r.images
      /\ BuiltFor(of[j][2], r.declared[a].harnesses[j], r.declared[a].skills, a, s)
  BY <1>2, <1>4 DEF Held, ResolvedFor
<1>6. i = of[j][2]
  BY <1>2, <1>5 DEF Held, OwnDigest, Digest
<1> QED
  BY <1>5, <1>6, BindInside DEF BuiltFor, ActsFor

LEMMA OwnerActs ==
  ASSUME NEW r, Held(r), NEW a, NEW s, NEW tool, NEW i \in Owner(r, a, s, tool)
  PROVE  ActsFor(i, a, s)
BY FoundActs DEF Owner, First

LEMMA NamedActs ==
  ASSUME NEW r, Held(r), NEW a, NEW s, NEW name, NEW i \in HarnessNamed(r, a, s, name)
  PROVE  ActsFor(i, a, s)
BY FoundActs DEF HarnessNamed, First
-----------------------------------------------------------------------------
(* Runs                                                                    *)

(* A worker's own step; the others' runs are as they were.                 *)
LEMMA RunsStep ==
  ASSUME Runs, NEW w \in Workers, NEW r, run' = [run EXCEPT ![w] = r], IsRun(r), StackOK(r)
  PROVE  Runs'
<1>1. run' = [v \in Workers |-> IF v = w THEN r ELSE run[v]]
  BY DEF Runs
<1>2. \A v \in Workers : run'[v] = IF v = w THEN r ELSE run[v]
  BY <1>1
<1>3. run' = [v \in Workers |-> run'[v]]
  BY <1>1
<1>4. \A v \in Workers : IsRun(run'[v]) /\ StackOK(run'[v])
  BY <1>2 DEF Runs
<1> QED
  BY <1>3, <1>4 DEF Runs

LEMMA IdleOK == IsRun(Idle) /\ StackOK(Idle) /\ Idle.stack = <<>>
<1>1. PICK a, c : Idle = [phase |-> "idle", agent |-> a, root |-> NoRoot, config |-> c, name |-> "",
                          tool |-> "", stack |-> <<>>, calls |-> 0, guard |-> 0]
  BY DEF Idle
<1>2. IsRun(Idle) /\ Idle.stack = <<>> /\ Idle.phase = "idle"
  BY <1>1 DEF IsRun
<1>3. PICK S : S = {}
  OBVIOUS
<1>4. Idle.stack \in Seq(S) /\ \A i \in S : ActsFor(i, Idle.agent, Idle.root)
  BY <1>2, <1>3
<1>5. Idle.phase \notin {"guest", "calling"}
  BY <1>2
<1> QED
  BY <1>2, <1>4, <1>5 DEF StackOK

(* A run that is inside of no guest.                                       *)
LEMMA EmptyStack ==
  ASSUME NEW r, r.stack = <<>>, r.phase \notin {"guest", "calling"}
  PROVE  StackOK(r)
<1>1. <<>> \in Seq({})
  OBVIOUS
<1> QED
  BY <1>1 DEF StackOK

(* A guest is entered, over those that wait for it.                        *)
LEMMA Pushed ==
  ASSUME NEW r, StackOK(r), NEW q, NEW i, ActsFor(i, r.agent, r.root),
         q.agent = r.agent, q.root = r.root, q.stack = <<i>> \o r.stack
  PROVE  StackOK(q)
<1>1. PICK S : r.stack \in Seq(S) /\ \A x \in S : ActsFor(x, r.agent, r.root)
  BY DEF StackOK
<1>2. PICK T : T = S \cup {i}
  OBVIOUS
<1>3. r.stack \in Seq(T)
  BY <1>1, <1>2
<1>4. PICK u, v : u = <<i>> /\ v = r.stack
  OBVIOUS
<1>5. u \in Seq(T) /\ Len(u) = 1
  BY <1>2, <1>4
<1>6. u \o v \in Seq(T) /\ Len(u \o v) >= 1
  BY <1>3, <1>4, <1>5
<1>7. q.stack \in Seq(T) /\ q.stack # <<>>
  BY <1>4, <1>6
<1>8. \A x \in T : ActsFor(x, q.agent, q.root)
  BY <1>1, <1>2
<1> QED
  BY <1>7, <1>8 DEF StackOK

LEMMA EnterRuns ==
  ASSUME Runs, NEW w \in Workers, NEW i, ActsFor(i, run[w].agent, run[w].root), Enter(w, i)
  PROVE  Runs'
<1>1. PICK r, q : r = run[w] /\ q = [r EXCEPT !.phase = "guest", !.stack = <<i>>, !.tool = ""]
  OBVIOUS
<1>2. IsRun(r)
  BY <1>1 DEF Runs
<1>3. q = [phase |-> "guest", agent |-> r.agent, root |-> r.root, config |-> r.config, name |-> r.name,
           tool |-> "", stack |-> <<i>>, calls |-> r.calls, guard |-> r.guard]
  BY <1>1, <1>2 DEF IsRun
<1>4. run' = [run EXCEPT ![w] = q]
  BY <1>1, <1>2, <1>3 DEF Enter, Runs, IsRun
<1>5. IsRun(q) /\ q.agent = r.agent /\ q.root = r.root /\ q.stack = <<i>>
  BY <1>3 DEF IsRun
<1>6. <<i>> \in Seq({i}) /\ <<i>> # <<>>
  OBVIOUS
<1>7. StackOK(q)
  <2>1. \A x \in {i} : ActsFor(x, q.agent, q.root)
    BY <1>1, <1>5
  <2>2. q.stack \in Seq({i}) /\ q.stack # <<>>
    BY <1>5, <1>6
  <2> QED
    BY <2>1, <2>2 DEF StackOK
<1> QED
  BY <1>4, <1>5, <1>7, RunsStep

LEMMA BermInitIInv == BermInit => BermIInv
<1> SUFFICES ASSUME BermInit PROVE BermIInv
  OBVIOUS
<1>1. reg = [images |-> <<>>, declared |-> <<>>, agents |-> <<>>]
  BY DEF BermInit
<1>2. DOMAIN reg.agents = {} /\ DOMAIN reg.images = {} /\ IsReg(reg)
  BY <1>1 DEF IsReg
<1>3. Held(reg) /\ Swept(reg)
  <2>1. Digests(reg) = {}
    BY <1>2 DEF Digests, Entries
  <2> QED
    BY <1>2, <2>1 DEF Held, OwnDigest, Swept
<1>4. Runs
  BY IdleOK DEF BermInit, Runs
<1> QED
  BY <1>3, <1>4 DEF BermIInv

(* Storage, the directory of images, and on_forget_agent.                  *)
LEMMA StorageSteps ==
  ASSUME BermIInv, NEW a, NEW c, NEW n,
         UpdateAgent(a, c) \/ PurgeAgent(a) \/ InstallImage(n) \/ ForgetAgent(a) \/ UNCHANGED bermVars
  PROVE  BermIInv'
<1>1. run' = run
  BY DEF UpdateAgent, PurgeAgent, InstallImage, ForgetAgent, bermVars
<1>2. Runs'
  BY <1>1 DEF BermIInv, Runs
<1>3. reg' = reg \/ reg' = Forgotten(reg, a)
  BY DEF UpdateAgent, PurgeAgent, InstallImage, ForgetAgent, bermVars
<1>4. Held(reg') /\ Swept(reg')
  BY <1>3, ForgottenHeld DEF BermIInv
<1> QED
  BY <1>2, <1>4 DEF BermIInv

(* A run begins, resolves its agent, or ends.                              *)
LEMMA RunSteps ==
  ASSUME BermIInv, NEW w \in Workers, NEW a, NEW s, StartRun(w, a, s) \/ ResolveAgent(w) \/ EndRun(w)
  PROVE  BermIInv'
<1>1. PICK r : r = run[w] /\ IsRun(r) /\ StackOK(r)
  BY DEF BermIInv, Runs
<1>2. CASE StartRun(w, a, s)
  <2>1. PICK q : q = [Idle EXCEPT !.phase = "load", !.agent = a, !.root = s, !.config = stored[a]]
    OBVIOUS
  <2>2. IsRun(q) /\ q.stack = <<>> /\ q.phase = "load"
    BY <2>1, IdleOK DEF IsRun
  <2>3. StackOK(q)
    BY <2>2, EmptyStack
  <2>4. run' = [run EXCEPT ![w] = q] /\ reg' = reg
    BY <1>2, <2>1 DEF StartRun
  <2> QED
    BY <2>2, <2>3, <2>4, RunsStep DEF BermIInv
<1>3. CASE ResolveAgent(w)
  <2>1. PICK q : q = [r EXCEPT !.phase = "run", !.config = Idle.config]
    OBVIOUS
  <2>2. /\ IsRun(q) /\ q.stack = r.stack /\ q.phase = "run" /\ q.agent = r.agent /\ q.root = r.root
        /\ run' = [run EXCEPT ![w] = q]
    BY <1>1, <1>3, <2>1 DEF IsRun, ResolveAgent, BermIInv, Runs
  <2>3. StackOK(q)
    BY <1>1, <2>2 DEF StackOK
  <2>4. Held(reg') /\ Swept(reg')
    BY <1>3, LoadHeld DEF ResolveAgent, BermIInv
  <2> QED
    BY <2>2, <2>3, <2>4, RunsStep DEF BermIInv
<1>4. CASE EndRun(w)
  BY <1>4, IdleOK, RunsStep DEF EndRun, BermIInv
<1> QED
  BY <1>2, <1>3, <1>4

(* A tool is looked up and its image entered, or its resolution built.     *)
LEMMA CallSteps ==
  ASSUME BermIInv, NEW w \in Workers, NEW t, CallTool(w, t) \/ BuildOwner(w)
  PROVE  BermIInv'
<1>1. PICK r : r = run[w] /\ IsRun(r) /\ StackOK(r) /\ r.phase \notin {"guest", "calling"}
  BY DEF BermIInv, Runs, CallTool, BuildOwner
<1>2. Held(reg') /\ Swept(reg')
  <2>1. reg' = reg \/ reg' = ResolveIn(reg, run[w].agent, run[w].root)
    BY DEF CallTool, BuildOwner
  <2>2. Held(reg) /\ Swept(reg)
    BY DEF BermIInv
  <2> QED
    BY <2>1, <2>2, ResolveHeld
<1>3. PICK q, tool, ph : /\ q = [r EXCEPT !.phase = ph, !.tool = tool] /\ ph \in {"build", "run"}
                         /\ \/ \E i \in Owner(reg', r.agent, r.root, t) : Enter(w, i)
                            \/ \E i \in Owner(reg', r.agent, r.root, r.tool) : Enter(w, i)
                            \/ run' = [run EXCEPT ![w].phase = ph, ![w].tool = tool]
  <2>1. CASE CallTool(w, t)
    BY <1>1, <2>1 DEF CallTool
  <2>2. CASE BuildOwner(w)
    BY <1>1, <2>2 DEF BuildOwner
  <2> QED
    BY <2>1, <2>2
<1>4. CASE \E x : \E i \in Owner(reg', r.agent, r.root, x) : Enter(w, i)
  <2>1. PICK x : \E i \in Owner(reg', r.agent, r.root, x) : Enter(w, i)
    BY <1>4
  <2>2. PICK i \in Owner(reg', r.agent, r.root, x) : Enter(w, i)
    BY <2>1
  <2>3. ActsFor(i, r.agent, r.root)
    BY <1>2, <2>2, OwnerActs
  <2>4. Runs'
    BY <1>1, <2>2, <2>3, EnterRuns DEF BermIInv
  <2> QED
    BY <1>2, <2>4 DEF BermIInv
<1>5. CASE run' = [run EXCEPT ![w].phase = ph, ![w].tool = tool]
  <2>1. /\ IsRun(q) /\ q.stack = r.stack /\ q.phase = ph /\ q.agent = r.agent /\ q.root = r.root
        /\ run' = [run EXCEPT ![w] = q]
    BY <1>1, <1>3, <1>5 DEF IsRun, BermIInv, Runs
  <2>2. StackOK(q)
    BY <1>1, <1>3, <2>1 DEF StackOK
  <2>3. Runs'
    BY <2>1, <2>2, RunsStep DEF BermIInv
  <2> QED
    BY <1>2, <2>3 DEF BermIInv
<1> QED
  BY <1>3, <1>4, <1>5

(* berm.call, and the return of a guest.                                   *)
LEMMA GuestSteps ==
  ASSUME BermIInv, NEW w \in Workers, NEW n, NEW t, AskSibling(w, n, t) \/ CallSibling(w) \/ Return(w)
  PROVE  BermIInv'
<1>1. PICK r : r = run[w] /\ IsRun(r) /\ StackOK(r) /\ r.phase \in {"guest", "calling"}
  BY DEF BermIInv, Runs, AskSibling, CallSibling, Return
<1>2. reg' = reg
  BY DEF AskSibling, CallSibling, Return
<1>3. PICK S : r.stack \in Seq(S) /\ (\A i \in S : ActsFor(i, r.agent, r.root)) /\ r.stack # <<>>
  BY <1>1 DEF StackOK
<1> SUFFICES Runs'
  BY <1>2 DEF BermIInv
<1>4. CASE AskSibling(w, n, t)
  <2>1. PICK q : q = [r EXCEPT !.phase = "calling", !.name = n, !.tool = t, !.calls = @ + 1]
    OBVIOUS
  <2>2. /\ IsRun(q) /\ q.stack = r.stack /\ q.agent = r.agent /\ q.root = r.root
        /\ run' = [run EXCEPT ![w] = q]
    BY <1>1, <1>4, <2>1 DEF IsRun, AskSibling, BermIInv, Runs
  <2>3. StackOK(q)
    BY <1>3, <2>2 DEF StackOK
  <2> QED
    BY <2>2, <2>3, RunsStep DEF BermIInv
<1>5. CASE CallSibling(w)
  <2>1. CASE \E i \in Sibling(w) : run' = [run EXCEPT ![w].phase = "guest", ![w].name = "", ![w].tool = "",
                                                      ![w].stack = <<i>> \o @]
    <3>1. PICK i \in Sibling(w) : run' = [run EXCEPT ![w].phase = "guest", ![w].name = "", ![w].tool = "",
                                                     ![w].stack = <<i>> \o @]
      BY <2>1
    <3>2. ActsFor(Head(r.stack), r.agent, r.root)
      <4>1. Head(r.stack) \in S
        BY <1>3
      <4> QED
        BY <1>3, <4>1
    <3>3. i \in HarnessNamed(reg, r.agent, r.root, r.name)
      BY <1>1, <3>2 DEF Sibling, Top, ActsFor
    <3>4. ActsFor(i, r.agent, r.root)
      BY <3>3, NamedActs DEF BermIInv
    <3>5. PICK q : q = [r EXCEPT !.phase = "guest", !.name = "", !.tool = "", !.stack = <<i>> \o r.stack]
      OBVIOUS
    <3>6. /\ IsRun(q) /\ q.stack = <<i>> \o r.stack /\ q.agent = r.agent /\ q.root = r.root
          /\ run' = [run EXCEPT ![w] = q]
      BY <1>1, <3>1, <3>5 DEF IsRun, BermIInv, Runs
    <3>7. StackOK(q)
      BY <1>1, <3>4, <3>6, Pushed
    <3> QED
      BY <3>6, <3>7, RunsStep DEF BermIInv
  <2>2. CASE run' = [run EXCEPT ![w].phase = "guest", ![w].name = "", ![w].tool = ""]
    <3>1. PICK q : q = [r EXCEPT !.phase = "guest", !.name = "", !.tool = ""]
      OBVIOUS
    <3>2. /\ IsRun(q) /\ q.stack = r.stack /\ q.agent = r.agent /\ q.root = r.root
          /\ run' = [run EXCEPT ![w] = q]
      BY <1>1, <2>2, <3>1 DEF IsRun, BermIInv, Runs
    <3>3. StackOK(q)
      BY <1>3, <3>2 DEF StackOK
    <3> QED
      BY <3>2, <3>3, RunsStep DEF BermIInv
  <2> QED
    BY <1>5, <2>1, <2>2 DEF CallSibling
<1>6. CASE Return(w)
  <2>1. CASE Len(r.stack) > 1
    <3>1. PICK g : g = IF r.guard > 0 THEN r.guard - 1 ELSE 0
      OBVIOUS
    <3>2. PICK q : q = [r EXCEPT !.stack = Tail(r.stack), !.guard = g]
      OBVIOUS
    <3>3. /\ IsRun(q) /\ q.stack = Tail(r.stack) /\ q.agent = r.agent /\ q.root = r.root
          /\ run' = [run EXCEPT ![w] = q]
      BY <1>1, <1>6, <2>1, <3>1, <3>2 DEF IsRun, BermIInv, Runs, Return
    <3>4. Tail(r.stack) \in Seq(S) /\ Tail(r.stack) # <<>>
      <4>1. PICK u : u = r.stack /\ u \in Seq(S) /\ Len(u) > 1
        BY <1>3, <2>1
      <4>2. Tail(u) \in Seq(S) /\ Len(Tail(u)) = Len(u) - 1 /\ Len(u) \in Nat
        BY <4>1
      <4>3. PICK k, m : k = Len(u) /\ m = Len(Tail(u))
        OBVIOUS
      <4>4. k \in Nat /\ k > 1 /\ m = k - 1
        BY <4>1, <4>2, <4>3
      <4>5. m # 0
        BY <4>4
      <4>6. Tail(u) # <<>>
        BY <4>3, <4>5
      <4> QED
        BY <4>1, <4>2, <4>6
    <3>5. StackOK(q)
      BY <1>3, <3>3, <3>4 DEF StackOK
    <3> QED
      BY <3>3, <3>5, RunsStep DEF BermIInv
  <2>2. CASE ~(Len(r.stack) > 1)
    <3>1. PICK q : q = [Idle EXCEPT !.phase = "run", !.agent = r.agent, !.root = r.root]
      OBVIOUS
    <3>2. IsRun(q) /\ q.stack = <<>> /\ q.phase = "run"
      BY <3>1, IdleOK DEF IsRun
    <3>3. StackOK(q)
      BY <3>2, EmptyStack
    <3>4. run' = [run EXCEPT ![w] = q]
      BY <1>1, <1>6, <2>2, <3>1 DEF Return
    <3> QED
      BY <3>2, <3>3, <3>4, RunsStep DEF BermIInv
  <2> QED
    BY <2>1, <2>2
<1> QED
  BY <1>4, <1>5, <1>6

LEMMA BermNextIInv == BermIInv /\ [BermNext]_bermVars => BermIInv'
<1> SUFFICES ASSUME BermIInv, [BermNext]_bermVars PROVE BermIInv'
  OBVIOUS
<1>1. CASE \/ \E a \in Agents : (\E c \in Configs : UpdateAgent(a, c)) \/ PurgeAgent(a) \/ ForgetAgent(a)
           \/ \E n \in HarnessNames : InstallImage(n)
           \/ UNCHANGED bermVars
  BY <1>1, StorageSteps
<1>2. ASSUME NEW w \in Workers, \E a \in Agents, s \in Sessions : StartRun(w, a, s) PROVE BermIInv'
  BY <1>2, RunSteps
<1>3. ASSUME NEW w \in Workers, ResolveAgent(w) \/ EndRun(w) PROVE BermIInv'
  BY <1>3, RunSteps
<1>4. ASSUME NEW w \in Workers, BuildOwner(w) \/ \E t \in AllTools : CallTool(w, t) PROVE BermIInv'
  BY <1>4, CallSteps
<1>5. ASSUME NEW w \in Workers,
             \/ CallSibling(w) \/ Return(w)
             \/ \E n \in HarnessNames, t \in AllTools : AskSibling(w, n, t)
      PROVE  BermIInv'
  BY <1>5, GuestSteps
<1> QED
  BY <1>1, <1>2, <1>3, <1>4, <1>5 DEF BermNext, Progress

LEMMA BermInvariance == BermSpec => []BermIInv
BY BermInitIInv, BermNextIInv, PTL DEF BermSpec

(* For any agents, declarations and roots, and however loads, purges and   *)
(* installations interleave with runs: each entry of BermHarness's         *)
(* registry leads to an image built for its agent, its session and its     *)
(* declaration, and no other image is kept.                                *)
THEOREM ImagesFitTheirAgents == BermSpec => []ImagesFit
<1>1. BermIInv => ImagesFit
  <2> SUFFICES ASSUME BermIInv PROVE ImagesFit
    OBVIOUS
  <2>1. PICK r : r = reg /\ Held(r) /\ Swept(r)
    BY DEF BermIInv
  <2>2. \A d \in DOMAIN r.images : r.images[d] = d
    BY <2>1 DEF Held, OwnDigest, Digest
  <2>3. ASSUME NEW k \in DOMAIN r.agents, NEW j \in DOMAIN r.agents[k]
        PROVE  LET declared == r.declared[k[1]]
                   d == declared.harnesses[j]
                   e == r.agents[k][j]
                   image == r.images[e[2]]
               IN  /\ j \in DOMAIN declared.harnesses /\ e[1] = d.name
                   /\ e[2] \in DOMAIN r.images
                   /\ image.elf[1] = d.name /\ image.hosts = d.hosts
                   /\ image.root = Bind(d.root, k[2]) /\ image.root # "refused"
                   /\ image.agent = k[1] /\ image.session = k[2]
                   /\ image.skills = declared.skills
    BY <2>1, <2>2 DEF Held, ResolvedFor, BuiltFor
  <2>4. \A k \in DOMAIN r.agents : k[1] \in DOMAIN r.declared
    BY <2>1 DEF Held, ResolvedFor
  <2>5. DOMAIN r.images = {e[2] : e \in Entries(r)}
    BY <2>1 DEF Swept, Digests
  <2> QED
    BY <2>1, <2>3, <2>4, <2>5 DEF ImagesFit
<1> QED
  BY <1>1, BermInvariance, PTL

(* Whatever a run's tool call reaches through berm.call, to any depth and  *)
(* across any number of reloads of its agent, acts for the run's agent and *)
(* under the run's root, and no image was built with a bound that bind     *)
(* refuses.                                                                *)
THEOREM GuestsAreTheirRuns == BermSpec => []GuestsActForTheirRun
<1>1. BermIInv => GuestsActForTheirRun
  <2> SUFFICES ASSUME BermIInv, NEW w \in Workers, NEW i \in Range(run[w].stack)
               PROVE  ActsFor(i, run[w].agent, run[w].root)
    BY DEF GuestsActForTheirRun, ActsFor
  <2>1. PICK r : r = run[w] /\ StackOK(r)
    BY DEF BermIInv, Runs
  <2>2. PICK S : r.stack \in Seq(S) /\ \A x \in S : ActsFor(x, r.agent, r.root)
    BY <2>1 DEF StackOK
  <2>3. i \in S
    BY <2>1, <2>2 DEF Range
  <2> QED
    BY <2>1, <2>2, <2>3
<1> QED
  BY <1>1, BermInvariance, PTL
=============================================================================
