------------------------------ MODULE AgentRun ------------------------------
(***************************************************************************)
(* What a run of the agent loop promises to the session it runs on: the    *)
(* history grows by whole groups, a message with tool calls followed by    *)
(* one result per call in call order, for at most max_iterations rounds;   *)
(* a reply without calls ends the run.  SessionHistory takes the loop to   *)
(* be this.                                                                *)
(***************************************************************************)
EXTENDS Naturals, Sequences

CONSTANTS MaxIterations, MaxCalls

VARIABLES
  history,  \* what the run has appended
  rounds,   \* rounds committed
  phase     \* running or over

(* A tool call is named by its round and its place in the message; the     *)
(* output of a tool by the call it answers.                                *)
Reply == [kind |-> "reply"]
Calls(r, n) == [kind |-> "call", round |-> r, count |-> n]
Result(call, output) == [kind |-> "result", call |-> call, output |-> output]
Group(r, n) == <<Calls(r, n)>> \o [i \in 1..n |-> Result(<<r, i>>, <<r, i>>)]

Init == history = <<>> /\ rounds = 0 /\ phase = "running"

CommitTools ==
  /\ phase = "running" /\ rounds < MaxIterations
  /\ \E n \in 1..MaxCalls : history' = history \o Group(rounds + 1, n)
  /\ rounds' = rounds + 1
  /\ UNCHANGED phase

CommitReply ==
  /\ phase = "running" /\ rounds < MaxIterations
  /\ history' = Append(history, Reply)
  /\ rounds' \in {rounds, rounds + 1}
  /\ phase' = "over"

(* Nothing more to commit: an error, an empty round, a cancel, a dropped   *)
(* consumer, or no iteration left.                                         *)
Stop == phase = "running" /\ phase' = "over" /\ UNCHANGED <<history, rounds>>

Next == CommitTools \/ CommitReply \/ Stop

Spec == Init /\ [][Next]_<<history, rounds, phase>>
=============================================================================
