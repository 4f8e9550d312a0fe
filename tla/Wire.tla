-------------------------------- MODULE Wire --------------------------------
(* The protocol between a client and the daemon over one socket per        *)
(* connection.  The daemon has, per connection, a task that reads requests *)
(* and a task that writes replies; every request is dispatched in a task   *)
(* of its own, and all of them share the bounded reply channel.  A reply   *)
(* does not say which request it answers: the client takes what comes.     *)
(* A request is named by the order in which it was made.                   *)
EXTENDS Naturals, Sequences, FiniteSets

CONSTANTS
  Conns,
  Ops,          \* the operations that clients use, of those the protocol has
  ReplyCap,     \* REPLY_CHANNEL_CAPACITY
  SocketCap,    \* frames the socket buffers before a write waits
  MaxRequests,  \* bound on the number of requests
  MaxEvents     \* bound on the events of a stream before its last

VARIABLES
  daemon,    \* "up", "draining" or "exited"
  requests,  \* sequence of [conn, op, st, n, seen]
  phase,     \* per connection, the client: new, idle, waiting, streaming, closed
  call,      \* per connection: the request the client waits for
  dropped,   \* per connection: the client abandoned a call and went on (ghost)
  taken,     \* per connection: the last message read, and what was made of it (ghost)
  c2s, s2c,  \* the two directions of the socket
  chan,      \* the reply channel
  reader,    \* per connection, the daemon's tasks: none, up, down
  writer

vars == <<daemon, requests, phase, call, dropped, taken, c2s, s2c, chan, reader, writer>>

-----------------------------------------------------------------------------
(* What each operation is answered with when it succeeds: Server::dispatch. *)

SessionReplies ==
  {<<"send", "Response">>, <<"stream", "Stream">>, <<"ping", "Pong">>,
   <<"list_active_conversations", "ActiveConversations">>, <<"kill", "Pong">>,
   <<"get_config", "none">>, <<"subscribe_events", "AgentEvent">>,
   <<"subscribe_mcp_events", "McpEvent">>, <<"cancel_stream", "Pong">>,
   <<"create_session", "Pong">>, <<"get_stats", "Stats">>}

AgentReplies ==
  {<<"subscribe_event", "SubscriptionInfo">>, <<"unsubscribe_event", "Pong">>,
   <<"list_subscriptions", "SubscriptionList">>, <<"publish_event", "Pong">>,
   <<"compact", "Compact">>, <<"list_agents", "AgentList">>, <<"get_agent", "AgentInfo">>,
   <<"create_agent", "AgentInfo">>, <<"update_agent", "AgentInfo">>,
   <<"delete_agent", "Pong">>, <<"rename_agent", "AgentInfo">>}

CatalogReplies ==
  {<<"list_skills", "SkillList">>, <<"get_skill", "SkillBody">>,
   <<"search_sessions", "SessionHits">>, <<"list_models", "ModelList">>,
   <<"list_conversations", "ConversationList">>,
   <<"get_conversation_history", "ConversationHistory">>, <<"delete_conversation", "Pong">>,
   <<"list_mcps", "McpList">>, <<"upsert_mcp", "McpInfo">>, <<"delete_mcp", "Pong">>,
   <<"reconnect_mcp", "McpInfo">>, <<"set_active_model", "Pong">>}

Replies == SessionReplies \cup AgentReplies \cup CatalogReplies
AllOps == {r[1] : r \in Replies}

ASSUME OpsAssumption == Ops \subseteq AllOps
ASSUME BoundsAssumption ==
  ReplyCap \in Nat /\ SocketCap \in Nat /\ MaxRequests \in Nat /\ MaxEvents \in Nat

(* How a failure is reported.                                              *)
ErrorOf(op) ==
  CASE op \in {"kill", "unsubscribe_event", "delete_agent", "delete_mcp"} -> {"404", "500"}
    [] op \in {"get_agent", "get_skill"} -> {"404"}
    [] op = "get_config" -> {"410"}
    [] OTHER -> {"500"}

Errors == {"404", "410", "500"}
Kinds == {r[2] : r \in Replies} \cup Errors \cup {"End"}

Subscriptions == {"subscribe_events", "subscribe_mcp_events"}
Streams == {"stream"} \cup Subscriptions

-----------------------------------------------------------------------------
(* What the client's methods take for success.                             *)

AgentMethods ==
  {<<"send", "Response">>, <<"ping", "Pong">>, <<"get_stats", "Stats">>,
   <<"list_agents", "AgentList">>}
AgentEdits ==
  {<<"get_agent", "AgentInfo">>, <<"create_agent", "AgentInfo">>,
   <<"update_agent", "AgentInfo">>, <<"delete_agent", "Pong">>, <<"rename_agent", "AgentInfo">>}
ConversationMethods ==
  {<<"list_conversations", "ConversationList">>,
   <<"get_conversation_history", "ConversationHistory">>, <<"delete_conversation", "Pong">>,
   <<"list_mcps", "McpList">>, <<"upsert_mcp", "McpInfo">>}
McpMethods ==
  {<<"delete_mcp", "Pong">>, <<"reconnect_mcp", "McpInfo">>, <<"set_active_model", "Pong">>,
   <<"list_skills", "SkillList">>, <<"search_sessions", "SessionHits">>}
EventMethods ==
  {<<"get_skill", "SkillBody">>, <<"list_models", "ModelList">>,
   <<"subscribe_event", "SubscriptionInfo">>, <<"unsubscribe_event", "Pong">>,
   <<"list_subscriptions", "SubscriptionList">>}
KillMethods ==
  {<<"publish_event", "Pong">>, <<"list_active_conversations", "ActiveConversations">>,
   <<"kill", "Pong">>, <<"compact", "Compact">>, <<"get_config", "Config">>}
CancelMethods == {<<"cancel_stream", "Pong">>, <<"create_session", "Pong">>}

Accepted == AgentMethods \cup AgentEdits \cup ConversationMethods \cup McpMethods
            \cup EventMethods \cup KillMethods \cup CancelMethods

(* How request's caller reads the one message it gets.                     *)
Outcome(op, kind) ==
  IF op = "kill" /\ kind = "404" THEN "false"
  ELSE IF <<op, kind>> \in Accepted THEN "ok"
  ELSE IF kind \in Errors THEN "error"
  ELSE "unexpected"

-----------------------------------------------------------------------------
Message(i, kind, n) == [of |-> i, kind |-> kind, n |-> n]
Nothing == [want |-> 0, of |-> 0, outcome |-> "ok", fresh |-> TRUE]

Op(i) == requests[i].op
Set(f, c, v) == [f EXCEPT ![c] = v]

-----------------------------------------------------------------------------
(* The client: Connection, and the methods of Client over it.              *)

(* connect; the kernel queues the connection for the accept loop.          *)
Open(c) ==
  /\ phase[c] = "new" /\ daemon # "exited"
  /\ phase' = Set(phase, c, "idle")
  /\ UNCHANGED <<daemon, requests, call, dropped, taken, c2s, s2c, chan, reader, writer>>

(* request and request_stream write the frame and then read.               *)
Request(c, op) ==
  /\ phase[c] = "idle" /\ reader[c] # "down"
  /\ Len(requests) < MaxRequests
  /\ requests' = Append(requests, [conn |-> c, op |-> op, st |-> "written", n |-> 0, seen |-> 0])
  /\ c2s' = Set(c2s, c, Append(c2s[c], Len(requests')))
  /\ phase' = Set(phase, c, IF op \in Streams THEN "streaming" ELSE "waiting")
  /\ call' = Set(call, c, Len(requests'))
  /\ UNCHANGED <<daemon, dropped, taken, s2c, chan, reader, writer>>

(* What the client reads, for whom, and how it takes it.                   *)
Take(c, outcome) ==
  LET m == Head(s2c[c])
      seen == requests[m.of].seen
      next == IF Op(m.of) \in Subscriptions THEN m.n > seen ELSE m.n = seen + 1
  IN  /\ s2c[c] # <<>>
      /\ s2c' = Set(s2c, c, Tail(s2c[c]))
      /\ requests' = [requests EXCEPT ![m.of].seen = m.n]
      /\ taken' = Set(taken, c, [want |-> call[c], of |-> m.of, outcome |-> outcome,
                                 fresh |-> next])

(* request: one message, whatever it is.                                   *)
TakeReply(c) ==
  /\ phase[c] = "waiting"
  /\ Take(c, Outcome(Op(call[c]), Head(s2c[c]).kind))
  /\ phase' = Set(phase, c, "idle") /\ call' = Set(call, c, 0)
  /\ UNCHANGED <<daemon, dropped, c2s, chan, reader, writer>>

(* How a stream's caller reads a message: End and errors are the last.     *)
StreamOutcome(op, kind) ==
  IF op = "stream" /\ kind = "End" THEN "end"
  ELSE IF <<op, kind>> \in {<<"stream", "Stream">>, <<"subscribe_events", "AgentEvent">>,
                            <<"subscribe_mcp_events", "McpEvent">>} THEN "ok"
  ELSE IF kind \in Errors THEN "error"
  ELSE IF op \in Subscriptions THEN "ignored"
  ELSE "unexpected"

(* stream, subscribe_events and subscribe_mcp_events read on.              *)
TakeEvent(c) ==
  LET outcome == StreamOutcome(Op(call[c]), Head(s2c[c]).kind)
  IN  /\ phase[c] = "streaming"
      /\ Take(c, outcome)
      /\ IF outcome \in {"end", "error"}
         THEN phase' = Set(phase, c, "idle") /\ call' = Set(call, c, 0)
         ELSE UNCHANGED <<phase, call>>
      /\ UNCHANGED <<daemon, dropped, c2s, chan, reader, writer>>

(* The daemon's write half is shut and everything before that was read.    *)
ReadClosed(c) ==
  /\ phase[c] \in {"waiting", "streaming"}
  /\ writer[c] = "down" /\ s2c[c] = <<>>
  /\ phase' = Set(phase, c, "idle") /\ call' = Set(call, c, 0)
  /\ UNCHANGED <<daemon, requests, dropped, taken, c2s, s2c, chan, reader, writer>>

(* The caller drops the future or the stream and keeps the connection, as  *)
(* one must who has a stream and wants to steer its session.               *)
DropCall(c) ==
  /\ phase[c] \in {"waiting", "streaming"}
  /\ phase' = Set(phase, c, "idle") /\ call' = Set(call, c, 0)
  /\ dropped' = Set(dropped, c, TRUE)
  /\ UNCHANGED <<daemon, requests, taken, c2s, s2c, chan, reader, writer>>

(* The connection is dropped, as ConnectionInfo does after every call.     *)
Close(c) ==
  /\ phase[c] \in {"idle", "waiting", "streaming"}
  /\ phase' = Set(phase, c, "closed") /\ call' = Set(call, c, 0)
  /\ s2c' = Set(s2c, c, <<>>)
  /\ UNCHANGED <<daemon, requests, dropped, taken, c2s, chan, reader, writer>>

-----------------------------------------------------------------------------
(* The daemon's side: accept_loop and on_message.                          *)

Accept(c) ==
  /\ daemon = "up" /\ phase[c] # "new" /\ reader[c] = "none"
  /\ reader' = Set(reader, c, "up") /\ writer' = Set(writer, c, "up")
  /\ UNCHANGED <<daemon, requests, phase, call, dropped, taken, c2s, s2c, chan>>

(* Fault: a request is read only when the one before it is dispatched.     *)
ReadRequestInline(c) ==
  /\ reader[c] = "up" /\ c2s[c] # <<>>
  /\ \A i \in 1..Len(requests) : ~(requests[i].conn = c /\ requests[i].st = "running")
  /\ requests' = [requests EXCEPT ![Head(c2s[c])].st = "running"]
  /\ c2s' = Set(c2s, c, Tail(c2s[c]))
  /\ UNCHANGED <<daemon, phase, call, dropped, taken, s2c, chan, reader, writer>>

(* The reader hands each request to a task and does not wait for it.       *)
ReadRequest(c) ==
  /\ reader[c] = "up" /\ c2s[c] # <<>>
  /\ requests' = [requests EXCEPT ![Head(c2s[c])].st = "running"]
  /\ c2s' = Set(c2s, c, Tail(c2s[c]))
  /\ UNCHANGED <<daemon, phase, call, dropped, taken, s2c, chan, reader, writer>>

(* Fault: the write task is left to end by itself.                         *)
HangUpNoAbort(c) ==
  /\ reader[c] = "up" /\ phase[c] = "closed" /\ c2s[c] = <<>>
  /\ reader' = Set(reader, c, "down")
  /\ UNCHANGED <<daemon, requests, phase, call, dropped, taken, c2s, s2c, chan, writer>>

(* The reader meets the end of the stream: the write task is aborted, and  *)
(* what the channel holds is lost.                                         *)
HangUp(c) ==
  /\ reader[c] = "up" /\ phase[c] = "closed" /\ c2s[c] = <<>>
  /\ reader' = Set(reader, c, "down") /\ writer' = Set(writer, c, "down")
  /\ chan' = Set(chan, c, <<>>)
  /\ UNCHANGED <<daemon, requests, phase, call, dropped, taken, c2s, s2c>>

(* Fault: a message for which there is no room is left out.                *)
ReplyTrySend(i, kind, n, last) ==
  LET c == requests[i].conn
  IN  /\ requests[i].st = "running"
      /\ chan' = IF writer[c] = "up" /\ Len(chan[c]) < ReplyCap
                 THEN Set(chan, c, Append(chan[c], Message(i, kind, n))) ELSE chan
      /\ requests' = [requests EXCEPT ![i].n = n,
                        ![i].st = IF writer[c] = "down" \/ last THEN "done" ELSE "running"]

(* reply.send: waits for room; a closed channel ends the task.             *)
Reply(i, kind, n, last) ==
  LET c == requests[i].conn
  IN  /\ requests[i].st = "running"
      /\ \/ /\ writer[c] = "up" /\ Len(chan[c]) < ReplyCap
            /\ chan' = Set(chan, c, Append(chan[c], Message(i, kind, n)))
            /\ requests' = [requests EXCEPT ![i].n = n, ![i].st = IF last THEN "done" ELSE "running"]
         \/ /\ writer[c] = "down"
            /\ requests' = [requests EXCEPT ![i].st = "done"]
            /\ UNCHANGED chan

(* A request-response operation yields exactly one message.                *)
Answer(i) == Op(i) \notin Streams /\
  \E kind \in ({r[2] : r \in {r \in Replies : r[1] = Op(i)}} \ {"none"}) \cup ErrorOf(Op(i)) :
    Reply(i, kind, 1, TRUE)

(* Fault: an error does not end the stream.                                *)
StreamNextAfterError(i) ==
  /\ Op(i) = "stream"
  /\ \/ requests[i].n < MaxEvents /\ Reply(i, "Stream", requests[i].n + 1, FALSE)
     \/ requests[i].n < MaxEvents /\ Reply(i, "500", requests[i].n + 1, FALSE)
     \/ Reply(i, "End", requests[i].n + 1, TRUE)

(* CrabTalk::stream: events, closed by End or by the first error.          *)
StreamNext(i) ==
  /\ Op(i) = "stream"
  /\ \/ requests[i].n < MaxEvents /\ Reply(i, "Stream", requests[i].n + 1, FALSE)
     \/ Reply(i, "500", requests[i].n + 1, TRUE)
     \/ Reply(i, "End", requests[i].n + 1, TRUE)

(* subscribe_events and subscribe_mcp_events: a receiver that lags misses  *)
(* events and goes on; when there is nothing to subscribe to, no message   *)
(* is ever sent.                                                           *)
SubscriptionNext(i) ==
  /\ Op(i) \in Subscriptions
  /\ \/ \E n \in requests[i].n + 1 .. MaxEvents :
          Reply(i, (CHOOSE r \in Replies : r[1] = Op(i))[2], n, FALSE)
     \/ /\ requests[i].st = "running" /\ requests[i].n = 0
        /\ requests' = [requests EXCEPT ![i].st = "done"] /\ UNCHANGED chan

Dispatch(i) ==
  /\ Answer(i) \/ StreamNext(i)
  /\ UNCHANGED <<daemon, phase, call, dropped, taken, c2s, s2c, reader, writer>>

Publish(i) ==
  /\ SubscriptionNext(i)
  /\ UNCHANGED <<daemon, phase, call, dropped, taken, c2s, s2c, reader, writer>>

(* Replies whose size is up to what they carry.                            *)
MayBeTooLarge(kind) == kind \notin Errors \cup {"Pong", "End"}

(* write_message: the frame goes out; or it is larger than MAX_FRAME_SIZE, *)
(* or the client is gone, and then the write task ends, which shuts the    *)
(* write half and closes the channel.  The reader goes on.                 *)
WriteReply(c) ==
  /\ writer[c] = "up" /\ chan[c] # <<>>
  /\ \/ /\ phase[c] # "closed" /\ Len(s2c[c]) < SocketCap
        /\ s2c' = Set(s2c, c, Append(s2c[c], Head(chan[c])))
        /\ chan' = Set(chan, c, Tail(chan[c]))
        /\ UNCHANGED writer
     \/ /\ phase[c] = "closed" \/ MayBeTooLarge(Head(chan[c]).kind)
        /\ writer' = Set(writer, c, "down") /\ chan' = Set(chan, c, <<>>)
        /\ UNCHANGED s2c
  /\ UNCHANGED <<daemon, requests, phase, call, dropped, taken, c2s, reader>>

(* SIGTERM: the accept loops stop; connections are served until the exit.  *)
Terminate ==
  /\ daemon = "up"
  /\ daemon' = "draining"
  /\ UNCHANGED <<requests, phase, call, dropped, taken, c2s, s2c, chan, reader, writer>>

(* The process ends, and with it every task and every socket.              *)
Exit ==
  /\ daemon = "draining"
  /\ daemon' = "exited"
  /\ reader' = [c \in Conns |-> "down"] /\ writer' = [c \in Conns |-> "down"]
  /\ chan' = [c \in Conns |-> <<>>] /\ c2s' = [c \in Conns |-> <<>>]
  /\ requests' = [i \in DOMAIN requests |-> [requests[i] EXCEPT !.st = "done"]]
  /\ UNCHANGED <<phase, call, dropped, taken, s2c>>

-----------------------------------------------------------------------------
Init ==
  /\ daemon = "up" /\ requests = <<>>
  /\ phase = [c \in Conns |-> "new"] /\ call = [c \in Conns |-> 0]
  /\ dropped = [c \in Conns |-> FALSE] /\ taken = [c \in Conns |-> Nothing]
  /\ c2s = [c \in Conns |-> <<>>] /\ s2c = [c \in Conns |-> <<>>]
  /\ chan = [c \in Conns |-> <<>>]
  /\ reader = [c \in Conns |-> "none"] /\ writer = [c \in Conns |-> "none"]

ClientReads(c) == TakeReply(c) \/ TakeEvent(c) \/ ReadClosed(c)

Client(c) ==
  \/ Open(c) \/ (\E op \in Ops : Request(c, op)) \/ ClientReads(c) \/ DropCall(c) \/ Close(c)

ServerTask(c) == Accept(c) \/ ReadRequest(c) \/ HangUp(c)

Next ==
  \/ \E c \in Conns : Client(c) \/ ServerTask(c) \/ WriteReply(c)
  \/ \E i \in 1..Len(requests) : Dispatch(i) \/ Publish(i)
  \/ Terminate \/ Exit

(* Ready tasks are polled, handlers end, a client that waits reads what    *)
(* there is, and a daemon that was told to stop exits.  Nobody has to      *)
(* publish an event.                                                       *)
Fairness ==
  /\ \A c \in Conns : WF_vars(ClientReads(c)) /\ WF_vars(ServerTask(c)) /\ WF_vars(WriteReply(c))
  /\ \A i \in 1..MaxRequests : WF_vars(i \in DOMAIN requests /\ Dispatch(i))
  /\ WF_vars(Exit)

Spec == Init /\ [][Next]_vars /\ Fairness

-----------------------------------------------------------------------------
Frame == [of : 1..MaxRequests, kind : Kinds \ {"none"}, n : 1..MaxEvents + 1]

RequestTypes ==
  /\ requests \in Seq([conn : Conns, op : AllOps, st : {"written", "running", "done"},
                       n : 0..MaxEvents + 1, seen : 0..MaxEvents + 1])
  /\ call \in [Conns -> 0..MaxRequests]

SocketTypes ==
  \A c \in Conns : /\ c2s[c] \in Seq(1..MaxRequests)
                   /\ s2c[c] \in Seq(Frame) /\ Len(s2c[c]) <= SocketCap
                   /\ chan[c] \in Seq(Frame) /\ Len(chan[c]) <= ReplyCap

TypeOK ==
  /\ daemon \in {"up", "draining", "exited"}
  /\ RequestTypes /\ SocketTypes
  /\ phase \in [Conns -> {"new", "idle", "waiting", "streaming", "closed"}]
  /\ dropped \in [Conns -> BOOLEAN]
  /\ reader \in [Conns -> {"none", "up", "down"}]
  /\ writer \in [Conns -> {"none", "up", "down"}]

(* Nothing on the wire tells the replies apart, yet as long as no call was *)
(* abandoned on its connection, what a client takes for the answer to its  *)
(* request is the answer to that request, and of a kind its method knows.  *)
ReplyIsMine == \A c \in Conns :
  ~dropped[c] => taken[c].of = taken[c].want /\ taken[c].outcome # "unexpected"

InOrder == \A c \in Conns : taken[c].fresh

(* A client reads a stream's events in the order they were made and leaves *)
(* none out, with what the channel and the socket hold kept within their   *)
(* bounds; a subscription may have gaps and no more.                       *)
WireInv == TypeOK /\ InOrder

(* Once the client is gone the daemon gives up the socket, subscriptions   *)
(* that will never see another event included, and the dispatches end.     *)
ClientGoneReleases == \A c \in Conns :
  phase[c] = "closed" ~>
    /\ reader[c] # "up" /\ writer[c] # "up"
    /\ \A i \in 1..Len(requests) : requests[i].conn = c =>
         requests[i].st = "done" \/ requests[i].op \in Subscriptions \/ reader[c] = "none"

(* A client that waits for an answer, or for the end of a stream, gets it, *)
(* or is told that the connection is closed: neither a full channel nor an *)
(* oversized reply, nor a dispatch that never ends, keeps it waiting.      *)
EveryCallReturns == \A c \in Conns :
  phase[c] = "waiting" \/ (phase[c] = "streaming" /\ Op(call[c]) = "stream")
    ~> phase[c] \in {"idle", "closed"}
=============================================================================
