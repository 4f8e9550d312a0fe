----------------------------- MODULE WireProofs -----------------------------
(***************************************************************************)
(* For every number of connections, requests and events and for all sizes  *)
(* of the channel and of the socket: replies come in order, and a client   *)
(* that abandons no call is given the answers to its own requests.         *)
(***************************************************************************)
EXTENDS Wire, TLAPS

(* What the daemon has written for a client and the client has not read.   *)
Pending(c) == s2c[c] \o chan[c]

(* The kinds of messages that an operation is answered with, and those     *)
(* that close the answer.                                                  *)
KindsFor(op) ==
  IF op = "stream" THEN {"Stream", "500", "End"}
  ELSE IF op = "subscribe_events" THEN {"AgentEvent"}
  ELSE IF op = "subscribe_mcp_events" THEN {"McpEvent"}
  ELSE ({r[2] : r \in {r \in Replies : r[1] = op}} \ {"none"}) \cup ErrorOf(op)

IsLast(op, kind) == op \notin Subscriptions /\ kind # "Stream"

Shape ==
  /\ TypeOK /\ Len(requests) <= MaxRequests
  /\ c2s \in [Conns -> Seq(1..MaxRequests)]
  /\ s2c \in [Conns -> Seq(Frame)] /\ chan \in [Conns -> Seq(Frame)]
  /\ taken = [c \in Conns |-> taken[c]]

Answering == \A i \in 1..Len(requests) :
  /\ requests[i].seen <= requests[i].n
  /\ requests[i].st = "written" => requests[i].n = 0
  /\ requests[i].st = "running" =>
       requests[i].n <= MaxEvents /\ (requests[i].op \notin Streams => requests[i].n = 0)

(* What is written is read once.                                           *)
Written(c) ==
  /\ \A p \in 1..Len(c2s[c]) :
       c2s[c][p] \in 1..Len(requests) /\ requests[c2s[c][p]].conn = c /\ requests[c2s[c][p]].st = "written"
  /\ \A p, q \in 1..Len(c2s[c]) : p < q => c2s[c][p] < c2s[c][q]

Channels(c) ==
  /\ writer[c] # "up" => chan[c] = <<>>
  /\ writer[c] = "none" => \A i \in 1..Len(requests) : requests[i].conn = c => requests[i].n = 0
  /\ reader[c] = "none" <=> writer[c] = "none"

Fits(c, m) ==
  /\ m.of \in 1..Len(requests) /\ requests[m.of].conn = c
  /\ requests[m.of].seen < m.n /\ m.n <= requests[m.of].n
  /\ m.kind \in KindsFor(requests[m.of].op)
  /\ IsLast(requests[m.of].op, m.kind) => requests[m.of].st = "done" /\ m.n = requests[m.of].n

InPlace(P, i, n) == \E p \in 1..Len(P) : P[p].of = i /\ P[p].n = n

Ordered(P) == \A p, q \in 1..Len(P) : p < q /\ P[p].of = P[q].of => P[p].n < P[q].n

(* All that a stream has made since what was last read.                    *)
NoGaps(c, P) ==
  /\ \A p \in 1..Len(P) : requests[P[p].of].op \notin Subscriptions =>
       \A n \in requests[P[p].of].seen + 1 .. P[p].n : InPlace(P, P[p].of, n)
  /\ writer[c] # "down" =>
       \A i \in 1..Len(requests) :
         requests[i].conn = c /\ requests[i].op \notin Subscriptions =>
           \A n \in requests[i].seen + 1 .. requests[i].n : InPlace(P, i, n)

Streamed(c) == phase[c] # "closed" =>
  /\ \A p \in 1..Len(Pending(c)) : Fits(c, Pending(c)[p])
  /\ Ordered(Pending(c)) /\ NoGaps(c, Pending(c))

(* One call at a time, and nothing on its way that is not for it.          *)
Calls(c) ==
  /\ phase[c] \in {"waiting", "streaming"} =>
       /\ call[c] \in 1..Len(requests) /\ requests[call[c]].conn = c
       /\ phase[c] = "streaming" <=> requests[call[c]].op \in Streams
  /\ phase[c] \notin {"waiting", "streaming"} => call[c] = 0
  /\ ~dropped[c] /\ phase[c] # "closed" =>
       /\ \A p \in 1..Len(Pending(c)) : Pending(c)[p].of = call[c]
       /\ \A i \in 1..Len(requests) : requests[i].conn = c /\ i # call[c] =>
            requests[i].st = "done" \/ writer[c] = "down"

Conn(c) == Written(c) /\ Channels(c) /\ Streamed(c) /\ Calls(c)

IInv == /\ Shape /\ Answering /\ InOrder /\ ReplyIsMine
        /\ \A c \in Conns : Conn(c)
-----------------------------------------------------------------------------
(* What the protocol answers with, and what the client makes of it.        *)

LEMMA RepliesAccepted ==
  \A r \in Replies : r[1] \notin Streams /\ r[2] # "none" => <<r[1], r[2]>> \in Accepted
<1> SUFFICES ASSUME NEW r \in Replies, r[1] \notin Streams, r[2] # "none"
             PROVE  <<r[1], r[2]>> \in Accepted
  OBVIOUS
<1>1. CASE r \in SessionReplies
  BY <1>1 DEF SessionReplies, Streams, Subscriptions, Accepted, AgentMethods, KillMethods, CancelMethods
<1>2. CASE r \in AgentReplies
  BY <1>2 DEF AgentReplies, Accepted, AgentMethods, AgentEdits, EventMethods, KillMethods
<1>3. CASE r \in CatalogReplies
  BY <1>3 DEF CatalogReplies, Accepted, ConversationMethods, McpMethods, EventMethods
<1> QED
  BY <1>1, <1>2, <1>3 DEF Replies

LEMMA StreamKinds ==
  \A r \in Replies : /\ r[1] = "subscribe_events" => r[2] = "AgentEvent"
                     /\ r[1] = "subscribe_mcp_events" => r[2] = "McpEvent"
                     /\ r[2] = "Stream" => r[1] = "stream"
BY DEF Replies, SessionReplies, AgentReplies, CatalogReplies

LEMMA OpNames == {"stream", "subscribe_events", "subscribe_mcp_events"} \subseteq AllOps
<1>1. /\ <<"stream", "Stream">> \in Replies /\ <<"subscribe_events", "AgentEvent">> \in Replies
      /\ <<"subscribe_mcp_events", "McpEvent">> \in Replies
  BY DEF Replies, SessionReplies
<1> QED
  BY <1>1 DEF AllOps

LEMMA EventKind ==
  \A op \in Subscriptions : (CHOOSE r \in Replies : r[1] = op)[2] \in KindsFor(op)
<1> SUFFICES ASSUME NEW op \in Subscriptions
             PROVE  (CHOOSE r \in Replies : r[1] = op)[2] \in KindsFor(op)
  OBVIOUS
<1>1. \E r \in Replies : r[1] = op
  BY OpNames DEF AllOps, Subscriptions
<1>2. (CHOOSE r \in Replies : r[1] = op) \in Replies /\ (CHOOSE r \in Replies : r[1] = op)[1] = op
  BY <1>1
<1> QED
  BY <1>2, StreamKinds DEF Subscriptions, KindsFor

LEMMA ErrorKinds == \A op : ErrorOf(op) \subseteq Errors
BY DEF ErrorOf, Errors

LEMMA KindsKnown ==
  ASSUME NEW op \in AllOps
  PROVE  /\ KindsFor(op) \subseteq Kinds \ {"none"}
         /\ op \notin Streams => "Stream" \notin KindsFor(op)
<1>1. {"Stream", "AgentEvent", "McpEvent"} \subseteq Kinds
  <2>1. /\ <<"stream", "Stream">> \in Replies /\ <<"subscribe_events", "AgentEvent">> \in Replies
        /\ <<"subscribe_mcp_events", "McpEvent">> \in Replies
    BY DEF Replies, SessionReplies
  <2> QED
    BY <2>1 DEF Kinds
<1>2. "500" \in Kinds /\ "End" \in Kinds /\ Errors \subseteq Kinds \ {"none", "Stream"}
  BY DEF Kinds, Errors
<1>3. {r[2] : r \in {r \in Replies : r[1] = op}} \subseteq Kinds
  BY DEF Kinds
<1>4. KindsFor(op) \subseteq Kinds \ {"none"}
  BY <1>1, <1>2, <1>3, ErrorKinds DEF KindsFor
<1>5. op \notin Streams => "Stream" \notin KindsFor(op)
  BY <1>2, ErrorKinds, StreamKinds DEF KindsFor, Streams, Subscriptions
<1> QED
  BY <1>4, <1>5

LEMMA NothingUnexpected ==
  ASSUME NEW op \in AllOps, NEW kind \in KindsFor(op)
  PROVE  /\ op \notin Streams => Outcome(op, kind) # "unexpected"
         /\ op \in Streams => StreamOutcome(op, kind) # "unexpected"
         /\ op \in Streams /\ StreamOutcome(op, kind) \in {"end", "error"} => IsLast(op, kind)
<1>1. ASSUME op \notin Streams PROVE Outcome(op, kind) # "unexpected"
  <2>1. kind \in Errors \/ \E r \in Replies : r[1] = op /\ r[2] = kind /\ kind # "none"
    BY <1>1, ErrorKinds DEF KindsFor, Streams, Subscriptions
  <2>2. kind \in Errors \/ <<op, kind>> \in Accepted
    BY <1>1, <2>1, RepliesAccepted
  <2> QED
    BY <2>2 DEF Outcome
<1>2. CASE op = "stream"
  <2>1. kind \in {"Stream", "500", "End"}
    BY <1>2 DEF KindsFor
  <2> QED
    BY <1>2, <2>1 DEF StreamOutcome, Streams, Subscriptions, Errors, IsLast
<1>3. CASE op \in Subscriptions
  <2>1. StreamOutcome(op, kind) = "ok"
    <3>1. CASE op = "subscribe_events"
      <4>1. kind = "AgentEvent"
        BY <3>1 DEF KindsFor
      <4> QED
        BY <3>1, <4>1 DEF StreamOutcome
    <3>2. CASE op = "subscribe_mcp_events"
      <4>1. kind = "McpEvent"
        BY <3>2 DEF KindsFor
      <4> QED
        BY <3>2, <4>1 DEF StreamOutcome
    <3> QED
      BY <1>3, <3>1, <3>2 DEF Subscriptions
  <2> QED
    BY <1>3, <2>1 DEF Streams
<1> QED
  BY <1>1, <1>2, <1>3 DEF Streams
-----------------------------------------------------------------------------
(* The channel and the socket as one queue.                                *)

LEMMA Queue ==
  ASSUME NEW F, NEW S \in Seq(F), NEW C \in Seq(F)
  PROVE  /\ S \o C \in Seq(F) /\ Len(S \o C) = Len(S) + Len(C) /\ Len(S) \in Nat /\ Len(C) \in Nat
         /\ \A p \in 1..Len(S) : (S \o C)[p] = S[p]
         /\ \A p \in 1..Len(C) : (S \o C)[Len(S) + p] = C[p]
OBVIOUS

LEMMA QueueEmpty ==
  ASSUME NEW F, NEW S \in Seq(F)
  PROVE  S \o <<>> = S
OBVIOUS

LEMMA HandOver ==
  ASSUME NEW F, NEW S \in Seq(F), NEW C \in Seq(F), C # <<>>
  PROVE  Append(S, Head(C)) \o Tail(C) = S \o C
OBVIOUS

LEMMA TakeFirst ==
  ASSUME NEW F, NEW S \in Seq(F), NEW C \in Seq(F), S # <<>>
  PROVE  /\ Len(S \o C) \in Nat /\ Len(S \o C) > 0 /\ (S \o C)[1] = Head(S)
         /\ Len(Tail(S) \o C) = Len(S \o C) - 1
         /\ \A p \in 1..Len(S \o C) - 1 : (Tail(S) \o C)[p] = (S \o C)[p + 1]
OBVIOUS

LEMMA PutLast ==
  ASSUME NEW F, NEW S \in Seq(F), NEW C \in Seq(F), NEW m
  PROVE  /\ Len(S \o Append(C, m)) = Len(S \o C) + 1 /\ Len(S \o C) \in Nat
         /\ \A p \in 1..Len(S \o C) : (S \o Append(C, m))[p] = (S \o C)[p]
         /\ (S \o Append(C, m))[Len(S \o C) + 1] = m
OBVIOUS
-----------------------------------------------------------------------------
Requested == [conn : Conns, op : AllOps, st : {"written", "running", "done"},
              n : 0..MaxEvents + 1, seen : 0..MaxEvents + 1]

LEMMA RequestAt ==
  ASSUME Shape, NEW i \in 1..Len(requests)
  PROVE  /\ requests \in Seq(Requested) /\ Len(requests) \in Nat /\ Len(requests) <= MaxRequests
         /\ DOMAIN requests = 1..Len(requests)
         /\ requests[i] \in Requested /\ requests[i].conn \in Conns /\ requests[i].op \in AllOps
         /\ requests[i].st \in {"written", "running", "done"}
         /\ requests[i].n \in Nat /\ requests[i].seen \in Nat
<1>1. requests \in Seq(Requested) /\ Len(requests) <= MaxRequests
  BY DEF Shape, TypeOK, RequestTypes, Requested
<1>2. Len(requests) \in Nat /\ DOMAIN requests = 1..Len(requests) /\ requests[i] \in Requested
  BY <1>1
<1>3. \A r \in Requested : /\ r.conn \in Conns /\ r.op \in AllOps
                           /\ r.st \in {"written", "running", "done"}
                           /\ r.n \in Nat /\ r.seen \in Nat
  BY BoundsAssumption DEF Requested
<1> QED
  BY <1>1, <1>2, <1>3

LEMMA QueueAt ==
  ASSUME Shape, NEW c \in Conns
  PROVE  /\ s2c[c] \in Seq(Frame) /\ chan[c] \in Seq(Frame) /\ c2s[c] \in Seq(1..MaxRequests)
         /\ Pending(c) \in Seq(Frame) /\ Len(Pending(c)) \in Nat
         /\ \A p \in 1..Len(Pending(c)) : Pending(c)[p].of \in Nat /\ Pending(c)[p].n \in Nat
<1>1. s2c[c] \in Seq(Frame) /\ chan[c] \in Seq(Frame) /\ c2s[c] \in Seq(1..MaxRequests)
  BY DEF Shape, TypeOK, SocketTypes
<1>2. Pending(c) \in Seq(Frame) /\ Len(Pending(c)) \in Nat
  BY <1>1, Queue DEF Pending
<1>3. \A p \in 1..Len(Pending(c)) : Pending(c)[p] \in Frame
  BY <1>2
<1>4. \A m \in Frame : m.of \in Nat /\ m.n \in Nat
  BY DEF Frame
<1> QED
  BY <1>1, <1>2, <1>3, <1>4

(* What a step does on one connection is nothing to the others.            *)
LEMMA ConnStays ==
  ASSUME NEW c, Conn(c),
         /\ c2s'[c] = c2s[c] /\ s2c'[c] = s2c[c] /\ chan'[c] = chan[c] /\ phase'[c] = phase[c]
         /\ call'[c] = call[c] /\ dropped'[c] = dropped[c] /\ reader'[c] = reader[c]
         /\ writer'[c] = writer[c],
         Len(requests) \in Nat, Len(requests') \in Nat, Len(requests') >= Len(requests),
         \A i \in 1..Len(requests) : requests'[i].conn = requests[i].conn
                                     /\ (requests[i].conn = c => requests'[i] = requests[i]),
         \A i \in 1..Len(requests') : i > Len(requests) => requests'[i].conn # c
  PROVE  Conn(c)'
<1>0. /\ 1..Len(requests) \subseteq 1..Len(requests')
      /\ \A i \in 1..Len(requests') : requests'[i].conn = c =>
           i \in 1..Len(requests) /\ requests[i].conn = c /\ requests'[i] = requests[i]
  OBVIOUS
<1>1. PICK P : P = Pending(c)
  OBVIOUS
<1>2. Pending(c)' = P
  BY <1>1 DEF Pending
<1>3. Written(c)'
  <2>1. PICK q : q = c2s[c]
    OBVIOUS
  <2>2. /\ \A p \in 1..Len(q) : q[p] \in 1..Len(requests) /\ requests[q[p]].conn = c
                                /\ requests[q[p]].st = "written"
        /\ \A p, r \in 1..Len(q) : p < r => q[p] < q[r]
    BY <2>1 DEF Conn, Written
  <2>3. \A p \in 1..Len(q) : q[p] \in 1..Len(requests') /\ requests'[q[p]].conn = c
                             /\ requests'[q[p]].st = "written"
    BY <1>0, <2>2
  <2> QED
    BY <2>1, <2>2, <2>3 DEF Written
<1>4. Channels(c)'
  BY <1>0 DEF Conn, Channels
<1>5. Streamed(c)'
  <2> SUFFICES ASSUME phase[c] # "closed"
               PROVE  /\ \A p \in 1..Len(P) : Fits(c, P[p])'
                      /\ Ordered(P) /\ NoGaps(c, P)'
    BY <1>2 DEF Streamed, Ordered
  <2>1. (\A p \in 1..Len(P) : Fits(c, P[p])) /\ Ordered(P) /\ NoGaps(c, P)
    BY <1>1 DEF Conn, Streamed
  <2>2. \A p \in 1..Len(P) : Fits(c, P[p])'
    BY <1>0, <2>1 DEF Fits
  <2>3. NoGaps(c, P)'
    BY <1>0, <2>1 DEF NoGaps, InPlace, Fits
  <2> QED
    BY <2>1, <2>2, <2>3
<1>6. Calls(c)'
  BY <1>0, <1>1, <1>2 DEF Conn, Calls
<1> QED
  BY <1>3, <1>4, <1>5, <1>6 DEF Conn

(* Requests that are read, or that end, leave what was streamed as it is.  *)
LEMMA StreamedStays ==
  ASSUME NEW c, Streamed(c), Pending(c)' = Pending(c),
         phase'[c] # "closed" => phase[c] # "closed",
         writer[c] = "down" => writer'[c] = "down",
         Len(requests') = Len(requests),
         \A i \in 1..Len(requests) :
           /\ requests'[i].conn = requests[i].conn /\ requests'[i].op = requests[i].op
           /\ requests'[i].n = requests[i].n /\ requests'[i].seen = requests[i].seen
           /\ requests[i].st = "done" => requests'[i].st = "done"
  PROVE  Streamed(c)'
<1> SUFFICES ASSUME phase'[c] # "closed" PROVE Streamed(c)'
  BY DEF Streamed
<1>1. PICK P : P = Pending(c)
  OBVIOUS
<1>2. (\A p \in 1..Len(P) : Fits(c, P[p])) /\ Ordered(P) /\ NoGaps(c, P)
  BY <1>1 DEF Streamed
<1>3. \A p \in 1..Len(P) : Fits(c, P[p])'
  BY <1>2 DEF Fits
<1>4. NoGaps(c, P)'
  BY <1>2 DEF NoGaps, InPlace, Fits
<1> QED
  BY <1>1, <1>2, <1>3, <1>4 DEF Streamed, Ordered

(* When the write task ends, the client is left with what the socket has.  *)
LEMMA StreamedCut ==
  ASSUME Shape, NEW c \in Conns, Streamed(c), s2c'[c] = s2c[c], chan'[c] = <<>>,
         phase'[c] = phase[c], writer'[c] = "down", Len(requests') = Len(requests),
         \A i \in 1..Len(requests) :
           /\ requests'[i].conn = requests[i].conn /\ requests'[i].op = requests[i].op
           /\ requests'[i].n = requests[i].n /\ requests'[i].seen = requests[i].seen
           /\ requests[i].st = "done" => requests'[i].st = "done"
  PROVE  Streamed(c)'
<1> SUFFICES ASSUME phase[c] # "closed" PROVE Streamed(c)'
  BY DEF Streamed
<1>1. PICK P, S : P = Pending(c) /\ S = s2c[c]
  OBVIOUS
<1>2. (\A p \in 1..Len(P) : Fits(c, P[p])) /\ Ordered(P) /\ NoGaps(c, P)
  BY <1>1 DEF Streamed
<1>3. Pending(c)' = S
  BY <1>1, QueueAt, QueueEmpty DEF Pending
<1>4. /\ Len(S) \in Nat /\ Len(P) \in Nat /\ Len(S) <= Len(P)
      /\ \A p \in 1..Len(S) : p \in 1..Len(P) /\ P[p] = S[p]
      /\ \A p \in 1..Len(P) : P[p].n \in Nat
  <2>1. S \in Seq(Frame) /\ chan[c] \in Seq(Frame) /\ P = S \o chan[c] /\ Len(P) \in Nat
        /\ \A p \in 1..Len(P) : P[p].n \in Nat
    BY <1>1, QueueAt DEF Pending
  <2> QED
    BY <2>1, Queue
<1>5. ASSUME NEW p \in 1..Len(S) PROVE Fits(c, S[p])'
  <2>1. Fits(c, S[p])
    BY <1>2, <1>4
  <2> QED
    BY <2>1 DEF Fits
<1>6. Ordered(S)
  BY <1>2, <1>4 DEF Ordered
<1>7. NoGaps(c, S)'
  <2> SUFFICES ASSUME NEW p \in 1..Len(S), requests'[S[p].of].op \notin Subscriptions,
                      NEW n \in requests'[S[p].of].seen + 1 .. S[p].n
               PROVE  InPlace(S, S[p].of, n)
    BY DEF NoGaps, InPlace
  <2>1. p \in 1..Len(P) /\ P[p] = S[p] /\ S[p].of \in 1..Len(requests)
    BY <1>2, <1>4 DEF Fits
  <2>2. PICK q \in 1..Len(P) : P[q].of = S[p].of /\ P[q].n = n
    <3>1. requests'[S[p].of].op = requests[S[p].of].op /\ requests'[S[p].of].seen = requests[S[p].of].seen
      BY <2>1
    <3>2. requests[P[p].of].op \notin Subscriptions /\ n \in requests[P[p].of].seen + 1 .. P[p].n
      BY <2>1, <3>1
    <3>3. InPlace(P, P[p].of, n)
      BY <1>2, <2>1, <3>2 DEF NoGaps
    <3> QED
      BY <2>1, <3>3 DEF InPlace
  <2>3. ~(p < q)
    <3>1. p < q /\ P[p].of = P[q].of => P[p].n < P[q].n
      BY <1>2, <2>1 DEF Ordered
    <3>2. P[p].n \in Nat /\ n <= P[p].n
      BY <1>4, <2>1
    <3> QED
      BY <2>1, <2>2, <3>1, <3>2
  <2>4. q \in 1..Len(S)
    BY <1>4, <2>3
  <2> QED
    BY <1>4, <2>2, <2>4 DEF InPlace
<1> QED
  BY <1>3, <1>5, <1>6, <1>7 DEF Streamed, Ordered

Elsewhere(c) == \A d \in Conns \ {c} :
  /\ c2s'[d] = c2s[d] /\ s2c'[d] = s2c[d] /\ chan'[d] = chan[d] /\ phase'[d] = phase[d]
  /\ call'[d] = call[d] /\ dropped'[d] = dropped[d] /\ reader'[d] = reader[d]
  /\ writer'[d] = writer[d]

LEMMA Others ==
  ASSUME IInv, NEW c \in Conns, Elsewhere(c), Conn(c)',
         Len(requests') \in Nat, Len(requests') >= Len(requests),
         \A i \in 1..Len(requests) : requests'[i].conn = requests[i].conn
                                     /\ (requests[i].conn # c => requests'[i] = requests[i]),
         \A i \in 1..Len(requests') : i > Len(requests) => requests'[i].conn = c
  PROVE  \A d \in Conns : Conn(d)'
<1> SUFFICES ASSUME NEW d \in Conns, d # c PROVE Conn(d)'
  OBVIOUS
<1>1. Len(requests) \in Nat
  BY DEF IInv, Shape, TypeOK, RequestTypes
<1> QED
  BY <1>1, ConnStays DEF IInv, Elsewhere

LEMMA GhostsStay ==
  ASSUME InOrder, ReplyIsMine, taken' = taken, \A c \in Conns : ~dropped'[c] => ~dropped[c]
  PROVE  InOrder' /\ ReplyIsMine'
BY DEF InOrder, ReplyIsMine

LEMMA Functions ==
  ASSUME Shape
  PROVE  /\ phase \in [Conns -> {"new", "idle", "waiting", "streaming", "closed"}]
         /\ call \in [Conns -> 0..MaxRequests]
         /\ reader \in [Conns -> {"none", "up", "down"}] /\ writer \in [Conns -> {"none", "up", "down"}]
         /\ c2s \in [Conns -> Seq(1..MaxRequests)]
         /\ s2c \in [Conns -> Seq(Frame)] /\ chan \in [Conns -> Seq(Frame)]
BY DEF Shape, TypeOK, RequestTypes

LEMMA SameRequests ==
  ASSUME IInv, requests' = requests, NEW c
  PROVE  /\ Len(requests') \in Nat /\ Len(requests') >= Len(requests) /\ Answering'
         /\ \A i \in 1..Len(requests) : requests'[i].conn = requests[i].conn
                                        /\ (requests[i].conn # c => requests'[i] = requests[i])
         /\ \A i \in 1..Len(requests') : i > Len(requests) => requests'[i].conn = c
<1>1. Len(requests) \in Nat
  BY DEF IInv, Shape, TypeOK, RequestTypes
<1> QED
  BY <1>1 DEF IInv, Answering

(* A client that stops to read, or has not begun.                          *)
LEMMA ClientMoves ==
  ASSUME IInv, NEW c \in Conns, Open(c) \/ ReadClosed(c) \/ DropCall(c) \/ Close(c)
  PROVE  IInv'
<1>1. /\ requests' = requests /\ c2s' = c2s /\ chan' = chan /\ reader' = reader /\ writer' = writer
      /\ daemon' = daemon /\ taken' = taken
  BY DEF Open, ReadClosed, DropCall, Close
<1>2. /\ phase'[c] \in {"idle", "closed"} /\ \A d \in Conns \ {c} : phase'[d] = phase[d]
      /\ phase' \in [Conns -> {"new", "idle", "waiting", "streaming", "closed"}]
      /\ phase'[c] # "closed" => s2c' = s2c /\ phase[c] # "closed"
      /\ phase'[c] = "closed" => s2c' = Set(s2c, c, <<>>)
  <2>1. phase \in [Conns -> {"new", "idle", "waiting", "streaming", "closed"}]
    BY Functions DEF IInv
  <2>2. CASE phase' = Set(phase, c, "idle") /\ s2c' = s2c /\ phase[c] # "closed"
    BY <2>1, <2>2 DEF Set
  <2>3. CASE phase' = Set(phase, c, "closed") /\ s2c' = Set(s2c, c, <<>>)
    BY <2>1, <2>3 DEF Set
  <2> QED
    BY <2>2, <2>3 DEF Open, ReadClosed, DropCall, Close
<1>3. /\ call'[c] = 0 /\ \A d \in Conns \ {c} : call'[d] = call[d]
      /\ call' \in [Conns -> 0..MaxRequests]
  <2>1. phase[c] = "new" => call[c] = 0
    BY DEF IInv, Conn, Calls
  <2>2. \/ call' = Set(call, c, 0)
        \/ call' = call /\ phase[c] = "new"
    BY DEF Open, ReadClosed, DropCall, Close
  <2>3. 0 \in 0..MaxRequests
    BY BoundsAssumption
  <2> QED
    BY <2>1, <2>2, <2>3, Functions DEF IInv, Set
<1>4. /\ dropped' \in [Conns -> BOOLEAN] /\ \A d \in Conns : ~dropped'[d] => ~dropped[d]
      /\ \A d \in Conns \ {c} : dropped'[d] = dropped[d]
  <2>1. dropped' = dropped \/ dropped' = Set(dropped, c, TRUE)
    BY DEF Open, ReadClosed, DropCall, Close
  <2>2. dropped \in [Conns -> BOOLEAN]
    BY DEF IInv, Shape, TypeOK
  <2> QED
    BY <2>1, <2>2 DEF Set
<1>5. /\ s2c' \in [Conns -> Seq(Frame)]
      /\ \A d \in Conns \ {c} : s2c'[d] = s2c[d]
      /\ \A d \in Conns : s2c'[d] \in Seq(Frame) /\ Len(s2c'[d]) <= SocketCap
  <2>1. s2c' = s2c \/ s2c' = Set(s2c, c, <<>>)
    BY DEF Open, ReadClosed, DropCall, Close
  <2>2. <<>> \in Seq(Frame) /\ Len(<<>>) <= SocketCap
    BY BoundsAssumption
  <2> QED
    BY <2>1, <2>2, Functions DEF IInv, Shape, TypeOK, SocketTypes, Set
<1>6. Shape'
  BY <1>1, <1>2, <1>3, <1>4, <1>5 DEF IInv, Shape, TypeOK, RequestTypes, SocketTypes
<1>7. Elsewhere(c)
  BY <1>1, <1>2, <1>3, <1>4, <1>5 DEF Elsewhere
<1>8. Written(c)' /\ Channels(c)'
  BY <1>1 DEF IInv, Conn, Written, Channels
<1>9. Streamed(c)'
  <2>1. CASE phase'[c] = "closed"
    BY <2>1 DEF Streamed
  <2>2. CASE phase'[c] # "closed"
    <3>1. Pending(c)' = Pending(c)
      BY <1>1, <1>2, <2>2 DEF Pending
    <3> QED
      BY <1>1, <1>2, <2>2, <3>1, StreamedStays DEF IInv, Conn
  <2> QED
    BY <2>1, <2>2
<1>10. Calls(c)'
  <2> SUFFICES ASSUME ~dropped'[c], phase'[c] # "closed"
               PROVE  /\ \A p \in 1..Len(Pending(c)') : Pending(c)'[p].of = 0
                      /\ \A i \in 1..Len(requests) : requests[i].conn = c /\ i # 0 =>
                           requests[i].st = "done" \/ writer[c] = "down"
    BY <1>1, <1>2, <1>3 DEF Calls
  <2>1. Pending(c)' = Pending(c)
    BY <1>1, <1>2 DEF Pending
  <2>2. CASE Open(c)
    <3>1. phase[c] = "new" /\ call[c] = 0
      BY <2>2 DEF Open, IInv, Conn, Calls
    <3> QED
      BY <1>2, <1>4, <2>1, <3>1 DEF IInv, Conn, Calls
  <2>3. CASE ReadClosed(c)
    <3>1. writer[c] = "down" /\ s2c[c] = <<>> /\ chan[c] = <<>>
      BY <2>3 DEF ReadClosed, IInv, Conn, Channels
    <3>2. Pending(c)' = <<>>
      BY <2>1, <3>1 DEF Pending
    <3> QED
      BY <3>1, <3>2
  <2>4. CASE DropCall(c)
    <3>1. dropped' = Set(dropped, c, TRUE) /\ dropped \in [Conns -> BOOLEAN]
      BY <2>4 DEF DropCall, IInv, Shape, TypeOK
    <3> QED
      BY <3>1 DEF Set
  <2>5. CASE Close(c)
    BY <2>5, Functions DEF Close, IInv, Set
  <2> QED
    BY <2>2, <2>3, <2>4, <2>5
<1>11. \A d \in Conns : Conn(d)'
  BY <1>1, <1>7, <1>8, <1>9, <1>10, Others, SameRequests DEF Conn
<1> QED
  BY <1>1, <1>4, <1>6, <1>11, GhostsStay, SameRequests DEF IInv

LEMMA RequestMoves ==
  ASSUME IInv, NEW c \in Conns, NEW op \in Ops, Request(c, op)
  PROVE  IInv'
<1> DEFINE r == [conn |-> c, op |-> op, st |-> "written", n |-> 0, seen |-> 0]
<1>1. PICK N : N = Len(requests)
  OBVIOUS
<1>2. /\ requests \in Seq(Requested) /\ N \in Nat /\ N < MaxRequests /\ N + 1 \in 1..MaxRequests
      /\ N + 1 \in 0..MaxRequests
  BY <1>1, BoundsAssumption DEF IInv, Shape, TypeOK, RequestTypes, Requested, Request
<1>3. r \in Requested
  BY OpsAssumption, BoundsAssumption DEF Requested
<1>4. /\ requests' = Append(requests, r) /\ requests' \in Seq(Requested) /\ Len(requests') = N + 1
      /\ requests'[N + 1] = r /\ \A i \in 1..N : requests'[i] = requests[i]
  <2>1. requests' = Append(requests, r)
    BY DEF Request
  <2> HIDE DEF r
  <2> QED
    BY <1>1, <1>2, <1>3, <2>1
<1>5. \A i \in 1..N + 1 : i \in 1..N \/ i = N + 1
  BY <1>2
<1>6. /\ r.conn = c /\ r.op = op /\ r.st = "written" /\ r.n = 0 /\ r.seen = 0
  OBVIOUS
<1> HIDE DEF r
<1>7. /\ daemon' = daemon /\ dropped' = dropped /\ taken' = taken /\ s2c' = s2c /\ chan' = chan
      /\ reader' = reader /\ writer' = writer
      /\ c2s' = Set(c2s, c, Append(c2s[c], N + 1)) /\ call' = Set(call, c, N + 1)
      /\ phase' = Set(phase, c, IF op \in Streams THEN "streaming" ELSE "waiting")
      /\ phase[c] = "idle"
  BY <1>4 DEF Request
<1>8. /\ phase' \in [Conns -> {"new", "idle", "waiting", "streaming", "closed"}]
      /\ phase'[c] = (IF op \in Streams THEN "streaming" ELSE "waiting")
      /\ \A d \in Conns \ {c} : phase'[d] = phase[d]
      /\ call' \in [Conns -> 0..MaxRequests] /\ call'[c] = N + 1
      /\ \A d \in Conns \ {c} : call'[d] = call[d]
  BY <1>2, <1>7, Functions DEF Set, IInv
<1>9. /\ c2s' \in [Conns -> Seq(1..MaxRequests)] /\ c2s'[c] = Append(c2s[c], N + 1)
      /\ \A d \in Conns \ {c} : c2s'[d] = c2s[d]
  BY <1>2, <1>7, Functions DEF Set, IInv
<1>10. Shape'
  <2>1. RequestTypes'
    BY <1>4, <1>8 DEF RequestTypes, Requested
  <2>2. SocketTypes'
    BY <1>7, <1>9 DEF IInv, Shape, TypeOK, SocketTypes
  <2> QED
    BY <1>2, <1>4, <1>7, <1>8, <1>9, <2>1, <2>2 DEF IInv, Shape, TypeOK
<1>11. Elsewhere(c)
  BY <1>7, <1>8, <1>9 DEF Elsewhere
<1>12. Written(c)'
  <2>1. PICK q : q = c2s[c]
    OBVIOUS
  <2>2. /\ q \in Seq(1..MaxRequests) /\ Len(q) \in Nat
        /\ \A p \in 1..Len(q) : q[p] \in 1..N /\ requests[q[p]].conn = c /\ requests[q[p]].st = "written"
        /\ \A p, s \in 1..Len(q) : p < s => q[p] < q[s]
    BY <1>1, <2>1, Functions DEF IInv, Conn, Written
  <2>3. PICK z : z = Append(q, N + 1)
    OBVIOUS
  <2>4. /\ Len(z) = Len(q) + 1 /\ z[Len(q) + 1] = N + 1 /\ \A p \in 1..Len(q) : z[p] = q[p]
    BY <2>2, <2>3
  <2>5. \A p \in 1..Len(z) : p \in 1..Len(q) \/ p = Len(q) + 1
    BY <2>2, <2>4
  <2>6. \A p \in 1..Len(z) : z[p] \in 1..N + 1 /\ requests'[z[p]].conn = c /\ requests'[z[p]].st = "written"
    BY <1>2, <1>4, <1>6, <2>2, <2>4, <2>5
  <2>7. \A p, s \in 1..Len(z) : p < s => z[p] < z[s]
    BY <1>2, <2>2, <2>4, <2>5
  <2> QED
    BY <1>4, <1>9, <2>1, <2>3, <2>6, <2>7 DEF Written
<1>13. Channels(c)'
  BY <1>1, <1>4, <1>5, <1>6, <1>7 DEF IInv, Conn, Channels
<1>14. PICK P : P = Pending(c)
  OBVIOUS
<1>15. Pending(c)' = P
  BY <1>7, <1>14 DEF Pending
<1>16. (\A p \in 1..Len(P) : Fits(c, P[p])) /\ Ordered(P) /\ NoGaps(c, P)
  BY <1>7, <1>14 DEF IInv, Conn, Streamed
<1>17. \A p \in 1..Len(P) : P[p].of \in 1..N
  BY <1>1, <1>16 DEF Fits
<1>18. Streamed(c)'
  <2>1. \A p \in 1..Len(P) : Fits(c, P[p])'
    BY <1>1, <1>2, <1>4, <1>16, <1>17 DEF Fits
  <2>2. NoGaps(c, P)'
    <3>1. ASSUME NEW p \in 1..Len(P), requests'[P[p].of].op \notin Subscriptions,
                 NEW n \in requests'[P[p].of].seen + 1 .. P[p].n
          PROVE  InPlace(P, P[p].of, n)
      BY <1>4, <1>16, <1>17, <3>1 DEF NoGaps
    <3>2. ASSUME writer'[c] # "down", NEW i \in 1..N + 1, requests'[i].conn = c,
                 requests'[i].op \notin Subscriptions,
                 NEW n \in requests'[i].seen + 1 .. requests'[i].n
          PROVE  InPlace(P, i, n)
      <4>1. i # N + 1
        BY <1>4, <1>6, <3>2
      <4> QED
        BY <1>1, <1>4, <1>5, <1>7, <1>16, <3>2, <4>1 DEF NoGaps
    <3>3. \A p \in 1..Len(P) : requests'[P[p].of].op \notin Subscriptions =>
            \A n \in requests'[P[p].of].seen + 1 .. P[p].n : InPlace(P, P[p].of, n)
      BY <3>1
    <3>4. writer'[c] # "down" =>
            \A i \in 1..Len(requests') :
              requests'[i].conn = c /\ requests'[i].op \notin Subscriptions =>
                \A n \in requests'[i].seen + 1 .. requests'[i].n : InPlace(P, i, n)
      BY <1>4, <3>2
    <3> QED
      BY <3>3, <3>4 DEF NoGaps, InPlace
  <2> QED
    BY <1>15, <1>16, <2>1, <2>2 DEF Streamed, Ordered
<1>19. Calls(c)'
  <2>1. call[c] = 0
    BY <1>7 DEF IInv, Conn, Calls
  <2>2. ASSUME ~dropped[c]
        PROVE  /\ Len(P) = 0
               /\ \A i \in 1..N : requests[i].conn = c => requests[i].st = "done" \/ writer[c] = "down"
    <3>1. \A p \in 1..Len(P) : P[p].of = 0
      BY <1>7, <1>14, <2>1, <2>2 DEF IInv, Conn, Calls
    <3>2. Len(P) \in Nat
      BY <1>14, QueueAt DEF IInv
    <3>3. Len(P) = 0
      BY <1>17, <3>1, <3>2
    <3> QED
      BY <1>1, <1>7, <2>1, <2>2, <3>3 DEF IInv, Conn, Calls
  <2>3. phase'[c] = "streaming" <=> requests'[call'[c]].op \in Streams
    BY <1>4, <1>6, <1>8
  <2>4. call'[c] \in 1..Len(requests') /\ requests'[call'[c]].conn = c
    BY <1>2, <1>4, <1>6, <1>8
  <2>5. phase'[c] \in {"waiting", "streaming"}
    BY <1>8
  <2>6. ASSUME ~dropped'[c]
        PROVE  /\ \A p \in 1..Len(Pending(c)') : Pending(c)'[p].of = call'[c]
               /\ \A i \in 1..Len(requests') : requests'[i].conn = c /\ i # call'[c] =>
                    requests'[i].st = "done" \/ writer'[c] = "down"
    BY <1>4, <1>5, <1>7, <1>8, <1>15, <2>2, <2>6
  <2> QED
    BY <2>3, <2>4, <2>5, <2>6 DEF Calls
<1>20. \A d \in Conns : Conn(d)'
  BY <1>1, <1>2, <1>4, <1>5, <1>6, <1>11, <1>12, <1>13, <1>18, <1>19, Others DEF Conn
<1>21. Answering'
  BY <1>1, <1>4, <1>5, <1>6 DEF IInv, Answering
<1> QED
  BY <1>7, <1>10, <1>20, <1>21, GhostsStay DEF IInv

LEMMA StatusSet ==
  ASSUME Shape, NEW i \in 1..Len(requests), NEW v \in {"written", "running", "done"},
         requests' = [requests EXCEPT ![i].st = v]
  PROVE  /\ requests' \in Seq(Requested) /\ Len(requests') = Len(requests) /\ Len(requests) \in Nat
         /\ \A j \in 1..Len(requests) :
              /\ requests'[j].conn = requests[j].conn /\ requests'[j].op = requests[j].op
              /\ requests'[j].n = requests[j].n /\ requests'[j].seen = requests[j].seen
              /\ requests'[j].st = IF j = i THEN v ELSE requests[j].st
              /\ j # i => requests'[j] = requests[j]
<1>1. requests \in Seq(Requested) /\ Len(requests) \in Nat /\ requests[i] \in Requested
      /\ DOMAIN requests = 1..Len(requests)
  BY RequestAt
<1>2. PICK r : r = [requests[i] EXCEPT !.st = v]
  OBVIOUS
<1>3. /\ r \in Requested /\ r.conn = requests[i].conn /\ r.op = requests[i].op /\ r.n = requests[i].n
      /\ r.seen = requests[i].seen /\ r.st = v
  BY <1>1, <1>2 DEF Requested
<1>4. requests' = [requests EXCEPT ![i] = r]
  BY <1>2
<1> QED
  BY <1>1, <1>3, <1>4

LEMMA ReadMoves ==
  ASSUME IInv, NEW c \in Conns, ReadRequest(c)
  PROVE  IInv'
<1>1. PICK q, i : q = c2s[c] /\ i = q[1]
  OBVIOUS
<1>2. /\ q \in Seq(1..MaxRequests) /\ Len(q) \in Nat /\ Len(q) > 0 /\ i = Head(q)
      /\ \A p \in 1..Len(q) : q[p] \in 1..Len(requests) /\ requests[q[p]].conn = c
                              /\ requests[q[p]].st = "written"
      /\ \A p, s \in 1..Len(q) : p < s => q[p] < q[s]
  <2>1. q \in Seq(1..MaxRequests) /\ q # <<>>
    BY <1>1, Functions DEF IInv, ReadRequest
  <2> QED
    BY <1>1, <2>1 DEF IInv, Conn, Written
<1>3. i \in 1..Len(requests) /\ requests[i].conn = c /\ requests[i].st = "written"
  BY <1>1, <1>2
<1>4. /\ requests' = [requests EXCEPT ![i].st = "running"] /\ c2s' = Set(c2s, c, Tail(q))
      /\ daemon' = daemon /\ phase' = phase /\ call' = call /\ dropped' = dropped /\ taken' = taken
      /\ s2c' = s2c /\ chan' = chan /\ reader' = reader /\ writer' = writer /\ reader[c] = "up"
  BY <1>1, <1>2 DEF ReadRequest
<1>5. /\ requests' \in Seq(Requested) /\ Len(requests') = Len(requests) /\ Len(requests) \in Nat
      /\ \A j \in 1..Len(requests) :
           /\ requests'[j].conn = requests[j].conn /\ requests'[j].op = requests[j].op
           /\ requests'[j].n = requests[j].n /\ requests'[j].seen = requests[j].seen
           /\ requests'[j].st = IF j = i THEN "running" ELSE requests[j].st
           /\ j # i => requests'[j] = requests[j]
  BY <1>3, <1>4, StatusSet DEF IInv
<1>6. /\ c2s' \in [Conns -> Seq(1..MaxRequests)] /\ c2s'[c] = Tail(q)
      /\ \A d \in Conns \ {c} : c2s'[d] = c2s[d]
  <2>1. Tail(q) \in Seq(1..MaxRequests)
    BY <1>2
  <2> QED
    BY <1>4, <2>1, Functions DEF IInv, Set
<1>7. Shape'
  <2>1. RequestTypes'
    BY <1>4, <1>5 DEF IInv, Shape, TypeOK, RequestTypes, Requested
  <2>2. SocketTypes'
    BY <1>4, <1>6 DEF IInv, Shape, TypeOK, SocketTypes
  <2> QED
    BY <1>4, <1>5, <1>6, <2>1, <2>2 DEF IInv, Shape, TypeOK
<1>8. Answering'
  <2>1. requests[i].n = 0 /\ 0 <= MaxEvents
    BY <1>3, BoundsAssumption DEF IInv, Answering
  <2> QED
    BY <1>5, <2>1 DEF IInv, Answering
<1>9. Written(c)'
  <2>1. PICK z : z = Tail(q)
    OBVIOUS
  <2>2. /\ Len(z) = Len(q) - 1 /\ \A p \in 1..Len(z) : z[p] = q[p + 1] /\ p + 1 \in 1..Len(q)
    BY <1>2, <2>1
  <2>3. ASSUME NEW p \in 1..Len(z)
        PROVE  /\ z[p] \in 1..Len(requests) /\ requests[z[p]].conn = c /\ requests[z[p]].st = "written"
               /\ i < z[p]
    <3>1. PICK u : u = p + 1
      OBVIOUS
    <3>2. u \in 1..Len(q) /\ 1 \in 1..Len(q) /\ 1 < u /\ z[p] = q[u]
      BY <1>2, <2>2, <3>1
    <3>3. q[1] < q[u]
      BY <1>2, <3>2
    <3> QED
      BY <1>1, <1>2, <3>2, <3>3
  <2>4. ASSUME NEW p \in 1..Len(z) PROVE requests'[z[p]].conn = c /\ requests'[z[p]].st = "written"
    <3>1. z[p] # i
      BY <1>3, <2>3
    <3> QED
      BY <1>5, <2>3, <3>1
  <2>5. ASSUME NEW p \in 1..Len(z), NEW s \in 1..Len(z), p < s PROVE z[p] < z[s]
    <3>1. PICK u, v : u = p + 1 /\ v = s + 1
      OBVIOUS
    <3>2. u \in 1..Len(q) /\ v \in 1..Len(q) /\ u < v /\ z[p] = q[u] /\ z[s] = q[v]
      BY <2>2, <2>5, <3>1
    <3> QED
      BY <1>2, <3>2
  <2> QED
    BY <1>5, <1>6, <2>1, <2>3, <2>4, <2>5 DEF Written
<1>10. Channels(c)'
  BY <1>4, <1>5 DEF IInv, Conn, Channels
<1>11. Streamed(c)'
  <2>1. Pending(c)' = Pending(c)
    BY <1>4 DEF Pending
  <2> QED
    BY <1>3, <1>4, <1>5, <2>1, StreamedStays DEF IInv, Conn
<1>12. Calls(c)'
  <2>1. Pending(c)' = Pending(c)
    BY <1>4 DEF Pending
  <2>2. \A j \in 1..Len(requests) : requests[j].st = "done" => requests'[j].st = "done"
    BY <1>3, <1>5
  <2> QED
    BY <1>4, <1>5, <2>1, <2>2 DEF IInv, Conn, Calls
<1>13. Elsewhere(c)
  BY <1>4, <1>6 DEF Elsewhere
<1>14. \A d \in Conns : Conn(d)'
  BY <1>3, <1>5, <1>9, <1>10, <1>11, <1>12, <1>13, Others DEF Conn
<1> QED
  BY <1>4, <1>7, <1>8, <1>14, GhostsStay DEF IInv

(* A dispatch that ends without another message.                           *)
LEMMA EndMoves ==
  ASSUME IInv, NEW i \in 1..Len(requests), requests[i].st = "running",
         requests' = [requests EXCEPT ![i].st = "done"],
         UNCHANGED <<daemon, phase, call, dropped, taken, c2s, s2c, chan, reader, writer>>
  PROVE  IInv'
<1>1. PICK c : c = requests[i].conn
  OBVIOUS
<1>2. c \in Conns
  BY <1>1, RequestAt DEF IInv
<1>3. /\ requests' \in Seq(Requested) /\ Len(requests') = Len(requests) /\ Len(requests) \in Nat
      /\ \A j \in 1..Len(requests) :
           /\ requests'[j].conn = requests[j].conn /\ requests'[j].op = requests[j].op
           /\ requests'[j].n = requests[j].n /\ requests'[j].seen = requests[j].seen
           /\ requests'[j].st = IF j = i THEN "done" ELSE requests[j].st
           /\ j # i => requests'[j] = requests[j]
  BY StatusSet DEF IInv
<1>4. Shape'
  <2>1. RequestTypes'
    BY <1>3 DEF IInv, Shape, TypeOK, RequestTypes, Requested
  <2> QED
    BY <1>3, <2>1 DEF IInv, Shape, TypeOK, SocketTypes
<1>5. Answering'
  BY <1>3 DEF IInv, Answering
<1>6. Written(c)' /\ Channels(c)'
  <2>1. \A p \in 1..Len(c2s[c]) : c2s[c][p] \in 1..Len(requests) /\ requests[c2s[c][p]].st = "written"
    BY <1>2 DEF IInv, Conn, Written
  <2>2. \A p \in 1..Len(c2s[c]) : requests'[c2s[c][p]] = requests[c2s[c][p]]
    BY <1>3, <2>1
  <2> QED
    BY <1>2, <1>3, <2>1, <2>2 DEF IInv, Conn, Written, Channels
<1>7. Pending(c)' = Pending(c)
  BY DEF Pending
<1>8. Streamed(c)'
  BY <1>2, <1>3, <1>7, StreamedStays DEF IInv, Conn
<1>9. Calls(c)'
  BY <1>2, <1>3, <1>7 DEF IInv, Conn, Calls
<1>10. Elsewhere(c)
  BY DEF Elsewhere
<1>11. \A d \in Conns : Conn(d)'
  BY <1>1, <1>2, <1>3, <1>6, <1>8, <1>9, <1>10, Others DEF Conn
<1> QED
  BY <1>4, <1>5, <1>11, GhostsStay DEF IInv

(* Tasks that come and go.                                                 *)
LEMMA AcceptMoves ==
  ASSUME IInv, NEW c \in Conns, Accept(c)
  PROVE  IInv'
<1>1. /\ requests' = requests /\ daemon' = daemon /\ phase' = phase /\ call' = call
      /\ dropped' = dropped /\ taken' = taken /\ c2s' = c2s /\ s2c' = s2c /\ chan' = chan
      /\ reader[c] = "none" /\ writer[c] = "none"
  BY DEF Accept, IInv, Conn, Channels
<1>2. /\ reader' \in [Conns -> {"none", "up", "down"}] /\ writer' \in [Conns -> {"none", "up", "down"}]
      /\ reader'[c] = "up" /\ writer'[c] = "up"
      /\ \A d \in Conns \ {c} : reader'[d] = reader[d] /\ writer'[d] = writer[d]
  BY Functions DEF IInv, Accept, Set
<1>3. Shape'
  BY <1>1, <1>2 DEF IInv, Shape, TypeOK, RequestTypes, SocketTypes
<1>4. Written(c)' /\ Channels(c)'
  BY <1>1, <1>2 DEF IInv, Conn, Written, Channels
<1>5. Pending(c)' = Pending(c)
  BY <1>1 DEF Pending
<1>6. Streamed(c)'
  BY <1>1, <1>5, StreamedStays DEF IInv, Conn
<1>7. Calls(c)'
  BY <1>1, <1>2, <1>5 DEF IInv, Conn, Calls
<1>8. Elsewhere(c)
  BY <1>1, <1>2 DEF Elsewhere
<1>9. \A d \in Conns : Conn(d)'
  BY <1>1, <1>4, <1>6, <1>7, <1>8, Others, SameRequests DEF Conn
<1> QED
  BY <1>1, <1>3, <1>9, GhostsStay, SameRequests DEF IInv

(* The write task ends: the reader goes on, or has met the client's end.   *)
LEMMA CutMoves ==
  ASSUME IInv, NEW c \in Conns, writer'= Set(writer, c, "down"), chan' = Set(chan, c, <<>>),
         reader[c] # "none", reader' = reader \/ reader' = Set(reader, c, "down"),
         UNCHANGED <<daemon, requests, phase, call, dropped, taken, c2s, s2c>>
  PROVE  IInv'
<1>1. /\ reader' \in [Conns -> {"none", "up", "down"}] /\ writer' \in [Conns -> {"none", "up", "down"}]
      /\ reader'[c] # "none" /\ writer'[c] = "down"
      /\ \A d \in Conns \ {c} : reader'[d] = reader[d] /\ writer'[d] = writer[d]
  BY Functions DEF IInv, Set
<1>2. /\ chan' \in [Conns -> Seq(Frame)] /\ chan'[c] = <<>> /\ Len(<<>>) <= ReplyCap
      /\ \A d \in Conns \ {c} : chan'[d] = chan[d]
  BY Functions, BoundsAssumption DEF IInv, Set
<1>3. Shape'
  <2>1. SocketTypes'
    BY <1>2 DEF IInv, Shape, TypeOK, SocketTypes
  <2> QED
    BY <1>1, <1>2, <2>1 DEF IInv, Shape, TypeOK, RequestTypes
<1>4. Written(c)' /\ Channels(c)'
  BY <1>1, <1>2 DEF IInv, Conn, Written, Channels
<1>5. Streamed(c)'
  BY <1>1, <1>2, StreamedCut DEF IInv, Conn
<1>6. Calls(c)'
  <2>1. PICK P, S : P = Pending(c) /\ S = s2c[c]
    OBVIOUS
  <2>2. Pending(c)' = S
    BY <1>2, <2>1, QueueAt, QueueEmpty DEF Pending, IInv
  <2>3. \A p \in 1..Len(S) : p \in 1..Len(P) /\ P[p] = S[p]
    <3>1. S \in Seq(Frame) /\ chan[c] \in Seq(Frame) /\ P = S \o chan[c]
      BY <2>1, QueueAt DEF Pending, IInv
    <3> QED
      BY <3>1, Queue
  <2> QED
    BY <1>1, <2>1, <2>2, <2>3 DEF IInv, Conn, Calls
<1>7. Elsewhere(c)
  BY <1>1, <1>2 DEF Elsewhere
<1>8. \A d \in Conns : Conn(d)'
  BY <1>4, <1>5, <1>6, <1>7, Others, SameRequests DEF Conn
<1> QED
  BY <1>3, <1>8, GhostsStay, SameRequests DEF IInv

LEMMA WriteMoves ==
  ASSUME IInv, NEW c \in Conns, WriteReply(c)
  PROVE  IInv'
<1>0. writer[c] = "up" /\ chan[c] # <<>> /\ reader[c] # "none"
  BY DEF WriteReply, IInv, Conn, Channels
<1>1. CASE s2c' = Set(s2c, c, Append(s2c[c], Head(chan[c]))) /\ chan' = Set(chan, c, Tail(chan[c]))
           /\ Len(s2c[c]) < SocketCap /\ writer' = writer
  <2>1. UNCHANGED <<daemon, requests, phase, call, dropped, taken, c2s, reader>>
    BY DEF WriteReply
  <2>2. PICK S, C : S = s2c[c] /\ C = chan[c]
    OBVIOUS
  <2>3. S \in Seq(Frame) /\ C \in Seq(Frame) /\ C # <<>> /\ Len(S) < SocketCap /\ Len(C) <= ReplyCap
    BY <1>0, <1>1, <2>2, QueueAt DEF IInv, Shape, TypeOK, SocketTypes
  <2>4. /\ Append(S, Head(C)) \in Seq(Frame) /\ Tail(C) \in Seq(Frame)
        /\ Len(Append(S, Head(C))) <= SocketCap /\ Len(Tail(C)) <= ReplyCap
    BY <2>3, BoundsAssumption
  <2>5. /\ s2c' \in [Conns -> Seq(Frame)] /\ chan' \in [Conns -> Seq(Frame)]
        /\ s2c'[c] = Append(S, Head(C)) /\ chan'[c] = Tail(C)
        /\ \A d \in Conns \ {c} : s2c'[d] = s2c[d] /\ chan'[d] = chan[d]
    BY <1>1, <2>2, <2>4, Functions DEF IInv, Set
  <2>6. Shape'
    <3>1. SocketTypes'
      BY <2>1, <2>4, <2>5 DEF IInv, Shape, TypeOK, SocketTypes
    <3> QED
      BY <1>1, <2>1, <2>5, <3>1 DEF IInv, Shape, TypeOK, RequestTypes
  <2>7. Pending(c)' = Pending(c)
    BY <2>2, <2>3, <2>5, HandOver DEF Pending
  <2>8. Written(c)' /\ Channels(c)' /\ Calls(c)'
    BY <1>0, <1>1, <2>1, <2>7 DEF IInv, Conn, Written, Channels, Calls
  <2>9. Streamed(c)'
    BY <1>1, <2>1, <2>7, StreamedStays DEF IInv, Conn
  <2>10. Elsewhere(c)
    BY <1>1, <2>1, <2>5 DEF Elsewhere
  <2>11. \A d \in Conns : Conn(d)'
    BY <2>1, <2>8, <2>9, <2>10, Others, SameRequests DEF Conn
  <2> QED
    BY <2>1, <2>6, <2>11, GhostsStay, SameRequests DEF IInv
<1>2. CASE writer' = Set(writer, c, "down") /\ chan' = Set(chan, c, <<>>) /\ s2c' = s2c
  <2>1. UNCHANGED <<daemon, requests, phase, call, dropped, taken, c2s, reader>>
    BY DEF WriteReply
  <2> QED
    BY <1>0, <1>2, <2>1, CutMoves
<1> QED
  BY <1>1, <1>2 DEF WriteReply

LEMMA Replace ==
  ASSUME NEW F, NEW s \in Seq(F), NEW i \in 1..Len(s), NEW b \in F, NEW t, t = [s EXCEPT ![i] = b]
  PROVE  /\ t \in Seq(F) /\ Len(t) = Len(s) /\ t[i] = b
         /\ \A j \in 1..Len(s) : j # i => t[j] = s[j]
OBVIOUS

(* A message goes into the channel.                                        *)
LEMMA SendMoves ==
  ASSUME IInv, NEW i \in 1..Len(requests), requests[i].st = "running",
         NEW c, c = requests[i].conn, writer[c] = "up", Len(chan[c]) < ReplyCap,
         NEW kind \in KindsFor(requests[i].op), NEW n \in requests[i].n + 1 .. MaxEvents + 1,
         requests[i].op \notin Subscriptions => n = requests[i].n + 1,
         NEW st \in {"running", "done"},
         IsLast(requests[i].op, kind) => st = "done",
         st = "running" => n <= MaxEvents /\ requests[i].op \in Streams,
         chan' = Set(chan, c, Append(chan[c], Message(i, kind, n))),
         requests' = [requests EXCEPT ![i].n = n, ![i].st = st],
         UNCHANGED <<daemon, phase, call, dropped, taken, c2s, s2c, reader, writer>>
  PROVE  IInv'
<1>0. /\ requests \in Seq(Requested) /\ Len(requests) \in Nat /\ requests[i] \in Requested
      /\ DOMAIN requests = 1..Len(requests) /\ requests[i].n \in Nat /\ requests[i].seen \in Nat
      /\ c \in Conns /\ n \in Nat /\ n > requests[i].n /\ requests[i].op \in AllOps
      /\ Len(requests) <= MaxRequests /\ n \in 1..MaxEvents + 1 /\ n \in 0..MaxEvents + 1
      /\ MaxEvents \in Nat
  BY RequestAt, BoundsAssumption DEF IInv
<1>1. PICK a, b, m : a = [requests[i] EXCEPT !.n = n] /\ b = [a EXCEPT !.st = st] /\ m = Message(i, kind, n)
  OBVIOUS
<1>2. /\ b \in Requested /\ b.conn = c /\ b.op = requests[i].op /\ b.n = n
      /\ b.seen = requests[i].seen /\ b.st = st
  <2>1. /\ a \in Requested /\ a.conn = c /\ a.op = requests[i].op /\ a.n = n
        /\ a.seen = requests[i].seen
    BY <1>0, <1>1 DEF Requested
  <2> QED
    BY <1>1, <2>1 DEF Requested
<1>3. requests' = [requests EXCEPT ![i] = b]
  BY <1>0, <1>1
<1>4. /\ requests' \in Seq(Requested) /\ Len(requests') = Len(requests) /\ requests'[i] = b
      /\ \A j \in 1..Len(requests) : j # i => requests'[j] = requests[j]
  <2>1. PICK s, t : s = requests /\ t = requests'
    OBVIOUS
  <2>2. s \in Seq(Requested) /\ i \in 1..Len(s) /\ t = [s EXCEPT ![i] = b]
    BY <1>0, <1>3, <2>1
  <2>3. t \in Seq(Requested) /\ Len(t) = Len(s) /\ t[i] = b /\ \A j \in 1..Len(s) : j # i => t[j] = s[j]
    BY <1>2, <2>2, Replace
  <2> QED
    BY <2>1, <2>3
<1>5. \A j \in 1..Len(requests) : /\ requests'[j].conn = requests[j].conn
                                  /\ requests'[j].op = requests[j].op
                                  /\ requests'[j].seen = requests[j].seen
                                  /\ requests[j].n \in Nat /\ requests'[j].n \in Nat
                                  /\ requests[j].n <= requests'[j].n
  BY <1>0, <1>2, <1>4, RequestAt DEF IInv
<1>6. m \in Frame /\ m.of = i /\ m.kind = kind /\ m.n = n
  <2>1. kind \in Kinds \ {"none"}
    <3>1. PICK op \in AllOps : op = requests[i].op
      BY <1>0
    <3>2. KindsFor(op) \subseteq Kinds \ {"none"}
      BY KindsKnown
    <3> QED
      BY <3>1, <3>2
  <2>2. i \in 1..MaxRequests
    BY <1>0, BoundsAssumption
  <2> QED
    BY <1>0, <1>1, <2>1, <2>2 DEF Frame, Message
<1>7. PICK S, C : S = s2c[c] /\ C = chan[c]
  OBVIOUS
<1>8. S \in Seq(Frame) /\ C \in Seq(Frame) /\ Len(C) < ReplyCap
  BY <1>0, <1>7, QueueAt DEF IInv
<1>9. /\ chan' \in [Conns -> Seq(Frame)] /\ chan'[c] = Append(C, m) /\ Len(chan'[c]) <= ReplyCap
      /\ \A d \in Conns \ {c} : chan'[d] = chan[d]
  <2>1. Append(C, m) \in Seq(Frame) /\ Len(Append(C, m)) <= ReplyCap
    BY <1>6, <1>8, BoundsAssumption
  <2> QED
    BY <1>0, <1>1, <1>7, <2>1, Functions DEF IInv, Set
<1>10. Shape'
  <2>1. RequestTypes'
    BY <1>4 DEF IInv, Shape, TypeOK, RequestTypes, Requested
  <2>2. SocketTypes'
    BY <1>9 DEF IInv, Shape, TypeOK, SocketTypes
  <2> QED
    BY <1>4, <1>9, <2>1, <2>2 DEF IInv, Shape, TypeOK
<1>11. Answering'
  BY <1>0, <1>2, <1>4 DEF IInv, Answering
<1>12. Elsewhere(c)
  BY <1>9 DEF Elsewhere
<1>13. Written(c)' /\ Channels(c)'
  <2>1. \A p \in 1..Len(c2s[c]) : c2s[c][p] \in 1..Len(requests) /\ requests[c2s[c][p]].st = "written"
    BY <1>0 DEF IInv, Conn, Written
  <2>2. \A p \in 1..Len(c2s[c]) : requests'[c2s[c][p]] = requests[c2s[c][p]]
    BY <1>4, <2>1
  <2> QED
    <3>1. Written(c) /\ Channels(c)
      BY <1>0 DEF IInv, Conn
    <3>2. Written(c)'
      BY <1>0, <1>4, <2>1, <2>2, <3>1 DEF Written
    <3>3. Channels(c)'
      BY <1>0, <1>4, <3>1 DEF Channels
    <3> QED
      BY <3>2, <3>3
<1>14. PICK P, Q, N : P = S \o C /\ Q = S \o Append(C, m) /\ N = Len(P)
  OBVIOUS
<1>15. /\ Pending(c) = P /\ Pending(c)' = Q
  BY <1>7, <1>9, <1>14 DEF Pending
<1>16. /\ N \in Nat /\ Len(Q) = N + 1 /\ Q[N + 1] = m /\ \A p \in 1..N : Q[p] = P[p]
       /\ \A p \in 1..N : P[p].n \in Nat
  <2>1. \A p \in 1..N : P[p].n \in Nat
    BY <1>0, <1>14, <1>15, QueueAt DEF IInv
  <2> QED
    BY <1>8, <1>14, <2>1, PutLast
<1>17. \A p \in 1..N + 1 : p \in 1..N \/ p = N + 1
  BY <1>16
<1>18. Streamed(c)'
  <2> SUFFICES ASSUME phase[c] # "closed"
               PROVE  (\A p \in 1..N + 1 : Fits(c, Q[p])') /\ Ordered(Q) /\ NoGaps(c, Q)'
    BY <1>15, <1>16 DEF Streamed, Ordered
  <2>1. (\A p \in 1..N : Fits(c, P[p])) /\ Ordered(P) /\ NoGaps(c, P)
    BY <1>0, <1>14, <1>15 DEF IInv, Conn, Streamed
  <2>2. ASSUME NEW p \in 1..N PROVE Fits(c, Q[p])'
    <3>1. Fits(c, P[p]) /\ Q[p] = P[p]
      BY <1>16, <2>1
    <3>2. CASE P[p].of = i
      <4>1. ~IsLast(requests[i].op, P[p].kind)
        BY <3>1, <3>2 DEF Fits
      <4> QED
        BY <1>0, <1>2, <1>4, <1>16, <3>1, <3>2, <4>1 DEF Fits
    <3>3. CASE P[p].of # i
      BY <1>4, <3>1, <3>3 DEF Fits
    <3> QED
      BY <3>2, <3>3
  <2>3. Fits(c, m)'
    <3>1. requests[i].seen <= requests[i].n
      BY DEF IInv, Answering
    <3> QED
      BY <1>0, <1>2, <1>4, <1>6, <3>1 DEF Fits
  <2>4. Ordered(Q)
    <3> SUFFICES ASSUME NEW p \in 1..N + 1, NEW q \in 1..N + 1, p < q, Q[p].of = Q[q].of
                 PROVE  Q[p].n < Q[q].n
      BY <1>16 DEF Ordered
    <3>1. p \in 1..N
      BY <1>16
    <3>2. CASE q \in 1..N
      BY <1>14, <1>16, <2>1, <3>1, <3>2 DEF Ordered
    <3>3. CASE q = N + 1
      <4>1. P[p].of = i /\ P[p].n <= requests[i].n
        BY <1>6, <1>16, <2>1, <3>1, <3>3 DEF Fits
      <4> QED
        BY <1>0, <1>6, <1>16, <3>1, <3>3, <4>1
    <3> QED
      BY <1>17, <3>2, <3>3
  <2>5. ASSUME NEW j, NEW v, InPlace(P, j, v) PROVE InPlace(Q, j, v)
    <3>1. PICK p \in 1..N : P[p].of = j /\ P[p].n = v
      BY <1>14, <2>5 DEF InPlace
    <3>2. p \in 1..Len(Q) /\ Q[p] = P[p]
      BY <1>16
    <3> QED
      BY <3>1, <3>2 DEF InPlace
  <2>6. InPlace(Q, i, n)
    BY <1>6, <1>16 DEF InPlace
  <2>7. ASSUME NEW j \in 1..Len(requests), requests'[j].conn = c, requests'[j].op \notin Subscriptions,
               NEW v \in requests'[j].seen + 1 .. requests'[j].n
        PROVE  InPlace(Q, j, v)
    <3>1. CASE v \in requests[j].seen + 1 .. requests[j].n
      BY <1>5, <2>1, <2>5, <2>7, <3>1 DEF NoGaps
    <3>2. CASE v \notin requests[j].seen + 1 .. requests[j].n
      <4>1. j = i
        BY <1>4, <2>7, <3>2
      <4>2. v = n
        BY <1>0, <1>2, <1>4, <1>5, <2>7, <3>2, <4>1
      <4> QED
        BY <2>6, <4>1, <4>2
    <3> QED
      BY <3>1, <3>2
  <2>8. ASSUME NEW p \in 1..N + 1, requests'[Q[p].of].op \notin Subscriptions,
               NEW v \in requests'[Q[p].of].seen + 1 .. Q[p].n
        PROVE  InPlace(Q, Q[p].of, v)
    <3>1. CASE p \in 1..N
      <4>1. Q[p] = P[p] /\ P[p].of \in 1..Len(requests)
        BY <1>16, <2>1, <3>1 DEF Fits
      <4>2. requests[P[p].of].op \notin Subscriptions /\ v \in requests[P[p].of].seen + 1 .. P[p].n
        BY <1>5, <2>8, <4>1
      <4>3. InPlace(P, P[p].of, v)
        BY <1>14, <2>1, <3>1, <4>2 DEF NoGaps
      <4> QED
        BY <2>5, <4>1, <4>3
    <3>2. CASE p = N + 1
      <4>1. Q[p].of = i /\ Q[p].n = requests'[i].n /\ requests'[i].conn = c
        BY <1>2, <1>4, <1>6, <1>16, <3>2
      <4> QED
        BY <2>7, <2>8, <4>1
    <3> QED
      BY <1>17, <3>1, <3>2
  <2>9. NoGaps(c, Q)'
    <3>1. \A p \in 1..Len(Q) : requests'[Q[p].of].op \notin Subscriptions =>
            \A v \in requests'[Q[p].of].seen + 1 .. Q[p].n : InPlace(Q, Q[p].of, v)
      BY <1>16, <2>8
    <3>2. \A j \in 1..Len(requests') :
            requests'[j].conn = c /\ requests'[j].op \notin Subscriptions =>
              \A v \in requests'[j].seen + 1 .. requests'[j].n : InPlace(Q, j, v)
      BY <1>4, <2>7
    <3> QED
      BY <3>1, <3>2 DEF NoGaps, InPlace
  <2> QED
    BY <1>16, <1>17, <2>2, <2>3, <2>4, <2>9
<1>19. Calls(c)'
  <2>1. /\ phase[c] \in {"waiting", "streaming"} =>
             /\ call[c] \in 1..Len(requests') /\ requests'[call[c]].conn = c
             /\ phase[c] = "streaming" <=> requests'[call[c]].op \in Streams
        /\ phase[c] \notin {"waiting", "streaming"} => call[c] = 0
    BY <1>0, <1>4, <1>5 DEF IInv, Conn, Calls
  <2>2. ASSUME ~dropped[c], phase[c] # "closed"
        PROVE  /\ \A p \in 1..Len(Q) : Q[p].of = call[c]
               /\ \A j \in 1..Len(requests') : requests'[j].conn = c /\ j # call[c] =>
                    requests'[j].st = "done" \/ writer[c] = "down"
    <3>1. /\ \A p \in 1..N : P[p].of = call[c]
          /\ \A j \in 1..Len(requests) : requests[j].conn = c /\ j # call[c] =>
                    requests[j].st = "done" \/ writer[c] = "down"
      <4>1. Calls(c)
        BY <1>0 DEF IInv, Conn
      <4>2. \A p \in 1..Len(Pending(c)) : Pending(c)[p].of = call[c]
        BY <2>2, <4>1 DEF Calls
      <4>3. \A j \in 1..Len(requests) : requests[j].conn = c /\ j # call[c] =>
              requests[j].st = "done" \/ writer[c] = "down"
        BY <2>2, <4>1 DEF Calls
      <4> QED
        BY <1>14, <1>15, <4>2, <4>3
    <3>2. i = call[c]
      BY <3>1
    <3>3. \A p \in 1..N + 1 : Q[p].of = call[c]
      BY <1>6, <1>16, <1>17, <3>1, <3>2
    <3>4. \A j \in 1..Len(requests') : requests'[j].conn = c /\ j # call[c] =>
            requests'[j].st = "done" \/ writer[c] = "down"
      BY <1>4, <1>5, <3>1, <3>2
    <3> QED
      BY <1>16, <3>3, <3>4
  <2> QED
    BY <1>15, <2>1, <2>2 DEF Calls
<1>20. \A d \in Conns : Conn(d)'
  BY <1>0, <1>4, <1>5, <1>12, <1>13, <1>18, <1>19, Others DEF Conn
<1> QED
  BY <1>10, <1>11, <1>20, GhostsStay DEF IInv

(* The first message in the queue is the next one of its request.          *)
LEMMA FirstIsNext ==
  ASSUME NEW c, NEW P, NEW N \in Nat, N = Len(P), N > 0, Fits(c, P[1]), Ordered(P), NoGaps(c, P),
         \A p \in 1..N : P[p].n \in Nat, requests[P[1].of].seen \in Nat
  PROVE  IF requests[P[1].of].op \in Subscriptions THEN P[1].n > requests[P[1].of].seen
         ELSE P[1].n = requests[P[1].of].seen + 1
<1>1. PICK s, n, i : s = requests[P[1].of].seen /\ n = P[1].n /\ i = P[1].of
  OBVIOUS
<1>2. s \in Nat /\ n \in Nat /\ s < n /\ 1 \in 1..N
  BY <1>1 DEF Fits
<1>3. ASSUME requests[i].op \notin Subscriptions PROVE n = s + 1
  <2>1. s + 1 \in s + 1 .. n
    BY <1>2
  <2>2. InPlace(P, i, s + 1)
    BY <1>1, <1>2, <1>3, <2>1 DEF NoGaps
  <2>3. PICK q \in 1..N : P[q].of = i /\ P[q].n = s + 1
    BY <2>2 DEF InPlace
  <2>4. 1 < q => n < s + 1
    BY <1>1, <1>2, <2>3 DEF Ordered
  <2> QED
    BY <1>1, <1>2, <2>3, <2>4
<1> QED
  BY <1>1, <1>2, <1>3

(* The client reads a message.                                             *)
LEMMA TakeMoves ==
  ASSUME IInv, NEW c \in Conns, NEW o, phase[c] \in {"waiting", "streaming"}, s2c[c] # <<>>, Take(c, o),
         ~dropped[c] => o # "unexpected",
         \/ phase' = phase /\ call' = call
         \/ /\ phase' = Set(phase, c, "idle") /\ call' = Set(call, c, 0)
            /\ IsLast(requests[Head(s2c[c]).of].op, Head(s2c[c]).kind) \/ dropped[c],
         UNCHANGED <<daemon, dropped, c2s, chan, reader, writer>>
  PROVE  IInv'
<1>1. PICK S, C, P, N, m, i : /\ S = s2c[c] /\ C = chan[c] /\ P = Pending(c) /\ N = Len(P)
                              /\ m = Head(S) /\ i = m.of
  OBVIOUS
<1>2. /\ S \in Seq(Frame) /\ C \in Seq(Frame) /\ S # <<>> /\ N \in Nat
      /\ \A p \in 1..N : P[p].of \in Nat /\ P[p].n \in Nat
  BY <1>1, QueueAt DEF IInv
<1>3. PICK Q : Q = Tail(S) \o C
  OBVIOUS
<1>4. P = S \o C /\ N > 0 /\ P[1] = m /\ Len(Q) = N - 1 /\ \A p \in 1..N - 1 : Q[p] = P[p + 1]
  <2>1. P = S \o C /\ N = Len(S \o C)
    BY <1>1 DEF Pending
  <2>2. /\ Len(S \o C) > 0 /\ (S \o C)[1] = Head(S) /\ Len(Q) = Len(S \o C) - 1
        /\ \A p \in 1..Len(S \o C) - 1 : Q[p] = (S \o C)[p + 1]
    BY <1>2, <1>3, TakeFirst
  <2> QED
    BY <1>1, <2>1, <2>2
<1>5. (\A p \in 1..N : Fits(c, P[p])) /\ Ordered(P) /\ NoGaps(c, P)
  BY <1>1 DEF IInv, Conn, Streamed
<1>6. 1 \in 1..N /\ Fits(c, m) /\ m.n \in Nat /\ m.n = P[1].n /\ i = P[1].of
  <2>1. 1 \in 1..N
    BY <1>2, <1>4
  <2>2. Fits(c, P[1]) /\ P[1].n \in Nat
    BY <1>2, <1>5, <2>1
  <2> QED
    BY <1>1, <1>4, <2>1, <2>2
<1>7. /\ i \in 1..Len(requests) /\ requests[i].conn = c /\ requests[i].seen < m.n /\ m.n <= requests[i].n
      /\ m.kind \in KindsFor(requests[i].op)
      /\ IsLast(requests[i].op, m.kind) => requests[i].st = "done" /\ m.n = requests[i].n
  BY <1>1, <1>6 DEF Fits
<1>8. /\ requests \in Seq(Requested) /\ Len(requests) \in Nat /\ requests[i] \in Requested
      /\ DOMAIN requests = 1..Len(requests) /\ requests[i].n \in Nat /\ requests[i].seen \in Nat
      /\ requests[i].n \in 0..MaxEvents + 1 /\ m.n \in 0..MaxEvents + 1
  <2>1. requests[i] \in Requested /\ requests[i].n \in Nat
    BY <1>7, RequestAt DEF IInv
  <2>2. requests[i].n \in 0..MaxEvents + 1
    BY <2>1 DEF Requested
  <2>3. m.n \in 0..MaxEvents + 1
    BY <1>6, <1>7, <2>2, BoundsAssumption
  <2> QED
    BY <1>7, <2>2, <2>3, RequestAt DEF IInv
<1>9. PICK b : b = [requests[i] EXCEPT !.seen = m.n]
  OBVIOUS
<1>10. /\ b \in Requested /\ b.conn = c /\ b.op = requests[i].op /\ b.n = requests[i].n
       /\ b.seen = m.n /\ b.st = requests[i].st
  BY <1>7, <1>8, <1>9 DEF Requested
<1>11. requests' = [requests EXCEPT ![i] = b]
  BY <1>1, <1>9 DEF Take
<1>12. /\ requests' \in Seq(Requested) /\ Len(requests') = Len(requests) /\ requests'[i] = b
       /\ \A j \in 1..Len(requests) : j # i => requests'[j] = requests[j]
  <2>1. PICK s, t : s = requests /\ t = requests'
    OBVIOUS
  <2>2. s \in Seq(Requested) /\ i \in 1..Len(s) /\ t = [s EXCEPT ![i] = b]
    BY <1>7, <1>8, <1>11, <2>1
  <2>3. t \in Seq(Requested) /\ Len(t) = Len(s) /\ t[i] = b /\ \A j \in 1..Len(s) : j # i => t[j] = s[j]
    BY <1>10, <2>2, Replace
  <2> QED
    BY <2>1, <2>3
<1>13. \A j \in 1..Len(requests) : /\ requests'[j].conn = requests[j].conn
                                   /\ requests'[j].op = requests[j].op
                                   /\ requests'[j].n = requests[j].n
                                   /\ requests'[j].st = requests[j].st
                                   /\ requests[j].n \in Nat /\ requests[j].seen \in Nat
                                   /\ requests'[j].seen \in Nat
                                   /\ requests[j].seen <= requests'[j].seen
  BY <1>6, <1>7, <1>8, <1>10, <1>12, RequestAt DEF IInv
<1>14. /\ s2c' \in [Conns -> Seq(Frame)] /\ s2c'[c] = Tail(S) /\ Len(s2c'[c]) <= SocketCap
       /\ \A d \in Conns \ {c} : s2c'[d] = s2c[d]
  <2>1. s2c' = Set(s2c, c, Tail(S))
    BY <1>1 DEF Take
  <2>2. Len(S) <= SocketCap
    BY <1>1 DEF IInv, Shape, TypeOK, SocketTypes
  <2>3. Tail(S) \in Seq(Frame) /\ Len(Tail(S)) <= SocketCap
    BY <1>2, <2>2, BoundsAssumption
  <2> QED
    BY <2>1, <2>3, Functions DEF IInv, Set
<1>15. /\ phase' \in [Conns -> {"new", "idle", "waiting", "streaming", "closed"}]
       /\ call' \in [Conns -> 0..MaxRequests]
       /\ \A d \in Conns \ {c} : phase'[d] = phase[d] /\ call'[d] = call[d]
  <2>1. 0 \in 0..MaxRequests
    BY BoundsAssumption
  <2>2. \/ phase' = phase /\ call' = call
        \/ phase' = Set(phase, c, "idle") /\ call' = Set(call, c, 0)
    OBVIOUS
  <2>3. /\ phase \in [Conns -> {"new", "idle", "waiting", "streaming", "closed"}]
        /\ call \in [Conns -> 0..MaxRequests]
    BY Functions DEF IInv
  <2>4. CASE phase' = phase /\ call' = call
    BY <2>3, <2>4
  <2>5. CASE phase' = Set(phase, c, "idle") /\ call' = Set(call, c, 0)
    BY <2>1, <2>3, <2>5 DEF Set
  <2> QED
    BY <2>2, <2>4, <2>5
<1>16. Shape'
  <2>1. RequestTypes'
    BY <1>12, <1>15 DEF RequestTypes, Requested
  <2>2. SocketTypes'
    BY <1>14 DEF IInv, Shape, TypeOK, SocketTypes
  <2>3. taken' = [d \in Conns |-> taken'[d]]
    BY DEF IInv, Shape, Take, Set
  <2> QED
    BY <1>12, <1>14, <1>15, <2>1, <2>2, <2>3 DEF IInv, Shape, TypeOK
<1>17. Answering'
  <2> SUFFICES ASSUME NEW j \in 1..Len(requests)
               PROVE  /\ requests'[j].seen <= requests'[j].n
                      /\ requests'[j].st = "written" => requests'[j].n = 0
                      /\ requests'[j].st = "running" =>
                           /\ requests'[j].n <= MaxEvents
                           /\ (requests'[j].op \notin Streams => requests'[j].n = 0)
    BY <1>12 DEF Answering
  <2>1. CASE j = i
    BY <1>7, <1>10, <1>12, <2>1 DEF IInv, Answering
  <2>2. CASE j # i
    BY <1>12, <2>2 DEF IInv, Answering
  <2> QED
    BY <2>1, <2>2
<1>18. Elsewhere(c)
  BY <1>14, <1>15 DEF Elsewhere
<1>19. Written(c)' /\ Channels(c)'
  <2>1. Written(c) /\ Channels(c)
    BY DEF IInv, Conn
  <2> QED
    BY <1>12, <1>13, <2>1 DEF Written, Channels
<1>20. Pending(c)' = Q
  BY <1>1, <1>3, <1>14 DEF Pending
<1>21. ASSUME NEW p \in 1..N - 1
       PROVE  p + 1 \in 1..N /\ Q[p] = P[p + 1] /\ Fits(c, Q[p]) /\ Q[p].n \in Nat
              /\ (Q[p].of = i => m.n < Q[p].n)
  <2>1. PICK q : q = p + 1
    OBVIOUS
  <2>2. q \in 1..N /\ 1 < q
    BY <1>2, <2>1
  <2>3. P[q].of = i => P[1].n < P[q].n
    BY <1>1, <1>5, <1>6, <2>2 DEF Ordered
  <2>4. Q[p] = P[q]
    BY <1>4, <2>1
  <2> QED
    BY <1>2, <1>5, <1>6, <2>1, <2>2, <2>3, <2>4
<1>22. Streamed(c)'
  <2>1. ASSUME NEW p \in 1..N - 1 PROVE Fits(c, Q[p])'
    <3>1. Fits(c, Q[p]) /\ (Q[p].of = i => m.n < Q[p].n)
      BY <1>21
    <3> QED
      BY <1>10, <1>12, <1>13, <3>1 DEF Fits
  <2>2. Ordered(Q)
    <3> SUFFICES ASSUME NEW p \in 1..N - 1, NEW q \in 1..N - 1, p < q, Q[p].of = Q[q].of
                 PROVE  Q[p].n < Q[q].n
      BY <1>4 DEF Ordered
    <3>1. PICK u, v : u = p + 1 /\ v = q + 1
      OBVIOUS
    <3>2. u \in 1..N /\ v \in 1..N /\ u < v /\ Q[p] = P[u] /\ Q[q] = P[v]
      BY <1>2, <1>21, <3>1
    <3> QED
      BY <1>1, <1>5, <3>2 DEF Ordered
  <2>3. ASSUME NEW j, NEW v \in Nat, InPlace(P, j, v), j = i => v > m.n
        PROVE  InPlace(Q, j, v)
    <3>1. PICK q \in 1..N : P[q].of = j /\ P[q].n = v
      BY <1>1, <2>3 DEF InPlace
    <3>2. q # 1
      BY <1>6, <2>3, <3>1
    <3>3. PICK p : p = q - 1
      OBVIOUS
    <3>4. p \in 1..N - 1 /\ p + 1 = q
      BY <1>2, <3>2, <3>3
    <3>5. Q[p] = P[q] /\ p \in 1..Len(Q)
      BY <1>4, <3>4
    <3> QED
      BY <3>1, <3>5 DEF InPlace
  <2>4. ASSUME NEW p \in 1..N - 1, requests'[Q[p].of].op \notin Subscriptions,
               NEW v \in requests'[Q[p].of].seen + 1 .. Q[p].n
        PROVE  InPlace(Q, Q[p].of, v)
    <3>1. PICK q, j : q = p + 1 /\ j = Q[p].of
      OBVIOUS
    <3>2. q \in 1..N /\ Q[p] = P[q] /\ j = P[q].of /\ j \in 1..Len(requests) /\ P[q].n \in Nat
      BY <1>21, <3>1 DEF Fits
    <3>3. /\ requests[j].op \notin Subscriptions /\ v \in requests[j].seen + 1 .. P[q].n
          /\ v > requests'[j].seen /\ v \in Nat
      <4>1. v \in requests'[j].seen + 1 .. P[q].n /\ requests'[j].op \notin Subscriptions
        BY <2>4, <3>1, <3>2
      <4>2. /\ requests'[j].op = requests[j].op /\ requests[j].seen \in Nat
            /\ requests'[j].seen \in Nat /\ requests[j].seen <= requests'[j].seen
        BY <1>13, <3>2
      <4> QED
        BY <3>2, <4>1, <4>2
    <3>4. InPlace(P, j, v)
      BY <1>1, <1>5, <3>2, <3>3 DEF NoGaps
    <3>5. j = i => v > m.n
      BY <1>10, <1>12, <3>3
    <3> QED
      BY <2>3, <3>1, <3>3, <3>4, <3>5
  <2>5. ASSUME writer[c] # "down", NEW j \in 1..Len(requests), requests'[j].conn = c,
               requests'[j].op \notin Subscriptions,
               NEW v \in requests'[j].seen + 1 .. requests'[j].n
        PROVE  InPlace(Q, j, v)
    <3>1. /\ requests[j].op \notin Subscriptions /\ v \in requests[j].seen + 1 .. requests[j].n
          /\ v > requests'[j].seen /\ v \in Nat /\ requests[j].conn = c
      BY <1>13, <2>5
    <3>2. InPlace(P, j, v)
      BY <1>5, <2>5, <3>1 DEF NoGaps
    <3>3. j = i => v > m.n
      BY <1>10, <1>12, <3>1
    <3> QED
      BY <2>3, <3>1, <3>2, <3>3
  <2>6. NoGaps(c, Q)'
    <3>1. \A p \in 1..Len(Q) : requests'[Q[p].of].op \notin Subscriptions =>
            \A v \in requests'[Q[p].of].seen + 1 .. Q[p].n : InPlace(Q, Q[p].of, v)
      BY <1>4, <2>4
    <3>2. writer'[c] # "down" =>
            \A j \in 1..Len(requests') :
              requests'[j].conn = c /\ requests'[j].op \notin Subscriptions =>
                \A v \in requests'[j].seen + 1 .. requests'[j].n : InPlace(Q, j, v)
      BY <1>12, <2>5
    <3> QED
      BY <3>1, <3>2 DEF NoGaps, InPlace
  <2>7. \A p \in 1..Len(Q) : Fits(c, Q[p])'
    BY <1>4, <2>1
  <2> QED
    BY <1>20, <2>2, <2>6, <2>7 DEF Streamed, Ordered
<1>23. Calls(c)
  BY DEF IInv, Conn
<1>24. ASSUME ~dropped[c]
       PROVE  /\ \A p \in 1..N : P[p].of = call[c]
              /\ \A j \in 1..Len(requests) : requests[j].conn = c /\ j # call[c] =>
                   requests[j].st = "done" \/ writer[c] = "down"
  BY <1>1, <1>23, <1>24 DEF Calls
<1>25. Calls(c)'
  <2>1. CASE phase' = phase /\ call' = call
    <3>1. ASSUME ~dropped[c]
          PROVE  /\ \A p \in 1..Len(Q) : Q[p].of = call[c]
                 /\ \A j \in 1..Len(requests') : requests'[j].conn = c /\ j # call[c] =>
                      requests'[j].st = "done" \/ writer[c] = "down"
      <4>1. ASSUME NEW p \in 1..N - 1 PROVE Q[p].of = call[c]
        <5>1. p + 1 \in 1..N /\ Q[p] = P[p + 1]
          BY <1>21
        <5> QED
          BY <1>24, <3>1, <5>1
      <4>2. \A j \in 1..Len(requests') : requests'[j].conn = c /\ j # call[c] =>
              requests'[j].st = "done" \/ writer[c] = "down"
        BY <1>12, <1>13, <1>24, <3>1
      <4> QED
        BY <1>4, <4>1, <4>2
    <3>2. /\ call[c] \in 1..Len(requests') /\ requests'[call[c]].conn = c
          /\ phase[c] = "streaming" <=> requests'[call[c]].op \in Streams
      BY <1>12, <1>13, <1>23 DEF Calls
    <3> QED
      BY <1>20, <2>1, <3>1, <3>2 DEF Calls
  <2>2. CASE /\ phase' = Set(phase, c, "idle") /\ call' = Set(call, c, 0)
             /\ IsLast(requests[i].op, m.kind) \/ dropped[c]
    <3>1. phase'[c] = "idle" /\ call'[c] = 0
      BY <2>2, Functions DEF IInv, Set
    <3>2. ASSUME ~dropped[c]
          PROVE  /\ Len(Q) = 0
                 /\ \A j \in 1..Len(requests') : requests'[j].conn = c =>
                      requests'[j].st = "done" \/ writer[c] = "down"
      <4>1. requests[i].st = "done" /\ m.n = requests[i].n /\ i = call[c]
        BY <1>6, <1>7, <1>24, <2>2, <3>2
      <4>2. ~(1 \in 1..N - 1)
        <5>1. SUFFICES ASSUME 1 \in 1..N - 1 PROVE FALSE
          OBVIOUS
        <5>2. Fits(c, Q[1]) /\ Q[1].n \in Nat /\ (Q[1].of = i => m.n < Q[1].n) /\ Q[1] = P[1 + 1] /\ 1 + 1 \in 1..N
          BY <1>21, <5>1
        <5>3. Q[1].of = i /\ Q[1].n <= requests[i].n
          BY <1>24, <3>2, <4>1, <5>2 DEF Fits
        <5> QED
          BY <1>6, <4>1, <5>2, <5>3
      <4>3. Len(Q) = 0
        BY <1>2, <1>4, <4>2
      <4> QED
        BY <1>12, <1>13, <1>24, <3>2, <4>1, <4>3
    <3> QED
      BY <1>20, <3>1, <3>2 DEF Calls
  <2> QED
    BY <1>1, <2>1, <2>2
<1>26. \A d \in Conns : Conn(d)'
  BY <1>7, <1>8, <1>12, <1>13, <1>18, <1>19, <1>22, <1>25, Others DEF Conn
<1>27. PICK t, next : /\ t = [want |-> call[c], of |-> i, outcome |-> o, fresh |-> next]
                      /\ next = IF requests[i].op \in Subscriptions THEN m.n > requests[i].seen
                                ELSE m.n = requests[i].seen + 1
  OBVIOUS
<1>28. next = TRUE
  <2>1. Fits(c, P[1]) /\ requests[P[1].of].seen \in Nat /\ N = Len(P)
    BY <1>1, <1>4, <1>6, <1>8
  <2>2. IF requests[P[1].of].op \in Subscriptions THEN P[1].n > requests[P[1].of].seen
        ELSE P[1].n = requests[P[1].of].seen + 1
    BY <1>2, <1>4, <1>5, <2>1, FirstIsNext
  <2>3. IF requests[i].op \in Subscriptions THEN m.n > requests[i].seen
        ELSE m.n = requests[i].seen + 1
    BY <1>6, <2>2
  <2> QED
    BY <1>27, <2>3
<1>29. taken'[c] = t /\ \A d \in Conns \ {c} : taken'[d] = taken[d]
  BY <1>1, <1>27 DEF IInv, Shape, Take, Set, Op
<1>30. t.want = call[c] /\ t.of = i /\ t.outcome = o
  BY <1>27
<1>31. t.fresh
  BY <1>27, <1>28, Zenon
<1>32. InOrder'
  BY <1>29, <1>31 DEF IInv, InOrder
<1>33. ReplyIsMine'
  <2>1. ~dropped[c] => i = call[c]
    BY <1>6, <1>24
  <2> QED
    BY <1>29, <1>30, <2>1 DEF IInv, ReplyIsMine
<1> QED
  BY <1>16, <1>17, <1>26, <1>32, <1>33 DEF IInv

(* What the client reads while it abandons nothing is for its call.        *)
LEMMA HeadFits ==
  ASSUME IInv, NEW c \in Conns, phase[c] \in {"waiting", "streaming"}, s2c[c] # <<>>
  PROVE  /\ call[c] \in 1..Len(requests) /\ requests[call[c]].op \in AllOps
         /\ phase[c] = "streaming" <=> requests[call[c]].op \in Streams
         /\ ~dropped[c] => /\ Head(s2c[c]).of = call[c]
                           /\ Head(s2c[c]).kind \in KindsFor(requests[call[c]].op)
<1>1. PICK P, m : P = Pending(c) /\ m = Head(s2c[c])
  OBVIOUS
<1>2. 1 \in 1..Len(P) /\ P[1] = m
  <2>1. s2c[c] \in Seq(Frame) /\ chan[c] \in Seq(Frame)
    BY QueueAt DEF IInv
  <2>2. /\ Len(s2c[c] \o chan[c]) \in Nat /\ Len(s2c[c] \o chan[c]) > 0
        /\ (s2c[c] \o chan[c])[1] = Head(s2c[c])
    BY <2>1, TakeFirst
  <2>3. P = s2c[c] \o chan[c]
    BY <1>1 DEF Pending
  <2>4. Len(P) \in Nat /\ Len(P) > 0
    BY <2>2, <2>3
  <2>5. 1 \in 1..Len(P)
    BY <2>4
  <2>6. P[1] = m
    BY <1>1, <2>2, <2>3, Zenon
  <2> QED
    BY <2>5, <2>6
<1>3. Calls(c) /\ Fits(c, P[1])
  BY <1>1, <1>2 DEF IInv, Conn, Streamed
<1>4. /\ call[c] \in 1..Len(requests)
      /\ phase[c] = "streaming" <=> requests[call[c]].op \in Streams
  BY <1>3 DEF Calls
<1>5. requests[call[c]].op \in AllOps
  BY <1>4, RequestAt DEF IInv
<1>6. ASSUME ~dropped[c] PROVE m.of = call[c] /\ m.kind \in KindsFor(requests[call[c]].op)
  <2>1. P[1].of = call[c]
    BY <1>1, <1>2, <1>3, <1>6 DEF Calls
  <2> QED
    BY <1>2, <1>3, <2>1 DEF Fits
<1> QED
  BY <1>1, <1>4, <1>5, <1>6

LEMMA ReplyMoves ==
  ASSUME IInv, NEW c \in Conns, TakeReply(c)
  PROVE  IInv'
<1>1. PICK m, op, o : m = Head(s2c[c]) /\ op = requests[call[c]].op /\ o = Outcome(op, m.kind)
  OBVIOUS
<1>2. phase[c] = "waiting" /\ s2c[c] # <<>> /\ Take(c, o)
      /\ phase' = Set(phase, c, "idle") /\ call' = Set(call, c, 0)
      /\ UNCHANGED <<daemon, dropped, c2s, chan, reader, writer>>
  BY <1>1 DEF TakeReply, Take, Op
<1>3. op \in AllOps /\ op \notin Streams /\ (~dropped[c] => m.of = call[c] /\ m.kind \in KindsFor(op))
  BY <1>1, <1>2, HeadFits
<1>4. ASSUME ~dropped[c] PROVE o # "unexpected" /\ IsLast(requests[m.of].op, m.kind)
  <2>1. m.kind \in KindsFor(op) /\ requests[m.of].op = op
    BY <1>1, <1>3, <1>4
  <2>2. Outcome(op, m.kind) # "unexpected"
    BY <1>3, <2>1, NothingUnexpected
  <2>3. m.kind # "Stream"
    BY <1>3, <2>1, KindsKnown
  <2> QED
    BY <1>1, <1>3, <2>1, <2>2, <2>3 DEF IsLast, Streams
<1>5. IsLast(requests[Head(s2c[c]).of].op, Head(s2c[c]).kind) \/ dropped[c]
  BY <1>1, <1>4
<1> QED
  BY <1>2, <1>4, <1>5, TakeMoves

LEMMA EventMoves ==
  ASSUME IInv, NEW c \in Conns, TakeEvent(c)
  PROVE  IInv'
<1>1. PICK m, op, o : m = Head(s2c[c]) /\ op = requests[call[c]].op /\ o = StreamOutcome(op, m.kind)
  OBVIOUS
<1>2. phase[c] = "streaming" /\ s2c[c] # <<>> /\ Take(c, o)
      /\ \/ phase' = phase /\ call' = call
         \/ phase' = Set(phase, c, "idle") /\ call' = Set(call, c, 0) /\ o \in {"end", "error"}
      /\ UNCHANGED <<daemon, dropped, c2s, chan, reader, writer>>
  BY <1>1 DEF TakeEvent, Take, Op
<1>3. op \in AllOps /\ op \in Streams /\ (~dropped[c] => m.of = call[c] /\ m.kind \in KindsFor(op))
  BY <1>1, <1>2, HeadFits
<1>4. ASSUME ~dropped[c]
      PROVE  o # "unexpected" /\ (o \in {"end", "error"} => IsLast(requests[m.of].op, m.kind))
  <2>1. m.kind \in KindsFor(op) /\ requests[m.of].op = op
    BY <1>1, <1>3, <1>4
  <2>2. /\ StreamOutcome(op, m.kind) # "unexpected"
        /\ StreamOutcome(op, m.kind) \in {"end", "error"} => IsLast(op, m.kind)
    BY <1>3, <2>1, NothingUnexpected
  <2> QED
    BY <1>1, <2>1, <2>2
<1>5. \/ phase' = phase /\ call' = call
      \/ /\ phase' = Set(phase, c, "idle") /\ call' = Set(call, c, 0)
         /\ IsLast(requests[Head(s2c[c]).of].op, Head(s2c[c]).kind) \/ dropped[c]
  BY <1>1, <1>2, <1>4
<1> QED
  BY <1>2, <1>4, <1>5, TakeMoves

(* A handler has a message to send, and sends it or finds nobody to take it. *)
LEMMA ReplyHandled ==
  ASSUME IInv, NEW i \in 1..Len(requests),
         NEW kind \in KindsFor(requests[i].op), NEW n \in requests[i].n + 1 .. MaxEvents + 1,
         requests[i].op \notin Subscriptions => n = requests[i].n + 1,
         NEW last \in BOOLEAN,
         IsLast(requests[i].op, kind) => last,
         ~last => n <= MaxEvents /\ requests[i].op \in Streams,
         Reply(i, kind, n, last),
         UNCHANGED <<daemon, phase, call, dropped, taken, c2s, s2c, reader, writer>>
  PROVE  IInv'
<1>1. PICK c, st : c = requests[i].conn /\ st = IF last THEN "done" ELSE "running"
  OBVIOUS
<1>2. requests[i].st = "running"
  BY DEF Reply
<1>3. CASE /\ writer[c] = "up" /\ Len(chan[c]) < ReplyCap
           /\ chan' = Set(chan, c, Append(chan[c], Message(i, kind, n)))
           /\ requests' = [requests EXCEPT ![i].n = n, ![i].st = st]
  <2>1. st \in {"running", "done"} /\ (IsLast(requests[i].op, kind) => st = "done")
        /\ (st = "running" => n <= MaxEvents /\ requests[i].op \in Streams)
    BY <1>1
  <2> QED
    BY <1>1, <1>2, <1>3, <2>1, SendMoves
<1>4. CASE requests' = [requests EXCEPT ![i].st = "done"] /\ chan' = chan
  BY <1>2, <1>4, EndMoves
<1> QED
  BY <1>1, <1>3, <1>4 DEF Reply

LEMMA DispatchMoves ==
  ASSUME IInv, NEW i \in 1..Len(requests), Dispatch(i) \/ Publish(i)
  PROVE  IInv'
<1>1. UNCHANGED <<daemon, phase, call, dropped, taken, c2s, s2c, reader, writer>>
  BY DEF Dispatch, Publish
<1>2. PICK op, k : op = requests[i].op /\ k = requests[i].n
  OBVIOUS
<1>3. op \in AllOps /\ k \in Nat /\ MaxEvents \in Nat
  BY <1>2, RequestAt, BoundsAssumption DEF IInv
<1>4. requests[i].st = "running" => k <= MaxEvents /\ (op \notin Streams => k = 0)
  BY <1>2 DEF IInv, Answering
<1>5. CASE Answer(i)
  <2>1. PICK kind \in ({r[2] : r \in {r \in Replies : r[1] = op}} \ {"none"}) \cup ErrorOf(op) :
          Reply(i, kind, 1, TRUE)
    BY <1>2, <1>5 DEF Answer, Op
  <2>2. op \notin Streams /\ requests[i].st = "running"
    BY <1>2, <1>5, <2>1 DEF Answer, Op, Reply
  <2>3. kind \in KindsFor(op)
    BY <2>2 DEF KindsFor, Streams, Subscriptions
  <2>4. 1 \in k + 1 .. MaxEvents + 1 /\ 1 = k + 1
    BY <1>3, <1>4, <2>2
  <2> QED
    BY <1>1, <1>2, <2>1, <2>3, <2>4, ReplyHandled
<1>6. CASE StreamNext(i)
  <2>1. op = "stream"
    BY <1>2, <1>6 DEF StreamNext, Op
  <2>2. op \in Streams /\ {"Stream", "500", "End"} \subseteq KindsFor(op)
    BY <2>1 DEF Streams, KindsFor
  <2>3. CASE k < MaxEvents /\ Reply(i, "Stream", k + 1, FALSE)
    <3>1. k + 1 \in k + 1 .. MaxEvents + 1 /\ k + 1 <= MaxEvents
      BY <1>3, <2>3
    <3>2. ~IsLast(op, "Stream")
      BY DEF IsLast
    <3> QED
      BY <1>1, <1>2, <2>2, <2>3, <3>1, <3>2, ReplyHandled
  <2>4. ASSUME NEW kind \in {"500", "End"}, Reply(i, kind, k + 1, TRUE) PROVE IInv'
    <3>1. requests[i].st = "running"
      BY <2>4 DEF Reply
    <3>2. k + 1 \in k + 1 .. MaxEvents + 1
      BY <1>3, <1>4, <3>1
    <3> QED
      BY <1>1, <1>2, <2>2, <2>4, <3>2, ReplyHandled
  <2> QED
    BY <1>2, <1>6, <2>3, <2>4 DEF StreamNext
<1>7. CASE SubscriptionNext(i)
  <2>1. op \in Subscriptions /\ op \in Streams
    BY <1>2, <1>7 DEF SubscriptionNext, Op, Streams
  <2>2. ASSUME NEW n \in k + 1 .. MaxEvents, Reply(i, (CHOOSE r \in Replies : r[1] = op)[2], n, FALSE)
        PROVE  IInv'
    <3>1. PICK kind : kind = (CHOOSE r \in Replies : r[1] = op)[2]
      OBVIOUS
    <3>2. kind \in KindsFor(op) /\ ~IsLast(op, kind)
      BY <2>1, <3>1, EventKind DEF IsLast
    <3>3. n \in k + 1 .. MaxEvents + 1 /\ n <= MaxEvents
      BY <1>3, <2>2
    <3>4. Reply(i, kind, n, FALSE)
      BY <2>2, <3>1
    <3> QED
      BY <1>1, <1>2, <2>1, <3>2, <3>3, <3>4, ReplyHandled
  <2>3. CASE requests[i].st = "running" /\ requests' = [requests EXCEPT ![i].st = "done"] /\ chan' = chan
    BY <1>1, <2>3, EndMoves
  <2> QED
    BY <1>2, <1>7, <2>2, <2>3 DEF SubscriptionNext, Op
<1> QED
  BY <1>5, <1>6, <1>7 DEF Dispatch, Publish

LEMMA HangUpMoves ==
  ASSUME IInv, NEW c \in Conns, HangUp(c)
  PROVE  IInv'
<1>1. /\ writer'= Set(writer, c, "down") /\ chan' = Set(chan, c, <<>>)
      /\ reader[c] # "none" /\ reader' = Set(reader, c, "down")
      /\ UNCHANGED <<daemon, requests, phase, call, dropped, taken, c2s, s2c>>
  BY DEF HangUp
<1> QED
  BY <1>1, CutMoves

LEMMA TerminateMoves ==
  ASSUME IInv, Terminate
  PROVE  IInv'
<1>1. /\ daemon' = "draining"
      /\ UNCHANGED <<requests, phase, call, dropped, taken, c2s, s2c, chan, reader, writer>>
  BY DEF Terminate
<1>2. Shape'
  BY <1>1 DEF IInv, Shape, TypeOK, RequestTypes, SocketTypes
<1>3. ASSUME NEW c \in Conns PROVE Conn(c)'
  <2>1. Len(requests) \in Nat
    BY DEF IInv, Shape, TypeOK, RequestTypes
  <2> QED
    BY <1>1, <2>1, ConnStays DEF IInv
<1> QED
  BY <1>1, <1>2, <1>3, GhostsStay DEF IInv, Answering

(* The end of the daemon: every task is over, and every channel is empty.  *)
LEMMA ExitMoves ==
  ASSUME IInv, Exit
  PROVE  IInv'
<1>1. /\ daemon' = "exited"
      /\ reader' = [c \in Conns |-> "down"] /\ writer' = [c \in Conns |-> "down"]
      /\ chan' = [c \in Conns |-> <<>>] /\ c2s' = [c \in Conns |-> <<>>]
      /\ requests' = [i \in DOMAIN requests |-> [requests[i] EXCEPT !.st = "done"]]
      /\ UNCHANGED <<phase, call, dropped, taken, s2c>>
  BY DEF Exit
<1>2. requests \in Seq(Requested) /\ Len(requests) \in Nat /\ DOMAIN requests = 1..Len(requests)
  BY DEF IInv, Shape, TypeOK, RequestTypes, Requested
<1>3. \A i \in 1..Len(requests) :
        /\ requests'[i] \in Requested /\ requests'[i].st = "done"
        /\ requests'[i].conn = requests[i].conn /\ requests'[i].op = requests[i].op
        /\ requests'[i].n = requests[i].n /\ requests'[i].seen = requests[i].seen
  <2> SUFFICES ASSUME NEW i \in 1..Len(requests)
               PROVE  /\ requests'[i] \in Requested /\ requests'[i].st = "done"
                      /\ requests'[i].conn = requests[i].conn /\ requests'[i].op = requests[i].op
                      /\ requests'[i].n = requests[i].n /\ requests'[i].seen = requests[i].seen
    OBVIOUS
  <2>1. requests'[i] = [requests[i] EXCEPT !.st = "done"] /\ requests[i] \in Requested
    BY <1>1, <1>2
  <2> QED
    BY <2>1 DEF Requested
<1>4. requests' \in Seq(Requested) /\ Len(requests') = Len(requests)
  <2>1. PICK t, N : t = requests' /\ N = Len(requests)
    OBVIOUS
  <2>2. t = [i \in 1..N |-> t[i]] /\ N \in Nat /\ \A i \in 1..N : t[i] \in Requested
    BY <1>1, <1>2, <1>3, <2>1
  <2>3. t \in Seq(Requested) /\ Len(t) = N
    BY <2>2
  <2> QED
    BY <2>1, <2>3
<1>5. Shape'
  <2>1. RequestTypes'
    BY <1>1, <1>4 DEF IInv, Shape, TypeOK, RequestTypes, Requested
  <2>2. SocketTypes'
    BY <1>1, BoundsAssumption DEF IInv, Shape, TypeOK, SocketTypes
  <2>3. /\ c2s' \in [Conns -> Seq(1..MaxRequests)]
        /\ s2c' \in [Conns -> Seq(Frame)] /\ chan' \in [Conns -> Seq(Frame)]
    BY <1>1, Functions DEF IInv
  <2> QED
    BY <1>1, <1>4, <2>1, <2>2, <2>3 DEF IInv, Shape, TypeOK
<1>6. Answering'
  BY <1>3, <1>4 DEF IInv, Answering
<1>7. ASSUME NEW c \in Conns PROVE Conn(c)'
  <2>1. reader'[c] = "down" /\ writer'[c] = "down" /\ chan'[c] = <<>> /\ c2s'[c] = <<>>
        /\ s2c'[c] = s2c[c] /\ phase'[c] = phase[c]
    BY <1>1
  <2>2. Written(c)' /\ Channels(c)'
    BY <2>1 DEF Written, Channels
  <2>3. Streamed(c)'
    BY <1>3, <1>4, <2>1, StreamedCut DEF IInv, Conn
  <2>4. Calls(c)'
    <3>1. PICK P, S : P = Pending(c) /\ S = s2c[c]
      OBVIOUS
    <3>2. Pending(c)' = S
      BY <2>1, <3>1, QueueAt, QueueEmpty DEF Pending, IInv
    <3>3. \A p \in 1..Len(S) : p \in 1..Len(P) /\ P[p] = S[p]
      <4>1. S \in Seq(Frame) /\ chan[c] \in Seq(Frame) /\ P = S \o chan[c]
        BY <3>1, QueueAt DEF Pending, IInv
      <4> QED
        BY <4>1, Queue
    <3> QED
      BY <1>1, <1>3, <1>4, <2>1, <3>1, <3>2, <3>3 DEF IInv, Conn, Calls
  <2> QED
    BY <2>2, <2>3, <2>4 DEF Conn
<1> QED
  BY <1>1, <1>5, <1>6, <1>7, GhostsStay DEF IInv
-----------------------------------------------------------------------------
LEMMA InitInv == Init => IInv
<1> SUFFICES ASSUME Init PROVE IInv
  OBVIOUS
<1>1. Shape
  BY BoundsAssumption DEF Init, Shape, TypeOK, RequestTypes, SocketTypes
<1>2. \A c \in Conns : taken[c] = Nothing
  BY DEF Init
<1>3. Nothing.of = Nothing.want /\ Nothing.outcome # "unexpected"
  BY DEF Nothing
<1>4. Nothing.fresh
  BY Zenon DEF Nothing
<1>5. InOrder /\ ReplyIsMine
  BY <1>2, <1>3, <1>4 DEF InOrder, ReplyIsMine
<1>6. Answering
  BY DEF Init, Answering
<1>7. ASSUME NEW c \in Conns PROVE Conn(c)
  <2>1. /\ Pending(c) = <<>> /\ c2s[c] = <<>> /\ chan[c] = <<>> /\ requests = <<>>
        /\ phase[c] = "new" /\ call[c] = 0 /\ reader[c] = "none" /\ writer[c] = "none"
    BY DEF Init, Pending
  <2>2. Written(c) /\ Channels(c)
    BY <2>1 DEF Written, Channels
  <2>3. Streamed(c)
    BY <2>1 DEF Streamed, Ordered, NoGaps
  <2>4. Calls(c)
    BY <2>1 DEF Calls
  <2> QED
    BY <2>2, <2>3, <2>4 DEF Conn
<1> QED
  BY <1>1, <1>5, <1>6, <1>7 DEF IInv

LEMMA NextInv == IInv /\ [Next]_vars => IInv'
<1> SUFFICES ASSUME IInv, [Next]_vars PROVE IInv'
  OBVIOUS
<1>1. ASSUME NEW c \in Conns, Client(c) \/ ServerTask(c) \/ WriteReply(c) PROVE IInv'
  <2>1. CASE Open(c) \/ ReadClosed(c) \/ DropCall(c) \/ Close(c)
    BY <2>1, ClientMoves
  <2>2. CASE \E op \in Ops : Request(c, op)
    BY <2>2, RequestMoves
  <2>3. CASE TakeReply(c) \/ TakeEvent(c)
    BY <2>3, ReplyMoves, EventMoves
  <2>4. CASE ServerTask(c)
    BY <2>4, AcceptMoves, ReadMoves, HangUpMoves DEF ServerTask
  <2>5. CASE WriteReply(c)
    BY <2>5, WriteMoves
  <2> QED
    BY <1>1, <2>1, <2>2, <2>3, <2>4, <2>5 DEF Client, ClientReads
<1>2. ASSUME NEW i \in 1..Len(requests), Dispatch(i) \/ Publish(i) PROVE IInv'
  BY <1>2, DispatchMoves
<1>3. CASE Terminate \/ Exit
  BY <1>3, TerminateMoves, ExitMoves
<1>4. CASE UNCHANGED vars
  <2>1. /\ daemon' = daemon /\ requests' = requests /\ phase' = phase /\ call' = call
        /\ dropped' = dropped /\ taken' = taken /\ c2s' = c2s /\ s2c' = s2c /\ chan' = chan
        /\ reader' = reader /\ writer' = writer
    BY <1>4 DEF vars
  <2>2. ASSUME NEW c \in Conns PROVE Conn(c)'
    <3>1. Len(requests) \in Nat
      BY DEF IInv, Shape, TypeOK, RequestTypes
    <3> QED
      BY <2>1, <3>1, ConnStays DEF IInv
  <2>3. Shape'
    BY <2>1 DEF IInv, Shape, TypeOK, RequestTypes, SocketTypes
  <2> QED
    BY <2>1, <2>2, <2>3, GhostsStay DEF IInv, Answering
<1> QED
  BY <1>1, <1>2, <1>3, <1>4 DEF Next

(* The inductive invariant, for all connections and all bounds.            *)
LEMMA Invariance == Spec => []IInv
<1> QED
  BY InitInv, NextInv, PTL DEF Spec

(* Whatever the sizes of REPLY_CHANNEL_CAPACITY and of the socket's buffer *)
(* and however many dispatch tasks share the reply channel of on_message,  *)
(* a client reads the messages of each request in the order its handler    *)
(* yielded them, with none left out of a stream and none twice, and the    *)
(* channel never holds more than its capacity.                             *)
THEOREM WireCorrect == Spec => []WireInv
<1>1. IInv => WireInv
  BY DEF IInv, Shape, WireInv
<1> QED
  BY <1>1, Invariance, PTL

(* A client of request and request_stream that reads every call to its end *)
(* is given the answer to its own request, and of a kind its method knows, *)
(* although a ServerMessage names no request: the dispatch of a request    *)
(* has ended, or can no longer write, when the next one is made.           *)
THEOREM ReplyIsMineCorrect == Spec => []ReplyIsMine
<1>1. IInv => ReplyIsMine
  BY DEF IInv
<1> QED
  BY <1>1, Invariance, PTL
=============================================================================
