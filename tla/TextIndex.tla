----------------------------- MODULE TextIndex -----------------------------
(* Stored texts and the inverted index they are found through: a posting   *)
(* for every term of a text, a record that names the text's terms, and one *)
(* pair of counters for all.  Every get, put and delete is a step; tasks   *)
(* interleave between them, and one cut off leaves what it wrote.  A text  *)
(* is the set of its terms, so its length is their number and a text of    *)
(* stopwords is empty.                                                     *)
(* There is an index of memory entries, which put_memory and remove_memory *)
(* keep, and one of the messages of sessions, which is kept by the loops   *)
(* of append_session_messages and truncate_session_messages; they share no *)
(* key and no counter, and the module is the one or the other.  A message  *)
(* that is not indexable is stored as a text without terms.                *)
EXTENDS Naturals, FiniteSets, Functions

CONSTANTS
  Writers,    \* tasks: runs that call remember and forget, or compact
  Keys,       \* of messages, <<session, position>>, or names of memory entries
  Terms,
  Before, After,  \* context_before, context_after: how far a window reaches
  MaxOps,     \* bound on the number of texts put, entries removed and sessions cut
  MaxFaults   \* bound on crashes, calls dropped and sessions created twice

ASSUME SetsAssumption == IsFiniteSet(Terms) /\ IsFiniteSet(Writers) /\ Keys # {}
ASSUME OpsAssumption == MaxOps \in Nat
ASSUME KeysAssumption == \A k \in Keys : k = <<k[1], k[2]>> /\ k[2] \in Nat

VARIABLES
  index,     \* which of the two this is: memory, messages
  entries,   \* memory/{name}, or session/{handle}/msg/{position}: key -> text
  postings,  \* idx/text/{index}/term/{term}/{key}
  docs,      \* idx/text/{index}/doc/{key}: key -> terms
  stats,     \* idx/text/{index}/stats
  task,      \* per writer: [pc, op, key, text, todo, doc, read]
  count,     \* message_count in the metadata of each session
  call,      \* per writer, the loop it is in: [op, session, next, rest]
  ops, faults,
  mixed,     \* keys that two tasks worked on at once, or one was cut off on (ghost)
  miscount,  \* two tasks counted at once, or one was cut off counting (ghost)
  left       \* key -> text that was indexed there, where a message that is
             \* not indexable has taken the place of one that was (ghost)

calls == <<index, count, call>>
vars == <<entries, postings, docs, stats, task, calls, ops, faults, mixed, miscount, left>>

Texts == SUBSET Terms
NoStats == [docs |-> 0, total_len |-> 0]
Idle == [pc |-> "idle", op |-> "put", key |-> CHOOSE k \in Keys : TRUE, text |-> {},
         todo |-> {}, doc |-> {}, read |-> NoStats]

Put(f, k, v) == [x \in DOMAIN f \cup {k} |-> IF x = k THEN v ELSE f[x]]
Without(f, k) == Restrict(f, DOMAIN f \ {k})

Sessions == {k[1] : k \in Keys}
NoCall == [op |-> "none", session |-> CHOOSE s \in Sessions : TRUE, next |-> 0, rest |-> {}]

Busy(k) == \E w \in Writers : task[w].pc # "idle" /\ task[w].key = k

(* The postings and the record of a task's entry, and the counters, are in *)
(* step only outside these.                                                *)
Counting(w) == task[w].pc \in {"dec", "inc"}

Goto(w, where) == task' = [task EXCEPT ![w].pc = where]
Finish(w) == task' = [task EXCEPT ![w] = Idle]
Quiet == UNCHANGED <<ops, faults, mixed, calls>>

SessionOf(k) == k[1]
PositionOf(k) == k[2]

(* The number of stored messages of its session before one: its place in   *)
(* a scan of their keys.                                                   *)
Line(corpus, k) ==
  Cardinality({j \in DOMAIN corpus : SessionOf(j) = SessionOf(k) /\ PositionOf(j) < PositionOf(k)})

(* The text that the index has to hold for a key.                          *)
IndexedText(k) ==
  IF k \in DOMAIN left THEN left[k] ELSE IF k \in DOMAIN entries THEN entries[k] ELSE {}

-----------------------------------------------------------------------------
(* An entry that is put and one that is removed                            *)

Begin(w, k) ==
  /\ task[w].pc = "idle"
  /\ mixed' = mixed \cup (IF Busy(k) THEN {k} ELSE {})
  /\ UNCHANGED faults

(* The entry is written, and then indexed.                                 *)
PutText(w, k, text) ==
  /\ Begin(w, k)
  /\ ops < MaxOps /\ ops' = ops + 1
  /\ entries' = Put(entries, k, text) /\ left' = Without(left, k)
  /\ task' = [task EXCEPT ![w] = [Idle EXCEPT !.pc = "drop", !.key = k, !.text = text]]
  /\ UNCHANGED <<postings, docs, stats, miscount>>

(* The entry leaves the index, and is then deleted.                        *)
RemoveText(w, k) ==
  /\ Begin(w, k)
  /\ task' = [task EXCEPT ![w] = [Idle EXCEPT !.pc = "drop", !.op = "remove", !.key = k]]
  /\ UNCHANGED <<entries, left, postings, docs, stats, miscount>>

PutMemory(w, k, text) ==
  /\ index = "memory"
  /\ PutText(w, k, text)
  /\ UNCHANGED calls

RemoveMemory(w, k) ==
  /\ index = "memory"
  /\ RemoveText(w, k)
  /\ ops < MaxOps /\ ops' = ops + 1
  /\ UNCHANGED calls

(* After drop_text, what is removed is deleted and index_text writes.      *)
AfterDrop(w) ==
  IF task[w].op = "remove" THEN [task EXCEPT ![w].pc = "delete"]
  ELSE IF task[w].text = {} THEN [task EXCEPT ![w] = Idle]
  ELSE [task EXCEPT ![w].pc = "post", ![w].todo = task[w].text]

DeleteEntry(w) ==
  /\ task[w].pc = "delete" /\ Quiet
  /\ entries' = Without(entries, task[w].key) /\ left' = Without(left, task[w].key)
  /\ Finish(w)
  /\ UNCHANGED <<postings, docs, stats, miscount>>

-----------------------------------------------------------------------------
(* The messages of a session: the loops of append_session_messages and     *)
(* truncate_session_messages.  A session's lock is held by who calls them, *)
(* but a session killed and opened again under its handle has two locks.   *)

Ready(w, op) == index = "messages" /\ call[w].op = op /\ task[w].pc = "idle"
Advance(w) == call' = [call EXCEPT ![w].op = "append", ![w].next = @ + 1]

(* The messages that leave.  Fault: the first of them stays.               *)
CutAfter(keep, line) == line > keep
Cut(keep, line) == line >= keep

(* A call reads the metadata of its session, and what it works on.         *)
Call(w, s, c) ==
  /\ Ready(w, "none")
  /\ call' = [call EXCEPT ![w] = c]
  /\ mixed' = mixed \cup (IF \E v \in Writers \ {w} : call[v].op # "none" /\ call[v].session = s
                          THEN {k \in Keys : SessionOf(k) = s} ELSE {})
  /\ UNCHANGED <<index, entries, left, postings, docs, stats, task, count, faults, miscount>>

AppendMessages(w, s) ==
  /\ Call(w, s, [op |-> "read", session |-> s, next |-> count[s], rest |-> {}])
  /\ UNCHANGED ops

(* The next message: one that is indexable is indexed as it is put, ...    *)
PutMessage(w, text) ==
  LET k == <<call[w].session, call[w].next>>
  IN  /\ \E op \in {"read", "append"} : Ready(w, op)
      /\ k \in Keys /\ PutText(w, k, text)
      /\ Advance(w)
      /\ UNCHANGED <<index, count>>

(* ... and one that is not, a tool's result for one, is put and no more:   *)
(* the index keeps what it holds for the key.                              *)
HideMessage(w) ==
  LET k == <<call[w].session, call[w].next>>
  IN  /\ \E op \in {"read", "append"} : Ready(w, op)
      /\ k \in Keys /\ ops < MaxOps /\ ops' = ops + 1
      /\ entries' = Put(entries, k, {})
      /\ left' = IF IndexedText(k) = {} THEN left ELSE Put(left, k, IndexedText(k))
      /\ Advance(w)
      /\ UNCHANGED <<index, postings, docs, stats, task, count, faults, mixed, miscount>>

(* The messages from line keep on leave, the first of them first.          *)
TruncateMessages(w, s, keep) ==
  LET stored == {k \in DOMAIN entries : SessionOf(k) = s}
  IN  /\ Call(w, s, [op |-> "truncate", session |-> s,
                     next |-> IF keep < Cardinality(stored) THEN keep ELSE Cardinality(stored),
                     rest |-> {k \in stored : Cut(keep, Line(entries, k))}])
      /\ ops < MaxOps /\ ops' = ops + 1

DropMessage(w) ==
  /\ Ready(w, "truncate")
  /\ \E k \in call[w].rest :
       /\ \A j \in call[w].rest : PositionOf(k) <= PositionOf(j)
       /\ RemoveText(w, k)
       /\ call' = [call EXCEPT ![w].rest = @ \ {k}]
  /\ UNCHANGED <<index, count, ops>>

(* At the end the metadata names how many messages there are.              *)
WriteCount(w) ==
  /\ Ready(w, "append") \/ (Ready(w, "truncate") /\ call[w].rest = {})
  /\ count' = [count EXCEPT ![call[w].session] = call[w].next]
  /\ call' = [call EXCEPT ![w] = NoCall]
  /\ UNCHANGED <<index, entries, left, postings, docs, stats, task, ops, faults, mixed, miscount>>

-----------------------------------------------------------------------------
(* drop_text                                                               *)

(* The record, if there is one, names the postings to retract.             *)
DropLoad(w) ==
  LET k == task[w].key
  IN  /\ task[w].pc = "drop" /\ Quiet
      /\ task' = IF k \in DOMAIN docs
                 THEN [task EXCEPT ![w].pc = "retract", ![w].todo = docs[k], ![w].doc = docs[k]]
                 ELSE AfterDrop(w)
      /\ UNCHANGED <<entries, left, postings, docs, stats, miscount>>

Retract(w, t) ==
  /\ task[w].pc = "retract" /\ t \in task[w].todo /\ Quiet
  /\ postings' = postings \ {<<t, task[w].key>>}
  /\ task' = [task EXCEPT ![w].todo = @ \ {t},
                          ![w].pc = IF task[w].todo = {t} THEN "undoc" ELSE "retract"]
  /\ UNCHANGED <<entries, left, docs, stats, miscount>>

DropDoc(w) ==
  /\ task[w].pc = "undoc" /\ Quiet
  /\ docs' = Without(docs, task[w].key)
  /\ Goto(w, "count_dec")
  /\ UNCHANGED <<entries, left, postings, stats, miscount>>

(* The counters are read; a task between its read and its write is counted *)
(* wrong if another one is.                                                *)
ReadStats(w, from, to) ==
  /\ task[w].pc = from /\ Quiet
  /\ task' = [task EXCEPT ![w].pc = to, ![w].read = stats]
  /\ miscount' = (miscount \/ \E v \in Writers \ {w} : Counting(v))
  /\ UNCHANGED <<entries, left, postings, docs, stats>>

(* saturating_sub                                                          *)
Minus(a, b) == IF a > b THEN a - b ELSE 0

DropCount(w) ==
  LET s == task[w].read
  IN  /\ task[w].pc = "dec" /\ Quiet
      /\ stats' = [docs |-> Minus(s.docs, 1),
                   total_len |-> Minus(s.total_len, Cardinality(task[w].doc))]
      /\ task' = AfterDrop(w)
      /\ UNCHANGED <<entries, left, postings, docs, miscount>>

-----------------------------------------------------------------------------
(* index_text, after it has dropped what was there                         *)

Post(w, t) ==
  /\ task[w].pc = "post" /\ t \in task[w].todo /\ Quiet
  /\ postings' = postings \cup {<<t, task[w].key>>}
  /\ task' = [task EXCEPT ![w].todo = @ \ {t},
                          ![w].pc = IF task[w].todo = {t} THEN "doc" ELSE "post"]
  /\ UNCHANGED <<entries, left, docs, stats, miscount>>

(* Fault: the record keeps the terms it had.                               *)
PutDocStale(w) ==
  /\ task[w].pc = "doc" /\ Quiet
  /\ docs' = Put(docs, task[w].key, IF task[w].doc = {} THEN task[w].text ELSE task[w].doc)
  /\ Goto(w, "count_inc")
  /\ UNCHANGED <<entries, left, postings, stats, miscount>>

PutDoc(w) ==
  /\ task[w].pc = "doc" /\ Quiet
  /\ docs' = Put(docs, task[w].key, task[w].text)
  /\ Goto(w, "count_inc")
  /\ UNCHANGED <<entries, left, postings, stats, miscount>>

(* Fault: an entry that replaces another is not counted.                   *)
IndexCountNew(w) ==
  /\ task[w].pc = "inc" /\ Quiet
  /\ stats' = IF task[w].doc # {} THEN stats
              ELSE [docs |-> task[w].read.docs + 1,
                    total_len |-> task[w].read.total_len + Cardinality(task[w].text)]
  /\ Finish(w)
  /\ UNCHANGED <<entries, left, postings, docs, miscount>>

IndexCount(w) ==
  /\ task[w].pc = "inc" /\ Quiet
  /\ stats' = [docs |-> task[w].read.docs + 1,
               total_len |-> task[w].read.total_len + Cardinality(task[w].text)]
  /\ Finish(w)
  /\ UNCHANGED <<entries, left, postings, docs, miscount>>

Step(w) ==
  \/ DeleteEntry(w) \/ DropLoad(w) \/ DropDoc(w) \/ DropCount(w) \/ PutDoc(w) \/ IndexCount(w)
  \/ ReadStats(w, "count_dec", "dec") \/ ReadStats(w, "count_inc", "inc")
  \/ \E t \in Terms : Retract(w, t) \/ Post(w, t)

(* What some tasks had under way is cut off, and what they wrote stays.    *)
CutOff(W) ==
  /\ faults < MaxFaults /\ faults' = faults + 1
  /\ mixed' = mixed \cup {k \in Keys : \E w \in W : task[w].pc # "idle" /\ task[w].key = k}
  /\ miscount' = (miscount \/ \E w \in W : task[w].pc \in {"count_dec", "dec", "count_inc", "inc"})
  /\ task' = [w \in Writers |-> IF w \in W THEN Idle ELSE task[w]]
  /\ call' = [w \in Writers |-> IF w \in W THEN NoCall ELSE call[w]]
  /\ UNCHANGED <<index, count, entries, left, postings, docs, stats, ops>>

Crash == CutOff(Writers)

(* A run is dropped with its consumer, or a tool with its run, or a store  *)
(* call fails.                                                             *)
CallDropped(w) ==
  /\ task[w].pc # "idle" \/ call[w].op # "none"
  /\ CutOff({w})

(* An open that had found no session creates one, which by then is there:  *)
(* its messages are counted from zero again.                               *)
CreateAgain(s) ==
  /\ index = "messages"
  /\ faults < MaxFaults /\ faults' = faults + 1
  /\ count' = [count EXCEPT ![s] = 0]
  /\ UNCHANGED <<index, call, entries, left, postings, docs, stats, task, ops, mixed, miscount>>

-----------------------------------------------------------------------------
(* search_text for one term of a query: the indexed terms it stands for,   *)
(* one, or all that a prefix matches.  A document's score is positive      *)
(* exactly if its record is there (without it the weight is 0), there are  *)
(* no more postings than documents are counted (idf), and the average      *)
(* length is not 0 (weigh); only positive scores are hits.  Bounds on how  *)
(* many hits are returned are above the number of documents.               *)
PositiveIdf(df) == stats.docs > 0 /\ stats.total_len > 0 /\ df <= stats.docs

Postings(ts) == {p \in postings : p[1] \in ts}

Search(ts) ==
  LET listed == Postings(ts)
  IN  {k \in DOMAIN docs : PositiveIdf(Cardinality(listed)) /\ \E t \in ts : <<t, k>> \in listed}

(* search_memory and recall: the entries that are there, for the names.    *)
Recall(t) == Search({t}) \cap DOMAIN entries

(* rank, which crab's store ranks by in place of an index: every entry is  *)
(* read, and the same formula takes its counts from the texts themselves.  *)
Rank(corpus, t) ==
  LET length == Cardinality({p \in Terms \X DOMAIN corpus : p[1] \in corpus[p[2]]})
  IN  IF length = 0 THEN {} ELSE {k \in DOMAIN corpus : t \in corpus[k]}

-----------------------------------------------------------------------------
(* search_sessions of the two stores.  Every session has its metadata and  *)
(* passes the filters; what its title and summary add to a score, and with *)
(* it the order of the sessions, is left out.                              *)

(* The best of the messages found in each session, texts giving their      *)
(* terms.  Weights and terms being equal, the shorter message scores       *)
(* higher, and the earlier keeps an equal score.                           *)
Best(found, texts) ==
  LET len(k) == Cardinality(texts[k])
  IN  {k \in found : \A j \in found \ {k} :
         SessionOf(j) = SessionOf(k) =>
           len(k) < len(j) \/ (len(k) = len(j) /\ PositionOf(k) < PositionOf(j))}

(* The messages stored around position i of session s.                     *)
Window(s, i) == {<<PositionOf(k), entries[k]>> : k \in {k \in DOMAIN entries :
                   SessionOf(k) = s /\ PositionOf(k) \in Minus(i, Before)..(i + After)}}

SearchSessions(t) ==
  LET hits == Best(Search({t}), docs)
  IN  {[session |-> SessionOf(k), msg_idx |-> PositionOf(k),
        window |-> Window(SessionOf(k), PositionOf(k))] : k \in hits}

(* crab's store reads each session's messages as lines, in order, and      *)
(* ranks their texts; a message's index is the number of lines before it.  *)
WindowOf(s, i) == {<<Line(entries, k), entries[k]>> : k \in {k \in DOMAIN entries :
                     SessionOf(k) = s /\ Line(entries, k) \in Minus(i, Before)..(i + After)}}

ScanSessions(corpus, t) ==
  {[session |-> SessionOf(k), msg_idx |-> Line(corpus, k),
    window |-> WindowOf(SessionOf(k), Line(corpus, k))] :
     k \in Best(Rank(corpus, t), corpus)}

-----------------------------------------------------------------------------
Init ==
  /\ index \in {"memory", "messages"}
  /\ entries = <<>> /\ postings = {} /\ docs = <<>> /\ stats = NoStats
  /\ task = [w \in Writers |-> Idle]
  /\ count = [s \in Sessions |-> 0] /\ call = [w \in Writers |-> NoCall]
  /\ ops = 0 /\ faults = 0 /\ mixed = {} /\ miscount = FALSE /\ left = <<>>

Next ==
  \/ \E w \in Writers :
       \/ \E k \in Keys : RemoveMemory(w, k) \/ \E text \in Texts : PutMemory(w, k, text)
       \/ \E s \in Sessions : AppendMessages(w, s) \/ \E k \in Keys : TruncateMessages(w, s, PositionOf(k))
       \/ \E text \in Texts : PutMessage(w, text)
       \/ HideMessage(w) \/ DropMessage(w) \/ WriteCount(w)
       \/ Step(w) \/ CallDropped(w)
  \/ Crash
  \/ \E s \in Sessions : CreateAgain(s)

Spec == Init /\ [][Next]_vars

-----------------------------------------------------------------------------
(* Every key of the index is an entry's, every posting is a term's, and    *)
(* the counters do not go below zero or beyond what was ever counted.      *)
TypeOK ==
  /\ index \in {"memory", "messages"}
  /\ DOMAIN entries \subseteq Keys /\ Range(entries) \subseteq Texts
  /\ DOMAIN left \subseteq DOMAIN entries /\ Range(left) \subseteq Texts \ {{}}
  /\ postings \subseteq Terms \X Keys
  /\ DOMAIN docs \subseteq Keys /\ Range(docs) \subseteq Texts \ {{}}
  /\ stats \in [docs : 0..MaxOps, total_len : 0..(MaxOps * Cardinality(Terms))]
  /\ task \in [Writers -> [pc : {"idle", "drop", "retract", "undoc", "count_dec", "dec", "delete",
                                 "post", "doc", "count_inc", "inc"},
                           op : {"put", "remove"}, key : Keys, text : Texts, todo : Texts,
                           doc : Texts, read : [docs : Nat, total_len : Nat]]]
  /\ count \in [Sessions -> Nat]
  /\ call \in [Writers -> [op : {"none", "read", "append", "truncate"}, session : Sessions,
                           next : Nat, rest : SUBSET Keys]]
  /\ mixed \subseteq Keys /\ miscount \in BOOLEAN

Indexed(k) == {t \in Terms : <<t, k>> \in postings}

(* An entry on which no two tasks worked at once and none was cut off is   *)
(* in the index with exactly the terms it was last indexed with, whatever  *)
(* other entries are being written, and an entry that is gone has left     *)
(* nothing behind.                                                         *)
IndexMatches == \A k \in Keys \ mixed : ~Busy(k) =>
  /\ Indexed(k) = IndexedText(k)
  /\ (k \in DOMAIN docs) = (IndexedText(k) # {})
  /\ k \in DOMAIN docs => docs[k] = IndexedText(k)

(* Every key of the index is an entry's, every posting a term's, the       *)
(* counters stay in their range, and the index matches the entries.        *)
IndexInv == TypeOK /\ IndexMatches

(* What an entry was last indexed with is what it is: append_session_      *)
(* messages puts a message that is not indexable over one that was only if *)
(* a fault or another task left that one past the count, and nowhere else. *)
(* It appends where the stored messages end, and truncate_session_messages *)
(* drops what it deletes.                                                  *)
StaleAfterFault ==
  \A k \in DOMAIN left : index = "messages" /\ (faults > 0 \/ k \in mixed)

(* The positions of a session's messages have no gap: what was deleted was *)
(* the end.  A truncate_session_messages that is cut off leaves one.       *)
Gapless == \A k \in DOMAIN entries : \A i \in 0..PositionOf(k) : <<SessionOf(k), i>> \in DOMAIN entries

(* The entries with the texts that they are indexed with.                  *)
Held == [k \in DOMAIN entries |-> IndexedText(k)]

(* "A query ranks the same here as against a store that keeps postings":   *)
(* when nothing is being written and every task has counted by itself, a   *)
(* search of the index finds the entries that a ranking of all of them     *)
(* finds, and a search of the sessions the same message of each, in the    *)
(* same window, as far as the entries are as they were indexed.            *)
SearchAgrees ==
  (~miscount /\ mixed = {} /\ \A w \in Writers : task[w].pc = "idle")
    => \A t \in Terms : /\ Recall(t) = Rank(Held, t)
                        /\ Gapless => SearchSessions(t) = ScanSessions(Held, t)
=============================================================================
