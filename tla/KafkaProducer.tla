---------------------------- MODULE KafkaProducer ----------------------------
(***************************************************************************)
(* kafka/producer.py: one run of produce(), from the topic's creation to   *)
(* the return of flush().  The main thread hands each transaction to the   *)
(* client library, whose own thread sends it, waits for the broker, sends  *)
(* it again - "retries": 5, and no idempotence - and reports its delivery. *)
(*                                                                         *)
(* A message is a position in the list the generator returned.  Messages   *)
(* the library batches into one request share their fate, which is a case  *)
(* of requests of one.  Pacing by --tps is timing only and left out.       *)
(***************************************************************************)
EXTENDS Generator, Sequences

CONSTANTS
  Records,        \* --records
  GeneratedAt,    \* the instant the generator takes for now
  Lists,          \* lists it may return then
  Hash,           \* the partitioner's hash of an account
  NUM_PARTITIONS, \* config/settings.py: KAFKA_NUM_PARTITIONS, 12
  RETRIES,        \* 5
  QueueMax        \* queue.buffering.max.messages, the library's default

Messages == Records + DuplicateCount(Records)
Msg == 1..Messages
Partition == 0..NUM_PARTITIONS - 1

ASSUME ProducerAssumption ==
  /\ Records \in Nat /\ NUM_PARTITIONS \in Nat \ {0} /\ RETRIES \in Nat /\ QueueMax \in Nat
  /\ GeneratedAt \in Nat
  /\ \A list \in Lists : GenerateTransactions(list, Records, GeneratedAt)
  /\ Hash \in [Accounts -> Nat]

VARIABLES
  phase,      \* where the main thread is
  list,       \* the transactions, <<>> before they are generated
  next,       \* the transaction it produces next
  topic,      \* number of partitions of the topic, 0 while there is none
  requested,  \* a create-topic request is on its way
  queue,      \* messages in the library's queue
  wire,       \* requests under way, in the order sent; awaited: the client waits
  tries,      \* how often each message has been sent
  report,     \* the delivery report of each message
  log         \* the partitions, as sequences of messages

client == <<queue, wire, tries, report>>
vars == <<phase, list, next, topic, requested, client, log>>

TypeOK ==
  /\ phase \in {"start", "producing", "flushing", "done", "dead"}
  /\ list \in Lists \cup {<<>>}
  /\ next \in 1..Messages + 1
  /\ topic \in {0, 1, NUM_PARTITIONS} /\ requested \in BOOLEAN
  /\ queue \subseteq Msg
  /\ wire \in Seq([id : Msg, awaited : BOOLEAN])
  /\ tries \in [Msg -> 0..RETRIES + 1]
  /\ report \in [Msg -> {"none", "delivered", "failed"}]
  /\ log \in [Partition -> Seq(Msg)]

Init ==
  /\ phase = "start" /\ list = <<>> /\ next = 1
  /\ topic \in {0, NUM_PARTITIONS} /\ requested = FALSE
  /\ queue = {} /\ wire = <<>>
  /\ tries = [m \in Msg |-> 0] /\ report = [m \in Msg |-> "none"]
  /\ log = [p \in Partition |-> <<>>]

RoundRobin(m) == m % topic
PartitionOf(m) == Hash[list[m].account_id] % topic

-----------------------------------------------------------------------------
(* The main thread *)

\* create_topics returns futures nobody waits for.  Then the list is generated.
EnsureTopic ==
  /\ phase = "start" /\ phase' = "producing"
  /\ requested' = (topic = 0)
  /\ list' \in Lists
  /\ UNCHANGED <<next, topic, client, log>>

Outstanding == {m \in 1..next - 1 : report[m] = "none"}

Produce ==
  /\ phase = "producing" /\ next <= Messages
  /\ Cardinality(Outstanding) < QueueMax
  /\ queue' = queue \cup {next}
  /\ next' = next + 1
  /\ UNCHANGED <<phase, list, topic, requested, wire, tries, report, log>>

\* The process ends: what the library holds is gone, what is under way is not.
Die ==
  /\ phase' = "dead"
  /\ queue' = {}
  /\ wire' = [i \in DOMAIN wire |-> [wire[i] EXCEPT !.awaited = FALSE]]
  /\ UNCHANGED <<list, next, topic, requested, tries, report, log>>

\* produce() raises BufferError, which nothing catches.  (A report poll(0) has
\* yet to serve still takes its place in the queue: a moment more of the same.)
BufferFull ==
  /\ phase = "producing" /\ next <= Messages
  /\ Cardinality(Outstanding) >= QueueMax
  /\ Die

Flush ==
  /\ phase = "producing" /\ next > Messages
  /\ phase' = "flushing"
  /\ UNCHANGED <<list, next, topic, requested, client, log>>

AllDelivered == \A m \in Msg : report[m] = "delivered"
AllReported == \A m \in Msg : report[m] # "none"

FlushReturns ==
  /\ phase = "flushing" /\ AllReported
  /\ phase' = "done"
  /\ UNCHANGED <<list, next, topic, requested, client, log>>

\* An interrupt, a kill, or list_topics timing out.
Crash ==
  /\ phase \in {"start", "producing", "flushing"}
  /\ Die

-----------------------------------------------------------------------------
(* The topic (broker) *)

CreateTopic ==
  /\ requested /\ topic = 0
  /\ topic' = NUM_PARTITIONS
  /\ UNCHANGED <<phase, list, next, requested, client, log>>

\* KAFKA_AUTO_CREATE_TOPICS_ENABLE: looking for the partitions of an unknown
\* topic makes the broker create it with its own default, one.
AutoCreateTopic ==
  /\ queue # {} /\ topic = 0
  /\ topic' = 1
  /\ UNCHANGED <<phase, list, next, requested, client, log>>

-----------------------------------------------------------------------------
(* The client library and the broker *)

AnyQueued(m) == m \in queue
FirstQueued(m) ==
  m \in queue /\ \A k \in queue : PartitionOf(k) = PartitionOf(m) => m <= k

Send(m) ==
  /\ topic # 0 /\ m \in queue /\ FirstQueued(m)
  /\ queue' = queue \ {m}
  /\ wire' = Append(wire, [id |-> m, awaited |-> TRUE])
  /\ tries' = [tries EXCEPT ![m] = @ + 1]
  /\ UNCHANGED <<phase, list, next, topic, requested, report, log>>

Without(s, i) == [j \in 1..Len(s) - 1 |-> IF j < i THEN s[j] ELSE s[j + 1]]

\* The broker handles the requests of a connection in the order sent.  Requests
\* of connections the client has given up arrive whenever they arrive.
Reachable(i) == wire[i].awaited => \A j \in 1..i - 1 : ~wire[j].awaited

AppendToLog(i, p) == log' = [log EXCEPT ![p] = Append(@, wire[i].id)]

\* acks=all: the broker has appended the message when it answers.
Handle(i) ==
  /\ Reachable(i)
  /\ AppendToLog(i, PartitionOf(wire[i].id))
  /\ wire' = Without(wire, i)
  /\ report' = IF wire[i].awaited THEN [report EXCEPT ![wire[i].id] = "delivered"] ELSE report
  /\ UNCHANGED <<phase, list, next, topic, requested, queue, tries>>

\* A request that nobody waits for never gets there.
Drop(i) ==
  /\ ~wire[i].awaited
  /\ wire' = Without(wire, i)
  /\ UNCHANGED <<phase, list, next, topic, requested, queue, tries, report, log>>

RetryAlways(n) == TRUE
MayRetry(n) == n <= RETRIES

Forget(m) == report
Fail(m) == [report EXCEPT ![m] = "failed"]

\* The request or its answer is lost, or the answer is an error: the message is
\* queued again, or reported as failed when no retry is left, the error is
\* final or the message is too old.  A broken connection is one such step for
\* each of its requests, from the first.
Lose(i) ==
  /\ wire[i].awaited /\ Reachable(i)
  /\ wire' = [wire EXCEPT ![i].awaited = FALSE]
  /\ LET m == wire[i].id IN
       \/ MayRetry(tries[m]) /\ queue' = queue \cup {m} /\ report' = report
       \/ queue' = queue /\ report' = Fail(m)
  /\ UNCHANGED <<phase, list, next, topic, requested, tries, log>>

\* message.timeout.ms has passed while the message was in the queue.
GiveUp(m) ==
  /\ m \in queue
  /\ queue' = queue \ {m}
  /\ report' = Fail(m)
  /\ UNCHANGED <<phase, list, next, topic, requested, wire, tries, log>>

-----------------------------------------------------------------------------
Main == EnsureTopic \/ Produce \/ BufferFull \/ Flush \/ FlushReturns

Next ==
  \/ EnsureTopic \/ Produce \/ BufferFull \/ Flush \/ FlushReturns \/ Crash
  \/ CreateTopic \/ AutoCreateTopic
  \/ \E m \in Msg : Send(m) \/ GiveUp(m)
  \/ \E i \in DOMAIN wire : Handle(i) \/ Drop(i) \/ Lose(i)

Spec == Init /\ [][Next]_vars

\* The main thread runs, and the library's timers fire: a message waits neither
\* in the queue nor for an answer for ever.  Of the broker nothing is assumed.
Fairness ==
  /\ WF_vars(Main)
  /\ \A m \in Msg : WF_vars(GiveUp(m))
  /\ WF_vars(\E i \in DOMAIN wire : Lose(i))

FairSpec == Spec /\ Fairness

-----------------------------------------------------------------------------
(* Safety *)

Copies(m, p) == {o \in DOMAIN log[p] : log[p][o] = m}

\* While the process lives no message disappears: it has its report, or is in
\* the queue, or exactly one request for it is waited for.
NoneForgotten ==
  phase # "dead" =>
    \A m \in 1..next - 1 :
      LET awaited == {i \in DOMAIN wire : wire[i].id = m /\ wire[i].awaited} IN
        /\ Cardinality(awaited) <= 1
        /\ (report[m] = "none") <=> (m \in queue \/ awaited # {})

\* Retries duplicate, within bounds, and never across partitions.
CopiesAreBounded ==
  \A p \in Partition : \A m \in Msg :
    /\ Cardinality(Copies(m, p)) <= RETRIES + 1
    /\ Copies(m, p) # {} => p = PartitionOf(m)

\* A message that was sent once and reported as delivered has not been overtaken
\* by a later one of its partition: the order is lost only to retries and to
\* late requests of messages given up.
NotOvertaken ==
  \A p \in Partition : \A i, j \in DOMAIN log[p] :
    LET m == log[p][j] IN
      i < j /\ tries[m] = 1 /\ report[m] = "delivered" => log[p][i] < m

\* Whatever the generator copied, and however the topic came to be, all copies
\* of a transaction are in one partition: a reader of partitions in parallel
\* still sees them in one order.
DuplicatesShareAPartition ==
  \A p, q \in Partition : \A i \in DOMAIN log[p], j \in DOMAIN log[q] :
    list[log[p][i]] = list[log[q][j]] => p = q

-----------------------------------------------------------------------------
(* Liveness *)

\* The run ends, even if no broker ever answers: flush() waits for reports, and
\* every message gets one.
ProducerEnds == <>(phase \in {"done", "dead"})

-----------------------------------------------------------------------------
(* What the documentation says and the code does not do *)

\* producer.py:5 "Keyed by account_id to preserve ordering per account across
\* partitions": the transactions of an account are in the topic in the order
\* in which they were produced.
OrderPerAccount ==
  \A p \in Partition : \A i, j \in DOMAIN log[p] :
    i < j /\ list[log[p][i]].account_id = list[log[p][j]].account_id => log[p][i] <= log[p][j]
=============================================================================
