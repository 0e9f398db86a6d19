---------------------------- MODULE BronzeIngest ----------------------------
(***************************************************************************)
(* spark/bronze/ingest_transactions.py: the streaming query from the Kafka *)
(* topic to the Bronze table.  The file chooses the source's options and   *)
(* the sink's; Structured Streaming then runs each micro-batch through     *)
(* three durable writes - the offset log, the Delta commit, which carries  *)
(* the batch id, and the commit log - and the driver may die between them. *)
(* Meanwhile producers append to the topic and retention expires its head. *)
(*                                                                         *)
(* A record is its partition and offset.  What the rows contain and the    *)
(* timestamps of the micro-batches are SilverJobs' subject.                *)
(***************************************************************************)
EXTENDS Integers, FiniteSets

CONSTANTS
  Partition,             \* partitions of the topic
  StartingOffsets,       \* --starting-offsets: "latest" unless given
  MaxOffsetsPerTrigger,  \* 100_000 in the source
  MaxRecords,            \* bound on the records produced to a partition
  MaxCrashes,            \* bound on the crashes of the driver
  NoBatch                \* the driver holds no records

ASSUME IngestAssumption ==
  /\ StartingOffsets \in {"earliest", "latest"}
  /\ MaxOffsetsPerTrigger \in Nat /\ MaxRecords \in Nat /\ MaxCrashes \in Nat

VARIABLES
  begin, end,       \* the topic retains the offsets begin[p] .. end[p] - 1
  started, initial, \* checkpoint: the source's initial offsets, once written
  from, to,         \* checkpoint: the last entry of the offset log
  logged,           \* checkpoint: batch id of that entry
  committed,        \* checkpoint: last batch id in the commit log
  bronze, version,  \* the Delta table: its rows, its number of commits
  sinkTxn,          \* the batch id recorded by the last Delta commit
  up,               \* the driver is running
  fetched,          \* in its memory: the records of the current batch, or NoBatch
  crashes

topic == <<begin, end>>
checkpoint == <<started, initial, from, to, logged, committed>>
table == <<bronze, version, sinkTxn>>
vars == <<topic, checkpoint, table, up, fetched, crashes>>

Row == [partition : Partition, offset : Nat, version : Nat]

TypeOK ==
  /\ begin \in [Partition -> Nat] /\ end \in [Partition -> Nat]
  /\ started \in BOOLEAN /\ initial \in [Partition -> Nat]
  /\ from \in [Partition -> Nat] /\ to \in [Partition -> Nat]
  /\ logged \in Nat /\ committed \in Nat
  /\ bronze \subseteq Row /\ version \in Nat /\ sinkTxn \in Nat
  /\ up \in BOOLEAN
  /\ fetched \in (SUBSET (Partition \X Nat)) \cup {NoBatch}
  /\ crashes \in Nat

Zero == [p \in Partition |-> 0]

Init ==
  /\ begin = Zero /\ end = Zero
  /\ started = FALSE /\ initial = Zero /\ from = Zero /\ to = Zero
  /\ logged = 0 /\ committed = 0
  /\ bronze = {} /\ version = 0 /\ sinkTxn = 0
  /\ up = FALSE /\ fetched = NoBatch /\ crashes = 0

-----------------------------------------------------------------------------
(* The topic *)

Produce(p) ==
  /\ end[p] < MaxRecords
  /\ end' = [end EXCEPT ![p] = @ + 1]
  /\ UNCHANGED <<begin, checkpoint, table, up, fetched, crashes>>

Expire(p) ==
  /\ begin[p] < end[p]
  /\ begin' = [begin EXCEPT ![p] = @ + 1]
  /\ UNCHANGED <<end, checkpoint, table, up, fetched, crashes>>

-----------------------------------------------------------------------------
(* The driver *)

LastRecord(b, e) == [p \in Partition |-> IF StartingOffsets = "latest" THEN e[p] - 1 ELSE b[p]]
FirstOffsets(b, e) == IF StartingOffsets = "latest" THEN e ELSE b

\* A driver starts.  The first one, finding no checkpoint, writes the initial
\* offsets; a later one goes on where the checkpoint left off.
StartQuery ==
  /\ ~up
  /\ up' = TRUE
  /\ IF ~started
     THEN /\ started' = TRUE
          /\ initial' = FirstOffsets(begin, end)
          /\ from' = FirstOffsets(begin, end) /\ to' = FirstOffsets(begin, end)
     ELSE UNCHANGED <<started, initial, from, to>>
  /\ UNCHANGED <<topic, logged, committed, table, fetched, crashes>>

Crash ==
  /\ up /\ crashes < MaxCrashes
  /\ up' = FALSE /\ fetched' = NoBatch /\ crashes' = crashes + 1
  /\ UNCHANGED <<topic, checkpoint, table>>

AllButHead(f, t, b) ==
  {x \in Partition \X (0..MaxRecords) :
     f[x[1]] <= x[2] /\ x[2] < t[x[1]] /\ b[x[1]] < x[2]}
ToBeRead(f, t, b) ==
  {x \in Partition \X (0..MaxRecords) :
     f[x[1]] <= x[2] /\ x[2] < t[x[1]] /\ b[x[1]] <= x[2]}

BacklogOfTwo(t) == {p \in Partition : t[p] + 1 < end[p]}
Backlog(t) == {p \in Partition : t[p] < end[p]}

\* The trigger logs the next batch: every partition with a backlog gets a share
\* of maxOffsetsPerTrigger, at least one record.
PlanBatch ==
  /\ up /\ logged = committed /\ Backlog(to) # {}
  /\ \E target \in [Partition -> 0..MaxRecords] :
       /\ \A p \in Partition : IF p \in Backlog(to) THEN to[p] < target[p] /\ target[p] <= end[p]
                               ELSE target[p] = to[p]
       /\ \/ Cardinality(ToBeRead(to, target, Zero)) <= MaxOffsetsPerTrigger
          \/ \A p \in Backlog(to) : target[p] = to[p] + 1
       /\ to' = target
  /\ from' = to
  /\ logged' = logged + 1
  /\ UNCHANGED <<topic, started, initial, committed, table, up, fetched, crashes>>

AlwaysWrite(batch) == TRUE
NotYetInTable(batch) == sinkTxn < batch

\* The executors read the batch.  With failOnDataLoss = "false" offsets that
\* have expired meanwhile are passed over.
FetchBatch ==
  /\ up /\ committed < logged /\ NotYetInTable(logged) /\ fetched = NoBatch
  /\ fetched' = ToBeRead(from, to, begin)
  /\ UNCHANGED <<topic, checkpoint, table, up, crashes>>

\* The sink appends the batch and records its id, in one Delta commit.
AppendToBronze ==
  /\ up /\ fetched # NoBatch
  /\ bronze' = bronze \cup
       {[partition |-> x[1], offset |-> x[2], version |-> version] : x \in fetched}
  /\ version' = version + 1
  /\ sinkTxn' = logged
  /\ fetched' = NoBatch
  /\ UNCHANGED <<topic, checkpoint, up, crashes>>

\* A batch whose id the table already records is not written again.
CommitBatch ==
  /\ up /\ committed < logged /\ sinkTxn = logged
  /\ committed' = logged
  /\ UNCHANGED <<topic, started, initial, from, to, logged, table, up, fetched, crashes>>

-----------------------------------------------------------------------------
Next ==
  \/ \E p \in Partition : Produce(p) \/ Expire(p)
  \/ StartQuery \/ Crash
  \/ PlanBatch \/ FetchBatch \/ AppendToBronze \/ CommitBatch

Spec == Init /\ [][Next]_vars

\* While the driver runs, its trigger fires every --trigger-interval and a batch
\* makes progress.  Nothing in the repository restarts a driver that died.
Fairness ==
  WF_vars(PlanBatch) /\ WF_vars(FetchBatch) /\ WF_vars(AppendToBronze) /\ WF_vars(CommitBatch)

FairSpec == Spec /\ Fairness

-----------------------------------------------------------------------------
(* Safety *)

\* Offsets below are in the table, or will never be.
Settled == IF sinkTxn = logged THEN to ELSE from

\* No record is in Bronze twice, wherever the driver died, and the records of a
\* partition are in commits in the order of their offsets.
ExactlyOnceInOrder ==
  \A r, q \in bronze :
    r.partition = q.partition /\ r # q =>
      /\ r.offset # q.offset
      /\ r.version < q.version => r.offset < q.offset

\* From the initial offsets on, every settled record is in Bronze, unless it
\* expired before it could be read: a restart skips nothing.
NoGap ==
  started =>
    \A p \in Partition : \A o \in initial[p]..Settled[p] - 1 :
      o < begin[p] \/ \E r \in bronze : r.partition = p /\ r.offset = o

\* The query implements the ledger.
Ledger == INSTANCE BronzeLedger WITH settled <- Settled
LedgerSpec == Ledger!Spec

-----------------------------------------------------------------------------
(* Liveness *)

Waiting(p, o) == up /\ initial[p] <= o /\ o < end[p]
Arrived(p, o) == \E r \in bronze : r.partition = p /\ r.offset = o

\* A record that is in the topic while the driver runs gets into Bronze, unless
\* it expires or the driver dies first.
RecordsArrive ==
  \A p \in Partition : \A o \in 0..MaxRecords - 1 :
    Waiting(p, o) ~> (Arrived(p, o) \/ o < begin[p] \/ ~up)

-----------------------------------------------------------------------------
(* What the documentation says and the code does not do *)

\* README.md:74 "Full audit trail": whatever was produced before the offsets the
\* stream has settled, and has not expired, is in Bronze.
FullAuditTrail ==
  started =>
    \A p \in Partition : \A o \in 0..Settled[p] - 1 : o < begin[p] \/ Arrived(p, o)
=============================================================================
