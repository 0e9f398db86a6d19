------------------------- MODULE BronzeIngestProofs -------------------------
(***************************************************************************)
(* The Bronze stream, for any topic, limit and number of crashes: each     *)
(* record lands at most once and in order, none is skipped, and the query  *)
(* implements the ledger.  The argument follows the batch id through the   *)
(* three durable writes: the table is at most one batch behind the offset  *)
(* log, and the commit log at most one behind it as well.                  *)
(***************************************************************************)
EXTENDS BronzeIngest, TLAPS

\* Where the offset log, the table and the commit log stand to one another.
BatchInv ==
  /\ committed <= sinkTxn /\ sinkTxn <= logged /\ logged <= committed + 1
  /\ \A p \in Partition : begin[p] <= end[p] /\ end[p] <= MaxRecords
  /\ \A p \in Partition : initial[p] <= from[p] /\ from[p] <= to[p] /\ to[p] <= end[p]
  /\ ~started => /\ ~up /\ logged = 0 /\ bronze = {} /\ version = 0
                 /\ initial = Zero /\ from = Zero /\ to = Zero
  /\ ~up => fetched = NoBatch

\* What the driver holds is the batch last logged, without what has expired.
FetchedInv ==
  fetched # NoBatch =>
    /\ sinkTxn < logged
    /\ \A x \in fetched : from[x[1]] <= x[2] /\ x[2] < to[x[1]]
    /\ \A p \in Partition : \A o \in from[p]..to[p] - 1 : o < begin[p] \/ <<p, o>> \in fetched

\* Everything in the table is below what is settled.
RowsInv ==
  \A r \in bronze : r.version < version /\ r.offset < Settled[r.partition]

IInv == TypeOK /\ BatchInv /\ FetchedInv /\ RowsInv /\ ExactlyOnceInOrder /\ NoGap

-----------------------------------------------------------------------------
LEMMA ToBeReadType ==
  ASSUME NEW f, NEW t, NEW b
  PROVE  /\ ToBeRead(f, t, b) \in SUBSET (Partition \X Nat)
         /\ \A x \in ToBeRead(f, t, b) : f[x[1]] <= x[2] /\ x[2] < t[x[1]]
         /\ \A p \in Partition : \A o \in 0..MaxRecords :
              f[p] <= o /\ o < t[p] /\ b[p] <= o => <<p, o>> \in ToBeRead(f, t, b)
BY IngestAssumption DEF ToBeRead

LEMMA FirstOffsetsType ==
  ASSUME TypeOK, BatchInv
  PROVE  /\ FirstOffsets(begin, end) \in [Partition -> Nat]
         /\ \A p \in Partition : FirstOffsets(begin, end)[p] <= end[p]
BY DEF FirstOffsets, TypeOK, BatchInv

LEMMA InvInit == Init => IInv
<1> SUFFICES ASSUME Init PROVE IInv
  OBVIOUS
<1> USE DEF Init
<1>1. TypeOK
  BY DEF TypeOK, Zero
<1>2. BatchInv
  BY IngestAssumption DEF BatchInv, Zero
<1>3. FetchedInv /\ RowsInv /\ ExactlyOnceInOrder /\ NoGap
  BY DEF FetchedInv, RowsInv, ExactlyOnceInOrder, NoGap
<1> QED
  BY <1>1, <1>2, <1>3 DEF IInv

LEMMA TypeStep ==
  ASSUME TypeOK, BatchInv, FetchedInv, [Next]_vars
  PROVE  TypeOK'
<1> USE DEF TypeOK, topic, checkpoint, table
<1>1. ASSUME NEW p \in Partition, Produce(p)
      PROVE  TypeOK'
  BY <1>1 DEF Produce
<1>2. ASSUME NEW p \in Partition, Expire(p)
      PROVE  TypeOK'
  BY <1>2 DEF Expire
<1>3. CASE StartQuery
  BY <1>3, FirstOffsetsType DEF StartQuery
<1>4. CASE Crash
  <2>1. up' \in BOOLEAN
    BY <1>4 DEF Crash
  <2>2. crashes' \in Nat
    BY <1>4 DEF Crash
  <2>3. /\ fetched' = NoBatch
        /\ UNCHANGED <<begin, end, started, initial, from, to, logged, committed,
                       bronze, version, sinkTxn>>
    BY <1>4 DEF Crash
  <2> QED
    BY <2>1, <2>2, <2>3
<1>5. CASE PlanBatch
  BY <1>5, IngestAssumption DEF PlanBatch
<1>6. CASE FetchBatch
  BY <1>6, ToBeReadType DEF FetchBatch
<1>7. CASE AppendToBronze
  BY <1>7 DEF AppendToBronze, Row
<1>8. CASE CommitBatch
  BY <1>8 DEF CommitBatch
<1>9. CASE UNCHANGED vars
  BY <1>9 DEF vars
<1> QED
  BY <1>1, <1>2, <1>3, <1>4, <1>5, <1>6, <1>7, <1>8, <1>9 DEF Next

LEMMA BatchStep ==
  ASSUME TypeOK, BatchInv, FetchedInv, TypeOK', [Next]_vars
  PROVE  BatchInv' /\ FetchedInv'
<1> USE DEF TypeOK, BatchInv, FetchedInv, topic, checkpoint, table
<1>1. ASSUME NEW p \in Partition, Produce(p)
      PROVE  BatchInv' /\ FetchedInv'
  BY <1>1, IngestAssumption DEF Produce
<1>2. ASSUME NEW p \in Partition, Expire(p)
      PROVE  BatchInv' /\ FetchedInv'
  BY <1>2 DEF Expire
<1>3. CASE StartQuery
  BY <1>3, FirstOffsetsType DEF StartQuery
<1>4. CASE Crash
  BY <1>4 DEF Crash
<1>5. CASE PlanBatch
  BY <1>5, IngestAssumption DEF PlanBatch, Backlog
<1>6. CASE FetchBatch
  BY <1>6, ToBeReadType, IngestAssumption DEF FetchBatch, NotYetInTable
<1>7. CASE AppendToBronze
  BY <1>7 DEF AppendToBronze
<1>8. CASE CommitBatch
  BY <1>8 DEF CommitBatch
<1>9. CASE UNCHANGED vars
  BY <1>9 DEF vars
<1> QED
  BY <1>1, <1>2, <1>3, <1>4, <1>5, <1>6, <1>7, <1>8, <1>9 DEF Next

-----------------------------------------------------------------------------
(* How the settled offsets and the rows change *)

\* Only the first start and a commit of the sink move the settled offsets.
LEMMA SettledStep ==
  ASSUME TypeOK, BatchInv, FetchedInv, [Next]_vars
  PROVE  \/ Settled' = Settled
         \/ ~started /\ StartQuery
         \/ AppendToBronze
<1> USE DEF topic, checkpoint, table, Settled
<1>1. CASE \E p \in Partition : Produce(p) \/ Expire(p)
  BY <1>1 DEF Produce, Expire
<1>2. CASE StartQuery
  BY <1>2 DEF StartQuery
<1>3. CASE Crash
  BY <1>3 DEF Crash
<1>4. CASE PlanBatch
  BY <1>4 DEF PlanBatch, TypeOK, BatchInv
<1>5. CASE FetchBatch
  BY <1>5 DEF FetchBatch
<1>6. CASE CommitBatch
  BY <1>6 DEF CommitBatch
<1>7. CASE UNCHANGED vars
  BY <1>7 DEF vars
<1> QED
  BY <1>1, <1>2, <1>3, <1>4, <1>5, <1>6, <1>7 DEF Next

LEMMA OnlySinkWrites ==
  ASSUME [Next]_vars, ~AppendToBronze
  PROVE  UNCHANGED table
BY DEF Next, vars, Produce, Expire, StartQuery, Crash, PlanBatch, FetchBatch, CommitBatch

\* What the sink's commit does to the table and to what is settled.
LEMMA SinkCommit ==
  ASSUME TypeOK, BatchInv, FetchedInv, AppendToBronze
  PROVE  /\ Settled = from /\ Settled' = to
         /\ \A p \in Partition : from[p] <= to[p]
         /\ bronze \subseteq bronze' /\ version' = version + 1
         /\ \A r \in bronze' \ bronze :
              /\ r.partition \in Partition /\ r.version = version
              /\ from[r.partition] <= r.offset /\ r.offset < to[r.partition]
         /\ \A p \in Partition : \A o \in from[p]..to[p] - 1 :
              o < begin[p] \/ \E r \in bronze' : r.partition = p /\ r.offset = o
<1> USE DEF AppendToBronze, FetchedInv, checkpoint, TypeOK
<1>1. Settled = from /\ Settled' = to
  BY DEF Settled
<1>2. \A x \in fetched : x[1] \in Partition /\ x[2] \in Nat
  OBVIOUS
<1>3. bronze \subseteq bronze' /\ version' = version + 1
  OBVIOUS
<1>4. ASSUME NEW r \in bronze' \ bronze
      PROVE  /\ r.partition \in Partition /\ r.version = version
             /\ from[r.partition] <= r.offset /\ r.offset < to[r.partition]
  <2>1. PICK x \in fetched : r = [partition |-> x[1], offset |-> x[2], version |-> version]
    BY <1>4
  <2> QED
    BY <1>2, <2>1
<1>5. ASSUME NEW p \in Partition, NEW o \in from[p]..to[p] - 1
      PROVE  o < begin[p] \/ \E r \in bronze' : r.partition = p /\ r.offset = o
  <2>1. CASE <<p, o>> \in fetched
    <3>1. [partition |-> p, offset |-> o, version |-> version] \in bronze'
      BY <2>1
    <3> QED
      BY <3>1
  <2> QED
    BY <1>5, <2>1
<1> QED
  BY <1>1, <1>3, <1>4, <1>5 DEF BatchInv

LEMMA RowsStep ==
  ASSUME IInv, TypeOK', [Next]_vars
  PROVE  RowsInv' /\ ExactlyOnceInOrder'
<1> USE DEF IInv, TypeOK
<1>1. CASE AppendToBronze
  <2> USE <1>1, SinkCommit DEF Row
  <2>1. \A r \in bronze : r.version < version /\ r.offset < from[r.partition]
    BY DEF RowsInv
  <2>2. RowsInv'
    BY <2>1 DEF RowsInv, BatchInv
  <2>3. \A r, q \in bronze' \ bronze : r.partition = q.partition /\ r.offset = q.offset => r = q
    BY DEF AppendToBronze
  <2>4. ASSUME NEW r \in bronze', NEW q \in bronze', r.partition = q.partition, r # q
        PROVE  r.offset # q.offset /\ (r.version < q.version => r.offset < q.offset)
    <3>1. CASE r \in bronze /\ q \in bronze
      BY <2>4, <3>1 DEF ExactlyOnceInOrder
    <3>2. CASE r \in bronze /\ q \notin bronze
      BY <2>1, <2>4, <3>2
    <3>3. CASE r \notin bronze /\ q \in bronze
      BY <2>1, <2>4, <3>3
    <3>4. CASE r \notin bronze /\ q \notin bronze
      BY <2>3, <2>4, <3>4
    <3> QED
      BY <3>1, <3>2, <3>3, <3>4
  <2> QED
    BY <2>2, <2>4 DEF ExactlyOnceInOrder
<1>2. CASE ~AppendToBronze
  <2>1. UNCHANGED table
    BY <1>2, OnlySinkWrites
  <2>2. CASE Settled' = Settled
    BY <2>1, <2>2 DEF table, RowsInv, ExactlyOnceInOrder
  <2>3. CASE ~started /\ StartQuery
    BY <2>1, <2>3 DEF table, BatchInv, RowsInv, ExactlyOnceInOrder
  <2> QED
    BY <1>2, <2>2, <2>3, SettledStep
<1> QED
  BY <1>1, <1>2

LEMMA GapStep ==
  ASSUME IInv, TypeOK', [Next]_vars
  PROVE  NoGap'
<1> USE DEF IInv, TypeOK
<1>1. \A p \in Partition : begin[p] <= begin'[p]
  BY DEF Next, vars, topic, Produce, Expire, StartQuery, Crash, PlanBatch, FetchBatch,
     AppendToBronze, CommitBatch
<1>2. UNCHANGED <<started, initial>> \/ (~started /\ StartQuery)
  BY DEF Next, vars, checkpoint, Produce, Expire, StartQuery, Crash, PlanBatch, FetchBatch,
     AppendToBronze, CommitBatch
<1>3. CASE ~started /\ StartQuery
  <2>1. initial' = Settled'
    BY <1>3 DEF StartQuery, table, BatchInv, Settled
  <2> QED
    BY <2>1 DEF NoGap
<1>4. CASE AppendToBronze
  <2>1. \A p \in Partition : from[p] \in Nat /\ to[p] \in Nat /\ initial[p] \in Nat
    OBVIOUS
  <2>2. started' = started /\ initial' = initial /\ begin' = begin
    BY <1>4 DEF AppendToBronze, checkpoint, topic
  <2> QED
    BY <1>4, <2>1, <2>2, SinkCommit DEF NoGap
<1>5. CASE Settled' = Settled /\ ~AppendToBronze /\ UNCHANGED <<started, initial>>
  <2>1. bronze' = bronze
    BY <1>5, OnlySinkWrites DEF table
  <2>2. ASSUME started, NEW p \in Partition, NEW o \in initial[p]..Settled[p] - 1
        PROVE  o < begin'[p] \/ \E r \in bronze : r.partition = p /\ r.offset = o
    <3>1. o < begin[p] \/ \E r \in bronze : r.partition = p /\ r.offset = o
      BY <2>2 DEF NoGap
    <3>2. begin[p] \in Nat /\ begin'[p] \in Nat /\ o \in Int
      BY <2>2
    <3> QED
      BY <1>1, <3>1, <3>2
  <2> QED
    BY <1>5, <2>1, <2>2 DEF NoGap
<1> QED
  BY <1>2, <1>3, <1>4, <1>5, SettledStep

-----------------------------------------------------------------------------
(* The theorems *)

\* The invariant of the stream: the three durable writes of a micro-batch are in
\* step, and what the driver holds is exactly the batch logged last.
THEOREM IngestInvariant == Spec => []IInv
<1>1. ASSUME IInv, [Next]_vars PROVE IInv'
  <2>1. TypeOK'
    BY <1>1, TypeStep DEF IInv
  <2>2. BatchInv' /\ FetchedInv'
    BY <1>1, <2>1, BatchStep DEF IInv
  <2> QED
    BY <1>1, <2>1, <2>2, RowsStep, GapStep DEF IInv
<1> QED
  BY InvInit, <1>1, PTL DEF Spec

\* Type correctness of the stream's state, in memory and in the checkpoint.
THEOREM IngestTypes == Spec => []TypeOK
BY IngestInvariant, PTL DEF IInv

\* No record is in Bronze twice, wherever the driver dies, and the commits keep
\* the order of each partition.
THEOREM IngestExactlyOnce == Spec => []ExactlyOnceInOrder
BY IngestInvariant, PTL DEF IInv

\* From the initial offsets on, no record that can still be read is skipped.
THEOREM IngestLeavesNoGap == Spec => []NoGap
BY IngestInvariant, PTL DEF IInv

\* The stream implements the ledger: a commit of the sink is one of its appends,
\* the first start chooses where it begins, and nothing else touches it.
THEOREM IngestImplementsLedger == Spec => LedgerSpec
<1>1. Init => Ledger!Init
  BY DEF Init, Ledger!Init, Settled, Zero
<1>2. ASSUME IInv, IInv', [Next]_vars
      PROVE  [Ledger!Next]_<<bronze, Settled, version>>
  <2> USE <1>2 DEF IInv, TypeOK
  <2>1. Settled' \in [Partition -> Nat]
    BY DEF Settled
  <2>2. CASE AppendToBronze
    BY <2>1, <2>2, SinkCommit DEF Ledger!Next, Ledger!Append
  <2>3. CASE ~AppendToBronze
    <3>1. bronze' = bronze /\ version' = version
      BY <2>3, OnlySinkWrites DEF table
    <3>2. CASE Settled' = Settled
      BY <3>1, <3>2
    <3>3. CASE ~started /\ StartQuery
      BY <2>1, <3>1, <3>3 DEF Ledger!Next, Ledger!Begin, BatchInv
    <3> QED
      BY <2>3, <3>2, <3>3, SettledStep
  <2> QED
    BY <2>2, <2>3
<1> QED
  BY IngestInvariant, <1>1, <1>2, PTL DEF Spec, LedgerSpec, Ledger!Spec

=============================================================================
