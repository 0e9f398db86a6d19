# Verification of the real-time financial data platform

TLA+ models of the platform, TLC configurations that check them on small
instances, and proofs, checked by TLAPS, of what matters most for every value
of the constants. Paths like `spark/silver/...` are relative to the repository.

## The system

Synthetic transactions go through Kafka into three layers of Delta tables; a
daily Airflow DAG runs the jobs between the layers.

```
generators -> producer -> Kafka topic -> Bronze -> clean -> Silver -> Gold
                              |                      |        ^  |
                        debug consumers         quarantine  dedup dq_metrics
```

| Component | State it keeps | Operations | What makes it correct |
|---|---|---|---|
| Producer `kafka/producer.py` | library queue, requests in flight, delivery reports | create the topic, produce, flush | no message forgotten, bounded duplicates, order per account, it ends |
| Debug consumer `kafka/consumer.py` | offsets of its group, counters, a stop flag | poll, parse, count, commit, close | nothing skipped, offsets never go back, a consumer that stays reads everything |
| Bronze ingestion `spark/bronze/ingest_transactions.py` | checkpoint (offset log, commit log), Bronze table | plan, fetch, append, commit a micro-batch | each record once, in order, no gap |
| Silver clean `spark/silver/clean_transactions.py` | Silver and quarantine tables | parse, route, correct, append twice | every record read is in exactly one table; the whole partition is read |
| Silver deduplicate `.../deduplicate_transactions.py` | Silver table | window, MERGE | newest version wins, repeating it changes nothing |
| Data quality `.../data_quality.py` | dq_metrics table | seven checks, append, verdict | a verdict says something about the data |
| DAG `airflow/dags/financial_pipeline.py` | task states, tries, branch | freshness check, gate, notification, edges, retries | Gold only behind the gate, steps in order, every run ends |
| Gold jobs `spark/gold/*.py` | Gold tables, the risk job's cache | score, aggregate, signal, overwrite, OPTIMIZE | a partition is of the rows that were checked; tables agree; signals see every window |
| Generator `data_generator/transactions.py` | none | a list of transactions, late ones, nulls and copies among them | copies are exact and share a partition |
| Other generators, helpers, benchmark, configuration, SQL | none of their own | | |

How they interact: producer, brokers, consumers and the streaming query share
the topic; stream and jobs share Delta tables and meet only in commits; the DAG
runs jobs as processes and sees their exit codes and the dq_metrics table.

What is hard in it: the stream commits while jobs read; each Spark action reads
its tables again; a job is several commits and may die between them and be
retried; the deduplicate job reads the table it merges into; trigger rules with
skips and failures; requests retried without idempotence; asynchronous commits
and rebalances. `PROJECT.json` lists each of these at its line ("hazards").

## Modules

| Module | Models | State and actions in the code |
|---|---|---|
| `Clock` | times, dates and the two rules that compare a table with the clock | `BronzeFresh` of the DAG's callable, `IsFresh` of the quality job |
| `SilverRows` | what the Silver jobs compute | operators on sets of rows, named after the functions; seven checks as `RunDQChecks` |
| `SilverJobs` | stream and Silver jobs at work | one action for each Delta commit or verdict of a job (`WriteToSilver`, `WriteQuarantine`, `MergeToSilver`, `RunChecks`, `WriteDQMetrics`, `EvaluateQualityGate`, `CheckBronzeFreshness`), `PlanBatch`/`CommitBatch` of the stream, the clock, `Crash` |
| `FinancialDag` | the DAG and Airflow's scheduler | task states, edges and trigger rules as declared; attempts fail with or without having done their work |
| `BronzeIngest` | the streaming query | offset log, Delta commit, commit log as three durable writes, `Crash` between them, expiry |
| `BronzeLedger` | what Bronze promises | abstract: each commit settles the next stretch of every partition; `BronzeIngest` implements it |
| `KafkaProducer` | one run of the producer | main thread, library, broker; lost and late requests, retries, full queue, both ways the topic is created |
| `DebugConsumer` | a consumer group | processes, coordinator, asynchronous commits, malformed and poison messages, expiry |
| `Generator` | `generate_transactions` | the lists it may return, as a predicate; `KafkaProducer` extends it |
| `GoldRows` | what the Gold jobs compute | operators on sets of rows, named after the `build_*` functions; `ntile` as the set of results ties allow |
| `GoldJobs` | the Gold jobs on a Silver that changes | one commit for the customer and the transaction job; `CountSignals` and `WriteRiskMetrics` for the risk job, which works on a cache; `Crash` between |
| `Platform` | all layers in one | an instance of `FinancialDag`: each step is one of its steps or leaves it alone, and here also reads and writes Bronze, Silver and Gold, or fails because of what it finds there |
| `Medallion` | what the platform promises the readers of Gold | abstract: Silver grows, a check passes or refuses a date, a partition is replaced; `Platform` implements it |
| `*Proofs` | theorems about `SilverJobs`, `FinancialDag`, `BronzeIngest`, `KafkaProducer`, `DebugConsumer`, `Platform`, `GoldJobs` | |
| `SetFacts` | nothing of the code | lemmas on finite sets the proofs share: sums, groups, maxima, orders |
| `MC*` | constants of the runs | |

Operators that no action uses (`StatusAsIs`, `OverwriteQuarantine`,
`AnyQueued`, ...) are mutants: each changes the definition that follows it the
way a slip in the code would, and some property must then fail under TLC.

### Abstractions and assumptions

* Rows keep the columns some rule reads. Strings are members of a set with
  given Trim, Upper and Lower functions. Times are minutes, in UTC.
* `SilverJobs` numbers the records of Bronze in one sequence; partitions are
  `BronzeIngest`'s subject.
* Each Spark action reads the latest snapshot of its tables and commits
  atomically; the fields of one data quality job share one instant. The
  `.count()` a job logs after a write is another action that may fail, which is
  `Crash` at the next step. Silver jobs do not overlap: in a run the DAG keeps
  them apart (`StepsExcludeEachOther`), and `max_active_runs` is 1.
* The clock does not go back. The timestamp of a micro-batch is fixed in the
  offset log, as Structured Streaming does for `current_timestamp()`.
* `BronzeIngest` leaves out a first batch without records, which Spark may log, and
  lets a batch share out its limit among the partitions in any way that gives each
  with a backlog one record, where Spark shares in proportion to the backlogs; no
  property depends on either.
* Airflow, Structured Streaming, Delta, librdkafka and the broker are modelled
  from how the code uses and configures them; the map marks them external.
* In `KafkaProducer` one request carries one message (messages batched together
  share their fate), the broker handles the awaited requests of the connection
  in order, and requests the client has given up arrive at any time or never.
* `Platform` keeps of a transaction when it happened and when it reached Bronze,
  and of the checks which rows they saw and whether the freshness check lets them
  pass; the other checks may go either way. Copies, versions and commits within
  a job are `SilverJobs`' subject, values in Gold are `GoldJobs`'. A Gold job is
  one step there: Gold jobs of a run overlap with nothing that writes Silver.
* `optimize_table` changes no rows; it fails where a Z-order column is a
  partition column, as Delta's OPTIMIZE does.
* In `GoldJobs` an action of the customer or transaction job is its only write:
  both release their cache before it, so that it reads Silver then, in one
  snapshot. The risk job writes from the cache its first count has filled. Silver
  changes by a new row or by the MERGE of a new version; so the jobs run by hand
  while a pipeline is at work, which nothing prevents.
* Averages are compared by cross-multiplication; percentiles, names and ages, and
  the DataFrames nothing evaluates, are left out.
* `Generator` keeps the fields that can be null, the key and the late flag.
* In `DebugConsumer` the topic's messages are there from the start; a poll that
  returns nothing changes nothing. Commits of one generation stay in order, and
  those of an older generation are refused.

## Runs

| Run | Shows | Bounds |
|---|---|---|
| `silver_jobs` | `Accounted`, `NothingLeftBehind`, `NewestVersionWins`, `DeadChecks`, `ScheduledCheckIsStale`, `RowsMoveForward`, `DedupIdempotent` | 5 instants around midnight and 02:00, 2 records in 4 payloads (two versions of one transaction with different event times, one without key, one unparsable), 3 jobs |
| `silver_unique` (violated) | duplicates survive the deduplicate job | the same |
| `financial_dag` | `GoldBehindGate`, `StepsExcludeEachOther`, `CompleteIsAllOrNothing`, `EveryRunEnds` | the real task graph, 2 retries as in the code, 2 runs for 2 dates |
| `dag_alert`, `dag_halt` (violated) | the failure alert after a success; failed checks that never reach the gate | 1 run |
| `bronze_ingest` | `ExactlyOnceInOrder`, `NoGap`, refinement of `BronzeLedger`, `RecordsArrive` | 2 partitions of 2 records, batches of 1, 2 crashes |
| `bronze_audit` (violated) | records produced before the first start are never ingested | the same |
| `kafka_producer` | `NoneForgotten`, `CopiesAreBounded`, `NotOvertaken`, `DuplicatesShareAPartition`, `ProducerEnds` | 2 records and a copy, with and without a null, of 1 or 2 accounts, 2 partitions, 1 retry, queue of 2; half of the records are copied instead of 2 % |
| `producer_order` (violated) | transactions of an account out of order | 3 records of 2 accounts, otherwise the same |
| `debug_consumer` | `NoneSkipped`, `CommitsMoveForward`, `StayingReadsAll` | 2 consumers, 2 partitions of 2 messages, 3 starts |
| `platform` | `ScheduledRunsSkipGold`, `NoGoldForAnEmptyDate`, `GoldIsNeverComplete`, `GoldTablesAgree`, refinement of `Medallion` | the real task graph, 2 runs for 2 dates, 2 records, 23:50, 00:10 and 02:00, no retries |
| `gold_jobs` | `VelocityIsABurst`, `SmallSamplesAreNotFlagged`, `RecencyIsInverted`, `TablesReconcile`, `OnlyTiesMove` | every subset of 8 rows of 3 customers, 1 change of Silver, 2 transactions tolerated in ten minutes |

Why the bounds are enough for the cases that matter: two records are a
duplicate pair, in one micro-batch or in two, on one date or two; three jobs
are a clean job, its repetition and a deduplicate or quality job, or a
deduplicate job between two others. Two crashes hit a batch and its repetition.
Two DAG runs are a run and one for the same date after it, or for another one.
Two messages of an account and one of another, with one retry, show each way a
request can be lost, repeated or overtaken; a queue of two overflows. Three
starts are two consumers and a restart, hence joins, takeovers and commits of a
dead member. In `platform` a second run of the same date does to the tables what
a retry does, so retries are left to `financial_dag` (with one retry the run
passes too, in four times the states); one row before midnight and one after it,
or one late, is every relation between event date and processing date. The rows
of `gold_jobs` lie exactly ten minutes apart, across midnight, inside the 90 day
window but outside the 30 day one; three customers leave two of the five
quintiles empty and tie in each score.

Deadlock is not checked where the modelled system may stop: bounded numbers of
jobs, runs, records and starts are used up.

### Fairness

* `FinancialDag`: the scheduler loop visits every task again and again, and
  every attempt ends because spark-submit returns or its heartbeat is missed.
  Nothing says that an attempt ever succeeds.
* `BronzeIngest`: while the driver runs its trigger fires and its batches make
  progress. Nothing in the repository restarts a driver, so `StartQuery` is not
  fair and `RecordsArrive` holds only while the driver is up.
* `KafkaProducer`: the main thread runs and librdkafka's timers fire, for
  messages in the queue and for requests. Of the broker nothing is assumed.
* `DebugConsumer`: a living process polls, and the coordinator notices joins and
  leaves. Commits may all be lost, and nobody must start a process.

`SilverJobs` states no liveness: jobs are started by the DAG or by hand.

## Proofs

All constants are arbitrary within the named assumptions of each module (bounds,
retries, partitions, payloads, instants), and proofs are checked to the leaves.

**`SilverJobsProofs`** rests on four facts that are inductive together
(`SafeInv`): types; `StreamInv` - a sealed date is over, no planned or future
micro-batch bears its timestamp; `OriginInv` - a Silver or quarantine row comes
from the Bronze record of its offset, with the verdict `HasCriticalNull` gives
on it, so that no record is in both tables; `CleanInv` - what the running job
has read so far, and what finished jobs read, is in the tables. Accounted alone
is not inductive because it does not say why a record goes to only one table,
and NothingLeftBehind is not because it does not say that a sealed date cannot
grow. Its core is arithmetic: a row no older than two hours at 02:00 or later is
of the new day, timestamps in the offset log never decrease, hence the old
day's batches are all committed. `NewestInv` extends `NewestVersionWins` to
states where a job runs. The theorems about checks need `FiniteInv`, since a
pass rate is a quotient of cardinalities, and `VerdictInv`, which says of
results still in the job what the properties say of those in the table.
`MergeIsDefined` says that the MERGE has a source for every date, and never one
with two rows for a target row, which Delta would refuse.

**`FinancialDagProofs`**: the invariant says that each task's state is justified
by its upstream tasks' (`Justified`), that final states and used attempts agree
(`AttemptsInv`), what the gate's choice implies (`GateDecided`) and which tasks
may have written (`UpdatedInv`). The edges are listed once in a lemma. Liveness
is out of the prover's reach, but not what it rests on. `DagNeverBlocks`: every
trigger rule has an answer once the upstream tasks have ended (`RulesAreTotal`),
and along the edges this leaves something to do until the run has ended.
`DagMovesForward`: with `Rank` for how far a task has come, every step takes one
task further and none back, up to 2 `RETRIES` + 3. Only that a step which can be
taken is taken is left to fairness.

**`BronzeIngestProofs`**: `BatchInv` orders the batch ids of offset log, table
and commit log, `FetchedInv` ties the driver's memory to the logged range,
`RowsInv` keeps rows below the settled offsets. From it come exactly-once,
no-gap and the step simulation of `BronzeLedger`.

**`KafkaProducerProofs`** is about any lists that satisfy the generator's
predicate. `LoadedInv` says that a list and a topic are there before they are
needed. `PlaceInv` says where a message can be: not produced yet, queued with a
retry left, or awaited in one request, and in one of these places exactly as
long as it has no report; `NoneForgotten` alone is not inductive because it does
not exclude a message that is both queued and awaited. `CountInv` counts: the
requests and copies of a message are no more than its attempts, and copies are
in the partition of its key. This bounds the copies without saying anything of
the order in which requests arrive. Its last part adds the order (`OrderInv`):
nothing of its partition is sent past an unsent message
(`FirstInv`), nothing later has arrived or is ahead on the wire while a first
answer is awaited (`FrontWire`, `FrontLog`), and a message delivered at the
first attempt is not on its way again.

**`DebugConsumerProofs`**: `OffsetInv` orders three offsets of each partition -
committed, under way (in the order sent), position - and `CoverInv` says up to
which of them everything was seen or has expired: always up to the first two,
and up to the position as long as its owner lives. After a poison message the
position is past something unseen, so `NoneSkipped` holds only because the next
owner starts from what is committed.

**`PlatformProofs`** first proves that each step is a step of the DAG or leaves it
alone (`PlatformRunsTheDag`), so that the invariant of `FinancialDagProofs` holds
here too. To it come `CheckedInv` - what the checks of this run saw is what
Silver still has of the date, since the clean job, which alone adds to Silver,
cannot run after them in a run, and a check of no rows cannot have passed -,
`LateInv` (a run made at its hour or later has no row its freshness check
accepts), `RiskInv` and `CustomersInv` (what the failing jobs leave behind). The
branch alone does not say which rows it was about; `CheckedInv` does, and from it
follow `GoldTablesAgree` and the step that replaces a partition in `Medallion`.

**`SetFacts`** holds what the proofs need of finite sets. Where a claim is about
every subset of a set, the proof takes a smallest subset that breaks it
(`SmallestSubset`, from the library's well-founded orders) and finds a smaller one.
In this way the equation of the fold behind `MapThenSumSet` is shown to have a
solution, the same whichever element is taken first (`SumsExist`, `SumsAgree`,
`SumRemove`), so that sums of disjoint sets add (`SumUnion`) and a set can be summed
group by group (`SumByGroups`); a finite set has a greatest member (`Greatest`) and
can be put in order of a key (`CanBeOrdered`).

**`GoldJobsProofs`** begins with what the operators of `GoldRows` compute for any
finite set of rows. Daily table, risk table and customer table add up
(`PartitionsReconcile`), and three times an average which includes the transaction
takes four of them (`LargeNeedsFour`). Two lemmas are about `ntile`. `OneBucket`: two
results for one key put the same number of customers in the first i buckets
(`SameCounts`), so a customer with a key of its own is in the same bucket in both.
`NtileExists`: cutting an order of the customers at the five ends `EndOf` gives
buckets of the required sizes for any number of customers, so that the customer
job always has a result (`CustomerJobHasResult`) and the claims about its
partitions are about something.

Of the jobs, a partition by itself does not say what it was made of. The
invariant does (`ComputedFrom`, for each table and date, from what the history
variable `source` has kept; `SignalsInv` for the cache), survives any change of
Silver because it does not mention it, and turns each property of the tables into
one of the operators. That no burst is missed needs a last transaction in every
window, which a window of ten minutes has because it has eleven instants,
whatever rows are in it (`LastOfWindow`).

Only model-checked: liveness (`EveryRunEnds`, `RecordsArrive`, `ProducerEnds`,
`StayingReadsAll`), which the prover cannot treat under fairness (for
`EveryRunEnds` see above what is proved of it), and the
violations, which are counterexamples and need no proof. Every invariant and
action property of a passing run is the consequence of a theorem.

## Where code and documentation part

1. After the deduplicate job duplicates remain: it merges the Silver table into
   itself, and MERGE inserts or updates but never deletes
   (`deduplicate_transactions.py:102`, `data-flow.md:82`).
2. The failure notification also follows a passed gate: `none_failed` accepts a
   skipped upstream task (`financial_pipeline.py:160`).
3. A failed check ends the quality job with an error, so the gate never takes
   its NO branch and its notification is not sent (`data_quality.py:172`). The team
   hears of a failed job by `email_on_failure` (`financial_pipeline.py:30`), not
   of a failed gate.
4. Bronze starts at the latest offset by default, which is not the "full audit
   trail" of `README.md:74` (`ingest_transactions.py:73`).
5. The key does not keep the order of an account's transactions: retries without
   idempotence reorder them (`producer.py:71` against `producer.py:5`).
6. The risk job Z-orders its table by the column it partitions it by, which
   Delta refuses: it overwrites the partition and fails, in every attempt, so no
   run that passes the gate completes (`risk_metrics.py:193`, `README.md:120`).
   The refusal is Delta's documented behaviour and external to the repository.
7. "5 = best" is wrong for recency: the customers seen last get 1, those not seen
   for longest get 5 (`customer_analytics.py:82-86`).
8. Gold is not "Refreshed on schedule via Airflow DAG" (`README.md:121`,
   `financial_pipeline.py:4-6`): the freshness check of a data quality job run at
   the scheduled hour or later always fails (`ScheduledCheckIsStale`,
   `data_quality.py:121-123`), which with 3 means that no such run reaches Gold
   (`ScheduledRunsSkipGold`, with the stream, the DAG and the tables together).
9. A large transaction is not compared with a "30-day average"
   (`risk_metrics.py:9,60`, `data-flow.md:112`) but with the average of the process
   date, itself included (`risk_metrics.py:61-63,143`): the only transaction of a
   customer on a date is never flagged (`SmallSamplesAreNotFlagged`).
10. The deduplicate job keeps the version ingested last, as its docstring says
    (`deduplicate_transactions.py:36-37,43`), not the one with the latest event
    time of `data-flow.md:69-70`. `NewestVersionWins` states what the code does, on
    two versions whose event times differ; the documented order is its mutant.

The properties named in 6 to 10 pass: each states what the code does, against
the document quoted. Others describe behaviour worth knowing that contradicts no
document: two of the seven checks cannot fail on what the clean job writes
(`DeadChecks`), and where nobody has loaded `silver.customers`, which no job
writes, only the transaction table is updated (`GoldIsNeverComplete`).

Noticed while reading, without a property of their own:

* "any 10-minute window" (`risk_metrics.py:37`) ends at midnight, since the job
  reads one event date, and an alert names the customer of a window's last
  transaction only.
* Of a record with an amount not above zero or an unknown currency
  `data-flow.md:155-165` says "quarantine"; the clean job takes the absolute amount
  and writes the currency as UNKNOWN.
* Risk signals are counted, logged and dropped; `gold.risk_metrics` has the
  volume per currency and nothing else. `build_currency_exposure` has no caller.
* Of the four summaries `transaction_analytics.py` builds one is written.
* The duplicates of 1, and rows appended twice by a retried clean job, count
  twice in Gold.
* The generator's late flag (10 to 45 minutes) is not the Silver flag, which
  compares with a watermark of 30 minutes.
* `transactions.py --records 0` divides by zero after writing its file.

## Not modelled

* Generators of accounts, customers and products: random rows that no job of the
  repository reads (`silver.customers` is loaded by somebody else).
* Summaries nothing evaluates or writes: merchant, hourly and payment method,
  and `build_currency_exposure`.
* The session factory (configuration), and of the Delta helpers those without a
  caller: `upsert_to_delta`, `vacuum_table`, the partition helpers.
* The benchmark and the SQL reports, which read and change nothing; containers
  and CI, which have no logic of the platform.

## Plan

Done, in this order: `SilverRows`, `SilverJobs`, `FinancialDag`, `BronzeIngest`
with `BronzeLedger`, their proofs, `KafkaProducer`, `DebugConsumer`, `Clock`,
`Platform` with `Medallion`, `GoldRows`, `GoldJobs`, `Generator`, the proofs
about `KafkaProducer`, `DebugConsumer`, `Platform` and `GoldJobs`, the facts on
finite sets they share, and for the DAG that it neither blocks nor goes back.

Next:

1. An abstract specification of the Silver layer - a growing set of records
   routed once - implemented by `SilverJobs`.
2. A `Platform` in which two jobs run by hand overlap with the scheduled run.
