----------------------------- MODULE SilverJobs -----------------------------
(***************************************************************************)
(* The Silver layer at work: the Bronze stream keeps appending micro-      *)
(* batches while the daily jobs - freshness check, clean, deduplicate,     *)
(* data quality - run one at a time on the tables.                         *)
(*                                                                         *)
(* A job is a sequence of Delta commits, each atomic; between two of them  *)
(* the stream may commit, time may pass and the job may die.  Spark        *)
(* evaluates a DataFrame again for every action, so each step reads the    *)
(* tables as they are when it runs.  The jobs may be submitted by hand in  *)
(* any order, for any date up to today, again and again: what the DAG      *)
(* guarantees about their order is FinancialDag's subject.                 *)
(***************************************************************************)
EXTENDS SilverRows

CONSTANTS
  Times,        \* the instants the clock shows (bounds the runs)
  Payloads,     \* the payloads a producer may have sent
  CustomerDim,  \* the ids silver.customers holds once it is loaded
  MaxRows,      \* bound on the rows ingested into Bronze
  MaxBatch,     \* bound on the rows of one micro-batch
  MaxJobs       \* bound on the jobs submitted

ASSUME JobsAssumption ==
  /\ Times \subseteq Nat /\ 0 \in Times
  /\ Payloads \subseteq Payload \cup {Malformed}
  /\ CustomerDim \subseteq Text
  /\ MaxRows \in Nat /\ MaxBatch \in Nat /\ MaxJobs \in Nat

VARIABLES
  now,         \* the clock
  planned,     \* timestamp of the micro-batch in the offset log, or Null
  lastBatch,   \* timestamp of the last micro-batch in the offset log
  nextOffset,  \* first Kafka offset not yet in Bronze
  bronze, silver, quarantine, metrics,  \* the Delta tables, as sets of rows
  customers,   \* ids in silver.customers, Null while there is no such table
  tables,      \* the Delta tables that exist
  job,         \* the running job
  last,        \* the job that ended last, and how
  attempt,     \* number of jobs submitted
  sealed,      \* history: dates whose scheduled freshness check has passed
  cleaned      \* history: what each successful clean job read

stream == <<planned, lastBatch, nextOffset, bronze>>
results == <<silver, quarantine, metrics>>
history == <<sealed, cleaned>>
vars == <<now, stream, results, customers, tables, job, last, attempt, history>>

JobName == {"freshness", "clean", "deduplicate", "data_quality"}

\* The first step of each job, and the table without which it fails.
FirstStep == [freshness |-> "check_bronze_freshness", clean |-> "write_to_silver",
              deduplicate |-> "merge_to_silver", data_quality |-> "run_dq_checks"]
InputTable == [freshness |-> "bronze", clean |-> "bronze",
               deduplicate |-> "silver", data_quality |-> "silver"]

Step == {"idle", "check_bronze_freshness", "write_to_silver", "write_quarantine",
         "merge_to_silver", "run_dq_checks", "write_dq_metrics", "evaluate_quality_gate"}

\* `read` and `final` belong to a clean job: the offsets it read, and whether
\* the partition was sealed by then.  `dq` are the results of a DQ job.
Job == [name : JobName \cup {"none"}, date : Nat, step : Step,
        read : SUBSET Nat, final : BOOLEAN, dq : SUBSET DQResult]

NewJob(name, d, step) ==
  [name |-> name, date |-> d, step |-> step, read |-> {}, final |-> FALSE, dq |-> {}]
Idle == NewJob("none", 0, "idle")

TypeOK ==
  /\ now \in Nat /\ planned \in Nat \cup {Null} /\ lastBatch \in Nat /\ nextOffset \in Nat
  /\ bronze \subseteq BronzeRow
  /\ silver \subseteq SilverRow
  /\ quarantine \subseteq [kafka_offset : Nat, ingestion_timestamp : Nat, copy : Nat]
  /\ metrics \subseteq DQResult
  /\ customers \in (SUBSET Text) \cup {Null}
  /\ tables \subseteq {"bronze", "silver", "quarantine"}
  /\ job \in Job
  /\ last \in [name : JobName \cup {"none"}, date : Nat, ok : BOOLEAN]
  /\ attempt \in Nat
  /\ sealed \subseteq Nat
  /\ cleaned \subseteq [date : Nat, read : SUBSET Nat, final : BOOLEAN]

Init ==
  /\ now = 0 /\ planned = Null /\ lastBatch = 0 /\ nextOffset = 0
  /\ bronze = {} /\ silver = {} /\ quarantine = {} /\ metrics = {}
  /\ customers = Null /\ tables = {}
  /\ job = Idle /\ last = [name |-> "none", date |-> 0, ok |-> FALSE] /\ attempt = 0
  /\ sealed = {} /\ cleaned = {}

-----------------------------------------------------------------------------
(* The clock, the Bronze stream and the customer dimension *)

Tick ==
  /\ \E t \in Times : t > now /\ now' = t
  /\ UNCHANGED <<stream, results, customers, tables, job, last, attempt, history>>

\* A trigger logs the next micro-batch together with its timestamp, which is
\* what current_timestamp() returns in it, also when it is run again later.
PlanBatch ==
  /\ planned = Null /\ nextOffset < MaxRows
  /\ planned' = now /\ lastBatch' = now
  /\ UNCHANGED <<now, nextOffset, bronze, results, customers, tables, job, last, attempt, history>>

\* The micro-batch lands in Bronze as one Delta commit.
CommitBatch ==
  /\ planned # Null
  /\ \E n \in 1..MaxBatch : \E batch \in [1..n -> Payloads] :
       /\ nextOffset + n <= MaxRows
       /\ bronze' = bronze \cup {[kafka_offset |-> nextOffset + i - 1, raw_payload |-> batch[i],
                                  ingestion_timestamp |-> planned] : i \in 1..n}
       /\ nextOffset' = nextOffset + n
  /\ planned' = Null
  /\ tables' = tables \cup {"bronze"}
  /\ UNCHANGED <<now, lastBatch, results, customers, job, last, attempt, history>>

\* Somebody loads silver.customers; no job of this repository does.
LoadCustomers ==
  /\ customers = Null /\ customers' = CustomerDim
  /\ UNCHANGED <<now, stream, results, tables, job, last, attempt, history>>

-----------------------------------------------------------------------------
(* Submitting and ending jobs *)

SubmitJob(name, d) ==
  /\ job.step = "idle" /\ attempt < MaxJobs
  /\ job' = NewJob(name, d, FirstStep[name])
  /\ attempt' = attempt + 1
  /\ UNCHANGED <<now, stream, results, customers, tables, last, history>>

EndJob(ok) ==
  /\ job' = Idle
  /\ last' = [name |-> job.name, date |-> job.date, ok |-> ok]

\* The driver dies, or an action fails, before the commit of the current step.
Crash ==
  /\ job.step # "idle"
  /\ EndJob(FALSE)
  /\ UNCHANGED <<now, stream, results, customers, tables, attempt, history>>

\* A job can do its first step only if the table it loads exists.
At(step) == job.step = step /\ (step = FirstStep[job.name] => InputTable[job.name] \in tables)

CheckBronzeFreshness ==
  /\ At("check_bronze_freshness")
  /\ EndJob(BronzeFresh(bronze, now))
  /\ sealed' = IF BronzeFresh(bronze, now) /\ now >= ScheduledAt(job.date)
               THEN sealed \cup {job.date} ELSE sealed
  /\ UNCHANGED <<now, stream, results, customers, tables, attempt, cleaned>>

-----------------------------------------------------------------------------
(* clean_transactions.py: two appends, to two tables *)

Offsets(rows) == {r.kafka_offset : r \in rows}

WriteToSilver ==
  /\ At("write_to_silver")
  /\ LET rows == BronzeOf(bronze, job.date) IN
       /\ silver' = silver \cup {ApplyTypeCorrections(b, attempt) : b \in ValidOf(rows)}
       /\ job' = [job EXCEPT !.step = "write_quarantine", !.read = Offsets(rows),
                             !.final = job.date \in sealed]
  /\ tables' = tables \cup {"silver"}
  /\ UNCHANGED <<now, stream, quarantine, metrics, customers, last, attempt, history>>

QuarantineRow(b) == [kafka_offset |-> b.kafka_offset,
                     ingestion_timestamp |-> b.ingestion_timestamp, copy |-> attempt]

OverwriteQuarantine(old, rows) == {QuarantineRow(b) : b \in InvalidOf(rows)}
AppendQuarantine(old, rows) == old \cup {QuarantineRow(b) : b \in InvalidOf(rows)}

WriteQuarantine ==
  /\ At("write_quarantine")
  /\ quarantine' = AppendQuarantine(quarantine, BronzeOf(bronze, job.date))
  /\ tables' = tables \cup {"quarantine"}
  /\ EndJob(TRUE)
  /\ cleaned' = cleaned \cup {[date |-> job.date, read |-> job.read, final |-> job.final]}
  /\ UNCHANGED <<now, stream, silver, metrics, customers, attempt, sealed>>

-----------------------------------------------------------------------------
(* deduplicate_transactions.py: a MERGE of the Silver table into itself *)

MergeToSilver ==
  /\ At("merge_to_silver")
  /\ LET staging == StagingOf(silver, job.date) IN
       \E source \in SUBSET staging :
         /\ DeduplicateWithinBatch(staging, source)
         /\ silver' = MergeInto(silver, source)
  /\ EndJob(TRUE)
  /\ UNCHANGED <<now, stream, quarantine, metrics, customers, tables, attempt, history>>

-----------------------------------------------------------------------------
(* data_quality.py: checks on one event_date, metrics, verdict *)

RunChecks ==
  /\ At("run_dq_checks")
  /\ job' = [job EXCEPT !.step = "write_dq_metrics",
                        !.dq = RunDQChecks({r \in silver : r.event_date = job.date},
                                           job.date, now, customers)]
  /\ UNCHANGED <<now, stream, results, customers, tables, last, attempt, history>>

\* createDataFrame cannot infer a schema from no rows: a date without rows
\* ends the job here.
WriteDQMetrics ==
  /\ At("write_dq_metrics")
  /\ metrics' = metrics \cup job.dq
  /\ IF job.dq = {} THEN EndJob(FALSE)
     ELSE job' = [job EXCEPT !.step = "evaluate_quality_gate"] /\ last' = last
  /\ UNCHANGED <<now, stream, silver, quarantine, customers, tables, attempt, history>>

EvaluateQualityGate ==
  /\ At("evaluate_quality_gate")
  /\ EndJob(Failures(job.dq) = {})
  /\ UNCHANGED <<now, stream, results, customers, tables, attempt, history>>

-----------------------------------------------------------------------------
Next ==
  \/ Tick \/ PlanBatch \/ CommitBatch \/ LoadCustomers
  \/ \E name \in JobName, d \in 0..DayOf(now) : SubmitJob(name, d)
  \/ Crash
  \/ CheckBronzeFreshness
  \/ WriteToSilver \/ WriteQuarantine
  \/ MergeToSilver
  \/ RunChecks \/ WriteDQMetrics \/ EvaluateQualityGate

Spec == Init /\ [][Next]_vars

-----------------------------------------------------------------------------
(* Safety *)

\* A clean job that succeeded has put every record it read into exactly one of
\* Silver and quarantine, and no later job has taken it out again: "not dropped
\* silently".  Between its two commits anything may have happened.
Accounted ==
  \A c \in cleaned : \A o \in c.read :
    (o \in Offsets(silver)) # (o \in Offsets(quarantine))

\* Once the scheduled run's freshness check has passed and its clean job has
\* then succeeded, the whole Bronze partition of that date is accounted for, for
\* ever: no micro-batch still to be committed, or to be run again, can add to it.
NothingLeftBehind ==
  \A c \in cleaned : c.final => Offsets(BronzeOf(bronze, c.date)) \subseteq c.read

JustDeduplicated == job.step = "idle" /\ last.name = "deduplicate" /\ last.ok

\* After a deduplicate job for a date, no row of any partition is older than the
\* newest version of its transaction staged on that date.  The newest is the one
\* ingested last, as the job's docstring has it; data-flow.md:69-70 names the one
\* with the latest event time, which may be another.
NewestVersionWins ==
  JustDeduplicated =>
    \A r \in silver : \A s \in StagingOf(silver, last.date) :
      SameTransaction(r, s) => r.ingestion_timestamp >= s.ingestion_timestamp

\* Two of the checks cannot fail on what the clean job writes: the records that
\* would violate them are in quarantine, or were corrected.
DeadChecks ==
  \A m \in metrics :
    m.check_name \in {"completeness_critical_fields", "validity_status_known"}
      => m.status = "PASS"

\* At the hour the DAG runs for a date, every event of that date is more than
\* two hours old: the freshness check of a scheduled data quality job fails.
ScheduledCheckIsStale ==
  \A m \in metrics :
    m.check_name = "freshness_2h" /\ m.checked_at >= ScheduledAt(m.process_date)
      => m.status = "FAIL"

-----------------------------------------------------------------------------
(* What a step may never do *)

SameRow(r, q) == r.kafka_offset = q.kafka_offset /\ r.copy = q.copy

\* No job removes a Silver row or replaces it by an older version of itself, and
\* a row that keeps its version keeps its contents.
RowsMoveForward ==
  [][\A r \in silver : \E q \in silver' :
       /\ SameRow(q, r)
       /\ q = r \/ q.ingestion_timestamp > r.ingestion_timestamp]_vars

\* "Running the job multiple times for the same date produces the same result":
\* a MERGE right after one for the same date changes nothing, whichever of the
\* rows with equal timestamps either of them picks.
DedupIdempotent ==
  [][job.step = "merge_to_silver" /\ last.name = "deduplicate" /\ last.ok
       /\ last.date = job.date => silver' = silver]_vars

-----------------------------------------------------------------------------
(* What the documentation says and the code does not do *)

\* deduplicate_transactions.py:7 "MERGE INTO on transaction_id - only inserts new
\* records": after it no transaction has two rows among those of its date.
UniqueTransactions ==
  JustDeduplicated =>
    \A r, s \in StagingOf(silver, last.date) : SameTransaction(r, s) => r = s
=============================================================================
