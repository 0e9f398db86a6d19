------------------------------ MODULE Platform ------------------------------
(***************************************************************************)
(* The layers together: runs of the DAG at some time of the day, on the    *)
(* tables they share with the stream and with one another.  FinancialDag   *)
(* says when a task may start, end or be tried again; here an attempt      *)
(* reads and writes the tables, and its outcome depends on them.           *)
(*                                                                         *)
(* A record is a valid transaction: when it happened and when it reached   *)
(* Bronze.  Copies of a record, versions of a transaction and the commits  *)
(* within one job are SilverJobs' subject; the values Gold computes from   *)
(* its rows are GoldJobs'.                                                 *)
(***************************************************************************)
EXTENDS Clock, FiniteSets

CONSTANTS
  Dates, RETRIES, MaxRuns,  \* as in FinancialDag
  Times,                    \* the instants the clock shows
  MaxRows                   \* bound on the records ingested

ASSUME PlatformAssumption ==
  /\ Dates \subseteq Nat /\ Dates # {} /\ RETRIES \in Nat /\ MaxRuns \in Nat
  /\ Times \subseteq Nat /\ MaxRows \in Nat

VARIABLES
  ds, runs, state, tries, branch, failed, updated,  \* as in FinancialDag
  now,        \* the clock
  startedAt,  \* when the current run was created
  bronze, silver,
  customers,  \* silver.customers has been loaded
  gold,       \* per Gold job and date, the rows its partition is computed from
  checked     \* history: per date, the rows the latest passing check saw

Dag == INSTANCE FinancialDag

dag == <<ds, runs, state, tries, branch, failed, updated>>
tables == <<bronze, silver, customers, gold, checked>>
data == <<now, startedAt, tables>>
vars == <<dag, data>>

Record == {r \in [timestamp : Times, ingestion_timestamp : Times] :
             r.timestamp <= r.ingestion_timestamp}

TypeOK ==
  /\ Dag!TypeOK
  /\ now \in Times /\ startedAt \in Times /\ startedAt <= now
  /\ silver \subseteq bronze /\ bronze \subseteq Record
  /\ customers \in BOOLEAN
  /\ gold \in [Dag!Gold -> [Dates -> SUBSET silver]]
  /\ checked \in [Dates -> SUBSET silver]

\* A run is made for today or for a day before.
Init ==
  /\ Dag!Init
  /\ now \in Times /\ startedAt = now /\ ds <= DayOf(now)
  /\ bronze = {} /\ silver = {} /\ customers = FALSE
  /\ gold = [t \in Dag!Gold |-> [d \in Dates |-> {}]]
  /\ checked = [d \in Dates |-> {}]

-----------------------------------------------------------------------------
(* The clock, the stream and the customer dimension *)

Tick ==
  /\ \E t \in Times : t > now /\ now' = t
  /\ UNCHANGED <<dag, startedAt, tables>>

Ingest ==
  /\ Cardinality(bronze) < MaxRows
  /\ \E r \in Record : r.ingestion_timestamp = now /\ bronze' = bronze \cup {r}
  /\ UNCHANGED <<dag, now, startedAt, silver, customers, gold, checked>>

\* Somebody loads silver.customers; no job of this repository does.
LoadCustomers ==
  /\ ~customers /\ customers' = TRUE
  /\ UNCHANGED <<dag, now, startedAt, bronze, silver, gold, checked>>

-----------------------------------------------------------------------------
(* What the jobs read and write *)

OfEventDate(rows, d) == {r \in rows : DayOf(r.timestamp) = d}
OfProcessingDate(rows, d) == {r \in rows : DayOf(r.ingestion_timestamp) = d}

Cleaned == silver \cup OfProcessingDate(bronze, ds)

CheckedByProcessing(rows, d) == OfProcessingDate(rows, d)
CheckedRows(rows, d) == OfEventDate(rows, d)

\* Without rows there are no results to write, which fails the job.
WritesNothing(rows) == TRUE
CanWriteResults(rows) == rows # {}

\* No result is FAIL: the outcome of the freshness check follows from the rows,
\* those of the other checks are open.
MayPass(rows) == rows = {} \/ IsFresh(rows, now)

LOOKBACK == [run_gold_customer_analytics |-> 90, run_gold_transaction_analytics |-> 30,
             run_gold_risk_metrics |-> 0]

Window(t, rows, d) ==
  {r \in rows : DayOf(r.timestamp) >= d - LOOKBACK[t] /\ DayOf(r.timestamp) <= d}

OnlyCustomerJob == {"run_gold_customer_analytics"}
ReadsCustomers == {"run_gold_customer_analytics", "run_gold_risk_metrics"}
CanCompute(t) == t \in ReadsCustomers => customers

\* OPTIMIZE refuses to Z-order a table by a column it is partitioned by, and the
\* three tables are partitioned by process_date.
ZOrder == [run_gold_customer_analytics |-> {"customer_id", "segment"},
           run_gold_transaction_analytics |-> {"event_date", "transaction_type"},
           run_gold_risk_metrics |-> {"currency", "process_date"}]

Unchecked(t) == TRUE
CanOptimize(t) == "process_date" \notin ZOrder[t]

KeepExisting(t) == IF gold[t][ds] # {} THEN gold ELSE [gold EXCEPT ![t][ds] = Window(t, silver, ds)]
OverwriteFromBronze(t) == [gold EXCEPT ![t][ds] = Window(t, bronze, ds)]
OverwriteGold(t) == [gold EXCEPT ![t][ds] = Window(t, silver, ds)]

-----------------------------------------------------------------------------
(* The attempts of a task *)

\* Attempts that end without having changed a table.
FinishWithoutWrite(t) ==
  /\ t \notin Dag!Gold \cup {"run_silver_clean", "run_silver_data_quality"}
  /\ t = "check_bronze_freshness" => BronzeFresh(bronze, now)
  /\ Dag!FinishTask(t)
  /\ UNCHANGED data

FailWithoutWrite(t) ==
  /\ UNCHANGED <<failed, updated, data>>
  /\ Dag!FailTask(t)

\* clean: the append to Silver is done, whether the attempt succeeds or not.
Clean ==
  /\ Dag!FinishTask("run_silver_clean") \/ Dag!FailTask("run_silver_clean")
  /\ silver' = Cleaned
  /\ UNCHANGED <<now, startedAt, bronze, customers, gold, checked>>

CheckPasses ==
  /\ CanWriteResults(CheckedRows(silver, ds)) /\ MayPass(CheckedRows(silver, ds))
  /\ Dag!FinishTask("run_silver_data_quality")
  /\ checked' = [checked EXCEPT ![ds] = CheckedRows(silver, ds)]
  /\ UNCHANGED <<now, startedAt, bronze, silver, customers, gold>>

\* A FAIL row is written and the job exits with an error.
CheckFails ==
  /\ CanWriteResults(CheckedRows(silver, ds))
  /\ Dag!FailTask("run_silver_data_quality") /\ ds \in failed'
  /\ UNCHANGED data

\* The partition is overwritten, whether or not OPTIMIZE then succeeds.
UpdateGold(t) ==
  /\ t \in Dag!Gold /\ CanCompute(t)
  /\ (CanOptimize(t) /\ Dag!FinishTask(t)) \/ Dag!FailTask(t)
  /\ t \in updated'
  /\ gold' = OverwriteGold(t)
  /\ UNCHANGED <<now, startedAt, bronze, silver, customers, checked>>

-----------------------------------------------------------------------------
StartRun ==
  /\ Dag!StartRun /\ ds' <= DayOf(now)
  /\ startedAt' = now
  /\ UNCHANGED <<now, tables>>

Schedule(t) ==
  /\ Dag!Propagate(t) \/ Dag!MarkEmpty(t) \/ Dag!StartTask(t)
  /\ UNCHANGED data

PassGate == Dag!FinishGate /\ UNCHANGED data

Next ==
  \/ Tick \/ Ingest \/ LoadCustomers
  \/ StartRun \/ PassGate
  \/ \E t \in Dag!Task : Schedule(t) \/ FinishWithoutWrite(t) \/ FailWithoutWrite(t)
  \/ Clean \/ CheckPasses \/ CheckFails
  \/ \E t \in Dag!Gold : UpdateGold(t)

Spec == Init /\ [][Next]_vars

-----------------------------------------------------------------------------
(* Safety *)

\* A run made at its scheduled hour or later never gets to Gold, nor even to the
\* gate: by then the last event of its date is more than two hours old, so the
\* data quality job fails or finds nothing to check.  README.md:121 has Gold
\* "Refreshed on schedule via Airflow DAG": only a run made early, by hand, can.
ScheduledRunsSkipGold ==
  startedAt >= ScheduledAt(ds) => updated = {} /\ branch = "none"

\* A date without events in Silver never gets to Gold either, although none of
\* its checks has failed and the gate by itself would let it pass.
NoGoldForAnEmptyDate == updated # {} => OfEventDate(silver, ds) # {}

\* No run ever completes behind an open gate: the risk job overwrites its table
\* and then fails, in every attempt, since it Z-orders by the partition column.
\* Where nobody has loaded silver.customers not even that happens, and the
\* transaction table is all a run can update.
GoldIsNeverComplete ==
  /\ branch = "quality_gate_passed" => state["pipeline_complete"] # "success"
  /\ ~customers => updated \subseteq {"run_gold_transaction_analytics"}

\* The tables a run has updated agree, however often the run's date was computed
\* before: each has every event Silver has of the date, in that date's partition.
GoldTablesAgree ==
  \A t \in updated : OfEventDate(gold[t][ds], ds) = OfEventDate(silver, ds)

-----------------------------------------------------------------------------
(* The platform implements what Medallion promises the readers of Gold. *)

Promise == INSTANCE Medallion WITH Tables <- Dag!Gold
MedallionSpec == Promise!Spec
=============================================================================
