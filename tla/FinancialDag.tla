---------------------------- MODULE FinancialDag ----------------------------
(***************************************************************************)
(* The financial_pipeline DAG: its tasks, edges, trigger rules and retries *)
(* as airflow/dags/financial_pipeline.py declares them, executed by the    *)
(* scheduler and by workers whose attempts may fail at any moment.         *)
(*                                                                         *)
(* A run is for one date.  Of the data it keeps what decides the run: the  *)
(* dates with a FAIL row in silver.dq_metrics, which is append-only and so *)
(* never forgets one, and the Gold tables this run has overwritten.        *)
(***************************************************************************)
EXTENDS Integers, FiniteSets

CONSTANTS
  Dates,    \* the dates runs are made for
  RETRIES,  \* default_args["retries"]: 2
  MaxRuns   \* bound on the DAG runs, scheduled or manual

ASSUME DagAssumption == Dates # {} /\ RETRIES \in Nat /\ MaxRuns \in Nat

Gold == {"run_gold_customer_analytics", "run_gold_transaction_analytics",
         "run_gold_risk_metrics"}
EmptyTask == {"start", "quality_gate_passed", "quality_gate_failed", "pipeline_complete"}
Chain == {"check_bronze_freshness", "run_silver_clean", "run_silver_deduplicate",
          "run_silver_data_quality", "quality_gate"}
Task == Gold \cup EmptyTask \cup Chain \cup {"notify_on_failure"}

BesideDedup == {"run_silver_clean"}
QualityUpstream == {"run_silver_deduplicate"}

CustomersOnly == {"run_gold_customer_analytics", "notify_on_failure"}
CompleteUpstream == Gold \cup {"notify_on_failure"}

Edge ==
  {<<"start", "check_bronze_freshness">>,
   <<"check_bronze_freshness", "run_silver_clean">>,
   <<"run_silver_clean", "run_silver_deduplicate">>,
   <<"run_silver_data_quality", "quality_gate">>,
   <<"quality_gate", "quality_gate_passed">>,
   <<"quality_gate", "quality_gate_failed">>,
   <<"quality_gate_failed", "notify_on_failure">>}
  \cup (QualityUpstream \X {"run_silver_data_quality"})
  \cup ({"quality_gate_passed"} \X Gold)
  \cup (CompleteUpstream \X {"pipeline_complete"})

Upstream(t) == {u \in Task : <<u, t>> \in Edge}

TriggerRule(t) ==
  IF t = "notify_on_failure" THEN "none_failed"
  ELSE IF t = "pipeline_complete" THEN "none_failed_min_one_success"
  ELSE "all_success"

VARIABLES
  ds,        \* the date of the current run
  runs,      \* number of runs so far
  state,     \* state of every task instance of the current run
  tries,     \* attempts of every task instance that has not ended, 0 afterwards
  branch,    \* the task the quality gate chose, or "none"
  failed,    \* dates with a FAIL row in silver.dq_metrics
  updated    \* Gold tables the current run has overwritten

vars == <<ds, runs, state, tries, branch, failed, updated>>

TaskState == {"none", "running", "up_for_retry", "success", "failed",
              "upstream_failed", "skipped"}
Terminal == {"success", "failed", "upstream_failed", "skipped"}

TypeOK ==
  /\ ds \in Dates /\ runs \in Nat
  /\ state \in [Task -> TaskState]
  /\ tries \in [Task -> 0..RETRIES + 1]
  /\ branch \in {"none", "quality_gate_passed", "quality_gate_failed"}
  /\ failed \subseteq Dates
  /\ updated \subseteq Gold

Init ==
  /\ ds \in Dates /\ runs = 1
  /\ state = [t \in Task |-> "none"] /\ tries = [t \in Task |-> 0]
  /\ branch = "none" /\ failed = {} /\ updated = {}

RunEnded == \A t \in Task : state[t] \in Terminal

-----------------------------------------------------------------------------
(* The scheduler (Airflow): runs, trigger rules, retries *)

\* The next run, for whatever date: max_active_runs = 1 makes it wait.
StartRun ==
  /\ RunEnded /\ runs < MaxRuns
  /\ runs' = runs + 1
  /\ ds' \in Dates
  /\ state' = [t \in Task |-> "none"] /\ tries' = [t \in Task |-> 0]
  /\ branch' = "none" /\ updated' = {}
  /\ UNCHANGED failed

AllUpstream(t, S) == \A u \in Upstream(t) : state[u] \in S
SomeUpstream(t, S) == \E u \in Upstream(t) : state[u] \in S

OnlyFailed(t) == SomeUpstream(t, {"failed"})
UpstreamFailed(t) == SomeUpstream(t, {"failed", "upstream_failed"})

SkippedByRule(t) ==
  /\ ~UpstreamFailed(t)
  /\ \/ TriggerRule(t) = "all_success" /\ SomeUpstream(t, {"skipped"})
     \/ TriggerRule(t) = "none_failed_min_one_success" /\ AllUpstream(t, {"skipped"})

ReadyToRun(t) ==
  \/ TriggerRule(t) = "all_success" /\ AllUpstream(t, {"success"})
  \/ TriggerRule(t) = "none_failed" /\ AllUpstream(t, {"success", "skipped"})
  \/ /\ TriggerRule(t) = "none_failed_min_one_success"
     /\ AllUpstream(t, {"success", "skipped"}) /\ SomeUpstream(t, {"success"})

Set(t, s) == state' = [state EXCEPT ![t] = s]

\* A task that can no longer run takes its final state from its upstream tasks,
\* which need not all have ended.
Propagate(t) ==
  /\ state[t] = "none"
  /\ \/ UpstreamFailed(t) /\ Set(t, "upstream_failed")
     \/ SkippedByRule(t) /\ Set(t, "skipped")
  /\ UNCHANGED <<ds, runs, tries, branch, failed, updated>>

\* The scheduler marks an EmptyOperator successful without running it.
MarkEmpty(t) ==
  /\ t \in EmptyTask
  /\ state[t] = "none" /\ ReadyToRun(t)
  /\ Set(t, "success")
  /\ UNCHANGED <<ds, runs, tries, branch, failed, updated>>

StartTask(t) ==
  /\ t \notin EmptyTask
  /\ \/ state[t] = "none" /\ ReadyToRun(t)
     \/ state[t] = "up_for_retry"
  /\ Set(t, "running")
  /\ tries' = [tries EXCEPT ![t] = @ + 1]
  /\ UNCHANGED <<ds, runs, branch, failed, updated>>

RetryForever(n) == "up_for_retry"
AfterFailure(n) == IF n <= RETRIES THEN "up_for_retry" ELSE "failed"

-----------------------------------------------------------------------------
(* The attempts of a task *)

\* An attempt fails: the callable raises, spark-submit exits with an error or
\* the worker is lost.  By then a data quality job may have appended its
\* results, FAIL rows among them, and a Gold job may have overwritten its table.
FailTask(t) ==
  /\ state[t] = "running"
  /\ Set(t, AfterFailure(tries[t]))
  /\ tries' = [tries EXCEPT ![t] = IF AfterFailure(@) = "failed" THEN 0 ELSE @]
  /\ \/ UNCHANGED <<failed, updated>>
     \/ t = "run_silver_data_quality" /\ failed' = failed \cup {ds} /\ UNCHANGED updated
     \/ t \in Gold /\ updated' = updated \cup {t} /\ UNCHANGED failed
  /\ UNCHANGED <<ds, runs, branch>>

\* An attempt succeeds; a data quality job does so only when nothing failed.
FinishTask(t) ==
  /\ state[t] = "running" /\ t # "quality_gate"
  /\ Set(t, "success") /\ tries' = [tries EXCEPT ![t] = 0]
  /\ updated' = updated \cup ({t} \cap Gold)
  /\ UNCHANGED <<ds, runs, branch, failed>>

GateAlwaysOpen(fails) == "quality_gate_passed"
QualityGate(fails) ==
  IF ds \in fails THEN "quality_gate_failed" ELSE "quality_gate_passed"

OtherBranch(t) ==
  IF t = "quality_gate_passed" THEN "quality_gate_failed" ELSE "quality_gate_passed"

\* The branch operator skips the task it did not choose.
FinishGate ==
  /\ state["quality_gate"] = "running"
  /\ branch' = QualityGate(failed)
  /\ state' = [state EXCEPT !["quality_gate"] = "success",
                            ![OtherBranch(QualityGate(failed))] = "skipped"]
  /\ tries' = [tries EXCEPT !["quality_gate"] = 0]
  /\ UNCHANGED <<ds, runs, failed, updated>>

-----------------------------------------------------------------------------
Next ==
  \/ StartRun
  \/ \E t \in Task : Propagate(t) \/ MarkEmpty(t) \/ StartTask(t)
                       \/ FailTask(t) \/ FinishTask(t)
  \/ FinishGate

Spec == Init /\ [][Next]_vars

\* The scheduler loop visits every task instance again and again, and every
\* attempt ends: spark-submit returns, or the worker's heartbeat is missed.
Fairness ==
  \A t \in Task :
    /\ WF_vars(Propagate(t)) /\ WF_vars(MarkEmpty(t)) /\ WF_vars(StartTask(t))
    /\ WF_vars(FailTask(t) \/ FinishTask(t) \/ (t = "quality_gate" /\ FinishGate))

FairSpec == Spec /\ Fairness

-----------------------------------------------------------------------------
(* Safety *)

Started(t) == state[t] \in {"running", "up_for_retry", "success", "failed"}

\* Gold is never overwritten for a date that has a failed check, not even one
\* recorded by an attempt or a run that was later repeated with success.
GoldBehindGate == updated # {} => ds \notin failed

\* The steps of the medallion exclude one another: nothing else runs while a
\* Silver job or the gate does, and Gold jobs only run next to each other and
\* to the notification.
StepsExcludeEachOther ==
  \A t, u \in Task :
    state[t] = "running" /\ state[u] = "running" /\ t # u
      => {t, u} \subseteq Gold \cup {"notify_on_failure"}

\* pipeline_complete is reached when Gold is complete, or untouched because the
\* gate halted it: never after some of the three updates only.
CompleteIsAllOrNothing ==
  state["pipeline_complete"] = "success" =>
    \/ branch = "quality_gate_passed" /\ updated = Gold
    \/ branch = "quality_gate_failed" /\ updated = {} /\ ds \in failed

-----------------------------------------------------------------------------
(* Liveness *)

\* No task waits for ever, whatever fails: every run ends, so that the next one
\* may start.
EveryRunEnds == []<>RunEnded

-----------------------------------------------------------------------------
(* What the documentation says and the code does not do *)

\* financial_pipeline.py:101 "Send Slack/email alert on quality gate failure":
\* it is sent after nothing else.
AlertOnlyOnGateFailure ==
  state["notify_on_failure"] = "success" => branch = "quality_gate_failed"

\* data-flow.md:192-203: a date with a failed check takes the NO branch of the
\* quality gate, which halts the run and sends the notification; only a gate
\* that itself fails keeps it from doing so.
FailedChecksReachTheGate ==
  RunEnded /\ ds \in failed => state["quality_gate"] # "upstream_failed"
=============================================================================
