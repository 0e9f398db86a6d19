------------------------- MODULE FinancialDagProofs -------------------------
(***************************************************************************)
(* Safety of the DAG, for every set of dates and every number of retries   *)
(* and of runs.  The argument: the state of a task is always justified by  *)
(* the states of its upstream tasks, and since final states do not change  *)
(* within a run, a justification stays valid.                              *)
(***************************************************************************)
EXTENDS FinancialDag, TLAPS

BranchTask == {"quality_gate_passed", "quality_gate_failed"}

AttemptsInv ==
  \A t \in Task : /\ state[t] = "none" => tries[t] = 0
                  /\ state[t] = "up_for_retry" => tries[t] <= RETRIES
                  /\ t \in EmptyTask => state[t] \notin {"running", "up_for_retry"}

Justified(t) ==
  /\ Started(t) => ReadyToRun(t)
  /\ state[t] = "skipped" =>
       SomeUpstream(t, {"skipped"}) \/ (t \in BranchTask /\ state["quality_gate"] = "success")
  /\ state[t] = "upstream_failed" => UpstreamFailed(t)

\* The gate's decision stands: no check can fail after it.
GateDecided ==
  IF state["quality_gate"] = "success"
  THEN /\ branch = QualityGate(failed)
       /\ \A t \in BranchTask : state[t] = "skipped" <=> t # branch
  ELSE branch = "none"

UpdatedInv ==
  \A t \in Gold : /\ t \in updated => Started(t)
                  /\ state[t] = "success" => t \in updated

IInv == TypeOK /\ AttemptsInv /\ (\A t \in Task : Justified(t)) /\ GateDecided /\ UpdatedInv

-----------------------------------------------------------------------------
(* The tasks and their edges *)

LEMMA Tasks ==
  /\ Gold \subseteq Task /\ BranchTask \subseteq Task
  /\ \A t \in Task : Upstream(t) \subseteq Task
  /\ {"start", "check_bronze_freshness", "run_silver_clean", "run_silver_deduplicate",
      "run_silver_data_quality", "quality_gate", "quality_gate_passed",
      "quality_gate_failed", "notify_on_failure", "pipeline_complete"} \subseteq Task
BY DEF Task, Gold, EmptyTask, Chain, BranchTask, Upstream

LEMMA Edges ==
  /\ Upstream("start") = {}
  /\ Upstream("check_bronze_freshness") = {"start"}
  /\ Upstream("run_silver_clean") = {"check_bronze_freshness"}
  /\ Upstream("run_silver_deduplicate") = {"run_silver_clean"}
  /\ Upstream("run_silver_data_quality") = {"run_silver_deduplicate"}
  /\ Upstream("quality_gate") = {"run_silver_data_quality"}
  /\ \A t \in BranchTask : Upstream(t) = {"quality_gate"}
  /\ \A t \in Gold : Upstream(t) = {"quality_gate_passed"}
  /\ Upstream("notify_on_failure") = {"quality_gate_failed"}
  /\ Upstream("pipeline_complete") = Gold \cup {"notify_on_failure"}
<1> USE DEF Upstream, Edge, QualityUpstream, CompleteUpstream, Gold
<1>1. Upstream("start") = {}
  OBVIOUS
<1>2. Upstream("check_bronze_freshness") = {"start"}
  BY Tasks
<1>3. Upstream("run_silver_clean") = {"check_bronze_freshness"}
  BY Tasks
<1>4. Upstream("run_silver_deduplicate") = {"run_silver_clean"}
  BY Tasks
<1>5. Upstream("run_silver_data_quality") = {"run_silver_deduplicate"}
  BY Tasks
<1>6. Upstream("quality_gate") = {"run_silver_data_quality"}
  BY Tasks
<1>7. \A t \in BranchTask : Upstream(t) = {"quality_gate"}
  BY Tasks DEF BranchTask
<1>8. \A t \in Gold : Upstream(t) = {"quality_gate_passed"}
  BY Tasks
<1>9. Upstream("notify_on_failure") = {"quality_gate_failed"}
  BY Tasks
<1>10. Upstream("pipeline_complete") = Gold \cup {"notify_on_failure"}
  BY Tasks
<1> QED
  BY <1>1, <1>2, <1>3, <1>4, <1>5, <1>6, <1>7, <1>8, <1>9, <1>10

LEMMA Rules ==
  /\ \A t \in Task \ {"notify_on_failure", "pipeline_complete"} : TriggerRule(t) = "all_success"
  /\ TriggerRule("notify_on_failure") = "none_failed"
  /\ TriggerRule("pipeline_complete") = "none_failed_min_one_success"
BY DEF TriggerRule

-----------------------------------------------------------------------------
(* A justification stays valid while final states do not change *)

LEMMA JustificationStays ==
  ASSUME TypeOK, TypeOK', NEW t \in Task, Justified(t),
         \A u \in Task : state[u] \in Terminal => state'[u] = state[u],
         state'[t] = state[t]
  PROVE  Justified(t)'
<1>1. \A u \in Upstream(t) : u \in Task
  BY Tasks
<1>2. ReadyToRun(t) => ReadyToRun(t)'
  BY <1>1 DEF ReadyToRun, AllUpstream, SomeUpstream, Terminal
<1>3. UpstreamFailed(t) => UpstreamFailed(t)'
  BY <1>1 DEF UpstreamFailed, SomeUpstream, Terminal
<1>4. SomeUpstream(t, {"skipped"}) => SomeUpstream(t, {"skipped"})'
  BY <1>1 DEF SomeUpstream, Terminal
<1>5. state["quality_gate"] = "success" => state'["quality_gate"] = "success"
  BY Tasks DEF Terminal
<1> QED
  BY <1>2, <1>3, <1>4, <1>5 DEF Justified, Started

\* One task moves to a state that its upstream tasks justify.
LEMMA OneTaskMoves ==
  ASSUME TypeOK, TypeOK', \A u \in Task : Justified(u),
         NEW t \in Task, state[t] \notin Terminal,
         NEW s \in TaskState, state' = [state EXCEPT ![t] = s],
         Started(t) \/ ReadyToRun(t) \/ s \in {"upstream_failed", "skipped"},
         s = "upstream_failed" => UpstreamFailed(t),
         s = "skipped" => SkippedByRule(t)
  PROVE  \A u \in Task : Justified(u)'
<1>1. \A u \in Task : state[u] \in Terminal => state'[u] = state[u]
  BY DEF TypeOK
<1>2. ASSUME NEW u \in Task, u # t
      PROVE  Justified(u)'
  BY <1>1, <1>2, JustificationStays DEF TypeOK
<1>3. Justified(t)'
  <2>1. \A u \in Upstream(t) : u \in Task
    BY Tasks
  <2>2. ReadyToRun(t) => ReadyToRun(t)'
    BY <1>1, <2>1 DEF ReadyToRun, AllUpstream, SomeUpstream, Terminal
  <2>3. UpstreamFailed(t) => UpstreamFailed(t)'
    BY <1>1, <2>1 DEF UpstreamFailed, SomeUpstream, Terminal
  <2>4. SkippedByRule(t) => SomeUpstream(t, {"skipped"})
    BY Tasks, Edges, Rules DEF SkippedByRule, SomeUpstream, AllUpstream
  <2>5. SomeUpstream(t, {"skipped"}) => SomeUpstream(t, {"skipped"})'
    BY <1>1, <2>1 DEF SomeUpstream, Terminal
  <2>6. state'[t] = s
    BY DEF TypeOK
  <2>7. CASE s \in {"upstream_failed", "skipped"}
    BY <2>3, <2>4, <2>5, <2>6, <2>7 DEF Justified, Started
  <2>8. CASE s \notin {"upstream_failed", "skipped"}
    <3>1. ReadyToRun(t)
      BY <2>8 DEF Justified
    <3> QED
      BY <2>2, <2>6, <2>8, <3>1 DEF Justified
  <2> QED
    BY <2>7, <2>8
<1> QED
  BY <1>2, <1>3

-----------------------------------------------------------------------------
(* What the invariant says of the tasks before the gate *)

LEMMA ChainNeverSkipped ==
  ASSUME TypeOK, \A t \in Task : Justified(t)
  PROVE  \A t \in Chain \cup {"start"} : state[t] # "skipped"
<1> USE Tasks, Edges DEF Justified, SomeUpstream, BranchTask
<1>1. state["start"] # "skipped"
  OBVIOUS
<1>2. state["check_bronze_freshness"] # "skipped"
  BY <1>1
<1>3. state["run_silver_clean"] # "skipped"
  BY <1>2
<1>4. state["run_silver_deduplicate"] # "skipped"
  BY <1>3
<1>5. state["run_silver_data_quality"] # "skipped"
  BY <1>4
<1>6. state["quality_gate"] # "skipped"
  BY <1>5
<1> QED
  BY <1>1, <1>2, <1>3, <1>4, <1>5, <1>6 DEF Chain

\* A started task has its whole chain behind it.
LEMMA ChainBehind ==
  ASSUME TypeOK, \A t \in Task : Justified(t)
  PROVE  /\ Started("check_bronze_freshness") => state["start"] = "success"
         /\ Started("run_silver_clean") => state["check_bronze_freshness"] = "success"
         /\ Started("run_silver_deduplicate") => state["run_silver_clean"] = "success"
         /\ Started("run_silver_data_quality") => state["run_silver_deduplicate"] = "success"
         /\ Started("quality_gate") => state["run_silver_data_quality"] = "success"
         /\ \A t \in BranchTask : Started(t) => state["quality_gate"] = "success"
         /\ \A t \in Gold : Started(t) => state["quality_gate_passed"] = "success"
         /\ Started("notify_on_failure") => state["quality_gate_failed"] \in {"success", "skipped"}
<1>1. \A t \in Task \ {"notify_on_failure", "pipeline_complete"} :
        Started(t) => \A u \in Upstream(t) : state[u] = "success"
  BY Rules DEF Justified, ReadyToRun, AllUpstream
<1>2. Started("notify_on_failure") =>
        \A u \in Upstream("notify_on_failure") : state[u] \in {"success", "skipped"}
  BY Rules, Tasks DEF Justified, ReadyToRun, AllUpstream
<1>3. /\ BranchTask \cap {"notify_on_failure", "pipeline_complete"} = {}
      /\ Gold \cap {"notify_on_failure", "pipeline_complete"} = {}
  BY DEF BranchTask, Gold
<1> QED
  BY <1>1, <1>2, <1>3, Tasks, Edges

\* Neither branch has a state before the gate has decided.
LEMMA BranchesWait ==
  ASSUME TypeOK, \A t \in Task : Justified(t), state["quality_gate"] = "running"
  PROVE  \A t \in BranchTask : state[t] = "none"
<1>1. \A t \in BranchTask : ~Started(t)
  BY ChainBehind
<1>2. \A t \in BranchTask : state[t] # "skipped" /\ state[t] # "upstream_failed"
  BY Tasks, Edges DEF Justified, SomeUpstream, UpstreamFailed
<1> QED
  BY <1>1, <1>2, Tasks DEF TypeOK, TaskState, Started

\* Whatever started behind a branch, the gate and all before it have succeeded.
LEMMA AfterGate ==
  ASSUME TypeOK, \A t \in Task : Justified(t),
         NEW g \in Gold \cup {"notify_on_failure"}, Started(g)
  PROVE  \A t \in Chain : state[t] = "success"
<1>1. state["quality_gate"] = "success"
  <2>1. CASE g \in Gold
    <3>1. state["quality_gate_passed"] = "success"
      BY <2>1, ChainBehind
    <3> QED
      BY <3>1, ChainBehind DEF Started, BranchTask
  <2>2. CASE g = "notify_on_failure"
    <3>1. state["quality_gate_failed"] \in {"success", "skipped"}
      BY <2>2, ChainBehind
    <3>2. CASE state["quality_gate_failed"] = "success"
      BY <3>2, ChainBehind DEF Started, BranchTask
    <3>3. CASE state["quality_gate_failed"] = "skipped"
      BY <3>3, ChainNeverSkipped, Tasks, Edges DEF Justified, SomeUpstream, BranchTask, Chain
    <3> QED
      BY <3>1, <3>2, <3>3
  <2> QED
    BY <2>1, <2>2
<1> QED
  BY <1>1, ChainBehind DEF Started, Chain

-----------------------------------------------------------------------------
(* Types *)

LEMMA TypeInit == Init => TypeOK /\ AttemptsInv
BY DagAssumption DEF Init, TypeOK, AttemptsInv, TaskState

LEMMA OtherBranchType == /\ QualityGate(failed) \in BranchTask
                         /\ OtherBranch(QualityGate(failed)) \in BranchTask
                         /\ OtherBranch(QualityGate(failed)) # QualityGate(failed)
BY DEF QualityGate, OtherBranch, BranchTask

LEMMA TypeStep ==
  ASSUME TypeOK, AttemptsInv, [Next]_vars
  PROVE  TypeOK' /\ AttemptsInv'
<1> USE DEF TypeOK, AttemptsInv, TaskState
<1>1. CASE StartRun
  BY <1>1, DagAssumption DEF StartRun
<1>2. ASSUME NEW t \in Task, Propagate(t)
      PROVE  TypeOK' /\ AttemptsInv'
  BY <1>2 DEF Propagate, Set
<1>3. ASSUME NEW t \in Task, MarkEmpty(t)
      PROVE  TypeOK' /\ AttemptsInv'
  BY <1>3 DEF MarkEmpty, Set
<1>4. ASSUME NEW t \in Task, StartTask(t)
      PROVE  TypeOK' /\ AttemptsInv'
  <2>1. tries[t] \in 0..RETRIES
    BY <1>4, DagAssumption DEF StartTask
  <2> QED
    BY <1>4, <2>1, DagAssumption DEF StartTask, Set
<1>5. ASSUME NEW t \in Task, FailTask(t)
      PROVE  TypeOK' /\ AttemptsInv'
  BY <1>5, DagAssumption DEF FailTask, Set, AfterFailure
<1>6. ASSUME NEW t \in Task, FinishTask(t)
      PROVE  TypeOK' /\ AttemptsInv'
  BY <1>6, DagAssumption DEF FinishTask, Set
<1>7. CASE FinishGate
  BY <1>7, DagAssumption, Tasks, OtherBranchType DEF FinishGate, BranchTask
<1>8. CASE UNCHANGED vars
  BY <1>8 DEF vars
<1> QED
  BY <1>1, <1>2, <1>3, <1>4, <1>5, <1>6, <1>7, <1>8 DEF Next

\* Type correctness of the DAG: every task instance is in one of the states the
\* scheduler knows, and no task is attempted more than retries + 1 times.
THEOREM DagTypes == Spec => []TypeOK
<1>1. TypeOK /\ AttemptsInv /\ [Next]_vars => (TypeOK /\ AttemptsInv)'
  BY TypeStep
<1> QED
  BY TypeInit, <1>1, PTL DEF Spec

-----------------------------------------------------------------------------
(* The invariant *)

LEMMA InvInit == Init => IInv
<1> SUFFICES ASSUME Init PROVE IInv
  OBVIOUS
<1>1. \A t \in Task : state[t] = "none"
  BY DEF Init
<1> QED
  BY <1>1, TypeInit, Tasks DEF Init, IInv, Justified, Started, GateDecided, UpdatedInv

\* The decision stands when a task moves, unless it is the gate that succeeds.
LEMMA GateStays ==
  ASSUME TypeOK, \A t \in Task : Justified(t), GateDecided,
         NEW t \in Task, NEW s \in TaskState, state[t] \notin Terminal,
         state' = [state EXCEPT ![t] = s],
         t = "quality_gate" => s # "success",
         t \in BranchTask /\ s = "skipped" => SkippedByRule(t),
         branch' = branch, ds' = ds,
         failed' = failed \/ t = "run_silver_data_quality"
  PROVE  GateDecided'
<1> USE Tasks DEF TypeOK
<1>1. state'["quality_gate"] = "success" <=> state["quality_gate"] = "success"
  BY DEF Terminal
<1>2. CASE state["quality_gate"] = "success"
  <2>1. failed' = failed
    BY <1>2, ChainBehind DEF Terminal, Started
  <2>2. ~SkippedByRule(t) \/ t \notin BranchTask
    BY <1>2, Edges, Rules DEF SkippedByRule, SomeUpstream, AllUpstream, BranchTask
  <2>3. \A u \in BranchTask : state'[u] = "skipped" <=> state[u] = "skipped"
    BY <2>2 DEF Terminal
  <2>4. QualityGate(failed)' = QualityGate(failed)
    BY <2>1 DEF QualityGate
  <2> QED
    BY <1>1, <1>2, <2>3, <2>4 DEF GateDecided
<1>3. CASE state["quality_gate"] # "success"
  BY <1>1, <1>3 DEF GateDecided
<1> QED
  BY <1>2, <1>3

\* What the gate and the Gold tables have to say about a step that moves task t.
LEMMA InvOneTask ==
  ASSUME IInv, TypeOK', AttemptsInv',
         NEW t \in Task, state[t] \notin Terminal,
         NEW s \in TaskState \ {"none"}, state' = [state EXCEPT ![t] = s],
         Started(t) \/ ReadyToRun(t) \/ s \in {"upstream_failed", "skipped"},
         s = "upstream_failed" => UpstreamFailed(t),
         s = "skipped" => SkippedByRule(t),
         Started(t) => s \notin {"upstream_failed", "skipped"},
         t = "quality_gate" => s # "success",
         branch' = branch, ds' = ds,
         failed' = failed \/ t = "run_silver_data_quality",
         updated \subseteq updated',
         updated' \subseteq updated \cup (IF Started(t) THEN {t} ELSE {}),
         t \in Gold /\ s = "success" => t \in updated'
  PROVE  IInv'
<1>1. \A u \in Task : Justified(u)'
  BY OneTaskMoves DEF IInv
<1>2. GateDecided'
  BY GateStays DEF IInv
<1>3. UpdatedInv'
  <2> SUFFICES ASSUME NEW g \in Gold
               PROVE  /\ g \in updated' => Started(g)'
                      /\ state'[g] = "success" => g \in updated'
    BY DEF UpdatedInv
  <2>1. g \in Task
    BY Tasks
  <2>2. CASE g = t
    BY <2>1, <2>2 DEF IInv, UpdatedInv, Started, TypeOK, TaskState, Terminal
  <2>3. CASE g # t
    BY <2>1, <2>3 DEF IInv, UpdatedInv, Started, TypeOK
  <2> QED
    BY <2>2, <2>3
<1> QED
  BY <1>1, <1>2, <1>3 DEF IInv

LEMMA InvGate ==
  ASSUME IInv, TypeOK', AttemptsInv', FinishGate
  PROVE  IInv'
<1> DEFINE other == OtherBranch(QualityGate(failed))
<1> USE Tasks, OtherBranchType DEF FinishGate, IInv, TypeOK
<1>1. \A t \in BranchTask : state[t] = "none"
  BY BranchesWait
<1>2. /\ "quality_gate" \notin BranchTask
      /\ Gold \cap (BranchTask \cup {"quality_gate"}) = {}
  BY DEF BranchTask, Gold
<1>3. /\ state'["quality_gate"] = "success" /\ state'[other] = "skipped"
      /\ \A t \in Task \ {"quality_gate", other} : state'[t] = state[t]
  BY <1>2
<1>4. \A t \in Task : state[t] \in Terminal => state'[t] = state[t]
  BY <1>1, <1>3 DEF Terminal
<1>5. \A t \in Task \ {"quality_gate", other} : Justified(t)'
  BY <1>3, <1>4, JustificationStays
<1>6. Justified("quality_gate")'
  <2>1. ReadyToRun("quality_gate")
    BY DEF Justified, Started
  <2>2. state["run_silver_data_quality"] = "success"
    BY ChainBehind DEF Started
  <2>3. state'["run_silver_data_quality"] = "success"
    BY <1>4, <2>2 DEF Terminal
  <2>4. AllUpstream("quality_gate", {"success"})'
    BY <2>3, Edges DEF AllUpstream
  <2>5. TriggerRule("quality_gate") = "all_success"
    BY Rules
  <2>6. ReadyToRun("quality_gate")'
    BY <2>4, <2>5 DEF ReadyToRun
  <2> QED
    BY <1>3, <2>6 DEF Justified
<1>7. \A t \in BranchTask : t = other => Justified(t)'
  BY <1>3 DEF Justified, Started
<1>8. GateDecided'
  <2>1. QualityGate(failed)' = QualityGate(failed)
    BY DEF QualityGate
  <2>2. BranchTask = {other, QualityGate(failed)}
    BY DEF BranchTask, QualityGate, OtherBranch
  <2>3. \A t \in BranchTask : state'[t] = "skipped" <=> t # QualityGate(failed)
    <3>1. state'[QualityGate(failed)] = "none"
      BY <1>1, <1>2, <1>3
    <3> QED
      BY <1>3, <2>2, <3>1
  <2> QED
    BY <1>3, <2>1, <2>3 DEF GateDecided
<1>9. UpdatedInv'
  BY <1>2, <1>3 DEF UpdatedInv, Started
<1>10. \A t \in Task : Justified(t)'
  BY <1>5, <1>6, <1>7
<1> QED
  BY <1>8, <1>9, <1>10

LEMMA InvStep ==
  ASSUME IInv, [Next]_vars
  PROVE  IInv'
<1>1. TypeOK' /\ AttemptsInv'
  BY TypeStep DEF IInv
<1> USE DEF IInv, TypeOK
<1>2. CASE StartRun
  BY <1>1, <1>2, Tasks DEF StartRun, Justified, Started, GateDecided, UpdatedInv
<1>3. ASSUME NEW t \in Task, Propagate(t)
      PROVE  IInv'
  <2>1. CASE UpstreamFailed(t) /\ Set(t, "upstream_failed")
    BY <1>1, <1>3, <2>1, InvOneTask DEF Propagate, Set, TaskState, Terminal, Started
  <2>2. CASE SkippedByRule(t) /\ Set(t, "skipped")
    BY <1>1, <1>3, <2>2, InvOneTask DEF Propagate, Set, TaskState, Terminal, Started
  <2> QED
    BY <1>3, <2>1, <2>2 DEF Propagate
<1>4. ASSUME NEW t \in Task, MarkEmpty(t)
      PROVE  IInv'
  <2>1. t \notin Gold \cup {"quality_gate"}
    BY <1>4 DEF MarkEmpty, EmptyTask, Gold
  <2> QED
    BY <1>1, <1>4, <2>1, InvOneTask DEF MarkEmpty, Set, TaskState, Terminal
<1>5. ASSUME NEW t \in Task, StartTask(t)
      PROVE  IInv'
  BY <1>1, <1>5, InvOneTask DEF StartTask, Set, TaskState, Terminal, Started
<1>6. ASSUME NEW t \in Task, FailTask(t)
      PROVE  IInv'
  <2>1. AfterFailure(tries[t]) \in {"up_for_retry", "failed"}
    BY DEF AfterFailure
  <2>2. Started(t) /\ state[t] \notin Terminal
    BY <1>6 DEF FailTask, Started, Terminal
  <2>3. /\ updated \subseteq updated' /\ updated' \subseteq updated \cup {t}
        /\ failed' = failed \/ t = "run_silver_data_quality"
    BY <1>6 DEF FailTask
  <2> QED
    BY <1>1, <1>6, <2>1, <2>2, <2>3, InvOneTask DEF FailTask, Set, TaskState
<1>7. ASSUME NEW t \in Task, FinishTask(t)
      PROVE  IInv'
  BY <1>1, <1>7, InvOneTask DEF FinishTask, Set, TaskState, Terminal, Started
<1>8. CASE FinishGate
  BY <1>1, <1>8, InvGate
<1>9. CASE UNCHANGED vars
  BY <1>1, <1>9 DEF vars, Justified, Started, ReadyToRun, AllUpstream, SomeUpstream,
     UpstreamFailed, GateDecided, QualityGate, UpdatedInv
<1> QED
  BY <1>2, <1>3, <1>4, <1>5, <1>6, <1>7, <1>8, <1>9 DEF Next

\* The invariant the properties below follow from: every task state is justified
\* by the trigger rules, and the gate's decision matches the recorded failures.
THEOREM DagInvariant == Spec => []IInv
<1>1. IInv /\ [Next]_vars => IInv'
  BY InvStep
<1> QED
  BY InvInit, <1>1, PTL DEF Spec

-----------------------------------------------------------------------------
(* What follows from it *)

\* Gold is never overwritten for a date with a failed check: every Gold task has
\* the gate behind it, which saw all the failures there will be in this run.
THEOREM GoldIsGuarded == Spec => []GoldBehindGate
<1>1. ASSUME IInv PROVE GoldBehindGate
  <2> SUFFICES ASSUME NEW g \in Gold, g \in updated PROVE ds \notin failed
    BY <1>1 DEF GoldBehindGate, IInv, TypeOK
  <2>1. state["quality_gate_passed"] = "success"
    BY <1>1, ChainBehind DEF IInv, UpdatedInv
  <2>2. state["quality_gate"] = "success"
    BY <1>1, <2>1, ChainBehind DEF IInv, BranchTask, Started
  <2> QED
    BY <1>1, <2>1, <2>2 DEF IInv, GateDecided, QualityGate, BranchTask
<1> QED
  BY DagInvariant, <1>1, PTL

\* No Silver job, freshness check or gate ever runs beside another task.
THEOREM StepsAreExclusive == Spec => []StepsExcludeEachOther
<1>1. ASSUME IInv PROVE StepsExcludeEachOther
  <2> DEFINE Late == Gold \cup {"notify_on_failure"}
  <2>1. \A t \in Task : state[t] = "running" => t \in Chain \cup Late
    BY <1>1 DEF IInv, AttemptsInv, Task
  <2>2. ASSUME NEW t \in Chain, state[t] = "running", NEW u \in Task, state[u] = "running"
        PROVE  t = u
    <3>1. CASE u \in Late
      BY <1>1, <2>2, <3>1, AfterGate DEF IInv, Started
    <3>2. CASE u \in Chain
      BY <1>1, <2>2, <3>2, ChainBehind DEF IInv, Started, Chain
    <3> QED
      BY <2>1, <2>2, <3>1, <3>2
  <2> QED
    BY <2>1, <2>2 DEF StepsExcludeEachOther
<1> QED
  BY DagInvariant, <1>1, PTL

\* The run completes with all of Gold updated, or none of it.
THEOREM CompleteMeansAllOrNothing == Spec => []CompleteIsAllOrNothing
<1>1. ASSUME IInv PROVE CompleteIsAllOrNothing
  <2> SUFFICES ASSUME state["pipeline_complete"] = "success"
               PROVE  \/ branch = "quality_gate_passed" /\ updated = Gold
                      \/ branch = "quality_gate_failed" /\ updated = {} /\ ds \in failed
    BY DEF CompleteIsAllOrNothing
  <2> USE <1>1, Tasks DEF IInv
  <2>1. ReadyToRun("pipeline_complete")
    BY DEF Justified, Started
  <2>2. /\ \A t \in Gold \cup {"notify_on_failure"} : state[t] \in {"success", "skipped"}
        /\ \E t \in Gold \cup {"notify_on_failure"} : state[t] = "success"
    BY <2>1, Edges, Rules DEF ReadyToRun, AllUpstream, SomeUpstream
  <2>3. \A g \in Gold : state[g] = "skipped" => state["quality_gate_passed"] = "skipped"
    BY Edges DEF Justified, SomeUpstream, BranchTask, Gold
  <2>4. state["quality_gate"] = "success"
    BY <2>2, AfterGate DEF Started, Chain
  <2>5. branch = QualityGate(failed) /\ \A t \in BranchTask : state[t] = "skipped" <=> t # branch
    BY <2>4 DEF GateDecided
  <2>6. CASE ds \in failed
    <3>1. branch = "quality_gate_failed" /\ state["quality_gate_passed"] = "skipped"
      BY <2>5, <2>6 DEF QualityGate, BranchTask
    <3>2. \A g \in Gold : ~Started(g)
      BY <3>1, ChainBehind
    <3> QED
      BY <2>6, <3>1, <3>2 DEF UpdatedInv, TypeOK
  <2>7. CASE ds \notin failed
    <3>1. branch = "quality_gate_passed" /\ state["quality_gate_passed"] # "skipped"
      BY <2>5, <2>7 DEF QualityGate, BranchTask
    <3>2. \A g \in Gold : state[g] = "success"
      BY <2>2, <2>3, <3>1
    <3> QED
      BY <3>1, <3>2 DEF UpdatedInv, TypeOK
  <2> QED
    BY <2>6, <2>7
<1> QED
  BY DagInvariant, <1>1, PTL

-----------------------------------------------------------------------------
(* What keeps a run from getting stuck, fairness apart *)

\* The scheduler or a worker has something to do with the task: its attempt may
\* end, its retry is due, or its trigger rule has an answer.
CanMove(t) ==
  \/ state[t] \in {"running", "up_for_retry"}
  \/ state[t] = "none" /\ (UpstreamFailed(t) \/ SkippedByRule(t) \/ ReadyToRun(t))

NobodyWaitsForEver == RunEnded \/ \E t \in Task : CanMove(t)

\* Every trigger rule has an answer once the upstream tasks have ended.
LEMMA RulesAreTotal ==
  ASSUME TypeOK, NEW t \in Task, AllUpstream(t, Terminal), ~CanMove(t)
  PROVE  state[t] \in Terminal
<1> SUFFICES ASSUME state[t] = "none" PROVE FALSE
  BY DEF TypeOK, TaskState, Terminal, CanMove
<1>1. AllUpstream(t, {"success", "skipped"})
  BY DEF CanMove, UpstreamFailed, SomeUpstream, AllUpstream, Terminal
<1>2. CASE TriggerRule(t) = "all_success"
  BY <1>1, <1>2 DEF CanMove, UpstreamFailed, SkippedByRule, ReadyToRun, SomeUpstream, AllUpstream
<1>3. CASE TriggerRule(t) = "none_failed"
  BY <1>1, <1>3 DEF CanMove, ReadyToRun
<1>4. CASE TriggerRule(t) = "none_failed_min_one_success"
  BY <1>1, <1>4 DEF CanMove, UpstreamFailed, SkippedByRule, ReadyToRun, SomeUpstream, AllUpstream
<1> QED
  BY <1>2, <1>3, <1>4 DEF TriggerRule

\* The run never deadlocks: until every task has ended, some task has a retry due,
\* an attempt under way or upstream tasks its trigger rule can be decided from.
\* (A task waiting for one that waits for it, or a combination of upstream states
\* no rule of financial_pipeline.py covers, would leave none.)
THEOREM DagNeverBlocks == Spec => []NobodyWaitsForEver
<1>1. ASSUME TypeOK, \A t \in Task : ~CanMove(t)
      PROVE  RunEnded
  <2>1. \A t \in Task : AllUpstream(t, Terminal) => state[t] \in Terminal
    BY <1>1, RulesAreTotal
  <2> USE Edges, Tasks DEF AllUpstream
  <2>2. state["start"] \in Terminal
    BY <2>1
  <2>3. state["check_bronze_freshness"] \in Terminal
    BY <2>1, <2>2
  <2>4. state["run_silver_clean"] \in Terminal
    BY <2>1, <2>3
  <2>5. state["run_silver_deduplicate"] \in Terminal
    BY <2>1, <2>4
  <2>6. state["run_silver_data_quality"] \in Terminal
    BY <2>1, <2>5
  <2>7. state["quality_gate"] \in Terminal
    BY <2>1, <2>6
  <2>8. \A t \in BranchTask : state[t] \in Terminal
    BY <2>1, <2>7
  <2>9. \A t \in Gold : state[t] \in Terminal
    BY <2>1, <2>8 DEF BranchTask
  <2>10. state["notify_on_failure"] \in Terminal
    BY <2>1, <2>8 DEF BranchTask
  <2>11. state["pipeline_complete"] \in Terminal
    BY <2>1, <2>9, <2>10
  <2>12. \A t \in Task : t \in Gold \cup BranchTask \cup Chain
                               \cup {"start", "notify_on_failure", "pipeline_complete"}
    BY DEF Task, EmptyTask, BranchTask
  <2>13. \A t \in Chain : state[t] \in Terminal
    BY <2>3, <2>4, <2>5, <2>6, <2>7 DEF Chain
  <2> QED
    BY <2>2, <2>8, <2>9, <2>10, <2>11, <2>12, <2>13 DEF RunEnded
<1>2. IInv => NobodyWaitsForEver
  BY <1>1 DEF IInv, NobodyWaitsForEver
<1> QED
  BY <1>2, DagInvariant, PTL

\* How far a task has come: each attempt and each wait for a retry is one further.
Rank(t) ==
  IF state[t] = "none" THEN 0
  ELSE IF state[t] = "running" THEN 2 * tries[t]
  ELSE IF state[t] = "up_for_retry" THEN 2 * tries[t] + 1
  ELSE 2 * RETRIES + 3

RanksAreBounded == \A t \in Task : Rank(t) \in 0..(2 * RETRIES + 3)

StepsForward ==
  /\ \A t \in Task : Rank(t)' >= Rank(t)
  /\ \E t \in Task : Rank(t)' > Rank(t)

LEMMA RankBound ==
  ASSUME TypeOK, AttemptsInv
  PROVE  RanksAreBounded
<1> SUFFICES ASSUME NEW t \in Task PROVE Rank(t) \in 0..(2 * RETRIES + 3)
  BY DEF RanksAreBounded
<1>1. tries[t] \in Nat /\ tries[t] <= RETRIES + 1 /\ RETRIES \in Nat
  BY DagAssumption DEF TypeOK
<1> QED
  BY <1>1 DEF Rank, AttemptsInv

LEMMA RanksAreNumbers ==
  ASSUME RanksAreBounded, NEW t \in Task
  PROVE  Rank(t) \in Int /\ Rank(t) <= 2 * RETRIES + 3
<1> DEFINE top == 2 * RETRIES + 3
<1>1. top \in Int
  BY DagAssumption
<1>2. Rank(t) \in 0..top
  BY DEF RanksAreBounded
<1> HIDE DEF top
<1>3. Rank(t) \in Int /\ Rank(t) <= top
  BY <1>1, <1>2
<1> QED
  BY <1>3 DEF top

LEMMA OneForward ==
  ASSUME RanksAreBounded, RanksAreBounded', NEW t \in Task, Rank(t)' > Rank(t),
         \A u \in Task : u # t => state'[u] = state[u] /\ tries'[u] = tries[u]
  PROVE  StepsForward
<1>1. \A u \in Task : u # t => Rank(u)' = Rank(u)
  BY DEF Rank
<1>2. \A u \in Task : Rank(u) \in Int
  BY RanksAreNumbers
<1>3. Rank(t)' \in Int
  <2>1. \A u \in Task : Rank(u)' \in 0..(2 * RETRIES + 3)
    BY DEF RanksAreBounded
  <2> QED
    BY <2>1, DagAssumption
<1> QED
  BY <1>1, <1>2, <1>3 DEF StepsForward

LEMMA TaskStepForward ==
  ASSUME TypeOK, AttemptsInv, RanksAreBounded, RanksAreBounded', NEW t \in Task,
         Propagate(t) \/ MarkEmpty(t) \/ StartTask(t) \/ FailTask(t) \/ FinishTask(t)
  PROVE  StepsForward
<1>1. /\ RETRIES \in Nat /\ tries[t] \in Nat /\ tries[t] <= RETRIES + 1
      /\ state[t] = "none" => tries[t] = 0
      /\ state[t] = "up_for_retry" => tries[t] <= RETRIES
  BY DagAssumption DEF TypeOK, AttemptsInv
<1>2. /\ state = [u \in Task |-> state[u]] /\ tries = [u \in Task |-> tries[u]]
  BY DEF TypeOK
<1>3. /\ \A u \in Task : u # t => state'[u] = state[u] /\ tries'[u] = tries[u]
      /\ Rank(t)' > Rank(t)
  <2>1. CASE Propagate(t) \/ MarkEmpty(t)
    BY <1>1, <1>2, <2>1 DEF Propagate, MarkEmpty, Set, Rank
  <2>2. CASE StartTask(t)
    BY <1>1, <1>2, <2>2 DEF StartTask, Set, Rank
  <2>3. CASE FailTask(t)
    BY <1>1, <1>2, <2>3 DEF FailTask, AfterFailure, Set, Rank
  <2>4. CASE FinishTask(t)
    BY <1>1, <1>2, <2>4 DEF FinishTask, Set, Rank
  <2> QED
    BY <2>1, <2>2, <2>3, <2>4
<1> QED
  BY <1>3, OneForward

LEMMA GateStepForward ==
  ASSUME TypeOK, RanksAreBounded, RanksAreBounded', FinishGate
  PROVE  StepsForward
<1> DEFINE top == 2 * RETRIES + 3
<1>1. PICK other \in Task : /\ other = OtherBranch(QualityGate(failed))
                            /\ other # "quality_gate" /\ "quality_gate" \in Task
  BY Tasks DEF OtherBranch
<1>2. RETRIES \in Nat /\ tries["quality_gate"] \in Nat /\ tries["quality_gate"] <= RETRIES + 1
  BY <1>1, DagAssumption DEF TypeOK
<1>3. /\ state'["quality_gate"] = "success" /\ state'[other] = "skipped"
      /\ \A u \in Task : u \notin {"quality_gate", other}
           => state'[u] = state[u] /\ tries'[u] = tries[u]
  BY <1>1 DEF FinishGate, TypeOK
<1>4. Rank("quality_gate") = 2 * tries["quality_gate"]
  BY DEF FinishGate, Rank
<1>5. Rank("quality_gate")' = top /\ Rank(other)' = top
  BY <1>3 DEF Rank
<1>6. \A u \in Task : Rank(u) \in Int /\ Rank(u) <= top
  BY RanksAreNumbers
<1>7. \A u \in Task : u \notin {"quality_gate", other} => Rank(u)' = Rank(u)
  BY <1>3 DEF Rank
<1>8. top \in Int /\ 2 * tries["quality_gate"] < top
  BY <1>2
<1> HIDE DEF top
<1>9. \A u \in Task : Rank(u)' >= Rank(u)
  BY <1>1, <1>5, <1>6, <1>7, <1>8
<1>10. Rank("quality_gate")' > Rank("quality_gate")
  BY <1>2, <1>4, <1>5, <1>8
<1> QED
  BY <1>1, <1>9, <1>10 DEF StepsForward

\* Within a run nothing is undone: every step takes one task further and none
\* back, and no task can go further than its last attempt allows.  A run of n
\* tasks has therefore at most n * (2 * RETRIES + 3) steps, whatever fails.
THEOREM DagMovesForward ==
  Spec => /\ []RanksAreBounded
          /\ [][runs' = runs => StepsForward]_vars
<1>1. IInv => RanksAreBounded
  BY RankBound DEF IInv
<1>2. ASSUME IInv, IInv', Next, runs' = runs
      PROVE  StepsForward
  <2>1. TypeOK /\ AttemptsInv /\ RanksAreBounded
    BY <1>1, <1>2 DEF IInv
  <2>2. RanksAreBounded'
    <3>1. TypeOK' /\ AttemptsInv'
      BY <1>2 DEF IInv
    <3> QED
      BY <3>1, RankBound, PTL
  <2>3. CASE StartRun
    BY <1>2, <2>1, <2>3 DEF StartRun, TypeOK
  <2>4. CASE \E t \in Task : \/ Propagate(t) \/ MarkEmpty(t) \/ StartTask(t)
                             \/ FailTask(t) \/ FinishTask(t)
    BY <2>1, <2>2, <2>4, TaskStepForward
  <2>5. CASE FinishGate
    BY <2>1, <2>2, <2>5, GateStepForward
  <2> QED
    BY <1>2, <2>3, <2>4, <2>5 DEF Next
<1>3. IInv /\ IInv' /\ [Next]_vars => [runs' = runs => StepsForward]_vars
  BY <1>2
<1> QED
  BY <1>1, <1>3, DagInvariant, PTL DEF Spec
=============================================================================
