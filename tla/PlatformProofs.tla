--------------------------- MODULE PlatformProofs ---------------------------
(***************************************************************************)
(* The layers together, for any times, dates, rows and runs.  Each step of *)
(* the platform is one of the DAG's or leaves it alone, so what is proved  *)
(* of the DAG holds here; with it a table keeps what a check of the        *)
(* current run has seen, until the run is over.                            *)
(***************************************************************************)
EXTENDS Platform, TLAPS

D == INSTANCE FinancialDagProofs

-----------------------------------------------------------------------------
(* The DAG of the platform is the DAG the other proofs are about *)

LEMMA SameTasks ==
  /\ Dag!Gold = D!Gold /\ Dag!EmptyTask = D!EmptyTask /\ Dag!Task = D!Task
  /\ Dag!TaskState = D!TaskState /\ Dag!Terminal = D!Terminal
  /\ \A t : Dag!Upstream(t) = D!Upstream(t) /\ Dag!TriggerRule(t) = D!TriggerRule(t)
<1>1. /\ Dag!Gold = D!Gold /\ Dag!EmptyTask = D!EmptyTask /\ Dag!Chain = D!Chain
      /\ Dag!TaskState = D!TaskState /\ Dag!Terminal = D!Terminal
  BY DEF Dag!Gold, D!Gold, Dag!EmptyTask, D!EmptyTask, Dag!Chain, D!Chain,
         Dag!TaskState, D!TaskState, Dag!Terminal, D!Terminal
<1>2. Dag!Task = D!Task
  BY <1>1 DEF Dag!Task, D!Task
<1>3. Dag!Edge = D!Edge
  BY <1>1 DEF Dag!Edge, D!Edge, Dag!QualityUpstream, D!QualityUpstream,
              Dag!CompleteUpstream, D!CompleteUpstream
<1>4. \A t : Dag!Upstream(t) = D!Upstream(t)
  BY <1>2, <1>3 DEF Dag!Upstream, D!Upstream
<1>5. \A t : Dag!TriggerRule(t) = D!TriggerRule(t)
  BY DEF Dag!TriggerRule, D!TriggerRule
<1> QED
  BY <1>1, <1>2, <1>4, <1>5

LEMMA SameInit == Dag!Init <=> D!Init
BY SameTasks DEF Dag!Init, D!Init

LEMMA SameTypes ==
  /\ Dag!TypeOK <=> D!TypeOK
  /\ Dag!TypeOK' <=> D!TypeOK'
BY SameTasks DEF Dag!TypeOK, D!TypeOK

LEMMA SameRules ==
  \A t : /\ Dag!UpstreamFailed(t) <=> D!UpstreamFailed(t)
         /\ Dag!SkippedByRule(t) <=> D!SkippedByRule(t)
         /\ Dag!ReadyToRun(t) <=> D!ReadyToRun(t)
<1>1. \A t, S : /\ Dag!AllUpstream(t, S) <=> D!AllUpstream(t, S)
                /\ Dag!SomeUpstream(t, S) <=> D!SomeUpstream(t, S)
  BY SameTasks DEF Dag!AllUpstream, D!AllUpstream, Dag!SomeUpstream, D!SomeUpstream
<1>2. \A t : Dag!UpstreamFailed(t) <=> D!UpstreamFailed(t)
  BY <1>1 DEF Dag!UpstreamFailed, D!UpstreamFailed
<1>3. \A t : Dag!SkippedByRule(t) <=> D!SkippedByRule(t)
  BY <1>1, <1>2, SameTasks DEF Dag!SkippedByRule, D!SkippedByRule
<1>4. \A t : Dag!ReadyToRun(t) <=> D!ReadyToRun(t)
  BY <1>1, SameTasks DEF Dag!ReadyToRun, D!ReadyToRun
<1> QED
  BY <1>2, <1>3, <1>4

LEMMA SameSteps ==
  /\ Dag!StartRun <=> D!StartRun
  /\ Dag!FinishGate <=> D!FinishGate
  /\ \A t : /\ Dag!Propagate(t) <=> D!Propagate(t)
            /\ Dag!MarkEmpty(t) <=> D!MarkEmpty(t)
            /\ Dag!StartTask(t) <=> D!StartTask(t)
            /\ Dag!FailTask(t) <=> D!FailTask(t)
            /\ Dag!FinishTask(t) <=> D!FinishTask(t)
<1>1. Dag!StartRun <=> D!StartRun
  BY SameTasks DEF Dag!StartRun, D!StartRun, Dag!RunEnded, D!RunEnded
<1>2. Dag!FinishGate <=> D!FinishGate
  BY DEF Dag!FinishGate, D!FinishGate, Dag!QualityGate, D!QualityGate,
         Dag!OtherBranch, D!OtherBranch
<1>3. \A t : Dag!Propagate(t) <=> D!Propagate(t)
  BY SameRules DEF Dag!Propagate, D!Propagate, Dag!Set, D!Set
<1>4. \A t : Dag!MarkEmpty(t) <=> D!MarkEmpty(t)
  BY SameRules, SameTasks DEF Dag!MarkEmpty, D!MarkEmpty, Dag!Set, D!Set
<1>5. \A t : Dag!StartTask(t) <=> D!StartTask(t)
  BY SameRules, SameTasks DEF Dag!StartTask, D!StartTask, Dag!Set, D!Set
<1>6. \A t : Dag!FailTask(t) <=> D!FailTask(t)
  BY SameTasks DEF Dag!FailTask, D!FailTask, Dag!Set, D!Set, Dag!AfterFailure, D!AfterFailure
<1>7. \A t : Dag!FinishTask(t) <=> D!FinishTask(t)
  BY SameTasks DEF Dag!FinishTask, D!FinishTask, Dag!Set, D!Set
<1> QED
  BY <1>1, <1>2, <1>3, <1>4, <1>5, <1>6, <1>7

LEMMA DagStep ==
  ASSUME [Next]_vars
  PROVE  [D!Next]_(D!vars)
<1> USE SameSteps, SameTasks DEF D!Next
<1>1. CASE StartRun
  BY <1>1 DEF StartRun
<1>2. CASE PassGate
  BY <1>2 DEF PassGate
<1>3. ASSUME NEW t \in Dag!Task, Schedule(t) \/ FinishWithoutWrite(t) \/ FailWithoutWrite(t)
      PROVE  D!Next
  BY <1>3 DEF Schedule, FinishWithoutWrite, FailWithoutWrite
<1>4. ASSUME Clean \/ CheckPasses \/ CheckFails PROVE D!Next
  <2>1. {"run_silver_clean", "run_silver_data_quality"} \subseteq Dag!Task
    BY DEF Dag!Task, Dag!Chain
  <2> QED
    BY <1>4, <2>1 DEF Clean, CheckPasses, CheckFails
<1>5. ASSUME NEW t \in Dag!Gold, UpdateGold(t)
      PROVE  D!Next
  <2>1. t \in Dag!Task
    BY DEF Dag!Task
  <2> QED
    BY <1>5, <2>1 DEF UpdateGold
<1>6. CASE Tick \/ Ingest \/ LoadCustomers \/ UNCHANGED vars
  BY <1>6 DEF Tick, Ingest, LoadCustomers, vars, dag, D!vars
<1> QED
  BY <1>1, <1>2, <1>3, <1>4, <1>5, <1>6 DEF Next

\* The platform's runs are runs of the DAG as FinancialDag has it: reading and
\* writing the tables only restricts what an attempt can do.
THEOREM PlatformRunsTheDag == Spec => Dag!Spec
<1>1. Init => Dag!Init
  BY DEF Init
<1>2. [Next]_vars => [Dag!Next]_(Dag!vars)
  BY DagStep, SameSteps, SameTasks DEF D!Next, Dag!Next, D!vars, Dag!vars
<1> QED
  BY <1>1, <1>2, PTL DEF Spec, Dag!Spec

LEMMA DagHolds == Spec => []D!IInv
<1>1. Init => D!IInv
  BY SameInit, D!InvInit, PlatformAssumption DEF Init
<1>2. D!IInv /\ [Next]_vars => D!IInv'
  BY DagStep, D!InvStep, PlatformAssumption
<1> QED
  BY <1>1, <1>2, PTL DEF Spec

-----------------------------------------------------------------------------
(* What the DAG says of the order of the jobs *)

DQ == "run_silver_data_quality"

LEMMA StartedNeeds ==
  ASSUME D!IInv, NEW t \in D!Task \ {"notify_on_failure", "pipeline_complete"},
         D!Started(t), NEW u \in D!Upstream(t)
  PROVE  state[u] = "success"
BY D!Rules, PlatformAssumption DEF D!IInv, D!Justified, D!ReadyToRun, D!AllUpstream

LEMMA OrderOfJobs ==
  ASSUME D!IInv
  PROVE  /\ D!Started(DQ) => state["run_silver_clean"] = "success"
         /\ D!Started("quality_gate") => state[DQ] = "success"
         /\ \A t \in D!Gold : D!Started(t) =>
              state["quality_gate_passed"] = "success" /\ state["quality_gate"] = "success"
<1>1. /\ D!Gold \subseteq D!Task \ {"notify_on_failure", "pipeline_complete"}
      /\ {"run_silver_deduplicate", DQ, "quality_gate", "quality_gate_passed"}
           \subseteq D!Task \ {"notify_on_failure", "pipeline_complete"}
  BY DEF D!Task, D!Gold, D!EmptyTask, D!Chain, DQ
<1>2. /\ D!Upstream("run_silver_deduplicate") = {"run_silver_clean"}
      /\ D!Upstream(DQ) = {"run_silver_deduplicate"}
      /\ D!Upstream("quality_gate") = {DQ}
      /\ D!Upstream("quality_gate_passed") = {"quality_gate"}
      /\ \A t \in D!Gold : D!Upstream(t) = {"quality_gate_passed"}
  BY D!Edges, PlatformAssumption DEF DQ, D!BranchTask
<1>3. D!Started("quality_gate") => state[DQ] = "success"
  BY <1>1, <1>2, StartedNeeds
<1>4. D!Started(DQ) => state["run_silver_clean"] = "success"
  <2>1. D!Started(DQ) => state["run_silver_deduplicate"] = "success"
    BY <1>1, <1>2, StartedNeeds
  <2>2. D!Started("run_silver_deduplicate") => state["run_silver_clean"] = "success"
    BY <1>1, <1>2, StartedNeeds
  <2> QED
    BY <2>1, <2>2 DEF D!Started
<1>5. \A t \in D!Gold : D!Started(t) => state["quality_gate_passed"] = "success"
  BY <1>1, <1>2, StartedNeeds
<1>6. D!Started("quality_gate_passed") => state["quality_gate"] = "success"
  BY <1>1, <1>2, StartedNeeds
<1> QED
  BY <1>3, <1>4, <1>5, <1>6 DEF D!Started

\* Whoever is at Gold has a check behind it that passed.
LEMMA AtGold ==
  ASSUME D!IInv, NEW t \in D!Gold, t \in updated \/ state[t] = "running"
  PROVE  /\ state[DQ] = "success" /\ state["run_silver_clean"] = "success"
         /\ branch = "quality_gate_passed" /\ ds \notin failed
<1>1. D!Started(t)
  BY DEF D!IInv, D!UpdatedInv, D!Started
<1>2. state["quality_gate_passed"] = "success" /\ state["quality_gate"] = "success"
  BY <1>1, OrderOfJobs
<1>3. state[DQ] = "success" /\ state["run_silver_clean"] = "success"
  BY <1>2, OrderOfJobs DEF D!Started
<1>4. branch = "quality_gate_passed" /\ ds \notin failed
  BY <1>2 DEF D!IInv, D!GateDecided, D!BranchTask, D!QualityGate
<1> QED
  BY <1>3, <1>4

-----------------------------------------------------------------------------
(* The invariant *)

\* A check that passed in this run saw the rows Silver still has of its date.
CheckedInv ==
  state[DQ] = "success" => checked[ds] = OfEventDate(silver, ds) /\ checked[ds] # {}

\* No attempt of the risk job succeeds.
RiskInv == state["run_gold_risk_metrics"] # "success"
CustomersInv == ~customers => updated \subseteq {"run_gold_transaction_analytics"}

LateInv == startedAt >= ScheduledAt(ds) => state[DQ] # "success"

PlatformInv ==
  TypeOK /\ CheckedInv /\ RiskInv /\ CustomersInv /\ LateInv /\ GoldTablesAgree

LEMMA RecordTimes ==
  ASSUME NEW r \in Record
  PROVE  r.timestamp \in Nat /\ DayOf(r.timestamp) \in Int
<1>1. r.timestamp \in Nat
  BY PlatformAssumption DEF Record
<1> QED
  BY <1>1 DEF DayOf, Day, Minute

LEMMA PlatformInit == Init => PlatformInv
<1> SUFFICES ASSUME Init PROVE PlatformInv
  OBVIOUS
<1>1. TypeOK
  <2>1. Dag!TypeOK
    BY SameInit, SameTypes, D!InvInit, PlatformAssumption DEF Init, D!IInv
  <2>2. /\ gold \in [Dag!Gold -> [Dates -> SUBSET silver]]
        /\ checked \in [Dates -> SUBSET silver]
    BY DEF Init
  <2>3. now \in Times /\ startedAt \in Times /\ startedAt <= now
    BY PlatformAssumption DEF Init
  <2> QED
    BY <2>1, <2>2, <2>3 DEF Init, TypeOK
<1>2. {DQ, "run_gold_risk_metrics"} \subseteq Dag!Task
  BY DEF DQ, Dag!Task, Dag!Gold, Dag!Chain
<1>3. state[DQ] = "none" /\ RiskInv /\ updated = {}
  BY <1>2 DEF Init, Dag!Init, RiskInv
<1> QED
  BY <1>1, <1>3 DEF PlatformInv, CheckedInv, CustomersInv, LateInv, GoldTablesAgree

\* Steps that neither touch what the properties are about nor finish a job that
\* they are about.
LEMMA PlatformUnchanged ==
  ASSUME PlatformInv, TypeOK',
         UNCHANGED <<ds, updated, startedAt, silver, gold, checked>>,
         customers => customers',
         state'[DQ] = "success" => state[DQ] = "success",
         state'["run_gold_risk_metrics"] = "success" =>
           state["run_gold_risk_metrics"] = "success"
  PROVE  PlatformInv'
BY DEF PlatformInv, CheckedInv, RiskInv, CustomersInv, LateInv, GoldTablesAgree, OfEventDate

LEMMA TypeStep ==
  ASSUME TypeOK, D!IInv', [Next]_vars
  PROVE  TypeOK'
<1>0. Dag!TypeOK' /\ ds' \in Dates
  BY SameTypes DEF D!IInv, D!TypeOK
<1>1. CASE Tick
  <2>1. now' \in Times /\ startedAt <= now'
    BY <1>1, PlatformAssumption DEF Tick, TypeOK
  <2> QED
    BY <1>0, <1>1, <2>1 DEF Tick, tables, TypeOK
<1>2. CASE Ingest \/ LoadCustomers
  BY <1>0, <1>2 DEF Ingest, LoadCustomers, TypeOK
<1>3. CASE StartRun
  <2>1. now \in Nat
    BY PlatformAssumption DEF TypeOK
  <2> QED
    BY <1>0, <1>3, <2>1 DEF StartRun, tables, TypeOK
<1>4. CASE PassGate \/ CheckFails
  BY <1>0, <1>4 DEF PassGate, CheckFails, data, tables, TypeOK
<1>5. ASSUME NEW t \in Dag!Task, Schedule(t) \/ FinishWithoutWrite(t) \/ FailWithoutWrite(t)
      PROVE  TypeOK'
  BY <1>0, <1>5 DEF Schedule, FinishWithoutWrite, FailWithoutWrite, data, tables, TypeOK
<1>6. CASE Clean
  BY <1>0, <1>6 DEF Clean, Cleaned, OfProcessingDate, TypeOK
<1>7. CASE CheckPasses
  <2>1. CheckedRows(silver, ds) \subseteq silver
    BY DEF CheckedRows, OfEventDate
  <2> QED
    BY <1>0, <1>7, <2>1 DEF CheckPasses, TypeOK
<1>8. ASSUME NEW t \in Dag!Gold, UpdateGold(t)
      PROVE  TypeOK'
  <2>1. Window(t, silver, ds) \subseteq silver
    BY DEF Window
  <2>2. UNCHANGED <<now, startedAt, bronze, silver, customers, checked>>
    BY <1>8 DEF UpdateGold
  <2>3. gold' \in [Dag!Gold -> [Dates -> SUBSET silver]]
    <3>1. gold' = [gold EXCEPT ![t][ds] = Window(t, silver, ds)]
      BY <1>8 DEF UpdateGold, OverwriteGold
    <3> QED
      BY <2>1, <3>1 DEF TypeOK
  <2> QED
    BY <1>0, <2>2, <2>3 DEF TypeOK
<1>9. CASE UNCHANGED vars
  BY <1>0, <1>9 DEF vars, data, tables, TypeOK
<1> QED
  BY <1>1, <1>2, <1>3, <1>4, <1>5, <1>6, <1>7, <1>8, <1>9 DEF Next

\* The rows a Gold job takes for its date include those of the date itself.
LEMMA WindowOfDate ==
  ASSUME TypeOK, NEW t \in Dag!Gold, NEW d \in Dates
  PROVE  OfEventDate(Window(t, silver, d), d) = OfEventDate(silver, d)
<1>1. LOOKBACK[t] \in Nat /\ d \in Nat
  BY PlatformAssumption DEF LOOKBACK, Dag!Gold
<1>2. \A r \in silver : DayOf(r.timestamp) \in Int
  BY RecordTimes DEF TypeOK
<1>3. \A r \in silver : DayOf(r.timestamp) = d => r \in Window(t, silver, d)
  BY <1>1, <1>2 DEF Window
<1>4. Window(t, silver, d) \subseteq silver
  BY DEF Window
<1> QED
  BY <1>3, <1>4 DEF OfEventDate

\* At the scheduled hour no event of the date is fresh any more.
LEMMA TooLate ==
  ASSUME TypeOK, startedAt >= ScheduledAt(ds), NEW r \in OfEventDate(silver, ds)
  PROVE  ~(r.timestamp >= now - FRESHNESS)
<1>1. /\ now \in Int /\ startedAt \in Int /\ startedAt <= now /\ ds \in Int
      /\ r.timestamp \in Nat /\ r.timestamp \div 1440 = ds
  BY RecordTimes, PlatformAssumption, SameTypes
  DEF TypeOK, D!TypeOK, OfEventDate, DayOf, Day, Minute
<1>2. r.timestamp < (ds + 1) * 1440
  BY <1>1
<1>3. ScheduledAt(ds) = (ds + 1) * 1440 + 120 /\ FRESHNESS = 120
  BY DEF ScheduledAt, FRESHNESS, Day, Minute
<1> QED
  BY <1>1, <1>2, <1>3

LEMMA WhenChecked ==
  ASSUME TypeOK, TypeOK', D!IInv, PlatformInv, CheckPasses
  PROVE  PlatformInv'
<1>1. /\ Dag!FinishTask(DQ)
      /\ UNCHANGED <<now, startedAt, bronze, silver, customers, gold>>
      /\ checked' = [checked EXCEPT ![ds] = OfEventDate(silver, ds)]
      /\ OfEventDate(silver, ds) # {} /\ MayPass(OfEventDate(silver, ds))
  BY DEF CheckPasses, CheckedRows, CanWriteResults, DQ
<1>2. /\ state[DQ] = "running" /\ state' = [state EXCEPT ![DQ] = "success"]
      /\ ds' = ds /\ updated' = updated \cup ({DQ} \cap Dag!Gold)
  BY <1>1 DEF Dag!FinishTask, Dag!Set
<1>3. DQ \notin Dag!Gold
  BY DEF DQ, Dag!Gold
<1>4. updated = {} /\ updated' = {}
  <2>1. \A t \in D!Gold : t \notin updated
    BY <1>2, AtGold
  <2> QED
    BY <1>2, <1>3, <2>1, SameTypes DEF TypeOK, D!TypeOK
<1>5. CheckedInv'
  <2>1. ds \in Dates
    BY SameTypes DEF TypeOK, D!TypeOK
  <2> QED
    BY <1>1, <1>2, <2>1 DEF CheckedInv, TypeOK, OfEventDate
<1>6. LateInv'
  <2>1. \E r \in OfEventDate(silver, ds) : r.timestamp >= now - FRESHNESS
    BY <1>1 DEF MayPass, IsFresh
  <2>2. ~(startedAt >= ScheduledAt(ds))
    BY <2>1, TooLate
  <2> QED
    BY <1>1, <1>2, <2>2 DEF LateInv
<1>7. RiskInv'
  <2>1. state'["run_gold_risk_metrics"] = state["run_gold_risk_metrics"]
    BY <1>2 DEF DQ
  <2> QED
    BY <2>1 DEF RiskInv, PlatformInv
<1> QED
  BY <1>4, <1>5, <1>6, <1>7 DEF PlatformInv, CustomersInv, GoldTablesAgree

LEMMA WhenUpdated ==
  ASSUME TypeOK, TypeOK', D!IInv, PlatformInv, NEW t \in Dag!Gold, UpdateGold(t)
  PROVE  PlatformInv'
<1>1. /\ CanCompute(t)
      /\ (CanOptimize(t) /\ Dag!FinishTask(t)) \/ Dag!FailTask(t)
      /\ gold' = [gold EXCEPT ![t][ds] = Window(t, silver, ds)]
      /\ UNCHANGED <<startedAt, silver, customers, checked>>
  BY DEF UpdateGold, OverwriteGold
<1>2. /\ ds' = ds /\ updated' \subseteq updated \cup {t}
      /\ \E s : /\ state' = [state EXCEPT ![t] = s]
                /\ s = "success" => CanOptimize(t)
  <2>1. CASE CanOptimize(t) /\ Dag!FinishTask(t)
    BY <2>1 DEF Dag!FinishTask, Dag!Set
  <2>2. CASE Dag!FailTask(t)
    <3>1. Dag!AfterFailure(tries[t]) # "success"
      BY DEF Dag!AfterFailure
    <3> QED
      BY <2>2, <3>1 DEF Dag!FailTask, Dag!Set
  <2> QED
    BY <1>1, <2>1, <2>2
<1>3. state \in [D!Task -> D!TaskState] /\ ds \in Dates
  BY SameTypes DEF TypeOK, D!TypeOK
<1>4. t # DQ /\ (t = "run_gold_risk_metrics" => ~CanOptimize(t))
  BY DEF Dag!Gold, DQ, CanOptimize, ZOrder
<1>5. CheckedInv' /\ LateInv'
  <2>1. state'[DQ] = state[DQ]
    BY <1>2, <1>3, <1>4
  <2> QED
    BY <1>1, <1>2, <2>1 DEF PlatformInv, CheckedInv, LateInv, OfEventDate
<1>6. RiskInv'
  BY <1>2, <1>3, <1>4 DEF PlatformInv, RiskInv
<1>7. CustomersInv'
  <2>1. ~customers => t = "run_gold_transaction_analytics"
    BY <1>1 DEF CanCompute, ReadsCustomers, Dag!Gold
  <2>2. ~customers => updated \subseteq {"run_gold_transaction_analytics"}
    BY DEF PlatformInv, CustomersInv
  <2> QED
    BY <1>1, <1>2, <2>1, <2>2 DEF CustomersInv
<1>8. GoldTablesAgree'
  <2> SUFFICES ASSUME NEW u \in updated'
               PROVE  OfEventDate(gold'[u][ds], ds) = OfEventDate(silver, ds)
    BY <1>1, <1>2 DEF GoldTablesAgree, OfEventDate
  <2>1. gold \in [Dag!Gold -> [Dates -> SUBSET silver]]
    BY DEF TypeOK
  <2>2. CASE u = t
    <3>1. gold'[u][ds] = Window(t, silver, ds)
      BY <1>1, <1>3, <2>1, <2>2
    <3> QED
      BY <1>3, <3>1, WindowOfDate
  <2>3. CASE u # t
    <3>1. u \in updated
      BY <1>2, <2>3
    <3>2. gold'[u][ds] = gold[u][ds]
      BY <1>1, <1>3, <2>1, <2>3, <3>1, SameTypes, SameTasks DEF TypeOK, D!TypeOK
    <3> QED
      BY <3>1, <3>2 DEF PlatformInv, GoldTablesAgree
  <2> QED
    BY <2>2, <2>3
<1> QED
  BY <1>5, <1>6, <1>7, <1>8 DEF PlatformInv

\* Before the check of a run has passed, Silver may grow under it.
LEMMA WhenCleaned ==
  ASSUME TypeOK, TypeOK', D!IInv, PlatformInv, Clean
  PROVE  PlatformInv'
<1>1. /\ Dag!FinishTask("run_silver_clean") \/ Dag!FailTask("run_silver_clean")
      /\ UNCHANGED <<startedAt, customers, gold, checked>>
  BY DEF Clean
<1>2. "run_silver_clean" \notin Dag!Gold
  BY DEF Dag!Gold
<1>3. /\ state["run_silver_clean"] = "running" /\ ds' = ds
      /\ \E s : state' = [state EXCEPT !["run_silver_clean"] = s]
      /\ updated' = updated
  <2>1. CASE Dag!FinishTask("run_silver_clean")
    BY <1>2, <2>1, SameTypes DEF Dag!FinishTask, Dag!Set, TypeOK, D!TypeOK
  <2>2. CASE Dag!FailTask("run_silver_clean")
    BY <1>2, <2>2 DEF Dag!FailTask, Dag!Set
  <2> QED
    BY <1>1, <2>1, <2>2
<1>4. state[DQ] # "success"
  BY <1>3, OrderOfJobs DEF D!Started
<1>5. updated = {}
  <2>1. \A t \in D!Gold : t \notin updated
    BY <1>3, AtGold
  <2> QED
    BY <2>1, SameTypes DEF TypeOK, D!TypeOK
<1>6. /\ state'[DQ] = state[DQ]
      /\ state'["run_gold_risk_metrics"] = state["run_gold_risk_metrics"]
  BY <1>3 DEF DQ
<1> QED
  BY <1>1, <1>3, <1>4, <1>5, <1>6
  DEF PlatformInv, CheckedInv, RiskInv, CustomersInv, LateInv, GoldTablesAgree

LEMMA WhenStarted ==
  ASSUME TypeOK', PlatformInv, StartRun
  PROVE  PlatformInv'
<1>1. updated' = {} /\ state' = [t \in Dag!Task |-> "none"]
  BY DEF StartRun, Dag!StartRun
<1>2. {DQ, "run_gold_risk_metrics"} \subseteq Dag!Task
  BY DEF DQ, Dag!Task, Dag!Gold, Dag!Chain
<1>3. state'[DQ] = "none" /\ state'["run_gold_risk_metrics"] = "none"
  BY <1>1, <1>2
<1> QED
  BY <1>1, <1>3
  DEF PlatformInv, CheckedInv, RiskInv, CustomersInv, LateInv, GoldTablesAgree

\* The steps of the DAG that read and write no table.
LEMMA WhenScheduled ==
  ASSUME TypeOK, TypeOK', D!IInv, PlatformInv, UNCHANGED data,
         \/ PassGate
         \/ CheckFails
         \/ \E t \in Dag!Task : Schedule(t) \/ FinishWithoutWrite(t) \/ FailWithoutWrite(t)
  PROVE  PlatformInv'
<1> DEFINE Kept == /\ ds' = ds /\ updated' = updated
                   /\ state'[DQ] = "success" => state[DQ] = "success"
                   /\ state'["run_gold_risk_metrics"] = "success" =>
                        state["run_gold_risk_metrics"] = "success"
<1>0. /\ state \in [D!Task -> D!TaskState] /\ updated \subseteq Dag!Gold
      /\ "run_gold_risk_metrics" \in Dag!Gold /\ DQ \notin Dag!Gold
      /\ DQ \notin Dag!EmptyTask /\ "run_gold_risk_metrics" \notin Dag!EmptyTask
  BY SameTypes, SameTasks DEF TypeOK, D!TypeOK, Dag!Gold, Dag!EmptyTask, DQ
<1>1. ASSUME PassGate PROVE Kept
  <2>1. /\ ds' = ds /\ updated' = updated
        /\ state' = [state EXCEPT !["quality_gate"] = "success",
                                  ![Dag!OtherBranch(Dag!QualityGate(failed))] = "skipped"]
    BY <1>1 DEF PassGate, Dag!FinishGate
  <2> DEFINE other == Dag!OtherBranch(Dag!QualityGate(failed))
  <2>2. other \notin {DQ, "run_gold_risk_metrics"}
    BY DEF Dag!OtherBranch, DQ
  <2>3. "quality_gate" \notin {DQ, "run_gold_risk_metrics"}
    BY DEF DQ
  <2> HIDE DEF other
  <2>4. /\ state'[DQ] = state[DQ]
        /\ state'["run_gold_risk_metrics"] = state["run_gold_risk_metrics"]
    <3>1. state' = [state EXCEPT !["quality_gate"] = "success", ![other] = "skipped"]
      BY <2>1 DEF other
    <3>2. \A t \in D!Task : t # "quality_gate" /\ t # other => state'[t] = state[t]
      BY <1>0, <3>1
    <3>3. DQ \in D!Task /\ "run_gold_risk_metrics" \in D!Task
      BY DEF DQ, D!Task, D!Chain, D!Gold
    <3> QED
      BY <2>2, <2>3, <3>2, <3>3
  <2> QED
    BY <2>1, <2>4
<1>2. ASSUME NEW t \in Dag!Task, Dag!FailTask(t), updated' = updated PROVE Kept
  <2>1. /\ ds' = ds /\ state' = [state EXCEPT ![t] = Dag!AfterFailure(tries[t])]
        /\ Dag!AfterFailure(tries[t]) # "success"
    BY <1>2 DEF Dag!FailTask, Dag!Set, Dag!AfterFailure
  <2> QED
    BY <1>0, <1>2, <2>1
<1>3. ASSUME CheckFails PROVE Kept
  <2>1. Dag!FailTask(DQ) /\ DQ \in Dag!Task
    BY <1>3 DEF CheckFails, DQ, Dag!Task, Dag!Chain
  <2>2. updated' = updated
    BY <1>0, <2>1 DEF Dag!FailTask
  <2> QED
    BY <1>2, <2>1, <2>2
<1>4. ASSUME NEW t \in Dag!Task, Schedule(t) PROVE Kept
  <2>1. /\ ds' = ds /\ updated' = updated
        /\ \E s : /\ state' = [state EXCEPT ![t] = s]
                  /\ s = "success" => t \in Dag!EmptyTask
    BY <1>4 DEF Schedule, Dag!Propagate, Dag!MarkEmpty, Dag!StartTask, Dag!Set
  <2> QED
    BY <1>0, <2>1
<1>5. ASSUME NEW t \in Dag!Task, FinishWithoutWrite(t) PROVE Kept
  <2>1. /\ t \notin Dag!Gold /\ t # DQ /\ Dag!FinishTask(t)
    BY <1>5 DEF FinishWithoutWrite, DQ
  <2>2. ds' = ds /\ updated' = updated /\ state' = [state EXCEPT ![t] = "success"]
    BY <1>0, <2>1 DEF Dag!FinishTask, Dag!Set
  <2> QED
    BY <1>0, <2>1, <2>2
<1>6. ASSUME NEW t \in Dag!Task, FailWithoutWrite(t) PROVE Kept
  BY <1>2, <1>6 DEF FailWithoutWrite
<1>7. Kept
  BY <1>1, <1>3, <1>4, <1>5, <1>6
<1> QED
  BY <1>7, PlatformUnchanged DEF data, tables

LEMMA PlatformStep ==
  ASSUME D!IInv, D!IInv', PlatformInv, [Next]_vars
  PROVE  PlatformInv'
<1>0. TypeOK /\ TypeOK'
  BY TypeStep DEF PlatformInv
<1>1. CASE Tick \/ Ingest \/ LoadCustomers \/ UNCHANGED vars
  BY <1>0, <1>1, PlatformUnchanged
  DEF Tick, Ingest, LoadCustomers, vars, dag, data, tables
<1>2. CASE StartRun
  BY <1>0, <1>2, WhenStarted
<1>3. CASE \/ PassGate \/ CheckFails
           \/ \E t \in Dag!Task : Schedule(t) \/ FinishWithoutWrite(t) \/ FailWithoutWrite(t)
  <2>1. UNCHANGED data
    BY <1>3 DEF PassGate, CheckFails, Schedule, FinishWithoutWrite, FailWithoutWrite
  <2> QED
    BY <1>0, <1>3, <2>1, WhenScheduled
<1>4. CASE Clean
  BY <1>0, <1>4, WhenCleaned
<1>5. CASE CheckPasses
  BY <1>0, <1>5, WhenChecked
<1>6. ASSUME NEW t \in Dag!Gold, UpdateGold(t)
      PROVE  PlatformInv'
  BY <1>0, <1>6, WhenUpdated
<1> QED
  BY <1>1, <1>2, <1>3, <1>4, <1>5, <1>6 DEF Next

LEMMA Invariance == Spec => [](D!IInv /\ PlatformInv)
<1>1. D!IInv /\ D!IInv' /\ PlatformInv /\ [Next]_vars => PlatformInv'
  BY PlatformStep
<1> QED
  BY <1>1, DagHolds, PlatformInit, PTL DEF Spec

-----------------------------------------------------------------------------
(* The theorems *)

\* Clock, runs, tables and the rows they are computed from keep their types.
THEOREM PlatformTypes == Spec => []TypeOK
<1>1. PlatformInv => TypeOK
  BY DEF PlatformInv
<1> QED
  BY <1>1, Invariance, PTL

\* The freshness rules of the two jobs together: whatever arrives and whenever a
\* task is tried again, a run made at its scheduled hour or later does not reach
\* Gold, since no event of its date is two hours old or younger.
THEOREM ScheduleNeverReachesGold == Spec => []ScheduledRunsSkipGold
<1>1. D!IInv /\ PlatformInv => ScheduledRunsSkipGold
  <2> SUFFICES ASSUME D!IInv, PlatformInv, startedAt >= ScheduledAt(ds)
               PROVE  updated = {} /\ branch = "none"
    BY DEF ScheduledRunsSkipGold
  <2>1. state[DQ] # "success"
    BY DEF PlatformInv, LateInv
  <2>2. updated = {}
    <3>1. \A t \in D!Gold : t \notin updated
      BY <2>1, AtGold
    <3> QED
      BY <3>1 DEF D!IInv, D!TypeOK
  <2>3. branch = "none"
    BY <2>1, OrderOfJobs DEF D!Started, D!IInv, D!GateDecided
  <2> QED
    BY <2>2, <2>3
<1> QED
  BY <1>1, Invariance, PTL

\* A date without events stops at the data quality job, which has no results to
\* write: Gold is not updated for it, although no check has failed.
THEOREM EmptyDatesStayOut == Spec => []NoGoldForAnEmptyDate
<1>1. D!IInv /\ PlatformInv => NoGoldForAnEmptyDate
  <2> SUFFICES ASSUME D!IInv, PlatformInv, NEW t \in updated
               PROVE  OfEventDate(silver, ds) # {}
    BY DEF NoGoldForAnEmptyDate
  <2>1. state[DQ] = "success"
    BY AtGold DEF D!IInv, D!TypeOK
  <2> QED
    BY <2>1 DEF PlatformInv, CheckedInv
<1> QED
  BY <1>1, Invariance, PTL

\* Gold jobs run side by side, fail and are tried again; the tables a run has
\* overwritten still agree on the rows of its date.
THEOREM TablesAgree == Spec => []GoldTablesAgree
<1>1. PlatformInv => GoldTablesAgree
  BY DEF PlatformInv
<1> QED
  BY <1>1, Invariance, PTL

\* OPTIMIZE fails every attempt of the risk job, so pipeline_complete is never
\* reached behind an open gate, and without silver.customers one table is all.
THEOREM RunsNeverComplete == Spec => []GoldIsNeverComplete
<1>1. D!IInv /\ PlatformInv => GoldIsNeverComplete
  <2> DEFINE risk == "run_gold_risk_metrics"
             end == "pipeline_complete"
  <2> SUFFICES ASSUME D!IInv, PlatformInv, branch = "quality_gate_passed", state[end] = "success"
               PROVE  FALSE
    BY DEF GoldIsNeverComplete, PlatformInv, CustomersInv
  <2>1. /\ risk \in D!Task /\ end \in D!Task /\ risk \in D!Gold
        /\ risk \notin D!BranchTask /\ "quality_gate_passed" \in D!BranchTask
    BY DEF D!Task, D!Gold, D!EmptyTask, D!BranchTask
  <2>2. /\ risk \in D!Upstream(end) /\ D!Upstream(risk) = {"quality_gate_passed"}
        /\ D!TriggerRule(end) = "none_failed_min_one_success"
    BY <2>1, D!Edges, D!Rules, PlatformAssumption
  <2>3. D!ReadyToRun(end)
    BY <2>1 DEF D!IInv, D!Justified, D!Started
  <2>4. state[risk] \in {"success", "skipped"}
    BY <2>2, <2>3 DEF D!ReadyToRun, D!AllUpstream
  <2>5. state[risk] = "skipped"
    BY <2>4 DEF PlatformInv, RiskInv
  <2>6. D!SomeUpstream(risk, {"skipped"})
    BY <2>1, <2>5 DEF D!IInv, D!Justified
  <2>7. state["quality_gate_passed"] = "skipped"
    BY <2>2, <2>6 DEF D!SomeUpstream
  <2> QED
    BY <2>1, <2>7 DEF D!IInv, D!GateDecided
<1> QED
  BY <1>1, Invariance, PTL

-----------------------------------------------------------------------------
(* What the readers of Gold are promised *)

LEMMA SameDates ==
  /\ \A rows, d : Promise!OfDate(rows, d) = OfEventDate(rows, d)
  /\ \A rows, d : Promise!UpTo(rows, d) = {r \in rows : DayOf(r.timestamp) <= d}
BY DEF Promise!OfDate, Promise!UpTo, OfEventDate, Promise!DayOf, DayOf, Promise!Day, Day,
       Promise!Minute, Minute

\* A partition of Gold is published whole, behind a passed check.
LEMMA UpdatePublishes ==
  ASSUME D!IInv, PlatformInv, NEW t \in Dag!Gold, UpdateGold(t)
  PROVE  Promise!Publish(t, ds)
<1>1. /\ gold' = [gold EXCEPT ![t][ds] = Window(t, silver, ds)]
      /\ UNCHANGED <<silver, checked>> /\ state[t] = "running" /\ failed' = failed
  <2>1. Dag!FinishTask(t) \/ Dag!FailTask(t)
    BY DEF UpdateGold
  <2>2. t # "run_silver_data_quality"
    BY DEF Dag!Gold
  <2>3. state[t] = "running" /\ failed' = failed
    BY <2>1, <2>2 DEF Dag!FinishTask, Dag!FailTask
  <2> QED
    BY <2>3 DEF UpdateGold, OverwriteGold
<1>2. state[DQ] = "success" /\ ds \notin failed
  BY <1>1, AtGold, SameTasks
<1>3. checked[ds] = OfEventDate(silver, ds) /\ checked[ds] # {}
  BY <1>2 DEF PlatformInv, CheckedInv
<1>4. LOOKBACK[t] \in Nat /\ ds \in Nat /\ \A r \in silver : DayOf(r.timestamp) \in Int
  <2>1. LOOKBACK[t] \in Nat
    BY DEF LOOKBACK, Dag!Gold
  <2>2. ds \in Nat
    BY SameTypes, PlatformAssumption DEF PlatformInv, TypeOK, D!TypeOK
  <2>3. \A r \in silver : DayOf(r.timestamp) \in Int
    BY RecordTimes DEF PlatformInv, TypeOK
  <2> QED
    BY <2>1, <2>2, <2>3
<1> DEFINE earlier == {r \in silver : DayOf(r.timestamp) >= ds - LOOKBACK[t]
                                      /\ DayOf(r.timestamp) <= ds - 1}
<1>5. earlier \in SUBSET Promise!UpTo(silver, ds - 1)
  BY SameDates
<1>6. Window(t, silver, ds) = earlier \cup checked[ds]
  BY <1>3, <1>4 DEF Window, OfEventDate
<1>7. \E e \in SUBSET Promise!UpTo(silver, ds - 1) :
        gold' = [gold EXCEPT ![t][ds] = e \cup checked[ds]]
  BY <1>1, <1>5, <1>6
<1> QED
  BY <1>1, <1>2, <1>3, <1>7, SameDates DEF Promise!Publish

LEMMA PromiseStep ==
  ASSUME D!IInv, PlatformInv, PlatformInv', [Next]_vars
  PROVE  [Promise!Next]_(Promise!vars)
<1>0. TypeOK /\ TypeOK' /\ ds \in Dates
  BY SameTypes DEF PlatformInv, TypeOK, D!TypeOK
<1>1. CASE Clean
  <2>1. UNCHANGED <<checked, gold>> /\ failed' = failed
    <3>1. "run_silver_clean" # "run_silver_data_quality" /\ "run_silver_clean" \notin Dag!Gold
      BY DEF Dag!Gold
    <3> QED
      BY <1>1, <3>1 DEF Clean, Dag!FinishTask, Dag!FailTask
  <2>2. silver \subseteq silver' /\ silver' \in SUBSET Record
    BY <1>0, <1>1 DEF Clean, Cleaned, TypeOK
  <2> QED
    BY <2>1, <2>2 DEF Promise!Next, Promise!Grow
<1>2. CASE CheckPasses
  <2>1. Promise!Pass(ds)
    BY <1>2, SameDates
    DEF CheckPasses, CheckedRows, CanWriteResults, Dag!FinishTask, Promise!Pass
  <2> QED
    BY <1>0, <2>1 DEF Promise!Next
<1>3. CASE CheckFails
  <2>1. failed' = failed \cup {ds}
    BY <1>3 DEF CheckFails, Dag!FailTask
  <2>2. Promise!Refuse(ds)
    BY <1>3, <2>1, SameDates
    DEF CheckFails, CheckedRows, CanWriteResults, data, tables, Promise!Refuse
  <2> QED
    BY <1>0, <2>2 DEF Promise!Next
<1>4. ASSUME NEW t \in Dag!Gold, UpdateGold(t)
      PROVE  Promise!Next
  BY <1>0, <1>4, UpdatePublishes DEF Promise!Next
<1>5. CASE \/ Tick \/ Ingest \/ LoadCustomers \/ StartRun \/ PassGate \/ UNCHANGED vars
           \/ \E t \in Dag!Task : Schedule(t) \/ FinishWithoutWrite(t) \/ FailWithoutWrite(t)
  <2>1. UNCHANGED <<silver, checked, gold>>
    BY <1>5 DEF Tick, Ingest, LoadCustomers, StartRun, PassGate, Schedule, FinishWithoutWrite,
                FailWithoutWrite, vars, data, tables
  <2>2. failed' = failed
    BY <1>5 DEF Tick, Ingest, LoadCustomers, StartRun, PassGate, Schedule, FinishWithoutWrite,
                FailWithoutWrite, vars, dag, Dag!StartRun, Dag!FinishGate, Dag!Propagate,
                Dag!MarkEmpty, Dag!StartTask, Dag!FinishTask
  <2> QED
    BY <2>1, <2>2 DEF Promise!vars
<1> QED
  BY <1>1, <1>2, <1>3, <1>4, <1>5 DEF Next

\* The platform keeps the promise of Medallion: Silver only grows, and what Gold
\* shows of a date is all of Silver's, checked, for a date no check has refused.
THEOREM PlatformImplementsMedallion == Spec => MedallionSpec
<1>1. Init => Promise!Init
  <2>1. Dag!Init => failed = {}
    BY DEF Dag!Init
  <2> QED
    BY <2>1 DEF Init, Promise!Init
<1>2. D!IInv /\ PlatformInv /\ PlatformInv' /\ [Next]_vars => [Promise!Next]_(Promise!vars)
  BY PromiseStep
<1> QED
  BY <1>1, <1>2, Invariance, PTL DEF Spec, MedallionSpec, Promise!Spec
=============================================================================
