-------------------------- MODULE SilverJobsProofs --------------------------
(***************************************************************************)
(* The Silver jobs, for every set of payloads, every clock and any number  *)
(* of rows and of jobs.                                                    *)
(***************************************************************************)
EXTENDS SilverJobs, SetFacts

Valid(b) == ~HasCriticalNull(ParseRawPayload(b.raw_payload))

-----------------------------------------------------------------------------
(* Rows: what the operators of SilverRows return *)

LEMMA DayOfType == \A t \in Nat : DayOf(t) \in Nat
BY DEF DayOf, Day, Minute

LEMMA DayOfBounds ==
  /\ \A t, d \in Nat : DayOf(t) = d <=> d * Day <= t /\ t < (d + 1) * Day
  /\ \A t, u \in Nat : t <= u => DayOf(t) <= DayOf(u)
BY DEF DayOf, Day, Minute

\* A row that passes the null check has a payload, and its critical fields.
LEMMA ValidRow ==
  ASSUME NEW b \in BronzeRow, Valid(b)
  PROVE  /\ b.raw_payload \in Payload
         /\ \A f \in CRITICAL_FIELDS : b.raw_payload[f] # Null
<1>1. ASSUME b.raw_payload = Malformed PROVE FALSE
  <2>1. HasCriticalNull(AllNull)
    BY DEF HasCriticalNull, AllNull, CRITICAL_FIELDS
  <2> QED
    BY <1>1, <2>1 DEF Valid, ParseRawPayload
<1> QED
  BY <1>1 DEF Valid, ParseRawPayload, HasCriticalNull, BronzeRow

LEMMA CorrectedRow ==
  ASSUME NEW b \in BronzeRow, Valid(b), NEW copy \in Nat
  PROVE  /\ ApplyTypeCorrections(b, copy) \in SilverRow
         /\ ApplyTypeCorrections(b, copy).kafka_offset = b.kafka_offset
         /\ ApplyTypeCorrections(b, copy).copy = copy
         /\ ApplyTypeCorrections(b, copy).event_date = DayOf(b.raw_payload.timestamp)
         /\ ApplyTypeCorrections(b, copy).timestamp = b.raw_payload.timestamp
<1> DEFINE p == b.raw_payload
<1>1. p \in Payload /\ ParseRawPayload(p) = p
  BY ValidRow, TextAssumption DEF ParseRawPayload, Valid, HasCriticalNull, AllNull, CRITICAL_FIELDS
<1>2. /\ p.transaction_id \in Text /\ p.customer_id \in Text /\ p.account_id \in Text
      /\ p.amount \in Int /\ p.timestamp \in Nat
      /\ p.currency \in Nullable(Text) /\ p.status \in Nullable(Text)
  BY ValidRow DEF CRITICAL_FIELDS, Payload, Nullable
<1>3. /\ Trim[p.transaction_id] \in Text /\ Trim[p.customer_id] \in Text
      /\ Trim[p.account_id] \in Text
  BY <1>2, TextAssumption
<1>4. AbsAmount(p.amount) \in Nat
  BY <1>2 DEF AbsAmount
<1>5. /\ CurrencyOf(p.currency) \in VALID_CURRENCIES \cup {"UNKNOWN"}
      /\ StatusOf(p.status) \in VALID_STATUSES \cup {"unknown"}
  BY DEF CurrencyOf, StatusOf
<1>6. b.ingestion_timestamp \in Nat /\ b.kafka_offset \in Nat
  BY DEF BronzeRow
<1>7. DayOf(p.timestamp) \in Nat /\ DayOf(b.ingestion_timestamp) \in Nat
  BY <1>2, <1>6, DayOfType
<1> QED
  BY <1>1, <1>2, <1>3, <1>4, <1>5, <1>6, <1>7 DEF ApplyTypeCorrections, SilverRow

-----------------------------------------------------------------------------
(* The MERGE *)

\* What the MERGE does to one row of the target.
LEMMA MergedRow ==
  ASSUME NEW t \in SilverRow, NEW source \in SUBSET SilverRow
  PROVE  LET r == MergeOne(t, source) IN
         /\ r \in SilverRow
         /\ r = t \/ r.ingestion_timestamp > t.ingestion_timestamp
         /\ SameRow(r, t) /\ r.transaction_id = t.transaction_id
         /\ r.processing_date = t.processing_date
         /\ r.event_date = t.event_date /\ r.timestamp = t.timestamp
         /\ \/ r = t /\ \A s \in source : ~IsNewer(s, t)
            \/ \E s \in source : IsNewer(s, t) /\ r.ingestion_timestamp = s.ingestion_timestamp
<1>1. CASE \E s \in source : IsNewer(s, t)
  <2> DEFINE s == CHOOSE x \in source : IsNewer(x, t)
  <2>1. s \in source /\ IsNewer(s, t)
    BY <1>1
  <2>2. MergeOne(t, source) = Refresh(t, s)
    BY <1>1 DEF MergeOne
  <2> HIDE DEF s
  <2>3. /\ Refresh(t, s) \in SilverRow
        /\ Refresh(t, s).ingestion_timestamp = s.ingestion_timestamp
        /\ Refresh(t, s).kafka_offset = t.kafka_offset /\ Refresh(t, s).copy = t.copy
        /\ Refresh(t, s).transaction_id = t.transaction_id
        /\ Refresh(t, s).processing_date = t.processing_date
        /\ Refresh(t, s).event_date = t.event_date /\ Refresh(t, s).timestamp = t.timestamp
    BY <2>1 DEF Refresh, SilverRow
  <2> QED
    BY <2>1, <2>2, <2>3 DEF IsNewer, SameRow
<1>2. CASE ~\E s \in source : IsNewer(s, t)
  BY <1>2 DEF MergeOne, SameRow
<1> QED
  BY <1>1, <1>2

\* The source comes from the target itself, so the MERGE never inserts.
LEMMA MergeNeverInserts ==
  ASSUME NEW target, NEW source \in SUBSET target
  PROVE  MergeInto(target, source) = {MergeOne(t, source) : t \in target}
BY DEF MergeInto, SameTransaction

NewestFor(rows, d) ==
  \A r \in rows : \A s \in StagingOf(rows, d) :
    SameTransaction(r, s) => r.ingestion_timestamp >= s.ingestion_timestamp

\* After the MERGE of a date's staging rows every row is as new as they are.
LEMMA MergeMakesNewest ==
  ASSUME NEW target \in SUBSET SilverRow, NEW d \in Nat,
         NEW source \in SUBSET StagingOf(target, d),
         DeduplicateWithinBatch(StagingOf(target, d), source)
  PROVE  NewestFor(MergeInto(target, source), d)
<1>1. source \subseteq target /\ StagingOf(target, d) \subseteq target
  BY DEF StagingOf
<1>2. MergeInto(target, source) = {MergeOne(t, source) : t \in target}
  BY <1>1, MergeNeverInserts
<1> SUFFICES ASSUME NEW t \in target, NEW u \in target,
                    MergeOne(u, source).processing_date = d,
                    MergeOne(t, source).transaction_id = MergeOne(u, source).transaction_id
             PROVE  MergeOne(t, source).ingestion_timestamp
                      >= MergeOne(u, source).ingestion_timestamp
  BY <1>2 DEF NewestFor, StagingOf, SameTransaction
<1>3. u \in StagingOf(target, d) /\ t.transaction_id = u.transaction_id
  BY <1>1, MergedRow DEF StagingOf
<1>4. PICK q \in source : q.transaction_id = u.transaction_id
  BY <1>3 DEF DeduplicateWithinBatch, SameTransaction
<1>5. /\ q.ingestion_timestamp >= u.ingestion_timestamp
      /\ \A s \in source : s.transaction_id = q.transaction_id => s = q
  BY <1>1, <1>3, <1>4 DEF DeduplicateWithinBatch, SameTransaction
<1>6. /\ t.ingestion_timestamp \in Nat /\ u.ingestion_timestamp \in Nat
      /\ q.ingestion_timestamp \in Nat
  BY <1>1, <1>4 DEF SilverRow
<1>7. MergeOne(u, source).ingestion_timestamp <= q.ingestion_timestamp
  <2>1. \A s \in source : IsNewer(s, u) => s = q
    BY <1>4, <1>5 DEF IsNewer, SameTransaction
  <2> QED
    BY <1>1, <1>5, <1>6, <2>1, MergedRow
<1>8. MergeOne(t, source).ingestion_timestamp >= q.ingestion_timestamp
  <2>1. \A s \in source : IsNewer(s, t) => s = q
    BY <1>3, <1>4, <1>5 DEF IsNewer, SameTransaction
  <2>2. IsNewer(q, t) \/ t.ingestion_timestamp >= q.ingestion_timestamp
    BY <1>3, <1>4, <1>6 DEF IsNewer, SameTransaction
  <2> QED
    BY <1>1, <1>6, <2>1, <2>2, MergedRow
<1>9. /\ MergeOne(t, source).ingestion_timestamp \in Nat
      /\ MergeOne(u, source).ingestion_timestamp \in Nat
  BY <1>1, MergedRow DEF SilverRow
<1> QED
  BY <1>6, <1>7, <1>8, <1>9

\* A MERGE of rows that are nowhere newer changes nothing.
LEMMA MergeOfOldRows ==
  ASSUME NEW target \in SUBSET SilverRow, NEW d \in Nat,
         NEW source \in SUBSET StagingOf(target, d), NewestFor(target, d)
  PROVE  MergeInto(target, source) = target
<1>1. source \subseteq target
  BY DEF StagingOf
<1>2. \A t \in target : MergeOne(t, source) = t
  <2>1. \A s \in SilverRow : s.ingestion_timestamp \in Nat
    BY DEF SilverRow
  <2>2. \A t \in target : \A s \in source : ~IsNewer(s, t)
    BY <1>1, <2>1 DEF NewestFor, IsNewer, SameTransaction
  <2> QED
    BY <2>2 DEF MergeOne
<1>3. MergeInto(target, source) = {MergeOne(t, source) : t \in target}
  BY <1>1, MergeNeverInserts
<1>4. {MergeOne(t, source) : t \in target} = target
  BY <1>2
<1> QED
  BY <1>3, <1>4

-----------------------------------------------------------------------------
(* The data quality checks *)

LEMMA ChecksAre ==
  ASSUME NEW rows, NEW d, NEW at, NEW ids, NEW m \in RunDQChecks(rows, d, at, ids)
  PROVE  /\ \E name \in CheckName : \E n, bad, pct : m = Check(name, n, bad, pct, d, at)
         /\ m.check_name = "completeness_critical_fields" =>
              m = Check("completeness_critical_fields", Cardinality(rows),
                        Cardinality(Incomplete(rows)), 100, d, at)
         /\ m.check_name = "validity_status_known" =>
              m = Check("validity_status_known", Cardinality(rows),
                        Cardinality(UnknownStatus(rows)), 100, d, at)
         /\ m.check_name = "freshness_2h" =>
              m = Check("freshness_2h", 1, IF IsFresh(rows, at) THEN 0 ELSE 1, 100, d, at)
<1>1. \A name, n, bad, pct : Check(name, n, bad, pct, d, at).check_name = name
  BY DEF Check
<1>2. \/ m = Check("completeness_critical_fields", Cardinality(rows),
                   Cardinality(Incomplete(rows)), 100, d, at)
      \/ m = Check("validity_status_known", Cardinality(rows),
                   Cardinality(UnknownStatus(rows)), 100, d, at)
      \/ m = Check("freshness_2h", 1, IF IsFresh(rows, at) THEN 0 ELSE 1, 100, d, at)
      \/ \E name \in {"validity_amount_positive", "validity_currency_known",
                      "late_arrival_rate", "referential_integrity_customer"} :
           \E n, bad, pct : m = Check(name, n, bad, pct, d, at)
  BY DEF RunDQChecks
<1>3. \E name \in CheckName : \E n, bad, pct : m = Check(name, n, bad, pct, d, at)
  BY <1>2 DEF CheckName
<1>4. \/ m.check_name = "completeness_critical_fields" /\
          m = Check("completeness_critical_fields", Cardinality(rows),
                    Cardinality(Incomplete(rows)), 100, d, at)
      \/ m.check_name = "validity_status_known" /\
          m = Check("validity_status_known", Cardinality(rows),
                    Cardinality(UnknownStatus(rows)), 100, d, at)
      \/ m.check_name = "freshness_2h" /\
          m = Check("freshness_2h", 1, IF IsFresh(rows, at) THEN 0 ELSE 1, 100, d, at)
      \/ m.check_name \in {"validity_amount_positive", "validity_currency_known",
                           "late_arrival_rate", "referential_integrity_customer"}
  BY <1>1, <1>2
<1> QED
  BY <1>3, <1>4

LEMMA ChecksType ==
  ASSUME NEW rows, NEW d \in Nat, NEW at \in Nat, NEW ids
  PROVE  /\ RunDQChecks(rows, d, at, ids) \subseteq DQResult
         /\ \A m \in RunDQChecks(rows, d, at, ids) : m.process_date = d /\ m.checked_at = at
<1>1. ASSUME NEW m \in RunDQChecks(rows, d, at, ids)
      PROVE  m \in DQResult /\ m.process_date = d /\ m.checked_at = at
  <2>1. PICK name \in CheckName : \E n, bad, pct : m = Check(name, n, bad, pct, d, at)
    BY ChecksAre
  <2> QED
    BY <2>1 DEF Check, DQResult
<1> QED
  BY <1>1

\* A check that no row violates passes.
LEMMA CheckPasses ==
  ASSUME NEW d, NEW at
  PROVE  \A name : \A n \in Nat : Check(name, n, 0, 100, d, at).status = "PASS"
BY DEF Check

\* On rows the clean job has written the completeness and the status check pass.
LEMMA DeadChecksPass ==
  ASSUME NEW rows \in SUBSET SilverRow, IsFiniteSet(rows), NEW d, NEW at, NEW ids,
         NEW m \in RunDQChecks(rows, d, at, ids),
         m.check_name \in {"completeness_critical_fields", "validity_status_known"}
  PROVE  m.status = "PASS"
<1>1. Incomplete(rows) = {} /\ UnknownStatus(rows) = {}
  BY TextAssumption DEF Incomplete, UnknownStatus, SilverRow, CRITICAL_FIELDS
<1>2. Cardinality(rows) \in Nat /\ Cardinality({}) = 0
  BY FS_CardinalityType, FS_EmptySet
<1>3. \/ m = Check("completeness_critical_fields", Cardinality(rows), 0, 100, d, at)
      \/ m = Check("validity_status_known", Cardinality(rows), 0, 100, d, at)
  BY <1>1, <1>2, ChecksAre
<1> QED
  BY <1>2, <1>3, CheckPasses

\* Two hours after the end of a date none of its events is fresh.
LEMMA StaleCheckFails ==
  ASSUME NEW rows \in SUBSET SilverRow, NEW d \in Nat, NEW at \in Nat, NEW ids,
         \A r \in rows : DayOf(r.timestamp) = d, at >= ScheduledAt(d),
         NEW m \in RunDQChecks(rows, d, at, ids), m.check_name = "freshness_2h"
  PROVE  m.status = "FAIL"
<1>1. ~IsFresh(rows, at)
  <2>1. \A r \in rows : r.timestamp \in Nat /\ r.timestamp < (d + 1) * Day
    BY DayOfBounds DEF SilverRow
  <2> QED
    BY <2>1 DEF IsFresh, ScheduledAt, FRESHNESS, Minute, Day
<1>2. m = Check("freshness_2h", 1, 1, 100, d, at)
  BY <1>1, ChecksAre
<1> QED
  BY <1>2 DEF Check

-----------------------------------------------------------------------------
(* Types *)

LEMMA TypeInit == Init => TypeOK
BY JobsAssumption DEF Init, TypeOK, Idle, NewJob, Job, Step, JobName

LEMMA EndJobType ==
  ASSUME TypeOK, NEW ok \in BOOLEAN, EndJob(ok)
  PROVE  job' \in Job /\ last' \in [name : JobName \cup {"none"}, date : Nat, ok : BOOLEAN]
BY DEF TypeOK, EndJob, Idle, NewJob, Job, Step

LEMMA CommitType ==
  ASSUME TypeOK, CommitBatch
  PROVE  bronze' \subseteq BronzeRow /\ nextOffset' \in Nat
<1>0. PICK n \in 1..MaxBatch : \E batch \in [1..n -> Payloads] :
        /\ nextOffset + n <= MaxRows
        /\ bronze' = bronze \cup {[kafka_offset |-> nextOffset + i - 1, raw_payload |-> batch[i],
                                   ingestion_timestamp |-> planned] : i \in 1..n}
        /\ nextOffset' = nextOffset + n
  BY DEF CommitBatch
<1>1. PICK batch \in [1..n -> Payloads] :
        /\ nextOffset + n <= MaxRows
        /\ bronze' = bronze \cup {[kafka_offset |-> nextOffset + i - 1, raw_payload |-> batch[i],
                                   ingestion_timestamp |-> planned] : i \in 1..n}
        /\ nextOffset' = nextOffset + n
  BY <1>0
<1>2. planned \in Nat /\ nextOffset \in Nat /\ n \in Nat
  BY JobsAssumption DEF CommitBatch, TypeOK
<1>3. \A i \in 1..n : [kafka_offset |-> nextOffset + i - 1, raw_payload |-> batch[i],
                       ingestion_timestamp |-> planned] \in BronzeRow
  BY <1>2, JobsAssumption DEF BronzeRow
<1> QED
  BY <1>1, <1>2, <1>3 DEF TypeOK

LEMMA MergeType ==
  ASSUME NEW target \in SUBSET SilverRow, NEW source \in SUBSET target
  PROVE  MergeInto(target, source) \subseteq SilverRow
<1>1. \A t \in target : MergeOne(t, source) \in SilverRow
  BY MergedRow
<1> QED
  BY <1>1, MergeNeverInserts

LEMMA TypeStep ==
  ASSUME TypeOK, [Next]_vars
  PROVE  TypeOK'
<1> USE DEF TypeOK, stream, results, history
<1>1. CASE Tick
  BY <1>1, JobsAssumption DEF Tick
<1>2. CASE PlanBatch
  BY <1>2 DEF PlanBatch
<1>3. CASE CommitBatch
  BY <1>3, CommitType DEF CommitBatch
<1>4. CASE LoadCustomers
  BY <1>4, JobsAssumption DEF LoadCustomers
<1>5. ASSUME NEW name \in JobName, NEW d \in 0..DayOf(now), SubmitJob(name, d)
      PROVE  TypeOK'
  <2>1. job' \in Job
    BY <1>5, DayOfType DEF SubmitJob, NewJob, Job, Step, FirstStep, JobName
  <2> QED
    BY <1>5, <2>1 DEF SubmitJob
<1>6. CASE Crash
  BY <1>6, EndJobType DEF Crash
<1>7. CASE CheckBronzeFreshness
  <2>1. BronzeFresh(bronze, now) \in BOOLEAN
    BY DEF BronzeFresh
  <2>2. job.date \in Nat
    BY DEF Job
  <2> QED
    BY <1>7, <2>1, <2>2, EndJobType DEF CheckBronzeFreshness
<1>8. CASE WriteToSilver
  <2>1. /\ BronzeOf(bronze, job.date) \subseteq BronzeRow
        /\ ValidOf(BronzeOf(bronze, job.date)) \subseteq {b \in BronzeRow : Valid(b)}
    BY DEF BronzeOf, ValidOf, Valid
  <2>2. silver' \subseteq SilverRow
    BY <1>8, <2>1, CorrectedRow DEF WriteToSilver
  <2>3. Offsets(BronzeOf(bronze, job.date)) \subseteq Nat
    BY <2>1 DEF Offsets, BronzeRow
  <2>4. job' \in Job
    <3> DEFINE J(final) == [job EXCEPT !.step = "write_quarantine",
                              !.read = Offsets(BronzeOf(bronze, job.date)), !.final = final]
    <3>1. J(TRUE) \in Job /\ J(FALSE) \in Job
      BY <2>3 DEF Job, Step
    <3>2. job' = J(job.date \in sealed)
      BY <1>8 DEF WriteToSilver
    <3> HIDE DEF J
    <3>3. CASE job.date \in sealed
      <4>1. (job.date \in sealed) = TRUE
        BY <3>3
      <4> QED
        BY <3>1, <3>2, <4>1
    <3>4. CASE job.date \notin sealed
      <4>1. (job.date \in sealed) = FALSE
        BY <3>4
      <4> QED
        BY <3>1, <3>2, <4>1
    <3> QED
      BY <3>3, <3>4
  <2> QED
    BY <1>8, <2>2, <2>4 DEF WriteToSilver
<1>9. CASE WriteQuarantine
  <2>1. quarantine' \subseteq [kafka_offset : Nat, ingestion_timestamp : Nat, copy : Nat]
    BY <1>9 DEF WriteQuarantine, AppendQuarantine, QuarantineRow, InvalidOf, BronzeOf, BronzeRow
  <2>2. cleaned' \subseteq [date : Nat, read : SUBSET Nat, final : BOOLEAN]
    BY <1>9 DEF WriteQuarantine, Job
  <2> QED
    BY <1>9, <2>1, <2>2, EndJobType DEF WriteQuarantine
<1>10. CASE MergeToSilver
  <2>1. \A source \in SUBSET StagingOf(silver, job.date) : MergeInto(silver, source) \subseteq SilverRow
    BY MergeType DEF StagingOf
  <2>2. silver' \subseteq SilverRow
    BY <1>10, <2>1 DEF MergeToSilver
  <2> QED
    BY <1>10, <2>2, EndJobType DEF MergeToSilver
<1>11. CASE RunChecks
  <2>1. RunDQChecks({r \in silver : r.event_date = job.date}, job.date, now, customers)
          \subseteq DQResult
    BY ChecksType DEF Job
  <2>2. job' \in Job
    BY <1>11, <2>1 DEF RunChecks, Job, Step
  <2> QED
    BY <1>11, <2>2 DEF RunChecks
<1>12. CASE WriteDQMetrics
  <2>1. metrics' \subseteq DQResult
    BY <1>12 DEF WriteDQMetrics, Job
  <2>2. CASE job.dq = {}
    BY <1>12, <2>1, <2>2, EndJobType DEF WriteDQMetrics
  <2>3. CASE job.dq # {}
    <3>1. job' \in Job /\ last' = last
      BY <1>12, <2>3 DEF WriteDQMetrics, Job, Step
    <3> QED
      BY <1>12, <2>1, <3>1 DEF WriteDQMetrics
  <2> QED
    BY <2>2, <2>3
<1>13. CASE EvaluateQualityGate
  <2>1. (Failures(job.dq) = {}) \in BOOLEAN
    OBVIOUS
  <2> QED
    BY <1>13, <2>1, EndJobType DEF EvaluateQualityGate
<1>14. CASE UNCHANGED vars
  BY <1>14 DEF vars
<1> QED
  BY <1>1, <1>2, <1>3, <1>4, <1>5, <1>6, <1>7, <1>8, <1>9, <1>10, <1>11, <1>12, <1>13, <1>14 DEF Next

\* Type correctness of the tables and of the jobs: whatever payloads arrive, only
\* well-formed rows reach Silver.
THEOREM JobsTypes == Spec => []TypeOK
BY TypeInit, TypeStep, PTL DEF Spec

-----------------------------------------------------------------------------
(* Which action writes what *)

LEMMA Writers ==
  ASSUME [Next]_vars
  PROVE  /\ now' = now \/ Tick
         /\ (planned' = planned /\ lastBatch' = lastBatch /\ bronze' = bronze)
              \/ PlanBatch \/ CommitBatch
         /\ silver' = silver \/ WriteToSilver \/ MergeToSilver
         /\ quarantine' = quarantine \/ WriteQuarantine
         /\ metrics' = metrics \/ WriteDQMetrics
         /\ sealed' = sealed \/ CheckBronzeFreshness
         /\ cleaned' = cleaned \/ WriteQuarantine
<1> USE DEF vars, stream, results, history
<1>1. CASE Tick BY <1>1 DEF Tick
<1>2. CASE PlanBatch BY <1>2 DEF PlanBatch
<1>3. CASE CommitBatch BY <1>3 DEF CommitBatch
<1>4. CASE LoadCustomers BY <1>4 DEF LoadCustomers
<1>5. ASSUME NEW name \in JobName, NEW d \in 0..DayOf(now), SubmitJob(name, d)
      PROVE  UNCHANGED <<now, stream, results, history>>
  BY <1>5 DEF SubmitJob
<1>6. CASE Crash BY <1>6 DEF Crash
<1>7. CASE CheckBronzeFreshness BY <1>7 DEF CheckBronzeFreshness
<1>8. CASE WriteToSilver BY <1>8 DEF WriteToSilver
<1>9. CASE WriteQuarantine BY <1>9 DEF WriteQuarantine
<1>10. CASE MergeToSilver BY <1>10 DEF MergeToSilver
<1>11. CASE RunChecks BY <1>11 DEF RunChecks
<1>12. CASE WriteDQMetrics BY <1>12 DEF WriteDQMetrics
<1>13. CASE EvaluateQualityGate BY <1>13 DEF EvaluateQualityGate
<1>14. CASE UNCHANGED vars BY <1>14
<1> QED
  BY <1>1, <1>2, <1>3, <1>4, <1>5, <1>6, <1>7, <1>8, <1>9, <1>10, <1>11, <1>12, <1>13, <1>14
  DEF Next

\* A job keeps its step, ends, starts, or goes on to the next commit.
LEMMA JobSteps ==
  ASSUME TypeOK, [Next]_vars
  PROVE  \/ job' = job /\ last' = last
         \/ job' = Idle /\ last'.name = job.name /\ last'.date = job.date
              /\ (MergeToSilver \/ job.step # "merge_to_silver" \/ ~last'.ok)
         \/ /\ job.step = "idle" /\ last' = last
            /\ \E name \in JobName, d \in Nat : job' = NewJob(name, d, FirstStep[name])
         \/ WriteToSilver
         \/ RunChecks
         \/ /\ WriteDQMetrics /\ last' = last
            /\ job' = [job EXCEPT !.step = "evaluate_quality_gate"]
<1> USE DEF vars
<1>0. job.step \in Step
  BY DEF TypeOK, Job
<1>1. CASE Tick BY <1>1 DEF Tick
<1>2. CASE PlanBatch BY <1>2 DEF PlanBatch
<1>3. CASE CommitBatch BY <1>3 DEF CommitBatch
<1>4. CASE LoadCustomers BY <1>4 DEF LoadCustomers
<1>5. ASSUME NEW name \in JobName, NEW d \in 0..DayOf(now), SubmitJob(name, d)
      PROVE  /\ job.step = "idle" /\ last' = last
             /\ \E n \in JobName, dd \in Nat : job' = NewJob(n, dd, FirstStep[n])
  BY <1>5, DayOfType DEF SubmitJob, TypeOK
<1>6. CASE Crash
  <2>1. job' = Idle /\ last'.name = job.name /\ last'.date = job.date /\ ~last'.ok
    BY <1>6 DEF Crash, EndJob
  <2> QED
    BY <2>1
<1>7. CASE CheckBronzeFreshness BY <1>7 DEF CheckBronzeFreshness, EndJob, At
<1>8. CASE WriteToSilver BY <1>8
<1>9. CASE WriteQuarantine BY <1>9 DEF WriteQuarantine, EndJob, At
<1>10. CASE MergeToSilver BY <1>10 DEF MergeToSilver, EndJob
<1>11. CASE RunChecks BY <1>11
<1>12. CASE WriteDQMetrics BY <1>12 DEF WriteDQMetrics, EndJob, At
<1>13. CASE EvaluateQualityGate BY <1>13 DEF EvaluateQualityGate, EndJob, At
<1>14. CASE UNCHANGED vars BY <1>14
<1> QED
  BY <1>1, <1>2, <1>3, <1>4, <1>5, <1>6, <1>7, <1>8, <1>9, <1>10, <1>11, <1>12, <1>13, <1>14
  DEF Next

-----------------------------------------------------------------------------
(* De-duplication *)

\* What a deduplicate job leaves behind stays until a clean job appends rows;
\* that clean job is then either in its second step or the one that ended last.
NewestInv ==
  /\ job.name = "deduplicate" => job.step = "merge_to_silver"
  /\ last.name = "deduplicate" /\ last.ok /\ job.step # "write_quarantine"
       => NewestFor(silver, last.date)

LEMMA NewestInit == Init => NewestInv
BY DEF Init, NewestInv, Idle, NewJob

LEMMA MergeEffect ==
  ASSUME TypeOK, MergeToSilver
  PROVE  /\ job.date \in Nat /\ job.step = "merge_to_silver" /\ silver \in SUBSET SilverRow
         /\ \E source \in SUBSET StagingOf(silver, job.date) :
              /\ DeduplicateWithinBatch(StagingOf(silver, job.date), source)
              /\ silver' = MergeInto(silver, source)
              /\ source \subseteq silver
BY DEF TypeOK, Job, MergeToSilver, At, StagingOf

LEMMA NewestStep ==
  ASSUME TypeOK, NewestInv, [Next]_vars
  PROVE  NewestInv'
<1>1. CASE MergeToSilver
  <2>1. NewestFor(silver', job.date)
    BY <1>1, MergeEffect, MergeMakesNewest
  <2>2. job'.name = "none" /\ last'.date = job.date
    BY <1>1 DEF MergeToSilver, EndJob, Idle, NewJob
  <2> QED
    BY <2>1, <2>2 DEF NewestInv, NewestFor, StagingOf
<1>2. CASE WriteToSilver
  BY <1>2 DEF WriteToSilver, NewestInv, TypeOK, Job, At
<1>3. CASE ~MergeToSilver /\ ~WriteToSilver
  <2>1. silver' = silver
    BY <1>3, Writers
  <2>2. NewestFor(silver, last.date) /\ last' = last => NewestFor(silver', last'.date)
    BY <2>1
  <2>3. CASE job' = job /\ last' = last
    BY <2>2, <2>3 DEF NewestInv
  <2>4. CASE job' = Idle /\ last'.name = job.name /\ (job.step # "merge_to_silver" \/ ~last'.ok)
    BY <2>4 DEF NewestInv, Idle, NewJob
  <2>5. CASE /\ job.step = "idle" /\ last' = last
             /\ \E name \in JobName, d \in Nat : job' = NewJob(name, d, FirstStep[name])
    BY <2>2, <2>5 DEF NewestInv, NewJob, FirstStep, JobName
  <2>6. CASE RunChecks
    BY <2>2, <2>6 DEF RunChecks, NewestInv, At, TypeOK, Job
  <2>7. CASE /\ WriteDQMetrics /\ last' = last
             /\ job' = [job EXCEPT !.step = "evaluate_quality_gate"]
    BY <2>2, <2>7 DEF WriteDQMetrics, NewestInv, At, TypeOK, Job
  <2> QED
    BY <1>3, <2>3, <2>4, <2>5, <2>6, <2>7, JobSteps
<1> QED
  BY <1>1, <1>2, <1>3

\* After a deduplicate job no row is older than what its date staged.
THEOREM JobsKeepNewest == Spec => []NewestVersionWins
<1>1. TypeOK /\ NewestInv => NewestVersionWins
  BY DEF NewestInv, NewestVersionWins, JustDeduplicated, NewestFor
<1> QED
  BY <1>1, TypeInit, TypeStep, NewestInit, NewestStep, PTL DEF Spec

\* A second deduplicate job for the same date right after the first one changes
\* nothing, whatever it picks among rows with equal timestamps.
THEOREM JobsDedupTwice == Spec => DedupIdempotent
<1>1. ASSUME TypeOK, NewestInv, [Next]_vars
      PROVE  job.step = "merge_to_silver" /\ last.name = "deduplicate" /\ last.ok
               /\ last.date = job.date => silver' = silver
  <2> SUFFICES ASSUME job.step = "merge_to_silver", last.name = "deduplicate", last.ok,
                      last.date = job.date
               PROVE  silver' = silver
    OBVIOUS
  <2>1. CASE MergeToSilver
    <3>1. NewestFor(silver, job.date)
      BY <1>1 DEF NewestInv
    <3> QED
      BY <1>1, <2>1, <3>1, MergeEffect, MergeOfOldRows
  <2>2. CASE ~MergeToSilver
    <3>1. ~WriteToSilver
      BY DEF WriteToSilver, At
    <3> QED
      BY <1>1, <2>2, <3>1, Writers
  <2> QED
    BY <2>1, <2>2
<1> QED
  BY <1>1, TypeInit, TypeStep, NewestInit, NewestStep, PTL DEF Spec, DedupIdempotent

\* No step removes a Silver row or puts an older version in its place.
LEMMA RowsForward ==
  ASSUME TypeOK, [Next]_vars
  PROVE  \A r \in silver : \E q \in silver' :
           /\ SameRow(q, r)
           /\ q = r \/ q.ingestion_timestamp > r.ingestion_timestamp
<1>1. CASE MergeToSilver
  <2>1. PICK source \in SUBSET silver : silver' = MergeInto(silver, source)
    BY <1>1, MergeEffect
  <2>2. silver' = {MergeOne(t, source) : t \in silver}
    BY <2>1, MergeNeverInserts
  <2>3. \A r \in silver :
          /\ SameRow(MergeOne(r, source), r)
          /\ \/ MergeOne(r, source) = r
             \/ MergeOne(r, source).ingestion_timestamp > r.ingestion_timestamp
    BY MergedRow DEF TypeOK
  <2> QED
    BY <2>2, <2>3
<1>2. CASE WriteToSilver
  <2>1. silver \subseteq silver'
    BY <1>2 DEF WriteToSilver
  <2> QED
    BY <2>1 DEF SameRow
<1>3. CASE silver' = silver
  BY <1>3 DEF SameRow
<1> QED
  BY <1>1, <1>2, <1>3, Writers

\* The rows of Silver only ever move forward in time.
THEOREM JobsMoveForward == Spec => RowsMoveForward
BY RowsForward, TypeInit, TypeStep, PTL DEF Spec, RowsMoveForward

-----------------------------------------------------------------------------
(* The Bronze stream and the seal *)

\* Micro-batch timestamps never go back, and a logged micro-batch keeps its own:
\* what is still to be committed belongs to no date that has been sealed.
StreamInv ==
  /\ lastBatch <= now
  /\ planned # Null => planned = lastBatch
  /\ \A b \in bronze : b.ingestion_timestamp <= lastBatch /\ b.kafka_offset < nextOffset
  /\ \A a, b \in bronze : a.kafka_offset = b.kafka_offset => a = b
  /\ \A d \in sealed : (d + 1) * Day <= lastBatch

LEMMA StreamInit == Init => StreamInv
BY DEF Init, StreamInv

\* The rows a micro-batch adds.
LEMMA CommitEffect ==
  ASSUME TypeOK, StreamInv, CommitBatch
  PROVE  /\ \A b \in bronze' : b \in bronze \/
              /\ b.ingestion_timestamp = lastBatch
              /\ b.kafka_offset >= nextOffset /\ b.kafka_offset < nextOffset'
         /\ \A a, b \in bronze' : a \notin bronze /\ b \notin bronze
              /\ a.kafka_offset = b.kafka_offset => a = b
         /\ nextOffset' >= nextOffset /\ bronze \subseteq bronze'
<1> DEFINE Row(i, p) == [kafka_offset |-> nextOffset + i - 1, raw_payload |-> p,
                         ingestion_timestamp |-> lastBatch]
<1>1. PICK n \in 1..MaxBatch : \E batch \in [1..n -> Payloads] :
        /\ bronze' = bronze \cup {Row(i, batch[i]) : i \in 1..n}
        /\ nextOffset' = nextOffset + n
  BY DEF CommitBatch, StreamInv
<1>2. PICK batch \in [1..n -> Payloads] :
        /\ bronze' = bronze \cup {Row(i, batch[i]) : i \in 1..n}
        /\ nextOffset' = nextOffset + n
  BY <1>1
<1>3. nextOffset \in Nat /\ n \in Nat
  BY JobsAssumption DEF TypeOK
<1>4. \A i, p : /\ Row(i, p).kafka_offset = nextOffset + i - 1
                /\ Row(i, p).ingestion_timestamp = lastBatch
  OBVIOUS
<1>5. ASSUME NEW b \in bronze', b \notin bronze
      PROVE  \E i \in 1..n : b = Row(i, batch[i])
  BY <1>2, <1>5
<1> HIDE DEF Row
<1>6. ASSUME NEW b \in bronze', b \notin bronze
      PROVE  /\ b.ingestion_timestamp = lastBatch
             /\ b.kafka_offset >= nextOffset /\ b.kafka_offset < nextOffset'
  <2>1. PICK i \in 1..n : b = Row(i, batch[i])
    BY <1>5, <1>6
  <2> QED
    BY <1>2, <1>3, <1>4, <2>1
<1>7. ASSUME NEW a \in bronze', NEW b \in bronze', a \notin bronze, b \notin bronze,
             a.kafka_offset = b.kafka_offset
      PROVE  a = b
  <2>1. PICK i \in 1..n : a = Row(i, batch[i])
    BY <1>5, <1>7
  <2>2. PICK j \in 1..n : b = Row(j, batch[j])
    BY <1>5, <1>7
  <2>3. i = j
    BY <1>3, <1>4, <1>7, <2>1, <2>2
  <2> QED
    BY <2>1, <2>2, <2>3
<1> QED
  BY <1>2, <1>3, <1>6, <1>7

\* The freshness check passes: Bronze holds a row of the last two hours.  When it
\* does so after the scheduled hour, that row came after the date had ended.
LEMMA SealEffect ==
  ASSUME TypeOK, StreamInv, CheckBronzeFreshness
  PROVE  \A d \in sealed' : (d + 1) * Day <= lastBatch
<1>1. CASE BronzeFresh(bronze, now) /\ now >= ScheduledAt(job.date)
  <2>1. PICK b \in bronze : b.ingestion_timestamp >= now - BRONZE_FRESHNESS
    BY <1>1 DEF BronzeFresh
  <2>2. /\ b.ingestion_timestamp \in Nat /\ b.ingestion_timestamp <= lastBatch
        /\ lastBatch \in Nat /\ now \in Nat /\ job.date \in Nat
    BY DEF TypeOK, BronzeRow, StreamInv, Job
  <2>3. (job.date + 1) * Day \in Nat
    BY <2>2 DEF Day, Minute
  <2>4. (job.date + 1) * Day <= lastBatch
    BY <1>1, <2>1, <2>2, <2>3 DEF ScheduledAt, BRONZE_FRESHNESS, Minute
  <2>5. \A d \in sealed' : d \in sealed \/ d = job.date
    BY DEF CheckBronzeFreshness
  <2> QED
    BY <2>4, <2>5 DEF StreamInv
<1>2. CASE ~(BronzeFresh(bronze, now) /\ now >= ScheduledAt(job.date))
  BY <1>2 DEF CheckBronzeFreshness, StreamInv
<1> QED
  BY <1>1, <1>2

LEMMA StreamStep ==
  ASSUME TypeOK, StreamInv, [Next]_vars
  PROVE  StreamInv'
<1> USE DEF vars, stream, results, history
<1>1. CASE Tick
  BY <1>1, JobsAssumption DEF Tick, StreamInv, TypeOK
<1>2. CASE PlanBatch
  <2>1. /\ now' = now /\ lastBatch' = now /\ planned' = now /\ lastBatch <= now
        /\ bronze' = bronze /\ nextOffset' = nextOffset /\ sealed' = sealed
    BY <1>2 DEF PlanBatch, StreamInv
  <2>2. now \in Nat /\ lastBatch \in Nat
    BY DEF TypeOK
  <2>3. \A b \in bronze : b.ingestion_timestamp <= now /\ b.kafka_offset < nextOffset
    BY <2>1, <2>2 DEF StreamInv, TypeOK, BronzeRow
  <2>4. \A d \in sealed : (d + 1) * Day <= now
    <3>1. \A d \in sealed : (d + 1) * Day \in Nat
      BY DEF TypeOK, Day, Minute
    <3> QED
      BY <2>1, <2>2, <3>1 DEF StreamInv
  <2> QED
    BY <2>1, <2>2, <2>3, <2>4 DEF StreamInv
<1>3. CASE CommitBatch
  <2>1. now' = now /\ lastBatch' = lastBatch /\ planned' = Null /\ sealed' = sealed
    BY <1>3 DEF CommitBatch
  <2>2. lastBatch \in Nat /\ nextOffset \in Nat /\ nextOffset' \in Nat
        /\ \A b \in bronze : b.kafka_offset \in Nat
    BY <1>3, CommitType DEF TypeOK, BronzeRow
  <2>3. \A b \in bronze' : b.ingestion_timestamp <= lastBatch /\ b.kafka_offset < nextOffset'
    BY <1>3, <2>2, CommitEffect DEF StreamInv
  <2>4. ASSUME NEW a \in bronze', NEW b \in bronze', a.kafka_offset = b.kafka_offset
        PROVE  a = b
    BY <1>3, <2>2, <2>4, CommitEffect DEF StreamInv
  <2> QED
    BY <2>1, <2>3, <2>4 DEF StreamInv
<1>4. CASE CheckBronzeFreshness
  <2>1. now' = now /\ UNCHANGED stream
    BY <1>4 DEF CheckBronzeFreshness
  <2> QED
    BY <1>4, <2>1, SealEffect DEF StreamInv
<1>5. CASE UNCHANGED <<now, stream, sealed>>
  BY <1>5 DEF StreamInv
<1>6. UNCHANGED <<now, stream, sealed>>
        \/ Tick \/ PlanBatch \/ CommitBatch \/ CheckBronzeFreshness
  BY DEF Next, LoadCustomers, SubmitJob, Crash, WriteToSilver, WriteQuarantine, MergeToSilver,
         RunChecks, WriteDQMetrics, EvaluateQualityGate
<1> QED
  BY <1>1, <1>2, <1>3, <1>4, <1>5, <1>6

-----------------------------------------------------------------------------
(* What the clean jobs read *)

\* The second step of a clean job, and every clean job that has succeeded: the
\* records read came from the partition, the valid ones are in Silver, and after
\* the seal they are the whole partition.
CleanInv ==
  /\ job.step = "write_quarantine" =>
       /\ \A o \in job.read : \E b \in bronze :
            /\ b.kafka_offset = o /\ DayOf(b.ingestion_timestamp) = job.date
            /\ Valid(b) => o \in Offsets(silver)
       /\ job.final => job.date \in sealed /\ Offsets(BronzeOf(bronze, job.date)) \subseteq job.read
  /\ \A c \in cleaned :
       /\ c.read \subseteq Offsets(silver) \cup Offsets(quarantine)
       /\ c.final => c.date \in sealed /\ Offsets(BronzeOf(bronze, c.date)) \subseteq c.read

\* Rows of Silver and of quarantine stem from valid and from invalid records.
OriginInv ==
  /\ \A r \in silver : /\ r.event_date = DayOf(r.timestamp)
                       /\ \E b \in bronze : b.kafka_offset = r.kafka_offset /\ Valid(b)
  /\ \A q \in quarantine : \E b \in bronze : b.kafka_offset = q.kafka_offset /\ ~Valid(b)

LEMMA CleanInit == Init => CleanInv /\ OriginInv
BY DEF Init, CleanInv, OriginInv, Idle, NewJob

LEMMA MergeRows ==
  ASSUME TypeOK, MergeToSilver
  PROVE  \E source \in SUBSET SilverRow :
           silver' = {MergeOne(t, source) : t \in silver}
<1>1. PICK source \in SUBSET silver : silver' = MergeInto(silver, source)
  BY MergeEffect
<1> QED
  BY <1>1, MergeNeverInserts DEF TypeOK

LEMMA TablesGrow ==
  ASSUME TypeOK, [Next]_vars
  PROVE  /\ bronze \subseteq bronze' /\ sealed \subseteq sealed'
         /\ Offsets(silver) \subseteq Offsets(silver')
         /\ Offsets(quarantine) \subseteq Offsets(quarantine')
<1>1. bronze \subseteq bronze' /\ sealed \subseteq sealed'
  BY Writers DEF PlanBatch, CommitBatch, CheckBronzeFreshness
<1>2. Offsets(silver) \subseteq Offsets(silver')
  BY RowsForward DEF Offsets, SameRow
<1>3. Offsets(quarantine) \subseteq Offsets(quarantine')
  BY Writers DEF WriteQuarantine, AppendQuarantine, Offsets
<1> QED
  BY <1>1, <1>2, <1>3

LEMMA OriginStep ==
  ASSUME TypeOK, OriginInv, [Next]_vars
  PROVE  OriginInv'
<1>1. ASSUME NEW r \in silver'
      PROVE  r.event_date = DayOf(r.timestamp)
               /\ \E b \in bronze : b.kafka_offset = r.kafka_offset /\ Valid(b)
  <2>1. CASE WriteToSilver
    <3>1. CASE r \in silver BY <3>1 DEF OriginInv
    <3>2. CASE r \notin silver
      <4>1. PICK b \in ValidOf(BronzeOf(bronze, job.date)) : r = ApplyTypeCorrections(b, attempt)
        BY <1>1, <2>1, <3>2 DEF WriteToSilver
      <4>2. b \in bronze /\ b \in BronzeRow /\ Valid(b) /\ attempt \in Nat
        BY DEF ValidOf, BronzeOf, Valid, TypeOK
      <4> QED
        BY <4>1, <4>2, CorrectedRow
    <3> QED
      BY <3>1, <3>2
  <2>2. CASE MergeToSilver
    <3>1. PICK source \in SUBSET SilverRow : silver' = {MergeOne(t, source) : t \in silver}
      BY <2>2, MergeRows
    <3>2. PICK t \in silver : r = MergeOne(t, source)
      BY <1>1, <3>1
    <3>3. r.event_date = t.event_date /\ r.timestamp = t.timestamp /\ r.kafka_offset = t.kafka_offset
      BY <3>2, MergedRow DEF TypeOK, SameRow
    <3> QED
      BY <3>3 DEF OriginInv
  <2>3. CASE silver' = silver
    BY <1>1, <2>3 DEF OriginInv
  <2> QED
    BY <2>1, <2>2, <2>3, Writers
<1>2. ASSUME NEW q \in quarantine'
      PROVE  \E b \in bronze : b.kafka_offset = q.kafka_offset /\ ~Valid(b)
  <2>1. q \in quarantine \/ \E b \in InvalidOf(BronzeOf(bronze, job.date)) : q = QuarantineRow(b)
    BY <1>2, Writers DEF WriteQuarantine, AppendQuarantine
  <2> QED
    BY <2>1 DEF OriginInv, InvalidOf, BronzeOf, QuarantineRow, Valid
<1> QED
  BY <1>1, <1>2, TablesGrow DEF OriginInv

\* No micro-batch still to come, or to be run again, adds to a sealed partition.
LEMMA SealHolds ==
  ASSUME TypeOK, StreamInv, [Next]_vars, NEW d \in sealed
  PROVE  BronzeOf(bronze', d) = BronzeOf(bronze, d)
<1>1. ASSUME NEW b \in bronze', DayOf(b.ingestion_timestamp) = d PROVE b \in bronze
  <2>1. CASE CommitBatch
    <3>1. b \in bronze \/ b.ingestion_timestamp = lastBatch
      BY <2>1, CommitEffect
    <3>2. lastBatch \in Nat /\ d \in Nat /\ (d + 1) * Day <= lastBatch
      BY DEF TypeOK, StreamInv
    <3>3. DayOf(lastBatch) # d
      <4>1. (d + 1) * Day \in Nat
        BY <3>2 DEF Day, Minute
      <4> QED
        BY <3>2, <4>1, DayOfBounds
    <3> QED
      BY <1>1, <3>1, <3>3
  <2>2. CASE bronze' = bronze
    BY <2>2
  <2> QED
    BY <2>1, <2>2, Writers DEF PlanBatch
<1> QED
  BY <1>1, TablesGrow DEF BronzeOf

LEMMA CleanStep ==
  ASSUME TypeOK, StreamInv, CleanInv, [Next]_vars
  PROVE  CleanInv'
<1>1. ASSUME NEW c \in cleaned
      PROVE  /\ c.read \subseteq Offsets(silver') \cup Offsets(quarantine')
             /\ c.final => c.date \in sealed' /\ Offsets(BronzeOf(bronze', c.date)) \subseteq c.read
  BY TablesGrow, SealHolds DEF CleanInv
<1>2. CASE WriteToSilver
  <2>1. /\ job'.step = "write_quarantine" /\ job'.date = job.date
        /\ job'.read = Offsets(BronzeOf(bronze, job.date))
        /\ job'.final <=> job.date \in sealed
    BY <1>2 DEF WriteToSilver, TypeOK, Job
  <2>2. bronze' = bronze /\ sealed' = sealed /\ cleaned' = cleaned
    BY <1>2 DEF WriteToSilver, stream, history
  <2>3. ASSUME NEW o \in job'.read
        PROVE  \E b \in bronze : /\ b.kafka_offset = o /\ DayOf(b.ingestion_timestamp) = job.date
                                 /\ Valid(b) => o \in Offsets(silver')
    <3>1. PICK b \in BronzeOf(bronze, job.date) : b.kafka_offset = o
      BY <2>1, <2>3 DEF Offsets
    <3>2. b \in bronze /\ b \in BronzeRow /\ DayOf(b.ingestion_timestamp) = job.date /\ attempt \in Nat
      BY DEF BronzeOf, TypeOK
    <3>3. ASSUME Valid(b) PROVE o \in Offsets(silver')
      <4>1. ApplyTypeCorrections(b, attempt) \in silver'
        BY <1>2, <3>3 DEF WriteToSilver, ValidOf, Valid
      <4>2. ApplyTypeCorrections(b, attempt).kafka_offset = o
        BY <3>1, <3>2, <3>3, CorrectedRow
      <4> QED
        BY <4>1, <4>2 DEF Offsets
    <3> QED
      BY <3>1, <3>2, <3>3
  <2> QED
    BY <1>1, <2>1, <2>2, <2>3 DEF CleanInv
<1>3. CASE WriteQuarantine
  <2>1. /\ job.step = "write_quarantine" /\ job' = Idle /\ bronze' = bronze
        /\ cleaned' = cleaned \cup {[date |-> job.date, read |-> job.read, final |-> job.final]}
        /\ sealed' = sealed /\ silver' = silver
        /\ quarantine' = AppendQuarantine(quarantine, BronzeOf(bronze, job.date))
    BY <1>3 DEF WriteQuarantine, At, EndJob, stream
  <2>2. ASSUME NEW o \in job.read PROVE o \in Offsets(silver) \cup Offsets(quarantine')
    <3>1. PICK b \in bronze : /\ b.kafka_offset = o /\ DayOf(b.ingestion_timestamp) = job.date
                              /\ Valid(b) => o \in Offsets(silver)
      BY <2>1, <2>2 DEF CleanInv
    <3>2. ASSUME ~Valid(b) PROVE o \in Offsets(quarantine')
      <4>1. QuarantineRow(b) \in quarantine'
        BY <2>1, <3>1, <3>2 DEF AppendQuarantine, InvalidOf, BronzeOf, Valid
      <4> QED
        BY <3>1, <4>1 DEF Offsets, QuarantineRow
    <3> QED
      BY <3>1, <3>2
  <2>3. job'.step # "write_quarantine"
    BY <2>1 DEF Idle, NewJob
  <2>4. ASSUME NEW c \in cleaned', c \notin cleaned
        PROVE  /\ c.read \subseteq Offsets(silver') \cup Offsets(quarantine')
               /\ c.final => c.date \in sealed' /\ Offsets(BronzeOf(bronze', c.date)) \subseteq c.read
    <3>1. c = [date |-> job.date, read |-> job.read, final |-> job.final]
      BY <2>1, <2>4
    <3>2. c.date = job.date /\ c.read = job.read /\ c.final = job.final
      BY <3>1
    <3>3. job.final => job.date \in sealed /\ Offsets(BronzeOf(bronze, job.date)) \subseteq job.read
      BY <2>1 DEF CleanInv
    <3> QED
      BY <2>1, <2>2, <3>2, <3>3
  <2> QED
    BY <1>1, <2>3, <2>4 DEF CleanInv
<1>4. CASE ~WriteToSilver /\ ~WriteQuarantine
  <2>1. cleaned' = cleaned
    BY <1>4, Writers
  <2>2. job'.step # "write_quarantine" \/ job' = job
    <3>1. CASE job' = job BY <3>1
    <3>2. CASE job' = Idle BY <3>2 DEF Idle, NewJob
    <3>3. CASE \E name \in JobName, d \in Nat : job' = NewJob(name, d, FirstStep[name])
      BY <3>3 DEF NewJob, FirstStep, JobName
    <3>4. CASE RunChecks
      BY <3>4 DEF RunChecks, TypeOK, Job
    <3>5. CASE job' = [job EXCEPT !.step = "evaluate_quality_gate"]
      BY <3>5 DEF TypeOK, Job
    <3> QED
      BY <1>4, <3>1, <3>2, <3>3, <3>4, <3>5, JobSteps
  <2>3. ASSUME job' = job, job.step = "write_quarantine"
        PROVE  /\ \A o \in job.read : \E b \in bronze' :
                    /\ b.kafka_offset = o /\ DayOf(b.ingestion_timestamp) = job.date
                    /\ Valid(b) => o \in Offsets(silver')
               /\ job.final => job.date \in sealed'
                                 /\ Offsets(BronzeOf(bronze', job.date)) \subseteq job.read
    BY <2>3, TablesGrow, SealHolds DEF CleanInv
  <2> QED
    BY <1>1, <2>1, <2>2, <2>3 DEF CleanInv
<1> QED
  BY <1>2, <1>3, <1>4

SafeInv == TypeOK /\ StreamInv /\ OriginInv /\ CleanInv

\* The invariant behind the accounting: the order of the stream, the seal, the
\* origin of every row and what each clean job has read.
THEOREM JobsInvariant == Spec => []SafeInv
<1>1. Init => SafeInv
  BY TypeInit, StreamInit, CleanInit DEF SafeInv
<1>2. SafeInv /\ [Next]_vars => SafeInv'
  BY TypeStep, StreamStep, OriginStep, CleanStep DEF SafeInv
<1> QED
  BY <1>1, <1>2, PTL DEF Spec

\* What a successful clean job has read is in Silver or in quarantine, never in
\* both, whatever the stream commits between its two appends.
THEOREM JobsAccountForAll == Spec => []Accounted
<1>1. SafeInv => Accounted
  <2> SUFFICES ASSUME SafeInv, NEW c \in cleaned, NEW o \in c.read
               PROVE  (o \in Offsets(silver)) # (o \in Offsets(quarantine))
    BY DEF Accounted
  <2>1. o \in Offsets(silver) \/ o \in Offsets(quarantine)
    BY DEF SafeInv, CleanInv
  <2>2. ~(o \in Offsets(silver) /\ o \in Offsets(quarantine))
    BY DEF SafeInv, OriginInv, StreamInv, Offsets
  <2> QED
    BY <2>1, <2>2
<1> QED
  BY <1>1, JobsInvariant, PTL

\* A clean job that follows the scheduled freshness check misses nothing of its
\* date, for any clock and any timing of the stream.
THEOREM JobsLeaveNothing == Spec => []NothingLeftBehind
<1>1. SafeInv => NothingLeftBehind
  BY DEF SafeInv, CleanInv, NothingLeftBehind
<1> QED
  BY <1>1, JobsInvariant, PTL

-----------------------------------------------------------------------------
(* Verdicts *)

FiniteInv == IsFiniteSet(bronze) /\ IsFiniteSet(silver)

LEMMA FiniteInit == Init => FiniteInv
BY FS_EmptySet DEF Init, FiniteInv

LEMMA FiniteStep ==
  ASSUME TypeOK, FiniteInv, [Next]_vars
  PROVE  FiniteInv'
<1>1. IsFiniteSet(bronze')
  <2>1. CASE CommitBatch
    <3> DEFINE Row(i, p) == [kafka_offset |-> nextOffset + i - 1, raw_payload |-> p,
                             ingestion_timestamp |-> planned]
    <3>1. PICK n \in 1..MaxBatch : \E batch \in [1..n -> Payloads] :
            bronze' = bronze \cup {Row(i, batch[i]) : i \in 1..n}
      BY <2>1 DEF CommitBatch
    <3>2. PICK batch \in [1..n -> Payloads] : bronze' = bronze \cup {Row(i, batch[i]) : i \in 1..n}
      BY <3>1
    <3> DEFINE new == {Row(i, batch[i]) : i \in 1..n}
    <3> DEFINE f == [i \in 1..n |-> Row(i, batch[i])]
    <3> HIDE DEF Row
    <3>3. f \in [1..n -> new] /\ \A t \in new : \E i \in 1..n : f[i] = t
      OBVIOUS
    <3>4. IsFiniteSet(1..n)
      BY FS_Interval
    <3>5. IsFiniteSet(new)
      <4> HIDE DEF new, f
      <4> QED
        BY <3>3, <3>4, FiniteImage
    <3> QED
      BY <3>2, <3>5, FS_Union DEF FiniteInv
  <2>2. CASE bronze' = bronze
    BY <2>2 DEF FiniteInv
  <2> QED
    BY <2>1, <2>2, Writers DEF PlanBatch
<1>2. IsFiniteSet(silver')
  <2>1. CASE WriteToSilver
    <3> DEFINE rows == ValidOf(BronzeOf(bronze, job.date))
    <3> DEFINE new == {ApplyTypeCorrections(b, attempt) : b \in rows}
    <3> DEFINE f == [b \in rows |-> ApplyTypeCorrections(b, attempt)]
    <3>1. IsFiniteSet(rows)
      BY FS_Subset DEF FiniteInv, ValidOf, BronzeOf
    <3>2. silver' = silver \cup new
      BY <2>1 DEF WriteToSilver
    <3>3. f \in [rows -> new] /\ \A t \in new : \E b \in rows : f[b] = t
      OBVIOUS
    <3>4. IsFiniteSet(new)
      <4> HIDE DEF rows, new, f
      <4> QED
        BY <3>1, <3>3, FiniteImage
    <3> QED
      BY <3>2, <3>4, FS_Union DEF FiniteInv
  <2>2. CASE MergeToSilver
    <3>1. PICK source \in SUBSET SilverRow : silver' = {MergeOne(t, source) : t \in silver}
      BY <2>2, MergeRows
    <3> DEFINE f == [t \in silver |-> MergeOne(t, source)]
    <3>2. f \in [silver -> silver'] /\ \A r \in silver' : \E t \in silver : f[t] = r
      BY <3>1
    <3> HIDE DEF f
    <3> QED
      BY <3>2, FiniteImage DEF FiniteInv
  <2>3. CASE silver' = silver
    BY <2>3 DEF FiniteInv
  <2> QED
    BY <2>1, <2>2, <2>3, Writers
<1> QED
  BY <1>1, <1>2 DEF FiniteInv

\* What DeadChecks and ScheduledCheckIsStale say of a result.
VerdictOK(m) ==
  /\ m.check_name \in {"completeness_critical_fields", "validity_status_known"}
       => m.status = "PASS"
  /\ m.check_name = "freshness_2h" /\ m.checked_at >= ScheduledAt(m.process_date)
       => m.status = "FAIL"

VerdictInv == \A m \in metrics \cup job.dq : VerdictOK(m)

LEMMA VerdictInit == Init => VerdictInv
BY DEF Init, VerdictInv, Idle, NewJob

LEMMA VerdictStep ==
  ASSUME TypeOK, OriginInv, FiniteInv, VerdictInv, [Next]_vars
  PROVE  VerdictInv'
<1>1. \A m \in job'.dq : m \in job.dq \/ RunChecks
  <2>1. CASE job' = Idle BY <2>1 DEF Idle, NewJob
  <2>2. CASE \E name \in JobName, d \in Nat : job' = NewJob(name, d, FirstStep[name])
    BY <2>2 DEF NewJob
  <2>3. CASE WriteToSilver
    BY <2>3 DEF WriteToSilver, TypeOK, Job
  <2>4. CASE job' = [job EXCEPT !.step = "evaluate_quality_gate"]
    BY <2>4 DEF TypeOK, Job
  <2> QED
    BY <2>1, <2>2, <2>3, <2>4, JobSteps
<1>2. metrics' \subseteq metrics \cup job.dq
  BY Writers DEF WriteDQMetrics
<1>3. ASSUME RunChecks, NEW m \in job'.dq
      PROVE  VerdictOK(m)
  <2> DEFINE rows == {r \in silver : r.event_date = job.date}
  <2>1. m \in RunDQChecks(rows, job.date, now, customers)
    BY <1>3 DEF RunChecks, TypeOK, Job
  <2>2. rows \in SUBSET SilverRow /\ \A r \in rows : DayOf(r.timestamp) = job.date
    BY DEF OriginInv, TypeOK
  <2>3. IsFiniteSet(rows)
    BY FS_Subset DEF FiniteInv
  <2>4. job.date \in Nat /\ now \in Nat
    BY DEF TypeOK, Job
  <2> HIDE DEF rows
  <2>5. m.process_date = job.date /\ m.checked_at = now
    BY <2>1, <2>4, ChecksType
  <2>6. m.check_name \in {"completeness_critical_fields", "validity_status_known"}
          => m.status = "PASS"
    BY <2>1, <2>2, <2>3, DeadChecksPass
  <2>7. m.check_name = "freshness_2h" /\ now >= ScheduledAt(job.date) => m.status = "FAIL"
    BY <2>1, <2>2, <2>4, StaleCheckFails
  <2> QED
    BY <2>5, <2>6, <2>7 DEF VerdictOK
<1> QED
  BY <1>1, <1>2, <1>3 DEF VerdictInv

\* The invariant behind the verdicts: Silver is finite, and every result computed
\* or recorded is one the two properties below allow.
THEOREM VerdictsHold == Spec => [](SafeInv /\ FiniteInv /\ VerdictInv)
<1>1. Init => FiniteInv /\ VerdictInv
  BY FiniteInit, VerdictInit
<1>2. SafeInv /\ FiniteInv /\ VerdictInv /\ [Next]_vars => FiniteInv' /\ VerdictInv'
  BY FiniteStep, VerdictStep DEF SafeInv
<1> QED
  BY <1>1, <1>2, JobsInvariant, PTL DEF Spec

\* The completeness and the status check never fail on what the clean job wrote.
THEOREM TwoChecksNeverFail == Spec => []DeadChecks
<1>1. VerdictInv => DeadChecks
  BY DEF VerdictInv, VerdictOK, DeadChecks
<1> QED
  BY <1>1, VerdictsHold, PTL

\* The freshness check fails whenever the job runs at the hour it is scheduled.
THEOREM ScheduledCheckFails == Spec => []ScheduledCheckIsStale
<1>1. VerdictInv => ScheduledCheckIsStale
  BY DEF VerdictInv, VerdictOK, ScheduledCheckIsStale
<1> QED
  BY <1>1, VerdictsHold, PTL

-----------------------------------------------------------------------------
(* The MERGE always has a source, and never an ambiguous one *)

LEMMA BatchHasSource ==
  ASSUME NEW batch \in SUBSET SilverRow, IsFiniteSet(batch)
  PROVE  \E out \in SUBSET batch : DeduplicateWithinBatch(batch, out)
<1> DEFINE Versions(id) == {r \in batch : r.transaction_id = id}
           IsBest(q, id) == /\ q \in Versions(id)
                            /\ \A r \in Versions(id) : q.ingestion_timestamp >= r.ingestion_timestamp
           Best(id) == CHOOSE q \in batch : IsBest(q, id)
           out == {Best(r.transaction_id) : r \in batch}
<1>1. ASSUME NEW o \in batch
      PROVE  Best(o.transaction_id) \in batch /\ IsBest(Best(o.transaction_id), o.transaction_id)
  <2> DEFINE own == Versions(o.transaction_id)
             time == [r \in own |-> r.ingestion_timestamp]
  <2>1. IsFiniteSet(own) /\ own # {}
    BY FS_Subset
  <2>2. \A r \in own : time[r] \in Int
    BY DEF SilverRow
  <2>3. PICK q \in own : \A r \in own : time[q] >= time[r]
    <3> HIDE DEF time, own
    <3> QED
      BY <2>1, <2>2, Greatest
  <2>4. q \in batch /\ IsBest(q, o.transaction_id)
    BY <2>3
  <2> HIDE DEF IsBest
  <2> QED
    BY <2>4
<1> HIDE DEF Best
<1>2. out \subseteq batch
  BY <1>1
<1>3. \A r \in batch : \E q \in out : SameTransaction(q, r)
  BY <1>1 DEF SameTransaction
<1>4. ASSUME NEW q \in out, NEW r \in batch, SameTransaction(q, r)
      PROVE  /\ q.ingestion_timestamp >= r.ingestion_timestamp
             /\ r \in out => r = q
  <2>1. PICK o \in batch : q = Best(o.transaction_id)
    OBVIOUS
  <2>2. q.transaction_id = o.transaction_id /\ r.transaction_id = q.transaction_id
    BY <1>1, <1>4, <2>1 DEF SameTransaction
  <2>3. q.ingestion_timestamp >= r.ingestion_timestamp
    BY <1>1, <2>1, <2>2
  <2>4. ASSUME r \in out PROVE r = q
    <3>1. PICK p \in batch : r = Best(p.transaction_id)
      BY <2>4
    <3>2. r.transaction_id = p.transaction_id
      BY <1>1, <3>1
    <3> QED
      BY <2>1, <2>2, <3>1, <3>2
  <2> QED
    BY <2>3, <2>4
<1> HIDE DEF out
<1> QED
  BY <1>2, <1>3, <1>4 DEF DeduplicateWithinBatch

Unambiguous(target, source) ==
  \A t \in target : \A r, q \in source : SameTransaction(r, t) /\ SameTransaction(q, t) => r = q

MergeDefined ==
  \A d \in Nat :
    /\ \E source \in SUBSET StagingOf(silver, d) :
         DeduplicateWithinBatch(StagingOf(silver, d), source)
    /\ \A source \in SUBSET StagingOf(silver, d) :
         DeduplicateWithinBatch(StagingOf(silver, d), source) => Unambiguous(silver, source)

\* Whatever the clean job left in Silver, for every date: row_number() = 1 has an
\* answer, and whichever it is, no target row is matched by two source rows - the
\* case in which Delta would abort the MERGE - so the row a match is refreshed
\* from is the only one.
THEOREM MergeIsDefined == Spec => []MergeDefined
<1>1. ASSUME TypeOK, FiniteInv, NEW d \in Nat
      PROVE  /\ \E source \in SUBSET StagingOf(silver, d) :
                  DeduplicateWithinBatch(StagingOf(silver, d), source)
             /\ \A source \in SUBSET StagingOf(silver, d) :
                  DeduplicateWithinBatch(StagingOf(silver, d), source)
                    => Unambiguous(silver, source)
  <2>1. StagingOf(silver, d) \in SUBSET SilverRow /\ IsFiniteSet(StagingOf(silver, d))
    BY <1>1, FS_Subset DEF TypeOK, FiniteInv, StagingOf
  <2>2. ASSUME NEW source \in SUBSET StagingOf(silver, d),
               DeduplicateWithinBatch(StagingOf(silver, d), source)
        PROVE  Unambiguous(silver, source)
    BY <2>2 DEF DeduplicateWithinBatch, SameTransaction, Unambiguous
  <2> QED
    BY <2>1, <2>2, BatchHasSource
<1>2. SafeInv /\ FiniteInv => MergeDefined
  BY <1>1 DEF SafeInv, MergeDefined
<1> QED
  BY <1>2, VerdictsHold, PTL
=============================================================================
