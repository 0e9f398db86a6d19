----------------------------- MODULE SilverRows -----------------------------
(***************************************************************************)
(* What one Silver job computes from the rows it reads: the parsing,       *)
(* routing and corrections of clean_transactions.py, the de-duplication    *)
(* and MERGE of deduplicate_transactions.py and the checks of              *)
(* data_quality.py, as operators on sets of rows.                          *)
(*                                                                         *)
(* Columns no rule looks at (transaction_type, merchant, payment_method,   *)
(* the v3 fields) are left out; `status` and `amount` stand for all the    *)
(* columns a MERGE refreshes, `currency` and `timestamp` for those it      *)
(* leaves alone.                                                           *)
(***************************************************************************)
EXTENDS Clock, FiniteSets

CONSTANTS
  Null,              \* SQL NULL
  Malformed,         \* a payload from_json cannot parse
  Text,              \* the strings that occur in a payload
  Trim, Upper, Lower,\* what F.trim, F.upper and F.lower do to them
  DQ_PASS_RATE_PCT   \* config/settings.py: DQ_PASS_RATE_THRESHOLD, in percent

CURRENCIES == {"USD", "EUR", "BRL", "GBP", "JPY", "CAD", "AUD"}
VALID_CURRENCIES == {"USD", "EUR", "BRL", "GBP", "JPY", "CAD", "AUD"}
VALID_STATUSES == {"completed", "pending", "failed"}
CRITICAL_FIELDS == {"transaction_id", "customer_id", "account_id", "amount", "timestamp"}

ASSUME TextAssumption ==
  /\ Null \notin Text \cup Int \cup {Malformed}
  /\ Trim \in [Text -> Text] /\ Upper \in [Text -> Text] /\ Lower \in [Text -> Text]

ASSUME ThresholdAssumption == DQ_PASS_RATE_PCT \in 0..100

Nullable(S) == S \cup {Null}

Payload == [transaction_id : Nullable(Text), customer_id : Nullable(Text),
            account_id : Nullable(Text), amount : Nullable(Int),
            currency : Nullable(Text), status : Nullable(Text),
            timestamp : Nullable(Nat)]

BronzeRow == [kafka_offset : Nat, raw_payload : Payload \cup {Malformed},
              ingestion_timestamp : Nat]

\* `copy` is the run of the clean job that appended the row: together with
\* kafka_offset it tells the physical rows of the Delta table apart.
SilverRow == [transaction_id : Text, customer_id : Text, account_id : Text,
              amount : Nat, currency : VALID_CURRENCIES \cup {"UNKNOWN"},
              status : VALID_STATUSES \cup {"unknown"}, timestamp : Nat,
              ingestion_timestamp : Nat, processing_date : Nat, event_date : Nat,
              is_late_arrival : BOOLEAN, kafka_offset : Nat, copy : Nat]

-----------------------------------------------------------------------------
(* clean_transactions.py *)

AllNull == [f \in CRITICAL_FIELDS \cup {"currency", "status"} |-> Null]

ParseRawPayload(raw) == IF raw = Malformed THEN AllNull ELSE raw

HasCriticalNull(p) == \E f \in CRITICAL_FIELDS : p[f] = Null

BronzeOf(bronze, d) == {b \in bronze : DayOf(b.ingestion_timestamp) = d}

ValidOf(rows) == {b \in rows : ~HasCriticalNull(ParseRawPayload(b.raw_payload))}
InvalidOf(rows) == {b \in rows : HasCriticalNull(ParseRawPayload(b.raw_payload))}

SignedAmount(a) == a
AbsAmount(a) == IF a < 0 THEN -a ELSE a

CurrencyOf(c) ==
  IF c # Null /\ Upper[Trim[c]] \in VALID_CURRENCIES THEN Upper[Trim[c]] ELSE "UNKNOWN"

StatusAsIs(s) == IF s # Null THEN Lower[Trim[s]] ELSE "unknown"
StatusOf(s) ==
  IF s # Null /\ Lower[Trim[s]] \in VALID_STATUSES THEN Lower[Trim[s]] ELSE "unknown"

ApplyTypeCorrections(b, copy) ==
  LET p == ParseRawPayload(b.raw_payload)
      ing == b.ingestion_timestamp
  IN [transaction_id |-> Trim[p.transaction_id], customer_id |-> Trim[p.customer_id],
      account_id |-> Trim[p.account_id], amount |-> AbsAmount(p.amount),
      currency |-> CurrencyOf(p.currency), status |-> StatusOf(p.status),
      timestamp |-> p.timestamp, ingestion_timestamp |-> ing,
      processing_date |-> DayOf(ing), event_date |-> DayOf(p.timestamp),
      is_late_arrival |-> p.timestamp < ing - WATERMARK,
      kafka_offset |-> b.kafka_offset, copy |-> copy]

-----------------------------------------------------------------------------
(* deduplicate_transactions.py *)

StagingOf(silver, d) == {r \in silver : r.processing_date = d}

SameTransaction(r, q) == r.transaction_id = q.transaction_id

\* data-flow.md:69-70 says ORDER BY event_time DESC.
KeepsLatestEvent(batch, out) ==
  /\ out \subseteq batch
  /\ \A r \in batch : \E q \in out : SameTransaction(q, r)
  /\ \A q \in out : \A r \in batch : SameTransaction(q, r) =>
       /\ q.timestamp >= r.timestamp
       /\ r \in out => r = q

\* row_number() = 1 over (PARTITION BY transaction_id ORDER BY
\* ingestion_timestamp DESC): among equals Spark may number any row first.
DeduplicateWithinBatch(batch, out) ==
  /\ out \subseteq batch
  /\ \A r \in batch : \E q \in out : SameTransaction(q, r)
  /\ \A q \in out : \A r \in batch : SameTransaction(q, r) =>
       /\ q.ingestion_timestamp >= r.ingestion_timestamp
       /\ r \in out => r = q

Refresh(t, s) == [t EXCEPT !.status = s.status, !.amount = s.amount,
                           !.ingestion_timestamp = s.ingestion_timestamp,
                           !.is_late_arrival = s.is_late_arrival]

AnyVersion(s, t) == SameTransaction(s, t)
IsNewer(s, t) == SameTransaction(s, t) /\ s.ingestion_timestamp > t.ingestion_timestamp

MergeOne(t, source) ==
  IF \E s \in source : IsNewer(s, t)
  THEN Refresh(t, CHOOSE s \in source : IsNewer(s, t))
  ELSE t

AppendInstead(target, source) == target \cup {[s EXCEPT !.copy = @ + 100] : s \in source}

MergeInto(target, source) ==
  {MergeOne(t, source) : t \in target}
    \cup {s \in source : \A t \in target : ~SameTransaction(s, t)}

-----------------------------------------------------------------------------
(* data_quality.py *)

CheckName == {"completeness_critical_fields", "validity_amount_positive",
              "validity_currency_known", "validity_status_known",
              "referential_integrity_customer", "late_arrival_rate", "freshness_2h"}

DQResult == [check_name : CheckName, process_date : Nat, checked_at : Nat,
             status : {"PASS", "FAIL"}]

Check(name, total, failed, pct, d, at) ==
  [check_name |-> name, process_date |-> d, checked_at |-> at,
   status |-> IF (total - failed) * 100 >= pct * total THEN "PASS" ELSE "FAIL"]

Incomplete(rows) == {r \in rows : \E f \in CRITICAL_FIELDS : r[f] = Null}
NotPositive(rows) == {r \in rows : r.amount <= 0}
UnknownCurrency(rows) == {r \in rows : r.currency \notin CURRENCIES}
UnknownStatus(rows) == {r \in rows : r.status \notin VALID_STATUSES \cup {"unknown"}}
Orphans(rows, customers) == {r \in rows : r.customer_id \notin customers}
LateArrivals(rows) == {r \in rows : r.is_late_arrival}

\* The DQResults of one run on the rows of one event_date.  `customers` is the
\* set of ids in silver.customers, or Null when there is no such table.
RunDQChecks(rows, d, at, customers) ==
  LET total == Cardinality(rows)
      Result(name, failed, pct) == Check(name, total, Cardinality(failed), pct, d, at)
  IN IF rows = {} THEN {}
     ELSE {Result("completeness_critical_fields", Incomplete(rows), 100),
           Result("validity_amount_positive", NotPositive(rows), DQ_PASS_RATE_PCT),
           Result("validity_currency_known", UnknownCurrency(rows), DQ_PASS_RATE_PCT),
           Result("validity_status_known", UnknownStatus(rows), 100),
           Result("late_arrival_rate", LateArrivals(rows), 90),
           Check("freshness_2h", 1, IF IsFresh(rows, at) THEN 0 ELSE 1, 100, d, at)}
          \cup IF customers = Null THEN {}
               ELSE {Result("referential_integrity_customer", Orphans(rows, customers),
                            DQ_PASS_RATE_PCT)}

Failures(results) == {r \in results : r.status = "FAIL"}
=============================================================================
