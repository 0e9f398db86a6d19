------------------------------ MODULE GoldRows ------------------------------
(***************************************************************************)
(* What the Gold jobs compute from the rows of Silver: the customer table  *)
(* with its RFM scores, the daily summary, the risk signals and the volume *)
(* per currency, as operators on sets of rows.                             *)
(*                                                                         *)
(* Averages and rates are kept as their numerators and denominators;       *)
(* percentiles, names and ages, which no rule compares, are left out, and  *)
(* so are the DataFrames the jobs build and never evaluate: by merchant,   *)
(* by hour, by payment method, and build_currency_exposure.                *)
(***************************************************************************)
EXTENDS Clock, FiniteSets, FiniteSetsExt

CONSTANTS
  Null,        \* SQL NULL
  Text,        \* the strings that occur
  VELOCITY_TX  \* transactions tolerated in ten minutes: 5

ASSUME GoldAssumption == Null \notin Text /\ VELOCITY_TX \in Nat

\* A row of silver.transactions; `copy` tells equal rows apart.
Row == [transaction_id : Text, account_id : Text, customer_id : Text,
        transaction_type : Text, amount : Nat, currency : Text,
        status : {"completed", "pending", "failed", "unknown"}, timestamp : Nat,
        is_late_arrival : BOOLEAN, ip_country : Text \cup {Null}, copy : Nat]

EventDate(r) == DayOf(r.timestamp)
Volume(rows) == MapThenSumSet(LAMBDA r : r.amount, rows)
CountWith(rows, status) == Cardinality({r \in rows : r.status = status})

InWindow(rows, d, lookback) ==
  {r \in rows : EventDate(r) >= d - lookback /\ EventDate(r) <= d}

-----------------------------------------------------------------------------
(* customer_analytics.py *)

NoUpperBound(silver, d) ==
  {r \in silver : EventDate(r) >= d - 90 /\ r.status # "failed"}
CustomerInput(silver, d) == {r \in InWindow(silver, d, 90) : r.status # "failed"}

CustomersOf(rows) == {r.customer_id : r \in rows}
OfCustomer(rows, c) == {r \in rows : r.customer_id = c}

Frequency(rows) == [c \in CustomersOf(rows) |-> Cardinality(OfCustomer(rows, c))]
Monetary(rows) == [c \in CustomersOf(rows) |-> Volume(OfCustomer(rows, c))]
RecencyDays(rows, d) ==
  [c \in CustomersOf(rows) |-> d - Max({EventDate(r) : r \in OfCustomer(rows, c)})]

ByRecencyDesc(rows, d) == [c \in CustomersOf(rows) |-> -RecencyDays(rows, d)[c]]
ByRecencyAsc(rows, d) == RecencyDays(rows, d)

\* What ntile(n) over an ordering by `key` may return: n buckets as equal as can
\* be, the larger ones first, filled in an order that ties leave open.
EvenBuckets(n, score) ==
  LET k == Cardinality(DOMAIN score) IN
    \A i \in 1..n : Cardinality({c \in DOMAIN score : score[c] = i})
                      = (k \div n) + IF i <= k % n THEN 1 ELSE 0

InOrder(key, score) == \A b, c \in DOMAIN key : key[b] < key[c] => score[b] <= score[c]

UnorderedNtile(n, key) == {score \in [DOMAIN key -> 1..n] : EvenBuckets(n, score)}
Ntile(n, key) ==
  {score \in [DOMAIN key -> 1..n] : EvenBuckets(n, score) /\ InOrder(key, score)}

TierFloor == [champion |-> 12, loyal |-> 9, potential |-> 6, at_risk |-> 4, churned |-> 0]

\* The first WHEN that holds.
ActivityTier(rfm) ==
  CHOOSE tier \in DOMAIN TierFloor :
    /\ rfm >= TierFloor[tier]
    /\ \A other \in DOMAIN TierFloor : rfm >= TierFloor[other] => TierFloor[tier] >= TierFloor[other]

\* The row of customer c, with `scores` for recency, frequency and monetary; a
\* left join with `dim`, the countries of the customers in silver.customers.
CustomerRow(rows, d, dim, scores, c) ==
  LET own == OfCustomer(rows, c)
      rfm == scores.recency[c] + scores.frequency[c] + scores.monetary[c]
  IN [customer_id |-> c, total_transactions |-> Cardinality(own), total_spend |-> Volume(own),
      active_days |-> Cardinality({EventDate(r) : r \in own}),
      accounts_used |-> Cardinality({r.account_id : r \in own}),
      total_purchases |-> Volume({r \in own : r.transaction_type = "purchase"}),
      total_transfers |-> Volume({r \in own : r.transaction_type = "transfer"}),
      country |-> IF c \in DOMAIN dim THEN dim[c] ELSE Null,
      recency_days |-> RecencyDays(rows, d)[c], recency_score |-> scores.recency[c],
      frequency_score |-> scores.frequency[c], monetary_score |-> scores.monetary[c],
      rfm_score |-> rfm, activity_tier |-> ActivityTier(rfm)]

CustomerTable(rows, d, dim, scores) ==
  {CustomerRow(rows, d, dim, scores, c) : c \in CustomersOf(rows)}

\* The tables the job may write for these rows, one for each way to break ties.
BuildCustomerAnalytics(rows, d, dim) ==
  {CustomerTable(rows, d, dim, [recency |-> r, frequency |-> f, monetary |-> m])
    : r \in Ntile(5, ByRecencyAsc(rows, d)), f \in Ntile(5, Frequency(rows)),
      m \in Ntile(5, Monetary(rows))}

-----------------------------------------------------------------------------
(* transaction_analytics.py *)

TransactionInput(silver, d) == InWindow(silver, d, 30)

DailyKey(r) == <<EventDate(r), r.transaction_type, r.currency>>

DailyRow(rows, key) ==
  LET group == {r \in rows : DailyKey(r) = key}
  IN [event_date |-> key[1], transaction_type |-> key[2], currency |-> key[3],
      tx_count |-> Cardinality(group), total_volume |-> Volume(group),
      completed_count |-> CountWith(group, "completed"),
      failed_count |-> CountWith(group, "failed"),
      late_arrival_count |-> Cardinality({r \in group : r.is_late_arrival})]

BuildTransactionAnalytics(rows) == {DailyRow(rows, key) : key \in {DailyKey(r) : r \in rows}}

-----------------------------------------------------------------------------
(* risk_metrics.py *)

RiskInput(silver, d) == {r \in silver : EventDate(r) = d}

OpenWindow(rows, r) ==
  {q \in rows : q.account_id = r.account_id /\ q.timestamp > r.timestamp - 10 * Minute
                  /\ q.timestamp <= r.timestamp}

\* rangeBetween(-600, 0): the ten minutes up to r, both ends included
TxIn10MinWindow(rows, r) ==
  {q \in rows : q.account_id = r.account_id /\ q.timestamp >= r.timestamp - 10 * Minute
                  /\ q.timestamp <= r.timestamp}

Flagged(rows) == {r \in rows : Cardinality(TxIn10MinWindow(rows, r)) > VELOCITY_TX}

\* The account of the window, the customer of its last transaction.
BuildVelocityAlerts(rows) ==
  {[account_id |-> r.account_id, customer_id |-> r.customer_id] : r \in Flagged(rows)}

AboveOthers(rows, r) ==
  LET others == OfCustomer(rows, r.customer_id) \ {r}
  IN r.amount * Cardinality(others) > 3 * Volume(others)

\* amount > 3 * avg(amount of the customer), the transaction itself included
IsLarge(rows, r) ==
  LET own == OfCustomer(rows, r.customer_id)
  IN r.amount * Cardinality(own) > 3 * Volume(own)

BuildLargeTxFlags(rows) == {r \in rows : IsLarge(rows, r)}

OfGroup(rows, a, c) == {r \in rows : r.account_id = a /\ r.customer_id = c}

FailsOften(failed, total) == failed * 100 > 20 * total

BuildFailureRateFlags(rows) ==
  {g \in {[account_id |-> r.account_id, customer_id |-> r.customer_id] : r \in rows} :
     LET own == OfGroup(rows, g.account_id, g.customer_id)
     IN Cardinality(own) >= 5 /\ FailsOften(CountWith(own, "failed"), Cardinality(own))}

\* An inner join: customers not in the dimension are no anomaly.
BuildGeoAnomalies(rows, dim) ==
  {[customer_id |-> r.customer_id, ip_country |-> r.ip_country, country |-> dim[r.customer_id]] :
     r \in {q \in rows : /\ q.ip_country # Null /\ q.customer_id \in DOMAIN dim
                         /\ q.ip_country # dim[q.customer_id]}}

CurrencyRow(rows, d, currency) ==
  LET own == {r \in rows : r.currency = currency}
  IN [event_date |-> d, currency |-> currency,
      total_volume |-> Volume(own), tx_count |-> Cardinality(own)]

\* The only result the risk job writes.
VolumeByCurrency(rows, d) ==
  {CurrencyRow(rows, d, currency) : currency \in {r.currency : r \in rows}}
=============================================================================
