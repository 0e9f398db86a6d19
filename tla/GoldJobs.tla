------------------------------ MODULE GoldJobs ------------------------------
(***************************************************************************)
(* The three Gold jobs on a Silver table that may change between them and  *)
(* during the risk job.  Each job replaces the partition of its process    *)
(* date by one commit; the count it then logs and OPTIMIZE change no row.  *)
(*                                                                         *)
(* The customer and the transaction job release their cache before their   *)
(* only write, which so reads Silver itself.  The risk job counts signals  *)
(* first, on rows it caches, and writes from that cache.                   *)
(***************************************************************************)
EXTENDS GoldRows

CONSTANTS
  Pool,          \* the rows the clean job may add
  ProcessDates,  \* the dates jobs are run for
  CustomerDim,   \* silver.customers: the country of each customer
  MaxChanges     \* bound on the changes of Silver

ASSUME GoldJobsAssumption ==
  /\ Pool \subseteq Row /\ IsFiniteSet(Pool) /\ ProcessDates \subseteq Nat /\ MaxChanges \in Nat
  /\ DOMAIN CustomerDim \subseteq Text
  /\ \A c \in DOMAIN CustomerDim : CustomerDim[c] \in Text \cup {Null}

VARIABLES
  silver,
  changes,  \* number of times Silver has changed
  gold,     \* the partition of each table and date
  risk,     \* the running risk job: its date, cached rows and counted signals
  source    \* history: what Silver held when each partition was computed

vars == <<silver, changes, gold, risk, source>>

Table == {"customer_analytics", "transaction_analytics", "risk_metrics"}

NoSignals == [velocity |-> {}, large |-> {}, failure |-> {}, geo |-> {}]
Idle == [date |-> Null, rows |-> {}, table |-> {}, signals |-> NoSignals]

CustomerRows ==
  [customer_id : Text, total_transactions : Nat, total_spend : Nat, active_days : Nat,
   accounts_used : Nat, total_purchases : Nat, total_transfers : Nat,
   country : Text \cup {Null}, recency_days : Nat, recency_score : 1..5,
   frequency_score : 1..5, monetary_score : 1..5, rfm_score : 3..15,
   activity_tier : DOMAIN TierFloor]

TypeOK ==
  /\ silver \subseteq Row /\ changes \in 0..MaxChanges
  /\ DOMAIN gold = Table /\ \A t \in Table : DOMAIN gold[t] = ProcessDates
  /\ \A d \in ProcessDates :
       /\ gold["customer_analytics"][d] \subseteq CustomerRows
       /\ \A r \in gold["transaction_analytics"][d] :
            r.completed_count + r.failed_count <= r.tx_count /\ r.event_date <= d
       /\ \A r \in gold["risk_metrics"][d] : r.event_date = d /\ r.tx_count > 0
  /\ risk.date \in ProcessDates \cup {Null} /\ risk.rows \subseteq risk.table
  /\ source \in [Table -> [ProcessDates -> SUBSET Row]]

Init ==
  /\ silver \in SUBSET Pool /\ changes = 0
  /\ gold = [t \in Table |-> [d \in ProcessDates |-> {}]]
  /\ risk = Idle
  /\ source = [t \in Table |-> [d \in ProcessDates |-> {}]]

\* A Silver job commits: the clean job adds a row, or the MERGE refreshes one.
SilverChanges ==
  /\ changes < MaxChanges /\ changes' = changes + 1
  /\ \/ \E r \in Pool \ silver : silver' = silver \cup {r}
     \/ \E r \in silver :
          /\ r.status = "pending"
          /\ silver' = (silver \ {r}) \cup {[r EXCEPT !.status = "failed", !.amount = @ + 1]}
  /\ UNCHANGED <<gold, risk, source>>

ReplaceWhere(t, d, partition, from) ==
  /\ gold' = [gold EXCEPT ![t][d] = partition]
  /\ source' = [source EXCEPT ![t][d] = from]

CustomerAnalytics(d) ==
  /\ \E partition \in BuildCustomerAnalytics(CustomerInput(silver, d), d, CustomerDim) :
       ReplaceWhere("customer_analytics", d, partition, silver)
  /\ UNCHANGED <<silver, changes, risk>>

TransactionAnalytics(d) ==
  /\ ReplaceWhere("transaction_analytics", d,
                  BuildTransactionAnalytics(TransactionInput(silver, d)), silver)
  /\ UNCHANGED <<silver, changes, risk>>

\* The first count fills the cache the other signals are computed from.
CountSignals(d) ==
  /\ risk = Idle
  /\ LET rows == RiskInput(silver, d) IN
       risk' = [date |-> d, rows |-> rows, table |-> silver,
                signals |-> [velocity |-> BuildVelocityAlerts(rows),
                             large |-> BuildLargeTxFlags(rows),
                             failure |-> BuildFailureRateFlags(rows),
                             geo |-> BuildGeoAnomalies(rows, CustomerDim)]]
  /\ UNCHANGED <<silver, changes, gold, source>>

RereadRows == RiskInput(silver, risk.date)
RowsToWrite == risk.rows

\* No signal is written: they end with the job.
WriteRiskMetrics ==
  /\ risk # Idle
  /\ ReplaceWhere("risk_metrics", risk.date, VolumeByCurrency(RowsToWrite, risk.date), risk.table)
  /\ risk' = Idle
  /\ UNCHANGED <<silver, changes>>

Crash ==
  /\ risk # Idle /\ risk' = Idle
  /\ UNCHANGED <<silver, changes, gold, source>>

Next ==
  \/ SilverChanges
  \/ \E d \in ProcessDates : CustomerAnalytics(d) \/ TransactionAnalytics(d) \/ CountSignals(d)
  \/ WriteRiskMetrics \/ Crash

Spec == Init /\ [][Next]_vars

-----------------------------------------------------------------------------
(* The signals *)

TenMinutesFrom(rows, a, t) ==
  {r \in rows : r.account_id = a /\ r.timestamp >= t /\ r.timestamp <= t + 10 * Minute}

\* An account is alerted exactly if more than VELOCITY_TX of its transactions of
\* the date lie within some ten minutes, wherever these begin: looking back from
\* each transaction misses no window.  (One across midnight is in no date.)
VelocityIsABurst ==
  \A a \in {r.account_id : r \in risk.rows} :
    (\E alert \in risk.signals.velocity : alert.account_id = a)
      <=> \E r \in risk.rows, k \in 0..10 :
            Cardinality(TenMinutesFrom(risk.rows, a, r.timestamp - k * Minute)) > VELOCITY_TX

\* What the code makes of "amount > 3x 30-day average" (risk_metrics.py:9, 60): the
\* average is over the process date and includes the transaction, so with less
\* than four transactions of the customer that day none is flagged, however large
\* it is beside the days before.  A failure rate above 20 percent of at least five
\* needs two failures.  No flag rests on a single observation.
SmallSamplesAreNotFlagged ==
  /\ \A r \in risk.signals.large : Cardinality(OfCustomer(risk.rows, r.customer_id)) >= 4
  /\ \A g \in risk.signals.failure :
       CountWith(OfGroup(risk.rows, g.account_id, g.customer_id), "failed") >= 2

-----------------------------------------------------------------------------
(* The tables *)

\* The more recent a customer's last transaction, the lower the recency score,
\* and with it the tier: the opposite of "5 = best" for the other two scores.
RecencyIsInverted ==
  \A d \in ProcessDates : \A b, c \in gold["customer_analytics"][d] :
    /\ b.recency_days < c.recency_days => b.recency_score <= c.recency_score
    /\ b.total_transactions < c.total_transactions => b.frequency_score <= c.frequency_score
    /\ b.total_spend < c.total_spend => b.monetary_score <= c.monetary_score

\* Partitions of one date that were computed from the same Silver reconcile: risk
\* and transactions have the same count and volume per currency of that day, and
\* the customers have the transactions that did not fail, those of the days only
\* the longer window covers included.
TablesReconcile ==
  \A d \in ProcessDates :
    LET from == source["risk_metrics"][d]
        daily == gold["transaction_analytics"][d]
        customers == gold["customer_analytics"][d]
        older == CustomerInput(from, d) \ TransactionInput(from, d)
    IN (\A t \in Table : source[t][d] = from) =>
         /\ \A r \in gold["risk_metrics"][d] :
              LET same == {q \in daily : q.event_date = d /\ q.currency = r.currency} IN
                /\ r.tx_count = MapThenSumSet(LAMBDA q : q.tx_count, same)
                /\ r.total_volume = MapThenSumSet(LAMBDA q : q.total_volume, same)
         /\ MapThenSumSet(LAMBDA c : c.total_transactions, customers)
              = MapThenSumSet(LAMBDA q : q.tx_count - q.failed_count, daily) + Cardinality(older)

\* Computed again from the same Silver, a score moves only between customers who
\* tie for it; everything else in the customer table stays.
OnlyTiesMove ==
  [][\A d \in ProcessDates :
       source'["customer_analytics"][d] = source["customer_analytics"][d] =>
         \A c \in gold["customer_analytics"][d] :
           \E b \in gold'["customer_analytics"][d] :
             LET table == gold["customer_analytics"][d]
                 Tie(f) == \E o \in table : o # c /\ o[f] = c[f]
             IN /\ b.customer_id = c.customer_id /\ b.total_spend = c.total_spend
                /\ b.recency_score # c.recency_score => Tie("recency_days")
                /\ b.frequency_score # c.frequency_score => Tie("total_transactions")
                /\ b.monetary_score # c.monetary_score => Tie("total_spend")]_vars
=============================================================================
