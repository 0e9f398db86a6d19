-------------------------------- MODULE Clock --------------------------------
(***************************************************************************)
(* Times, dates and the two rules that compare a table with the clock.     *)
(* Times are minutes since the epoch of the run, in UTC; dates are days.   *)
(***************************************************************************)
EXTENDS Integers

Minute == 1
Day == 1440 * Minute
DayOf(t) == t \div Day
WATERMARK == 30 * Minute
FRESHNESS == 120 * Minute
BRONZE_FRESHNESS == 120 * Minute

\* default: the DAG runs for date d at 02:00 UTC of the next day
ScheduledAt(d) == (d + 1) * Day + 120 * Minute

\* financial_pipeline.py: is the latest row of Bronze recent enough?
FreshWithin3h(rows, at) == \E b \in rows : b.ingestion_timestamp >= at - 180 * Minute
BronzeFresh(rows, at) == \E b \in rows : b.ingestion_timestamp >= at - BRONZE_FRESHNESS

\* data_quality.py: is the latest event among the rows recent enough?
FreshByDay(rows, at) == \E r \in rows : r.timestamp >= at - Day
IsFresh(rows, at) == \E r \in rows : r.timestamp >= at - FRESHNESS
=============================================================================
