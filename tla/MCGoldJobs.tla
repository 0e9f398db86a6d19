----------------------------- MODULE MCGoldJobs -----------------------------
(* One busy account, a customer of the same day and one last seen 35 days ago.
   Three transactions lie exactly ten minutes apart, one follows after midnight. *)
EXTENDS GoldJobs

Tx(id, a, c, type, amount, currency, status, ts) ==
  [transaction_id |-> id, account_id |-> a, customer_id |-> c, transaction_type |-> type,
   amount |-> amount, currency |-> currency, status |-> status, timestamp |-> ts,
   is_late_arrival |-> FALSE, ip_country |-> IF id = "t2" THEN "BR" ELSE Null, copy |-> 0]

MCText == {"t1", "t2", "t3", "t4", "t5", "t6", "t7", "t8", "a1", "a2", "a3", "c1",
           "c2", "c3", "purchase", "transfer", "USD", "EUR", "BR", "US"}

Midnight == 41 * Day   \* the end of day 40

MCPool == {
  Tx("t1", "a1", "c1", "purchase", 1, "USD", "completed", Midnight + 3),
  Tx("t2", "a1", "c1", "purchase", 10, "USD", "completed", Midnight - 2),
  Tx("t3", "a1", "c1", "purchase", 1, "USD", "failed", Midnight - 7),
  Tx("t4", "a1", "c1", "transfer", 1, "USD", "pending", Midnight - 12),
  Tx("t5", "a1", "c1", "purchase", 1, "EUR", "completed", Midnight - 40),
  Tx("t6", "a1", "c1", "purchase", 1, "USD", "failed", Midnight - 60),
  Tx("t7", "a2", "c2", "purchase", 2, "USD", "completed", 5 * Day),
  Tx("t8", "a3", "c3", "purchase", 1, "USD", "completed", Midnight - 100)}

MCDates == {40}
MCCustomers == [c1 |-> "US"]
=============================================================================
