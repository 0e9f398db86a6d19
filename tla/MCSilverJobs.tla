---------------------------- MODULE MCSilverJobs ----------------------------
(* Two dates, one transaction in two versions with different event times, ingested
   in either order, a payload without a key and one that does not parse. *)
EXTENDS SilverJobs

Tx(id, amount, currency, status, ts) ==
  [transaction_id |-> id, customer_id |-> "c1", account_id |-> "a1", amount |-> amount,
   currency |-> currency, status |-> status, timestamp |-> ts]

MCText == {"t1", "t2", "c1", "c2", "a1", " usd", "usd", "USD", "pending", "Completed",
           "completed", "reversed", "REVERSED"}
MCTrim == [s \in MCText |-> IF s = " usd" THEN "usd" ELSE s]
MCUpper == [s \in MCText |-> CASE s = "usd" -> "USD" [] s = "reversed" -> "REVERSED" [] OTHER -> s]
MCLower == [s \in MCText |-> CASE s = "Completed" -> "completed" [] OTHER -> s]

\* 23:40 and 23:50 of day 0, 00:05 and 02:00 of day 1
MCTimes == {0, Day - 20, Day - 10, Day + 5, Day + 120}

MCPayloads == {
  Tx("t1", -5, " usd", "pending", Day - 15),
  Tx("t1", 7, "USD", "reversed", Day - 30),
  Tx(Null, 7, "USD", "pending", Day - 15),
  Malformed}
MCCustomers == {"c1"}
=============================================================================
