--------------------------- MODULE MCKafkaProducer ---------------------------
(* Two transactions and a copy of the first, with a null where the generator may
   put one, or three transactions and no copy; a topic of two partitions. *)
EXTENDS KafkaProducer

Tx(id, account, ts, late) ==
  [transaction_id |-> id, account_id |-> account, customer_id |-> "c", amount |-> 1,
   timestamp |-> ts, _is_late_arrival |-> late]

MCIds == {"t1", "t2", "t3"}
MCAccounts == {"a", "b"}
MCCustomers == {"c"}
MCAmounts == {1}
MCHash == [a |-> 0, b |-> 1]

MCListsWithCopy ==
  {<<Tx("t1", "a", 59, FALSE), Tx("t2", "b", 60, FALSE), Tx("t1", "a", 59, FALSE)>>,
   <<Tx(NoValue, "a", 20, TRUE), Tx(NoValue, "a", 20, TRUE), Tx("t2", "a", 60, FALSE)>>}
MCLists == {<<Tx("t1", "a", 60, FALSE), Tx("t2", "b", 60, FALSE), Tx("t3", "a", 60, FALSE)>>}
=============================================================================
