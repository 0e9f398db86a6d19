------------------------------ MODULE Generator ------------------------------
(***************************************************************************)
(* data_generator/transactions.py: the lists generate_transactions() may   *)
(* return.  Of a record the fields that can be null, the key and the late  *)
(* flag are kept; the random choices of the other fields are left out.     *)
(***************************************************************************)
EXTENDS Clock, FiniteSets

CONSTANTS
  NoValue,       \* None
  Ids,           \* uuid4() never returns one of them twice
  Accounts, Customers, Amounts,
  DUPLICATE_PCT  \* config/settings.py: DUPLICATE_RATE, in percent

ASSUME GeneratorAssumption ==
  /\ NoValue \notin Ids /\ NoValue \notin Customers
  /\ NoValue \notin Amounts /\ NoValue \notin Int
  /\ DUPLICATE_PCT \in Nat

NullableField == {"transaction_id", "customer_id", "amount", "timestamp"}

\* 0 to 59 seconds before `now` - the same minute, or the one before - and 10 to
\* 45 minutes earlier for a late arrival.
EventTime(now, late) == IF late THEN now - 46 .. now - 10 ELSE now - 1 .. now

InjectNull(record) == {[record EXCEPT ![f] = NoValue] : f \in NullableField}

IsBaseTransaction(r, now) ==
  /\ DOMAIN r = NullableField \cup {"account_id", "_is_late_arrival"}
  /\ r.transaction_id \in Ids /\ r.account_id \in Accounts
  /\ r.customer_id \in Customers /\ r.amount \in Amounts
  /\ r._is_late_arrival \in BOOLEAN
  /\ r.timestamp \in EventTime(now, r._is_late_arrival)

\* At most one of the fields of a record is null.
IsRecord(r, now) ==
  \E base \in [transaction_id : Ids, account_id : Accounts, customer_id : Customers,
               amount : Amounts, timestamp : now - 46 .. now, _is_late_arrival : BOOLEAN] :
    IsBaseTransaction(base, now) /\ r \in {base} \cup InjectNull(base)

DuplicateCount(count) == (count * DUPLICATE_PCT) \div 100

\* `count` records and the copies, deep and anywhere after the shuffle.
GenerateTransactions(list, count, now) ==
  /\ DOMAIN list = 1..count + DuplicateCount(count)
  /\ \A i \in DOMAIN list : IsRecord(list[i], now)
  /\ \E records \in SUBSET DOMAIN list :
       /\ Cardinality(records) = count
       /\ \A i, j \in records :
            i # j /\ list[i].transaction_id # NoValue => list[i].transaction_id # list[j].transaction_id
       /\ \A i \in DOMAIN list \ records : \E j \in records : list[i] = list[j]
=============================================================================
