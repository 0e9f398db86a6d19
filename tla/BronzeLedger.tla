---------------------------- MODULE BronzeLedger ----------------------------
(***************************************************************************)
(* What the Bronze table promises ("append-only", "exactly-once", README): *)
(* each commit settles, for every Kafka partition, the next stretch of     *)
(* offsets, and adds at most one row for each of them.  Nothing is ever    *)
(* removed, and no stretch is settled twice.                               *)
(***************************************************************************)
EXTENDS Integers

CONSTANT Partition

VARIABLES
  bronze,    \* rows [partition, offset, version]; version is the Delta commit
  settled,   \* offsets below settled[p] are settled
  version    \* number of Delta commits

Init == bronze = {} /\ settled = [p \in Partition |-> 0] /\ version = 0

\* What a commit adds lies in the stretch it settles.
Append ==
  /\ settled' \in [Partition -> Nat]
  /\ \A p \in Partition : settled[p] <= settled'[p]
  /\ bronze \subseteq bronze'
  /\ \A r \in bronze' \ bronze :
       /\ r.version = version
       /\ settled[r.partition] <= r.offset /\ r.offset < settled'[r.partition]
  /\ version' = version + 1

\* Where the stream begins is decided when it is first started.
Begin ==
  /\ bronze = {} /\ version = 0
  /\ settled' \in [Partition -> Nat]
  /\ UNCHANGED <<bronze, version>>

Next == Append \/ Begin

Spec == Init /\ [][Next]_<<bronze, settled, version>>
=============================================================================
