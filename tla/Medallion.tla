------------------------------ MODULE Medallion ------------------------------
(***************************************************************************)
(* What the platform promises the readers of Gold, whatever runs, fails or *)
(* is repeated: Silver only grows, a partition of Gold is replaced as a    *)
(* whole, for a date none of whose checks ever failed, and its rows of     *)
(* that date are then exactly those of Silver and those a passing check of *)
(* the date has seen.  Of earlier dates it may have any rows.              *)
(***************************************************************************)
EXTENDS Clock

CONSTANTS Tables, Dates, Record

VARIABLES
  silver,   \* the rows of Silver
  checked,  \* per date, the rows the latest passing check of that date saw
  failed,   \* dates with a failed check
  gold      \* per table and date, the rows a partition is computed from

vars == <<silver, checked, failed, gold>>

OfDate(rows, d) == {r \in rows : DayOf(r.timestamp) = d}
UpTo(rows, d) == {r \in rows : DayOf(r.timestamp) <= d}

Init ==
  /\ silver = {} /\ failed = {}
  /\ checked = [d \in Dates |-> {}]
  /\ gold = [t \in Tables |-> [d \in Dates |-> {}]]

Grow ==
  /\ silver' \in SUBSET Record /\ silver \subseteq silver'
  /\ UNCHANGED <<checked, failed, gold>>

Pass(d) ==
  /\ OfDate(silver, d) # {}
  /\ checked' = [checked EXCEPT ![d] = OfDate(silver, d)]
  /\ UNCHANGED <<silver, failed, gold>>

Refuse(d) ==
  /\ OfDate(silver, d) # {}
  /\ failed' = failed \cup {d}
  /\ UNCHANGED <<silver, checked, gold>>

Publish(t, d) ==
  /\ d \notin failed
  /\ checked[d] # {} /\ checked[d] = OfDate(silver, d)
  /\ \E earlier \in SUBSET UpTo(silver, d - 1) :
       gold' = [gold EXCEPT ![t][d] = earlier \cup checked[d]]
  /\ UNCHANGED <<silver, checked, failed>>

Next ==
  \/ Grow
  \/ \E d \in Dates : Pass(d) \/ Refuse(d) \/ \E t \in Tables : Publish(t, d)

Spec == Init /\ [][Next]_vars
=============================================================================
