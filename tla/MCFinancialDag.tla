--------------------------- MODULE MCFinancialDag ---------------------------
(* Two runs, for the same date or for different ones. *)
EXTENDS FinancialDag

MCDates == {1, 2}
=============================================================================
