--------------------------- MODULE MCBronzeIngest ---------------------------
(* Two partitions of two records, read one at a time. *)
EXTENDS BronzeIngest

MCPartition == {0, 1}
=============================================================================
