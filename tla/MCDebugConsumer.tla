--------------------------- MODULE MCDebugConsumer ---------------------------
(* Two consumers, one of them limited to one message, and two partitions. *)
EXTENDS DebugConsumer, TLC

CONSTANTS c1, c2

MCMaxMessages == (c1 :> 0) @@ (c2 :> 1)
MCContent == <<<<"record", "record">>, <<"malformed", "poison">>>>
=============================================================================
