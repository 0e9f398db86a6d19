----------------------------- MODULE MCPlatform -----------------------------
(* Two dates, and instants around midnight and the scheduled hour: 23:50 of day
   0, 00:10 and 02:00 of day 1. *)
EXTENDS Platform

MCDates == {0, 1}
MCTimes == {Day - 10, Day + 10, Day + 120}
=============================================================================
