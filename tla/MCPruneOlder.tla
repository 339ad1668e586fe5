---------------------------- MODULE MCPruneOlder ----------------------------
(***************************************************************************)
(* A calendar of two years of two months of two days.  Dates 4 and 5 are   *)
(* moments of one day, in an hour that is repeated, so that they print the *)
(* same; other moments of one day are saves with the same date.            *)
(***************************************************************************)
EXTENDS PruneOlder

MCDates == 0..8
MCDay == [d \in MCDates |-> IF d > 4 THEN d - 1 ELSE d]
MCYday == [d \in MCDates |-> MCDay[d] % 4]
MCMon == [d \in MCDates |-> (MCDay[d] \div 2) % 2]
MCYear == [d \in MCDates |-> MCDay[d] \div 4]
MCLocalTime == MCDay
=============================================================================
