--------------------------- MODULE PaperAccountMC ---------------------------
(* Two sessions of one account.  The first one's calendar is closed on the *)
(* second day and goes on after its replay ends; the other's ends with its *)
(* replay.                                                                 *)
EXTENDS PaperAccount

MCOpenDays   == [s1 |-> {1, 3, 4}, s2 |-> {1, 2, 3}]
MCReplayDays == [s1 |-> {1, 3}, s2 |-> {1, 2, 3}]
=============================================================================
