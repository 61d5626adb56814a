--------------------------- MODULE MarketProfileMC --------------------------
(* Small instance of MarketProfile: two calendars of the same time zone,     *)
(* three days and two instruments.  The files: three days of which the last  *)
(* is closed, the first day only, a day that comes twice and a closed day    *)
(* with times.                                                               *)
EXTENDS MarketProfile, TLC

Symmetric == Permutations(Clients) \cup Permutations(Calendars)

Row(day, open, timed) == [day |-> day, open |-> open, timed |-> timed, legible |-> TRUE]
Whole == <<Row(2, TRUE, "both"), Row(1, TRUE, "both"), Row(3, FALSE, "none")>>
Twice == <<Row(1, TRUE, "both"), Row(1, FALSE, "none")>>
Timed == <<Row(1, FALSE, "both")>>
MCFiles == {Whole, <<Row(1, TRUE, "both")>>, Twice, Timed}

\* Two versions of a dataset and one of another.
MCVersions == {"v1", "v2", "w1"}
MCOwner == [v \in MCVersions |-> IF v = "w1" THEN "e" ELSE "d"]
MCBars == [v1 |-> {<<1, 1>>, <<1, 2>>, <<2, 1>>, <<2, 3>>},
           v2 |-> {<<1, 1>>, <<1, 2>>, <<1, 3>>, <<2, 2>>},
           w1 |-> {<<1, 2>>}]
=============================================================================
