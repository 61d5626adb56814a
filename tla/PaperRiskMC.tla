----------------------------- MODULE PaperRiskMC -----------------------------
(* Small instance of PaperRisk: two sessions over four days. The data of the  *)
(* first ends in a loss, small on the second day, large on the third; in that *)
(* of the second the instrument has no bar before the last day. One patch of  *)
(* the policy lets the account go on at a large drawdown but keep more cash,  *)
(* another stops it at a small drawdown. One percent of slippage is a whole   *)
(* tick at these prices.                                                      *)
EXTENDS PaperRisk, TLC

CONSTANT First

MCOpening == [s \in Sessions |-> IF s = First THEN <<2, 3, 2, 2>> ELSE <<0, 0, 0, 2>>]
MCClosing == [s \in Sessions |-> IF s = First THEN <<2, 2, 1, 1>> ELSE <<0, 0, 0, 1>>]
MCCosts == {3, 4}
MCSlippage == [side \in Sides |-> 1]
MCFeeRate == [BUY |-> 10, SELL |-> 20]
Tight == [notional |-> 8, exposure |-> 100, buffer |-> 50, loss |-> 40, drawdown |-> 40,
          orders |-> 2]
MCLimits == {Tight}
MCAsked == {[side |-> "BUY", quantity |-> 2], [side |-> "SELL", quantity |-> 2]}
MCChanges == {[drawdown |-> 90, buffer |-> 70], [drawdown |-> 10]}
MCStarts == [s \in Sessions |-> IF s = First THEN 0 ELSE 2]
Symmetric == Permutations(Clients)
=============================================================================
