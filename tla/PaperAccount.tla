---------------------------- MODULE PaperAccount ----------------------------
(***************************************************************************)
(* The money and the holdings of one paper account, shared by its sessions *)
(* (_execute_pending, _apply_fill and the execution kernel).               *)
(*                                                                         *)
(* An advance runs in one BEGIN IMMEDIATE transaction: it executes the     *)
(* orders due at its day one after the other against what the earlier ones *)
(* left, and either commits or is rolled back whole.  tx keeps what a      *)
(* rollback goes back to.  Every session replays its own range of days, by *)
(* the calendar version it froze, which need not be that of the others.    *)
(*                                                                         *)
(* One instrument; prices are ticks, quantities are counted in lots.  An   *)
(* order that is rejected or expires changes none of this state and is     *)
(* left out, as PaperSession has it.                                       *)
(*                                                                         *)
(* A definition named after the one that follows it (EarlierByDay before   *)
(* Earlier) is a faulty variant: the run must fail when it takes the       *)
(* other's place.                                                          *)
(***************************************************************************)
EXTENDS Integers, FiniteSets, Functions

CONSTANTS
  Sessions,      \* sessions of the account
  LotIds,        \* ids a lot can be given; they say nothing of its age
  MaxDay,        \* bound: days are numbered from 1 to MaxDay
  OpenDays,      \* open days of the calendar each session froze
  ReplayDays,    \* those of them that the session replays
  InitialCash,
  Prices,        \* fill prices, after slippage
  Fees,          \* total fee of one fill
  MaxQuantity,   \* bound: largest order
  MaxFills       \* bound: fills of the account

ASSUME AccountAssumption ==
  /\ LotIds \subseteq Int
  /\ MaxDay \in Nat
  /\ OpenDays \in [Sessions -> SUBSET (1 .. MaxDay)]
  /\ ReplayDays \in [Sessions -> SUBSET (1 .. MaxDay)]
  /\ \A s \in Sessions : ReplayDays[s] \subseteq OpenDays[s]
  /\ InitialCash \in Nat /\ MaxQuantity \in Nat /\ MaxFills \in Nat
  /\ Prices \subseteq Nat \ {0}
  /\ Fees \subseteq Nat

VARIABLES
  day,        \* day each session has reached
  cash,       \* PaperAccountModel.cash
  lots,       \* PaperPositionLotModel rows
  realized,   \* PaperPositionModel.realized_pnl
  traded,     \* totals over the PaperFillModel rows
  tx          \* the open advance transaction, with what it started from

book == <<cash, lots, realized, traded>>
accountVars == <<day, book, tx>>

-----------------------------------------------------------------------------
Lot  == [id : LotIds, acquired : 1 .. MaxDay, sellableFrom : 1 .. MaxDay,
         quantity : 1 .. MaxQuantity, remaining : 0 .. MaxQuantity, cost : Prices]
Fills == [bought : Nat, sold : Nat, buyFees : Nat, count : 0 .. MaxFills]

NoTx == [open |-> FALSE]
Trading(s) == tx.open /\ tx.session = s

AccountTypeOK ==
  /\ day \in [Sessions -> 0 .. MaxDay]
  /\ cash \in Nat
  /\ lots \subseteq Lot
  /\ \A k, l \in lots : k.id = l.id => k = l
  /\ \A l \in lots : l.remaining <= l.quantity
  /\ realized \in Int
  /\ traded \in Fills
  /\ tx.open => tx.session \in Sessions

AccountInit ==
  /\ day = [s \in Sessions |-> 0]
  /\ cash = InitialCash
  /\ lots = {}
  /\ realized = 0
  /\ traded = [bought |-> 0, sold |-> 0, buyFees |-> 0, count |-> 0]
  /\ tx = NoTx

Held(set) == SumFunction([l \in set |-> l.remaining])

-----------------------------------------------------------------------------
(* _select_target. *)
FirstAfter(days, d, n) ==
  /\ n \in days
  /\ d < n
  /\ \A e \in days : d < e => n <= e

BeginAdvance(s) ==
  /\ ~tx.open
  /\ \E d \in ReplayDays[s] :
       /\ FirstAfter(ReplayDays[s], day[s], d)
       /\ tx' = [open |-> TRUE, session |-> s, day |-> d,
                 cash |-> cash, lots |-> lots, realized |-> realized, traded |-> traded]
  /\ UNCHANGED <<day, book>>

(* A lot can be sold from the next open day on of the buyer's calendar;    *)
(* its last day has no next one, and the lots of that day can be sold at   *)
(* once.                                                                   *)
SellableFrom(s, d, from) ==
  IF \E e \in OpenDays[s] : d < e THEN FirstAfter(OpenDays[s], d, from) ELSE from = d

(* The kernel refuses what the cash does not cover.                        *)
ExecuteBuy(s, q, p, fee) ==
  /\ Trading(s)
  /\ q * p + fee <= cash
  /\ cash' = cash - (q * p + fee)
  /\ \E id \in LotIds \ {l.id : l \in lots}, from \in OpenDays[s] :
       /\ SellableFrom(s, tx.day, from)
       /\ lots' = lots \cup {[id |-> id, acquired |-> tx.day, sellableFrom |-> from,
                              quantity |-> q, remaining |-> q, cost |-> p]}
  /\ traded' = [traded EXCEPT !.bought = @ + q, !.buyFees = @ + fee, !.count = @ + 1]
  /\ UNCHANGED <<day, realized, tx>>

SellableAll == lots
Sellable == {l \in lots : l.sellableFrom <= tx.day}

(* plan_sell_lot_consumption: every lot of the instrument, oldest first,   *)
(* then by id.                                                             *)
EarlierByDay(k, l) == k.acquired < l.acquired
Earlier(k, l) ==
  \/ k.acquired < l.acquired
  \/ k.acquired = l.acquired /\ k.id < l.id

Before(l) == Held({k \in lots : Earlier(k, l)})
Taken(l, q) ==
  IF q <= Before(l) THEN 0
  ELSE IF q - Before(l) <= l.remaining THEN q - Before(l)
  ELSE l.remaining

CostBasis(q) == SumFunction([l \in lots |-> Taken(l, q) * l.cost])

(* The order asks for r, of which the volume limit may leave q; T+1 is     *)
(* checked against r.                                                      *)
ExecuteSell(s, r, q, p, fee) ==
  /\ Trading(s)
  /\ r <= Held(Sellable)
  /\ q <= r
  /\ cash + q * p >= fee
  /\ cash' = cash + q * p - fee
  /\ lots' = {[l EXCEPT !.remaining = @ - Taken(l, q)] : l \in lots}
  /\ realized' = realized + q * p - CostBasis(q) - fee
  /\ traded' = [traded EXCEPT !.sold = @ + q, !.count = @ + 1]
  /\ UNCHANGED <<day, tx>>

(* NEGATIVE_CASH, or any later error of the advance. *)
Rollback ==
  /\ cash' = tx.cash
  /\ lots' = tx.lots
  /\ realized' = tx.realized
  /\ traded' = tx.traded

Abort(s) ==
  /\ Trading(s)
  /\ Rollback
  /\ tx' = NoTx
  /\ UNCHANGED day

Commit(s) ==
  /\ Trading(s)
  /\ day' = [day EXCEPT ![s] = tx.day]
  /\ tx' = NoTx
  /\ UNCHANGED book

Execute(s) ==
  /\ traded.count < MaxFills
  /\ \E q \in 1 .. MaxQuantity, p \in Prices, fee \in Fees :
       \/ ExecuteBuy(s, q, p, fee)
       \/ \E r \in 1 .. MaxQuantity : ExecuteSell(s, r, q, p, fee)

AccountNext == \E s \in Sessions : BeginAdvance(s) \/ Execute(s) \/ Commit(s) \/ Abort(s)

AccountSpec == AccountInit /\ [][AccountNext]_accountVars

-----------------------------------------------------------------------------
(* What was paid in, plus what was realized, less the fees of the          *)
(* purchases, is the cash plus the lots at cost.                           *)
AtCost(set) == SumFunction([l \in set |-> l.remaining * l.cost])
MoneyFollowsFills == cash + AtCost(lots) = InitialCash + realized - traded.buyFees

(* The lots hold exactly what was bought and not sold: a sale takes from   *)
(* them what it fills, no less and no more, however it is spread.          *)
HoldingsFollowFills == Held(lots) = traded.bought - traded.sold

(* No money and no share appears or vanishes, although cash, lots and      *)
(* realized result are three tables, each written from a computation of    *)
(* its own.                                                                *)
Conservation == MoneyFollowsFills /\ HoldingsFollowFills

Reduced(k, l) == k.id = l.id /\ l.remaining < k.remaining

(* The calendar of some session says nothing after this day. *)
CalendarEnds(d) ==
  \E s \in Sessions : d \in OpenDays[s] /\ \A e \in OpenDays[s] : e <= d

(* No sale touches a lot of a day that is still to come for its session,   *)
(* or of the same day unless a calendar of the account ends with it:       *)
(* although the quantity check adds up the sellable lots and the           *)
(* consumption takes from all, although another session may have bought on *)
(* days this one has not reached, and although the sessions' calendars     *)
(* disagree on when a lot can be sold.  And first in, first out: a sale    *)
(* touches a lot only when all older ones are used up by it.               *)
SalesRespectLots ==
  [][\A k \in lots, l \in lots' : Reduced(k, l) /\ tx'.open =>
       /\ k.acquired < tx.day \/ (k.acquired = tx.day /\ CalendarEnds(tx.day))
       /\ \A m \in lots' : m.acquired < k.acquired => m.remaining = 0]_accountVars

(***************************************************************************)
(* What the repository says and some behaviours refute.                    *)
(***************************************************************************)

(* A sale consumes sellable lots (execution/lots.py): lot by lot this      *)
(* fails when the calendars of two sessions differ, as the plan orders the *)
(* lots by age and takes an older one that cannot be sold yet in place of  *)
(* the younger one that was counted.                                       *)
OnlySellableTaken ==
  [][\A k \in lots, l \in lots' : Reduced(k, l) /\ tx'.open
       => k.sellableFrom <= tx.day]_accountVars
=============================================================================
