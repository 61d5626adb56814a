--------------------------- MODULE BacktestEngine ---------------------------
(***************************************************************************)
(* The daily loop of a backtest: BacktestEngine.run of backtest/engine.py, *)
(* the two strategies of strategies.py, the rules of rules.py and the      *)
(* execution kernel of execution/kernel.py, which paper trading shares.    *)
(*                                                                         *)
(* A step is a session of the calendar: its bars, which TLC chooses, the   *)
(* intents of the close before executed at its open, the valuation, and    *)
(* the strategy's intents at its close.  The tick of every instrument is   *)
(* 1, and money is counted in fractions 1/Unit of a tick so that a fee,    *)
(* whose rates are in the same fractions, is exact.  Every bar has a       *)
(* positive open and a positive close: no other is published.              *)
(***************************************************************************)
EXTENDS Integers, Sequences, FiniteSets, FiniteSetsExt, SequencesExt

CONSTANTS
  Instruments,    \* numbered in the order of their identifiers
  Sessions,       \* number of open sessions of the run
  Prices,         \* opens and closes
  Volumes,        \* what max_volume_participation allows of a bar's volume, or
  Unlimited,      \* ... the value for a run that has no such limit
  Limits,         \* whether an open is at a price limit: among "NONE", "UP" and "DOWN"
  LotSize, Unit,
  Commission, MinCommission, StampTax, TransferFee,  \* FeePolicy
  BuySlippage, SellSlippage,  \* SlippagePolicy, in 1/10000
  InitialCash,
  Strategy,       \* "BUY_AND_HOLD" or "TOP_N_MOMENTUM_ROTATION"
  Held,           \* BUY_AND_HOLD: its instrument
  Weight,         \* target_weight or target_gross_exposure, in 1/100
  Lookback, Every, TopN, MinMomentum  \* the rotation; the momentum in 1/100

VARIABLES
  day,      \* the sessions run so far
  cash,
  lots,     \* the open lots, in the order they were bought
  pending,  \* the intents of the latest close
  closes,   \* closes_history: of each instrument the closes so far
  fills     \* the fills so far

vars == <<day, cash, lots, pending, closes, fills>>

NoBar == [open |-> 0]
Bar == [open : Prices, close : Prices, volume : Volumes, limit : Limits]

-----------------------------------------------------------------------------
(* rules.py. *)

RoundLot(quantity) == (quantity \div LotSize) * LotSize

SumOf(S, f(_)) == FoldSet(LAMBDA i, total : f(i) + total, 0, S)

SellableOf(owned, i, today) ==
  SumOf({n \in DOMAIN owned : owned[n].instrument = i /\ owned[n].sellableFrom <= today},
        LAMBDA n : owned[n].remaining)

\* Slippage is rounded against the trader, to a tick.
FillPrice(side, open) ==
  IF side = "BUY" THEN - ((- open * (10000 + BuySlippage)) \div 10000)
                  ELSE (open * (10000 - SellSlippage)) \div 10000

Fee(side, quantity, price) ==
  LET amount == quantity * price IN
  Max({amount * Commission, MinCommission})
    + (IF side = "SELL" THEN amount * StampTax ELSE 0) + amount * TransferFee

\* validate_execution_price and round_price.
PriceRefused(side, bar) == \/ side = "BUY" /\ bar.limit = "UP"
                           \/ side = "SELL" /\ bar.limit = "DOWN"
                           \/ FillPrice(side, bar.open) <= 0

-----------------------------------------------------------------------------
(* ExecutionKernel.execute: what is filled of an intent, and at what price. *)

Rejected == [quantity |-> 0]

Execution(intent, bar, money, sellable) ==
  LET quantity == IF bar.volume = Unlimited THEN intent.quantity
                  ELSE Min({intent.quantity, RoundLot(bar.volume)})
      price == FillPrice(intent.side, bar.open)
      cost == quantity * price * Unit + Fee("BUY", quantity, price)
  IN IF \/ intent.side = "SELL" /\ intent.quantity > sellable
        \/ bar.volume # Unlimited /\ RoundLot(bar.volume) < LotSize
        \/ PriceRefused(intent.side, bar)
        \/ intent.side = "BUY" /\ cost > money
     THEN Rejected
     ELSE [quantity |-> quantity, price |-> price,
           fee |-> Fee(intent.side, quantity, price)]

-----------------------------------------------------------------------------
(* BacktestEngine.run. *)

Book == [cash |-> cash, lots |-> lots, fills |-> fills]

\* A buy opens a lot that can be sold from the next session on.
Opened(intent, filled, today) ==
  [instrument |-> intent.instrument, remaining |-> filled.quantity,
   sellableFrom |-> IF today < Sessions THEN today + 1 ELSE today]

\* One pending intent.  Without a bar it expires.
Executed(book, intent, bars, today) ==
  LET i == intent.instrument
      filled == IF bars[i] = NoBar THEN Rejected
                ELSE Execution(intent, bars[i], book.cash, SellableOf(book.lots, i, today))
      amount == filled.quantity * filled.price * Unit
      buys == intent.side = "BUY"
  IN IF filled = Rejected THEN book
     ELSE [cash |-> book.cash + (IF buys THEN - amount ELSE amount) - filled.fee,
           lots |-> IF buys THEN Append(book.lots, Opened(intent, filled, today)) ELSE book.lots,
           fills |-> Append(book.fills, [instrument |-> i, side |-> intent.side,
                                         quantity |-> filled.quantity, day |-> today])]

\* _market_value: at the latest close of each instrument.
MarketValue(owned, history) ==
  SumOf(DOMAIN owned, LAMBDA n : owned[n].remaining * Last(history[owned[n].instrument]) * Unit)

-----------------------------------------------------------------------------
(* strategies.py: the intents of a close. *)

Intent(side, i, quantity) == [side |-> side, instrument |-> i, quantity |-> quantity]

\* int(equity * weight / close) // lot_size * lot_size, of one of n parts.
Target(equity, n, close) == RoundLot((equity * Weight) \div (100 * n * close * Unit))

BuyAndHold(book, equity, bars, history) ==
  LET close == Last(history[Held])
      quantity == Target(equity, 1, close)
  IN IF \/ bars[Held] = NoBar
        \/ \E n \in DOMAIN book.lots : book.lots[n].instrument = Held
        \/ quantity <= 0 \/ quantity * close * Unit > book.cash
     THEN <<>> ELSE <<Intent("BUY", Held, quantity)>>

\* The momentum of an instrument is the quotient of these two closes, less 1.
Latest(history, i) == history[i][Len(history[i])]
Base(history, i) == history[i][Len(history[i]) - Lookback]

Ranked(history) ==
  {i \in Instruments : /\ Len(history[i]) > Lookback
                       /\ 100 * Latest(history, i) >= (100 + MinMomentum) * Base(history, i)}

Outranks(history, i, j) ==
  LET a == Latest(history, i) * Base(history, j)
      b == Latest(history, j) * Base(history, i)
  IN a > b \/ (a = b /\ i < j)

Selected(history) ==
  LET ranked == SetToSortSeq(Ranked(history), LAMBDA i, j : Outranks(history, i, j))
  IN SubSeq(ranked, 1, Min({TopN, Len(ranked)}))

\* A sale of every lot of an instrument that is no longer selected, then what
\* the selected ones lack of their target.
Rotation(book, equity, history, today) ==
  LET selected == Selected(history)
      leaves(lot) == /\ \A n \in DOMAIN selected : selected[n] # lot.instrument
                     /\ lot.sellableFrom <= today
      sales == LET leaving == SelectSeq(book.lots, leaves)
               IN [n \in DOMAIN leaving |->
                     Intent("SELL", leaving[n].instrument, leaving[n].remaining)]
      lacks(i) == Target(equity, Len(selected), Last(history[i]))
                    - SumOf({n \in DOMAIN book.lots : book.lots[n].instrument = i},
                            LAMBDA n : book.lots[n].remaining)
      wanted == SelectSeq(selected, LAMBDA i : lacks(i) > 0)
  IN IF today <= Lookback \/ (today - 1) % Every # 0 THEN <<>>
     ELSE sales \o [n \in DOMAIN wanted |-> Intent("BUY", wanted[n], lacks(wanted[n]))]

OnClose(book, bars, history, today) ==
  LET equity == book.cash + MarketValue(book.lots, history) IN
  IF today = Sessions THEN <<>>
  ELSE IF Strategy = "BUY_AND_HOLD" THEN BuyAndHold(book, equity, bars, history)
  ELSE Rotation(book, equity, history, today)

-----------------------------------------------------------------------------
Init == /\ day = 0
        /\ cash = InitialCash * Unit
        /\ lots = <<>> /\ pending = <<>> /\ fills = <<>>
        /\ closes = [i \in Instruments |-> <<>>]

Session(bars) ==
  LET today == day + 1
      history == [i \in Instruments |-> IF bars[i] = NoBar THEN closes[i]
                                        ELSE Append(closes[i], bars[i].close)]
      book == FoldLeft(LAMBDA b, intent : Executed(b, intent, bars, today), Book, pending)
  IN /\ day < Sessions
     /\ day' = today
     /\ closes' = history
     /\ cash' = book.cash /\ lots' = book.lots /\ fills' = book.fills
     \* A session without bars has no close.
     /\ pending' = IF \A i \in Instruments : bars[i] = NoBar THEN <<>>
                   ELSE OnClose(book, bars, history, today)

Next == \E bars \in [Instruments -> Bar \cup {NoBar}] : Session(bars)

Spec == Init /\ [][Next]_vars

-----------------------------------------------------------------------------
(* Properties. *)

Filled(side, i) == SumOf({n \in DOMAIN fills : fills[n].side = side /\ fills[n].instrument = i},
                         LAMBDA n : fills[n].quantity)

\* The rule of T+1 in rules.py and kernel.py, that a sale is refused when it
\* exceeds the holding that can be sold, means over a run that no more of an
\* instrument is sold than was bought.  Refuted: the loop adds lots and never
\* takes from one, so that the rotation sells the same lot at every close, is
\* paid for it each time and still values it.
SoldWithinHoldings == \A i \in Instruments : Filled("SELL", i) <= Filled("BUY", i)
=============================================================================
