--------------------------- MODULE PaperRiskProofs ---------------------------
(***************************************************************************)
(* Theorems about PaperRisk, for any sessions, prices, limits and intents: *)
(* types, what an account is worth, the sum of its daily results, and what *)
(* a close does at a loss and to a purchase.                               *)
(***************************************************************************)
EXTENDS PaperRisk, RecursionLemmas

-----------------------------------------------------------------------------
(* The orders of an advance.                                                *)

Account == [cash : Int, held : Nat]

LEMMA Product ==
  ASSUME NEW m \in Nat, NEW n \in Nat
  PROVE  m * n \in Nat
OBVIOUS

LEMMA Hundredth ==
  ASSUME NEW n \in Nat
  PROVE  n \div 100 \in Nat
OBVIOUS

LEMMA FillPriceType ==
  ASSUME RiskAssumption, NEW side \in Sides, NEW price \in Nat
  PROVE  FillPrice(side, price) \in Nat
<1>1. PICK slippage \in 0 .. 100 : slippage = Slippage[side]
  BY DEF RiskAssumption
<1>2. PICK more \in Nat, less \in Nat : more = 100 + slippage /\ less = 100 - slippage
  OBVIOUS
<1>3. PICK up, down : up = price * more /\ down = price * less
  OBVIOUS
<1>4. up \in Nat /\ down \in Nat
  BY <1>2, <1>3, Product
<1>5. (up + 99) \div 100 \in Nat /\ down \div 100 \in Nat
  BY <1>4, Hundredth
<1> QED
  BY <1>1, <1>2, <1>3, <1>5 DEF FillPrice

LEMMA FeeType ==
  ASSUME RiskAssumption, NEW side \in Sides, NEW amount \in Nat
  PROVE  Fee(side, amount) \in Nat
<1>1. FeeRate[side] \in Nat /\ LeastFee \in Nat
  BY DEF RiskAssumption
<1>2. PICK whole : whole = FeeRate[side] * amount
  OBVIOUS
<1>3. whole \in Nat
  BY <1>1, <1>2, Product
<1>4. whole \div 100 \in Nat
  BY <1>3, Hundredth
<1> QED
  BY <1>1, <1>2, <1>4 DEF Fee

LEMMA AmountType ==
  ASSUME RiskAssumption, NEW order \in Order, NEW price \in Nat
  PROVE  Amount(order, price) \in Nat /\ Charged(order, price) \in Nat
<1>1. order.side \in Sides /\ order.quantity \in Nat
  BY DEF Order
<1>2. FillPrice(order.side, price) \in Nat
  BY <1>1, FillPriceType
<1>3. Amount(order, price) \in Nat
  BY <1>1, <1>2, Product DEF Amount
<1> QED
  BY <1>1, <1>3, FeeType DEF Charged

LEMMA SettledType ==
  ASSUME RiskAssumption, NEW a \in Account, NEW order \in Order, NEW price \in Nat
  PROVE  Settled(a, order, price) \in Account
<1>1. PICK amount, charged : amount = Amount(order, price) /\ charged = Charged(order, price)
  OBVIOUS
<1>2. order.quantity \in Nat /\ amount \in Nat /\ charged \in Nat
  BY <1>1, AmountType DEF Order
<1>3. a.cash \in Int /\ a.held \in Nat
  BY DEF Account
<1>4. CASE order.side = "BUY" /\ price > 0 /\ amount + charged <= a.cash
  <2>1. Settled(a, order, price) = [cash |-> a.cash - amount - charged,
                                    held |-> a.held + order.quantity]
    BY <1>1, <1>4 DEF Settled
  <2> QED BY <1>2, <1>3, <2>1 DEF Account
<1>5. CASE order.side = "SELL" /\ price > 0 /\ order.quantity <= a.held
  <2>1. Settled(a, order, price) = [cash |-> a.cash + amount - charged,
                                    held |-> a.held - order.quantity]
    BY <1>1, <1>5 DEF Settled
  <2>2. a.cash + amount - charged \in Int /\ a.held - order.quantity \in Nat
    BY <1>2, <1>3, <1>5
  <2> QED BY <2>1, <2>2 DEF Account
<1>6. CASE /\ ~ (order.side = "BUY" /\ price > 0 /\ amount + charged <= a.cash)
           /\ ~ (order.side = "SELL" /\ price > 0 /\ order.quantity <= a.held)
  BY <1>1, <1>6 DEF Settled
<1> QED
  BY <1>4, <1>5, <1>6

Paid(a, s, fills, price, n) ==
  IF n \in fills THEN Settled(a, orders[s][n], price) ELSE a

AccountAfter(g, s, fills, price) ==
  g = [n \in 0 .. Len(orders[s]) |->
         IF n = 0 THEN [cash |-> cash, held |-> held]
         ELSE IF n \in fills THEN Settled(g[n - 1], orders[s][n], price)
         ELSE g[n - 1]]

LEMMA ExecutedIs ==
  ASSUME NEW s, NEW fills, NEW price
  PROVE  Executed(s, fills, price)
           = (CHOOSE g : AccountAfter(g, s, fills, price))[Len(orders[s])]
BY DEF Executed, AccountAfter

LEMMA AccountExists ==
  ASSUME RiskAssumption, [cash |-> cash, held |-> held] \in Account, NEW s, orders[s] \in Seq(Order),
         NEW fills, NEW price \in Nat
  PROVE  \E g : AccountAfter(g, s, fills, price)
<1>1. PICK N \in Nat : N = Len(orders[s])
  OBVIOUS
<1>2. PICK step : step = [n \in 1 .. N |-> [a \in Account |-> Paid(a, s, fills, price, n)]]
  OBVIOUS
<1>3. step \in [1 .. N -> [Account -> Account]]
  <2>1. \A n \in 1 .. N : orders[s][n] \in Order
    BY <1>1
  <2>2. \A n \in 1 .. N : \A a \in Account : Paid(a, s, fills, price, n) \in Account
    BY <2>1, SettledType DEF Paid
  <2> QED BY <1>2, <2>2
<1>4. PICK first : first = [cash |-> cash, held |-> held]
  OBVIOUS
<1>5. PICK g : Recurs(g, N, Account, first, step)
  <2>1. first \in Account
    BY <1>4
  <2> QED BY <1>1, <1>3, <2>1, RecursionExists
<1>6. \A n \in 1 .. N : g[n] = Paid(g[n - 1], s, fills, price, n)
  <2>1. \A n \in 1 .. N : g[n - 1] \in Account
    BY <1>5 DEF Recurs
  <2> QED BY <1>2, <1>5, <2>1 DEF Recurs
<1>7. \A n \in 0 .. N : g[n] = IF n = 0 THEN first ELSE Paid(g[n - 1], s, fills, price, n)
  BY <1>5, <1>6 DEF Recurs
<1>8. g = [n \in 0 .. N |-> IF n = 0 THEN first ELSE Paid(g[n - 1], s, fills, price, n)]
  BY <1>5, <1>7 DEF Recurs
<1> QED
  BY <1>1, <1>4, <1>8 DEF AccountAfter, Paid

(* What the orders leave, and what a lone one does. *)
LEMMA ExecutedType ==
  ASSUME RiskAssumption, [cash |-> cash, held |-> held] \in Account, NEW s, orders[s] \in Seq(Order),
         NEW fills, NEW price \in Nat
  PROVE  /\ Executed(s, fills, price) \in Account
         /\ Len(orders[s]) = 1 =>
              Executed(s, fills, price) = Paid([cash |-> cash, held |-> held], s, fills, price, 1)
<1>1. PICK g : g = CHOOSE h : AccountAfter(h, s, fills, price)
  OBVIOUS
<1>2. AccountAfter(g, s, fills, price) /\ Executed(s, fills, price) = g[Len(orders[s])]
  BY <1>1, AccountExists, ExecutedIs
<1>3. PICK N \in Nat : N = Len(orders[s])
  OBVIOUS
<1>4. PICK first : first = [cash |-> cash, held |-> held]
  OBVIOUS
<1>5. \A n \in 0 .. N : g[n] = IF n = 0 THEN first ELSE Paid(g[n - 1], s, fills, price, n)
  BY <1>2, <1>3, <1>4 DEF AccountAfter, Paid
<1>6. PICK Good : Good = {n \in 0 .. N : g[n] \in Account}
  OBVIOUS
<1>7. Good \in SUBSET (0 .. N) /\ 0 \in Good
  BY <1>4, <1>5, <1>6
<1>8. ASSUME NEW n \in 1 .. N, n - 1 \in Good PROVE n \in Good
  <2>1. orders[s][n] \in Order /\ g[n - 1] \in Account
    BY <1>3, <1>6, <1>8
  <2>2. g[n] = Paid(g[n - 1], s, fills, price, n)
    BY <1>5
  <2>3. Settled(g[n - 1], orders[s][n], price) \in Account
    BY <2>1, SettledType
  <2>4. g[n] \in Account
    BY <2>1, <2>2, <2>3 DEF Paid
  <2> QED BY <1>6, <2>4
<1>9. N \in Good
  <2>1. N \in 0 .. N
    OBVIOUS
  <2> QED BY <1>7, <1>8, <2>1, Induction
<1>10. N = 1 => g[N] = Paid(first, s, fills, price, 1)
  BY <1>5
<1> QED
  BY <1>2, <1>3, <1>4, <1>6, <1>9, <1>10

-----------------------------------------------------------------------------
(* The intents of a close.  A purchase it makes an order of respects the    *)
(* cash buffer on its own; at a loss there is none, and what was asked      *)
(* freezes the account.                                                     *)

GoodOrder == {order \in Order :
                order.side = "BUY" =>
                  100 * (order.cash - order.quantity * order.price) >= order.floor}

CloseState == [frozen : BOOLEAN, orders : Seq(GoodOrder)]

Ordered(limits, money, worth, intent, price) ==
  [side |-> intent.side, quantity |-> intent.quantity, cash |-> money,
   floor |-> limits.buffer * worth, price |-> price]

LEMMA OrderedType ==
  ASSUME NEW limits \in Limits, NEW money \in Int, NEW worth \in Nat, NEW price \in Nat \ {0},
         NEW intent \in Asked, RiskAssumption,
         intent.side = "BUY" => ~ BuyReasons(limits, money, worth, intent.quantity * price)
  PROVE  Ordered(limits, money, worth, intent, price) \in GoodOrder
<1>1. intent.side \in Sides /\ intent.quantity \in Nat \ {0}
  BY DEF RiskAssumption
<1>2. PICK floor : floor = limits.buffer * worth
  OBVIOUS
<1>3. limits.buffer \in Nat
  BY DEF Limits
<1>4. floor \in Nat
  BY <1>2, <1>3, Product
<1>5. PICK order : order = Ordered(limits, money, worth, intent, price)
  OBVIOUS
<1>6. order = [side |-> intent.side, quantity |-> intent.quantity, cash |-> money,
               floor |-> floor, price |-> price]
  BY <1>2, <1>5 DEF Ordered
<1>7. order \in Order
  BY <1>1, <1>4, <1>6 DEF Order
<1>8. PICK notional : notional = intent.quantity * price
  OBVIOUS
<1>9. notional \in Nat
  BY <1>1, <1>8, Product
<1>10. ASSUME order.side = "BUY" PROVE 100 * (order.cash - order.quantity * order.price) >= order.floor
  <2>1. ~ (100 * (money - notional) < floor)
    BY <1>2, <1>6, <1>8, <1>10 DEF BuyReasons
  <2>2. 100 * (money - notional) >= floor
    BY <1>4, <1>9, <2>1
  <2> QED BY <1>6, <1>8, <2>2
<1> QED
  BY <1>5, <1>7, <1>10 DEF GoodOrder

LEMMA JudgeType ==
  ASSUME NEW limits \in Limits, NEW snapshot, NEW money \in Int, NEW worth \in Int,
         NEW price \in Nat, NEW intent \in Asked, RiskAssumption,
         NEW close \in CloseState
  PROVE  LET next == Judge(close, intent, limits, snapshot, money, worth, price)
         IN /\ next \in CloseState
            /\ LossReasons(limits, snapshot) /\ close.orders = <<>>
                 => /\ next.orders = <<>>
                    /\ worth > 0 /\ price > 0 => next.frozen
<1>1. close.frozen \in BOOLEAN /\ close.orders \in Seq(GoodOrder)
  BY DEF CloseState
<1>2. PICK refused \in BOOLEAN :
        refused = Refused(limits, snapshot, money, worth, close.frozen, Len(close.orders),
                          intent, price)
  BY DEF Refused
<1>3. PICK freezes \in BOOLEAN :
        freezes = (Freezes(limits, snapshot, worth, price) /\ ~ close.frozen)
  OBVIOUS
<1>4. PICK kept : kept = IF freezes THEN <<>> ELSE close.orders
  OBVIOUS
<1>5. PICK next : next = Judge(close, intent, limits, snapshot, money, worth, price)
  OBVIOUS
<1>6. next = [frozen |-> close.frozen \/ freezes,
              orders |-> IF refused THEN kept
                         ELSE Append(kept, Ordered(limits, money, worth, intent, price))]
  BY <1>2, <1>3, <1>4, <1>5 DEF Judge, Ordered
<1>7. next.frozen = (close.frozen \/ freezes)
      /\ next.orders = IF refused THEN kept
                       ELSE Append(kept, Ordered(limits, money, worth, intent, price))
  BY <1>6
<1>8. kept \in Seq(GoodOrder)
  BY <1>1, <1>4
<1>9. ~ refused => Ordered(limits, money, worth, intent, price) \in GoodOrder
  <2>1. ~ refused => worth \in Nat /\ price \in Nat \ {0}
    BY <1>2 DEF Refused
  <2> QED BY <1>2, <2>1, OrderedType DEF Refused
<1>10. next.orders \in Seq(GoodOrder)
  BY <1>7, <1>8, <1>9
<1>11. next.frozen \in BOOLEAN
  BY <1>1, <1>3, <1>7
<1>12. next \in CloseState
  BY <1>6, <1>10, <1>11 DEF CloseState
<1>13. ASSUME LossReasons(limits, snapshot), close.orders = <<>>
       PROVE  /\ next.orders = <<>>
              /\ worth > 0 /\ price > 0 => next.frozen
  <2>1. refused
    BY <1>2, <1>13 DEF Refused
  <2>2. kept = <<>>
    BY <1>4, <1>13
  <2>3. next.orders = <<>>
    BY <1>7, <2>1, <2>2
  <2>4. worth > 0 /\ price > 0 => Freezes(limits, snapshot, worth, price)
    BY <1>13 DEF Freezes
  <2>5. worth > 0 /\ price > 0 => close.frozen \/ freezes
    BY <1>1, <1>3, <2>4
  <2> QED BY <1>7, <2>3, <2>5
<1> QED
  BY <1>5, <1>12, <1>13

CloseAfter(g, s, limits, snapshot, money, worth, price) ==
  g = [n \in 0 .. Len(intents[s]) |->
         IF n = 0 THEN [frozen |-> frozen, orders |-> <<>>]
         ELSE Judge(g[n - 1], intents[s][n], limits, snapshot, money, worth, price)]

LEMMA CloseIs ==
  ASSUME NEW s, NEW limits, NEW snapshot, NEW money, NEW worth, NEW price
  PROVE  Close(s, limits, snapshot, money, worth, price)
           = (CHOOSE g : CloseAfter(g, s, limits, snapshot, money, worth, price))[Len(intents[s])]
BY DEF Close, CloseAfter

LEMMA CloseExists ==
  ASSUME frozen \in BOOLEAN, NEW s, intents[s] \in Seq(Asked), RiskAssumption,
         NEW limits \in Limits, NEW snapshot, NEW money \in Int, NEW worth \in Int,
         NEW price \in Nat
  PROVE  \E g : CloseAfter(g, s, limits, snapshot, money, worth, price)
<1>1. PICK N \in Nat : N = Len(intents[s])
  OBVIOUS
<1>2. PICK step : step = [n \in 1 .. N |-> [close \in CloseState |->
                   Judge(close, intents[s][n], limits, snapshot, money, worth, price)]]
  OBVIOUS
<1>3. step \in [1 .. N -> [CloseState -> CloseState]]
  <2>1. \A n \in 1 .. N : intents[s][n] \in Asked
    BY <1>1
  <2>2. \A n \in 1 .. N : \A close \in CloseState :
          Judge(close, intents[s][n], limits, snapshot, money, worth, price) \in CloseState
    BY <2>1, JudgeType
  <2> QED BY <1>2, <2>2
<1>4. PICK first : first = [frozen |-> frozen, orders |-> <<>>]
  OBVIOUS
<1>5. PICK g : Recurs(g, N, CloseState, first, step)
  <2>1. <<>> \in Seq(GoodOrder)
    OBVIOUS
  <2>2. first \in CloseState
    BY <1>4, <2>1 DEF CloseState
  <2>3. N \in Nat
    BY <1>1
  <2> QED BY <1>3, <2>2, <2>3, RecursionExists
<1>6. \A n \in 1 .. N :
        g[n] = Judge(g[n - 1], intents[s][n], limits, snapshot, money, worth, price)
  <2>1. \A n \in 1 .. N : g[n - 1] \in CloseState
    BY <1>5 DEF Recurs
  <2> QED BY <1>2, <1>5, <2>1 DEF Recurs
<1>7. g = [n \in 0 .. N |->
             IF n = 0 THEN first
             ELSE Judge(g[n - 1], intents[s][n], limits, snapshot, money, worth, price)]
  BY <1>5, <1>6 DEF Recurs
<1>8. [n \in 0 .. N |->
             IF n = 0 THEN first
             ELSE Judge(g[n - 1], intents[s][n], limits, snapshot, money, worth, price)]
        = [n \in 0 .. Len(intents[s]) |->
             IF n = 0 THEN [frozen |-> frozen, orders |-> <<>>]
             ELSE Judge(g[n - 1], intents[s][n], limits, snapshot, money, worth, price)]
  BY <1>1, <1>4, Zenon
<1> QED
  BY <1>7, <1>8, Zenon DEF CloseAfter

(* What a close leaves. *)
LEMMA CloseType ==
  ASSUME frozen \in BOOLEAN, NEW s, intents[s] \in Seq(Asked), RiskAssumption,
         NEW limits \in Limits, NEW snapshot, NEW money \in Int, NEW worth \in Int,
         NEW price \in Nat
  PROVE  LET close == Close(s, limits, snapshot, money, worth, price)
         IN /\ close \in CloseState
            /\ LossReasons(limits, snapshot) /\ intents[s] # <<>>
                 => /\ close.orders = <<>>
                    /\ worth > 0 /\ price > 0 => close.frozen
<1>1. PICK g : g = CHOOSE h : CloseAfter(h, s, limits, snapshot, money, worth, price)
  OBVIOUS
<1>2. /\ CloseAfter(g, s, limits, snapshot, money, worth, price)
      /\ Close(s, limits, snapshot, money, worth, price) = g[Len(intents[s])]
  BY <1>1, CloseExists, CloseIs
<1>3. PICK N \in Nat : N = Len(intents[s])
  OBVIOUS
<1>4. PICK first : first = [frozen |-> frozen, orders |-> <<>>]
  OBVIOUS
<1>5. \A n \in 0 .. N :
        g[n] = IF n = 0 THEN first
               ELSE Judge(g[n - 1], intents[s][n], limits, snapshot, money, worth, price)
  BY <1>2, <1>3, <1>4 DEF CloseAfter
<1>6. PICK Empty, Stopped :
        /\ Empty = {c \in CloseState : c.orders = <<>>}
        /\ Stopped = {c \in CloseState : /\ c.orders = <<>>
                                         /\ worth > 0 /\ price > 0 => c.frozen = TRUE}
  OBVIOUS
<1>a. PICK allowed : allowed = [n \in 0 .. N |-> IF LossReasons(limits, snapshot)
                                                THEN IF n = 0 THEN Empty ELSE Stopped
                                                ELSE CloseState]
  OBVIOUS
<1>b. PICK Good : Good = {n \in 0 .. N : g[n] \in allowed[n]}
  OBVIOUS
<1>7. Good \in SUBSET (0 .. N) /\ 0 \in Good
  <2>1. <<>> \in Seq(GoodOrder)
    OBVIOUS
  <2>2. first \in CloseState /\ first.orders = <<>>
    BY <1>4, <2>1 DEF CloseState
  <2>3. 0 \in 0 .. N
    OBVIOUS
  <2>4. g[0] = first
    BY <1>5, <2>3, Zenon
  <2> QED BY <1>6, <1>a, <1>b, <2>2, <2>3, <2>4
<1>8. ASSUME NEW n \in 1 .. N, n - 1 \in Good PROVE n \in Good
  <2>1. intents[s][n] \in Asked
    BY <1>3
  <2>2. g[n] = Judge(g[n - 1], intents[s][n], limits, snapshot, money, worth, price)
    BY <1>5
  <2>3. g[n - 1] \in allowed[n - 1] /\ n - 1 \in 0 .. N /\ n \in 0 .. N /\ n # 0
    BY <1>b, <1>8
  <2>4. PICK close : close = g[n - 1]
    OBVIOUS
  <2>5. PICK next : next = Judge(close, intents[s][n], limits, snapshot, money, worth, price)
    OBVIOUS
  <2>6. close \in CloseState
    BY <1>6, <1>a, <2>3, <2>4
  <2>7. next \in CloseState
    BY <2>1, <2>5, <2>6, JudgeType
  <2>8. ASSUME LossReasons(limits, snapshot) PROVE next \in Stopped
    <3>1. close.orders = <<>>
      BY <1>6, <1>a, <2>3, <2>4, <2>8
    <3>2. next.orders = <<>> /\ (worth > 0 /\ price > 0 => next.frozen)
      BY <2>1, <2>5, <2>6, <2>8, <3>1, JudgeType
    <3>3. worth > 0 /\ price > 0 => next.frozen = TRUE
      BY <2>7, <3>2 DEF CloseState
    <3> QED BY <1>6, <2>7, <3>2, <3>3
  <2>9. next \in allowed[n]
    BY <1>a, <2>3, <2>7, <2>8
  <2>10. next = g[n]
    BY <2>2, <2>4, <2>5, Zenon
  <2> QED BY <1>b, <2>3, <2>9, <2>10
<1>9. N \in Good
  <2>1. N \in 0 .. N
    OBVIOUS
  <2> QED BY <1>7, <1>8, <2>1, Induction
<1>10. intents[s] # <<>> => N # 0
  BY <1>3
<1>11. g[N] \in allowed[N] /\ N \in 0 .. N
  BY <1>b, <1>9
<1>12. PICK close : close = Close(s, limits, snapshot, money, worth, price)
  OBVIOUS
<1>13. close = g[N]
  BY <1>2, <1>3, <1>12
<1>14. close \in CloseState
  BY <1>6, <1>11, <1>13, <1>a
<1>15. ASSUME LossReasons(limits, snapshot), intents[s] # <<>>
       PROVE  close.orders = <<>> /\ (worth > 0 /\ price > 0 => close.frozen)
  <2>1. close \in Stopped
    BY <1>10, <1>11, <1>13, <1>15, <1>a
  <2> QED BY <1>6, <2>1
<1> QED
  BY <1>12, <1>14, <1>15

-----------------------------------------------------------------------------
(* The marks of an account. *)

LEMMA MaxIs ==
  ASSUME NEW S, IsFiniteSet(S), S # {}, \A x \in S : x \in Int
  PROVE  Max(S) \in S /\ \A x \in S : Max(S) >= x
<1>0. PICK G : G = {U \in SUBSET S : \E x \in S : U = {y \in S : y >= x}}
  OBVIOUS
<1>a. \A x \in S : {y \in S : y >= x} \in G
  BY <1>0
<1>1. G \in SUBSET SUBSET S /\ G # {}
  BY <1>0, <1>a
<1>2. PICK U \in G : \A V \in G : V \subseteq U => V = U
  <2>1. G \in SUBSET SUBSET S
    BY <1>1
  <2>2. G # {}
    BY <1>1
  <2>3. IsFiniteSet(S)
    OBVIOUS
  <2> QED BY <2>1, <2>2, <2>3, SmallestSubset
<1>3. PICK x \in S : U = {y \in S : y >= x}
  BY <1>0
<1>4. ASSUME NEW z \in S PROVE x >= z
  <2>1. SUFFICES ASSUME z > x PROVE FALSE
    OBVIOUS
  <2>2. PICK V : V = {y \in S : y >= z}
    OBVIOUS
  <2>3. V \in G
    BY <1>a, <2>2
  <2>6. V \subseteq U
    <3>1. x \in Int /\ z \in Int
      OBVIOUS
    <3>2. ASSUME NEW y \in V PROVE y \in U
      <4>1. y \in S /\ y >= z
        BY <2>2
      <4>2. y \in Int
        BY <4>1
      <4>3. y >= x
        BY <2>1, <3>1, <4>1, <4>2
      <4> QED BY <1>3, <4>1, <4>3
    <3> QED BY <3>2
  <2>4. V = U
    BY <1>2, <2>3, <2>6
  <2>5. x \in U /\ x \notin V
    BY <1>3, <2>1, <2>2
  <2> QED BY <2>4, <2>5
<1> QED
  BY <1>4 DEF Max

LEMMA WorthsFinite ==
  ASSUME NEW rows \in Seq(Snapshot)
  PROVE  /\ IsFiniteSet({row.equity : row \in Range(rows)})
         /\ {row.equity : row \in Range(rows)} \in SUBSET Int
<1>1. PICK n \in Nat : n = Len(rows)
  OBVIOUS
<1>2. PICK T : T = {row.equity : row \in Range(rows)}
  OBVIOUS
<1>3. PICK f : f = [m \in 1 .. n |-> rows[m].equity]
  OBVIOUS
<1>4. \A m \in 1 .. n : rows[m] \in Range(rows)
  BY <1>1 DEF Range
<1>5. \A t \in T : \E m \in 1 .. n : f[m] = t
  BY <1>1, <1>2, <1>3 DEF Range
<1>6. f \in Surjection(1 .. n, T)
  BY <1>2, <1>3, <1>4, <1>5 DEF Surjection
<1>7. IsFiniteSet(1 .. n)
  BY FS_Interval
<1>8. IsFiniteSet(T)
  BY <1>6, <1>7, FS_Surjection
<1>9. \A row \in Range(rows) : row \in Snapshot
  BY DEF Range
<1>10. T \in SUBSET Int
  BY <1>2, <1>9 DEF Snapshot
<1> QED
  BY <1>2, <1>8, <1>10

Best(worth) == Max({InitialCash, worth} \cup {row.equity : row \in Range(snapshots)})

LEMMA BestType ==
  ASSUME snapshots \in Seq(Snapshot), RiskAssumption, NEW worth \in Int
  PROVE  Best(worth) \in Nat \ {0}
<1>1. PICK T : T = {row.equity : row \in Range(snapshots)}
  OBVIOUS
<1>2. IsFiniteSet(T) /\ T \in SUBSET Int
  BY <1>1, WorthsFinite
<1>3. PICK U : U = {InitialCash, worth} \cup T
  OBVIOUS
<1>4. IsFiniteSet({InitialCash} \cup ({worth} \cup T))
  BY <1>2, FS_Singleton, FS_Union
<1>5. U = {InitialCash} \cup ({worth} \cup T)
  BY <1>3
<1>6. IsFiniteSet(U)
  BY <1>4, <1>5
<1>7. U \in SUBSET Int /\ U # {} /\ InitialCash \in U /\ InitialCash \in Nat \ {0}
  BY <1>2, <1>3 DEF RiskAssumption
<1>8. Max(U) \in Int /\ Max(U) >= InitialCash
  BY <1>6, <1>7, MaxIs
<1>9. Max(U) \in Nat \ {0}
  BY <1>7, <1>8
<1> QED
  BY <1>1, <1>3, <1>9 DEF Best

MarkOf(d, worth, snapshot) ==
  /\ snapshot = [day |-> d, equity |-> worth, daily |-> snapshot.daily, peak |-> Best(worth)]
  /\ \E before \in Int :
       /\ snapshot.daily = worth - before
       /\ \/ snapshots = <<>> /\ before = InitialCash
          \/ snapshots # <<>> /\ \E row \in Latest(snapshots) : before = row.equity

LEMMA MarkIs ==
  ASSUME snapshots \in Seq(Snapshot), RiskAssumption, NEW d, NEW worth,
         NEW snapshot \in Marked(d, worth)
  PROVE  MarkOf(d, worth, snapshot)
<1>1. PICK best : best = Best(worth)
  OBVIOUS
<1>2. PICK before \in IF snapshots = <<>> THEN {InitialCash}
                      ELSE {row.equity : row \in Latest(snapshots)} :
        snapshot = [day |-> d, equity |-> worth, daily |-> worth - before, peak |-> best]
  BY <1>1 DEF Marked, Best
<1>3. \A row \in Range(snapshots) : row.equity \in Int
  <2>1. \A row \in Range(snapshots) : row \in Snapshot
    BY DEF Range
  <2> QED BY <2>1 DEF Snapshot
<1>4. before \in Int
  BY <1>2, <1>3 DEF Latest, RiskAssumption
<1>5. \/ snapshots = <<>> /\ before = InitialCash
      \/ snapshots # <<>> /\ \E row \in Latest(snapshots) : before = row.equity
  BY <1>2
<1>6. snapshot.daily = worth - before
      /\ snapshot = [day |-> d, equity |-> worth, daily |-> snapshot.daily, peak |-> best]
  BY <1>2
<1> QED
  BY <1>1, <1>4, <1>5, <1>6 DEF MarkOf

LEMMA MarkType ==
  ASSUME snapshots \in Seq(Snapshot), RiskAssumption, NEW d \in 1 .. LastDay,
         NEW worth \in Int, NEW snapshot, MarkOf(d, worth, snapshot)
  PROVE  snapshot \in Snapshot
<1>1. PICK best : best = Best(worth)
  OBVIOUS
<1>2. best \in Nat \ {0}
  BY <1>1, BestType
<1>3. snapshot = [day |-> d, equity |-> worth, daily |-> snapshot.daily, peak |-> best]
  BY <1>1 DEF MarkOf
<1>4. PICK before \in Int : snapshot.daily = worth - before
  BY DEF MarkOf
<1>5. snapshot.daily \in Int /\ snapshot.equity = worth
  BY <1>3, <1>4
<1> QED
  BY <1>2, <1>3, <1>5 DEF Snapshot

-----------------------------------------------------------------------------
(* What an advance does. *)

RiskInv ==
  /\ TypeOK
  /\ \A s \in Sessions : orders[s] \in Seq(GoodOrder)
  /\ ResultsAddUp

Ends(s, d, account, worth, snapshot) ==
  /\ d = day[s] + 1 /\ d \in 1 .. LastDay
  /\ account \in Account
  /\ worth \in Int
  /\ MarkOf(d, worth, snapshot)
  /\ snapshots' = Append(snapshots, snapshot)
  /\ cash' = account.cash /\ held' = account.held /\ equity' = worth
  /\ day' = [day EXCEPT ![s] = d]
  /\ intents' = [intents EXCEPT ![s] = <<>>]
  /\ UNCHANGED policyVars
  /\ frozen' \in BOOLEAN
  /\ \E left \in Seq(GoodOrder) : orders' = [orders EXCEPT ![s] = left]

LEMMA WorthType ==
  ASSUME NEW account \in Account, NEW price \in Nat
  PROVE  account.cash + account.held * price \in Int
<1>1. PICK market : market = account.held * price
  OBVIOUS
<1>2. account.cash \in Int /\ market \in Nat
  BY <1>1, Product DEF Account
<1> QED
  BY <1>1, <1>2

LEMMA MarkPriceType ==
  ASSUME RiskAssumption, NEW s \in Sessions, NEW d \in 1 .. LastDay, NEW mark \in MarkPrices(s, d)
  PROVE  mark \in Nat
BY DEF RiskAssumption, MarkPrices

AdvanceOf(s, d, fills, account, worth, snapshot) ==
  /\ account = Executed(s, fills, Opening[s][d])
  /\ \E mark \in MarkPrices(s, d) : worth = account.cash + account.held * mark
  /\ snapshot \in Marked(d, worth)
  /\ snapshots' = Append(snapshots, snapshot)
  /\ cash' = account.cash /\ held' = account.held /\ equity' = worth
  /\ IF intents[s] = <<>>
     THEN orders' = [orders EXCEPT ![s] = <<>>] /\ UNCHANGED frozen
     ELSE /\ Versions(Active) # <<>> /\ HasActive
          /\ \E seen \in Latest(snapshots') :
               \E close : /\ close = Close(s, Last(Versions(Active)), seen, account.cash, worth,
                                          Closing[s][d])
                          /\ frozen' = close.frozen
                          /\ orders' = [orders EXCEPT ![s] = close.orders]

LEMMA AdvanceIs ==
  ASSUME NEW s \in Sessions, Advance(s)
  PROVE  \E d, fills, account, worth, snapshot :
           /\ d = day[s] + 1 /\ d <= LastDay
           /\ day' = [day EXCEPT ![s] = d]
           /\ intents' = [intents EXCEPT ![s] = <<>>]
           /\ UNCHANGED policyVars
           /\ AdvanceOf(s, d, fills, account, worth, snapshot)
<1>1. PICK d : d = day[s] + 1
  OBVIOUS
<1>2. PICK fills \in SUBSET DOMAIN orders[s], mark \in MarkPrices(s, d) :
        \E snapshot : AdvanceOf(s, d, fills, Executed(s, fills, Opening[s][d]),
          Executed(s, fills, Opening[s][d]).cash + Executed(s, fills, Opening[s][d]).held * mark,
          snapshot)
  BY <1>1 DEF Advance, AdvanceOf
<1> QED
  BY <1>1, <1>2 DEF Advance

LEMMA InForce ==
  ASSUME policies \in Seq(Seq(Limits)), HasActive, Versions(Active) # <<>>
  PROVE  Last(Versions(Active)) \in Limits
<1>1. policies[1] \in Seq(Limits) /\ policies[1] # <<>>
  BY DEF HasActive, Versions, Active
<1> QED
  BY <1>1 DEF Last, Versions, Active

LEMMA AdvanceEnds ==
  ASSUME RiskInv, RiskAssumption, NEW s \in Sessions, NEW d, NEW fills, NEW account, NEW worth,
         NEW snapshot, d = day[s] + 1, d <= LastDay,
         day' = [day EXCEPT ![s] = d], intents' = [intents EXCEPT ![s] = <<>>],
         UNCHANGED policyVars, AdvanceOf(s, d, fills, account, worth, snapshot)
  PROVE  Ends(s, d, account, worth, snapshot)
<1>1. day[s] \in 0 .. LastDay /\ LastDay \in Nat
  BY DEF RiskInv, TypeOK, RiskAssumption
<1>2. d \in 1 .. LastDay
  BY <1>1
<1>3. Opening[s][d] \in Nat /\ Closing[s][d] \in Nat
  BY <1>2 DEF RiskAssumption
<1>4. [cash |-> cash, held |-> held] \in Account
  BY DEF RiskInv, TypeOK, Account
<1>5. orders[s] \in Seq(Order) /\ intents[s] \in Seq(Asked) /\ snapshots \in Seq(Snapshot)
      /\ frozen \in BOOLEAN /\ policies \in Seq(Seq(Limits))
  BY DEF RiskInv, TypeOK
<1>6. account \in Account
  BY <1>3, <1>4, <1>5, ExecutedType DEF AdvanceOf
<1>7. worth \in Int
  BY <1>2, <1>6, WorthType, MarkPriceType DEF AdvanceOf
<1>8. MarkOf(d, worth, snapshot)
  BY <1>5, MarkIs DEF AdvanceOf
<1>9. frozen' \in BOOLEAN /\ \E left \in Seq(GoodOrder) : orders' = [orders EXCEPT ![s] = left]
  <2>1. CASE intents[s] = <<>>
    <3>1. <<>> \in Seq(GoodOrder)
      OBVIOUS
    <3> QED BY <1>5, <2>1, <3>1 DEF AdvanceOf
  <2>2. CASE intents[s] # <<>>
    <3>1. PICK seen, close :
            /\ close = Close(s, Last(Versions(Active)), seen, account.cash, worth, Closing[s][d])
            /\ frozen' = close.frozen
            /\ orders' = [orders EXCEPT ![s] = close.orders]
      BY <2>2 DEF AdvanceOf
    <3>2. Last(Versions(Active)) \in Limits
      BY <1>5, <2>2, InForce DEF AdvanceOf
    <3>3. account.cash \in Int
      BY <1>6 DEF Account
    <3>4. close \in CloseState
      BY <1>3, <1>5, <1>7, <3>1, <3>2, <3>3, CloseType
    <3> QED BY <3>1, <3>4 DEF CloseState
  <2> QED BY <2>1, <2>2
<1> QED
  BY <1>2, <1>6, <1>7, <1>8, <1>9 DEF Ends, AdvanceOf

-----------------------------------------------------------------------------
(* The invariant is one. *)

LEMMA InitRisk ==
  ASSUME RiskAssumption, Init
  PROVE  RiskInv
<1>1. <<>> \in Seq(Seq(Limits)) /\ <<>> \in Seq(Snapshot) /\ <<>> \in Seq(Asked)
      /\ <<>> \in Seq(Order) /\ <<>> \in Seq(GoodOrder)
  OBVIOUS
<1>2. TypeOK
  <2>1. Starts \in [Sessions -> 0 .. LastDay] /\ InitialCash \in Nat
    BY DEF RiskAssumption
  <2>2. day \in [Sessions -> 0 .. LastDay]
    BY <2>1 DEF Init
  <2>3. intents \in [Sessions -> Seq(Asked)] /\ orders \in [Sessions -> Seq(Order)]
    BY <1>1 DEF Init
  <2>4. cash \in Int /\ held \in Nat /\ equity \in Int
    BY <2>1 DEF Init
  <2>5. frozen \in BOOLEAN
    BY DEF Init
  <2> QED BY <1>1, <2>2, <2>3, <2>4, <2>5 DEF Init, TypeOK, Idle
<1>4. DOMAIN snapshots = {}
  BY DEF Init
<1>5. ResultsAddUp
  BY <1>4 DEF ResultsAddUp
<1> QED
  BY <1>1, <1>2, <1>4, <1>5 DEF RiskInv, Init

\* The type of what the requests about policies change.
PolicyTypes ==
  /\ policies \in Seq(Seq(Limits))
  /\ call \in [Clients -> {Idle}
       \cup [at : {"policy"}, limits : LimitSets]
       \cup [at : {"version"}, policy : DOMAIN policies, limits : Limits]]

LEMMA CallAfter ==
  ASSUME PolicyTypes, RiskAssumption, NEW c \in Clients, NEW next,
         call' = [call EXCEPT ![c] = next], policies' \in Seq(Seq(Limits)),
         DOMAIN policies \subseteq DOMAIN policies',
         next \in {Idle} \cup [at : {"policy"}, limits : LimitSets]
                    \cup [at : {"version"}, policy : DOMAIN policies', limits : Limits]
  PROVE  PolicyTypes'
<1>1. PICK old, new :
        /\ old = {Idle} \cup [at : {"policy"}, limits : LimitSets]
                   \cup [at : {"version"}, policy : DOMAIN policies, limits : Limits]
        /\ new = {Idle} \cup [at : {"policy"}, limits : LimitSets]
                   \cup [at : {"version"}, policy : DOMAIN policies', limits : Limits]
  OBVIOUS
<1>2. old \subseteq new
  BY <1>1
<1>3. call' \in [Clients -> new]
  BY <1>1, <1>2 DEF PolicyTypes
<1> QED
  BY <1>1, <1>3 DEF PolicyTypes

LEMMA PatchedType ==
  ASSUME RiskAssumption, NEW limits \in Limits, NEW change \in Changes
  PROVE  Patched(limits, change) \in Limits
<1>1. \A limit \in DOMAIN change : change[limit] \in Nat
  BY DEF RiskAssumption
<1> QED
  BY <1>1 DEF Patched, Limits

\* The requests about policies leave the rest alone.
LEMMA PolicyStep ==
  ASSUME RiskAssumption, PolicyTypes, NEW c \in Clients,
         \/ \E limits \in LimitSets : PolicyCheck(c, limits)
         \/ PolicyInsert(c) \/ VersionInsert(c)
         \/ \E change \in Changes : PatchRead(c, change)
  PROVE  PolicyTypes' /\ UNCHANGED <<sessionVars, accountVars>>
<1>1. ASSUME NEW limits \in LimitSets, PolicyCheck(c, limits) PROVE PolicyTypes'
  BY <1>1, CallAfter DEF PolicyCheck, Goes, PolicyTypes
<1>2. CASE PolicyInsert(c)
  <2>1. call[c] \in [at : {"policy"}, limits : LimitSets]
    BY <1>2 DEF PolicyInsert, At, PolicyTypes, Idle
  <2>2. call[c].limits \in Limits
    BY <2>1 DEF RiskAssumption
  <2>3. <<>> \in Seq(Limits)
    OBVIOUS
  <2>4. policies' = Append(policies, <<>>) /\ policies \in Seq(Seq(Limits))
    BY <1>2 DEF PolicyInsert, PolicyTypes
  <2>5. /\ policies' \in Seq(Seq(Limits)) /\ DOMAIN policies \subseteq DOMAIN policies'
        /\ Len(policies) + 1 \in DOMAIN policies'
    BY <2>3, <2>4
  <2>6. [at |-> "version", policy |-> Len(policies) + 1, limits |-> call[c].limits]
          \in [at : {"version"}, policy : DOMAIN policies', limits : Limits]
    BY <2>2, <2>5
  <2> QED BY <1>2, <2>5, <2>6, CallAfter DEF PolicyInsert, Goes
<1>3. CASE VersionInsert(c)
  <2>1. call[c] \in [at : {"version"}, policy : DOMAIN policies, limits : Limits]
    BY <1>3 DEF VersionInsert, At, PolicyTypes, Idle
  <2>2. PICK p, limits : p = call[c].policy /\ limits = call[c].limits
    OBVIOUS
  <2>3. p \in DOMAIN policies /\ limits \in Limits
    BY <2>1, <2>2
  <2>4. policies' = [policies EXCEPT ![p] = Append(@, limits)] /\ policies \in Seq(Seq(Limits))
    BY <1>3, <2>2 DEF VersionInsert, PolicyTypes
  <2>5. policies[p] \in Seq(Limits)
    BY <2>3, <2>4
  <2>6. Append(policies[p], limits) \in Seq(Limits)
    BY <2>3, <2>5
  <2>7. policies' \in Seq(Seq(Limits)) /\ DOMAIN policies' = DOMAIN policies
    BY <2>3, <2>4, <2>6
  <2> QED BY <1>3, <2>7, CallAfter DEF VersionInsert, Returns, Goes
<1>4. ASSUME NEW change \in Changes, PatchRead(c, change) PROVE PolicyTypes'
  <2>1. Last(Versions(Active)) \in Limits
    BY <1>4, InForce DEF PatchRead, PolicyTypes
  <2>2. Patched(Last(Versions(Active)), change) \in Limits
    BY <2>1, PatchedType
  <2>3. Active \in DOMAIN policies
    BY <1>4 DEF PatchRead, HasActive, Active, PolicyTypes
  <2>4. policies' = policies /\ policies \in Seq(Seq(Limits))
    BY <1>4 DEF PatchRead, PolicyTypes
  <2> QED BY <1>4, <2>2, <2>3, <2>4, CallAfter DEF PatchRead, Goes
<1>5. UNCHANGED <<sessionVars, accountVars>>
  BY DEF PolicyCheck, PolicyInsert, VersionInsert, PatchRead
<1> QED
  BY <1>1, <1>2, <1>3, <1>4, <1>5

\* Steps that leave the account and what is ordered alone.
LEMMA KeepsRisk ==
  ASSUME RiskInv, PolicyTypes', UNCHANGED <<day, orders, snapshots, cash, held, equity>>,
         intents' \in [Sessions -> Seq(Asked)], frozen' \in BOOLEAN
  PROVE  RiskInv'
<1>1. TypeOK'
  BY DEF RiskInv, TypeOK, PolicyTypes
<1>2. ResultsAddUp'
  BY DEF RiskInv, ResultsAddUp
<1> QED
  BY <1>1, <1>2 DEF RiskInv

LEMMA NotBelow == \A a, b \in Int : b <= a => ~ (a < b)
OBVIOUS

\* What a mark adds to the sum of the daily results, in the order of the days.
LEMMA MarkAdds ==
  ASSUME RiskInv, RiskAssumption, NEW d \in 1 .. LastDay, NEW worth \in Int,
         NEW snapshot, MarkOf(d, worth, snapshot), snapshots' = Append(snapshots, snapshot)
  PROVE  ResultsAddUp'
<1>1. PICK n \in Nat : n = Len(snapshots)
  BY DEF RiskInv, TypeOK
<1>2. snapshots \in Seq(Snapshot) /\ snapshot \in Snapshot
  BY MarkType DEF RiskInv, TypeOK
<1>3. PICK rows : rows = Append(snapshots, snapshot)
  OBVIOUS
<1>4. rows \in Seq(Snapshot) /\ Len(rows) = n + 1 /\ rows[n + 1] = snapshot
      /\ \A m \in 1 .. n : rows[m] = snapshots[m]
  BY <1>1, <1>2, <1>3
<1>5. \A m \in 1 .. n + 1 : rows[m] \in Snapshot
  BY <1>4
<1>6. \A m \in 1 .. n + 1 : rows[m].daily \in Int /\ rows[m].equity \in Int
  BY <1>5 DEF Snapshot
<1>7. PICK daily : daily = [m \in 1 .. n + 1 |-> rows[m].daily]
  OBVIOUS
<1>8. snapshot.day = d /\ snapshot.equity = worth
  BY DEF MarkOf
<1>. DEFINE results(m) == SumFunctionOnSet(daily, 1 .. m)
<1>9. ASSUME NEW m \in 1 .. n + 1
      PROVE  SumFunction([k \in 1 .. m |-> rows[k].daily]) = results(m)
  <2>1. PICK part : part = [k \in 1 .. m |-> rows[k].daily]
    OBVIOUS
  <2>2. \A k \in 1 .. m : k \in 1 .. n + 1
    OBVIOUS
  <2>3. \A k \in 1 .. m : daily[k] \in Int /\ part[k] = daily[k]
    BY <1>6, <1>7, <2>1, <2>2
  <2>4. IsFiniteSet(1 .. m)
    BY FS_Interval
  <2>5. SumFunctionOnSet(part, 1 .. m) = SumFunctionOnSet(daily, 1 .. m)
    BY <2>3, <2>4, SumSame
  <2>6. DOMAIN part = 1 .. m
    BY <2>1
  <2> QED BY <2>1, <2>5, <2>6 DEF SumFunction
<1>. HIDE DEF results
<1>10. ASSUME \A l, m \in 1 .. n + 1 : l < m => rows[l].day < rows[m].day,
              NEW m \in 1 .. n + 1
       PROVE  rows[m].equity = InitialCash + SumFunction([k \in 1 .. m |-> rows[k].daily])
  <2>1. \A l, k \in 1 .. n : l < k => snapshots[l].day < snapshots[k].day
    <3>1. \A l \in 1 .. n : l \in 1 .. n + 1
      OBVIOUS
    <3> QED BY <1>4, <1>10, <3>1
  <2>2. ASSUME NEW k \in 1 .. n PROVE rows[k].equity = InitialCash + results(k)
    <3>1. k \in 1 .. n + 1 /\ DOMAIN snapshots = 1 .. n
      BY <1>1, <1>2
    <3>2. snapshots[k].equity = InitialCash + SumFunction([l \in 1 .. k |-> snapshots[l].daily])
      BY <2>1, <3>1 DEF RiskInv, ResultsAddUp
    <3>3. [l \in 1 .. k |-> snapshots[l].daily] = [l \in 1 .. k |-> rows[l].daily]
      <4>1. \A l \in 1 .. k : rows[l] = snapshots[l]
        BY <1>4
      <4> QED BY <4>1
    <3> QED BY <1>4, <1>9, <3>1, <3>2, <3>3
  <2>3. rows[n + 1].equity = InitialCash + results(n + 1)
    <3>1. IsFiniteSet(1 .. n) /\ n + 1 \notin 1 .. n /\ 1 .. n + 1 = (1 .. n) \cup {n + 1}
      <4>1. IsFiniteSet(1 .. n)
        BY FS_Interval
      <4>2. 1 .. n + 1 = (1 .. n) \cup {n + 1} /\ n + 1 \notin 1 .. n
        OBVIOUS
      <4> QED BY <4>1, <4>2
    <3>2. \A k \in 1 .. n + 1 : daily[k] \in Int
      BY <1>6, <1>7
    <3>3. SumFunctionOnSet(daily, (1 .. n) \cup {n + 1})
            = daily[n + 1] + SumFunctionOnSet(daily, 1 .. n)
      BY <3>1, <3>2, SumAdd
    <3>4. results(n + 1) = snapshot.daily + results(n)
      BY <1>4, <1>7, <3>1, <3>3 DEF results
    <3>5. PICK before \in Int :
            /\ snapshot.daily = worth - before
            /\ \/ snapshots = <<>> /\ before = InitialCash
               \/ snapshots # <<>> /\ \E row \in Latest(snapshots) : before = row.equity
      BY DEF MarkOf
    <3>6. before = InitialCash + results(n)
      <4>1. CASE snapshots = <<>>
        <5>1. n = 0 /\ 1 .. n = {}
          BY <1>1, <4>1
        <5>2. results(n) = 0
          BY <5>1, SumEmpty DEF results
        <5> QED BY <3>5, <4>1, <5>2 DEF RiskAssumption
      <4>2. CASE snapshots # <<>>
        <5>1. n \in 1 .. n
          BY <1>1, <1>2, <4>2
        <5>2. PICK row \in Latest(snapshots) : before = row.equity
          BY <3>5, <4>2
        <5>3. PICK k \in 1 .. n : row = snapshots[k]
          BY <1>1, <1>2, <5>2 DEF Latest, Range
        <5>4. snapshots[n] \in Range(snapshots)
          BY <1>1, <1>2, <5>1 DEF Range
        <5>5. snapshots[n].day <= snapshots[k].day
          BY <5>2, <5>3, <5>4 DEF Latest
        <5>6. snapshots[n].day \in Int /\ snapshots[k].day \in Int
          <6>1. snapshots[n] \in Snapshot /\ snapshots[k] \in Snapshot
            BY <1>1, <1>2, <5>1
          <6>2. \A r \in Snapshot : r.day \in Int
            BY DEF Snapshot
          <6> QED BY <6>1, <6>2, Zenon
        <5>7. k = n
          <6>1. k < n => snapshots[k].day < snapshots[n].day
            BY <2>1, <5>1, Zenon
          <6>2. ~ (snapshots[k].day < snapshots[n].day)
            BY <5>5, <5>6, NotBelow, Zenon
          <6> QED BY <6>1, <6>2
        <5>8. rows[n] = snapshots[n]
          BY <1>4, <5>1
        <5> QED BY <2>2, <5>1, <5>2, <5>3, <5>7, <5>8
      <4> QED BY <4>1, <4>2
    <3>7. results(n) = before - InitialCash /\ results(n) \in Int
      <4>1. results(n) \in Int
        <5>1. \A k \in 1 .. n : daily[k] \in Int
          BY <3>2
        <5> QED BY <3>1, <5>1, SumRemove DEF results
      <4> QED BY <3>6, <4>1 DEF RiskAssumption
    <3>8. rows[n + 1].equity = worth
      BY <1>4, <1>8
    <3> QED BY <3>4, <3>5, <3>7, <3>8 DEF RiskAssumption
  <2>4. m \in 1 .. n \/ m = n + 1
    OBVIOUS
  <2>5. rows[m].equity = InitialCash + results(m)
    BY <2>2, <2>3, <2>4
  <2> QED BY <1>9, <2>5
<1>11. snapshots' = rows /\ DOMAIN rows = 1 .. n + 1
  BY <1>3, <1>4
<1> QED
  BY <1>10, <1>11, Zenon DEF ResultsAddUp

LEMMA AdvanceKeeps ==
  ASSUME RiskInv, RiskAssumption, NEW s \in Sessions, NEW d, NEW account, NEW worth,
         NEW snapshot, Ends(s, d, account, worth, snapshot)
  PROVE  RiskInv'
<1>1. ResultsAddUp'
  BY MarkAdds DEF Ends
<1>2. snapshot \in Snapshot /\ d \in 1 .. LastDay
  BY MarkType DEF Ends, RiskInv, TypeOK
<1>3. snapshots' \in Seq(Snapshot)
  BY <1>2 DEF Ends, RiskInv, TypeOK
<1>5. PICK left \in Seq(GoodOrder) : orders' = [orders EXCEPT ![s] = left]
  BY DEF Ends
<1>6. Seq(GoodOrder) \subseteq Seq(Order)
  BY DEF GoodOrder
<1>7. orders' \in [Sessions -> Seq(Order)] /\ \A t \in Sessions : orders'[t] \in Seq(GoodOrder)
  BY <1>5, <1>6 DEF RiskInv, TypeOK
<1>8. account.cash \in Int /\ account.held \in Nat
  BY DEF Ends, Account
<1>9. day' \in [Sessions -> 0 .. LastDay]
  <2>1. d \in 0 .. LastDay
    BY <1>2 DEF RiskAssumption
  <2>2. day \in [Sessions -> 0 .. LastDay] /\ day' = [day EXCEPT ![s] = d]
    BY DEF Ends, RiskInv, TypeOK
  <2> QED BY <2>1, <2>2
<1>10. intents' \in [Sessions -> Seq(Asked)]
  <2>1. <<>> \in Seq(Asked)
    OBVIOUS
  <2> QED BY <2>1 DEF Ends, RiskInv, TypeOK
<1>11. PolicyTypes'
  BY DEF Ends, RiskInv, TypeOK, policyVars, PolicyTypes
<1>12. cash' \in Int /\ held' \in Nat /\ equity' \in Int /\ frozen' \in BOOLEAN
  BY <1>8 DEF Ends
<1>13. TypeOK'
  BY <1>3, <1>7, <1>9, <1>10, <1>11, <1>12 DEF TypeOK, PolicyTypes
<1> QED
  BY <1>1, <1>7, <1>13 DEF RiskInv

LEMMA StepRisk ==
  ASSUME RiskInv, RiskAssumption, [Next]_vars
  PROVE  RiskInv'
<1>1. PolicyTypes /\ intents \in [Sessions -> Seq(Asked)] /\ frozen \in BOOLEAN
  BY DEF RiskInv, TypeOK, PolicyTypes
<1>2. ASSUME NEW c \in Clients,
             \/ \E limits \in LimitSets : PolicyCheck(c, limits)
             \/ PolicyInsert(c) \/ VersionInsert(c)
             \/ \E change \in Changes : PatchRead(c, change)
      PROVE  RiskInv'
  <2>1. PolicyTypes' /\ UNCHANGED <<sessionVars, accountVars>>
    BY <1>1, <1>2, PolicyStep
  <2> QED BY <1>1, <2>1, KeepsRisk DEF sessionVars, accountVars
<1>3. CASE Crash
  <2>1. PolicyTypes'
    BY <1>1, <1>3 DEF Crash, PolicyTypes
  <2> QED BY <1>1, <1>3, <2>1, KeepsRisk DEF Crash, sessionVars, accountVars
<1>4. ASSUME NEW s \in Sessions, Advance(s) PROVE RiskInv'
  <2>1. PICK d, fills, account, worth, snapshot :
           /\ d = day[s] + 1 /\ d <= LastDay
           /\ day' = [day EXCEPT ![s] = d]
           /\ intents' = [intents EXCEPT ![s] = <<>>]
           /\ UNCHANGED policyVars
           /\ AdvanceOf(s, d, fills, account, worth, snapshot)
    BY <1>4, AdvanceIs
  <2>2. Ends(s, d, account, worth, snapshot)
    BY <2>1, AdvanceEnds
  <2> QED BY <2>2, AdvanceKeeps
<1>5. ASSUME NEW s \in Sessions, NEW intent \in Asked, Submit(s, intent) PROVE RiskInv'
  <2>1. intents' \in [Sessions -> Seq(Asked)]
    BY <1>1, <1>5 DEF Submit
  <2>2. PolicyTypes'
    BY <1>1, <1>5 DEF Submit, policyVars, PolicyTypes
  <2> QED BY <1>1, <1>5, <2>1, <2>2, KeepsRisk DEF Submit, accountVars
<1>6. ASSUME NEW to \in BOOLEAN, SetFrozen(to) PROVE RiskInv'
  <2>1. PolicyTypes'
    BY <1>1, <1>6 DEF SetFrozen, policyVars, PolicyTypes
  <2> QED BY <1>1, <1>6, <2>1, KeepsRisk DEF SetFrozen, sessionVars
<1>7. CASE UNCHANGED vars
  <2>1. PolicyTypes'
    BY <1>1, <1>7 DEF vars, policyVars, PolicyTypes
  <2> QED BY <1>1, <1>7, <2>1, KeepsRisk DEF vars, sessionVars, accountVars
<1> QED
  BY <1>2, <1>3, <1>4, <1>5, <1>6, <1>7 DEF Next


LEMMA RiskInvariant == Spec => []RiskInv
<1>1. Init => RiskInv
  BY InitRisk, RiskAssumption
<1>2. RiskInv /\ [Next]_vars => RiskInv'
  BY StepRisk, RiskAssumption
<1> QED
  BY <1>1, <1>2, PTL DEF Spec

-----------------------------------------------------------------------------
(* Which advance an action property is about. *)

LEMMA ReachedBy ==
  ASSUME RiskInv, RiskAssumption, [Next]_vars, NEW s \in Sessions, day'[s] # day[s]
  PROVE  \E d, fills, account, worth, snapshot :
           /\ AdvanceOf(s, d, fills, account, worth, snapshot)
           /\ Ends(s, d, account, worth, snapshot)
<1>1. day \in [Sessions -> 0 .. LastDay] /\ UNCHANGED day => day'[s] = day[s]
  BY DEF RiskInv, TypeOK
<1>2. ASSUME NEW t \in Sessions, Advance(t), t # s PROVE day'[s] = day[s]
  BY <1>2 DEF Advance, RiskInv, TypeOK
<1>3. Advance(s)
  <2>1. ~ UNCHANGED day
    BY <1>1 DEF RiskInv, TypeOK
  <2>2. ~ UNCHANGED vars /\ ~ UNCHANGED sessionVars
    BY <2>1 DEF vars, sessionVars
  <2>3. ~ Crash /\ \A to \in BOOLEAN : ~ SetFrozen(to)
    BY <2>2 DEF Crash, SetFrozen
  <2>4. \A c \in Clients : /\ \A limits \in LimitSets : ~ PolicyCheck(c, limits)
                           /\ ~ PolicyInsert(c) /\ ~ VersionInsert(c)
                           /\ \A change \in Changes : ~ PatchRead(c, change)
    BY <2>2 DEF PolicyCheck, PolicyInsert, VersionInsert, PatchRead
  <2>5. \A t \in Sessions : \A intent \in Asked : ~ Submit(t, intent)
    BY <2>1 DEF Submit
  <2> QED BY <1>2, <2>2, <2>3, <2>4, <2>5 DEF Next
<1>4. PICK d, fills, account, worth, snapshot :
        /\ d = day[s] + 1 /\ d <= LastDay
        /\ day' = [day EXCEPT ![s] = d]
        /\ intents' = [intents EXCEPT ![s] = <<>>]
        /\ UNCHANGED policyVars
        /\ AdvanceOf(s, d, fills, account, worth, snapshot)
  BY <1>3, AdvanceIs
<1>5. Ends(s, d, account, worth, snapshot)
  BY <1>4, AdvanceEnds
<1> QED
  BY <1>4, <1>5

LEMMA RangeAppend ==
  ASSUME NEW T, NEW rows \in Seq(T), NEW x \in T
  PROVE  Range(Append(rows, x)) = Range(rows) \cup {x}
<1>1. PICK n \in Nat : n = Len(rows)
  OBVIOUS
<1>2. PICK more : more = Append(rows, x)
  OBVIOUS
<1>3. DOMAIN more = 1 .. n + 1 /\ more[n + 1] = x /\ n + 1 \in 1 .. n + 1
      /\ \A m \in 1 .. n : more[m] = rows[m] /\ m \in 1 .. n + 1
  BY <1>1, <1>2
<1>4. \A m \in 1 .. n + 1 : m \in 1 .. n \/ m = n + 1
  OBVIOUS
<1>5. DOMAIN rows = 1 .. n
  BY <1>1
<1>6. ASSUME NEW y \in Range(more) PROVE y \in Range(rows) \cup {x}
  BY <1>3, <1>4, <1>5 DEF Range
<1>7. ASSUME NEW y \in Range(rows) \cup {x} PROVE y \in Range(more)
  BY <1>3, <1>5 DEF Range
<1> QED
  BY <1>2, <1>6, <1>7

\* A mark of a day later than all others is the one the close sees.
LEMMA SeesItsMark ==
  ASSUME RiskInv, RiskAssumption, NEW s \in Sessions, NEW d, NEW account, NEW worth, NEW snapshot,
         Ends(s, d, account, worth, snapshot),
         \A row \in Range(snapshots) : row.day < d,
         NEW seen \in Latest(snapshots')
  PROVE  seen = snapshot
<1>1. snapshots \in Seq(Snapshot) /\ snapshots' = Append(snapshots, snapshot)
  BY DEF Ends, RiskInv, TypeOK
<1>2. Range(snapshots') = Range(snapshots) \cup {snapshot}
  <2>1. snapshot \in Snapshot
    BY <1>1, MarkType DEF Ends
  <2> QED BY <1>1, <2>1, RangeAppend
<1>3. snapshot.day = d /\ d \in Int
  BY DEF Ends, MarkOf, RiskAssumption
<1>4. snapshot.day <= seen.day /\ seen \in Range(snapshots) \cup {snapshot}
  BY <1>2 DEF Latest
<1>5. ASSUME seen \in Range(snapshots) PROVE FALSE
  <2>1. seen \in Snapshot
    BY <1>1, <1>5 DEF Range
  <2>2. \A r \in Snapshot : r.day \in 1 .. LastDay
    BY DEF Snapshot
  <2>3. seen.day \in Int /\ seen.day < d
    BY <1>5, <2>1, <2>2
  <2> QED BY <1>3, <1>4, <2>3
<1> QED
  BY <1>4, <1>5

LEMMA LossCounts ==
  ASSUME NEW limits \in Limits, NEW before \in Nat \ {0}, NEW worth \in Int, NEW snapshot,
         snapshot.equity = worth, snapshot.daily = worth - before,
         100 * (before - worth) >= limits.loss * before
  PROVE  LossReasons(limits, snapshot)
<1>1. limits.loss \in Nat
  BY DEF Limits
<1>2. PICK least : least = limits.loss * before
  OBVIOUS
<1>3. least \in Nat
  BY <1>1, <1>2, Product
<1>4. snapshot.equity - snapshot.daily = before /\ - snapshot.daily = before - worth
  OBVIOUS
<1>5. PICK both : both = {0, - snapshot.daily}
  OBVIOUS
<1>6. IsFiniteSet({0} \cup {- snapshot.daily})
  BY FS_Singleton, FS_Union
<1>7. both = {0} \cup {- snapshot.daily}
  BY <1>5
<1>8. IsFiniteSet(both) /\ both # {} /\ - snapshot.daily \in both
  BY <1>5, <1>6, <1>7
<1>a. \A x \in both : x \in Int
  BY <1>4, <1>5
<1>b. Max(both) \in both /\ Max(both) >= - snapshot.daily
  BY <1>8, <1>a, MaxIs
<1>9. Max(both) \in Int /\ Max(both) >= before - worth
  BY <1>4, <1>a, <1>b
<1>10. 100 * Max(both) >= least
  BY <1>2, <1>3, <1>9
<1>11. AtLeast(Max(both), before, limits.loss)
  BY <1>2, <1>10 DEF AtLeast
<1>12. LossRatioBeyond(snapshot, limits.loss)
  BY <1>4, <1>5, <1>11 DEF LossRatioBeyond
<1> QED
  BY <1>12 DEF LossReasons

LEMMA LossStops ==
  ASSUME RiskInv, RiskAssumption, [Next]_vars, NEW s \in Sessions, day'[s] # day[s],
         intents[s] # <<>>, snapshots # <<>>,
         \A row \in Range(snapshots) : row.day < day'[s],
         \/ \A worth \in {row.equity : row \in {row \in Range(snapshots) :
                            \A other \in Range(snapshots) : other.day <= row.day}} :
              worth > 0 /\ 100 * (worth - equity') >= Last(Versions(Active)).loss * worth
         \/ 100 * (Max({InitialCash} \cup {row.equity : row \in Range(snapshots')}) - equity')
              >= Last(Versions(Active)).drawdown
                   * Max({InitialCash} \cup {row.equity : row \in Range(snapshots')})
  PROVE  /\ orders'[s] = <<>>
         /\ equity' > 0 /\ Closing[s][day'[s]] > 0 => frozen'
<1>1. PICK d, fills, account, worth, snapshot :
        /\ AdvanceOf(s, d, fills, account, worth, snapshot)
        /\ Ends(s, d, account, worth, snapshot)
  BY ReachedBy
<1>2. day'[s] = d /\ d \in 1 .. LastDay
  BY <1>1 DEF Ends, RiskInv, TypeOK
<1>3. PICK seen, close :
        /\ seen \in Latest(snapshots')
        /\ close = Close(s, Last(Versions(Active)), seen, account.cash, worth, Closing[s][d])
        /\ frozen' = close.frozen
        /\ orders' = [orders EXCEPT ![s] = close.orders]
  BY <1>1 DEF AdvanceOf
<1>4. seen = snapshot
  BY <1>1, <1>2, <1>3, SeesItsMark
<1>5. PICK limits : limits = Last(Versions(Active))
  OBVIOUS
<1>6. limits \in Limits
  BY <1>1, <1>5, InForce DEF AdvanceOf, RiskInv, TypeOK
<1>7. worth \in Int /\ equity' = worth /\ MarkOf(d, worth, snapshot)
      /\ snapshots' = Append(snapshots, snapshot) /\ account.cash \in Int
  BY <1>1 DEF Ends, Account
<1>8. snapshots \in Seq(Snapshot) /\ intents[s] \in Seq(Asked) /\ frozen \in BOOLEAN
      /\ orders \in [Sessions -> Seq(Order)]
  BY DEF RiskInv, TypeOK
<1>9. LossReasons(limits, snapshot)
  <2>1. CASE \A w \in {row.equity : row \in {row \in Range(snapshots) :
                            \A other \in Range(snapshots) : other.day <= row.day}} :
              w > 0 /\ 100 * (w - equity') >= limits.loss * w
    <3>1. PICK before \in Int :
            /\ snapshot.daily = worth - before
            /\ \E row \in Latest(snapshots) : before = row.equity
      BY <1>7 DEF MarkOf
    <3>2. before > 0 /\ 100 * (before - equity') >= limits.loss * before
      BY <2>1, <3>1 DEF Latest
    <3>3. snapshot.equity = worth /\ snapshot.daily = worth - before
      BY <1>7, <3>1 DEF MarkOf
    <3>4. worth \in Int /\ before \in Nat \ {0}
      BY <1>7, <3>1, <3>2
    <3>5. 100 * (before - worth) >= limits.loss * before
      BY <1>7, <3>2, Zenon
    <3> QED BY <1>6, <3>3, <3>4, <3>5, LossCounts, Zenon
  <2>2. CASE 100 * (Max({InitialCash} \cup {row.equity : row \in Range(snapshots')}) - equity')
              >= limits.drawdown
                   * Max({InitialCash} \cup {row.equity : row \in Range(snapshots')})
    <3>1. snapshot.equity = worth /\ snapshot.peak = Best(worth)
      <4>1. PICK best : best = Best(worth)
        OBVIOUS
      <4>2. snapshot = [day |-> d, equity |-> worth, daily |-> snapshot.daily, peak |-> best]
        BY <1>7, <4>1 DEF MarkOf
      <4> QED BY <4>1, <4>2
    <3>2. Range(snapshots') = Range(snapshots) \cup {snapshot}
      <4>1. snapshot \in Snapshot
        BY <1>2, <1>7, <1>8, MarkType
      <4> QED BY <1>7, <1>8, <4>1, RangeAppend
    <3>3. {InitialCash} \cup {row.equity : row \in Range(snapshots')}
            = {InitialCash, worth} \cup {row.equity : row \in Range(snapshots)}
      BY <3>1, <3>2
    <3>4. Max({InitialCash} \cup {row.equity : row \in Range(snapshots')}) = snapshot.peak
      BY <3>1, <3>3 DEF Best
    <3>5. 100 * (snapshot.peak - snapshot.equity) >= limits.drawdown * snapshot.peak
      BY <1>7, <2>2, <3>1, <3>4
    <3> QED BY <3>5 DEF LossReasons, DrawdownBeyond, AtLeast
  <2> QED BY <1>5, <2>1, <2>2
<1>10. Closing[s][d] \in Nat
  BY <1>2 DEF RiskAssumption
<1>11. close = Close(s, limits, snapshot, account.cash, worth, Closing[s][d])
  BY <1>3, <1>4, <1>5
<1>12. close.orders = <<>> /\ (worth > 0 /\ Closing[s][d] > 0 => close.frozen)
  BY <1>6, <1>7, <1>8, <1>9, <1>10, <1>11, CloseType
<1> QED
  BY <1>2, <1>3, <1>7, <1>8, <1>12

\* A session that leads its account stops at a loss, whatever the policies, the
\* prices and the steps of the other sessions: it leaves no order, and freezes
\* the account if it has a close to judge an intent by (paper/service.py
\* _mark_to_market, _close_phase, risk.py).
THEOREM LossesStopTrading == Spec => LossStopsTrading
<1>1. RiskInv /\ [Next]_vars =>
       [\A s \in Sessions :
         LET limits == Last(Versions(Active))
             best == Max({InitialCash} \cup {row.equity : row \in Range(snapshots')})
             ahead == \A row \in Range(snapshots) : row.day < day'[s]
             before == {row.equity : row \in {row \in Range(snapshots) :
                          \A other \in Range(snapshots) : other.day <= row.day}}
             lost == \/ \A worth \in before :
                          worth > 0 /\ 100 * (worth - equity') >= limits.loss * worth
                     \/ 100 * (best - equity') >= limits.drawdown * best
         IN day'[s] # day[s] /\ intents[s] # <<>> /\ snapshots # <<>> /\ ahead /\ lost
              => /\ orders'[s] = <<>>
                 /\ equity' > 0 /\ Closing[s][day'[s]] > 0 => frozen']_vars
  BY LossStops, RiskAssumption, Zenon
<1> QED
  BY <1>1, RiskInvariant, PTL DEF Spec, LossStopsTrading

LEMMA Cheaper ==
  ASSUME NEW quantity \in Nat, NEW low \in Nat, NEW high \in Nat, low <= high
  PROVE  quantity * low <= quantity * high
OBVIOUS

\* Slippage never makes a purchase cheaper than the open.
LEMMA SlippageCosts ==
  ASSUME RiskAssumption, NEW order \in Order, order.side = "BUY", NEW open \in Nat
  PROVE  Amount(order, open) >= order.quantity * open
<1>1. PICK slippage \in Nat : slippage = Slippage["BUY"]
  BY DEF RiskAssumption, Sides
<1>2. PICK slipped : slipped = open * slippage
  OBVIOUS
<1>3. slipped \in Nat
  BY <1>2, Product
<1>4. open * (100 + slippage) = 100 * open + slipped
  BY <1>2
<1>5. PICK price : price = FillPrice("BUY", open)
  OBVIOUS
<1>6. price = (100 * open + slipped + 99) \div 100
  BY <1>1, <1>4, <1>5 DEF FillPrice
<1>7. price \in Nat /\ open <= price
  BY <1>3, <1>6
<1>8. order.quantity \in Nat
  BY DEF Order
<1>9. order.quantity * open <= order.quantity * price
  BY <1>7, <1>8, Cheaper
<1> QED
  BY <1>5, <1>9, <1>8, <1>7 DEF Amount

LEMMA BuyKeeps ==
  ASSUME RiskInv, RiskAssumption, [Next]_vars, NEW s \in Sessions, day'[s] # day[s],
         Len(orders[s]) = 1, orders[s][1].side = "BUY", orders[s][1].cash = cash,
         Opening[s][day'[s]] <= orders[s][1].price
  PROVE  LET order == orders[s][1]
             open == Opening[s][day'[s]]
             slipped == Amount(order, open) - order.quantity * open
         IN 100 * cash' >= order.floor - 100 * (slipped + Charged(order, open))
<1>1. PICK d, fills, account, worth, snapshot :
        /\ AdvanceOf(s, d, fills, account, worth, snapshot)
        /\ Ends(s, d, account, worth, snapshot)
  BY ReachedBy
<1>2. day'[s] = d /\ d \in 1 .. LastDay /\ cash' = account.cash
  BY <1>1 DEF Ends, RiskInv, TypeOK
<1>3. PICK open \in Nat : open = Opening[s][d]
  BY <1>2 DEF RiskAssumption
<1>4. [cash |-> cash, held |-> held] \in Account /\ orders[s] \in Seq(Order)
  BY DEF RiskInv, TypeOK, Account
<1>5. account = Paid([cash |-> cash, held |-> held], s, fills, open, 1)
  BY <1>1, <1>3, <1>4, ExecutedType DEF AdvanceOf
<1>6. PICK order \in GoodOrder : order = orders[s][1]
  <2>1. orders[s] \in Seq(GoodOrder)
    BY DEF RiskInv
  <2> QED BY <2>1
<1>7. order.quantity \in Nat /\ order.price \in Nat /\ order.floor \in Nat /\ cash \in Int
      /\ order \in Order
  BY DEF GoodOrder, Order, RiskInv, TypeOK
<1>8. PICK amount, charged : amount = Amount(order, open) /\ charged = Charged(order, open)
  OBVIOUS
<1>9. PICK plain, least : plain = order.quantity * open /\ least = order.quantity * order.price
  OBVIOUS
<1>10. amount \in Nat /\ charged \in Nat
  BY <1>7, <1>8, AmountType
<1>11. plain \in Nat /\ least \in Nat /\ plain <= least
  BY <1>2, <1>3, <1>6, <1>7, <1>9, Cheaper, Product
<1>12. 100 * (cash - least) >= order.floor
  BY <1>6, <1>9 DEF GoodOrder
<1>13. account.cash = cash \/ account.cash = cash - amount - charged
  <2>1. PICK before : before = [cash |-> cash, held |-> held]
    OBVIOUS
  <2>2. Settled(before, order, open)
          = IF open > 0 /\ amount + charged <= before.cash
            THEN [cash |-> before.cash - amount - charged, held |-> before.held + order.quantity]
            ELSE before
    BY <1>6, <1>8 DEF Settled
  <2>3. account = before \/ account = Settled(before, order, open)
    BY <1>5, <1>6, <2>1 DEF Paid
  <2>4. before.cash = cash
    BY <2>1
  <2> QED BY <2>2, <2>3, <2>4
<1>14. amount - plain + charged >= 0
  <2>1. amount >= plain
    BY <1>6, <1>7, <1>8, <1>9, SlippageCosts
  <2> QED BY <1>10, <1>11, <2>1
<1>15. 100 * account.cash >= order.floor - 100 * (amount - plain + charged)
  BY <1>7, <1>10, <1>11, <1>12, <1>13, <1>14
<1> QED
  BY <1>2, <1>3, <1>6, <1>8, <1>9, <1>15

\* A purchase approved alone leaves the cash buffer it was approved with, but for
\* the fee and the slippage of its fill, when it executes at an open no higher
\* than the close it was judged at (risk.py, paper/execution.py, paper/service.py:1071).
THEOREM LoneBuysKeepTheBuffer == Spec => LoneBuyKeepsBuffer
<1>1. RiskInv /\ [Next]_vars =>
       [\A s \in Sessions :
         day'[s] # day[s] /\ Len(orders[s]) = 1 =>
           LET order == orders[s][1]
               open == Opening[s][day'[s]]
               slipped == Amount(order, open) - order.quantity * open
           IN order.side = "BUY" /\ order.cash = cash /\ open <= order.price
                => 100 * cash' >= order.floor - 100 * (slipped + Charged(order, open))]_vars
  BY BuyKeeps, RiskAssumption, Zenon
<1> QED
  BY <1>1, RiskInvariant, PTL DEF Spec, LoneBuyKeepsBuffer

\* The daily results add up to what was won, over the marks of any number of
\* sessions (_mark_to_market).
THEOREM DailyResultsAddUp == Spec => []ResultsAddUp
<1>1. RiskInv => ResultsAddUp
  BY DEF RiskInv
<1> QED
  BY <1>1, RiskInvariant, PTL

=============================================================================
