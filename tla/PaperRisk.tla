----------------------------- MODULE PaperRisk ------------------------------
(***************************************************************************)
(* Risk control over an account whose sessions replay the same days, each  *)
(* at its own pace (paper/risk.py, risk_service.py, policy_service.py and  *)
(* the close of an advance in paper/service.py).                           *)
(*                                                                         *)
(* An advance is one step: it holds the write lock from its first read to  *)
(* its commit.  The requests about policies read in one transaction and    *)
(* write in another, and the process may die in between.                   *)
(*                                                                         *)
(* One instrument.  Limits, fees and slippage that are ratios are          *)
(* percentages.  Each session reads prices of its own version of the data. *)
(* Which due order the market lets execute is a choice, as in PaperAccount *)
(* that has the lots; that an order is due at the next day of its session, *)
(* and the life of sessions, are those of PaperSession.  The limit price   *)
(* of a manual intent, which only its estimate takes into account, is left *)
(* out.  Two statements that race for a version number cost the later      *)
(* request an error: they are taken as one.                                *)
(*                                                                         *)
(* A definition named after the one that follows it is a faulty variant.   *)
(***************************************************************************)
EXTENDS Integers, Sequences, FiniteSets, FiniteSetsExt, SequencesExt

CONSTANTS
  Sessions,
  Clients,      \* requests about risk policies in progress
  Starts,       \* the day before the first one each session replays
  LastDay,
  Opening,      \* the open of each day in the data of each session, 0 without a bar
  Closing,      \* the last valid close of each day in its data, 0 before there is one
  Costs,        \* what the average cost of the position may be
  Slippage,     \* of each side
  LeastFee,     \* the least commission of a fill
  FeeRate,      \* of each side: what its commission and taxes come to
  InitialCash,
  Asked,        \* the intents that are submitted: a side and a quantity
  LimitSets,    \* the limits that policies are created with
  Changes,      \* what patches change: functions from some limits to values
  MaxVersions,  \* bound: versions of all policies
  MaxIntents    \* bound: intents a session has waiting

Sides == {"BUY", "SELL"}
LimitNames == {"notional", "exposure", "buffer", "loss", "drawdown", "orders"}
Limits == [notional : Nat, exposure : Nat, buffer : Nat, loss : Nat, drawdown : Nat,
           orders : Nat]

ASSUME RiskAssumption ==
  /\ LastDay \in Nat /\ Starts \in [Sessions -> 0 .. LastDay]
  /\ Opening \in [Sessions -> [1 .. LastDay -> Nat]]
  /\ Closing \in [Sessions -> [1 .. LastDay -> Nat]]
  /\ Costs \subseteq Nat
  /\ Slippage \in [Sides -> 0 .. 100] /\ FeeRate \in [Sides -> Nat] /\ LeastFee \in Nat
  /\ InitialCash \in Nat \ {0}
  /\ Asked \subseteq [side : Sides, quantity : Nat \ {0}]
  /\ LimitSets \subseteq Limits
  /\ \A change \in Changes : /\ DOMAIN change \subseteq LimitNames
                              /\ \A limit \in DOMAIN change : change[limit] \in Nat
  /\ MaxVersions \in Nat /\ MaxIntents \in Nat

VARIABLES
  policies,     \* PaperRiskPolicyModel of the account, each ACTIVE: its versions
  call,         \* the policy request each client is in
  day,          \* the day each session has reached
  intents,      \* the intents of each that wait for the next close
  orders,       \* its SUBMITTED orders
  cash, held, equity, frozen,   \* PaperAccountModel and its position
  snapshots     \* PaperAccountSnapshotModel of the account, as they are created

accountVars == <<cash, held, equity, frozen>>
sessionVars == <<day, intents, orders, snapshots>>
policyVars == <<policies, call>>
vars == <<policyVars, sessionVars, accountVars>>

-----------------------------------------------------------------------------
Idle == [at |-> "idle"]

Init == /\ policies = <<>> /\ call = [c \in Clients |-> Idle]
        /\ day = Starts
        /\ intents = [s \in Sessions |-> <<>>]
        /\ orders = [s \in Sessions |-> <<>>]
        /\ cash = InitialCash /\ held = 0 /\ equity = InitialCash
        /\ frozen = FALSE
        /\ snapshots = <<>>

At(c, step) == call[c].at = step
Goes(c, next) == call' = [call EXCEPT ![c] = next]
Returns(c) == Goes(c, Idle)

-----------------------------------------------------------------------------
(* Policies. *)

\* A select without an order: SQLite gives the rows in the order of their insertion.
HasActive == policies # <<>>
Active == 1
Versions(p) == policies[p]
Written == FoldLeft(LAMBDA n, versions : n + Len(versions), 0, policies)

\* create_policy looks for an active policy, ...
PolicyCheck(c, limits) ==
  /\ At(c, "idle") /\ ~ HasActive
  /\ Goes(c, [at |-> "policy", limits |-> limits])
  /\ UNCHANGED <<policies, sessionVars, accountVars>>

\* ... inserts one in a transaction, ...
PolicyInsert(c) ==
  /\ At(c, "policy")
  /\ policies' = Append(policies, <<>>)
  /\ Goes(c, [at |-> "version", policy |-> Len(policies) + 1, limits |-> call[c].limits])
  /\ UNCHANGED <<sessionVars, accountVars>>

\* ... and its first version in another.
VersionInsert(c) ==
  /\ At(c, "version") /\ Written < MaxVersions
  /\ policies' = [policies EXCEPT ![call[c].policy] = Append(@, call[c].limits)]
  /\ Returns(c)
  /\ UNCHANGED <<sessionVars, accountVars>>

\* patch_version takes from the latest version what the request leaves out.
Patched(limits, change) ==
  [limit \in DOMAIN limits |-> IF limit \in DOMAIN change THEN change[limit] ELSE limits[limit]]

PatchRead(c, change) ==
  /\ At(c, "idle") /\ HasActive /\ Versions(Active) # <<>>
  /\ Goes(c, [at |-> "version", policy |-> Active,
              limits |-> Patched(Last(Versions(Active)), change)])
  /\ UNCHANGED <<policies, sessionVars, accountVars>>

Crash == /\ call' = [c \in Clients |-> Idle]
         /\ UNCHANGED <<policies, sessionVars, accountVars>>

-----------------------------------------------------------------------------
(* The pure part: ratios and reasons. *)

AtLeast(part, whole, percent) == 100 * part >= percent * whole
Over(part, whole, percent) == 100 * part > percent * whole

\* Without a snapshot both ratios are zero, and so they are on a gain.
LossRatioBeyond(snapshot, percent) ==
  LET before == snapshot.equity - snapshot.daily
      loss == Max({0, - snapshot.daily})
  IN IF before > 0 THEN AtLeast(loss, before, percent) ELSE AtLeast(0, 1, percent)
DrawdownBeyond(snapshot, percent) ==
  AtLeast(snapshot.peak - snapshot.equity, snapshot.peak, percent)

\* The two limits that freeze the account.
LossReasonsDaily(limits, snapshot) == LossRatioBeyond(snapshot, limits.loss)
LossReasons(limits, snapshot) == \/ LossRatioBeyond(snapshot, limits.loss)
                                 \/ DrawdownBeyond(snapshot, limits.drawdown)

\* What only a purchase is held against.  With one instrument the weight of
\* the position is the exposure of the account: exposure is the lower limit.
BuyReasonsSpent(limits, money, worth, notional) ==
  \/ 100 * money < limits.buffer * worth
  \/ Over(worth - money + notional, worth, limits.exposure)
BuyReasons(limits, money, worth, notional) ==
  \/ 100 * (money - notional) < limits.buffer * worth
  \/ Over(worth - money + notional, worth, limits.exposure)

-----------------------------------------------------------------------------
(* One advance. *)

\* Slippage is rounded to the tick, against the account.
FillPrice(side, price) ==
  IF side = "BUY" THEN (price * (100 + Slippage[side]) + 99) \div 100
  ELSE (price * (100 - Slippage[side])) \div 100

Fee(side, amount) ==
  LET rated == (FeeRate[side] * amount) \div 100 IN IF rated < LeastFee THEN LeastFee ELSE rated

\* What an order moves when it executes at an open, and what fees take of it.
Amount(order, price) == order.quantity * FillPrice(order.side, price)
Charged(order, price) == Fee(order.side, Amount(order, price))

\* An order executes against what the earlier ones left, when the market and
\* the money let it.  The fee of a sale may take more than the sale brings.
Settled(account, order, price) ==
  CASE /\ order.side = "BUY" /\ price > 0
       /\ Amount(order, price) + Charged(order, price) <= account.cash ->
         [cash |-> account.cash - Amount(order, price) - Charged(order, price),
          held |-> account.held + order.quantity]
    [] order.side = "SELL" /\ price > 0 /\ order.quantity <= account.held ->
         [cash |-> account.cash + Amount(order, price) - Charged(order, price),
          held |-> account.held - order.quantity]
    [] OTHER -> account

Executed(s, fills, price) ==
  LET after[n \in 0 .. Len(orders[s])] ==
        IF n = 0 THEN [cash |-> cash, held |-> held]
        ELSE IF n \in fills THEN Settled(after[n - 1], orders[s][n], price)
        ELSE after[n - 1]
  IN after[Len(orders[s])]

\* ORDER BY session_date DESC LIMIT 1: any of the last day, and without one nothing.
LatestOfFirst(rows) == {Head(rows)}
Latest(rows) ==
  {row \in Range(rows) : \A other \in Range(rows) : other.day <= row.day}

\* _mark_to_market: the last valid close, and without one what the position cost.
MarkPrices(s, d) == IF Closing[s][d] > 0 THEN {Closing[s][d]} ELSE Costs

Marked(d, worth) ==
  {[day |-> d, equity |-> worth, daily |-> worth - before,
    peak |-> Max({InitialCash, worth} \cup {row.equity : row \in Range(snapshots)})]
   : before \in IF snapshots = <<>> THEN {InitialCash}
                ELSE {row.equity : row \in Latest(snapshots)}}

\* The reasons of RiskEngine.evaluate, against the account as it was marked.
Refused(limits, snapshot, money, worth, stopped, open, intent, price) ==
  LET notional == intent.quantity * price
  IN \/ worth <= 0 \/ price <= 0
     \/ stopped
     \/ notional > limits.notional
     \/ intent.side = "BUY" /\ BuyReasons(limits, money, worth, notional)
     \/ open >= limits.orders
     \/ LossReasons(limits, snapshot)

Freezes(limits, snapshot, worth, price) ==
  worth > 0 /\ price > 0 /\ LossReasons(limits, snapshot)

\* One intent of the close; cash and exposure stay those of the mark.  A
\* freeze cancels what the session has pending, unless the account was frozen
\* before.
Judge(close, intent, limits, snapshot, money, worth, price) ==
  LET refused == Refused(limits, snapshot, money, worth, close.frozen, Len(close.orders),
                         intent, price)
      freezes == Freezes(limits, snapshot, worth, price) /\ ~ close.frozen
      kept == IF freezes THEN <<>> ELSE close.orders
  IN [frozen |-> close.frozen \/ freezes,
      orders |-> IF refused THEN kept
                 ELSE Append(kept, [side |-> intent.side, quantity |-> intent.quantity,
                                    cash |-> money, floor |-> limits.buffer * worth,
                                    price |-> price])]

\* The close judges the intents of the session one after the other.
Close(s, limits, snapshot, money, worth, price) ==
  LET after[n \in 0 .. Len(intents[s])] ==
        IF n = 0 THEN [frozen |-> frozen, orders |-> <<>>]
        ELSE Judge(after[n - 1], intents[s][n], limits, snapshot, money, worth, price)
  IN after[Len(intents[s])]

\* Without a version of the policy the advance is refused, and nothing changes.
Advance(s) ==
  LET d == day[s] + 1 IN
  /\ d <= LastDay
  /\ \E fills \in SUBSET DOMAIN orders[s], mark \in MarkPrices(s, d) :
       LET account == Executed(s, fills, Opening[s][d])
           worth == account.cash + account.held * mark
       IN \E snapshot \in Marked(d, worth) :
            /\ snapshots' = Append(snapshots, snapshot)
            /\ cash' = account.cash /\ held' = account.held /\ equity' = worth
            /\ IF intents[s] = <<>>
               THEN orders' = [orders EXCEPT ![s] = <<>>] /\ UNCHANGED frozen
               ELSE /\ HasActive /\ Versions(Active) # <<>>
                    /\ \E seen \in Latest(snapshots') :
                         LET close == Close(s, Last(Versions(Active)), seen,
                                            account.cash, worth, Closing[s][d])
                         IN /\ frozen' = close.frozen
                            /\ orders' = [orders EXCEPT ![s] = close.orders]
  /\ day' = [day EXCEPT ![s] = d]
  /\ intents' = [intents EXCEPT ![s] = <<>>]
  /\ UNCHANGED policyVars

\* A manual intent, or one the strategy adds at the close.
Submit(s, intent) ==
  /\ day[s] < LastDay /\ Len(intents[s]) < MaxIntents
  /\ intents' = [intents EXCEPT ![s] = Append(@, intent)]
  /\ UNCHANGED <<policyVars, day, orders, snapshots, accountVars>>

\* freeze_account and unfreeze_account, by the user.
SetFrozen(to) == /\ frozen' = to
                 /\ UNCHANGED <<policyVars, sessionVars, cash, held, equity>>

-----------------------------------------------------------------------------
Next == \/ \E c \in Clients : \/ \E limits \in LimitSets : PolicyCheck(c, limits)
                              \/ PolicyInsert(c) \/ VersionInsert(c)
                              \/ \E change \in Changes : PatchRead(c, change)
        \/ Crash
        \/ \E s \in Sessions : \/ Advance(s)
                               \/ \E intent \in Asked : Submit(s, intent)
        \/ \E to \in BOOLEAN : SetFrozen(to)

Spec == Init /\ [][Next]_vars

-----------------------------------------------------------------------------
Order == [side : Sides, quantity : Nat \ {0}, cash : Int, floor : Nat, price : Nat \ {0}]
Snapshot == [day : 1 .. LastDay, equity : Int, daily : Int, peak : Nat \ {0}]

TypeOK ==
  /\ policies \in Seq(Seq(Limits))
  /\ call \in [Clients -> {Idle}
       \cup [at : {"policy"}, limits : LimitSets]
       \cup [at : {"version"}, policy : DOMAIN policies, limits : Limits]]
  /\ day \in [Sessions -> 0 .. LastDay]
  /\ intents \in [Sessions -> Seq(Asked)]
  /\ orders \in [Sessions -> Seq(Order)]
  /\ cash \in Int /\ held \in Nat /\ equity \in Int /\ frozen \in BOOLEAN
  /\ snapshots \in Seq(Snapshot)

\* A session that is ahead of all others of its account stops at a loss: when
\* the close is marked beyond a limit of the active policy, measured from each
\* mark of the last day before it, or from the best one there ever was in any
\* session, no order is left or made; and if anything was asked for the account
\* is frozen, unless it is worth nothing or the session knows no close, where
\* risk control refuses before it looks at the loss (paper/service.py
\* _mark_to_market, _close_phase, risk.py).  A session that is behind is judged
\* by the mark of another, and has no such promise.
LossStopsTrading ==
  [][\A s \in Sessions :
       LET limits == Last(Versions(Active))
           best == Max({InitialCash} \cup {row.equity : row \in Range(snapshots')})
           ahead == \A row \in Range(snapshots) : row.day < day'[s]
           before == {row.equity : row \in {row \in Range(snapshots) :
                        \A other \in Range(snapshots) : other.day <= row.day}}
           lost == \/ \A worth \in before :
                        worth > 0 /\ 100 * (worth - equity') >= limits.loss * worth
                   \/ 100 * (best - equity') >= limits.drawdown * best
       IN day'[s] # day[s] /\ intents[s] # <<>> /\ snapshots # <<>> /\ ahead /\ lost
            => /\ orders'[s] = <<>>
               /\ equity' > 0 /\ Closing[s][day'[s]] > 0 => frozen']_vars

\* While each mark of an account is of a later day than the one before, the
\* daily results add up to what was won since the account was opened, whichever
\* sessions made the marks (_mark_to_market).
ResultsAddUp ==
  (\A m, n \in DOMAIN snapshots : m < n => snapshots[m].day < snapshots[n].day) =>
     \A n \in DOMAIN snapshots :
       snapshots[n].equity =
         InitialCash + SumFunction([m \in 1 .. n |-> snapshots[m].daily])

\* A purchase approved at a close respects the cash buffer when it executes a
\* day later, but for the fee and the slippage of its fill, if no other order
\* executes with it, the cash is what it was and the open is not above the
\* close it was judged at: the estimate leaves both out (risk.py, estimated_fee
\* at paper/service.py:1071, PaperExecutionEngine).  Purchases approved
\* together have no such promise: each is judged as if it were alone.
LoneBuyKeepsBuffer ==
  [][\A s \in Sessions :
       day'[s] # day[s] /\ Len(orders[s]) = 1 =>
         LET order == orders[s][1]
             open == Opening[s][day'[s]]
             slipped == Amount(order, open) - order.quantity * open
         IN order.side = "BUY" /\ order.cash = cash /\ open <= order.price
              => 100 * cash' >= order.floor - 100 * (slipped + Charged(order, open))]_vars

\* Not true: fee and slippage come out of the buffer.
BuyKeepsWholeBuffer ==
  [][\A s \in Sessions :
       day'[s] # day[s] /\ Len(orders[s]) = 1 =>
         LET order == orders[s][1] IN
         order.side = "BUY" /\ order.cash = cash /\ Opening[s][day'[s]] <= order.price
           => 100 * cash' >= order.floor]_vars

\* Not true: a loss without a close to judge an intent by leaves the account as it is.
LossAlwaysFreezes ==
  [][\A s \in Sessions :
       /\ day'[s] # day[s] /\ intents[s] # <<>> /\ snapshots # <<>>
       /\ \A row \in Range(snapshots) : row.day < day'[s]
       /\ LET best == Max({InitialCash} \cup {row.equity : row \in Range(snapshots')})
          IN 100 * (best - equity') >= Last(Versions(Active)).drawdown * best
       => frozen']_vars

\* policy_service.py:18: "A paper account has at most one ACTIVE policy at a time".
\* Two clients refute it: the check and the insertion are two transactions.
AtMostOneActive == Len(policies) <= 1
=============================================================================
