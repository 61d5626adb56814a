---------------------------- MODULE PaperSession ----------------------------
(***************************************************************************)
(* One paper-trading session (quant_lab/paper/service.py) driven by        *)
(* concurrent API requests.                                                *)
(*                                                                         *)
(* The API handlers are synchronous functions run on a thread pool and     *)
(* share one SQLite file.  Only the advance handler opens its transaction  *)
(* with BEGIN IMMEDIATE; every other handler reads a row without a lock    *)
(* and writes it back later with UPDATE ... WHERE id = ?, so a request is  *)
(* two steps here: what it read, kept in call[c], and what it then writes. *)
(*                                                                         *)
(* A trading day is its index 1..LastDay in the replay range; 0 stands for *)
(* "no day yet".  Prices, quantities and cash are left out: what a bar or  *)
(* a risk limit decides is a choice.                                       *)
(*                                                                         *)
(* A definition named after the one that follows it, such as               *)
(* MayApproveBreached before MayApprove, is a faulty variant: no action    *)
(* uses it, and the run of PaperSession.cfg must fail when it takes the    *)
(* other's place.                                                          *)
(***************************************************************************)
EXTENDS Naturals, FiniteSets

CONSTANTS
  Clients,          \* request threads
  Keys,             \* idempotency keys of advance requests
  ManualKeys,       \* idempotency keys of manual intents
  StrategyKeys,     \* keys the session's strategy gives its own intents
  LastDay,          \* trading days in the replay range
  OpenOrderLimits,  \* values max_open_orders has had; a patch may lower it
  MaxVersion        \* bound: no request is made of a session beyond it

ASSUME SessionAssumption ==
  /\ LastDay \in Nat
  /\ OpenOrderLimits \subseteq Nat
  /\ MaxVersion \in Nat
  /\ IsFiniteSet(ManualKeys \cup StrategyKeys)

VARIABLES
  status,      \* PaperSessionModel.status
  version,     \* PaperSessionModel.version
  date,        \* PaperSessionModel.current_session_date
  advStatus,   \* status of the advance row of each key, "NONE" without a row
  advDay,      \* resulting_session_date of that row, 0 when it has none
  snapshots,   \* days with an account snapshot of this session
  orders,      \* stage of each intent and of the order made from it
  signal,      \* signal_session_date of each intent
  exec,        \* intended_execution_session, copied to the order
  submitted,   \* submitted_session_date of the order, 0 when never submitted
  fills,       \* fills, as <<intent, trade date>>
  frozen,      \* PaperAccountModel.status = "FROZEN"
  call         \* the request each client has in progress

sessionVars == <<status, version, date>>
advanceVars == <<advStatus, advDay, snapshots>>
orderVars   == <<orders, signal, exec, submitted, fills>>
vars == <<sessionVars, advanceVars, orderVars, frozen, call>>

-----------------------------------------------------------------------------
Intents == ManualKeys \cup StrategyKeys
Days    == 1 .. LastDay
Versions == 0 .. MaxVersion + 1

SessionStatus == {"CREATED", "RUNNING", "PAUSED", "STOPPED", "FAILED"}
TerminalSession == {"STOPPED", "FAILED"}

(* "NONE": no intent with this key; "INTENT": created, not yet decided. *)
Stage == {"NONE", "INTENT", "SUBMITTED", "RISK_REJECTED", "FILLED",
          "REJECTED", "EXPIRED", "CANCELLED"}
TerminalOrder == {"RISK_REJECTED", "FILLED", "REJECTED", "EXPIRED", "CANCELLED"}

(* _SESSION_TRANSITIONS, for the three targets a request can ask for. *)
SessionTransition(from, to) ==
  \/ from \in {"CREATED", "PAUSED"} /\ to = "RUNNING"
  \/ from = "RUNNING" /\ to \in {"PAUSED", "STOPPED"}
  \/ from = "PAUSED" /\ to = "STOPPED"

(* How the execution engine can answer a due order: a partial fill is      *)
(* persisted and its remainder expires at once.                            *)
Outcome == {"FILLED", "PARTIALLY_FILLED", "REJECTED", "EXPIRED"}
StageAfterCarried(o) == IF o = "PARTIALLY_FILLED" THEN "SUBMITTED" ELSE o
StageAfter(o) == IF o = "PARTIALLY_FILLED" THEN "EXPIRED" ELSE o

(* The requests in progress, each with what it read. *)
Idle          == [op |-> "idle"]
LifecycleCall == [op : {"lifecycle"}, to : {"RUNNING", "PAUSED", "STOPPED"},
                  ver : 0 .. MaxVersion]
AdvanceCall   == [op : {"advance"}, key : Keys, expected : 0 .. MaxVersion,
                  pinned : BOOLEAN, day : {d \in 0 .. LastDay : d < LastDay}]
FailCall      == [op : {"fail"}, key : Keys]
MarkCall      == [op : {"markFailed"}, key : Keys, ver : 0 .. MaxVersion,
                  failed : BOOLEAN, row : BOOLEAN]
IntentCall    == [op : {"intent"}, intent : ManualKeys,
                  day : {d \in Days : d + 2 <= LastDay}]
CancelCall    == [op : {"cancel"}, intent : Intents]
Call == {Idle} \cup LifecycleCall \cup AdvanceCall \cup FailCall
          \cup MarkCall \cup IntentCall \cup CancelCall

TypeOK ==
  /\ status \in SessionStatus
  /\ version \in Versions
  /\ date \in 0 .. LastDay
  /\ advStatus \in [Keys -> {"NONE", "COMPLETED", "FAILED"}]
  /\ advDay \in [Keys -> 0 .. LastDay]
  /\ snapshots \in SUBSET Days
  /\ orders \in [Intents -> Stage]
  /\ signal \in [Intents -> 0 .. LastDay]
  /\ exec \in [Intents -> 0 .. LastDay]
  /\ submitted \in [Intents -> 0 .. LastDay]
  /\ fills \in SUBSET (Intents \X Days)
  /\ frozen \in BOOLEAN
  /\ call \in [Clients -> Call]

Init ==
  /\ status = "CREATED"
  /\ version = 1
  /\ date = 0
  /\ advStatus = [k \in Keys |-> "NONE"]
  /\ advDay = [k \in Keys |-> 0]
  /\ snapshots = {}
  /\ orders = [i \in Intents |-> "NONE"]
  /\ signal = [i \in Intents |-> 0]
  /\ exec = [i \in Intents |-> 0]
  /\ submitted = [i \in Intents |-> 0]
  /\ fills = {}
  /\ frozen = FALSE
  /\ call = [c \in Clients |-> Idle]

Begin(c, request) ==
  /\ call[c] = Idle
  /\ call' = [call EXCEPT ![c] = request]

End(c) == call' = [call EXCEPT ![c] = Idle]


-----------------------------------------------------------------------------
(***************************************************************************)
(* Lifecycle: start, pause, resume, stop.  The version check and the       *)
(* transition check look at the row that was read; the UPDATE that follows *)
(* does not look again.                                                    *)
(***************************************************************************)
LifecycleRead(c, to) ==
  /\ SessionTransition(status, to)
  /\ version <= MaxVersion
  /\ Begin(c, [op |-> "lifecycle", to |-> to, ver |-> version])
  /\ UNCHANGED <<sessionVars, advanceVars, orderVars, frozen>>

LifecycleWrite(c) ==
  /\ call[c].op = "lifecycle"
  /\ status' = call[c].to
  /\ version' = call[c].ver + 1
  /\ End(c)
  /\ UNCHANGED <<date, advanceVars, orderVars, frozen>>

-----------------------------------------------------------------------------
(***************************************************************************)
(* Advance.  The target day is selected from a read made before the        *)
(* transaction; idempotency, status, version and (when the client sends    *)
(* one) the expected date are checked inside it.                           *)
(***************************************************************************)

(* A client sends the version it knows, or the one a concurrent request of *)
(* its own is about to produce.  With no day left the request is refused   *)
(* at once, before its idempotency key is looked up.                       *)
AdvanceRead(c, k) ==
  /\ date < LastDay
  /\ \E e \in {version, version + 1}, pin \in BOOLEAN :
       /\ e <= MaxVersion
       /\ Begin(c, [op |-> "advance", key |-> k, expected |-> e,
                    pinned |-> pin, day |-> date])
  /\ UNCHANGED <<sessionVars, advanceVars, orderVars, frozen>>

Target(c) == call[c].day + 1

(* UNIQUE (paper_session_id, session_date) of the snapshots.               *)
FreshDayUnchecked(c) == TRUE
FreshDay(c) == Target(c) \notin snapshots

AdmissibleAnyKey(c) ==
  /\ status = "RUNNING"
  /\ version = call[c].expected
  /\ call[c].pinned => date = call[c].day
Admissible(c) ==
  /\ advStatus[call[c].key] = "NONE"
  /\ status = "RUNNING"
  /\ version = call[c].expected
  /\ call[c].pinned => date = call[c].day

Undecided == {i \in Intents : orders[i] = "INTENT"}
Open      == {i \in Intents : orders[i] = "SUBMITTED"}
DueAfterSignal(day) == {i \in Open : signal[i] + 1 = day}
Due(day)  == {i \in Open : exec[i] = day}

(* Risk decisions of the close: a frozen account or a loss limit approves  *)
(* nothing, and an approval needs a free slot under the limit in force.    *)
SlotsFor(open) == \E limit \in OpenOrderLimits : Cardinality(open) <= limit

MayApproveBreached(approved, open, breach) ==
  approved # {} => ~frozen /\ SlotsFor(open \cup approved)
MayApprove(approved, open, breach) ==
  approved # {} =>
    /\ ~frozen
    /\ ~breach
    /\ SlotsFor(open \cup approved)

(* _execute_pending, _mark_to_market and _close_phase.  out is what         *)
(* execution answers for the orders due; new are the intents the strategy  *)
(* adds; breach says that a loss limit is hit, which freezes the account   *)
(* at the first intent evaluated and cancels what is pending.              *)
Close(c, out, new, approved, breach) ==
  LET target  == Target(c)
      due     == Due(target)
      decided == Undecided \cup new
      freezes == breach /\ ~frozen
      filled  == {i \in due : out[i] \in {"FILLED", "PARTIALLY_FILLED"}}
  IN
  /\ new # {} => target < LastDay
  /\ breach => decided # {}
  /\ approved \subseteq decided
  /\ MayApprove(approved, Open \ due, breach)
  /\ orders' = [i \in Intents |->
       IF i \in due THEN StageAfter(out[i])
       ELSE IF i \in approved THEN "SUBMITTED"
       ELSE IF i \in decided THEN "RISK_REJECTED"
       ELSE IF freezes /\ orders[i] = "SUBMITTED" THEN "CANCELLED"
       ELSE orders[i]]
  /\ signal' = [i \in Intents |-> IF i \in new THEN target ELSE signal[i]]
  /\ exec' = [i \in Intents |-> IF i \in new THEN target + 1 ELSE exec[i]]
  /\ submitted' = [i \in Intents |->
       IF i \in approved THEN target ELSE submitted[i]]
  /\ fills' = fills \cup (filled \X {target})
  /\ frozen' = (frozen \/ freezes)

(* The advance transaction, from its checks to its commit. *)
AdvanceCommit(c) ==
  /\ call[c].op = "advance"
  /\ Admissible(c)
  /\ FreshDay(c)
  /\ \E out \in [Due(Target(c)) -> Outcome],
        new \in SUBSET {i \in StrategyKeys : orders[i] = "NONE"},
        approved \in SUBSET Intents,
        breach \in BOOLEAN :
       Close(c, out, new, approved, breach)
  /\ snapshots' = snapshots \cup {Target(c)}
  /\ date' = Target(c)
  /\ version' = version + 1
  /\ advStatus' = [advStatus EXCEPT ![call[c].key] = "COMPLETED"]
  /\ advDay' = [advDay EXCEPT ![call[c].key] = Target(c)]
  /\ End(c)
  /\ UNCHANGED status

(* A completed key is answered again, a failed or foreign one refused, and *)
(* a PaperError of the risk service rolls back: nothing is written.        *)
AdvanceRefuse(c) ==
  /\ call[c].op = "advance"
  /\ \/ ~Admissible(c)
     \/ FreshDay(c) /\ (Undecided # {} \/ Target(c) < LastDay)
  /\ End(c)
  /\ UNCHANGED <<sessionVars, advanceVars, orderVars, frozen>>

(* Any other exception (a second snapshot of a day, negative cash, a       *)
(* strategy error, a full disk) rolls the transaction back first.          *)
AdvanceFatal(c) ==
  /\ call[c].op = "advance"
  /\ Admissible(c)
  /\ call' = [call EXCEPT ![c] = [op |-> "fail", key |-> call[c].key]]
  /\ UNCHANGED <<sessionVars, advanceVars, orderVars, frozen>>

(* _mark_failed, in a session of its own, again reads before it writes: it *)
(* updates the advance row it found or inserts the one it did not find,    *)
(* and a status that was FAILED when read is not written again.            *)
MarkFailedRead(c) ==
  /\ call[c].op = "fail"
  /\ version <= MaxVersion
  /\ call' = [call EXCEPT ![c] =
       [op |-> "markFailed", key |-> call[c].key, ver |-> version,
        failed |-> status = "FAILED", row |-> advStatus[call[c].key] # "NONE"]]
  /\ UNCHANGED <<sessionVars, advanceVars, orderVars, frozen>>

MarkFailedWrite(c) ==
  /\ call[c].op = "markFailed"
  /\ call[c].row \/ advStatus[call[c].key] = "NONE"
  /\ status' = IF call[c].failed THEN status ELSE "FAILED"
  /\ version' = call[c].ver + 1
  /\ advStatus' = [advStatus EXCEPT ![call[c].key] = "FAILED"]
  /\ End(c)
  /\ UNCHANGED <<date, advDay, snapshots, orderVars, frozen>>

-----------------------------------------------------------------------------
(***************************************************************************)
(* Manual intents and order cancellation.                                  *)
(***************************************************************************)

(* The signal day is the session's day as read; the intent is decided at   *)
(* the next close and meant for the open after that.                       *)
IntentRead(c, i) ==
  /\ status = "RUNNING"
  /\ date > 0
  /\ date + 2 <= LastDay
  /\ orders[i] = "NONE"
  /\ Begin(c, [op |-> "intent", intent |-> i, day |-> date])
  /\ UNCHANGED <<sessionVars, advanceVars, orderVars, frozen>>

(* create_intent returns an intent that already has the key.               *)
IntentInsert(c) ==
  LET i == call[c].intent IN
  /\ call[c].op = "intent"
  /\ IF orders[i] = "NONE"
     THEN /\ orders' = [orders EXCEPT ![i] = "INTENT"]
          /\ signal' = [signal EXCEPT ![i] = call[c].day]
          /\ exec' = [exec EXCEPT ![i] = call[c].day + 2]
     ELSE UNCHANGED <<orders, signal, exec>>
  /\ End(c)
  /\ UNCHANGED <<sessionVars, advanceVars, submitted, fills, frozen>>

CancelRead(c, i) ==
  /\ orders[i] = "SUBMITTED"
  /\ Begin(c, [op |-> "cancel", intent |-> i])
  /\ UNCHANGED <<sessionVars, advanceVars, orderVars, frozen>>

CancelWrite(c) ==
  /\ call[c].op = "cancel"
  /\ orders' = [orders EXCEPT ![call[c].intent] = "CANCELLED"]
  /\ End(c)
  /\ UNCHANGED <<sessionVars, advanceVars, signal, exec, submitted, fills, frozen>>

-----------------------------------------------------------------------------
(* freeze_account and unfreeze_account write the status they are asked for *)
(* whatever they read, so one step each; a close of another session of the *)
(* account may also freeze it.                                             *)
SetFrozen(f) ==
  /\ frozen # f
  /\ frozen' = f
  /\ UNCHANGED <<sessionVars, advanceVars, orderVars, call>>

(* A request ends without its write when the lock is not granted within    *)
(* busy_timeout or when its insert meets a row that came in between.       *)
Abandon(c) ==
  /\ call[c] # Idle
  /\ End(c)
  /\ UNCHANGED <<sessionVars, advanceVars, orderVars, frozen>>

(* The process dies: the database stays, every request in progress is gone.*)
Crash ==
  /\ call' = [c \in Clients |-> Idle]
  /\ UNCHANGED <<sessionVars, advanceVars, orderVars, frozen>>

Step(c) ==
  \/ \E to \in {"RUNNING", "PAUSED", "STOPPED"} : LifecycleRead(c, to)
  \/ LifecycleWrite(c)
  \/ \E k \in Keys : AdvanceRead(c, k)
  \/ AdvanceCommit(c)
  \/ AdvanceRefuse(c)
  \/ AdvanceFatal(c)
  \/ MarkFailedRead(c)
  \/ MarkFailedWrite(c)
  \/ \E i \in ManualKeys : IntentRead(c, i)
  \/ IntentInsert(c)
  \/ \E i \in Intents : CancelRead(c, i)
  \/ CancelWrite(c)
  \/ Abandon(c)

Next ==
  \/ \E c \in Clients : Step(c)
  \/ \E f \in BOOLEAN : SetFrozen(f)
  \/ Crash

Spec == Init /\ [][Next]_vars

-----------------------------------------------------------------------------
(***************************************************************************)
(* Safety.                                                                 *)
(***************************************************************************)

(* No trading day is replayed twice or skipped, whatever requests overlap: *)
(* the days with a snapshot are exactly the days up to the current one.    *)
(* The target is selected outside the transaction and a lost update can    *)
(* take the version back, so this rests on the snapshot's unique key.      *)
ReplayProgress == snapshots = 1 .. date

(* Each processed day belongs to exactly one idempotency key, and no key   *)
(* to two days, even when _mark_failed overwrites a completed row.         *)
AdvanceLedger ==
  /\ \A d \in 1 .. date : \E k \in Keys : advDay[k] = d
  /\ \A j, k \in Keys : advDay[j] = advDay[k] /\ advDay[j] # 0 => j = k
  /\ \A k \in Keys : advDay[k] <= date

(* No look-ahead and no double execution: an order fills at most once, on  *)
(* its execution day, strictly after the close that submitted it, which is *)
(* not before the day whose data the intent is based on.                   *)
FillsFollowSubmission ==
  \A f \in fills :
    /\ f[2] = exec[f[1]]
    /\ f[2] <= date
    /\ signal[f[1]] <= submitted[f[1]]
    /\ 0 < submitted[f[1]] /\ submitted[f[1]] < f[2]
    /\ orders[f[1]] \in {"FILLED", "EXPIRED", "CANCELLED"}

(* An order submitted in time is executed on its day: no advance passes    *)
(* the execution day of an order and leaves it pending.                    *)
NoMissedExecution ==
  \A i \in Open : submitted[i] < exec[i] => date < exec[i]

(* The pending orders of a session never exceed all the limits its         *)
(* account's policies have had.  They may exceed the one in force: a patch *)
(* that lowers it leaves pending orders alone.                             *)
OpenOrderBound == Open # {} => SlotsFor(Open)

(* What the others rest on: a request never knows a later day than the     *)
(* session's, an unused key has advanced no day, and an intent is never    *)
(* based on, nor an order submitted at, a day still to come.               *)
Bookkeeping ==
  /\ \A c \in Clients : call[c].op \in {"advance", "intent"} => call[c].day <= date
  /\ \A k \in Keys : advStatus[k] = "NONE" => advDay[k] = 0
  /\ \A i \in Undecided : signal[i] <= date
  /\ \A i \in Open : /\ signal[i] <= submitted[i]
                     /\ 0 < submitted[i] /\ submitted[i] <= date

(* When a close freezes the account no order of the session stays pending, *)
(* not even one approved or submitted in the same transaction.             *)
RiskFreezeCancelsPending ==
  [][date' # date /\ ~frozen /\ frozen' => Open' = {}]_vars

(* While the account is frozen nothing new is submitted, also when the     *)
(* freeze comes between an advance's reads and its transaction.            *)
FrozenSubmitsNothing == [][frozen => Open' \subseteq Open]_vars

(* The session implements the replay clock: every advance that commits     *)
(* moves exactly one day and spends a fresh key, a failed one burns its    *)
(* key and moves nothing, and nothing else touches the clock.              *)
Clock == INSTANCE ReplayClock WITH
  day    <- date,
  spent  <- advDay,
  failed <- {k \in Keys : advStatus[k] = "FAILED"}

ReplaysAsClock == Clock!ClockSpec

(***************************************************************************)
(* What the repository says of the program and the interleavings refute.   *)
(***************************************************************************)

(* A terminal order stays as it is (state.py: no transition leaves it).    *)
OrderTerminalIsFinal ==
  [][\A i \in Intents : orders[i] \in TerminalOrder => orders'[i] = orders[i]]_vars

(* A stopped or failed session stays stopped or failed (state.py).         *)
SessionTerminalIsFinal ==
  [][(status \in TerminalSession) => status' = status]_vars

(* A submitted order still has its execution day ahead of its submission.  *)
SubmittedBeforeExecution == \A i \in Open : submitted[i] < exec[i]
=============================================================================
