----------------------------- MODULE PaperProofs -----------------------------
(***************************************************************************)
(* Theorems about paper trading: about PaperSession, for any number of     *)
(* clients, keys, intents and trading days, and about PaperAccount, for    *)
(* any sessions, calendars, prices, fees and sizes of orders.              *)
(***************************************************************************)
EXTENDS PaperSession, PaperAccount, RecursionLemmas

-----------------------------------------------------------------------------
(* A request in progress has the fields its kind reads. *)
LEMMA CallShape ==
  ASSUME NEW x \in Call
  PROVE  /\ x.op = "lifecycle" => x \in LifecycleCall
         /\ x.op = "advance" => x \in AdvanceCall
         /\ x.op = "fail" => x \in FailCall
         /\ x.op = "markFailed" => x \in MarkCall
         /\ x.op = "intent" => x \in IntentCall
         /\ x.op = "cancel" => x \in CancelCall
  BY DEF Call, Idle, LifecycleCall, AdvanceCall, FailCall, MarkCall,
         IntentCall, CancelCall

(* A request that begins or ends leaves every client with a request. *)
LEMMA CallUpdate ==
  ASSUME call \in [Clients -> Call], NEW c \in Clients, NEW r \in Call
  PROVE  [call EXCEPT ![c] = r] \in [Clients -> Call]
  OBVIOUS

(* A request that ends leaves an idle client. *)
LEMMA EndType ==
  ASSUME TypeOK, NEW c \in Clients, End(c)
  PROVE  call' \in [Clients -> Call]
  BY DEF TypeOK, End, Call

(* The state a new session is created in is well typed. *)
LEMMA TypeInit == Init => TypeOK
<1> SUFFICES ASSUME Init PROVE TypeOK
  OBVIOUS
<1>1. 0 \in 0 .. LastDay /\ 1 \in Versions
  BY SessionAssumption DEF Versions
<1>2. call \in [Clients -> Call]
  BY DEF Init, Call
<1>3. /\ orders \in [Intents -> Stage]
      /\ status \in SessionStatus
      /\ advStatus \in [Keys -> {"NONE", "COMPLETED", "FAILED"}]
  BY DEF Init, Stage, SessionStatus
<1> QED
  BY <1>1, <1>2, <1>3 DEF Init, TypeOK

(* Every handler step, crash and freeze keeps the state well typed. *)
LEMMA TypeStep == TypeOK /\ [Next]_vars => TypeOK'
<1> SUFFICES ASSUME TypeOK, [Next]_vars PROVE TypeOK'
  OBVIOUS
<1> USE SessionAssumption
<1>1. ASSUME NEW c \in Clients, NEW to \in {"RUNNING", "PAUSED", "STOPPED"},
             LifecycleRead(c, to)
      PROVE  TypeOK'
  <2>1. [op |-> "lifecycle", to |-> to, ver |-> version] \in Call
    BY <1>1 DEF LifecycleRead, TypeOK, Call, LifecycleCall, Versions
  <2> QED
    BY <1>1, <2>1, CallUpdate
    DEF LifecycleRead, Begin, TypeOK, sessionVars, advanceVars, orderVars
<1>2. ASSUME NEW c \in Clients, LifecycleWrite(c)
      PROVE  TypeOK'
  <2>1. call[c] \in LifecycleCall
    BY <1>2, CallShape DEF LifecycleWrite, TypeOK
  <2>2. status' \in SessionStatus /\ version' \in Versions
    BY <1>2, <2>1 DEF LifecycleWrite, LifecycleCall, SessionStatus, Versions
  <2> QED
    BY <1>2, <2>2, EndType DEF LifecycleWrite, TypeOK, advanceVars, orderVars
<1>3. ASSUME NEW c \in Clients, NEW k \in Keys, AdvanceRead(c, k)
      PROVE  TypeOK'
  <2>1. PICK e \in {version, version + 1}, pin \in BOOLEAN :
          /\ e <= MaxVersion
          /\ Begin(c, [op |-> "advance", key |-> k, expected |-> e,
                       pinned |-> pin, day |-> date])
    BY <1>3 DEF AdvanceRead
  <2>2. [op |-> "advance", key |-> k, expected |-> e,
         pinned |-> pin, day |-> date] \in Call
    BY <1>3, <2>1 DEF AdvanceRead, TypeOK, Call, AdvanceCall, Versions
  <2> QED
    BY <1>3, <2>1, <2>2, CallUpdate
    DEF AdvanceRead, Begin, TypeOK, sessionVars, advanceVars, orderVars
<1>4. ASSUME NEW c \in Clients, AdvanceCommit(c)
      PROVE  TypeOK'
  <2> DEFINE target == Target(c)
             due    == Due(target)
  <2>1. /\ call[c].key \in Keys
        /\ target \in Days /\ target \in 0 .. LastDay
        /\ call[c].expected \in 0 .. MaxVersion
    BY <1>4, CallShape DEF AdvanceCommit, TypeOK, AdvanceCall, Target, Days
  <2>2. PICK out \in [due -> Outcome],
             new \in SUBSET {i \in StrategyKeys : orders[i] = "NONE"},
             approved \in SUBSET Intents,
             breach \in BOOLEAN :
               Close(c, out, new, approved, breach)
    BY <1>4 DEF AdvanceCommit
  <2>3. orders' \in [Intents -> Stage]
    BY <2>2 DEF Close, TypeOK, Stage, StageAfter, Outcome
  <2>4. /\ signal' \in [Intents -> 0 .. LastDay]
        /\ submitted' \in [Intents -> 0 .. LastDay]
    BY <2>1, <2>2 DEF Close, TypeOK
  <2>5. exec' \in [Intents -> 0 .. LastDay]
    BY <2>1, <2>2 DEF Close, TypeOK
  <2>6. fills' \in SUBSET (Intents \X Days) /\ frozen' \in BOOLEAN
    BY <2>1, <2>2 DEF Close, TypeOK, Due, Open
  <2>7. /\ version' \in Versions
        /\ advStatus' \in [Keys -> {"NONE", "COMPLETED", "FAILED"}]
        /\ advDay' \in [Keys -> 0 .. LastDay]
        /\ snapshots' \in SUBSET Days
    BY <1>4, <2>1 DEF AdvanceCommit, Admissible, TypeOK, Versions
  <2> QED
    BY <1>4, <2>1, <2>3, <2>4, <2>5, <2>6, <2>7, EndType
    DEF AdvanceCommit, TypeOK
<1>5. ASSUME NEW c \in Clients, AdvanceRefuse(c)
      PROVE  TypeOK'
  BY <1>5, EndType DEF AdvanceRefuse, TypeOK, sessionVars, advanceVars, orderVars
<1>6. ASSUME NEW c \in Clients, AdvanceFatal(c)
      PROVE  TypeOK'
  <2>1. [op |-> "fail", key |-> call[c].key] \in Call
    BY <1>6, CallShape DEF AdvanceFatal, TypeOK, Call, FailCall, AdvanceCall
  <2> QED
    BY <1>6, <2>1, CallUpdate
    DEF AdvanceFatal, TypeOK, sessionVars, advanceVars, orderVars
<1>7. ASSUME NEW c \in Clients, MarkFailedRead(c)
      PROVE  TypeOK'
  <2>1. [op |-> "markFailed", key |-> call[c].key, ver |-> version,
         failed |-> status = "FAILED", row |-> advStatus[call[c].key] # "NONE"]
          \in Call
    BY <1>7, CallShape
    DEF MarkFailedRead, TypeOK, Call, FailCall, MarkCall, Versions
  <2> QED
    BY <1>7, <2>1, CallUpdate
    DEF MarkFailedRead, TypeOK, sessionVars, advanceVars, orderVars
<1>8. ASSUME NEW c \in Clients, MarkFailedWrite(c)
      PROVE  TypeOK'
  <2>1. call[c] \in MarkCall
    BY <1>8, CallShape DEF MarkFailedWrite, TypeOK
  <2>2. /\ status' \in SessionStatus
        /\ version' \in Versions
        /\ advStatus' \in [Keys -> {"NONE", "COMPLETED", "FAILED"}]
    BY <1>8, <2>1 DEF MarkFailedWrite, MarkCall, SessionStatus, Versions, TypeOK
  <2> QED
    BY <1>8, <2>2, EndType DEF MarkFailedWrite, TypeOK, orderVars
<1>9. ASSUME NEW c \in Clients, NEW i \in ManualKeys, IntentRead(c, i)
      PROVE  TypeOK'
  <2>1. [op |-> "intent", intent |-> i, day |-> date] \in Call
    BY <1>9 DEF IntentRead, TypeOK, Call, IntentCall, Days
  <2> QED
    BY <1>9, <2>1, CallUpdate
    DEF IntentRead, Begin, TypeOK, sessionVars, advanceVars, orderVars
<1>10. ASSUME NEW c \in Clients, IntentInsert(c)
       PROVE  TypeOK'
  <2>1. /\ call[c] \in IntentCall
        /\ call[c].intent \in Intents
        /\ call[c].day \in 0 .. LastDay
    BY <1>10, CallShape DEF IntentInsert, TypeOK, IntentCall, Intents, Days
  <2>2. call[c].day + 2 \in 0 .. LastDay
    BY <2>1 DEF IntentCall, Days
  <2> QED
    BY <1>10, <2>1, <2>2, EndType
    DEF IntentInsert, TypeOK, Stage, sessionVars, advanceVars
<1>11. ASSUME NEW c \in Clients, NEW i \in Intents, CancelRead(c, i)
       PROVE  TypeOK'
  <2>1. [op |-> "cancel", intent |-> i] \in Call
    BY <1>11 DEF TypeOK, Call, CancelCall
  <2> QED
    BY <1>11, <2>1, CallUpdate
    DEF CancelRead, Begin, TypeOK, sessionVars, advanceVars, orderVars
<1>12. ASSUME NEW c \in Clients, CancelWrite(c)
       PROVE  TypeOK'
  BY <1>12, EndType
  DEF CancelWrite, TypeOK, Stage, sessionVars, advanceVars
<1>13. ASSUME NEW c \in Clients, Abandon(c)
       PROVE  TypeOK'
  BY <1>13, EndType DEF Abandon, TypeOK, sessionVars, advanceVars, orderVars
<1>14. ASSUME NEW f \in BOOLEAN, SetFrozen(f)
       PROVE  TypeOK'
  BY <1>14 DEF SetFrozen, TypeOK, sessionVars, advanceVars, orderVars
<1>15. CASE Crash
  BY <1>15 DEF Crash, TypeOK, Call, sessionVars, advanceVars, orderVars
<1>16. CASE UNCHANGED vars
  BY <1>16 DEF TypeOK, vars, sessionVars, advanceVars, orderVars
<1> QED
  BY <1>1, <1>2, <1>3, <1>4, <1>5, <1>6, <1>7, <1>8, <1>9, <1>10, <1>11,
     <1>12, <1>13, <1>14, <1>15, <1>16
  DEF Next, Step

(* Statuses, versions, days, keys, orders and requests in progress keep    *)
(* the shapes the tables and handlers of the session service give them.    *)
THEOREM TypeCorrect == Spec => []TypeOK
  BY TypeInit, TypeStep, PTL DEF Spec

-----------------------------------------------------------------------------
(* Nothing but the commit of an advance moves the clock, submits or fills. *)
LEMMA QuietStep ==
  ASSUME [Next]_vars
  PROVE  \/ \E c \in Clients : AdvanceCommit(c)
         \/ UNCHANGED <<date, advDay, snapshots, submitted, fills>>
<1>1. ASSUME NEW c \in Clients, Step(c), ~ AdvanceCommit(c)
      PROVE  UNCHANGED <<date, advDay, snapshots, submitted, fills>>
  BY <1>1
  DEF Step, LifecycleRead, LifecycleWrite, AdvanceRead, AdvanceRefuse,
      AdvanceFatal, MarkFailedRead, MarkFailedWrite, IntentRead, IntentInsert,
      CancelRead, CancelWrite, Abandon, sessionVars, advanceVars, orderVars
<1> QED
  BY <1>1 DEF Next, SetFrozen, Crash, vars, sessionVars, advanceVars, orderVars

(* The unique snapshot key makes a commit target the very next day, even   *)
(* for a request that selected its day long ago.                           *)
LEMMA CommitNextDay ==
  ASSUME TypeOK, Bookkeeping, ReplayProgress,
         NEW c \in Clients, AdvanceCommit(c)
  PROVE  /\ call[c] \in AdvanceCall
         /\ Target(c) = date + 1
         /\ date' = date + 1
         /\ date < LastDay
<1>1. call[c] \in AdvanceCall
  BY CallShape DEF TypeOK, AdvanceCommit
<1>2. call[c].day \in 0 .. date /\ date \in 0 .. LastDay
  BY <1>1 DEF TypeOK, Bookkeeping, AdvanceCommit, AdvanceCall
<1>3. Target(c) \notin 1 .. date
  BY DEF AdvanceCommit, FreshDay, ReplayProgress
<1> QED
  BY <1>1, <1>2, <1>3, SessionAssumption DEF AdvanceCommit, Target, AdvanceCall

(* A commit adds exactly the next day to the days with a snapshot. *)
LEMMA ProgressStep ==
  TypeOK /\ Bookkeeping /\ ReplayProgress /\ [Next]_vars => ReplayProgress'
<1> SUFFICES ASSUME TypeOK, Bookkeeping, ReplayProgress, [Next]_vars
             PROVE  ReplayProgress'
  OBVIOUS
<1>1. ASSUME NEW c \in Clients, AdvanceCommit(c)
      PROVE  ReplayProgress'
  <2>1. snapshots' = (1 .. date) \cup {date + 1} /\ date' = date + 1
    BY <1>1, CommitNextDay DEF AdvanceCommit, ReplayProgress
  <2>2. date \in Nat
    BY SessionAssumption DEF TypeOK
  <2> QED
    BY <2>1, <2>2 DEF ReplayProgress
<1> QED
  BY <1>1, QuietStep DEF ReplayProgress

(* A commit credits its day to its own fresh key; _mark_failed leaves the  *)
(* day of the key it overwrites.                                           *)
LEMMA LedgerStep ==
  TypeOK /\ Bookkeeping /\ ReplayProgress /\ AdvanceLedger /\ [Next]_vars
    => AdvanceLedger'
<1> SUFFICES ASSUME TypeOK, Bookkeeping, ReplayProgress, AdvanceLedger, [Next]_vars
             PROVE  AdvanceLedger'
  OBVIOUS
<1>1. ASSUME NEW c \in Clients, AdvanceCommit(c)
      PROVE  AdvanceLedger'
  <2> DEFINE key == call[c].key
  <2>1. key \in Keys /\ advDay[key] = 0
    BY <1>1, CommitNextDay DEF AdvanceCommit, Admissible, Bookkeeping, AdvanceCall
  <2>2. /\ date \in Nat
        /\ date' = date + 1
        /\ advDay' = [advDay EXCEPT ![key] = date + 1]
    <3>1. Target(c) = date + 1 /\ date' = date + 1
      BY <1>1, CommitNextDay
    <3>2. advDay' = [advDay EXCEPT ![key] = Target(c)]
      BY <1>1 DEF AdvanceCommit
    <3> QED
      BY <3>1, <3>2, SessionAssumption DEF TypeOK
  <2>3. advDay \in [Keys -> Nat]
    BY SessionAssumption DEF TypeOK
  <2>4. ASSUME NEW d \in 1 .. date'
        PROVE  \E k \in Keys : advDay'[k] = d
    <3>1. CASE d = date + 1
      BY <3>1, <2>1, <2>2, <2>3
    <3>2. CASE d # date + 1
      <4>1. PICK k \in Keys : advDay[k] = d
        BY <3>2, <2>2 DEF AdvanceLedger
      <4>2. k # key
        BY <4>1, <2>1, <2>2, <2>3
      <4> QED
        BY <4>1, <4>2, <2>2, <2>3
    <3> QED
      BY <3>1, <3>2
  <2>5. \A k \in Keys : advDay[k] <= date /\ advDay[k] # date + 1
    BY <2>2, <2>3 DEF AdvanceLedger
  <2>6. ASSUME NEW j \in Keys, NEW k \in Keys,
               advDay'[j] = advDay'[k], advDay'[j] # 0
        PROVE  j = k
    <3>1. CASE j = key \/ k = key
      BY <3>1, <2>1, <2>2, <2>3, <2>5, <2>6
    <3>2. CASE j # key /\ k # key
      BY <3>2, <2>2, <2>3, <2>6 DEF AdvanceLedger
    <3> QED
      BY <3>1, <3>2
  <2>7. \A k \in Keys : advDay'[k] <= date'
    BY <2>1, <2>2, <2>3, <2>5
  <2> QED
    BY <2>4, <2>6, <2>7 DEF AdvanceLedger
<1> QED
  BY <1>1, QuietStep DEF AdvanceLedger

-----------------------------------------------------------------------------
(* What a close does to one intent. *)
LEMMA CloseOne ==
  ASSUME TypeOK, NEW c \in Clients, AdvanceCommit(c), Target(c) = date + 1,
         NEW i \in Intents
  PROVE  /\ orders[i] \notin {"NONE", "INTENT", "SUBMITTED"} =>
              /\ orders'[i] = orders[i]
              /\ submitted'[i] = submitted[i]
         /\ orders[i] # "NONE" => signal'[i] = signal[i] /\ exec'[i] = exec[i]
         /\ orders[i] = "SUBMITTED" =>
              /\ submitted'[i] = submitted[i]
              /\ exec[i] = date + 1 =>
                   orders'[i] \in {"FILLED", "EXPIRED", "REJECTED"}
              /\ orders'[i] \in {"SUBMITTED", "CANCELLED", "FILLED", "EXPIRED",
                                 "REJECTED"}
         /\ orders'[i] = "INTENT" => FALSE
         /\ orders'[i] = "SUBMITTED" =>
              \/ /\ orders[i] = "SUBMITTED" /\ exec[i] # date + 1
              \/ /\ orders[i] = "INTENT" /\ submitted'[i] = date + 1
              \/ /\ orders[i] = "NONE"
                 /\ submitted'[i] = date + 1
                 /\ signal'[i] = date + 1 /\ exec'[i] = date + 2
<1>1. PICK out \in [Due(Target(c)) -> Outcome],
           new \in SUBSET {j \in StrategyKeys : orders[j] = "NONE"},
           approved \in SUBSET Intents,
           breach \in BOOLEAN : Close(c, out, new, approved, breach)
  BY DEF AdvanceCommit
<1>2. /\ approved \subseteq Undecided \cup new
      /\ date \in Nat
  BY <1>1, SessionAssumption DEF Close, TypeOK
<1>3. /\ orders'[i] = IF i \in Due(Target(c)) THEN StageAfter(out[i])
                      ELSE IF i \in approved THEN "SUBMITTED"
                      ELSE IF i \in Undecided \cup new THEN "RISK_REJECTED"
                      ELSE IF breach /\ ~frozen /\ orders[i] = "SUBMITTED"
                           THEN "CANCELLED"
                      ELSE orders[i]
      /\ signal'[i] = IF i \in new THEN Target(c) ELSE signal[i]
      /\ exec'[i] = IF i \in new THEN Target(c) + 1 ELSE exec[i]
      /\ submitted'[i] = IF i \in approved THEN Target(c) ELSE submitted[i]
  BY <1>1 DEF Close
<1>4. i \in Due(Target(c)) <=> orders[i] = "SUBMITTED" /\ exec[i] = date + 1
  BY DEF Due, Open
<1>5. i \in Due(Target(c)) => StageAfter(out[i]) \in {"FILLED", "EXPIRED", "REJECTED"}
  BY DEF Outcome, StageAfter
<1>6. i \in Undecided <=> orders[i] = "INTENT"
  BY DEF Undecided
<1>7. i \in new => orders[i] = "NONE"
  OBVIOUS
<1> QED
  BY <1>2, <1>3, <1>4, <1>5, <1>6, <1>7

(* What any other step does to one intent. *)
LEMMA QuietOne ==
  ASSUME TypeOK, [Next]_vars, \A c \in Clients : ~ AdvanceCommit(c),
         NEW i \in Intents
  PROVE  /\ orders[i] # "NONE" => signal'[i] = signal[i] /\ exec'[i] = exec[i]
         /\ \/ orders'[i] = orders[i]
            \/ orders'[i] = "CANCELLED"
            \/ /\ orders[i] = "NONE" /\ orders'[i] = "INTENT"
               /\ \E c \in Clients : /\ call[c].op = "intent"
                                     /\ signal'[i] = call[c].day
<1>1. ASSUME NEW c \in Clients, IntentInsert(c)
      PROVE  /\ orders[i] # "NONE" => signal'[i] = signal[i] /\ exec'[i] = exec[i]
             /\ \/ orders'[i] = orders[i]
                \/ /\ orders[i] = "NONE" /\ orders'[i] = "INTENT"
                   /\ call[c].op = "intent" /\ signal'[i] = call[c].day
  BY <1>1 DEF IntentInsert, TypeOK
<1>2. ASSUME NEW c \in Clients, CancelWrite(c)
      PROVE  /\ UNCHANGED <<signal, exec>>
             /\ orders'[i] = orders[i] \/ orders'[i] = "CANCELLED"
  BY <1>2 DEF CancelWrite, TypeOK
<1>3. ASSUME NEW c \in Clients, Step(c), ~ IntentInsert(c), ~ CancelWrite(c)
      PROVE  UNCHANGED <<orders, signal, exec>>
  BY <1>3
  DEF Step, LifecycleRead, LifecycleWrite, AdvanceRead, AdvanceRefuse,
      AdvanceFatal, MarkFailedRead, MarkFailedWrite, IntentRead,
      CancelRead, Abandon, sessionVars, advanceVars, orderVars
<1>4. CASE UNCHANGED <<orders, signal, exec>>
  BY <1>4
<1>5. CASE \E c \in Clients : IntentInsert(c) \/ CancelWrite(c)
  BY <1>1, <1>2, <1>5
<1> QED
  BY <1>3, <1>4, <1>5 DEF Next, SetFrozen, Crash, vars, orderVars

(* A request that knows a day read it from the session. *)
LEMMA CallDays ==
  ASSUME TypeOK, Bookkeeping, [Next]_vars, NEW c \in Clients,
         call'[c].op \in {"advance", "intent"}
  PROVE  call'[c].day <= date
<1> SUFFICES ASSUME call'[c] # call[c] PROVE call'[c].day <= date
  BY DEF Bookkeeping
<1>1. ASSUME NEW b \in Clients, Step(b) PROVE call'[c].day <= date
  <2>1. \/ LifecycleRead(b, "RUNNING") \/ LifecycleRead(b, "PAUSED")
        \/ LifecycleRead(b, "STOPPED")
        \/ \E k \in Keys : AdvanceRead(b, k)
        \/ AdvanceFatal(b)
        \/ MarkFailedRead(b)
        \/ \E i \in ManualKeys : IntentRead(b, i)
        \/ \E i \in Intents : CancelRead(b, i)
        \/ End(b)
    BY <1>1 DEF Step, LifecycleWrite, AdvanceCommit, AdvanceRefuse,
                MarkFailedWrite, IntentInsert, CancelWrite, Abandon
  <2>2. \E r : call' = [call EXCEPT ![b] = r]
    BY <2>1 DEF LifecycleRead, AdvanceRead, AdvanceFatal, MarkFailedRead,
                IntentRead, CancelRead, Begin, End
  <2>3. b = c
    BY <2>2 DEF TypeOK
  <2>4. date \in Nat /\ date <= date
    BY SessionAssumption DEF TypeOK
  <2> QED
    BY <2>1, <2>3, <2>4
    DEF LifecycleRead, AdvanceRead, AdvanceFatal, MarkFailedRead, IntentRead,
        CancelRead, Begin, End, Idle, TypeOK
<1>2. CASE Crash
  BY <1>2 DEF Crash, Idle
<1> QED
  BY <1>1, <1>2 DEF Next, SetFrozen, vars

(* The days known to requests, intents and orders stay behind the clock. *)
LEMMA BookkeepingStep ==
  TypeOK /\ Bookkeeping /\ ReplayProgress /\ [Next]_vars => Bookkeeping'
<1> SUFFICES ASSUME TypeOK, Bookkeeping, ReplayProgress, [Next]_vars
             PROVE  Bookkeeping'
  OBVIOUS
<1>1. date \in Nat /\ date' \in Nat /\ date <= date'
  BY QuietStep, CommitNextDay, SessionAssumption DEF TypeOK
<1>2. ASSUME NEW c \in Clients, call'[c].op \in {"advance", "intent"}
      PROVE  call'[c].day <= date'
  <2>1. call'[c] \in Call
    BY TypeStep DEF TypeOK
  <2>2. call'[c].day \in Nat
    BY <1>2, <2>1, CallShape, SessionAssumption DEF AdvanceCall, IntentCall, Days
  <2> QED
    BY <1>1, <1>2, <2>2, CallDays
<1>3. ASSUME NEW k \in Keys, advStatus'[k] = "NONE"
      PROVE  advDay'[k] = 0
  <2>1. ASSUME NEW c \in Clients, AdvanceCommit(c)
        PROVE  advStatus[k] = "NONE" /\ advDay'[k] = advDay[k]
    BY <2>1, <1>3, CallShape DEF AdvanceCommit, TypeOK, AdvanceCall
  <2>2. CASE UNCHANGED <<date, advDay, snapshots, submitted, fills>>
    <3>1. ASSUME NEW c \in Clients, Step(c), ~ AdvanceCommit(c)
          PROVE  advStatus'[k] = advStatus[k] \/ advStatus'[k] = "FAILED"
      BY <3>1
      DEF Step, LifecycleRead, LifecycleWrite, AdvanceRead, AdvanceRefuse,
          AdvanceFatal, MarkFailedRead, MarkFailedWrite, IntentRead,
          IntentInsert, CancelRead, CancelWrite, Abandon, TypeOK,
          advanceVars
    <3>2. advStatus[k] = "NONE"
      BY <3>1, <2>1, <1>3 DEF Next, SetFrozen, Crash, vars, advanceVars
    <3> QED
      BY <3>2, <2>2 DEF Bookkeeping
  <2> QED
    BY <2>1, <2>2, QuietStep DEF Bookkeeping
<1>4. ASSUME NEW i \in Intents
      PROVE  /\ orders'[i] = "INTENT" => signal'[i] <= date'
             /\ orders'[i] = "SUBMITTED" =>
                  /\ signal'[i] <= submitted'[i]
                  /\ 0 < submitted'[i] /\ submitted'[i] <= date'
  <2>1. /\ orders[i] = "INTENT" => signal[i] <= date
        /\ orders[i] = "SUBMITTED" =>
             /\ signal[i] <= submitted[i]
             /\ 0 < submitted[i] /\ submitted[i] <= date
        /\ signal[i] \in Nat /\ submitted[i] \in Nat
    BY SessionAssumption DEF Bookkeeping, Undecided, Open, TypeOK
  <2>2. CASE \E c \in Clients : AdvanceCommit(c)
    <3>1. PICK c \in Clients : AdvanceCommit(c)
      BY <2>2
    <3>2. Target(c) = date + 1 /\ date' = date + 1
      BY <3>1, CommitNextDay
    <3> QED
      BY <1>1, <2>1, <3>1, <3>2, CloseOne
  <2>3. CASE \A c \in Clients : ~ AdvanceCommit(c)
    <3>1. date' = date /\ submitted' = submitted
      BY <2>3, QuietStep
    <3>2. \A c \in Clients : call[c].op = "intent" => call[c].day <= date
      BY DEF Bookkeeping
    <3> QED
      BY <2>1, <2>3, <3>1, <3>2, QuietOne
  <2> QED
    BY <2>2, <2>3
<1> QED
  BY <1>2, <1>3, <1>4 DEF Bookkeeping, Undecided, Open

(* A new fill is on the day of the commit, of an order submitted before    *)
(* it; an old fill is not undone by a close, a cancellation or an insert.  *)
LEMMA FillsStep ==
  TypeOK /\ Bookkeeping /\ ReplayProgress /\ FillsFollowSubmission /\ [Next]_vars
    => FillsFollowSubmission'
<1> SUFFICES ASSUME TypeOK, Bookkeeping, ReplayProgress, FillsFollowSubmission,
                    [Next]_vars,
                    NEW f \in fills'
             PROVE  /\ f[2] = exec'[f[1]]
                    /\ f[2] <= date'
                    /\ signal'[f[1]] <= submitted'[f[1]]
                    /\ 0 < submitted'[f[1]] /\ submitted'[f[1]] < f[2]
                    /\ orders'[f[1]] \in {"FILLED", "EXPIRED", "CANCELLED"}
  BY DEF FillsFollowSubmission
<1>1. f \in Intents \X Days /\ f[1] \in Intents
  BY TypeStep DEF TypeOK
<1>2. date \in Nat /\ submitted[f[1]] \in Nat
  BY <1>1, SessionAssumption DEF TypeOK
<1>3. ASSUME NEW c \in Clients, AdvanceCommit(c)
      PROVE  /\ f[2] = exec'[f[1]]
             /\ f[2] <= date'
             /\ signal'[f[1]] <= submitted'[f[1]]
             /\ 0 < submitted'[f[1]] /\ submitted'[f[1]] < f[2]
             /\ orders'[f[1]] \in {"FILLED", "EXPIRED", "CANCELLED"}
  <2>1. Target(c) = date + 1 /\ date' = date + 1
    BY <1>3, CommitNextDay
  <2>2. CASE f \in fills
    <3>1. /\ f[2] = exec[f[1]] /\ f[2] <= date
          /\ signal[f[1]] <= submitted[f[1]]
          /\ 0 < submitted[f[1]] /\ submitted[f[1]] < f[2]
          /\ orders[f[1]] \in {"FILLED", "EXPIRED", "CANCELLED"}
      BY <2>2 DEF FillsFollowSubmission
    <3>2. f[2] \in Nat
      BY <1>1, SessionAssumption DEF Days
    <3> QED
      BY <1>1, <1>2, <1>3, <2>1, <3>1, <3>2, CloseOne
  <2>3. CASE f \notin fills
    <3>1. PICK out \in [Due(Target(c)) -> Outcome],
               new \in SUBSET {j \in StrategyKeys : orders[j] = "NONE"},
               approved \in SUBSET Intents,
               breach \in BOOLEAN : Close(c, out, new, approved, breach)
      BY <1>3 DEF AdvanceCommit
    <3>2. /\ f[2] = date + 1
          /\ f[1] \in Due(date + 1)
          /\ out[f[1]] \in {"FILLED", "PARTIALLY_FILLED"}
      BY <2>1, <2>3, <3>1 DEF Close
    <3>3. orders[f[1]] = "SUBMITTED" /\ exec[f[1]] = date + 1
      BY <3>2 DEF Due, Open
    <3>4. orders'[f[1]] \in {"FILLED", "EXPIRED"}
      BY <1>1, <2>1, <3>1, <3>2 DEF Close, StageAfter
    <3>5. /\ signal[f[1]] <= submitted[f[1]]
          /\ 0 < submitted[f[1]] /\ submitted[f[1]] <= date
      BY <1>1, <3>3 DEF Bookkeeping, Open
    <3> QED
      BY <1>1, <1>2, <1>3, <2>1, <3>2, <3>3, <3>4, <3>5, CloseOne
  <2> QED
    BY <2>2, <2>3
<1>4. CASE \A c \in Clients : ~ AdvanceCommit(c)
  <2>1. UNCHANGED <<date, submitted, fills>>
    BY <1>4, QuietStep
  <2>2. /\ f[2] = exec[f[1]] /\ f[2] <= date
        /\ signal[f[1]] <= submitted[f[1]]
        /\ 0 < submitted[f[1]] /\ submitted[f[1]] < f[2]
        /\ orders[f[1]] \in {"FILLED", "EXPIRED", "CANCELLED"}
    BY <2>1 DEF FillsFollowSubmission
  <2> QED
    BY <1>1, <1>4, <2>1, <2>2, QuietOne
<1> QED
  BY <1>3, <1>4

(* A commit that reaches the execution day of an order executes it. *)
LEMMA MissedStep ==
  TypeOK /\ Bookkeeping /\ ReplayProgress /\ NoMissedExecution /\ [Next]_vars
    => NoMissedExecution'
<1> SUFFICES ASSUME TypeOK, Bookkeeping, ReplayProgress, NoMissedExecution,
                    [Next]_vars,
                    NEW i \in Intents, orders'[i] = "SUBMITTED",
                    submitted'[i] < exec'[i]
             PROVE  date' < exec'[i]
  BY DEF NoMissedExecution, Open
<1>1. date \in Nat /\ exec[i] \in Nat /\ submitted[i] \in Nat
  BY SessionAssumption DEF TypeOK
<1>2. orders[i] = "SUBMITTED" /\ submitted[i] < exec[i] => date < exec[i]
  BY DEF NoMissedExecution, Open
<1>3. ASSUME NEW c \in Clients, AdvanceCommit(c)
      PROVE  date' < exec'[i]
  <2>1. Target(c) = date + 1 /\ date' = date + 1
    BY <1>3, CommitNextDay
  <2> QED
    BY <1>1, <1>2, <1>3, <2>1, CloseOne
<1>4. CASE \A c \in Clients : ~ AdvanceCommit(c)
  <2>1. UNCHANGED <<date, submitted>>
    BY <1>4, QuietStep
  <2> QED
    BY <1>2, <1>4, <2>1, QuietOne
<1> QED
  BY <1>3, <1>4

-----------------------------------------------------------------------------
(* Sets of intents are finite, so a subset counts no more than its set. *)
LEMMA CountIntents ==
  ASSUME NEW S \in SUBSET Intents, NEW T \in SUBSET S
  PROVE  /\ Cardinality(T) <= Cardinality(S)
         /\ Cardinality(S) \in Nat /\ Cardinality(T) \in Nat
<1>1. IsFiniteSet(Intents)
  BY SessionAssumption DEF Intents
<1>2. IsFiniteSet(S)
  BY <1>1, FS_Subset
<1>3. IsFiniteSet(T) /\ Cardinality(T) <= Cardinality(S)
  BY <1>2, FS_Subset
<1> QED
  BY <1>2, <1>3, FS_CardinalityType

(* A close approves only into free slots; no other step submits. *)
LEMMA OpenBoundStep ==
  TypeOK /\ OpenOrderBound /\ [Next]_vars => OpenOrderBound'
<1> SUFFICES ASSUME TypeOK, OpenOrderBound, [Next]_vars
             PROVE  OpenOrderBound'
  OBVIOUS
<1>1. Open \in SUBSET Intents /\ Open' \in SUBSET Intents
  BY DEF Open
<1>2. ASSUME NEW S \in SUBSET Intents, SlotsFor(S), Open' \subseteq S
      PROVE  OpenOrderBound'
  <2>1. PICK limit \in OpenOrderLimits : Cardinality(S) <= limit
    BY <1>2 DEF SlotsFor
  <2>2. Cardinality(Open') <= limit
    BY <1>2, <2>1, CountIntents, SessionAssumption
  <2> QED
    BY <2>2 DEF OpenOrderBound, SlotsFor
<1>q. ASSUME Open' \subseteq Open
      PROVE  OpenOrderBound'
  <2>1. CASE Open = {}
    BY <1>q, <2>1 DEF OpenOrderBound
  <2>2. CASE Open # {}
    BY <1>1, <1>2, <1>q, <2>2 DEF OpenOrderBound
  <2> QED
    BY <2>1, <2>2
<1>3. ASSUME NEW c \in Clients, AdvanceCommit(c)
      PROVE  OpenOrderBound'
  <2> DEFINE due == Due(Target(c))
  <2>1. PICK out \in [due -> Outcome],
             new \in SUBSET {j \in StrategyKeys : orders[j] = "NONE"},
             approved \in SUBSET Intents,
             breach \in BOOLEAN : Close(c, out, new, approved, breach)
    BY <1>3 DEF AdvanceCommit
  <2>2. Open' \subseteq (Open \ due) \cup approved
    BY <2>1 DEF Close, Open, StageAfter, Outcome, Undecided
  <2>3. CASE approved = {}
    BY <1>q, <2>2, <2>3
  <2>4. CASE approved # {}
    <3>1. SlotsFor((Open \ due) \cup approved)
      BY <2>1, <2>4 DEF Close, MayApprove
    <3>2. (Open \ due) \cup approved \in SUBSET Intents
      BY <1>1
    <3> QED
      BY <1>2, <2>2, <3>1, <3>2
  <2> QED
    BY <2>3, <2>4
<1>4. CASE \A c \in Clients : ~ AdvanceCommit(c)
  <2>1. \A i \in Intents : orders'[i] = "SUBMITTED" => orders[i] = "SUBMITTED"
    BY <1>4, QuietOne
  <2> QED
    BY <1>q, <2>1 DEF Open
<1> QED
  BY <1>3, <1>4

-----------------------------------------------------------------------------
(* The inductive invariant. *)
SessionInv ==
  /\ TypeOK
  /\ Bookkeeping
  /\ ReplayProgress
  /\ AdvanceLedger
  /\ FillsFollowSubmission
  /\ NoMissedExecution
  /\ OpenOrderBound

(* The inductive invariant holds of a new session. *)
LEMMA SessionInvInit == Init => SessionInv
<1> SUFFICES ASSUME Init PROVE SessionInv
  OBVIOUS
<1>1. TypeOK
  BY TypeInit
<1>2. Bookkeeping /\ ReplayProgress /\ AdvanceLedger
  BY SessionAssumption
  DEF Init, Bookkeeping, ReplayProgress, AdvanceLedger, Idle, Undecided, Open
<1>3. FillsFollowSubmission /\ NoMissedExecution
  BY DEF Init, FillsFollowSubmission, NoMissedExecution, Open
<1>4. Open = {}
  BY DEF Init, Open
<1>5. OpenOrderBound
  BY <1>4 DEF OpenOrderBound
<1> QED
  BY <1>1, <1>2, <1>3, <1>5 DEF SessionInv

(* Every step of the session service keeps the inductive invariant. *)
LEMMA SessionInvStep == SessionInv /\ [Next]_vars => SessionInv'
  BY TypeStep, BookkeepingStep, ProgressStep, LedgerStep, FillsStep,
     MissedStep, OpenBoundStep
  DEF SessionInv

(* The inductive invariant holds in every reachable state of the session   *)
(* service: advance, lifecycle, intent, cancel, freeze, failure and crash. *)
THEOREM SessionInvariant == Spec => []SessionInv
  BY SessionInvInit, SessionInvStep, PTL DEF Spec

(* advance_session never replays a day twice and never skips one, although *)
(* it selects the day outside its transaction.                             *)
THEOREM ReplayIsContiguous == Spec => []ReplayProgress
<1>1. SessionInv => ReplayProgress
  BY DEF SessionInv
<1> QED
  BY <1>1, SessionInvariant, PTL

(* Every processed day is credited to exactly one idempotency key.         *)
THEOREM KeysAdvanceOnce == Spec => []AdvanceLedger
<1>1. SessionInv => AdvanceLedger
  BY DEF SessionInv
<1> QED
  BY <1>1, SessionInvariant, PTL

(* _execute_pending fills an order on its execution day only, after the    *)
(* close that submitted it, and never twice.                               *)
THEOREM NoLookAhead == Spec => []FillsFollowSubmission
<1>1. SessionInv => FillsFollowSubmission
  BY DEF SessionInv
<1> QED
  BY <1>1, SessionInvariant, PTL

(* No advance passes the execution day of an order submitted in time.      *)
THEOREM NoOrderMissed == Spec => []NoMissedExecution
<1>1. SessionInv => NoMissedExecution
  BY DEF SessionInv
<1> QED
  BY <1>1, SessionInvariant, PTL

(* The risk check at the close keeps the orders pending within the largest *)
(* max_open_orders the policies have had, although a policy may be patched *)
(* to a lower one while orders are pending.                                *)
THEOREM OpenOrdersBounded == Spec => []OpenOrderBound
<1>1. SessionInv => OpenOrderBound
  BY DEF SessionInv
<1> QED
  BY <1>1, SessionInvariant, PTL

-----------------------------------------------------------------------------
(* Only a commit on an unfrozen account lets an order become pending. *)
LEMMA FrozenStep ==
  TypeOK /\ [Next]_vars => (frozen => Open' \subseteq Open)
<1> SUFFICES ASSUME TypeOK, [Next]_vars, frozen PROVE Open' \subseteq Open
  OBVIOUS
<1>1. ASSUME NEW c \in Clients, AdvanceCommit(c)
      PROVE  Open' \subseteq Open
  <2>1. PICK out \in [Due(Target(c)) -> Outcome],
             new \in SUBSET {j \in StrategyKeys : orders[j] = "NONE"},
             approved \in SUBSET Intents,
             breach \in BOOLEAN : Close(c, out, new, approved, breach)
    BY <1>1 DEF AdvanceCommit
  <2>2. approved = {}
    BY <2>1 DEF Close, MayApprove
  <2> QED
    BY <2>1, <2>2 DEF Close, Open, StageAfter, Outcome, Undecided
<1>2. CASE \A c \in Clients : ~ AdvanceCommit(c)
  BY <1>2, QuietOne DEF Open
<1> QED
  BY <1>1, <1>2

(* A frozen account submits no order, whichever requests overlap the       *)
(* freeze: RiskService.evaluate reads the account inside the transaction.  *)
THEOREM FrozenAccountIsQuiet == Spec => FrozenSubmitsNothing
<1>1. TypeOK /\ [Next]_vars => [frozen => Open' \subseteq Open]_vars
  BY FrozenStep
<1> QED
  BY <1>1, TypeCorrect, PTL DEF Spec, FrozenSubmitsNothing

(* The commit that freezes the account leaves no order of the session      *)
(* pending: each is executed, rejected or cancelled by it.                 *)
LEMMA FreezeStep ==
  TypeOK /\ [Next]_vars
    => (date' # date /\ ~frozen /\ frozen' => Open' = {})
<1> SUFFICES ASSUME TypeOK, [Next]_vars, date' # date, ~frozen, frozen'
             PROVE  Open' = {}
  OBVIOUS
<1>1. PICK c \in Clients : AdvanceCommit(c)
  BY QuietStep
<1>2. PICK out \in [Due(Target(c)) -> Outcome],
           new \in SUBSET {j \in StrategyKeys : orders[j] = "NONE"},
           approved \in SUBSET Intents,
           breach \in BOOLEAN : Close(c, out, new, approved, breach)
  BY <1>1 DEF AdvanceCommit
<1>3. breach /\ approved = {}
  BY <1>2 DEF Close, MayApprove
<1>4. \A i \in Intents : orders'[i] # "SUBMITTED"
  BY <1>2, <1>3 DEF Close, StageAfter, Outcome, Undecided
<1> QED
  BY <1>4 DEF Open

(* _close_phase cancels every pending order of the session in the very     *)
(* transaction that freezes the account.                                   *)
THEOREM FreezeCancels == Spec => RiskFreezeCancelsPending
<1>1. TypeOK /\ [Next]_vars
        => [date' # date /\ ~frozen /\ frozen' => Open' = {}]_vars
  BY FreezeStep
<1> QED
  BY <1>1, TypeCorrect, PTL DEF Spec, RiskFreezeCancelsPending

-----------------------------------------------------------------------------
(* A new session shows a clock at its start. *)
LEMMA ClockInitially == Init => Clock!ClockInit
  BY DEF Init, Clock!ClockInit

(* A commit ticks the clock, _mark_failed burns a key, the rest stutters. *)
LEMMA ClockStep ==
  SessionInv /\ [Next]_vars => [Clock!ClockNext]_(Clock!clockVars)
<1> SUFFICES ASSUME SessionInv, [Next]_vars
             PROVE  Clock!ClockNext \/ UNCHANGED Clock!clockVars
  OBVIOUS
<1>1. TypeOK /\ Bookkeeping /\ ReplayProgress
  BY DEF SessionInv
<1>2. ASSUME NEW c \in Clients, AdvanceCommit(c)
      PROVE  Clock!ClockNext
  <2>1. /\ call[c] \in AdvanceCall /\ call[c].key \in Keys
        /\ Target(c) = date + 1 /\ date' = date + 1 /\ date < LastDay
    BY <1>1, <1>2, CommitNextDay DEF AdvanceCall
  <2>2. advStatus[call[c].key] = "NONE" /\ advDay[call[c].key] = 0
    BY <1>1, <1>2, <2>1 DEF AdvanceCommit, Admissible, Bookkeeping
  <2>3. /\ advStatus' = [advStatus EXCEPT ![call[c].key] = "COMPLETED"]
        /\ advDay' = [advDay EXCEPT ![call[c].key] = date + 1]
    BY <1>2, <2>1 DEF AdvanceCommit
  <2>4. {k \in Keys : advStatus'[k] = "FAILED"} = {k \in Keys : advStatus[k] = "FAILED"}
    BY <1>1, <2>1, <2>2, <2>3 DEF TypeOK
  <2>5. Clock!Tick(call[c].key)
    BY <2>1, <2>2, <2>3, <2>4 DEF Clock!Tick
  <2> QED
    BY <2>1, <2>5 DEF Clock!ClockNext
<1>3. ASSUME NEW c \in Clients, MarkFailedWrite(c)
      PROVE  Clock!ClockNext
  <2>1. PICK k \in Keys : k = call[c].key
    BY <1>1, <1>3, CallShape DEF MarkFailedWrite, TypeOK, MarkCall
  <2>2. {j \in Keys : advStatus'[j] = "FAILED"}
          = {j \in Keys : advStatus[j] = "FAILED"} \cup {k}
    BY <1>1, <1>3, <2>1 DEF MarkFailedWrite, TypeOK
  <2>3. Clock!Burn(k)
    BY <1>3, <2>2 DEF Clock!Burn, MarkFailedWrite
  <2> QED
    BY <2>3 DEF Clock!ClockNext
<1>4. ASSUME \A c \in Clients : ~ AdvanceCommit(c) /\ ~ MarkFailedWrite(c)
      PROVE  UNCHANGED Clock!clockVars
  <2>1. UNCHANGED <<date, advDay>>
    BY <1>4, QuietStep
  <2>2. ASSUME NEW c \in Clients, Step(c) PROVE UNCHANGED advStatus
    BY <1>4, <2>2
    DEF Step, LifecycleRead, LifecycleWrite, AdvanceRead, AdvanceRefuse,
        AdvanceFatal, MarkFailedRead, IntentRead, IntentInsert, CancelRead,
        CancelWrite, Abandon, advanceVars
  <2>3. UNCHANGED advStatus
    BY <2>2 DEF Next, SetFrozen, Crash, vars, advanceVars
  <2> QED
    BY <2>1, <2>3 DEF Clock!clockVars
<1> QED
  BY <1>2, <1>3, <1>4

(* The session service implements the replay clock of ReplayClock.tla.     *)
THEOREM SessionImplementsClock == Spec => ReplaysAsClock
  BY ClockInitially, ClockStep, SessionInvariant, PTL
  DEF Spec, ReplaysAsClock, Clock!ClockSpec

-----------------------------------------------------------------------------
(* The paper account: its invariant.                                        *)

(* Lots are rows of a table: finitely many, each with an id of its own,     *)
(* which can be sold after the day they were bought unless the buyer's      *)
(* calendar ends with it.  An open transaction is on an open day of its     *)
(* session, and can go back to a book that is as good as the present one.   *)
SellableLater(l) ==
  \/ l.acquired < l.sellableFrom
  \/ l.acquired = l.sellableFrom /\ CalendarEnds(l.acquired)

LotsInv(L) ==
  /\ L \subseteq Lot /\ IsFiniteSet(L)
  /\ \A k, l \in L : k.id = l.id => k = l
  /\ \A l \in L : l.remaining <= l.quantity /\ SellableLater(l)

BookInv(money, L, result, totals) ==
  /\ money \in Nat /\ result \in Int /\ totals \in Fills
  /\ LotsInv(L)
  /\ money + AtCost(L) = InitialCash + result - totals.buyFees
  /\ Held(L) = totals.bought - totals.sold

OpenTx == [open : {TRUE}, session : Sessions, day : 1 .. MaxDay, cash : Nat,
           lots : SUBSET Lot, realized : Int, traded : Fills]

AccountInv ==
  /\ day \in [Sessions -> 0 .. MaxDay]
  /\ BookInv(cash, lots, realized, traded)
  /\ tx \in {NoTx} \cup OpenTx
  /\ tx.open => /\ BookInv(tx.cash, tx.lots, tx.realized, tx.traded)
                /\ tx.day \in OpenDays[tx.session]

-----------------------------------------------------------------------------
(* The sums over lots.                                                      *)

Left == [l \in Lot |-> l.remaining]
Value == [l \in Lot |-> l.remaining * l.cost]

LEMMA NatTimes == \A a, b \in Nat : a * b \in Nat
OBVIOUS

LEMMA LotFields ==
  ASSUME AccountAssumption, NEW l \in Lot
  PROVE  /\ l.remaining \in Nat /\ l.cost \in Nat /\ l.quantity \in Nat /\ l.id \in Int
         /\ l.acquired \in 1 .. MaxDay /\ l.sellableFrom \in 1 .. MaxDay
         /\ Left[l] = l.remaining /\ Left[l] \in Nat
         /\ Value[l] = l.remaining * l.cost /\ Value[l] \in Nat
<1>1. /\ l.remaining \in Nat /\ l.cost \in Nat /\ l.quantity \in Nat /\ l.id \in Int
      /\ l.acquired \in 1 .. MaxDay /\ l.sellableFrom \in 1 .. MaxDay
  <2>1. /\ l.id \in LotIds /\ l.acquired \in 1 .. MaxDay
        /\ l.sellableFrom \in 1 .. MaxDay
        /\ l.quantity \in 1 .. MaxQuantity /\ l.remaining \in 0 .. MaxQuantity /\ l.cost \in Prices
    BY DEF Lot
  <2>2. LotIds \subseteq Int /\ MaxQuantity \in Nat /\ Prices \subseteq Nat
    BY DEF AccountAssumption
  <2>3. l.cost \in Nat /\ l.id \in Int
    BY <2>1, <2>2, Zenon
  <2>4. \A n \in 0 .. MaxQuantity : n \in Nat
    BY <2>2
  <2>5. \A n \in 1 .. MaxQuantity : n \in Nat
    BY <2>2
  <2>6. l.quantity \in Nat /\ l.remaining \in Nat
    BY <2>1, <2>4, <2>5, Zenon
  <2> QED BY <2>1, <2>3, <2>6, Zenon
<1>2. l.remaining * l.cost \in Nat
  BY <1>1, NatTimes
<1> QED
  BY <1>1, <1>2 DEF Left, Value

LEMMA LotSums ==
  ASSUME AccountAssumption, NEW L \in SUBSET Lot, IsFiniteSet(L)
  PROVE  /\ Held(L) = SumFunctionOnSet(Left, L) /\ Held(L) \in Nat
         /\ AtCost(L) = SumFunctionOnSet(Value, L) /\ AtCost(L) \in Nat
         /\ \A K \in SUBSET L : Held(K) <= Held(L)
<1>1. \A l \in L : Left[l] \in Nat /\ Value[l] \in Nat
  BY LotFields
<1>2. ASSUME NEW K \in SUBSET L
      PROVE  Held(K) = SumFunctionOnSet(Left, K)
  <2>. DEFINE left == [l \in K |-> l.remaining]
  <2>1. Held(K) = SumFunctionOnSet(left, K)
    BY DEF Held, SumFunction
  <2>2. \A l \in K : Left[l] \in Int /\ left[l] = Left[l]
    BY LotFields
  <2>3. IsFiniteSet(K)
    BY FS_Subset
  <2> HIDE DEF left
  <2> QED BY <2>1, <2>2, <2>3, SumSame
<1>3. AtCost(L) = SumFunctionOnSet(Value, L)
  <2>. DEFINE value == [l \in L |-> l.remaining * l.cost]
  <2>1. AtCost(L) = SumFunctionOnSet(value, L)
    BY DEF AtCost, SumFunction
  <2>2. \A l \in L : Value[l] \in Int /\ value[l] = Value[l]
    BY LotFields
  <2> HIDE DEF value
  <2> QED BY <2>1, <2>2, SumSame
<1>4. \A K \in SUBSET L : Held(K) <= Held(L)
  BY <1>1, <1>2, SumPart
<1> QED
  BY <1>1, <1>2, <1>3, <1>4, SumPart

(* A lot more. *)
LEMMA LotAdded ==
  ASSUME AccountAssumption, NEW L \in SUBSET Lot, IsFiniteSet(L), NEW l \in Lot, l \notin L
  PROVE  /\ IsFiniteSet(L \cup {l})
         /\ Held(L \cup {l}) = l.remaining + Held(L)
         /\ AtCost(L \cup {l}) = l.remaining * l.cost + AtCost(L)
<1>1. L \cup {l} \in SUBSET Lot /\ IsFiniteSet(L \cup {l})
  BY FS_AddElement
<1>2. \A k \in L \cup {l} : Left[k] \in Int /\ Value[k] \in Int
  BY <1>1, LotFields
<1>3. /\ SumFunctionOnSet(Left, L \cup {l}) = Left[l] + SumFunctionOnSet(Left, L)
      /\ SumFunctionOnSet(Value, L \cup {l}) = Value[l] + SumFunctionOnSet(Value, L)
  BY <1>2, SumAdd
<1> QED
  BY <1>1, <1>3, LotSums, LotFields

-----------------------------------------------------------------------------
(* What a sale takes from each lot.                                         *)

LEMMA EarlierOrder ==
  ASSUME AccountAssumption, LotsInv(lots)
  PROVE  /\ \A k \in lots : ~ Earlier(k, k)
         /\ \A k, l \in lots : k = l \/ Earlier(k, l) \/ Earlier(l, k)
         /\ \A j, k, l \in lots : Earlier(j, k) /\ Earlier(k, l) => Earlier(j, l)
         /\ \A k, l \in lots : Earlier(k, l) => ~ Earlier(l, k)
<1>1. \A l \in lots : l.acquired \in Int /\ l.id \in Int
  <2>1. \A l \in lots : l \in Lot
    BY DEF LotsInv
  <2> QED BY <2>1, LotFields
<1> QED
  BY <1>1 DEF LotsInv, Earlier

LEMMA TakenBounds ==
  ASSUME AccountAssumption, LotsInv(lots), NEW l \in lots, NEW q \in Nat
  PROVE  /\ Before(l) \in Nat
         /\ Taken(l, q) \in 0 .. l.remaining
         /\ Taken(l, q) > 0 => Before(l) < q
         /\ Before(l) + l.remaining < q => Taken(l, q) = l.remaining
<1>1. l.remaining \in Nat
  BY LotFields DEF LotsInv
<1>2. Before(l) \in Nat
  <2>. DEFINE K == {k \in lots : Earlier(k, l)}
  <2>1. K \in SUBSET Lot /\ IsFiniteSet(K)
    BY FS_Subset DEF LotsInv
  <2> QED BY <2>1, LotSums DEF Before
<1>. HIDE DEF Before
<1> QED
  BY <1>1, <1>2 DEF Taken

(* The lots that are older than one add up to no more than what is before   *)
(* it, its own shares come after them.                                      *)
LEMMA BeforeGrows ==
  ASSUME AccountAssumption, LotsInv(lots), NEW k \in lots, NEW l \in lots, Earlier(k, l)
  PROVE  Before(k) + k.remaining <= Before(l)
<1>. DEFINE K == {j \in lots : Earlier(j, k)}
            L == {j \in lots : Earlier(j, l)}
<1>1. K \cup {k} \subseteq L /\ k \notin K
  BY EarlierOrder
<1>2. K \in SUBSET Lot /\ L \in SUBSET Lot /\ IsFiniteSet(K) /\ IsFiniteSet(L) /\ k \in Lot
  BY FS_Subset DEF LotsInv
<1>3. Before(k) = Held(K) /\ Before(l) = Held(L)
  BY DEF Before
<1>. HIDE DEF K, L
<1>4. Held(K \cup {k}) <= Held(L)
  BY <1>1, <1>2, LotSums
<1>5. Held(K \cup {k}) = k.remaining + Held(K)
  BY <1>1, <1>2, LotAdded
<1>6. Held(K) \in Nat /\ Held(L) \in Nat /\ k.remaining \in Nat
  BY <1>2, LotSums, LotFields
<1> QED
  BY <1>3, <1>4, <1>5, <1>6

(* Of some lots one is the last. *)
LEMMA LastLot ==
  ASSUME AccountAssumption, LotsInv(lots), NEW D \in SUBSET lots, D # {}
  PROVE  \E l \in D : \A k \in D \ {l} : Earlier(k, l)
<1>. DEFINE later(l) == {k \in D : Earlier(l, k)}
<1>1. PICK l \in D : \A k \in D : later(k) \subseteq later(l) => later(k) = later(l)
  <2>. DEFINE G == {later(l) : l \in D}
  <2>1. G \in SUBSET SUBSET D /\ G # {}
    <3>1. \A l \in D : later(l) \subseteq D
      OBVIOUS
    <3> HIDE DEF later
    <3> QED BY <3>1
  <2>2. IsFiniteSet(D)
    BY FS_Subset DEF LotsInv
  <2>3. PICK T \in G : \A U \in G : U \subseteq T => U = T
    <3> HIDE DEF G
    <3> QED BY <2>1, <2>2, SmallestSubset
  <2>4. PICK l \in D : T = later(l)
    BY <2>3
  <2>5. \A k \in D : later(k) \in G
    OBVIOUS
  <2> HIDE DEF G, later
  <2> QED BY <2>3, <2>4, <2>5
<1>2. later(l) = {}
  <2>1. SUFFICES ASSUME NEW k \in later(l) PROVE FALSE
    OBVIOUS
  <2>2. later(k) \subseteq later(l) /\ k \notin later(k) /\ k \in D
    BY <2>1, EarlierOrder
  <2> QED BY <1>1, <2>1, <2>2
<1>3. \A k \in D \ {l} : Earlier(k, l)
  BY <1>2, EarlierOrder
<1> QED
  BY <1>3

(* All that is taken is what is sold.  The lots up to any one of them give  *)
(* what is sold, as far as they have it.                                    *)
LEMMA TakenAddsUp ==
  ASSUME AccountAssumption, LotsInv(lots), NEW q \in Nat, q <= Held(lots)
  PROVE  SumFunctionOnSet([l \in lots |-> Taken(l, q)], lots) = q
<1>. DEFINE taken == [l \in lots |-> Taken(l, q)]
            sum(D) == SumFunctionOnSet(taken, D)
            Least(a, b) == IF a <= b THEN a ELSE b
            Good(D) == sum(D) = Least(q, Held(D))
            Down(D) == \A l \in D, k \in lots : Earlier(k, l) => k \in D
            Bad == {D \in SUBSET lots : Down(D) /\ ~ Good(D)}
<1>0. IsFiniteSet(lots) /\ lots \in SUBSET Lot
  BY DEF LotsInv
<1>1. Good(lots)
  <2>1. SUFFICES ASSUME lots \in Bad PROVE FALSE
    OBVIOUS
  <2>2. PICK D \in Bad : \A E \in Bad : E \subseteq D => E = D
    <3>1. Bad \in SUBSET SUBSET lots /\ Bad # {}
      BY <2>1
    <3> HIDE DEF Bad
    <3> QED BY <3>1, <1>0, SmallestSubset
  <2>3. D \in SUBSET lots /\ Down(D) /\ ~ Good(D) /\ IsFiniteSet(D)
    <3> HIDE DEF Good, Down
    <3> QED BY <2>2, <1>0, FS_Subset
  <2>4. CASE D = {}
    <3>1. sum(D) = 0
      BY <2>4, SumEmpty
    <3>2. Held(D) = 0
      <4>1. D \in SUBSET Lot
        BY <2>4
      <4> QED BY <2>3, <2>4, <4>1, LotSums, SumEmpty
    <3> QED BY <3>1, <3>2, <2>3
  <2>5. CASE D # {}
    <3>1. PICK l \in D : \A k \in D \ {l} : Earlier(k, l)
      BY <2>3, <2>5, LastLot
    <3>. DEFINE E == D \ {l}
    <3>2. l \in lots /\ E \in SUBSET lots /\ E # D /\ E \subseteq D /\ l \notin E /\ D = E \cup {l}
      BY <2>3
    <3>3. E = {k \in lots : Earlier(k, l)}
      BY <3>1, <3>2, <2>3, EarlierOrder
    <3>4. Down(E)
      BY <3>1, <3>2, <3>3, <2>3, EarlierOrder
    <3>5. Good(E)
      <4> HIDE DEF Good, Down, E
      <4> QED BY <2>2, <3>2, <3>4
    <3>6. Held(E) = Before(l)
      BY <3>3 DEF Before
    <3>. HIDE DEF E
    <3>7. Held(D) = l.remaining + Held(E)
      <4>1. E \in SUBSET Lot /\ IsFiniteSet(E) /\ l \in Lot
        BY <1>0, <3>2, FS_Subset
      <4> QED BY <4>1, <3>2, LotAdded
    <3>8. sum(D) = taken[l] + sum(E)
      <4>1. \A k \in D : taken[k] \in Int
        <5>1. \A k \in lots : k.remaining \in Nat /\ Taken(k, q) \in 0 .. k.remaining
          BY TakenBounds, LotFields, <1>0
        <5> QED BY <5>1, <2>3
      <4> HIDE DEF taken
      <4> QED BY <4>1, <2>3, SumRemove DEF E
    <3>9. l.remaining \in Nat /\ Before(l) \in Nat
      BY TakenBounds, LotFields, <1>0, <3>2
    <3>10. taken[l] = Taken(l, q)
      BY <3>2
    <3>. HIDE DEF taken, sum
    <3>11. sum(D) = Least(q, Held(D))
      BY <3>5, <3>6, <3>7, <3>8, <3>9, <3>10 DEF Taken
    <3> QED BY <3>11, <2>3
  <2> QED BY <2>4, <2>5
<1>2. Held(lots) \in Nat
  BY <1>0, LotSums
<1> HIDE DEF taken
<1>3. sum(lots) = q
  BY <1>1, <1>2
<1> QED
  BY <1>3 DEF taken

-----------------------------------------------------------------------------
(* The steps.                                                               *)

LEMMA OpenFields ==
  ASSUME AccountInv, tx.open
  PROVE  tx \in OpenTx /\ tx.session \in Sessions /\ tx.day \in 1 .. MaxDay
<1>1. tx \in OpenTx
  <2>1. ~ NoTx.open
    BY DEF NoTx
  <2> QED BY <2>1 DEF AccountInv
<1> QED
  BY <1>1 DEF OpenTx

LEMMA BuyStep ==
  ASSUME AccountAssumption, AccountInv, NEW s \in Sessions, NEW q \in 1 .. MaxQuantity,
         NEW p \in Prices, NEW fee \in Fees, traded.count < MaxFills, ExecuteBuy(s, q, p, fee)
  PROVE  AccountInv'
<1>1. /\ q \in Nat /\ p \in Nat /\ fee \in Nat /\ q * p \in Nat
      /\ MaxQuantity \in Nat /\ MaxDay \in Nat /\ MaxFills \in Nat
  <2>1. q \in Nat /\ p \in Nat /\ fee \in Nat
    BY DEF AccountAssumption
  <2> QED BY <2>1, NatTimes DEF AccountAssumption
<1>2. tx \in OpenTx /\ tx.open
  BY DEF AccountInv, ExecuteBuy, Trading, NoTx
<1>3. PICK id \in LotIds \ {l.id : l \in lots}, from \in OpenDays[s] :
        /\ SellableFrom(s, tx.day, from)
        /\ lots' = lots \cup {[id |-> id, acquired |-> tx.day, sellableFrom |-> from,
                               quantity |-> q, remaining |-> q, cost |-> p]}
  BY DEF ExecuteBuy
<1>. DEFINE new == [id |-> id, acquired |-> tx.day, sellableFrom |-> from,
                    quantity |-> q, remaining |-> q, cost |-> p]
<1>4. LotsInv(lots) /\ lots \in SUBSET Lot /\ IsFiniteSet(lots)
  BY DEF AccountInv, BookInv, LotsInv
<1>5. /\ tx.day \in 1 .. MaxDay /\ from \in 1 .. MaxDay
      /\ tx.session = s /\ tx.day \in OpenDays[s]
      /\ OpenDays[s] \subseteq 1 .. MaxDay
  BY <1>2 DEF OpenTx, AccountInv, ExecuteBuy, Trading, AccountAssumption
<1>6. new \in Lot
  BY <1>1, <1>5 DEF Lot
<1>7. /\ new.id = id /\ new.remaining = q /\ new.quantity = q /\ new.cost = p
      /\ SellableLater(new)
  <2>1. tx.day < from \/ (tx.day = from /\ CalendarEnds(tx.day))
    <3>1. CASE \E e \in OpenDays[s] : tx.day < e
      BY <1>3, <3>1 DEF SellableFrom, FirstAfter
    <3>2. CASE ~ \E e \in OpenDays[s] : tx.day < e
      <4>1. \A e \in OpenDays[s] : e \in Int /\ ~ tx.day < e /\ tx.day \in Int
        BY <1>5, <3>2
      <4>2. CalendarEnds(tx.day)
        BY <1>5, <4>1 DEF CalendarEnds
      <4> QED BY <1>3, <3>2, <4>2 DEF SellableFrom
    <3> QED BY <3>1, <3>2
  <2> QED BY <2>1 DEF SellableLater
<1>8. new \notin lots /\ \A l \in lots : l.id # new.id
  BY <1>3
<1>9. lots' = lots \cup {new}
  BY <1>3
<1>. HIDE DEF new
<1>10. LotsInv(lots')
  <2>1. lots' \subseteq Lot /\ IsFiniteSet(lots')
    BY <1>4, <1>6, <1>8, <1>9, LotAdded
  <2>2. \A k, l \in lots' : k.id = l.id => k = l
    BY <1>4, <1>8, <1>9 DEF LotsInv
  <2>3. \A l \in lots' : l.remaining <= l.quantity /\ SellableLater(l)
    BY <1>1, <1>4, <1>7, <1>9 DEF LotsInv
  <2> QED BY <2>1, <2>2, <2>3 DEF LotsInv
<1>11. Held(lots') = q + Held(lots) /\ AtCost(lots') = q * p + AtCost(lots)
  BY <1>4, <1>6, <1>7, <1>8, <1>9, LotAdded
<1>12. Held(lots) \in Nat /\ AtCost(lots) \in Nat
  BY <1>4, LotSums
<1>13. BookInv(cash', lots', realized', traded')
  <2>1. /\ cash' = cash - (q * p + fee) /\ q * p + fee <= cash
        /\ realized' = realized
        /\ traded' = [traded EXCEPT !.bought = @ + q, !.buyFees = @ + fee, !.count = @ + 1]
    BY DEF ExecuteBuy
  <2>2. /\ cash \in Nat /\ realized \in Int /\ traded \in Fills
        /\ cash + AtCost(lots) = InitialCash + realized - traded.buyFees
        /\ Held(lots) = traded.bought - traded.sold
    BY DEF AccountInv, BookInv
  <2>3. traded.bought \in Nat /\ traded.sold \in Nat /\ traded.buyFees \in Nat
        /\ traded.count \in 0 .. MaxFills
    BY <2>2 DEF Fills
  <2>4. /\ traded'.bought = traded.bought + q /\ traded'.sold = traded.sold
        /\ traded'.buyFees = traded.buyFees + fee
        /\ traded' \in Fills
    <3>1. traded' = [bought |-> traded.bought + q, sold |-> traded.sold,
                     buyFees |-> traded.buyFees + fee, count |-> traded.count + 1]
      BY <2>1, <2>2 DEF Fills
    <3>2. traded.bought + q \in Nat /\ traded.buyFees + fee \in Nat
          /\ traded.count + 1 \in 0 .. MaxFills
      BY <1>1, <2>3
    <3> QED BY <2>3, <3>1, <3>2 DEF Fills
  <2>5. cash' \in Nat /\ realized' \in Int
    BY <1>1, <2>1, <2>2
  <2>6. cash' + AtCost(lots') = InitialCash + realized' - traded'.buyFees
    <3>1. InitialCash \in Nat
      BY DEF AccountAssumption
    <3>2. \A c, a, i, r, b, n, x \in Int :
            c + a = i + r - b => (c - (n + x)) + (n + a) = i + r - (b + x)
      OBVIOUS
    <3>3. (cash - (q * p + fee)) + (q * p + AtCost(lots))
             = InitialCash + realized - (traded.buyFees + fee)
      BY <1>1, <1>12, <2>2, <2>3, <3>1, <3>2
    <3> QED BY <1>11, <2>1, <2>4, <3>3
  <2>7. Held(lots') = traded'.bought - traded'.sold
    BY <1>1, <1>11, <1>12, <2>2, <2>3, <2>4
  <2> QED BY <1>10, <2>4, <2>5, <2>6, <2>7 DEF BookInv
<1> QED
  BY <1>13 DEF AccountInv, ExecuteBuy

(* A sale leaves each lot with what it does not take from it. *)
Rest(l, q) == [l EXCEPT !.remaining = @ - Taken(l, q)]

LEMMA RestFields ==
  ASSUME AccountAssumption, LotsInv(lots), NEW l \in lots, NEW q \in Nat
  PROVE  /\ Rest(l, q) \in Lot
         /\ Rest(l, q).id = l.id /\ Rest(l, q).acquired = l.acquired
         /\ Rest(l, q).sellableFrom = l.sellableFrom /\ Rest(l, q).cost = l.cost
         /\ Rest(l, q).quantity = l.quantity
         /\ Rest(l, q).remaining = l.remaining - Taken(l, q)
<1>1. l \in Lot /\ l.remaining \in 0 .. MaxQuantity /\ Taken(l, q) \in 0 .. l.remaining
  BY TakenBounds DEF LotsInv, Lot
<1>2. MaxQuantity \in Nat
  BY DEF AccountAssumption
<1>3. l.remaining - Taken(l, q) \in 0 .. MaxQuantity
  BY <1>1, <1>2
<1> QED
  BY <1>1, <1>3 DEF Rest, Lot

LEMMA SellLots ==
  ASSUME AccountAssumption, LotsInv(lots), NEW q \in Nat, q <= Held(lots),
         lots' = {Rest(l, q) : l \in lots}
  PROVE  /\ LotsInv(lots')
         /\ Held(lots') = Held(lots) - q
         /\ AtCost(lots') = AtCost(lots) - CostBasis(q)
         /\ CostBasis(q) \in Int
<1>1. lots \in SUBSET Lot /\ IsFiniteSet(lots)
  BY DEF LotsInv
<1>2. \A k, l \in lots : Rest(k, q) = Rest(l, q) => k = l
  BY RestFields DEF LotsInv
<1>3. IsFiniteSet(lots')
  <2>1. [l \in lots |-> Rest(l, q)] \in Surjection(lots, lots')
    BY DEF Surjection
  <2> QED BY <1>1, <2>1, FS_Surjection
<1>4. LotsInv(lots')
  <2>1. lots' \subseteq Lot
    BY RestFields
  <2>2. \A k, l \in lots' : k.id = l.id => k = l
    BY RestFields DEF LotsInv
  <2>3. \A l \in lots' : l.remaining <= l.quantity /\ SellableLater(l)
    <3>1. SUFFICES ASSUME NEW l \in lots
                   PROVE  /\ Rest(l, q).remaining <= Rest(l, q).quantity
                          /\ SellableLater(Rest(l, q))
      OBVIOUS
    <3>2. l.remaining <= l.quantity /\ l.remaining \in Nat /\ l.quantity \in Nat
      BY <1>1, LotFields DEF LotsInv
    <3>3. Taken(l, q) \in 0 .. l.remaining
      BY TakenBounds
    <3>4. SellableLater(Rest(l, q))
      BY RestFields DEF LotsInv, SellableLater
    <3> QED BY <3>2, <3>3, <3>4, RestFields
  <2> QED BY <1>3, <2>1, <2>2, <2>3 DEF LotsInv
<1>. DEFINE like == [l \in lots |-> Rest(l, q)]
            taken == [l \in lots |-> Taken(l, q)]
            basis == [l \in lots |-> Taken(l, q) * l.cost]
<1>5. /\ \A k, l \in lots : like[k] = like[l] => k = l
      /\ lots' = {like[l] : l \in lots}
  BY <1>2
<1>6. \A l \in lots : /\ Left[l] \in Int /\ taken[l] \in Int
                      /\ Left[like[l]] = Left[l] - taken[l]
                      /\ Value[l] \in Int /\ basis[l] \in Int
                      /\ Value[like[l]] = Value[l] - basis[l]
  <2>1. SUFFICES ASSUME NEW l \in lots
                 PROVE  /\ Left[l] \in Int /\ taken[l] \in Int
                        /\ Left[like[l]] = Left[l] - taken[l]
                        /\ Value[l] \in Int /\ basis[l] \in Int
                        /\ Value[like[l]] = Value[l] - basis[l]
    OBVIOUS
  <2>2. l \in Lot /\ Rest(l, q) \in Lot
    BY <1>1, RestFields
  <2>3. /\ Left[l] = l.remaining /\ Value[l] = l.remaining * l.cost
        /\ Left[Rest(l, q)] = Rest(l, q).remaining
        /\ Value[Rest(l, q)] = Rest(l, q).remaining * Rest(l, q).cost
        /\ l.remaining \in Nat /\ l.cost \in Nat
    BY <2>2, LotFields
  <2>4. Rest(l, q).remaining = l.remaining - Taken(l, q) /\ Rest(l, q).cost = l.cost
    BY RestFields
  <2>5. Taken(l, q) \in Nat
    BY <2>3, TakenBounds
  <2>6. \A r, t, c \in Nat : (r - t) * c = r * c - t * c /\ r * c \in Nat /\ t * c \in Nat
    OBVIOUS
  <2> QED BY <2>3, <2>4, <2>5, <2>6
<1>7. CostBasis(q) = SumFunctionOnSet(basis, lots)
  BY DEF CostBasis, SumFunction
<1>8. SumFunctionOnSet(taken, lots) = q
  BY TakenAddsUp
<1>. HIDE DEF like, taken, basis
<1>9. /\ SumFunctionOnSet(Left, lots') = SumFunctionOnSet(Left, lots) - SumFunctionOnSet(taken, lots)
      /\ SumFunctionOnSet(Value, lots') = SumFunctionOnSet(Value, lots) - SumFunctionOnSet(basis, lots)
  <2>1. SumFunctionOnSet(Left, {like[l] : l \in lots})
          = SumFunctionOnSet(Left, lots) - SumFunctionOnSet(taken, lots)
    <3>1. \A l \in lots : Left[l] \in Int /\ taken[l] \in Int /\ Left[like[l]] = Left[l] - taken[l]
      BY <1>6
    <3>2. \A k, l \in lots : like[k] = like[l] => k = l
      BY <1>5
    <3> QED BY ONLY <1>1, <3>1, <3>2, SumLike
  <2>2. SumFunctionOnSet(Value, {like[l] : l \in lots})
          = SumFunctionOnSet(Value, lots) - SumFunctionOnSet(basis, lots)
    <3>1. \A l \in lots : Value[l] \in Int /\ basis[l] \in Int /\ Value[like[l]] = Value[l] - basis[l]
      BY <1>6
    <3>2. \A k, l \in lots : like[k] = like[l] => k = l
      BY <1>5
    <3> QED BY ONLY <1>1, <3>1, <3>2, SumLike
  <2>3. lots' = {like[l] : l \in lots}
    BY <1>5
  <2> QED BY <2>1, <2>2, <2>3, Zenon
<1>10. CostBasis(q) \in Int
  BY <1>1, <1>6, <1>7, SumRemove
<1>11. /\ Held(lots') = SumFunctionOnSet(Left, lots') /\ Held(lots) = SumFunctionOnSet(Left, lots)
       /\ AtCost(lots') = SumFunctionOnSet(Value, lots') /\ AtCost(lots) = SumFunctionOnSet(Value, lots)
  <2>1. lots' \in SUBSET Lot /\ IsFiniteSet(lots')
    BY <1>4 DEF LotsInv
  <2> QED BY <1>1, <2>1, LotSums
<1> QED
  BY <1>4, <1>7, <1>8, <1>9, <1>10, <1>11

LEMMA SellStep ==
  ASSUME AccountAssumption, AccountInv, NEW s \in Sessions, NEW r \in 1 .. MaxQuantity,
         NEW q \in 1 .. MaxQuantity, NEW p \in Prices, NEW fee \in Fees,
         traded.count < MaxFills, ExecuteSell(s, r, q, p, fee)
  PROVE  AccountInv'
<1>1. /\ r \in Nat /\ q \in Nat /\ p \in Nat /\ fee \in Nat /\ q * p \in Nat
      /\ MaxFills \in Nat /\ InitialCash \in Nat
  <2>1. r \in Nat /\ q \in Nat /\ p \in Nat /\ fee \in Nat
    BY DEF AccountAssumption
  <2> QED BY <2>1, NatTimes DEF AccountAssumption
<1>2. /\ cash \in Nat /\ realized \in Int /\ traded \in Fills /\ LotsInv(lots)
      /\ cash + AtCost(lots) = InitialCash + realized - traded.buyFees
      /\ Held(lots) = traded.bought - traded.sold
  BY DEF AccountInv, BookInv
<1>3. lots \in SUBSET Lot /\ IsFiniteSet(lots)
  BY <1>2 DEF LotsInv
<1>4. Held(lots) \in Nat /\ AtCost(lots) \in Nat
  BY <1>3, LotSums
<1>5. q <= Held(lots)
  <2>1. Sellable \in SUBSET lots
    BY DEF Sellable
  <2>2. Held(Sellable) <= Held(lots) /\ Held(Sellable) \in Nat
    <3>1. Sellable \in SUBSET Lot /\ IsFiniteSet(Sellable)
      BY <1>3, <2>1, FS_Subset
    <3> QED BY <1>3, <2>1, <3>1, LotSums
  <2>3. q <= r /\ r <= Held(Sellable)
    BY DEF ExecuteSell
  <2> QED BY <1>1, <1>4, <2>2, <2>3
<1>6. /\ LotsInv(lots')
      /\ Held(lots') = Held(lots) - q
      /\ AtCost(lots') = AtCost(lots) - CostBasis(q)
      /\ CostBasis(q) \in Int
  <2>1. lots' = {Rest(l, q) : l \in lots}
    BY DEF ExecuteSell, Rest
  <2> QED BY <1>1, <1>2, <1>5, <2>1, SellLots
<1>7. /\ cash' = cash + q * p - fee /\ fee <= cash + q * p
      /\ realized' = realized + q * p - CostBasis(q) - fee
      /\ traded' = [traded EXCEPT !.sold = @ + q, !.count = @ + 1]
      /\ UNCHANGED <<day, tx>>
  <2>1. fee <= cash + q * p
    BY <1>1, <1>2 DEF ExecuteSell
  <2> QED BY <2>1 DEF ExecuteSell
<1>8. traded.bought \in Nat /\ traded.sold \in Nat /\ traded.buyFees \in Nat
      /\ traded.count \in 0 .. MaxFills
  BY <1>2 DEF Fills
<1>9. /\ traded'.bought = traded.bought /\ traded'.sold = traded.sold + q
      /\ traded'.buyFees = traded.buyFees
      /\ traded' \in Fills
  <2>1. traded' = [bought |-> traded.bought, sold |-> traded.sold + q,
                   buyFees |-> traded.buyFees, count |-> traded.count + 1]
    BY <1>2, <1>7 DEF Fills
  <2>2. traded.sold + q \in Nat /\ traded.count + 1 \in 0 .. MaxFills
    BY <1>1, <1>8
  <2> QED BY <1>8, <2>1, <2>2 DEF Fills
<1>10. cash' + AtCost(lots') = InitialCash + realized' - traded'.buyFees
  <2>1. \A c, a, i, e, b, n, x, k \in Int :
          c + a = i + e - b => (c + n - x) + (a - k) = i + (e + n - k - x) - b
    OBVIOUS
  <2>2. (cash + q * p - fee) + (AtCost(lots) - CostBasis(q))
           = InitialCash + (realized + q * p - CostBasis(q) - fee) - traded.buyFees
    BY <1>1, <1>2, <1>4, <1>6, <1>8, <2>1
  <2> QED BY <1>6, <1>7, <1>9, <2>2
<1>11. Held(lots') = traded'.bought - traded'.sold
  BY <1>1, <1>2, <1>4, <1>6, <1>8, <1>9
<1>12. cash' \in Nat /\ realized' \in Int
  BY <1>1, <1>2, <1>6, <1>7
<1>13. BookInv(cash', lots', realized', traded')
  BY <1>6, <1>9, <1>10, <1>11, <1>12 DEF BookInv
<1> QED
  BY <1>7, <1>13 DEF AccountInv

LEMMA BeginStep ==
  ASSUME AccountAssumption, AccountInv, NEW s \in Sessions, BeginAdvance(s)
  PROVE  AccountInv'
<1>1. PICK d \in ReplayDays[s] :
        /\ tx' = [open |-> TRUE, session |-> s, day |-> d,
                  cash |-> cash, lots |-> lots, realized |-> realized, traded |-> traded]
        /\ UNCHANGED <<day, cash, lots, realized, traded>>
  BY DEF BeginAdvance, book
<1>2. d \in 1 .. MaxDay /\ d \in OpenDays[s]
  BY DEF AccountAssumption
<1>3. BookInv(cash, lots, realized, traded) /\ lots \subseteq Lot
      /\ cash \in Nat /\ realized \in Int /\ traded \in Fills
  BY DEF AccountInv, BookInv, LotsInv
<1>4. tx' \in OpenTx
  BY <1>1, <1>2, <1>3 DEF OpenTx
<1>5. /\ tx'.cash = cash /\ tx'.lots = lots /\ tx'.realized = realized /\ tx'.traded = traded
      /\ tx'.day = d /\ tx'.session = s
  BY <1>1
<1>6. BookInv(cash', lots', realized', traded')
      /\ BookInv(tx'.cash, tx'.lots, tx'.realized, tx'.traded)
  BY <1>1, <1>3, <1>5
<1> QED
  BY <1>1, <1>2, <1>4, <1>5, <1>6 DEF AccountInv

LEMMA EndStep ==
  ASSUME AccountAssumption, AccountInv, NEW s \in Sessions, Abort(s) \/ Commit(s)
  PROVE  AccountInv'
<1>1. tx \in OpenTx /\ tx.open /\ tx' = NoTx /\ ~ tx'.open
  BY DEF AccountInv, Abort, Commit, Trading, NoTx
<1>2. CASE Abort(s)
  <2>1. BookInv(cash', lots', realized', traded')
    BY <1>1, <1>2 DEF AccountInv, Abort, Rollback
  <2> QED BY <1>1, <1>2, <2>1 DEF AccountInv, Abort
<1>3. CASE Commit(s)
  <2>1. BookInv(cash', lots', realized', traded')
    BY <1>3 DEF AccountInv, Commit, book
  <2>2. day' \in [Sessions -> 0 .. MaxDay]
    <3>1. tx.day \in 0 .. MaxDay
      BY <1>1 DEF OpenTx
    <3> QED BY <1>3, <3>1 DEF AccountInv, Commit
  <2> QED BY <1>1, <2>1, <2>2 DEF AccountInv
<1> QED
  BY <1>2, <1>3

LEMMA AccountInvInit ==
  ASSUME AccountAssumption, AccountInit
  PROVE  AccountInv
<1>1. IsFiniteSet({}) /\ Held({}) = 0 /\ AtCost({}) = 0
  <2>1. Held({}) = SumFunctionOnSet(Left, {}) /\ AtCost({}) = SumFunctionOnSet(Value, {})
    BY FS_EmptySet, LotSums
  <2> QED BY <2>1, FS_EmptySet, SumEmpty
<1>2. LotsInv({})
  BY <1>1 DEF LotsInv
<1>3. traded \in Fills /\ cash \in Nat /\ realized \in Int
  BY DEF AccountInit, AccountAssumption, Fills
<1>4. BookInv(cash, lots, realized, traded)
  BY <1>1, <1>2, <1>3 DEF BookInv, AccountInit, AccountAssumption
<1> QED
  BY <1>4 DEF AccountInv, AccountInit, AccountAssumption, NoTx

LEMMA AccountInvStep ==
  ASSUME AccountAssumption, AccountInv, [AccountNext]_accountVars
  PROVE  AccountInv'
<1>1. CASE UNCHANGED accountVars
  BY <1>1 DEF AccountInv, accountVars, book
<1>2. ASSUME NEW s \in Sessions, BeginAdvance(s) \/ Execute(s) \/ Commit(s) \/ Abort(s)
      PROVE  AccountInv'
  <2>1. CASE Execute(s)
    <3>1. traded.count < MaxFills
      BY <2>1 DEF Execute
    <3>2. PICK q \in 1 .. MaxQuantity, p \in Prices, fee \in Fees :
            \/ ExecuteBuy(s, q, p, fee)
            \/ \E r \in 1 .. MaxQuantity : ExecuteSell(s, r, q, p, fee)
      BY <2>1 DEF Execute
    <3>3. CASE ExecuteBuy(s, q, p, fee)
      BY <3>1, <3>3, BuyStep
    <3>4. CASE \E r \in 1 .. MaxQuantity : ExecuteSell(s, r, q, p, fee)
      BY <3>1, <3>4, SellStep
    <3> QED BY <3>2, <3>3, <3>4
  <2> QED BY <1>2, <2>1, BeginStep, EndStep
<1> QED
  BY <1>1, <1>2 DEF AccountNext

LEMMA AccountIsInv ==
  ASSUME AccountAssumption
  PROVE  AccountSpec => []AccountInv
<1>1. AccountInit => AccountInv
  BY AccountInvInit
<1>2. AccountInv /\ [AccountNext]_accountVars => AccountInv'
  BY AccountInvStep
<1> QED
  BY <1>1, <1>2, PTL DEF AccountSpec

-----------------------------------------------------------------------------
(* The theorems.                                                            *)

(* Money and shares are conserved, for any account, prices, fees and        *)
(* orders: the cash and the lots at cost are what was paid in and realized, *)
(* less the fees of the purchases (_apply_buy, _apply_sell), and the lots   *)
(* hold what was bought and not sold, as the plan of a sale takes exactly   *)
(* what is filled, over any number of lots (plan_sell_lot_consumption).     *)
THEOREM NothingIsLost ==
  ASSUME AccountAssumption
  PROVE  AccountSpec => []Conservation
<1>1. AccountInv => Conservation
  BY DEF AccountInv, BookInv, Conservation, MoneyFollowsFills, HoldingsFollowFills
<1> QED
  BY <1>1, AccountIsInv, PTL

LEMMA AccountType ==
  ASSUME AccountAssumption
  PROVE  AccountSpec => []AccountTypeOK
<1>1. AccountInv => AccountTypeOK
  <2>1. AccountInv /\ tx.open => tx.session \in Sessions
    BY OpenFields
  <2> QED BY <2>1 DEF AccountInv, BookInv, LotsInv, AccountTypeOK
<1> QED
  BY <1>1, AccountIsInv, PTL

(* What a lot loses in a sale it loses because it is in the plan. *)
LEMMA SoldInOrder ==
  ASSUME AccountAssumption, AccountInv, NEW s \in Sessions, NEW r \in Nat, NEW q \in Nat,
         NEW p \in Nat, NEW fee \in Nat, ExecuteSell(s, r, q, p, fee),
         NEW k \in lots, Taken(k, q) > 0
  PROVE  /\ k.acquired < tx.day \/ (k.acquired = tx.day /\ CalendarEnds(tx.day))
         /\ \A m \in lots : m.acquired < k.acquired => Taken(m, q) = m.remaining
<1>1. LotsInv(lots) /\ lots \in SUBSET Lot /\ IsFiniteSet(lots)
  BY DEF AccountInv, BookInv, LotsInv
<1>2. Before(k) < q /\ Before(k) \in Nat
  BY <1>1, TakenBounds
<1>3. \A m \in lots : m.acquired < k.acquired => Taken(m, q) = m.remaining
  <2>1. SUFFICES ASSUME NEW m \in lots, m.acquired < k.acquired
                 PROVE  Taken(m, q) = m.remaining
    OBVIOUS
  <2>2. Earlier(m, k)
    BY <2>1 DEF Earlier
  <2>3. Before(m) + m.remaining <= Before(k)
    BY <1>1, <2>2, BeforeGrows
  <2>4. Before(m) \in Nat /\ m.remaining \in Nat
    BY <1>1, TakenBounds, LotFields
  <2> QED BY <1>1, <1>2, <2>3, <2>4, TakenBounds
<1>4. PICK j \in lots : j.sellableFrom <= tx.day /\ (j = k \/ ~ Earlier(j, k))
  <2>1. SUFFICES ASSUME \A j \in lots : j.sellableFrom <= tx.day => Earlier(j, k)
                 PROVE  FALSE
    OBVIOUS
  <2>2. Sellable \subseteq {j \in lots : Earlier(j, k)}
    BY <2>1 DEF Sellable
  <2>3. Held(Sellable) <= Before(k)
    <3>. DEFINE K == {j \in lots : Earlier(j, k)}
    <3>1. K \in SUBSET Lot /\ IsFiniteSet(K)
      BY <1>1, FS_Subset
    <3>2. Sellable \in SUBSET K
      BY <2>2
    <3>3. Before(k) = Held(K)
      BY DEF Before
    <3> HIDE DEF K
    <3> QED BY <3>1, <3>2, <3>3, LotSums
  <2>4. Held(Sellable) \in Nat
    <3>1. Sellable \in SUBSET Lot /\ IsFiniteSet(Sellable)
      BY <1>1, FS_Subset DEF Sellable
    <3> QED BY <3>1, LotSums
  <2>5. q <= r /\ r <= Held(Sellable)
    BY DEF ExecuteSell
  <2> QED BY <1>2, <2>3, <2>4, <2>5
<1>5. /\ tx.day \in Int /\ k.acquired \in Int /\ j.acquired \in Int
      /\ j.sellableFrom \in Int
  <2>1. tx.day \in 1 .. MaxDay
    BY OpenFields DEF ExecuteSell, Trading
  <2>2. /\ k.acquired \in 1 .. MaxDay /\ j.acquired \in 1 .. MaxDay
        /\ j.sellableFrom \in 1 .. MaxDay
    BY <1>1, LotFields
  <2> QED BY <2>1, <2>2
<1>6. k.acquired <= j.acquired
  BY <1>4, <1>5 DEF Earlier
<1>7. SellableLater(j)
  BY <1>1 DEF LotsInv
<1>8. k.acquired < tx.day \/ (k.acquired = tx.day /\ CalendarEnds(tx.day))
  <2>1. CASE j.acquired < j.sellableFrom
    BY <1>4, <1>5, <1>6, <2>1
  <2>2. CASE j.acquired = j.sellableFrom /\ CalendarEnds(j.acquired)
    <3>1. k.acquired < tx.day \/ (k.acquired = tx.day /\ j.acquired = tx.day)
      BY <1>4, <1>5, <1>6, <2>2
    <3> QED BY <2>2, <3>1
  <2> QED BY <1>7, <2>1, <2>2 DEF SellableLater
<1> QED
  BY <1>3, <1>8

(* No sale touches a lot of a coming day, or of the same day unless some    *)
(* calendar of the account ends with it, and first in, first out: for any   *)
(* number of sessions, each with a calendar and a replay of its own, and    *)
(* any lots, although what can be sold is checked on a sum and the plan     *)
(* takes from all lots.                                                     *)
THEOREM SalesTakeOldSellableLots ==
  ASSUME AccountAssumption
  PROVE  AccountSpec => SalesRespectLots
<1>. DEFINE Respects ==
       \A k \in lots, l \in lots' : Reduced(k, l) /\ tx'.open =>
         /\ k.acquired < tx.day \/ (k.acquired = tx.day /\ CalendarEnds(tx.day))
         /\ \A m \in lots' : m.acquired < k.acquired => m.remaining = 0
<1>1. AccountInv /\ [AccountNext]_accountVars => [Respects]_accountVars
  <2>1. SUFFICES ASSUME AccountInv, NEW s \in Sessions,
                        BeginAdvance(s) \/ Execute(s) \/ Commit(s) \/ Abort(s),
                        NEW k \in lots, NEW l \in lots', Reduced(k, l), tx'.open
                 PROVE  /\ k.acquired < tx.day \/ (k.acquired = tx.day /\ CalendarEnds(tx.day))
                        /\ \A m \in lots' : m.acquired < k.acquired => m.remaining = 0
    BY DEF AccountNext
  <2>2. LotsInv(lots) /\ \A j \in lots : j \in Lot /\ j.remaining \in Nat
    BY <2>1, LotFields DEF AccountInv, BookInv, LotsInv
  <2>3. l \notin lots
    <3>1. \A j \in lots : j.id = k.id => j = k
      BY <2>2 DEF LotsInv
    <3> QED BY <2>1, <2>2, <3>1 DEF Reduced
  <2>4. PICK q \in 1 .. MaxQuantity, p \in Prices, fee \in Fees :
            \/ ExecuteBuy(s, q, p, fee)
            \/ \E r \in 1 .. MaxQuantity : ExecuteSell(s, r, q, p, fee)
    BY <2>1, <2>3 DEF BeginAdvance, Commit, Abort, NoTx, book, Execute
  <2>5. q \in Nat /\ p \in Nat /\ fee \in Nat
    BY DEF AccountAssumption
  <2>6. CASE ExecuteBuy(s, q, p, fee)
    <3>1. l.id \notin {j.id : j \in lots}
      BY <2>3, <2>6 DEF ExecuteBuy
    <3> QED BY <2>1, <3>1 DEF Reduced
  <2>7. CASE \E r \in 1 .. MaxQuantity : ExecuteSell(s, r, q, p, fee)
    <3>1. PICK r \in 1 .. MaxQuantity : ExecuteSell(s, r, q, p, fee)
      BY <2>7
    <3>2. lots' = {Rest(j, q) : j \in lots}
      BY <3>1 DEF ExecuteSell, Rest
    <3>3. Taken(k, q) > 0
      <4>1. PICK j \in lots : l = Rest(j, q)
        BY <3>2
      <4>2. l.id = j.id /\ l.remaining = j.remaining - Taken(j, q)
        BY <2>2, <2>5, <4>1, RestFields
      <4>3. j = k
        BY <2>1, <2>2, <4>2 DEF Reduced, LotsInv
      <4>4. l.remaining < k.remaining /\ k.remaining \in Nat
        BY <2>1, <2>2 DEF Reduced
      <4>5. Taken(k, q) \in Nat
        BY <2>2, <2>5, <4>4, TakenBounds
      <4> QED BY <4>2, <4>3, <4>4, <4>5
    <3>4. /\ k.acquired < tx.day \/ (k.acquired = tx.day /\ CalendarEnds(tx.day))
          /\ \A m \in lots : m.acquired < k.acquired => Taken(m, q) = m.remaining
      BY <2>1, <2>5, <3>1, <3>3, SoldInOrder
    <3>5. \A m \in lots' : m.acquired < k.acquired => m.remaining = 0
      <4>1. SUFFICES ASSUME NEW m \in lots, Rest(m, q).acquired < k.acquired
                     PROVE  Rest(m, q).remaining = 0
        BY <3>2
      <4>2. Taken(m, q) = m.remaining /\ m.remaining \in Nat
        BY <2>2, <2>5, <3>4, <4>1, RestFields
      <4> QED BY <2>2, <2>5, <4>2, RestFields
    <3> QED BY <3>4, <3>5
  <2> QED BY <2>4, <2>6, <2>7
<1> QED
  BY <1>1, AccountIsInv, PTL DEF AccountSpec, SalesRespectLots
=============================================================================
