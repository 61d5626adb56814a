-------------------------- MODULE BacktestRunProofs --------------------------
(***************************************************************************)
(* Theorems about BacktestRun, for any number of requests, of runs and of  *)
(* data versions.                                                          *)
(***************************************************************************)
EXTENDS BacktestRun, TLAPS

-----------------------------------------------------------------------------
(* A directory that is not there, or is still empty, is no result. *)
LEMMA NoResult == Absent \notin Result /\ Begun \notin Result /\ Absent # Begun
  BY DEF Absent, Begun, Result

(* What the step a request stands at says of the rest of it. *)
LEMMA CallFields ==
  ASSUME TypeOK, NEW c \in Clients, call[c].at # "idle"
  PROVE  /\ call[c].run \in Runs
         /\ call[c].at \in {"running", "succeeded", "failed"} => call[c].seen \in Status
         /\ At(c, "calendar") => call[c].bars \in Bindings
         /\ call[c].at \in {"look", "stage", "write", "move"} => call[c].result \in Result
         /\ At(c, "record") => call[c].rows \in SUBSET Row
<1>1. call[c] \in Call /\ call[c] # Idle
  BY DEF TypeOK, Idle
<1> QED
  BY <1>1 DEF Call, Idle, At

(* The ways a request goes on are requests again. *)
LEMMA GotoType ==
  ASSUME TypeOK, NEW c \in Clients, call[c].at # "idle",
         NEW s \in {"claim", "insert", "begin", "load", "succeed", "fail"}, Goto(c, s)
  PROVE  call' \in [Clients -> Call]
<1>1. [at |-> s, run |-> call[c].run] \in Call
  BY CallFields DEF Call
<1> QED
  BY <1>1 DEF Goto, TypeOK

LEMMA GotoSeenType ==
  ASSUME TypeOK, NEW c \in Clients, call[c].at # "idle",
         NEW s \in {"running", "succeeded", "failed"}, GotoSeen(c, s)
  PROVE  call' \in [Clients -> Call]
<1>1. call[c].run \in Runs /\ run[call[c].run].status \in Status
  BY CallFields DEF TypeOK
<1>2. [at |-> s, run |-> call[c].run, seen |-> run[call[c].run].status] \in Call
  BY <1>1 DEF Call
<1> QED
  BY <1>2 DEF GotoSeen, TypeOK

LEMMA GotoResultType ==
  ASSUME TypeOK, NEW c \in Clients, call[c].at # "idle", NEW result \in Result,
         NEW s \in {"look", "stage", "write", "move"}, GotoResult(c, s, result)
  PROVE  call' \in [Clients -> Call]
<1>1. [at |-> s, run |-> call[c].run, result |-> result] \in Call
  BY CallFields DEF Call
<1> QED
  BY <1>1 DEF GotoResult, TypeOK

LEMMA RecordType ==
  ASSUME TypeOK, NEW c \in Clients, call[c].at # "idle", NEW new \in SUBSET Row,
         Record(c, new)
  PROVE  call' \in [Clients -> Call]
<1>1. [at |-> "record", run |-> call[c].run, rows |-> new] \in Call
  BY CallFields DEF Call
<1> QED
  BY <1>1 DEF Record, TypeOK

LEMMA ReturnType ==
  ASSUME TypeOK, NEW c \in Clients, Return(c)
  PROVE  call' \in [Clients -> Call]
  BY DEF TypeOK, Return, Call

(* Reading the row before a status change touches nothing but the request. *)
LEMMA TransitionType ==
  ASSUME TypeOK, NEW c \in Clients, call[c].at # "idle",
         NEW s \in {"running", "succeeded", "failed"},
         Transition(c, s, Goto(c, "load")) \/ Transition(c, s, Return(c))
  PROVE  TypeOK'
<1>1. Goto(c, "load") \/ Return(c) \/ GotoSeen(c, s)
  BY DEF Transition
<1>2. call' \in [Clients -> Call]
  BY <1>1, GotoType, GotoSeenType, ReturnType
<1>3. UNCHANGED <<profile, run, rows, staging, final>>
  BY DEF Transition, fileVars
<1> QED
  BY <1>2, <1>3 DEF TypeOK

(* A change of status keeps the row a row. *)
LEMMA MarkType ==
  ASSUME TypeOK, NEW c \in Clients, call[c].at # "idle",
         NEW s \in Status, NEW f \in BOOLEAN, Mark(c, s, f)
  PROVE  run' \in [Runs -> [status : Status, failure : BOOLEAN]]
<1> DEFINE r == call[c].run
<1>1. r \in Runs /\ run[r].status \in Status /\ run[r].failure \in BOOLEAN
  BY CallFields DEF TypeOK
<1>2. (run[r].failure \/ f) \in BOOLEAN
  OBVIOUS
<1>3. (IF call[c].seen = s THEN run[r].status ELSE s) \in Status
  BY <1>1
<1>4. [status |-> IF call[c].seen = s THEN run[r].status ELSE s,
       failure |-> run[r].failure \/ f] \in [status : Status, failure : BOOLEAN]
  BY <1>2, <1>3
<1> QED
  BY <1>1, <1>4 DEF Mark, TypeOK

LEMMA TypeInit == Init => TypeOK
<1>1. Idle \in Call /\ "NONE" \in Status
  BY DEF Call, Status
<1> QED
  BY <1>1 DEF Init, TypeOK

(* A staging directory belongs to the request that made it: while a        *)
(* request writes or moves it, it is there, nobody else does, and what it  *)
(* holds when it is moved is that request's result.  A directory left by a *)
(* crash belongs to nobody, and blocks them all.                           *)
Writing(c) == call[c].at \in {"write", "move"}

Staged ==
  /\ \A c \in Clients : Writing(c) => staging[call[c].run] # Absent
  /\ \A c \in Clients : At(c, "move") => staging[call[c].run] = call[c].result
  /\ \A c, d \in Clients :
       Writing(c) /\ Writing(d) /\ call[c].run = call[d].run => c = d

(* Every step keeps the state well typed. *)
LEMMA TypeStep == TypeOK /\ Staged /\ [Next]_vars => TypeOK'
<1> SUFFICES ASSUME TypeOK, Staged, [Next]_vars PROVE TypeOK'
  OBVIOUS
<1> USE DEF fileVars
<1>1. ASSUME NEW c \in Clients, Snapshot(c) PROVE TypeOK'
  <2>1. [at |-> "claim", run |-> profile] \in Call
    BY <1>1 DEF Snapshot, Call
  <2> QED
    BY <1>1, <2>1 DEF Snapshot, TypeOK
<1>2. ASSUME NEW c \in Clients, ClaimRead(c) PROVE TypeOK'
  <2>1. call' \in [Clients -> Call]
    BY <1>2, GotoType, ReturnType DEF ClaimRead, At
  <2> QED
    BY <1>2, <2>1 DEF ClaimRead, TypeOK
<1>3. ASSUME NEW c \in Clients, ClaimInsert(c) PROVE TypeOK'
  <2>1. call' \in [Clients -> Call]
    BY <1>3, GotoType DEF ClaimInsert, At
  <2>2. call[c].run \in Runs /\ "PENDING" \in Status
    BY <1>3, CallFields DEF ClaimInsert, At, Status
  <2>3. run' \in [Runs -> [status : Status, failure : BOOLEAN]]
    BY <1>3, <2>2 DEF ClaimInsert, TypeOK
  <2> QED
    BY <1>3, <2>1, <2>3 DEF ClaimInsert, TypeOK
<1>4. ASSUME NEW c \in Clients, RunningRead(c) \/ SucceededRead(c) \/ FailedRead(c)
      PROVE  TypeOK'
  BY <1>4, TransitionType DEF RunningRead, SucceededRead, FailedRead, At
<1>5. ASSUME NEW c \in Clients, RunningWrite(c) \/ SucceededWrite(c) \/ FailedWrite(c)
      PROVE  TypeOK'
  <2>1. call[c].at # "idle" /\ (Goto(c, "load") \/ Return(c))
    BY <1>5 DEF RunningWrite, SucceededWrite, FailedWrite, At
  <2>2. call' \in [Clients -> Call]
    BY <2>1, GotoType, ReturnType
  <2>3. PICK s \in {"RUNNING", "SUCCEEDED", "FAILED"}, f \in BOOLEAN : Mark(c, s, f)
    BY <1>5 DEF RunningWrite, SucceededWrite, FailedWrite
  <2>4. run' \in [Runs -> [status : Status, failure : BOOLEAN]]
    BY <2>1, <2>3, MarkType DEF Status
  <2> QED
    BY <1>5, <2>2, <2>4 DEF RunningWrite, SucceededWrite, FailedWrite, TypeOK
<1>6. ASSUME NEW c \in Clients, LoadBars(c) PROVE TypeOK'
  <2>1. call[c].run \in Runs
    BY <1>6, CallFields DEF LoadBars, At
  <2>2. [at |-> "calendar", run |-> call[c].run, bars |-> profile] \in Call
    BY <2>1 DEF Call, TypeOK
  <2> QED
    BY <1>6, <2>2 DEF LoadBars, TypeOK
<1>7. ASSUME NEW c \in Clients, LoadCalendar(c) PROVE TypeOK'
  <2>1. [bars |-> call[c].bars, calendar |-> profile] \in Result
    BY <1>7, CallFields DEF LoadCalendar, At, Result, TypeOK
  <2>2. call' \in [Clients -> Call]
    BY <1>7, <2>1, GotoResultType DEF LoadCalendar, At
  <2> QED
    BY <1>7, <2>2 DEF LoadCalendar, TypeOK
<1>8. ASSUME NEW c \in Clients, Look(c) PROVE TypeOK'
  <2>1. call[c].run \in Runs /\ call[c].result \in Result
    BY <1>8, CallFields DEF Look, At
  <2>2. CASE final[call[c].run] # Absent /\ Record(c, Listed(call[c].run))
    <3>1. Listed(call[c].run) \in SUBSET Row
      BY <2>1, <2>2 DEF Listed, Row, TypeOK
    <3>2. call' \in [Clients -> Call]
      BY <1>8, <2>2, <3>1, RecordType DEF Look, At
    <3> QED
      BY <1>8, <3>2 DEF Look, TypeOK
  <2>3. CASE GotoResult(c, "stage", call[c].result)
    <3>1. call' \in [Clients -> Call]
      BY <1>8, <2>1, <2>3, GotoResultType DEF Look, At
    <3> QED
      BY <1>8, <3>1 DEF Look, TypeOK
  <2> QED
    BY <1>8, <2>2, <2>3 DEF Look
<1>9. ASSUME NEW c \in Clients, MakeStaging(c) \/ WriteFiles(c) PROVE TypeOK'
  <2>1. call[c].run \in Runs /\ call[c].result \in Result /\ call[c].at # "idle"
    BY <1>9, CallFields DEF MakeStaging, WriteFiles, At
  <2>2. call' \in [Clients -> Call]
    BY <1>9, <2>1, GotoResultType DEF MakeStaging, WriteFiles
  <2>3. staging' \in [Runs -> Result \cup {Absent, Begun}]
    BY <1>9, <2>1 DEF MakeStaging, WriteFiles, TypeOK
  <2> QED
    BY <1>9, <2>2, <2>3 DEF MakeStaging, WriteFiles, TypeOK
<1>10. ASSUME NEW c \in Clients, Move(c) PROVE TypeOK'
  <2>1. call[c].run \in Runs /\ call[c].result \in Result
        /\ staging[call[c].run] = call[c].result
    BY <1>10, CallFields DEF Move, At, Staged
  <2>2. {[type |-> t, of |-> call[c].result] : t \in {"DATA", "MANIFEST"}} \in SUBSET Row
    BY <2>1 DEF Row
  <2>3. call' \in [Clients -> Call]
    BY <1>10, <2>2, RecordType DEF Move, At
  <2> QED
    BY <1>10, <2>1, <2>3 DEF Move, TypeOK
<1>11. ASSUME NEW c \in Clients, AddArtifacts(c) PROVE TypeOK'
  <2>1. call[c].run \in Runs /\ call[c].rows \in SUBSET Row
    BY <1>11, CallFields DEF AddArtifacts, At
  <2>2. call' \in [Clients -> Call]
    BY <1>11, GotoType DEF AddArtifacts, At
  <2>3. rows' \in [Runs -> SUBSET Row]
    BY <1>11, <2>1 DEF AddArtifacts, TypeOK
  <2> QED
    BY <1>11, <2>2, <2>3 DEF AddArtifacts, TypeOK
<1>12. ASSUME NEW c \in Clients, Error(c) PROVE TypeOK'
  <2>1. call[c].at # "idle" /\ call[c].run \in Runs
    BY <1>12, CallFields DEF Error
  <2>2. call' \in [Clients -> Call]
    BY <1>12, <2>1, GotoType DEF Error
  <2>3. staging' \in [Runs -> Result \cup {Absent, Begun}]
    BY <1>12, <2>1 DEF Error, TypeOK
  <2> QED
    BY <1>12, <2>2, <2>3 DEF Error, TypeOK
<1>13. ASSUME NEW c \in Clients, Abandon(c) PROVE TypeOK'
  <2>1. call' \in [Clients -> Call]
    BY <1>13, ReturnType DEF Abandon
  <2> QED
    BY <1>13, <2>1 DEF Abandon, TypeOK
<1>14. CASE \/ \E b \in Bindings : Rebind(b)
            \/ Crash
            \/ UNCHANGED vars
  BY <1>14 DEF Rebind, Crash, vars, TypeOK, Call
<1> QED
  BY <1>1, <1>2, <1>3, <1>4, <1>5, <1>6, <1>7, <1>8, <1>9, <1>10, <1>11, <1>12,
     <1>13, <1>14 DEF Next, Step

-----------------------------------------------------------------------------
(* A step of one request leaves the others where they are. *)
Alone(c) == \A d \in Clients : d # c => call'[d] = call[d]

LEMMA StepAlone ==
  ASSUME TypeOK, NEW c \in Clients, Step(c)
  PROVE  Alone(c)
  BY DEF TypeOK, Alone, Step, Snapshot, ClaimRead, ClaimInsert, RunningRead,
         RunningWrite, LoadBars, LoadCalendar, Look, MakeStaging, WriteFiles, Move,
         AddArtifacts, SucceededRead, SucceededWrite, Error, FailedRead,
         FailedWrite, Abandon, Transition, Goto, GotoSeen, GotoResult, Record, Return

(* A request that neither writes nor moves next, and leaves the staging    *)
(* directories alone, disturbs no one.                                     *)
LEMMA StagedKept ==
  ASSUME TypeOK, Staged, NEW c \in Clients, Alone(c),
         call'[c].at \notin {"write", "move"}, UNCHANGED staging
  PROVE  Staged'
  BY DEF Staged, Writing, At, Alone

(* Which steps those are. *)
LEMMA Elsewhere ==
  ASSUME TypeOK, NEW c \in Clients, Step(c),
         ~MakeStaging(c), ~WriteFiles(c), ~Move(c), ~Error(c)
  PROVE  call'[c].at \notin {"write", "move"} /\ UNCHANGED staging
<1> USE DEF TypeOK, fileVars
<1>1. CASE Snapshot(c) \/ LoadBars(c) \/ LoadCalendar(c)
  BY <1>1 DEF Snapshot, LoadBars, LoadCalendar, GotoResult
<1>2. CASE ClaimRead(c) \/ ClaimInsert(c) \/ Abandon(c)
  BY <1>2 DEF ClaimRead, ClaimInsert, Abandon, Goto, Return, Idle
<1>3. CASE RunningRead(c) \/ SucceededRead(c) \/ FailedRead(c)
  BY <1>3 DEF RunningRead, SucceededRead, FailedRead, Transition, Goto, GotoSeen,
              Return, Idle
<1>4. CASE RunningWrite(c) \/ SucceededWrite(c) \/ FailedWrite(c)
  <2>1. (Goto(c, "load") \/ Return(c)) /\ UNCHANGED staging
    BY <1>4 DEF RunningWrite, SucceededWrite, FailedWrite
  <2> QED
    BY <2>1 DEF Goto, Return, Idle
<1>5. CASE Look(c) \/ AddArtifacts(c)
  BY <1>5 DEF Look, AddArtifacts, GotoResult, Record, Goto
<1> QED
  BY <1>1, <1>2, <1>3, <1>4, <1>5 DEF Step

(* Taking a directory away is safe for the request that owns it. *)
LEMMA StagedRemoved ==
  ASSUME TypeOK, Staged, NEW c \in Clients, Writing(c), Alone(c),
         call'[c].at \notin {"write", "move"},
         staging' = [staging EXCEPT ![call[c].run] = Absent]
  PROVE  Staged'
<1>1. \A d \in Clients : Writing(d) /\ d # c => call[d].run # call[c].run
  BY DEF Staged
<1>2. \A d \in Clients : Writing(d)' => d # c /\ call'[d] = call[d] /\ Writing(d)
  BY DEF Alone, Writing
<1>3. \A d \in Clients : Writing(d)' => staging'[call'[d].run] = staging[call[d].run]
  BY <1>1, <1>2, CallFields DEF TypeOK, Writing
<1> QED
  BY <1>2, <1>3 DEF Staged, Writing, At

LEMMA StagedStep == TypeOK /\ Staged /\ [Next]_vars => Staged'
<1> SUFFICES ASSUME TypeOK, Staged, [Next]_vars PROVE Staged'
  OBVIOUS
<1>1. ASSUME NEW c \in Clients, MakeStaging(c) PROVE Staged'
  <2> DEFINE r == call[c].run
  <2>1. r \in Runs /\ staging[r] = Absent /\ staging' = [staging EXCEPT ![r] = Begun]
    BY <1>1, CallFields DEF MakeStaging, Stageable, At
  <2>2. Alone(c) /\ call'[c].run = r /\ call'[c].at = "write"
    BY <1>1, StepAlone DEF MakeStaging, GotoResult, Step, TypeOK
  <2>3. \A d \in Clients : d # c /\ Writing(d)' => call'[d].run # r
    BY <2>1, <2>2 DEF Alone, Writing, Staged
  <2>4. \A d \in Clients : d # c /\ Writing(d)'
                         => call'[d] = call[d] /\ staging'[call'[d].run] = staging[call[d].run]
    BY <2>1, <2>2, <2>3, CallFields DEF Alone, Writing, TypeOK
  <2>5. staging'[r] # Absent
    BY <2>1, NoResult DEF TypeOK
  <2> QED
    BY <2>2, <2>3, <2>4, <2>5 DEF Staged, Writing, At
<1>2. ASSUME NEW c \in Clients, WriteFiles(c) PROVE Staged'
  <2> DEFINE r == call[c].run
  <2>1. /\ r \in Runs /\ call[c].result \in Result /\ Writing(c)
        /\ staging' = [staging EXCEPT ![r] = call[c].result]
    BY <1>2, CallFields DEF WriteFiles, At, Writing
  <2>2. /\ Alone(c)
        /\ call'[c] = [at |-> "move", run |-> r, result |-> call[c].result]
    BY <1>2, StepAlone DEF WriteFiles, GotoResult, Step, TypeOK
  <2>3. \A d \in Clients : d # c /\ Writing(d)'
                         => Writing(d) /\ call'[d] = call[d] /\ call[d].run # r
    BY <2>1, <2>2 DEF Alone, Writing, Staged
  <2>4. \A d \in Clients : d # c /\ Writing(d)'
                         => staging'[call'[d].run] = staging[call[d].run]
    BY <2>1, <2>3, CallFields DEF Writing, TypeOK
  <2>5. staging'[r] = call[c].result /\ staging'[r] # Absent
    BY <2>1, NoResult DEF TypeOK
  <2> QED
    BY <2>2, <2>3, <2>4, <2>5 DEF Staged, Writing, At
<1>3. ASSUME NEW c \in Clients, Move(c) PROVE Staged'
  <2>1. Alone(c) /\ Writing(c) /\ call'[c].at \notin {"write", "move"}
    BY <1>3, StepAlone DEF Move, Step, At, Writing, Record, TypeOK
  <2> QED
    BY <1>3, <2>1, StagedRemoved DEF Move
<1>4. ASSUME NEW c \in Clients, Error(c) PROVE Staged'
  <2>1. Alone(c) /\ call'[c].at \notin {"write", "move"}
    BY <1>4, StepAlone DEF Error, Step, Goto, TypeOK
  <2> QED
    BY <1>4, <2>1, StagedKept, StagedRemoved DEF Error, Writing
<1>5. ASSUME NEW c \in Clients, Step(c),
             ~MakeStaging(c), ~WriteFiles(c), ~Move(c), ~Error(c)
      PROVE  Staged'
  BY <1>5, StepAlone, StagedKept, Elsewhere
<1>6. CASE \/ \E b \in Bindings : Rebind(b)
           \/ Crash
           \/ UNCHANGED vars
  BY <1>6 DEF Rebind, Crash, vars, fileVars, Staged, Writing, At, Idle
<1> QED
  BY <1>1, <1>2, <1>3, <1>4, <1>5, <1>6 DEF Next

(* The state is well typed and every staging directory has one owner. *)
THEOREM StagingHasOneOwner == Spec => [](TypeOK /\ Staged)
<1>1. Init => Staged
  BY DEF Init, Staged, Writing, At, Idle
<1> QED
  BY <1>1, TypeInit, TypeStep, StagedStep, PTL DEF Spec

(* TypeOK holds for any number of requests, runs and data versions. *)
THEOREM TypeCorrect == Spec => []TypeOK
  BY StagingHasOneOwner, PTL
-----------------------------------------------------------------------------
(* Rows, files and status.  What a request is about to record, and what a  *)
(* run that is about to SUCCEED has recorded, is what the files say.       *)
Holds(set) == \E row \in set : row.type = "DATA"

Justified(c) ==
  /\ At(c, "record") =>
       /\ Holds(call[c].rows)
       /\ \A row \in call[c].rows : row.of = final[call[c].run]
  /\ call[c].at \in {"succeed", "succeeded"} => Holds(rows[call[c].run])

Recorded ==
  /\ RowsDescribeFiles
  /\ \A c \in Clients : Justified(c)
  /\ \A r \in Runs : run[r].status = "SUCCEEDED" => Holds(rows[r])

(* What no step undoes: rows stay, and so do files. *)
Grows(r) ==
  /\ rows[r] \subseteq rows'[r]
  /\ final[r] # Absent => final'[r] = final[r]

(* Only a result can have rows. *)
LEMMA RowsHaveFiles ==
  ASSUME TypeOK, Recorded, NEW r \in Runs, rows[r] # {}
  PROVE  final[r] # Absent
<1>1. PICK row \in rows[r] : row.of = final[r]
  BY DEF Recorded, RowsDescribeFiles
<1>2. row.of \in Result
  BY DEF TypeOK, Row
<1> QED
  BY <1>1, <1>2, NoResult

LEMMA CallsHaveFiles ==
  ASSUME TypeOK, Recorded, NEW c \in Clients, At(c, "record")
  PROVE  final[call[c].run] # Absent
<1>1. PICK row \in call[c].rows : row.of = final[call[c].run]
  BY DEF Recorded, Justified, Holds
<1>2. call[c].rows \in SUBSET Row
  BY CallFields DEF At
<1>3. row.of \in Result
  BY <1>2 DEF Row
<1> QED
  BY <1>1, <1>3, NoResult

(* A request that stays where it is stays justified. *)
LEMMA JustifiedKept ==
  ASSUME TypeOK, Recorded, NEW c \in Clients, call'[c] = call[c],
         \A r \in Runs : Grows(r)
  PROVE  Justified(c)'
<1>1. CASE At(c, "record")
  BY <1>1, CallFields, CallsHaveFiles DEF Recorded, Justified, At, Grows
<1>2. CASE call[c].at \in {"succeed", "succeeded"}
  BY <1>2, CallFields DEF Recorded, Justified, At, Grows, Holds
<1> QED
  BY <1>1, <1>2 DEF Justified, At

(* A step that adds no rows and gives no run the status SUCCEEDED that has *)
(* no data keeps all of it, if its own request stays justified.            *)
LEMMA RecordedKept ==
  ASSUME TypeOK, Recorded, NEW c \in Clients, Alone(c), Justified(c)',
         \A r \in Runs : Grows(r), UNCHANGED rows,
         \A r \in Runs : run'[r].status = "SUCCEEDED" => Holds(rows[r])
  PROVE  Recorded'
<1>1. \A d \in Clients : Justified(d)'
  BY JustifiedKept DEF Alone
<1>2. RowsDescribeFiles'
  BY RowsHaveFiles DEF Recorded, RowsDescribeFiles, Grows
<1> QED
  BY <1>1, <1>2 DEF Recorded

LEMMA RecordedStep == TypeOK /\ Staged /\ Recorded /\ [Next]_vars => Recorded'
<1> SUFFICES ASSUME TypeOK, Staged, Recorded, [Next]_vars PROVE Recorded'
  OBVIOUS
<1> USE DEF fileVars
<1>1. ASSUME NEW c \in Clients,
             Snapshot(c) \/ ClaimRead(c) \/ ClaimInsert(c) \/ LoadBars(c) \/
             LoadCalendar(c) \/ MakeStaging(c) \/ WriteFiles(c) \/ Error(c) \/
             Abandon(c)
      PROVE  Recorded'
  <2>1. UNCHANGED <<rows, final>>
    BY <1>1 DEF Snapshot, ClaimRead, ClaimInsert, LoadBars, LoadCalendar,
                MakeStaging, WriteFiles, Error, Abandon
  <2>2. call'[c].at \notin {"record", "succeed", "succeeded"}
    <3>1. CASE Snapshot(c) \/ LoadBars(c) \/ LoadCalendar(c)
      BY <3>1 DEF Snapshot, LoadBars, LoadCalendar, GotoResult, TypeOK
    <3>2. CASE ClaimRead(c) \/ ClaimInsert(c) \/ Abandon(c) \/ Error(c)
      BY <3>2 DEF ClaimRead, ClaimInsert, Abandon, Error, Goto, Return, Idle, TypeOK
    <3>3. CASE MakeStaging(c) \/ WriteFiles(c)
      BY <3>3 DEF MakeStaging, WriteFiles, GotoResult, TypeOK
    <3> QED
      BY <1>1, <3>1, <3>2, <3>3
  <2>3. \A r \in Runs : run'[r].status = "SUCCEEDED" => run[r].status = "SUCCEEDED"
    <3>1. CASE ClaimInsert(c)
      BY <3>1 DEF ClaimInsert, TypeOK
    <3>2. CASE UNCHANGED run
      BY <3>2
    <3> QED
      BY <1>1, <3>1, <3>2 DEF Snapshot, ClaimRead, LoadBars, LoadCalendar,
                              MakeStaging, WriteFiles, Error, Abandon
  <2>4. Alone(c)
    BY <1>1, StepAlone DEF Step
  <2>5. Justified(c)'
    BY <2>2 DEF Justified, At
  <2> QED
    BY <2>1, <2>3, <2>4, <2>5, RecordedKept DEF Grows, Recorded
<1>2. ASSUME NEW c \in Clients, RunningRead(c) \/ SucceededRead(c) \/ FailedRead(c)
      PROVE  Recorded'
  <2>1. UNCHANGED <<run, rows, final>> /\ Alone(c)
    BY <1>2, StepAlone DEF Step, RunningRead, SucceededRead, FailedRead, Transition
  <2>2. Justified(c)'
    <3>1. CASE At(c, "succeed")
      <4>1. call'[c] = Idle \/ (call'[c].at = "succeeded" /\ call'[c].run = call[c].run)
        BY <1>2, <3>1 DEF RunningRead, SucceededRead, FailedRead, Transition, At,
                          GotoSeen, Return, TypeOK
      <4>2. Holds(rows[call[c].run])
        BY <3>1 DEF Recorded, Justified, At
      <4> QED
        BY <2>1, <4>1, <4>2 DEF Justified, At, Idle
    <3>2. CASE ~At(c, "succeed")
      <4>1. call'[c].at \notin {"record", "succeed", "succeeded"}
        BY <1>2, <3>2 DEF RunningRead, SucceededRead, FailedRead, Transition, Goto,
                          GotoSeen, Return, Idle, TypeOK
      <4> QED
        BY <4>1 DEF Justified, At
    <3> QED
      BY <3>1, <3>2
  <2> QED
    BY <2>1, <2>2, RecordedKept DEF Grows, Recorded
<1>3. ASSUME NEW c \in Clients, RunningWrite(c) \/ SucceededWrite(c) \/ FailedWrite(c)
      PROVE  Recorded'
  <2> DEFINE r == call[c].run
  <2>1. UNCHANGED <<rows, final>> /\ Alone(c) /\ r \in Runs
    BY <1>3, StepAlone, CallFields DEF Step, RunningWrite, SucceededWrite, FailedWrite, At
  <2>2. Justified(c)'
    <3>1. Goto(c, "load") \/ Return(c)
      BY <1>3 DEF RunningWrite, SucceededWrite, FailedWrite
    <3> QED
      BY <3>1 DEF Goto, Return, Idle, TypeOK, Justified, At
  <2>3. \A q \in Runs : q # r => run'[q] = run[q]
    BY <1>3, <2>1 DEF RunningWrite, SucceededWrite, FailedWrite, Mark, TypeOK
  <2>4. run'[r].status = "SUCCEEDED" => Holds(rows[r])
    <3>1. CASE SucceededWrite(c)
      BY <3>1 DEF SucceededWrite, Recorded, Justified, At
    <3>2. CASE RunningWrite(c) \/ FailedWrite(c)
      BY <3>2, <2>1 DEF RunningWrite, FailedWrite, Mark, Unlocked, TypeOK
    <3> QED
      BY <1>3, <3>1, <3>2
  <2> QED
    BY <2>1, <2>2, <2>3, <2>4, RecordedKept DEF Grows, Recorded
<1>4. ASSUME NEW c \in Clients, Look(c) PROVE Recorded'
  <2>1. UNCHANGED <<run, rows, final>> /\ Alone(c)
    BY <1>4, StepAlone DEF Step, Look
  <2>2. Justified(c)'
    <3>1. CASE Record(c, Listed(call[c].run))
      <4>1. call'[c] = [at |-> "record", run |-> call[c].run, rows |-> Listed(call[c].run)]
        BY <3>1 DEF Record, TypeOK
      <4>2. Holds(Listed(call[c].run))
        BY DEF Holds, Listed
      <4>3. \A row \in Listed(call[c].run) : row.of = final[call[c].run]
        BY DEF Listed
      <4> QED
        BY <2>1, <4>1, <4>2, <4>3 DEF Justified, At
    <3>2. CASE GotoResult(c, "stage", call[c].result)
      BY <3>2 DEF GotoResult, Justified, At, TypeOK
    <3> QED
      BY <1>4, <3>1, <3>2 DEF Look
  <2> QED
    BY <2>1, <2>2, RecordedKept DEF Grows, Recorded
<1>5. ASSUME NEW c \in Clients, Move(c) PROVE Recorded'
  <2> DEFINE r == call[c].run
             new == {[type |-> t, of |-> call[c].result] : t \in {"DATA", "MANIFEST"}}
  <2>1. /\ UNCHANGED <<run, rows>> /\ Alone(c) /\ r \in Runs
        /\ final[r] = Absent /\ final' = [final EXCEPT ![r] = call[c].result]
        /\ call'[c] = [at |-> "record", run |-> r, rows |-> new]
    BY <1>5, StepAlone, CallFields DEF Step, Move, At, Staged, Record, TypeOK
  <2>2. final'[r] = call[c].result /\ \A q \in Runs : q # r => final'[q] = final[q]
    BY <2>1 DEF TypeOK
  <2>3. Holds(new) /\ \A row \in new : row.of = call[c].result
    <3>1. [type |-> "DATA", of |-> call[c].result] \in new
      OBVIOUS
    <3>2. \A row \in new : row.of = call[c].result
      OBVIOUS
    <3> QED
      BY <3>1, <3>2 DEF Holds
  <2>4. Justified(c)'
    BY <2>1, <2>2, <2>3 DEF Justified, At
  <2>5. \A q \in Runs : Grows(q)
    BY <2>1, <2>2 DEF Grows
  <2> QED
    BY <2>1, <2>4, <2>5, RecordedKept DEF Recorded
<1>6. ASSUME NEW c \in Clients, AddArtifacts(c) PROVE Recorded'
  <2> DEFINE r == call[c].run
  <2>1. /\ UNCHANGED <<run, final>> /\ Alone(c) /\ r \in Runs
        /\ rows' = [rows EXCEPT ![r] = rows[r] \cup call[c].rows]
        /\ call'[c] = [at |-> "succeed", run |-> r]
    BY <1>6, StepAlone, CallFields DEF Step, AddArtifacts, At, Goto, TypeOK
  <2>2. /\ rows'[r] = rows[r] \cup call[c].rows
        /\ \A q \in Runs : q # r => rows'[q] = rows[q]
    BY <2>1 DEF TypeOK
  <2>3. Holds(call[c].rows) /\ \A row \in call[c].rows : row.of = final[r]
    BY <1>6 DEF AddArtifacts, At, Recorded, Justified
  <2>4. \A q \in Runs : Grows(q) /\ (Holds(rows[q]) => Holds(rows'[q]))
    BY <2>1, <2>2 DEF Grows, Holds
  <2>5. Justified(c)'
    BY <2>1, <2>2, <2>3 DEF Justified, At, Holds
  <2>6. \A d \in Clients : Justified(d)'
    BY <2>1, <2>4, <2>5, JustifiedKept DEF Alone
  <2>7. RowsDescribeFiles'
    BY <2>1, <2>2, <2>3 DEF Recorded, RowsDescribeFiles
  <2> QED
    BY <2>1, <2>4, <2>6, <2>7 DEF Recorded
<1>7. ASSUME UNCHANGED <<run, rows, fileVars>>,
             \A c \in Clients : call'[c] = call[c] \/ call'[c] = Idle
      PROVE  Recorded'
  <2>1. \A c \in Clients : Justified(c)'
    BY <1>7, JustifiedKept DEF Justified, At, Idle, Grows
  <2> QED
    BY <1>7, <2>1 DEF Recorded, RowsDescribeFiles
<1>8. CASE (\E b \in Bindings : Rebind(b)) \/ Crash \/ UNCHANGED vars
  BY <1>7, <1>8 DEF Rebind, Crash, vars
<1> QED
  BY <1>1, <1>2, <1>3, <1>4, <1>5, <1>6, <1>8 DEF Next, Step

Inv == TypeOK /\ Staged /\ Recorded

(* The inductive invariant of rows, files and status. *)
THEOREM RunInvariant == Spec => []Inv
<1>1. Init => Inv
  <2> SUFFICES ASSUME Init PROVE Inv
    OBVIOUS
  <2>1. Staged
    BY DEF Init, Staged, Writing, At, Idle
  <2>2. Recorded
    BY DEF Init, Recorded, RowsDescribeFiles, Justified, At, Idle
  <2> QED
    BY <2>1, <2>2, TypeInit DEF Inv
<1>2. Inv /\ [Next]_vars => Inv'
  BY TypeStep, StagedStep, RecordedStep DEF Inv
<1> QED
  BY <1>1, <1>2, PTL DEF Spec

(* The artifact rows of every run describe its files, whichever of any     *)
(* number of requests wrote and recorded them.                             *)
THEOREM RowsAlwaysDescribeFiles == Spec => []RowsDescribeFiles
<1>1. Inv => RowsDescribeFiles
  BY DEF Inv, Recorded
<1> QED
  BY <1>1, RunInvariant, PTL

(* A SUCCEEDED run has its files and its data rows. *)
LEMMA SucceededHasFiles == Inv => SucceededIsWhole
<1> SUFFICES ASSUME Inv, NEW r \in Runs, run[r].status = "SUCCEEDED"
             PROVE  final[r] # Absent /\ \E row \in rows[r] : row.type = "DATA"
  BY DEF SucceededIsWhole
<1>1. Holds(rows[r])
  BY DEF Inv, Recorded
<1> QED
  BY <1>1, RowsHaveFiles DEF Inv, Holds

THEOREM SucceededRunsAreWhole == Spec => []SucceededIsWhole
  BY SucceededHasFiles, RunInvariant, PTL

(* Nothing changes a SUCCEEDED run, its rows or its files: the stale       *)
(* writers meet the trigger, the late recorders the unique rows, and the   *)
(* late movers the directory.                                              *)
THEOREM SucceededRunsAreFinal == Spec => SucceededIsFinal
<1>1. ASSUME Inv, [Next]_vars, NEW r \in Runs, run[r].status = "SUCCEEDED"
      PROVE  run'[r] = run[r] /\ rows'[r] = rows[r] /\ final'[r] = final[r]
  <2> USE <1>1 DEF fileVars
  <2>0. final[r] # Absent /\ TypeOK
    BY SucceededHasFiles DEF SucceededIsWhole, Inv
  <2>1. ASSUME NEW c \in Clients, ClaimInsert(c) PROVE run'[r] = run[r]
    BY <2>1, <2>0 DEF ClaimInsert, TypeOK
  <2>2. ASSUME NEW c \in Clients, RunningWrite(c) \/ SucceededWrite(c) \/ FailedWrite(c)
        PROVE  run'[r] = run[r]
    BY <2>2, <2>0 DEF RunningWrite, SucceededWrite, FailedWrite, Mark, Unlocked, TypeOK
  <2>3. ASSUME NEW c \in Clients, AddArtifacts(c) PROVE rows'[r] = rows[r]
    BY <2>3, <2>0 DEF AddArtifacts, Insertable, TypeOK
  <2>4. ASSUME NEW c \in Clients, Move(c) PROVE final'[r] = final[r]
    BY <2>4, <2>0 DEF Move, TypeOK
  <2>5. ASSUME NEW c \in Clients, Step(c)
        PROVE  run'[r] = run[r] /\ rows'[r] = rows[r] /\ final'[r] = final[r]
    <3>1. CASE \/ Snapshot(c) \/ ClaimRead(c) \/ RunningRead(c) \/ LoadBars(c)
               \/ LoadCalendar(c) \/ Look(c) \/ MakeStaging(c) \/ WriteFiles(c)
               \/ SucceededRead(c) \/ Error(c) \/ FailedRead(c) \/ Abandon(c)
      BY <3>1 DEF Snapshot, ClaimRead, RunningRead, LoadBars, LoadCalendar, Look,
                  MakeStaging, WriteFiles, SucceededRead, Error, FailedRead, Abandon,
                  Transition
    <3>2. CASE ClaimInsert(c)
      BY <3>2, <2>1 DEF ClaimInsert
    <3>3. CASE RunningWrite(c) \/ SucceededWrite(c) \/ FailedWrite(c)
      BY <3>3, <2>2 DEF RunningWrite, SucceededWrite, FailedWrite
    <3>4. CASE AddArtifacts(c)
      BY <3>4, <2>3 DEF AddArtifacts
    <3>5. CASE Move(c)
      BY <3>5, <2>4 DEF Move
    <3> QED
      BY <2>5, <3>1, <3>2, <3>3, <3>4, <3>5 DEF Step
  <2> QED
    BY <2>5 DEF Next, Rebind, Crash, vars
<1>2. Inv /\ [Next]_vars =>
        [\A r \in Runs :
           run[r].status = "SUCCEEDED" =>
             run'[r] = run[r] /\ rows'[r] = rows[r] /\ final'[r] = final[r]]_vars
  BY <1>1
<1> QED
  BY <1>2, RunInvariant, PTL DEF Spec, SucceededIsFinal
=============================================================================
