----------------------------- MODULE BacktestRun -----------------------------
(***************************************************************************)
(* The life of backtest runs (quant_lab/backtest: service.py,              *)
(* repository.py, artifacts.py) over a market data profile that can be     *)
(* bound to other data at any time (market_data/profile_service.py).       *)
(*                                                                         *)
(* Requests for the same backtest of the same snapshot share one run: its  *)
(* row, its staging directory, its result directory and its artifact rows. *)
(* They run on a thread pool; every session commit and every file          *)
(* operation is a step of its own, and the process may die between two.    *)
(*                                                                         *)
(* The requests differ only in the snapshot they took of the profile, so   *)
(* the binding it froze names the run.  The engine is a function of the    *)
(* bars and the calendar it was given, so a result is named by the         *)
(* bindings these were loaded under.                                       *)
(*                                                                         *)
(* A definition named after the one that follows it (ListedNothing before  *)
(* Listed) is a faulty variant: the run must fail when it takes the        *)
(* other's place.                                                          *)
(***************************************************************************)
CONSTANTS
  Clients,    \* request threads
  Bindings,   \* what a profile can be bound to: a dataset and a calendar version
  Runs        \* bound: the bindings under which backtests are created

ASSUME RunsAssumption == Runs \subseteq Bindings

VARIABLES
  profile,    \* the binding of the MarketDataProfileModel
  run,        \* BacktestRunModel of each snapshot: status, has it a failure_code
  rows,       \* BacktestArtifactModel rows of the run
  staging,    \* the run's directory under .staging
  final,      \* its directory under backtests
  call        \* the create_run each thread is in

fileVars == <<staging, final>>
vars == <<profile, run, rows, fileVars, call>>

-----------------------------------------------------------------------------
Status == {"NONE", "PENDING", "RUNNING", "SUCCEEDED", "FAILED"}

(* What a directory holds: nothing when it is not there, no result before  *)
(* the files are written, else the files of one result.                    *)
Result  == [bars : Bindings, calendar : Bindings]
Absent  == [is |-> "absent"]
Begun   == [is |-> "begun"]

(* The rows of a result: one for each data file and metrics.json, all      *)
(* alike, and one for the manifest.                                        *)
Row == [type : {"DATA", "MANIFEST"}, of : Result]

Idle == [at |-> "idle"]
Call == {Idle}
        \cup [at : {"claim", "insert", "begin", "load", "succeed", "fail"}, run : Runs]
        \cup [at : {"running", "succeeded", "failed"}, run : Runs, seen : Status]
        \cup [at : {"calendar"}, run : Runs, bars : Bindings]
        \cup [at : {"look", "stage", "write", "move"}, run : Runs, result : Result]
        \cup [at : {"record"}, run : Runs, rows : SUBSET Row]

TypeOK ==
  /\ profile \in Bindings
  /\ run \in [Runs -> [status : Status, failure : BOOLEAN]]
  /\ rows \in [Runs -> SUBSET Row]
  /\ staging \in [Runs -> Result \cup {Absent, Begun}]
  /\ final \in [Runs -> Result \cup {Absent}]
  /\ call \in [Clients -> Call]

Init ==
  /\ profile \in Bindings
  /\ run = [r \in Runs |-> [status |-> "NONE", failure |-> FALSE]]
  /\ rows = [r \in Runs |-> {}]
  /\ staging = [r \in Runs |-> Absent]
  /\ final = [r \in Runs |-> Absent]
  /\ call = [c \in Clients |-> Idle]

At(c, step) == call[c].at = step
Goto(c, step) == call' = [call EXCEPT ![c] = [at |-> step, run |-> call[c].run]]
GotoSeen(c, step) == call' = [call EXCEPT ![c] =
  [at |-> step, run |-> call[c].run, seen |-> run[call[c].run].status]]
GotoResult(c, step, result) == call' = [call EXCEPT ![c] =
  [at |-> step, run |-> call[c].run, result |-> result]]
Return(c) == call' = [call EXCEPT ![c] = Idle]

-----------------------------------------------------------------------------
(* market_data.snapshot, and with it the fingerprint of the run. *)
Snapshot(c) ==
  /\ call[c] = Idle
  /\ profile \in Runs
  /\ call' = [call EXCEPT ![c] = [at |-> "claim", run |-> profile]]
  /\ UNCHANGED <<profile, run, rows, fileVars>>

(* claim: the select and, when it finds nothing, the insert.  The unique   *)
(* fingerprint turns a late insert into an error, that no handler catches. *)
ClaimRead(c) ==
  /\ At(c, "claim")
  /\ \/ run[call[c].run].status = "SUCCEEDED" /\ Return(c)
     \/ run[call[c].run].status = "NONE" /\ Goto(c, "insert")
     \/ run[call[c].run].status \notin {"SUCCEEDED", "NONE"} /\ Goto(c, "begin")
  /\ UNCHANGED <<profile, run, rows, fileVars>>

ClaimInsert(c) ==
  /\ At(c, "insert")
  /\ run[call[c].run].status = "NONE"
  /\ run' = [run EXCEPT ![call[c].run].status = "PENDING"]
  /\ Goto(c, "begin")
  /\ UNCHANGED <<profile, rows, fileVars>>

(* _transition reads the row and writes it in a second statement.  The     *)
(* trigger refuses any update of a SUCCEEDED row; the ORM writes a column  *)
(* only when it differs from what was read, and nothing clears the         *)
(* failure_code of an earlier failure.                                     *)
Unlocked(r) == run[r].status # "SUCCEEDED"

Mark(c, status, failure) ==
  LET r == call[c].run IN
  /\ Unlocked(r)
  /\ run' = [run EXCEPT ![r] =
               [status  |-> IF call[c].seen = status THEN run[r].status ELSE status,
                failure |-> run[r].failure \/ failure]]

Transition(c, ahead, done) ==
  /\ \/ run[call[c].run].status = "SUCCEEDED" /\ done
     \/ run[call[c].run].status # "SUCCEEDED" /\ GotoSeen(c, ahead)
  /\ UNCHANGED <<profile, run, rows, fileVars>>

RunningRead(c) == At(c, "begin") /\ Transition(c, "running", Goto(c, "load"))

RunningWrite(c) ==
  /\ At(c, "running")
  /\ Mark(c, "RUNNING", FALSE)
  /\ Goto(c, "load")
  /\ UNCHANGED <<profile, rows, fileVars>>

(* _load_bars and profiles.get: the profile is read again for each. *)
LoadBars(c) ==
  /\ At(c, "load")
  /\ call' = [call EXCEPT ![c] = [at |-> "calendar", run |-> call[c].run, bars |-> profile]]
  /\ UNCHANGED <<profile, run, rows, fileVars>>

LoadCalendar(c) ==
  /\ At(c, "calendar")
  /\ GotoResult(c, "look", [bars |-> call[c].bars, calendar |-> profile])
  /\ UNCHANGED <<profile, run, rows, fileVars>>

-----------------------------------------------------------------------------
(* BacktestArtifactWriter.write.  A result directory that is there is      *)
(* taken as it is: the artifacts its manifest lists are those written      *)
(* before the manifest, so they do not include it.                         *)
Record(c, artifacts) ==
  call' = [call EXCEPT ![c] = [at |-> "record", run |-> call[c].run, rows |-> artifacts]]

ListedNothing(r) == {}
Listed(r) == {[type |-> "DATA", of |-> final[r]]}

Look(c) ==
  LET r == call[c].run IN
  /\ At(c, "look")
  /\ \/ final[r] # Absent /\ Record(c, Listed(r))
     \/ final[r] = Absent /\ GotoResult(c, "stage", call[c].result)
  /\ UNCHANGED <<profile, run, rows, fileVars>>

(* mkdir without exist_ok, outside the handler that clears up. *)
StageableShared(r) == TRUE
Stageable(r) == staging[r] = Absent

MakeStaging(c) ==
  LET r == call[c].run IN
  /\ At(c, "stage")
  /\ Stageable(r)
  /\ staging' = [staging EXCEPT ![r] = Begun]
  /\ GotoResult(c, "write", call[c].result)
  /\ UNCHANGED <<profile, run, rows, final>>

WriteFiles(c) ==
  /\ At(c, "write")
  /\ staging' = [staging EXCEPT ![call[c].run] = call[c].result]
  /\ GotoResult(c, "move", call[c].result)
  /\ UNCHANGED <<profile, run, rows, final>>

(* os.replace does not replace a directory that has files. *)
Move(c) ==
  LET r == call[c].run IN
  /\ At(c, "move")
  /\ final[r] = Absent
  /\ final' = [final EXCEPT ![r] = staging[r]]
  /\ staging' = [staging EXCEPT ![r] = Absent]
  /\ Record(c, {[type |-> t, of |-> call[c].result] : t \in {"DATA", "MANIFEST"}})
  /\ UNCHANGED <<profile, run, rows>>

(* add_artifacts, all rows or none.  A run has one row of each type and,   *)
(* once it has SUCCEEDED, gets no more.                                    *)
Insertable(r, new) ==
  /\ run[r].status # "SUCCEEDED"
  /\ \A old \in rows[r], row \in new : old.type # row.type

AddArtifacts(c) ==
  LET r == call[c].run IN
  /\ At(c, "record")
  /\ Insertable(r, call[c].rows)
  /\ rows' = [rows EXCEPT ![r] = rows[r] \cup call[c].rows]
  /\ Goto(c, "succeed")
  /\ UNCHANGED <<profile, run, fileVars>>

SucceededRead(c) == At(c, "succeed") /\ Transition(c, "succeeded", Return(c))

SucceededWrite(c) ==
  /\ At(c, "succeeded")
  /\ Mark(c, "SUCCEEDED", FALSE)
  /\ Return(c)
  /\ UNCHANGED <<profile, rows, fileVars>>

-----------------------------------------------------------------------------
(* Any step after mark_running may raise, the ones whose condition fails   *)
(* always do.  The writer removes the staging directory on its way out,    *)
(* if it can (rmtree ignores errors).                                      *)
Error(c) ==
  LET r == call[c].run IN
  /\ call[c].at \in {"load", "calendar", "look", "stage", "write", "move",
                     "record", "succeed", "succeeded"}
  /\ \/ call[c].at \in {"write", "move"} /\ staging' = [staging EXCEPT ![r] = Absent]
     \/ UNCHANGED staging
  /\ Goto(c, "fail")
  /\ UNCHANGED <<profile, run, rows, final>>

FailedRead(c) == At(c, "fail") /\ Transition(c, "failed", Return(c))

FailedWrite(c) ==
  /\ At(c, "failed")
  /\ Mark(c, "FAILED", TRUE)
  /\ Return(c)
  /\ UNCHANGED <<profile, rows, fileVars>>

(* An error in claim, mark_running or mark_failed ends the request. *)
Abandon(c) ==
  /\ call[c].at \in {"claim", "insert", "begin", "running", "fail", "failed"}
  /\ Return(c)
  /\ UNCHANGED <<profile, run, rows, fileVars>>

(* PATCH /profiles/{profile_id}. *)
Rebind(b) ==
  /\ profile' = b
  /\ UNCHANGED <<run, rows, fileVars, call>>

(* The process dies and comes back; nothing looks after backtests then. *)
Crash ==
  /\ call' = [c \in Clients |-> Idle]
  /\ UNCHANGED <<profile, run, rows, fileVars>>

Step(c) ==
  \/ Snapshot(c) \/ ClaimRead(c) \/ ClaimInsert(c)
  \/ RunningRead(c) \/ RunningWrite(c)
  \/ LoadBars(c) \/ LoadCalendar(c)
  \/ Look(c) \/ MakeStaging(c) \/ WriteFiles(c) \/ Move(c)
  \/ AddArtifacts(c) \/ SucceededRead(c) \/ SucceededWrite(c)
  \/ Error(c) \/ FailedRead(c) \/ FailedWrite(c) \/ Abandon(c)

Next ==
  \/ \E c \in Clients : Step(c)
  \/ \E b \in Bindings : Rebind(b)
  \/ Crash

Spec == Init /\ [][Next]_vars

-----------------------------------------------------------------------------
(***************************************************************************)
(* Properties.                                                             *)
(***************************************************************************)

(* The artifact rows of a run (type, size, digest) describe the files in   *)
(* its result directory, whichever of the requests that share the run      *)
(* wrote the files and whichever recorded them, over failures, crashes and *)
(* retries.                                                                *)
RowsDescribeFiles ==
  \A r \in Runs : \A row \in rows[r] : row.of = final[r]

(* A run is SUCCEEDED only with its files in place and its data artifacts  *)
(* recorded, although files, rows and status change in three steps and a   *)
(* stale writer may have set the status in between.  (The row of the       *)
(* manifest can be missing: a retry that takes a directory as it is does   *)
(* not record one.)                                                        *)
SucceededIsWhole ==
  \A r \in Runs :
    run[r].status = "SUCCEEDED" =>
      /\ final[r] # Absent
      /\ \E row \in rows[r] : row.type = "DATA"

(* A SUCCEEDED run never changes again: not its status, not its rows, not  *)
(* its files, whatever requests for it are under way.                      *)
SucceededIsFinal ==
  [][\A r \in Runs :
       run[r].status = "SUCCEEDED" =>
         run'[r] = run[r] /\ rows'[r] = rows[r] /\ final'[r] = final[r]]_vars

(* README.md:15 of the repository: "Published data and strategy versions   *)
(* remain fixed for each run": the result of a run was computed from the   *)
(* data versions of the snapshot it was created for.  It does not hold:    *)
(* the profile is read again, twice, after the snapshot.                   *)
DataRemainFixed ==
  \A r \in Runs :
    run[r].status = "SUCCEEDED" => final[r] = [bars |-> r, calendar |-> r]
=============================================================================
