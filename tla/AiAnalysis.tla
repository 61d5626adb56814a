------------------------------ MODULE AiAnalysis ------------------------------
(***************************************************************************)
(* One two-stage research analysis (quant_lab/ai: analysis_repository.py,  *)
(* analysis_execution.py, provider_execution.py, provider_budget.py).      *)
(*                                                                         *)
(* A request claims the run with an execution epoch, and then, on its own  *)
(* thread, takes it through diagnosis, gate and recommendation; each call  *)
(* of the paid provider is an attempt.  Every change of the database is a  *)
(* BEGIN IMMEDIATE transaction of its own, so a cancellation, an error no  *)
(* handler catches or the death of the process may come between any two,   *)
(* and the provider is called between two of them.                         *)
(*                                                                         *)
(* What a prompt, an answer or a diagnosis says is left out: validation    *)
(* and the gate are choices, and so are the provider's answer and bill.    *)
(* An epoch is named by its idempotency key, which is unique in a run, and *)
(* an attempt by its number.                                               *)
(*                                                                         *)
(* A definition named after the one that follows it (ClaimableBusy before  *)
(* Claimable) is a faulty variant: the run must fail when it takes the     *)
(* other's place.                                                          *)
(***************************************************************************)
EXTENDS Naturals, Sequences, FiniteSets, FiniteSetsExt, Functions

CONSTANTS
  Clients,       \* request threads
  Keys,          \* idempotency keys of execute requests
  None,          \* no epoch
  MaxCalls,      \* max_calls of the provider budget
  Reservation,   \* reserved_cost of one call
  MaxCost,       \* max_estimated_cost of the provider budget
  MaxCrashes     \* bound: restarts of the process

ASSUME AnalysisAssumption ==
  /\ None \notin Keys
  /\ MaxCalls \in Nat /\ Reservation \in Nat /\ MaxCost \in Nat /\ MaxCrashes \in Nat

VARIABLES
  status,      \* AIAnalysisRunModel.status
  active,      \* active_epoch_id, None when nobody owns the run
  unknown,     \* provider_result_unknown
  accepted,    \* attempt whose result each stage accepted, 0 without
  gate,        \* gate_json
  preflight,   \* decision of the gate frozen when the run was created
  epochs,      \* status and intent of the epoch of each key
  attempts,    \* AIAnalysisAttemptModel rows with binding, usage and validation
  call,        \* the execution each thread is in
  lost,        \* history: the thread of the active epoch died of an error
  crashes

runVars == <<status, active, unknown, epochs, lost>>
resultVars == <<accepted, gate, preflight>>
vars == <<runVars, resultVars, attempts, call, crashes>>

-----------------------------------------------------------------------------
Terminal  == {"COMPLETED", "FAILED", "REJECTED", "CANCELLED"}
RunStatus == {"CREATED", "RUNNING"} \cup Terminal
Intent    == {"INITIAL", "RESUME", "RETRY_UNKNOWN"}
Decision  == {"PROCEED", "WAIT_FOR_EVIDENCE", "ABSTAIN", "REJECT"}
Stages    == {1, 2}

NoEpoch == [status |-> "NONE", intent |-> "INITIAL"]
Epoch   == [status : {"NONE", "ACTIVE", "COMPLETED", "CANCELLED", "INTERRUPTED"},
            intent : Intent]

(* bound: has a provider call binding, made before the call goes out.      *)
(* bill: the most the provider can have charged: what the tokens of its    *)
(* answer cost or, when it told none, the whole reservation.               *)
(* verdict: the recorded validation result.                                *)
Attempt == [stage : Stages, epoch : Keys,
            status : {"STARTED", "COMPLETED", "FAILED", "ABANDONED"},
            bound : BOOLEAN, bill : 0 .. Reservation,
            verdict : {"NONE", "ACCEPTED", "RETRYABLE", "REJECTED"}]

(* The step an execution takes next, with what it has at hand. *)
Idle     == [at |-> "idle"]
RunCall  == [at : {"start", "gate", "release"}, key : Keys]
StopCall == [at : {"stop"}, key : Keys, end : Terminal]
StageCall == [at : {"enter", "next"}, key : Keys, stage : Stages]
AttemptCall == [at : {"reserve", "send", "validate", "accept"}, key : Keys,
                stage : Stages, attempt : Nat]
AnswerCall == [at : {"finalize"}, key : Keys, stage : Stages, attempt : Nat,
               answer : {"COMPLETED", "FAILED", "ABANDONED"}]
Call == {Idle} \cup RunCall \cup StopCall \cup StageCall \cup AttemptCall \cup AnswerCall

TypeOK ==
  /\ status \in RunStatus
  /\ active \in Keys \cup {None}
  /\ unknown \in BOOLEAN
  /\ accepted \in [Stages -> 0 .. Len(attempts)]
  /\ gate \in Decision \cup {"NONE"}
  /\ preflight \in Decision
  /\ epochs \in [Keys -> Epoch]
  /\ attempts \in Seq(Attempt)
  /\ call \in [Clients -> Call]
  /\ lost \in BOOLEAN
  /\ crashes \in 0 .. MaxCrashes

Init ==
  /\ status = "CREATED"
  /\ active = None
  /\ unknown = FALSE
  /\ accepted = [n \in Stages |-> 0]
  /\ gate = "NONE"
  /\ preflight \in Decision
  /\ epochs = [k \in Keys |-> NoEpoch]
  /\ attempts = <<>>
  /\ call = [c \in Clients |-> Idle]
  /\ lost = FALSE
  /\ crashes = 0

At(c, step) == call[c].at = step
Goto(c, next) == call' = [call EXCEPT ![c] = next]
Return(c)     == Goto(c, Idle)

ToRun(c, step) == Goto(c, [at |-> step, key |-> call[c].key])
ToStop(c, end) == Goto(c, [at |-> "stop", key |-> call[c].key, end |-> end])
ToStage(c, step, n) == Goto(c, [at |-> step, key |-> call[c].key, stage |-> n])
ToAttempt(c, step, i) ==
  Goto(c, [at |-> step, key |-> call[c].key, stage |-> call[c].stage, attempt |-> i])

(* What every transaction of an execution checks first. *)
OwnedUnchecked(c) == TRUE
Owned(c) == active = call[c].key /\ status \notin Terminal

-----------------------------------------------------------------------------
(***************************************************************************)
(* Claim.  A key that was used before is answered from its epoch.          *)
(***************************************************************************)
Used(k) == epochs[k].status # "NONE"
NoneUsed == \A k \in Keys : ~Used(k)

ClaimableBusy(k, intent) ==
  /\ ~Used(k)
  /\ status \notin Terminal
  /\ NoneUsed <=> intent = "INITIAL"
  /\ unknown => intent = "RETRY_UNKNOWN"
Claimable(k, intent) ==
  /\ ~Used(k)
  /\ status \notin Terminal
  /\ active = None
  /\ NoneUsed <=> intent = "INITIAL"
  /\ unknown => intent = "RETRY_UNKNOWN"

Claim(c, k, intent) ==
  /\ call[c] = Idle
  /\ Claimable(k, intent)
  /\ epochs' = [epochs EXCEPT ![k] = [status |-> "ACTIVE", intent |-> intent]]
  /\ active' = k
  /\ status' = "RUNNING"
  /\ Goto(c, [at |-> "start", key |-> k])
  /\ UNCHANGED <<unknown, lost, resultVars, attempts, crashes>>

-----------------------------------------------------------------------------
(***************************************************************************)
(* Ending an execution.                                                    *)
(***************************************************************************)

(* _abandon: a call that may have gone out is lost, any other has failed.  *)
Abandoned(a) ==
  IF a.status # "STARTED" THEN a
  ELSE [a EXCEPT !.status = IF a.bound THEN "ABANDONED" ELSE "FAILED"]
AbandonStarted == attempts' = [i \in 1 .. Len(attempts) |-> Abandoned(attempts[i])]
LosesCall == \E i \in 1 .. Len(attempts) : attempts[i].status = "STARTED" /\ attempts[i].bound

EndEpoch(how) ==
  /\ active' = None
  /\ lost' = FALSE
  /\ epochs' = IF active = None THEN epochs ELSE [epochs EXCEPT ![active].status = how]

(* A checkpoint with a terminal lifecycle. *)
Terminate(c, end) ==
  /\ AbandonStarted
  /\ unknown' = (unknown \/ LosesCall)
  /\ status' = end
  /\ EndEpoch("COMPLETED")

(* _stop: an execution that lost its epoch returns without a word.         *)
Stop(c) ==
  /\ At(c, "stop")
  /\ IF Owned(c) THEN Terminate(c, call[c].end) ELSE UNCHANGED <<runVars, attempts>>
  /\ Return(c)
  /\ UNCHANGED <<resultVars, crashes>>

(* A ValueError or OSError of a step: lost artifacts, broken fingerprints, *)
(* an unavailable provider host.  The errors of a call are its answer.     *)
Fail(c) ==
  /\ call[c].at \in {"start", "enter", "next", "reserve", "validate", "accept", "gate"}
  /\ \E end \in {"REJECTED", "FAILED"} : ToStop(c, end)
  /\ UNCHANGED <<runVars, resultVars, attempts, crashes>>

(* Any other error, such as a lock that is not granted, leaves the epoch   *)
(* behind.                                                                 *)
Die(c) ==
  /\ call[c] # Idle
  /\ lost' = (lost \/ active = call[c].key)
  /\ Return(c)
  /\ UNCHANGED <<status, active, unknown, epochs, resultVars, attempts, crashes>>

(* cancel, from any other thread.                                          *)
Cancel ==
  /\ status \notin Terminal
  /\ AbandonStarted
  /\ unknown' = (unknown \/ LosesCall)
  /\ status' = "CANCELLED"
  /\ EndEpoch("CANCELLED")
  /\ UNCHANGED <<resultVars, call, crashes>>

(* The process dies and comes back; recover runs before the first request  *)
(* and takes every call that had started for lost.                         *)
AbandonedAtRestart(a) == IF a.status = "STARTED" THEN [a EXCEPT !.status = "ABANDONED"] ELSE a
RecoverUnknownStarted == unknown \/ LosesCall
RecoverUnknown ==
  unknown \/ \E i \in 1 .. Len(attempts) : attempts[i].status \in {"STARTED", "ABANDONED"}

Restart ==
  /\ crashes < MaxCrashes
  /\ crashes' = crashes + 1
  /\ call' = [c \in Clients |-> Idle]
  /\ IF active = None
     THEN UNCHANGED <<runVars, attempts>>
     ELSE /\ attempts' = [i \in 1 .. Len(attempts) |-> AbandonedAtRestart(attempts[i])]
          /\ unknown' = RecoverUnknown
          /\ EndEpoch("INTERRUPTED")
          /\ UNCHANGED status
  /\ UNCHANGED resultVars

-----------------------------------------------------------------------------
(***************************************************************************)
(* The stages.                                                             *)
(***************************************************************************)

(* A decision other than PROCEED ends the run.                             *)
EndOf(decision) == IF decision = "REJECT" THEN "REJECTED" ELSE "COMPLETED"

(* The gate frozen with the request can end the run before any call.       *)
Refuse(c) ==
  /\ At(c, "start")
  /\ preflight # "PROCEED"
  /\ IF Owned(c)
     THEN Terminate(c, EndOf(preflight)) /\ gate' = preflight
     ELSE UNCHANGED <<runVars, attempts, gate>>
  /\ Return(c)
  /\ UNCHANGED <<accepted, preflight, crashes>>

(* A resumed run goes on from the diagnosis it has.                        *)
Start(c) ==
  /\ At(c, "start")
  /\ preflight = "PROCEED"
  /\ IF accepted[1] = 0 THEN ToStage(c, "enter", 1) ELSE ToRun(c, "gate")
  /\ UNCHANGED <<runVars, resultVars, attempts, crashes>>

OfStage(n) == {i \in 1 .. Len(attempts) : attempts[i].stage = n}
Validated(n) == {i \in OfStage(n) : attempts[i].verdict # "NONE"}

(* The latest attempt of the stage, 0 when it has none.                    *)
Parent(n) == IF OfStage(n) = {} THEN 0 ELSE Max(OfStage(n))

(* _stage, up to its loop: what an earlier epoch left of this stage.       *)
Enter(c) ==
  LET n == call[c].stage
      verdict == IF OfStage(n) = {} THEN "NONE" ELSE attempts[Parent(n)].verdict
      failed == OfStage(n) # {} /\ attempts[Parent(n)].status = "FAILED"
  IN
  /\ At(c, "enter")
  /\ CASE verdict = "ACCEPTED" -> ToAttempt(c, "accept", Parent(n))
       [] verdict = "REJECTED" -> ToStop(c, "REJECTED")
       [] verdict \notin {"ACCEPTED", "REJECTED"} /\ failed -> ToStop(c, "FAILED")
       [] OTHER -> IF Owned(c) THEN ToStage(c, "next", n) ELSE Return(c)
  /\ UNCHANGED <<runVars, resultVars, attempts, crashes>>

(* A completed call without a validation is validated, never sent again.   *)
UnvalidatedNever(n) == FALSE
UnvalidatedAlways(n) == OfStage(n) # {} /\ attempts[Parent(n)].status = "COMPLETED"
Unvalidated(n) ==
  /\ OfStage(n) # {}
  /\ attempts[Parent(n)].status = "COMPLETED"
  /\ attempts[Parent(n)].verdict = "NONE"

Revalidate(c) ==
  /\ At(c, "next")
  /\ Unvalidated(call[c].stage)
  /\ ToAttempt(c, "validate", Parent(call[c].stage))
  /\ UNCHANGED <<runVars, resultVars, attempts, crashes>>

GiveUp(c) ==
  /\ At(c, "next")
  /\ ~Unvalidated(call[c].stage)
  /\ Cardinality(Validated(call[c].stage)) >= 3
  /\ ToStop(c, "FAILED")
  /\ UNCHANGED <<runVars, resultVars, attempts, crashes>>

-----------------------------------------------------------------------------
(***************************************************************************)
(* A call of the provider.                                                 *)
(***************************************************************************)
Bound == {i \in 1 .. Len(attempts) : attempts[i].bound}

(* _charged: only a completed call counts less than its reservation.       *)
ChargeSettled(a) == IF a.status = "COMPLETED" THEN a.bill ELSE 0
Charge(a) == IF a.status = "COMPLETED" THEN a.bill ELSE Reservation
Charged == SumFunction([i \in Bound |-> Charge(attempts[i])])

WithinBudget ==
  /\ Cardinality(Bound) < MaxCalls
  /\ Charged + Reservation <= MaxCost

NewAttempt(c) ==
  LET n == call[c].stage IN
  /\ At(c, "next")
  /\ ~Unvalidated(n)
  /\ Cardinality(Validated(n)) < 3
  /\ IF ~Owned(c) THEN Return(c) /\ UNCHANGED attempts
     ELSE IF ~WithinBudget THEN ToStop(c, "FAILED") /\ UNCHANGED attempts
     ELSE /\ attempts' = Append(attempts,
                [stage |-> n, epoch |-> call[c].key, status |-> "STARTED", bound |-> FALSE,
                 bill |-> 0, verdict |-> "NONE"])
          /\ ToAttempt(c, "reserve", Len(attempts) + 1)
  /\ UNCHANGED <<runVars, resultVars, crashes>>

(* _reserve: the gates and the ownership are looked up again, and the      *)
(* binding is committed before the call.                                   *)
Authorized(c) ==
  /\ attempts[call[c].attempt].status = "STARTED"
  /\ ~attempts[call[c].attempt].bound
  /\ Owned(c)
  /\ IF call[c].stage = 1 THEN preflight = "PROCEED" /\ accepted[1] = 0
     ELSE gate = "PROCEED" /\ accepted[1] # 0

Reserve(c) ==
  /\ At(c, "reserve")
  /\ IF Authorized(c) /\ WithinBudget
     THEN /\ attempts' = [attempts EXCEPT ![call[c].attempt].bound = TRUE]
          /\ ToAttempt(c, "send", call[c].attempt)
     ELSE \E end \in {"REJECTED", "FAILED"} : ToStop(c, end) /\ UNCHANGED attempts
  /\ UNCHANGED <<runVars, resultVars, crashes>>

(* The call goes out, and can be billed whatever becomes of its answer.    *)
Send(c) ==
  /\ At(c, "send")
  /\ attempts' = [attempts EXCEPT ![call[c].attempt].bill = Reservation]
  /\ \E answer \in {"COMPLETED", "FAILED", "ABANDONED"} :
       Goto(c, [at |-> "finalize", key |-> call[c].key, stage |-> call[c].stage,
                attempt |-> call[c].attempt, answer |-> answer])
  /\ UNCHANGED <<runVars, resultVars, crashes>>

(* _finalize: an answer that comes after the attempt was given up is       *)
(* dropped.                                                                *)
AfterAnswer(c) ==
  CASE call[c].answer = "COMPLETED" -> ToAttempt(c, "validate", call[c].attempt)
    [] call[c].answer = "ABANDONED" -> ToRun(c, "release")
    [] call[c].answer = "FAILED"    -> ToStop(c, "FAILED")

Finalize(c) ==
  LET i == call[c].attempt IN
  /\ At(c, "finalize")
  /\ IF attempts[i].status # "STARTED"
     THEN ToStop(c, "REJECTED") /\ UNCHANGED attempts
     ELSE /\ \E bill \in IF call[c].answer = "COMPLETED" THEN 0 .. Reservation
                        ELSE {Reservation} :
               attempts' = [attempts EXCEPT ![i].status = call[c].answer, ![i].bill = bill]
          /\ AfterAnswer(c)
  /\ UNCHANGED <<runVars, resultVars, crashes>>

(* A lost answer hands the run back; only the user can have it called      *)
(* again.                                                                  *)
ReleaseEpoch(c) == EndEpoch("COMPLETED")

Release(c) ==
  /\ At(c, "release")
  /\ IF Owned(c)
     THEN unknown' = TRUE /\ ReleaseEpoch(c)
     ELSE UNCHANGED <<unknown, active, epochs, lost>>
  /\ Return(c)
  /\ UNCHANGED <<status, resultVars, attempts, crashes>>

(* The validation result is recorded whoever owns the run.                 *)
Validate(c) ==
  /\ At(c, "validate")
  /\ \E verdict \in {"ACCEPTED", "RETRYABLE", "REJECTED"} :
       /\ attempts' = [attempts EXCEPT ![call[c].attempt].verdict = verdict]
       /\ CASE verdict = "ACCEPTED"  -> ToAttempt(c, "accept", call[c].attempt)
            [] verdict = "RETRYABLE" -> ToStage(c, "next", call[c].stage)
            [] verdict = "REJECTED"  -> ToStop(c, "REJECTED")
  /\ UNCHANGED <<runVars, resultVars, crashes>>

(* An accepted result is never replaced by another.                        *)
Accept(c) ==
  LET n == call[c].stage
      i == call[c].attempt
  IN
  /\ At(c, "accept")
  /\ IF Owned(c) /\ accepted[n] \in {0, i}
     THEN /\ accepted' = [accepted EXCEPT ![n] = i]
          /\ IF n = 1 THEN ToRun(c, "gate") ELSE ToStop(c, "COMPLETED")
     ELSE ToStop(c, "REJECTED") /\ UNCHANGED accepted
  /\ UNCHANGED <<runVars, gate, preflight, attempts, crashes>>

(* The gate between the stages, decided once.                              *)
EnterRecommendationAlways(c, decision) == ToStage(c, "enter", 2)
EnterRecommendation(c, decision) ==
  IF decision = "PROCEED"
  THEN ToStage(c, "enter", 2)
  ELSE ToStop(c, EndOf(decision))

Gate(c) ==
  /\ At(c, "gate")
  /\ IF ~Owned(c) THEN Return(c) /\ UNCHANGED gate
     ELSE \E decision \in IF gate = "NONE" THEN Decision ELSE {gate} :
            gate' = decision /\ EnterRecommendation(c, decision)
  /\ UNCHANGED <<runVars, accepted, preflight, attempts, crashes>>

-----------------------------------------------------------------------------
Progress(c) ==
  \/ Stop(c)   \/ Fail(c)    \/ Die(c)
  \/ Refuse(c) \/ Start(c)   \/ Enter(c)
  \/ Revalidate(c) \/ GiveUp(c) \/ NewAttempt(c)
  \/ Reserve(c) \/ Send(c) \/ Finalize(c) \/ Release(c)
  \/ Validate(c) \/ Accept(c) \/ Gate(c)

Next ==
  \/ \E c \in Clients : \/ \E k \in Keys, intent \in Intent : Claim(c, k, intent)
                         \/ Progress(c)
  \/ Cancel
  \/ Restart

Spec == Init /\ [][Next]_vars

(* An execution is straight-line code on its thread: it goes on until it   *)
(* returns.                                                                *)
FairSpec == Spec /\ \A c \in Clients : WF_vars(Progress(c))

-----------------------------------------------------------------------------
(***************************************************************************)
(* Properties.                                                             *)
(***************************************************************************)
Numbers == 1 .. Len(attempts)

(* An unknown result is never retried silently: whatever is called after a *)
(* call was lost, by an answer that never came, a restart or an error, is  *)
(* called under an epoch with which the user confirmed the risk.           *)
NoSilentRetry ==
  \A i, j \in Numbers :
    i < j /\ attempts[i].status = "ABANDONED"
      => epochs[attempts[j].epoch].intent = "RETRY_UNKNOWN"

(* No answer is bought twice: a stage calls the provider again only when   *)
(* its earlier call was lost, or answered with something that validation   *)
(* found to be worth a retry, also when the process died between the call, *)
(* its validation and its acceptance.                                      *)
NoAnswerBoughtTwice ==
  \A i, j \in Numbers :
    i < j /\ attempts[i].stage = attempts[j].stage
      => attempts[i].status = "ABANDONED" \/ attempts[i].verdict = "RETRYABLE"

(* What the provider may have charged stays within the run's budget, with  *)
(* late and lost answers, failures, cancellations and restarts.            *)
BilledWithinBudget == SumFunction([i \in Numbers |-> attempts[i].bill]) <= MaxCost

(* The second stage is never begun without an accepted diagnosis that let  *)
(* the gate pass, and what is accepted is the validated answer of a call.  *)
StagesInOrder ==
  /\ OfStage(2) # {} => accepted[1] # 0 /\ gate = "PROCEED"
  /\ \A n \in Stages : accepted[n] # 0 =>
       /\ accepted[n] \in OfStage(n)
       /\ attempts[accepted[n]].status = "COMPLETED"
       /\ attempts[accepted[n]].verdict = "ACCEPTED"

(* A run that has ended holds nothing open.                                *)
EndedIsClosed ==
  status \in Terminal => active = None /\ \A i \in Numbers : attempts[i].status # "STARTED"

(* Nor does it take anything more: a thread that does not know yet         *)
(* reserves no other call for it, has no result accepted, and an answer    *)
(* that comes late changes nothing that was settled at the end.  The call  *)
(* it had reserved before may still go out after it.                       *)
EndedReservesNothing ==
  [][(status \in Terminal) =>
       /\ status' = status /\ accepted' = accepted /\ Bound' = Bound
       /\ \A i \in Numbers : attempts'[i].status = attempts[i].status]_vars

(* A run is executed by one thread at a time, and it is in progress only   *)
(* while a thread is at work on it, unless that thread ended by an error   *)
(* nothing handles; so no run is left that refuses every request.          *)
OneExecutor ==
  \A c, d \in Clients : call[c] # Idle /\ call[d] # Idle => c = d
EpochHasExecutor ==
  active # None => lost \/ \E c \in Clients : call[c] # Idle /\ call[c].key = active

(* Every execution ends, although a stage repeats its calls.               *)
ExecutionEnds == \A c \in Clients : call[c] # Idle ~> call[c] = Idle

(***************************************************************************)
(* What the repository says and an interleaving refutes.                   *)
(***************************************************************************)

(* A cancelled run tells that a call was lost (test_analysis_orchestration)*)
CancelRetainsUnknown ==
  status = "CANCELLED" /\ (\E i \in Numbers : attempts[i].status = "ABANDONED") => unknown

(* Not true: _reserve is the last to look at the run before the call goes  *)
(* out.                                                                    *)
EndedSendsNothing ==
  [][(status \in Terminal) =>
       \A i \in Numbers : attempts'[i].bill <= attempts[i].bill]_vars
=============================================================================
