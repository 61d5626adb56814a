--------------------------- MODULE AiAnalysisProofs ---------------------------
(***************************************************************************)
(* Theorems about AiAnalysis, for any number of request threads, keys,     *)
(* calls and restarts: what each action does, type correctness, who owns a *)
(* run, and what it calls its provider for: a lost call is not repeated    *)
(* without the user, no answer is bought twice, the stages come in order,  *)
(* nothing is dispatched for a run that has ended, and what it is billed   *)
(* stays within its budget.                                                *)
(*                                                                         *)
(* And about ProviderHost, for any number of host processes and of         *)
(* requests, any capacity of the memory and any skew that is tolerated.    *)
(***************************************************************************)
EXTENDS AiAnalysis, ProviderHost, RecursionLemmas, FiniteSetTheorems, WellFoundedInduction, TLAPS

-----------------------------------------------------------------------------
(***************************************************************************)
(* Lemmas.                                                                 *)
(***************************************************************************)

(* The latest of some attempts is one of them, and none comes after it. *)
LEMMA LatestExists ==
  ASSUME NEW n \in Nat, NEW S \in SUBSET (1 .. n), S # {}
  PROVE  Max(S) \in S /\ \A i \in S : i <= Max(S)
<1> DEFINE T == {n - i : i \in S}
<1>0. \A i \in S : n - i \in Nat
  OBVIOUS
<1>1. T \subseteq Nat /\ T # {}
  BY <1>0, Zenon
<1>2. PICK x \in T : \A y \in T : ~ (<<y, x>> \in OpToRel(<, Nat))
  <2> HIDE DEF T
  <2> QED
    BY <1>1, NatLessThanWellFounded, WFMin
<1>3. PICK m \in S : x = n - m
  BY <1>2
<1>4. \A i \in S : m >= i
  <2>1. TAKE i \in S
  <2>2. n - i \in T /\ n - i \in Nat /\ n - m \in Nat
    BY <1>3
  <2>3. ~ (n - i < n - m)
    BY <1>2, <1>3, <2>2 DEF OpToRel
  <2> QED
    BY <1>3, <2>3
<1> QED
  BY <1>3, <1>4 DEF Max

(* A step of an execution has the fields its kind reads. *)
LEMMA CallShape ==
  ASSUME NEW x \in Call
  PROVE  /\ x.at = "idle" <=> x = Idle
         /\ x # Idle => x.key \in Keys
         /\ x.at \in {"start", "gate", "release"} => x \in RunCall
         /\ x.at = "stop" => x \in StopCall
         /\ x.at \in {"enter", "next"} => x \in StageCall
         /\ x.at \in {"reserve", "send", "validate", "accept"} => x \in AttemptCall
         /\ x.at = "finalize" => x \in AnswerCall
  BY DEF Call, Idle, RunCall, StopCall, StageCall, AttemptCall, AnswerCall

(* A step takes its own thread to a call, and leaves the others.           *)
LEMMA GotoType ==
  ASSUME TypeOK, NEW c \in Clients, NEW x \in Call, Goto(c, x)
  PROVE  call' \in [Clients -> Call] /\ call'[c] = x /\ \A d \in Clients \ {c} : call'[d] = call[d]
  BY DEF TypeOK, Goto

(* Giving up an attempt changes nothing but its status. *)
LEMMA AbandonedType ==
  ASSUME NEW a \in Attempt
  PROVE  /\ Abandoned(a) \in Attempt /\ AbandonedAtRestart(a) \in Attempt
         /\ Abandoned(a).stage = a.stage /\ AbandonedAtRestart(a).stage = a.stage
         /\ Abandoned(a).epoch = a.epoch /\ AbandonedAtRestart(a).epoch = a.epoch
         /\ Abandoned(a).bound = a.bound /\ AbandonedAtRestart(a).bound = a.bound
         /\ Abandoned(a).verdict = a.verdict /\ AbandonedAtRestart(a).verdict = a.verdict
         /\ Abandoned(a).status # "STARTED" /\ AbandonedAtRestart(a).status # "STARTED"
         /\ a.status # "STARTED" => Abandoned(a) = a /\ AbandonedAtRestart(a) = a
         /\ a.status = "STARTED" /\ ~a.bound => Abandoned(a).status = "FAILED"
         /\ a.status = "STARTED" /\ a.bound => Abandoned(a).status = "ABANDONED"
         /\ a.status = "STARTED" => AbandonedAtRestart(a).status = "ABANDONED"
  BY DEF Attempt, Abandoned, AbandonedAtRestart

(* A sequence of attempts rewritten one by one is one of the same length. *)
LEMMA Rewritten ==
  ASSUME attempts \in Seq(Attempt), NEW f \in [1 .. Len(attempts) -> Attempt]
  PROVE  /\ f \in Seq(Attempt)
         /\ Len(f) = Len(attempts)
  OBVIOUS

(* _abandon rewrites every attempt in its place.                           *)
LEMMA AbandonEffect ==
  ASSUME TypeOK, AbandonStarted
  PROVE  /\ attempts' \in Seq(Attempt)
         /\ Len(attempts') = Len(attempts)
         /\ \A i \in Numbers : attempts'[i] = Abandoned(attempts[i])
<1>1. \A i \in Numbers : attempts[i] \in Attempt
  BY DEF TypeOK, Numbers
<1>2. attempts' \in [1 .. Len(attempts) -> Attempt]
  BY <1>1, AbandonedType DEF AbandonStarted, Numbers
<1> QED
  BY <1>2, Rewritten DEF TypeOK, AbandonStarted, Numbers

(* So does recovery.                                                       *)
LEMMA RestartEffect ==
  ASSUME TypeOK,
         attempts' = [i \in 1 .. Len(attempts) |-> AbandonedAtRestart(attempts[i])]
  PROVE  /\ attempts' \in Seq(Attempt)
         /\ Len(attempts') = Len(attempts)
         /\ \A i \in Numbers : attempts'[i] = AbandonedAtRestart(attempts[i])
<1>1. \A i \in Numbers : attempts[i] \in Attempt
  BY DEF TypeOK, Numbers
<1>2. attempts' \in [1 .. Len(attempts) -> Attempt]
  BY <1>1, AbandonedType DEF Numbers
<1> QED
  BY <1>2, Rewritten DEF TypeOK, Numbers

(* One attempt is rewritten. *)
LEMMA UpdateEffect ==
  ASSUME TypeOK, NEW i \in Numbers, NEW a \in Attempt,
         attempts' = [attempts EXCEPT ![i] = a]
  PROVE  /\ attempts' \in Seq(Attempt)
         /\ Len(attempts') = Len(attempts)
         /\ attempts'[i] = a
         /\ \A j \in Numbers \ {i} : attempts'[j] = attempts[j]
  BY DEF TypeOK, Numbers

(* An attempt is added. *)
LEMMA AppendEffect ==
  ASSUME TypeOK, NEW a \in Attempt, attempts' = Append(attempts, a)
  PROVE  /\ attempts' \in Seq(Attempt)
         /\ Len(attempts') = Len(attempts) + 1
         /\ attempts'[Len(attempts) + 1] = a
         /\ \A j \in Numbers : attempts'[j] = attempts[j]
  BY DEF TypeOK, Numbers

(* Ending an epoch leaves what it was claimed for. *)
LEMMA EndEpochEffect ==
  ASSUME TypeOK, NEW how \in {"COMPLETED", "CANCELLED", "INTERRUPTED"}, EndEpoch(how)
  PROVE  /\ epochs' \in [Keys -> Epoch]
         /\ active' = None /\ lost' = FALSE
         /\ \A k \in Keys : epochs'[k].intent = epochs[k].intent
         /\ \A k \in Keys : epochs[k].status # "NONE" => epochs'[k].status # "NONE"
<1>1. CASE active = None
  BY <1>1 DEF EndEpoch, TypeOK
<1>2. CASE active # None
  <2>1. epochs' = [epochs EXCEPT ![active].status = how] /\ active \in Keys
    BY <1>2 DEF EndEpoch, TypeOK
  <2> QED
    BY <2>1 DEF EndEpoch, TypeOK, Epoch
<1> QED
  BY <1>1, <1>2

-----------------------------------------------------------------------------
(***************************************************************************)
(* Type correctness.  An execution that works on an attempt has one, of    *)
(* the stage it is in.                                                     *)
(***************************************************************************)
InHand == {"reserve", "send", "finalize", "validate", "accept"}

CallsAttempt ==
  \A c \in Clients : call[c].at \in InHand =>
    /\ call[c].attempt \in Numbers
    /\ attempts[call[c].attempt].stage = call[c].stage

TypeInv == TypeOK /\ CallsAttempt

(* A run that was created is well typed.                                   *)
LEMMA TypeInit == Init => TypeInv
<1> SUFFICES ASSUME Init PROVE TypeInv
  OBVIOUS
<1>1. attempts \in Seq(Attempt) /\ Len(attempts) = 0 /\ 0 \in 0 .. MaxCrashes
  BY AnalysisAssumption DEF Init
<1>2. call \in [Clients -> Call]
  BY DEF Init, Call
<1>3. epochs \in [Keys -> Epoch]
  BY DEF Init, NoEpoch, Epoch, Intent
<1>4. accepted \in [Stages -> 0 .. Len(attempts)]
  BY <1>1 DEF Init
<1>5. CallsAttempt
  BY DEF Init, Idle, CallsAttempt, InHand
<1> QED
  BY <1>1, <1>2, <1>3, <1>4, <1>5 DEF Init, TypeInv, TypeOK, RunStatus, Terminal

(* Attempts that keep their number and their stage. *)
Kept == /\ attempts' \in Seq(Attempt)
        /\ Len(attempts') = Len(attempts)
        /\ \A i \in Numbers : attempts'[i].stage = attempts[i].stage

(* Attempts that do not change are kept.                                   *)
LEMMA KeptSame == TypeOK /\ UNCHANGED attempts => Kept
  BY DEF TypeOK, Kept

(* Attempts that are given up are kept.                                    *)
LEMMA KeptAbandon == TypeOK /\ AbandonStarted => Kept
<1> SUFFICES ASSUME TypeOK, AbandonStarted PROVE Kept
  OBVIOUS
<1>1. \A i \in Numbers : attempts[i] \in Attempt
  BY DEF TypeOK, Numbers
<1> QED
  BY <1>1, AbandonEffect, AbandonedType DEF Kept

(* While the attempts are kept, a thread may go on with the same attempt,  *)
(* take up one of its stage, or leave it.                                  *)
LEMMA CallsKept ==
  ASSUME TypeInv, Kept, NEW c \in Clients, NEW x \in Call, Goto(c, x),
         x.at \in InHand => /\ x.attempt \in Numbers
                            /\ attempts[x.attempt].stage = x.stage
  PROVE  call' \in [Clients -> Call] /\ CallsAttempt'
<1>1. /\ call' \in [Clients -> Call] /\ call'[c] = x
      /\ \A d \in Clients \ {c} : call'[d] = call[d]
  BY GotoType DEF TypeInv
<1>2. \A i \in Numbers : i \in Numbers' /\ attempts'[i].stage = attempts[i].stage
  BY DEF Kept, Numbers
<1>3. ASSUME NEW d \in Clients, call'[d].at \in InHand
      PROVE  /\ call'[d].attempt \in Numbers'
             /\ attempts'[call'[d].attempt].stage = call'[d].stage
  <2>1. CASE d = c
    BY <2>1, <1>1, <1>2, <1>3
  <2>2. CASE d # c
    <3>1. call'[d] = call[d]
      BY <2>2, <1>1
    <3>2. /\ call[d].attempt \in Numbers
          /\ attempts[call[d].attempt].stage = call[d].stage
      BY <3>1, <1>3 DEF TypeInv, CallsAttempt
    <3> QED
      BY <3>1, <3>2, <1>2
  <2> QED
    BY <2>1, <2>2
<1> QED
  BY <1>1, <1>3 DEF CallsAttempt

(* The accepted results refer to attempts there are. *)
LEMMA AcceptedKept ==
  ASSUME TypeOK, Kept, UNCHANGED accepted
  PROVE  accepted' \in [Stages -> 0 .. Len(attempts')]
  BY DEF TypeOK, Kept

(* The steps an execution can go on to. *)
LEMMA NextCall ==
  ASSUME TypeOK, NEW c \in Clients, call[c] # Idle
  PROVE  /\ Idle \in Call
         /\ \A step \in {"start", "gate", "release"} : [at |-> step, key |-> call[c].key] \in Call
         /\ \A end \in Terminal : [at |-> "stop", key |-> call[c].key, end |-> end] \in Call
         /\ \A step \in {"enter", "next"}, n \in Stages :
              [at |-> step, key |-> call[c].key, stage |-> n] \in Call
<1>1. call[c].key \in Keys
  BY CallShape DEF TypeOK
<1> QED
  BY <1>1 DEF Call, RunCall, StopCall, StageCall

(* A call of a stage can go on with any attempt.                           *)
LEMMA NextAttemptCall ==
  ASSUME TypeOK, NEW c \in Clients, call[c].at \in {"enter", "next"} \cup InHand
  PROVE  /\ call[c].key \in Keys /\ call[c].stage \in Stages
         /\ \A step \in {"reserve", "send", "validate", "accept"}, i \in Nat :
              [at |-> step, key |-> call[c].key, stage |-> call[c].stage, attempt |-> i] \in Call
         /\ \A i \in Nat, a \in {"COMPLETED", "FAILED", "ABANDONED"} :
              [at |-> "finalize", key |-> call[c].key, stage |-> call[c].stage,
               attempt |-> i, answer |-> a] \in Call
<1>1. call[c].key \in Keys /\ call[c].stage \in Stages
  BY CallShape DEF TypeOK, InHand, StageCall, AttemptCall, AnswerCall
<1> QED
  BY <1>1 DEF Call, AttemptCall, AnswerCall

(* The latest attempt of a stage is an attempt of it. *)
LEMMA ParentIs ==
  ASSUME TypeOK, NEW n \in Stages, OfStage(n) # {}
  PROVE  /\ Parent(n) \in OfStage(n) /\ Parent(n) \in Numbers /\ Parent(n) \in Nat
         /\ attempts[Parent(n)].stage = n
         /\ \A i \in OfStage(n) : i <= Parent(n)
<1>1. Len(attempts) \in Nat /\ OfStage(n) \in SUBSET (1 .. Len(attempts))
  BY DEF TypeOK, OfStage
<1>2. Parent(n) \in OfStage(n) /\ \A i \in OfStage(n) : i <= Parent(n)
  BY <1>1, LatestExists DEF Parent
<1> QED
  BY <1>1, <1>2 DEF OfStage, Numbers

(* A step that only takes its thread further. *)
Moves(c) ==
  /\ UNCHANGED <<runVars, resultVars, attempts, crashes>>
  /\ \E x \in Call :
       /\ Goto(c, x)
       /\ x = Idle \/ x.key = call[c].key
       /\ x.at \in InHand => x.attempt \in Numbers /\ attempts[x.attempt].stage = x.stage

(* Taking a thread further keeps the types.                                *)
LEMMA TypeMoves ==
  ASSUME TypeInv, NEW c \in Clients, Moves(c)
  PROVE  TypeInv'
<1>1. Kept
  BY KeptSame DEF TypeInv, Moves
<1>2. call' \in [Clients -> Call] /\ CallsAttempt'
  BY <1>1, CallsKept DEF Moves
<1> QED
  BY <1>2 DEF TypeInv, TypeOK, Moves, runVars, resultVars

(* An error a handler catches only takes its thread to its stop.           *)
LEMMA FailMoves ==
  ASSUME TypeInv, NEW c \in Clients, Fail(c)
  PROVE  Moves(c) /\ call[c] # Idle /\ call[c].at # "finalize" /\ call'[c].at = "stop"
<1>1. PICK end \in {"REJECTED", "FAILED"} : ToStop(c, end)
  BY DEF Fail
<1> DEFINE x == [at |-> "stop", key |-> call[c].key, end |-> end]
<1>2. call[c] # Idle /\ call[c].at # "finalize"
  BY DEF Fail, Idle
<1>3. x \in Call /\ Goto(c, x)
  BY <1>1, <1>2, NextCall DEF ToStop, TypeInv, Terminal
<1>4. call'[c] = x
  BY <1>3, GotoType DEF TypeInv
<1> QED
  BY <1>2, <1>3, <1>4 DEF Moves, Fail, InHand

(* The first step only enters the first stage or goes to the gate.         *)
LEMMA StartMoves ==
  ASSUME TypeInv, NEW c \in Clients, Start(c)
  PROVE  /\ Moves(c) /\ call[c].at = "start" /\ preflight = "PROCEED"
         /\ \/ call'[c].at = "enter" /\ call'[c].stage = 1
            \/ call'[c].at = "gate" /\ accepted[1] # 0
<1>1. call[c] # Idle /\ call[c].at = "start"
  BY DEF Start, At, Idle
<1>2. CASE accepted[1] = 0
  <2> DEFINE x == [at |-> "enter", key |-> call[c].key, stage |-> 1]
  <2>1. x \in Call /\ Goto(c, x)
    BY <1>1, <1>2, NextCall DEF Start, ToStage, TypeInv, Stages
  <2>2. call'[c] = x
    BY <2>1, GotoType DEF TypeInv
  <2> QED
    BY <1>1, <2>1, <2>2 DEF Moves, Start, InHand
<1>3. CASE accepted[1] # 0
  <2> DEFINE x == [at |-> "gate", key |-> call[c].key]
  <2>1. x \in Call /\ Goto(c, x)
    BY <1>1, <1>3, NextCall DEF Start, ToRun, TypeInv
  <2>2. call'[c] = x
    BY <2>1, GotoType DEF TypeInv
  <2> QED
    BY <1>1, <1>3, <2>1, <2>2 DEF Moves, Start, InHand
<1> QED
  BY <1>2, <1>3

(* Entering a stage only decides what to do with what it has.              *)
LEMMA EnterMoves ==
  ASSUME TypeInv, NEW c \in Clients, Enter(c)
  PROVE  /\ Moves(c) /\ call[c].at = "enter" /\ call[c].stage \in Stages
         /\ \/ /\ call'[c].at = "accept" /\ call'[c].stage = call[c].stage
               /\ call'[c].attempt \in OfStage(call[c].stage)
               /\ attempts[call'[c].attempt].verdict = "ACCEPTED"
            \/ call'[c].at = "stop"
            \/ call'[c] = Idle /\ ~Owned(c)
            \/ /\ call'[c].at = "next" /\ call'[c].stage = call[c].stage /\ Owned(c)
               /\ OfStage(call[c].stage) # {} =>
                    /\ attempts[Parent(call[c].stage)].status # "FAILED"
                    /\ attempts[Parent(call[c].stage)].verdict \notin {"ACCEPTED", "REJECTED"}
<1> DEFINE n == call[c].stage
           verdict == IF OfStage(n) = {} THEN "NONE" ELSE attempts[Parent(n)].verdict
           failed == OfStage(n) # {} /\ attempts[Parent(n)].status = "FAILED"
<1>0. /\ call[c] # Idle /\ call[c].at = "enter" /\ n \in Stages
      /\ UNCHANGED <<runVars, resultVars, attempts, crashes>>
  BY NextAttemptCall DEF Enter, At, Idle, TypeInv
<1>1. CASE verdict = "ACCEPTED"
  <2> DEFINE x == [at |-> "accept", key |-> call[c].key, stage |-> n, attempt |-> Parent(n)]
  <2>1. OfStage(n) # {} /\ attempts[Parent(n)].verdict = "ACCEPTED"
    BY <1>1
  <2>2. /\ Parent(n) \in OfStage(n) /\ Parent(n) \in Numbers /\ Parent(n) \in Nat
        /\ attempts[Parent(n)].stage = n
    BY <2>1, <1>0, ParentIs DEF TypeInv
  <2>3. ToAttempt(c, "accept", Parent(n))
    BY <1>1 DEF Enter
  <2>4. x \in Call /\ Goto(c, x)
    BY <1>0, <2>2, <2>3, NextAttemptCall DEF ToAttempt, TypeInv
  <2>5. call'[c] = x
    BY <2>4, GotoType DEF TypeInv
  <2> QED
    BY <1>0, <2>1, <2>2, <2>4, <2>5 DEF Moves
<1>2. CASE verdict # "ACCEPTED" /\ (verdict = "REJECTED" \/ failed)
  <2>1. PICK end \in {"REJECTED", "FAILED"} : ToStop(c, end)
    BY <1>2 DEF Enter
  <2> DEFINE x == [at |-> "stop", key |-> call[c].key, end |-> end]
  <2>2. x \in Call /\ Goto(c, x)
    BY <1>0, <2>1, NextCall DEF ToStop, TypeInv, Terminal
  <2>3. call'[c] = x
    BY <2>2, GotoType DEF TypeInv
  <2> QED
    BY <1>0, <2>2, <2>3 DEF Moves, InHand
<1>3. CASE verdict \notin {"ACCEPTED", "REJECTED"} /\ ~failed
  <2>1. IF Owned(c) THEN ToStage(c, "next", n) ELSE Return(c)
    BY <1>3 DEF Enter
  <2>2. CASE Owned(c)
    <3> DEFINE x == [at |-> "next", key |-> call[c].key, stage |-> n]
    <3>1. x \in Call /\ Goto(c, x)
      BY <1>0, <2>1, <2>2, NextCall DEF ToStage, TypeInv
    <3>2. call'[c] = x
      BY <3>1, GotoType DEF TypeInv
    <3> QED
      BY <1>0, <1>3, <2>2, <3>1, <3>2 DEF Moves, InHand
  <2>3. CASE ~Owned(c)
    <3>1. Idle \in Call /\ Goto(c, Idle)
      BY <1>0, <2>1, <2>3, NextCall DEF Return, TypeInv
    <3>2. call'[c] = Idle
      BY <3>1, GotoType DEF TypeInv
    <3> QED
      BY <1>0, <2>3, <3>1, <3>2 DEF Moves, InHand, Idle
  <2> QED
    BY <2>2, <2>3
<1> QED
  BY <1>1, <1>2, <1>3

(* An answer left without a validation is taken up as it is.               *)
LEMMA RevalidateMoves ==
  ASSUME TypeInv, NEW c \in Clients, Revalidate(c)
  PROVE  /\ Moves(c) /\ call[c].at = "next" /\ call[c].stage \in Stages
         /\ call'[c].at = "validate" /\ call'[c].stage = call[c].stage
         /\ call'[c].attempt \in OfStage(call[c].stage)
         /\ \A i \in OfStage(call[c].stage) : i <= call'[c].attempt
         /\ attempts[call'[c].attempt].status = "COMPLETED"
         /\ attempts[call'[c].attempt].verdict = "NONE"
<1> DEFINE n == call[c].stage
           x == [at |-> "validate", key |-> call[c].key, stage |-> n, attempt |-> Parent(n)]
<1>1. call[c] # Idle /\ call[c].at = "next" /\ n \in Stages
  BY NextAttemptCall DEF Revalidate, At, Idle, TypeInv
<1>2. /\ Parent(n) \in OfStage(n) /\ Parent(n) \in Numbers /\ Parent(n) \in Nat
      /\ attempts[Parent(n)].stage = n /\ \A i \in OfStage(n) : i <= Parent(n)
      /\ attempts[Parent(n)].status = "COMPLETED" /\ attempts[Parent(n)].verdict = "NONE"
  BY <1>1, ParentIs DEF Revalidate, Unvalidated, TypeInv
<1>3. x \in Call /\ Goto(c, x)
  BY <1>1, <1>2, NextAttemptCall DEF Revalidate, ToAttempt, TypeInv
<1>4. call'[c] = x
  BY <1>3, GotoType DEF TypeInv
<1> QED
  BY <1>1, <1>2, <1>3, <1>4 DEF Moves, Revalidate

(* Giving up only takes the thread to its stop.                            *)
LEMMA GiveUpMoves ==
  ASSUME TypeInv, NEW c \in Clients, GiveUp(c)
  PROVE  Moves(c) /\ call[c].at = "next" /\ call'[c].at = "stop"
<1> DEFINE x == [at |-> "stop", key |-> call[c].key, end |-> "FAILED"]
<1>1. call[c] # Idle /\ call[c].at = "next"
  BY DEF GiveUp, At, Idle
<1>2. x \in Call /\ Goto(c, x)
  BY <1>1, NextCall DEF GiveUp, ToStop, TypeInv, Terminal
<1>3. call'[c] = x
  BY <1>2, GotoType DEF TypeInv
<1> QED
  BY <1>1, <1>2, <1>3 DEF Moves, GiveUp, InHand

(* Only the thread c goes on, with the epoch it has. *)
Onward(c) ==
  /\ call' \in [Clients -> Call]
  /\ \A d \in Clients \ {c} : call'[d] = call[d]
  /\ call'[c] = Idle \/ call'[c].key = call[c].key

(* A thread that goes to a call with its own key goes on.                  *)
LEMMA OnwardBy ==
  ASSUME TypeOK, NEW c \in Clients, NEW x \in Call, Goto(c, x),
         x = Idle \/ x.key = call[c].key
  PROVE  Onward(c) /\ call'[c] = x
  BY GotoType DEF Onward

(* Only the attempt i is rewritten, and stays an attempt of its stage, its *)
(* epoch and its place.                                                    *)
Touches(i) ==
  /\ Kept
  /\ attempts'[i] \in Attempt
  /\ attempts'[i].epoch = attempts[i].epoch
  /\ \A j \in Numbers \ {i} : attempts'[j] = attempts[j]

(* Rewriting an attempt in its stage and epoch touches only it.            *)
LEMMA TouchesBy ==
  ASSUME TypeOK, NEW i \in Numbers, NEW a \in Attempt,
         attempts' = [attempts EXCEPT ![i] = a],
         a.stage = attempts[i].stage, a.epoch = attempts[i].epoch
  PROVE  Touches(i) /\ attempts'[i] = a
  BY UpdateEffect DEF Touches, Kept

(* A thread with an attempt in hand has one of its stage.                  *)
LEMMA AttemptAt ==
  ASSUME TypeInv, NEW c \in Clients, call[c].at \in InHand
  PROVE  /\ call[c] # Idle /\ call[c].key \in Keys /\ call[c].stage \in Stages
         /\ call[c].attempt \in Numbers /\ call[c].attempt \in Nat
         /\ attempts[call[c].attempt] \in Attempt
         /\ attempts[call[c].attempt].stage = call[c].stage
<1>1. call[c].attempt \in Numbers /\ attempts[call[c].attempt].stage = call[c].stage
  BY DEF TypeInv, CallsAttempt
<1>2. call[c].attempt \in Nat /\ attempts[call[c].attempt] \in Attempt
  BY <1>1 DEF TypeInv, TypeOK, Numbers
<1> QED
  BY <1>1, <1>2, NextAttemptCall DEF TypeInv, Idle, InHand

(* A new call is refused without ownership or budget, or recorded.         *)
LEMMA NewAttemptEffect ==
  ASSUME TypeInv, NEW c \in Clients, NewAttempt(c)
  PROVE  /\ call[c].at = "next" /\ call[c].stage \in Stages /\ call[c].key \in Keys
         /\ ~Unvalidated(call[c].stage)
         /\ UNCHANGED <<runVars, resultVars, crashes>>
         /\ Onward(c)
         /\ \/ call'[c] = Idle /\ ~Owned(c) /\ UNCHANGED attempts
            \/ call'[c].at = "stop" /\ UNCHANGED attempts
            \/ /\ Owned(c)
               /\ call'[c].at = "reserve" /\ call'[c].stage = call[c].stage
               /\ call'[c].attempt = Len(attempts) + 1
               /\ attempts' \in Seq(Attempt) /\ Len(attempts') = Len(attempts) + 1
               /\ \A j \in Numbers : attempts'[j] = attempts[j]
               /\ attempts'[Len(attempts) + 1] =
                    [stage |-> call[c].stage, epoch |-> call[c].key, status |-> "STARTED",
                     bound |-> FALSE, bill |-> 0, verdict |-> "NONE"]
<1> DEFINE n == call[c].stage
           a == [stage |-> n, epoch |-> call[c].key, status |-> "STARTED",
                 bound |-> FALSE, bill |-> 0, verdict |-> "NONE"]
<1>1. /\ call[c] # Idle /\ call[c].at = "next" /\ n \in Stages /\ call[c].key \in Keys
      /\ ~Unvalidated(n) /\ UNCHANGED <<runVars, resultVars, crashes>>
  BY NextAttemptCall DEF NewAttempt, At, Idle, TypeInv
<1>2. CASE ~Owned(c)
  <2>1. Idle \in Call /\ Goto(c, Idle) /\ UNCHANGED attempts
    BY <1>1, <1>2, NextCall DEF NewAttempt, Return, TypeInv
  <2> QED
    BY <1>1, <1>2, <2>1, OnwardBy DEF TypeInv
<1>3. CASE Owned(c) /\ ~WithinBudget
  <2> DEFINE x == [at |-> "stop", key |-> call[c].key, end |-> "FAILED"]
  <2>1. x \in Call /\ Goto(c, x) /\ UNCHANGED attempts
    BY <1>1, <1>3, NextCall DEF NewAttempt, ToStop, TypeInv, Terminal
  <2>2. Onward(c) /\ call'[c] = x
    BY <2>1, OnwardBy DEF TypeInv
  <2> QED
    BY <1>1, <2>1, <2>2
<1>4. CASE Owned(c) /\ WithinBudget
  <2> DEFINE x == [at |-> "reserve", key |-> call[c].key, stage |-> n,
                   attempt |-> Len(attempts) + 1]
  <2>1. attempts' = Append(attempts, a) /\ ToAttempt(c, "reserve", Len(attempts) + 1)
    BY <1>4 DEF NewAttempt
  <2>2. a \in Attempt
    BY <1>1, AnalysisAssumption DEF Attempt
  <2>3. Len(attempts) + 1 \in Nat
    BY DEF TypeInv, TypeOK
  <2>4. x \in Call /\ Goto(c, x)
    BY <1>1, <2>1, <2>3, NextAttemptCall DEF ToAttempt, TypeInv
  <2>5. Onward(c) /\ call'[c] = x
    BY <2>4, OnwardBy DEF TypeInv
  <2>6. /\ attempts' \in Seq(Attempt) /\ Len(attempts') = Len(attempts) + 1
        /\ attempts'[Len(attempts) + 1] = a
        /\ \A j \in Numbers : attempts'[j] = attempts[j]
    BY <2>1, <2>2, AppendEffect DEF TypeInv
  <2> QED
    BY <1>1, <1>4, <2>5, <2>6
<1> QED
  BY <1>2, <1>3, <1>4

(* A binding is refused, or made by the owner of the run.                  *)
LEMMA ReserveEffect ==
  ASSUME TypeInv, NEW c \in Clients, Reserve(c)
  PROVE  /\ call[c].at = "reserve"
         /\ UNCHANGED <<runVars, resultVars, crashes>>
         /\ Onward(c)
         /\ \/ call'[c].at = "stop" /\ UNCHANGED attempts
            \/ /\ Owned(c) /\ Touches(call[c].attempt)
               /\ attempts'[call[c].attempt].status = attempts[call[c].attempt].status
               /\ attempts'[call[c].attempt].verdict = attempts[call[c].attempt].verdict
               /\ call'[c].at = "send" /\ call'[c].stage = call[c].stage
               /\ call'[c].attempt = call[c].attempt
<1> DEFINE i == call[c].attempt
<1>1. call[c].at = "reserve" /\ UNCHANGED <<runVars, resultVars, crashes>>
  BY DEF Reserve, At
<1>2. /\ call[c] # Idle /\ call[c].key \in Keys /\ call[c].stage \in Stages
      /\ i \in Numbers /\ i \in Nat /\ attempts[i] \in Attempt
  BY <1>1, AttemptAt DEF InHand
<1>3. CASE Authorized(c) /\ WithinBudget
  <2> DEFINE a == [attempts[i] EXCEPT !.bound = TRUE]
             x == [at |-> "send", key |-> call[c].key, stage |-> call[c].stage, attempt |-> i]
  <2>1. /\ attempts' = [attempts EXCEPT ![i] = a] /\ ToAttempt(c, "send", i)
        /\ Owned(c)
    BY <1>3 DEF Reserve, Authorized
  <2>2. /\ a \in Attempt /\ a.stage = attempts[i].stage /\ a.epoch = attempts[i].epoch
        /\ a.status = attempts[i].status /\ a.verdict = attempts[i].verdict
    BY <1>2 DEF Attempt
  <2>3. Touches(i) /\ attempts'[i] = a
    BY <1>2, <2>1, <2>2, TouchesBy DEF TypeInv
  <2>4. x \in Call /\ Goto(c, x)
    BY <1>1, <1>2, <2>1, NextAttemptCall DEF ToAttempt, TypeInv, InHand
  <2>5. Onward(c) /\ call'[c] = x
    BY <2>4, OnwardBy DEF TypeInv
  <2> QED
    BY <1>1, <2>1, <2>2, <2>3, <2>5
<1>4. CASE ~(Authorized(c) /\ WithinBudget)
  <2>1. PICK end \in {"REJECTED", "FAILED"} : ToStop(c, end) /\ UNCHANGED attempts
    BY <1>4 DEF Reserve
  <2> DEFINE x == [at |-> "stop", key |-> call[c].key, end |-> end]
  <2>2. x \in Call /\ Goto(c, x)
    BY <1>2, <2>1, NextCall DEF ToStop, TypeInv, Terminal
  <2>3. Onward(c) /\ call'[c] = x
    BY <2>2, OnwardBy DEF TypeInv
  <2> QED
    BY <1>1, <2>1, <2>3
<1> QED
  BY <1>3, <1>4

(* Sending changes nothing of an attempt but its bill.                     *)
LEMMA SendEffect ==
  ASSUME TypeInv, NEW c \in Clients, Send(c)
  PROVE  /\ call[c].at = "send"
         /\ UNCHANGED <<runVars, resultVars, crashes>>
         /\ Onward(c) /\ Touches(call[c].attempt)
         /\ attempts'[call[c].attempt].status = attempts[call[c].attempt].status
         /\ attempts'[call[c].attempt].verdict = attempts[call[c].attempt].verdict
         /\ attempts'[call[c].attempt].bound = attempts[call[c].attempt].bound
         /\ call'[c].at = "finalize" /\ call'[c].stage = call[c].stage
         /\ call'[c].attempt = call[c].attempt
<1> DEFINE i == call[c].attempt
           a == [attempts[i] EXCEPT !.bill = Reservation]
<1>1. call[c].at = "send" /\ UNCHANGED <<runVars, resultVars, crashes>>
  BY DEF Send, At
<1>2. i \in Numbers /\ i \in Nat /\ attempts[i] \in Attempt
  BY <1>1, AttemptAt DEF InHand
<1>3. PICK answer \in {"COMPLETED", "FAILED", "ABANDONED"} :
        Goto(c, [at |-> "finalize", key |-> call[c].key, stage |-> call[c].stage,
                 attempt |-> i, answer |-> answer])
  BY DEF Send
<1> DEFINE x == [at |-> "finalize", key |-> call[c].key, stage |-> call[c].stage,
                 attempt |-> i, answer |-> answer]
<1>4. attempts' = [attempts EXCEPT ![i] = a]
  BY DEF Send
<1>5. /\ a \in Attempt /\ a.stage = attempts[i].stage /\ a.epoch = attempts[i].epoch
      /\ a.status = attempts[i].status /\ a.verdict = attempts[i].verdict
      /\ a.bound = attempts[i].bound
  BY <1>2, AnalysisAssumption DEF Attempt
<1>6. Touches(i) /\ attempts'[i] = a
  BY <1>2, <1>4, <1>5, TouchesBy DEF TypeInv
<1>7. x \in Call
  BY <1>1, <1>2, NextAttemptCall DEF TypeInv, InHand
<1>8. Onward(c) /\ call'[c] = x
  BY <1>3, <1>7, OnwardBy DEF TypeInv
<1> QED
  BY <1>1, <1>5, <1>6, <1>8

(* An answer closes its attempt, or comes too late.                        *)
LEMMA FinalizeEffect ==
  ASSUME TypeInv, NEW c \in Clients, Finalize(c)
  PROVE  /\ call[c].at = "finalize"
         /\ UNCHANGED <<runVars, resultVars, crashes>>
         /\ Onward(c)
         /\ \/ /\ attempts[call[c].attempt].status # "STARTED"
               /\ UNCHANGED attempts /\ call'[c].at = "stop"
            \/ /\ attempts[call[c].attempt].status = "STARTED"
               /\ Touches(call[c].attempt)
               /\ attempts'[call[c].attempt].verdict = attempts[call[c].attempt].verdict
               /\ attempts'[call[c].attempt].bound = attempts[call[c].attempt].bound
               /\ \/ /\ attempts'[call[c].attempt].status = "COMPLETED"
                     /\ call'[c].at = "validate" /\ call'[c].stage = call[c].stage
                     /\ call'[c].attempt = call[c].attempt
                  \/ attempts'[call[c].attempt].status = "ABANDONED" /\ call'[c].at = "release"
                  \/ attempts'[call[c].attempt].status = "FAILED" /\ call'[c].at = "stop"
<1> DEFINE i == call[c].attempt
<1>1. call[c].at = "finalize" /\ UNCHANGED <<runVars, resultVars, crashes>>
  BY DEF Finalize, At
<1>2. call[c] # Idle /\ i \in Numbers /\ i \in Nat /\ attempts[i] \in Attempt
  BY <1>1, AttemptAt DEF InHand
<1>3. CASE attempts[i].status # "STARTED"
  <2> DEFINE x == [at |-> "stop", key |-> call[c].key, end |-> "REJECTED"]
  <2>1. x \in Call /\ Goto(c, x) /\ UNCHANGED attempts
    BY <1>2, <1>3, NextCall DEF Finalize, ToStop, TypeInv, Terminal
  <2>2. Onward(c) /\ call'[c] = x
    BY <2>1, OnwardBy DEF TypeInv
  <2> QED
    BY <1>1, <1>3, <2>1, <2>2
<1>4. CASE attempts[i].status = "STARTED"
  <2>0. call[c].answer \in {"COMPLETED", "FAILED", "ABANDONED"}
    BY <1>1, CallShape DEF TypeInv, TypeOK, AnswerCall
  <2>1. PICK bill \in IF call[c].answer = "COMPLETED" THEN 0 .. Reservation ELSE {Reservation} :
          attempts' = [attempts EXCEPT ![i].status = call[c].answer, ![i].bill = bill]
    BY <1>4 DEF Finalize
  <2> DEFINE a == [attempts[i] EXCEPT !.status = call[c].answer, !.bill = bill]
  <2>2. attempts' = [attempts EXCEPT ![i] = a]
    BY <1>2, <2>1 DEF TypeInv, TypeOK, Numbers, Attempt
  <2> bill \in 0 .. Reservation
    BY AnalysisAssumption
  <2>3. /\ a \in Attempt /\ a.stage = attempts[i].stage /\ a.epoch = attempts[i].epoch
        /\ a.status = call[c].answer /\ a.verdict = attempts[i].verdict
        /\ a.bound = attempts[i].bound
    BY <1>2, <2>0 DEF Attempt
  <2>4. Touches(i) /\ attempts'[i] = a
    BY <1>2, <2>2, <2>3, TouchesBy DEF TypeInv
  <2>5. AfterAnswer(c)
    BY <1>4 DEF Finalize
  <2>6. CASE call[c].answer = "COMPLETED"
    <3> DEFINE x == [at |-> "validate", key |-> call[c].key, stage |-> call[c].stage,
                     attempt |-> i]
    <3>1. x \in Call /\ Goto(c, x)
      BY <1>1, <1>2, <2>5, <2>6, NextAttemptCall DEF AfterAnswer, ToAttempt, TypeInv, InHand
    <3>2. Onward(c) /\ call'[c] = x
      BY <3>1, OnwardBy DEF TypeInv
    <3> QED
      BY <1>1, <1>4, <2>3, <2>4, <2>6, <3>2
  <2>7. CASE call[c].answer = "ABANDONED"
    <3> DEFINE x == [at |-> "release", key |-> call[c].key]
    <3>1. x \in Call /\ Goto(c, x)
      BY <1>2, <2>5, <2>7, NextCall DEF AfterAnswer, ToRun, TypeInv
    <3>2. Onward(c) /\ call'[c] = x
      BY <3>1, OnwardBy DEF TypeInv
    <3> QED
      BY <1>1, <1>4, <2>3, <2>4, <2>7, <3>2
  <2>8. CASE call[c].answer = "FAILED"
    <3> DEFINE x == [at |-> "stop", key |-> call[c].key, end |-> "FAILED"]
    <3>1. x \in Call /\ Goto(c, x)
      BY <1>2, <2>5, <2>8, NextCall DEF AfterAnswer, ToStop, TypeInv, Terminal
    <3>2. Onward(c) /\ call'[c] = x
      BY <3>1, OnwardBy DEF TypeInv
    <3> QED
      BY <1>1, <1>4, <2>3, <2>4, <2>8, <3>2
  <2> QED
    BY <2>0, <2>6, <2>7, <2>8
<1> QED
  BY <1>3, <1>4

(* A validation writes the verdict, and goes on by it.                     *)
LEMMA ValidateEffect ==
  ASSUME TypeInv, NEW c \in Clients, Validate(c)
  PROVE  /\ call[c].at = "validate"
         /\ UNCHANGED <<runVars, resultVars, crashes>>
         /\ Onward(c) /\ Touches(call[c].attempt)
         /\ attempts'[call[c].attempt].status = attempts[call[c].attempt].status
         /\ attempts'[call[c].attempt].bound = attempts[call[c].attempt].bound
         /\ \/ /\ attempts'[call[c].attempt].verdict = "ACCEPTED"
               /\ call'[c].at = "accept" /\ call'[c].stage = call[c].stage
               /\ call'[c].attempt = call[c].attempt
            \/ /\ attempts'[call[c].attempt].verdict = "RETRYABLE"
               /\ call'[c].at = "next" /\ call'[c].stage = call[c].stage
            \/ attempts'[call[c].attempt].verdict = "REJECTED" /\ call'[c].at = "stop"
<1> DEFINE i == call[c].attempt
<1>1. call[c].at = "validate" /\ UNCHANGED <<runVars, resultVars, crashes>>
  BY DEF Validate, At
<1>2. /\ call[c] # Idle /\ i \in Numbers /\ i \in Nat /\ attempts[i] \in Attempt
      /\ call[c].stage \in Stages
  BY <1>1, AttemptAt DEF InHand
<1>3. PICK verdict \in {"ACCEPTED", "RETRYABLE", "REJECTED"} :
        /\ attempts' = [attempts EXCEPT ![i].verdict = verdict]
        /\ CASE verdict = "ACCEPTED"  -> ToAttempt(c, "accept", i)
             [] verdict = "RETRYABLE" -> ToStage(c, "next", call[c].stage)
             [] verdict = "REJECTED"  -> ToStop(c, "REJECTED")
  BY DEF Validate
<1> DEFINE a == [attempts[i] EXCEPT !.verdict = verdict]
<1>4. /\ a \in Attempt /\ a.stage = attempts[i].stage /\ a.epoch = attempts[i].epoch
      /\ a.status = attempts[i].status /\ a.verdict = verdict /\ a.bound = attempts[i].bound
  BY <1>2 DEF Attempt
<1>5. attempts' = [attempts EXCEPT ![i] = a]
  BY <1>3
<1>6. Touches(i) /\ attempts'[i] = a
  BY <1>2, <1>4, <1>5, TouchesBy DEF TypeInv
<1>7. CASE verdict = "ACCEPTED"
  <2> DEFINE x == [at |-> "accept", key |-> call[c].key, stage |-> call[c].stage, attempt |-> i]
  <2>1. ToAttempt(c, "accept", i)
    BY <1>3, <1>7
  <2>2. x \in Call /\ Goto(c, x)
    BY <1>1, <1>2, <2>1, NextAttemptCall DEF ToAttempt, TypeInv, InHand
  <2>3. Onward(c) /\ call'[c] = x
    BY <2>2, OnwardBy DEF TypeInv
  <2> QED
    BY <1>1, <1>4, <1>6, <1>7, <2>3
<1>8. CASE verdict = "RETRYABLE"
  <2> DEFINE x == [at |-> "next", key |-> call[c].key, stage |-> call[c].stage]
  <2>1. ToStage(c, "next", call[c].stage)
    BY <1>3, <1>8
  <2>2. x \in Call /\ Goto(c, x)
    BY <1>2, <2>1, NextCall DEF ToStage, TypeInv
  <2>3. Onward(c) /\ call'[c] = x
    BY <2>2, OnwardBy DEF TypeInv
  <2> QED
    BY <1>1, <1>4, <1>6, <1>8, <2>3
<1>9. CASE verdict = "REJECTED"
  <2> DEFINE x == [at |-> "stop", key |-> call[c].key, end |-> "REJECTED"]
  <2>1. ToStop(c, "REJECTED")
    BY <1>3, <1>9
  <2>2. x \in Call /\ Goto(c, x)
    BY <1>2, <2>1, NextCall DEF ToStop, TypeInv, Terminal
  <2>3. Onward(c) /\ call'[c] = x
    BY <2>2, OnwardBy DEF TypeInv
  <2> QED
    BY <1>1, <1>4, <1>6, <1>9, <2>3
<1> QED
  BY <1>3, <1>7, <1>8, <1>9

(* A result is accepted by the owner of the run, or not at all.            *)
LEMMA AcceptEffect ==
  ASSUME TypeInv, NEW c \in Clients, Accept(c)
  PROVE  /\ call[c].at = "accept" /\ call[c].stage \in Stages
         /\ UNCHANGED <<runVars, gate, preflight, attempts, crashes>>
         /\ Onward(c)
         /\ \/ UNCHANGED accepted /\ call'[c].at = "stop"
            \/ /\ Owned(c) /\ accepted[call[c].stage] \in {0, call[c].attempt}
               /\ accepted' = [accepted EXCEPT ![call[c].stage] = call[c].attempt]
               /\ \/ call'[c].at = "gate" /\ call[c].stage = 1
                  \/ call'[c].at = "stop"
<1> DEFINE n == call[c].stage
           i == call[c].attempt
<1>1. call[c].at = "accept" /\ UNCHANGED <<runVars, gate, preflight, attempts, crashes>>
  BY DEF Accept, At
<1>2. call[c] # Idle /\ n \in Stages
  BY <1>1, AttemptAt DEF InHand
<1>3. CASE ~(Owned(c) /\ accepted[n] \in {0, i})
  <2> DEFINE x == [at |-> "stop", key |-> call[c].key, end |-> "REJECTED"]
  <2>1. x \in Call /\ Goto(c, x) /\ UNCHANGED accepted
    BY <1>2, <1>3, NextCall DEF Accept, ToStop, TypeInv, Terminal
  <2>2. Onward(c) /\ call'[c] = x
    BY <2>1, OnwardBy DEF TypeInv
  <2> QED
    BY <1>1, <1>2, <2>1, <2>2
<1>4. CASE Owned(c) /\ accepted[n] \in {0, i} /\ n = 1
  <2> DEFINE x == [at |-> "gate", key |-> call[c].key]
  <2>1. /\ x \in Call /\ Goto(c, x)
        /\ accepted' = [accepted EXCEPT ![n] = i]
    BY <1>2, <1>4, NextCall DEF Accept, ToRun, TypeInv
  <2>2. Onward(c) /\ call'[c] = x
    BY <2>1, OnwardBy DEF TypeInv
  <2> QED
    BY <1>1, <1>2, <1>4, <2>1, <2>2
<1>5. CASE Owned(c) /\ accepted[n] \in {0, i} /\ n # 1
  <2> DEFINE x == [at |-> "stop", key |-> call[c].key, end |-> "COMPLETED"]
  <2>1. /\ x \in Call /\ Goto(c, x)
        /\ accepted' = [accepted EXCEPT ![n] = i]
    BY <1>2, <1>5, NextCall DEF Accept, ToStop, TypeInv, Terminal
  <2>2. Onward(c) /\ call'[c] = x
    BY <2>1, OnwardBy DEF TypeInv
  <2> QED
    BY <1>1, <1>2, <1>5, <2>1, <2>2
<1> QED
  BY <1>3, <1>4, <1>5

(* The gate is decided once, and lets only PROCEED pass.                   *)
LEMMA GateEffect ==
  ASSUME TypeInv, NEW c \in Clients, Gate(c)
  PROVE  /\ call[c].at = "gate"
         /\ UNCHANGED <<runVars, accepted, preflight, attempts, crashes>>
         /\ Onward(c) /\ gate' \in Decision \cup {"NONE"}
         /\ gate # "NONE" => gate' = gate
         /\ \/ call'[c] = Idle /\ ~Owned(c)
            \/ call'[c].at = "stop"
            \/ call'[c].at = "enter" /\ call'[c].stage = 2 /\ gate' = "PROCEED"
<1>1. /\ call[c] # Idle /\ call[c].at = "gate"
      /\ UNCHANGED <<runVars, accepted, preflight, attempts, crashes>>
  BY DEF Gate, At, Idle
<1>2. CASE ~Owned(c)
  <2>1. Idle \in Call /\ Goto(c, Idle) /\ UNCHANGED gate
    BY <1>1, <1>2, NextCall DEF Gate, Return, TypeInv
  <2> QED
    BY <1>1, <1>2, <2>1, OnwardBy DEF TypeInv, TypeOK
<1>3. CASE Owned(c)
  <2>1. PICK decision \in IF gate = "NONE" THEN Decision ELSE {gate} :
          gate' = decision /\ EnterRecommendation(c, decision)
    BY <1>3 DEF Gate
  <2>2. gate' \in Decision \cup {"NONE"} /\ (gate # "NONE" => gate' = gate)
    BY <2>1 DEF TypeInv, TypeOK
  <2>3. CASE decision = "PROCEED"
    <3> DEFINE x == [at |-> "enter", key |-> call[c].key, stage |-> 2]
    <3>1. x \in Call /\ Goto(c, x)
      BY <1>1, <2>1, <2>3, NextCall DEF EnterRecommendation, ToStage, TypeInv, Stages
    <3>2. Onward(c) /\ call'[c] = x
      BY <3>1, OnwardBy DEF TypeInv
    <3> QED
      BY <1>1, <2>1, <2>2, <2>3, <3>2
  <2>4. CASE decision # "PROCEED"
    <3> DEFINE x == [at |-> "stop", key |-> call[c].key, end |-> EndOf(decision)]
    <3>1. x \in Call /\ Goto(c, x)
      BY <1>1, <2>1, <2>4, NextCall DEF EnterRecommendation, EndOf, ToStop, TypeInv, Terminal
    <3>2. Onward(c) /\ call'[c] = x
      BY <3>1, OnwardBy DEF TypeInv
    <3> QED
      BY <1>1, <2>1, <2>2, <3>2
  <2> QED
    BY <2>3, <2>4
<1> QED
  BY <1>2, <1>3

(* A checkpoint that ends the run closes it. *)
LEMMA TerminateEffect ==
  ASSUME TypeInv, NEW c \in Clients, NEW end \in Terminal, Terminate(c, end)
  PROVE  /\ AbandonStarted /\ Kept /\ status' \in Terminal /\ unknown' \in BOOLEAN
         /\ EndEpoch("COMPLETED")
  BY KeptAbandon DEF Terminate, TypeInv, TypeOK

(* The steps that return from an execution. *)
LEMMA ReturnEffect ==
  ASSUME TypeInv, NEW c \in Clients, Return(c)
  PROVE  Onward(c) /\ call'[c] = Idle
<1>1. Idle \in Call
  BY DEF Call
<1> QED
  BY <1>1, OnwardBy DEF Return, TypeInv

(* A stop ends the run of its owner, and does nothing to that of others.   *)
LEMMA StopEffect ==
  ASSUME TypeInv, NEW c \in Clients, Stop(c)
  PROVE  /\ call[c].at = "stop" /\ call[c] # Idle
         /\ UNCHANGED <<resultVars, crashes>>
         /\ Onward(c) /\ call'[c] = Idle
         /\ \/ ~Owned(c) /\ UNCHANGED <<runVars, attempts>>
            \/ /\ AbandonStarted /\ Kept /\ status' \in Terminal /\ unknown' \in BOOLEAN
               /\ EndEpoch("COMPLETED") /\ Owned(c)
<1>1. call[c].at = "stop" /\ call[c] # Idle /\ UNCHANGED <<resultVars, crashes>>
  BY DEF Stop, At, Idle
<1>2. call[c].end \in Terminal
  BY <1>1, CallShape DEF TypeInv, TypeOK, StopCall
<1>3. Onward(c) /\ call'[c] = Idle
  BY ReturnEffect DEF Stop
<1>4. CASE Owned(c)
  BY <1>1, <1>2, <1>3, <1>4, TerminateEffect DEF Stop
<1>5. CASE ~Owned(c)
  BY <1>1, <1>3, <1>5 DEF Stop
<1> QED
  BY <1>4, <1>5

(* So does the refusal by the frozen gate.                                 *)
LEMMA RefuseEffect ==
  ASSUME TypeInv, NEW c \in Clients, Refuse(c)
  PROVE  /\ call[c].at = "start" /\ call[c] # Idle /\ preflight # "PROCEED"
         /\ UNCHANGED <<accepted, preflight, crashes>>
         /\ Onward(c) /\ call'[c] = Idle
         /\ \/ ~Owned(c) /\ UNCHANGED <<runVars, attempts, gate>>
            \/ /\ AbandonStarted /\ Kept /\ status' \in Terminal /\ unknown' \in BOOLEAN
               /\ EndEpoch("COMPLETED") /\ Owned(c) /\ gate' = preflight
<1>1. /\ call[c].at = "start" /\ call[c] # Idle /\ preflight # "PROCEED"
      /\ UNCHANGED <<accepted, preflight, crashes>>
  BY DEF Refuse, At, Idle
<1>2. EndOf(preflight) \in Terminal
  BY DEF EndOf, Terminal
<1>3. Onward(c) /\ call'[c] = Idle
  BY ReturnEffect DEF Refuse
<1>4. CASE Owned(c)
  BY <1>1, <1>2, <1>3, <1>4, TerminateEffect DEF Refuse
<1>5. CASE ~Owned(c)
  BY <1>1, <1>3, <1>5 DEF Refuse
<1> QED
  BY <1>4, <1>5

(* Handing back tells that a call was lost, if the run is still owned.     *)
LEMMA ReleaseStep ==
  ASSUME TypeInv, NEW c \in Clients, Release(c)
  PROVE  /\ call[c].at = "release" /\ call[c] # Idle
         /\ UNCHANGED <<status, resultVars, attempts, crashes>>
         /\ Onward(c) /\ call'[c] = Idle
         /\ \/ ~Owned(c) /\ UNCHANGED runVars
            \/ Owned(c) /\ unknown' = TRUE /\ EndEpoch("COMPLETED")
  BY ReturnEffect DEF Release, At, Idle, ReleaseEpoch, runVars

(* An error nothing catches leaves everything as it is.                    *)
LEMMA DieEffect ==
  ASSUME TypeInv, NEW c \in Clients, Die(c)
  PROVE  /\ call[c] # Idle
         /\ UNCHANGED <<status, active, unknown, epochs, resultVars, attempts, crashes>>
         /\ Onward(c) /\ call'[c] = Idle
         /\ lost' \in BOOLEAN /\ (lost \/ active = call[c].key => lost')
  BY ReturnEffect DEF Die, TypeInv, TypeOK

(* A claim takes a run nobody owns, with a fresh epoch.                    *)
LEMMA ClaimEffect ==
  ASSUME TypeInv, NEW c \in Clients, NEW k \in Keys, NEW intent \in Intent, Claim(c, k, intent)
  PROVE  /\ call[c] = Idle /\ Claimable(k, intent)
         /\ UNCHANGED <<unknown, lost, resultVars, attempts, crashes>>
         /\ status' = "RUNNING" /\ active' = k
         /\ epochs' = [epochs EXCEPT ![k] = [status |-> "ACTIVE", intent |-> intent]]
         /\ epochs' \in [Keys -> Epoch]
         /\ call' \in [Clients -> Call] /\ \A d \in Clients \ {c} : call'[d] = call[d]
         /\ call'[c].at = "start" /\ call'[c].key = k /\ call'[c] # Idle
<1> DEFINE x == [at |-> "start", key |-> k]
<1>1. x \in Call /\ Goto(c, x) /\ x # Idle
  BY DEF Claim, Call, RunCall, Idle
<1>2. epochs' \in [Keys -> Epoch]
  BY DEF Claim, TypeInv, TypeOK, Epoch
<1> QED
  BY <1>1, <1>2, GotoType DEF Claim, TypeInv

(* A cancellation ends the run, whoever is at work on it.                  *)
LEMMA CancelEffect ==
  ASSUME TypeInv, Cancel
  PROVE  /\ AbandonStarted /\ Kept /\ status' \in Terminal /\ unknown' \in BOOLEAN
         /\ EndEpoch("CANCELLED") /\ UNCHANGED <<resultVars, call, crashes>>
  BY KeptAbandon DEF Cancel, TypeInv, TypeOK, Terminal

(* A restart interrupts the active epoch, and only then anything.          *)
LEMMA RestartKept ==
  ASSUME TypeInv, Restart
  PROVE  /\ Kept /\ UNCHANGED <<resultVars, status>>
         /\ crashes' \in 0 .. MaxCrashes
         /\ call' = [c \in Clients |-> Idle] /\ call' \in [Clients -> Call]
         /\ \/ active = None /\ UNCHANGED <<runVars, attempts>>
            \/ /\ active # None /\ EndEpoch("INTERRUPTED") /\ unknown' = RecoverUnknown
               /\ attempts' \in Seq(Attempt) /\ Len(attempts') = Len(attempts)
               /\ \A i \in Numbers : attempts'[i] = AbandonedAtRestart(attempts[i])
<1>1. /\ UNCHANGED <<resultVars, status>>
      /\ crashes' \in 0 .. MaxCrashes
      /\ call' = [c \in Clients |-> Idle] /\ call' \in [Clients -> Call]
  BY AnalysisAssumption DEF Restart, TypeInv, TypeOK, Call, runVars
<1>2. CASE active = None
  BY <1>1, <1>2, KeptSame DEF Restart, TypeInv
<1>3. CASE active # None
  <2>1. attempts' = [i \in 1 .. Len(attempts) |-> AbandonedAtRestart(attempts[i])]
    BY <1>3 DEF Restart
  <2>2. /\ attempts' \in Seq(Attempt) /\ Len(attempts') = Len(attempts)
        /\ \A i \in Numbers : attempts'[i] = AbandonedAtRestart(attempts[i])
    BY <2>1, RestartEffect DEF TypeInv
  <2>3. \A i \in Numbers : attempts[i] \in Attempt
    BY DEF TypeInv, TypeOK, Numbers
  <2>4. Kept
    BY <2>2, <2>3, AbandonedType DEF Kept
  <2> QED
    BY <1>1, <1>3, <2>2, <2>4 DEF Restart
<1> QED
  BY <1>2, <1>3

(* A thread that goes on with an attempt it has in hand, or none, keeps    *)
(* its attempt while the attempts are kept.                                *)
LEMMA OnwardCalls ==
  ASSUME TypeInv, Kept, NEW c \in Clients, Onward(c),
         call'[c].at \in InHand => /\ call'[c].attempt \in Numbers
                                   /\ attempts[call'[c].attempt].stage = call'[c].stage
  PROVE  CallsAttempt'
<1>1. \A i \in Numbers : i \in Numbers' /\ attempts'[i].stage = attempts[i].stage
  BY DEF Kept, Numbers
<1>2. ASSUME NEW d \in Clients, call'[d].at \in InHand
      PROVE  /\ call'[d].attempt \in Numbers'
             /\ attempts'[call'[d].attempt].stage = call'[d].stage
  <2>1. CASE d = c
    BY <2>1, <1>1, <1>2
  <2>2. CASE d # c
    BY <2>2, <1>1, <1>2 DEF Onward, TypeInv, CallsAttempt
  <2> QED
    BY <2>1, <2>2
<1> QED
  BY <1>2 DEF CallsAttempt

(* Every step of every thread, a cancellation and a restart keep the state *)
(* well typed.                                                             *)
LEMMA TypeStep == TypeInv /\ [Next]_vars => TypeInv'
<1> SUFFICES ASSUME TypeInv, [Next]_vars PROVE TypeInv'
  OBVIOUS
<1> USE DEF TypeInv
<1>1. ASSUME NEW c \in Clients, NEW k \in Keys, NEW intent \in Intent, Claim(c, k, intent)
      PROVE  TypeInv'
  <2>1. /\ UNCHANGED <<unknown, lost, resultVars, attempts, crashes>>
        /\ status' = "RUNNING" /\ active' = k /\ epochs' \in [Keys -> Epoch]
        /\ call' \in [Clients -> Call] /\ \A d \in Clients \ {c} : call'[d] = call[d]
        /\ call'[c].at = "start"
    BY <1>1, ClaimEffect
  <2>2. CallsAttempt'
    BY <2>1 DEF CallsAttempt, InHand, Numbers
  <2> QED
    BY <2>1, <2>2 DEF TypeOK, RunStatus, resultVars
<1>2. ASSUME NEW c \in Clients, Moves(c) PROVE TypeInv'
  BY <1>2, TypeMoves
<1>3. ASSUME NEW c \in Clients, Stop(c) \/ Refuse(c) PROVE TypeInv'
  <2>1. /\ Onward(c) /\ call'[c].at = "idle" /\ Kept
        /\ UNCHANGED <<accepted, preflight, crashes>> /\ gate' \in {gate, preflight}
        /\ \/ UNCHANGED runVars
           \/ status' \in Terminal /\ unknown' \in BOOLEAN /\ EndEpoch("COMPLETED")
    BY <1>3, StopEffect, RefuseEffect, KeptSame DEF Idle, resultVars
  <2>2. CallsAttempt'
    BY <2>1, OnwardCalls DEF InHand
  <2>3. /\ status' \in RunStatus /\ active' \in Keys \cup {None} /\ unknown' \in BOOLEAN
        /\ epochs' \in [Keys -> Epoch] /\ lost' \in BOOLEAN
    BY <2>1, EndEpochEffect DEF TypeOK, runVars, RunStatus
  <2> QED
    BY <2>1, <2>2, <2>3, AcceptedKept DEF TypeOK, Onward, Kept
<1>4. ASSUME NEW c \in Clients, Die(c) PROVE TypeInv'
  <2>1. /\ UNCHANGED <<status, active, unknown, epochs, resultVars, attempts, crashes>>
        /\ Onward(c) /\ call'[c].at = "idle" /\ lost' \in BOOLEAN /\ Kept
    BY <1>4, DieEffect, KeptSame DEF Idle
  <2>2. CallsAttempt'
    BY <2>1, OnwardCalls DEF InHand
  <2> QED
    BY <2>1, <2>2 DEF TypeOK, Onward, resultVars
<1>5. ASSUME NEW c \in Clients, NewAttempt(c) PROVE TypeInv'
  <2>1. UNCHANGED <<runVars, resultVars, crashes>> /\ Onward(c)
    BY <1>5, NewAttemptEffect
  <2>2. CASE UNCHANGED attempts /\ (call'[c] = Idle \/ call'[c].at = "stop")
    <3>1. Kept /\ call'[c].at \notin InHand
      BY <2>2, KeptSame DEF Idle, InHand
    <3>2. CallsAttempt'
      BY <2>1, <3>1, OnwardCalls
    <3> QED
      BY <2>1, <2>2, <3>2 DEF TypeOK, Onward, runVars, resultVars
  <2>3. CASE /\ attempts' \in Seq(Attempt) /\ Len(attempts') = Len(attempts) + 1
             /\ \A j \in Numbers : attempts'[j] = attempts[j]
             /\ attempts'[Len(attempts) + 1].stage = call[c].stage
             /\ call'[c].stage = call[c].stage /\ call'[c].attempt = Len(attempts) + 1
    <3>1. Len(attempts) \in Nat /\ Numbers' = Numbers \cup {Len(attempts) + 1}
      BY <2>3 DEF TypeOK, Numbers
    <3>2. CallsAttempt'
      BY <2>1, <2>3, <3>1 DEF CallsAttempt, Onward
    <3>3. accepted' \in [Stages -> 0 .. Len(attempts')]
      BY <2>1, <2>3, <3>1 DEF TypeOK, resultVars
    <3> QED
      BY <2>1, <2>3, <3>2, <3>3 DEF TypeOK, Onward, runVars, resultVars
  <2>4. CASE /\ Owned(c)
             /\ call'[c].at = "reserve" /\ call'[c].stage = call[c].stage
             /\ call'[c].attempt = Len(attempts) + 1
             /\ attempts' \in Seq(Attempt) /\ Len(attempts') = Len(attempts) + 1
             /\ \A j \in Numbers : attempts'[j] = attempts[j]
             /\ attempts'[Len(attempts) + 1] =
                  [stage |-> call[c].stage, epoch |-> call[c].key, status |-> "STARTED",
                   bound |-> FALSE, bill |-> 0, verdict |-> "NONE"]
    <3>1. attempts'[Len(attempts) + 1].stage = call[c].stage
      BY <2>4
    <3> QED
      BY <2>3, <2>4, <3>1
  <2> QED
    BY <1>5, <2>2, <2>4, NewAttemptEffect
<1>6. ASSUME NEW c \in Clients, Reserve(c) \/ Send(c) \/ Finalize(c) \/ Validate(c)
      PROVE  TypeInv'
  <2>1. /\ UNCHANGED <<runVars, resultVars, crashes>> /\ Onward(c) /\ Kept
        /\ call[c].at \in InHand
        /\ \/ call'[c].stage = call[c].stage /\ call'[c].attempt = call[c].attempt
           \/ call'[c].at \in {"stop", "release", "next"}
    <3>1. CASE Reserve(c)
      BY <3>1, ReserveEffect, KeptSame DEF Touches, InHand
    <3>2. CASE Send(c)
      BY <3>2, SendEffect DEF Touches, InHand
    <3>3. CASE Finalize(c)
      BY <3>3, FinalizeEffect, KeptSame DEF Touches, InHand
    <3>4. CASE Validate(c)
      BY <3>4, ValidateEffect DEF Touches, InHand
    <3> QED
      BY <1>6, <3>1, <3>2, <3>3, <3>4
  <2>2. CallsAttempt'
    BY <2>1, AttemptAt, OnwardCalls DEF InHand
  <2> QED
    BY <2>1, <2>2, AcceptedKept DEF TypeOK, Onward, Kept, runVars, resultVars
<1>7. ASSUME NEW c \in Clients, Release(c) PROVE TypeInv'
  <2>0. /\ UNCHANGED <<status, resultVars, attempts, crashes>> /\ Onward(c)
        /\ call'[c] = Idle
        /\ \/ UNCHANGED runVars
           \/ unknown' = TRUE /\ EndEpoch("COMPLETED")
    BY <1>7, ReleaseStep
  <2>1. Kept /\ call'[c].at = "idle"
    BY <2>0, KeptSame DEF Idle
  <2>2. CallsAttempt'
    BY <2>0, <2>1, OnwardCalls DEF InHand
  <2>3. /\ active' \in Keys \cup {None} /\ unknown' \in BOOLEAN
        /\ epochs' \in [Keys -> Epoch] /\ lost' \in BOOLEAN
    BY <2>0, EndEpochEffect DEF TypeOK, runVars
  <2> QED
    BY <2>0, <2>2, <2>3 DEF TypeOK, Onward, resultVars
<1>8. ASSUME NEW c \in Clients, Accept(c) PROVE TypeInv'
  <2>1. /\ UNCHANGED <<runVars, gate, preflight, attempts, crashes>> /\ Onward(c)
        /\ call'[c].at \in {"gate", "stop"} /\ Kept
        /\ call[c].at = "accept"
    BY <1>8, AcceptEffect, KeptSame
  <2>2. CallsAttempt'
    BY <2>1, OnwardCalls DEF InHand
  <2>3. call[c].attempt \in 0 .. Len(attempts) /\ call[c].stage \in Stages
    BY <2>1, AttemptAt DEF InHand, Numbers, TypeOK
  <2>4. accepted' \in [Stages -> 0 .. Len(attempts)]
    BY <1>8, <2>3, AcceptEffect DEF TypeOK
  <2> QED
    BY <2>1, <2>2, <2>4 DEF TypeOK, Onward, runVars
<1>9. ASSUME NEW c \in Clients, Gate(c) PROVE TypeInv'
  <2>1. /\ UNCHANGED <<runVars, accepted, preflight, attempts, crashes>> /\ Onward(c)
        /\ call'[c].at \in {"idle", "enter", "stop"} /\ Kept /\ gate' \in Decision \cup {"NONE"}
    BY <1>9, GateEffect, KeptSame DEF Idle
  <2>2. CallsAttempt'
    BY <2>1, OnwardCalls DEF InHand
  <2> QED
    BY <2>1, <2>2 DEF TypeOK, Onward, runVars
<1>10. CASE Cancel
  <2>1. /\ Kept /\ status' \in Terminal /\ unknown' \in BOOLEAN /\ EndEpoch("CANCELLED")
        /\ UNCHANGED <<resultVars, call, crashes>>
    BY <1>10, CancelEffect
  <2>2. CallsAttempt'
    BY <2>1 DEF CallsAttempt, Kept, Numbers
  <2> QED
    BY <2>1, <2>2, EndEpochEffect, AcceptedKept DEF TypeOK, Kept, RunStatus, resultVars
<1>11. CASE Restart
  <2>1. /\ Kept /\ UNCHANGED <<resultVars, status>> /\ crashes' \in 0 .. MaxCrashes
        /\ call' = [c \in Clients |-> Idle] /\ call' \in [Clients -> Call]
        /\ \/ UNCHANGED runVars
           \/ EndEpoch("INTERRUPTED") /\ unknown' = RecoverUnknown
    BY <1>11, RestartKept
  <2>2. CallsAttempt'
    BY <2>1 DEF CallsAttempt, Idle, InHand
  <2>3. /\ active' \in Keys \cup {None} /\ unknown' \in BOOLEAN
        /\ epochs' \in [Keys -> Epoch] /\ lost' \in BOOLEAN
    BY <2>1, EndEpochEffect DEF TypeOK, runVars, RecoverUnknown
  <2> QED
    BY <2>1, <2>2, <2>3, AcceptedKept DEF TypeOK, Kept, resultVars
<1>12. CASE UNCHANGED vars
  BY <1>12 DEF TypeOK, CallsAttempt, Numbers, vars, runVars, resultVars
<1> QED
  BY <1>1, <1>2, <1>3, <1>4, <1>5, <1>6, <1>7, <1>8, <1>9, <1>10, <1>11, <1>12,
     FailMoves, StartMoves, EnterMoves, RevalidateMoves, GiveUpMoves
  DEF Next, Progress

(* The state keeps its shape, for any number of threads, keys and calls.   *)
THEOREM TypeCorrect == Spec => []TypeOK
<1>1. TypeInv => TypeOK
  BY DEF TypeInv
<1> QED
  BY <1>1, TypeInit, TypeStep, PTL DEF Spec

-----------------------------------------------------------------------------
(***************************************************************************)
(* Ownership.  A thread in an execution has the active epoch, unless the   *)
(* run has ended under it; hence there is one, and it can tell.            *)
(***************************************************************************)
BusyOwns == \A c \in Clients : call[c] # Idle => status \in Terminal \/ active = call[c].key

OwnInv == BusyOwns /\ OneExecutor /\ EndedIsClosed /\ EpochHasExecutor

(* Nobody owns a run that was created.                                     *)
LEMMA OwnInit == Init => OwnInv
  BY DEF Init, OwnInv, BusyOwns, OneExecutor, EndedIsClosed, EpochHasExecutor, Terminal

(* A thread that goes on, finds that it lost the run, or leaves its epoch  *)
(* behind.                                                                 *)
LEMMA OnwardOwns ==
  ASSUME TypeInv, OwnInv, NEW c \in Clients, call[c] # Idle, Onward(c),
         UNCHANGED <<status, active>>, lost => lost',
         call'[c] # Idle \/ ~Owned(c) \/ (active = call[c].key => lost')
  PROVE  BusyOwns' /\ OneExecutor' /\ EpochHasExecutor'
<1>1. \A d \in Clients : call[d] # Idle => d = c
  BY DEF OwnInv, OneExecutor
<1>2. \A d \in Clients : call'[d] # Idle => d = c /\ call'[d].key = call[c].key
  BY <1>1 DEF Onward
<1>3. BusyOwns' /\ OneExecutor'
  BY <1>2 DEF OwnInv, BusyOwns, OneExecutor
<1>4. EpochHasExecutor'
  <2> SUFFICES ASSUME active # None, ~lost'
               PROVE  \E d \in Clients : call'[d] # Idle /\ call'[d].key = active
    BY DEF EpochHasExecutor
  <2>1. call[c].key = active /\ status \notin Terminal
    BY <1>1 DEF OwnInv, EpochHasExecutor, EndedIsClosed
  <2>2. Owned(c)
    BY <2>1 DEF Owned
  <2> QED
    BY <1>2, <2>1, <2>2
<1> QED
  BY <1>3, <1>4

(* A run that has ended stays closed while nothing is started.             *)
LEMMA ClosedKept ==
  ASSUME EndedIsClosed, UNCHANGED <<status, active>>, Kept,
         \A i \in Numbers : attempts'[i].status = "STARTED" => attempts[i].status = "STARTED"
  PROVE  EndedIsClosed'
  BY DEF EndedIsClosed, Kept, Numbers

(* Ending a run closes it.                                                 *)
LEMMA ClosedByEnd ==
  ASSUME TypeOK, AbandonStarted, active' = None
  PROVE  EndedIsClosed'
<1>1. \A i \in Numbers : attempts[i] \in Attempt
  BY DEF TypeOK, Numbers
<1>2. Numbers' = Numbers /\ \A i \in Numbers : attempts'[i].status # "STARTED"
  BY <1>1, AbandonEffect, AbandonedType DEF Numbers
<1> QED
  BY <1>2 DEF EndedIsClosed

(* Whatever a thread writes to one attempt starts none. *)
LEMMA TouchesStartsNone ==
  ASSUME TypeOK, NEW i \in Numbers, Touches(i),
         attempts'[i].status = "STARTED" => attempts[i].status = "STARTED"
  PROVE  \A j \in Numbers : attempts'[j].status = "STARTED" => attempts[j].status = "STARTED"
  BY DEF Touches

(* Every step keeps the ownership of the run.                              *)
LEMMA OwnStep == TypeInv /\ OwnInv /\ [Next]_vars => OwnInv'
<1> SUFFICES ASSUME TypeInv, OwnInv, [Next]_vars PROVE OwnInv'
  OBVIOUS
<1>0. TypeOK
  BY DEF TypeInv
<1>1. ASSUME NEW c \in Clients, NEW k \in Keys, NEW intent \in Intent, Claim(c, k, intent)
      PROVE  OwnInv'
  <2>1. /\ active = None /\ status \notin Terminal
        /\ UNCHANGED <<lost, attempts>> /\ status' = "RUNNING" /\ active' = k
        /\ \A d \in Clients \ {c} : call'[d] = call[d]
        /\ call'[c].key = k /\ call'[c] # Idle
    BY <1>1, ClaimEffect DEF Claimable
  <2>2. \A d \in Clients : call[d] = Idle
    BY <2>1, <1>0, CallShape, AnalysisAssumption DEF OwnInv, BusyOwns, TypeOK
  <2>3. \A d \in Clients : call'[d] # Idle => d = c
    BY <2>1, <2>2
  <2>4. BusyOwns' /\ OneExecutor' /\ EpochHasExecutor'
    BY <2>1, <2>3 DEF BusyOwns, OneExecutor, EpochHasExecutor
  <2>5. EndedIsClosed'
    BY <2>1 DEF EndedIsClosed, Terminal
  <2> QED
    BY <2>4, <2>5 DEF OwnInv
<1>2. ASSUME NEW c \in Clients, Moves(c), call[c] # Idle, call'[c] # Idle \/ ~Owned(c)
      PROVE  OwnInv'
  <2>1. Onward(c)
    BY <1>0, <1>2, OnwardBy DEF Moves
  <2>2. UNCHANGED <<status, active, lost, attempts>>
    BY <1>2 DEF Moves, runVars
  <2>3. BusyOwns' /\ OneExecutor' /\ EpochHasExecutor'
    BY <1>2, <2>1, <2>2, OnwardOwns
  <2>4. EndedIsClosed'
    BY <1>0, <2>2, ClosedKept, KeptSame DEF OwnInv
  <2> QED
    BY <2>3, <2>4 DEF OwnInv
<1>3. ASSUME NEW c \in Clients, Stop(c) \/ Refuse(c) PROVE OwnInv'
  <2>1. /\ call[c] # Idle /\ Onward(c)
        /\ \/ ~Owned(c) /\ UNCHANGED <<status, active, lost, attempts>>
           \/ AbandonStarted /\ status' \in Terminal /\ active' = None
    BY <1>0, <1>3, StopEffect, RefuseEffect, EndEpochEffect DEF runVars
  <2>2. CASE ~Owned(c) /\ UNCHANGED <<status, active, lost, attempts>>
    <3>1. BusyOwns' /\ OneExecutor' /\ EpochHasExecutor'
      BY <2>1, <2>2, OnwardOwns
    <3>2. EndedIsClosed'
      BY <1>0, <2>2, ClosedKept, KeptSame DEF OwnInv
    <3> QED
      BY <3>1, <3>2 DEF OwnInv
  <2>3. CASE AbandonStarted /\ status' \in Terminal /\ active' = None
    <3>1. BusyOwns' /\ EpochHasExecutor'
      BY <2>3 DEF BusyOwns, EpochHasExecutor
    <3>2. OneExecutor'
      BY <2>1 DEF OwnInv, OneExecutor, Onward
    <3> QED
      BY <1>0, <2>3, <3>1, <3>2, ClosedByEnd DEF OwnInv
  <2> QED
    BY <2>1, <2>2, <2>3
<1>4. ASSUME NEW c \in Clients, Die(c) PROVE OwnInv'
  <2>1. /\ call[c] # Idle /\ UNCHANGED <<status, active, attempts>> /\ Onward(c)
        /\ (lost \/ active = call[c].key => lost')
    BY <1>4, DieEffect
  <2>2. /\ call[c] # Idle /\ Onward(c) /\ UNCHANGED <<status, active>>
        /\ call'[c] # Idle \/ ~Owned(c) \/ (active = call[c].key => lost')
    BY <2>1, Zenon
  <2>3. lost => lost'
    BY <2>1, Zenon
  <2>4. BusyOwns' /\ OneExecutor' /\ EpochHasExecutor'
    BY <2>2, <2>3, OnwardOwns, Zenon
  <2>5. EndedIsClosed'
    BY <1>0, <2>1, ClosedKept, KeptSame DEF OwnInv
  <2> QED
    BY <2>4, <2>5 DEF OwnInv
<1>5. ASSUME NEW c \in Clients, NewAttempt(c) PROVE OwnInv'
  <2>0. /\ call[c].at = "next" /\ Onward(c) /\ UNCHANGED runVars
        /\ \/ call'[c] = Idle /\ ~Owned(c) /\ UNCHANGED attempts
           \/ call'[c].at = "stop" /\ UNCHANGED attempts
           \/ Owned(c) /\ call'[c].at = "reserve"
    BY <1>5, NewAttemptEffect
  <2>1. /\ call[c] # Idle /\ Onward(c) /\ UNCHANGED <<status, active, lost>>
        /\ call'[c] # Idle \/ ~Owned(c)
        /\ Owned(c) \/ UNCHANGED attempts
    BY <2>0 DEF Idle, runVars
  <2>2. BusyOwns' /\ OneExecutor' /\ EpochHasExecutor'
    BY <2>1, OnwardOwns
  <2>3. CASE UNCHANGED attempts
    BY <1>0, <2>1, <2>2, <2>3, ClosedKept, KeptSame DEF OwnInv
  <2>4. CASE Owned(c)
    BY <2>1, <2>2, <2>4 DEF OwnInv, EndedIsClosed, Owned
  <2> QED
    BY <2>1, <2>3, <2>4
<1>6. ASSUME NEW c \in Clients, Reserve(c) \/ Send(c) \/ Finalize(c) \/ Validate(c)
      PROVE  OwnInv'
  <2>1. /\ UNCHANGED <<status, active, lost>> /\ Onward(c)
        /\ call[c].at \in InHand /\ call'[c].at # "idle"
        /\ \/ UNCHANGED attempts
           \/ /\ Touches(call[c].attempt)
              /\ \/ attempts'[call[c].attempt].status = attempts[call[c].attempt].status
                 \/ attempts'[call[c].attempt].status # "STARTED"
    <3>1. CASE Reserve(c)
      BY <3>1, ReserveEffect DEF InHand, runVars
    <3>2. CASE Send(c)
      BY <3>2, SendEffect DEF InHand, runVars
    <3>3. CASE Finalize(c)
      BY <3>3, FinalizeEffect DEF InHand, runVars
    <3>4. CASE Validate(c)
      BY <3>4, ValidateEffect DEF InHand, runVars
    <3> QED
      BY <1>6, <3>1, <3>2, <3>3, <3>4
  <2>2. call[c] # Idle /\ call'[c] # Idle /\ call[c].attempt \in Numbers
    BY <2>1, AttemptAt DEF Idle
  <2>3. BusyOwns' /\ OneExecutor' /\ EpochHasExecutor'
    BY <2>1, <2>2, OnwardOwns
  <2>4. /\ Kept
        /\ \A j \in Numbers : attempts'[j].status = "STARTED" => attempts[j].status = "STARTED"
    BY <1>0, <2>1, <2>2, KeptSame, TouchesStartsNone DEF Touches
  <2>5. EndedIsClosed'
    BY <2>1, <2>4, ClosedKept DEF OwnInv
  <2> QED
    BY <2>3, <2>5 DEF OwnInv
<1>7. ASSUME NEW c \in Clients, Release(c) PROVE OwnInv'
  <2>1. /\ call[c] # Idle /\ Onward(c) /\ call'[c] = Idle /\ UNCHANGED <<status, attempts>>
        /\ \/ ~Owned(c) /\ UNCHANGED <<active, lost>>
           \/ Owned(c) /\ active' = None
    BY <1>0, <1>7, ReleaseStep, EndEpochEffect DEF runVars
  <2>2. CASE ~Owned(c) /\ UNCHANGED <<active, lost>>
    <3>1. BusyOwns' /\ OneExecutor' /\ EpochHasExecutor'
      BY <2>1, <2>2, OnwardOwns
    <3>2. EndedIsClosed'
      BY <1>0, <2>1, <2>2, ClosedKept, KeptSame DEF OwnInv
    <3> QED
      BY <3>1, <3>2 DEF OwnInv
  <2>3. CASE Owned(c) /\ active' = None
    <3>1. \A d \in Clients : call'[d] = Idle
      BY <2>1 DEF OwnInv, OneExecutor, Onward
    <3>2. BusyOwns' /\ OneExecutor' /\ EpochHasExecutor'
      BY <2>3, <3>1 DEF BusyOwns, OneExecutor, EpochHasExecutor
    <3>3. EndedIsClosed'
      BY <2>1, <2>3 DEF EndedIsClosed, Owned
    <3> QED
      BY <3>2, <3>3 DEF OwnInv
  <2> QED
    BY <2>1, <2>2, <2>3
<1>8. ASSUME NEW c \in Clients, Accept(c) \/ Gate(c) PROVE OwnInv'
  <2>1. /\ call[c] # Idle /\ Onward(c) /\ UNCHANGED <<status, active, lost, attempts>>
        /\ call'[c] # Idle \/ ~Owned(c)
    BY <1>8, AcceptEffect, GateEffect DEF Idle, runVars
  <2>2. BusyOwns' /\ OneExecutor' /\ EpochHasExecutor'
    BY <2>1, OnwardOwns
  <2>3. EndedIsClosed'
    BY <1>0, <2>1, ClosedKept, KeptSame DEF OwnInv
  <2> QED
    BY <2>2, <2>3 DEF OwnInv
<1>9. CASE Cancel
  <2>1. AbandonStarted /\ status' \in Terminal /\ active' = None /\ UNCHANGED call
    BY <1>0, <1>9, CancelEffect, EndEpochEffect
  <2>2. BusyOwns' /\ EpochHasExecutor' /\ OneExecutor'
    BY <2>1 DEF BusyOwns, EpochHasExecutor, OwnInv, OneExecutor
  <2> QED
    BY <1>0, <2>1, <2>2, ClosedByEnd DEF OwnInv
<1>10. CASE Restart
  <2>1. \A d \in Clients : call'[d] = Idle
    BY <1>10, RestartKept
  <2>2. active' = None /\ UNCHANGED status
    BY <1>0, <1>10, RestartKept, EndEpochEffect DEF runVars
  <2>3. (active = None /\ UNCHANGED attempts) \/ active # None
    BY <1>10, RestartKept
  <2>4. BusyOwns' /\ OneExecutor' /\ EpochHasExecutor'
    BY <2>1, <2>2 DEF BusyOwns, OneExecutor, EpochHasExecutor
  <2>5. EndedIsClosed'
    BY <2>2, <2>3 DEF OwnInv, EndedIsClosed, Numbers
  <2> QED
    BY <2>4, <2>5 DEF OwnInv
<1>11. CASE UNCHANGED vars
  BY <1>11 DEF OwnInv, BusyOwns, OneExecutor, EndedIsClosed, EpochHasExecutor, Numbers,
            vars, runVars
<1>12. ASSUME NEW c \in Clients,
              Fail(c) \/ Start(c) \/ Enter(c) \/ Revalidate(c) \/ GiveUp(c)
       PROVE  OwnInv'
  <2>1. Moves(c) /\ call[c] # Idle /\ (call'[c] # Idle \/ ~Owned(c))
    BY <1>12, FailMoves, StartMoves, EnterMoves, RevalidateMoves, GiveUpMoves DEF Idle
  <2> QED
    BY <2>1, <1>2
<1> QED
  BY <1>1, <1>3, <1>4, <1>5, <1>6, <1>7, <1>8, <1>9, <1>10, <1>11, <1>12
  DEF Next, Progress

(* The inductive invariant of ownership. *)
THEOREM OwnershipInvariant == Spec => [](TypeInv /\ OwnInv)
<1>1. Init => TypeInv /\ OwnInv
  BY TypeInit, OwnInit
<1>2. TypeInv /\ OwnInv /\ [Next]_vars => (TypeInv /\ OwnInv)'
  BY TypeStep, OwnStep
<1> QED
  BY <1>1, <1>2, PTL DEF Spec

(* However many threads claim, resume, die and are cancelled, one executes. *)
THEOREM ExecutedByOne == Spec => []OneExecutor
<1>1. OwnInv => OneExecutor
  BY DEF OwnInv
<1> QED
  BY <1>1, OwnershipInvariant, PTL

(* A run that has ended has no owner and no call open. *)
THEOREM EndedRunsAreClosed == Spec => []EndedIsClosed
<1>1. OwnInv => EndedIsClosed
  BY DEF OwnInv
<1> QED
  BY <1>1, OwnershipInvariant, PTL

(* A run in progress has a thread at work, unless that died of an error. *)
THEOREM EpochsAreExecuted == Spec => []EpochHasExecutor
<1>1. OwnInv => EpochHasExecutor
  BY DEF OwnInv
<1> QED
  BY <1>1, OwnershipInvariant, PTL

-----------------------------------------------------------------------------
(***************************************************************************)
(* The history of the calls.  An attempt that has started is the latest,   *)
(* and the thread at work is calling for it or ends its run; a lost call   *)
(* is known to the run before anybody else can claim it; and an epoch that *)
(* is claimed while a call is known to be lost confirms the risk.          *)
(***************************************************************************)
Calling == {"reserve", "send", "finalize"}

StartedBelongs ==
  \A i \in Numbers : attempts[i].status = "STARTED" =>
    /\ i = Len(attempts) /\ active # None
    /\ \A c \in Clients : call[c] # Idle =>
         \/ call[c].at = "stop"
         \/ call[c].at \in Calling /\ call[c].attempt = i

LostIsKnown ==
  \A i \in Numbers : attempts[i].status = "ABANDONED" =>
    \/ unknown
    \/ status \in Terminal
    \/ active # None /\ \A c \in Clients : call[c] # Idle => call[c].at = "release"

Confirmed == unknown /\ active # None => epochs[active].intent = "RETRY_UNKNOWN"

EpochsUsed ==
  /\ active # None => Used(active)
  /\ \A j \in Numbers : Used(attempts[j].epoch)

HistInv == StartedBelongs /\ LostIsKnown /\ Confirmed /\ EpochsUsed /\ NoSilentRetry

(* A run that was created has called for nothing.                          *)
LEMMA HistInit == Init => HistInv
  BY DEF Init, HistInv, StartedBelongs, LostIsKnown, Confirmed, EpochsUsed, NoSilentRetry,
         Numbers

(* The attempts keep their epochs and these what they were claimed for.    *)
LEMMA HistoryKept ==
  ASSUME TypeOK, HistInv, Kept, epochs' \in [Keys -> Epoch],
         \A k \in Keys : epochs'[k].intent = epochs[k].intent,
         \A k \in Keys : epochs[k].status # "NONE" => epochs'[k].status # "NONE",
         \A j \in Numbers : attempts'[j].epoch = attempts[j].epoch,
         \A i \in Numbers : attempts'[i].status = "ABANDONED" =>
           attempts[i].status = "ABANDONED" \/ i = Len(attempts),
         active' \in {active, None}
  PROVE  NoSilentRetry' /\ EpochsUsed'
<1>1. Numbers' = Numbers /\ Len(attempts) \in Nat
  BY DEF Kept, Numbers, TypeOK
<1>2. \A j \in Numbers : attempts[j].epoch \in Keys
  <2>1. \A j \in Numbers : attempts[j] \in Attempt
    BY DEF TypeOK, Numbers
  <2> QED
    BY <2>1 DEF Attempt
<1>3. ASSUME NEW i \in Numbers, NEW j \in Numbers, i < j, attempts'[i].status = "ABANDONED"
      PROVE  epochs'[attempts'[j].epoch].intent = "RETRY_UNKNOWN"
  <2>1. attempts[i].status = "ABANDONED"
    BY <1>1, <1>3 DEF Numbers
  <2>2. epochs[attempts[j].epoch].intent = "RETRY_UNKNOWN"
    BY <1>3, <2>1 DEF HistInv, NoSilentRetry
  <2> QED
    BY <1>2, <2>2
<1>4. NoSilentRetry'
  BY <1>1, <1>3 DEF NoSilentRetry
<1>5. EpochsUsed'
  BY <1>1, <1>2 DEF HistInv, EpochsUsed, Used, TypeOK
<1> QED
  BY <1>4, <1>5

(* A thread that goes on without a call, or returns.                       *)
LEMMA HistQuiet ==
  ASSUME TypeInv, HistInv, NEW c \in Clients, call[c] # Idle, Onward(c),
         UNCHANGED <<status, active, unknown, epochs, attempts>>,
         \/ call'[c] = Idle
         \/ call[c].at # "release" /\ call'[c].at = "stop"
         \/ call[c].at \notin Calling \cup {"stop", "release"}
  PROVE  HistInv'
<1>1. StartedBelongs'
  BY DEF Onward, HistInv, StartedBelongs, Numbers
<1>2. LostIsKnown'
  BY DEF Onward, HistInv, LostIsKnown, Numbers
<1>3. Confirmed' /\ EpochsUsed' /\ NoSilentRetry'
  BY DEF HistInv, Confirmed, EpochsUsed, NoSilentRetry, Numbers, Used
<1> QED
  BY <1>1, <1>2, <1>3 DEF HistInv

(* A thread that writes to its attempt, which stays in the status it has.  *)
LEMMA HistTouch ==
  ASSUME TypeInv, HistInv, NEW c \in Clients, Onward(c), Touches(call[c].attempt),
         UNCHANGED <<status, active, unknown, epochs>>,
         call[c].at \in InHand,
         attempts'[call[c].attempt].status = attempts[call[c].attempt].status,
         \/ call[c].at \notin Calling
         \/ call'[c].at \in Calling /\ call'[c].attempt = call[c].attempt
  PROVE  HistInv'
<1>0. call[c] # Idle /\ call[c].attempt \in Numbers /\ TypeOK
  BY AttemptAt DEF TypeInv
<1>1. /\ Numbers' = Numbers /\ Len(attempts') = Len(attempts)
      /\ \A j \in Numbers : attempts'[j].status = attempts[j].status
      /\ \A j \in Numbers : attempts'[j].epoch = attempts[j].epoch
  BY <1>0 DEF Touches, Kept, Numbers
<1>2. StartedBelongs'
  BY <1>0, <1>1 DEF Onward, HistInv, StartedBelongs, InHand
<1>3. call[c].at # "release"
  BY DEF InHand
<1>4. LostIsKnown'
  BY <1>0, <1>1, <1>3 DEF Onward, HistInv, LostIsKnown
<1>5. NoSilentRetry' /\ EpochsUsed'
  BY <1>0, <1>1, HistoryKept DEF Touches, TypeOK
<1>6. Confirmed'
  BY DEF HistInv, Confirmed
<1> QED
  BY <1>2, <1>4, <1>5, <1>6 DEF HistInv

(* The answer of a call, which no longer is open.                          *)
LEMMA HistFinalize ==
  ASSUME TypeInv, OwnInv, HistInv, NEW c \in Clients, Finalize(c)
  PROVE  HistInv'
<1> DEFINE i == call[c].attempt
<1>1. call[c].at = "finalize" /\ call[c] # Idle /\ i \in Numbers /\ TypeOK
  BY FinalizeEffect, AttemptAt DEF InHand, TypeInv
<1>2. UNCHANGED <<status, active, unknown, epochs>> /\ Onward(c)
  BY FinalizeEffect DEF runVars
<1>3. CASE UNCHANGED attempts /\ call'[c].at = "stop"
  BY <1>1, <1>2, <1>3, HistQuiet
<1>4. CASE /\ attempts[i].status = "STARTED" /\ Touches(i)
           /\ attempts'[i].status # "STARTED"
           /\ attempts'[i].status = "ABANDONED" => call'[c].at = "release"
  <2>1. /\ Numbers' = Numbers /\ Len(attempts') = Len(attempts) /\ Kept
        /\ \A j \in Numbers \ {i} : attempts'[j] = attempts[j]
        /\ attempts'[i].epoch = attempts[i].epoch
    BY <1>4 DEF Touches, Kept, Numbers
  <2>2. i = Len(attempts) /\ active # None
    BY <1>1, <1>4 DEF HistInv, StartedBelongs
  <2>3. \A j \in Numbers : attempts[j].status = "STARTED" => j = i
    BY <2>2 DEF HistInv, StartedBelongs
  <2>4. StartedBelongs'
    BY <1>4, <2>1, <2>3 DEF StartedBelongs
  <2>5. \A d \in Clients : call[d] # Idle => d = c
    BY <1>1 DEF OwnInv, OneExecutor
  <2>6. LostIsKnown'
    <3>1. ASSUME NEW j \in Numbers, attempts'[j].status = "ABANDONED"
          PROVE  \/ unknown'
                 \/ status' \in Terminal
                 \/ active' # None /\ \A d \in Clients : call'[d] # Idle => call'[d].at = "release"
      <4>1. CASE j = i
        <5>1. \A d \in Clients : call'[d] # Idle => d = c
          BY <1>2, <2>5 DEF Onward
        <5> QED
          BY <1>2, <1>4, <2>2, <3>1, <4>1, <5>1
      <4>2. CASE j # i
        <5>1. unknown \/ status \in Terminal
          BY <1>1, <2>1, <3>1, <4>2 DEF HistInv, LostIsKnown
        <5> QED
          BY <1>2, <5>1
      <4> QED
        BY <4>1, <4>2
    <3> QED
      BY <2>1, <3>1 DEF LostIsKnown
  <2>7. NoSilentRetry' /\ EpochsUsed'
    BY <1>1, <1>2, <2>1, <2>2, HistoryKept DEF TypeOK
  <2>8. Confirmed'
    BY <1>2 DEF HistInv, Confirmed
  <2> QED
    BY <2>4, <2>6, <2>7, <2>8 DEF HistInv
<1> QED
  BY <1>3, <1>4, FinalizeEffect

(* A new call, made for the epoch that owns the run.                       *)
LEMMA HistNewAttempt ==
  ASSUME TypeInv, OwnInv, HistInv, NEW c \in Clients, NewAttempt(c)
  PROVE  HistInv'
<1> DEFINE last == Len(attempts) + 1
<1>0. call[c].at = "next" /\ call[c].key \in Keys
  BY NewAttemptEffect, Zenon
<1>1. call[c].at = "next" /\ call[c] # Idle /\ call[c].key \in Keys /\ TypeOK
  BY <1>0 DEF TypeInv, Idle
<1>2. UNCHANGED <<status, active, unknown, epochs>> /\ Onward(c)
  BY NewAttemptEffect DEF runVars
<1>3. CASE UNCHANGED attempts /\ (call'[c] = Idle \/ call'[c].at = "stop")
  BY <1>1, <1>2, <1>3, HistQuiet
<1>4. CASE /\ Owned(c)
           /\ call'[c].at = "reserve" /\ call'[c].attempt = last
           /\ attempts' \in Seq(Attempt) /\ Len(attempts') = last
           /\ \A j \in Numbers : attempts'[j] = attempts[j]
           /\ attempts'[last].epoch = call[c].key /\ attempts'[last].status = "STARTED"
  <2>1. Numbers' = Numbers \cup {last} /\ Len(attempts) \in Nat /\ last \notin Numbers
    BY <1>1, <1>4 DEF Numbers, TypeOK
  <2>2. active = call[c].key /\ active # None /\ status \notin Terminal
    BY <1>1, <1>4, AnalysisAssumption DEF Owned
  <2>3. \A d \in Clients : call'[d] # Idle => d = c
    BY <1>1, <1>2 DEF OwnInv, OneExecutor, Onward
  <2>4. \A j \in Numbers : attempts[j].status # "STARTED"
    BY <1>1 DEF HistInv, StartedBelongs, Calling
  <2>5. StartedBelongs'
    BY <1>2, <1>4, <2>1, <2>2, <2>3, <2>4 DEF StartedBelongs, Calling
  <2>6. \A j \in Numbers : attempts[j].status = "ABANDONED" => unknown
    BY <1>1, <2>2 DEF HistInv, LostIsKnown
  <2>7. LostIsKnown'
    BY <1>2, <1>4, <2>1, <2>6 DEF LostIsKnown
  <2>8. Confirmed'
    BY <1>2 DEF HistInv, Confirmed
  <2>9. EpochsUsed'
    BY <1>2, <1>4, <2>1, <2>2 DEF HistInv, EpochsUsed, Used
  <2>10. NoSilentRetry'
    <3>1. ASSUME NEW k \in Numbers', NEW j \in Numbers', k < j, attempts'[k].status = "ABANDONED"
          PROVE  epochs'[attempts'[j].epoch].intent = "RETRY_UNKNOWN"
      <4>1. k \in Numbers
        BY <2>1, <3>1 DEF Numbers
      <4>2. CASE j \in Numbers
        BY <1>2, <1>4, <3>1, <4>1, <4>2 DEF HistInv, NoSilentRetry
      <4>3. CASE j = last
        BY <1>2, <1>4, <2>2, <2>6, <3>1, <4>1, <4>3 DEF HistInv, Confirmed
      <4> QED
        BY <2>1, <4>2, <4>3
    <3> QED
      BY <3>1 DEF NoSilentRetry
  <2> QED
    BY <2>5, <2>7, <2>8, <2>9, <2>10 DEF HistInv
<1>5. \/ UNCHANGED attempts /\ (call'[c] = Idle \/ call'[c].at = "stop")
      \/ /\ Owned(c)
         /\ call'[c].at = "reserve" /\ call'[c].attempt = last
         /\ attempts' \in Seq(Attempt) /\ Len(attempts') = last
         /\ \A j \in Numbers : attempts'[j] = attempts[j]
         /\ attempts'[last] =
              [stage |-> call[c].stage, epoch |-> call[c].key, status |-> "STARTED",
               bound |-> FALSE, bill |-> 0, verdict |-> "NONE"]
  BY NewAttemptEffect, Zenon
<1> QED
  BY <1>3, <1>4, <1>5

(* The end of a run closes what is open.                                   *)
LEMMA HistEnd ==
  ASSUME TypeInv, HistInv, AbandonStarted, status' \in Terminal,
         NEW how \in {"COMPLETED", "CANCELLED", "INTERRUPTED"}, EndEpoch(how)
  PROVE  HistInv'
<1>0. TypeOK /\ Kept /\ Numbers' = Numbers
  BY KeptAbandon DEF TypeInv, Kept, Numbers
<1>1. \A i \in Numbers : attempts[i] \in Attempt /\ attempts'[i] = Abandoned(attempts[i])
  BY <1>0, AbandonEffect DEF TypeOK, Numbers
<1>2. \A i \in Numbers :
        /\ attempts'[i].epoch = attempts[i].epoch /\ attempts'[i].status # "STARTED"
        /\ attempts[i].status # "STARTED" => attempts'[i] = attempts[i]
  BY <1>1, AbandonedType
<1>3. \A i \in Numbers : attempts'[i].status = "ABANDONED" =>
        attempts[i].status = "ABANDONED" \/ i = Len(attempts)
  BY <1>2 DEF HistInv, StartedBelongs
<1>4. active' = None
  BY <1>0, EndEpochEffect
<1>5. NoSilentRetry' /\ EpochsUsed'
  BY <1>0, <1>2, <1>3, EndEpochEffect, HistoryKept
<1>6. StartedBelongs' /\ LostIsKnown' /\ Confirmed'
  BY <1>0, <1>2, <1>4 DEF StartedBelongs, LostIsKnown, Confirmed
<1> QED
  BY <1>5, <1>6 DEF HistInv

(* A restart takes what had started for lost, and says so.                 *)
LEMMA HistRestart == TypeInv /\ HistInv /\ Restart => HistInv'
<1> SUFFICES ASSUME TypeInv, HistInv, Restart PROVE HistInv'
  OBVIOUS
<1>0. TypeOK /\ Kept /\ Numbers' = Numbers /\ UNCHANGED status
      /\ \A c \in Clients : call'[c] = Idle
  BY RestartKept DEF TypeInv, Kept, Numbers
<1>1. CASE active = None /\ UNCHANGED <<runVars, attempts>>
  BY <1>0, <1>1
  DEF HistInv, StartedBelongs, LostIsKnown, Confirmed, EpochsUsed, NoSilentRetry, Used, runVars
<1>2. CASE /\ EndEpoch("INTERRUPTED") /\ unknown' = RecoverUnknown
           /\ \A i \in Numbers : attempts'[i] = AbandonedAtRestart(attempts[i])
  <2>1. \A i \in Numbers : attempts[i] \in Attempt
    BY <1>0 DEF TypeOK, Numbers
  <2>2. \A i \in Numbers :
          /\ attempts'[i].epoch = attempts[i].epoch /\ attempts'[i].status # "STARTED"
          /\ attempts[i].status # "STARTED" => attempts'[i] = attempts[i]
    BY <1>2, <2>1, AbandonedType
  <2>3. \A i \in Numbers : attempts'[i].status = "ABANDONED" =>
          attempts[i].status = "ABANDONED" \/ i = Len(attempts)
    BY <2>2 DEF HistInv, StartedBelongs
  <2>4. active' = None
    BY <1>0, <1>2, EndEpochEffect
  <2>5. NoSilentRetry' /\ EpochsUsed'
    BY <1>0, <1>2, <2>2, <2>3, EndEpochEffect, HistoryKept
  <2>6. \A i \in Numbers : attempts'[i].status = "ABANDONED" => unknown'
    BY <1>2, <2>2, <2>1 DEF RecoverUnknown, Numbers, Attempt
  <2>7. StartedBelongs' /\ LostIsKnown' /\ Confirmed'
    BY <1>0, <2>2, <2>4, <2>6 DEF StartedBelongs, LostIsKnown, Confirmed
  <2> QED
    BY <2>5, <2>7 DEF HistInv
<1> QED
  BY <1>1, <1>2, RestartKept

(* The epoch of a claim is a new one, and no attempt carries it yet.       *)
LEMMA HistClaim ==
  ASSUME TypeInv, HistInv, NEW c \in Clients, NEW k \in Keys, NEW intent \in Intent,
         Claim(c, k, intent)
  PROVE  HistInv'
<1>1. /\ ~Used(k) /\ status \notin Terminal /\ active = None
      /\ unknown => intent = "RETRY_UNKNOWN"
      /\ UNCHANGED <<unknown, attempts>> /\ active' = k
      /\ epochs' = [epochs EXCEPT ![k] = [status |-> "ACTIVE", intent |-> intent]]
      /\ epochs \in [Keys -> Epoch]
  BY ClaimEffect DEF Claimable, TypeInv, TypeOK
<1>2. \A i \in Numbers : attempts[i].status # "STARTED" /\ attempts[i].epoch # k
  BY <1>1 DEF HistInv, StartedBelongs, EpochsUsed
<1>3. \A i \in Numbers : attempts[i].epoch \in Keys
  <2>1. \A i \in Numbers : attempts[i] \in Attempt
    BY DEF TypeInv, TypeOK, Numbers
  <2> QED
    BY <2>1 DEF Attempt
<1>4. \A i \in Numbers : attempts[i].status = "ABANDONED" => unknown
  BY <1>1 DEF HistInv, LostIsKnown
<1>5. StartedBelongs' /\ LostIsKnown' /\ Confirmed'
  BY <1>1, <1>2, <1>4 DEF StartedBelongs, LostIsKnown, Confirmed, Numbers
<1>6. EpochsUsed' /\ NoSilentRetry'
  BY <1>1, <1>2, <1>3 DEF HistInv, EpochsUsed, NoSilentRetry, Numbers, Used
<1> QED
  BY <1>5, <1>6 DEF HistInv

(* A run is handed back with the word that a call was lost.                *)
LEMMA HistRelease ==
  ASSUME TypeInv, HistInv, NEW c \in Clients, Release(c)
  PROVE  HistInv'
<1>1. /\ call[c].at = "release" /\ call[c] # Idle /\ UNCHANGED <<status, attempts>>
      /\ Onward(c) /\ call'[c] = Idle /\ TypeOK
  BY ReleaseStep DEF TypeInv
<1>2. CASE UNCHANGED runVars
  BY <1>1, <1>2, HistQuiet DEF runVars
<1>3. CASE unknown' = TRUE /\ EndEpoch("COMPLETED")
  <2>1. Kept /\ Numbers' = Numbers
    BY <1>1, KeptSame DEF Kept, Numbers
  <2>2. active' = None
    BY <1>1, <1>3, EndEpochEffect
  <2>3. NoSilentRetry' /\ EpochsUsed'
    BY <1>1, <1>3, <2>1, EndEpochEffect, HistoryKept
  <2>4. \A i \in Numbers : attempts[i].status # "STARTED"
    BY <1>1 DEF HistInv, StartedBelongs, Calling
  <2>5. StartedBelongs' /\ LostIsKnown' /\ Confirmed'
    BY <1>1, <1>3, <2>1, <2>2, <2>4 DEF StartedBelongs, LostIsKnown, Confirmed
  <2> QED
    BY <2>3, <2>5 DEF HistInv
<1> QED
  BY <1>2, <1>3, ReleaseStep

(* Every step keeps the history of the calls.                              *)
LEMMA HistStep == TypeInv /\ OwnInv /\ HistInv /\ [Next]_vars => HistInv'
<1> SUFFICES ASSUME TypeInv, OwnInv, HistInv, [Next]_vars PROVE HistInv'
  OBVIOUS
<1>0. TypeOK
  BY DEF TypeInv
<1>1. ASSUME NEW c \in Clients, Moves(c), call[c] # Idle,
             \/ call'[c] = Idle
             \/ call[c].at # "release" /\ call'[c].at = "stop"
             \/ call[c].at \notin Calling \cup {"stop", "release"}
      PROVE  HistInv'
  <2>1. Onward(c)
    BY <1>0, <1>1, OnwardBy DEF Moves
  <2>2. UNCHANGED <<status, active, unknown, epochs, attempts>>
    BY <1>1 DEF Moves, runVars
  <2> QED
    BY <1>1, <2>1, <2>2, HistQuiet
<1>2. ASSUME NEW c \in Clients,
             Fail(c) \/ Start(c) \/ Enter(c) \/ Revalidate(c) \/ GiveUp(c)
      PROVE  HistInv'
  <2>1. CASE Fail(c)
    <3>1. Moves(c) /\ call[c] # Idle /\ call[c].at # "release" /\ call'[c].at = "stop"
      BY <2>1, FailMoves DEF Fail
    <3> QED
      BY <3>1, <1>1
  <2>2. CASE Start(c) \/ Enter(c) \/ Revalidate(c) \/ GiveUp(c)
    <3>1. Moves(c) /\ call[c].at \in {"start", "enter", "next"}
      BY <2>2, StartMoves, EnterMoves, RevalidateMoves, GiveUpMoves
    <3>2. call[c] # Idle /\ call[c].at \notin Calling \cup {"stop", "release"}
      BY <3>1 DEF Idle, Calling
    <3> QED
      BY <3>1, <3>2, <1>1
  <2> QED
    BY <1>2, <2>1, <2>2
<1>3. ASSUME NEW c \in Clients, Stop(c) \/ Refuse(c) PROVE HistInv'
  <2>1. /\ call[c] # Idle /\ Onward(c) /\ call'[c] = Idle
        /\ \/ UNCHANGED <<status, active, unknown, epochs, attempts>>
           \/ AbandonStarted /\ status' \in Terminal /\ EndEpoch("COMPLETED")
    BY <1>3, StopEffect, RefuseEffect DEF runVars
  <2>2. CASE UNCHANGED <<status, active, unknown, epochs, attempts>>
    BY <2>1, <2>2, HistQuiet
  <2>3. CASE AbandonStarted /\ status' \in Terminal /\ EndEpoch("COMPLETED")
    BY <2>3, HistEnd
  <2> QED
    BY <2>1, <2>2, <2>3
<1>4. ASSUME NEW c \in Clients, Die(c) PROVE HistInv'
  <2>1. /\ call[c] # Idle /\ Onward(c) /\ call'[c] = Idle
        /\ UNCHANGED <<status, active, unknown, epochs, attempts>>
    BY <1>4, DieEffect
  <2> QED
    BY <2>1, HistQuiet
<1>5. ASSUME NEW c \in Clients, Reserve(c) PROVE HistInv'
  <2>1. /\ call[c].at = "reserve" /\ call[c] # Idle /\ Onward(c)
        /\ UNCHANGED <<status, active, unknown, epochs>>
    BY <1>5, ReserveEffect DEF runVars, Idle
  <2>2. CASE call'[c].at = "stop" /\ UNCHANGED attempts
    BY <2>1, <2>2, HistQuiet
  <2>3. CASE /\ Touches(call[c].attempt)
             /\ attempts'[call[c].attempt].status = attempts[call[c].attempt].status
             /\ call'[c].at = "send" /\ call'[c].attempt = call[c].attempt
    <3>1. call[c].at \in InHand /\ call'[c].at \in Calling
      BY <2>1, <2>3 DEF InHand, Calling
    <3> QED
      BY <2>1, <2>3, <3>1, HistTouch
  <2> QED
    BY <1>5, <2>2, <2>3, ReserveEffect
<1>6. ASSUME NEW c \in Clients, Send(c) PROVE HistInv'
  <2>1. /\ call[c].at \in InHand /\ call'[c].at \in Calling
        /\ UNCHANGED <<status, active, unknown, epochs>>
    BY <1>6, SendEffect DEF runVars, InHand, Calling
  <2> QED
    BY <1>6, <2>1, SendEffect, HistTouch
<1>7. ASSUME NEW c \in Clients, Validate(c) PROVE HistInv'
  <2>1. /\ call[c].at \in InHand /\ call[c].at \notin Calling
        /\ UNCHANGED <<status, active, unknown, epochs>>
    BY <1>7, ValidateEffect DEF runVars, InHand, Calling
  <2> QED
    BY <1>7, <2>1, ValidateEffect, HistTouch
<1>8. ASSUME NEW c \in Clients, Accept(c) \/ Gate(c) PROVE HistInv'
  <2>1. /\ call[c].at \in {"accept", "gate"} /\ Onward(c)
        /\ UNCHANGED <<status, active, unknown, epochs, attempts>>
    BY <1>8, AcceptEffect, GateEffect DEF runVars
  <2>2. call[c] # Idle /\ call[c].at \notin Calling \cup {"stop", "release"}
    BY <2>1 DEF Idle, Calling
  <2> QED
    BY <2>1, <2>2, HistQuiet
<1>9. CASE Cancel
  BY <1>9, CancelEffect, HistEnd
<1>10. CASE UNCHANGED vars
  BY <1>10 DEF HistInv, StartedBelongs, LostIsKnown, Confirmed, EpochsUsed, NoSilentRetry,
               Numbers, Used, vars, runVars
<1> QED
  BY <1>2, <1>3, <1>4, <1>5, <1>6, <1>7, <1>8, <1>9, <1>10,
     HistFinalize, HistNewAttempt, HistRestart, HistClaim, HistRelease
  DEF Next, Progress

(* The inductive invariant of the history of the calls.                    *)
THEOREM HistoryInvariant == Spec => [](TypeInv /\ OwnInv /\ HistInv)
<1>1. Init => HistInv
  BY HistInit
<1>2. (TypeInv /\ OwnInv) /\ HistInv /\ [Next]_vars => HistInv'
  BY HistStep
<1> QED
  BY <1>1, <1>2, OwnershipInvariant, PTL DEF Spec

(* Whatever is lost, when the process dies or the answer does not come, a  *)
(* later call is made only under an epoch that confirms the risk.          *)
THEOREM NothingRetriedSilently == Spec => []NoSilentRetry
<1>1. HistInv => NoSilentRetry
  BY DEF HistInv
<1> QED
  BY <1>1, HistoryInvariant, PTL

-----------------------------------------------------------------------------
(***************************************************************************)
(* Answers.  What a thread goes on with is in the state its step takes for *)
(* granted: the latest attempt of its stage, lost, or answered and not yet *)
(* validated, or found to be worth a retry.                                *)
(***************************************************************************)
Last(i, n) == \A j \in OfStage(n) : j <= i

Ready(x) ==
  /\ x.at = "next" => \A i \in OfStage(x.stage) : Last(i, x.stage) =>
       \/ attempts[i].status = "ABANDONED"
       \/ attempts[i].status = "COMPLETED" /\ attempts[i].verdict \in {"NONE", "RETRYABLE"}
  /\ x.at = "validate" =>
       /\ Last(x.attempt, x.stage)
       /\ attempts[x.attempt].status = "COMPLETED" /\ attempts[x.attempt].verdict = "NONE"
  /\ x.at = "accept" =>
       attempts[x.attempt].status = "COMPLETED" /\ attempts[x.attempt].verdict = "ACCEPTED"

CallsReady == \A c \in Clients : Ready(call[c])

(* Only an answer is validated. *)
VerdictOnCompleted ==
  \A i \in Numbers : attempts[i].verdict # "NONE" => attempts[i].status = "COMPLETED"

AnswerInv == CallsReady /\ VerdictOnCompleted /\ NoAnswerBoughtTwice

(* A run that was created has no answer.                                   *)
LEMMA AnswerInit == Init => AnswerInv
  BY DEF Init, AnswerInv, CallsReady, Ready, Idle, VerdictOnCompleted, NoAnswerBoughtTwice,
         Numbers

(* Giving up what had started, and steps that go on to nothing that takes  *)
(* an answer for granted.                                                  *)
LEMMA AnswerKept ==
  ASSUME TypeInv, AnswerInv, Kept,
         \A i \in Numbers : attempts'[i].verdict = attempts[i].verdict,
         \A i \in Numbers : attempts[i].status # "STARTED" =>
           attempts'[i].status = attempts[i].status,
         \A d \in Clients :
           call'[d] = call[d] \/ call'[d].at \notin {"next", "validate", "accept"}
  PROVE  AnswerInv'
<1>1. Numbers' = Numbers /\ \A n \in Stages : OfStage(n)' = OfStage(n)
  BY DEF Kept, Numbers, OfStage
<1>2. VerdictOnCompleted'
  BY <1>1 DEF AnswerInv, VerdictOnCompleted
<1>3. NoAnswerBoughtTwice'
  BY <1>1 DEF AnswerInv, NoAnswerBoughtTwice, Kept
<1>4. ASSUME NEW d \in Clients, call'[d] = call[d] PROVE Ready(call[d])'
  <2>0. Ready(call[d])
    BY DEF AnswerInv, CallsReady
  <2>1. CASE call[d].at = "next"
    <3>1. call[d].stage \in Stages
      BY <2>1, NextAttemptCall DEF TypeInv
    <3>2. OfStage(call[d].stage)' = OfStage(call[d].stage)
          /\ OfStage(call[d].stage) \in SUBSET Numbers
      BY <1>1, <1>4, <3>1 DEF OfStage, Numbers
    <3> QED
      BY <1>4, <2>0, <2>1, <3>2 DEF Ready, Last
  <2>2. CASE call[d].at \in {"validate", "accept"}
    <3>1. call[d].stage \in Stages /\ call[d].attempt \in Numbers
      BY <2>2, AttemptAt DEF InHand
    <3>2. OfStage(call[d].stage)' = OfStage(call[d].stage)
      BY <1>1, <1>4, <3>1
    <3> QED
      BY <1>4, <2>0, <2>2, <3>1, <3>2 DEF Ready, Last
  <2> QED
    BY <1>4, <2>1, <2>2 DEF Ready
<1>5. ASSUME NEW d \in Clients, call'[d].at \notin {"next", "validate", "accept"}
      PROVE  Ready(call[d])'
  BY <1>5 DEF Ready
<1>6. CallsReady'
  BY <1>4, <1>5 DEF CallsReady
<1> QED
  BY <1>2, <1>3, <1>6 DEF AnswerInv

(* A thread that goes on to something that is ready, while no attempt      *)
(* changes.                                                                *)
LEMMA AnswerOnward ==
  ASSUME AnswerInv, NEW c \in Clients, Onward(c), UNCHANGED attempts, Ready(call'[c])
  PROVE  AnswerInv'
<1>1. ASSUME NEW d \in Clients PROVE Ready(call[d])'
  <2>1. Ready(call'[d])
    BY DEF Onward, AnswerInv, CallsReady
  <2> QED
    BY <2>1 DEF Ready, Last, OfStage
<1>2. VerdictOnCompleted' /\ NoAnswerBoughtTwice'
  BY DEF AnswerInv, VerdictOnCompleted, NoAnswerBoughtTwice, Numbers
<1> QED
  BY <1>1, <1>2 DEF AnswerInv, CallsReady

(* What an earlier epoch left of a stage.                                  *)
LEMMA AnswerEnter ==
  ASSUME TypeInv, HistInv, AnswerInv, NEW c \in Clients, Enter(c)
  PROVE  AnswerInv'
<1> DEFINE n == call[c].stage
<1>0. TypeOK /\ call[c].at = "enter" /\ n \in Stages /\ Moves(c)
  BY EnterMoves DEF TypeInv
<1>1. Onward(c) /\ UNCHANGED attempts
  BY <1>0, OnwardBy DEF Moves
<1>2. CASE call'[c].at \in {"stop", "idle"}
  <2>1. Ready(call'[c])
    BY <1>2 DEF Ready
  <2> QED
    BY <1>1, <2>1, AnswerOnward
<1>3. CASE /\ call'[c].at = "accept" /\ call'[c].attempt \in OfStage(n)
           /\ attempts[call'[c].attempt].verdict = "ACCEPTED"
  <2>1. attempts[call'[c].attempt].status = "COMPLETED"
    BY <1>3 DEF AnswerInv, VerdictOnCompleted, OfStage, Numbers
  <2>2. Ready(call'[c])
    BY <1>3, <2>1 DEF Ready
  <2> QED
    BY <1>1, <2>2, AnswerOnward
<1>4. CASE /\ call'[c].at = "next" /\ call'[c].stage = n
           /\ OfStage(n) # {} => /\ attempts[Parent(n)].status # "FAILED"
                                 /\ attempts[Parent(n)].verdict \notin {"ACCEPTED", "REJECTED"}
  <2>1. ASSUME NEW i \in OfStage(n), Last(i, n)
        PROVE  \/ attempts[i].status = "ABANDONED"
               \/ attempts[i].status = "COMPLETED" /\ attempts[i].verdict \in {"NONE", "RETRYABLE"}
    <3>1. /\ Parent(n) \in OfStage(n) /\ Parent(n) \in Numbers /\ Parent(n) \in Nat
          /\ i <= Parent(n) /\ Parent(n) <= i /\ i \in Nat
      BY <1>0, <2>1, ParentIs DEF Last, OfStage, TypeOK
    <3>2. i = Parent(n)
      BY <3>1
    <3>3. attempts[i] \in Attempt
      BY <1>0, <3>1, <3>2 DEF TypeOK, Numbers
    <3>4. attempts[i].status # "STARTED"
      BY <1>0, <3>1, <3>2 DEF HistInv, StartedBelongs, Calling, Idle
    <3> QED
      BY <1>4, <2>1, <3>2, <3>3, <3>4 DEF Attempt
  <2>2. Ready(call'[c])
    BY <1>4, <2>1 DEF Ready
  <2> QED
    BY <1>1, <2>2, AnswerOnward
<1> QED
  BY <1>2, <1>3, <1>4, EnterMoves DEF Idle

(* A completed answer is the latest of its stage, and goes to validation.  *)
LEMMA AnswerFinalize ==
  ASSUME TypeInv, OwnInv, HistInv, AnswerInv, NEW c \in Clients, Finalize(c)
  PROVE  AnswerInv'
<1> DEFINE i == call[c].attempt
           n == call[c].stage
<1>0. /\ TypeOK /\ call[c].at = "finalize" /\ call[c] # Idle /\ i \in Numbers
      /\ n \in Stages /\ attempts[i].stage = n /\ Onward(c)
  BY FinalizeEffect, AttemptAt DEF TypeInv, InHand
<1>1. CASE UNCHANGED attempts /\ call'[c].at = "stop"
  <2>1. Ready(call'[c])
    BY <1>1 DEF Ready
  <2> QED
    BY <1>0, <1>1, <2>1, AnswerOnward
<1>2. CASE /\ attempts[i].status = "STARTED" /\ Touches(i)
           /\ attempts'[i].verdict = attempts[i].verdict
           /\ \/ /\ attempts'[i].status = "COMPLETED"
                 /\ call'[c].at = "validate" /\ call'[c].stage = n /\ call'[c].attempt = i
              \/ call'[c].at \in {"release", "stop"}
  <2>1. /\ Kept /\ Numbers' = Numbers /\ \A m \in Stages : OfStage(m)' = OfStage(m)
        /\ \A j \in Numbers : attempts'[j].verdict = attempts[j].verdict
        /\ \A j \in Numbers : attempts[j].status # "STARTED" =>
             attempts'[j].status = attempts[j].status
    BY <1>0, <1>2 DEF Touches, Kept, Numbers, OfStage
  <2>2. CASE call'[c].at \in {"release", "stop"}
    <3>1. \A d \in Clients :
            call'[d] = call[d] \/ call'[d].at \notin {"next", "validate", "accept"}
      BY <1>0, <2>2 DEF Onward
    <3> QED
      BY <2>1, <3>1, AnswerKept
  <2>3. CASE /\ attempts'[i].status = "COMPLETED"
             /\ call'[c].at = "validate" /\ call'[c].stage = n /\ call'[c].attempt = i
    <3>1. attempts[i].verdict = "NONE"
      BY <1>0, <1>2 DEF AnswerInv, VerdictOnCompleted
    <3>2. i = Len(attempts) /\ Len(attempts) \in Nat
      BY <1>0, <1>2 DEF HistInv, StartedBelongs, TypeOK
    <3>3. Last(call[c].attempt, call[c].stage)'
      <4>1. \A j \in OfStage(n) : j <= i
        BY <3>2 DEF OfStage
      <4> QED
        BY <1>0, <2>1, <2>3, <4>1 DEF Last, OfStage
    <3>4. Ready(call[c])'
      BY <1>2, <2>1, <2>3, <3>1, <3>3 DEF Ready
    <3>5. \A d \in Clients \ {c} : call'[d] = Idle
      BY <1>0 DEF OwnInv, OneExecutor, Onward
    <3>6. CallsReady'
      BY <3>4, <3>5 DEF CallsReady, Ready, Idle
    <3>7. VerdictOnCompleted' /\ NoAnswerBoughtTwice'
      BY <2>1, <2>3 DEF AnswerInv, VerdictOnCompleted, NoAnswerBoughtTwice, Kept
    <3> QED
      BY <3>6, <3>7 DEF AnswerInv
  <2> QED
    BY <1>2, <2>2, <2>3
<1> QED
  BY <1>1, <1>2, FinalizeEffect

(* A verdict is the first of its attempt, which is the latest of its stage. *)
LEMMA AnswerValidate ==
  ASSUME TypeInv, OwnInv, AnswerInv, NEW c \in Clients, Validate(c)
  PROVE  AnswerInv'
<1> DEFINE i == call[c].attempt
           n == call[c].stage
<1>0. /\ TypeOK /\ call[c].at = "validate" /\ call[c] # Idle /\ i \in Numbers /\ i \in Nat
      /\ n \in Stages /\ attempts[i].stage = n /\ Onward(c) /\ Touches(i)
      /\ attempts'[i].status = attempts[i].status
  BY ValidateEffect, AttemptAt DEF TypeInv, InHand
<1>1. /\ Kept /\ Numbers' = Numbers /\ \A m \in Stages : OfStage(m)' = OfStage(m)
      /\ \A j \in Numbers : attempts'[j].status = attempts[j].status
      /\ \A j \in Numbers \ {i} : attempts'[j] = attempts[j]
  BY <1>0 DEF Touches, Kept, Numbers, OfStage
<1>2. Last(i, n) /\ attempts[i].status = "COMPLETED"
  BY <1>0 DEF AnswerInv, CallsReady, Ready
<1>3. Ready(call[c])'
  <2>1. CASE /\ attempts'[i].verdict = "ACCEPTED"
             /\ call'[c].at = "accept" /\ call'[c].attempt = i
    BY <1>0, <1>2, <2>1 DEF Ready
  <2>2. CASE /\ attempts'[i].verdict = "RETRYABLE"
             /\ call'[c].at = "next" /\ call'[c].stage = n
    <3>1. i \in OfStage(n)
      BY <1>0 DEF OfStage, Numbers
    <3>2. \A j \in OfStage(n) : j \in Nat
      BY <1>0 DEF OfStage, TypeOK
    <3>3. OfStage(call[c].stage)' = OfStage(n)
      BY <1>0, <1>1, <2>2 DEF OfStage
    <3>4. ASSUME NEW j \in OfStage(n), \A k \in OfStage(n) : k <= j PROVE j = i
      <4>1. i <= j /\ j <= i /\ j \in Nat
        BY <1>2, <3>1, <3>2, <3>4 DEF Last
      <4> QED
        BY <1>0, <4>1
    <3> QED
      BY <1>0, <1>2, <2>2, <3>3, <3>4 DEF Ready, Last
  <2>3. CASE call'[c].at = "stop"
    BY <2>3 DEF Ready
  <2> QED
    BY <2>1, <2>2, <2>3, ValidateEffect
<1>4. \A d \in Clients \ {c} : call'[d] = Idle
  BY <1>0 DEF OwnInv, OneExecutor, Onward
<1>5. CallsReady'
  BY <1>3, <1>4 DEF CallsReady, Ready, Idle
<1>6. VerdictOnCompleted'
  BY <1>1, <1>2 DEF AnswerInv, VerdictOnCompleted
<1>7. ASSUME NEW k \in Numbers, NEW j \in Numbers, k < j,
             attempts'[k].stage = attempts'[j].stage
      PROVE  attempts'[k].status = "ABANDONED" \/ attempts'[k].verdict = "RETRYABLE"
  <2>1. attempts[k].stage = attempts[j].stage
    BY <1>1, <1>7 DEF Kept
  <2>2. k # i
    <3> SUFFICES ASSUME k = i PROVE FALSE
      OBVIOUS
    <3>1. j \in OfStage(n) /\ j \in Nat
      BY <1>0, <2>1 DEF OfStage, Numbers, TypeOK
    <3>2. j <= i
      BY <1>2, <3>1 DEF Last
    <3> QED
      BY <1>0, <1>7, <3>1, <3>2
  <2> QED
    BY <1>1, <1>7, <2>1, <2>2 DEF AnswerInv, NoAnswerBoughtTwice
<1>8. NoAnswerBoughtTwice'
  BY <1>1, <1>7 DEF NoAnswerBoughtTwice
<1> QED
  BY <1>5, <1>6, <1>8 DEF AnswerInv

(* A new call of a stage finds its earlier ones lost or worth a retry.     *)
LEMMA AnswerNewAttempt ==
  ASSUME TypeInv, OwnInv, AnswerInv, NEW c \in Clients, NewAttempt(c)
  PROVE  AnswerInv'
<1> DEFINE n == call[c].stage
           last == Len(attempts) + 1
<1>0. call[c].at = "next" /\ n \in Stages /\ ~Unvalidated(n) /\ Onward(c)
  BY NewAttemptEffect, Zenon
<1>1. TypeOK /\ call[c] # Idle /\ Len(attempts) \in Nat
  BY <1>0 DEF TypeInv, Idle, TypeOK
<1>2. CASE UNCHANGED attempts /\ call'[c].at \in {"idle", "stop"}
  <2>1. Ready(call'[c])
    BY <1>2 DEF Ready
  <2> QED
    BY <1>0, <1>2, <2>1, AnswerOnward
<1>3. CASE /\ call'[c].at = "reserve"
           /\ attempts' \in Seq(Attempt) /\ Len(attempts') = last
           /\ \A j \in Numbers : attempts'[j] = attempts[j]
           /\ attempts'[last].stage = n /\ attempts'[last].verdict = "NONE"
  <2>1. Numbers' = Numbers \cup {last} /\ last \notin Numbers
    BY <1>1, <1>3 DEF Numbers
  <2>2. \A d \in Clients \ {c} : call'[d] = Idle
    BY <1>0, <1>1 DEF OwnInv, OneExecutor, Onward
  <2>3. CallsReady'
    BY <1>3, <2>2 DEF CallsReady, Ready, Idle
  <2>4. VerdictOnCompleted'
    BY <1>3, <2>1 DEF AnswerInv, VerdictOnCompleted
  <2>5. ASSUME NEW i \in OfStage(n)
        PROVE  attempts[i].status = "ABANDONED" \/ attempts[i].verdict = "RETRYABLE"
    <3>1. /\ Parent(n) \in OfStage(n) /\ Parent(n) \in Numbers /\ Parent(n) \in Nat
          /\ attempts[Parent(n)].stage = n /\ Last(Parent(n), n) /\ OfStage(n) # {}
      BY <1>0, <1>1, ParentIs DEF Last
    <3>2. i \in Numbers /\ i \in Nat /\ attempts[i].stage = n /\ i <= Parent(n)
      BY <3>1 DEF OfStage, Numbers, Last
    <3>3. CASE i < Parent(n)
      BY <3>1, <3>2, <3>3 DEF AnswerInv, NoAnswerBoughtTwice
    <3>4. CASE i = Parent(n)
      <4>1. \/ attempts[i].status = "ABANDONED"
            \/ attempts[i].status = "COMPLETED" /\ attempts[i].verdict \in {"NONE", "RETRYABLE"}
        BY <1>0, <3>1, <3>4 DEF AnswerInv, CallsReady, Ready
      <4> QED
        BY <1>0, <3>1, <3>4, <4>1 DEF Unvalidated
    <3> QED
      BY <3>1, <3>2, <3>3, <3>4
  <2>6. ASSUME NEW k \in Numbers', NEW j \in Numbers', k < j,
               attempts'[k].stage = attempts'[j].stage
        PROVE  attempts'[k].status = "ABANDONED" \/ attempts'[k].verdict = "RETRYABLE"
    <3>1. k \in Numbers
      BY <1>1, <2>1, <2>6 DEF Numbers
    <3>2. CASE j \in Numbers
      BY <1>3, <2>6, <3>1, <3>2 DEF AnswerInv, NoAnswerBoughtTwice
    <3>3. CASE j = last
      <4>1. k \in OfStage(n)
        BY <1>3, <2>6, <3>1, <3>3 DEF OfStage, Numbers
      <4> QED
        BY <1>3, <2>5, <3>1, <4>1
    <3> QED
      BY <2>1, <3>2, <3>3
  <2>7. NoAnswerBoughtTwice'
    BY <2>6 DEF NoAnswerBoughtTwice
  <2> QED
    BY <2>3, <2>4, <2>7 DEF AnswerInv
<1>4. \/ UNCHANGED attempts /\ (call'[c] = Idle \/ call'[c].at = "stop")
      \/ /\ call'[c].at = "reserve"
         /\ attempts' \in Seq(Attempt) /\ Len(attempts') = last
         /\ \A j \in Numbers : attempts'[j] = attempts[j]
         /\ attempts'[last] =
              [stage |-> call[c].stage, epoch |-> call[c].key, status |-> "STARTED",
               bound |-> FALSE, bill |-> 0, verdict |-> "NONE"]
  BY NewAttemptEffect, Zenon
<1> QED
  BY <1>2, <1>3, <1>4 DEF Idle

(* Every step keeps the answers ready for what is done with them.          *)
LEMMA AnswerStep ==
  TypeInv /\ OwnInv /\ HistInv /\ AnswerInv /\ [Next]_vars => AnswerInv'
<1> SUFFICES ASSUME TypeInv, OwnInv, HistInv, AnswerInv, [Next]_vars PROVE AnswerInv'
  OBVIOUS
<1>0. TypeOK
  BY DEF TypeInv
<1>1. ASSUME NEW c \in Clients, Onward(c), UNCHANGED attempts,
             call'[c].at \notin {"next", "validate", "accept"}
      PROVE  AnswerInv'
  <2>1. Ready(call'[c])
    BY <1>1 DEF Ready
  <2> QED
    BY <1>1, <2>1, AnswerOnward
<1>2. ASSUME NEW c \in Clients, Fail(c) \/ Start(c) \/ GiveUp(c) \/ Die(c) \/ Release(c)
      PROVE  AnswerInv'
  <2>1. CASE Fail(c) \/ Start(c) \/ GiveUp(c)
    <3>1. Moves(c) /\ call'[c].at \notin {"next", "validate", "accept"}
      BY <2>1, FailMoves, StartMoves, GiveUpMoves
    <3>2. Onward(c) /\ UNCHANGED attempts
      BY <1>0, <3>1, OnwardBy DEF Moves
    <3> QED
      BY <1>1, <3>1, <3>2
  <2>2. CASE Die(c) \/ Release(c)
    <3>1. CASE Die(c)
      BY <1>1, <3>1, DieEffect DEF Idle
    <3>2. CASE Release(c)
      <4>1. Onward(c) /\ UNCHANGED attempts /\ call'[c] = Idle
        BY <3>2, ReleaseStep
      <4> QED
        BY <1>1, <4>1 DEF Idle
    <3> QED
      BY <2>2, <3>1, <3>2
  <2> QED
    BY <1>2, <2>1, <2>2
<1>3. ASSUME NEW c \in Clients, Revalidate(c) PROVE AnswerInv'
  <2>1. Onward(c) /\ UNCHANGED attempts
    BY <1>0, <1>3, RevalidateMoves, OnwardBy DEF Moves
  <2>2. Ready(call'[c])
    BY <1>3, RevalidateMoves DEF Ready, Last
  <2> QED
    BY <2>1, <2>2, AnswerOnward
<1>4. ASSUME AbandonStarted,
             \A d \in Clients : call'[d] = call[d] \/ call'[d] = Idle
      PROVE  AnswerInv'
  <2>1. \A i \in Numbers : attempts[i] \in Attempt
    BY <1>0 DEF TypeOK, Numbers
  <2>2. Kept /\ \A i \in Numbers : attempts'[i] = Abandoned(attempts[i])
    BY <1>0, <1>4, AbandonEffect, KeptAbandon
  <2>3. \A i \in Numbers :
          /\ attempts'[i].verdict = attempts[i].verdict
          /\ attempts[i].status # "STARTED" => attempts'[i].status = attempts[i].status
    BY <2>1, <2>2, AbandonedType
  <2>4. \A d \in Clients :
          call'[d] = call[d] \/ call'[d].at \notin {"next", "validate", "accept"}
    BY <1>4 DEF Idle
  <2> QED
    BY <2>2, <2>3, <2>4, AnswerKept
<1>5. ASSUME NEW c \in Clients, Stop(c) \/ Refuse(c) PROVE AnswerInv'
  <2>1. /\ Onward(c) /\ call'[c] = Idle
        /\ UNCHANGED attempts \/ AbandonStarted
    BY <1>5, StopEffect, RefuseEffect
  <2>2. CASE UNCHANGED attempts
    BY <1>1, <2>1, <2>2 DEF Idle
  <2>3. CASE AbandonStarted
    BY <1>4, <2>1, <2>3 DEF Onward
  <2> QED
    BY <2>1, <2>2, <2>3
<1>6. CASE Cancel
  BY <1>4, <1>6, CancelEffect
<1>7. ASSUME NEW c \in Clients, Reserve(c) \/ Send(c) PROVE AnswerInv'
  <2>1. CASE Reserve(c) /\ UNCHANGED attempts /\ call'[c].at = "stop"
    BY <1>1, <2>1, ReserveEffect
  <2>2. CASE /\ call[c].at \in InHand /\ Onward(c) /\ Touches(call[c].attempt)
             /\ attempts'[call[c].attempt].status = attempts[call[c].attempt].status
             /\ attempts'[call[c].attempt].verdict = attempts[call[c].attempt].verdict
             /\ call'[c].at \in {"send", "finalize"}
    <3>1. call[c].attempt \in Numbers
      BY <2>2, AttemptAt
    <3>2. /\ Kept
          /\ \A j \in Numbers : attempts'[j].verdict = attempts[j].verdict
          /\ \A j \in Numbers : attempts'[j].status = attempts[j].status
      BY <2>2, <3>1 DEF Touches
    <3>3. \A d \in Clients :
            call'[d] = call[d] \/ call'[d].at \notin {"next", "validate", "accept"}
      BY <2>2 DEF Onward
    <3> QED
      BY <3>2, <3>3, AnswerKept
  <2> QED
    BY <1>7, <2>1, <2>2, ReserveEffect, SendEffect DEF InHand
<1>8. ASSUME NEW c \in Clients, Accept(c) \/ Gate(c) PROVE AnswerInv'
  <2>1. /\ Onward(c) /\ UNCHANGED attempts
        /\ call'[c] = Idle \/ call'[c].at \in {"stop", "gate", "enter"}
    BY <1>8, AcceptEffect, GateEffect
  <2> QED
    BY <1>1, <2>1 DEF Idle
<1>9. ASSUME NEW c \in Clients, NEW k \in Keys, NEW intent \in Intent, Claim(c, k, intent)
      PROVE  AnswerInv'
  <2>1. /\ UNCHANGED attempts /\ call'[c].at = "start"
        /\ \A d \in Clients \ {c} : call'[d] = call[d]
    BY <1>9, ClaimEffect
  <2>2. \A d \in Clients :
          call'[d] = call[d] \/ call'[d].at \notin {"next", "validate", "accept"}
    BY <2>1
  <2> QED
    BY <1>0, <2>1, <2>2, KeptSame, AnswerKept
<1>10. CASE Restart
  <2>1. /\ Kept /\ \A d \in Clients : call'[d].at \notin {"next", "validate", "accept"}
        /\ \/ UNCHANGED attempts
           \/ \A i \in Numbers : attempts'[i] = AbandonedAtRestart(attempts[i])
    BY <1>10, RestartKept DEF Idle
  <2>2. \A i \in Numbers : attempts[i] \in Attempt
    BY <1>0 DEF TypeOK, Numbers
  <2>3. \A i \in Numbers :
          /\ attempts'[i].verdict = attempts[i].verdict
          /\ attempts[i].status # "STARTED" => attempts'[i].status = attempts[i].status
    BY <2>1, <2>2, AbandonedType
  <2> QED
    BY <2>1, <2>3, AnswerKept
<1>11. CASE UNCHANGED vars
  BY <1>0, <1>11, KeptSame, AnswerKept DEF vars
<1> QED
  BY <1>2, <1>3, <1>5, <1>6, <1>7, <1>8, <1>9, <1>10, <1>11,
     AnswerEnter, AnswerFinalize, AnswerValidate, AnswerNewAttempt
  DEF Next, Progress

(* The inductive invariant of the answers.                                 *)
THEOREM AnswerInvariant == Spec => [](TypeInv /\ OwnInv /\ HistInv /\ AnswerInv)
<1>1. Init => AnswerInv
  BY AnswerInit
<1>2. (TypeInv /\ OwnInv /\ HistInv) /\ AnswerInv /\ [Next]_vars => AnswerInv'
  BY AnswerStep
<1> QED
  BY <1>1, <1>2, HistoryInvariant, PTL DEF Spec

(* Wherever an execution is interrupted, the answer it bought is used or   *)
(* is not worth using before the provider is called again.                 *)
THEOREM AnswersBoughtOnce == Spec => []NoAnswerBoughtTwice
<1>1. AnswerInv => NoAnswerBoughtTwice
  BY DEF AnswerInv
<1> QED
  BY <1>1, AnswerInvariant, PTL

-----------------------------------------------------------------------------
(***************************************************************************)
(* The order of the stages.  Every step beyond the first needs the gate    *)
(* frozen with the request, and every step of the second stage a diagnosis *)
(* that is accepted and let the gate between the stages pass.              *)
(***************************************************************************)
Staged == {"enter", "next"} \cup InHand

Entitled(x) ==
  /\ x.at \notin {"idle", "start", "stop"} => preflight = "PROCEED"
  /\ x.at = "gate" => accepted[1] # 0
  /\ x.at \in Staged /\ x.stage = 2 => accepted[1] # 0 /\ gate = "PROCEED"

StageInv ==
  /\ Numbers # {} => preflight = "PROCEED"
  /\ \A c \in Clients : Entitled(call[c])
  /\ StagesInOrder

(* A run that was created is in no stage.                                  *)
LEMMA StageInit == Init => StageInv
<1> SUFFICES ASSUME Init PROVE StageInv
  OBVIOUS
<1>1. Numbers = {} /\ \A n \in Stages : OfStage(n) = {} /\ accepted[n] = 0
  BY DEF Init, Numbers, OfStage
<1>2. 2 \in Stages
  BY DEF Stages
<1>3. \A c \in Clients : Entitled(call[c])
  BY DEF Init, Entitled, Idle, Staged, InHand
<1> QED
  BY <1>1, <1>2, <1>3 DEF StageInv, StagesInOrder

(* Steps that keep the attempts, what was accepted and what the gates say. *)
LEMMA StageKept ==
  ASSUME TypeInv, StageInv, Kept, UNCHANGED resultVars,
         \A i \in Numbers : attempts[i].status = "COMPLETED" /\ attempts[i].verdict = "ACCEPTED"
           => attempts'[i].status = "COMPLETED" /\ attempts'[i].verdict = "ACCEPTED",
         \A d \in Clients : call'[d] = call[d] \/ Entitled(call'[d])
  PROVE  StageInv'
<1>1. /\ Numbers' = Numbers /\ \A n \in Stages : OfStage(n)' = OfStage(n)
      /\ UNCHANGED <<accepted, gate, preflight>> /\ 2 \in Stages
      /\ \A n \in Stages : OfStage(n) \in SUBSET Numbers
  BY DEF Kept, Numbers, OfStage, resultVars, Stages
<1>2. \A c \in Clients : Entitled(call[c])'
  BY <1>1 DEF StageInv, Entitled
<1>3. StagesInOrder'
  BY <1>1 DEF StageInv, StagesInOrder
<1> QED
  BY <1>1, <1>2, <1>3 DEF StageInv

(* A thread that goes on to something it is entitled to.                   *)
LEMMA StageOnward ==
  ASSUME TypeInv, StageInv, NEW c \in Clients, Onward(c), Entitled(call'[c]),
         UNCHANGED <<resultVars, attempts>>
  PROVE  StageInv'
BY KeptSame, StageKept DEF Onward, TypeInv

(* The step after another one of the same stage.                           *)
LEMMA EntitledNext ==
  ASSUME StageInv, NEW c \in Clients, call[c].at \in Staged,
         \/ call'[c].at \in Staged /\ call'[c].stage = call[c].stage
         \/ call'[c].at \in {"idle", "stop", "release"}
  PROVE  Entitled(call'[c])
<1>1. Entitled(call[c]) /\ call[c].at \notin {"idle", "start", "stop"}
  BY DEF StageInv, Staged, InHand
<1>2. preflight = "PROCEED"
  BY <1>1 DEF Entitled
<1> QED
  BY <1>1, <1>2 DEF Entitled, Staged, InHand

(* What is accepted was validated, and opens the gate of its stage.        *)
LEMMA StageAccept ==
  ASSUME TypeInv, AnswerInv, StageInv, NEW c \in Clients, Accept(c)
  PROVE  StageInv'
<1> DEFINE i == call[c].attempt
           n == call[c].stage
<1>0. /\ call[c].at = "accept" /\ n \in Stages /\ Onward(c)
      /\ UNCHANGED <<gate, preflight, attempts>>
      /\ i \in Numbers /\ i \in Nat /\ attempts[i].stage = n
  BY AcceptEffect, AttemptAt DEF InHand
<1>1. i # 0 /\ i \in OfStage(n)
  BY <1>0 DEF Numbers, OfStage
<1>2. attempts[i].status = "COMPLETED" /\ attempts[i].verdict = "ACCEPTED"
  BY <1>0 DEF AnswerInv, CallsReady, Ready
<1>3. preflight = "PROCEED"
  BY <1>0 DEF StageInv, Entitled
<1>4. CASE UNCHANGED accepted /\ call'[c].at = "stop"
  <2>1. Entitled(call'[c])
    BY <1>4 DEF Entitled, Staged, InHand
  <2> QED
    BY <1>0, <1>4, <2>1, StageOnward DEF resultVars
<1>5. CASE /\ accepted' = [accepted EXCEPT ![n] = i]
           /\ \/ call'[c].at = "gate" /\ n = 1
              \/ call'[c].at = "stop"
  <2>1. \A m \in Stages : accepted'[m] = IF m = n THEN i ELSE accepted[m]
    BY <1>0, <1>5 DEF TypeInv, TypeOK
  <2>2. accepted[1] # 0 => accepted'[1] # 0
    BY <1>1, <2>1 DEF Stages
  <2>3. \A d \in Clients \ {c} : Entitled(call[d])'
    BY <1>0, <2>2 DEF StageInv, Entitled, Onward
  <2>4. Entitled(call[c])'
    BY <1>0, <1>1, <1>3, <1>5, <2>1 DEF Entitled, Staged, InHand, Stages
  <2>5. StagesInOrder'
    <3>1. OfStage(2)' # {} => accepted'[1] # 0 /\ gate' = "PROCEED"
      BY <1>0, <2>2 DEF StageInv, StagesInOrder, OfStage
    <3>2. ASSUME NEW m \in Stages, accepted'[m] # 0
          PROVE  /\ accepted'[m] \in OfStage(m)'
                 /\ attempts'[accepted'[m]].status = "COMPLETED"
                 /\ attempts'[accepted'[m]].verdict = "ACCEPTED"
      <4>1. OfStage(m)' = OfStage(m)
        BY <1>0 DEF OfStage
      <4>2. CASE m = n
        BY <1>0, <1>1, <1>2, <2>1, <4>1, <4>2
      <4>3. CASE m # n
        BY <1>0, <2>1, <3>2, <4>1, <4>3 DEF StageInv, StagesInOrder
      <4> QED
        BY <4>2, <4>3
    <3> QED
      BY <3>1, <3>2 DEF StagesInOrder
  <2>6. (Numbers # {} => preflight = "PROCEED")'
    BY <1>0, <1>3
  <2> QED
    BY <2>3, <2>4, <2>5, <2>6 DEF StageInv
<1> QED
  BY <1>4, <1>5, AcceptEffect

(* A gate that let the run pass is not decided again.                      *)
LEMMA StageGate ==
  ASSUME TypeInv, StageInv, NEW c \in Clients, Gate(c)
  PROVE  StageInv'
<1>0. /\ call[c].at = "gate" /\ Onward(c) /\ UNCHANGED <<accepted, preflight, attempts>>
      /\ gate = "PROCEED" => gate' = "PROCEED"
      /\ \/ call'[c].at \in {"idle", "stop"}
         \/ call'[c].at = "enter" /\ call'[c].stage = 2 /\ gate' = "PROCEED"
  BY GateEffect DEF Idle
<1>1. accepted[1] # 0 /\ preflight = "PROCEED"
  BY <1>0 DEF StageInv, Entitled
<1>2. \A d \in Clients \ {c} : Entitled(call[d])'
  BY <1>0 DEF StageInv, Entitled, Onward
<1>3. Entitled(call[c])'
  BY <1>0, <1>1 DEF Entitled, Staged, InHand
<1>4. StagesInOrder'
  BY <1>0 DEF StageInv, StagesInOrder, OfStage
<1>5. (Numbers # {} => preflight = "PROCEED")'
  BY <1>0, <1>1
<1> QED
  BY <1>2, <1>3, <1>4, <1>5 DEF StageInv

(* The gate frozen with the request refuses before anything is called.     *)
LEMMA StageRefuse ==
  ASSUME TypeInv, OwnInv, StageInv, NEW c \in Clients, Refuse(c)
  PROVE  StageInv'
<1>0. /\ call[c] # Idle /\ preflight # "PROCEED" /\ UNCHANGED <<accepted, preflight>>
      /\ Onward(c) /\ call'[c] = Idle
      /\ UNCHANGED attempts \/ Kept
  BY RefuseEffect
<1>1. Kept
  BY <1>0, KeptSame DEF TypeInv
<1>2. Numbers = {} /\ Numbers' = {}
  BY <1>0, <1>1 DEF StageInv, Kept, Numbers
<1>3. \A n \in Stages : OfStage(n) = {} /\ OfStage(n)' = {}
  BY <1>2 DEF OfStage, Numbers
<1>4. 2 \in Stages /\ \A n \in Stages : accepted'[n] = 0
  BY <1>0, <1>3 DEF StageInv, StagesInOrder, Stages
<1>5. \A d \in Clients : call'[d] = Idle
  BY <1>0 DEF OwnInv, OneExecutor, Onward
<1>6. \A d \in Clients : Entitled(call[d])'
  BY <1>5 DEF Entitled, Idle, Staged, InHand
<1>7. StagesInOrder'
  BY <1>0, <1>3, <1>4 DEF StagesInOrder
<1> QED
  BY <1>2, <1>6, <1>7 DEF StageInv

(* A call of the second stage is made by a thread that is entitled to it.  *)
LEMMA StageNewAttempt ==
  ASSUME TypeInv, StageInv, NEW c \in Clients, NewAttempt(c)
  PROVE  StageInv'
<1> DEFINE n == call[c].stage
           last == Len(attempts) + 1
<1>0. /\ call[c].at = "next" /\ n \in Stages /\ Onward(c)
      /\ UNCHANGED <<runVars, resultVars, crashes>>
  BY NewAttemptEffect, Zenon
<1>1. Entitled(call[c]) /\ preflight = "PROCEED" /\ call[c].at \in Staged
  BY <1>0 DEF StageInv, Entitled, Staged
<1>2. CASE UNCHANGED attempts /\ call'[c].at \in {"idle", "stop"}
  <2>1. Entitled(call'[c])
    BY <1>1, <1>2, EntitledNext
  <2> QED
    BY <1>0, <1>2, <2>1, StageOnward
<1>3. CASE /\ call'[c].at = "reserve" /\ call'[c].stage = n
           /\ attempts' \in Seq(Attempt) /\ Len(attempts') = last
           /\ \A j \in Numbers : attempts'[j] = attempts[j]
           /\ attempts'[last].stage = n
  <2>1. Numbers' = Numbers \cup {last} /\ last \notin Numbers
    BY <1>3 DEF Numbers, TypeInv, TypeOK
  <2>2. Entitled(call'[c])
    BY <1>1, <1>3, EntitledNext DEF Staged, InHand
  <2>3. UNCHANGED <<accepted, gate, preflight>>
    BY <1>0 DEF resultVars
  <2>4. \A d \in Clients : Entitled(call[d])'
    BY <1>0, <2>2, <2>3 DEF StageInv, Entitled, Onward
  <2>5. \A m \in Stages : OfStage(m)' = OfStage(m) \cup (IF m = n THEN {last} ELSE {})
    <3>1. \A m \in Stages : OfStage(m)' = {j \in Numbers' : attempts'[j].stage = m}
      BY DEF OfStage, Numbers
    <3>2. \A m \in Stages : OfStage(m) = {j \in Numbers : attempts[j].stage = m}
      BY DEF OfStage, Numbers
    <3> QED
      BY <1>3, <2>1, <3>1, <3>2
  <2>6. StagesInOrder'
    <3>1. OfStage(2)' # {} => accepted'[1] # 0 /\ gate' = "PROCEED"
      BY <1>1, <2>3, <2>5 DEF StageInv, StagesInOrder, Entitled, Stages
    <3>2. ASSUME NEW m \in Stages, accepted'[m] # 0
          PROVE  /\ accepted'[m] \in OfStage(m)'
                 /\ attempts'[accepted'[m]].status = "COMPLETED"
                 /\ attempts'[accepted'[m]].verdict = "ACCEPTED"
      <4>1. /\ accepted[m] \in OfStage(m)
            /\ attempts[accepted[m]].status = "COMPLETED"
            /\ attempts[accepted[m]].verdict = "ACCEPTED"
        BY <2>3, <3>2 DEF StageInv, StagesInOrder
      <4>2. accepted[m] \in Numbers
        BY <4>1 DEF OfStage, Numbers
      <4> QED
        BY <1>3, <2>3, <2>5, <4>1, <4>2
    <3> QED
      BY <3>1, <3>2 DEF StagesInOrder
  <2>7. (Numbers # {} => preflight = "PROCEED")'
    BY <1>1, <2>3
  <2> QED
    BY <2>4, <2>6, <2>7 DEF StageInv
<1>4. \/ UNCHANGED attempts /\ (call'[c] = Idle \/ call'[c].at = "stop")
      \/ /\ call'[c].at = "reserve" /\ call'[c].stage = call[c].stage
         /\ attempts' \in Seq(Attempt) /\ Len(attempts') = last
         /\ \A j \in Numbers : attempts'[j] = attempts[j]
         /\ attempts'[last] =
              [stage |-> call[c].stage, epoch |-> call[c].key, status |-> "STARTED",
               bound |-> FALSE, bill |-> 0, verdict |-> "NONE"]
  BY NewAttemptEffect, Zenon
<1> QED
  BY <1>2, <1>3, <1>4 DEF Idle

(* Every step keeps the stages in their order.                             *)
LEMMA StageStep ==
  TypeInv /\ OwnInv /\ AnswerInv /\ StageInv /\ [Next]_vars => StageInv'
<1> SUFFICES ASSUME TypeInv, OwnInv, AnswerInv, StageInv, [Next]_vars PROVE StageInv'
  OBVIOUS
<1>0. TypeOK
  BY DEF TypeInv
<1>1. ASSUME NEW c \in Clients, Moves(c), Entitled(call'[c]) PROVE StageInv'
  <2>1. Onward(c) /\ UNCHANGED <<resultVars, attempts>>
    BY <1>0, <1>1, OnwardBy DEF Moves
  <2> QED
    BY <1>1, <2>1, StageOnward
<1>2. ASSUME NEW c \in Clients, call'[c].at \in {"idle", "start", "stop"}
      PROVE  Entitled(call'[c])
  BY <1>2 DEF Entitled, Staged, InHand
<1>3. ASSUME NEW c \in Clients, Fail(c) \/ Start(c) PROVE StageInv'
  <2>1. CASE Fail(c)
    BY <1>1, <1>2, <2>1, FailMoves
  <2>2. CASE Start(c)
    <3>1. /\ Moves(c) /\ preflight = "PROCEED"
          /\ \/ call'[c].at = "enter" /\ call'[c].stage = 1
             \/ call'[c].at = "gate" /\ accepted[1] # 0
      BY <2>2, StartMoves
    <3>2. Entitled(call'[c])
      BY <3>1 DEF Entitled, Staged, InHand
    <3> QED
      BY <1>1, <3>1, <3>2
  <2> QED
    BY <1>3, <2>1, <2>2
<1>4. ASSUME NEW c \in Clients, Enter(c) \/ Revalidate(c) \/ GiveUp(c) PROVE StageInv'
  <2>1. /\ Moves(c) /\ call[c].at \in {"enter", "next"}
        /\ \/ /\ call'[c].at \in {"accept", "next", "validate"}
              /\ call'[c].stage = call[c].stage
           \/ call'[c].at \in {"idle", "stop"}
    BY <1>4, EnterMoves, RevalidateMoves, GiveUpMoves DEF Idle
  <2>2. Entitled(call'[c])
    BY <2>1, EntitledNext DEF Staged, InHand
  <2> QED
    BY <1>1, <2>1, <2>2
<1>5. ASSUME AbandonStarted, UNCHANGED resultVars,
             \A d \in Clients : call'[d] = call[d] \/ Entitled(call'[d])
      PROVE  StageInv'
  <2>1. \A i \in Numbers : attempts[i] \in Attempt
    BY <1>0 DEF TypeOK, Numbers
  <2>2. Kept /\ \A i \in Numbers : attempts'[i] = Abandoned(attempts[i])
    BY <1>0, <1>5, AbandonEffect, KeptAbandon
  <2>3. \A i \in Numbers :
          /\ attempts'[i].verdict = attempts[i].verdict
          /\ attempts[i].status = "COMPLETED" => attempts'[i].status = "COMPLETED"
    BY <2>1, <2>2, AbandonedType
  <2> QED
    BY <1>5, <2>2, <2>3, StageKept
<1>6. ASSUME NEW c \in Clients, Stop(c) PROVE StageInv'
  <2>1. /\ Onward(c) /\ call'[c] = Idle /\ UNCHANGED resultVars
        /\ UNCHANGED attempts \/ AbandonStarted
    BY <1>6, StopEffect
  <2>2. Entitled(call'[c])
    BY <1>2, <2>1 DEF Idle
  <2>3. CASE UNCHANGED attempts
    BY <2>1, <2>2, <2>3, StageOnward
  <2>4. CASE AbandonStarted
    BY <1>5, <2>1, <2>2, <2>4 DEF Onward
  <2> QED
    BY <2>1, <2>3, <2>4
<1>7. CASE Cancel
  BY <1>5, <1>7, CancelEffect
<1>8. ASSUME NEW c \in Clients, Die(c) \/ Release(c) PROVE StageInv'
  <2>1. Onward(c) /\ call'[c] = Idle /\ UNCHANGED <<resultVars, attempts>>
    <3>1. CASE Die(c)
      BY <3>1, DieEffect
    <3>2. CASE Release(c)
      BY <3>2, ReleaseStep
    <3> QED
      BY <1>8, <3>1, <3>2
  <2>2. Entitled(call'[c])
    BY <1>2, <2>1 DEF Idle
  <2> QED
    BY <2>1, <2>2, StageOnward
<1>9. ASSUME NEW c \in Clients,
             Reserve(c) \/ Send(c) \/ Finalize(c) \/ Validate(c)
      PROVE  StageInv'
  <2>1. /\ call[c].at \in InHand /\ Onward(c) /\ UNCHANGED resultVars
        /\ \/ /\ call'[c].at \in Staged /\ call'[c].stage = call[c].stage
           \/ call'[c].at \in {"stop", "release"}
        /\ \/ UNCHANGED attempts
           \/ /\ Touches(call[c].attempt)
              /\ \/ attempts[call[c].attempt].status = "STARTED"
                 \/ attempts[call[c].attempt].verdict = "NONE"
                 \/ /\ attempts'[call[c].attempt].status = attempts[call[c].attempt].status
                    /\ attempts'[call[c].attempt].verdict = attempts[call[c].attempt].verdict
    <3>1. CASE Reserve(c)
      BY <3>1, ReserveEffect DEF Staged, InHand
    <3>2. CASE Send(c)
      BY <3>2, SendEffect DEF Staged, InHand
    <3>3. CASE Finalize(c)
      BY <3>3, FinalizeEffect DEF Staged, InHand
    <3>4. CASE Validate(c)
      <4>1. call[c].at = "validate"
        BY <3>4, ValidateEffect
      <4>2. attempts[call[c].attempt].verdict = "NONE"
        BY <4>1 DEF AnswerInv, CallsReady, Ready
      <4> QED
        BY <3>4, <4>2, ValidateEffect DEF Staged, InHand
    <3> QED
      BY <1>9, <3>1, <3>2, <3>3, <3>4
  <2>2. Entitled(call'[c]) /\ call[c].attempt \in Numbers
    BY <2>1, EntitledNext, AttemptAt DEF Staged
  <2>3. /\ Kept
        /\ \A i \in Numbers : attempts[i].status = "COMPLETED" /\ attempts[i].verdict = "ACCEPTED"
             => attempts'[i].status = "COMPLETED" /\ attempts'[i].verdict = "ACCEPTED"
    BY <1>0, <2>1, <2>2, KeptSame DEF Touches
  <2>4. \A d \in Clients : call'[d] = call[d] \/ Entitled(call'[d])
    BY <2>1, <2>2 DEF Onward
  <2> QED
    BY <2>1, <2>3, <2>4, StageKept
<1>10. ASSUME NEW c \in Clients, NEW k \in Keys, NEW intent \in Intent, Claim(c, k, intent)
       PROVE  StageInv'
  <2>1. /\ UNCHANGED <<resultVars, attempts>> /\ call'[c].at = "start"
        /\ \A d \in Clients \ {c} : call'[d] = call[d]
    BY <1>10, ClaimEffect
  <2>2. \A d \in Clients : call'[d] = call[d] \/ Entitled(call'[d])
    BY <1>2, <2>1
  <2> QED
    BY <1>0, <2>1, <2>2, KeptSame, StageKept
<1>11. CASE Restart
  <2>1. /\ Kept /\ UNCHANGED resultVars /\ \A d \in Clients : call'[d].at = "idle"
        /\ \/ UNCHANGED attempts
           \/ \A i \in Numbers : attempts'[i] = AbandonedAtRestart(attempts[i])
    BY <1>11, RestartKept DEF Idle
  <2>2. \A i \in Numbers : attempts[i] \in Attempt
    BY <1>0 DEF TypeOK, Numbers
  <2>3. \A i \in Numbers :
          /\ attempts'[i].verdict = attempts[i].verdict
          /\ attempts[i].status = "COMPLETED" => attempts'[i].status = "COMPLETED"
    BY <2>1, <2>2, AbandonedType
  <2>4. \A d \in Clients : Entitled(call'[d])
    BY <1>2, <2>1
  <2> QED
    BY <2>1, <2>3, <2>4, StageKept
<1>12. CASE UNCHANGED vars
  BY <1>0, <1>12, KeptSame, StageKept DEF vars
<1> QED
  BY <1>3, <1>4, <1>6, <1>7, <1>8, <1>9, <1>10, <1>11, <1>12,
     StageAccept, StageGate, StageRefuse, StageNewAttempt
  DEF Next, Progress

(* The inductive invariant of the stages.                                  *)
THEOREM StageInvariant == Spec => [](TypeInv /\ OwnInv /\ AnswerInv /\ StageInv)
<1>1. Init => StageInv
  BY StageInit
<1>2. (TypeInv /\ OwnInv /\ AnswerInv) /\ StageInv /\ [Next]_vars => StageInv'
  BY StageStep
<1> QED
  BY <1>1, <1>2, AnswerInvariant, PTL DEF Spec

(* Nothing is recommended without an accepted diagnosis that let the gate  *)
(* pass, and nothing is accepted but the validated answer of a call.       *)
THEOREM StagesKeepTheirOrder == Spec => []StagesInOrder
<1>1. StageInv => StagesInOrder
  BY DEF StageInv
<1> QED
  BY <1>1, StageInvariant, PTL

-----------------------------------------------------------------------------
(***************************************************************************)
(* A run that has ended.                                                   *)
(***************************************************************************)

SettledKept ==
  /\ Bound' = Bound
  /\ \A i \in Numbers : attempts'[i].status = attempts[i].status
LeftAlone == status' = status /\ accepted' = accepted /\ SettledKept

(* A thread that does not know that its run has ended neither binds        *)
(* another call nor accepts a result, nor settles a call.                  *)
LEMMA EndedStep ==
  TypeInv /\ OwnInv /\ [Next]_vars /\ status \in Terminal => LeftAlone
<1> SUFFICES ASSUME TypeInv, OwnInv, [Next]_vars, status \in Terminal
             PROVE  LeftAlone
  OBVIOUS
<1>0. TypeOK /\ \A c \in Clients : ~Owned(c)
  BY DEF TypeInv, Owned
<1>1. active = None /\ \A i \in Numbers : attempts[i].status # "STARTED"
  BY DEF OwnInv, EndedIsClosed
<1>2. ASSUME Kept, \A i \in Numbers : /\ attempts'[i].bound = attempts[i].bound
                                       /\ attempts'[i].status = attempts[i].status
      PROVE  SettledKept
  BY <1>2 DEF SettledKept, Bound, Kept, Numbers
<1>3. ASSUME UNCHANGED attempts PROVE SettledKept
  BY <1>3 DEF SettledKept, Bound
<1>4. ASSUME NEW c \in Clients,
             \/ Fail(c) \/ Start(c) \/ Enter(c) \/ Revalidate(c) \/ GiveUp(c)
      PROVE  LeftAlone
  BY <1>3, <1>4, FailMoves, StartMoves, EnterMoves, RevalidateMoves, GiveUpMoves
  DEF Moves, runVars, resultVars, LeftAlone
<1>5. ASSUME NEW c \in Clients,
             Stop(c) \/ Refuse(c) \/ Die(c) \/ Release(c) \/ Accept(c) \/ Gate(c)
      PROVE  LeftAlone
  <2>1. CASE Stop(c) \/ Refuse(c)
    BY <1>0, <1>3, <2>1, StopEffect, RefuseEffect DEF runVars, resultVars, LeftAlone
  <2>2. CASE Die(c)
    BY <1>3, <2>2, DieEffect DEF resultVars, LeftAlone
  <2>3. CASE Release(c)
    <3>1. UNCHANGED <<status, resultVars, attempts>>
      BY <2>3, ReleaseStep
    <3> QED
      BY <1>3, <3>1 DEF resultVars, LeftAlone
  <2>4. CASE Accept(c) \/ Gate(c)
    BY <1>0, <1>3, <2>4, AcceptEffect, GateEffect DEF runVars, LeftAlone
  <2> QED
    BY <1>5, <2>1, <2>2, <2>3, <2>4
<1>6. ASSUME NEW c \in Clients, NewAttempt(c) \/ Reserve(c)
      PROVE  LeftAlone
  <2>1. UNCHANGED <<runVars, resultVars, attempts>>
    <3>1. CASE NewAttempt(c)
      BY <1>0, <3>1 DEF NewAttempt
    <3>2. CASE Reserve(c)
      BY <1>0, <3>2, ReserveEffect
    <3> QED
      BY <1>6, <3>1, <3>2
  <2> QED
    BY <1>3, <2>1 DEF runVars, resultVars, LeftAlone
<1>7. ASSUME NEW c \in Clients, Send(c) \/ Finalize(c) \/ Validate(c)
      PROVE  LeftAlone
  <2>1. /\ call[c].at \in InHand /\ UNCHANGED <<runVars, resultVars>>
        /\ \/ UNCHANGED attempts
           \/ /\ Touches(call[c].attempt)
              /\ attempts'[call[c].attempt].bound = attempts[call[c].attempt].bound
              /\ attempts'[call[c].attempt].status = attempts[call[c].attempt].status
    <3>1. CASE Send(c)
      BY <3>1, SendEffect DEF InHand
    <3>2. CASE Finalize(c)
      <4>1. call[c].attempt \in Numbers
        BY <3>2, FinalizeEffect, AttemptAt DEF InHand
      <4> QED
        BY <1>1, <3>2, <4>1, FinalizeEffect DEF InHand
    <3>3. CASE Validate(c)
      BY <3>3, ValidateEffect DEF InHand
    <3> QED
      BY <1>7, <3>1, <3>2, <3>3
  <2>2. CASE Touches(call[c].attempt)
    <3>1. Kept /\ \A i \in Numbers : /\ attempts'[i].bound = attempts[i].bound
                                      /\ attempts'[i].status = attempts[i].status
      BY <1>3, <2>1, <2>2, AttemptAt, KeptSame, <1>0 DEF Touches
    <3> QED
      BY <1>2, <2>1, <3>1 DEF runVars, resultVars, LeftAlone
  <2> QED
    BY <1>3, <2>1, <2>2 DEF runVars, resultVars, LeftAlone
<1>8. ASSUME NEW c \in Clients, NEW k \in Keys, NEW intent \in Intent, Claim(c, k, intent)
      PROVE  FALSE
  BY <1>8 DEF Claim, Claimable
<1>9. CASE Cancel
  BY <1>9 DEF Cancel
<1>10. CASE Restart
  <2>1. UNCHANGED <<runVars, resultVars, attempts>>
    BY <1>1, <1>10, RestartKept
  <2> QED
    BY <1>3, <2>1 DEF runVars, resultVars, LeftAlone
<1>11. CASE UNCHANGED vars
  BY <1>3, <1>11 DEF vars, runVars, resultVars, LeftAlone
<1> QED
  BY <1>4, <1>5, <1>6, <1>7, <1>8, <1>9, <1>10, <1>11 DEF Next, Progress

(* Nothing more is reserved for a run that has ended, nor accepted for it, *)
(* nor does a late answer change what was settled at the end, for any      *)
(* number of threads, keys and calls (provider_execution.py _reserve,      *)
(* _finalize; analysis_repository.py).  The one call a thread had reserved *)
(* may still be sent.                                                      *)
THEOREM EndedRunsAreLeft == Spec => EndedReservesNothing
<1>1. (TypeInv /\ OwnInv) /\ [Next]_vars => [(status \in Terminal) => LeftAlone]_vars
  BY EndedStep
<1>2. Spec => [][(status \in Terminal) => LeftAlone]_vars
  BY <1>1, OwnershipInvariant, PTL DEF Spec
<1>3. EndedReservesNothing <=> [][(status \in Terminal) => LeftAlone]_vars
  BY PTL DEF EndedReservesNothing, LeftAlone, SettledKept
<1> QED
  BY <1>2, <1>3

-----------------------------------------------------------------------------
(***************************************************************************)
(* The budget.  A bound call is charged its whole reservation until its    *)
(* answer told less, so that the charges only rise where a reservation is  *)
(* checked against the budget, and no bill exceeds its charge.             *)
(***************************************************************************)
Sendable == \A c \in Clients :
  /\ call[c].at \in {"send", "finalize"} => attempts[call[c].attempt].bound
  /\ call[c].at = "send" => attempts[call[c].attempt].status # "COMPLETED"

UnboundFree == \A i \in Numbers : ~attempts[i].bound => attempts[i].bill = 0

ChargedWithinBudget == Charged <= MaxCost

BudgetInv == Sendable /\ UnboundFree /\ ChargedWithinBudget

(* An attempt is charged a number that its bill stays within.              *)
LEMMA ChargeOf ==
  ASSUME NEW a \in Attempt
  PROVE  a.bill \in Nat /\ Charge(a) \in Nat /\ a.bill <= Charge(a) /\ Charge(a) <= Reservation
<1>1. a.bill \in 0 .. Reservation /\ Reservation \in Nat
  BY AnalysisAssumption DEF Attempt
<1> QED
  BY <1>1 DEF Charge

(* The numbers of the attempts, and of the bound ones, are finitely many,  *)
(* and each is charged as above.                                           *)
LEMMA Charges ==
  ASSUME TypeOK
  PROVE  /\ IsFiniteSet(Numbers) /\ IsFiniteSet(Bound) /\ Bound \in SUBSET Numbers
         /\ \A i \in Numbers : /\ attempts[i] \in Attempt
                               /\ attempts[i].bill \in Nat /\ Charge(attempts[i]) \in Nat
                               /\ attempts[i].bill <= Charge(attempts[i])
                               /\ Charge(attempts[i]) <= Reservation
<1>1. Len(attempts) \in Nat
  BY DEF TypeOK
<1>2. IsFiniteSet(Numbers)
  BY <1>1, FS_Interval DEF Numbers
<1>3. Bound \in SUBSET Numbers
  BY DEF Bound, Numbers
<1>4. \A i \in Numbers : attempts[i] \in Attempt
  BY DEF TypeOK, Numbers
<1> QED
  BY <1>2, <1>3, <1>4, ChargeOf, FS_Subset

(* Where no call is bound and none is charged more, the charges stay.      *)
LEMMA ChargedKept ==
  ASSUME TypeOK, TypeOK', ChargedWithinBudget, Bound' = Bound,
         \A i \in Bound : Charge(attempts'[i]) <= Charge(attempts[i])
  PROVE  ChargedWithinBudget'
<1>1. PICK f : f = [i \in Bound |-> Charge(attempts[i])]
  OBVIOUS
<1>2. PICK g : g = [i \in Bound |-> Charge(attempts'[i])]
  OBVIOUS
<1>3. PICK B : B = Bound
  OBVIOUS
<1>4. Charged = SumFunctionOnSet(f, B)
  BY <1>1, <1>3 DEF Charged, SumFunction
<1>5. Charged' = SumFunctionOnSet(g, B)
  BY <1>2, <1>3 DEF Charged, SumFunction
<1>6. IsFiniteSet(B) /\ \A i \in B : f[i] \in Int /\ g[i] \in Int /\ g[i] <= f[i]
  <2>1. \A i \in Bound : Charge(attempts[i]) \in Int
    BY Charges
  <2>2. \A i \in Bound : Charge(attempts'[i]) \in Int
    <3>1. \A i \in Bound' : attempts'[i] \in Attempt
      BY DEF TypeOK, Bound
    <3> QED
      BY <3>1, ChargeOf
  <2> QED
    BY <1>1, <1>2, <1>3, <2>1, <2>2, Charges
<1>7. PICK was, is : was = SumFunctionOnSet(f, B) /\ is = SumFunctionOnSet(g, B)
  OBVIOUS
<1>8. was \in Int /\ is \in Int /\ is <= was
  BY <1>6, <1>7, SumLess, SumRemove
<1> QED
  BY <1>4, <1>5, <1>7, <1>8, AnalysisAssumption DEF ChargedWithinBudget

(* Giving up an attempt leaves what it is charged and billed.              *)
LEMMA AbandonedCharge ==
  ASSUME NEW a \in Attempt, NEW b \in {a, Abandoned(a), AbandonedAtRestart(a)}
  PROVE  /\ b.bound = a.bound /\ b.bill = a.bill /\ Charge(b) = Charge(a)
         /\ b.status = "COMPLETED" => a.status = "COMPLETED"
  BY DEF Attempt, Abandoned, AbandonedAtRestart, Charge

(* Nothing of a call becomes dearer, and no thread starts to send.         *)
LEMMA BudgetKept ==
  ASSUME TypeInv, TypeInv', BudgetInv, Kept,
         \A i \in Numbers :
           /\ attempts'[i].bound = attempts[i].bound
           /\ ~attempts[i].bound => attempts'[i].bill = 0
           /\ attempts[i].bound => Charge(attempts'[i]) <= Charge(attempts[i]),
         Sendable'
  PROVE  BudgetInv'
<1>1. Numbers' = Numbers
  BY DEF Kept, Numbers
<1>2. Bound' = Bound /\ Bound \in SUBSET Numbers
  BY <1>1 DEF Bound, Numbers, Kept
<1>3. UnboundFree'
  BY <1>1 DEF UnboundFree
<1>4. \A i \in Bound : Charge(attempts'[i]) <= Charge(attempts[i])
  BY <1>2 DEF Bound
<1>5. ChargedWithinBudget'
  BY <1>2, <1>4, ChargedKept DEF TypeInv, BudgetInv
<1> QED
  BY <1>3, <1>5 DEF BudgetInv

(* Attempts that stay what they are, or are given up, and threads that     *)
(* stay where they are, or do not send next.                               *)
LEMMA BudgetQuiet ==
  ASSUME TypeInv, TypeInv', BudgetInv, Kept,
         \A i \in Numbers :
           attempts'[i] \in {attempts[i], Abandoned(attempts[i]), AbandonedAtRestart(attempts[i])},
         \A d \in Clients : call'[d] = call[d] \/ call'[d].at \notin {"send", "finalize"}
  PROVE  BudgetInv'
<1>1. \A i \in Numbers :
        /\ attempts[i] \in Attempt /\ Charge(attempts[i]) \in Nat
        /\ attempts'[i].bound = attempts[i].bound /\ attempts'[i].bill = attempts[i].bill
        /\ Charge(attempts'[i]) = Charge(attempts[i])
        /\ attempts'[i].status = "COMPLETED" => attempts[i].status = "COMPLETED"
  <2>1. \A i \in Numbers : attempts[i] \in Attempt /\ Charge(attempts[i]) \in Nat
    BY Charges DEF TypeInv
  <2> QED
    BY <2>1, AbandonedCharge
<1>2. \A d \in Clients : call[d].at \in InHand => call[d].attempt \in Numbers
  BY DEF TypeInv, CallsAttempt
<1>3. Sendable'
  BY <1>1, <1>2 DEF BudgetInv, Sendable, InHand
<1>4. \A i \in Numbers : ~attempts[i].bound => attempts'[i].bill = 0
  BY <1>1 DEF BudgetInv, UnboundFree
<1>5. \A i \in Numbers : Charge(attempts'[i]) <= Charge(attempts[i])
  BY <1>1
<1> QED
  BY <1>1, <1>3, <1>4, <1>5, BudgetKept

(* The one thread at work rewrites the attempt it has in hand.             *)
LEMMA BudgetTouch ==
  ASSUME TypeInv, TypeInv', OwnInv, BudgetInv, NEW c \in Clients, call[c] # Idle, Onward(c),
         NEW i \in Numbers, Touches(i),
         attempts'[i].bound = attempts[i].bound,
         ~attempts[i].bound => attempts'[i].bill = 0,
         attempts[i].bound => Charge(attempts'[i]) <= Charge(attempts[i]),
         /\ call'[c].at \in {"send", "finalize"} => attempts'[call'[c].attempt].bound
         /\ call'[c].at = "send" => attempts'[call'[c].attempt].status # "COMPLETED"
  PROVE  BudgetInv'
<1>1. Kept /\ \A j \in Numbers \ {i} : attempts'[j] = attempts[j]
  BY DEF Touches
<1>2. \A j \in Numbers : Charge(attempts[j]) \in Nat
  BY Charges DEF TypeInv
<1>3. \A d \in Clients \ {c} : call'[d] = Idle
  BY DEF OwnInv, OneExecutor, Onward
<1>4. Sendable'
  BY <1>3 DEF Sendable, Idle
<1>5. \A j \in Numbers :
        /\ attempts'[j].bound = attempts[j].bound
        /\ ~attempts[j].bound => attempts'[j].bill = 0
        /\ attempts[j].bound => Charge(attempts'[j]) <= Charge(attempts[j])
  BY <1>1, <1>2 DEF BudgetInv, UnboundFree
<1> QED
  BY <1>1, <1>4, <1>5, BudgetKept

(* The call goes out under the charge it was bound with.                   *)
LEMMA BudgetSend ==
  ASSUME TypeInv, TypeInv', OwnInv, BudgetInv, NEW c \in Clients, Send(c)
  PROVE  BudgetInv'
<1>. DEFINE i == call[c].attempt
<1>1. /\ call[c].at = "send" /\ call[c] # Idle /\ i \in Numbers
      /\ Onward(c) /\ Touches(i)
      /\ attempts'[i].status = attempts[i].status /\ attempts'[i].bound = attempts[i].bound
      /\ call'[c].at = "finalize" /\ call'[c].attempt = i
  BY SendEffect, AttemptAt DEF InHand
<1>2. attempts[i].bound /\ attempts[i].status # "COMPLETED"
  BY <1>1 DEF BudgetInv, Sendable
<1>3. Charge(attempts'[i]) = Reservation /\ Charge(attempts[i]) = Reservation /\ Reservation \in Nat
  BY <1>1, <1>2, AnalysisAssumption DEF Charge
<1>4. Charge(attempts'[i]) <= Charge(attempts[i])
  BY <1>3
<1>. HIDE DEF i
<1> QED
  BY <1>1, <1>2, <1>4, BudgetTouch

(* An answer is never charged more than was reserved for it.               *)
LEMMA BudgetFinalize ==
  ASSUME TypeInv, TypeInv', OwnInv, BudgetInv, NEW c \in Clients, Finalize(c)
  PROVE  BudgetInv'
<1>. DEFINE i == call[c].attempt
<1>1. /\ call[c].at = "finalize" /\ call[c] # Idle /\ i \in Numbers /\ Onward(c)
      /\ call'[c].at \notin {"send", "finalize"}
      /\ \/ UNCHANGED attempts
         \/ /\ attempts[i].status = "STARTED" /\ Touches(i)
            /\ attempts'[i].bound = attempts[i].bound
  BY FinalizeEffect, AttemptAt DEF InHand
<1>2. CASE UNCHANGED attempts
  <2>1. Kept
    BY <1>2, KeptSame DEF TypeInv
  <2>2. \A d \in Clients : call'[d] = call[d] \/ call'[d].at \notin {"send", "finalize"}
    BY <1>1 DEF Onward
  <2> QED
    BY <1>2, <2>1, <2>2, BudgetQuiet
<1>3. CASE /\ attempts[i].status = "STARTED" /\ Touches(i)
           /\ attempts'[i].bound = attempts[i].bound
  <2>1. attempts[i].bound
    BY <1>1 DEF BudgetInv, Sendable
  <2>2. attempts'[i] \in Attempt
    BY <1>3 DEF Touches
  <2>3. Charge(attempts[i]) = Reservation
    BY <1>3 DEF Charge
  <2>4. Charge(attempts'[i]) <= Charge(attempts[i])
    BY <2>2, <2>3, ChargeOf
  <2>. HIDE DEF i
  <2> QED
    BY <1>1, <1>3, <2>1, <2>4, BudgetTouch
<1> QED
  BY <1>1, <1>2, <1>3

(* A validation costs nothing.                                             *)
LEMMA BudgetValidate ==
  ASSUME TypeInv, TypeInv', OwnInv, BudgetInv, NEW c \in Clients, Validate(c)
  PROVE  BudgetInv'
<1>. DEFINE i == call[c].attempt
<1>1. /\ call[c].at = "validate" /\ call[c] # Idle /\ i \in Numbers /\ i \in Nat
      /\ attempts[i] \in Attempt /\ Onward(c) /\ Touches(i)
      /\ attempts'[i].status = attempts[i].status /\ attempts'[i].bound = attempts[i].bound
      /\ call'[c].at \notin {"send", "finalize"}
  BY ValidateEffect, AttemptAt DEF InHand
<1>2. attempts'[i].bill = attempts[i].bill
  <2>1. PICK verdict \in {"ACCEPTED", "RETRYABLE", "REJECTED"} :
          attempts' = [attempts EXCEPT ![i].verdict = verdict]
    BY DEF Validate
  <2>2. attempts \in Seq(Attempt) /\ i \in 1 .. Len(attempts)
    BY <1>1 DEF TypeInv, TypeOK, Numbers
  <2>3. attempts'[i] = [attempts[i] EXCEPT !.verdict = verdict]
    BY <2>1, <2>2
  <2> QED
    BY <1>1, <2>3 DEF Attempt
<1>3. Charge(attempts'[i]) = Charge(attempts[i]) /\ Charge(attempts[i]) \in Nat
  BY <1>1, <1>2, ChargeOf DEF Charge
<1>4. /\ ~attempts[i].bound => attempts'[i].bill = 0
      /\ Charge(attempts'[i]) <= Charge(attempts[i])
  BY <1>1, <1>2, <1>3 DEF BudgetInv, UnboundFree
<1>. HIDE DEF i
<1> QED
  BY <1>1, <1>4, BudgetTouch

(* A new attempt is not bound yet.                                         *)
LEMMA BudgetNewAttempt ==
  ASSUME TypeInv, TypeInv', BudgetInv, NEW c \in Clients, NewAttempt(c)
  PROVE  BudgetInv'
<1>1. /\ Onward(c)
      /\ \/ UNCHANGED attempts /\ call'[c].at \notin {"send", "finalize"}
         \/ /\ call'[c].at \notin {"send", "finalize"}
            /\ attempts' \in Seq(Attempt) /\ Len(attempts') = Len(attempts) + 1
            /\ \A j \in Numbers : attempts'[j] = attempts[j]
            /\ ~attempts'[Len(attempts) + 1].bound /\ attempts'[Len(attempts) + 1].bill = 0
  <2>1. /\ Onward(c)
        /\ \/ UNCHANGED attempts /\ (call'[c] = Idle \/ call'[c].at = "stop")
           \/ /\ call'[c].at = "reserve"
              /\ attempts' \in Seq(Attempt) /\ Len(attempts') = Len(attempts) + 1
              /\ \A j \in Numbers : attempts'[j] = attempts[j]
              /\ attempts'[Len(attempts) + 1] =
                   [stage |-> call[c].stage, epoch |-> call[c].key, status |-> "STARTED",
                    bound |-> FALSE, bill |-> 0, verdict |-> "NONE"]
    BY NewAttemptEffect, Zenon
  <2> QED
    BY <2>1 DEF Idle
<1>2. CASE UNCHANGED attempts /\ call'[c].at \notin {"send", "finalize"}
  <2>1. Kept
    BY <1>2, KeptSame DEF TypeInv
  <2>2. \A d \in Clients : call'[d] = call[d] \/ call'[d].at \notin {"send", "finalize"}
    BY <1>1, <1>2 DEF Onward
  <2> QED
    BY <1>2, <2>1, <2>2, BudgetQuiet
<1>3. CASE /\ call'[c].at \notin {"send", "finalize"}
           /\ attempts' \in Seq(Attempt) /\ Len(attempts') = Len(attempts) + 1
           /\ \A j \in Numbers : attempts'[j] = attempts[j]
           /\ ~attempts'[Len(attempts) + 1].bound /\ attempts'[Len(attempts) + 1].bill = 0
  <2>1. Len(attempts) \in Nat
    BY DEF TypeInv, TypeOK
  <2>2. Numbers' = Numbers \cup {Len(attempts) + 1} /\ Len(attempts) + 1 \notin Numbers
    BY <1>3, <2>1 DEF Numbers
  <2>3. Bound' = {i \in Numbers' : attempts'[i].bound} /\ Bound = {i \in Numbers : attempts[i].bound}
    BY DEF Bound, Numbers
  <2>4. Bound' = Bound
    BY <1>3, <2>2, <2>3
  <2>5. UnboundFree'
    BY <1>3, <2>2 DEF BudgetInv, UnboundFree
  <2>6. Sendable'
    <3>1. \A d \in Clients : call[d].at \in InHand => call[d].attempt \in Numbers
      BY DEF TypeInv, CallsAttempt
    <3>2. \A d \in Clients : call'[d] = call[d] \/ call'[d].at \notin {"send", "finalize"}
      BY <1>1, <1>3 DEF Onward
    <3> QED
      BY <1>3, <3>1, <3>2 DEF BudgetInv, Sendable, InHand
  <2>7. \A i \in Bound : Charge(attempts'[i]) <= Charge(attempts[i])
    <3>1. \A i \in Bound : attempts'[i] = attempts[i] /\ Charge(attempts[i]) \in Nat
      BY <1>3, <2>3, Charges DEF TypeInv
    <3> QED
      BY <3>1
  <2>8. ChargedWithinBudget'
    BY <2>4, <2>7, ChargedKept DEF TypeInv, BudgetInv
  <2> QED
    BY <2>5, <2>6, <2>8 DEF BudgetInv
<1> QED
  BY <1>1, <1>2, <1>3

(* A call is bound only while its whole reservation is left.               *)
LEMMA ReserveCharges ==
  ASSUME TypeInv, NEW c \in Clients, Reserve(c)
  PROVE  \/ UNCHANGED attempts /\ call'[c].at = "stop"
         \/ /\ WithinBudget
            /\ ~attempts[call[c].attempt].bound
            /\ attempts[call[c].attempt].status = "STARTED"
            /\ attempts'[call[c].attempt].bound
            /\ call'[c].attempt = call[c].attempt
            /\ Touches(call[c].attempt)
<1>. DEFINE i == call[c].attempt
<1>1. call[c].at = "reserve" /\ i \in Numbers /\ attempts[i] \in Attempt
  BY AttemptAt, ReserveEffect DEF InHand
<1>2. CASE Authorized(c) /\ WithinBudget
  <2>. DEFINE a == [attempts[i] EXCEPT !.bound = TRUE]
  <2>1. attempts' = [attempts EXCEPT ![i] = a] /\ ToAttempt(c, "send", i)
    BY <1>2 DEF Reserve
  <2>2. a \in Attempt /\ a.bound
    BY <1>1 DEF Attempt
  <2>3. attempts'[i] = a
    BY <1>1, <2>1, <2>2, UpdateEffect DEF TypeInv
  <2>4. attempts'[i].bound
    BY <2>2, <2>3
  <2>5. call'[c] = [at |-> "send", key |-> call[c].key, stage |-> call[c].stage, attempt |-> i]
    BY <2>1 DEF ToAttempt, Goto, TypeInv, TypeOK
  <2>6. Touches(i)
    BY <2>5, ReserveEffect
  <2> QED
    BY <1>2, <2>4, <2>5, <2>6 DEF Authorized
<1>3. CASE ~(Authorized(c) /\ WithinBudget)
  <2>1. PICK end \in {"REJECTED", "FAILED"} : ToStop(c, end) /\ UNCHANGED attempts
    BY <1>3 DEF Reserve
  <2> QED
    BY <2>1 DEF ToStop, Goto, TypeInv, TypeOK
<1> QED
  BY <1>2, <1>3

LEMMA BudgetReserve ==
  ASSUME TypeInv, TypeInv', OwnInv, BudgetInv, NEW c \in Clients, Reserve(c)
  PROVE  BudgetInv'
<1>1. CASE UNCHANGED attempts /\ call'[c].at = "stop"
  <2>1. Kept /\ Onward(c)
    BY <1>1, KeptSame, ReserveEffect DEF TypeInv
  <2>2. \A d \in Clients : call'[d] = call[d] \/ call'[d].at \notin {"send", "finalize"}
    BY <1>1, <2>1 DEF Onward
  <2> QED
    BY <1>1, <2>1, <2>2, BudgetQuiet
<1>2. ASSUME WithinBudget, NEW i, i = call[c].attempt,
             ~attempts[i].bound, attempts[i].status = "STARTED",
             attempts'[i].bound, call'[c].attempt = i, Touches(i)
      PROVE  BudgetInv'
  <2>1. /\ call[c].at = "reserve" /\ call[c] # Idle /\ Onward(c) /\ i \in Numbers
        /\ attempts'[i].status = "STARTED"
    BY <1>2, ReserveEffect, AttemptAt DEF InHand, Idle
  <2>2. Numbers' = Numbers /\ \A j \in Numbers \ {i} : attempts'[j] = attempts[j]
    BY <1>2 DEF Touches, Kept, Numbers
  <2>3. /\ Bound = {j \in Numbers : attempts[j].bound}
        /\ Bound' = {j \in Numbers' : attempts'[j].bound}
    BY DEF Bound, Numbers
  <2>4. Bound' = Bound \cup {i} /\ i \notin Bound
    BY <1>2, <2>1, <2>2, <2>3
  <2>5. Sendable'
    <3>1. \A d \in Clients \ {c} : call'[d] = Idle
      BY <2>1 DEF OwnInv, OneExecutor, Onward
    <3> QED
      BY <1>2, <2>1, <3>1 DEF Sendable, Idle
  <2>6. UnboundFree'
    BY <1>2, <2>1, <2>2 DEF BudgetInv, UnboundFree
  <2>7. PICK f : f = [j \in Bound |-> Charge(attempts[j])]
    OBVIOUS
  <2>8. PICK g : g = [j \in Bound' |-> Charge(attempts'[j])]
    OBVIOUS
  <2>9. PICK B : B = Bound
    OBVIOUS
  <2>10. Charged = SumFunctionOnSet(f, B)
    BY <2>7, <2>9 DEF Charged, SumFunction
  <2>11. Charged' = SumFunctionOnSet(g, B \cup {i})
    BY <2>4, <2>8, <2>9 DEF Charged, SumFunction
  <2>12. IsFiniteSet(B) /\ i \notin B /\ \A j \in B : f[j] \in Int /\ g[j] = f[j]
    BY <2>2, <2>3, <2>4, <2>7, <2>8, <2>9, Charges DEF TypeInv
  <2>13. g[i] = Reservation /\ Reservation \in Int
    BY <2>1, <2>4, <2>8, AnalysisAssumption DEF Charge
  <2>14. SumFunctionOnSet(g, B \cup {i}) = g[i] + SumFunctionOnSet(g, B)
    BY <2>12, <2>13, SumAdd
  <2>15. SumFunctionOnSet(g, B) = SumFunctionOnSet(f, B)
    BY <2>12, SumSame
  <2>16. PICK was : was = SumFunctionOnSet(f, B)
    OBVIOUS
  <2>17. was \in Int
    BY <2>12, <2>16, SumRemove
  <2>18. was + Reservation <= MaxCost
    BY <1>2, <2>10, <2>16 DEF WithinBudget
  <2>19. Charged' = Reservation + was
    BY <2>11, <2>13, <2>14, <2>15, <2>16
  <2>20. ChargedWithinBudget'
    BY <2>13, <2>17, <2>18, <2>19, AnalysisAssumption DEF ChargedWithinBudget
  <2> QED
    BY <2>5, <2>6, <2>20 DEF BudgetInv
<1> QED
  BY <1>1, <1>2, ReserveCharges

(* Nothing is charged for a run that was created.                          *)
LEMMA BudgetInit == Init => BudgetInv
<1> SUFFICES ASSUME Init PROVE BudgetInv
  OBVIOUS
<1>1. Numbers = {} /\ Bound = {}
  BY DEF Init, Numbers, Bound
<1>2. Sendable
  BY DEF Init, Sendable, Idle
<1>3. Charged = 0
  BY <1>1, SumEmpty DEF Charged, SumFunction
<1> QED
  BY <1>1, <1>2, <1>3, AnalysisAssumption DEF BudgetInv, UnboundFree, ChargedWithinBudget

(* Every step keeps the budget.                                            *)
LEMMA BudgetStep == TypeInv /\ OwnInv /\ BudgetInv /\ [Next]_vars => BudgetInv'
<1> SUFFICES ASSUME TypeInv, OwnInv, BudgetInv, [Next]_vars PROVE BudgetInv'
  OBVIOUS
<1>0. TypeOK /\ TypeInv'
  BY TypeStep DEF TypeInv
<1>1. ASSUME UNCHANGED attempts,
             \A d \in Clients : call'[d] = call[d] \/ call'[d].at \notin {"send", "finalize"}
      PROVE  BudgetInv'
  <2>1. Kept
    BY <1>0, <1>1, KeptSame
  <2> QED
    BY <1>0, <1>1, <2>1, BudgetQuiet
<1>2. ASSUME AbandonStarted, Kept,
             \A d \in Clients : call'[d] = call[d] \/ call'[d].at \notin {"send", "finalize"}
      PROVE  BudgetInv'
  <2>1. \A i \in Numbers : attempts'[i] = Abandoned(attempts[i])
    BY <1>0, <1>2, AbandonEffect
  <2> QED
    BY <1>0, <1>2, <2>1, BudgetQuiet
<1>3. ASSUME NEW c \in Clients, Onward(c), UNCHANGED attempts,
             call'[c].at \notin {"send", "finalize"}
      PROVE  BudgetInv'
  BY <1>1, <1>3 DEF Onward
<1>4. ASSUME NEW c \in Clients,
             Fail(c) \/ Start(c) \/ Enter(c) \/ Revalidate(c) \/ GiveUp(c)
      PROVE  BudgetInv'
  <2>1. Moves(c) /\ call'[c].at \notin {"send", "finalize"}
    BY <1>4, FailMoves, StartMoves, EnterMoves, RevalidateMoves, GiveUpMoves DEF Idle
  <2>2. Onward(c) /\ UNCHANGED attempts
    BY <1>0, <2>1, OnwardBy DEF Moves
  <2> QED
    BY <1>3, <2>1, <2>2
<1>5. ASSUME NEW c \in Clients, Stop(c) \/ Refuse(c) PROVE BudgetInv'
  <2>1. /\ Onward(c) /\ call'[c] = Idle
        /\ \/ UNCHANGED attempts
           \/ AbandonStarted /\ Kept
    BY <1>5, StopEffect, RefuseEffect
  <2> QED
    BY <1>2, <1>3, <2>1 DEF Onward, Idle
<1>6. ASSUME NEW c \in Clients, Die(c) \/ Release(c) PROVE BudgetInv'
  <2>1. Onward(c) /\ call'[c] = Idle /\ UNCHANGED attempts
    BY <1>6, DieEffect, ReleaseStep
  <2> QED
    BY <1>3, <2>1 DEF Idle
<1>7. ASSUME NEW c \in Clients, Accept(c) \/ Gate(c) PROVE BudgetInv'
  <2>1. Onward(c) /\ UNCHANGED attempts /\ call'[c].at \notin {"send", "finalize"}
    BY <1>7, AcceptEffect, GateEffect DEF Idle
  <2> QED
    BY <1>3, <2>1
<1>8. ASSUME NEW c \in Clients, NEW k \in Keys, NEW intent \in Intent, Claim(c, k, intent)
      PROVE  BudgetInv'
  <2>1. /\ UNCHANGED attempts /\ call'[c].at = "start"
        /\ \A d \in Clients \ {c} : call'[d] = call[d]
    BY <1>8, ClaimEffect
  <2> QED
    BY <1>1, <2>1
<1>9. CASE Cancel
  BY <1>2, <1>9, CancelEffect
<1>10. CASE Restart
  <2>1. /\ Kept /\ \A d \in Clients : call'[d] = Idle
        /\ \/ UNCHANGED attempts
           \/ \A i \in Numbers : attempts'[i] = AbandonedAtRestart(attempts[i])
    BY <1>10, RestartKept
  <2>2. \A d \in Clients : call'[d].at \notin {"send", "finalize"}
    BY <2>1 DEF Idle
  <2> QED
    BY <1>0, <2>1, <2>2, BudgetQuiet
<1>11. CASE UNCHANGED vars
  BY <1>1, <1>11 DEF vars
<1> QED
  BY <1>0, <1>4, <1>5, <1>6, <1>7, <1>8, <1>9, <1>10, <1>11,
     BudgetNewAttempt, BudgetReserve, BudgetSend, BudgetFinalize, BudgetValidate
  DEF Next, Progress

(* The inductive invariant of the budget.                                  *)
THEOREM BudgetInvariant == Spec => [](TypeInv /\ OwnInv /\ BudgetInv)
<1>1. Init => BudgetInv
  BY BudgetInit
<1>2. (TypeInv /\ OwnInv) /\ BudgetInv /\ [Next]_vars => BudgetInv'
  BY BudgetStep
<1> QED
  BY <1>1, <1>2, OwnershipInvariant, PTL DEF Spec

(* Whatever becomes of its calls, a run is billed within its budget.       *)
THEOREM SpendingStaysWithinBudget == Spec => []BilledWithinBudget
<1>1. ASSUME TypeInv, BudgetInv PROVE BilledWithinBudget
  <2>1. PICK f : f = [i \in Numbers |-> attempts[i].bill]
    OBVIOUS
  <2>2. PICK g : g = [i \in Bound |-> Charge(attempts[i])]
    OBVIOUS
  <2>3. PICK N, B : N = Numbers /\ B = Bound
    OBVIOUS
  <2>4. /\ IsFiniteSet(N) /\ IsFiniteSet(B) /\ B \in SUBSET N
        /\ \A i \in N : f[i] \in Nat
        /\ \A i \in B : f[i] \in Int /\ g[i] \in Int /\ f[i] <= g[i]
    BY <1>1, <2>1, <2>2, <2>3, Charges DEF TypeInv
  <2>5. \A i \in N : f[i] \in Int
    BY <2>4
  <2>6. \A i \in N \ B : f[i] = 0
    BY <1>1, <2>1, <2>3 DEF BudgetInv, UnboundFree, Bound, Numbers
  <2>7. PICK all, bills, charges :
          /\ all = SumFunctionOnSet(f, N)
          /\ bills = SumFunctionOnSet(f, B) /\ charges = SumFunctionOnSet(g, B)
    OBVIOUS
  <2>8. bills \in Int /\ charges \in Int /\ bills <= charges
    BY <2>4, <2>7, SumLess, SumRemove
  <2>9. all = bills
    BY <2>4, <2>5, <2>6, <2>7, SumZeros
  <2>10. charges <= MaxCost
    BY <1>1, <2>2, <2>3, <2>7 DEF BudgetInv, ChargedWithinBudget, Charged, SumFunction
  <2>11. SumFunction([i \in Numbers |-> attempts[i].bill]) = all
    BY <2>1, <2>3, <2>7 DEF SumFunction
  <2> QED
    BY <2>8, <2>9, <2>10, <2>11, AnalysisAssumption DEF BilledWithinBudget
<1> QED
  BY <1>1, BudgetInvariant, PTL

-----------------------------------------------------------------------------
(***************************************************************************)
(* The provider host (ProviderHost.tla).                                   *)
(***************************************************************************)

(* Types, and a memory that is finite.                                      *)

MemoryInv == HostTypeOK /\ IsFiniteSet(DOMAIN entries)

MemoryType(memory) ==
  /\ DOMAIN memory \subseteq Identities /\ IsFiniteSet(DOMAIN memory)
  /\ Cardinality(DOMAIN memory) <= Capacity
  /\ \A i \in DOMAIN memory : memory[i] \in 0 .. Horizon + 2 * Skew

(* What expires leaves a memory that is no larger. *)
LEMMA KeptType ==
  ASSUME MemoryInv
  PROVE  /\ MemoryType(Unexpired)
         /\ DOMAIN Unexpired = {i \in DOMAIN entries : entries[i] >= now}
         /\ \A i \in DOMAIN Unexpired : Unexpired[i] = entries[i]
<1>1. /\ DOMAIN Unexpired = {i \in DOMAIN entries : entries[i] >= now}
      /\ \A i \in DOMAIN Unexpired : Unexpired[i] = entries[i]
  BY DEF Unexpired
<1>2. IsFiniteSet(DOMAIN Unexpired) /\ Cardinality(DOMAIN Unexpired) <= Cardinality(DOMAIN entries)
  BY <1>1, FS_Subset DEF MemoryInv
<1>3. Cardinality(DOMAIN Unexpired) \in Nat /\ Cardinality(DOMAIN entries) \in Nat
  BY <1>2, FS_CardinalityType DEF MemoryInv
<1>4. Cardinality(DOMAIN Unexpired) <= Capacity
  BY <1>2, <1>3, HostAssumption DEF MemoryInv, HostTypeOK
<1> QED
  BY <1>1, <1>2, <1>4 DEF MemoryInv, HostTypeOK, MemoryType

(* The memory after a claim, whether it let pass or not. *)
LEMMA RememberedType ==
  ASSUME MemoryInv, NEW i \in Identities, NEW time
  PROVE  MemoryType(Remembered(i, time))
<1>1. CASE ~ Timely(time)
  BY <1>1 DEF Remembered, MemoryInv, HostTypeOK, MemoryType
<1>2. CASE Timely(time) /\ ~ Claims(i, time)
  BY <1>2, KeptType DEF Remembered
<1>3. CASE Claims(i, time)
  <2> DEFINE new == [j \in DOMAIN Unexpired \cup {i} |-> IF j = i THEN now + Lifetime ELSE Unexpired[j]]
  <2>1. Remembered(i, time) = new
    BY <1>3 DEF Remembered, Claims
  <2>2. DOMAIN new = DOMAIN Unexpired \cup {i}
    OBVIOUS
  <2>3. IsFiniteSet(DOMAIN new) /\ Cardinality(DOMAIN new) = Cardinality(DOMAIN Unexpired) + 1
    BY <1>3, <2>2, KeptType, FS_AddElement DEF Claims, MemoryType
  <2>4. Cardinality(DOMAIN Unexpired) \in Nat
    BY KeptType, FS_CardinalityType DEF MemoryType
  <2>5. Cardinality(DOMAIN new) <= Capacity
    BY <1>3, <2>3, <2>4, HostAssumption DEF Claims, Room
  <2>6. now + Lifetime \in 0 .. Horizon + 2 * Skew
    BY HostAssumption DEF MemoryInv, HostTypeOK, Lifetime
  <2>7. \A j \in DOMAIN new : new[j] \in 0 .. Horizon + 2 * Skew
    BY <2>6, KeptType DEF MemoryType
  <2> HIDE DEF new
  <2> QED
    BY <2>1, <2>2, <2>3, <2>5, <2>7, KeptType DEF MemoryType
<1> QED
  BY <1>1, <1>2, <1>3 DEF Claims

(* The empty memory of a host that begins to serve. *)
LEMMA EmptyType ==
  LET empty == [i \in {} |-> 0] IN MemoryType(empty)
<1> DEFINE empty == [i \in {} |-> 0]
<1>1. DOMAIN empty = {}
  OBVIOUS
<1>2. IsFiniteSet({}) /\ Cardinality({}) = 0
  BY FS_EmptySet
<1> HIDE DEF empty
<1>3. MemoryType(empty)
  BY <1>1, <1>2, HostAssumption DEF MemoryType
<1> QED
  BY <1>3 DEF empty

LEMMA MemoryInit == HostInit => MemoryInv
<1> SUFFICES ASSUME HostInit PROVE MemoryInv
  OBVIOUS
<1>1. MemoryType(entries)
  BY EmptyType DEF HostInit
<1> QED
  BY <1>1, HostAssumption DEF HostInit, MemoryInv, HostTypeOK, MemoryType

LEMMA MemoryStep == MemoryInv /\ [HostNext]_systemVars => MemoryInv'
<1> SUFFICES ASSUME MemoryInv, [HostNext]_systemVars PROVE MemoryInv'
  OBVIOUS
<1> USE HostAssumption
<1>1. CASE Tick
  BY <1>1 DEF Tick, hostVars, coreVars, MemoryInv, HostTypeOK
<1>2. CASE RemoveFile
  BY <1>2 DEF RemoveFile, coreVars, MemoryInv, HostTypeOK
<1>3. ASSUME NEW h \in Hosts, CreateToken(h) PROVE MemoryInv'
  BY <1>3 DEF CreateToken, Becomes, coreVars, MemoryInv, HostTypeOK
<1>4. ASSUME NEW h \in Hosts, Serve(h) PROVE MemoryInv'
  <2>1. MemoryType(entries')
    BY <1>4, EmptyType DEF Serve, MemoryInv, HostTypeOK, MemoryType
  <2> QED
    BY <1>4, <2>1 DEF Serve, Becomes, coreVars, MemoryInv, HostTypeOK, MemoryType
<1>5. ASSUME NEW h \in Hosts, StopHost(h) \/ Close(h) \/ KillHost(h) PROVE MemoryInv'
  BY <1>5 DEF StopHost, Close, KillHost, Becomes, CallsOf, coreVars, MemoryInv, HostTypeOK
<1>6. ASSUME NEW h \in Hosts, NEW probe \in Probes, Probe(h, probe) PROVE MemoryInv'
  <2>1. MemoryType(entries')
    BY <1>6, RememberedType DEF Probe, Identities
  <2> QED
    BY <1>6, <2>1 DEF Probe, coreVars, MemoryInv, HostTypeOK, MemoryType
<1>7. ASSUME NEW h \in Hosts, NEW r \in Requests, Arrive(h, r) PROVE MemoryInv'
  <2>1. MemoryType(entries')
    <3>1. CASE token[r] # h
      BY <1>7, <3>1 DEF Arrive, MemoryInv, HostTypeOK, MemoryType
    <3>2. CASE token[r] = h
      BY <1>7, <3>2, RememberedType DEF Arrive, Identities
    <3> QED
      BY <3>1, <3>2
  <2>2. /\ running' \subseteq [host : Hosts, request : Requests, own : BOOLEAN]
        /\ executions' \in [Requests -> Nat]
        /\ claimed' \in [Requests -> BOOLEAN]
    <3>1. [host |-> h, request |-> r, own |-> TRUE]
             \in [host : Hosts, request : Requests, own : BOOLEAN]
      OBVIOUS
    <3>2. running' \subseteq running \cup {[host |-> h, request |-> r, own |-> TRUE]}
      BY <1>7 DEF Arrive
    <3>3. executions' \in {executions, [executions EXCEPT ![r] = @ + 1]}
      BY <1>7 DEF Arrive
    <3>4. claimed' \in {claimed, [claimed EXCEPT ![r] = TRUE]}
      BY <1>7 DEF Arrive
    <3>5. running \subseteq [host : Hosts, request : Requests, own : BOOLEAN]
      BY DEF MemoryInv, HostTypeOK
    <3>6. running' \subseteq [host : Hosts, request : Requests, own : BOOLEAN]
      BY <3>1, <3>2, <3>5
    <3>7. executions' \in [Requests -> Nat]
      BY <3>3 DEF MemoryInv, HostTypeOK
    <3>8. claimed' \in [Requests -> BOOLEAN]
      BY <3>4 DEF MemoryInv, HostTypeOK
    <3> QED
      BY <3>6, <3>7, <3>8
  <2>3. known' \in [Requests -> {"new", "built", "sent"} \cup Outcomes]
    BY <1>7 DEF Arrive, Hears, Learns, Outcomes, MemoryInv, HostTypeOK
  <2> QED
    BY <1>7, <2>1, <2>2, <2>3 DEF Arrive, MemoryInv, HostTypeOK, MemoryType
<1>8. ASSUME NEW h \in Hosts, NEW r \in Requests, ArriveAgain(h, r) PROVE MemoryInv'
  <2>1. MemoryType(entries')
    BY <1>8, RememberedType DEF ArriveAgain, Identities
  <2>2. /\ running' \subseteq [host : Hosts, request : Requests, own : BOOLEAN]
        /\ executions' \in [Requests -> Nat]
    <3>1. [host |-> h, request |-> r, own |-> FALSE]
             \in [host : Hosts, request : Requests, own : BOOLEAN]
      OBVIOUS
    <3>2. running' \subseteq running \cup {[host |-> h, request |-> r, own |-> FALSE]}
      BY <1>8 DEF ArriveAgain
    <3>3. executions' \in {executions, [executions EXCEPT ![r] = @ + 1]}
      BY <1>8 DEF ArriveAgain
    <3>4. running \subseteq [host : Hosts, request : Requests, own : BOOLEAN]
      BY DEF MemoryInv, HostTypeOK
    <3>5. running' \subseteq [host : Hosts, request : Requests, own : BOOLEAN]
      BY <3>1, <3>2, <3>4
    <3>6. executions' \in [Requests -> Nat]
      BY <3>3 DEF MemoryInv, HostTypeOK
    <3> QED
      BY <3>5, <3>6
  <2> QED
    BY <1>8, <2>1, <2>2 DEF ArriveAgain, coreVars, MemoryInv, HostTypeOK, MemoryType
<1>9. ASSUME NEW r \in Requests, Build(r) \/ SendRequest(r) \/ NotConnected(r) \/ StopReading(r)
      PROVE  MemoryInv'
  BY <1>9 DEF Build, SendRequest, NotConnected, StopReading, Unheard, Learns, Outcomes, hostVars,
              MemoryInv, HostTypeOK
<1>10. ASSUME NEW c \in running, Finish(c) PROVE MemoryInv'
  BY <1>10 DEF Finish, Hears, Learns, Outcomes, MemoryInv, HostTypeOK
<1>11. CASE UNCHANGED systemVars
  BY <1>11 DEF systemVars, hostVars, coreVars, MemoryInv, HostTypeOK
<1> QED
  BY <1>1, <1>2, <1>3, <1>4, <1>5, <1>6, <1>7, <1>8, <1>9, <1>10, <1>11 DEF HostNext

(* Every state has its type: the memory never holds more identities than   *)
(* its capacity, and no entry outlives the last time by more than its       *)
(* lifetime (ReplayCache).                                                  *)
THEOREM HostTypeCorrect == HostSpec => []HostTypeOK
<1>1. MemoryInv => HostTypeOK
  BY DEF MemoryInv
<1> QED
  BY <1>1, MemoryInit, MemoryStep, PTL DEF HostSpec
-----------------------------------------------------------------------------
(* The token of a host that serves, and of one that is about to.            *)

FileInv == \A h \in Hosts : process[h] \in {"created", "serving"} => file = h

(* A host begins only when there is no file, and a host that closes removes *)
(* no other's: the file is that of the one host that is between the two.    *)
LEMMA FileStep == MemoryInv /\ FileInv /\ [HostNext]_systemVars => FileInv'
<1> SUFFICES ASSUME MemoryInv, FileInv, [HostNext]_systemVars PROVE FileInv'
  OBVIOUS
<1> USE HostAssumption
<1>1. CASE Tick
  BY <1>1 DEF Tick, hostVars, FileInv
<1>2. CASE RemoveFile
  BY <1>2 DEF RemoveFile, FileInv
<1>3. ASSUME NEW h \in Hosts, CreateToken(h) PROVE FileInv'
  BY <1>3 DEF CreateToken, Creatable, Becomes, FileInv, MemoryInv, HostTypeOK
<1>4. ASSUME NEW h \in Hosts, Serve(h) \/ StopHost(h) \/ Close(h) \/ KillHost(h) PROVE FileInv'
  BY <1>4 DEF Serve, StopHost, Close, KillHost, Becomes, FileInv, MemoryInv, HostTypeOK
<1>5. ASSUME NEW h \in Hosts, NEW probe \in Probes, Probe(h, probe) PROVE FileInv'
  BY <1>5 DEF Probe, FileInv
<1>6. ASSUME NEW h \in Hosts, NEW r \in Requests, Arrive(h, r) \/ ArriveAgain(h, r)
      PROVE  FileInv'
  BY <1>6 DEF Arrive, ArriveAgain, FileInv
<1>7. ASSUME NEW r \in Requests, Build(r) \/ SendRequest(r) \/ NotConnected(r) \/ StopReading(r)
      PROVE  FileInv'
  BY <1>7 DEF Build, SendRequest, NotConnected, StopReading, hostVars, FileInv
<1>8. ASSUME NEW c \in running, Finish(c) PROVE FileInv'
  BY <1>8 DEF Finish, FileInv
<1>9. CASE UNCHANGED systemVars
  BY <1>9 DEF systemVars, hostVars, FileInv
<1> QED
  BY <1>1, <1>2, <1>3, <1>4, <1>5, <1>6, <1>7, <1>8, <1>9 DEF HostNext

(* However many processes are started and die, the token of the host that   *)
(* serves is the one the Core reads (HostTokenFile, main).                  *)
THEOREM ServingTokenIsOnFile == HostSpec => []ServedTokenIsOnFile
<1>1. HostInit => FileInv
  BY DEF HostInit, FileInv
<1>2. FileInv => ServedTokenIsOnFile
  BY DEF FileInv, ServedTokenIsOnFile
<1> QED
  BY <1>1, <1>2, MemoryInit, MemoryStep, FileStep, PTL DEF HostSpec

-----------------------------------------------------------------------------
(* A request that passed the claim is spent: its host is gone, or still     *)
(* remembers it for as long as it is timely, or its time is over.           *)

Remembers(r) == r \in DOMAIN entries /\ entries[r] >= stamp[r] + Skew

Spent(r) == \/ process[token[r]] \in {"stopping", "ended"}
            \/ process[token[r]] = "serving" /\ Remembers(r)
            \/ now > stamp[r] + Skew

(* Only what was sent has a token, and only that was ever claimed. *)
TokenInv == \A r \in Requests :
              /\ token[r] # Nothing => known[r] \notin {"new", "built"}
              /\ claimed[r] \/ executions[r] # 0 => token[r] \in Hosts

SpentInv == \A r \in Requests : claimed[r] \/ executions[r] # 0 => Spent(r)

CallInv == FileInv /\ TokenInv /\ SpentInv /\ ExecutedOnce

(* What is spent is not claimed again while its host serves. *)
LEMMA SpentIsRefused ==
  ASSUME MemoryInv, NEW r \in Requests, process[token[r]] = "serving", Spent(r)
  PROVE  ~ Claims(r, stamp[r])
<1> SUFFICES ASSUME Claims(r, stamp[r]) PROVE FALSE
  OBVIOUS
<1> USE HostAssumption
<1>1. now \in Nat /\ stamp[r] \in Int
  BY DEF MemoryInv, HostTypeOK
<1>2. now <= stamp[r] + Skew
  BY <1>1 DEF Claims, Timely, Abs
<1>3. Remembers(r)
  BY <1>1, <1>2 DEF Spent
<1>4. entries[r] \in Nat
  BY <1>3 DEF Remembers, MemoryInv, HostTypeOK
<1>5. r \in DOMAIN Unexpired
  BY <1>1, <1>2, <1>3, <1>4 DEF Remembers, Unexpired
<1> QED
  BY <1>5 DEF Claims

(* A claim of any identity forgets nothing that is still timely. *)
LEMMA ClaimsForgetNothing ==
  ASSUME MemoryInv, NEW i \in Identities, NEW time, NEW r \in Requests, Remembers(r),
         now <= stamp[r] + Skew, entries' = Remembered(i, time), stamp'[r] = stamp[r]
  PROVE  Remembers(r)'
<1> USE HostAssumption
<1>1. now \in Nat /\ stamp[r] \in Int /\ entries[r] \in Nat
  BY DEF Remembers, MemoryInv, HostTypeOK
<1>2. r \in DOMAIN Unexpired /\ Unexpired[r] = entries[r]
  BY <1>1 DEF Remembers, Unexpired
<1>3. CASE ~ Timely(time)
  BY <1>3 DEF Remembered, Remembers
<1>4. CASE Timely(time) /\ ~ Claims(i, time)
  BY <1>2, <1>4 DEF Remembered, Remembers
<1>5. CASE Claims(i, time)
  <2>1. r # i
    BY <1>2, <1>5 DEF Claims
  <2>2. entries' = [j \in DOMAIN Unexpired \cup {i} |-> IF j = i THEN now + Lifetime ELSE Unexpired[j]]
    BY <1>5 DEF Remembered, Claims
  <2>3. r \in DOMAIN entries' /\ entries'[r] = entries[r]
    BY <1>2, <2>1, <2>2
  <2> QED
    BY <2>3 DEF Remembers
<1> QED
  BY <1>3, <1>4, <1>5 DEF Claims

(* What a claim lets pass is remembered until it is no longer timely, as    *)
(* the lifetime is twice the skew.                                          *)
LEMMA ClaimIsRemembered ==
  ASSUME MemoryInv, NEW r \in Requests, Claims(r, stamp[r]),
         entries' = Remembered(r, stamp[r]), stamp'[r] = stamp[r]
  PROVE  Remembers(r)'
<1> USE HostAssumption
<1>1. now \in Nat /\ stamp[r] \in Int
  BY DEF MemoryInv, HostTypeOK
<1>2. entries' = [j \in DOMAIN Unexpired \cup {r} |-> IF j = r THEN now + Lifetime ELSE Unexpired[j]]
  BY DEF Remembered, Claims
<1>3. r \in DOMAIN entries' /\ entries'[r] = now + 2 * Skew
  BY <1>2 DEF Lifetime
<1>4. now >= stamp[r] - Skew
  BY <1>1 DEF Claims, Timely, Abs
<1> QED
  BY <1>1, <1>3, <1>4 DEF Remembers

(* What was spent stays spent at an answer to any request. *)
LEMMA SpentStays ==
  ASSUME MemoryInv, NEW i \in Identities, NEW time, NEW r \in Requests, Spent(r),
         entries' = Remembered(i, time), UNCHANGED <<now, process, stamp, token>>
  PROVE  Spent(r)'
<1> USE HostAssumption
<1>1. now \in Nat /\ stamp[r] \in Int
  BY DEF MemoryInv, HostTypeOK
<1>2. CASE Remembers(r) /\ now <= stamp[r] + Skew
  BY <1>2, ClaimsForgetNothing DEF Spent
<1>3. CASE ~ (Remembers(r) /\ now <= stamp[r] + Skew)
  BY <1>1, <1>3 DEF Spent
<1> QED
  BY <1>2, <1>3

(* Every step of the invariant but the two that may claim for a request.    *)
LEMMA CallStep == MemoryInv /\ CallInv /\ [HostNext]_systemVars => CallInv'
<1> SUFFICES ASSUME MemoryInv, CallInv, [HostNext]_systemVars PROVE CallInv'
  OBVIOUS
<1>a. FileInv'
  BY FileStep DEF CallInv
<1>b. FileInv /\ TokenInv /\ SpentInv /\ ExecutedOnce
  BY DEF CallInv
<1> SUFFICES TokenInv' /\ SpentInv' /\ ExecutedOnce'
  BY <1>a DEF CallInv
<1> USE HostAssumption
<1>1. CASE Tick
  <2>1. \A r \in Requests : Spent(r) => Spent(r)'
    BY <1>1 DEF Tick, hostVars, coreVars, Spent, Remembers, MemoryInv, HostTypeOK
  <2> QED
    BY <1>1, <1>b, <2>1 DEF Tick, hostVars, coreVars, TokenInv, SpentInv, ExecutedOnce
<1>2. CASE RemoveFile
  BY <1>2, <1>b DEF RemoveFile, coreVars, TokenInv, SpentInv, Spent, Remembers, ExecutedOnce
<1>3. ASSUME NEW h \in Hosts, CreateToken(h) PROVE TokenInv' /\ SpentInv' /\ ExecutedOnce'
  <2>1. process[h] = "new" /\ process' \in {[process EXCEPT ![h] = "created"],
                                            [process EXCEPT ![h] = "ended"]}
    BY <1>3 DEF CreateToken, Becomes
  <2>2. \A r \in Requests : token[r] \in Hosts /\ Spent(r) => Spent(r)'
    BY <1>3, <2>1 DEF CreateToken, coreVars, Spent, Remembers, MemoryInv, HostTypeOK
  <2> QED
    BY <1>3, <1>b, <2>2 DEF CreateToken, coreVars, TokenInv, SpentInv, ExecutedOnce
<1>4. ASSUME NEW h \in Hosts, Serve(h) PROVE TokenInv' /\ SpentInv' /\ ExecutedOnce'
  <2>1. \A r \in Requests : token[r] \in Hosts /\ Spent(r) => Spent(r)'
    <3>1. CASE \E other \in Hosts : process[other] = "serving"
      BY <1>4, <3>1 DEF Serve, Becomes, coreVars, Spent, Remembers, MemoryInv, HostTypeOK
    <3>2. CASE ~ \E other \in Hosts : process[other] = "serving"
      BY <1>4, <3>2 DEF Serve, Becomes, coreVars, Spent, MemoryInv, HostTypeOK
    <3> QED
      BY <3>1, <3>2
  <2> QED
    BY <1>4, <1>b, <2>1 DEF Serve, coreVars, TokenInv, SpentInv, ExecutedOnce
<1>5. ASSUME NEW h \in Hosts, StopHost(h) \/ Close(h) \/ KillHost(h)
      PROVE  TokenInv' /\ SpentInv' /\ ExecutedOnce'
  <2>1. \A r \in Requests : token[r] \in Hosts /\ Spent(r) => Spent(r)'
    BY <1>5 DEF StopHost, Close, KillHost, Becomes, coreVars, Spent, Remembers, MemoryInv, HostTypeOK
  <2> QED
    BY <1>5, <1>b, <2>1 DEF StopHost, Close, KillHost, coreVars, TokenInv, SpentInv, ExecutedOnce
<1>6. ASSUME NEW h \in Hosts, NEW probe \in Probes, Probe(h, probe)
      PROVE  TokenInv' /\ SpentInv' /\ ExecutedOnce'
  <2>1. PICK d \in - Drift .. Drift : entries' = Remembered(probe, now + d)
    BY <1>6 DEF Probe
  <2>2. \A r \in Requests : Spent(r) => Spent(r)'
    BY <1>6, <2>1, SpentStays DEF Probe, coreVars, Identities
  <2> QED
    BY <1>6, <1>b, <2>2 DEF Probe, coreVars, TokenInv, SpentInv, ExecutedOnce
<1>7. ASSUME NEW h \in Hosts, NEW r \in Requests, Arrive(h, r)
      PROVE  TokenInv' /\ SpentInv' /\ ExecutedOnce'
  <2>1. known' \in {known, [known EXCEPT ![r] = "failed"]}
    BY <1>7 DEF Arrive, Hears, Learns
  <2>2. \A q \in Requests : known[q] \notin {"new", "built"} => known'[q] \notin {"new", "built"}
    BY <2>1 DEF MemoryInv, HostTypeOK
  <2>3. CASE token[r] # h
    <3>1. UNCHANGED <<now, process, entries, executions, stamp, token, claimed>>
      BY <1>7, <2>3 DEF Arrive
    <3> QED
      BY <1>b, <2>2, <3>1 DEF TokenInv, SpentInv, Spent, Remembers, ExecutedOnce
  <2>4. CASE token[r] = h /\ ~ Claims(r, stamp[r])
    <3>1. /\ entries' = Remembered(r, stamp[r])
          /\ UNCHANGED <<now, process, executions, stamp, token, claimed>>
      BY <1>7, <2>4 DEF Arrive
    <3>2. \A q \in Requests : Spent(q) => Spent(q)'
      BY <3>1, SpentStays DEF Identities
    <3> QED
      BY <1>b, <2>2, <3>1, <3>2 DEF TokenInv, SpentInv, ExecutedOnce
  <2>5. CASE token[r] = h /\ Claims(r, stamp[r])
    <3>1. /\ process[token[r]] = "serving" /\ entries' = Remembered(r, stamp[r])
          /\ executions' \in {executions, [executions EXCEPT ![r] = @ + 1]}
          /\ claimed' = [claimed EXCEPT ![r] = TRUE]
          /\ UNCHANGED <<now, process, stamp, token>>
      BY <1>7, <2>5 DEF Arrive
    <3>2. executions[r] = 0
      BY <2>5, <3>1, <1>b, SpentIsRefused DEF SpentInv
    <3>3. \A q \in Requests : Spent(q) => Spent(q)'
      BY <3>1, SpentStays DEF Identities
    <3>4. Spent(r)'
      BY <2>5, <3>1, ClaimIsRemembered DEF Spent
    <3>5. TokenInv'
      BY <1>b, <2>2, <2>5, <3>1 DEF TokenInv, MemoryInv, HostTypeOK
    <3>6. SpentInv'
      BY <1>b, <3>1, <3>3, <3>4 DEF SpentInv, MemoryInv, HostTypeOK
    <3>7. ExecutedOnce'
      BY <1>b, <3>1, <3>2 DEF ExecutedOnce, MemoryInv, HostTypeOK
    <3> QED
      BY <3>5, <3>6, <3>7
  <2> QED
    BY <2>3, <2>4, <2>5
<1>8. ASSUME NEW h \in Hosts, NEW r \in Requests, ArriveAgain(h, r)
      PROVE  TokenInv' /\ SpentInv' /\ ExecutedOnce'
  <2>1. /\ process[token[r]] = "serving" /\ token[r] = h
        /\ entries' = Remembered(r, stamp[r])
        /\ UNCHANGED <<now, process, stamp, known, token, claimed>>
    BY <1>8 DEF ArriveAgain, coreVars
  <2>2. \A q \in Requests : Spent(q) => Spent(q)'
    BY <2>1, SpentStays DEF Identities
  <2>3. CASE ~ Claims(r, stamp[r])
    <3>1. UNCHANGED executions
      BY <1>8, <2>3 DEF ArriveAgain
    <3> QED
      BY <1>b, <2>1, <2>2, <3>1 DEF TokenInv, SpentInv, ExecutedOnce
  <2>4. CASE Claims(r, stamp[r])
    <3>1. executions' = [executions EXCEPT ![r] = @ + 1]
      BY <1>8, <2>4 DEF ArriveAgain
    <3>2. executions[r] = 0
      BY <2>1, <2>4, <1>b, SpentIsRefused DEF SpentInv
    <3>3. Spent(r)'
      BY <2>1, <2>4, ClaimIsRemembered DEF Spent
    <3>4. TokenInv'
      BY <1>b, <2>1, <3>1 DEF TokenInv, MemoryInv, HostTypeOK
    <3>5. SpentInv'
      BY <1>b, <2>1, <2>2, <3>1, <3>3 DEF SpentInv, MemoryInv, HostTypeOK
    <3>6. ExecutedOnce'
      BY <1>b, <3>1, <3>2 DEF ExecutedOnce, MemoryInv, HostTypeOK
    <3> QED
      BY <3>4, <3>5, <3>6
  <2> QED
    BY <2>3, <2>4
<1>9. ASSUME NEW r \in Requests, Build(r) PROVE TokenInv' /\ SpentInv' /\ ExecutedOnce'
  <2>1. token[r] = Nothing /\ ~ claimed[r] /\ executions[r] = 0
    BY <1>9, <1>b DEF Build, TokenInv
  <2>2. PICK d \in - Drift .. Drift : stamp' = [stamp EXCEPT ![r] = now + d]
    BY <1>9 DEF Build
  <2>3. UNCHANGED <<now, process, entries, executions, token, claimed>>
    BY <1>9 DEF Build, hostVars
  <2>4. TokenInv'
    BY <1>9, <1>b, <2>1, <2>3 DEF Build, Learns, TokenInv, MemoryInv, HostTypeOK
  <2>5. \A q \in Requests \ {r} : stamp'[q] = stamp[q]
    BY <2>2 DEF MemoryInv, HostTypeOK
  <2>6. SpentInv'
    BY <1>b, <2>1, <2>3, <2>5 DEF SpentInv, Spent, Remembers
  <2> QED
    BY <1>b, <2>3, <2>4, <2>6 DEF ExecutedOnce
<1>10. ASSUME NEW r \in Requests, SendRequest(r) PROVE TokenInv' /\ SpentInv' /\ ExecutedOnce'
  <2>1. token[r] = Nothing /\ ~ claimed[r] /\ executions[r] = 0
    BY <1>10, <1>b DEF SendRequest, TokenInv
  <2>2. UNCHANGED <<now, process, entries, executions, stamp, claimed>>
    BY <1>10 DEF SendRequest, hostVars
  <2>3. \A q \in Requests \ {r} : token'[q] = token[q] /\ known'[q] = known[q]
    BY <1>10 DEF SendRequest, Learns, MemoryInv, HostTypeOK
  <2>4. known'[r] \notin {"new", "built"}
    BY <1>10 DEF SendRequest, Learns, MemoryInv, HostTypeOK
  <2>5. TokenInv'
    BY <1>b, <2>1, <2>2, <2>3, <2>4 DEF TokenInv
  <2>6. SpentInv'
    BY <1>b, <2>1, <2>2, <2>3 DEF SpentInv, Spent, Remembers
  <2> QED
    BY <1>b, <2>2, <2>5, <2>6 DEF ExecutedOnce
<1>11. ASSUME NEW r \in Requests, NotConnected(r) \/ StopReading(r)
       PROVE  TokenInv' /\ SpentInv' /\ ExecutedOnce'
  BY <1>11, <1>b DEF NotConnected, StopReading, Unheard, Learns, hostVars, TokenInv, SpentInv,
                     Spent, Remembers, ExecutedOnce, MemoryInv, HostTypeOK
<1>12. ASSUME NEW c \in running, Finish(c) PROVE TokenInv' /\ SpentInv' /\ ExecutedOnce'
  <2>1. \A q \in Requests : known[q] \notin {"new", "built"} => known'[q] \notin {"new", "built"}
    BY <1>12 DEF Finish, Hears, Learns, Outcomes, MemoryInv, HostTypeOK
  <2> QED
    BY <1>12, <1>b, <2>1 DEF Finish, TokenInv, SpentInv, Spent, Remembers, ExecutedOnce
<1>13. CASE UNCHANGED systemVars
  BY <1>13, <1>b DEF systemVars, hostVars, coreVars, TokenInv, SpentInv, Spent, Remembers, ExecutedOnce
<1> QED
  BY <1>1, <1>2, <1>3, <1>4, <1>5, <1>6, <1>7, <1>8, <1>9, <1>10, <1>11, <1>12, <1>13 DEF HostNext

LEMMA CallInit == HostInit => CallInv
  BY DEF HostInit, CallInv, FileInv, TokenInv, SpentInv, ExecutedOnce

(* However often a request arrives, at whatever time and at whichever host, *)
(* the provider is given it once (ReplayCache.claim, HostTokenFile).        *)
THEOREM RequestsExecuteOnce == HostSpec => []ExecutedOnce
<1>1. CallInv => ExecutedOnce
  BY DEF CallInv
<1> QED
  BY <1>1, MemoryInit, MemoryStep, CallInit, CallStep, PTL DEF HostSpec

-----------------------------------------------------------------------------
(* A running call is the only one of its request, and the Core has not      *)
(* settled it while it is the one the Core sent.                            *)

RunInv ==
  /\ \A c \in running : executions[c.request] = 1
  /\ \A c, d \in running : c.request = d.request => c = d
  /\ \A c \in running : IF c.own THEN claimed[c.request] /\ known[c.request] \in {"sent", "unknown"}
                        ELSE ~ claimed[c.request]

LEMMA RunningType ==
  ASSUME MemoryInv, NEW c \in running
  PROVE  c.request \in Requests /\ c.own \in BOOLEAN
BY DEF MemoryInv, HostTypeOK

(* The calls that were running before and are the last to hear of it. *)
LEMMA RunStays ==
  ASSUME MemoryInv, RunInv, running' \subseteq running, UNCHANGED <<executions, claimed>>,
         \A c \in running' : known'[c.request] = known[c.request]
                              \/ known'[c.request] \in {"sent", "unknown"}
                              \/ ~ c.own
  PROVE  RunInv'
BY DEF RunInv

(* A call begins only for a request that was never claimed. *)
LEMMA RunBegins ==
  ASSUME MemoryInv, CallInv, RunInv, NEW h \in Hosts, NEW r \in Requests, NEW own \in BOOLEAN,
         executions[r] = 0, executions' = [executions EXCEPT ![r] = @ + 1],
         running' = running \cup {[host |-> h, request |-> r, own |-> own]},
         \A q \in Requests \ {r} : claimed'[q] = claimed[q], UNCHANGED known,
         claimed'[r] = own, own => known[r] \in {"sent", "unknown"}
  PROVE  RunInv'
<1> DEFINE new == [host |-> h, request |-> r, own |-> own]
<1>1. new.request = r /\ new.own = own
  OBVIOUS
<1>2. \A c \in running : c.request # r /\ c.request \in Requests
  BY RunningType DEF RunInv
<1>3. \A q \in Requests : executions'[q] = IF q = r THEN 1 ELSE executions[q]
  BY DEF MemoryInv, HostTypeOK
<1>4. running' = running \cup {new}
  OBVIOUS
<1> HIDE DEF new
<1>5. \A c \in running' : executions'[c.request] = 1
  BY <1>1, <1>2, <1>3, <1>4 DEF RunInv
<1>6. \A c, d \in running' : c.request = d.request => c = d
  BY <1>1, <1>2, <1>4 DEF RunInv
<1>7. \A c \in running' : IF c.own THEN claimed'[c.request] /\ known'[c.request] \in {"sent", "unknown"}
                          ELSE ~ claimed'[c.request]
  BY <1>1, <1>2, <1>4 DEF RunInv
<1> QED
  BY <1>5, <1>6, <1>7 DEF RunInv

LEMMA RunStep == MemoryInv /\ CallInv /\ RunInv /\ [HostNext]_systemVars => RunInv'
<1> SUFFICES ASSUME MemoryInv, CallInv, RunInv, [HostNext]_systemVars PROVE RunInv'
  OBVIOUS
<1>1. CASE Tick \/ RemoveFile \/ UNCHANGED systemVars
  BY <1>1, RunStays DEF Tick, RemoveFile, systemVars, hostVars, coreVars
<1>2. ASSUME NEW h \in Hosts, CreateToken(h) \/ Serve(h) \/ StopHost(h) \/ Close(h) \/ KillHost(h)
      PROVE  RunInv'
  BY <1>2, RunStays DEF CreateToken, Serve, StopHost, Close, KillHost, coreVars
<1>3. ASSUME NEW h \in Hosts, NEW probe \in Probes, Probe(h, probe) PROVE RunInv'
  BY <1>3, RunStays DEF Probe, coreVars
<1>4. ASSUME NEW h \in Hosts, NEW r \in Requests, Arrive(h, r) PROVE RunInv'
  <2>1. known[r] \in {"sent", "unknown"} /\ ~ claimed[r] /\ process[h] = "serving"
    BY <1>4 DEF Arrive
  <2>2. \A c \in running : c.own => c.request # r
    BY <2>1 DEF RunInv
  <2>3. CASE UNCHANGED <<running, executions, claimed>>
    <3>1. \A q \in Requests \ {r} : known'[q] = known[q]
      BY <1>4 DEF Arrive, Hears, Learns, MemoryInv, HostTypeOK
    <3> QED
      BY <2>2, <2>3, <3>1, RunStays, RunningType
  <2>4. CASE /\ token[r] = h /\ Claims(r, stamp[r])
             /\ claimed' = [claimed EXCEPT ![r] = TRUE]
    <3>1. executions[r] = 0
      BY <2>1, <2>4, SpentIsRefused DEF CallInv, SpentInv
    <3>2. \A c \in running : c.request # r
      BY <3>1 DEF RunInv
    <3>3. claimed'[r] = TRUE /\ \A q \in Requests \ {r} : claimed'[q] = claimed[q]
      BY <2>4 DEF MemoryInv, HostTypeOK
    <3>4. CASE UNCHANGED <<running, executions>>
      <4>1. \A q \in Requests \ {r} : known'[q] = known[q]
        BY <1>4 DEF Arrive, Hears, Learns, MemoryInv, HostTypeOK
      <4> QED
        BY <3>2, <3>3, <3>4, <4>1, RunningType DEF RunInv
    <3>5. CASE /\ running' = running \cup {[host |-> h, request |-> r, own |-> TRUE]}
               /\ executions' = [executions EXCEPT ![r] = @ + 1]
               /\ UNCHANGED known
      BY <2>1, <3>1, <3>3, <3>5, RunBegins
    <3> QED
      BY <1>4, <2>4, <3>4, <3>5 DEF Arrive
  <2> QED
    BY <1>4, <2>3, <2>4 DEF Arrive
<1>5. ASSUME NEW h \in Hosts, NEW r \in Requests, ArriveAgain(h, r) PROVE RunInv'
  <2>1. process[token[r]] = "serving" /\ UNCHANGED <<known, claimed>>
    BY <1>5 DEF ArriveAgain, coreVars
  <2>2. CASE ~ Claims(r, stamp[r])
    BY <1>5, <2>1, <2>2, RunStays DEF ArriveAgain
  <2>3. CASE Claims(r, stamp[r])
    <3>1. executions[r] = 0 /\ claimed[r] = FALSE
      BY <2>1, <2>3, SpentIsRefused DEF CallInv, SpentInv, MemoryInv, HostTypeOK
    <3>2. /\ running' = running \cup {[host |-> h, request |-> r, own |-> FALSE]}
          /\ executions' = [executions EXCEPT ![r] = @ + 1]
      BY <1>5, <2>3 DEF ArriveAgain
    <3> QED
      BY <2>1, <3>1, <3>2, RunBegins
  <2> QED
    BY <2>2, <2>3
<1>6. ASSUME NEW r \in Requests, Build(r) \/ SendRequest(r) \/ NotConnected(r) PROVE RunInv'
  <2>1. /\ UNCHANGED <<running, executions, claimed>>
        /\ \A q \in Requests \ {r} : known'[q] = known[q]
    BY <1>6 DEF Build, SendRequest, NotConnected, Learns, hostVars, MemoryInv, HostTypeOK
  <2>2. \A c \in running : c.own => c.request # r
    BY <1>6 DEF Build, SendRequest, NotConnected, RunInv
  <2> QED
    BY <2>1, <2>2, RunStays, RunningType
<1>7. ASSUME NEW r \in Requests, StopReading(r) PROVE RunInv'
  <2>1. /\ UNCHANGED <<running, executions, claimed>>
        /\ \A q \in Requests : known'[q] = known[q] \/ known'[q] = "unknown"
    BY <1>7 DEF StopReading, Unheard, Learns, hostVars, MemoryInv, HostTypeOK
  <2> QED
    BY <2>1, RunStays, RunningType
<1>8. ASSUME NEW c \in running, Finish(c) PROVE RunInv'
  <2>1. running' = running \ {c} /\ UNCHANGED <<executions, claimed>>
    BY <1>8 DEF Finish
  <2>2. \A q \in Requests \ {c.request} : known'[q] = known[q]
    BY <1>8, RunningType DEF Finish, Hears, Learns, MemoryInv, HostTypeOK
  <2>3. \A d \in running' : d.request # c.request
    BY <2>1 DEF RunInv
  <2> QED
    BY <2>1, <2>2, <2>3, RunStays, RunningType
<1> QED
  BY <1>1, <1>2, <1>3, <1>4, <1>5, <1>6, <1>7, <1>8 DEF HostNext

(* When the Core takes a call that passed the claim for settled, the         *)
(* provider is not executing it: nothing is billed behind its back           *)
(* (ai_provider_client.py, outcome_unknown).                                 *)
THEOREM SettledIsOver == HostSpec => []KnownMeansOver
<1>1. HostInit => RunInv
  BY DEF HostInit, RunInv
<1>2. RunInv => KnownMeansOver
  BY DEF RunInv, KnownMeansOver
<1> QED
  BY <1>1, <1>2, MemoryInit, MemoryStep, CallInit, CallStep, RunStep, PTL DEF HostSpec
=============================================================================
