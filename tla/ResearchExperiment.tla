------------------------- MODULE ResearchExperiment -------------------------
(***************************************************************************)
(* A research experiment, the backtest runs linked to it and the           *)
(* comparison of them (research/repository.py, research/comparability.py,  *)
(* api/experiments.py), and the paper session beside it: the records that  *)
(* an analysis reads while they change.                                    *)
(*                                                                         *)
(* Time is the number of changes so far; every change has an instant of    *)
(* its own.  What a text says is left out.                                 *)
(*                                                                         *)
(* An update is refused when the experiment is active, a link when there   *)
(* are MAX_EXPERIMENT_RUNS, but this is read in a transaction before the   *)
(* one that writes.  Every experiment passes when it is new, so a request  *)
(* that was slow may write at any time: the writes have no such guard.     *)
(* Comparability is preceded by a faulty variant of it.                    *)
(***************************************************************************)
EXTENDS Integers, Sequences, FiniteSets, FiniteSetsExt, SequencesExt

CONSTANTS
  Runs,         \* backtest runs
  Environment,  \* of each run: data, calendar, date range and engine
  Terms,        \* of each run: cash, fees, slippage, participation, instruments
  Roles,        \* bound: the roles a request gives
  Starts,       \* bound: the worlds at time 0, [status, links] each
  Horizon,      \* bound: changes
  None

Ended == {"SUCCEEDED", "FAILED"}

ASSUME ExperimentAssumption ==
  /\ None \notin Int /\ Horizon \in Nat
  /\ \A start \in Starts :
       /\ start.status \in [Runs -> Ended \cup {"PENDING", "RUNNING"}]
       /\ start.links \in Seq([run : Runs, role : Roles \cup {"CANDIDATE"}, created : {0}])

VARIABLES
  now,
  run,          \* each run: status, completed_at, when the row changed, and when the
                \* rows of its artifacts were written
  experiment,   \* updated_at of the experiment
  links,        \* ExperimentRunLink by created_at: run, role, created_at
  relinked,     \* when the links last changed (not in the code)
  session       \* updated_at of the paper session

world == <<now, run, experiment, links, relinked, session>>

WorldInit ==
  /\ now = 0
  /\ \E start \in Starts :
       /\ run = [r \in Runs |-> [status |-> start.status[r], changed |-> 0,
                                 completed |-> IF start.status[r] \in Ended THEN 0 ELSE None,
                                 written |-> IF start.status[r] = "SUCCEEDED" THEN 0 ELSE None]]
       /\ links = start.links
  /\ experiment = 0 /\ relinked = 0 /\ session = 0

Change == now < Horizon /\ now' = now + 1

-----------------------------------------------------------------------------
(* Runs and the session                                                    *)

\* BacktestRepository._transition: a run that succeeded stays as it is
Transition(r, status, completed) ==
  /\ run[r].status # "SUCCEEDED"
  /\ run' = [run EXCEPT ![r].status = status, ![r].changed = now',
                        ![r].completed = IF completed THEN now' ELSE @]

\* add_artifacts: the rows of a run are written together, and once
AddArtifacts(r) == /\ run[r].written = None
                   /\ run' = [run EXCEPT ![r].written = now']

\* a run that failed is taken up again, and keeps its completed_at until it
\* ends anew; a second request that was at work on it may write its artifacts
\* and end it as well
RunBacktest(r) ==
  /\ Change
  /\ \/ run[r].status \in {"PENDING", "FAILED"} /\ Transition(r, "RUNNING", FALSE)
     \/ /\ run[r].status \in {"RUNNING", "FAILED"}
        /\ \/ AddArtifacts(r) \/ Transition(r, "FAILED", TRUE)
           \/ run[r].written # None /\ Transition(r, "SUCCEEDED", TRUE)
  /\ UNCHANGED <<experiment, links, relinked, session>>

\* every change of a session moves its version and updated_at together
ChangeSession == /\ Change /\ session' = now'
                 /\ UNCHANGED <<run, experiment, links, relinked>>

-----------------------------------------------------------------------------
(* The experiment                                                          *)

LinkOf(r) == {i \in DOMAIN links : links[i].run = r}

UpdateExperiment == /\ Change /\ experiment' = now'
                    /\ UNCHANGED <<run, links, relinked, session>>

\* a new baseline makes a candidate of the old one
Demoted(role) == IF role # "BASELINE" THEN links
                 ELSE [i \in DOMAIN links |->
                         IF links[i].role = "BASELINE"
                         THEN [links[i] EXCEPT !.role = "CANDIDATE"] ELSE links[i]]

\* the three that follow leave updated_at alone
AddRun == /\ Change /\ relinked' = now'
          /\ \E r \in Runs, role \in Roles :
               /\ LinkOf(r) = {}
               /\ links' = Append(Demoted(role), [run |-> r, role |-> role, created |-> now'])
          /\ UNCHANGED <<run, experiment, session>>

UpdateRunLink == /\ Change /\ relinked' = now'
                 /\ \E i \in DOMAIN links, role \in Roles :
                      links' = [IF links[i].role = "BASELINE" THEN links ELSE Demoted(role)
                                  EXCEPT ![i].role = role]
                 /\ UNCHANGED <<run, experiment, session>>

RemoveRunLink == /\ Change /\ relinked' = now'
                 /\ \E i \in DOMAIN links : links' = RemoveAt(links, i)
                 /\ UNCHANGED <<run, experiment, session>>

WorldNext ==
  \/ \E r \in Runs : RunBacktest(r)
  \/ ChangeSession \/ UpdateExperiment \/ AddRun \/ UpdateRunLink \/ RemoveRunLink

-----------------------------------------------------------------------------
(* The comparison                                                          *)

ComparabilityUnfinished(base, r, status) ==
  IF Environment[base] # Environment[r] THEN "NOT_COMPARABLE"
  ELSE IF Terms[base] = Terms[r] THEN "STRICTLY_COMPARABLE" ELSE "PARTIALLY_COMPARABLE"

\* BacktestComparabilityService.compute; status is what was read of the runs
Comparability(base, r, status) ==
  IF Environment[base] # Environment[r] \/ {status[base], status[r]} # {"SUCCEEDED"}
  THEN "NOT_COMPARABLE"
  ELSE IF Terms[base] = Terms[r] THEN "STRICTLY_COMPARABLE" ELSE "PARTIALLY_COMPARABLE"

Linked(ls) == {ls[i].run : i \in DOMAIN ls}
Baseline(ls) == LET B == {i \in DOMAIN ls : ls[i].role = "BASELINE"}
                IN IF B = {} THEN None ELSE ls[Min(B)].run

\* BacktestComparisonService.compare
RankingAllowed(ls, status) ==
  /\ Baseline(ls) # None
  /\ \A r \in Linked(ls) \ {Baseline(ls)} :
       Comparability(Baseline(ls), r, status) = "STRICTLY_COMPARABLE"
=============================================================================
