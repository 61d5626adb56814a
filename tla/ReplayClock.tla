----------------------------- MODULE ReplayClock -----------------------------
(***************************************************************************)
(* What the advance endpoint of a paper session promises, with every       *)
(* detail left out: a replay clock that moves one trading day at a time,   *)
(* and an idempotency key that is spent on at most one day.                *)
(* PaperSession implements it (see the instance Clock there).              *)
(***************************************************************************)
EXTENDS Naturals

CONSTANTS
  Keys,      \* idempotency keys a client may send with an advance request
  LastDay    \* number of trading days in the replay range

VARIABLES
  day,       \* last day processed, 0 before the first
  spent,     \* the day each key advanced to, 0 while it advanced none
  failed     \* keys whose advance failed for good

clockVars == <<day, spent, failed>>

ClockInit ==
  /\ day = 0
  /\ spent = [k \in Keys |-> 0]
  /\ failed = {}

(* A fresh key moves the clock to the very next day. *)
Tick(k) ==
  /\ day < LastDay
  /\ spent[k] = 0
  /\ k \notin failed
  /\ day' = day + 1
  /\ spent' = [spent EXCEPT ![k] = day + 1]
  /\ UNCHANGED failed

(* A failed request leaves the clock where it is and burns its key. *)
Burn(k) ==
  /\ failed' = failed \cup {k}
  /\ UNCHANGED <<day, spent>>

ClockNext == \E k \in Keys : Tick(k) \/ Burn(k)

ClockSpec == ClockInit /\ [][ClockNext]_clockVars
=============================================================================
