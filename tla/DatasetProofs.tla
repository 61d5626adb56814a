--------------------------- MODULE DatasetProofs ----------------------------
(***************************************************************************)
(* Proofs about DatasetPublication and about MarketProfile, for every      *)
(* value of their constants: no bound on the number of batches, versions,  *)
(* calendars, files, days or overlapping requests.                         *)
(***************************************************************************)
EXTENDS DatasetPublication, MarketProfile, FiniteSetTheorems, TLAPS

-----------------------------------------------------------------------------
(* The fields of a request in progress. *)
LEMMA BusyCall ==
  ASSUME TypeOK, NEW c \in Publishers, call[c].at # "idle"
  PROVE  call[c] \in [at : Stage, batch : Batches, written : SUBSET Items]
  BY DEF TypeOK, Call, Idle

(* A request that takes its next step, or returns, is still a request. *)
LEMMA GotoType ==
  ASSUME TypeOK, NEW c \in Publishers, call[c].at # "idle",
         NEW s \in Stage, Goto(c, s)
  PROVE  call' \in [Publishers -> Call]
<1>1. [at |-> s, batch |-> call[c].batch, written |-> {}] \in Call
  BY BusyCall DEF Call
<1> QED
  BY <1>1 DEF Goto, TypeOK

(* A request that returns leaves an idle thread. *)
LEMMA ReturnType ==
  ASSUME TypeOK, NEW c \in Publishers, Return(c)
  PROVE  call' \in [Publishers -> Call]
  BY DEF TypeOK, Return, Call

(* The three ways the rows of one version are written. *)
LEMMA RowsType ==
  ASSUME TypeOK, NEW b \in Batches,
         FailRows(b) \/ Publish(b) \/ UNCHANGED rowVars
  PROVE  /\ batch' \in [Batches -> BatchStatus]
         /\ status' \in [Batches -> VersionStatus]
         /\ number' \in [Batches -> Nat]
<1>1. /\ {"PUBLISHED", "PUBLISH_FAILED"} \subseteq BatchStatus
      /\ {"PUBLISHED", "FAILED"} \subseteq VersionStatus
  BY DEF BatchStatus, VersionStatus
<1> QED
  BY <1>1 DEF TypeOK, FailRows, Publish, rowVars

(* An empty store with previewed batches is well typed. *)
LEMMA TypeInit == Init => TypeOK
<1> SUFFICES ASSUME Init PROVE TypeOK
  OBVIOUS
<1>1. Missing \in Directory /\ Idle \in Call /\ 0 \in 0 .. MaxCrashes
  BY PublicationAssumption DEF Missing, Directory, Call
<1> QED
  BY <1>1 DEF Init, TypeOK, BatchStatus, VersionStatus

(* Every step of publication and recovery keeps the state well typed. *)
LEMMA TypeStep == TypeOK /\ [Next]_vars => TypeOK'
<1> SUFFICES ASSUME TypeOK, [Next]_vars PROVE TypeOK'
  OBVIOUS
<1> USE DEF rowVars, fileVars
<1>1. ASSUME NEW c \in Publishers, NEW b \in Batches, Claim(c, b)
      PROVE  TypeOK'
  <2>1. [at |-> "clear", batch |-> b, written |-> {}] \in Call
    BY DEF Call, Stage
  <2>2. call' \in [Publishers -> Call]
    BY <1>1, <2>1 DEF Claim, TypeOK
  <2>3. /\ batch' \in [Batches -> BatchStatus]
        /\ status' \in [Batches -> VersionStatus]
        /\ number' \in [Batches -> Nat]
    BY <1>1 DEF Claim, TypeOK, BatchStatus, VersionStatus
  <2> QED
    BY <1>1, <2>2, <2>3 DEF Claim, TypeOK
<1>2. ASSUME NEW c \in Publishers, ClearStaging(c)
      PROVE  TypeOK'
  <2>1. call[c].batch \in Batches /\ {"make", "fail"} \subseteq Stage
    BY <1>2, BusyCall DEF ClearStaging, At, Stage
  <2>2. call' \in [Publishers -> Call]
    BY <1>2, <2>1, GotoType DEF ClearStaging, At
  <2>3. staging' \in [Batches -> Directory]
    <3>1. CASE staging' = [staging EXCEPT ![call[c].batch] = Missing]
      BY <3>1, <2>1 DEF TypeOK, Missing, Directory
    <3>2. ASSUME NEW left \in SUBSET staging[call[c].batch].items,
                 staging' = [staging EXCEPT ![call[c].batch] = Holding(left)]
          PROVE  staging' \in [Batches -> Directory]
      <4>1. staging[call[c].batch] \in Directory
        BY <2>1 DEF TypeOK
      <4>2. Holding(left) \in Directory
        BY <4>1 DEF Holding, Directory
      <4> QED
        BY <3>2, <4>2, <2>1 DEF TypeOK
    <3> QED
      BY <1>2, <3>1, <3>2 DEF ClearStaging
  <2> QED
    BY <1>2, <2>2, <2>3 DEF ClearStaging, TypeOK
<1>3. ASSUME NEW c \in Publishers, MakeStaging(c)
      PROVE  TypeOK'
  <2>1. call[c].batch \in Batches /\ {"write", "fail"} \subseteq Stage
    BY <1>3, BusyCall DEF MakeStaging, At, Stage
  <2>2. call' \in [Publishers -> Call]
    BY <1>3, <2>1, GotoType DEF MakeStaging, At
  <2>3. Holding({}) \in Directory
    BY DEF Holding, Directory
  <2>4. staging' \in [Batches -> Directory]
    BY <1>3, <2>1, <2>3 DEF MakeStaging, TypeOK
  <2> QED
    BY <1>3, <2>2, <2>4 DEF MakeStaging, TypeOK
<1>4. ASSUME NEW c \in Publishers, NEW item \in Items, WriteItem(c, item)
      PROVE  TypeOK'
  <2>1. /\ call[c] \in [at : Stage, batch : Batches, written : SUBSET Items]
        /\ {"write", "committing", "fail"} \subseteq Stage
    BY <1>4, BusyCall DEF WriteItem, At, Stage
  <2>2. CASE item = "manifest" /\ ~staging[call[c].batch].there
    <3>1. call' \in [Publishers -> Call]
      BY <1>4, <2>1, <2>2, GotoType DEF WriteItem, At
    <3> QED
      BY <1>4, <2>2, <3>1 DEF WriteItem, TypeOK
  <2>3. CASE ~(item = "manifest" /\ ~staging[call[c].batch].there)
    <3>1. staging[call[c].batch] \in Directory
      BY <2>1 DEF TypeOK
    <3>2. staging' = [staging EXCEPT ![call[c].batch] =
                        Holding(staging[call[c].batch].items \cup {item})]
      BY <1>4, <2>3, <2>1 DEF WriteItem, TypeOK
    <3>3. Holding(staging[call[c].batch].items \cup {item}) \in Directory
      BY <3>1 DEF Holding, Directory
    <3>4. PICK s \in Stage :
            call' = [call EXCEPT ![c].written = @ \cup {item}, ![c].at = s]
      BY <1>4, <2>1, <2>3 DEF WriteItem
    <3>5. [call[c] EXCEPT !.written = @ \cup {item}, !.at = s] \in Call
      BY <2>1 DEF Call
    <3>6. call' \in [Publishers -> Call]
      BY <3>4, <3>5 DEF TypeOK
    <3>7. staging' \in [Batches -> Directory]
      BY <3>2, <3>3, <2>1 DEF TypeOK
    <3> QED
      BY <1>4, <3>6, <3>7 DEF WriteItem, TypeOK
  <2> QED
    BY <2>2, <2>3
<1>5. ASSUME NEW c \in Publishers, MarkCommitting(c) \/ MarkCommitted(c)
      PROVE  TypeOK'
  <2>1. /\ call[c].batch \in Batches
        /\ {"rename", "finalize", "fail"} \subseteq Stage
        /\ {"FILES_COMMITTING", "FILES_COMMITTED"} \subseteq VersionStatus
    BY <1>5, BusyCall
    DEF MarkCommitting, MarkCommitted, MarkFiles, At, Stage, VersionStatus
  <2>2. call' \in [Publishers -> Call]
    BY <1>5, <2>1, GotoType DEF MarkCommitting, MarkCommitted, MarkFiles, At
  <2>3. status' \in [Batches -> VersionStatus]
    BY <1>5, <2>1 DEF MarkCommitting, MarkCommitted, MarkFiles, TypeOK
  <2> QED
    BY <1>5, <2>2, <2>3 DEF MarkCommitting, MarkCommitted, MarkFiles, TypeOK
<1>6. ASSUME NEW c \in Publishers, Rename(c)
      PROVE  TypeOK'
  <2>1. call[c].batch \in Batches /\ {"committed", "fail"} \subseteq Stage
    BY <1>6, BusyCall DEF Rename, At, Stage
  <2>2. call' \in [Publishers -> Call]
    BY <1>6, <2>1, GotoType DEF Rename, At
  <2>3. Missing \in Directory
    BY DEF Missing, Directory
  <2>4. /\ staging' \in [Batches -> Directory]
        /\ final' \in [Batches -> Directory]
    BY <1>6, <2>1, <2>3 DEF Rename, TypeOK
  <2> QED
    BY <1>6, <2>2, <2>4 DEF Rename, TypeOK
<1>7. ASSUME NEW c \in Publishers, FinalizeRead(c) \/ Error(c) \/ MarkFailedRead(c)
      PROVE  TypeOK'
  <2>1. {"publish", "fail", "mark", "remark"} \subseteq Stage
    BY DEF Stage
  <2>2. call' \in [Publishers -> Call]
    BY <1>7, <2>1, GotoType, ReturnType
    DEF FinalizeRead, Error, MarkFailedRead, At
  <2> QED
    BY <1>7, <2>2 DEF FinalizeRead, Error, MarkFailedRead, TypeOK
<1>8. ASSUME NEW c \in Publishers, FinalizeWrite(c)
      PROVE  TypeOK'
  <2>1. call[c].batch \in Batches /\ "fail" \in Stage
    BY <1>8, BusyCall DEF FinalizeWrite, At, Stage
  <2>2. call' \in [Publishers -> Call]
    BY <1>8, <2>1, GotoType, ReturnType DEF FinalizeWrite, At
  <2> QED
    BY <1>8, <2>1, <2>2, RowsType DEF FinalizeWrite, TypeOK
<1>9. ASSUME NEW c \in Publishers, MarkFailedWrite(c)
      PROVE  TypeOK'
  <2>1. call[c].batch \in Batches
    BY <1>9, BusyCall DEF MarkFailedWrite, At
  <2>2. call' \in [Publishers -> Call]
    BY <1>9, ReturnType DEF MarkFailedWrite
  <2>3. /\ batch' \in [Batches -> BatchStatus]
        /\ status' \in [Batches -> VersionStatus]
        /\ number' \in [Batches -> Nat]
    BY <1>9, <2>1, RowsType DEF MarkFailedWrite, TypeOK, BatchStatus
  <2> QED
    BY <1>9, <2>2, <2>3 DEF MarkFailedWrite, TypeOK
<1>10. ASSUME NEW c \in Publishers, Abandon(c)
       PROVE  TypeOK'
  BY <1>10, ReturnType DEF Abandon, TypeOK
<1>11. ASSUME NEW b \in Batches, Recover(b)
       PROVE  TypeOK'
  <2>1. FailRows(b) \/ Publish(b) \/ UNCHANGED rowVars
    BY <1>11 DEF Recover, Settle
  <2> QED
    BY <1>11, <2>1, RowsType DEF Recover, TypeOK
<1>12. CASE Crash
  BY <1>12, PublicationAssumption DEF Crash, TypeOK, Call
<1>13. CASE UNCHANGED vars
  BY <1>13 DEF vars, TypeOK
<1> QED
  BY <1>1, <1>2, <1>3, <1>4, <1>5, <1>6, <1>7, <1>8, <1>9, <1>10, <1>11, <1>12,
     <1>13
  DEF Next, Progress

(* Rows, directories and requests keep the shapes the code gives them. *)
THEOREM PublicationTypeCorrect == Spec => []TypeOK
  BY TypeInit, TypeStep, PTL DEF Spec

-----------------------------------------------------------------------------
(***************************************************************************)
(* The rows, with any number of requests.  What makes BatchNeverAhead and  *)
(* the catalog inductive is that a request in progress, and recovery, only *)
(* touch a version that has been claimed, which has its number.            *)
(***************************************************************************)
Claimed ==
  /\ \A b \in Batches : status[b] = "NONE" <=> number[b] = 0
  /\ \A c \in Publishers : call[c].at # "idle" => status[call[c].batch] # "NONE"

RowsInv == TypeOK /\ Claimed /\ BatchNeverAhead

(* What a step other than a claim can do to the rows of one version. *)
RowEffect(b) ==
  \/ FailRows(b)
  \/ status[b] # "PUBLISHED" /\ Publish(b)
  \/ /\ status[b] # "PUBLISHED"
     /\ \E s \in {"FILES_COMMITTING", "FILES_COMMITTED"} :
          status' = [status EXCEPT ![b] = s]
     /\ UNCHANGED <<batch, number>>
  \/ /\ batch' = [batch EXCEPT ![b] = "PUBLISH_FAILED"]
     /\ UNCHANGED <<status, number>>

(* No request begins or changes its batch. *)
CallsGoOn ==
  \A c \in Publishers :
    call'[c].at # "idle" => call[c].at # "idle" /\ call'[c].batch = call[c].batch

(* A request that takes its next step, or returns, begins no other. *)
LEMMA GoOn ==
  ASSUME TypeOK, NEW c \in Publishers, call[c].at # "idle",
         (\E s \in Stage : Goto(c, s)) \/ Return(c)
  PROVE  CallsGoOn
<1>1. call[c] \in [at : Stage, batch : Batches, written : SUBSET Items]
  BY BusyCall
<1>2. CASE Return(c)
  BY <1>2 DEF TypeOK, Return, CallsGoOn, Idle
<1>3. ASSUME NEW s \in Stage, Goto(c, s)
      PROVE  CallsGoOn
  BY <1>1, <1>3 DEF Goto, TypeOK, CallsGoOn
<1> QED
  BY <1>2, <1>3

(* A step claims a batch, or leaves the rows alone, or has a RowEffect on  *)
(* one version that has been claimed.                                      *)
LEMMA RowsMove ==
  ASSUME RowsInv, [Next]_vars
  PROVE  \/ \E c \in Publishers, b \in Batches : Claim(c, b)
         \/ CallsGoOn /\ UNCHANGED rowVars
         \/ CallsGoOn /\ \E b \in Batches : status[b] # "NONE" /\ RowEffect(b)
<1> DEFINE Moves == \/ CallsGoOn /\ UNCHANGED rowVars
                    \/ CallsGoOn /\ \E b \in Batches :
                          status[b] # "NONE" /\ RowEffect(b)
<1> USE DEF RowsInv
<1>s. {"make", "write", "committing", "rename", "committed", "finalize",
       "publish", "fail", "mark", "remark"} \subseteq Stage
  BY DEF Stage
<1>b. ASSUME NEW c \in Publishers, call[c].at # "idle"
      PROVE  call[c].batch \in Batches /\ status[call[c].batch] # "NONE"
  BY <1>b, BusyCall DEF Claimed
<1>1. ASSUME NEW c \in Publishers, ClearStaging(c) \/ MakeStaging(c) \/ Rename(c)
                                   \/ FinalizeRead(c) \/ MarkFailedRead(c)
                                   \/ Abandon(c) \/ Error(c)
      PROVE  Moves
  BY <1>1, <1>s, GoOn
  DEF ClearStaging, MakeStaging, Rename, FinalizeRead, MarkFailedRead, Abandon,
      Error, At
<1>2. ASSUME NEW c \in Publishers, NEW item \in Items, WriteItem(c, item)
      PROVE  Moves
  <2>1. call[c] \in [at : Stage, batch : Batches, written : SUBSET Items]
    BY <1>2, BusyCall DEF WriteItem, At
  <2>2. CallsGoOn
    <3>1. CASE Goto(c, "fail")
      BY <1>2, <1>s, <3>1, GoOn DEF WriteItem, At
    <3>2. ASSUME NEW s \in Stage,
                 call' = [call EXCEPT ![c].written = @ \cup {item}, ![c].at = s]
          PROVE  CallsGoOn
      <4>1. call' = [call EXCEPT ![c] =
                       [call[c] EXCEPT !.written = @ \cup {item}, !.at = s]]
        BY <3>2, <2>1 DEF TypeOK
      <4> QED
        BY <4>1, <2>1, <1>2 DEF TypeOK, CallsGoOn, WriteItem, At
    <3> QED
      BY <1>2, <1>s, <3>1, <3>2 DEF WriteItem
  <2> QED
    BY <1>2, <2>2 DEF WriteItem
<1>3. ASSUME NEW c \in Publishers, MarkCommitting(c) \/ MarkCommitted(c)
      PROVE  Moves
  <2>1. CallsGoOn
    BY <1>3, <1>s, GoOn DEF MarkCommitting, MarkCommitted, MarkFiles, At
  <2>2. UNCHANGED rowVars \/ RowEffect(call[c].batch)
    BY <1>3 DEF MarkCommitting, MarkCommitted, MarkFiles, RowEffect, rowVars
  <2> QED
    BY <1>3, <2>1, <2>2, <1>b DEF MarkCommitting, MarkCommitted, MarkFiles, At
<1>4. ASSUME NEW c \in Publishers, FinalizeWrite(c)
      PROVE  Moves
  <2>1. CallsGoOn
    BY <1>4, <1>s, GoOn DEF FinalizeWrite, At
  <2>2. UNCHANGED rowVars \/ RowEffect(call[c].batch)
    BY <1>4 DEF FinalizeWrite, RowEffect
  <2> QED
    BY <1>4, <2>1, <2>2, <1>b DEF FinalizeWrite, At
<1>5. ASSUME NEW c \in Publishers, MarkFailedWrite(c)
      PROVE  Moves
  <2>1. CallsGoOn
    BY <1>5, <1>s, GoOn DEF MarkFailedWrite, At
  <2>2. RowEffect(call[c].batch)
    BY <1>5 DEF MarkFailedWrite, RowEffect
  <2> QED
    BY <1>5, <2>1, <2>2, <1>b DEF MarkFailedWrite, At
<1>6. ASSUME NEW b \in Batches, Recover(b)
      PROVE  Moves
  <2>1. CallsGoOn
    BY <1>6 DEF Recover, CallsGoOn
  <2>2. UNCHANGED rowVars \/ (status[b] # "NONE" /\ RowEffect(b))
    BY <1>6 DEF Recover, Settle, Interrupted, Recoverable, RowEffect
  <2> QED
    BY <2>1, <2>2
<1>7. CASE Crash
  BY <1>7 DEF Crash, CallsGoOn, Idle
<1>8. CASE UNCHANGED vars
  BY <1>8 DEF vars, CallsGoOn
<1> QED
  BY <1>1, <1>2, <1>3, <1>4, <1>5, <1>6, <1>7, <1>8 DEF Next, Progress

(* The invariant of the rows holds of an empty store. *)
LEMMA RowsInit == Init => RowsInv
  BY TypeInit DEF Init, RowsInv, Claimed, BatchNeverAhead, Idle

(* Every step keeps the invariant of the rows, with any number of requests. *)
LEMMA RowsStep == RowsInv /\ [Next]_vars => RowsInv'
<1> SUFFICES ASSUME RowsInv, [Next]_vars PROVE Claimed' /\ BatchNeverAhead'
  BY TypeStep DEF RowsInv
<1> USE DEF RowsInv
<1>1. ASSUME NEW c \in Publishers, NEW b \in Batches, Claim(c, b)
      PROVE  Claimed' /\ BatchNeverAhead'
  <2>1. CASE status[b] = "NONE"
    <3>1. PICK n \in Nat : number' = [number EXCEPT ![b] = n + 1]
      BY <1>1, <2>1 DEF Claim, TypeOK
    <3>2. /\ status' = [status EXCEPT ![b] = "VALIDATING"]
          /\ batch' = [batch EXCEPT ![b] = "PUBLISHING"]
          /\ call' = [call EXCEPT ![c] =
                        [at |-> "clear", batch |-> b, written |-> {}]]
      BY <1>1, <2>1 DEF Claim
    <3>3. \A d \in Publishers : call[d].at # "idle" => call[d].batch \in Batches
      BY BusyCall
    <3>4. Claimed'
      BY <3>1, <3>2, <3>3 DEF Claimed, TypeOK
    <3> QED
      BY <3>2, <3>4 DEF BatchNeverAhead, TypeOK
  <2>2. CASE status[b] # "NONE"
    BY <1>1, <2>2 DEF Claim, Claimed, BatchNeverAhead, TypeOK, rowVars
  <2> QED
    BY <2>1, <2>2
<1>2. CASE CallsGoOn /\ UNCHANGED rowVars
  BY <1>2 DEF CallsGoOn, Claimed, BatchNeverAhead, rowVars
<1>3. ASSUME CallsGoOn, NEW b \in Batches, status[b] # "NONE", RowEffect(b)
      PROVE  Claimed' /\ BatchNeverAhead'
  <2>1. \A a \in Batches : status'[a] = "NONE" <=> status[a] = "NONE"
    BY <1>3 DEF RowEffect, FailRows, Publish, TypeOK, rowVars
  <2>2. number' = number
    BY <1>3 DEF RowEffect, FailRows, Publish, rowVars
  <2>3. \A d \in Publishers : call[d].at # "idle" => call[d].batch \in Batches
    BY BusyCall
  <2>4. Claimed'
    BY <1>3, <2>1, <2>2, <2>3 DEF Claimed, CallsGoOn
  <2>5. BatchNeverAhead'
    BY <1>3 DEF RowEffect, FailRows, Publish, BatchNeverAhead, TypeOK, rowVars
  <2> QED
    BY <2>4, <2>5
<1> QED
  BY <1>1, <1>2, <1>3, RowsMove

(* The inductive invariant of the version and batch rows holds always,     *)
(* however many publish requests overlap and wherever the process dies.    *)
THEOREM RowsInvariant == Spec => []RowsInv
  BY RowsInit, RowsStep, PTL DEF Spec

(* However many requests publish the same batch, fail or are recovered, a  *)
(* batch is never PUBLISHED before its version, and never hides a failure. *)
THEOREM BatchNeverClaimsTooMuch == Spec => []BatchNeverAhead
<1>1. RowsInv => BatchNeverAhead
  BY DEF RowsInv
<1> QED
  BY RowsInvariant, <1>1, PTL

-----------------------------------------------------------------------------
(* The catalog: initial states, then one step for a claim, one for each    *)
(* way a version can become PUBLISHED, and a stutter for the rest.         *)
LEMMA CatalogInitially == Init => Catalog!CatalogInit
  BY DEF Init, Catalog!CatalogInit

(* A claim registers a version, a publication reveals it, and every other  *)
(* step leaves what readers see alone.                                     *)
LEMMA CatalogStep ==
  ASSUME RowsInv, [Next]_vars
  PROVE  [Catalog!CatalogNext]_(Catalog!catalogVars)
<1> DEFINE revealed == {b \in Batches : status[b] = "PUBLISHED"}
<1> USE DEF RowsInv
<1>1. ASSUME NEW c \in Publishers, NEW b \in Batches, Claim(c, b)
      PROVE  Catalog!CatalogNext \/ UNCHANGED Catalog!catalogVars
  <2>1. CASE status[b] = "NONE"
    <3>1. number[b] = 0
      BY <2>1 DEF Claimed
    <3>2. PICK n \in {number[a] : a \in Batches} \cup {0} :
            HighestNumber(n) /\ number' = [number EXCEPT ![b] = n + 1]
      BY <1>1, <2>1 DEF Claim
    <3>3. revealed' = revealed
      BY <1>1, <2>1 DEF Claim, TypeOK
    <3>4. Catalog!Register(b)
      BY <3>1, <3>2, <3>3 DEF Catalog!Register, HighestNumber
    <3> QED
      BY <3>4 DEF Catalog!CatalogNext
  <2>2. CASE status[b] # "NONE"
    BY <1>1, <2>2 DEF Claim, rowVars, Catalog!catalogVars
  <2> QED
    BY <2>1, <2>2
<1>2. CASE UNCHANGED rowVars
  BY <1>2 DEF rowVars, Catalog!catalogVars
<1>3. ASSUME NEW b \in Batches, status[b] # "NONE", RowEffect(b)
      PROVE  Catalog!CatalogNext \/ UNCHANGED Catalog!catalogVars
  <2>1. number' = number
    BY <1>3 DEF RowEffect, FailRows, Publish, rowVars
  <2>2. CASE status[b] # "PUBLISHED" /\ Publish(b)
    <3>1. revealed' = revealed \cup {b} /\ b \notin revealed
      BY <2>2 DEF Publish, TypeOK
    <3>2. number[b] # 0
      BY <1>3 DEF Claimed
    <3>3. Catalog!Reveal(b)
      BY <2>1, <3>1, <3>2 DEF Catalog!Reveal
    <3> QED
      BY <3>3 DEF Catalog!CatalogNext
  <2>3. CASE ~(status[b] # "PUBLISHED" /\ Publish(b))
    <3>1. revealed' = revealed
      BY <1>3, <2>3 DEF RowEffect, FailRows, TypeOK, rowVars
    <3> QED
      BY <2>1, <3>1 DEF Catalog!catalogVars
  <2> QED
    BY <2>2, <2>3
<1> QED
  BY <1>1, <1>2, <1>3, RowsMove

(* Readers of a dataset see an append-only catalog numbered without gaps,  *)
(* whatever overlaps, fails or dies on the way.                            *)
THEOREM PublicationImplementsCatalog == Spec => PublishesToCatalog
<1>1. RowsInv /\ [Next]_vars => [Catalog!CatalogNext]_(Catalog!catalogVars)
  BY CatalogStep
<1> QED
  BY CatalogInitially, RowsInvariant, <1>1, PTL
  DEF Spec, PublishesToCatalog, Catalog!CatalogSpec

-----------------------------------------------------------------------------
(***************************************************************************)
(* The files of the batches that no two requests have worked on at once,   *)
(* while any number of requests work on others.  What such a batch's files *)
(* hold depends on the step its one request has reached, and while         *)
(* recovery runs there is no request and every such version it has left    *)
(* behind is accounted for.                                                *)
(***************************************************************************)
RequestInv(c) ==
  LET b == call[c].batch IN
  call[c].at # "idle" /\ b \notin shared =>
    /\ call[c].at \in {"clear", "make"} => call[c].written = {}
    /\ call[c].at = "write" => staging[b] = Holding(call[c].written)
    /\ call[c].at \in {"committing", "rename"} => staging[b] = Holding(Items)
    /\ call[c].at \in {"committed", "finalize", "publish"} => final[b].items = Items
    /\ call[c].at = "remark" => status[b] = "FAILED"

(* One request at most works on a batch that was never shared. *)
Alone ==
  \A b \in Batches \ shared : \A c, d \in Publishers :
    Working(c, b) /\ Working(d, b) => c = d

(* All or none of the files are published, the row claims no more than     *)
(* there is, and the batch keeps up with the row.                          *)
FilesOk(b) ==
  /\ final[b] \in {Missing, Holding(Items)}
  /\ status[b] \in {"FILES_COMMITTED", "PUBLISHED"} => final[b].items = Items
  /\ status[b] = "PUBLISHED" => batch[b] = "PUBLISHED"

RecoveryInv ==
  recover # {} =>
    /\ \A c \in Publishers : call[c].at = "idle"
    /\ \A b \in Batches \ (recover \cup shared) : Settled(b) \/ OnlyMoved(b)

FilesInv ==
  /\ RowsInv
  /\ Alone
  /\ \A c \in Publishers : RequestInv(c)
  /\ \A b \in Batches \ shared : FilesOk(b)
  /\ RecoveryInv

(* A request at work means that recovery is over. *)
LEMMA RecoveryIsOver ==
  ASSUME FilesInv, NEW c \in Publishers, call[c].at # "idle"
  PROVE  recover = {}
  BY DEF FilesInv, RecoveryInv

(* The invariant of rows and files holds of an empty store. *)
LEMMA FilesInit == Init => FilesInv
<1> SUFFICES ASSUME Init PROVE FilesInv
  OBVIOUS
<1>1. \A c \in Publishers : call[c].at = "idle"
  BY DEF Init, Idle
<1>2. \A c \in Publishers : RequestInv(c)
  BY <1>1 DEF RequestInv
<1> QED
  BY <1>1, <1>2, RowsInit
  DEF Init, FilesInv, Alone, Working, FilesOk, RecoveryInv

(* Recovering one version accounts for it and disturbs no other. *)
LEMMA RecoverOne ==
  ASSUME FilesInv, NEW b \in Batches, Recover(b)
  PROVE  \A a \in ((Batches \ recover) \cup {b}) \ shared :
           Settled(a)' \/ OnlyMoved(a)'
<1>1. TypeOK /\ UNCHANGED <<staging, final>> /\ b \in recover
  BY DEF FilesInv, RowsInv, Recover, fileVars
<1>2. \A a \in Batches \ {b} : status'[a] = status[a]
  BY <1>1 DEF Recover, Settle, FailRows, Publish, rowVars, TypeOK
<1>3. ASSUME b \notin shared
      PROVE  (Settled(b) \/ OnlyMoved(b))'
  <2>f. FilesOk(b)
    BY <1>3 DEF FilesInv
  <2>1. CASE Interrupted(b) \/ Recoverable(b)
    BY <2>1, <1>1
    DEF Recover, Settle, FailRows, Publish, Settled, Interrupted, Recoverable,
        TypeOK, rowVars
  <2>2. CASE ~Interrupted(b) /\ ~Recoverable(b)
    <3>1. UNCHANGED rowVars
      BY <2>2 DEF Recover, Settle
    <3>2. status[b] \in VersionStatus
      BY <1>1 DEF TypeOK
    <3>3. final[b] \in {Missing, Holding(Items)} /\ Items # {}
      BY <2>f DEF FilesOk, Items
    <3>4. CASE status[b] \in {"VALIDATING", "FILES_COMMITTING"}
      BY <3>3, <3>4, <2>2, <1>1
      DEF Interrupted, OnlyMoved, Missing, Holding
    <3>5. CASE status[b] = "FILES_COMMITTED"
      BY <3>3, <3>5, <2>2, <2>f
      DEF Recoverable, FilesOk, Missing, Holding
    <3>6. CASE Settled(b)
      BY <3>6, <3>1 DEF Settled, rowVars
    <3> QED
      BY <3>2, <3>4, <3>5, <3>6 DEF VersionStatus, Settled
  <2> QED
    BY <2>1, <2>2
<1> QED
  BY <1>1, <1>2, <1>3 DEF FilesInv, RecoveryInv, Settled, OnlyMoved

(* A step of a request touches the rows and files of its own batch only.   *)
LEMMA OwnBatchOnly ==
  ASSUME FilesInv, NEW c \in Publishers, Progress(c)
  PROVE  /\ call[c] \in [at : Stage, batch : Batches, written : SUBSET Items]
         /\ call[c].at # "idle"
         /\ UNCHANGED <<recover, shared>>
         /\ \A d \in Publishers \ {c} : call'[d] = call[d]
         /\ call'[c].at # "idle" => call'[c].batch = call[c].batch
         /\ \A a \in Batches \ {call[c].batch} :
              /\ batch'[a] = batch[a] /\ status'[a] = status[a]
              /\ staging'[a] = staging[a] /\ final'[a] = final[a]
<1>r. TypeOK
  BY DEF FilesInv, RowsInv
<1>1. call[c].at # "idle"
  BY DEF Progress, ClearStaging, MakeStaging, WriteItem, MarkCommitting,
         MarkCommitted, MarkFiles, Rename, FinalizeRead, FinalizeWrite, Error,
         MarkFailedRead, MarkFailedWrite, Abandon, At
<1>2. call[c] \in [at : Stage, batch : Batches, written : SUBSET Items]
  BY <1>1, <1>r, BusyCall
<1>3. UNCHANGED <<recover, shared>>
  BY DEF Progress, ClearStaging, MakeStaging, WriteItem, MarkCommitting,
         MarkCommitted, MarkFiles, Rename, FinalizeRead, FinalizeWrite, Error,
         MarkFailedRead, MarkFailedWrite, Abandon
<1> DEFINE Becomes(r) == /\ call' = [call EXCEPT ![c] = r]
                         /\ r.at = "idle" \/ r.batch = call[c].batch
<1> DEFINE Own == \E r : Becomes(r)
<1>4. Own
  <2>1. ASSUME NEW s, Goto(c, s)
        PROVE  Own
    <3>1. Becomes([at |-> s, batch |-> call[c].batch, written |-> {}])
      BY <2>1 DEF Goto
    <3> QED
      BY <3>1
  <2>2. CASE Return(c)
    <3>1. Becomes(Idle)
      BY <2>2 DEF Return, Idle
    <3> QED
      BY <3>1
  <2>3. ASSUME NEW item \in Items, WriteItem(c, item)
        PROVE  Own
    <3>1. ASSUME NEW s,
                 call' = [call EXCEPT ![c].written = @ \cup {item}, ![c].at = s]
          PROVE  Own
      <4>1. call' = [call EXCEPT ![c] =
                       [call[c] EXCEPT !.written = @ \cup {item}, !.at = s]]
        BY <3>1, <1>2, <1>r DEF TypeOK
      <4>2. Becomes([call[c] EXCEPT !.written = @ \cup {item}, !.at = s])
        BY <4>1, <1>2
      <4> QED
        BY <4>2
    <3> QED
      BY <2>1, <2>3, <3>1 DEF WriteItem
  <2> QED
    BY <2>1, <2>2, <2>3
    DEF Progress, ClearStaging, MakeStaging, MarkCommitting, MarkCommitted,
        MarkFiles, Rename, FinalizeRead, FinalizeWrite, Error, MarkFailedRead,
        MarkFailedWrite, Abandon
<1>5. /\ \A d \in Publishers \ {c} : call'[d] = call[d]
      /\ call'[c].at # "idle" => call'[c].batch = call[c].batch
  BY <1>4, <1>r DEF TypeOK
<1>6. \A a \in Batches \ {call[c].batch} :
        batch'[a] = batch[a] /\ status'[a] = status[a]
  BY <1>2, <1>r
  DEF Progress, ClearStaging, MakeStaging, WriteItem, MarkCommitting,
      MarkCommitted, MarkFiles, Rename, FinalizeRead, FinalizeWrite, Publish,
      Error, MarkFailedRead, MarkFailedWrite, FailRows, Abandon, rowVars, TypeOK
<1>7. \A a \in Batches \ {call[c].batch} :
        staging'[a] = staging[a] /\ final'[a] = final[a]
  BY <1>2, <1>r
  DEF Progress, ClearStaging, MakeStaging, WriteItem, MarkCommitting,
      MarkCommitted, MarkFiles, Rename, FinalizeRead, FinalizeWrite,
      Error, MarkFailedRead, MarkFailedWrite, Abandon, fileVars, TypeOK
<1> QED
  BY <1>1, <1>2, <1>3, <1>5, <1>6, <1>7

(* What a request at work on a batch that was never shared knows and does  *)
(* for it: each of its steps keeps its own promise and the batch's files.  *)
LEMMA RequestStep ==
  ASSUME FilesInv, NEW c \in Publishers, Progress(c),
         NEW b \in Batches \ shared, call[c].batch = b
  PROVE  RequestInv(c)' /\ FilesOk(b)'
<1>r. TypeOK
  BY DEF FilesInv, RowsInv
<1>c. /\ call[c] \in [at : Stage, batch : Batches, written : SUBSET Items]
      /\ call[c].at # "idle"
      /\ RequestInv(c) /\ FilesOk(b)
      /\ call'[c].at # "idle" => call'[c].batch = b
      /\ shared' = shared
  BY OwnBatchOnly DEF FilesInv
<1>i. ASSUME Return(c) \/ Goto(c, "fail") \/ Goto(c, "mark")
      PROVE  RequestInv(c)'
  <2>1. call'[c].at \in {"idle", "fail", "mark"}
    BY <1>i, <1>r DEF Return, Goto, Idle, TypeOK
  <2> QED
    BY <2>1 DEF RequestInv
<1>u. ASSUME UNCHANGED rowVars, UNCHANGED final
      PROVE  FilesOk(b)'
  BY <1>u, <1>c DEF FilesOk, rowVars
<1>1. CASE ClearStaging(c)
  <2>1. CASE Goto(c, "make")
    BY <1>1, <1>c, <1>r, <1>u, <2>1 DEF Goto, TypeOK, ClearStaging, RequestInv
  <2> QED
    BY <1>1, <1>i, <1>u, <2>1 DEF ClearStaging
<1>2. CASE MakeStaging(c)
  <2>1. CASE /\ Goto(c, "write")
             /\ staging' = [staging EXCEPT ![b] = Holding({})]
    <3>1. staging'[b] = Holding({})
      BY <2>1, <1>c, <1>r DEF TypeOK
    <3>2. call'[c] = [at |-> "write", batch |-> b, written |-> {}]
      BY <2>1, <1>r DEF Goto, TypeOK
    <3> QED
      BY <1>2, <1>u, <3>1, <3>2 DEF MakeStaging, RequestInv
  <2> QED
    BY <1>2, <1>i, <1>u, <2>1 DEF MakeStaging
<1>3. ASSUME NEW item \in Items, WriteItem(c, item)
      PROVE  RequestInv(c)' /\ FilesOk(b)'
  <2>1. staging[b] = Holding(call[c].written)
    BY <1>3, <1>c DEF WriteItem, At, RequestInv
  <2>2. staging[b].there /\ staging[b].items = call[c].written
    BY <2>1 DEF Holding
  <2>3. /\ staging' = [staging EXCEPT ![b] =
                         Holding(call[c].written \cup {item})]
        /\ call' = [call EXCEPT ![c] = [call[c] EXCEPT
              !.written = @ \cup {item},
              !.at = IF item = "manifest" THEN "committing" ELSE "write"]]
    <3>1. staging' = [staging EXCEPT ![b] =
                        Holding(staging[b].items \cup {item})]
      BY <1>3, <2>2, <1>c, <1>r DEF WriteItem, TypeOK
    <3>2. call' = [call EXCEPT ![c].written = @ \cup {item},
                     ![c].at = IF item = "manifest" THEN "committing" ELSE "write"]
      BY <1>3, <2>2 DEF WriteItem
    <3>3. call \in [Publishers -> Call]
      BY <1>r DEF TypeOK
    <3> QED
      BY <2>2, <3>1, <3>2, <3>3, <1>c
  <2>4. item = "manifest" => call[c].written \cup {item} = Items
    BY <1>3, <1>c DEF WriteItem, Items
  <2>5. RequestInv(c)'
    BY <1>c, <2>3, <2>4, <1>r DEF RequestInv, TypeOK
  <2> QED
    BY <1>3, <1>u, <2>5 DEF WriteItem
<1>4. CASE MarkCommitting(c) \/ MarkCommitted(c)
  <2>1. RequestInv(c)'
    <3>1. CASE Goto(c, "fail")
      BY <1>i, <3>1
    <3>2. CASE MarkCommitting(c) /\ Goto(c, "rename")
      BY <3>2, <1>c, <1>r
      DEF Goto, TypeOK, MarkCommitting, MarkFiles, At, RequestInv, fileVars
    <3>3. CASE MarkCommitted(c) /\ Goto(c, "finalize")
      BY <3>3, <1>c, <1>r
      DEF Goto, TypeOK, MarkCommitted, MarkFiles, At, RequestInv, fileVars
    <3> QED
      BY <1>4, <3>1, <3>2, <3>3 DEF MarkCommitting, MarkCommitted, MarkFiles
  <2>2. FilesOk(b)'
    BY <1>4, <1>c, <1>r
    DEF MarkCommitting, MarkCommitted, MarkFiles, At, RequestInv, TypeOK, fileVars,
        FilesOk
  <2> QED
    BY <2>1, <2>2
<1>5. CASE Rename(c)
  <2>1. staging[b] = Holding(Items)
    BY <1>5, <1>c DEF Rename, At, RequestInv
  <2>2. CASE final' = final /\ Goto(c, "fail")
    BY <1>5, <2>2, <1>i, <1>u DEF Rename
  <2>3. CASE /\ final' = [final EXCEPT ![b] = Holding(Items)]
             /\ Goto(c, "committed")
    <3>1. final'[b] = Holding(Items) /\ Holding(Items).items = Items
      BY <2>3, <1>c, <1>r DEF TypeOK, Holding
    <3>2. RequestInv(c)'
      BY <2>3, <3>1, <1>r, <1>c DEF Goto, TypeOK, RequestInv
    <3>3. FilesOk(b)'
      BY <1>5, <3>1, <1>c DEF Rename, FilesOk, rowVars
    <3> QED
      BY <3>2, <3>3
  <2> QED
    BY <1>5, <2>1, <2>2, <2>3 DEF Rename, fileVars
<1>6. CASE FinalizeRead(c)
  <2>1. CASE Goto(c, "publish")
    BY <1>6, <2>1, <1>r, <1>c, <1>u
    DEF Goto, TypeOK, FinalizeRead, At, RequestInv, fileVars
  <2>2. Return(c) \/ Goto(c, "publish") \/ Goto(c, "fail")
    BY <1>6 DEF FinalizeRead
  <2> QED
    BY <1>6, <2>1, <2>2, <1>i, <1>u DEF FinalizeRead, fileVars
<1>7. CASE Error(c) \/ Abandon(c)
  BY <1>7, <1>i, <1>u DEF Error, Abandon, fileVars
<1>8. CASE MarkFailedRead(c)
  <2>1. CASE Goto(c, "remark") /\ status[b] = "FAILED"
    BY <1>8, <2>1, <1>r, <1>c, <1>u
    DEF Goto, TypeOK, MarkFailedRead, RequestInv, rowVars, fileVars
  <2>2. \/ Return(c)
        \/ Goto(c, "remark") /\ status[b] = "FAILED"
        \/ Goto(c, "mark")
    BY <1>8 DEF MarkFailedRead
  <2> QED
    BY <1>8, <2>1, <2>2, <1>i, <1>u DEF MarkFailedRead, fileVars
<1>9. CASE FinalizeWrite(c)
  <2>1. Goto(c, "fail") \/ Return(c)
    BY <1>9 DEF FinalizeWrite
  <2>2. FilesOk(b)'
    BY <1>9, <1>c, <1>r
    DEF FinalizeWrite, Publish, At, RequestInv, TypeOK, rowVars, fileVars, FilesOk
  <2> QED
    BY <2>1, <2>2, <1>i
<1>10. CASE MarkFailedWrite(c)
  <2>1. FilesOk(b)'
    BY <1>10, <1>c, <1>r
    DEF MarkFailedWrite, FailRows, At, RequestInv, TypeOK, rowVars, fileVars,
        FilesOk
  <2> QED
    BY <1>10, <2>1, <1>i DEF MarkFailedWrite
<1> QED
  BY <1>1, <1>2, <1>3, <1>4, <1>5, <1>6, <1>7, <1>8, <1>9, <1>10 DEF Progress

(* A new claim of a batch on which a request is at work shares it.         *)
LEMMA ClaimKeepsFiles ==
  ASSUME FilesInv, NEW c \in Publishers, NEW b \in Batches, Claim(c, b), RowsInv'
  PROVE  FilesInv'
<1>r. TypeOK
  BY DEF FilesInv, RowsInv
<1>1. /\ recover = {} /\ recover' = {} /\ UNCHANGED <<staging, final>>
      /\ shared \subseteq shared' /\ call[c] = Idle
  BY DEF Claim, fileVars
<1>2. \A a \in Batches : status[a] = "FAILED" => status'[a] = "FAILED"
  BY <1>r DEF Claim, rowVars, TypeOK
<1>3. \A a \in Batches \ shared' : FilesOk(a)'
  <2> SUFFICES ASSUME NEW a \in Batches \ shared' PROVE FilesOk(a)'
    OBVIOUS
  <2>1. FilesOk(a)
    BY <1>1 DEF FilesInv
  <2>2. \/ status'[a] = status[a] /\ batch'[a] = batch[a]
        \/ status'[a] = "VALIDATING"
    BY <1>r DEF Claim, rowVars, TypeOK
  <2> QED
    BY <1>1, <2>1, <2>2 DEF FilesOk
<1>4. CASE UNCHANGED <<call, shared>>
  <2>1. \A d \in Publishers : RequestInv(d)'
    <3> SUFFICES ASSUME NEW d \in Publishers PROVE RequestInv(d)'
      OBVIOUS
    <3>1. RequestInv(d)
      BY DEF FilesInv
    <3>2. call[d].at # "idle" => call[d].batch \in Batches
      BY <1>r, BusyCall
    <3> QED
      BY <3>1, <3>2, <1>1, <1>2, <1>4 DEF RequestInv
  <2>2. Alone'
    BY <1>4 DEF FilesInv, Alone, Working
  <2> QED
    BY <1>1, <1>3, <2>1, <2>2 DEF FilesInv, RecoveryInv
<1>5. CASE /\ call' = [call EXCEPT ![c] =
                         [at |-> "clear", batch |-> b, written |-> {}]]
           /\ shared' = IF \E d \in Publishers : Working(d, b)
                        THEN shared \cup {b} ELSE shared
  <2>1. /\ call'[c] = [at |-> "clear", batch |-> b, written |-> {}]
        /\ \A d \in Publishers \ {c} : call'[d] = call[d]
    BY <1>5, <1>r DEF TypeOK
  <2>2. \A d \in Publishers : RequestInv(d)'
    <3>1. RequestInv(c)'
      BY <2>1 DEF RequestInv
    <3>2. ASSUME NEW d \in Publishers \ {c} PROVE RequestInv(d)'
      <4>1. RequestInv(d) /\ (call[d].at # "idle" => call[d].batch \in Batches)
        BY <1>r, BusyCall DEF FilesInv
      <4> QED
        BY <4>1, <2>1, <1>1, <1>2 DEF RequestInv
    <3> QED
      BY <3>1, <3>2
  <2>3. Alone'
    <3> SUFFICES ASSUME NEW a \in Batches, a \notin shared',
                        NEW d \in Publishers, NEW e \in Publishers,
                        Working(d, a)', Working(e, a)'
                 PROVE  d = e
      BY DEF Alone
    <3>1. a \notin shared
      BY <1>1
    <3>2. CASE d # c /\ e # c
      BY <2>1, <3>1, <3>2 DEF FilesInv, Alone, Working
    <3>3. CASE d = c /\ e # c
      BY <1>5, <2>1, <3>3 DEF Working
    <3>4. CASE d # c /\ e = c
      BY <1>5, <2>1, <3>4 DEF Working
    <3> QED
      BY <3>2, <3>3, <3>4
  <2> QED
    BY <1>1, <1>3, <2>2, <2>3 DEF FilesInv, RecoveryInv
<1> QED
  BY <1>4, <1>5 DEF Claim

(* Every step, also of recovery and across a crash, keeps the invariant of *)
(* rows and files.                                                         *)
LEMMA FilesStep == FilesInv /\ [Next]_vars => FilesInv'
<1> SUFFICES ASSUME FilesInv, [Next]_vars PROVE FilesInv'
  OBVIOUS
<1>r. RowsInv' /\ TypeOK
  BY RowsStep DEF FilesInv, RowsInv
<1>1. ASSUME NEW c \in Publishers, Progress(c)
      PROVE  FilesInv'
  <2>b. PICK b \in Batches : b = call[c].batch
    BY <1>1, OwnBatchOnly
  <2>1. /\ call[c].at # "idle"
        /\ recover' = recover /\ shared' = shared
        /\ \A d \in Publishers \ {c} : call'[d] = call[d]
        /\ call'[c].at # "idle" => call'[c].batch = b
        /\ \A a \in Batches \ {b} :
             /\ batch'[a] = batch[a] /\ status'[a] = status[a]
             /\ staging'[a] = staging[a] /\ final'[a] = final[a]
    BY <1>1, <2>b, OwnBatchOnly
  <2>2. recover = {}
    BY <2>1, RecoveryIsOver
  <2>3. b \notin shared => RequestInv(c)' /\ FilesOk(b)'
    BY <1>1, <2>b, RequestStep
  <2>4. \A a \in Batches \ shared' : FilesOk(a)'
    BY <2>1, <2>3 DEF FilesInv, FilesOk
  <2>5. RequestInv(c)'
    BY <2>1, <2>3, <2>b DEF RequestInv
  <2>6. ASSUME NEW d \in Publishers \ {c}
        PROVE  RequestInv(d)'
    <3>1. CASE call[d].at = "idle" \/ call[d].batch \in shared
      BY <3>1, <2>1 DEF RequestInv
    <3>2. CASE call[d].at # "idle" /\ call[d].batch \notin shared
      <4>1. call[d].batch \in Batches
        BY <3>2, <1>r, BusyCall
      <4>2. call[d].batch # b
        BY <3>2, <2>1, <2>b, <4>1 DEF FilesInv, Alone, Working
      <4> QED
        BY <2>1, <4>1, <4>2 DEF FilesInv, RequestInv
    <3> QED
      BY <3>1, <3>2
  <2>7. Alone'
    BY <2>1, <2>b DEF FilesInv, Alone, Working
  <2> QED
    BY <1>r, <2>1, <2>2, <2>4, <2>5, <2>6, <2>7 DEF FilesInv, RecoveryInv
<1>2. ASSUME NEW c \in Publishers, NEW b \in Batches, Claim(c, b)
      PROVE  FilesInv'
  BY <1>2, <1>r, ClaimKeepsFiles
<1>3. ASSUME NEW b \in Batches, Recover(b)
      PROVE  FilesInv'
  <2>1. /\ \A c \in Publishers : call[c].at = "idle"
        /\ UNCHANGED <<staging, final, call, shared>>
        /\ b \in recover /\ recover' = recover \ {b}
    BY <1>3 DEF Recover, FilesInv, RecoveryInv, fileVars
  <2>2. \A c \in Publishers : RequestInv(c)'
    BY <2>1 DEF RequestInv
  <2>3. \A a \in Batches \ shared' : FilesOk(a)'
    BY <1>3, <2>1, <1>r
    DEF Recover, Settle, Verified, FailRows, Publish, rowVars, TypeOK, FilesInv,
        FilesOk
  <2>4. RecoveryInv'
    BY <1>3, <2>1, RecoverOne DEF RecoveryInv
  <2>5. Alone'
    BY <2>1 DEF Alone, Working
  <2> QED
    BY <1>r, <2>2, <2>3, <2>4, <2>5 DEF FilesInv
<1>4. CASE Crash
  <2>1. \A c \in Publishers : call'[c].at = "idle"
    BY <1>4 DEF Crash, Idle
  <2>2. (\A c \in Publishers : RequestInv(c)') /\ Alone'
    BY <2>1 DEF RequestInv, Alone, Working
  <2>3. \A a \in Batches \ shared' : FilesOk(a)'
    BY <1>4 DEF Crash, rowVars, fileVars, FilesInv, FilesOk
  <2> QED
    BY <1>4, <1>r, <2>1, <2>2, <2>3 DEF Crash, FilesInv, RecoveryInv
<1>5. CASE UNCHANGED vars
  BY <1>5, <1>r
  DEF vars, rowVars, fileVars, FilesInv, RequestInv, Alone, Working, FilesOk,
      RecoveryInv, Settled, OnlyMoved
<1> QED
  BY <1>1, <1>2, <1>3, <1>4, <1>5 DEF Next

(* The inductive invariant of rows and files holds always, with any number *)
(* of overlapping requests, wherever they fail or the process dies.        *)
THEOREM FilesInvariant == Spec => []FilesInv
  BY FilesInit, FilesStep, PTL DEF Spec

(* A version whose row says that its files are committed, or that readers  *)
(* may use it, has all its files, wherever an error or the end of the      *)
(* process fell and whatever other requests do, unless two of them have    *)
(* worked on its batch at once.                                            *)
THEOREM PublishedVersionsAreWhole == Spec => []RowsFollowFiles
<1>1. FilesInv => RowsFollowFiles
  BY DEF FilesInv, FilesOk, RowsFollowFiles
<1> QED
  BY FilesInvariant, <1>1, PTL

(* The batch of a published version says so, unless two requests have      *)
(* worked on it at once.                                                   *)
THEOREM BatchFollowsItsVersion == Spec => []BatchKeepsUp
<1>1. FilesInv => BatchKeepsUp
  BY DEF FilesInv, FilesOk, BatchKeepsUp
<1> QED
  BY FilesInvariant, <1>1, PTL

(* Start-up recovery leaves only settled versions and those whose files    *)
(* were moved without a record of it, among batches never shared.          *)
LEMMA RecoveryEndStep ==
  ASSUME FilesInv, FilesInv', [Next]_vars
  PROVE  [RecoveryEnds => \A b \in Batches \ shared :
                            Settled(b)' \/ OnlyMoved(b)']_vars
<1> SUFFICES ASSUME RecoveryEnds
             PROVE  \A b \in Batches \ shared : Settled(b)' \/ OnlyMoved(b)'
  OBVIOUS
<1>1. PICK b \in Batches : Recover(b)
  <2>1. recover # {} /\ recover' = {}
    BY DEF RecoveryEnds
  <2>2. \A c \in Publishers : call[c].at = "idle"
    BY <2>1 DEF FilesInv, RecoveryInv
  <2>3. ~(\E c \in Publishers : Progress(c))
    BY <2>2, OwnBatchOnly
  <2>4. ~(\E c \in Publishers, b \in Batches : Claim(c, b)) /\ ~UNCHANGED vars
    BY <2>1 DEF Claim, vars
  <2>5. ~Crash
    BY <2>1 DEF Crash, FilesInv, RowsInv, TypeOK
  <2> QED
    BY <2>3, <2>4, <2>5 DEF Next
<1>2. recover' = recover \ {b} /\ recover' = {}
  BY <1>1 DEF Recover, RecoveryEnds
<1> QED
  BY <1>1, <1>2, RecoverOne

(* When start-up recovery ends, every version whose batch no two requests  *)
(* have worked on at once is published, failed or untouched, or it has all *)
(* its files in place and lacks only the record of it.                     *)
THEOREM RecoveryAccountsForAll == Spec => RecoveryLeavesOnlyMoved
<1>1. FilesInv /\ FilesInv' /\ [Next]_vars
        => [RecoveryEnds => \A b \in Batches \ shared :
                              Settled(b)' \/ OnlyMoved(b)']_vars
  BY RecoveryEndStep
<1> QED
  BY FilesInvariant, <1>1, PTL DEF Spec, RecoveryLeavesOnlyMoved

-----------------------------------------------------------------------------
(* MarketProfile.                                                           *)

-----------------------------------------------------------------------------
(* The invariant.                                                           *)

(* A row of the profile, or what is written to one: each of its columns,    *)
(* where it has them, is one that was checked.                              *)
Checked(row) == /\ DOMAIN row \subseteq Columns
                /\ "version" \in DOMAIN row => row["version"] \in published
                /\ "table" \in DOMAIN row => row["table"] \in Keys

ProfileInv == profile # Unbound => DOMAIN profile = Columns /\ Checked(profile)

ProfileRequestInv ==
  /\ DOMAIN request = Clients
  /\ \A c \in Clients :
       /\ request[c].at \in {"write", "freeze"} => profile # Unbound
       /\ AtStep(c, "write") => Checked(request[c].set)
       /\ AtStep(c, "created") => request[c].version \in published /\ request[c].table \in Keys

BindingInv == ProfileInv /\ ProfileRequestInv

(* Nothing is ever taken back: what was checked stays so. *)
LEMMA CheckedStays ==
  ASSUME published \subseteq published', tables \subseteq tables'
  PROVE  /\ Keys \subseteq Keys'
         /\ \A row : Checked(row) => Checked(row)'
<1>1. Keys \subseteq Keys'
  BY DEF Keys
<1> QED
  BY <1>1 DEF Checked

(* The published versions and the tables grow, and the rest stays. *)
LEMMA OthersStep ==
  ASSUME BindingInv, published \subseteq published', tables \subseteq tables', UNCHANGED <<profile, request>>
  PROVE  BindingInv'
BY CheckedStays DEF BindingInv, ProfileInv, ProfileRequestInv, AtStep

LEMMA BindingChecked ==
  ASSUME NEW b \in Binding, Valid(b)
  PROVE  Checked(b) /\ DOMAIN b = Columns /\ b # Unbound
<1>1. DOMAIN b = Columns
  BY DEF Binding, Columns
<1>2. b["version"] \in published /\ b["table"] \in Keys
  BY DEF Valid, Binding
<1>3. b # Unbound
  BY <1>1 DEF Unbound, Columns
<1> QED
  BY <1>1, <1>2, <1>3 DEF Checked

LEMMA CreateStep ==
  ASSUME BindingInv, NEW b \in Binding, CreateProfile(b)
  PROVE  BindingInv'
<1>1. UNCHANGED <<published, tables, request>> /\ profile' = b
  BY DEF CreateProfile, calendarVars, datasetVars
<1>2. UNCHANGED Keys
  BY <1>1 DEF Keys
<1>3. Checked(b) /\ DOMAIN b = Columns /\ b # Unbound
  BY BindingChecked DEF CreateProfile
<1>4. ProfileInv'
  BY <1>1, <1>2, <1>3 DEF ProfileInv, Checked
<1>5. ProfileRequestInv'
  BY <1>1, <1>2, <1>3 DEF BindingInv, ProfileRequestInv, Checked, AtStep
<1> QED
  BY <1>4, <1>5 DEF BindingInv

(* A request goes on while the profile stays. *)
LEMMA GoesStep ==
  ASSUME BindingInv, NEW c \in Clients, NEW next, Goes(c, next), UNCHANGED <<published, tables, profile>>,
         next.at \in {"write", "freeze"} => profile # Unbound,
         next.at = "write" => Checked(next.set),
         next.at = "created" => next.version \in published /\ next.table \in Keys
  PROVE  BindingInv'
<1>1. UNCHANGED Keys
  BY DEF Keys
<1>2. DOMAIN request' = Clients /\ request'[c] = next /\ \A d \in Clients \ {c} : request'[d] = request[d]
  BY DEF Goes, BindingInv, ProfileRequestInv
<1> QED
  BY <1>1, <1>2 DEF BindingInv, ProfileInv, ProfileRequestInv, Checked, AtStep

LEMMA UpdateReadStep ==
  ASSUME BindingInv, NEW c \in Clients, NEW b \in Binding, UpdateRead(c, b)
  PROVE  BindingInv'
<1> DEFINE next == [at |-> "write", set |-> Dirty(b)]
<1>1. /\ profile # Unbound /\ Goes(c, next)
      /\ UNCHANGED <<published, tables, profile>>
  BY DEF UpdateRead, calendarVars, datasetVars
<1>2. Checked(b) /\ DOMAIN b = Columns
  BY BindingChecked DEF UpdateRead
<1>3. DOMAIN Dirty(b) \subseteq Columns /\ \A column \in DOMAIN Dirty(b) : Dirty(b)[column] = b[column]
  BY DEF Dirty, Restrict
<1>4. Checked(Dirty(b))
  BY <1>2, <1>3 DEF Checked
<1>5. next.at = "write" /\ Checked(next.set)
  BY <1>4
<1> HIDE DEF next
<1> QED
  BY <1>1, <1>5, GoesStep

(* Columns that were checked are put over columns that were checked. *)
LEMMA UpdateWriteStep ==
  ASSUME BindingInv, NEW c \in Clients, UpdateWrite(c)
  PROVE  BindingInv'
<1>1. /\ profile # Unbound /\ DOMAIN profile = Columns /\ Checked(profile) /\ Checked(request[c].set)
  BY DEF UpdateWrite, BindingInv, ProfileInv, ProfileRequestInv, AtStep
<1> DEFINE set == request[c].set
<1>2. profile' = [column \in Columns |->
                    IF column \in DOMAIN set THEN set[column] ELSE profile[column]]
  BY DEF UpdateWrite
<1>3. DOMAIN profile' = Columns
  BY <1>2
<1>4. \A column \in Columns : \/ column \in DOMAIN set /\ profile'[column] = set[column]
                              \/ profile'[column] = profile[column]
  BY <1>1, <1>2
<1>5. UNCHANGED <<published, tables>> /\ Goes(c, NoRequest) /\ NoRequest.at = "idle"
  BY DEF UpdateWrite, Returns, calendarVars, datasetVars, NoRequest
<1>6. UNCHANGED Keys
  BY <1>5 DEF Keys
<1>7. "version" \in Columns /\ "table" \in Columns
  BY DEF Columns
<1>8. Checked(profile)'
  BY <1>1, <1>3, <1>4, <1>5, <1>6, <1>7 DEF Checked
<1>9. profile' # Unbound
  BY <1>3 DEF Unbound, Columns
<1>10. DOMAIN request' = Clients /\ request'[c] = NoRequest /\ \A d \in Clients \ {c} : request'[d] = request[d]
  BY <1>5 DEF Goes, BindingInv, ProfileRequestInv
<1>11. ProfileRequestInv'
  BY <1>5, <1>6, <1>9, <1>10 DEF BindingInv, ProfileRequestInv, Checked, AtStep
<1> QED
  BY <1>3, <1>8, <1>9, <1>11 DEF BindingInv, ProfileInv

LEMMA SessionStep ==
  ASSUME BindingInv, NEW c \in Clients, SessionRead(c) \/ SessionFreeze(c) \/ SessionRespond(c)
  PROVE  BindingInv'
<1>0. UNCHANGED <<published, tables, profile>>
  BY DEF SessionRead, SessionFreeze, SessionRespond, calendarVars, datasetVars
<1>1. CASE SessionRead(c)
  <2> DEFINE next == [at |-> "freeze", dataset |-> profile.dataset]
  <2>1. profile # Unbound /\ Goes(c, next) /\ next.at = "freeze"
    BY <1>1 DEF SessionRead
  <2> HIDE DEF next
  <2> QED
    BY <1>0, <2>1, GoesStep
<1>2. CASE Returns(c)
  <2>1. Goes(c, NoRequest) /\ NoRequest.at = "idle"
    BY <1>2 DEF Returns, NoRequest
  <2> QED
    BY <1>0, <2>1, GoesStep
<1>3. CASE SessionFreeze(c) /\ ~ Returns(c)
  <2> DEFINE next == [at |-> "created", dataset |-> request[c].dataset,
                      version |-> profile.version, table |-> profile.table]
  <2>1. Goes(c, next) /\ AtStep(c, "freeze")
    BY <1>3 DEF SessionFreeze
  <2>2. profile["version"] \in published /\ profile["table"] \in Keys
    BY <2>1 DEF BindingInv, ProfileRequestInv, ProfileInv, Checked, Columns, AtStep
  <2>3. next.at = "created" /\ next.version \in published /\ next.table \in Keys
    BY <2>2
  <2> HIDE DEF next
  <2> QED
    BY <1>0, <2>1, <2>3, GoesStep
<1> QED
  BY <1>1, <1>2, <1>3 DEF SessionRespond

LEMMA BindingInvInit == ProfileInit => BindingInv
BY DEF ProfileInit, BindingInv, ProfileInv, ProfileRequestInv, AtStep, NoRequest

LEMMA BindingInvStep == BindingInv /\ [ProfileNext]_profileVars => BindingInv'
<1> SUFFICES ASSUME BindingInv, [ProfileNext]_profileVars PROVE BindingInv'
  OBVIOUS
<1>1. CASE \/ \E k \in Calendars, z \in Zones : CreateCalendar(k, z)
           \/ \E v \in Versions : PublishVersion(v) \/ Damage(v)
           \/ \E k \in Calendars, file \in Files : Import(k, file)
           \/ UNCHANGED profileVars
  <2>1. published \subseteq published' /\ tables \subseteq tables' /\ UNCHANGED <<profile, request>>
    BY <1>1 DEF CreateCalendar, PublishVersion, Damage, Import, profileVars, calendarVars, datasetVars
  <2> QED
    BY <2>1, OthersStep
<1>2. ASSUME NEW b \in Binding, CreateProfile(b) PROVE BindingInv'
  BY <1>2, CreateStep
<1>3. ASSUME NEW c \in Clients,
             \/ \E b \in Binding : UpdateRead(c, b)
             \/ UpdateWrite(c)
             \/ SessionRead(c) \/ SessionFreeze(c) \/ SessionRespond(c)
      PROVE  BindingInv'
  BY <1>3, UpdateReadStep, UpdateWriteStep, SessionStep
<1> QED
  BY <1>1, <1>2, <1>3 DEF ProfileNext

-----------------------------------------------------------------------------
(* The theorem.                                                             *)

(* Whatever updates of the profile interleave with publications, imports    *)
(* and damage, it and the snapshots of sessions name a dataset version that *)
(* was published and a calendar version that exists (_validate_bindings).   *)
THEOREM BindingsExist == ProfileSpec => []BoundToPublished
<1>1. BindingInv => BoundToPublished
  BY DEF BindingInv, ProfileInv, ProfileRequestInv, Checked, Columns, BoundToPublished, AtStep
<1> QED
  BY <1>1, BindingInvInit, BindingInvStep, PTL DEF ProfileSpec

-----------------------------------------------------------------------------
(* Calendar versions.                                                       *)

TableInv ==
  /\ IsFiniteSet(tables)
  /\ \A t \in tables : t.file \in Files /\ Sound(t.file)
  /\ VersionsNumbered /\ TablesAreUnique /\ OrphansAreForeign
  /\ published \subseteq Versions

(* After n versions the next one has the number n + 1. *)
LEMMA NextNumber ==
  ASSUME NEW k, NEW n \in Nat, {t.number : t \in {t \in tables : t.calendar = k}} = 1 .. n
  PROVE  Number(k) = n + 1
<1>. DEFINE S == {0} \cup 1 .. n
<1>1. Number(k) = 1 + Max(S)
  BY DEF Number
<1>2. n \in S /\ \A m \in S : n >= m
  OBVIOUS
<1>3. \A m \in S : (\A x \in S : m >= x) => m = n
  BY <1>2
<1>. HIDE DEF S
<1>4. Max(S) = n
  BY <1>2, <1>3 DEF Max
<1> QED
  BY <1>1, <1>4

LEMMA ImportStep ==
  ASSUME TableInv, NEW k \in Calendars, NEW file \in Files, Import(k, file)
  PROVE  TableInv'
<1>1. ~ Refused(k, file) /\ UNCHANGED published /\ Sound(file) /\ ~ Owned(k, file)
  BY DEF Import, Refused, datasetVars
<1>2. CASE Taken(file, k) /\ orphans' = orphans \cup {<<k, file>>} /\ UNCHANGED tables
  <2>1. PICK t \in tables : t.zone = zone[k] /\ t.file = file
    BY <1>2 DEF Taken, Same
  <2>2. t.calendar # k
    BY <1>1, <2>1 DEF Owned, Same
  <2>3. OrphansAreForeign'
    BY <1>2, <2>1, <2>2 DEF TableInv, OrphansAreForeign
  <2> QED
    BY <1>1, <1>2, <2>3 DEF TableInv, VersionsNumbered, TablesAreUnique
<1>3. CASE /\ ~ Taken(file, k)
           /\ tables' = tables \cup {[calendar |-> k, number |-> Number(k),
                                      zone |-> zone[k], file |-> file]}
           /\ UNCHANGED orphans
  <2>. DEFINE new == [calendar |-> k, number |-> Number(k), zone |-> zone[k], file |-> file]
              own(c) == {t \in tables : t.calendar = c}
  <2>1. /\ new.calendar = k /\ new.number = Number(k) /\ new.zone = zone[k] /\ new.file = file
        /\ tables' = tables \cup {new}
    BY <1>3
  <2>. HIDE DEF new
  <2>2. \A t \in tables : ~ (t.zone = new.zone /\ t.file = new.file)
    BY <1>3, <2>1 DEF Taken, Same
  <2>3. IsFiniteSet(tables') /\ TablesAreUnique' /\ OrphansAreForeign'
    BY <1>3, <2>1, <2>2, FS_AddElement DEF TableInv, TablesAreUnique, OrphansAreForeign
  <2>4. \A t \in tables' : t.file \in Files /\ Sound(t.file)
    BY <1>1, <2>1 DEF TableInv
  <2>5. ASSUME NEW c \in Calendars
        PROVE  {t.number : t \in own(c)'} = 1 .. Cardinality(own(c)')
    <3>1. IsFiniteSet(own(c)) /\ Cardinality(own(c)) \in Nat
      BY FS_Subset, FS_CardinalityType DEF TableInv
    <3>2. {t.number : t \in own(c)} = 1 .. Cardinality(own(c))
      BY DEF TableInv, VersionsNumbered
    <3>3. CASE c # k
      <4>1. own(c)' = own(c)
        BY <2>1, <3>3
      <4> QED BY <3>2, <4>1
    <3>4. CASE c = k
      <4>1. own(c)' = own(c) \cup {new} /\ new \notin own(c)
        BY <2>1, <2>2, <3>4
      <4>2. Cardinality(own(c)') = Cardinality(own(c)) + 1
        BY <3>1, <4>1, FS_AddElement
      <4>3. new.number = Cardinality(own(c)) + 1
        <5>. DEFINE n == Cardinality(own(c))
        <5>1. n \in Nat /\ {t.number : t \in {t \in tables : t.calendar = c}} = 1 .. n
          BY <3>1, <3>2
        <5> HIDE DEF n
        <5>2. Number(c) = n + 1
          BY ONLY <5>1, NextNumber
        <5> QED BY <2>1, <3>4, <5>2 DEF n
      <4>4. {t.number : t \in own(c)'} = {t.number : t \in own(c)} \cup {new.number}
        BY <4>1
      <4> HIDE DEF own
      <4> QED BY <3>1, <3>2, <4>2, <4>3, <4>4
    <3> QED BY <3>3, <3>4
  <2>6. VersionsNumbered'
    BY <2>5 DEF VersionsNumbered
  <2> QED BY <1>1, <2>3, <2>4, <2>6 DEF TableInv
<1> QED
  BY <1>2, <1>3 DEF Import

LEMMA TableInvInit == ProfileInit => TableInv
<1> SUFFICES ASSUME ProfileInit PROVE TableInv
  OBVIOUS
<1>1. tables = {} /\ orphans = {} /\ published = {}
  BY DEF ProfileInit
<1>2. IsFiniteSet(tables) /\ Cardinality(tables) = 0
  BY <1>1, FS_EmptySet
<1>3. \A k : {t \in tables : t.calendar = k} = {}
  BY <1>1
<1>4. \A k : {t.number : t \in {t \in tables : t.calendar = k}} = 1 .. 0
  BY <1>1
<1>5. VersionsNumbered
  <2>1. SUFFICES ASSUME NEW k \in Calendars
                 PROVE  {t.number : t \in {t \in tables : t.calendar = k}}
                          = 1 .. Cardinality({t \in tables : t.calendar = k})
    BY DEF VersionsNumbered
  <2> QED BY <1>1, <1>2, <1>3, <1>4
<1> QED
  BY <1>1, <1>2, <1>5 DEF TableInv, TablesAreUnique, OrphansAreForeign

LEMMA TableInvStep == TableInv /\ [ProfileNext]_profileVars => TableInv'
<1> SUFFICES ASSUME TableInv, [ProfileNext]_profileVars PROVE TableInv'
  OBVIOUS
<1>1. ASSUME NEW k \in Calendars, NEW file \in Files, Import(k, file) PROVE TableInv'
  BY <1>1, ImportStep
<1>2. CASE UNCHANGED <<tables, orphans>> /\ published' \subseteq Versions
  BY <1>2 DEF TableInv, VersionsNumbered, TablesAreUnique, OrphansAreForeign
<1>3. ASSUME \/ \E k \in Calendars, z \in Zones : CreateCalendar(k, z)
             \/ \E v \in Versions : PublishVersion(v) \/ Damage(v)
             \/ \E b \in Binding : CreateProfile(b)
             \/ \E c \in Clients : \/ \E b \in Binding : UpdateRead(c, b)
                                   \/ UpdateWrite(c)
                                   \/ SessionRead(c) \/ SessionFreeze(c) \/ SessionRespond(c)
             \/ UNCHANGED profileVars
      PROVE  UNCHANGED <<tables, orphans>> /\ published' \subseteq Versions
  <2>1. published \subseteq Versions
    BY DEF TableInv
  <2>2. CASE \/ \E b \in Binding : CreateProfile(b)
             \/ \E c \in Clients : \/ \E b \in Binding : UpdateRead(c, b)
                                   \/ UpdateWrite(c)
                                   \/ SessionRead(c) \/ SessionFreeze(c) \/ SessionRespond(c)
             \/ UNCHANGED profileVars
    <3>1. UNCHANGED <<calendarVars, datasetVars>>
      BY <2>2 DEF CreateProfile, UpdateRead, UpdateWrite, SessionRead, SessionFreeze,
                  SessionRespond, profileVars
    <3> QED BY <2>1, <3>1 DEF calendarVars, datasetVars
  <2>3. CASE \E k \in Calendars, z \in Zones : CreateCalendar(k, z)
    BY <2>1, <2>3 DEF CreateCalendar, datasetVars
  <2>4. CASE \E v \in Versions : PublishVersion(v) \/ Damage(v)
    BY <2>1, <2>4 DEF PublishVersion, Damage, calendarVars
  <2> QED BY <1>3, <2>2, <2>3, <2>4
<1> QED
  BY <1>1, <1>2, <1>3 DEF ProfileNext

(* After any sequence of imports of any files: versions are numbered from   *)
(* one without a gap, no table is stored twice, each is one a consumer can  *)
(* rely on, and an upload is left behind only when another calendar has its *)
(* table (create_version, import_csv).                                      *)
THEOREM CalendarImportsAreSound == ProfileSpec => []ImportsAreSound
<1>1. TableInv => ImportsAreSound
  <2>1. TableInv => TablesAreUsable
    BY DEF TableInv, TablesAreUsable, Sound, IsInjective
  <2> QED BY <2>1 DEF TableInv, ImportsAreSound
<1> QED
  BY <1>1, TableInvInit, TableInvStep, PTL DEF ProfileSpec

-----------------------------------------------------------------------------
(* Coverage.                                                                *)

(* Of days within a range that is no longer than the limit all are read. *)
LEMMA AllDaysRead ==
  ASSUME NEW start \in Int, NEW end \in Int,
         NEW days \in SUBSET (start .. end), Cardinality(start .. end) <= Limit
  PROVE  FirstDays(days) = days
<1>1. IsFiniteSet(start .. end) /\ Cardinality(start .. end) \in Nat
  BY FS_Interval, FS_CardinalityType
<1>2. ASSUME NEW day \in days
      PROVE  Cardinality({d \in days : d < day}) < Limit
  <2>. DEFINE D == {d \in days : d < day}
  <2>1. D \in SUBSET (start .. end) /\ day \in (start .. end) \ D
    <3>1. day \in Int /\ ~ (day < day)
      OBVIOUS
    <3> QED BY <3>1
  <2>. HIDE DEF D
  <2>2. Cardinality(D) <= Cardinality(start .. end) /\ Cardinality(D) \in Nat /\ IsFiniteSet(D)
    BY <1>1, <2>1, FS_Subset, FS_CardinalityType
  <2>3. Cardinality(D) # Cardinality(start .. end)
    BY <1>1, <2>1, FS_Subset
  <2>4. Limit \in Nat
    BY ProfileAssumption
  <2>5. Cardinality(D) < Limit
    BY <1>1, <2>2, <2>3, <2>4
  <2> QED BY <2>5 DEF D
<1> QED
  BY <1>2 DEF FirstDays

(* And so are the bars of one instrument, of which there is one a day. *)
LEMMA AllBarsRead ==
  ASSUME NEW start \in Int, NEW end \in Int, NEW instrument,
         NEW bars \in SUBSET (Int \X Int),
         \A bar \in bars : bar[1] = instrument /\ bar[2] \in start .. end,
         Cardinality(start .. end) <= Limit
  PROVE  FirstBars(bars) = bars
<1>1. IsFiniteSet(start .. end) /\ Cardinality(start .. end) \in Nat
  BY FS_Interval, FS_CardinalityType
<1>2. ASSUME NEW bar \in bars
      PROVE  Cardinality({x \in bars : Earlier(x, bar)}) < Limit
  <2>. DEFINE X == {x \in bars : Earlier(x, bar)}
              D == {x[2] : x \in X}
              day == [x \in X |-> x[2]]
  <2>1. D \in SUBSET (start .. end) /\ bar[2] \in (start .. end) \ D
    BY DEF Earlier
  <2>2. day \in Injection(X, D)
    <3>1. \A x, y \in X : x[2] = y[2] => x = y
      OBVIOUS
    <3>2. day \in [X -> D]
      OBVIOUS
    <3>. HIDE DEF X, D
    <3> QED BY <3>1, <3>2 DEF Injection, IsInjective
  <2>. HIDE DEF X, D, day
  <2>3. Cardinality(D) <= Cardinality(start .. end) /\ Cardinality(D) \in Nat /\ IsFiniteSet(D)
    BY <1>1, <2>1, FS_Subset, FS_CardinalityType
  <2>4. Cardinality(D) # Cardinality(start .. end)
    BY <1>1, <2>1, FS_Subset
  <2>5. IsFiniteSet(X) /\ Cardinality(X) <= Cardinality(D)
    BY <2>2, <2>3, FS_Injection
  <2>6. Limit \in Nat /\ Cardinality(X) \in Nat
    BY <2>5, FS_CardinalityType, ProfileAssumption
  <2>7. Cardinality(X) < Limit
    BY <1>1, <2>3, <2>4, <2>5, <2>6
  <2> QED BY <2>7 DEF X
<1> QED
  BY <1>2 DEF FirstBars

LEMMA CoverageExact ==
  ASSUME BindingInv, TableInv, profile # Unbound,
         NEW start \in Int, NEW end \in Int, NEW instrument \in Int, instrument # AllInstruments
  PROVE  LET rows == TableOf(profile.table).file
             range == start .. end
             traded == {day \in range : <<instrument, day>> \in Bars[profile.version]}
             open == {day \in range : \E r \in DOMAIN rows : rows[r].open /\ rows[r].day = day}
             answer == Coverage(instrument, start, end)
             answered == answer.status \in {"READY", "DATASET_INCONSISTENT"}
         IN /\ answered => Health = "READY"
            /\ Health = "READY" => answered \/ answer.status = "CALENDAR_COVERAGE_INCOMPLETE"
            /\ answered /\ Cardinality(range) <= Limit =>
                 /\ answer.missing = open \ traded
                 /\ answer.outside = traded \ open
                 /\ answer.status = "READY" <=> traded \subseteq open
<1>. DEFINE rows == TableOf(profile.table).file
            range == start .. end
            traded == {day \in range : <<instrument, day>> \in Bars[profile.version]}
            open == {day \in range : \E r \in DOMAIN rows : rows[r].open /\ rows[r].day = day}
            answer == Coverage(instrument, start, end)
            answered == answer.status \in {"READY", "DATASET_INCONSISTENT"}
            sessions == Sessions(rows, start, end)
            days == {bar[2] : bar \in BarsOf(profile.version, instrument, start, end)}
            sound == Spans(rows, profile.version) /\ sessions # {}
<1>1. profile.version \in Versions /\ profile.table \in Keys
  BY DEF BindingInv, ProfileInv, Checked, Columns, TableInv
<1>2. rows \in Files /\ \A r \in DOMAIN rows : rows[r].day \in Int
  <2>1. \E table \in tables : Key(table) = profile.table
    BY <1>1 DEF Keys
  <2>2. TableOf(profile.table) \in tables
    BY <2>1 DEF TableOf
  <2> QED BY <2>2, ProfileAssumption DEF TableInv
<1>3. ASSUME Cardinality(range) <= Limit
      PROVE  sessions = open /\ days = traded
  <2>1. {day \in OpenDays(rows) : In(day, start, end)} = open
    <3>. HIDE DEF rows
    <3> QED BY <1>2 DEF OpenDays, In
  <2>2. sessions = open
    <3>1. open \in SUBSET range
      OBVIOUS
    <3>. HIDE DEF rows, open
    <3> QED BY <1>3, <2>1, <3>1, AllDaysRead DEF Sessions
  <2>. DEFINE bars == {bar \in Bars[profile.version] :
                         /\ instrument = AllInstruments \/ bar[1] = instrument
                         /\ In(bar[2], start, end)}
  <2>3. bars \in SUBSET (Int \X Int)
    BY <1>1, ProfileAssumption
  <2>4. \A bar \in bars : bar[1] = instrument /\ bar[2] \in start .. end
    BY <2>3 DEF In
  <2>5. {bar[2] : bar \in bars} = traded
    <3>1. traded \subseteq {bar[2] : bar \in bars}
      <4>1. ASSUME NEW day \in traded PROVE day \in {bar[2] : bar \in bars}
        <5>1. <<instrument, day>> \in bars
          BY <4>1 DEF In
        <5> QED BY <5>1
      <4> QED BY <4>1
    <3>2. ASSUME NEW bar \in bars PROVE bar[2] \in traded
      <4>1. bar = <<instrument, bar[2]>>
        BY <2>3, <2>4
      <4> QED BY <2>4, <4>1
    <3> QED BY <3>1, <3>2
  <2>6. BarsOf(profile.version, instrument, start, end) = bars
    <3>1. BarsOf(profile.version, instrument, start, end) = FirstBars(bars)
      BY DEF BarsOf
    <3> HIDE DEF bars
    <3> QED BY <1>3, <2>3, <2>4, <3>1, AllBarsRead
  <2> QED BY <2>2, <2>5, <2>6
<1>4. /\ ~ Found => answer.status = "NOT_FOUND"
      /\ Found /\ ~ sound => answer.status = "CALENDAR_COVERAGE_INCOMPLETE"
      /\ Found /\ sound /\ profile.version \in damaged =>
           answer.status = "PUBLISHED_DATASET_INCONSISTENT"
      /\ Found /\ sound /\ profile.version \notin damaged =>
           answer = [status |-> IF days \subseteq sessions THEN "READY" ELSE "DATASET_INCONSISTENT",
                     missing |-> sessions \ days, outside |-> days \ sessions]
  BY DEF Coverage
<1>5. /\ ~ Found => Health = "NOT_FOUND"
      /\ Found /\ profile.version \in damaged => Health = "PUBLISHED_DATASET_INCONSISTENT"
      /\ Found /\ profile.version \notin damaged => Health = "READY"
  BY DEF Health
<1>. HIDE DEF answer, sessions, days, open, traded, sound, rows, range
<1>6. Found /\ sound /\ profile.version \notin damaged =>
        /\ answer.status = IF days \subseteq sessions THEN "READY" ELSE "DATASET_INCONSISTENT"
        /\ answer.missing = sessions \ days /\ answer.outside = days \ sessions
  BY <1>4
<1>7. answered => Found /\ sound /\ profile.version \notin damaged
  BY <1>4
<1>8. answered => Health = "READY"
  BY <1>5, <1>7
<1>9. Health = "READY" => answered \/ answer.status = "CALENDAR_COVERAGE_INCOMPLETE"
  BY <1>4, <1>5, <1>6
<1>10. answered /\ Cardinality(range) <= Limit =>
                 /\ answer.missing = open \ traded
                 /\ answer.outside = traded \ open
                 /\ answer.status = "READY" <=> traded \subseteq open
  BY <1>3, <1>6, <1>7 DEF range
<1> QED
  BY <1>8, <1>9, <1>10 DEF answer, open, traded, rows, range

(* Coverage is exact for any calendar, bars and limit, whatever was         *)
(* rebound, and agrees with health (consumption.py coverage, health).       *)
THEOREM CoverageAnswersExactly ==
  ProfileSpec => []CoverageIsExact
<1>1. BindingInv /\ TableInv => CoverageIsExact
  <2>1. \A n \in 1 .. 3 : n \in Int
    OBVIOUS
  <2>2. ASSUME NEW start \in 1 .. 3, NEW end \in start .. 3
        PROVE  start \in Int /\ end \in Int
    OBVIOUS
  <2>3. \A i \in 1 .. 2 : i \in Int /\ i # AllInstruments
    BY DEF AllInstruments
  <2> QED BY <2>1, <2>2, <2>3, CoverageExact, SMTT(40) DEF CoverageIsExact
<1> QED
  BY <1>1, BindingInvInit, BindingInvStep, TableInvInit, TableInvStep, PTL DEF ProfileSpec
=============================================================================
