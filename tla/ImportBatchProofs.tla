-------------------------- MODULE ImportBatchProofs --------------------------
(***************************************************************************)
(* Theorems about ImportBatch, for any number of requests and batches, any *)
(* contents and mappings, and whatever previews are clean, and about the   *)
(* rules of QualityRules, for files of any length.  It extends the module  *)
(* of the run for GateIsExact, and uses nothing of its instance.           *)
(***************************************************************************)
EXTENDS ImportBatchMC, RecursionLemmas

-----------------------------------------------------------------------------
(* Types.                                                                   *)

(* An upload works on a batch of its own that is not there yet, and a batch *)
(* that is answered is there.                                               *)
RequestInv ==
  /\ \A c \in Clients :
       /\ call[c].at \in {"inspect", "insert"} => batch[call[c].batch] = NoBatch
       /\ At(c, "respond") => batch[call[c].batch] # NoBatch
  /\ \A c, d \in Clients : /\ call[c].at \in {"inspect", "insert"}
                           /\ call[d].at \in {"inspect", "insert"}
                           /\ call[c].batch = call[d].batch
                           => c = d

(* What the step a request stands at says of its other fields. *)
LEMMA CallFields ==
  ASSUME TypeOK, NEW c \in Clients
  PROVE  /\ call[c].at \in {"inspect", "insert"} =>
              call[c].batch \in Batches /\ call[c].hash \in Contents
         /\ call[c].at \in {"refresh", "respond"} => call[c].batch \in Batches
         /\ At(c, "process") => call[c].batch \in Batches /\ call[c].mapping \in Mappings
         /\ At(c, "complete") => call[c].batch \in Batches /\ call[c].preview \in Preview
         /\ At(c, "issues") => call[c].batch \in Batches /\ call[c].row \in Row
         /\ call[c].at \in {"check", "recompute", "claim"} =>
              /\ call[c].batch \in Batches /\ call[c].row \in Row
              /\ call[c].dataset \in Datasets /\ call[c].confirm \in BOOLEAN
         /\ At(c, "publish") => call[c].version \in Version
<1>1. call[c] \in Call
  BY DEF TypeOK
<1> QED
  BY <1>1 DEF Call, Idle, At

(* A request that goes on by a known step is a request again. *)
LEMMA GoesType ==
  ASSUME TypeOK, NEW c \in Clients, NEW next \in Call, Goes(c, next)
  PROVE  call' \in [Clients -> Call]
BY DEF Goes, TypeOK

LEMMA ReturnsType ==
  ASSUME TypeOK, NEW c \in Clients, Returns(c)
  PROVE  call' \in [Clients -> Call]
<1>1. Idle \in Call
  BY DEF Call
<1> QED
  BY <1>1, GoesType DEF Returns

LEMMA TypeInit == Init => TypeOK
<1> SUFFICES ASSUME Init PROVE TypeOK
  OBVIOUS
<1>1. Idle \in Call
  BY DEF Call
<1> QED
  BY <1>1 DEF Init, TypeOK

(* The row a batch has is a Row, and its fields have their types. *)
LEMMA RowFields ==
  ASSUME TypeOK, NEW b \in Batches
  PROVE  /\ batch[b].status \in BatchStatus => batch[b] \in Row
         /\ batch[b] # NoBatch => batch[b] \in Row
BY DEF TypeOK, NoBatch, BatchStatus, Claimed

LEMMA UploadType ==
  ASSUME TypeOK, ContentsAssumption, NEW c \in Clients,
         \/ \E b \in Batches, content \in Uploaded : Stage(c, b, content)
         \/ Inspect(c) \/ Insert(c) \/ Refresh(c)
  PROVE  TypeOK'
<1> USE ContentsAssumption
<1>1. ASSUME NEW b \in Batches, NEW content \in Uploaded, Stage(c, b, content) PROVE TypeOK'
  <2>1. content \in Contents
    OBVIOUS
  <2>2. [at |-> "inspect", batch |-> b, hash |-> content] \in Call
    BY <2>1 DEF Call
  <2>3. call' \in [Clients -> Call]
    BY <1>1, <2>2, GoesType DEF Stage
  <2> QED
    BY <1>1, <2>1, <2>3 DEF Stage, TypeOK
<1>2. ASSUME call[c].at \in {"inspect", "insert", "refresh"}, Discard(c) PROVE TypeOK'
  <2>1. call' \in [Clients -> Call]
    BY <1>2, ReturnsType DEF Discard
  <2> QED
    BY <1>2, <2>1 DEF Discard, TypeOK
<1>3. CASE Inspect(c)
  <2>1. CASE Discard(c)
    BY <1>2, <1>3, <2>1 DEF Inspect, At
  <2>2. CASE Goes(c, [call[c] EXCEPT !.at = "insert"]) /\ UNCHANGED <<file, batch, issues, versions>>
    <3>1. [call[c] EXCEPT !.at = "insert"] \in Call
      BY <1>3 DEF Inspect, At, TypeOK, Call, Idle
    <3> QED
      BY <2>2, <3>1, GoesType DEF TypeOK
  <2> QED
    BY <1>3, <2>1, <2>2 DEF Inspect
<1>4. CASE Insert(c)
  <2>1. call[c].batch \in Batches /\ call[c].hash \in Contents
    BY <1>4, CallFields DEF Insert, At
  <2>2. [at |-> "refresh", batch |-> call[c].batch] \in Call
    BY <2>1 DEF Call
  <2>3. [hash |-> call[c].hash, status |-> "PENDING", preview |-> NoPreview] \in Row
    BY <2>1 DEF Row, BatchStatus
  <2>4. batch' \in [Batches -> Row \cup {NoBatch}]
    BY <1>4, <2>3 DEF Insert, TypeOK
  <2> QED
    BY <1>4, <2>2, <2>4, GoesType DEF Insert, TypeOK
<1>5. CASE Refresh(c)
  <2>1. CASE Discard(c)
    BY <1>2, <1>5, <2>1 DEF Refresh, At
  <2>2. CASE Returns(c) /\ UNCHANGED <<file, batch, issues, versions>>
    BY <2>2, ReturnsType DEF TypeOK
  <2> QED
    BY <1>5, <2>1, <2>2 DEF Refresh
<1> QED
  BY <1>1, <1>3, <1>4, <1>5

LEMMA PreviewType ==
  ASSUME TypeOK, NEW c \in Clients,
         \/ \E b \in Batches, mapping \in Mappings : PreviewRead(c, b, mapping)
         \/ PreviewProcess(c) \/ PreviewComplete(c)
  PROVE  TypeOK'
<1>1. ASSUME NEW b \in Batches, NEW mapping \in Mappings, PreviewRead(c, b, mapping) PROVE TypeOK'
  <2>1. [at |-> "process", batch |-> b, mapping |-> mapping] \in Call
    BY DEF Call
  <2> QED
    BY <1>1, <2>1, GoesType DEF PreviewRead, TypeOK
<1>2. CASE PreviewProcess(c)
  <2>1. CASE Returns(c)
    BY <1>2, <2>1, ReturnsType DEF PreviewProcess, TypeOK
  <2>2. CASE Legible(call[c].batch) /\ Goes(c, [at |-> "complete", batch |-> call[c].batch,
                        preview |-> <<file[call[c].batch], call[c].mapping>>])
    <3>1. call[c].batch \in Batches /\ call[c].mapping \in Mappings
      BY <1>2, CallFields DEF PreviewProcess
    <3>2. file[call[c].batch] \in Contents
      BY <2>2, <3>1 DEF Legible, TypeOK
    <3>3. <<file[call[c].batch], call[c].mapping>> \in Preview
      BY <3>1, <3>2 DEF Preview
    <3>4. [at |-> "complete", batch |-> call[c].batch,
           preview |-> <<file[call[c].batch], call[c].mapping>>] \in Call
      BY <3>1, <3>3 DEF Call
    <3> QED
      BY <1>2, <2>2, <3>4, GoesType DEF PreviewProcess, TypeOK
  <2> QED
    BY <1>2, <2>1, <2>2 DEF PreviewProcess
<1>3. CASE PreviewComplete(c)
  <2>1. CASE Returns(c) /\ UNCHANGED <<batch, issues>>
    BY <1>3, <2>1, ReturnsType DEF PreviewComplete, TypeOK
  <2>2. CASE ~ (Returns(c) /\ UNCHANGED <<batch, issues>>)
    <3> DEFINE b == call[c].batch
    <3>1. b \in Batches /\ call[c].preview \in Preview
      BY <1>3, CallFields DEF PreviewComplete
    <3>2. /\ Previewable(batch[b])
          /\ batch' = [batch EXCEPT ![b].status = "PREVIEW_READY", ![b].preview = call[c].preview]
          /\ issues' = [issues EXCEPT ![b] = call[c].preview]
          /\ Goes(c, [at |-> "respond", batch |-> b])
      BY <1>3, <2>2 DEF PreviewComplete
    <3>3. batch[b] \in Row
      BY <3>1, <3>2, RowFields DEF Previewable, BatchStatus
    <3>4. [batch[b] EXCEPT !.status = "PREVIEW_READY", !.preview = call[c].preview] \in Row
      BY <3>1, <3>3 DEF Row, BatchStatus
    <3>5. batch' \in [Batches -> Row \cup {NoBatch}]
      BY <3>1, <3>2, <3>4 DEF TypeOK
    <3>6. issues' \in [Batches -> Preview \cup {NoPreview}]
      BY <3>1, <3>2 DEF TypeOK
    <3>7. [at |-> "respond", batch |-> b] \in Call
      BY <3>1 DEF Call
    <3> QED
      BY <1>3, <3>2, <3>5, <3>6, <3>7, GoesType DEF PreviewComplete, TypeOK
  <2> QED
    BY <2>1, <2>2
<1> QED
  BY <1>1, <1>2, <1>3

LEMMA EligibilityType ==
  ASSUME NEW row, NEW issuesOf, NEW confirm
  PROVE  Eligibility(row, issuesOf, confirm)
           \in {"PREVIEW_REQUIRED", "QUALITY_BLOCKED", "WARNING_CONFIRMATION_REQUIRED", "ELIGIBLE"}
BY DEF Eligibility

LEMMA ShowType ==
  ASSUME TypeOK, RequestInv, NEW c \in Clients,
         \/ \E b \in Batches : Show(c, b)
         \/ RespondBatch(c) \/ RespondIssues(c) \/ Answer(c)
  PROVE  TypeOK'
<1>1. ASSUME NEW b \in Batches, Show(c, b) PROVE TypeOK'
  <2>1. [at |-> "respond", batch |-> b] \in Call
    BY DEF Call
  <2> QED
    BY <1>1, <2>1, GoesType DEF Show, TypeOK
<1>2. CASE RespondBatch(c)
  <2>1. call[c].batch \in Batches /\ batch[call[c].batch] \in Row
    BY <1>2, CallFields, RowFields DEF RespondBatch, At, RequestInv
  <2>2. [at |-> "issues", batch |-> call[c].batch, row |-> batch[call[c].batch]] \in Call
    BY <2>1 DEF Call
  <2> QED
    BY <1>2, <2>2, GoesType DEF RespondBatch, TypeOK
<1>3. CASE RespondIssues(c)
  <2>1. call[c].row \in Row
    BY <1>3, CallFields DEF RespondIssues
  <2>2. Eligibility(call[c].row, issues[call[c].batch], FALSE)
          \in {"PREVIEW_REQUIRED", "QUALITY_BLOCKED", "WARNING_CONFIRMATION_REQUIRED", "ELIGIBLE"}
    BY EligibilityType
  <2>3. [at |-> "answered", row |-> call[c].row,
         eligibility |-> Eligibility(call[c].row, issues[call[c].batch], FALSE)] \in Call
    BY <2>1, <2>2 DEF Call
  <2> QED
    BY <1>3, <2>3, GoesType DEF RespondIssues, TypeOK
<1>4. CASE Answer(c)
  BY <1>4, ReturnsType DEF Answer, TypeOK
<1> QED
  BY <1>1, <1>2, <1>3, <1>4

LEMMA PublishType ==
  ASSUME TypeOK, NEW c \in Clients,
         \/ \E b \in Batches, dataset \in Datasets, confirm \in BOOLEAN :
              PublishRead(c, b, dataset, confirm)
         \/ PublishCheck(c) \/ PublishRecompute(c)
  PROVE  TypeOK'
<1>1. ASSUME NEW b \in Batches, NEW dataset \in Datasets, NEW confirm \in BOOLEAN,
             PublishRead(c, b, dataset, confirm)
      PROVE  TypeOK'
  <2>1. batch[b] \in Row
    BY <1>1, RowFields DEF PublishRead
  <2>2. [at |-> "check", batch |-> b, row |-> batch[b], dataset |-> dataset,
         confirm |-> confirm] \in Call
    BY <2>1 DEF Call
  <2> QED
    BY <1>1, <2>2, GoesType DEF PublishRead, TypeOK
<1>2. ASSUME call[c].at \in {"check", "recompute"}, NEW s \in {"recompute", "claim"},
             Goes(c, [call[c] EXCEPT !.at = s])
      PROVE  call' \in [Clients -> Call]
  <2>1. [call[c] EXCEPT !.at = s] \in Call
    BY <1>2 DEF TypeOK, Call, Idle
  <2> QED
    BY <1>2, <2>1, GoesType
<1>3. CASE PublishCheck(c)
  <2>1. call' \in [Clients -> Call]
    BY <1>2, <1>3, ReturnsType DEF PublishCheck, At
  <2> QED
    BY <1>3, <2>1 DEF PublishCheck, TypeOK
<1>4. CASE PublishRecompute(c)
  <2>1. call' \in [Clients -> Call]
    BY <1>2, <1>4, ReturnsType DEF PublishRecompute, At
  <2> QED
    BY <1>4, <2>1 DEF PublishRecompute, TypeOK
<1> QED
  BY <1>1, <1>3, <1>4

(* What a claim lets pass has a preview, passed the gate, and stands as it   *)
(* was read: its issues are those of the row.                                *)
LEMMA AdmittedIsConfirmed ==
  ASSUME NEW c \in Clients, Admits(c)
  PROVE  /\ call[c].row.preview # NoPreview
         /\ batch[call[c].batch].preview = call[c].row.preview
         /\ Judged(call[c].row.preview) # "BLOCKED"
         /\ Judged(call[c].row.preview) = "WARNED" => call[c].confirm
BY DEF Admits, Eligibility

(* The step of a new claim, by its fields. *)
LEMMA ClaimNewFields ==
  ASSUME TypeOK, NEW c \in Clients, At(c, "claim"), ClaimNew(c)
  PROVE  LET b == call[c].batch
             new == [batch |-> b, dataset |-> call[c].dataset, preview |-> call[c].row.preview,
                     confirmed |-> call[c].confirm, status |-> "CLAIMED", rows |-> NoPreview]
         IN /\ b \in Batches /\ new \in Version /\ batch[b] \in Row
            /\ batch[b].status = "PREVIEW_READY" /\ batch[b].preview = call[c].row.preview
            /\ versions' = versions \cup {new}
            /\ batch' = [batch EXCEPT ![b].status = "PUBLISHING"]
            /\ Goes(c, [at |-> "publish", version |-> new])
<1> DEFINE b == call[c].batch
           new == [batch |-> b, dataset |-> call[c].dataset, preview |-> call[c].row.preview,
                   confirmed |-> call[c].confirm, status |-> "CLAIMED", rows |-> NoPreview]
<1>1. /\ b \in Batches /\ call[c].row \in Row
      /\ call[c].dataset \in Datasets /\ call[c].confirm \in BOOLEAN
  BY CallFields DEF At
<1>2. call[c].row.preview \in Preview
  BY <1>1, AdmittedIsConfirmed DEF ClaimNew, Row
<1>3. new \in Version
  BY <1>1, <1>2 DEF Version
<1>4. batch[b] \in Row /\ batch[b].status = "PREVIEW_READY"
  BY <1>1, RowFields DEF ClaimNew, BatchStatus
<1>5. batch[b].preview = call[c].row.preview
  BY AdmittedIsConfirmed DEF ClaimNew
<1> QED
  BY <1>1, <1>3, <1>4, <1>5 DEF ClaimNew

LEMMA ClaimType ==
  ASSUME TypeOK, NEW c \in Clients, Claim(c)
  PROVE  TypeOK'
<1> DEFINE b == call[c].batch
           new == [batch |-> b, dataset |-> call[c].dataset, preview |-> call[c].row.preview,
                   confirmed |-> call[c].confirm, status |-> "CLAIMED", rows |-> NoPreview]
<1>1. CASE ClaimNew(c)
  <2>1. /\ b \in Batches /\ new \in Version /\ batch[b] \in Row
        /\ versions' = versions \cup {new}
        /\ batch' = [batch EXCEPT ![b].status = "PUBLISHING"]
        /\ Goes(c, [at |-> "publish", version |-> new])
    BY <1>1, ClaimNewFields DEF Claim
  <2> HIDE DEF new
  <2>2. [batch[b] EXCEPT !.status = "PUBLISHING"] \in Row
    BY <2>1 DEF Row, BatchStatus, Claimed
  <2>3. batch' \in [Batches -> Row \cup {NoBatch}]
    BY <2>1, <2>2 DEF TypeOK
  <2>4. [at |-> "publish", version |-> new] \in Call
    BY <2>1 DEF Call
  <2> QED
    BY <1>1, <2>1, <2>3, <2>4, GoesType DEF Claim, TypeOK
<1>2. CASE Replay(c)
  <2>1. PICK v \in Existing(c) : Returns(c) \/ Goes(c, [at |-> "publish", version |-> v])
    BY <1>2 DEF Replay
  <2>2. v \in Version
    BY DEF Existing, TypeOK
  <2>3. [at |-> "publish", version |-> v] \in Call
    BY <2>2 DEF Call
  <2>4. call' \in [Clients -> Call]
    BY <2>1, <2>3, ReturnsType, GoesType
  <2> QED
    BY <1>2, <2>4 DEF Claim, Replay, TypeOK
<1>3. CASE ClaimRefused(c)
  BY <1>3, ReturnsType DEF Claim, ClaimRefused, TypeOK
<1> QED
  BY <1>1, <1>2, <1>3 DEF Claim

-----------------------------------------------------------------------------
(* The invariant.                                                           *)

(* The issues that are stored are those of the preview of the row. *)
IssuesInv == \A b \in Batches :
               issues[b] = IF batch[b] = NoBatch THEN NoPreview ELSE batch[b].preview

DataInv == IssuesInv /\ PublishedAsPreviewed /\ PublishedIsConfirmed

IInv == TypeOK /\ RequestInv /\ DataInv

LEMMA RowIsThere == ASSUME NEW r \in Row PROVE r # NoBatch
BY DEF Row, NoBatch, BatchStatus, Claimed

(* A request that goes on, while no batch comes or goes. *)
LEMMA RequestGoes ==
  ASSUME TypeOK, RequestInv, NEW c \in Clients, NEW next, Goes(c, next),
         next.at \notin {"inspect", "insert"},
         \A b \in Batches : batch'[b] = NoBatch <=> batch[b] = NoBatch,
         next.at = "respond" => next.batch \in Batches /\ batch[next.batch] # NoBatch
  PROVE  RequestInv'
<1>1. call'[c] = next /\ \A d \in Clients \ {c} : call'[d] = call[d]
  BY DEF Goes, TypeOK
<1>2. \A d \in Clients : call[d].at \in {"inspect", "insert", "respond"} => call[d].batch \in Batches
  BY CallFields
<1>3. ASSUME NEW d \in Clients, call'[d].at \in {"inspect", "insert"}
      PROVE  batch'[call'[d].batch] = NoBatch
  BY <1>1, <1>2, <1>3 DEF RequestInv
<1>4. ASSUME NEW d \in Clients, At(d, "respond")'
      PROVE  batch'[call'[d].batch] # NoBatch
  BY <1>1, <1>2, <1>4 DEF RequestInv, At
<1>5. ASSUME NEW d \in Clients, NEW e \in Clients, call'[d].at \in {"inspect", "insert"},
             call'[e].at \in {"inspect", "insert"}, call'[d].batch = call'[e].batch
      PROVE  d = e
  BY <1>1, <1>5 DEF RequestInv
<1> QED
  BY <1>3, <1>4, <1>5 DEF RequestInv

LEMMA RequestReturns ==
  ASSUME TypeOK, RequestInv, NEW c \in Clients, Returns(c),
         \A b \in Batches : batch'[b] = NoBatch <=> batch[b] = NoBatch
  PROVE  RequestInv'
<1>1. Goes(c, Idle) /\ Idle.at = "idle"
  BY DEF Returns, Idle
<1> QED
  BY <1>1, RequestGoes

LEMMA DataStays ==
  ASSUME DataInv, UNCHANGED <<batch, issues, versions>>
  PROVE  DataInv'
BY DEF DataInv, IssuesInv, PublishedAsPreviewed, PublishedIsConfirmed

(* An upload takes a batch that nobody has, and inserts it once. *)
LEMMA UploadStep ==
  ASSUME IInv, ContentsAssumption, NEW c \in Clients,
         \/ \E b \in Batches, content \in Uploaded : Stage(c, b, content)
         \/ Inspect(c) \/ Insert(c) \/ Refresh(c)
  PROVE  IInv'
<1>0. TypeOK /\ RequestInv /\ DataInv /\ TypeOK'
  BY UploadType DEF IInv
<1> SUFFICES RequestInv' /\ DataInv'
  BY <1>0 DEF IInv
<1>1. ASSUME NEW b \in Batches, NEW content \in Uploaded, Stage(c, b, content)
      PROVE  RequestInv' /\ DataInv'
  <2> DEFINE next == [at |-> "inspect", batch |-> b, hash |-> content]
  <2>1. next.at = "inspect" /\ next.batch = b
    OBVIOUS
  <2>2. Goes(c, next) /\ Fresh(b) /\ UNCHANGED <<batch, issues, versions>>
    BY <1>1 DEF Stage
  <2> HIDE DEF next
  <2>3. call'[c] = next /\ \A d \in Clients \ {c} : call'[d] = call[d]
    BY <1>0, <2>2 DEF Goes, TypeOK
  <2>4. RequestInv'
    BY <1>0, <2>1, <2>2, <2>3 DEF RequestInv, Fresh, At
  <2> QED
    BY <1>0, <2>2, <2>4, DataStays
<1>2. ASSUME Discard(c) PROVE RequestInv' /\ DataInv'
  <2>1. Returns(c) /\ UNCHANGED <<batch, issues, versions>>
    BY <1>2 DEF Discard
  <2> QED
    BY <1>0, <2>1, RequestReturns, DataStays
<1>3. CASE Inspect(c)
  <2>1. CASE Goes(c, [call[c] EXCEPT !.at = "insert"]) /\ UNCHANGED <<file, batch, issues, versions>>
    <3>1. call[c].at = "inspect" /\ call[c] \in Call
      BY <1>0, <1>3 DEF Inspect, At, TypeOK
    <3>a. call[c] \in [at : {"inspect", "insert"}, batch : Batches, hash : Contents]
      BY <3>1 DEF Call, Idle
    <3>2. [call[c] EXCEPT !.at = "insert"].at = "insert"
            /\ [call[c] EXCEPT !.at = "insert"].batch = call[c].batch
      BY <3>a
    <3>3. /\ call'[c].at = "insert" /\ call'[c].batch = call[c].batch
          /\ \A d \in Clients \ {c} : call'[d] = call[d]
      BY <1>0, <2>1, <3>2 DEF Goes, TypeOK
    <3>4. RequestInv'
      BY <1>0, <2>1, <3>1, <3>3 DEF RequestInv, At
    <3> QED
      BY <1>0, <2>1, <3>4, DataStays
  <2> QED
    BY <1>2, <1>3, <2>1 DEF Inspect
<1>4. CASE Insert(c)
  <2> DEFINE b == call[c].batch
             row == [hash |-> call[c].hash, status |-> "PENDING", preview |-> NoPreview]
             next == [at |-> "refresh", batch |-> b]
  <2>1. b \in Batches /\ call[c].hash \in Contents /\ batch[b] = NoBatch /\ call[c].at = "insert"
    BY <1>0, <1>4, CallFields DEF Insert, At, RequestInv
  <2>2. row \in Row
    BY <2>1 DEF Row, BatchStatus
  <2>3. row.preview = NoPreview /\ row # NoBatch /\ next.at = "refresh"
    BY <2>2, RowIsThere
  <2>4. batch' = [batch EXCEPT ![b] = row] /\ Goes(c, next) /\ UNCHANGED <<issues, versions>>
    BY <1>4 DEF Insert
  <2> HIDE DEF row, next
  <2>5. batch'[b] = row /\ \A e \in Batches \ {b} : batch'[e] = batch[e]
    BY <1>0, <2>1, <2>4 DEF TypeOK
  <2>6. call'[c] = next /\ \A d \in Clients \ {c} : call'[d] = call[d]
    BY <1>0, <2>4 DEF Goes, TypeOK
  <2>7. \A d \in Clients \ {c} : call[d].at \in {"inspect", "insert"} => call[d].batch # b
    BY <1>0, <2>1 DEF RequestInv
  <2>8. \A d \in Clients \ {c} : call[d].at \in {"inspect", "insert", "respond"}
                                => call[d].batch \in Batches
    BY <1>0, CallFields
  <2>9. RequestInv'
    BY <1>0, <2>3, <2>5, <2>6, <2>7, <2>8 DEF RequestInv, At
  <2>10. \A v \in versions : v.batch \in Batches /\ v.batch # b
    <3>1. \A v \in versions : v.batch \in Batches /\ batch[v.batch].status \in Claimed
      BY <1>0 DEF DataInv, PublishedAsPreviewed, TypeOK, Version
    <3>2. batch[b].status \notin Claimed
      BY <2>1 DEF NoBatch, Claimed
    <3> QED
      BY <3>1, <3>2
  <2>11. IssuesInv'
    <3>1. issues'[b] = NoPreview /\ batch'[b].preview = NoPreview /\ batch'[b] # NoBatch
      BY <1>0, <2>1, <2>3, <2>4, <2>5 DEF DataInv, IssuesInv
    <3>2. \A e \in Batches \ {b} : issues'[e] = issues[e] /\ batch'[e] = batch[e]
      BY <2>4, <2>5
    <3> QED
      BY <1>0, <3>1, <3>2 DEF DataInv, IssuesInv
  <2>12. PublishedAsPreviewed' /\ PublishedIsConfirmed'
    BY <1>0, <2>4, <2>5, <2>10 DEF DataInv, PublishedAsPreviewed, PublishedIsConfirmed
  <2> QED
    BY <2>9, <2>11, <2>12 DEF DataInv
<1>5. CASE Refresh(c)
  <2>1. CASE Returns(c) /\ UNCHANGED <<file, batch, issues, versions>>
    BY <1>0, <2>1, RequestReturns, DataStays
  <2> QED
    BY <1>2, <1>5, <2>1 DEF Refresh
<1> QED
  BY <1>1, <1>3, <1>4, <1>5

LEMMA PreviewStep ==
  ASSUME IInv, NEW c \in Clients,
         \/ \E b \in Batches, mapping \in Mappings : PreviewRead(c, b, mapping)
         \/ PreviewProcess(c) \/ PreviewComplete(c)
  PROVE  IInv'
<1>0. TypeOK /\ RequestInv /\ DataInv /\ TypeOK'
  BY PreviewType DEF IInv
<1> SUFFICES RequestInv' /\ DataInv'
  BY <1>0 DEF IInv
<1>1. ASSUME NEW b \in Batches, NEW mapping \in Mappings, PreviewRead(c, b, mapping)
      PROVE  RequestInv' /\ DataInv'
  <2> DEFINE next == [at |-> "process", batch |-> b, mapping |-> mapping]
  <2>1. next.at = "process" /\ Goes(c, next) /\ UNCHANGED <<batch, issues, versions>>
    BY <1>1 DEF PreviewRead
  <2> HIDE DEF next
  <2> QED
    BY <1>0, <2>1, RequestGoes, DataStays
<1>2. CASE PreviewProcess(c)
  <2> DEFINE next == [at |-> "complete", batch |-> call[c].batch,
                      preview |-> <<file[call[c].batch], call[c].mapping>>]
  <2>1. /\ next.at = "complete"
        /\ Returns(c) \/ Goes(c, next)
        /\ UNCHANGED <<batch, issues, versions>>
    BY <1>2 DEF PreviewProcess
  <2> HIDE DEF next
  <2>2. CASE Returns(c)
    BY <1>0, <2>1, <2>2, RequestReturns, DataStays
  <2>3. CASE Goes(c, next)
    BY <1>0, <2>1, <2>3, RequestGoes, DataStays
  <2> QED
    BY <2>1, <2>2, <2>3
<1>3. CASE PreviewComplete(c)
  <2> DEFINE b == call[c].batch
             next == [at |-> "respond", batch |-> b]
  <2>0. b \in Batches /\ call[c].preview \in Preview /\ UNCHANGED versions
    BY <1>0, <1>3, CallFields DEF PreviewComplete
  <2>1. CASE Returns(c) /\ UNCHANGED <<batch, issues>>
    BY <1>0, <2>0, <2>1, RequestReturns, DataStays
  <2>2. CASE ~ (Returns(c) /\ UNCHANGED <<batch, issues>>)
    <3>1. /\ Previewable(batch[b])
          /\ batch' = [batch EXCEPT ![b].status = "PREVIEW_READY", ![b].preview = call[c].preview]
          /\ issues' = [issues EXCEPT ![b] = call[c].preview]
          /\ Goes(c, next)
      BY <1>3, <2>2 DEF PreviewComplete
    <3>2. batch[b] \in Row
      BY <1>0, <2>0, <3>1, RowFields DEF Previewable, BatchStatus
    <3> DEFINE row == [batch[b] EXCEPT !.status = "PREVIEW_READY", !.preview = call[c].preview]
    <3>3. row \in Row /\ row.preview = call[c].preview
      BY <2>0, <3>2 DEF Row, BatchStatus
    <3>4. batch'[b] = row /\ \A e \in Batches \ {b} : batch'[e] = batch[e]
      BY <1>0, <2>0, <3>1 DEF TypeOK
    <3> HIDE DEF row
    <3>5. issues'[b] = call[c].preview /\ \A e \in Batches \ {b} : issues'[e] = issues[e]
      BY <1>0, <2>0, <3>1 DEF TypeOK
    <3>6. batch'[b] # NoBatch /\ batch[b] # NoBatch
      BY <3>2, <3>3, <3>4, RowIsThere
    <3>7. next.at = "respond" /\ next.batch = b
      OBVIOUS
    <3> HIDE DEF next
    <3>8. RequestInv'
      BY <1>0, <2>0, <3>1, <3>4, <3>6, <3>7, RequestGoes
    <3>9. IssuesInv'
      BY <1>0, <3>3, <3>4, <3>5, <3>6 DEF DataInv, IssuesInv
    <3>10. \A v \in versions : v.batch \in Batches /\ v.batch # b
      <4>1. \A v \in versions : v.batch \in Batches /\ batch[v.batch].status \in Claimed
        BY <1>0 DEF DataInv, PublishedAsPreviewed, TypeOK, Version
      <4>2. batch[b].status \notin Claimed
        BY <3>1 DEF Previewable, Claimed
      <4> QED
        BY <4>1, <4>2
    <3>11. PublishedAsPreviewed' /\ PublishedIsConfirmed'
      BY <1>0, <2>0, <3>4, <3>5, <3>10 DEF DataInv, PublishedAsPreviewed, PublishedIsConfirmed
    <3> QED
      BY <3>8, <3>9, <3>11 DEF DataInv
  <2> QED
    BY <2>1, <2>2
<1> QED
  BY <1>1, <1>2, <1>3

LEMMA ShowStep ==
  ASSUME IInv, NEW c \in Clients,
         \/ \E b \in Batches : Show(c, b)
         \/ RespondBatch(c) \/ RespondIssues(c) \/ Answer(c)
  PROVE  IInv'
<1>0. TypeOK /\ RequestInv /\ DataInv /\ TypeOK'
  BY ShowType DEF IInv
<1> SUFFICES RequestInv' /\ DataInv'
  BY <1>0 DEF IInv
<1>1. ASSUME NEW b \in Batches, Show(c, b) PROVE RequestInv' /\ DataInv'
  <2> DEFINE next == [at |-> "respond", batch |-> b]
  <2>1. /\ next.at = "respond" /\ next.batch = b /\ batch[b] # NoBatch /\ Goes(c, next)
        /\ UNCHANGED <<batch, issues, versions>>
    BY <1>1 DEF Show
  <2> HIDE DEF next
  <2> QED
    BY <1>0, <2>1, RequestGoes, DataStays
<1>2. CASE RespondBatch(c)
  <2> DEFINE next == [at |-> "issues", batch |-> call[c].batch, row |-> batch[call[c].batch]]
  <2>1. next.at = "issues" /\ Goes(c, next) /\ UNCHANGED <<batch, issues, versions>>
    BY <1>2 DEF RespondBatch
  <2> HIDE DEF next
  <2> QED
    BY <1>0, <2>1, RequestGoes, DataStays
<1>3. CASE RespondIssues(c)
  <2> DEFINE next == [at |-> "answered", row |-> call[c].row,
                      eligibility |-> Eligibility(call[c].row, issues[call[c].batch], FALSE)]
  <2>1. next.at = "answered" /\ Goes(c, next) /\ UNCHANGED <<batch, issues, versions>>
    BY <1>3 DEF RespondIssues
  <2> HIDE DEF next
  <2> QED
    BY <1>0, <2>1, RequestGoes, DataStays
<1>4. CASE Answer(c)
  <2>1. Returns(c) /\ UNCHANGED <<batch, issues, versions>>
    BY <1>4 DEF Answer
  <2> QED
    BY <1>0, <2>1, RequestReturns, DataStays
<1> QED
  BY <1>1, <1>2, <1>3, <1>4

LEMMA PublishReadStep ==
  ASSUME IInv, NEW c \in Clients,
         \/ \E b \in Batches, dataset \in Datasets, confirm \in BOOLEAN :
              PublishRead(c, b, dataset, confirm)
         \/ PublishCheck(c) \/ PublishRecompute(c)
  PROVE  IInv'
<1>0. TypeOK /\ RequestInv /\ DataInv /\ TypeOK'
  BY PublishType DEF IInv
<1> SUFFICES RequestInv' /\ DataInv'
  BY <1>0 DEF IInv
<1>1. ASSUME NEW b \in Batches, NEW dataset \in Datasets, NEW confirm \in BOOLEAN,
             PublishRead(c, b, dataset, confirm)
      PROVE  RequestInv' /\ DataInv'
  <2> DEFINE next == [at |-> "check", batch |-> b, row |-> batch[b],
                      dataset |-> dataset, confirm |-> confirm]
  <2>1. next.at = "check" /\ Goes(c, next) /\ UNCHANGED <<batch, issues, versions>>
    BY <1>1 DEF PublishRead
  <2> HIDE DEF next
  <2> QED
    BY <1>0, <2>1, RequestGoes, DataStays
<1>2. ASSUME call[c].at \in {"check", "recompute"}, NEW s \in {"recompute", "claim"},
             Returns(c) \/ Goes(c, [call[c] EXCEPT !.at = s]),
             UNCHANGED <<batch, issues, versions>>
      PROVE  RequestInv' /\ DataInv'
  <2> DEFINE next == [call[c] EXCEPT !.at = s]
  <2>1. call[c] \in [at : {"check", "recompute", "claim"}, batch : Batches, row : Row,
                     dataset : Datasets, confirm : BOOLEAN]
    BY <1>0, <1>2 DEF TypeOK, Call, Idle
  <2>2. next.at = s
    BY <2>1
  <2> HIDE DEF next
  <2>3. CASE Returns(c)
    BY <1>0, <1>2, <2>3, RequestReturns, DataStays
  <2>4. CASE Goes(c, next)
    BY <1>0, <1>2, <2>2, <2>4, RequestGoes, DataStays
  <2> QED
    BY <1>2, <2>3, <2>4 DEF next
<1>3. CASE PublishCheck(c)
  BY <1>2, <1>3 DEF PublishCheck, At
<1>4. CASE PublishRecompute(c)
  BY <1>2, <1>4 DEF PublishRecompute, At
<1> QED
  BY <1>1, <1>3, <1>4

(* A new version takes the preview of a row that no version has, under the  *)
(* lock: what it names and what is stored are one.                          *)
LEMMA ClaimStep ==
  ASSUME IInv, NEW c \in Clients, Claim(c)
  PROVE  IInv'
<1>0. TypeOK /\ RequestInv /\ DataInv /\ TypeOK'
  BY ClaimType DEF IInv
<1> SUFFICES RequestInv' /\ DataInv'
  BY <1>0 DEF IInv
<1>1. CASE ClaimNew(c)
  <2> DEFINE b == call[c].batch
             new == [batch |-> b, dataset |-> call[c].dataset, preview |-> call[c].row.preview,
                     confirmed |-> call[c].confirm, status |-> "CLAIMED", rows |-> NoPreview]
             next == [at |-> "publish", version |-> new]
             row == [batch[b] EXCEPT !.status = "PUBLISHING"]
  <2>1. /\ b \in Batches /\ batch[b] \in Row
        /\ batch[b].status = "PREVIEW_READY" /\ batch[b].preview = call[c].row.preview
        /\ versions' = versions \cup {new}
        /\ batch' = [batch EXCEPT ![b].status = "PUBLISHING"]
        /\ Goes(c, next) /\ UNCHANGED issues
    BY <1>0, <1>1, ClaimNewFields DEF Claim
  <2>2. next.at = "publish"
    OBVIOUS
  <2>3. /\ new.batch = b /\ new.preview = call[c].row.preview /\ new.rows = NoPreview
        /\ new.confirmed = call[c].confirm
    OBVIOUS
  <2>4. row \in Row /\ row.status = "PUBLISHING" /\ row.preview = batch[b].preview
    BY <2>1 DEF Row, BatchStatus, Claimed
  <2>5. batch'[b] = row /\ \A e \in Batches \ {b} : batch'[e] = batch[e]
    BY <1>0, <2>1 DEF TypeOK
  <2> HIDE DEF new, next, row
  <2>6. batch[b] # NoBatch /\ batch'[b] # NoBatch
    BY <2>1, <2>4, <2>5, RowIsThere
  <2>7. RequestInv'
    BY <1>0, <2>1, <2>2, <2>5, <2>6, RequestGoes
  <2>8. IssuesInv'
    BY <1>0, <2>1, <2>4, <2>5, <2>6 DEF DataInv, IssuesInv
  <2>9. \A v \in versions : v.batch \in Batches /\ v.batch # b
    <3>1. \A v \in versions : v.batch \in Batches /\ batch[v.batch].status \in Claimed
      BY <1>0 DEF DataInv, PublishedAsPreviewed, TypeOK, Version
    <3>2. batch[b].status \notin Claimed
      BY <2>1 DEF Claimed
    <3> QED
      BY <3>1, <3>2
  <2>10. issues[b] = new.preview /\ batch'[b].preview = new.preview /\ batch'[b].status \in Claimed
    BY <1>0, <2>1, <2>3, <2>4, <2>5, <2>6 DEF DataInv, IssuesInv, Claimed
  <2>11. PublishedAsPreviewed'
    BY <1>0, <2>1, <2>3, <2>5, <2>9, <2>10 DEF DataInv, PublishedAsPreviewed
  <2>12. /\ Judged(new.preview) # "BLOCKED"
         /\ Judged(new.preview) = "WARNED" => new.confirmed
    BY <1>1, <2>3, AdmittedIsConfirmed DEF ClaimNew
  <2>13. PublishedIsConfirmed'
    BY <1>0, <2>1, <2>12 DEF DataInv, PublishedIsConfirmed, Judged
  <2> QED
    BY <2>7, <2>8, <2>11, <2>13 DEF DataInv
<1>2. CASE Replay(c)
  <2>1. PICK v \in Existing(c) : Returns(c) \/ Goes(c, [at |-> "publish", version |-> v])
    BY <1>2 DEF Replay
  <2>2. UNCHANGED <<batch, issues, versions>>
    BY <1>2 DEF Claim, Replay
  <2> DEFINE next == [at |-> "publish", version |-> v]
  <2>3. next.at = "publish"
    OBVIOUS
  <2> HIDE DEF next
  <2>4. CASE Returns(c)
    BY <1>0, <2>2, <2>4, RequestReturns, DataStays
  <2>5. CASE Goes(c, next)
    BY <1>0, <2>2, <2>3, <2>5, RequestGoes, DataStays
  <2> QED
    BY <2>1, <2>4, <2>5 DEF next
<1>3. CASE ClaimRefused(c)
  <2>1. Returns(c) /\ UNCHANGED <<batch, issues, versions>>
    BY <1>3 DEF Claim, ClaimRefused
  <2> QED
    BY <1>0, <2>1, RequestReturns, DataStays
<1> QED
  BY <1>1, <1>2, <1>3 DEF Claim

(* What is settled is the version of the claim, with the rows it named. *)
LEMMA SettleStep ==
  ASSUME IInv, NEW c \in Clients, At(c, "publish"), Returns(c), UNCHANGED <<file, issues>>,
         NEW v \in versions, Own(c, v), NEW status \in {"PUBLISHED", "FAILED"},
         NEW batchStatus \in {"PUBLISHED", "PUBLISH_FAILED"},
         NEW rows \in {v.rows, call[c].version.preview},
         Settle(c, v, status, batchStatus, rows)
  PROVE  IInv'
<1>0. TypeOK /\ RequestInv /\ DataInv /\ v \in Version
  BY DEF IInv, TypeOK
<1> DEFINE b == v.batch
           new == [v EXCEPT !.status = status, !.rows = rows]
           row == [batch[b] EXCEPT !.status = batchStatus]
<1>1. b \in Batches /\ batch[b].status \in Claimed /\ batch[b].preview = v.preview
  BY <1>0 DEF Version, DataInv, PublishedAsPreviewed
<1>2. batch[b] \in Row
  BY <1>0, <1>1, RowFields DEF BatchStatus
<1>3. rows \in {NoPreview, v.preview}
  BY <1>0 DEF Own, DataInv, PublishedAsPreviewed
<1>4. /\ new \in Version /\ new.batch = b /\ new.preview = v.preview
      /\ new.confirmed = v.confirmed /\ new.rows = rows
  BY <1>0, <1>3 DEF Version
<1>5. row \in Row /\ row.status = batchStatus /\ row.preview = batch[b].preview
  BY <1>2 DEF Row, BatchStatus, Claimed
<1>6. versions' = (versions \ {v}) \cup {new} /\ batch' = [batch EXCEPT ![b] = row]
  BY DEF Settle
<1> HIDE DEF new, row
<1>7. batch'[b] = row /\ \A e \in Batches \ {b} : batch'[e] = batch[e]
  BY <1>0, <1>1, <1>6 DEF TypeOK
<1>8. TypeOK'
  BY <1>0, <1>1, <1>4, <1>5, <1>6, ReturnsType DEF TypeOK
<1>9. batch[b] # NoBatch /\ batch'[b] # NoBatch
  BY <1>2, <1>5, <1>7, RowIsThere
<1>10. RequestInv'
  BY <1>0, <1>7, <1>9, RequestReturns
<1>11. IssuesInv'
  BY <1>0, <1>1, <1>5, <1>7, <1>9 DEF DataInv, IssuesInv
<1>12. \A w \in versions : w.batch = b => w = v
  BY <1>0 DEF DataInv, PublishedAsPreviewed
<1>13. \A w \in versions : w.batch \in Batches
  BY <1>0 DEF TypeOK, Version
<1>14. batchStatus \in Claimed
  BY DEF Claimed
<1>15. PublishedAsPreviewed'
  BY <1>0, <1>1, <1>3, <1>4, <1>5, <1>6, <1>7, <1>12, <1>13, <1>14
     DEF DataInv, PublishedAsPreviewed
<1>16. PublishedIsConfirmed'
  BY <1>0, <1>4, <1>6 DEF DataInv, PublishedIsConfirmed, Judged
<1> QED
  BY <1>8, <1>10, <1>11, <1>15, <1>16 DEF IInv, DataInv

LEMMA PublishStep ==
  ASSUME IInv, NEW c \in Clients, Publish(c)
  PROVE  IInv'
<1>1. PICK v \in versions :
        /\ Own(c, v)
        /\ \/ v.status = "PUBLISHED" /\ UNCHANGED <<versions, batch>>
           \/ v.status # "PUBLISHED" /\ Settle(c, v, "PUBLISHED", "PUBLISHED", call[c].version.preview)
           \/ v.status # "PUBLISHED" /\ Settle(c, v, "FAILED", "PUBLISH_FAILED", v.rows)
  BY DEF Publish
<1>2. At(c, "publish") /\ Returns(c) /\ UNCHANGED <<file, issues>>
  BY DEF Publish
<1>3. CASE UNCHANGED <<versions, batch>>
  <2>1. TypeOK /\ RequestInv /\ DataInv
    BY DEF IInv
  <2>2. call' \in [Clients -> Call]
    BY <1>2, <2>1, ReturnsType
  <2>3. TypeOK'
    BY <1>2, <1>3, <2>1, <2>2 DEF TypeOK
  <2>4. RequestInv' /\ DataInv'
    BY <1>2, <1>3, <2>1, RequestReturns, DataStays
  <2> QED
    BY <2>3, <2>4 DEF IInv
<1>4. CASE Settle(c, v, "PUBLISHED", "PUBLISHED", call[c].version.preview)
  BY <1>1, <1>2, <1>4, SettleStep
<1>5. CASE Settle(c, v, "FAILED", "PUBLISH_FAILED", v.rows)
  BY <1>1, <1>2, <1>5, SettleStep
<1> QED
  BY <1>1, <1>3, <1>4, <1>5

LEMMA InvInit == Init => IInv
<1> SUFFICES ASSUME Init PROVE IInv
  OBVIOUS
<1>1. RequestInv
  BY DEF Init, RequestInv, At, Idle
<1>2. DataInv
  BY DEF Init, DataInv, IssuesInv, PublishedAsPreviewed, PublishedIsConfirmed
<1> QED
  BY <1>1, <1>2, TypeInit DEF IInv

LEMMA InvStep == IInv /\ [Next]_vars => IInv'
<1> SUFFICES ASSUME IInv, [Next]_vars PROVE IInv'
  OBVIOUS
<1>1. ASSUME NEW c \in Clients, Step(c) PROVE IInv'
  BY <1>1, ContentsAssumption, UploadStep, PreviewStep, ShowStep, PublishReadStep, ClaimStep,
     PublishStep DEF Step
<1>2. ASSUME NEW b \in Batches, NEW content \in Contents, Edit(b, content) PROVE IInv'
  BY <1>2, DataStays DEF Edit, IInv, TypeOK, RequestInv, At
<1>3. CASE Crash
  <2>1. UNCHANGED <<batch, issues, versions>>
    BY <1>3 DEF Crash
  <2>2. call' \in [Clients -> Call] /\ \A c \in Clients : call'[c].at = "idle"
    BY <1>3 DEF Crash, Call, Idle
  <2>3. RequestInv'
    BY <2>2 DEF RequestInv, At
  <2> QED
    BY <1>3, <2>1, <2>2, <2>3, DataStays DEF Crash, IInv, TypeOK
<1>4. CASE UNCHANGED vars
  BY <1>4, DataStays DEF vars, IInv, TypeOK, RequestInv, At
<1> QED
  BY <1>1, <1>2, <1>3, <1>4 DEF Next

-----------------------------------------------------------------------------
(* What an answer says, which stands until the request ends.                *)

LEMMA EligibleIsClean ==
  ASSUME NEW row, NEW issuesOf, Eligibility(row, issuesOf, FALSE) = "ELIGIBLE"
  PROVE  row.preview \in Clean
BY DEF Eligibility, Judged

(* No other step than RespondIssues answers. *)
LEMMA NotAnswered ==
  ASSUME TypeOK, NEW c \in Clients, Step(c), ~ RespondIssues(c)
  PROVE  call'[c].at # "answered" /\ \A d \in Clients \ {c} : call'[d] = call[d]
<1> USE DEF Goes, TypeOK
<1>1. CASE Returns(c)
  BY <1>1 DEF Returns, Idle
<1>2. CASE (\E b \in Batches, content \in Uploaded : Stage(c, b, content)) \/ Insert(c)
  BY <1>2 DEF Stage, Insert
<1>3. CASE Inspect(c) \/ PublishCheck(c) \/ PublishRecompute(c)
  BY <1>1, <1>3 DEF Inspect, Discard, PublishCheck, PublishRecompute, At, Call, Idle
<1>4. CASE Refresh(c) \/ Answer(c)
  BY <1>1, <1>4 DEF Refresh, Discard, Answer
<1>5. CASE \/ \E b \in Batches, mapping \in Mappings : PreviewRead(c, b, mapping)
           \/ PreviewProcess(c) \/ PreviewComplete(c)
  BY <1>1, <1>5 DEF PreviewRead, PreviewProcess, PreviewComplete
<1>6. CASE (\E b \in Batches : Show(c, b)) \/ RespondBatch(c)
  BY <1>6 DEF Show, RespondBatch
<1>7. CASE \E b \in Batches, dataset \in Datasets, confirm \in BOOLEAN :
             PublishRead(c, b, dataset, confirm)
  BY <1>7 DEF PublishRead
<1>8. CASE Claim(c) \/ Publish(c)
  BY <1>1, <1>8 DEF Claim, ClaimNew, Replay, ClaimRefused, Publish
<1> QED
  BY <1>2, <1>3, <1>4, <1>5, <1>6, <1>7, <1>8 DEF Step

LEMMA ShownStep ==
  ASSUME TypeOK, ShownEligibilityIsSafe, [Next]_vars
  PROVE  ShownEligibilityIsSafe'
<1>1. ASSUME NEW c \in Clients, NEW next, Goes(c, next),
             next.at = "answered" => (next.eligibility = "ELIGIBLE" => next.row.preview \in Clean)
      PROVE  ShownEligibilityIsSafe'
  BY <1>1 DEF Goes, TypeOK, ShownEligibilityIsSafe, At
<1>2. ASSUME NEW c \in Clients, RespondIssues(c) PROVE ShownEligibilityIsSafe'
  <2> DEFINE next == [at |-> "answered", row |-> call[c].row,
                      eligibility |-> Eligibility(call[c].row, issues[call[c].batch], FALSE)]
  <2>1. next.eligibility = "ELIGIBLE" => next.row.preview \in Clean
    BY EligibleIsClean
  <2>2. Goes(c, next)
    BY <1>2 DEF RespondIssues
  <2> HIDE DEF next
  <2> QED
    BY <1>1, <2>1, <2>2
<1>3. ASSUME NEW c \in Clients, Step(c), ~ RespondIssues(c) PROVE ShownEligibilityIsSafe'
  BY <1>3, NotAnswered DEF ShownEligibilityIsSafe, At
<1>4. CASE Crash
  BY <1>4 DEF Crash, ShownEligibilityIsSafe, At, Idle
<1>5. CASE UNCHANGED call
  BY <1>5 DEF ShownEligibilityIsSafe, At
<1> QED
  BY <1>2, <1>3, <1>4, <1>5 DEF Next, Edit, vars

-----------------------------------------------------------------------------
(* The theorems.                                                            *)

(* Every state has its type. *)
THEOREM TypeCorrect == Spec => []TypeOK
<1>1. IInv => TypeOK
  BY DEF IInv
<1> QED
  BY <1>1, InvInit, InvStep, PTL DEF Spec

(* What is published is the preview that was claimed, whatever previews,    *)
(* edits and publications interleave (complete_preview, claim_publication). *)
THEOREM VersionsArePreviews == Spec => []PublishedAsPreviewed
<1>1. IInv => PublishedAsPreviewed
  BY DEF IInv, DataInv
<1> QED
  BY <1>1, InvInit, InvStep, PTL DEF Spec

(* No version passed the gate but as it stands (evaluate_eligibility inside *)
(* the claim).                                                              *)
THEOREM VersionsAreConfirmed == Spec => []PublishedIsConfirmed
<1>1. IInv => PublishedIsConfirmed
  BY DEF IInv, DataInv
<1> QED
  BY <1>1, InvInit, InvStep, PTL DEF Spec

(* An answer that shows a preview as eligible shows one without issues, of   *)
(* whichever previews its row and its issues are (_batch_response).         *)
THEOREM ShownIsSafe == Spec => []ShownEligibilityIsSafe
<1>1. Init => ShownEligibilityIsSafe
  BY DEF Init, ShownEligibilityIsSafe, At, Idle
<1>2. IInv /\ ShownEligibilityIsSafe /\ [Next]_vars => ShownEligibilityIsSafe'
  BY ShownStep DEF IInv
<1> QED
  BY <1>1, <1>2, InvInit, InvStep, PTL DEF Spec

-----------------------------------------------------------------------------
(* The quality rules, for files of every length: what the loop over the rows *)
(* remembers and says of a prefix, against what the prefix is.               *)

LEMMA ReadableIs ==
  ASSUME NEW cell \in Cell, Readable(cell), UnreadableAssumption
  PROVE  /\ cell.symbol \in Symbols /\ cell.day \in Int
         /\ cell.open \in Int /\ cell.high \in Int /\ cell.low \in Int /\ cell.close \in Int
         /\ cell.volume \in Int /\ cell.amount \in Int
<1>1. cell.symbol \in Symbols
  <2>1. Inferred(cell.symbol) # {}
    BY DEF Readable, HasInstrument
  <2>2. cell.symbol \in {0, 1, 2, 3, 5, 6, 9}
    BY <2>1 DEF Inferred
  <2> QED BY <2>2 DEF Symbols
<1> QED
  BY <1>1 DEF Readable, Cell, Maybe, UnreadableAssumption

LEMMA UnionEmpty ==
  ASSUME NEW A, NEW B, NEW C, NEW D, NEW E, NEW F
  PROVE  UNION {A, B, C, D, E, F} = {}
           <=> A = {} /\ B = {} /\ C = {} /\ D = {} /\ E = {} /\ F = {}
OBVIOUS

\* A row without errors in its shape is a bar.
LEMMA ShapeIsExact ==
  ASSUME NEW cell \in Cell, Readable(cell), UnreadableAssumption
  PROVE  ShapeErrors(cell) = {} <=> WellShaped(cell)
<1>1. /\ cell.open \in Int /\ cell.high \in Int /\ cell.low \in Int /\ cell.close \in Int
      /\ cell.volume \in Int /\ cell.amount \in Int
  BY ReadableIs
<1>2. ASSUME ShapeErrors(cell) = {} PROVE WellShaped(cell)
  <2>1. /\ When(\E p \in {cell.open, cell.high, cell.low, cell.close} : p <= 0,
                "NON_POSITIVE_PRICE") = {}
        /\ When(cell.volume < 0, "NEGATIVE_VOLUME") = {}
        /\ When(cell.amount < 0, "NEGATIVE_AMOUNT") = {}
        /\ When(Outside(cell.open, cell), "OPEN_OUT_OF_RANGE") = {}
        /\ When(Outside(cell.close, cell), "CLOSE_OUT_OF_RANGE") = {}
    BY <1>2, UnionEmpty, Zenon DEF ShapeErrors
  <2>2. /\ ~ \E p \in {cell.open, cell.high, cell.low, cell.close} : p <= 0
        /\ ~ (cell.volume < 0) /\ ~ (cell.amount < 0)
        /\ ~ Outside(cell.open, cell) /\ ~ Outside(cell.close, cell)
    BY <2>1 DEF When
  <2> QED BY <1>1, <2>2 DEF WellShaped, Outside
<1>3. ASSUME WellShaped(cell) PROVE ShapeErrors(cell) = {}
  <2>1. /\ ~ \E p \in {cell.open, cell.high, cell.low, cell.close} : p <= 0
        /\ ~ (cell.volume < 0) /\ ~ (cell.amount < 0) /\ ~ (cell.high < cell.low)
        /\ ~ Outside(cell.open, cell) /\ ~ Outside(cell.close, cell)
    BY <1>1, <1>3 DEF WellShaped, Outside
  <2>2. /\ When(\E p \in {cell.open, cell.high, cell.low, cell.close} : p <= 0,
                "NON_POSITIVE_PRICE") = {}
        /\ When(cell.volume < 0, "NEGATIVE_VOLUME") = {}
        /\ When(cell.amount < 0, "NEGATIVE_AMOUNT") = {}
        /\ When(cell.high < cell.low, "HIGH_BELOW_LOW") = {}
        /\ When(Outside(cell.open, cell), "OPEN_OUT_OF_RANGE") = {}
        /\ When(Outside(cell.close, cell), "CLOSE_OUT_OF_RANGE") = {}
    BY <2>1 DEF When
  <2>3. ASSUME NEW e \in ShapeErrors(cell) PROVE FALSE
    BY <2>2, <2>3 DEF ShapeErrors
  <2> QED BY <2>3
<1> QED
  BY <1>2, <1>3

Codes == {"TYPE_PARSE_ERROR", "NON_POSITIVE_PRICE", "NEGATIVE_VOLUME", "NEGATIVE_AMOUNT",
          "HIGH_BELOW_LOW", "OPEN_OUT_OF_RANGE", "CLOSE_OUT_OF_RANGE", "DUPLICATE_BAR",
          "OUT_OF_ORDER", "ZERO_VOLUME", "ZERO_AMOUNT", "EXTREME_PRICE_JUMP"}

Said == [status : {"REJECTED", "WARNING", "ACCEPTED"}, errors : SUBSET Codes,
         warnings : SUBSET Codes]

Past == [seen : SUBSET (Symbols \X Int), priorDate : [Symbols -> Int \cup {Unknown}],
         priorClose : [Symbols -> Int \cup {Unknown}],
         verdicts : Seq(Said), halted : BOOLEAN]

LEMMA SaysIs ==
  ASSUME NEW past \in Past, NEW verdict
  PROVE  Says(past, verdict) =
           [seen |-> past.seen, priorDate |-> past.priorDate, priorClose |-> past.priorClose,
            verdicts |-> Append(past.verdicts, verdict), halted |-> past.halted]
<1>1. PICK verdicts : verdicts = Append(past.verdicts, verdict)
  OBVIOUS
<1>2. [past EXCEPT !.verdicts = verdicts] =
        [seen |-> past.seen, priorDate |-> past.priorDate, priorClose |-> past.priorClose,
         verdicts |-> verdicts, halted |-> past.halted]
  BY DEF Past
<1> QED
  BY <1>1, <1>2 DEF Says

LEMMA RememberIs ==
  ASSUME NEW past \in Past, NEW cell, cell.symbol \in Symbols
  PROVE  Remember(cell, past) =
           [seen |-> past.seen \cup {<<cell.symbol, cell.day>>},
            priorDate |-> [past.priorDate EXCEPT ![cell.symbol] = cell.day],
            priorClose |-> [past.priorClose EXCEPT ![cell.symbol] = cell.close],
            verdicts |-> past.verdicts, halted |-> past.halted]
<1>1. PICK seen, dates, closes :
        /\ seen = past.seen \cup {<<cell.symbol, cell.day>>}
        /\ dates = [past.priorDate EXCEPT ![cell.symbol] = cell.day]
        /\ closes = [past.priorClose EXCEPT ![cell.symbol] = cell.close]
  OBVIOUS
<1>2. PICK a : a = [past EXCEPT !.seen = seen]
  OBVIOUS
<1>3. a = [seen |-> seen, priorDate |-> past.priorDate, priorClose |-> past.priorClose,
           verdicts |-> past.verdicts, halted |-> past.halted]
  BY <1>2 DEF Past
<1>4. PICK b : b = [a EXCEPT !.priorDate = dates]
  OBVIOUS
<1>5. b = [seen |-> seen, priorDate |-> dates, priorClose |-> past.priorClose,
           verdicts |-> past.verdicts, halted |-> past.halted]
  BY <1>3, <1>4
<1>6. [b EXCEPT !.priorClose = closes]
        = [seen |-> seen, priorDate |-> dates, priorClose |-> closes,
           verdicts |-> past.verdicts, halted |-> past.halted]
  BY <1>5
<1>7. a.priorDate = past.priorDate /\ b.priorClose = past.priorClose
  BY <1>3, <1>5
<1>8. Remember(cell, past) = [b EXCEPT !.priorClose = closes]
  BY <1>1, <1>2, <1>4, <1>7, Zenon DEF Remember
<1> QED
  BY <1>1, <1>6, <1>8

LEMMA VerdictType ==
  ASSUME NEW cell, NEW past
  PROVE  Verdict(cell, past) \in Said /\ Misread \in Said
<1>1. ShapeErrors(cell) \in SUBSET Codes
  <2>1. ASSUME NEW e \in ShapeErrors(cell) PROVE e \in Codes
    BY <2>1 DEF ShapeErrors, When, Codes
  <2> QED BY <2>1
<1>2. Errors(cell, past) \in SUBSET Codes
  BY <1>1 DEF Errors, When, Codes
<1>3. Warnings(cell, past) \in SUBSET Codes
  BY DEF Warnings, When, Codes
<1>4. Misread \in Said
  BY DEF Misread, Said, Codes
<1> QED
  BY <1>2, <1>3, <1>4 DEF Verdict, Said

LEMMA AfterType ==
  ASSUME NEW past \in Past, NEW cell \in Cell, UnreadableAssumption
  PROVE  After(past, cell) \in Past
<1>1. past.verdicts \in Seq(Said) /\ past.halted \in BOOLEAN
  BY DEF Past
<1>2. ASSUME NEW verdict \in Said PROVE Says(past, verdict) \in Past
  <2>1. Append(past.verdicts, verdict) \in Seq(Said)
    BY <1>1
  <2>2. Says(past, verdict) =
          [seen |-> past.seen, priorDate |-> past.priorDate, priorClose |-> past.priorClose,
           verdicts |-> Append(past.verdicts, verdict), halted |-> past.halted]
    BY SaysIs
  <2> QED BY <2>1, <2>2 DEF Past
<1>3. [past EXCEPT !.halted = TRUE] \in Past
  BY DEF Past
<1>4. ASSUME NEW verdict \in Said, Readable(cell) PROVE Remember(cell, Says(past, verdict)) \in Past
  <2>1. PICK said \in Past : said = Says(past, verdict)
    BY <1>2
  <2>2. cell.symbol \in Symbols /\ cell.day \in Int /\ cell.close \in Int
    BY <1>4, ReadableIs
  <2>3. said.seen \cup {<<cell.symbol, cell.day>>} \in SUBSET (Symbols \X Int)
    BY <2>2 DEF Past
  <2>4. [said.priorDate EXCEPT ![cell.symbol] = cell.day] \in [Symbols -> Int \cup {Unknown}]
        /\ [said.priorClose EXCEPT ![cell.symbol] = cell.close] \in [Symbols -> Int \cup {Unknown}]
    BY <2>2 DEF Past
  <2>5. Remember(cell, said) =
           [seen |-> said.seen \cup {<<cell.symbol, cell.day>>},
            priorDate |-> [said.priorDate EXCEPT ![cell.symbol] = cell.day],
            priorClose |-> [said.priorClose EXCEPT ![cell.symbol] = cell.close],
            verdicts |-> said.verdicts, halted |-> said.halted]
    BY <2>2, RememberIs
  <2> QED BY <2>1, <2>3, <2>4, <2>5 DEF Past
<1> QED
  BY <1>2, <1>3, <1>4, VerdictType DEF After

\* A prefix that is a series, and one that is unremarkable.
BarsTo(f, n) ==
  /\ \A i \in 1 .. n : WellShaped(f[i])
  /\ \A i, j \in 1 .. n : i < j /\ f[i].symbol = f[j].symbol => f[i].day < f[j].day

NextOfSymbol(f, i, j) == /\ i < j /\ f[i].symbol = f[j].symbol
                  /\ \A k \in 1 .. j : i < k /\ k < j => f[k].symbol # f[i].symbol

PlainTo(f, n) ==
  /\ \A i \in 1 .. n : f[i].volume # 0 /\ f[i].amount # 0
  /\ \A i, j \in 1 .. n : NextOfSymbol(f, i, j) => ~ Jumps(f[j].close, f[i].close)

\* What is remembered of a prefix: the last row of each symbol.
LastOf(f, n, s, i) ==
  i \in 1 .. n /\ f[i].symbol = s /\ \A k \in 1 .. n : i < k => f[k].symbol # s

Describes(past, f, n) ==
  /\ past.seen = {<<f[i].symbol, f[i].day>> : i \in 1 .. n}
  /\ \A s \in Symbols :
       \/ \E i \in 1 .. n : /\ LastOf(f, n, s, i)
                            /\ past.priorDate[s] = f[i].day /\ past.priorClose[s] = f[i].close
       \/ /\ \A i \in 1 .. n : f[i].symbol # s
          /\ past.priorDate[s] = Unknown /\ past.priorClose[s] = Unknown

Lets(past, n) ==
  /\ past.halted = FALSE /\ Len(past.verdicts) = n
  /\ \A i \in 1 .. n :
       /\ past.verdicts[i].errors = {}
       /\ past.verdicts[i].status
            = IF past.verdicts[i].warnings # {} THEN "WARNING" ELSE "ACCEPTED"

Stops(past) == \/ past.halted = TRUE
               \/ \E i \in 1 .. Len(past.verdicts) : /\ past.verdicts[i].errors # {}
                                                     /\ past.verdicts[i].status = "REJECTED"

JudgedTo(past, f, n) ==
  /\ past \in Past
  /\ BarsTo(f, n) => /\ Lets(past, n) /\ Describes(past, f, n)
                     /\ (\A i \in 1 .. n : past.verdicts[i].warnings = {}) <=> PlainTo(f, n)
  /\ ~ BarsTo(f, n) => Stops(past)

LEMMA ErrorsAreExact ==
  ASSUME UnreadableAssumption, UnknownAssumption, NEW f \in Seq(Cell), NEW n \in 1 .. Len(f),
         NEW past \in Past, BarsTo(f, n - 1), Describes(past, f, n - 1), Readable(f[n])
  PROVE  Errors(f[n], past) = {} <=> BarsTo(f, n)
<1>1. PICK m \in Nat : m = n - 1 /\ n = m + 1
  OBVIOUS
<1>2. PICK c \in Cell : c = f[n]
  OBVIOUS
<1>3. c.symbol \in Symbols /\ c.day \in Int
  BY <1>2, ReadableIs
<1>4. \A i \in 1 .. m : f[i] \in Cell /\ WellShaped(f[i])
  BY <1>1 DEF BarsTo
<1>5. \A i \in 1 .. m : f[i].day \in Int
  BY <1>4, ReadableIs DEF WellShaped
<1>6. Errors(c, past) = {} <=> WellShaped(c) /\ ~ Repeated(c, past) /\ ~ Backwards(c, past)
  <2>1. ShapeErrors(c) = {} <=> WellShaped(c)
    BY <1>2, ShapeIsExact
  <2> QED BY <2>1 DEF Errors, When
<1>7. BarsTo(f, n) <=> /\ WellShaped(c)
                       /\ \A i \in 1 .. m : f[i].symbol = c.symbol => f[i].day < c.day
  <2>1. \A i \in 1 .. n : i \in 1 .. m \/ i = n
    BY <1>1
  <2>2. n \in 1 .. n /\ \A i \in 1 .. m : i \in 1 .. n /\ i < n
    BY <1>1
  <2>3. \A i, j \in 1 .. m : i < j /\ f[i].symbol = f[j].symbol => f[i].day < f[j].day
    BY <1>1 DEF BarsTo
  <2>4. ASSUME BarsTo(f, n)
        PROVE  WellShaped(c) /\ \A i \in 1 .. m : f[i].symbol = c.symbol => f[i].day < c.day
    BY <1>2, <2>2, <2>4 DEF BarsTo
  <2>5. ASSUME WellShaped(c), \A i \in 1 .. m : f[i].symbol = c.symbol => f[i].day < c.day
        PROVE  BarsTo(f, n)
    <3>1. \A i \in 1 .. n : WellShaped(f[i])
      BY <1>2, <1>4, <2>1, <2>5
    <3>2. ASSUME NEW i \in 1 .. n, NEW j \in 1 .. n, i < j, f[i].symbol = f[j].symbol
          PROVE  f[i].day < f[j].day
      <4>1. i \in 1 .. m
        BY <1>1, <3>2
      <4> QED BY <1>2, <2>1, <2>3, <2>5, <3>2, <4>1
    <3> QED BY <3>1, <3>2 DEF BarsTo
  <2> QED BY <2>4, <2>5
<1>8. ASSUME \A i \in 1 .. m : f[i].symbol = c.symbol => f[i].day < c.day
      PROVE  ~ Repeated(c, past) /\ ~ Backwards(c, past)
  <2>1. ASSUME Repeated(c, past) PROVE FALSE
    <3>1. PICK i \in 1 .. m : <<c.symbol, c.day>> = <<f[i].symbol, f[i].day>>
      BY <1>1, <2>1 DEF Repeated, Describes
    <3>2. c.symbol = f[i].symbol /\ c.day = f[i].day
      BY <3>1
    <3> QED BY <1>3, <1>8, <3>2
  <2>2. ASSUME Backwards(c, past) PROVE FALSE
    <3>1. PICK i \in 1 .. m : f[i].symbol = c.symbol /\ past.priorDate[c.symbol] = f[i].day
      BY <1>1, <1>3, <2>2 DEF Backwards, Describes, LastOf
    <3>2. c.day < f[i].day
      BY <2>2, <3>1 DEF Backwards
    <3>3. f[i].day < c.day /\ f[i].day \in Int
      BY <1>5, <1>8, <3>1
    <3> QED BY <1>3, <3>2, <3>3
  <2> QED BY <2>1, <2>2
<1>9. ASSUME ~ Repeated(c, past), ~ Backwards(c, past), NEW i \in 1 .. m, f[i].symbol = c.symbol
      PROVE  f[i].day < c.day
  <2>1. PICK l \in 1 .. m : LastOf(f, m, c.symbol, l) /\ past.priorDate[c.symbol] = f[l].day
    BY <1>1, <1>3, <1>9 DEF Describes
  <2>2. f[l].symbol = c.symbol /\ ~ (l < i)
    BY <1>9, <2>1 DEF LastOf
  <2>3. f[i].day <= f[l].day
    <3>1. i = l \/ i < l
      BY <2>2
    <3>2. i < l => f[i].day < f[l].day
      BY <1>1, <1>9, <2>2 DEF BarsTo
    <3> QED BY <1>5, <3>1, <3>2
  <2>4. f[l].day # Unknown
    BY <1>5 DEF UnknownAssumption
  <2>5. ~ (c.day < f[l].day)
    BY <1>9, <2>1, <2>4 DEF Backwards
  <2>6. c.day # f[l].day
    <3>1. <<f[l].symbol, f[l].day>> \in past.seen
      BY <1>1 DEF Describes
    <3> QED BY <1>9, <2>2, <3>1 DEF Repeated
  <2> QED BY <1>3, <1>5, <2>3, <2>5, <2>6
<1> QED
  BY <1>2, <1>6, <1>7, <1>8, <1>9

LEMMA WarningsAreExact ==
  ASSUME UnreadableAssumption, UnknownAssumption, NEW f \in Seq(Cell), NEW n \in 1 .. Len(f),
         NEW past \in Past, BarsTo(f, n - 1), Describes(past, f, n - 1), Readable(f[n])
  PROVE  (Warnings(f[n], past) = {} /\ PlainTo(f, n - 1)) <=> PlainTo(f, n)
<1>1. PICK m \in Nat : m = n - 1 /\ n = m + 1
  OBVIOUS
<1>2. PICK c \in Cell : c = f[n]
  OBVIOUS
<1>3. c.symbol \in Symbols
  BY <1>2, ReadableIs
<1>4. \A i \in 1 .. m : f[i].close \in Int
  <2>1. \A i \in 1 .. m : f[i] \in Cell /\ WellShaped(f[i])
    BY <1>1 DEF BarsTo
  <2> QED BY <2>1, ReadableIs DEF WellShaped
<1>5. Warnings(c, past) = {} <=> c.volume # 0 /\ c.amount # 0 /\ ~ Leaps(c, past)
  BY DEF Warnings, When
<1>6. \A i \in 1 .. m : NextOfSymbol(f, i, n) <=> LastOf(f, m, c.symbol, i)
  <2>1. \A k : k \in 1 .. m <=> k \in 1 .. n /\ k < n
    BY <1>1
  <2> QED BY <1>2, <2>1 DEF NextOfSymbol, LastOf
<1>7. Leaps(c, past) <=> \E i \in 1 .. m : NextOfSymbol(f, i, n) /\ Jumps(c.close, f[i].close)
  <2>1. CASE \A i \in 1 .. m : f[i].symbol # c.symbol
    <3>1. past.priorClose[c.symbol] = Unknown
      BY <1>1, <1>3, <2>1 DEF Describes, LastOf
    <3>2. \A i \in 1 .. m : ~ NextOfSymbol(f, i, n)
      BY <1>2, <2>1 DEF NextOfSymbol
    <3> QED BY <3>1, <3>2 DEF Leaps
  <2>2. CASE ~ \A i \in 1 .. m : f[i].symbol # c.symbol
    <3>1. PICK l \in 1 .. m : LastOf(f, m, c.symbol, l) /\ past.priorClose[c.symbol] = f[l].close
      BY <1>1, <1>3, <2>2 DEF Describes
    <3>2. \A i \in 1 .. m : LastOf(f, m, c.symbol, i) => i = l
      BY <3>1 DEF LastOf
    <3>3. f[l].close # Unknown
      BY <1>4 DEF UnknownAssumption
    <3>4. Leaps(c, past) <=> Jumps(c.close, f[l].close)
      BY <3>1, <3>3 DEF Leaps
    <3> QED BY <1>6, <3>1, <3>2, <3>4
  <2> QED BY <2>1, <2>2
<1>8. \A i \in 1 .. n : i \in 1 .. m \/ i = n
  BY <1>1
<1>9. n \in 1 .. n /\ \A i \in 1 .. m : i \in 1 .. n
  BY <1>1
<1>10. \A i \in 1 .. n : ~ NextOfSymbol(f, n, i)
  BY DEF NextOfSymbol
<1>11. PlainTo(f, n) <=> /\ PlainTo(f, m) /\ c.volume # 0 /\ c.amount # 0
                         /\ \A i \in 1 .. m : NextOfSymbol(f, i, n) => ~ Jumps(c.close, f[i].close)
  <2>1. ASSUME PlainTo(f, n)
        PROVE  /\ PlainTo(f, m) /\ c.volume # 0 /\ c.amount # 0
               /\ \A i \in 1 .. m : NextOfSymbol(f, i, n) => ~ Jumps(c.close, f[i].close)
    BY <1>2, <1>9, <2>1 DEF PlainTo
  <2>2. ASSUME PlainTo(f, m), c.volume # 0, c.amount # 0,
               \A i \in 1 .. m : NextOfSymbol(f, i, n) => ~ Jumps(c.close, f[i].close)
        PROVE  PlainTo(f, n)
    <3>1. \A i \in 1 .. n : f[i].volume # 0 /\ f[i].amount # 0
      BY <1>2, <1>8, <2>2 DEF PlainTo
    <3>2. ASSUME NEW i \in 1 .. n, NEW j \in 1 .. n, NextOfSymbol(f, i, j)
          PROVE  ~ Jumps(f[j].close, f[i].close)
      <4>1. i \in 1 .. m
        BY <1>8, <1>10, <3>2
      <4>2. CASE j \in 1 .. m
        BY <2>2, <3>2, <4>1, <4>2 DEF PlainTo
      <4>3. CASE j = n
        BY <1>2, <2>2, <3>2, <4>1, <4>3
      <4> QED BY <1>8, <4>2, <4>3
    <3> QED BY <3>1, <3>2 DEF PlainTo
  <2> QED BY <2>1, <2>2
<1> QED
  BY <1>1, <1>2, <1>5, <1>7, <1>11

\* One row more.
LEMMA JudgedNext ==
  ASSUME UnreadableAssumption, UnknownAssumption, NEW f \in Seq(Cell), NEW n \in 1 .. Len(f),
         NEW past, JudgedTo(past, f, n - 1)
  PROVE  JudgedTo(After(past, f[n]), f, n)
<1>1. PICK m \in Nat : m = n - 1 /\ n = m + 1
  OBVIOUS
<1>2. PICK c \in Cell : c = f[n]
  OBVIOUS
<1>3. past \in Past /\ past.verdicts \in Seq(Said) /\ past.halted \in BOOLEAN
  BY DEF JudgedTo, Past
<1>4. After(past, c) \in Past
  BY <1>3, AfterType
<1>5. (\A i \in 1 .. n : i \in 1 .. m \/ i = n) /\ n \in 1 .. n /\ \A i \in 1 .. m : i \in 1 .. n
  BY <1>1
<1>6. PICK verdict \in Said : verdict = Verdict(c, past)
  BY VerdictType
<1>7. ASSUME past.halted = FALSE, Readable(c), past.priorClose[c.symbol] # 0
      PROVE  After(past, c) =
               [seen |-> past.seen \cup {<<c.symbol, c.day>>},
                priorDate |-> [past.priorDate EXCEPT ![c.symbol] = c.day],
                priorClose |-> [past.priorClose EXCEPT ![c.symbol] = c.close],
                verdicts |-> Append(past.verdicts, verdict), halted |-> past.halted]
  <2>1. PICK said : said = Says(past, verdict)
    OBVIOUS
  <2>2. said = [seen |-> past.seen, priorDate |-> past.priorDate, priorClose |-> past.priorClose,
                verdicts |-> Append(past.verdicts, verdict), halted |-> past.halted]
    BY <1>3, <2>1, SaysIs
  <2>3. Append(past.verdicts, verdict) \in Seq(Said)
    BY <1>3
  <2>4. said \in Past
    BY <1>3, <2>2, <2>3 DEF Past
  <2>5. c.symbol \in Symbols
    BY <1>7, ReadableIs
  <2>6. Remember(c, said) =
           [seen |-> said.seen \cup {<<c.symbol, c.day>>},
            priorDate |-> [said.priorDate EXCEPT ![c.symbol] = c.day],
            priorClose |-> [said.priorClose EXCEPT ![c.symbol] = c.close],
            verdicts |-> said.verdicts, halted |-> said.halted]
    BY <2>4, <2>5, RememberIs
  <2>7. After(past, c) = Remember(c, said)
    BY <1>6, <1>7, <2>1 DEF After
  <2>8. said.seen = past.seen /\ said.priorDate = past.priorDate
        /\ said.priorClose = past.priorClose /\ said.halted = past.halted
        /\ said.verdicts = Append(past.verdicts, verdict)
    BY <2>2
  <2> QED BY <2>6, <2>7, <2>8
<1>8. ASSUME past.halted = FALSE, ~ Readable(c)
      PROVE  /\ After(past, c).verdicts = Append(past.verdicts, Misread)
             /\ After(past, c).halted = FALSE
  <2>1. After(past, c) = Says(past, Misread)
    BY <1>8 DEF After
  <2>2. After(past, c) =
          [seen |-> past.seen, priorDate |-> past.priorDate, priorClose |-> past.priorClose,
           verdicts |-> Append(past.verdicts, Misread), halted |-> past.halted]
    BY <1>3, <2>1, SaysIs
  <2> QED BY <1>8, <2>2
<1>9. past.halted = TRUE => After(past, c).halted = TRUE
  BY DEF After
<1>10. past.halted = FALSE /\ Readable(c) /\ past.priorClose[c.symbol] = 0
         => After(past, c).halted = TRUE
  BY <1>3 DEF After, Past
<1>11. \/ After(past, c).halted = TRUE
       \/ \E said \in Said : After(past, c).verdicts = Append(past.verdicts, said)
  <2>1. CASE past.halted = FALSE /\ Readable(c) /\ past.priorClose[c.symbol] # 0
    <3>1. PICK after :
            after = [seen |-> past.seen \cup {<<c.symbol, c.day>>},
                     priorDate |-> [past.priorDate EXCEPT ![c.symbol] = c.day],
                     priorClose |-> [past.priorClose EXCEPT ![c.symbol] = c.close],
                     verdicts |-> Append(past.verdicts, verdict), halted |-> past.halted]
      OBVIOUS
    <3>2. After(past, c) = after
      BY <1>7, <2>1, <3>1
    <3>3. after.verdicts = Append(past.verdicts, verdict)
      BY <3>1
    <3> QED BY <3>2, <3>3
  <2>2. CASE past.halted = FALSE /\ ~ Readable(c)
    BY <1>8, <2>2, VerdictType
  <2> QED BY <1>3, <1>9, <1>10, <2>1, <2>2
<1>12. ASSUME ~ BarsTo(f, m) PROVE JudgedTo(After(past, c), f, n)
  <2>1. ~ BarsTo(f, n)
    BY <1>5, <1>12 DEF BarsTo
  <2>2. Stops(past)
    BY <1>1, <1>12 DEF JudgedTo
  <2>3. Stops(After(past, c))
    <3>1. CASE past.halted = TRUE
      BY <1>9, <3>1 DEF Stops
    <3>2. CASE past.halted # TRUE
      <4>1. PICK i \in 1 .. Len(past.verdicts) : /\ past.verdicts[i].errors # {}
                                                 /\ past.verdicts[i].status = "REJECTED"
        BY <2>2, <3>2 DEF Stops
      <4>2. CASE After(past, c).halted = TRUE
        BY <4>2 DEF Stops
      <4>3. CASE \E said \in Said : After(past, c).verdicts = Append(past.verdicts, said)
        <5>1. PICK said \in Said : After(past, c).verdicts = Append(past.verdicts, said)
          BY <4>3
        <5>2. PICK verdicts : verdicts = After(past, c).verdicts
          OBVIOUS
        <5>3. i \in 1 .. Len(verdicts) /\ verdicts[i] = past.verdicts[i]
          BY <1>3, <5>1, <5>2
        <5> QED BY <4>1, <5>2, <5>3 DEF Stops
      <4> QED BY <1>11, <4>2, <4>3
    <3> QED BY <3>1, <3>2
  <2> QED BY <1>4, <2>1, <2>3 DEF JudgedTo
<1>13. ASSUME BarsTo(f, m) PROVE JudgedTo(After(past, c), f, n)
  <2>1. /\ past.halted = FALSE /\ Len(past.verdicts) = m
        /\ \A i \in 1 .. m :
             /\ past.verdicts[i].errors = {}
             /\ past.verdicts[i].status
                  = IF past.verdicts[i].warnings # {} THEN "WARNING" ELSE "ACCEPTED"
    BY <1>1, <1>13 DEF JudgedTo, Lets
  <2>2. Describes(past, f, m)
    BY <1>1, <1>13 DEF JudgedTo
  <2>3. (\A i \in 1 .. m : past.verdicts[i].warnings = {}) <=> PlainTo(f, m)
    BY <1>1, <1>13 DEF JudgedTo
  <2>4. CASE ~ Readable(c)
    <3>1. ~ BarsTo(f, n)
      BY <1>2, <1>5, <2>4 DEF BarsTo, WellShaped
    <3>2. PICK verdicts : verdicts = Append(past.verdicts, Misread)
      OBVIOUS
    <3>3. n \in 1 .. Len(verdicts) /\ verdicts[n] = Misread
      BY <1>1, <1>3, <2>1, <3>2
    <3>4. Misread.errors # {} /\ Misread.status = "REJECTED"
      BY DEF Misread
    <3>5. Stops(After(past, c))
      BY <1>8, <2>1, <2>4, <3>2, <3>3, <3>4 DEF Stops
    <3> QED BY <1>4, <3>1, <3>5 DEF JudgedTo
  <2>5. CASE Readable(c)
    <3>1. c.symbol \in Symbols /\ c.day \in Int
      BY <2>5, ReadableIs
    <3>2. past.priorClose[c.symbol] # 0
      <4>1. \A i \in 1 .. m : f[i].close # 0
        <5>1. \A i \in 1 .. m : f[i] \in Cell /\ WellShaped(f[i])
          BY <1>1, <1>13 DEF BarsTo
        <5>2. \A i \in 1 .. m : f[i].low \in Int /\ f[i].close \in Int
          BY <5>1, ReadableIs DEF WellShaped
        <5> QED BY <5>1, <5>2 DEF WellShaped
      <4>2. Unknown # 0
        BY DEF UnknownAssumption
      <4> QED BY <2>2, <3>1, <4>1, <4>2 DEF Describes
    <3>3. PICK after :
            after = [seen |-> past.seen \cup {<<c.symbol, c.day>>},
                     priorDate |-> [past.priorDate EXCEPT ![c.symbol] = c.day],
                     priorClose |-> [past.priorClose EXCEPT ![c.symbol] = c.close],
                     verdicts |-> Append(past.verdicts, verdict), halted |-> past.halted]
      OBVIOUS
    <3>4. After(past, c) = after
      BY <1>7, <2>1, <2>5, <3>2, <3>3
    <3>5. /\ after.halted = FALSE /\ Len(after.verdicts) = n /\ after.verdicts[n] = verdict
          /\ \A i \in 1 .. m : after.verdicts[i] = past.verdicts[i]
      BY <1>1, <1>3, <2>1, <3>3
    <3>6. Errors(c, past) = {} <=> BarsTo(f, n)
      BY <1>1, <1>2, <1>3, <1>13, <2>2, <2>5, ErrorsAreExact
    <3>7. verdict.errors = Errors(c, past) /\ verdict.warnings = Warnings(c, past)
          /\ verdict.status = IF Errors(c, past) # {} THEN "REJECTED"
                              ELSE IF Warnings(c, past) # {} THEN "WARNING" ELSE "ACCEPTED"
      BY <1>6 DEF Verdict
    <3>8. CASE ~ BarsTo(f, n)
      <4>1. Stops(after)
        BY <1>5, <3>5, <3>6, <3>7, <3>8 DEF Stops
      <4> QED BY <1>4, <3>4, <3>8, <4>1 DEF JudgedTo
    <3>9. CASE BarsTo(f, n)
      <4>1. Lets(after, n)
        <5>1. ASSUME NEW i \in 1 .. n
              PROVE  /\ after.verdicts[i].errors = {}
                     /\ after.verdicts[i].status
                          = IF after.verdicts[i].warnings # {} THEN "WARNING" ELSE "ACCEPTED"
          <6>1. CASE i \in 1 .. m
            <7>1. after.verdicts[i] = past.verdicts[i]
              BY <3>5, <6>1
            <7> QED BY <2>1, <6>1, <7>1, Zenon
          <6>2. CASE i = n
            <7>1. after.verdicts[i] = verdict
              BY <3>5, <6>2
            <7>2. verdict.errors = {}
                  /\ verdict.status = IF verdict.warnings # {} THEN "WARNING" ELSE "ACCEPTED"
              BY <3>6, <3>7, <3>9
            <7> QED BY <7>1, <7>2, Zenon
          <6> QED BY <1>5, <6>1, <6>2
        <5> QED BY <3>5, <5>1 DEF Lets
      <4>2. after.seen = {<<f[i].symbol, f[i].day>> : i \in 1 .. n}
        <5>1. after.seen = {<<f[i].symbol, f[i].day>> : i \in 1 .. m} \cup {<<c.symbol, c.day>>}
          BY <2>2, <3>3 DEF Describes
        <5> QED BY <1>2, <1>5, <5>1
      <4>3. ASSUME NEW s \in Symbols
            PROVE  \/ \E i \in 1 .. n : /\ LastOf(f, n, s, i)
                                        /\ after.priorDate[s] = f[i].day
                                        /\ after.priorClose[s] = f[i].close
                   \/ /\ \A i \in 1 .. n : f[i].symbol # s
                      /\ after.priorDate[s] = Unknown /\ after.priorClose[s] = Unknown
        <5>0. past.priorDate \in [Symbols -> Int \cup {Unknown}]
              /\ past.priorClose \in [Symbols -> Int \cup {Unknown}]
          BY <1>3 DEF Past
        <5>1. CASE s = c.symbol
          <6>1. LastOf(f, n, s, n)
            BY <1>2, <1>5, <5>1 DEF LastOf
          <6>2. after.priorDate[s] = f[n].day /\ after.priorClose[s] = f[n].close
            BY <1>2, <3>3, <5>0, <5>1
          <6> QED BY <1>5, <6>1, <6>2
        <5>2. CASE s # c.symbol
          <6>1. after.priorDate[s] = past.priorDate[s] /\ after.priorClose[s] = past.priorClose[s]
            BY <3>1, <3>3, <5>0, <5>2
          <6>2. CASE \E i \in 1 .. m : LastOf(f, m, s, i) /\ past.priorDate[s] = f[i].day
                                        /\ past.priorClose[s] = f[i].close
            <7>1. PICK i \in 1 .. m : LastOf(f, m, s, i) /\ past.priorDate[s] = f[i].day
                                        /\ past.priorClose[s] = f[i].close
              BY <6>2
            <7>2. LastOf(f, n, s, i) /\ i \in 1 .. n
              BY <1>2, <1>5, <5>2, <7>1 DEF LastOf
            <7> QED BY <6>1, <7>1, <7>2
          <6>3. CASE (\A i \in 1 .. m : f[i].symbol # s) /\ past.priorDate[s] = Unknown
                     /\ past.priorClose[s] = Unknown
            BY <1>2, <1>5, <5>2, <6>1, <6>3
          <6> QED BY <2>2, <6>2, <6>3 DEF Describes
        <5> QED BY <5>1, <5>2
      <4>4. Describes(after, f, n)
        BY <4>2, <4>3 DEF Describes
      <4>5. (\A i \in 1 .. n : after.verdicts[i].warnings = {}) <=> PlainTo(f, n)
        <5>1. (Warnings(c, past) = {} /\ PlainTo(f, m)) <=> PlainTo(f, n)
          BY <1>1, <1>2, <1>3, <1>13, <2>2, <2>5, WarningsAreExact
        <5>2. (\A i \in 1 .. n : after.verdicts[i].warnings = {})
                <=> verdict.warnings = {} /\ \A i \in 1 .. m : past.verdicts[i].warnings = {}
          BY <1>5, <3>5
        <5> QED BY <2>3, <3>7, <5>1, <5>2
      <4>6. after \in Past
        BY <1>4, <3>4
      <4>7. JudgedTo(after, f, n)
        BY <3>9, <4>1, <4>4, <4>5, <4>6 DEF JudgedTo
      <4> QED BY <3>4, <4>7
    <3> QED BY <3>8, <3>9
  <2> QED BY <2>4, <2>5
<1> QED
  BY <1>1, <1>2, <1>12, <1>13

FileAfter(g, f) == g = [n \in 0 .. Len(f) |-> IF n = 0 THEN Nothing ELSE After(g[n - 1], f[n])]

LEMMA ProcessedIs ==
  ASSUME NEW f
  PROVE  Processed(f) = (CHOOSE g : FileAfter(g, f))[Len(f)]
BY DEF Processed, FileAfter

LEMMA FileExists ==
  ASSUME UnreadableAssumption, NEW f \in Seq(Cell)
  PROVE  \E g : FileAfter(g, f)
<1>1. PICK N \in Nat : N = Len(f)
  OBVIOUS
<1>2. PICK step : step = [n \in 1 .. N |-> [past \in Past |-> After(past, f[n])]]
  OBVIOUS
<1>3. step \in [1 .. N -> [Past -> Past]]
  <2>1. \A n \in 1 .. N : f[n] \in Cell
    BY <1>1
  <2>2. \A n \in 1 .. N : \A past \in Past : After(past, f[n]) \in Past
    BY <2>1, AfterType
  <2> QED BY <1>2, <2>2
<1>4. Nothing \in Past
  <2>1. <<>> \in Seq(Said)
    OBVIOUS
  <2> QED BY <2>1 DEF Nothing, Past
<1>5. PICK g : Recurs(g, N, Past, Nothing, step)
  BY <1>3, <1>4, RecursionExists
<1>6. \A n \in 1 .. N : g[n] = After(g[n - 1], f[n])
  <2>1. \A n \in 1 .. N : g[n - 1] \in Past
    BY <1>5 DEF Recurs
  <2> QED BY <1>2, <1>5, <2>1 DEF Recurs
<1>7. g = [n \in 0 .. N |-> IF n = 0 THEN Nothing ELSE After(g[n - 1], f[n])]
  BY <1>5, <1>6 DEF Recurs
<1> QED
  BY <1>1, <1>7 DEF FileAfter

\* What the loop says of a file.
LEMMA FileJudged ==
  ASSUME UnreadableAssumption, UnknownAssumption, NEW f \in Seq(Cell)
  PROVE  JudgedTo(Processed(f), f, Len(f))
<1>1. PICK g : g = CHOOSE h : FileAfter(h, f)
  OBVIOUS
<1>2. FileAfter(g, f) /\ Processed(f) = g[Len(f)]
  BY <1>1, FileExists, ProcessedIs
<1>3. PICK N \in Nat : N = Len(f)
  OBVIOUS
<1>4. \A n \in 0 .. N : g[n] = IF n = 0 THEN Nothing ELSE After(g[n - 1], f[n])
  BY <1>2, <1>3 DEF FileAfter
<1>5. PICK Good : Good = {n \in 0 .. N : JudgedTo(g[n], f, n)}
  OBVIOUS
<1>6. Good \in SUBSET (0 .. N) /\ 0 \in Good
  <2>1. 0 \in 0 .. N /\ 1 .. 0 = {}
    OBVIOUS
  <2>2. g[0] = Nothing
    BY <1>4, <2>1, Zenon
  <2>3. Nothing.verdicts = <<>> /\ Nothing.halted = FALSE /\ Nothing.seen = {}
        /\ Nothing.priorDate = [s \in Symbols |-> Unknown]
        /\ Nothing.priorClose = [s \in Symbols |-> Unknown]
    BY DEF Nothing
  <2>4. Nothing \in Past
    <3>1. <<>> \in Seq(Said)
      OBVIOUS
    <3> QED BY <3>1 DEF Nothing, Past
  <2>5. Describes(Nothing, f, 0) /\ Lets(Nothing, 0)
    BY <2>1, <2>3 DEF Describes, Lets
  <2>6. BarsTo(f, 0) /\ PlainTo(f, 0)
    BY <2>1 DEF BarsTo, PlainTo
  <2>7. JudgedTo(Nothing, f, 0)
    BY <2>1, <2>4, <2>5, <2>6 DEF JudgedTo
  <2> QED BY <1>5, <2>1, <2>2, <2>7
<1>7. ASSUME NEW n \in 1 .. N, n - 1 \in Good PROVE n \in Good
  <2>1. JudgedTo(g[n - 1], f, n - 1) /\ n \in 1 .. Len(f) /\ n \in 0 .. N
    BY <1>3, <1>5, <1>7
  <2>2. g[n] = After(g[n - 1], f[n])
    BY <1>4
  <2>3. JudgedTo(g[n], f, n)
    BY <2>1, <2>2, JudgedNext
  <2> QED BY <1>5, <2>1, <2>3
<1>8. N \in Good
  <2>1. N \in 0 .. N
    OBVIOUS
  <2> QED BY <1>6, <1>7, <2>1, Induction
<1> QED
  BY <1>2, <1>3, <1>5, <1>8

LEMMA CountedNone ==
  ASSUME NEW past \in Past, NEW S
  PROVE  /\ Counted(past, S) \in Nat
         /\ Counted(past, S) = 0
              <=> \A i \in 1 .. Len(past.verdicts) : past.verdicts[i].status \notin S
<1>1. DOMAIN past.verdicts = 1 .. Len(past.verdicts) /\ Len(past.verdicts) \in Nat
  BY DEF Past
<1>2. PICK T : T = {i \in 1 .. Len(past.verdicts) : past.verdicts[i].status \in S}
  OBVIOUS
<1>3. IsFiniteSet(T)
  <2>1. IsFiniteSet(1 .. Len(past.verdicts))
    BY <1>1, FS_Interval
  <2>2. T \subseteq 1 .. Len(past.verdicts)
    BY <1>2
  <2> QED BY <2>1, <2>2, FS_Subset
<1>4. Cardinality(T) \in Nat /\ (Cardinality(T) = 0 <=> T = {})
  BY <1>3, FS_CardinalityType, FS_EmptySet
<1>5. Counted(past, S) = Cardinality(T)
  BY <1>1, <1>2 DEF Counted
<1>6. T = {} <=> \A i \in 1 .. Len(past.verdicts) : past.verdicts[i].status \notin S
  BY <1>2
<1> QED
  BY <1>4, <1>5, <1>6

LEMMA BlockedIs ==
  ASSUME NEW past \in Past
  PROVE  LET blocked == \/ Counted(past, {"ACCEPTED", "WARNING"}) = 0
                        \/ Counted(past, {"REJECTED"}) > 0
                        \/ Severities(past) \cap {"ERROR", "FATAL"} # {}
             warned == Counted(past, {"WARNING"}) > 0 \/ "WARNING" \in Severities(past)
         IN /\ Gate(past, TRUE) = "ELIGIBLE" <=> past.halted = FALSE /\ ~ blocked
            /\ Gate(past, FALSE) = "ELIGIBLE" <=> past.halted = FALSE /\ ~ blocked /\ ~ warned
<1>1. past.halted \in BOOLEAN
  BY DEF Past
<1> QED
  BY <1>1 DEF Gate

LEMMA SeveritiesAre ==
  ASSUME NEW past \in Past
  PROVE  /\ Severities(past) \cap {"ERROR", "FATAL"} # {}
              <=> \/ past.verdicts = <<>>
                  \/ \E i \in 1 .. Len(past.verdicts) : past.verdicts[i].errors # {}
         /\ "WARNING" \in Severities(past)
              <=> \E i \in 1 .. Len(past.verdicts) : past.verdicts[i].warnings # {}
<1>1. DOMAIN past.verdicts = 1 .. Len(past.verdicts)
  BY DEF Past
<1>2. PICK none, errors, warnings \in BOOLEAN :
        /\ none = (past.verdicts = <<>>)
        /\ errors = \E i \in 1 .. Len(past.verdicts) : past.verdicts[i].errors # {}
        /\ warnings = \E i \in 1 .. Len(past.verdicts) : past.verdicts[i].warnings # {}
  OBVIOUS
<1> QED
  BY <1>1 DEF Severities, When

\* The gate decides for a file of any length whether it is a series, and whether
\* it is remarkable.
LEMMA GateIsRight ==
  ASSUME UnreadableAssumption, UnknownAssumption, NEW f \in Seq(Cell)
  PROVE  IsExactOn(f)
<1>1. PICK past \in Past : past = Processed(f) /\ JudgedTo(past, f, Len(f))
  BY FileJudged DEF JudgedTo
<1>2. PICK N \in Nat : N = Len(f) /\ DOMAIN f = 1 .. N
  OBVIOUS
<1>3. (IsSeries(f) <=> BarsTo(f, N))
  BY <1>2 DEF IsSeries, BarsTo
<1>4. IsUnremarkable(f) <=> PlainTo(f, N)
  <2>1. ASSUME NEW i \in 1 .. N, NEW j \in 1 .. N
        PROVE  NextOfSymbol(f, i, j)
                 <=> /\ i < j /\ f[i].symbol = f[j].symbol
                     /\ \A k \in 1 .. N : i < k /\ k < j => f[k].symbol # f[i].symbol
    <3>1. \A k : k \in 1 .. j /\ i < k /\ k < j <=> k \in 1 .. N /\ i < k /\ k < j
      OBVIOUS
    <3> QED BY <3>1 DEF NextOfSymbol
  <2>2. ASSUME IsUnremarkable(f) PROVE PlainTo(f, N)
    <3>1. ASSUME NEW i \in 1 .. N, NEW j \in 1 .. N, NextOfSymbol(f, i, j)
          PROVE  ~ Jumps(f[j].close, f[i].close)
      BY <1>2, <2>1, <2>2, <3>1 DEF IsUnremarkable
    <3> QED BY <1>2, <2>2, <3>1 DEF IsUnremarkable, PlainTo
  <2>3. ASSUME PlainTo(f, N) PROVE IsUnremarkable(f)
    <3>1. ASSUME NEW i \in 1 .. N, NEW j \in 1 .. N, i < j, f[i].symbol = f[j].symbol,
                 \A k \in 1 .. N : i < k /\ k < j => f[k].symbol # f[i].symbol
          PROVE  ~ Jumps(f[j].close, f[i].close)
      BY <2>1, <2>3, <3>1 DEF PlainTo
    <3> QED BY <1>2, <2>3, <3>1 DEF IsUnremarkable, PlainTo
  <2> QED BY <2>2, <2>3
<1>5. past.verdicts \in Seq(Said) /\ Len(past.verdicts) \in Nat
  BY DEF Past
<1>6. ASSUME BarsTo(f, N)
      PROVE  /\ past.halted = FALSE
             /\ Gate(past, TRUE) = "ELIGIBLE" <=> N # 0
             /\ Gate(past, FALSE) = "ELIGIBLE" <=> N # 0 /\ PlainTo(f, N)
  <2>1. /\ past.halted = FALSE /\ Len(past.verdicts) = N
        /\ \A i \in 1 .. N : /\ past.verdicts[i].errors = {}
                             /\ past.verdicts[i].status
                                  = IF past.verdicts[i].warnings # {} THEN "WARNING" ELSE "ACCEPTED"
    BY <1>1, <1>2, <1>6 DEF JudgedTo, Lets
  <2>2. (\A i \in 1 .. N : past.verdicts[i].warnings = {}) <=> PlainTo(f, N)
    BY <1>1, <1>2, <1>6 DEF JudgedTo
  <2>3. \A i \in 1 .. N : past.verdicts[i].status # "REJECTED"
    BY <2>1
  <2>4. Counted(past, {"ACCEPTED", "WARNING"}) = 0 <=> N = 0
    <3>1. \A i \in 1 .. N : past.verdicts[i].status \in {"ACCEPTED", "WARNING"}
      BY <2>1
    <3>2. N # 0 => 1 \in 1 .. N
      OBVIOUS
    <3> QED BY <2>1, <3>1, <3>2, CountedNone
  <2>5. ~ (Counted(past, {"REJECTED"}) > 0)
    <3>1. Counted(past, {"REJECTED"}) = 0
      BY <2>1, <2>3, CountedNone
    <3> QED BY <3>1
  <2>6. Severities(past) \cap {"ERROR", "FATAL"} # {} <=> N = 0
    <3>1. past.verdicts = <<>> <=> N = 0
      BY <1>5, <2>1
    <3> QED BY <2>1, <3>1, SeveritiesAre
  <2>7. "WARNING" \in Severities(past) <=> ~ PlainTo(f, N)
    BY <2>1, <2>2, SeveritiesAre
  <2>8. Counted(past, {"WARNING"}) > 0 => ~ PlainTo(f, N)
    <3>1. ASSUME PlainTo(f, N) PROVE Counted(past, {"WARNING"}) = 0
      <4>1. \A i \in 1 .. N : past.verdicts[i].status # "WARNING"
        BY <2>1, <2>2, <3>1
      <4> QED BY <2>1, <4>1, CountedNone
    <3> QED BY <3>1
  <2> QED BY <2>1, <2>4, <2>5, <2>6, <2>7, <2>8, BlockedIs
<1>7. ASSUME ~ BarsTo(f, N) PROVE Gate(past, TRUE) # "ELIGIBLE"
  <2>1. Stops(past)
    BY <1>1, <1>2, <1>7 DEF JudgedTo
  <2>2. CASE past.halted = TRUE
    BY <2>2 DEF Gate
  <2>3. CASE \E i \in 1 .. Len(past.verdicts) : past.verdicts[i].errors # {}
    <3>1. Severities(past) \cap {"ERROR", "FATAL"} # {}
      BY <2>3, SeveritiesAre
    <3> QED BY <3>1, BlockedIs
  <2> QED BY <2>1, <2>2, <2>3 DEF Stops
<1>8. f # <<>> <=> N # 0
  BY <1>2
<1> QED
  BY <1>1, <1>3, <1>4, <1>6, <1>7, <1>8 DEF IsExactOn

\* Whatever rows a file has, and however many, the row-by-row rules admit it
\* exactly when it is a non-empty series of bars, ask for a confirmation exactly
\* when it is a remarkable one, and never fail on a series (normalization.py,
\* validation.py, processing.py, eligibility.py).
THEOREM GateJudgesEveryFile == \A f \in Seq(Cell) : IsExactOn(f)
  BY GateIsRight, UnreadableAssumption, UnknownAssumption

\* The same of the files of at most MaxRows rows, in every state.
THEOREM GateStaysExact == Spec => []GateIsExact
<1>1. \A rows \in FilesUpTo(MaxRows) : rows \in Seq(Cell)
  BY CellsAssumption, MaxRowsAssumption DEF FilesUpTo
<1>2. GateIsExact
  BY <1>1, GateJudgesEveryFile DEF GateIsExact
<1> QED
  BY <1>2, PTL

=============================================================================
