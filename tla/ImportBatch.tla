---------------------------- MODULE ImportBatch -----------------------------
(***************************************************************************)
(* The life of import batches: an upload is staged as a file and inspected *)
(* into a batch (api/data_imports.py, market_data/staging.py, service.py,  *)
(* repository.py), the batch is previewed under a field mapping, as often  *)
(* as its user likes, and one of its previews is claimed by a publication  *)
(* (datasets/publication.py, datasets/repository.py).                      *)
(*                                                                         *)
(* Requests run on a thread pool, but for an upload: what it does once its *)
(* bytes have arrived is done on the event loop, one upload at a time.     *)
(* Every transaction and every use of the staged file is a step of its     *)
(* own; only the claim holds the write lock while it reads.  A staged file *)
(* may be edited behind the service's back, which the publication guards   *)
(* against, and the process may die.                                       *)
(*                                                                         *)
(* A preview is a function of the content that was read and the mapping,   *)
(* and so are its counts, its issues and its fingerprint: it is named by   *)
(* the two.  The check of QualityRules decides what a preview says; here   *)
(* Judged gives it.  All contents have the same size, so that the size of  *)
(* a file tells nothing.                                                   *)
(*                                                                         *)
(* A definition named after the one that follows it (PreviewableAlways     *)
(* before Previewable) is a faulty variant: the run must fail when it      *)
(* takes the other's place.                                                *)
(***************************************************************************)
CONSTANTS
  Clients,    \* request threads
  Batches,    \* the storage keys, and so the batches, of the uploads
  Datasets,
  Contents,   \* what a file can contain
  Uploaded,   \* the contents that are uploaded; the others come from edits
  Malformed,  \* the contents no provider can read
  Mappings,   \* complete field mappings
  Clean,      \* the previews without issues: pairs of a content and a mapping
  Warned      \* the previews with warnings only

ASSUME ContentsAssumption == Malformed \subseteq Contents /\ Uploaded \subseteq Contents
ASSUME JudgedAssumption == /\ Clean \subseteq Contents \X Mappings
                           /\ Warned \subseteq (Contents \X Mappings) \ Clean

VARIABLES
  file,       \* the staged file of each batch
  batch,      \* ImportBatchModel: its row, or NoBatch
  issues,     \* DataQualityIssueModel: the preview whose issues are stored
  versions,   \* DatasetVersionModel, with the confirmation its claim's audit recorded
  call        \* the request each thread is in

vars == <<file, batch, issues, versions, call>>

-----------------------------------------------------------------------------
Absent == "absent"
NoBatch == [status |-> "NONE"]
Preview == Contents \X Mappings
NoPreview == <<>>

Judged(p) == IF p \in Clean THEN "CLEAN" ELSE IF p \in Warned THEN "WARNED" ELSE "BLOCKED"

Claimed == {"PUBLISHING", "PUBLISHED", "PUBLISH_FAILED"}
BatchStatus == {"PENDING", "PREVIEW_READY"} \cup Claimed
Row == [hash : Contents, status : BatchStatus, preview : Preview \cup {NoPreview}]

Version == [batch : Batches, dataset : Datasets, preview : Preview, confirmed : BOOLEAN,
            status : {"CLAIMED", "PUBLISHED", "FAILED"}, rows : Preview \cup {NoPreview}]

Idle == [at |-> "idle"]
Call == {Idle}
        \cup [at : {"inspect", "insert"}, batch : Batches, hash : Contents]
        \cup [at : {"refresh", "respond"}, batch : Batches]
        \cup [at : {"process"}, batch : Batches, mapping : Mappings]
        \cup [at : {"complete"}, batch : Batches, preview : Preview]
        \cup [at : {"issues"}, batch : Batches, row : Row]
        \cup [at : {"answered"}, row : Row,
              eligibility : {"PREVIEW_REQUIRED", "QUALITY_BLOCKED",
                             "WARNING_CONFIRMATION_REQUIRED", "ELIGIBLE"}]
        \cup [at : {"check", "recompute", "claim"}, batch : Batches, row : Row,
              dataset : Datasets, confirm : BOOLEAN]
        \cup [at : {"publish"}, version : Version]

Init == /\ file = [b \in Batches |-> Absent]
        /\ batch = [b \in Batches |-> NoBatch]
        /\ issues = [b \in Batches |-> NoPreview]
        /\ versions = {}
        /\ call = [c \in Clients |-> Idle]

At(c, step) == call[c].at = step
Goes(c, next) == call' = [call EXCEPT ![c] = next]
Returns(c) == Goes(c, Idle)

-----------------------------------------------------------------------------
(* POST /data-imports/inspect: stage, inspect, insert. *)

Fresh(b) == /\ batch[b] = NoBatch /\ file[b] = Absent
            /\ \A c \in Clients : call[c].at \in {"inspect", "insert"} => call[c].batch # b

Stage(c, b, content) ==
  /\ At(c, "idle") /\ Fresh(b)
  /\ file' = [file EXCEPT ![b] = content]
  /\ Goes(c, [at |-> "inspect", batch |-> b, hash |-> content])
  /\ UNCHANGED <<batch, issues, versions>>

Discard(c) == /\ file' = [file EXCEPT ![call[c].batch] = Absent]
              /\ Returns(c)
              /\ UNCHANGED <<batch, issues, versions>>

Known(hash) == \E b \in Batches : batch[b] # NoBatch /\ batch[b].hash = hash
LoopIsFree == \A c \in Clients : call[c].at \notin {"insert", "refresh"}

\* The provider reads the file, then create_inspection looks for its hash.
Inspect(c) ==
  /\ At(c, "inspect") /\ LoopIsFree
  /\ \/ /\ file[call[c].batch] \in Malformed \/ Known(call[c].hash)
        /\ Discard(c)
     \/ /\ file[call[c].batch] \notin Malformed /\ ~ Known(call[c].hash)
        /\ Goes(c, [call[c] EXCEPT !.at = "insert"])
        /\ UNCHANGED <<file, batch, issues, versions>>

\* The hash is unique in the database too, which nothing relies on here.
Insert(c) ==
  /\ At(c, "insert")
  /\ batch' = [batch EXCEPT ![call[c].batch] =
                 [hash |-> call[c].hash, status |-> "PENDING", preview |-> NoPreview]]
  /\ Goes(c, [at |-> "refresh", batch |-> call[c].batch])
  /\ UNCHANGED <<file, issues, versions>>

\* The row is read back after its commit.  When that fails the handler takes
\* the upload for one that no batch owns.
Refresh(c) ==
  /\ At(c, "refresh")
  /\ \/ Discard(c)
     \/ Returns(c) /\ UNCHANGED <<file, batch, issues, versions>>

-----------------------------------------------------------------------------
(* POST /data-imports/preview, and the answer of GET /data-imports/{id}. *)

PreviewRead(c, b, mapping) ==
  /\ At(c, "idle") /\ batch[b] # NoBatch
  /\ Goes(c, [at |-> "process", batch |-> b, mapping |-> mapping])
  /\ UNCHANGED <<file, batch, issues, versions>>

Legible(b) == file[b] # Absent /\ file[b] \notin Malformed

PreviewProcess(c) ==
  LET b == call[c].batch IN
  /\ At(c, "process")
  /\ \/ ~ Legible(b) /\ Returns(c)
     \/ /\ Legible(b)
        /\ Goes(c, [at |-> "complete", batch |-> b, preview |-> <<file[b], call[c].mapping>>])
  /\ UNCHANGED <<file, batch, issues, versions>>

PreviewableAlways(row) == row.status # "PUBLISHED"
Previewable(row) == row.status \in {"PENDING", "PREVIEW_READY"}

\* The row is updated where its status allows it, and its issues are replaced
\* in the same transaction.
PreviewComplete(c) ==
  LET b == call[c].batch IN
  /\ At(c, "complete")
  /\ \/ ~ Previewable(batch[b]) /\ Returns(c) /\ UNCHANGED <<batch, issues>>
     \/ /\ Previewable(batch[b])
        /\ batch' = [batch EXCEPT ![b].status = "PREVIEW_READY", ![b].preview = call[c].preview]
        /\ issues' = [issues EXCEPT ![b] = call[c].preview]
        /\ Goes(c, [at |-> "respond", batch |-> b])
  /\ UNCHANGED <<file, versions>>

EligibilityByIssues(row, issuesOf, confirm) ==
  IF row.status = "PENDING" \/ row.preview = NoPreview THEN "PREVIEW_REQUIRED"
  ELSE IF Judged(issuesOf) = "BLOCKED" THEN "QUALITY_BLOCKED"
  ELSE IF Judged(issuesOf) = "WARNED" /\ ~ confirm THEN "WARNING_CONFIRMATION_REQUIRED"
  ELSE "ELIGIBLE"

\* Decided by the counts of the row and the severities of the issues.
Eligibility(row, issuesOf, confirm) ==
  LET said == {Judged(row.preview), Judged(issuesOf)} IN
  IF row.status = "PENDING" \/ row.preview = NoPreview THEN "PREVIEW_REQUIRED"
  ELSE IF "BLOCKED" \in said THEN "QUALITY_BLOCKED"
  ELSE IF "WARNED" \in said /\ ~ confirm THEN "WARNING_CONFIRMATION_REQUIRED"
  ELSE "ELIGIBLE"

Show(c, b) ==
  /\ At(c, "idle") /\ batch[b] # NoBatch
  /\ Goes(c, [at |-> "respond", batch |-> b])
  /\ UNCHANGED <<file, batch, issues, versions>>

RespondBatch(c) ==
  /\ At(c, "respond")
  /\ Goes(c, [at |-> "issues", batch |-> call[c].batch, row |-> batch[call[c].batch]])
  /\ UNCHANGED <<file, batch, issues, versions>>

RespondIssues(c) ==
  /\ At(c, "issues")
  /\ Goes(c, [at |-> "answered", row |-> call[c].row,
              eligibility |-> Eligibility(call[c].row, issues[call[c].batch], FALSE)])
  /\ UNCHANGED <<file, batch, issues, versions>>

Answer(c) == /\ At(c, "answered") /\ Returns(c)
             /\ UNCHANGED <<file, batch, issues, versions>>

-----------------------------------------------------------------------------
(* POST /data-imports/{id}/publish.  The expected fingerprint is that of the *)
(* row the request read: any other is refused when the preview is recomputed. *)

PublishRead(c, b, dataset, confirm) ==
  /\ At(c, "idle") /\ batch[b] # NoBatch /\ batch[b].preview # NoPreview
  /\ Goes(c, [at |-> "check", batch |-> b, row |-> batch[b],
              dataset |-> dataset, confirm |-> confirm])
  /\ UNCHANGED <<file, batch, issues, versions>>

PublishCheck(c) ==
  /\ At(c, "check")
  /\ \/ file[call[c].batch] # call[c].row.hash /\ Returns(c)
     \/ /\ file[call[c].batch] = call[c].row.hash
        /\ Goes(c, [call[c] EXCEPT !.at = "recompute"])
  /\ UNCHANGED <<file, batch, issues, versions>>

Recomputed(c) == <<file[call[c].batch], call[c].row.preview[2]>>

PublishRecompute(c) ==
  LET same == Legible(call[c].batch) /\ Recomputed(c) = call[c].row.preview IN
  /\ At(c, "recompute")
  /\ \/ ~ same /\ Returns(c)
     \/ same /\ Goes(c, [call[c] EXCEPT !.at = "claim"])
  /\ UNCHANGED <<file, batch, issues, versions>>

\* The version a retry of the same publication finds.
Existing(c) == {v \in versions : /\ v.batch = call[c].batch /\ v.dataset = call[c].dataset
                                 /\ v.preview = call[c].row.preview}

AdmitsAny(c) == /\ Eligibility(batch[call[c].batch], issues[call[c].batch], TRUE) = "ELIGIBLE"
                /\ batch[call[c].batch].preview = call[c].row.preview
Admits(c) == /\ Eligibility(batch[call[c].batch], issues[call[c].batch], call[c].confirm)
                  = "ELIGIBLE"
             /\ batch[call[c].batch].preview = call[c].row.preview

ClaimNew(c) ==
  LET b == call[c].batch
      new == [batch |-> b, dataset |-> call[c].dataset, preview |-> call[c].row.preview,
              confirmed |-> call[c].confirm, status |-> "CLAIMED", rows |-> NoPreview]
  IN /\ Admits(c) /\ Existing(c) = {} /\ batch[b].status = "PREVIEW_READY"
     /\ versions' = versions \cup {new}
     /\ batch' = [batch EXCEPT ![b].status = "PUBLISHING"]
     /\ Goes(c, [at |-> "publish", version |-> new])

Replay(c) ==
  /\ Admits(c)
  /\ \E v \in Existing(c) : \/ v.status = "PUBLISHED" /\ Returns(c)
                            \/ v.status # "PUBLISHED" /\ Goes(c, [at |-> "publish", version |-> v])
  /\ UNCHANGED <<versions, batch>>

ClaimRefused(c) ==
  /\ \/ ~ Admits(c)
     \/ Existing(c) = {} /\ batch[call[c].batch].status # "PREVIEW_READY"
  /\ Returns(c)
  /\ UNCHANGED <<versions, batch>>

Claim(c) == /\ At(c, "claim")
            /\ ClaimNew(c) \/ Replay(c) \/ ClaimRefused(c)
            /\ UNCHANGED <<file, issues>>

\* The row of the version call[c] publishes: nothing but its status and its
\* rows changes after the claim.
Own(c, v) == /\ v.batch = call[c].version.batch /\ v.dataset = call[c].version.dataset
             /\ v.preview = call[c].version.preview

\* DatasetPublication has the steps between the claim and these outcomes.
Settle(c, v, status, batchStatus, rows) ==
  /\ versions' = (versions \ {v}) \cup {[v EXCEPT !.status = status, !.rows = rows]}
  /\ batch' = [batch EXCEPT ![v.batch].status = batchStatus]

Publish(c) ==
  /\ At(c, "publish")
  /\ \E v \in versions :
       /\ Own(c, v)
       /\ \/ v.status = "PUBLISHED" /\ UNCHANGED <<versions, batch>>
          \/ v.status # "PUBLISHED" /\ Settle(c, v, "PUBLISHED", "PUBLISHED", call[c].version.preview)
          \/ v.status # "PUBLISHED" /\ Settle(c, v, "FAILED", "PUBLISH_FAILED", v.rows)
  /\ Returns(c)
  /\ UNCHANGED <<file, issues>>

-----------------------------------------------------------------------------
\* Someone edits the staged file of a batch.
Edit(b, content) == /\ batch[b] # NoBatch /\ file[b] # Absent
                    /\ file' = [file EXCEPT ![b] = content]
                    /\ UNCHANGED <<batch, issues, versions, call>>

Crash == /\ call' = [c \in Clients |-> Idle]
         /\ UNCHANGED <<file, batch, issues, versions>>

Step(c) == \/ \E b \in Batches, content \in Uploaded : Stage(c, b, content)
           \/ Inspect(c) \/ Insert(c) \/ Refresh(c)
           \/ \E b \in Batches, mapping \in Mappings : PreviewRead(c, b, mapping)
           \/ PreviewProcess(c) \/ PreviewComplete(c)
           \/ \E b \in Batches : Show(c, b)
           \/ RespondBatch(c) \/ RespondIssues(c) \/ Answer(c)
           \/ \E b \in Batches, dataset \in Datasets, confirm \in BOOLEAN :
                PublishRead(c, b, dataset, confirm)
           \/ PublishCheck(c) \/ PublishRecompute(c) \/ Claim(c) \/ Publish(c)

Next == \/ \E c \in Clients : Step(c)
        \/ \E b \in Batches, content \in Contents : Edit(b, content)
        \/ Crash

Spec == Init /\ [][Next]_vars

-----------------------------------------------------------------------------
(* Properties. *)

TypeOK == /\ file \in [Batches -> Contents \cup {Absent}]
          /\ batch \in [Batches -> Row \cup {NoBatch}]
          /\ issues \in [Batches -> Preview \cup {NoPreview}]
          /\ versions \subseteq Version
          /\ call \in [Clients -> Call]

\* From its claim on a batch stays what was claimed: however previews, edits
\* of its file and other publications interleave, it has one version, the row
\* and its issues are those of the preview the version names, and the rows
\* that are published are the rows that were previewed.
PublishedAsPreviewed ==
  \A v \in versions :
    /\ batch[v.batch].status \in Claimed
    /\ batch[v.batch].preview = v.preview /\ issues[v.batch] = v.preview
    /\ v.rows \in {NoPreview, v.preview}
    /\ \A w \in versions : w.batch = v.batch => w = v

\* What is published passed the quality gate as it stands: nothing with a
\* rejected row, and nothing with a warning that its claim did not confirm.
PublishedIsConfirmed ==
  \A v \in versions : /\ Judged(v.preview) # "BLOCKED"
                      /\ Judged(v.preview) = "WARNED" => v.confirmed

\* The row and the issues of an answer are read in two transactions and may
\* belong to two previews, yet an answer that shows a preview as eligible
\* shows one without issues.
ShownEligibilityIsSafe ==
  \A c \in Clients :
    At(c, "answered") /\ call[c].eligibility = "ELIGIBLE" => call[c].row.preview \in Clean
=============================================================================
