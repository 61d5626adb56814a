------------------------- MODULE DatasetPublication -------------------------
(***************************************************************************)
(* Publication of import batches as versions of one dataset                *)
(* (quant_lab/datasets: publication.py, recovery.py, repository.py).       *)
(*                                                                         *)
(* Two stores have to agree: the SQLite rows of a version and of its       *)
(* batch, and the version's directory, written under a staging root and    *)
(* renamed into the published root.  Requests run on a thread pool, may    *)
(* name the same batch, and share its staging directory; the process may   *)
(* die between any two steps, after which recovery runs before the first   *)
(* request is served.                                                      *)
(*                                                                         *)
(* A batch's publication fingerprint names its version, so rows and        *)
(* directories are indexed by batch.  The bytes of a part are a function   *)
(* of the batch; what matters is which files a directory holds.            *)
(*                                                                         *)
(* A definition named after the one that follows it (HighestNumberAny      *)
(* before HighestNumber) is a faulty variant that no action uses: the runs *)
(* must fail when it takes the other's place.                              *)
(***************************************************************************)
EXTENDS Naturals, FiniteSets

CONSTANTS
  Publishers,   \* request threads
  Batches,      \* import batches with a complete preview
  Parts,        \* parquet parts of a version
  MaxCrashes    \* bound: times the process dies

ASSUME PublicationAssumption ==
  /\ MaxCrashes \in Nat
  /\ "manifest" \notin Parts

VARIABLES
  batch,     \* ImportBatchModel.status
  status,    \* DatasetVersionModel.status of the batch's version, "NONE" without
  number,    \* DatasetVersionModel.version, 0 without a row
  staging,   \* the version's directory under the staging root
  final,     \* its directory under the published root
  call,      \* the publish request each thread has in progress
  recover,   \* versions start-up recovery has still to look at
  crashes,   \* times the process died
  shared     \* history, read by no action: batches that two requests have
             \* worked on at once
rowVars  == <<batch, status, number>>
fileVars == <<staging, final>>
vars == <<rowVars, fileVars, call, recover, crashes, shared>>

-----------------------------------------------------------------------------
Items == Parts \cup {"manifest"}

BatchStatus   == {"PREVIEW_READY", "PUBLISHING", "PUBLISHED", "PUBLISH_FAILED"}
VersionStatus == {"NONE", "VALIDATING", "FILES_COMMITTING", "FILES_COMMITTED",
                  "PUBLISHED", "FAILED"}

(* A directory that is there, possibly empty, or not there. *)
Directory == [there : BOOLEAN, items : SUBSET Items]
Missing   == [there |-> FALSE, items |-> {}]
Holding(items) == [there |-> TRUE, items |-> items]

(* Where a request stands: the step it takes next.  What it has written    *)
(* matters while it writes.                                                *)
Stage == {"clear", "make", "write", "committing", "rename", "committed",
          "finalize", "publish", "fail", "mark", "remark"}
Idle  == [at |-> "idle"]
Call  == {Idle} \cup [at : Stage, batch : Batches, written : SUBSET Items]

TypeOK ==
  /\ batch \in [Batches -> BatchStatus]
  /\ status \in [Batches -> VersionStatus]
  /\ number \in [Batches -> Nat]
  /\ staging \in [Batches -> Directory]
  /\ final \in [Batches -> Directory]
  /\ call \in [Publishers -> Call]
  /\ recover \in SUBSET Batches
  /\ crashes \in 0 .. MaxCrashes
  /\ shared \in SUBSET Batches

(* Start-up recovery has nothing to do on an empty store. *)
Init ==
  /\ batch = [b \in Batches |-> "PREVIEW_READY"]
  /\ status = [b \in Batches |-> "NONE"]
  /\ number = [b \in Batches |-> 0]
  /\ staging = [b \in Batches |-> Missing]
  /\ final = [b \in Batches |-> Missing]
  /\ call = [c \in Publishers |-> Idle]
  /\ recover = {}
  /\ crashes = 0
  /\ shared = {}

At(c, stage) == call[c].at = stage
Goto(c, stage) ==
  call' = [call EXCEPT ![c] = [at |-> stage, batch |-> @.batch, written |-> {}]]
Return(c) == call' = [call EXCEPT ![c] = Idle]

-----------------------------------------------------------------------------
(* claim_publication, one BEGIN IMMEDIATE transaction: a batch that is     *)
(* PREVIEW_READY gets a version with the next number; a batch that was     *)
(* claimed before is replayed with the version it has, unless that version *)
(* is published, which is simply returned.                                 *)
Working(c, b) == call[c].at # "idle" /\ call[c].batch = b

HighestNumberAny(n) == TRUE
HighestNumber(n) == \A b \in Batches : number[b] <= n

Claim(c, b) ==
  /\ call[c] = Idle
  /\ recover = {}
  /\ IF status[b] = "NONE"
     THEN /\ \E n \in {number[a] : a \in Batches} \cup {0} :
               /\ HighestNumber(n)
               /\ number' = [number EXCEPT ![b] = n + 1]
          /\ status' = [status EXCEPT ![b] = "VALIDATING"]
          /\ batch' = [batch EXCEPT ![b] = "PUBLISHING"]
     ELSE UNCHANGED rowVars
  /\ IF status[b] = "PUBLISHED"
     THEN UNCHANGED <<call, shared>>
     ELSE /\ call' = [call EXCEPT ![c] = [at |-> "clear", batch |-> b, written |-> {}]]
          /\ shared' = IF \E d \in Publishers : Working(d, b)
                       THEN shared \cup {b} ELSE shared
  /\ UNCHANGED <<fileVars, recover, crashes>>

(* rmtree of what an earlier or a concurrent attempt left behind; it may   *)
(* stop half way when the other still writes there.                        *)
ClearStaging(c) ==
  LET b == call[c].batch IN
  /\ At(c, "clear")
  /\ \/ staging' = [staging EXCEPT ![b] = Missing] /\ Goto(c, "make")
     \/ /\ staging[b].there
        /\ \E left \in SUBSET staging[b].items :
             staging' = [staging EXCEPT ![b] = Holding(left)]
        /\ Goto(c, "fail")
  /\ UNCHANGED <<rowVars, final, recover, crashes, shared>>

(* mkdir without exist_ok. *)
MakeStaging(c) ==
  LET b == call[c].batch IN
  /\ At(c, "make")
  /\ IF staging[b].there
     THEN Goto(c, "fail") /\ UNCHANGED staging
     ELSE Goto(c, "write") /\ staging' = [staging EXCEPT ![b] = Holding({})]
  /\ UNCHANGED <<rowVars, final, recover, crashes, shared>>

(* A part makes its own directories, so it revives a staging directory     *)
(* another request removed; the manifest, written last, does not.          *)
WriteItem(c, item) ==
  LET b == call[c].batch IN
  /\ At(c, "write")
  /\ item \notin call[c].written
  /\ item = "manifest" => Parts \subseteq call[c].written
  /\ IF item = "manifest" /\ ~staging[b].there
     THEN Goto(c, "fail") /\ UNCHANGED staging
     ELSE /\ staging' = [staging EXCEPT ![b] = Holding(@.items \cup {item})]
          /\ call' = [call EXCEPT ![c].written = @ \cup {item},
                                  ![c].at = IF item = "manifest" THEN "committing"
                                            ELSE "write"]
  /\ UNCHANGED <<rowVars, final, recover, crashes, shared>>

(* mark_files_committing and mark_files_committed write the version row    *)
(* whatever it says, except that a trigger aborts the update of a          *)
(* published one.                                                          *)
MarkFiles(c, from, new, to) ==
  LET b == call[c].batch IN
  /\ At(c, from)
  /\ IF status[b] = "PUBLISHED"
     THEN Goto(c, "fail") /\ UNCHANGED status
     ELSE Goto(c, to) /\ status' = [status EXCEPT ![b] = new]
  /\ UNCHANGED <<batch, number, fileVars, recover, crashes, shared>>

MarkCommittingEarly(c) == MarkFiles(c, "committing", "FILES_COMMITTED", "rename")
MarkCommitting(c) == MarkFiles(c, "committing", "FILES_COMMITTING", "rename")
MarkCommitted(c)  == MarkFiles(c, "committed", "FILES_COMMITTED", "finalize")

(* os.replace of a directory needs its source and, on the supported        *)
(* platform, a target that does not exist.                                 *)
Rename(c) ==
  LET b == call[c].batch IN
  /\ At(c, "rename")
  /\ IF staging[b].there /\ ~final[b].there
     THEN /\ final' = [final EXCEPT ![b] = staging[b]]
          /\ staging' = [staging EXCEPT ![b] = Missing]
          /\ Goto(c, "committed")
     ELSE Goto(c, "fail") /\ UNCHANGED fileVars
  /\ UNCHANGED <<rowVars, recover, crashes, shared>>

(* finalize_publication reads the row, then writes it without looking      *)
(* again; the triggers stop a second publication.                          *)
FinalizeRead(c) ==
  LET b == call[c].batch IN
  /\ At(c, "finalize")
  /\ CASE status[b] = "PUBLISHED"       -> Return(c)
       [] status[b] = "FILES_COMMITTED" -> Goto(c, "publish")
       [] OTHER                         -> Goto(c, "fail")
  /\ UNCHANGED <<rowVars, fileVars, recover, crashes, shared>>

Publish(b) ==
  /\ status' = [status EXCEPT ![b] = "PUBLISHED"]
  /\ batch' = [batch EXCEPT ![b] = "PUBLISHED"]
  /\ UNCHANGED number

FinalizeWrite(c) ==
  LET b == call[c].batch IN
  /\ At(c, "publish")
  /\ IF status[b] = "PUBLISHED"
     THEN Goto(c, "fail") /\ UNCHANGED rowVars
     ELSE Return(c) /\ Publish(b)
  /\ UNCHANGED <<fileVars, recover, crashes, shared>>

(* Any other error of a step (disk, lock, parquet writer). *)
Error(c) ==
  /\ call[c].at \notin {"idle", "fail", "mark", "remark"}
  /\ Goto(c, "fail")
  /\ UNCHANGED <<rowVars, fileVars, recover, crashes, shared>>

(* What mark_publication_failed writes; a published version is left alone, *)
(* by the code or by the trigger, which rolls the batch back as well.      *)
FailRows(b) ==
  IF status[b] = "PUBLISHED"
  THEN UNCHANGED rowVars
  ELSE /\ status' = [status EXCEPT ![b] = "FAILED"]
       /\ batch' = [batch EXCEPT ![b] = "PUBLISH_FAILED"]
       /\ UNCHANGED number

(* It reads the version, then the batch, and the ORM writes what differs   *)
(* from what was read: a version read as FAILED is not written again.      *)
MarkFailedRead(c) ==
  LET b == call[c].batch IN
  /\ At(c, "fail")
  /\ CASE status[b] = "PUBLISHED" -> Return(c)
       [] status[b] = "FAILED"    -> Goto(c, "remark")
       [] OTHER                   -> Goto(c, "mark")
  /\ UNCHANGED <<rowVars, fileVars, recover, crashes, shared>>

MarkFailedWrite(c) ==
  LET b == call[c].batch IN
  /\ \/ At(c, "mark") /\ FailRows(b)
     \/ /\ At(c, "remark")
        /\ batch' = [batch EXCEPT ![b] = "PUBLISH_FAILED"]
        /\ UNCHANGED <<status, number>>
  /\ Return(c)
  /\ UNCHANGED <<fileVars, recover, crashes, shared>>

(* The failure itself cannot be recorded: the lock is not granted. *)
Abandon(c) ==
  /\ call[c].at \in {"fail", "mark", "remark"}
  /\ Return(c)
  /\ UNCHANGED <<rowVars, fileVars, recover, crashes, shared>>

-----------------------------------------------------------------------------
(* The process dies and comes back; recovery precedes the first request.   *)
Crash ==
  /\ crashes < MaxCrashes
  /\ crashes' = crashes + 1
  /\ call' = [c \in Publishers |-> Idle]
  /\ recover' = Batches
  /\ UNCHANGED <<rowVars, fileVars, shared>>

(* PublicationRecoveryService.recover, for one version.  A version whose   *)
(* files were being moved and are no longer in staging is left as it is;  *)
(* an error while files are verified or rows written fails the version.   *)
InterruptedStaged(b) ==
  /\ status[b] \in {"VALIDATING", "FILES_COMMITTING"}
  /\ staging[b].there
Interrupted(b) ==
  /\ status[b] \in {"VALIDATING", "FILES_COMMITTING"}
  /\ staging[b].there \/ ~final[b].there
Recoverable(b) == status[b] = "FILES_COMMITTED" /\ final[b].there

Verified(b) == final[b].items = Items

SettleSkipping(b) ==
  IF Interrupted(b) THEN FailRows(b) ELSE UNCHANGED rowVars
Settle(b) ==
  CASE Interrupted(b) -> FailRows(b)
    [] Recoverable(b) -> FailRows(b) \/ (Verified(b) /\ Publish(b))
    [] OTHER          -> UNCHANGED rowVars

Recover(b) ==
  /\ b \in recover
  /\ Settle(b)
  /\ recover' = recover \ {b}
  /\ UNCHANGED <<fileVars, call, crashes, shared>>

Progress(c) ==
  \/ ClearStaging(c)
  \/ MakeStaging(c)
  \/ \E item \in Items : WriteItem(c, item)
  \/ MarkCommitting(c)
  \/ Rename(c)
  \/ MarkCommitted(c)
  \/ FinalizeRead(c)
  \/ FinalizeWrite(c)
  \/ Error(c)
  \/ MarkFailedRead(c)
  \/ MarkFailedWrite(c)
  \/ Abandon(c)

Next ==
  \/ \E c \in Publishers : \/ \E b \in Batches : Claim(c, b)
                           \/ Progress(c)
  \/ \E b \in Batches : Recover(b)
  \/ Crash

Spec == Init /\ [][Next]_vars

(* A request that has begun runs on until it returns, and start-up         *)
(* recovery runs to its end: both are plain sequential code.               *)
Fairness ==
  /\ \A c \in Publishers : WF_vars(Progress(c))
  /\ WF_vars(\E b \in Batches : Recover(b))

FairSpec == Spec /\ Fairness

-----------------------------------------------------------------------------
(***************************************************************************)
(* Properties.                                                             *)
(***************************************************************************)

(* The rows run behind the files: a version that says its files are        *)
(* committed, or is visible to readers, has every part and the manifest in *)
(* the published root, whatever step a crash or an error came between and  *)
(* whatever is done for other batches meanwhile.  Two requests that work   *)
(* on one batch at once can break it (see PublishedIsComplete).            *)
RowsFollowFiles ==
  \A b \in Batches \ shared : status[b] \in {"FILES_COMMITTED", "PUBLISHED"}
                       => final[b].items = Items

(* A batch never claims more than its version: it is not PUBLISHED before  *)
(* the version is, and a failed version's batch says so, although requests *)
(* that overlap, their failure paths and recovery each write both.         *)
BatchNeverAhead ==
  \A b \in Batches :
    /\ batch[b] = "PREVIEW_READY" <=> status[b] = "NONE"
    /\ batch[b] = "PUBLISHED" => status[b] = "PUBLISHED"
    /\ status[b] = "FAILED" => batch[b] = "PUBLISH_FAILED"

(* The batch does not fall behind either, unless two requests work on it   *)
(* at once: then a failing one that read the version as FAILED rewrites    *)
(* only the batch, after the other has published both.                     *)
BatchKeepsUp ==
  \A b \in Batches \ shared : status[b] = "PUBLISHED" => batch[b] = "PUBLISHED"

(* Files recorded as committed when the process died do not stay in limbo: *)
(* recovery publishes or fails them, also when it is itself interrupted.   *)
CommittedSettles ==
  \A b \in Batches : b \in recover /\ status[b] = "FILES_COMMITTED"
                       ~> status[b] \in {"PUBLISHED", "FAILED"}

(* After recovery a version is settled, or all its files are in place and  *)
(* only the record of the move is missing (see InterruptedIsSettled): so   *)
(* for every batch that no two requests have worked on at once.  Two that  *)
(* have can leave part of the files in the published root and a revived    *)
(* staging directory beside it (see SharedIsAccountedFor).                 *)
Settled(b)   == status[b] \in {"NONE", "PUBLISHED", "FAILED"}
OnlyMoved(b) == final[b].items = Items /\ ~staging[b].there
RecoveryEnds == recover # {} /\ recover' = {}

RecoveryLeavesOnlyMoved ==
  [][RecoveryEnds => \A b \in Batches \ shared : Settled(b)' \/ OnlyMoved(b)']_vars

(* Readers see an append-only catalog with gapless numbers: no error, no   *)
(* recovery and no second request withdraws or renumbers a version.        *)
Catalog == INSTANCE VersionCatalog WITH
  numbers   <- number,
  published <- {b \in Batches : status[b] = "PUBLISHED"}

PublishesToCatalog == Catalog!CatalogSpec

(***************************************************************************)
(* What the repository says and some interleavings refute.                 *)
(***************************************************************************)

(* A published version has all its files (datasets/query.py).              *)
PublishedIsComplete ==
  \A b \in Batches : status[b] = "PUBLISHED" => final[b].items = Items

(* Once recovery has looked at every version, no publication is left       *)
(* interrupted (datasets/recovery.py).                                     *)
InterruptedIsSettled ==
  [][RecoveryEnds => \A b \in Batches : Settled(b)']_vars

(* RecoveryLeavesOnlyMoved, for batches on which requests overlapped too.  *)
SharedIsAccountedFor ==
  [][RecoveryEnds => \A b \in Batches : Settled(b)' \/ OnlyMoved(b)']_vars
=============================================================================
