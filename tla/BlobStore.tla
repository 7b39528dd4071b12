------------------------------ MODULE BlobStore ------------------------------
(***************************************************************************)
(* The life of one stored content (one SHA-256): its blobs row, its file   *)
(* under blobs/sha256/, the uploads and checksum deploys that want to      *)
(* reference it, and the cleaners that delete it when nobody does.         *)
(*                                                                         *)
(* Source: internal/blob/service.go, internal/artifact/service.go,         *)
(* internal/jobs/cleanup.go, internal/storage/filesystem.go and the        *)
(* statements in artifact.sql and jobs.sql.  Different contents share      *)
(* neither rows nor files.  A transaction is one action, except for the    *)
(* claim of the cleaner, whose subquery reads a snapshot before it locks.  *)
(*                                                                         *)
(* Time is abstracted to flags: whether a lease or quarantine is still     *)
(* running and whether the row is older than the retention.                *)
(***************************************************************************)
EXTENDS Naturals

CONSTANTS
    Writers,     \* requests; each one's owner UUID is its name
    Cleaners,    \* cleanup passes; likewise
    None,        \* no owner
    MaxFaults,   \* how many crashes, stalls and failed deletes may happen
    FaultKinds   \* which disturbances the environment may cause

ASSUME OwnersAssumption == Writers \cap Cleaners = {} /\ None \notin Writers \cup Cleaners
ASSUME MaxFaultsAssumption == MaxFaults \in Nat
ASSUME FaultKindsAssumption == FaultKinds \subseteq {"crash", "stall", "error", "late"}

VARIABLES
    row,        \* the blobs row
    refs,       \* the writers whose artifacts row references the blob
    object,     \* whether the file exists
    wpc,        \* where each writer is
    wgen,       \* the lease generation each writer claimed
    cpc,        \* where each cleaner is
    cgen,       \* the lease generation each cleaner claimed
    faults      \* crashes, stalls and failed deletes so far

writerVars == <<wpc, wgen>>
cleanerVars == <<cpc, cgen>>
vars == <<row, refs, object, writerVars, cleanerVars, faults>>

-----------------------------------------------------------------------------
(* State                                                                   *)

\* leased: lease_expires_at lies ahead; in a completed deletion that column is
\* the end of the quarantine.  old: COALESCE(last_referenced_at, created_at)
\* lies before the retention cutoff.  completed: delete_completed_at is set.
Row == [state: {"none", "creating", "ready", "deleting"},
        owner: Writers \cup Cleaners \cup {None}, gen: Nat,
        leased: BOOLEAN, old: BOOLEAN, completed: BOOLEAN]
NoRow == [state |-> "none", owner |-> None, gen |-> 0,
          leased |-> FALSE, old |-> FALSE, completed |-> FALSE]

WriterLabels == {"idle", "claim", "stat", "link", "mark", "reference", "done"}
CleanerLabels == {"idle", "lock", "list", "tombstone", "remove", "complete"}

TypeOK ==
    /\ row \in Row
    /\ refs \in SUBSET Writers
    /\ object \in BOOLEAN
    /\ wpc \in [Writers -> WriterLabels]
    /\ wgen \in [Writers -> Nat]
    /\ cpc \in [Cleaners -> CleanerLabels]
    /\ cgen \in [Cleaners -> Nat]
    /\ faults \in Nat

Init ==
    /\ row = NoRow
    /\ refs = {}
    /\ object = FALSE
    /\ wpc = [w \in Writers |-> "idle"]
    /\ wgen = [w \in Writers |-> 0]
    /\ cpc = [c \in Cleaners |-> "idle"]
    /\ cgen = [c \in Cleaners |-> 0]
    /\ faults = 0

WriterGoes(w, label) ==
    /\ wpc' = [wpc EXCEPT ![w] = label]
    /\ UNCHANGED wgen

WriterEnds(w) ==
    /\ wpc' = [wpc EXCEPT ![w] = "done"]
    /\ wgen' = [wgen EXCEPT ![w] = 0]

CleanerGoes(c, label) ==
    /\ cpc' = [cpc EXCEPT ![c] = label]
    /\ UNCHANGED cgen

PassEnds(c) ==
    /\ cpc' = [cpc EXCEPT ![c] = "idle"]
    /\ cgen' = [cgen EXCEPT ![c] = 0]

-----------------------------------------------------------------------------
(* Uploads                                                                 *)

\* The staging file of the upload is complete and its digest is known.
StartUpload(w) ==
    /\ wpc[w] = "idle"
    /\ WriterGoes(w, "claim")
    /\ UNCHANGED <<row, refs, object, cleanerVars, faults>>

\* blob.Claim: a new row, or one whose creator's lease has expired.
ClaimNew(w) ==
    /\ wpc[w] = "claim"
    /\ row.state = "none"
    /\ row' = [NoRow EXCEPT !.state = "creating", !.owner = w, !.leased = TRUE]
    /\ wpc' = [wpc EXCEPT ![w] = "stat"]
    /\ wgen' = [wgen EXCEPT ![w] = 0]
    /\ UNCHANGED <<refs, object, cleanerVars, faults>>

\* Mutant: any expired lease is taken over, also that of a deletion.
ClaimAnyExpired(w) ==
    /\ wpc[w] = "claim"
    /\ row.state \in {"creating", "deleting"}
    /\ ~row.leased
    /\ row' = [row EXCEPT !.state = "creating", !.owner = w, !.gen = @ + 1, !.leased = TRUE]
    /\ wpc' = [wpc EXCEPT ![w] = "stat"]
    /\ wgen' = [wgen EXCEPT ![w] = row.gen + 1]
    /\ UNCHANGED <<refs, object, cleanerVars, faults>>

ClaimExpired(w) ==
    /\ wpc[w] = "claim"
    /\ row.state = "creating"
    /\ ~row.leased
    /\ row' = [row EXCEPT !.owner = w, !.gen = @ + 1, !.leased = TRUE]
    /\ wpc' = [wpc EXCEPT ![w] = "stat"]
    /\ wgen' = [wgen EXCEPT ![w] = row.gen + 1]
    /\ UNCHANGED <<refs, object, cleanerVars, faults>>

\* The content is already stored: the upload only references it.
ClaimReady(w) ==
    /\ wpc[w] = "claim"
    /\ row.state = "ready"
    /\ WriterGoes(w, "reference")
    /\ UNCHANGED <<row, refs, object, cleanerVars, faults>>

\* ErrInProgress and ErrDeleting end the upload.
ClaimRefused(w) ==
    /\ wpc[w] = "claim"
    /\ \/ row.state = "creating" /\ row.leased
       \/ row.state = "deleting"
    /\ WriterEnds(w)
    /\ UNCHANGED <<row, refs, object, cleanerVars, faults>>

\* Promote keeps an object that is already there and links its own otherwise.
StatObject(w) ==
    /\ wpc[w] = "stat"
    /\ WriterGoes(w, IF object THEN "mark" ELSE "link")
    /\ UNCHANGED <<row, refs, object, cleanerVars, faults>>

LinkObject(w) ==
    /\ wpc[w] = "link"
    /\ object' = TRUE
    /\ WriterGoes(w, "mark")
    /\ UNCHANGED <<row, refs, cleanerVars, faults>>

Owns(w) ==
    /\ row.state = "creating"
    /\ row.owner = w
    /\ row.gen = wgen[w]

MarkReady(w) ==
    /\ wpc[w] = "mark"
    /\ \/ /\ Owns(w)
          /\ row' = [row EXCEPT !.state = "ready", !.owner = None, !.leased = FALSE]
          /\ WriterGoes(w, "reference")
       \/ /\ ~Owns(w)
          /\ WriterEnds(w)
          /\ UNCHANGED row
    /\ UNCHANGED <<refs, object, cleanerVars, faults>>

\* Mutant: last_referenced_at is not updated.
Untouched == row

\* TouchReadyBlob.
Touched == [row EXCEPT !.old = FALSE]

\* finalizeUpload: Reference and CreateArtifact in one transaction, or neither:
\* the blob is not ready, the path is taken, or the session's lease is lost.
FinalizeUpload(w) ==
    /\ wpc[w] = "reference"
    /\ \/ /\ row.state = "ready"
          /\ row' = Touched
          /\ refs' = refs \cup {w}
       \/ UNCHANGED <<row, refs>>
    /\ WriterEnds(w)
    /\ UNCHANGED <<object, cleanerVars, faults>>

\* ChecksumDeploy: somebody else's visible artifact lends its content.
ChecksumDeploy(w) ==
    /\ wpc[w] = "idle"
    /\ refs # {}
    /\ row.state = "ready"
    /\ row' = Touched
    /\ refs' = refs \cup {w}
    /\ WriterEnds(w)
    /\ UNCHANGED <<object, cleanerVars, faults>>

\* The upload fails at any point, or its process dies: the row stays.
AbandonUpload(w) ==
    /\ wpc[w] \notin {"idle", "done"}
    /\ WriterEnds(w)
    /\ UNCHANGED <<row, refs, object, cleanerVars, faults>>

-----------------------------------------------------------------------------
(* Cleaners                                                                *)

\* A UUID is fresh: the row does not carry it.
Fresh(c) == cpc[c] = "idle" /\ row.owner # c

\* Mutant: a deletion whose cleaner is gone is not resumed.
NewlyOrphanable ==
    \/ row.state = "ready" /\ row.old
    \/ row.state = "creating" /\ ~row.leased /\ row.old

\* The conditions of ClaimOrphanBlob on the row itself.
Orphanable ==
    \/ row.state = "deleting" /\ ~row.completed /\ ~row.leased
    \/ row.state = "ready" /\ row.old
    \/ row.state = "creating" /\ ~row.leased /\ row.old

\* A pass of CleanupBlobsOnce.  The subquery of ClaimOrphanBlob evaluates NOT
\* EXISTS in the snapshot of the statement, before it locks the row; when it
\* finds nothing the pass goes on to the listing.
StartPass(c) ==
    /\ Fresh(c)
    /\ CleanerGoes(c, IF Orphanable /\ refs = {} THEN "lock" ELSE "list")
    /\ UNCHANGED <<row, refs, object, writerVars, faults>>

\* FOR UPDATE SKIP LOCKED: when the row has changed since the snapshot, its own
\* conditions are evaluated again, but the references are not.
ClaimOrphan(c) ==
    /\ cpc[c] = "lock"
    /\ Orphanable
    /\ row' = [row EXCEPT !.state = "deleting", !.owner = c, !.gen = @ + 1,
                          !.leased = TRUE, !.completed = FALSE]
    /\ cpc' = [cpc EXCEPT ![c] = "remove"]
    /\ cgen' = [cgen EXCEPT ![c] = row.gen + 1]
    /\ UNCHANGED <<refs, object, writerVars, faults>>

\* The row is locked by somebody else, or no longer meets the conditions.
SkipOrphan(c) ==
    /\ cpc[c] = "lock"
    /\ CleanerGoes(c, "list")
    /\ UNCHANGED <<row, refs, object, writerVars, faults>>

\* reconcileStorageBlobObjects: the listing sees the file, and only later does
\* the insert find out whether there is a row.
ListObject(c) ==
    /\ cpc[c] = "list"
    /\ IF object THEN CleanerGoes(c, "tombstone") ELSE PassEnds(c)
    /\ UNCHANGED <<row, refs, object, writerVars, faults>>

InsertTombstone(c) ==
    /\ cpc[c] = "tombstone"
    /\ \/ /\ row.state = "none"
          /\ row' = [NoRow EXCEPT !.state = "deleting", !.owner = c, !.leased = TRUE]
          /\ cpc' = [cpc EXCEPT ![c] = "remove"]
          /\ cgen' = [cgen EXCEPT ![c] = 0]
       \/ /\ row.state # "none"
          /\ PassEnds(c)
          /\ UNCHANGED row
    /\ UNCHANGED <<refs, object, writerVars, faults>>

\* The fence of RenewBlobDeleteLease and MarkBlobDeleteCompleted.
HoldsDeletion(c) ==
    /\ row.state = "deleting"
    /\ ~row.completed
    /\ row.owner = c
    /\ row.gen = cgen[c]

\* The heartbeat goroutine of deleteBlobObject; while the lease is ahead it
\* changes nothing.
DeleteHeartbeat(c) ==
    /\ cpc[c] = "remove"
    /\ HoldsDeletion(c)
    /\ ~row.leased
    /\ row' = [row EXCEPT !.leased = TRUE]
    /\ UNCHANGED <<refs, object, writerVars, cleanerVars, faults>>

\* It has found its lease lost before the file was touched.
DeleteCancelled(c) ==
    /\ cpc[c] = "remove"
    /\ ~HoldsDeletion(c)
    /\ PassEnds(c)
    /\ UNCHANGED <<row, refs, object, writerVars, faults>>

\* store.Delete; a file that is not there counts as deleted.
RemoveObject(c) ==
    /\ cpc[c] = "remove"
    /\ object' = FALSE
    /\ CleanerGoes(c, "complete")
    /\ UNCHANGED <<row, refs, writerVars, faults>>

\* CompleteDelete: the lease column becomes the end of the quarantine.
CompleteDelete(c) ==
    /\ cpc[c] = "complete"
    /\ row' = IF HoldsDeletion(c) THEN [row EXCEPT !.completed = TRUE, !.leased = TRUE] ELSE row
    /\ PassEnds(c)
    /\ UNCHANGED <<refs, object, writerVars, faults>>

\* Mutant: a completed deletion is purged at once.
PurgeCompleted ==
    /\ row.state = "deleting"
    /\ row.completed
    /\ refs = {}
    /\ row' = NoRow
    /\ UNCHANGED <<refs, object, writerVars, cleanerVars, faults>>

\* DeleteQuarantinedBlob.
PurgeQuarantined ==
    /\ row.state = "deleting"
    /\ row.completed
    /\ ~row.leased
    /\ refs = {}
    /\ row' = NoRow
    /\ UNCHANGED <<refs, object, writerVars, cleanerVars, faults>>

-----------------------------------------------------------------------------
(* Time and disturbances                                                   *)

\* A creation lease is fixed.  A deletion lease runs out while its cleaner is
\* still deleting only if the cleaner stalls; a quarantine is longer than a
\* stalled deletion, unless deletions may be late.
LeaseExpires ==
    /\ row.leased
    /\ CASE row.state = "creating" -> UNCHANGED faults
         [] row.state = "deleting" /\ row.completed ->
              /\ "late" \in FaultKinds \/ \A c \in Cleaners : cpc[c] # "remove"
              /\ UNCHANGED faults
         [] OTHER ->
              IF \E c \in Cleaners : cpc[c] \in {"remove", "complete"} /\ HoldsDeletion(c)
              THEN /\ "stall" \in FaultKinds
                   /\ faults < MaxFaults
                   /\ faults' = faults + 1
              ELSE UNCHANGED faults
    /\ row' = [row EXCEPT !.leased = FALSE]
    /\ UNCHANGED <<refs, object, writerVars, cleanerVars>>

\* The retention passes.  The cutoff of a claim is computed before its
\* statement runs: what is touched meanwhile does not become old for it.
RowAges ==
    /\ row.state \in {"creating", "ready"}
    /\ ~row.old
    /\ \A c \in Cleaners : cpc[c] # "lock"
    /\ row' = [row EXCEPT !.old = TRUE]
    /\ UNCHANGED <<refs, object, writerVars, cleanerVars, faults>>

\* The file cannot be deleted, or a renewal or the completion fails in the
\* database: the row stays, for a later pass.
DeleteFails(c) ==
    /\ "error" \in FaultKinds
    /\ cpc[c] \in {"remove", "complete"}
    /\ faults < MaxFaults
    /\ faults' = faults + 1
    /\ PassEnds(c)
    /\ UNCHANGED <<row, refs, object, writerVars>>

CleanerCrash(c) ==
    /\ "crash" \in FaultKinds
    /\ cpc[c] # "idle"
    /\ faults < MaxFaults
    /\ faults' = faults + 1
    /\ PassEnds(c)
    /\ UNCHANGED <<row, refs, object, writerVars>>

-----------------------------------------------------------------------------
(* Specification                                                           *)

WriterStep(w) ==
    \/ StartUpload(w) \/ ClaimNew(w) \/ ClaimExpired(w) \/ ClaimReady(w) \/ ClaimRefused(w)
    \/ StatObject(w) \/ LinkObject(w) \/ MarkReady(w) \/ FinalizeUpload(w)
    \/ ChecksumDeploy(w) \/ AbandonUpload(w)

\* What a pass does by itself once it has begun, as long as it is alive.
PassStep(c) ==
    \/ ClaimOrphan(c) \/ SkipOrphan(c) \/ ListObject(c) \/ InsertTombstone(c)
    \/ RemoveObject(c) \/ CompleteDelete(c)

CleanerStep(c) ==
    \/ StartPass(c) \/ PassStep(c)
    \/ DeleteHeartbeat(c) \/ DeleteCancelled(c) \/ DeleteFails(c) \/ CleanerCrash(c)

Next ==
    \/ \E w \in Writers : WriterStep(w)
    \/ \E c \in Cleaners : CleanerStep(c)
    \/ PurgeQuarantined
    \/ LeaseExpires
    \/ RowAges

Spec == Init /\ [][Next]_vars

\* The cleanup job runs every few minutes and a live pass goes on.  A row that
\* was locked is claimed by a later pass, because no transaction keeps its lock.
\* Time passes.  Nothing is assumed of the writers.
Fairness ==
    /\ WF_vars(\E c \in Cleaners : StartPass(c))
    /\ \A c \in Cleaners : WF_vars(PassStep(c))
    /\ SF_vars(\E c \in Cleaners : ClaimOrphan(c))
    /\ WF_vars(PurgeQuarantined)
    /\ WF_vars(LeaseExpires)
    /\ WF_vars(RowAges)

FairSpec == Spec /\ Fairness

-----------------------------------------------------------------------------
(* Properties                                                              *)

\* No visible artifact ever points to a missing file: as soon as one artifact
\* references the blob its row is ready and its file exists, and neither
\* changes any more, whatever uploads and cleaners were still at work.
ReferencedIsServable ==
    refs # {} => row.state = "ready" /\ object

\* A ready row has its file even before anybody references it, so that an
\* upload that finds it ready may reference it without looking.
ReadyHasObject == row.state = "ready" => object

\* The file goes away only under a tombstone: as long as a row is there that
\* writers could use, or no row at all, no cleaner removes it.
RemovedUnderTombstone ==
    [][object /\ ~object' => row.state = "deleting"]_vars

\* The strengthening that makes these inductive: while a cleaner may remove the
\* file there is a tombstone, not yet out of its quarantine, the creator that is about to mark the row
\* ready has its file, and a claim that decided on a snapshot without
\* references cannot pass its recheck once there is one.
RemoverHasTombstone ==
    \A c \in Cleaners : cpc[c] = "remove" =>
        row.state = "deleting" /\ (row.completed => row.leased)
CreatorHasObject ==
    \A w \in Writers : wpc[w] = "mark" /\ Owns(w) => object
RecheckSeesReference ==
    (\E c \in Cleaners : cpc[c] = "lock") /\ refs # {} => ~Orphanable
IInv ==
    /\ TypeOK
    /\ ReferencedIsServable
    /\ ReadyHasObject
    /\ RemoverHasTombstone
    /\ CreatorHasObject
    /\ RecheckSeesReference

\* A file that nobody references does not stay for ever, however it came to be
\* left behind: by an upload that failed after storing it, by one that was
\* stalled past the deletion of its row, or by a cleaner that died; and neither does
\* a tombstone, which refuses every upload of the content.
NothingIsLeft ==
    /\ object /\ refs = {} ~> ~object \/ refs # {}
    /\ row.state = "deleting" ~> row.state # "deleting"

=============================================================================
