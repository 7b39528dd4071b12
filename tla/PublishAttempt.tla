--------------------------- MODULE PublishAttempt ---------------------------
(***************************************************************************)
(* Publishing one release: the release row, its publish attempts, the      *)
(* idempotency records of the publish requests, the blob rows and files of *)
(* the two outputs (manifest and signature), the API requests that execute *)
(* an attempt and the worker executions that take over an attempt whose    *)
(* lease has expired.                                                      *)
(*                                                                         *)
(* Source: internal/release/publish.go, internal/release/draft_service.go, *)
(* internal/blob/service.go, internal/jobs/publish_recovery.go,            *)
(* internal/jobs/cleanup.go, internal/jobs/upload_cleanup.go,              *)
(* internal/storage/filesystem.go and the statements of                    *)
(* internal/database/queries.  A database transaction is one action: the   *)
(* row locks it takes make it so.  Whatever happens outside a transaction  *)
(* (signing, file operations, separate queries) is a step of its own.      *)
(*                                                                         *)
(* Time is abstracted to flags: whether a lease has expired, whether the   *)
(* retry backoff has passed, whether a row is older than the retention.    *)
(***************************************************************************)
EXTENDS Naturals

CONSTANTS
    Artifacts,    \* what a draft may list (release_artifacts rows)
    Attempts,     \* identities for publish_attempts rows, in bounded supply
    Keys,         \* idempotency keys the clients use
    Execs,        \* executions; each one's fresh UUID is its lease owner name
    None,         \* no attempt, no key, no owner
    MaxRetry,     \* cap of retry_count, 10 in the code
    MaxFaults,    \* how many crashes and stalls a behaviour may contain
    FaultKinds    \* which disturbances the environment may cause

ASSUME NoneAssumption == None \notin Attempts \cup Keys \cup Execs
ASSUME MaxRetryAssumption == MaxRetry \in Nat
ASSUME MaxFaultsAssumption == MaxFaults \in Nat
ASSUME FaultKindsAssumption ==
    FaultKinds \subseteq {"crash", "stall", "transient", "key", "retention"}

VARIABLES
    release,    \* the releases row: state and current_attempt_id
    content,    \* its release_artifacts
    attempt,    \* publish_attempts rows
    idem,       \* idempotency_records of publish requests, by key
    manifest,   \* attempt_id of the release_manifests row, or None
    blob,       \* blobs rows of the outputs
    object,     \* outputs present under blobs/sha256/
    staging,    \* outputs present under staging/publish/<attempt>/
    pc,         \* where each execution is
    job,        \* what each execution remembers
    faults      \* crashes and stalls so far

databaseVars == <<release, content, attempt, idem, manifest>>
storageVars == <<blob, object, staging>>
execVars == <<pc, job>>
vars == <<databaseVars, storageVars, execVars, faults>>

-----------------------------------------------------------------------------
(* State                                                                   *)

Kinds == {"manifest", "signature"}

\* published_at makes the manifest bytes of every attempt different, and
\* Ed25519 is deterministic: the outputs of an attempt are a content of their
\* own, the same in every execution of it.
Outputs == Attempts \X Kinds
OutputsOf(a) == {<<a, k>> : k \in Kinds}

ReleaseStates == {"draft", "publishing", "published", "publish_failed"}
AttemptStates == {"none", "active", "completed", "aborted", "failed"}
BlobStates == {"none", "creating", "ready", "deleting", "deleted"}
Answers == {"none", "pending", "200", "500", "503", "rejected"}
Labels == {"idle", "load", "renew", "sign", "claim", "put", "link", "unstage",
           "mark", "stat", "rerenew", "record", "read", "finalize",
           "failing", "prove", "abort"}

\* leased: lease_expires_at lies ahead.  due: next_retry_at is null or past.
\* stored: storage_completed, set together with both output digests.
AttemptRow == [state: AttemptStates, snapshot: SUBSET Artifacts,
               key: Keys \cup {None}, owner: Execs \cup {None}, gen: Nat,
               leased: BOOLEAN, due: BOOLEAN, retry: 0..MaxRetry,
               stored: BOOLEAN]

\* old: COALESCE(last_referenced_at, created_at) lies before the retention
\* cutoff.  "deleted" is state deleting with delete_completed_at set.
BlobRow == [state: BlobStates, owner: Execs \cup {None}, gen: Nat,
            leased: BOOLEAN, old: BOOLEAN]

\* attempt and gen are the fence; retry is the copy of the row read when the
\* execution started; bgen is the blob generation it claimed.
Job == [attempt: Attempts \cup {None}, gen: Nat, recovering: BOOLEAN,
        retry: 0..MaxRetry, kind: Kinds, bgen: Nat,
        cause: {"none", "transient", "permanent"}]

NoAttempt == [state |-> "none", snapshot |-> {}, key |-> None, owner |-> None,
              gen |-> 0, leased |-> FALSE, due |-> TRUE, retry |-> 0,
              stored |-> FALSE]
NoBlob == [state |-> "none", owner |-> None, gen |-> 0, leased |-> FALSE,
           old |-> FALSE]
NoJob == [attempt |-> None, gen |-> 0, recovering |-> FALSE, retry |-> 0,
          kind |-> "manifest", bgen |-> 0, cause |-> "none"]

DatabaseTypeOK ==
    /\ release \in [state: ReleaseStates, current: Attempts \cup {None}]
    /\ content \in SUBSET Artifacts
    /\ attempt \in [Attempts -> AttemptRow]
    /\ idem \in [Keys -> Answers]
    /\ manifest \in Attempts \cup {None}

StorageTypeOK ==
    /\ blob \in [Outputs -> BlobRow]
    /\ object \in SUBSET Outputs
    /\ staging \in SUBSET Outputs

ExecTypeOK ==
    /\ pc \in [Execs -> Labels]
    /\ job \in [Execs -> Job]

TypeOK == DatabaseTypeOK /\ StorageTypeOK /\ ExecTypeOK /\ faults \in Nat

Init ==
    /\ release = [state |-> "draft", current |-> None]
    /\ content = {}
    /\ attempt = [a \in Attempts |-> NoAttempt]
    /\ idem = [k \in Keys |-> "none"]
    /\ manifest = None
    /\ blob = [b \in Outputs |-> NoBlob]
    /\ object = {}
    /\ staging = {}
    /\ pc = [e \in Execs |-> "idle"]
    /\ job = [e \in Execs |-> NoJob]
    /\ faults = 0

-----------------------------------------------------------------------------
(* Executions                                                              *)

\* A UUID is fresh: no execution in progress and no row that a fence could
\* compare with carries it.
Fresh(e) ==
    /\ pc[e] = "idle"
    /\ \A a \in Attempts : attempt[a].state = "active" => attempt[a].owner # e
    /\ \A b \in Outputs : blob[b].state = "creating" => blob[b].owner # e

\* Mutants of Holds: an update that checks only the state, or nothing.
HoldsWithoutOwner(e) == attempt[job[e].attempt].state = "active"
HoldsAlways(e) == attempt[job[e].attempt].state # "none"

\* The WHERE clause of every conditional update on publish_attempts.
Holds(e) ==
    LET row == attempt[job[e].attempt] IN
    /\ row.state = "active"
    /\ row.owner = e
    /\ row.gen = job[e].gen

Output(e) == <<job[e].attempt, job[e].kind>>

Goto(e, label) ==
    /\ pc' = [pc EXCEPT ![e] = label]
    /\ UNCHANGED job

\* The execution returns; ErrLeaseLost is returned without recording anything.
Leave(e) ==
    /\ pc' = [pc EXCEPT ![e] = "idle"]
    /\ job' = [job EXCEPT ![e] = NoJob]

\* The execution reaches handleExecutionFailure.
Fail(e, cause) ==
    /\ pc' = [pc EXCEPT ![e] = "failing"]
    /\ job' = [job EXCEPT ![e].cause = cause]

-----------------------------------------------------------------------------
(* The draft                                                               *)

AddArtifact(x) ==
    /\ release.state = "draft"
    /\ x \notin content
    /\ content' = content \cup {x}
    /\ UNCHANGED <<release, attempt, idem, manifest, storageVars, execVars, faults>>

\* Mutant: the state of the release was checked before it was locked.
RemoveArtifactUnchecked(x) ==
    /\ x \in content
    /\ content' = content \ {x}
    /\ UNCHANGED <<release, attempt, idem, manifest, storageVars, execVars, faults>>

RemoveArtifact(x) ==
    /\ release.state = "draft"
    /\ x \in content
    /\ content' = content \ {x}
    /\ UNCHANGED <<release, attempt, idem, manifest, storageVars, execVars, faults>>

-----------------------------------------------------------------------------
(* Publish requests                                                        *)

\* startPublish of a request that carries the key k, or no key (None).  A key
\* with a pending record answers 409, one with a completed record replays it:
\* neither changes any state.
StartPublish(e, a, k) ==
    /\ Fresh(e)
    /\ k \in Keys => idem[k] = "none"
    /\ release.state = "draft"
    /\ content # {}
    /\ attempt[a].state = "none"
    /\ attempt' = [attempt EXCEPT ![a] =
           [NoAttempt EXCEPT !.state = "active", !.snapshot = content,
                             !.key = k, !.owner = e, !.leased = TRUE]]
    /\ release' = [state |-> "publishing", current |-> a]
    /\ idem' = [j \in Keys |-> IF j = k THEN "pending" ELSE idem[j]]
    /\ pc' = [pc EXCEPT ![e] = "renew"]
    /\ job' = [job EXCEPT ![e] = [NoJob EXCEPT !.attempt = a]]
    /\ UNCHANGED <<content, manifest, storageVars, faults>>

\* completeValidationFailure: a deterministic refusal is the final answer.  Of
\* the refusals, those that depend on the state of this release.
RejectPublish(k) ==
    /\ idem[k] = "none"
    /\ release.state # "draft" \/ content = {}
    /\ idem' = [idem EXCEPT ![k] = "rejected"]
    /\ UNCHANGED <<release, content, attempt, manifest, storageVars, execVars, faults>>

\* DeleteExpiredIdempotencyRecords, with ON DELETE SET NULL on the attempts.
ForgetAnswer(k) ==
    /\ idem[k] \notin {"none", "pending"}
    /\ idem' = [idem EXCEPT ![k] = "none"]
    /\ attempt' = [a \in Attempts |->
           IF attempt[a].key = k THEN [attempt[a] EXCEPT !.key = None] ELSE attempt[a]]
    /\ UNCHANGED <<release, content, manifest, storageVars, execVars, faults>>

\* Mutant: a failed attempt leaves its record pending.
AnsweredIfPublished(a, status) ==
    [k \in Keys |-> IF k = attempt[a].key /\ status = "200" THEN status ELSE idem[k]]

\* CompleteInTx: the answer to the request that started attempt a.
Answered(a, status) ==
    [k \in Keys |-> IF k = attempt[a].key THEN status ELSE idem[k]]

-----------------------------------------------------------------------------
(* Leases and takeover                                                     *)

\* The attempt's lease runs out.  While its holder is alive this takes a stall
\* of the holder, because its heartbeat interval is shorter than the lease.
LeaseExpires(a) ==
    /\ attempt[a].state = "active"
    /\ attempt[a].leased
    /\ IF pc[attempt[a].owner] = "idle"
       THEN UNCHANGED faults
       ELSE /\ "stall" \in FaultKinds
            /\ faults < MaxFaults
            /\ faults' = faults + 1
    /\ attempt' = [attempt EXCEPT ![a].leased = FALSE]
    /\ UNCHANGED <<release, content, idem, manifest, storageVars, execVars>>

RetryDue(a) ==
    /\ attempt[a].state = "active"
    /\ ~attempt[a].due
    /\ attempt' = [attempt EXCEPT ![a].due = TRUE]
    /\ UNCHANGED <<release, content, idem, manifest, storageVars, execVars, faults>>

\* The heartbeat goroutine of withLeaseHeartbeat, which runs from signing to
\* the last output; while the lease is ahead it changes nothing.
HeartbeatLabels == {"sign", "claim", "put", "link", "unstage", "mark", "stat"}

Heartbeat(e) ==
    /\ pc[e] \in HeartbeatLabels
    /\ Holds(e)
    /\ ~attempt[job[e].attempt].leased
    /\ attempt' = [attempt EXCEPT ![job[e].attempt].leased = TRUE]
    /\ UNCHANGED <<release, content, idem, manifest, storageVars, execVars, faults>>

\* A lost lease stays lost, so the execution may notice it before or after the
\* file operation in progress: returning at once stands for both.
HeartbeatLost(e) ==
    /\ pc[e] \in HeartbeatLabels
    /\ ~Holds(e)
    /\ Leave(e)
    /\ UNCHANGED <<databaseVars, storageVars, faults>>

\* Mutant: retry_count + 1 without LEAST(..., 10).
NextRetryUncapped(a) == attempt[a].retry + 1

NextRetry(a) == IF attempt[a].retry < MaxRetry THEN attempt[a].retry + 1 ELSE MaxRetry

\* Mutant: retry_count < 10, so that the attempt is never taken at the limit.
TakeLeaseBelowLimit(e, a) ==
    /\ Fresh(e)
    /\ attempt[a].state = "active"
    /\ ~attempt[a].leased
    /\ attempt[a].due
    /\ attempt[a].retry < MaxRetry
    /\ attempt' = [attempt EXCEPT ![a].owner = e,
                                  ![a].gen = @ + 1,
                                  ![a].leased = TRUE,
                                  ![a].retry = NextRetry(a)]
    /\ pc' = [pc EXCEPT ![e] = "load"]
    /\ job' = [job EXCEPT ![e] = [NoJob EXCEPT !.attempt = a,
                                               !.gen = attempt[a].gen + 1,
                                               !.recovering = TRUE]]
    /\ UNCHANGED <<release, content, idem, manifest, storageVars, faults>>

\* TakePublishAttemptLease, run by RecoverAttempt for an attempt that
\* ListRecoverablePublishAttemptIDs returned under the same condition.
TakeLease(e, a) ==
    /\ Fresh(e)
    /\ attempt[a].state = "active"
    /\ ~attempt[a].leased
    /\ attempt[a].due
    /\ attempt[a].retry <= MaxRetry
    /\ attempt' = [attempt EXCEPT ![a].owner = e,
                                  ![a].gen = @ + 1,
                                  ![a].leased = TRUE,
                                  ![a].retry = NextRetry(a)]
    /\ pc' = [pc EXCEPT ![e] = "load"]
    /\ job' = [job EXCEPT ![e] = [NoJob EXCEPT !.attempt = a,
                                               !.gen = attempt[a].gen + 1,
                                               !.recovering = TRUE]]
    /\ UNCHANGED <<release, content, idem, manifest, storageVars, faults>>

\* The separate GetPublishAttempt after the takeover; a second takeover in
\* between is noticed.  An attempt whose outputs are recorded is only finished.
LoadAttempt(e) ==
    LET row == attempt[job[e].attempt] IN
    /\ pc[e] = "load"
    /\ \/ /\ Holds(e)
          /\ pc' = [pc EXCEPT ![e] = IF row.stored THEN "read" ELSE "renew"]
          /\ job' = [job EXCEPT ![e].retry = row.retry]
       \/ /\ ~Holds(e)
          /\ Leave(e)
    /\ UNCHANGED <<databaseVars, storageVars, faults>>

\* The two renewals of executePublish: a lease that expired is revived as long
\* as nobody took the attempt over.
RenewLease(e) ==
    /\ pc[e] \in {"renew", "rerenew"}
    /\ \/ /\ Holds(e)
          /\ attempt' = [attempt EXCEPT ![job[e].attempt].leased = TRUE]
          /\ Goto(e, IF pc[e] = "renew" THEN "sign" ELSE "record")
       \/ /\ ~Holds(e)
          /\ Leave(e)
          /\ UNCHANGED attempt
    /\ UNCHANGED <<release, content, idem, manifest, storageVars, faults>>

-----------------------------------------------------------------------------
(* The outputs                                                             *)

SignManifest(e) ==
    /\ pc[e] = "sign"
    /\ Goto(e, "claim")
    /\ UNCHANGED <<databaseVars, storageVars, faults>>

\* The next output after one is stored: first the manifest, then the signature.
OutputStored(e) ==
    IF job[e].kind = "manifest"
    THEN /\ pc' = [pc EXCEPT ![e] = "claim"]
         /\ job' = [job EXCEPT ![e].kind = "signature"]
    ELSE Goto(e, "rerenew")

\* blob.Claim.  The owner is new to every execution, so the branch for a row
\* that the same owner already holds is never taken here.
ClaimNewBlob(e) ==
    /\ pc[e] = "claim"
    /\ blob[Output(e)].state = "none"
    /\ blob' = [blob EXCEPT ![Output(e)] =
           [NoBlob EXCEPT !.state = "creating", !.owner = e, !.leased = TRUE]]
    /\ pc' = [pc EXCEPT ![e] = "put"]
    /\ job' = [job EXCEPT ![e].bgen = 0]
    /\ UNCHANGED <<databaseVars, object, staging, faults>>

ClaimExpiredBlob(e) ==
    LET row == blob[Output(e)] IN
    /\ pc[e] = "claim"
    /\ row.state = "creating"
    /\ ~row.leased
    /\ blob' = [blob EXCEPT ![Output(e)].owner = e,
                            ![Output(e)].gen = @ + 1,
                            ![Output(e)].leased = TRUE]
    /\ pc' = [pc EXCEPT ![e] = "put"]
    /\ job' = [job EXCEPT ![e].bgen = row.gen + 1]
    /\ UNCHANGED <<databaseVars, object, staging, faults>>

ClaimReadyBlob(e) ==
    /\ pc[e] = "claim"
    /\ blob[Output(e)].state = "ready"
    /\ Goto(e, "stat")
    /\ UNCHANGED <<databaseVars, storageVars, faults>>

\* ErrInProgress and ErrDeleting are retried later.
ClaimRefused(e) ==
    LET row == blob[Output(e)] IN
    /\ pc[e] = "claim"
    /\ \/ row.state = "creating" /\ row.leased
       \/ row.state \in {"deleting", "deleted"}
    /\ Fail(e, "transient")
    /\ UNCHANGED <<databaseVars, storageVars, faults>>

\* PutStaging creates the file with O_EXCL: a file left behind is a conflict.
PutStaging(e) ==
    /\ pc[e] = "put"
    /\ \/ /\ Output(e) \notin staging
          /\ staging' = staging \cup {Output(e)}
          /\ Goto(e, "link")
       \/ /\ Output(e) \in staging
          /\ Fail(e, "permanent")
          /\ UNCHANGED staging
    /\ UNCHANGED <<databaseVars, blob, object, faults>>

\* Promote: a missing staging file is ErrNotFound; an object that is already
\* there is kept; the staging file is removed in a step of its own.
LinkObject(e) ==
    /\ pc[e] = "link"
    /\ \/ /\ Output(e) \in staging
          /\ object' = object \cup {Output(e)}
          /\ Goto(e, "unstage")
       \/ /\ Output(e) \notin staging
          /\ Fail(e, "permanent")
          /\ UNCHANGED object
    /\ UNCHANGED <<databaseVars, blob, staging, faults>>

RemoveStaging(e) ==
    /\ pc[e] = "unstage"
    /\ staging' = staging \ {Output(e)}
    /\ Goto(e, "mark")
    /\ UNCHANGED <<databaseVars, blob, object, faults>>

\* Mutant: the generation alone, which starts again at 0 with a new row.
OwnsBlobByGeneration(e) ==
    LET row == blob[Output(e)] IN
    /\ row.state = "creating"
    /\ row.gen = job[e].bgen

OwnsBlob(e) ==
    LET row == blob[Output(e)] IN
    /\ row.state = "creating"
    /\ row.owner = e
    /\ row.gen = job[e].bgen

MarkBlobReady(e) ==
    /\ pc[e] = "mark"
    /\ \/ /\ OwnsBlob(e)
          /\ blob' = [blob EXCEPT ![Output(e)].state = "ready",
                                  ![Output(e)].owner = None,
                                  ![Output(e)].leased = FALSE]
          /\ OutputStored(e)
       \/ /\ ~OwnsBlob(e)
          /\ Fail(e, "transient")
          /\ UNCHANGED blob
    /\ UNCHANGED <<databaseVars, object, staging, faults>>

\* The Stat of an output another execution made ready.
StatReadyObject(e) ==
    /\ pc[e] = "stat"
    /\ \/ Output(e) \in object /\ OutputStored(e)
       \/ Output(e) \notin object /\ Fail(e, "permanent")
    /\ UNCHANGED <<databaseVars, storageVars, faults>>

-----------------------------------------------------------------------------
(* Recording and finalizing                                                *)

\* blob.Reference of both outputs: each must be ready, and is touched.
Referenceable(a) == \A b \in OutputsOf(a) : blob[b].state = "ready"
Touched(a) == [b \in Outputs |->
    IF b \in OutputsOf(a) THEN [blob[b] EXCEPT !.old = FALSE] ELSE blob[b]]

RecordPublishStorage(e) ==
    LET a == job[e].attempt IN
    /\ pc[e] = "record"
    /\ \/ /\ Referenceable(a) /\ Holds(e)
          /\ attempt' = [attempt EXCEPT ![a].stored = TRUE]
          /\ blob' = Touched(a)
          /\ Goto(e, "finalize")
       \/ /\ ~Referenceable(a)
          /\ Fail(e, "transient")
          /\ UNCHANGED <<attempt, blob>>
       \/ /\ Referenceable(a) /\ ~Holds(e)
          /\ Leave(e)
          /\ UNCHANGED <<attempt, blob>>
    /\ UNCHANGED <<release, content, idem, manifest, object, staging, faults>>

\* finalizeRecovered reads the recorded objects before it finalizes.
ReadRecorded(e) ==
    /\ pc[e] = "read"
    /\ IF OutputsOf(job[e].attempt) \subseteq object
       THEN Goto(e, "finalize")
       ELSE Fail(e, "permanent")
    /\ UNCHANGED <<databaseVars, storageVars, faults>>

\* finalizePublish: one transaction fences the attempt, references the blobs,
\* inserts the manifest row, publishes the release and completes the answer.
FinalizePublish(e) ==
    LET a == job[e].attempt IN
    /\ pc[e] = "finalize"
    /\ IF Holds(e) /\ Referenceable(a) /\ manifest = None /\ attempt[a].stored
             /\ release = [state |-> "publishing", current |-> a]
       THEN /\ attempt' = [attempt EXCEPT ![a].state = "completed"]
            /\ release' = [release EXCEPT !.state = "published"]
            /\ manifest' = a
            /\ idem' = Answered(a, "200")
            /\ blob' = Touched(a)
            /\ Leave(e)
       ELSE /\ IF Holds(e) /\ ~(Referenceable(a) /\ manifest = None)
               THEN Fail(e, "transient")
               ELSE Leave(e)
            /\ UNCHANGED <<attempt, release, manifest, idem, blob>>
    /\ UNCHANGED <<content, object, staging, faults>>

-----------------------------------------------------------------------------
(* handleExecutionFailure                                                  *)

AtRetryLimit(e) == job[e].recovering /\ job[e].retry >= MaxRetry

\* RecordPublishFailure: the attempt stays active and waits out its backoff;
\* its lease is left to expire.
RecordTransientFailure(e) ==
    /\ pc[e] = "failing"
    /\ job[e].cause = "transient"
    /\ ~AtRetryLimit(e)
    /\ attempt' = IF Holds(e)
                  THEN [attempt EXCEPT ![job[e].attempt].due = FALSE]
                  ELSE attempt
    /\ Leave(e)
    /\ UNCHANGED <<release, content, idem, manifest, storageVars, faults>>

\* Both rows of MarkPublishAttemptFailed and the 500 answer, in one transaction.
MarkPublishFailed(e) ==
    LET a == job[e].attempt IN
    /\ pc[e] = "failing"
    /\ job[e].cause = "permanent"
    /\ IF Holds(e) /\ release.current = a
       THEN /\ attempt' = [attempt EXCEPT ![a].state = "failed"]
            /\ release' = [release EXCEPT !.state = "publish_failed"]
            /\ idem' = Answered(a, "500")
       ELSE UNCHANGED <<attempt, release, idem>>
    /\ Leave(e)
    /\ UNCHANGED <<content, manifest, storageVars, faults>>

\* The last permitted retry failed: publishOutputsAbsent looks for the manifest
\* and then for the signature.
ReachRetryLimit(e) ==
    /\ pc[e] = "failing"
    /\ job[e].cause = "transient"
    /\ AtRetryLimit(e)
    /\ pc' = [pc EXCEPT ![e] = "prove"]
    /\ job' = [job EXCEPT ![e].kind = "manifest"]
    /\ UNCHANGED <<databaseVars, storageVars, faults>>

ProveOutputAbsent(e) ==
    /\ pc[e] = "prove"
    /\ IF Output(e) \in object
       THEN Fail(e, "permanent")
       ELSE IF job[e].kind = "manifest"
            THEN /\ job' = [job EXCEPT ![e].kind = "signature"]
                 /\ UNCHANGED pc
            ELSE Goto(e, "abort")
    /\ UNCHANGED <<databaseVars, storageVars, faults>>

\* Mutant: the aborted attempt stays the release's current one.
AbortKeepsCurrent(e) ==
    LET a == job[e].attempt IN
    /\ pc[e] = "abort"
    /\ IF Holds(e) /\ ~attempt[a].stored /\ release.current = a
       THEN /\ attempt' = [attempt EXCEPT ![a].state = "aborted"]
            /\ release' = [release EXCEPT !.state = "draft"]
            /\ idem' = Answered(a, "503")
       ELSE UNCHANGED <<attempt, release, idem>>
    /\ Leave(e)
    /\ UNCHANGED <<content, manifest, storageVars, faults>>

\* AbortPublishAttemptToDraft and the 503 answer.
AbortPublishAttempt(e) ==
    LET a == job[e].attempt IN
    /\ pc[e] = "abort"
    /\ IF Holds(e) /\ ~attempt[a].stored /\ release.current = a
       THEN /\ attempt' = [attempt EXCEPT ![a].state = "aborted"]
            /\ release' = [state |-> "draft", current |-> None]
            /\ idem' = Answered(a, "503")
       ELSE UNCHANGED <<attempt, release, idem>>
    /\ Leave(e)
    /\ UNCHANGED <<content, manifest, storageVars, faults>>

-----------------------------------------------------------------------------
(* Disturbances                                                            *)

\* A database or file operation fails.  PutStaging removes its file when it
\* fails; Promote leaves the staging file, and the object once it is linked.
TransientError(e) ==
    /\ "transient" \in FaultKinds
    /\ pc[e] \notin {"idle", "load", "failing", "prove", "abort"}
    /\ Fail(e, "transient")
    /\ UNCHANGED <<databaseVars, storageVars, faults>>

\* publishOutputsAbsent cannot tell: the outcome is uncertain, which is final.
ProofError(e) ==
    /\ "transient" \in FaultKinds
    /\ pc[e] = "prove"
    /\ Fail(e, "permanent")
    /\ UNCHANGED <<databaseVars, storageVars, faults>>

\* The active key is not the recorded one, or the signer rejects its key.
KeyError(e) ==
    /\ "key" \in FaultKinds
    /\ \/ pc[e] = "load" /\ Holds(e) /\ ~attempt[job[e].attempt].stored
       \/ pc[e] = "sign"
    /\ Fail(e, "permanent")
    /\ UNCHANGED <<databaseVars, storageVars, faults>>

\* The process dies, its context is cancelled, or the transaction that would
\* record its failure fails: the execution ends and leaves everything as it is.
Crash(e) ==
    /\ "crash" \in FaultKinds
    /\ pc[e] # "idle"
    /\ faults < MaxFaults
    /\ faults' = faults + 1
    /\ Leave(e)
    /\ UNCHANGED <<databaseVars, storageVars>>

-----------------------------------------------------------------------------
(* Blob leases and the cleaner                                             *)

\* The blob lease is fixed: no heartbeat extends it.
BlobLeaseExpires(b) ==
    /\ blob[b].state = "creating"
    /\ blob[b].leased
    /\ blob' = [blob EXCEPT ![b].leased = FALSE]
    /\ UNCHANGED <<databaseVars, object, staging, execVars, faults>>

\* The retention passes since the row was created or last referenced.
BlobAges(b) ==
    /\ "retention" \in FaultKinds
    /\ blob[b].state \in {"creating", "ready"}
    /\ ~blob[b].old
    /\ blob' = [blob EXCEPT ![b].old = TRUE]
    /\ UNCHANGED <<databaseVars, object, staging, execVars, faults>>

\* Mutants: one of the NOT EXISTS conditions is missing.
ReferencedByManifest(b) == manifest = b[1]
ReferencedByAttempt(b) == attempt[b[1]].state = "active" /\ attempt[b[1]].stored

\* The NOT EXISTS conditions of ClaimOrphanBlob and DeleteQuarantinedBlob.
Referenced(b) ==
    \/ manifest = b[1]
    \/ attempt[b[1]].state = "active" /\ attempt[b[1]].stored

ClaimOrphan(b) ==
    LET row == blob[b] IN
    /\ row.old
    /\ row.state = "ready" \/ (row.state = "creating" /\ ~row.leased)
    /\ ~Referenced(b)
    /\ blob' = [blob EXCEPT ![b].state = "deleting", ![b].owner = None,
                            ![b].gen = @ + 1, ![b].leased = FALSE]
    /\ UNCHANGED <<databaseVars, object, staging, execVars, faults>>

\* The cleaner deletes the file and then marks the row; every claim is refused
\* before, between and after the two, until the row is purged.
DeleteObject(b) ==
    /\ blob[b].state = "deleting"
    /\ object' = object \ {b}
    /\ blob' = [blob EXCEPT ![b].state = "deleted"]
    /\ UNCHANGED <<databaseVars, staging, execVars, faults>>

PurgeRow(b) ==
    /\ blob[b].state = "deleted"
    /\ ~Referenced(b)
    /\ blob' = [blob EXCEPT ![b] = NoBlob]
    /\ UNCHANGED <<databaseVars, object, staging, execVars, faults>>

\* reconcileStorageBlobObjects: an old object without a row gets a tombstone.
ReconcileObject(b) ==
    /\ "retention" \in FaultKinds
    /\ b \in object
    /\ blob[b].state = "none"
    /\ blob' = [blob EXCEPT ![b].state = "deleting"]
    /\ UNCHANGED <<databaseVars, object, staging, execVars, faults>>

\* Mutant: the age of the file alone decides.
CleanOldStaging(b) ==
    /\ "retention" \in FaultKinds
    /\ b \in staging
    /\ staging' = staging \ {b}
    /\ UNCHANGED <<databaseVars, blob, object, execVars, faults>>

\* reconcileStorageStagingObjects: an attempt never becomes active again, so
\* the check and the delete that follows it are one step.
CleanStaging(b) ==
    /\ "retention" \in FaultKinds
    /\ b \in staging
    /\ attempt[b[1]].state # "active"
    /\ staging' = staging \ {b}
    /\ UNCHANGED <<databaseVars, blob, object, execVars, faults>>

-----------------------------------------------------------------------------
(* Specification                                                           *)

\* What the execution e does by itself, as long as it is alive.
ExecStep(e) ==
    \/ LoadAttempt(e) \/ RenewLease(e) \/ SignManifest(e)
    \/ ClaimNewBlob(e) \/ ClaimExpiredBlob(e) \/ ClaimReadyBlob(e) \/ ClaimRefused(e)
    \/ PutStaging(e) \/ LinkObject(e) \/ RemoveStaging(e)
    \/ MarkBlobReady(e) \/ StatReadyObject(e)
    \/ RecordPublishStorage(e) \/ ReadRecorded(e) \/ FinalizePublish(e)
    \/ RecordTransientFailure(e) \/ MarkPublishFailed(e)
    \/ ReachRetryLimit(e) \/ ProveOutputAbsent(e) \/ AbortPublishAttempt(e)

Disturbance(e) ==
    \/ Heartbeat(e) \/ HeartbeatLost(e)
    \/ TransientError(e) \/ ProofError(e) \/ KeyError(e) \/ Crash(e)

CleanerStep(b) ==
    \/ BlobAges(b) \/ ClaimOrphan(b) \/ DeleteObject(b)
    \/ PurgeRow(b) \/ ReconcileObject(b) \/ CleanStaging(b)

Next ==
    \/ \E x \in Artifacts : AddArtifact(x) \/ RemoveArtifact(x)
    \/ \E e \in Execs, a \in Attempts, k \in Keys \cup {None} : StartPublish(e, a, k)
    \/ \E k \in Keys : RejectPublish(k) \/ ForgetAnswer(k)
    \/ \E a \in Attempts : LeaseExpires(a) \/ RetryDue(a)
    \/ \E e \in Execs, a \in Attempts : TakeLease(e, a)
    \/ \E e \in Execs : ExecStep(e) \/ Disturbance(e)
    \/ \E b \in Outputs : BlobLeaseExpires(b) \/ CleanerStep(b)

\* A live execution goes on; the expiry of a lease is only time passing; the
\* worker runs RecoverPublishingOnce every few seconds, for every due attempt.
Fairness ==
    /\ \A e \in Execs : WF_vars(ExecStep(e))
    /\ \A a \in Attempts :
        /\ WF_vars(LeaseExpires(a) /\ pc[attempt[a].owner] = "idle")
        /\ WF_vars(RetryDue(a))
        /\ WF_vars(\E e \in Execs : TakeLease(e, a))

Spec == Init /\ [][Next]_vars
FairSpec == Spec /\ Fairness

-----------------------------------------------------------------------------
(* Properties                                                              *)

\* The release row and the attempts tell the same story: the release is
\* publishing exactly while its current attempt is active and no other is,
\* published exactly when the manifest row is that of its completed current
\* attempt, failed with its failed attempt, and a draft that can be edited or
\* published again otherwise.
ReleaseMatchesAttempt ==
    LET cur == release.current IN
    /\ \A a \in Attempts : attempt[a].state = "active" =>
           release.state = "publishing" /\ cur = a
    /\ release.state = "draft" => cur = None
    /\ release.state # "draft" => cur \in Attempts
    /\ release.state = "publishing" => attempt[cur].state = "active"
    /\ release.state = "published" => attempt[cur].state = "completed" /\ manifest = cur
    /\ release.state = "publish_failed" => attempt[cur].state = "failed"
    /\ manifest # None => release.state = "published"

\* A client that repeats its key is told to wait exactly while the attempt it
\* started is running: a pending record always has an active attempt that will
\* complete it, and the record of an active attempt is never completed early.
PendingIffActive ==
    \A k \in Keys :
        idem[k] = "pending" <=>
            \E a \in Attempts : attempt[a].state = "active" /\ attempt[a].key = k

\* Outputs that an attempt has recorded survive until it ends, however late it is
\* recovered, since finalizeRecovered only reads them, and for good if it is published,
\* for GetManifest to serve; and a row that is ready has its file, although both are
\* written by executions that may be stalled, superseded or cleaned up.
RecordedOutputsDurable ==
    /\ \A b \in Outputs : blob[b].state = "ready" => b \in object
    /\ \A a \in Attempts :
        \/ attempt[a].state = "active" /\ attempt[a].stored
        \/ attempt[a].state = "completed"
        => \A b \in OutputsOf(a) : blob[b].state = "ready"

\* While an execution that holds its attempt is about to promote a staging
\* file, nobody has removed the file: neither a superseded execution nor the
\* staging cleaner.
HolderFindsItsStaging ==
    \A e \in Execs : pc[e] = "link" /\ Holds(e) => Output(e) \in staging

\* An execution that has lost its lease changes nothing visible: an attempt's
\* outcome and its recorded outputs come from the execution that holds it.
Decided(a) == attempt[a].state = "active" /\ attempt'[a].state # "active"
NewlyStored(a) == ~attempt[a].stored /\ attempt'[a].stored
OnlyLeaseHolderDecides ==
    [][\A a \in Attempts : Decided(a) \/ NewlyStored(a) =>
          \E e \in Execs :
              /\ pc'[e] # pc[e]
              /\ job[e].attempt = a
              /\ attempt[a].owner = e
              /\ attempt[a].gen = job[e].gen]_vars

\* The inductive invariant behind the properties above: besides them, every
\* running execution works for an attempt, and a release that is not a draft
\* still has the content that was snapshotted when its attempt was created.
JobHasAttempt == \A e \in Execs : pc[e] # "idle" => job[e].attempt \in Attempts
ContentIsSnapshot ==
    release.state \in {"publishing", "published"} =>
        attempt[release.current].snapshot = content

\* What the outputs rest on: an attempt that is completed is the one of the manifest
\* row; who can still make a blob ready has linked its file; and the staging file of
\* an active attempt is there for the one execution that put it, until that removes it.
JobHasRow == \A e \in Execs : pc[e] # "idle" => attempt[job[e].attempt].state # "none"
CompletedHasManifest == \A a \in Attempts : attempt[a].state = "completed" => manifest = a
OwnerHasLinked ==
    \A e \in Execs : pc[e] \in {"unstage", "mark"} /\ OwnsBlob(e) => Output(e) \in object
StagingIsOwn ==
    \A e \in Execs :
        pc[e] \in {"link", "unstage"} /\ attempt[job[e].attempt].state = "active" =>
            /\ Output(e) \in staging
            /\ \A f \in Execs : pc[f] \in {"link", "unstage"} /\ Output(f) = Output(e) => f = e
OutputsAreKept ==
    /\ RecordedOutputsDurable
    /\ JobHasRow /\ CompletedHasManifest
    /\ OwnerHasLinked /\ StagingIsOwn

IInv ==
    /\ TypeOK
    /\ ReleaseMatchesAttempt
    /\ PendingIffActive
    /\ JobHasAttempt
    /\ ContentIsSnapshot
    /\ OutputsAreKept

\* A published release never changes: not its state, not its artifacts, not
\* its manifest, whatever executions are still running.
PublishedIsFinal ==
    [][release.state = "published" => UNCHANGED <<release, content, manifest>>]_vars

\* Seen from the clients, all of this is one of the lifecycle's indivisible
\* steps at a time: what is visible changes only when the release is published,
\* to exactly the content the draft had, and each key is answered once.
Lifecycle == INSTANCE PublishLifecycle WITH
    state <- release.state,
    content <- content,
    visible <- IF manifest = None THEN None ELSE attempt[manifest].snapshot,
    answer <- idem
ImplementsLifecycle == Lifecycle!Spec

\* A publish always comes to an end, whatever crashes, stalls and transient
\* failures it meets, because takeovers go on at the retry limit.
PublishingEnds == release.state = "publishing" ~> release.state # "publishing"

\* The design's promise that a transient failure keeps the release publishing
\* and is retried: an attempt fails for good only when its retries are used up.
TransientFailuresAreRetried ==
    \A a \in Attempts : attempt[a].state = "failed" => attempt[a].retry = MaxRetry

=============================================================================
