----------------------- MODULE PublishAttemptProofs -----------------------
(***************************************************************************)
(* Theorems about PublishAttempt for any artifacts, attempts, keys and     *)
(* executions, and any retry limit, proved from the inductive invariant    *)
(* IInv of that module.                                                    *)
(***************************************************************************)
EXTENDS PublishAttempt, TLAPS

-----------------------------------------------------------------------------
(* Values and executions                                                   *)

\* The enumerations, so that no other proof has to expand them.
LEMMA Enumerations ==
    /\ {"idle", "load", "renew", "sign", "claim", "put", "link", "unstage", "mark",
        "stat", "rerenew", "record", "read", "finalize", "failing", "prove",
        "abort"} \subseteq Labels
    /\ {"none", "active", "completed", "aborted", "failed"} \subseteq AttemptStates
    /\ {"none", "creating", "ready", "deleting", "deleted"} \subseteq BlobStates
    /\ {"draft", "publishing", "published", "publish_failed"} \subseteq ReleaseStates
    /\ {"none", "pending", "200", "500", "503", "rejected"} \subseteq Answers
    /\ Kinds = {"manifest", "signature"}
BY DEF Labels, AttemptStates, BlobStates, ReleaseStates, Answers, Kinds

\* The rows and jobs that definitions name are well typed.
LEMMA Defaults == NoAttempt \in AttemptRow /\ NoBlob \in BlobRow /\ NoJob \in Job
BY Enumerations, MaxRetryAssumption
   DEF NoAttempt, NoBlob, NoJob, AttemptRow, BlobRow, Job

\* The four ways an execution goes on keep its label and its job well typed.
LEMMA GotoTyped ==
    ASSUME ExecTypeOK, NEW e \in Execs, NEW label \in Labels, Goto(e, label)
    PROVE  ExecTypeOK'
BY DEF ExecTypeOK, Goto

LEMMA LeaveTyped ==
    ASSUME ExecTypeOK, NEW e \in Execs, Leave(e)
    PROVE  ExecTypeOK'
BY Enumerations, Defaults DEF ExecTypeOK, Leave

LEMMA FailTyped ==
    ASSUME ExecTypeOK, NEW e \in Execs, NEW cause \in {"transient", "permanent"},
           Fail(e, cause)
    PROVE  ExecTypeOK'
<1>1. [job[e] EXCEPT !.cause = cause] \in Job
  BY DEF ExecTypeOK, Job
<1> QED
  BY <1>1, Enumerations DEF ExecTypeOK, Fail

LEMMA OutputStoredTyped ==
    ASSUME ExecTypeOK, NEW e \in Execs, OutputStored(e)
    PROVE  ExecTypeOK'
<1>1. [job[e] EXCEPT !.kind = "signature"] \in Job
  BY Enumerations DEF ExecTypeOK, Job
<1> QED
  BY <1>1, Enumerations, GotoTyped DEF ExecTypeOK, OutputStored

\* What a running execution is about to store is one of the outputs.
LEMMA OutputTyped ==
    ASSUME TypeOK, JobHasAttempt, NEW e \in Execs, pc[e] # "idle"
    PROVE  job[e].attempt \in Attempts /\ Output(e) \in Outputs
BY DEF JobHasAttempt, TypeOK, ExecTypeOK, Job, Output, Outputs

\* Updates of one attempt row.
LEMMA AttemptUpdates ==
    ASSUME DatabaseTypeOK, NEW a \in Attempts
    PROVE  /\ [attempt EXCEPT ![a].leased = FALSE] \in [Attempts -> AttemptRow]
           /\ [attempt EXCEPT ![a].leased = TRUE] \in [Attempts -> AttemptRow]
           /\ [attempt EXCEPT ![a].due = TRUE] \in [Attempts -> AttemptRow]
           /\ [attempt EXCEPT ![a].due = FALSE] \in [Attempts -> AttemptRow]
           /\ [attempt EXCEPT ![a].stored = TRUE] \in [Attempts -> AttemptRow]
           /\ \A s \in AttemptStates : [attempt EXCEPT ![a].state = s] \in [Attempts -> AttemptRow]
<1>1. /\ [attempt EXCEPT ![a].leased = FALSE] \in [Attempts -> AttemptRow]
      /\ [attempt EXCEPT ![a].leased = TRUE] \in [Attempts -> AttemptRow]
  BY DEF DatabaseTypeOK, AttemptRow
<1>2. /\ [attempt EXCEPT ![a].due = TRUE] \in [Attempts -> AttemptRow]
      /\ [attempt EXCEPT ![a].due = FALSE] \in [Attempts -> AttemptRow]
  BY DEF DatabaseTypeOK, AttemptRow
<1>3. [attempt EXCEPT ![a].stored = TRUE] \in [Attempts -> AttemptRow]
  BY DEF DatabaseTypeOK, AttemptRow
<1>4. \A s \in AttemptStates : [attempt EXCEPT ![a].state = s] \in [Attempts -> AttemptRow]
  BY DEF DatabaseTypeOK, AttemptRow
<1> QED
  BY <1>1, <1>2, <1>3, <1>4

-----------------------------------------------------------------------------
(* Type correctness is preserved                                           *)

\* Requests and the draft.
LEMMA RequestsTyped ==
    ASSUME TypeOK,
           \/ \E x \in Artifacts : AddArtifact(x) \/ RemoveArtifact(x)
           \/ \E e \in Execs, a \in Attempts, k \in Keys \cup {None} : StartPublish(e, a, k)
           \/ \E k \in Keys : RejectPublish(k) \/ ForgetAnswer(k)
    PROVE  TypeOK'
<1>1. ASSUME NEW x \in Artifacts, AddArtifact(x) \/ RemoveArtifact(x)
      PROVE  TypeOK'
  BY <1>1 DEF AddArtifact, RemoveArtifact, TypeOK, DatabaseTypeOK, StorageTypeOK, ExecTypeOK,
              storageVars, execVars
<1>2. ASSUME NEW e \in Execs, NEW a \in Attempts, NEW k \in Keys \cup {None},
             StartPublish(e, a, k)
      PROVE  TypeOK'
  <2>1. attempt' \in [Attempts -> AttemptRow]
    BY <1>2, Enumerations, Defaults DEF StartPublish, TypeOK, DatabaseTypeOK, AttemptRow
  <2>2. ExecTypeOK'
    BY <1>2, Enumerations, Defaults DEF StartPublish, TypeOK, ExecTypeOK, Job
  <2>3. release' \in [state: ReleaseStates, current: Attempts \cup {None}]
        /\ idem' \in [Keys -> Answers]
    BY <1>2, Enumerations DEF StartPublish, TypeOK, DatabaseTypeOK
  <2> QED
    BY <1>2, <2>1, <2>2, <2>3
       DEF StartPublish, TypeOK, DatabaseTypeOK, StorageTypeOK, storageVars
<1>3. ASSUME NEW k \in Keys, RejectPublish(k) PROVE TypeOK'
  BY <1>3, Enumerations DEF RejectPublish, TypeOK, DatabaseTypeOK, StorageTypeOK, ExecTypeOK,
              storageVars, execVars
<1>4. ASSUME NEW k \in Keys, ForgetAnswer(k) PROVE TypeOK'
  <2>1. attempt' \in [Attempts -> AttemptRow]
    BY <1>4 DEF ForgetAnswer, TypeOK, DatabaseTypeOK, AttemptRow
  <2> QED
    BY <1>4, <2>1, Enumerations DEF ForgetAnswer, TypeOK, DatabaseTypeOK, StorageTypeOK,
              ExecTypeOK, storageVars, execVars
<1> QED
  BY <1>1, <1>2, <1>3, <1>4

\* Leases: expiry, retry, renewal, takeover.
LEMMA LeasesTyped ==
    ASSUME TypeOK, JobHasAttempt,
           \/ \E a \in Attempts : LeaseExpires(a) \/ RetryDue(a)
           \/ \E e \in Execs, a \in Attempts : TakeLease(e, a)
           \/ \E e \in Execs : Heartbeat(e) \/ HeartbeatLost(e) \/ LoadAttempt(e) \/ RenewLease(e)
    PROVE  TypeOK'
<1> USE DEF TypeOK
<1>1. ASSUME NEW a \in Attempts, LeaseExpires(a) PROVE TypeOK'
  <2>1. attempt' \in [Attempts -> AttemptRow]
    BY <1>1, AttemptUpdates DEF LeaseExpires
  <2>2. faults' \in Nat
    BY <1>1 DEF LeaseExpires
  <2> QED
    BY <1>1, <2>1, <2>2
       DEF LeaseExpires, DatabaseTypeOK, StorageTypeOK, ExecTypeOK, storageVars, execVars
<1>7. ASSUME NEW a \in Attempts, RetryDue(a) PROVE TypeOK'
  <2>1. attempt' \in [Attempts -> AttemptRow]
    BY <1>7, AttemptUpdates DEF RetryDue
  <2> QED
    BY <1>7, <2>1
       DEF RetryDue, DatabaseTypeOK, StorageTypeOK, ExecTypeOK, storageVars, execVars
<1>2. ASSUME NEW e \in Execs, NEW a \in Attempts, TakeLease(e, a) PROVE TypeOK'
  <2>1. attempt[a] \in AttemptRow
    BY DEF DatabaseTypeOK
  <2>2. NextRetry(a) \in 0..MaxRetry /\ attempt[a].gen + 1 \in Nat
    BY <2>1, MaxRetryAssumption DEF NextRetry, AttemptRow
  <2>3. attempt' \in [Attempts -> AttemptRow]
    <3>1. [attempt[a] EXCEPT !.owner = e, !.gen = attempt[a].gen + 1, !.leased = TRUE,
                             !.retry = NextRetry(a)] \in AttemptRow
      BY <2>1, <2>2 DEF AttemptRow
    <3>2. attempt' = [attempt EXCEPT ![a] =
              [attempt[a] EXCEPT !.owner = e, !.gen = attempt[a].gen + 1, !.leased = TRUE,
                                 !.retry = NextRetry(a)]]
      BY <1>2 DEF TakeLease, DatabaseTypeOK
    <3> QED
      BY <3>1, <3>2 DEF DatabaseTypeOK
  <2>4. \A n \in Nat : [NoJob EXCEPT !.attempt = a, !.gen = n, !.recovering = TRUE] \in Job
    BY Defaults DEF Job
  <2>5. ExecTypeOK'
    BY <1>2, <2>2, <2>4, Enumerations DEF TakeLease, ExecTypeOK
  <2> QED
    BY <1>2, <2>3, <2>5 DEF TakeLease, DatabaseTypeOK, StorageTypeOK, storageVars
<1>3. ASSUME NEW e \in Execs, Heartbeat(e) PROVE TypeOK'
  <2>1. job[e].attempt \in Attempts
    BY <1>3, OutputTyped DEF Heartbeat, HeartbeatLabels
  <2> QED
    BY <1>3, <2>1, AttemptUpdates
       DEF Heartbeat, DatabaseTypeOK, StorageTypeOK, ExecTypeOK, storageVars, execVars
<1>4. ASSUME NEW e \in Execs, HeartbeatLost(e) PROVE TypeOK'
  BY <1>4, LeaveTyped DEF HeartbeatLost, DatabaseTypeOK, StorageTypeOK, databaseVars, storageVars
<1>5. ASSUME NEW e \in Execs, LoadAttempt(e) PROVE TypeOK'
  <2>1. job[e].attempt \in Attempts
    BY <1>5, OutputTyped DEF LoadAttempt
  <2>2. [job[e] EXCEPT !.retry = attempt[job[e].attempt].retry] \in Job
    BY <2>1 DEF DatabaseTypeOK, ExecTypeOK, AttemptRow, Job
  <2>3. ExecTypeOK'
    BY <1>5, <2>2, LeaveTyped, Enumerations DEF LoadAttempt, ExecTypeOK
  <2> QED
    BY <1>5, <2>3 DEF LoadAttempt, DatabaseTypeOK, StorageTypeOK, databaseVars, storageVars
<1>6. ASSUME NEW e \in Execs, RenewLease(e) PROVE TypeOK'
  <2>1. job[e].attempt \in Attempts
    BY <1>6, OutputTyped DEF RenewLease
  <2>2. ExecTypeOK'
    <3>1. CASE Holds(e)
      BY <1>6, <3>1, GotoTyped, Enumerations DEF RenewLease
    <3>2. CASE ~Holds(e)
      BY <1>6, <3>2, LeaveTyped DEF RenewLease
    <3> QED
      BY <3>1, <3>2
  <2>3. attempt' \in [Attempts -> AttemptRow]
    <3>1. CASE Holds(e)
      <4>1. attempt' = [attempt EXCEPT ![job[e].attempt].leased = TRUE]
        BY <1>6, <3>1 DEF RenewLease
      <4> QED
        BY <2>1, <4>1, AttemptUpdates
    <3>2. CASE ~Holds(e)
      BY <1>6, <3>2 DEF RenewLease, DatabaseTypeOK
    <3> QED
      BY <3>1, <3>2
  <2> QED
    BY <1>6, <2>2, <2>3 DEF RenewLease, DatabaseTypeOK, StorageTypeOK, storageVars
<1> QED
  BY <1>1, <1>2, <1>3, <1>4, <1>5, <1>6, <1>7

\* Storing the outputs.
LEMMA OutputsTyped ==
    ASSUME TypeOK, JobHasAttempt, NEW e \in Execs,
           \/ SignManifest(e) \/ ClaimNewBlob(e) \/ ClaimExpiredBlob(e)
           \/ ClaimReadyBlob(e) \/ ClaimRefused(e) \/ PutStaging(e) \/ LinkObject(e)
           \/ RemoveStaging(e) \/ MarkBlobReady(e) \/ StatReadyObject(e)
    PROVE  TypeOK'
<1> USE DEF TypeOK
<1>1. ASSUME SignManifest(e) \/ ClaimReadyBlob(e) \/ ClaimRefused(e) \/ StatReadyObject(e)
      PROVE  TypeOK'
  <2>1. /\ \A label \in Labels : Goto(e, label) => ExecTypeOK'
        /\ Fail(e, "transient") \/ Fail(e, "permanent") => ExecTypeOK'
        /\ OutputStored(e) => ExecTypeOK'
    BY GotoTyped, FailTyped, OutputStoredTyped
  <2>2. ExecTypeOK'
    BY <1>1, <2>1, Enumerations DEF SignManifest, ClaimReadyBlob, ClaimRefused, StatReadyObject
  <2> QED
    BY <1>1, <2>2 DEF SignManifest, ClaimReadyBlob, ClaimRefused, StatReadyObject,
                      DatabaseTypeOK, StorageTypeOK, databaseVars, storageVars
<1>2. ASSUME ClaimNewBlob(e) \/ ClaimExpiredBlob(e) PROVE TypeOK'
  <2>1. Output(e) \in Outputs
    BY <1>2, OutputTyped DEF ClaimNewBlob, ClaimExpiredBlob
  <2>2. [NoBlob EXCEPT !.state = "creating", !.owner = e, !.leased = TRUE] \in BlobRow
    BY Defaults, Enumerations DEF BlobRow
  <2>3. blob' \in [Outputs -> BlobRow]
    <3>1. CASE ClaimNewBlob(e)
      BY <3>1, <2>1, <2>2 DEF ClaimNewBlob, StorageTypeOK
    <3>2. CASE ClaimExpiredBlob(e)
      BY <3>2, <2>1 DEF ClaimExpiredBlob, StorageTypeOK, BlobRow
    <3> QED
      BY <1>2, <3>1, <3>2
  <2>4. \A n \in Nat : [job[e] EXCEPT !.bgen = n] \in Job
    BY DEF ExecTypeOK, Job
  <2>5. blob[Output(e)].gen + 1 \in Nat
    BY <2>1 DEF StorageTypeOK, BlobRow
  <2>6. ExecTypeOK'
    BY <1>2, <2>4, <2>5, Enumerations DEF ClaimNewBlob, ClaimExpiredBlob, ExecTypeOK
  <2> QED
    BY <1>2, <2>3, <2>6 DEF ClaimNewBlob, ClaimExpiredBlob, DatabaseTypeOK, StorageTypeOK,
                            databaseVars
<1>3. ASSUME PutStaging(e) \/ LinkObject(e) \/ RemoveStaging(e) PROVE TypeOK'
  <2>1. Output(e) \in Outputs
    BY <1>3, OutputTyped DEF PutStaging, LinkObject, RemoveStaging
  <2>2. ExecTypeOK'
    BY <1>3, GotoTyped, FailTyped, Enumerations DEF PutStaging, LinkObject, RemoveStaging
  <2> QED
    BY <1>3, <2>1, <2>2 DEF PutStaging, LinkObject, RemoveStaging, DatabaseTypeOK,
                            StorageTypeOK, databaseVars
<1>4. ASSUME MarkBlobReady(e) PROVE TypeOK'
  <2>1. Output(e) \in Outputs
    BY <1>4, OutputTyped DEF MarkBlobReady
  <2>2. [blob EXCEPT ![Output(e)].state = "ready", ![Output(e)].owner = None,
                     ![Output(e)].leased = FALSE] \in [Outputs -> BlobRow]
    BY <2>1, Enumerations DEF StorageTypeOK, BlobRow
  <2>3. ExecTypeOK'
    BY <1>4, OutputStoredTyped, FailTyped DEF MarkBlobReady
  <2> QED
    BY <1>4, <2>2, <2>3 DEF MarkBlobReady, DatabaseTypeOK, StorageTypeOK, databaseVars
<1> QED
  BY <1>1, <1>2, <1>3, <1>4

\* Recording and finalizing.
LEMMA DecisionsTyped ==
    ASSUME TypeOK, JobHasAttempt, NEW e \in Execs,
           RecordPublishStorage(e) \/ ReadRecorded(e) \/ FinalizePublish(e)
    PROVE  TypeOK'
<1> USE DEF TypeOK
<1> DEFINE a == job[e].attempt
<1>1. a \in Attempts
  BY OutputTyped DEF RecordPublishStorage, ReadRecorded, FinalizePublish
<1>2. ExecTypeOK'
  <2>1. /\ \A label \in Labels : Goto(e, label) => ExecTypeOK'
        /\ Fail(e, "transient") \/ Fail(e, "permanent") => ExecTypeOK'
        /\ Leave(e) => ExecTypeOK'
    BY GotoTyped, FailTyped, LeaveTyped
  <2> QED
    BY <2>1, Enumerations DEF RecordPublishStorage, ReadRecorded, FinalizePublish
<1>3. Touched(a) \in [Outputs -> BlobRow]
  BY DEF Touched, StorageTypeOK, BlobRow
<1>4. ASSUME RecordPublishStorage(e) PROVE TypeOK'
  <2>1. attempt' \in [Attempts -> AttemptRow]
    <3>1. \/ attempt' = [attempt EXCEPT ![a].stored = TRUE]
          \/ attempt' = attempt
      BY <1>4 DEF RecordPublishStorage
    <3>2. [attempt EXCEPT ![a].stored = TRUE] \in [Attempts -> AttemptRow]
      BY <1>1, AttemptUpdates
    <3> QED
      BY <3>1, <3>2 DEF DatabaseTypeOK
  <2>2. blob' \in [Outputs -> BlobRow]
    BY <1>3, <1>4 DEF RecordPublishStorage, StorageTypeOK
  <2> QED
    BY <1>2, <1>4, <2>1, <2>2 DEF RecordPublishStorage, DatabaseTypeOK, StorageTypeOK
<1>5. ASSUME ReadRecorded(e) PROVE TypeOK'
  BY <1>2, <1>5 DEF ReadRecorded, DatabaseTypeOK, StorageTypeOK, databaseVars, storageVars
<1>6. ASSUME FinalizePublish(e) PROVE TypeOK'
  <2>1. \/ /\ attempt' = [attempt EXCEPT ![a].state = "completed"]
           /\ release' = [release EXCEPT !.state = "published"]
           /\ manifest' = a
           /\ idem' = Answered(a, "200")
           /\ blob' = Touched(a)
        \/ UNCHANGED <<attempt, release, manifest, idem, blob>>
    BY <1>6 DEF FinalizePublish
  <2>2. [attempt EXCEPT ![a].state = "completed"] \in [Attempts -> AttemptRow]
    BY <1>1, AttemptUpdates, Enumerations
  <2>3. /\ [release EXCEPT !.state = "published"]
              \in [state: ReleaseStates, current: Attempts \cup {None}]
        /\ Answered(a, "200") \in [Keys -> Answers]
    BY Enumerations DEF DatabaseTypeOK, Answered
  <2> QED
    BY <1>1, <1>2, <1>3, <1>6, <2>1, <2>2, <2>3
       DEF FinalizePublish, DatabaseTypeOK, StorageTypeOK
<1> QED
  BY <1>4, <1>5, <1>6

\* Failures and aborts.
LEMMA FailuresTyped ==
    ASSUME TypeOK, JobHasAttempt, NEW e \in Execs,
           \/ RecordTransientFailure(e) \/ MarkPublishFailed(e) \/ ReachRetryLimit(e)
           \/ ProveOutputAbsent(e) \/ AbortPublishAttempt(e)
    PROVE  TypeOK'
<1> USE DEF TypeOK
<1> DEFINE a == job[e].attempt
<1>1. a \in Attempts
  BY OutputTyped DEF RecordTransientFailure, MarkPublishFailed, ReachRetryLimit,
                     ProveOutputAbsent, AbortPublishAttempt
<1>2. \A kind \in Kinds : [job[e] EXCEPT !.kind = kind] \in Job
  BY DEF ExecTypeOK, Job
<1>3. ExecTypeOK'
  <2>1. /\ \A label \in Labels : Goto(e, label) => ExecTypeOK'
        /\ Fail(e, "transient") \/ Fail(e, "permanent") => ExecTypeOK'
        /\ Leave(e) => ExecTypeOK'
    BY GotoTyped, FailTyped, LeaveTyped
  <2>2. CASE RecordTransientFailure(e) \/ MarkPublishFailed(e) \/ AbortPublishAttempt(e)
    BY <2>1, <2>2 DEF RecordTransientFailure, MarkPublishFailed, AbortPublishAttempt
  <2>3. CASE ReachRetryLimit(e) \/ ProveOutputAbsent(e)
    BY <1>2, <2>1, <2>3, Enumerations DEF ReachRetryLimit, ProveOutputAbsent, ExecTypeOK
  <2> QED
    BY <2>2, <2>3
<1>4. ASSUME RecordTransientFailure(e) PROVE TypeOK'
  <2>1. attempt' = [attempt EXCEPT ![a].due = FALSE] \/ attempt' = attempt
    BY <1>4 DEF RecordTransientFailure
  <2>2. [attempt EXCEPT ![a].due = FALSE] \in [Attempts -> AttemptRow]
    BY <1>1, AttemptUpdates
  <2> QED
    BY <1>3, <1>4, <2>1, <2>2 DEF RecordTransientFailure, DatabaseTypeOK, StorageTypeOK, storageVars
<1>5. ASSUME MarkPublishFailed(e) \/ AbortPublishAttempt(e) PROVE TypeOK'
  <2>1. \/ \E s \in {"failed", "aborted"} : attempt' = [attempt EXCEPT ![a].state = s]
        \/ attempt' = attempt
    BY <1>5 DEF MarkPublishFailed, AbortPublishAttempt
  <2>2. \A s \in {"failed", "aborted"} :
            [attempt EXCEPT ![a].state = s] \in [Attempts -> AttemptRow]
    BY <1>1, AttemptUpdates, Enumerations
  <2>3. attempt' \in [Attempts -> AttemptRow]
    BY <2>1, <2>2 DEF DatabaseTypeOK
  <2>4. /\ release' \in [state: ReleaseStates, current: Attempts \cup {None}]
        /\ idem' \in [Keys -> Answers]
    BY <1>5, Enumerations DEF MarkPublishFailed, AbortPublishAttempt, DatabaseTypeOK, Answered
  <2> QED
    BY <1>3, <1>5, <2>3, <2>4
       DEF MarkPublishFailed, AbortPublishAttempt, DatabaseTypeOK, StorageTypeOK, storageVars
<1>6. ASSUME ReachRetryLimit(e) \/ ProveOutputAbsent(e) PROVE TypeOK'
  BY <1>3, <1>6 DEF ReachRetryLimit, ProveOutputAbsent, DatabaseTypeOK, StorageTypeOK,
                    databaseVars, storageVars
<1> QED
  BY <1>4, <1>5, <1>6

\* Errors, crashes, blob leases and the cleaner.
LEMMA EnvironmentTyped ==
    ASSUME TypeOK,
           \/ \E e \in Execs : TransientError(e) \/ ProofError(e) \/ KeyError(e) \/ Crash(e)
           \/ \E b \in Outputs : BlobLeaseExpires(b) \/ CleanerStep(b)
    PROVE  TypeOK'
<1> USE DEF TypeOK
<1>1. ASSUME NEW e \in Execs, TransientError(e) \/ ProofError(e) \/ KeyError(e) PROVE TypeOK'
  <2>1. ExecTypeOK'
    BY <1>1, FailTyped DEF TransientError, ProofError, KeyError
  <2> QED
    BY <1>1, <2>1 DEF TransientError, ProofError, KeyError, DatabaseTypeOK, StorageTypeOK,
                      databaseVars, storageVars
<1>2. ASSUME NEW e \in Execs, Crash(e) PROVE TypeOK'
  BY <1>2, LeaveTyped DEF Crash, DatabaseTypeOK, StorageTypeOK, databaseVars, storageVars
<1>3. ASSUME NEW b \in Outputs, BlobLeaseExpires(b) \/ CleanerStep(b) PROVE TypeOK'
  <2>1. /\ \A s \in BlobStates : [blob EXCEPT ![b].state = s] \in [Outputs -> BlobRow]
        /\ [blob EXCEPT ![b].leased = FALSE] \in [Outputs -> BlobRow]
        /\ [blob EXCEPT ![b].old = TRUE] \in [Outputs -> BlobRow]
        /\ [blob EXCEPT ![b] = NoBlob] \in [Outputs -> BlobRow]
    <3>1. \A s \in BlobStates : [blob[b] EXCEPT !.state = s] \in BlobRow
      BY DEF StorageTypeOK, BlobRow
    <3>2. [blob[b] EXCEPT !.leased = FALSE] \in BlobRow
      BY DEF StorageTypeOK, BlobRow
    <3>3. [blob[b] EXCEPT !.old = TRUE] \in BlobRow
      BY DEF StorageTypeOK, BlobRow
    <3> QED
      BY <3>1, <3>2, <3>3, Defaults DEF StorageTypeOK
  <2>2. ClaimOrphan(b) => blob' \in [Outputs -> BlobRow]
    <3>1. blob[b] \in BlobRow /\ blob[b].gen + 1 \in Nat
      BY DEF StorageTypeOK, BlobRow
    <3>2. [blob[b] EXCEPT !.state = "deleting", !.owner = None, !.gen = blob[b].gen + 1,
                          !.leased = FALSE] \in BlobRow
      BY <3>1, Enumerations DEF BlobRow
    <3>3. ClaimOrphan(b) => blob' = [blob EXCEPT ![b] =
              [blob[b] EXCEPT !.state = "deleting", !.owner = None, !.gen = blob[b].gen + 1,
                              !.leased = FALSE]]
      BY DEF ClaimOrphan, StorageTypeOK
    <3> QED
      BY <3>2, <3>3 DEF StorageTypeOK
  <2>3. blob' \in [Outputs -> BlobRow]
    <3>1. ClaimOrphan(b) \/ blob' = blob \/ blob' = [blob EXCEPT ![b] = NoBlob]
          \/ blob' = [blob EXCEPT ![b].leased = FALSE] \/ blob' = [blob EXCEPT ![b].old = TRUE]
          \/ \E s \in BlobStates : blob' = [blob EXCEPT ![b].state = s]
      BY <1>3, Enumerations
         DEF BlobLeaseExpires, CleanerStep, BlobAges, DeleteObject, PurgeRow, ReconcileObject,
             CleanStaging
    <3> QED
      BY <2>1, <2>2, <3>1 DEF StorageTypeOK
  <2>4. object' \in SUBSET Outputs /\ staging' \in SUBSET Outputs
    BY <1>3 DEF BlobLeaseExpires, CleanerStep, BlobAges, ClaimOrphan, DeleteObject, PurgeRow,
           ReconcileObject, CleanStaging, StorageTypeOK
  <2> QED
    BY <1>3, <2>3, <2>4
       DEF BlobLeaseExpires, CleanerStep, BlobAges, ClaimOrphan, DeleteObject, PurgeRow,
           ReconcileObject, CleanStaging, StorageTypeOK, DatabaseTypeOK, ExecTypeOK,
           databaseVars, execVars
<1> QED
  BY <1>1, <1>2, <1>3

LEMMA NextTyped == TypeOK /\ JobHasAttempt /\ Next => TypeOK'
BY RequestsTyped, LeasesTyped, OutputsTyped, DecisionsTyped, FailuresTyped, EnvironmentTyped
   DEF Next, ExecStep, Disturbance

-----------------------------------------------------------------------------
(* Running executions keep their attempt                                   *)

\* An execution that is running stays with its attempt until it leaves.
Advances(e) ==
    /\ pc[e] # "idle"
    /\ \/ Leave(e)
       \/ /\ \A f \in Execs : job'[f].attempt = job[f].attempt
          /\ \A f \in Execs : f # e => pc'[f] = pc[f]

LEMMA AdvancesKeepsAttempt ==
    ASSUME TypeOK, JobHasAttempt, NEW e \in Execs, Advances(e)
    PROVE  JobHasAttempt'
BY DEF TypeOK, ExecTypeOK, JobHasAttempt, Advances, Leave

LEMMA StepsAdvance ==
    ASSUME TypeOK, NEW e \in Execs,
           \/ ExecStep(e) \/ HeartbeatLost(e)
           \/ TransientError(e) \/ ProofError(e) \/ KeyError(e) \/ Crash(e)
    PROVE  Advances(e)
<1> USE DEF TypeOK, ExecTypeOK
<1>1. ASSUME pc[e] # "idle", NEW label, Goto(e, label) PROVE Advances(e)
  BY <1>1 DEF Advances, Goto
<1>2. ASSUME pc[e] # "idle", NEW cause, Fail(e, cause) PROVE Advances(e)
  BY <1>2 DEF Advances, Fail, Job
<1>3. ASSUME pc[e] # "idle", OutputStored(e) PROVE Advances(e)
  BY <1>1, <1>3 DEF Advances, OutputStored, Job
<1>4. ASSUME pc[e] # "idle", Leave(e) PROVE Advances(e)
  BY <1>4 DEF Advances
<1>5. CASE SignManifest(e) \/ ClaimReadyBlob(e) \/ ClaimRefused(e) \/ PutStaging(e)
           \/ LinkObject(e) \/ RemoveStaging(e) \/ MarkBlobReady(e) \/ StatReadyObject(e)
  BY <1>1, <1>2, <1>3, <1>5 DEF SignManifest, ClaimReadyBlob, ClaimRefused, PutStaging,
         LinkObject, RemoveStaging, MarkBlobReady, StatReadyObject
<1>6. CASE ClaimNewBlob(e) \/ ClaimExpiredBlob(e)
  BY <1>6 DEF ClaimNewBlob, ClaimExpiredBlob, Advances, Job
<1>7. CASE LoadAttempt(e) \/ RenewLease(e)
  <2>1. CASE LoadAttempt(e) /\ Holds(e)
    BY <2>1 DEF LoadAttempt, Advances, Job
  <2>2. CASE ~(LoadAttempt(e) /\ Holds(e))
    BY <1>1, <1>4, <1>7, <2>2 DEF LoadAttempt, RenewLease
  <2> QED
    BY <2>1, <2>2
<1>8. CASE RecordPublishStorage(e) \/ ReadRecorded(e) \/ FinalizePublish(e)
  BY <1>1, <1>2, <1>4, <1>8 DEF RecordPublishStorage, ReadRecorded, FinalizePublish
<1>9. CASE ReachRetryLimit(e)
  BY <1>9 DEF ReachRetryLimit, Advances, Job
<1>10. CASE ProveOutputAbsent(e)
  <2>1. CASE Output(e) \notin object /\ job[e].kind = "manifest"
    BY <1>10, <2>1 DEF ProveOutputAbsent, Advances, Job
  <2>2. CASE ~(Output(e) \notin object /\ job[e].kind = "manifest")
    BY <1>1, <1>2, <1>10, <2>2 DEF ProveOutputAbsent
  <2> QED
    BY <2>1, <2>2
<1>11. CASE \/ RecordTransientFailure(e) \/ MarkPublishFailed(e) \/ AbortPublishAttempt(e)
            \/ HeartbeatLost(e) \/ Crash(e)
  BY <1>4, <1>11 DEF RecordTransientFailure, MarkPublishFailed, AbortPublishAttempt,
         HeartbeatLost, HeartbeatLabels, Crash
<1>12. CASE TransientError(e) \/ ProofError(e) \/ KeyError(e)
  BY <1>2, <1>12 DEF TransientError, ProofError, KeyError
<1> QED
  BY <1>5, <1>6, <1>7, <1>8, <1>9, <1>10, <1>11, <1>12 DEF ExecStep

LEMMA NextKeepsAttempt == TypeOK /\ JobHasAttempt /\ Next => JobHasAttempt'
<1> SUFFICES ASSUME TypeOK, JobHasAttempt, Next PROVE JobHasAttempt'
  OBVIOUS
<1>1. ASSUME NEW e \in Execs, NEW a \in Attempts, TakeLease(e, a)
      PROVE  JobHasAttempt'
  BY <1>1 DEF TakeLease, JobHasAttempt, TypeOK, ExecTypeOK, NoJob
<1>9. ASSUME NEW e \in Execs, NEW a \in Attempts, NEW k \in Keys \cup {None},
             StartPublish(e, a, k)
      PROVE  JobHasAttempt'
  BY <1>9 DEF StartPublish, JobHasAttempt, TypeOK, ExecTypeOK, NoJob
<1>2. ASSUME UNCHANGED <<pc, job>> PROVE JobHasAttempt'
  BY <1>2 DEF JobHasAttempt
<1>3. ASSUME NEW x \in Artifacts, AddArtifact(x) \/ RemoveArtifact(x) PROVE JobHasAttempt'
  BY <1>2, <1>3 DEF AddArtifact, RemoveArtifact, execVars
<1>4. ASSUME NEW k \in Keys, RejectPublish(k) \/ ForgetAnswer(k) PROVE JobHasAttempt'
  BY <1>2, <1>4 DEF RejectPublish, ForgetAnswer, execVars
<1>5. ASSUME NEW a \in Attempts, LeaseExpires(a) \/ RetryDue(a) PROVE JobHasAttempt'
  BY <1>2, <1>5 DEF LeaseExpires, RetryDue, execVars
<1>6. ASSUME NEW e \in Execs, Heartbeat(e) PROVE JobHasAttempt'
  BY <1>2, <1>6 DEF Heartbeat, execVars
<1>7. ASSUME NEW b \in Outputs, BlobLeaseExpires(b) \/ CleanerStep(b) PROVE JobHasAttempt'
  BY <1>2, <1>7 DEF BlobLeaseExpires, CleanerStep, BlobAges, ClaimOrphan, DeleteObject,
                    PurgeRow, ReconcileObject, CleanStaging, execVars
<1>8. ASSUME NEW e \in Execs,
             \/ ExecStep(e) \/ HeartbeatLost(e)
             \/ TransientError(e) \/ ProofError(e) \/ KeyError(e) \/ Crash(e)
      PROVE  JobHasAttempt'
  <2>1. Advances(e)
    BY <1>8, StepsAdvance
  <2> QED
    BY <2>1, AdvancesKeepsAttempt
<1> QED
  BY <1>1, <1>3, <1>4, <1>5, <1>6, <1>7, <1>8, <1>9 DEF Next, Disturbance

-----------------------------------------------------------------------------
(* The release, its attempts, its content and the answers                  *)

\* The part of the invariant that speaks of the database alone.
Consistent ==
    /\ ReleaseMatchesAttempt
    /\ PendingIffActive
    /\ ContentIsSnapshot

\* What clients can tell apart: a step that keeps it decides nothing.
Undecided ==
    /\ UNCHANGED <<release, content, idem, manifest>>
    /\ \A a \in Attempts : /\ attempt'[a].state = attempt[a].state
                            /\ attempt'[a].key = attempt[a].key
                            /\ attempt'[a].snapshot = attempt[a].snapshot

LEMMA UndecidedKeepsConsistent ==
    ASSUME TypeOK, Consistent, Undecided
    PROVE  Consistent'
<1>1. release.current \in Attempts \cup {None}
  BY DEF TypeOK, DatabaseTypeOK
<1>2. ReleaseMatchesAttempt'
  BY <1>1 DEF Consistent, Undecided, ReleaseMatchesAttempt
<1>3. PendingIffActive'
  BY DEF Consistent, Undecided, PendingIffActive
<1>4. ContentIsSnapshot'
  BY <1>1 DEF Consistent, Undecided, ContentIsSnapshot, ReleaseMatchesAttempt
<1> QED
  BY <1>2, <1>3, <1>4 DEF Consistent

\* The steps that decide something; every other step decides nothing.
Deciding(e) == FinalizePublish(e) \/ MarkPublishFailed(e) \/ AbortPublishAttempt(e)

LEMMA ExecutionsUndecided ==
    ASSUME TypeOK, NEW e \in Execs, ExecStep(e) \/ Disturbance(e), ~Deciding(e)
    PROVE  Undecided
<1>1. ASSUME UNCHANGED databaseVars PROVE Undecided
  BY <1>1 DEF Undecided, databaseVars
<1>2. CASE \/ LoadAttempt(e) \/ SignManifest(e) \/ ClaimNewBlob(e) \/ ClaimExpiredBlob(e)
           \/ ClaimReadyBlob(e) \/ ClaimRefused(e) \/ PutStaging(e) \/ LinkObject(e)
           \/ RemoveStaging(e) \/ MarkBlobReady(e) \/ StatReadyObject(e) \/ ReadRecorded(e)
           \/ ReachRetryLimit(e) \/ ProveOutputAbsent(e) \/ HeartbeatLost(e)
           \/ TransientError(e) \/ ProofError(e) \/ KeyError(e) \/ Crash(e)
  BY <1>1, <1>2 DEF LoadAttempt, SignManifest, ClaimNewBlob, ClaimExpiredBlob, ClaimReadyBlob,
       ClaimRefused, PutStaging, LinkObject, RemoveStaging, MarkBlobReady, StatReadyObject,
       ReadRecorded, ReachRetryLimit, ProveOutputAbsent, HeartbeatLost, TransientError,
       ProofError, KeyError, Crash
<1>3. CASE RenewLease(e) \/ Heartbeat(e)
  BY <1>3 DEF RenewLease, Heartbeat, Undecided, TypeOK, DatabaseTypeOK, AttemptRow
<1>4. CASE RecordPublishStorage(e)
  BY <1>4 DEF RecordPublishStorage, Undecided, TypeOK, DatabaseTypeOK, AttemptRow
<1>5. CASE RecordTransientFailure(e)
  BY <1>5 DEF RecordTransientFailure, Undecided, TypeOK, DatabaseTypeOK, AttemptRow
<1> QED
  BY <1>2, <1>3, <1>4, <1>5 DEF ExecStep, Disturbance, Deciding

LEMMA OthersUndecided ==
    ASSUME TypeOK,
           \/ \E a \in Attempts : LeaseExpires(a) \/ RetryDue(a)
           \/ \E e \in Execs, a \in Attempts : TakeLease(e, a)
           \/ \E b \in Outputs : BlobLeaseExpires(b) \/ CleanerStep(b)
    PROVE  Undecided
<1>1. ASSUME NEW a \in Attempts, LeaseExpires(a) \/ RetryDue(a) PROVE Undecided
  BY <1>1 DEF LeaseExpires, RetryDue, Undecided, TypeOK, DatabaseTypeOK, AttemptRow
<1>2. ASSUME NEW e \in Execs, NEW a \in Attempts, TakeLease(e, a) PROVE Undecided
  BY <1>2 DEF TakeLease, Undecided, TypeOK, DatabaseTypeOK, AttemptRow
<1>3. ASSUME NEW b \in Outputs, BlobLeaseExpires(b) \/ CleanerStep(b) PROVE Undecided
  BY <1>3 DEF BlobLeaseExpires, CleanerStep, BlobAges, ClaimOrphan, DeleteObject, PurgeRow,
              ReconcileObject, CleanStaging, Undecided, databaseVars
<1> QED
  BY <1>1, <1>2, <1>3

\* Editing needs a draft, and a draft has no attempt whose snapshot it could
\* contradict.
LEMMA EditingKeepsConsistent ==
    ASSUME TypeOK, Consistent, NEW x \in Artifacts, AddArtifact(x) \/ RemoveArtifact(x)
    PROVE  Consistent'
BY DEF AddArtifact, RemoveArtifact, Consistent, ReleaseMatchesAttempt, PendingIffActive,
       ContentIsSnapshot

LEMMA StartKeepsConsistent ==
    ASSUME TypeOK, Consistent, NEW e \in Execs, NEW a \in Attempts, NEW k \in Keys \cup {None},
           StartPublish(e, a, k)
    PROVE  Consistent'
<1>1. \A c \in Attempts : attempt[c].state # "active"
  BY DEF StartPublish, Consistent, ReleaseMatchesAttempt
<1>2. manifest = None
  BY DEF StartPublish, Consistent, ReleaseMatchesAttempt
<1>3. /\ attempt'[a].state = "active" /\ attempt'[a].key = k /\ attempt'[a].snapshot = content
      /\ \A c \in Attempts : c # a => attempt'[c] = attempt[c]
      /\ release' = [state |-> "publishing", current |-> a]
      /\ UNCHANGED <<content, manifest>>
  BY DEF StartPublish, TypeOK, DatabaseTypeOK, NoAttempt
<1>4. ReleaseMatchesAttempt'
  BY <1>1, <1>2, <1>3 DEF ReleaseMatchesAttempt
<1>5. PendingIffActive'
  <2>1. \A j \in Keys : idem'[j] = IF j = k THEN "pending" ELSE idem[j]
    BY DEF StartPublish
  <2> QED
    BY <1>1, <1>3, <2>1 DEF Consistent, PendingIffActive
<1>6. ContentIsSnapshot'
  BY <1>3 DEF ContentIsSnapshot
<1> QED
  BY <1>4, <1>5, <1>6 DEF Consistent

LEMMA AnswersKeepConsistent ==
    ASSUME TypeOK, Consistent, NEW k \in Keys, RejectPublish(k) \/ ForgetAnswer(k)
    PROVE  Consistent'
<1>1. /\ UNCHANGED <<release, content, manifest>>
      /\ \A c \in Attempts : /\ attempt'[c].state = attempt[c].state
                              /\ attempt'[c].snapshot = attempt[c].snapshot
  BY DEF RejectPublish, ForgetAnswer, TypeOK, DatabaseTypeOK, AttemptRow
<1>2. ReleaseMatchesAttempt' /\ ContentIsSnapshot'
  BY <1>1 DEF Consistent, ReleaseMatchesAttempt, ContentIsSnapshot, TypeOK, DatabaseTypeOK
<1>3. PendingIffActive'
  <2>1. idem[k] # "pending" /\ idem'[k] # "pending" /\ \A j \in Keys : j # k => idem'[j] = idem[j]
    BY DEF RejectPublish, ForgetAnswer, TypeOK, DatabaseTypeOK
  <2>2. \A c \in Attempts : attempt[c].state = "active" => attempt[c].key # k
    BY <2>1 DEF Consistent, PendingIffActive
  <2>3. \A c \in Attempts : attempt[c].state = "active" => attempt'[c].key = attempt[c].key
    BY <2>2 DEF RejectPublish, ForgetAnswer
  <2> QED
    BY <1>1, <2>1, <2>2, <2>3 DEF Consistent, PendingIffActive
<1> QED
  BY <1>2, <1>3 DEF Consistent

\* A decision is taken by an execution that holds the active attempt of the
\* release, or nothing is decided at all.
LEMMA DecisionIsFenced ==
    ASSUME TypeOK, JobHasAttempt, NEW e \in Execs, Deciding(e)
    PROVE  \/ Undecided
           \/ \E a \in Attempts :
                 /\ attempt[a].state = "active"
                 /\ release.current = a
                 /\ \A c \in Attempts : c # a => attempt'[c] = attempt[c]
                 /\ attempt'[a].snapshot = attempt[a].snapshot
                 /\ attempt'[a].key = attempt[a].key
                 /\ content' = content
                 /\ \/ /\ FinalizePublish(e)
                       /\ manifest = None
                       /\ attempt'[a].state = "completed"
                       /\ release' = [release EXCEPT !.state = "published"]
                       /\ manifest' = a
                       /\ idem' = Answered(a, "200")
                    \/ /\ MarkPublishFailed(e)
                       /\ attempt'[a].state = "failed"
                       /\ release' = [release EXCEPT !.state = "publish_failed"]
                       /\ manifest' = manifest
                       /\ idem' = Answered(a, "500")
                    \/ /\ AbortPublishAttempt(e)
                       /\ attempt'[a].state = "aborted"
                       /\ release' = [state |-> "draft", current |-> None]
                       /\ manifest' = manifest
                       /\ idem' = Answered(a, "503")
<1> DEFINE a == job[e].attempt
<1>1. a \in Attempts
  BY OutputTyped DEF Deciding, FinalizePublish, MarkPublishFailed, AbortPublishAttempt
<1>2. CASE FinalizePublish(e)
  BY <1>1, <1>2 DEF FinalizePublish, Holds, Undecided, TypeOK, DatabaseTypeOK, AttemptRow
<1>3. CASE MarkPublishFailed(e)
  BY <1>1, <1>3 DEF MarkPublishFailed, Holds, Undecided, TypeOK, DatabaseTypeOK, AttemptRow
<1>4. CASE AbortPublishAttempt(e)
  BY <1>1, <1>4 DEF AbortPublishAttempt, Holds, Undecided, TypeOK, DatabaseTypeOK, AttemptRow
<1> QED
  BY <1>2, <1>3, <1>4 DEF Deciding

LEMMA DecisionKeepsConsistent ==
    ASSUME TypeOK, JobHasAttempt, Consistent, NEW e \in Execs, Deciding(e)
    PROVE  Consistent'
<1>1. CASE Undecided
  BY <1>1, UndecidedKeepsConsistent
<1>2. CASE ~Undecided
  <2>1. PICK a \in Attempts :
            /\ attempt[a].state = "active"
            /\ release.current = a
            /\ \A c \in Attempts : c # a => attempt'[c] = attempt[c]
            /\ attempt'[a].snapshot = attempt[a].snapshot
            /\ attempt'[a].key = attempt[a].key
            /\ content' = content
            /\ \/ /\ manifest = None
                  /\ attempt'[a].state = "completed"
                  /\ release' = [release EXCEPT !.state = "published"]
                  /\ manifest' = a
                  /\ idem' = Answered(a, "200")
               \/ /\ attempt'[a].state = "failed"
                  /\ release' = [release EXCEPT !.state = "publish_failed"]
                  /\ manifest' = manifest
                  /\ idem' = Answered(a, "500")
               \/ /\ attempt'[a].state = "aborted"
                  /\ release' = [state |-> "draft", current |-> None]
                  /\ manifest' = manifest
                  /\ idem' = Answered(a, "503")
    BY <1>2, DecisionIsFenced
  \* The attempt that is decided was the only active one.
  <2>2. \A c \in Attempts : c # a => attempt[c].state # "active"
    BY <2>1 DEF Consistent, ReleaseMatchesAttempt
  <2>3. release.state = "publishing" /\ manifest = None
    BY <2>1 DEF Consistent, ReleaseMatchesAttempt
  <2>4. \A c \in Attempts : attempt'[c].state # "active"
    BY <2>1, <2>2
  <2>5. \/ release' = [state |-> "published", current |-> a] /\ manifest' = a
              /\ attempt'[a].state = "completed"
        \/ release' = [state |-> "publish_failed", current |-> a] /\ manifest' = None
              /\ attempt'[a].state = "failed"
        \/ release' = [state |-> "draft", current |-> None] /\ manifest' = None
    BY <2>1, <2>3 DEF TypeOK, DatabaseTypeOK
  <2>6. ReleaseMatchesAttempt'
    BY <2>4, <2>5, NoneAssumption DEF ReleaseMatchesAttempt
  <2>7. \A k \in Keys : idem'[k] # "pending"
    <3>1. \A k \in Keys : idem[k] = "pending" => k = attempt[a].key
      BY <2>2 DEF Consistent, PendingIffActive
    <3> QED
      BY <2>1, <3>1 DEF Answered
  <2>8. PendingIffActive'
    BY <2>4, <2>7 DEF PendingIffActive
  <2>9. ContentIsSnapshot'
    BY <2>1, <2>3, <2>5 DEF Consistent, ContentIsSnapshot
  <2> QED
    BY <2>6, <2>8, <2>9 DEF Consistent
<1> QED
  BY <1>1, <1>2

LEMMA NextKeepsConsistent ==
    ASSUME TypeOK, JobHasAttempt, Consistent, Next
    PROVE  Consistent'
<1>1. ASSUME NEW e \in Execs, ExecStep(e) \/ Disturbance(e) PROVE Consistent'
  BY <1>1, ExecutionsUndecided, UndecidedKeepsConsistent, DecisionKeepsConsistent
<1>2. CASE \/ \E a \in Attempts : LeaseExpires(a) \/ RetryDue(a)
           \/ \E e \in Execs, a \in Attempts : TakeLease(e, a)
           \/ \E b \in Outputs : BlobLeaseExpires(b) \/ CleanerStep(b)
  BY <1>2, OthersUndecided, UndecidedKeepsConsistent
<1>3. CASE \E x \in Artifacts : AddArtifact(x) \/ RemoveArtifact(x)
  BY <1>3, EditingKeepsConsistent
<1>4. CASE \E e \in Execs, a \in Attempts, k \in Keys \cup {None} : StartPublish(e, a, k)
  BY <1>4, StartKeepsConsistent
<1>5. CASE \E k \in Keys : RejectPublish(k) \/ ForgetAnswer(k)
  BY <1>5, AnswersKeepConsistent
<1> QED
  BY <1>1, <1>2, <1>3, <1>4, <1>5 DEF Next

-----------------------------------------------------------------------------
(* The outputs                                                             *)

\* The outputs of an attempt are recorded by an execution that passed the fence.
LEMMA StoringIsFenced ==
    ASSUME TypeOK, JobHasAttempt, Next, NEW a \in Attempts, NewlyStored(a)
    PROVE  \E e \in Execs : RecordPublishStorage(e) /\ job[e].attempt = a /\ Holds(e)
<1> USE DEF TypeOK, DatabaseTypeOK
<1>1. ASSUME UNCHANGED attempt PROVE FALSE
  BY <1>1 DEF NewlyStored
<1>2. ASSUME NEW c \in Attempts, LeaseExpires(c) \/ RetryDue(c) PROVE FALSE
  BY <1>2 DEF LeaseExpires, RetryDue, NewlyStored, AttemptRow
<1>3. ASSUME NEW e \in Execs, NEW c \in Attempts, TakeLease(e, c) PROVE FALSE
  BY <1>3 DEF TakeLease, NewlyStored, AttemptRow
<1>4. ASSUME NEW e \in Execs, NEW c \in Attempts, NEW k \in Keys \cup {None},
             StartPublish(e, c, k)
      PROVE  FALSE
  BY <1>4 DEF StartPublish, NewlyStored, NoAttempt
<1>5. ASSUME NEW k \in Keys, ForgetAnswer(k) PROVE FALSE
  BY <1>5 DEF ForgetAnswer, NewlyStored, AttemptRow
<1>6. ASSUME NEW e \in Execs, Heartbeat(e) \/ RenewLease(e) PROVE FALSE
  BY <1>6 DEF Heartbeat, RenewLease, NewlyStored, AttemptRow
<1>7. ASSUME NEW e \in Execs,
             \/ FinalizePublish(e) \/ MarkPublishFailed(e) \/ AbortPublishAttempt(e)
             \/ RecordTransientFailure(e)
      PROVE  FALSE
  BY <1>7 DEF FinalizePublish, MarkPublishFailed, AbortPublishAttempt, RecordTransientFailure,
              NewlyStored, AttemptRow
<1>8. ASSUME NEW e \in Execs, RecordPublishStorage(e)
      PROVE  job[e].attempt = a /\ Holds(e)
  BY <1>1, <1>8 DEF RecordPublishStorage, NewlyStored, AttemptRow
<1>9. ASSUME NEW e \in Execs,
             \/ LoadAttempt(e) \/ SignManifest(e) \/ ClaimNewBlob(e) \/ ClaimExpiredBlob(e)
             \/ ClaimReadyBlob(e) \/ ClaimRefused(e) \/ PutStaging(e) \/ LinkObject(e)
             \/ RemoveStaging(e) \/ MarkBlobReady(e) \/ StatReadyObject(e) \/ ReadRecorded(e)
             \/ ReachRetryLimit(e) \/ ProveOutputAbsent(e) \/ HeartbeatLost(e)
             \/ TransientError(e) \/ ProofError(e) \/ KeyError(e) \/ Crash(e)
      PROVE  FALSE
  BY <1>1, <1>9 DEF LoadAttempt, SignManifest, ClaimNewBlob, ClaimExpiredBlob, ClaimReadyBlob,
       ClaimRefused, PutStaging, LinkObject, RemoveStaging, MarkBlobReady, StatReadyObject,
       ReadRecorded, ReachRetryLimit, ProveOutputAbsent, HeartbeatLost, TransientError,
       ProofError, KeyError, Crash, databaseVars
<1>10. ASSUME \/ \E x \in Artifacts : AddArtifact(x) \/ RemoveArtifact(x)
              \/ \E k \in Keys : RejectPublish(k)
              \/ \E b \in Outputs : BlobLeaseExpires(b) \/ CleanerStep(b)
       PROVE  FALSE
  BY <1>1, <1>10 DEF AddArtifact, RemoveArtifact, RejectPublish, BlobLeaseExpires, CleanerStep,
       BlobAges, ClaimOrphan, DeleteObject, PurgeRow, ReconcileObject, CleanStaging, databaseVars
<1>11. ASSUME NEW e \in Execs, ExecStep(e) \/ Disturbance(e), ~RecordPublishStorage(e)
       PROVE  FALSE
  BY <1>6, <1>7, <1>9, <1>11 DEF ExecStep, Disturbance
<1>12. \E e \in Execs : RecordPublishStorage(e)
  BY <1>2, <1>3, <1>4, <1>5, <1>10, <1>11 DEF Next
<1> QED
  BY <1>8, <1>12

\* The outputs of a are recorded and it has not failed.
Kept(a) == (attempt[a].state = "active" /\ attempt[a].stored) \/ attempt[a].state = "completed"

\* An attempt's outputs are recorded by RecordPublishStorage only, and the attempt that
\* is completed is the manifest row's.
RowsGoOn ==
    \A a \in Attempts :
        /\ attempt[a].state # "none" => attempt'[a].state # "none"
        /\ attempt'[a].state = "active" => attempt[a].state \in {"none", "active"}
        /\ attempt'[a].state = "completed" => manifest' = a
        /\ Kept(a)' => \/ Kept(a)
                       \/ \E e \in Execs : RecordPublishStorage(e) /\ job[e].attempt = a /\ Holds(e)

LEMMA NextRowsGoOn ==
    ASSUME TypeOK, JobHasAttempt, Consistent, CompletedHasManifest, Next
    PROVE  RowsGoOn
<1>1. \A a \in Attempts : attempt[a].state = "completed" => manifest = a
  BY DEF CompletedHasManifest
<1>2. ASSUME manifest' = manifest,
             \A a \in Attempts : attempt'[a].state = attempt[a].state,
             NEW a \in Attempts, Kept(a)'
      PROVE  \/ Kept(a)
             \/ \E e \in Execs : RecordPublishStorage(e) /\ job[e].attempt = a /\ Holds(e)
  <2>1. CASE NewlyStored(a)
    BY <2>1, StoringIsFenced
  <2>2. CASE ~NewlyStored(a)
    BY <1>2, <2>2 DEF NewlyStored, Kept
  <2> QED
    BY <2>1, <2>2
<1>3. ASSUME manifest' = manifest, \A a \in Attempts : attempt'[a].state = attempt[a].state
      PROVE  RowsGoOn
  BY <1>1, <1>2, <1>3 DEF RowsGoOn
<1>4. CASE Undecided
  BY <1>3, <1>4 DEF Undecided
<1>5. ASSUME NEW e \in Execs, Deciding(e), ~Undecided PROVE RowsGoOn
  <2>1. PICK a \in Attempts :
            /\ attempt[a].state = "active"
            /\ \A c \in Attempts : c # a => attempt'[c] = attempt[c]
            /\ \/ /\ FinalizePublish(e)
                  /\ manifest = None
                  /\ attempt'[a].state = "completed"
                  /\ manifest' = a
               \/ /\ attempt'[a].state \in {"failed", "aborted"}
                  /\ manifest' = manifest
    BY <1>5, DecisionIsFenced
  <2>2. attempt'[a].state = "completed" => Kept(a)
    BY <2>1 DEF FinalizePublish, Kept, TypeOK, DatabaseTypeOK
  <2>3. attempt'[a].state = "completed" => \A c \in Attempts : attempt[c].state # "completed"
    BY <1>1, <2>1, NoneAssumption
  <2>4. \A c \in Attempts : c # a /\ Kept(c)' => Kept(c)
    BY <2>1 DEF Kept
  <2> QED
    BY <1>1, <2>1, <2>2, <2>3, <2>4 DEF RowsGoOn, Kept
<1>6. ASSUME NEW e \in Execs, NEW a \in Attempts, NEW k \in Keys \cup {None}, StartPublish(e, a, k)
      PROVE  RowsGoOn
  <2>1. /\ attempt[a].state = "none" /\ attempt'[a].state = "active" /\ ~attempt'[a].stored
        /\ \A c \in Attempts : c # a => attempt'[c] = attempt[c]
        /\ manifest' = manifest
    BY <1>6 DEF StartPublish, TypeOK, DatabaseTypeOK, NoAttempt
  <2> QED
    BY <1>1, <2>1 DEF RowsGoOn, Kept
<1>7. ASSUME NEW k \in Keys, RejectPublish(k) \/ ForgetAnswer(k) PROVE RowsGoOn
  BY <1>3, <1>7 DEF RejectPublish, ForgetAnswer, TypeOK, DatabaseTypeOK, AttemptRow
<1>8. ASSUME NEW x \in Artifacts, AddArtifact(x) \/ RemoveArtifact(x) PROVE RowsGoOn
  BY <1>3, <1>8 DEF AddArtifact, RemoveArtifact
<1>9. ASSUME NEW e \in Execs, ExecStep(e) \/ Disturbance(e) PROVE RowsGoOn
  BY <1>4, <1>5, <1>9, ExecutionsUndecided
<1>10. CASE \/ \E a \in Attempts : LeaseExpires(a) \/ RetryDue(a)
            \/ \E e \in Execs, a \in Attempts : TakeLease(e, a)
            \/ \E b \in Outputs : BlobLeaseExpires(b) \/ CleanerStep(b)
  BY <1>4, <1>10, OthersUndecided
<1> QED
  BY <1>6, <1>7, <1>8, <1>9, <1>10 DEF Next

LEMMA NextKeepsRow ==
    ASSUME TypeOK, JobHasAttempt, JobHasRow, RowsGoOn, Next
    PROVE  JobHasRow'
<1> USE DEF TypeOK, ExecTypeOK
<1>1. \A e \in Execs : pc[e] # "idle" => attempt'[job[e].attempt].state # "none"
  BY DEF JobHasAttempt, JobHasRow, RowsGoOn
<1>2. ASSUME UNCHANGED <<pc, job>> PROVE JobHasRow'
  BY <1>1, <1>2 DEF JobHasRow
<1>3. ASSUME NEW e \in Execs, NEW a \in Attempts, TakeLease(e, a)
      PROVE  JobHasRow'
  <2>1. /\ attempt'[a].state # "none" /\ job'[e].attempt = a
        /\ \A f \in Execs : f # e => pc'[f] = pc[f] /\ job'[f] = job[f]
    BY <1>3 DEF TakeLease, NoJob, RowsGoOn
  <2> QED
    BY <1>1, <2>1 DEF JobHasRow
<1>4. ASSUME NEW e \in Execs, NEW a \in Attempts, NEW k \in Keys \cup {None}, StartPublish(e, a, k)
      PROVE  JobHasRow'
  <2>1. /\ attempt'[a].state = "active" /\ job'[e].attempt = a
        /\ \A f \in Execs : f # e => pc'[f] = pc[f] /\ job'[f] = job[f]
    BY <1>4 DEF StartPublish, NoJob, NoAttempt, DatabaseTypeOK
  <2> QED
    BY <1>1, <2>1 DEF JobHasRow
<1>5. ASSUME NEW e \in Execs,
             \/ ExecStep(e) \/ HeartbeatLost(e)
             \/ TransientError(e) \/ ProofError(e) \/ KeyError(e) \/ Crash(e)
      PROVE  JobHasRow'
  <2>1. Advances(e)
    BY <1>5, StepsAdvance
  <2> QED
    BY <1>1, <2>1 DEF JobHasRow, Advances, Leave
<1>6. CASE \/ \E x \in Artifacts : AddArtifact(x) \/ RemoveArtifact(x)
           \/ \E k \in Keys : RejectPublish(k) \/ ForgetAnswer(k)
           \/ \E a \in Attempts : LeaseExpires(a) \/ RetryDue(a)
           \/ \E e \in Execs : Heartbeat(e)
           \/ \E b \in Outputs : BlobLeaseExpires(b) \/ CleanerStep(b)
  BY <1>2, <1>6 DEF AddArtifact, RemoveArtifact, RejectPublish, ForgetAnswer, LeaseExpires, RetryDue,
       Heartbeat, BlobLeaseExpires, CleanerStep, BlobAges, ClaimOrphan, DeleteObject, PurgeRow,
       ReconcileObject, CleanStaging, execVars
<1> QED
  BY <1>3, <1>4, <1>5, <1>6 DEF Next, Disturbance

\* Only ClaimOrphan takes a blob out of the ready state, and never a referenced one.
ReadyGoesOn ==
    \A b \in Outputs : blob[b].state = "ready" /\ Referenced(b) => blob'[b].state = "ready"

LEMMA NextKeepsReady ==
    ASSUME TypeOK, JobHasAttempt, Next
    PROVE  ReadyGoesOn
<1>1. ASSUME UNCHANGED blob PROVE ReadyGoesOn
  BY <1>1 DEF ReadyGoesOn
<1>2. ASSUME NEW e \in Execs, ClaimNewBlob(e) \/ ClaimExpiredBlob(e) PROVE ReadyGoesOn
  BY <1>2 DEF ClaimNewBlob, ClaimExpiredBlob, ReadyGoesOn, TypeOK, StorageTypeOK
<1>3. ASSUME NEW e \in Execs, MarkBlobReady(e) PROVE ReadyGoesOn
  BY <1>3 DEF MarkBlobReady, OwnsBlob, ReadyGoesOn, TypeOK, StorageTypeOK, BlobRow
<1>4. ASSUME NEW e \in Execs, RecordPublishStorage(e) \/ FinalizePublish(e) PROVE ReadyGoesOn
  BY <1>4 DEF RecordPublishStorage, FinalizePublish, Touched, ReadyGoesOn, TypeOK, StorageTypeOK,
              BlobRow
<1>5. ASSUME NEW e \in Execs,
             \/ LoadAttempt(e) \/ RenewLease(e) \/ SignManifest(e)
             \/ ClaimReadyBlob(e) \/ ClaimRefused(e) \/ PutStaging(e) \/ LinkObject(e)
             \/ RemoveStaging(e) \/ StatReadyObject(e) \/ ReadRecorded(e)
             \/ RecordTransientFailure(e) \/ MarkPublishFailed(e) \/ AbortPublishAttempt(e)
             \/ ReachRetryLimit(e) \/ ProveOutputAbsent(e) \/ Heartbeat(e) \/ HeartbeatLost(e)
             \/ TransientError(e) \/ ProofError(e) \/ KeyError(e) \/ Crash(e)
      PROVE  ReadyGoesOn
  BY <1>1, <1>5 DEF LoadAttempt, RenewLease, SignManifest, ClaimReadyBlob, ClaimRefused, PutStaging,
       LinkObject, RemoveStaging, StatReadyObject, ReadRecorded, RecordTransientFailure,
       MarkPublishFailed, AbortPublishAttempt, ReachRetryLimit, ProveOutputAbsent, Heartbeat,
       HeartbeatLost, TransientError, ProofError, KeyError, Crash, storageVars
<1>6. ASSUME NEW e \in Execs, ExecStep(e) \/ Disturbance(e) PROVE ReadyGoesOn
  BY <1>2, <1>3, <1>4, <1>5, <1>6 DEF ExecStep, Disturbance
<1>7. ASSUME NEW b \in Outputs, BlobLeaseExpires(b) \/ BlobAges(b) PROVE ReadyGoesOn
  BY <1>7 DEF BlobLeaseExpires, BlobAges, ReadyGoesOn, TypeOK, StorageTypeOK, BlobRow
<1>8. ASSUME NEW b \in Outputs,
             ClaimOrphan(b) \/ DeleteObject(b) \/ PurgeRow(b) \/ ReconcileObject(b)
      PROVE  ReadyGoesOn
  <2>1. /\ ~(blob[b].state = "ready" /\ Referenced(b))
        /\ \A c \in Outputs : c # b => blob'[c] = blob[c]
    BY <1>8 DEF ClaimOrphan, DeleteObject, PurgeRow, ReconcileObject, TypeOK, StorageTypeOK
  <2> QED
    BY <2>1 DEF ReadyGoesOn
<1>9. ASSUME \/ \E x \in Artifacts : AddArtifact(x) \/ RemoveArtifact(x)
             \/ \E e \in Execs, a \in Attempts, k \in Keys \cup {None} : StartPublish(e, a, k)
             \/ \E k \in Keys : RejectPublish(k) \/ ForgetAnswer(k)
             \/ \E a \in Attempts : LeaseExpires(a) \/ RetryDue(a)
             \/ \E e \in Execs, a \in Attempts : TakeLease(e, a)
             \/ \E b \in Outputs : CleanStaging(b)
      PROVE  ReadyGoesOn
  BY <1>1, <1>9 DEF AddArtifact, RemoveArtifact, StartPublish, RejectPublish, ForgetAnswer,
       LeaseExpires, RetryDue, TakeLease, CleanStaging, storageVars
<1> QED
  BY <1>6, <1>7, <1>8, <1>9 DEF Next, CleanerStep

\* So the outputs of an attempt stay ready from the moment they are recorded.
LEMMA NextKeepsRecorded ==
    ASSUME TypeOK, JobHasAttempt, RecordedOutputsDurable, CompletedHasManifest, RowsGoOn, Next,
           NEW a \in Attempts, Kept(a)', NEW b \in OutputsOf(a)
    PROVE  blob'[b].state = "ready"
<1>1. b \in Outputs /\ b[1] = a
  BY DEF OutputsOf, Outputs
<1>2. CASE Kept(a)
  <2>1. blob[b].state = "ready" /\ Referenced(b)
    BY <1>1, <1>2 DEF RecordedOutputsDurable, CompletedHasManifest, Kept, Referenced
  <2> QED
    BY <1>1, <2>1, NextKeepsReady DEF ReadyGoesOn
<1>3. ASSUME NEW e \in Execs, RecordPublishStorage(e), job[e].attempt = a, Holds(e)
      PROVE  blob'[b].state = "ready"
  <2>1. CASE Referenceable(a) /\ blob' = Touched(a)
    BY <1>1, <2>1 DEF Referenceable, Touched, TypeOK, StorageTypeOK, BlobRow
  <2>2. CASE ~Referenceable(a) /\ UNCHANGED attempt
    \* Nothing was recorded, so the outputs were recorded before.
    <3>1. ~Kept(a) => ~Kept(a)'
      BY <1>3, <2>2 DEF Kept, Holds
    <3> QED
      BY <1>2, <3>1
  <2> QED
    BY <1>3, <2>1, <2>2 DEF RecordPublishStorage
<1> QED
  BY <1>2, <1>3 DEF RowsGoOn

-----------------------------------------------------------------------------
(* The files of the outputs                                                *)

\* A ready row has its file, the owner of a blob has linked it, and the staging file of
\* an active attempt is its execution's.
ReadyHasObject == \A b \in Outputs : blob[b].state = "ready" => b \in object
FilesAreThere == ReadyHasObject /\ OwnerHasLinked /\ StagingIsOwn

\* What a step may do without looking at any file: nobody reaches the labels between the
\* staging file and the ready row, and no claim on a blob changes hands.
Quiet ==
    /\ object' = object
    /\ staging' = staging
    /\ \A b \in Outputs : /\ blob'[b].state = blob[b].state
                          /\ blob'[b].owner = blob[b].owner
                          /\ blob'[b].gen = blob[b].gen
    /\ \A f \in Execs : pc'[f] \in {"link", "unstage", "mark"} => pc'[f] = pc[f] /\ job'[f] = job[f]

\* The attempt of an execution that goes on was active if it still is.
LEMMA ActiveBefore ==
    ASSUME JobHasAttempt, JobHasRow, RowsGoOn, NEW e \in Execs, pc[e] # "idle",
           attempt'[job[e].attempt].state = "active"
    PROVE  attempt[job[e].attempt].state = "active"
BY DEF JobHasAttempt, JobHasRow, RowsGoOn

LEMMA QuietKeepsFiles ==
    ASSUME TypeOK, JobHasAttempt, JobHasRow, RowsGoOn, FilesAreThere, Quiet
    PROVE  FilesAreThere'
<1>1. ReadyHasObject'
  BY DEF FilesAreThere, ReadyHasObject, Quiet
<1>2. OwnerHasLinked'
  <2> SUFFICES ASSUME NEW e \in Execs, pc'[e] \in {"unstage", "mark"}, OwnsBlob(e)'
               PROVE  Output(e)' \in object'
    BY DEF OwnerHasLinked
  <2>1. pc'[e] = pc[e] /\ job'[e] = job[e]
    BY DEF Quiet
  <2>2. Output(e)' = Output(e) /\ Output(e) \in Outputs
    BY <2>1, OutputTyped DEF Output
  <2>3. OwnsBlob(e)
    BY <2>1, <2>2 DEF OwnsBlob, Quiet
  <2> QED
    BY <2>1, <2>2, <2>3 DEF FilesAreThere, OwnerHasLinked, Quiet
<1>3. StagingIsOwn'
  <2> SUFFICES ASSUME NEW e \in Execs, pc'[e] \in {"link", "unstage"},
                      attempt'[job'[e].attempt].state = "active"
               PROVE  /\ Output(e)' \in staging'
                      /\ \A f \in Execs : pc'[f] \in {"link", "unstage"} /\ Output(f)' = Output(e)'
                                              => f = e
    BY DEF StagingIsOwn
  <2>1. \A f \in Execs : pc'[f] \in {"link", "unstage"} => pc'[f] = pc[f] /\ Output(f)' = Output(f)
    BY DEF Quiet, Output
  <2>2. pc[e] \in {"link", "unstage"} /\ attempt[job[e].attempt].state = "active"
    BY <2>1, ActiveBefore DEF Quiet
  <2> QED
    BY <2>1, <2>2 DEF FilesAreThere, StagingIsOwn, Quiet
<1> QED
  BY <1>1, <1>2, <1>3 DEF FilesAreThere

\* An execution goes on to a label that has nothing to do with files.
Elsewhere(e) ==
    /\ pc'[e] \notin {"link", "unstage", "mark"}
    /\ \A f \in Execs : f # e => pc'[f] = pc[f] /\ job'[f] = job[f]

LEMMA ExecutionsGoElsewhere ==
    ASSUME TypeOK, NEW e \in Execs,
           \/ LoadAttempt(e) \/ RenewLease(e) \/ SignManifest(e)
           \/ ClaimNewBlob(e) \/ ClaimExpiredBlob(e) \/ ClaimReadyBlob(e) \/ ClaimRefused(e)
           \/ MarkBlobReady(e) \/ StatReadyObject(e)
           \/ RecordPublishStorage(e) \/ ReadRecorded(e) \/ FinalizePublish(e)
           \/ RecordTransientFailure(e) \/ MarkPublishFailed(e)
           \/ ReachRetryLimit(e) \/ ProveOutputAbsent(e) \/ AbortPublishAttempt(e)
           \/ HeartbeatLost(e) \/ TransientError(e) \/ ProofError(e) \/ KeyError(e) \/ Crash(e)
    PROVE  Elsewhere(e)
<1> USE DEF TypeOK, ExecTypeOK
<1>1. ASSUME Leave(e) PROVE Elsewhere(e)
  BY <1>1 DEF Leave, Elsewhere
<1>2. ASSUME NEW cause \in {"transient", "permanent"}, Fail(e, cause) PROVE Elsewhere(e)
  BY <1>2 DEF Fail, Elsewhere
<1>3. ASSUME NEW label \in Labels, label \notin {"link", "unstage", "mark"}, Goto(e, label)
      PROVE  Elsewhere(e)
  BY <1>3 DEF Goto, Elsewhere
<1>4. ASSUME OutputStored(e) PROVE Elsewhere(e)
  BY <1>3, <1>4, Enumerations DEF OutputStored, Elsewhere
<1>5. CASE LoadAttempt(e)
  BY <1>1, <1>5 DEF LoadAttempt, Elsewhere
<1>6. CASE RenewLease(e)
  BY <1>1, <1>3, <1>6, Enumerations DEF RenewLease
<1>7. CASE SignManifest(e) \/ ClaimReadyBlob(e) \/ ReadRecorded(e)
  BY <1>2, <1>3, <1>7, Enumerations DEF SignManifest, ClaimReadyBlob, ReadRecorded
<1>8. CASE ClaimNewBlob(e) \/ ClaimExpiredBlob(e)
  BY <1>8 DEF ClaimNewBlob, ClaimExpiredBlob, Elsewhere
<1>9. CASE ClaimRefused(e) \/ TransientError(e) \/ ProofError(e) \/ KeyError(e)
  BY <1>2, <1>9 DEF ClaimRefused, TransientError, ProofError, KeyError
<1>10. CASE MarkBlobReady(e) \/ StatReadyObject(e)
  BY <1>2, <1>4, <1>10 DEF MarkBlobReady, StatReadyObject
<1>11. CASE RecordPublishStorage(e) \/ FinalizePublish(e)
  BY <1>1, <1>2, <1>3, <1>11, Enumerations DEF RecordPublishStorage, FinalizePublish
<1>12. CASE RecordTransientFailure(e) \/ MarkPublishFailed(e) \/ AbortPublishAttempt(e)
            \/ HeartbeatLost(e) \/ Crash(e)
  BY <1>1, <1>12 DEF RecordTransientFailure, MarkPublishFailed, AbortPublishAttempt, HeartbeatLost,
                     Crash
<1>13. CASE ReachRetryLimit(e)
  BY <1>13 DEF ReachRetryLimit, Elsewhere
<1>14. CASE ProveOutputAbsent(e)
  BY <1>2, <1>3, <1>14, Enumerations DEF ProveOutputAbsent, Elsewhere
<1> QED
  BY <1>5, <1>6, <1>7, <1>8, <1>9, <1>10, <1>11, <1>12, <1>13, <1>14

\* Every other step of an execution is quiet.
LEMMA ExecutionsAreQuiet ==
    ASSUME TypeOK, NEW e \in Execs,
           \/ LoadAttempt(e) \/ RenewLease(e) \/ SignManifest(e)
           \/ ClaimReadyBlob(e) \/ ClaimRefused(e) \/ StatReadyObject(e)
           \/ RecordPublishStorage(e) \/ ReadRecorded(e) \/ FinalizePublish(e)
           \/ RecordTransientFailure(e) \/ MarkPublishFailed(e)
           \/ ReachRetryLimit(e) \/ ProveOutputAbsent(e) \/ AbortPublishAttempt(e)
           \/ HeartbeatLost(e) \/ TransientError(e) \/ ProofError(e) \/ KeyError(e) \/ Crash(e)
    PROVE  Quiet
<1>1. Elsewhere(e)
  BY ExecutionsGoElsewhere
<1>2. \A f \in Execs : pc'[f] \in {"link", "unstage", "mark"} => pc'[f] = pc[f] /\ job'[f] = job[f]
  BY <1>1 DEF Elsewhere
<1>3. CASE RecordPublishStorage(e) \/ FinalizePublish(e)
  <2>1. \A b \in Outputs : /\ blob'[b].state = blob[b].state
                           /\ blob'[b].owner = blob[b].owner
                           /\ blob'[b].gen = blob[b].gen
    BY <1>3 DEF RecordPublishStorage, FinalizePublish, Touched, TypeOK, StorageTypeOK, BlobRow
  <2> QED
    BY <1>2, <1>3, <2>1 DEF RecordPublishStorage, FinalizePublish, Quiet
<1>4. CASE UNCHANGED storageVars
  BY <1>2, <1>4 DEF storageVars, Quiet
<1> QED
  BY <1>3, <1>4 DEF LoadAttempt, RenewLease, SignManifest, ClaimReadyBlob, ClaimRefused,
       StatReadyObject, ReadRecorded, RecordTransientFailure, MarkPublishFailed, ReachRetryLimit,
       ProveOutputAbsent, AbortPublishAttempt, HeartbeatLost, TransientError, ProofError, KeyError,
       Crash

\* And so are the steps of the requests, the leases and the clock.
LEMMA OthersAreQuiet ==
    ASSUME TypeOK,
           \/ \E x \in Artifacts : AddArtifact(x) \/ RemoveArtifact(x)
           \/ \E e \in Execs, a \in Attempts, k \in Keys \cup {None} : StartPublish(e, a, k)
           \/ \E k \in Keys : RejectPublish(k) \/ ForgetAnswer(k)
           \/ \E a \in Attempts : LeaseExpires(a) \/ RetryDue(a)
           \/ \E e \in Execs, a \in Attempts : TakeLease(e, a)
           \/ \E e \in Execs : Heartbeat(e)
           \/ \E b \in Outputs : BlobLeaseExpires(b) \/ BlobAges(b)
    PROVE  Quiet
<1> USE DEF TypeOK, ExecTypeOK
<1>1. ASSUME UNCHANGED <<storageVars, execVars>> PROVE Quiet
  BY <1>1 DEF storageVars, execVars, Quiet
<1>2. CASE \/ \E x \in Artifacts : AddArtifact(x) \/ RemoveArtifact(x)
           \/ \E k \in Keys : RejectPublish(k) \/ ForgetAnswer(k)
           \/ \E a \in Attempts : LeaseExpires(a) \/ RetryDue(a)
           \/ \E e \in Execs : Heartbeat(e)
  BY <1>1, <1>2 DEF AddArtifact, RemoveArtifact, RejectPublish, ForgetAnswer, LeaseExpires, RetryDue,
                    Heartbeat
<1>3. ASSUME NEW e \in Execs, NEW a \in Attempts,
             TakeLease(e, a) \/ \E k \in Keys \cup {None} : StartPublish(e, a, k)
      PROVE  Quiet
  <2>1. Elsewhere(e)
    BY <1>3 DEF TakeLease, StartPublish, Elsewhere
  <2>2. UNCHANGED storageVars
    BY <1>3 DEF TakeLease, StartPublish
  <2> QED
    BY <2>1, <2>2 DEF storageVars, Elsewhere, Quiet
<1>4. ASSUME NEW b \in Outputs, BlobLeaseExpires(b) \/ BlobAges(b) PROVE Quiet
  BY <1>4 DEF BlobLeaseExpires, BlobAges, execVars, StorageTypeOK, BlobRow, Quiet
<1> QED
  BY <1>2, <1>3, <1>4

\* Two ways to keep what is known of those who are at the files: nobody joins them, and
\* what they have stays.
LEMMA StagingGoesOn ==
    ASSUME TypeOK, JobHasAttempt, JobHasRow, RowsGoOn, StagingIsOwn,
           \A f \in Execs : pc'[f] \in {"link", "unstage"} =>
               pc[f] \in {"link", "unstage"} /\ job'[f] = job[f],
           \A f \in Execs :
               /\ pc'[f] \in {"link", "unstage"}
               /\ attempt[job[f].attempt].state = "active"
               /\ Output(f) \in staging
               => Output(f) \in staging'
    PROVE  StagingIsOwn'
<1> SUFFICES ASSUME NEW e \in Execs, pc'[e] \in {"link", "unstage"},
                    attempt'[job'[e].attempt].state = "active"
             PROVE  /\ Output(e)' \in staging'
                    /\ \A f \in Execs : pc'[f] \in {"link", "unstage"} /\ Output(f)' = Output(e)'
                                            => f = e
  BY DEF StagingIsOwn
<1>1. \A f \in Execs : pc'[f] \in {"link", "unstage"} =>
          pc[f] \in {"link", "unstage"} /\ Output(f)' = Output(f)
  BY DEF Output
<1>2. pc[e] \in {"link", "unstage"} /\ attempt[job[e].attempt].state = "active"
  BY <1>1, ActiveBefore
<1> QED
  BY <1>1, <1>2 DEF StagingIsOwn

LEMMA LinkedGoesOn ==
    ASSUME OwnerHasLinked,
           \A f \in Execs : pc'[f] \in {"unstage", "mark"} =>
               pc[f] \in {"unstage", "mark"} /\ job'[f] = job[f],
           \A f \in Execs : pc'[f] \in {"unstage", "mark"} /\ OwnsBlob(f)' =>
               OwnsBlob(f) /\ (Output(f) \in object => Output(f) \in object')
    PROVE  OwnerHasLinked'
<1> SUFFICES ASSUME NEW e \in Execs, pc'[e] \in {"unstage", "mark"}, OwnsBlob(e)'
             PROVE  Output(e)' \in object'
  BY DEF OwnerHasLinked
<1>1. Output(e)' = Output(e)
  BY DEF Output
<1> QED
  BY <1>1 DEF OwnerHasLinked

\* A claim takes the blob away from whoever was writing it before.
LEMMA ClaimKeepsFiles ==
    ASSUME TypeOK, JobHasAttempt, JobHasRow, RowsGoOn, FilesAreThere, NEW e \in Execs,
           ClaimNewBlob(e) \/ ClaimExpiredBlob(e)
    PROVE  FilesAreThere'
<1>1. Elsewhere(e)
  BY ExecutionsGoElsewhere
<1>2. Output(e) \in Outputs
  BY OutputTyped DEF ClaimNewBlob, ClaimExpiredBlob
<1>3. /\ blob[Output(e)].state # "ready"
      /\ blob'[Output(e)].state = "creating" /\ blob'[Output(e)].owner = e
      /\ \A c \in Outputs : c # Output(e) => blob'[c] = blob[c]
      /\ object' = object /\ staging' = staging
  <2>1. CASE ClaimNewBlob(e)
    BY <1>2, <2>1 DEF ClaimNewBlob, NoBlob, TypeOK, StorageTypeOK, BlobRow
  <2>2. CASE ClaimExpiredBlob(e)
    BY <1>2, <2>2 DEF ClaimExpiredBlob, TypeOK, StorageTypeOK, BlobRow
  <2> QED
    BY <2>1, <2>2
<1>4. ReadyHasObject'
  BY <1>3 DEF FilesAreThere, ReadyHasObject
<1>5. OwnerHasLinked'
  <2>1. ASSUME NEW f \in Execs, pc'[f] \in {"unstage", "mark"}, OwnsBlob(f)' PROVE OwnsBlob(f)
    <3>1. f # e /\ job'[f] = job[f] /\ pc'[f] = pc[f]
      BY <1>1, <2>1 DEF Elsewhere
    <3>2. Output(f) \in Outputs /\ Output(f)' = Output(f)
      BY <2>1, <3>1, OutputTyped DEF Output
    <3>3. Output(f) # Output(e)
      BY <1>3, <2>1, <3>1, <3>2 DEF OwnsBlob
    <3> QED
      BY <1>3, <2>1, <3>1, <3>2, <3>3 DEF OwnsBlob
  <2> QED
    BY <1>1, <1>3, <2>1, LinkedGoesOn DEF FilesAreThere, Elsewhere
<1>6. StagingIsOwn'
  BY <1>1, <1>3, StagingGoesOn DEF FilesAreThere, Elsewhere
<1> QED
  BY <1>4, <1>5, <1>6 DEF FilesAreThere

\* O_EXCL: the one that creates the staging file is the only one that has it.
LEMMA PutKeepsFiles ==
    ASSUME TypeOK, JobHasAttempt, JobHasRow, RowsGoOn, FilesAreThere, NEW e \in Execs, PutStaging(e)
    PROVE  FilesAreThere'
<1>1. CASE Output(e) \in staging
  <2>1. Fail(e, "permanent") /\ UNCHANGED storageVars
    BY <1>1 DEF PutStaging, storageVars
  <2> QED
    BY <2>1, QuietKeepsFiles DEF Fail, Quiet, storageVars, TypeOK, ExecTypeOK
<1>2. CASE Output(e) \notin staging
  <2>1. /\ staging' = staging \cup {Output(e)} /\ UNCHANGED <<blob, object, job>>
        /\ pc[e] = "put" /\ pc'[e] = "link"
        /\ \A f \in Execs : f # e => pc'[f] = pc[f]
    BY <1>2 DEF PutStaging, Goto, TypeOK, ExecTypeOK
  <2>2. ReadyHasObject'
    BY <2>1 DEF FilesAreThere, ReadyHasObject
  <2>3. \A f \in Execs : Output(f)' = Output(f) /\ (OwnsBlob(f)' => OwnsBlob(f))
    BY <2>1 DEF Output, OwnsBlob
  <2>4. OwnerHasLinked'
    BY <2>1, <2>3, LinkedGoesOn DEF FilesAreThere
  <2>5. StagingIsOwn'
    <3> SUFFICES ASSUME NEW f \in Execs, pc'[f] \in {"link", "unstage"},
                        attempt'[job'[f].attempt].state = "active"
                 PROVE  /\ Output(f)' \in staging'
                        /\ \A g \in Execs : pc'[g] \in {"link", "unstage"} /\ Output(g)' = Output(f)'
                                                => g = f
      BY DEF StagingIsOwn
    <3>1. pc[f] # "idle" /\ attempt[job[f].attempt].state = "active"
      BY <2>1, ActiveBefore
    \* Who was at the files of an active attempt had its file; e's was not there.
    <3>2. ASSUME NEW g \in Execs, g # e, pc[g] \in {"link", "unstage"},
                 attempt[job[g].attempt].state = "active"
          PROVE  Output(g) \in staging /\ Output(g) # Output(e)
      BY <1>2, <3>2 DEF FilesAreThere, StagingIsOwn
    <3>3. \A g \in Execs : Output(g) = Output(f) => job[g].attempt = job[f].attempt
      BY DEF Output
    <3>4. CASE f = e
      BY <2>1, <2>3, <3>1, <3>2, <3>3, <3>4
    <3>5. CASE f # e
      BY <2>1, <2>3, <3>1, <3>2, <3>5 DEF FilesAreThere, StagingIsOwn
    <3> QED
      BY <3>4, <3>5
  <2> QED
    BY <2>2, <2>4, <2>5 DEF FilesAreThere
<1> QED
  BY <1>1, <1>2

\* Promote links the file before it removes the staging name.
LEMMA LinkKeepsFiles ==
    ASSUME TypeOK, JobHasAttempt, JobHasRow, RowsGoOn, FilesAreThere, NEW e \in Execs, LinkObject(e)
    PROVE  FilesAreThere'
<1>1. CASE Output(e) \notin staging
  <2>1. Fail(e, "permanent") /\ UNCHANGED storageVars
    BY <1>1 DEF LinkObject, storageVars
  <2> QED
    BY <2>1, QuietKeepsFiles DEF Fail, Quiet, storageVars, TypeOK, ExecTypeOK
<1>2. CASE Output(e) \in staging
  <2>1. /\ object' = object \cup {Output(e)} /\ UNCHANGED <<blob, staging, job>>
        /\ pc[e] = "link" /\ pc'[e] = "unstage"
        /\ \A f \in Execs : f # e => pc'[f] = pc[f]
    BY <1>2 DEF LinkObject, Goto, TypeOK, ExecTypeOK
  <2>2. ReadyHasObject'
    BY <2>1 DEF FilesAreThere, ReadyHasObject
  <2>3. \A f \in Execs : Output(f)' = Output(f) /\ (OwnsBlob(f)' => OwnsBlob(f))
    BY <2>1 DEF Output, OwnsBlob
  <2>4. OwnerHasLinked'
    BY <2>1, <2>3 DEF FilesAreThere, OwnerHasLinked
  <2>5. StagingIsOwn'
    BY <2>1, StagingGoesOn DEF FilesAreThere
  <2> QED
    BY <2>2, <2>4, <2>5 DEF FilesAreThere
<1> QED
  BY <1>1, <1>2

LEMMA UnstageKeepsFiles ==
    ASSUME TypeOK, JobHasAttempt, JobHasRow, RowsGoOn, FilesAreThere, NEW e \in Execs,
           RemoveStaging(e)
    PROVE  FilesAreThere'
<1>1. /\ staging' = staging \ {Output(e)} /\ UNCHANGED <<blob, object, job>>
      /\ pc[e] = "unstage" /\ pc'[e] = "mark"
      /\ \A f \in Execs : f # e => pc'[f] = pc[f]
  BY DEF RemoveStaging, Goto, TypeOK, ExecTypeOK
<1>2. ReadyHasObject'
  BY <1>1 DEF FilesAreThere, ReadyHasObject
<1>3. \A f \in Execs : OwnsBlob(f)' => OwnsBlob(f)
  BY <1>1 DEF Output, OwnsBlob
<1>4. OwnerHasLinked'
  BY <1>1, <1>3, LinkedGoesOn DEF FilesAreThere
<1>5. ASSUME NEW f \in Execs, pc'[f] \in {"link", "unstage"},
             attempt[job[f].attempt].state = "active", Output(f) \in staging
      PROVE  Output(f) \in staging'
  \* The file that e removes is nobody else's.
  BY <1>1, <1>5 DEF FilesAreThere, StagingIsOwn
<1>6. StagingIsOwn'
  BY <1>1, <1>5, StagingGoesOn DEF FilesAreThere
<1> QED
  BY <1>2, <1>4, <1>6 DEF FilesAreThere

\* Who marks a blob ready owns it, so its file has been linked and is still there.
LEMMA MarkKeepsFiles ==
    ASSUME TypeOK, JobHasAttempt, JobHasRow, RowsGoOn, FilesAreThere, NEW e \in Execs,
           MarkBlobReady(e)
    PROVE  FilesAreThere'
<1>1. Elsewhere(e) /\ pc[e] = "mark" /\ UNCHANGED <<object, staging>>
  BY ExecutionsGoElsewhere DEF MarkBlobReady
<1>2. Output(e) \in Outputs
  BY <1>1, OutputTyped
<1>3. /\ \A c \in Outputs : c # Output(e) => blob'[c] = blob[c]
      /\ \/ OwnsBlob(e) /\ blob'[Output(e)].state = "ready"
         \/ blob' = blob
  BY <1>2 DEF MarkBlobReady, TypeOK, StorageTypeOK, BlobRow
<1>4. ReadyHasObject'
  BY <1>1, <1>2, <1>3 DEF FilesAreThere, ReadyHasObject, OwnerHasLinked
<1>5. ASSUME NEW f \in Execs, pc'[f] \in {"unstage", "mark"}, OwnsBlob(f)' PROVE OwnsBlob(f)
  <2>1. f # e /\ job'[f] = job[f] /\ pc'[f] = pc[f]
    BY <1>1, <1>5 DEF Elsewhere
  <2>2. Output(f) \in Outputs /\ Output(f)' = Output(f)
    BY <1>5, <2>1, OutputTyped DEF Output
  <2> QED
    BY <1>3, <1>5, <2>1, <2>2 DEF OwnsBlob
<1>6. OwnerHasLinked'
  BY <1>1, <1>5, LinkedGoesOn DEF FilesAreThere, Elsewhere
<1>7. StagingIsOwn'
  BY <1>1, StagingGoesOn DEF FilesAreThere, Elsewhere
<1> QED
  BY <1>4, <1>6, <1>7 DEF FilesAreThere

\* The cleaner takes the row away from its owner before it touches the object, and the
\* staging file of an active attempt it leaves alone.
LEMMA CleanersKeepFiles ==
    ASSUME TypeOK, JobHasAttempt, JobHasRow, RowsGoOn, FilesAreThere, NEW b \in Outputs,
           \/ ClaimOrphan(b) \/ DeleteObject(b) \/ PurgeRow(b)
           \/ ReconcileObject(b) \/ CleanStaging(b)
    PROVE  FilesAreThere'
<1>1. UNCHANGED <<pc, job>>
  BY DEF ClaimOrphan, DeleteObject, PurgeRow, ReconcileObject, CleanStaging, execVars
<1>2. CASE CleanStaging(b)
  <2>1. UNCHANGED <<blob, object>> /\ staging' = staging \ {b} /\ attempt[b[1]].state # "active"
    BY <1>2 DEF CleanStaging
  <2>2. ReadyHasObject'
    BY <2>1 DEF FilesAreThere, ReadyHasObject
  <2>3. \A f \in Execs : OwnsBlob(f)' => OwnsBlob(f)
    BY <1>1, <2>1 DEF Output, OwnsBlob
  <2>4. OwnerHasLinked'
    BY <1>1, <2>1, <2>3, LinkedGoesOn DEF FilesAreThere
  <2>5. \A f \in Execs : attempt[job[f].attempt].state = "active" => Output(f) # b
    BY <2>1 DEF Output
  <2>6. StagingIsOwn'
    BY <1>1, <2>1, <2>5, StagingGoesOn DEF FilesAreThere
  <2> QED
    BY <2>2, <2>4, <2>6 DEF FilesAreThere
<1>3. CASE ClaimOrphan(b) \/ DeleteObject(b) \/ PurgeRow(b) \/ ReconcileObject(b)
  <2>1. /\ staging' = staging
        /\ blob'[b].state \notin {"ready", "creating"}
        /\ \A c \in Outputs : c # b => blob'[c] = blob[c] /\ (c \in object => c \in object')
    BY <1>3 DEF ClaimOrphan, DeleteObject, PurgeRow, ReconcileObject, NoBlob, TypeOK, StorageTypeOK,
                BlobRow
  <2>2. ReadyHasObject'
    BY <2>1 DEF FilesAreThere, ReadyHasObject
  <2>3. ASSUME NEW f \in Execs, pc'[f] \in {"unstage", "mark"}, OwnsBlob(f)'
        PROVE  OwnsBlob(f) /\ (Output(f) \in object => Output(f) \in object')
    <3>1. Output(f) \in Outputs /\ Output(f)' = Output(f)
      BY <1>1, <2>3, OutputTyped DEF Output
    <3>2. Output(f) # b
      BY <2>1, <2>3, <3>1 DEF OwnsBlob
    <3> QED
      BY <1>1, <2>1, <2>3, <3>1, <3>2 DEF OwnsBlob
  <2>4. OwnerHasLinked'
    BY <1>1, <2>3, LinkedGoesOn DEF FilesAreThere
  <2>5. StagingIsOwn'
    BY <1>1, <2>1, StagingGoesOn DEF FilesAreThere
  <2> QED
    BY <2>2, <2>4, <2>5 DEF FilesAreThere
<1> QED
  BY <1>2, <1>3

LEMMA NextKeepsFiles ==
    ASSUME TypeOK, JobHasAttempt, JobHasRow, RowsGoOn, FilesAreThere, Next
    PROVE  FilesAreThere'
<1>1. ASSUME NEW e \in Execs, ExecStep(e) PROVE FilesAreThere'
  BY <1>1, ExecutionsAreQuiet, QuietKeepsFiles, ClaimKeepsFiles, PutKeepsFiles, LinkKeepsFiles,
     UnstageKeepsFiles, MarkKeepsFiles DEF ExecStep
<1>2. ASSUME NEW e \in Execs, Disturbance(e) PROVE FilesAreThere'
  BY <1>2, ExecutionsAreQuiet, OthersAreQuiet, QuietKeepsFiles DEF Disturbance
<1>3. ASSUME NEW b \in Outputs, BlobLeaseExpires(b) \/ CleanerStep(b) PROVE FilesAreThere'
  BY <1>3, OthersAreQuiet, QuietKeepsFiles, CleanersKeepFiles DEF CleanerStep
<1>4. CASE \/ \E x \in Artifacts : AddArtifact(x) \/ RemoveArtifact(x)
           \/ \E e \in Execs, a \in Attempts, k \in Keys \cup {None} : StartPublish(e, a, k)
           \/ \E k \in Keys : RejectPublish(k) \/ ForgetAnswer(k)
           \/ \E a \in Attempts : LeaseExpires(a) \/ RetryDue(a)
           \/ \E e \in Execs, a \in Attempts : TakeLease(e, a)
  BY <1>4, OthersAreQuiet, QuietKeepsFiles
<1> QED
  BY <1>1, <1>2, <1>3, <1>4 DEF Next

LEMMA NextKeepsOutputs ==
    ASSUME TypeOK, JobHasAttempt, Consistent, OutputsAreKept, Next
    PROVE  OutputsAreKept'
<1>1. JobHasRow /\ CompletedHasManifest /\ RecordedOutputsDurable /\ FilesAreThere
  BY DEF OutputsAreKept, RecordedOutputsDurable, FilesAreThere, ReadyHasObject
<1>2. RowsGoOn
  BY <1>1, NextRowsGoOn
<1>3. JobHasRow' /\ FilesAreThere'
  BY <1>1, <1>2, NextKeepsRow, NextKeepsFiles
<1>4. CompletedHasManifest'
  BY <1>2 DEF RowsGoOn, CompletedHasManifest
<1>5. \A a \in Attempts : Kept(a)' => \A b \in OutputsOf(a) : blob'[b].state = "ready"
  BY <1>1, <1>2, NextKeepsRecorded
<1>6. RecordedOutputsDurable'
  BY <1>3, <1>5 DEF FilesAreThere, ReadyHasObject, Kept, RecordedOutputsDurable
<1> QED
  BY <1>3, <1>4, <1>6 DEF OutputsAreKept, FilesAreThere

-----------------------------------------------------------------------------
(* The inductive invariant                                                 *)

LEMMA InitIInv == Init => IInv
<1> SUFFICES ASSUME Init PROVE IInv
  OBVIOUS
<1>1. TypeOK
  BY Enumerations, Defaults DEF Init, TypeOK, DatabaseTypeOK, StorageTypeOK, ExecTypeOK
<1>2. JobHasAttempt
  BY DEF Init, JobHasAttempt
<1>3. ReleaseMatchesAttempt /\ PendingIffActive /\ ContentIsSnapshot
  BY DEF Init, ReleaseMatchesAttempt, PendingIffActive, ContentIsSnapshot, NoAttempt
<1>4. RecordedOutputsDurable
  BY DEF Init, RecordedOutputsDurable, NoAttempt, NoBlob
<1>5. JobHasRow /\ CompletedHasManifest /\ OwnerHasLinked /\ StagingIsOwn
  BY DEF Init, JobHasRow, CompletedHasManifest, OwnerHasLinked, StagingIsOwn, NoAttempt
<1> QED
  BY <1>1, <1>2, <1>3, <1>4, <1>5 DEF IInv, OutputsAreKept

LEMMA StepIInv == IInv /\ [Next]_vars => IInv'
<1> SUFFICES ASSUME IInv, [Next]_vars PROVE IInv'
  OBVIOUS
<1>1. TypeOK /\ JobHasAttempt /\ Consistent /\ OutputsAreKept
  BY DEF IInv, Consistent
<1>2. CASE Next
  <2>1. TypeOK' /\ JobHasAttempt' /\ Consistent' /\ OutputsAreKept'
    BY <1>1, <1>2, NextTyped, NextKeepsAttempt, NextKeepsConsistent, NextKeepsOutputs
  <2> QED
    BY <2>1 DEF IInv, Consistent
<1>3. CASE UNCHANGED vars
  <2>1. UNCHANGED <<release, content, attempt, idem, manifest, blob, object, staging,
                    pc, job, faults>>
    BY <1>3 DEF vars, databaseVars, storageVars, execVars
  <2>2. TypeOK'
    BY <1>1, <2>1 DEF TypeOK, DatabaseTypeOK, StorageTypeOK, ExecTypeOK
  <2>3. JobHasAttempt'
    BY <1>1, <2>1 DEF JobHasAttempt
  <2>4. Consistent'
    BY <1>1, <2>1, UndecidedKeepsConsistent DEF Undecided
  <2>5. RecordedOutputsDurable' /\ JobHasRow' /\ CompletedHasManifest'
    BY <1>1, <2>1 DEF OutputsAreKept, RecordedOutputsDurable, JobHasRow, CompletedHasManifest
  <2>6. \A e \in Execs : Output(e)' = Output(e) /\ (OwnsBlob(e)' => OwnsBlob(e))
    BY <2>1 DEF Output, OwnsBlob
  <2>7. OwnerHasLinked' /\ StagingIsOwn'
    BY <1>1, <2>1, <2>6 DEF OutputsAreKept, OwnerHasLinked, StagingIsOwn
  <2> QED
    BY <2>2, <2>3, <2>4, <2>5, <2>7 DEF IInv, Consistent, OutputsAreKept
<1> QED
  BY <1>2, <1>3

\* The conjunction that every reachable state satisfies.
THEOREM InductiveInvariant == Spec => []IInv
<1> QED
  BY InitIInv, StepIInv, PTL DEF Spec

\* Rows, files and executions only ever hold values of their types: in
\* particular no takeover drives retry_count beyond its cap.
THEOREM TypeCorrect == Spec => []TypeOK
<1>1. IInv => TypeOK
  BY DEF IInv
<1> QED
  BY <1>1, InductiveInvariant, PTL

\* The release row and its attempts always tell the same story, so at most one
\* attempt of a release is active and a manifest row means published.
THEOREM ReleaseAndAttemptAgree == Spec => []ReleaseMatchesAttempt
<1>1. IInv => ReleaseMatchesAttempt
  BY DEF IInv
<1> QED
  BY <1>1, InductiveInvariant, PTL

\* An idempotency record is pending exactly while an attempt that will complete
\* it is active, whichever of its executions completes it.
THEOREM PendingAnswersHaveAttempts == Spec => []PendingIffActive
<1>1. IInv => PendingIffActive
  BY DEF IInv
<1> QED
  BY <1>1, InductiveInvariant, PTL

\* What an attempt has recorded stays readable until the attempt ends, and for good once it
\* is published, whatever stalled executions, takeovers and cleaners do to rows and files.
THEOREM OutputsAreDurable == Spec => []RecordedOutputsDurable
<1>1. IInv => RecordedOutputsDurable
  BY DEF IInv, OutputsAreKept
<1> QED
  BY <1>1, InductiveInvariant, PTL

\* Nobody removes the staging file of an execution that holds its attempt before that
\* execution has promoted it.
THEOREM HoldersFindStaging == Spec => []HolderFindsItsStaging
<1>1. IInv => HolderFindsItsStaging
  BY DEF IInv, OutputsAreKept, StagingIsOwn, HolderFindsItsStaging, Holds
<1> QED
  BY <1>1, InductiveInvariant, PTL

-----------------------------------------------------------------------------
(* What no step may do                                                     *)

\* A published release has no active attempt left, so nothing can be decided.
LEMMA PublishedStep ==
    ASSUME IInv, Next, release.state = "published"
    PROVE  UNCHANGED <<release, content, manifest>>
<1>1. TypeOK /\ JobHasAttempt /\ ReleaseMatchesAttempt
  BY DEF IInv
<1>2. \A a \in Attempts : attempt[a].state # "active"
  BY <1>1 DEF ReleaseMatchesAttempt
<1>3. ASSUME Undecided PROVE UNCHANGED <<release, content, manifest>>
  BY <1>3 DEF Undecided
<1>4. ASSUME NEW e \in Execs, ExecStep(e) \/ Disturbance(e)
      PROVE  UNCHANGED <<release, content, manifest>>
  <2>1. CASE Deciding(e)
    BY <1>1, <1>2, <1>3, <2>1, DecisionIsFenced
  <2>2. CASE ~Deciding(e)
    BY <1>1, <1>3, <1>4, <2>2, ExecutionsUndecided
  <2> QED
    BY <2>1, <2>2
<1>5. CASE \/ \E a \in Attempts : LeaseExpires(a) \/ RetryDue(a)
           \/ \E e \in Execs, a \in Attempts : TakeLease(e, a)
           \/ \E b \in Outputs : BlobLeaseExpires(b) \/ CleanerStep(b)
  BY <1>1, <1>3, <1>5, OthersUndecided
<1>6. CASE \/ \E x \in Artifacts : AddArtifact(x) \/ RemoveArtifact(x)
           \/ \E e \in Execs, a \in Attempts, k \in Keys \cup {None} : StartPublish(e, a, k)
  BY <1>6 DEF AddArtifact, RemoveArtifact, StartPublish
<1>7. CASE \E k \in Keys : RejectPublish(k) \/ ForgetAnswer(k)
  BY <1>7 DEF RejectPublish, ForgetAnswer
<1> QED
  BY <1>4, <1>5, <1>6, <1>7 DEF Next

\* A published release never changes, whatever executions, retries and cleaners
\* are still running: the state, the artifacts and the manifest row stay.
THEOREM PublishedStays == Spec => PublishedIsFinal
<1>1. IInv /\ [Next]_vars =>
          [release.state = "published" => UNCHANGED <<release, content, manifest>>]_vars
  BY PublishedStep
<1> QED
  BY <1>1, InductiveInvariant, PTL DEF Spec, PublishedIsFinal

\* The decisions of an attempt are taken by an execution that passed the fence.
LEMMA DecidingIsFenced ==
    ASSUME IInv, Next, NEW a \in Attempts, Decided(a)
    PROVE  \E e \in Execs : Deciding(e) /\ job[e].attempt = a /\ Holds(e)
<1>1. TypeOK /\ JobHasAttempt /\ Consistent
  BY DEF IInv, Consistent
<1>2. ASSUME Undecided PROVE FALSE
  BY <1>2 DEF Undecided, Decided
<1>3. ASSUME NEW e \in Execs, Deciding(e)
      PROVE  job[e].attempt = a /\ Holds(e)
  BY <1>1, <1>3 DEF Deciding, FinalizePublish, MarkPublishFailed, AbortPublishAttempt, Decided,
                    TypeOK, DatabaseTypeOK
<1>4. ASSUME NEW e \in Execs, NEW c \in Attempts, NEW k \in Keys \cup {None},
             StartPublish(e, c, k)
      PROVE  FALSE
  BY <1>1, <1>4 DEF StartPublish, Decided, Consistent, ReleaseMatchesAttempt
<1>5. ASSUME NEW k \in Keys, RejectPublish(k) \/ ForgetAnswer(k) PROVE FALSE
  BY <1>1, <1>5 DEF RejectPublish, ForgetAnswer, Decided, TypeOK, DatabaseTypeOK, AttemptRow
<1>6. ASSUME NEW x \in Artifacts, AddArtifact(x) \/ RemoveArtifact(x) PROVE FALSE
  BY <1>6 DEF AddArtifact, RemoveArtifact, Decided
<1>7. ASSUME NEW e \in Execs, ExecStep(e) \/ Disturbance(e), ~Deciding(e) PROVE FALSE
  BY <1>1, <1>2, <1>7, ExecutionsUndecided
<1>8. CASE \/ \E c \in Attempts : LeaseExpires(c) \/ RetryDue(c)
           \/ \E e \in Execs, c \in Attempts : TakeLease(e, c)
           \/ \E b \in Outputs : BlobLeaseExpires(b) \/ CleanerStep(b)
  BY <1>1, <1>2, <1>8, OthersUndecided
<1>9. \E e \in Execs : Deciding(e)
  BY <1>4, <1>5, <1>6, <1>7, <1>8 DEF Next
<1> QED
  BY <1>3, <1>9

\* Only the execution whose owner name and generation are in the row records
\* outputs or decides the attempt: one that was taken over changes nothing.
THEOREM HolderDecides == Spec => OnlyLeaseHolderDecides
<1>1. ASSUME IInv, Next, NEW a \in Attempts, Decided(a) \/ NewlyStored(a)
      PROVE  \E e \in Execs : /\ pc'[e] # pc[e]
                               /\ job[e].attempt = a
                               /\ attempt[a].owner = e
                               /\ attempt[a].gen = job[e].gen
  <2>1. TypeOK /\ JobHasAttempt
    BY <1>1 DEF IInv
  <2>2. PICK e \in Execs : /\ RecordPublishStorage(e) \/ Deciding(e)
                           /\ job[e].attempt = a
                           /\ Holds(e)
    BY <1>1, <2>1, StoringIsFenced, DecidingIsFenced
  <2>3. pc'[e] # pc[e]
    BY <2>1, <2>2 DEF RecordPublishStorage, Deciding, FinalizePublish, MarkPublishFailed,
         AbortPublishAttempt, Goto, Leave, Fail, TypeOK, ExecTypeOK
  <2> QED
    BY <2>2, <2>3 DEF Holds
<1>2. IInv /\ [Next]_vars =>
          [\A a \in Attempts : Decided(a) \/ NewlyStored(a) =>
              \E e \in Execs : /\ pc'[e] # pc[e]
                               /\ job[e].attempt = a
                               /\ attempt[a].owner = e
                               /\ attempt[a].gen = job[e].gen]_vars
  BY <1>1
<1> QED
  BY <1>2, InductiveInvariant, PTL DEF Spec, OnlyLeaseHolderDecides

-----------------------------------------------------------------------------
(* The lifecycle that clients see                                          *)

\* What the lifecycle calls visible.
Visible == IF manifest = None THEN None ELSE attempt[manifest].snapshot

\* A step that decides nothing is a stutter of the lifecycle.
LEMMA UndecidedStutters ==
    ASSUME TypeOK, Undecided
    PROVE  UNCHANGED Lifecycle!vars
<1>1. Visible' = Visible
  BY NoneAssumption DEF TypeOK, DatabaseTypeOK, Undecided, Visible
<1> QED
  BY <1>1 DEF Lifecycle!vars, Undecided, Visible

\* The key of the one active attempt is the one pending key.
LEMMA AnswerOfActive ==
    ASSUME TypeOK, Consistent, NEW a \in Attempts, attempt[a].state = "active", NEW status
    PROVE  Answered(a, status) = Lifecycle!Answer(status)
<1>1. \A c \in Attempts : attempt[c].state = "active" => c = a
  BY DEF Consistent, ReleaseMatchesAttempt
<1>2. \A k \in Keys : idem[k] = "pending" <=> k = attempt[a].key
  BY <1>1 DEF Consistent, PendingIffActive
<1> QED
  BY <1>2 DEF Answered, Lifecycle!Answer

\* The decision of an execution is one step of the lifecycle.
LEMMA DecisionIsLifecycleStep ==
    ASSUME TypeOK, JobHasAttempt, Consistent, NEW e \in Execs, Deciding(e), ~Undecided
    PROVE  Lifecycle!Publish \/ Lifecycle!GiveUp \/ Lifecycle!BackToDraft
<1>1. PICK a \in Attempts :
          /\ attempt[a].state = "active"
          /\ release.current = a
          /\ \A c \in Attempts : c # a => attempt'[c] = attempt[c]
          /\ attempt'[a].snapshot = attempt[a].snapshot
          /\ content' = content
          /\ \/ /\ release' = [release EXCEPT !.state = "published"]
                /\ manifest' = a
                /\ idem' = Answered(a, "200")
             \/ /\ release' = [release EXCEPT !.state = "publish_failed"]
                /\ manifest' = manifest
                /\ idem' = Answered(a, "500")
             \/ /\ release' = [state |-> "draft", current |-> None]
                /\ manifest' = manifest
                /\ idem' = Answered(a, "503")
  BY DecisionIsFenced
<1>2. release.state = "publishing" /\ manifest = None
  BY <1>1 DEF Consistent, ReleaseMatchesAttempt
<1>3. attempt'[a].snapshot = content
  BY <1>1, <1>2 DEF Consistent, ContentIsSnapshot
<1>4. Visible = None /\ (manifest' = a => Visible' = content)
  BY <1>1, <1>2, <1>3, NoneAssumption DEF Visible
<1>5. \A status : Answered(a, status) = Lifecycle!Answer(status)
  BY <1>1, AnswerOfActive
<1>6. CASE manifest' = a
  <2>1. release'.state = "published" /\ idem' = Lifecycle!Answer("200")
    BY <1>1, <1>2, <1>5, <1>6, NoneAssumption DEF TypeOK, DatabaseTypeOK
  <2> QED
    BY <1>1, <1>2, <1>4, <1>6, <2>1 DEF Lifecycle!Publish, Visible
<1>7. CASE manifest' = manifest
  <2>1. Visible' = None
    BY <1>2, <1>7 DEF Visible
  <2>2. \/ release'.state = "publish_failed" /\ idem' = Lifecycle!Answer("500")
        \/ release'.state = "draft" /\ idem' = Lifecycle!Answer("503")
    BY <1>1, <1>2, <1>5, <1>7, NoneAssumption DEF TypeOK, DatabaseTypeOK
  <2> QED
    BY <1>1, <1>2, <1>4, <2>1, <2>2 DEF Lifecycle!GiveUp, Lifecycle!BackToDraft, Visible
<1> QED
  BY <1>1, <1>6, <1>7

\* Requests are steps of the lifecycle of the same kind.
LEMMA RequestIsLifecycleStep ==
    ASSUME TypeOK, Consistent,
           \/ \E x \in Artifacts : AddArtifact(x) \/ RemoveArtifact(x)
           \/ \E e \in Execs, a \in Attempts, k \in Keys \cup {None} : StartPublish(e, a, k)
           \/ \E k \in Keys : RejectPublish(k) \/ ForgetAnswer(k)
    PROVE  Lifecycle!Next
<1>1. ASSUME NEW x \in Artifacts, AddArtifact(x) \/ RemoveArtifact(x) PROVE Lifecycle!Edit
  BY <1>1 DEF AddArtifact, RemoveArtifact, Lifecycle!Edit, TypeOK, DatabaseTypeOK
<1>2. ASSUME NEW e \in Execs, NEW a \in Attempts, NEW k \in Keys \cup {None},
             StartPublish(e, a, k)
      PROVE  Lifecycle!Accept(k)
  <2>1. manifest = None /\ manifest' = None
    BY <1>2 DEF StartPublish, Consistent, ReleaseMatchesAttempt
  <2>2. UNCHANGED Visible
    BY <2>1 DEF Visible
  <2> QED
    BY <1>2, <2>2 DEF StartPublish, Lifecycle!Accept, Visible
<1>3. ASSUME NEW k \in Keys, RejectPublish(k) PROVE Lifecycle!Reject(k)
  BY <1>3 DEF RejectPublish, Lifecycle!Reject
<1>4. ASSUME NEW k \in Keys, ForgetAnswer(k) PROVE Lifecycle!Forget(k)
  <2>1. \A c \in Attempts : attempt'[c].snapshot = attempt[c].snapshot
    BY <1>4 DEF ForgetAnswer, TypeOK, DatabaseTypeOK, AttemptRow
  <2>2. UNCHANGED Visible
    BY <1>4, <2>1, NoneAssumption DEF ForgetAnswer, Visible, TypeOK, DatabaseTypeOK
  <2> QED
    BY <1>4, <2>2 DEF ForgetAnswer, Lifecycle!Forget, Visible
<1> QED
  BY <1>1, <1>2, <1>3, <1>4 DEF Lifecycle!Next

\* The detailed steps, with their leases, attempts and files, are together the
\* lifecycle of PublishLifecycle: the release is published in one step with
\* exactly the content of its draft, and every accepted request is answered by
\* the step that ends the attempt it started.
THEOREM PublishingImplementsLifecycle == Spec => ImplementsLifecycle
<1>1. Init => Lifecycle!Init
  BY DEF Init, Lifecycle!Init
<1>2. ASSUME IInv, Next PROVE Lifecycle!Next \/ UNCHANGED Lifecycle!vars
  <2>1. TypeOK /\ JobHasAttempt /\ Consistent
    BY <1>2 DEF IInv, Consistent
  <2>2. ASSUME NEW e \in Execs, ExecStep(e) \/ Disturbance(e)
        PROVE  Lifecycle!Next \/ UNCHANGED Lifecycle!vars
    <3>1. CASE Undecided
      BY <2>1, <3>1, UndecidedStutters
    <3>2. CASE Deciding(e) /\ ~Undecided
      BY <2>1, <3>2, DecisionIsLifecycleStep DEF Lifecycle!Next
    <3> QED
      BY <2>1, <2>2, <3>1, <3>2, ExecutionsUndecided
  <2>3. CASE \/ \E a \in Attempts : LeaseExpires(a) \/ RetryDue(a)
             \/ \E e \in Execs, a \in Attempts : TakeLease(e, a)
             \/ \E b \in Outputs : BlobLeaseExpires(b) \/ CleanerStep(b)
    BY <2>1, <2>3, OthersUndecided, UndecidedStutters
  <2>4. CASE \/ \E x \in Artifacts : AddArtifact(x) \/ RemoveArtifact(x)
             \/ \E e \in Execs, a \in Attempts, k \in Keys \cup {None} : StartPublish(e, a, k)
             \/ \E k \in Keys : RejectPublish(k) \/ ForgetAnswer(k)
    BY <2>1, <2>4, RequestIsLifecycleStep
  <2> QED
    BY <1>2, <2>2, <2>3, <2>4 DEF Next
<1>3. ASSUME UNCHANGED vars PROVE UNCHANGED Lifecycle!vars
  BY <1>3 DEF vars, databaseVars, Lifecycle!vars
<1>4. IInv /\ [Next]_vars => [Lifecycle!Next]_(Lifecycle!vars)
  BY <1>2, <1>3
<1> QED
  BY <1>1, <1>4, InductiveInvariant, PTL DEF Spec, ImplementsLifecycle, Lifecycle!Spec

=============================================================================
