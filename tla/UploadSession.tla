---------------------------- MODULE UploadSession ----------------------------
(***************************************************************************)
(* Uploads to one path of a repository: the upload_sessions row of each,   *)
(* its staging file, the artifact row they compete for, and the cleanup    *)
(* passes of the workers that end abandoned sessions and remove staging    *)
(* files nobody needs.                                                     *)
(*                                                                         *)
(* Source: internal/artifact/service.go (Upload),                          *)
(* internal/jobs/upload_cleanup.go, internal/storage/filesystem.go and     *)
(* artifact.sql.  Paths share neither sessions nor files.  The claim of    *)
(* the blob is an interface here (ready, owned or an error): BlobStore     *)
(* models it.                                                              *)
(*                                                                         *)
(* Time is abstracted to flags: whether a lease has expired, whether the   *)
(* hard deadline has passed, whether a file is older than the retention.   *)
(* A process may stall between any two steps for as long as it likes.      *)
(***************************************************************************)
EXTENDS Naturals

CONSTANTS
    Uploads,     \* requests; also their session ids and first lease owners
    Cleaners,    \* cleanup passes
    Deploy,      \* a checksum deploy, as the creator of the artifact
    None,        \* no owner, no artifact
    MaxFaults,   \* how many disturbances of the passes and commits may happen
    FaultKinds   \* which disturbances the environment may cause

ASSUME OwnersAssumption ==
    /\ Uploads \cap Cleaners = {}
    /\ None \notin Uploads \cup Cleaners
    /\ Deploy \notin Uploads \cup {None}
ASSUME MaxFaultsAssumption == MaxFaults \in Nat
ASSUME FaultKindsAssumption == FaultKinds \subseteq {"stall", "error", "commit"}

VARIABLES
    session,    \* the upload_sessions row of each upload
    artifact,   \* who created the artifacts row of the path, None if nobody
    staging,    \* the uploads whose staging file exists
    old,        \* those whose file is older than the orphan retention
    pc,         \* where each upload is
    pass,       \* where each cleanup pass is, and at which session
    faults      \* disturbances so far

rowVars == <<session, artifact>>
fileVars == <<staging, old>>
vars == <<rowVars, fileVars, pc, pass, faults>>

-----------------------------------------------------------------------------
(* State                                                                   *)

\* leased: lease_expires_at lies ahead.  ended: hard_deadline has passed.
\* cleaned: cleanup_completed_at is set.
Session == [state: {"none", "active", "completed", "failed"},
            owner: Uploads \cup Cleaners \cup {None}, gen: Nat,
            leased: BOOLEAN, ended: BOOLEAN, cleaned: BOOLEAN]
NoSession == [state |-> "none", owner |-> None, gen |-> 0,
              leased |-> FALSE, ended |-> FALSE, cleaned |-> FALSE]

\* "stored" is an upload answered with success, "refused" any other end of it.
Labels == {"check", "create", "put", "write", "claim", "unstage", "link", "unlink",
           "mark", "finalize", "fail", "failKeyless", "delete", "cleanup",
           "stored", "refused"}

Pass == [at: {"idle", "remove", "complete", "check", "sweep"},
         upload: Uploads \cup {None}, gen: Nat]
IdlePass == [at |-> "idle", upload |-> None, gen |-> 0]

TypeOK ==
    /\ session \in [Uploads -> Session]
    /\ artifact \in Uploads \cup {Deploy, None}
    /\ staging \in SUBSET Uploads
    /\ old \in SUBSET Uploads
    /\ pc \in [Uploads -> Labels]
    /\ pass \in [Cleaners -> Pass]
    /\ faults \in Nat

Init ==
    /\ session = [u \in Uploads |-> NoSession]
    /\ artifact = None
    /\ staging = {}
    /\ old = {}
    /\ pc = [u \in Uploads |-> "check"]
    /\ pass = [c \in Cleaners |-> IdlePass]
    /\ faults = 0

Goto(u, label) == pc' = [pc EXCEPT ![u] = label]

RemoveFile(u) ==
    /\ staging' = staging \ {u}
    /\ old' = old \ {u}

Disturbed(kind) ==
    /\ kind \in FaultKinds
    /\ faults < MaxFaults
    /\ faults' = faults + 1

-----------------------------------------------------------------------------
(* The stream                                                              *)

\* The path is looked up outside any transaction.
CheckPath(u) ==
    /\ pc[u] = "check"
    /\ Goto(u, IF artifact = None THEN "create" ELSE "refused")
    /\ UNCHANGED <<rowVars, fileVars, pass, faults>>

CreateUploadSession(u) ==
    /\ pc[u] = "create"
    /\ session' = [session EXCEPT ![u] =
           [NoSession EXCEPT !.state = "active", !.owner = u, !.leased = TRUE]]
    /\ Goto(u, "put")
    /\ UNCHANGED <<artifact, fileVars, pass, faults>>

\* PutStaging creates the file exclusively; the session id makes its name new.
PutStaging(u) ==
    /\ pc[u] = "put"
    /\ u \notin staging
    /\ staging' = staging \cup {u}
    /\ Goto(u, "write")
    /\ UNCHANGED <<rowVars, old, pass, faults>>

\* Mutant: whoever has the session, the lease is the upload's again.
HoldsAnyGeneration(u) == session[u].state = "active"

\* The fence of every update of an upload: it never owns a later generation.
Holds(u) ==
    /\ session[u].state = "active"
    /\ session[u].owner = u
    /\ session[u].gen = 0

\* Renewed between two reads.  The context of the upload ends with the hard
\* deadline, and with it the reads and the heartbeat.
Heartbeat(u) ==
    /\ pc[u] = "write"
    /\ ~session[u].ended
    /\ Holds(u)
    /\ ~session[u].leased
    /\ session' = [session EXCEPT ![u].leased = TRUE]
    /\ UNCHANGED <<artifact, fileVars, pc, pass, faults>>

PutDone(u) ==
    /\ pc[u] = "write"
    /\ Goto(u, "claim")
    /\ UNCHANGED <<rowVars, fileVars, pass, faults>>

\* The client idles, the length differs, a heartbeat is refused or the deadline
\* passes: PutStaging removes its file by name, whether it is still there or not.
PutFails(u) ==
    /\ pc[u] = "write"
    /\ RemoveFile(u)
    /\ Goto(u, "fail")
    /\ UNCHANGED <<rowVars, pass, faults>>

-----------------------------------------------------------------------------
(* Storing the content                                                     *)

\* blob.Claim finds the content ready, or lets the upload create it.
ClaimBlob(u) ==
    /\ pc[u] = "claim"
    /\ \E label \in {"unstage", "link"} : Goto(u, label)
    /\ UNCHANGED <<rowVars, fileVars, pass, faults>>

\* Delete of the staging file of a content that exists already.
RemoveDuplicate(u) ==
    /\ pc[u] = "unstage"
    /\ RemoveFile(u)
    /\ Goto(u, "finalize")
    /\ UNCHANGED <<rowVars, pass, faults>>

\* Promote looks at the staging file, links it and removes the name.
LinkObject(u) ==
    /\ pc[u] = "link"
    /\ u \in staging
    /\ Goto(u, "unlink")
    /\ UNCHANGED <<rowVars, fileVars, pass, faults>>

RemovePromoted(u) ==
    /\ pc[u] = "unlink"
    /\ RemoveFile(u)
    /\ Goto(u, "mark")
    /\ UNCHANGED <<rowVars, pass, faults>>

MarkReady(u) ==
    /\ pc[u] = "mark"
    /\ Goto(u, "finalize")
    /\ UNCHANGED <<rowVars, fileVars, pass, faults>>

\* A wrong length or checksum, a blob claimed by others, a missing staging file,
\* an error of the storage or of the database.
StoreFails(u) ==
    /\ pc[u] \in {"claim", "unstage", "link", "unlink", "mark"}
    /\ Goto(u, "fail")
    /\ UNCHANGED <<rowVars, fileVars, pass, faults>>

-----------------------------------------------------------------------------
(* The artifact                                                            *)

\* finalizeUpload: the artifact, unique for its path, and the end of the session
\* in one transaction.
Finalized(u) ==
    /\ pc[u] = "finalize"
    /\ artifact = None
    /\ Holds(u)
    /\ artifact' = u
    /\ session' = [session EXCEPT ![u].state = "completed", ![u].cleaned = TRUE]

FinalizeUpload(u) ==
    /\ Finalized(u)
    /\ Goto(u, "stored")
    /\ UNCHANGED <<fileVars, pass, faults>>

\* The commit succeeds and its answer is lost: the upload fails what it stored.
CommitUnknown(u) ==
    /\ Finalized(u)
    /\ Disturbed("commit")
    /\ Goto(u, "failKeyless")
    /\ UNCHANGED <<fileVars, pass>>

\* The path is taken, the session lost, the blob gone or the database fails.
FinalizeFails(u) ==
    /\ pc[u] = "finalize"
    /\ Goto(u, "failKeyless")
    /\ UNCHANGED <<rowVars, fileVars, pass, faults>>

\* A checksum deploy of a content that is stored already is one transaction.
ChecksumDeploy ==
    /\ artifact = None
    /\ artifact' = Deploy
    /\ UNCHANGED <<session, fileVars, pc, pass, faults>>

-----------------------------------------------------------------------------
(* Failure of an upload                                                    *)

\* failUploadSession.  After finalizeUpload it is given no key and leaves the
\* cleanup to the workers.
AfterFailing(u) == Goto(u, IF pc[u] = "fail" THEN "delete" ELSE "refused")

\* Mutant: the state of the session is not compared.
FailAnyState(u) ==
    /\ pc[u] \in {"fail", "failKeyless"}
    /\ session' = IF session[u].owner = u /\ session[u].gen = 0
                  THEN [session EXCEPT ![u].state = "failed"]
                  ELSE session
    /\ AfterFailing(u)
    /\ UNCHANGED <<artifact, fileVars, pass, faults>>

FailUploadSession(u) ==
    /\ pc[u] \in {"fail", "failKeyless"}
    /\ session' = IF Holds(u) THEN [session EXCEPT ![u].state = "failed"] ELSE session
    /\ AfterFailing(u)
    /\ UNCHANGED <<artifact, fileVars, pass, faults>>

\* Its error is ignored: with a client that is gone the context is, too.
FailureUnrecorded(u) ==
    /\ pc[u] \in {"fail", "failKeyless"}
    /\ AfterFailing(u)
    /\ UNCHANGED <<rowVars, fileVars, pass, faults>>

DeleteStaging(u) ==
    /\ pc[u] = "delete"
    /\ RemoveFile(u)
    /\ Goto(u, "cleanup")
    /\ UNCHANGED <<rowVars, pass, faults>>

\* The WHERE clause of CompleteUploadCleanup, but for the fence.
Pending(u) == session[u].state \in {"active", "failed"} /\ ~session[u].cleaned

CompleteOwnCleanup(u) ==
    /\ pc[u] = "cleanup"
    /\ session' = IF Pending(u) /\ session[u].owner = u /\ session[u].gen = 0
                  THEN [session EXCEPT ![u].state = "failed", ![u].cleaned = TRUE]
                  ELSE session
    /\ Goto(u, "refused")
    /\ UNCHANGED <<artifact, fileVars, pass, faults>>

\* The request ends here: its process dies, or a deletion or update fails.
Abandon(u) ==
    /\ pc[u] \notin {"stored", "refused"}
    /\ Goto(u, "refused")
    /\ UNCHANGED <<rowVars, fileVars, pass, faults>>

-----------------------------------------------------------------------------
(* Cleanup passes                                                          *)

\* Mutants: sessions whose upload may still run; only those that did not fail.
ClaimableWithoutDeadline(u) == Pending(u) /\ ~session[u].leased
ClaimableActive(u) ==
    Pending(u) /\ session[u].state = "active" /\ ~session[u].leased /\ session[u].ended

\* The WHERE clause of ClaimExpiredUploadSession.
Claimable(u) == Pending(u) /\ ~session[u].leased /\ session[u].ended

PassGoes(c, at) == pass' = [pass EXCEPT ![c].at = at]
PassEnds(c) == pass' = [pass EXCEPT ![c] = IdlePass]

\* The owner is a fresh UUID in the code; the generation tells claims apart.
ClaimExpiredUploadSession(c, u) ==
    LET next == session[u].gen + 1 IN
    /\ pass[c].at = "idle"
    /\ Claimable(u)
    /\ session' = [session EXCEPT ![u] =
           [session[u] EXCEPT !.owner = c, !.gen = next, !.leased = TRUE]]
    /\ pass' = [pass EXCEPT ![c] = [at |-> "remove", upload |-> u, gen |-> next]]
    /\ UNCHANGED <<artifact, fileVars, pc, faults>>

RemoveExpired(c) ==
    /\ pass[c].at = "remove"
    /\ RemoveFile(pass[c].upload)
    /\ PassGoes(c, "complete")
    /\ UNCHANGED <<rowVars, pc, faults>>

HoldsCleanup(c) ==
    LET s == session[pass[c].upload] IN
    /\ Pending(pass[c].upload)
    /\ s.owner = c
    /\ s.gen = pass[c].gen

CompleteUploadCleanup(c) ==
    /\ pass[c].at = "complete"
    /\ session' = IF HoldsCleanup(c)
                  THEN [session EXCEPT ![pass[c].upload].state = "failed",
                                       ![pass[c].upload].cleaned = TRUE]
                  ELSE session
    /\ PassEnds(c)
    /\ UNCHANGED <<artifact, fileVars, pc, faults>>

\* reconcileStorageStagingObjects runs when there is no session to claim.  It
\* lists the files, asks for the session of each, and only then deletes it.
ListStaging(c, u) ==
    /\ pass[c].at = "idle"
    /\ \A v \in Uploads : ~Claimable(v)
    /\ u \in staging \cap old
    /\ pass' = [pass EXCEPT ![c] = [at |-> "check", upload |-> u, gen |-> 0]]
    /\ UNCHANGED <<rowVars, fileVars, pc, faults>>

\* Mutants: an old file is never needed; a file with a session always is.
NothingProtected(u) == FALSE
ProtectedForEver(u) == session[u].state # "none"

\* HasPendingUploadSessionForStagingKey.
Protected(u) == session[u].state # "none" /\ ~session[u].cleaned

CheckProtected(c) ==
    /\ pass[c].at = "check"
    /\ IF Protected(pass[c].upload) THEN PassEnds(c) ELSE PassGoes(c, "sweep")
    /\ UNCHANGED <<rowVars, fileVars, pc, faults>>

SweepStaging(c) ==
    /\ pass[c].at = "sweep"
    /\ RemoveFile(pass[c].upload)
    /\ PassEnds(c)
    /\ UNCHANGED <<rowVars, pc, faults>>

-----------------------------------------------------------------------------
(* Time and faults                                                         *)

\* Of an upload at any moment, as nothing renews the lease but reads of the
\* body; of a pass that still works on the session only when it stalls.
LeaseExpires(u) ==
    /\ Pending(u)
    /\ session[u].leased
    /\ IF \E c \in Cleaners : pass[c].at # "idle" /\ pass[c].upload = u /\ HoldsCleanup(c)
       THEN Disturbed("stall")
       ELSE UNCHANGED faults
    /\ session' = [session EXCEPT ![u].leased = FALSE]
    /\ UNCHANGED <<artifact, fileVars, pc, pass>>

DeadlinePasses(u) ==
    /\ session[u].state # "none"
    /\ ~session[u].ended
    /\ session' = [session EXCEPT ![u].ended = TRUE]
    /\ UNCHANGED <<artifact, fileVars, pc, pass, faults>>

\* The configuration makes the retention longer than the hard deadline, and the
\* session is older than its file.
FileAges(u) ==
    /\ u \in staging
    /\ u \notin old
    /\ session[u].ended
    /\ old' = old \cup {u}
    /\ UNCHANGED <<rowVars, staging, pc, pass, faults>>

\* A deletion or an update fails, or the process dies: the pass leaves the
\* session as it is for a later one.
PassFails(c) ==
    /\ pass[c].at # "idle"
    /\ Disturbed("error")
    /\ PassEnds(c)
    /\ UNCHANGED <<rowVars, fileVars, pc>>

-----------------------------------------------------------------------------
(* Specification                                                           *)

UploadStep(u) ==
    \/ CheckPath(u) \/ CreateUploadSession(u)
    \/ PutStaging(u) \/ Heartbeat(u) \/ PutDone(u) \/ PutFails(u)
    \/ ClaimBlob(u) \/ RemoveDuplicate(u) \/ LinkObject(u) \/ RemovePromoted(u)
    \/ MarkReady(u) \/ StoreFails(u)
    \/ FinalizeUpload(u) \/ CommitUnknown(u) \/ FinalizeFails(u)
    \/ FailUploadSession(u) \/ FailureUnrecorded(u) \/ DeleteStaging(u)
    \/ CompleteOwnCleanup(u) \/ Abandon(u)

PassStep(c) ==
    \/ \E u \in Uploads : ClaimExpiredUploadSession(c, u) \/ ListStaging(c, u)
    \/ RemoveExpired(c) \/ CompleteUploadCleanup(c)
    \/ CheckProtected(c) \/ SweepStaging(c)

Next ==
    \/ ChecksumDeploy
    \/ \E u \in Uploads :
          UploadStep(u) \/ LeaseExpires(u) \/ DeadlinePasses(u) \/ FileAges(u)
    \/ \E c \in Cleaners : PassStep(c) \/ PassFails(c)

Spec == Init /\ [][Next]_vars

\* The cleanup job runs every few minutes, and the cursor of the listing comes
\* round to every file.  Time passes.  Nothing is assumed of the uploads.
Fairness ==
    /\ \A c \in Cleaners : WF_vars(PassStep(c))
    /\ \A u \in Uploads :
        /\ SF_vars(\E c \in Cleaners : ListStaging(c, u))
        /\ WF_vars(LeaseExpires(u))
        /\ WF_vars(DeadlinePasses(u))
        /\ WF_vars(FileAges(u))

FairSpec == Spec /\ Fairness

-----------------------------------------------------------------------------
(* Properties                                                              *)

\* The artifact of the path is the one of the completed session, whatever
\* commits, takeovers and late failures of finalizeUpload and failUploadSession
\* came in between; and a success answered to a client is the truth.
ArtifactMatchesSession ==
    \A u \in Uploads :
        /\ (artifact = u) <=> (session[u].state = "completed")
        /\ pc[u] = "stored" => artifact = u

\* An upload whose session was not taken over still has its staging file when it
\* comes to promote it: neither the worker, which claims first and deletes then,
\* nor the reconciler, which asks first and deletes later, is in its way.
OwnerHasStaging ==
    \A u \in Uploads : pc[u] \in {"write", "claim", "link"} /\ Holds(u) => u \in staging

\* No file without a session, none before its session; and what is cleaned up is
\* completed or failed, as a CHECK constraint of the table wants it.
SessionComesFirst ==
    \A u \in Uploads :
        /\ pc[u] \in {"check", "create"} => session[u] = NoSession
        /\ session[u].state = "none" => u \notin staging /\ pc[u] \in {"check", "create", "refused"}
        /\ session[u].cleaned => session[u].state \in {"completed", "failed"}

\* A pass deletes because it has taken over a session whose deadline is past, or
\* because it found that the session has been cleaned up.
PassHasReason ==
    \A c \in Cleaners :
        LET s == session[pass[c].upload] IN
        pass[c].at # "idle" =>
            /\ pass[c].upload \in Uploads
            /\ s.state # "none"
            /\ pass[c].at \in {"remove", "complete"} => s.ended /\ s.gen > 0 /\ pass[c].gen > 0
            /\ pass[c].at = "sweep" => s.cleaned

\* Together with the types these are inductive.
IInv ==
    /\ TypeOK
    /\ ArtifactMatchesSession
    /\ OwnerHasStaging
    /\ SessionComesFirst
    /\ PassHasReason

\* The design's rule that a staging file is removed by others only after its
\* hard deadline, or after its own upload has ended the session.
DeadlineProtectsStaging ==
    [][\A u \in staging : u \notin staging' =>
          session[u].ended \/ session[u].state # "active" \/ pc'[u] # pc[u]]_vars

\* Seen from the clients the path is written once by one upload, and a session
\* that was failed or taken over never stores anything.
Path == INSTANCE ImmutablePath WITH
    artifact <- artifact,
    outcome <- [u \in Uploads |->
        CASE session[u].state = "completed" -> "stored"
          [] session[u].state = "failed" \/ session[u].gen > 0 -> "refused"
          [] session[u].state = "none" /\ pc[u] = "refused" -> "refused"
          [] OTHER -> "open"]
ImplementsImmutablePath == Path!Spec

\* Every session is cleaned up at last and no staging file stays for ever, although
\* uploads hang or vanish, passes stall, fail and crash, and a file may be created
\* after its session has been cleaned up.
UploadsAreCleanedUp ==
    \A u \in Uploads :
        /\ Pending(u) ~> ~Pending(u)
        /\ u \in staging ~> u \notin staging

=============================================================================
