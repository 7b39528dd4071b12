------------------------- MODULE UploadSessionProofs -------------------------
(***************************************************************************)
(* Theorems about UploadSession for any number of uploads, cleanup passes  *)
(* and faults.                                                             *)
(***************************************************************************)
EXTENDS UploadSession, TLAPS

-----------------------------------------------------------------------------
(* Type correctness                                                        *)

\* Every row that a session can be given is well typed.
LEMMA RowUpdates ==
    ASSUME NEW r \in Session
    PROVE  /\ \A u \in Uploads :
                 [NoSession EXCEPT !.state = "active", !.owner = u, !.leased = TRUE] \in Session
           /\ \A c \in Cleaners :
                 [r EXCEPT !.owner = c, !.gen = r.gen + 1, !.leased = TRUE] \in Session
           /\ \A b \in BOOLEAN : [r EXCEPT !.leased = b] \in Session
           /\ [r EXCEPT !.ended = TRUE] \in Session
           /\ [r EXCEPT !.state = "failed"] \in Session
           /\ [r EXCEPT !.state = "failed", !.cleaned = TRUE] \in Session
           /\ [r EXCEPT !.state = "completed", !.cleaned = TRUE] \in Session
           /\ r.gen + 1 \in Nat
<1>1. r.gen + 1 \in Nat
  BY DEF Session
<1>2. \A u \in Uploads :
         [NoSession EXCEPT !.state = "active", !.owner = u, !.leased = TRUE] \in Session
  BY DEF NoSession, Session
<1>3. ASSUME NEW c \in Cleaners
      PROVE  [r EXCEPT !.owner = c, !.gen = r.gen + 1, !.leased = TRUE] \in Session
  BY <1>1 DEF Session
<1>4. \A b \in BOOLEAN : [r EXCEPT !.leased = b] \in Session
  BY DEF Session
<1>5. /\ [r EXCEPT !.ended = TRUE] \in Session
      /\ [r EXCEPT !.state = "failed"] \in Session
  BY DEF Session
<1>6. /\ [r EXCEPT !.state = "failed", !.cleaned = TRUE] \in Session
      /\ [r EXCEPT !.state = "completed", !.cleaned = TRUE] \in Session
  BY DEF Session
<1> QED
  BY <1>1, <1>2, <1>3, <1>4, <1>5, <1>6

\* Everything that is not a session row keeps its type in every step.
LEMMA OthersTyped ==
    ASSUME TypeOK, Next
    PROVE  /\ artifact' \in Uploads \cup {Deploy, None}
           /\ staging' \in SUBSET Uploads
           /\ old' \in SUBSET Uploads
           /\ pc' \in [Uploads -> Labels]
           /\ pass' \in [Cleaners -> Pass]
           /\ faults' \in Nat
<1> USE DEF TypeOK, rowVars, fileVars
<1>1. ASSUME NEW u \in Uploads, UploadStep(u)
      PROVE  /\ artifact' \in Uploads \cup {Deploy, None}
             /\ staging' \in SUBSET Uploads
             /\ old' \in SUBSET Uploads
             /\ pc' \in [Uploads -> Labels]
             /\ pass' \in [Cleaners -> Pass]
             /\ faults' \in Nat
  <2>1. /\ artifact' = artifact \/ artifact' = u
        /\ staging' = staging \/ staging' = staging \cup {u} \/ staging' = staging \ {u}
        /\ old' = old \/ old' = old \ {u}
        /\ pass' = pass
        /\ faults' = faults \/ faults' = faults + 1
    BY <1>1 DEF UploadStep, CheckPath, CreateUploadSession, PutStaging, Heartbeat, PutDone,
         PutFails, ClaimBlob, RemoveDuplicate, LinkObject, RemovePromoted, MarkReady,
         StoreFails, FinalizeUpload, CommitUnknown, FinalizeFails, FailUploadSession,
         FailureUnrecorded, DeleteStaging, CompleteOwnCleanup, Abandon, Finalized,
         RemoveFile, Disturbed
  <2>2. pc' = pc \/ \E l \in Labels : pc' = [pc EXCEPT ![u] = l]
    BY <1>1 DEF UploadStep, CheckPath, CreateUploadSession, PutStaging, Heartbeat, PutDone,
         PutFails, ClaimBlob, RemoveDuplicate, LinkObject, RemovePromoted, MarkReady,
         StoreFails, FinalizeUpload, CommitUnknown, FinalizeFails, FailUploadSession,
         FailureUnrecorded, DeleteStaging, CompleteOwnCleanup, Abandon, AfterFailing,
         Goto, Labels
  <2> QED
    BY <2>1, <2>2
<1>2. ASSUME NEW c \in Cleaners, PassStep(c) \/ PassFails(c)
      PROVE  /\ artifact' \in Uploads \cup {Deploy, None}
             /\ staging' \in SUBSET Uploads
             /\ old' \in SUBSET Uploads
             /\ pc' \in [Uploads -> Labels]
             /\ pass' \in [Cleaners -> Pass]
             /\ faults' \in Nat
  <2>1. /\ artifact' = artifact
        /\ \E s \in SUBSET Uploads : staging' = staging \/ staging' = staging \ s
        /\ \E s \in SUBSET Uploads : old' = old \/ old' = old \ s
        /\ pc' = pc
        /\ faults' = faults \/ faults' = faults + 1
    BY <1>2 DEF PassStep, PassFails, ClaimExpiredUploadSession, ListStaging, RemoveExpired,
         CompleteUploadCleanup, CheckProtected, SweepStaging, RemoveFile, Disturbed
  <2>2. \E p \in Pass : pass' = [pass EXCEPT ![c] = p]
    <3>1. IdlePass \in Pass
      BY DEF IdlePass, Pass
    <3>2. \A at \in {"idle", "remove", "complete", "check", "sweep"} :
             [pass[c] EXCEPT !.at = at] \in Pass
      BY DEF Pass
    <3>3. \A u \in Uploads, at \in {"remove", "check"}, n \in Nat :
             [at |-> at, upload |-> u, gen |-> n] \in Pass
      BY DEF Pass
    <3>4. \A u \in Uploads : session[u].gen + 1 \in Nat
      BY RowUpdates
    <3>5. CASE \E u \in Uploads : ClaimExpiredUploadSession(c, u) \/ ListStaging(c, u)
      BY <3>3, <3>4, <3>5 DEF ClaimExpiredUploadSession, ListStaging
    <3>6. CASE RemoveExpired(c) \/ CheckProtected(c)
      BY <3>1, <3>2, <3>6 DEF RemoveExpired, CheckProtected, PassGoes, PassEnds
    <3>7. CASE CompleteUploadCleanup(c) \/ SweepStaging(c) \/ PassFails(c)
      BY <3>1, <3>7 DEF CompleteUploadCleanup, SweepStaging, PassFails, PassEnds
    <3> QED
      BY <1>2, <3>5, <3>6, <3>7 DEF PassStep
  <2> QED
    BY <2>1, <2>2
<1>3. ASSUME NEW u \in Uploads, LeaseExpires(u) \/ DeadlinePasses(u) \/ FileAges(u)
      PROVE  /\ artifact' \in Uploads \cup {Deploy, None}
             /\ staging' \in SUBSET Uploads
             /\ old' \in SUBSET Uploads
             /\ pc' \in [Uploads -> Labels]
             /\ pass' \in [Cleaners -> Pass]
             /\ faults' \in Nat
  BY <1>3 DEF LeaseExpires, DeadlinePasses, FileAges, Disturbed
<1> QED
  BY <1>1, <1>2, <1>3 DEF Next, ChecksumDeploy

\* What a step makes of the rows.
LEMMA SessionSteps ==
    ASSUME TypeOK, Next
    PROVE  \/ session' = session
           \/ \E u \in Uploads, r \in Session : session' = [session EXCEPT ![u] = r]
<1> USE DEF TypeOK, rowVars, fileVars
<1>1. ASSUME NEW u \in Uploads,
             \/ CreateUploadSession(u) \/ Heartbeat(u) \/ FinalizeUpload(u) \/ CommitUnknown(u)
             \/ FailUploadSession(u) \/ CompleteOwnCleanup(u)
             \/ LeaseExpires(u) \/ DeadlinePasses(u)
      PROVE  \/ session' = session
             \/ \E r \in Session : session' = [session EXCEPT ![u] = r]
  <2>1. session[u] \in Session
    OBVIOUS
  <2>2. \/ session' = session
        \/ session' = [session EXCEPT ![u] =
               [NoSession EXCEPT !.state = "active", !.owner = u, !.leased = TRUE]]
        \/ \E b \in BOOLEAN : session' = [session EXCEPT ![u] = [session[u] EXCEPT !.leased = b]]
        \/ session' = [session EXCEPT ![u] = [session[u] EXCEPT !.ended = TRUE]]
        \/ session' = [session EXCEPT ![u] = [session[u] EXCEPT !.state = "failed"]]
        \/ session' = [session EXCEPT ![u] =
               [session[u] EXCEPT !.state = "failed", !.cleaned = TRUE]]
        \/ session' = [session EXCEPT ![u] =
               [session[u] EXCEPT !.state = "completed", !.cleaned = TRUE]]
    BY <1>1, <2>1 DEF CreateUploadSession, Heartbeat, FinalizeUpload, CommitUnknown, Finalized,
         FailUploadSession, CompleteOwnCleanup, LeaseExpires, DeadlinePasses
  <2> QED
    BY <2>1, <2>2, RowUpdates
<1>2. ASSUME NEW u \in Uploads, UploadStep(u) \/ FileAges(u),
             ~(\/ CreateUploadSession(u) \/ Heartbeat(u) \/ FinalizeUpload(u)
               \/ CommitUnknown(u) \/ FailUploadSession(u) \/ CompleteOwnCleanup(u))
      PROVE  session' = session
  BY <1>2 DEF UploadStep, CheckPath, PutStaging, PutDone, PutFails, ClaimBlob,
       RemoveDuplicate, LinkObject, RemovePromoted, MarkReady, StoreFails, FinalizeFails,
       FailureUnrecorded, DeleteStaging, Abandon, FileAges
<1>3. ASSUME NEW c \in Cleaners, NEW u \in Uploads, ClaimExpiredUploadSession(c, u)
      PROVE  \E r \in Session : session' = [session EXCEPT ![u] = r]
  <2>1. session[u] \in Session
    OBVIOUS
  <2>2. session' = [session EXCEPT ![u] =
            [session[u] EXCEPT !.owner = c, !.gen = session[u].gen + 1, !.leased = TRUE]]
    BY <1>3 DEF ClaimExpiredUploadSession
  <2> QED
    BY <2>1, <2>2, RowUpdates
<1>4. ASSUME NEW c \in Cleaners, CompleteUploadCleanup(c), session' # session
      PROVE  /\ pass[c].upload \in Uploads
             /\ \E r \in Session : session' = [session EXCEPT ![pass[c].upload] = r]
  <2>1. pass[c].upload \in Uploads
    <3>1. pass[c].upload \in Uploads \cup {None}
      BY DEF Pass
    <3>2. CASE pass[c].upload \notin DOMAIN session
      <4>1. session' = [session EXCEPT ![pass[c].upload].state = "failed",
                                       ![pass[c].upload].cleaned = TRUE]
        BY <1>4 DEF CompleteUploadCleanup
      <4> QED
        BY <1>4, <3>2, <4>1
    <3> QED
      BY <3>1, <3>2
  <2>2. session[pass[c].upload] \in Session
    BY <2>1
  <2>3. session' = [session EXCEPT ![pass[c].upload] =
            [session[pass[c].upload] EXCEPT !.state = "failed", !.cleaned = TRUE]]
    BY <1>4, <2>1, <2>2 DEF CompleteUploadCleanup
  <2> QED
    BY <2>1, <2>2, <2>3, RowUpdates
<1>5. ASSUME NEW c \in Cleaners, PassStep(c) \/ PassFails(c), ~CompleteUploadCleanup(c),
             ~\E u \in Uploads : ClaimExpiredUploadSession(c, u)
      PROVE  session' = session
  BY <1>5 DEF PassStep, PassFails, ListStaging, RemoveExpired, CheckProtected, SweepStaging
<1>6. CASE ChecksumDeploy
  BY <1>6 DEF ChecksumDeploy
<1> QED
  BY <1>1, <1>2, <1>3, <1>4, <1>5, <1>6 DEF Next, UploadStep, PassStep

LEMMA StepTyped ==
    ASSUME TypeOK, [Next]_vars
    PROVE  TypeOK'
<1>1. CASE Next
  <2>1. session' \in [Uploads -> Session]
    BY <1>1, SessionSteps DEF TypeOK
  <2> QED
    BY <1>1, <2>1, OthersTyped DEF TypeOK
<1>2. CASE UNCHANGED vars
  BY <1>2 DEF vars, rowVars, fileVars, TypeOK
<1> QED
  BY <1>1, <1>2

-----------------------------------------------------------------------------
(* Consistency                                                             *)

Consistent ==
    ArtifactMatchesSession /\ OwnerHasStaging /\ SessionComesFirst /\ PassHasReason

\* An upload goes on, or gives up, and changes nothing else.
LEMMA Advance ==
    ASSUME TypeOK, Consistent, NEW u \in Uploads, NEW l \in Labels,
           pc' = [pc EXCEPT ![u] = l],
           UNCHANGED <<session, artifact, staging, pass>>,
           l \notin {"stored", "check"}, pc[u] # "refused",
           l \in {"write", "claim", "link"} => pc[u] \in {"write", "claim", "link"},
           l = "create" => pc[u] = "check",
           pc[u] \in {"check", "create"} => l \in {"create", "refused"}
    PROVE  Consistent'
<1> USE DEF TypeOK
<1>1. ArtifactMatchesSession'
  BY DEF Consistent, ArtifactMatchesSession
<1>2. OwnerHasStaging'
  BY DEF Consistent, OwnerHasStaging, Holds
<1>3. SessionComesFirst'
  BY DEF Consistent, SessionComesFirst
<1>4. PassHasReason'
  BY DEF Consistent, PassHasReason
<1> QED
  BY <1>1, <1>2, <1>3, <1>4 DEF Consistent

\* An upload removes its own staging file, having no use for it any more.
LEMMA RemoveOwnFile ==
    ASSUME TypeOK, Consistent, NEW u \in Uploads,
           NEW l \in {"fail", "finalize", "mark", "cleanup"},
           pc' = [pc EXCEPT ![u] = l],
           pc[u] \in {"write", "unstage", "unlink", "delete"},
           staging' = staging \ {u},
           UNCHANGED <<session, artifact, pass>>
    PROVE  Consistent'
<1> USE DEF TypeOK
<1>1. ArtifactMatchesSession'
  BY DEF Consistent, ArtifactMatchesSession
<1>2. OwnerHasStaging'
  BY DEF Consistent, OwnerHasStaging, Holds
<1>3. SessionComesFirst'
  BY DEF Consistent, SessionComesFirst
<1>4. PassHasReason'
  BY DEF Consistent, PassHasReason
<1> QED
  BY <1>1, <1>2, <1>3, <1>4 DEF Consistent

\* Flags of time in a row, which no invariant denies.
LEMMA FlagsChange ==
    ASSUME TypeOK, Consistent, NEW u \in Uploads, NEW leased \in BOOLEAN,
           \/ session' = [session EXCEPT ![u].leased = leased]
           \/ session' = [session EXCEPT ![u].ended = TRUE],
           session[u].state # "none",
           UNCHANGED <<artifact, staging, pc, pass>>
    PROVE  Consistent'
<1> USE DEF TypeOK
<1>1. \A v \in Uploads :
         /\ session'[v].state = session[v].state
         /\ session'[v].owner = session[v].owner
         /\ session'[v].gen = session[v].gen
         /\ session'[v].cleaned = session[v].cleaned
         /\ session[v].ended => session'[v].ended
  BY DEF Session
<1>2. \A v \in Uploads : v # u => session'[v] = session[v]
  OBVIOUS
<1>3. ArtifactMatchesSession'
  BY <1>1 DEF Consistent, ArtifactMatchesSession
<1>4. OwnerHasStaging'
  BY <1>1 DEF Consistent, OwnerHasStaging, Holds
<1>5. SessionComesFirst'
  <2>1. pc[u] \notin {"check", "create"}
    BY DEF Consistent, SessionComesFirst, NoSession
  <2> QED
    BY <1>1, <1>2, <2>1 DEF Consistent, SessionComesFirst
<1>6. PassHasReason'
  BY <1>1 DEF Consistent, PassHasReason
<1> QED
  BY <1>3, <1>4, <1>5, <1>6 DEF Consistent

LEMMA CreateConsistent ==
    ASSUME TypeOK, Consistent, NEW u \in Uploads, CreateUploadSession(u)
    PROVE  Consistent'
<1> USE DEF TypeOK
<1>1. /\ session[u] = NoSession
      /\ u \notin staging
      /\ session[u].state = "none"
      /\ artifact # u
  BY DEF CreateUploadSession, Consistent, SessionComesFirst, ArtifactMatchesSession, NoSession
<1>2. /\ session'[u].state = "active"
      /\ session'[u].cleaned = FALSE
      /\ \A v \in Uploads : v # u => session'[v] = session[v]
  BY DEF CreateUploadSession, NoSession
<1>3. /\ pc' = [pc EXCEPT ![u] = "put"]
      /\ UNCHANGED <<artifact, staging, pass>>
  BY DEF CreateUploadSession, Goto, fileVars
<1>4. ArtifactMatchesSession'
  BY <1>1, <1>2, <1>3 DEF Consistent, ArtifactMatchesSession
<1>5. OwnerHasStaging'
  BY <1>1, <1>2, <1>3 DEF Consistent, OwnerHasStaging, Holds
<1>6. SessionComesFirst'
  BY <1>1, <1>2, <1>3 DEF Consistent, SessionComesFirst
<1>7. PassHasReason'
  BY <1>1, <1>2, <1>3 DEF Consistent, PassHasReason
<1> QED
  BY <1>4, <1>5, <1>6, <1>7 DEF Consistent

LEMMA PutConsistent ==
    ASSUME TypeOK, Consistent, NEW u \in Uploads, PutStaging(u)
    PROVE  Consistent'
<1> USE DEF TypeOK
<1>1. /\ pc[u] = "put"
      /\ pc' = [pc EXCEPT ![u] = "write"]
      /\ staging' = staging \cup {u}
      /\ UNCHANGED <<session, artifact, pass>>
  BY DEF PutStaging, Goto, rowVars
<1>2. ArtifactMatchesSession'
  BY <1>1 DEF Consistent, ArtifactMatchesSession
<1>3. OwnerHasStaging'
  BY <1>1 DEF Consistent, OwnerHasStaging, Holds
<1>4. SessionComesFirst'
  BY <1>1 DEF Consistent, SessionComesFirst
<1>5. PassHasReason'
  BY <1>1 DEF Consistent, PassHasReason
<1> QED
  BY <1>2, <1>3, <1>4, <1>5 DEF Consistent

LEMMA FinalizedConsistent ==
    ASSUME TypeOK, Consistent, NEW u \in Uploads, FinalizeUpload(u) \/ CommitUnknown(u)
    PROVE  Consistent'
<1> USE DEF TypeOK
<1>1. /\ pc[u] = "finalize"
      /\ artifact = None
      /\ artifact' = u
      /\ session' = [session EXCEPT ![u].state = "completed", ![u].cleaned = TRUE]
      /\ UNCHANGED <<staging, pass>>
      /\ pc' = [pc EXCEPT ![u] = "stored"] \/ pc' = [pc EXCEPT ![u] = "failKeyless"]
  BY DEF FinalizeUpload, CommitUnknown, Finalized, Goto, fileVars
<1>2. /\ session'[u].state = "completed"
      /\ session'[u].cleaned
      /\ session'[u].gen = session[u].gen
      /\ session'[u].ended = session[u].ended
      /\ \A v \in Uploads : v # u => session'[v] = session[v]
  BY <1>1 DEF Session
<1>3. \A v \in Uploads : artifact # v
  BY <1>1, OwnersAssumption
<1>4. ArtifactMatchesSession'
  BY <1>1, <1>2, <1>3 DEF Consistent, ArtifactMatchesSession
<1>5. OwnerHasStaging'
  BY <1>1, <1>2 DEF Consistent, OwnerHasStaging, Holds
<1>6. SessionComesFirst'
  BY <1>1, <1>2 DEF Consistent, SessionComesFirst
<1>7. PassHasReason'
  BY <1>1, <1>2 DEF Consistent, PassHasReason
<1> QED
  BY <1>4, <1>5, <1>6, <1>7 DEF Consistent

\* A row that is not completed becomes failed, cleaned or not.
LEMMA FailedConsistent ==
    ASSUME TypeOK, Consistent, NEW u \in Uploads,
           session[u].state \in {"active", "failed"},
           \/ session' = [session EXCEPT ![u].state = "failed"]
           \/ session' = [session EXCEPT ![u].state = "failed", ![u].cleaned = TRUE],
           UNCHANGED <<artifact, staging>>,
           \/ pc' = pc
           \/ pc[u] \in {"fail", "failKeyless", "cleanup"}
              /\ \E l \in {"delete", "refused"} : pc' = [pc EXCEPT ![u] = l],
           \/ pass' = pass
           \/ \E c \in Cleaners : pass' = [pass EXCEPT ![c] = IdlePass]
    PROVE  Consistent'
<1> USE DEF TypeOK
<1>1. /\ session'[u].state = "failed"
      /\ session'[u].gen = session[u].gen
      /\ session'[u].ended = session[u].ended
      /\ session[u].cleaned => session'[u].cleaned
      /\ \A v \in Uploads : v # u => session'[v] = session[v]
  BY DEF Session
<1>2. \A v \in Uploads : pc'[v] \in {"stored", "check", "create", "write", "claim", "link"} =>
                            pc'[v] = pc[v]
  OBVIOUS
<1>3. artifact # u
  BY DEF Consistent, ArtifactMatchesSession
<1>4. ArtifactMatchesSession'
  BY <1>1, <1>2, <1>3 DEF Consistent, ArtifactMatchesSession
<1>5. OwnerHasStaging'
  BY <1>1, <1>2 DEF Consistent, OwnerHasStaging, Holds
<1>6. SessionComesFirst'
  <2>1. pc[u] \notin {"check", "create"}
    BY DEF Consistent, SessionComesFirst, NoSession
  <2> QED
    BY <1>1, <1>2, <2>1 DEF Consistent, SessionComesFirst
<1>7. PassHasReason'
  BY <1>1 DEF Consistent, PassHasReason, IdlePass
<1> QED
  BY <1>4, <1>5, <1>6, <1>7 DEF Consistent

LEMMA UploadsConsistent ==
    ASSUME TypeOK, Consistent, NEW u \in Uploads, UploadStep(u)
    PROVE  Consistent'
<1>1. ASSUME \/ CheckPath(u) \/ PutDone(u) \/ ClaimBlob(u) \/ LinkObject(u) \/ MarkReady(u)
             \/ StoreFails(u) \/ FinalizeFails(u) \/ FailureUnrecorded(u) \/ Abandon(u)
      PROVE  Consistent'
  <2>1. UNCHANGED <<session, artifact, staging, pass>> /\ pc[u] # "refused"
    BY <1>1 DEF CheckPath, PutDone, ClaimBlob, LinkObject, MarkReady, StoreFails,
         FinalizeFails, FailureUnrecorded, Abandon, rowVars, fileVars
  <2>2. \E l \in Labels :
          /\ pc' = [pc EXCEPT ![u] = l]
          /\ l \notin {"stored", "check"}
          /\ l \in {"write", "claim", "link"} => pc[u] \in {"write", "claim", "link"}
          /\ l = "create" => pc[u] = "check"
          /\ pc[u] \in {"check", "create"} => l \in {"create", "refused"}
    BY <1>1 DEF CheckPath, PutDone, ClaimBlob, LinkObject, MarkReady, StoreFails,
         FinalizeFails, FailureUnrecorded, Abandon, AfterFailing, Goto, Labels
  <2> QED
    BY <2>1, <2>2, Advance
<1>2. ASSUME PutFails(u) \/ RemoveDuplicate(u) \/ RemovePromoted(u) \/ DeleteStaging(u)
      PROVE  Consistent'
  <2>1. /\ UNCHANGED <<session, artifact, pass>>
        /\ staging' = staging \ {u}
        /\ pc[u] \in {"write", "unstage", "unlink", "delete"}
        /\ \E l \in {"fail", "finalize", "mark", "cleanup"} : pc' = [pc EXCEPT ![u] = l]
    BY <1>2 DEF PutFails, RemoveDuplicate, RemovePromoted, DeleteStaging, RemoveFile, Goto,
         rowVars
  <2> QED
    BY <2>1, RemoveOwnFile
<1>3. ASSUME Heartbeat(u) PROVE Consistent'
  <2>1. /\ session' = [session EXCEPT ![u].leased = TRUE]
        /\ session[u].state # "none"
        /\ UNCHANGED <<artifact, staging, pc, pass>>
    BY <1>3 DEF Heartbeat, Holds, fileVars
  <2> QED
    BY <2>1, FlagsChange
<1>4. ASSUME FailUploadSession(u) \/ CompleteOwnCleanup(u) PROVE Consistent'
  <2>1. /\ UNCHANGED <<artifact, staging, pass>>
        /\ pc[u] \in {"fail", "failKeyless", "cleanup"}
        /\ \E l \in {"delete", "refused"} : pc' = [pc EXCEPT ![u] = l]
    BY <1>4 DEF FailUploadSession, CompleteOwnCleanup, AfterFailing, Goto, fileVars
  <2>2. CASE session' = session
    BY <2>1, <2>2, Advance DEF Labels
  <2>3. CASE session' # session
    <3>1. /\ session[u].state \in {"active", "failed"}
          /\ \/ session' = [session EXCEPT ![u].state = "failed"]
             \/ session' = [session EXCEPT ![u].state = "failed", ![u].cleaned = TRUE]
      BY <1>4, <2>3 DEF FailUploadSession, CompleteOwnCleanup, Holds, Pending
    <3> QED
      BY <2>1, <3>1, FailedConsistent
  <2> QED
    BY <2>2, <2>3
<1> QED
  BY <1>1, <1>2, <1>3, <1>4, CreateConsistent, PutConsistent, FinalizedConsistent
     DEF UploadStep

\* A claim raises the generation, so that the upload has lost its session; the
\* deadline has passed, and the pass knows the new generation.
LEMMA ClaimConsistent ==
    ASSUME TypeOK, Consistent, NEW c \in Cleaners, NEW u \in Uploads,
           ClaimExpiredUploadSession(c, u)
    PROVE  Consistent'
<1> USE DEF TypeOK
<1>1. /\ session' = [session EXCEPT ![u] =
             [session[u] EXCEPT !.owner = c, !.gen = session[u].gen + 1, !.leased = TRUE]]
      /\ pass' = [pass EXCEPT ![c] =
             [at |-> "remove", upload |-> u, gen |-> session[u].gen + 1]]
      /\ session[u].state \in {"active", "failed"} /\ session[u].ended
      /\ UNCHANGED <<artifact, staging, pc>>
  BY DEF ClaimExpiredUploadSession, Claimable, Pending, fileVars
<1>2. session[u].gen + 1 > 0
  BY DEF Session
<1>3. /\ session'[u].state = session[u].state
      /\ session'[u].gen > 0
      /\ session'[u].ended
      /\ session'[u].cleaned = session[u].cleaned
      /\ \A v \in Uploads : v # u => session'[v] = session[v]
  BY <1>1, <1>2 DEF Session
<1>4. ArtifactMatchesSession'
  BY <1>1, <1>3 DEF Consistent, ArtifactMatchesSession
<1>5. OwnerHasStaging'
  BY <1>1, <1>3 DEF Consistent, OwnerHasStaging, Holds
<1>6. SessionComesFirst'
  <2>1. pc[u] \notin {"check", "create"}
    BY <1>1 DEF Consistent, SessionComesFirst, NoSession
  <2> QED
    BY <1>1, <1>3, <2>1 DEF Consistent, SessionComesFirst
<1>7. PassHasReason'
  <2>1. ASSUME NEW d \in Cleaners, d # c, pass[d].at # "idle"
        PROVE  pass'[d] = pass[d] /\ pass[d].upload \in Uploads
    BY <1>1, <2>1 DEF Consistent, PassHasReason
  <2>2. /\ pass'[c].at = "remove"
        /\ pass'[c].upload = u
        /\ pass'[c].gen > 0
    BY <1>1, <1>2
  <2> QED
    BY <1>1, <1>3, <2>1, <2>2 DEF Consistent, PassHasReason
<1> QED
  BY <1>4, <1>5, <1>6, <1>7 DEF Consistent

\* A pass removes the file of a session that its upload does not own any more.
LEMMA PassRemovesConsistent ==
    ASSUME TypeOK, Consistent, NEW c \in Cleaners, RemoveExpired(c) \/ SweepStaging(c)
    PROVE  Consistent'
<1> USE DEF TypeOK
<1>1. /\ staging' = staging \ {pass[c].upload}
      /\ pass[c].at \in {"remove", "sweep"}
      /\ \/ pass[c].at = "remove" /\ pass' = [pass EXCEPT ![c].at = "complete"]
         \/ pass' = [pass EXCEPT ![c] = IdlePass]
      /\ UNCHANGED <<session, artifact, pc>>
  BY DEF RemoveExpired, SweepStaging, RemoveFile, PassGoes, PassEnds, rowVars
<1>2. pass[c].upload \in Uploads /\ ~Holds(pass[c].upload)
  BY <1>1 DEF Consistent, PassHasReason, SessionComesFirst, Holds
<1>3. ArtifactMatchesSession'
  BY <1>1 DEF Consistent, ArtifactMatchesSession
<1>4. OwnerHasStaging'
  BY <1>1, <1>2 DEF Consistent, OwnerHasStaging, Holds
<1>5. SessionComesFirst'
  BY <1>1 DEF Consistent, SessionComesFirst
<1>6. PassHasReason'
  BY <1>1 DEF Consistent, PassHasReason, IdlePass, Pass
<1> QED
  BY <1>3, <1>4, <1>5, <1>6 DEF Consistent

LEMMA PassesConsistent ==
    ASSUME TypeOK, Consistent, NEW c \in Cleaners, PassStep(c) \/ PassFails(c)
    PROVE  Consistent'
<1> USE DEF TypeOK
<1>1. ASSUME CompleteUploadCleanup(c) PROVE Consistent'
  <2>1. /\ UNCHANGED <<artifact, staging, pc>>
        /\ pass' = [pass EXCEPT ![c] = IdlePass]
        /\ pass[c].at = "complete"
    BY <1>1 DEF CompleteUploadCleanup, PassEnds, fileVars
  <2>2. CASE HoldsCleanup(c)
    <3>1. /\ pass[c].upload \in Uploads
          /\ session[pass[c].upload].state \in {"active", "failed"}
          /\ session' = [session EXCEPT ![pass[c].upload].state = "failed",
                                        ![pass[c].upload].cleaned = TRUE]
      BY <1>1, <2>1, <2>2
         DEF CompleteUploadCleanup, HoldsCleanup, Pending, Consistent, PassHasReason
    <3> QED
      BY <2>1, <3>1, FailedConsistent
  <2>3. CASE ~HoldsCleanup(c)
    <3>1. session' = session
      BY <1>1, <2>3 DEF CompleteUploadCleanup
    <3> QED
      BY <2>1, <3>1 DEF Consistent, ArtifactMatchesSession, OwnerHasStaging, Holds,
           SessionComesFirst, PassHasReason, IdlePass
  <2> QED
    BY <2>2, <2>3
<1>2. ASSUME NEW u \in Uploads, ListStaging(c, u) PROVE Consistent'
  <2>1. /\ pass' = [pass EXCEPT ![c] = [at |-> "check", upload |-> u, gen |-> 0]]
        /\ u \in staging
        /\ UNCHANGED <<session, artifact, staging, pc>>
    BY <1>2 DEF ListStaging, rowVars, fileVars
  <2>2. session[u].state # "none"
    BY <2>1 DEF Consistent, SessionComesFirst
  <2>3. PassHasReason'
    BY <2>1, <2>2 DEF Consistent, PassHasReason
  <2> QED
    BY <2>1, <2>3 DEF Consistent, ArtifactMatchesSession, OwnerHasStaging, Holds,
         SessionComesFirst
<1>3. ASSUME CheckProtected(c) \/ PassFails(c) PROVE Consistent'
  <2>1. UNCHANGED <<session, artifact, staging, pc>>
    BY <1>3 DEF CheckProtected, PassFails, rowVars, fileVars
  <2>2. \/ pass' = [pass EXCEPT ![c] = IdlePass]
        \/ /\ pass[c].at = "check"
           /\ ~Protected(pass[c].upload)
           /\ pass' = [pass EXCEPT ![c].at = "sweep"]
    BY <1>3 DEF CheckProtected, PassFails, PassGoes, PassEnds
  <2>3. PassHasReason'
    BY <2>1, <2>2 DEF Consistent, PassHasReason, Protected, IdlePass, Pass
  <2> QED
    BY <2>1, <2>3 DEF Consistent, ArtifactMatchesSession, OwnerHasStaging, Holds,
         SessionComesFirst
<1> QED
  BY <1>1, <1>2, <1>3, ClaimConsistent, PassRemovesConsistent DEF PassStep

LEMMA DeployConsistent ==
    ASSUME TypeOK, Consistent, ChecksumDeploy
    PROVE  Consistent'
<1>1. /\ artifact = None /\ artifact' = Deploy
      /\ UNCHANGED <<session, staging, pc, pass>>
  BY DEF ChecksumDeploy, fileVars
<1>2. ArtifactMatchesSession'
  BY <1>1, OwnersAssumption DEF Consistent, ArtifactMatchesSession
<1> QED
  BY <1>1, <1>2 DEF Consistent, OwnerHasStaging, Holds, SessionComesFirst, PassHasReason

LEMMA TimeConsistent ==
    ASSUME TypeOK, Consistent, NEW u \in Uploads,
           LeaseExpires(u) \/ DeadlinePasses(u) \/ FileAges(u)
    PROVE  Consistent'
<1>1. CASE LeaseExpires(u) \/ DeadlinePasses(u)
  <2>1. /\ \/ session' = [session EXCEPT ![u].leased = FALSE]
           \/ session' = [session EXCEPT ![u].ended = TRUE]
        /\ session[u].state # "none"
        /\ UNCHANGED <<artifact, staging, pc, pass>>
    BY <1>1 DEF LeaseExpires, DeadlinePasses, Pending, fileVars
  <2> QED
    BY <2>1, FlagsChange
<1>2. CASE FileAges(u)
  BY <1>2 DEF FileAges, rowVars, Consistent, ArtifactMatchesSession, OwnerHasStaging, Holds,
       SessionComesFirst, PassHasReason
<1> QED
  BY <1>1, <1>2

-----------------------------------------------------------------------------
(* Theorems                                                                *)

LEMMA InitIInv == Init => IInv
<1> SUFFICES ASSUME Init PROVE IInv
  OBVIOUS
<1>1. NoSession \in Session /\ IdlePass \in Pass /\ "check" \in Labels
  BY DEF NoSession, Session, IdlePass, Pass, Labels
<1>2. TypeOK
  BY <1>1 DEF Init, TypeOK
<1>3. ArtifactMatchesSession
  BY OwnersAssumption DEF Init, ArtifactMatchesSession, NoSession
<1>4. OwnerHasStaging /\ SessionComesFirst /\ PassHasReason
  BY DEF Init, OwnerHasStaging, SessionComesFirst, PassHasReason, NoSession, IdlePass
<1> QED
  BY <1>2, <1>3, <1>4 DEF IInv

LEMMA StepIInv ==
    ASSUME IInv, [Next]_vars
    PROVE  IInv'
<1>1. TypeOK /\ Consistent
  BY DEF IInv, Consistent
<1>2. TypeOK'
  BY <1>1, StepTyped
<1>3. Consistent'
  <2>1. CASE Next
    BY <1>1, <2>1, UploadsConsistent, PassesConsistent, TimeConsistent, DeployConsistent
       DEF Next
  <2>2. CASE UNCHANGED vars
    BY <1>1, <2>2 DEF vars, rowVars, fileVars, Consistent, ArtifactMatchesSession,
         OwnerHasStaging, Holds, SessionComesFirst, PassHasReason
  <2> QED
    BY <2>1, <2>2
<1> QED
  BY <1>2, <1>3 DEF IInv, Consistent

\* The conjunction that every reachable state satisfies.
THEOREM InductiveInvariant == Spec => []IInv
<1>1. IInv /\ [Next]_vars => IInv'
  BY StepIInv
<1> QED
  BY <1>1, InitIInv, PTL DEF Spec

\* The artifact of the path and the completed session are the same upload's, and
\* an upload that was answered with success has the path.
THEOREM ArtifactsMatchSessions == Spec => []ArtifactMatchesSession
<1>1. IInv => ArtifactMatchesSession
  BY DEF IInv
<1> QED
  BY <1>1, InductiveInvariant, PTL

\* However long an upload stalls, its staging file is there as long as the
\* session is its own.
THEOREM OwnersHaveStaging == Spec => []OwnerHasStaging
<1>1. IInv => OwnerHasStaging
  BY DEF IInv
<1> QED
  BY <1>1, InductiveInvariant, PTL

\* A staging file goes by the hand of its own upload, or after the hard deadline
\* of its session, or after the end of it.
THEOREM DeadlinesAreKept == Spec => DeadlineProtectsStaging
<1> DEFINE Kept == \A u \in staging : u \notin staging' =>
                      session[u].ended \/ session[u].state # "active" \/ pc'[u] # pc[u]
<1>1. ASSUME IInv, Next PROVE Kept
  <2>1. ASSUME NEW u \in Uploads, UploadStep(u) PROVE Kept
    <3>1. \/ staging' = staging \/ staging' = staging \cup {u}
          \/ staging' = staging \ {u} /\ pc'[u] # pc[u]
      BY <1>1, <2>1 DEF UploadStep, CheckPath, CreateUploadSession, PutStaging, Heartbeat,
           PutDone, PutFails, ClaimBlob, RemoveDuplicate, LinkObject, RemovePromoted,
           MarkReady, StoreFails, FinalizeUpload, CommitUnknown, FinalizeFails,
           FailUploadSession, FailureUnrecorded, DeleteStaging, CompleteOwnCleanup, Abandon,
           RemoveFile, Goto, fileVars, IInv, TypeOK
    <3> QED
      BY <3>1
  <2>2. ASSUME NEW c \in Cleaners, PassStep(c) \/ PassFails(c) PROVE Kept
    <3>1. \/ staging' = staging
          \/ /\ pass[c].at \in {"remove", "sweep"}
             /\ staging' = staging \ {pass[c].upload}
      BY <2>2 DEF PassStep, PassFails, ClaimExpiredUploadSession, ListStaging, RemoveExpired,
           CompleteUploadCleanup, CheckProtected, SweepStaging, RemoveFile, fileVars
    <3>2. pass[c].at \in {"remove", "sweep"} =>
             session[pass[c].upload].ended \/ session[pass[c].upload].state # "active"
      BY <1>1 DEF IInv, PassHasReason, SessionComesFirst
    <3> QED
      BY <3>1, <3>2
  <2>3. ASSUME NEW u \in Uploads, LeaseExpires(u) \/ DeadlinePasses(u) \/ FileAges(u)
        PROVE  Kept
    BY <2>3 DEF LeaseExpires, DeadlinePasses, FileAges, fileVars
  <2>4. CASE ChecksumDeploy
    BY <2>4 DEF ChecksumDeploy, fileVars
  <2> QED
    BY <1>1, <2>1, <2>2, <2>3, <2>4 DEF Next
<1>2. IInv /\ [Next]_vars => [Kept]_vars
  BY <1>1
<1> QED
  BY <1>2, InductiveInvariant, PTL DEF Spec, DeadlineProtectsStaging

-----------------------------------------------------------------------------
(* Refinement                                                              *)

\* The outcome of one upload, as the refinement mapping of Path has it.
Outcome(s, label) ==
    CASE s.state = "completed" -> "stored"
      [] s.state = "failed" \/ s.gen > 0 -> "refused"
      [] s.state = "none" /\ label = "refused" -> "refused"
      [] OTHER -> "open"

Outcomes == [u \in Uploads |-> Outcome(session[u], pc[u])]

\* A step that leaves artifact and every other upload's outcome alone, and may
\* refuse this one, is a step of the abstract specification.
LEMMA RefuseOrStutter ==
    ASSUME NEW u \in Uploads, artifact' = artifact,
           \A v \in Uploads : v # u => Outcomes'[v] = Outcomes[v],
           \/ Outcomes'[u] = Outcomes[u]
           \/ Outcomes[u] = "open" /\ Outcomes'[u] = "refused"
    PROVE  Path!Next \/ UNCHANGED Path!vars
<1>1. /\ Outcomes = [v \in Uploads |-> Outcomes[v]]
      /\ Outcomes' = [v \in Uploads |-> Outcomes'[v]]
  BY DEF Outcomes
<1>2. CASE Outcomes'[u] = Outcomes[u]
  <2>1. Outcomes' = Outcomes
    BY <1>1, <1>2
  <2> QED
    BY <2>1 DEF Outcomes, Outcome, Path!vars
<1>3. CASE Outcomes[u] = "open" /\ Outcomes'[u] = "refused"
  <2>1. Outcomes' = [Outcomes EXCEPT ![u] = "refused"]
    BY <1>1, <1>3
  <2>2. Path!Refuse(u)
    BY <1>3, <2>1 DEF Outcomes, Outcome, Path!Refuse
  <2> QED
    BY <2>2 DEF Path!Next
<1> QED
  BY <1>2, <1>3

\* In terms of rows: a step on one upload's row that does not complete it, and
\* undoes neither a failure nor a takeover.
LEMMA RowRefines ==
    ASSUME TypeOK, TypeOK', NEW u \in Uploads, artifact' = artifact,
           \A v \in Uploads : v # u => session'[v] = session[v] /\ pc'[v] = pc[v],
           \/ /\ session[u].state = "none" /\ session[u].gen = 0 /\ pc[u] # "refused"
              /\ session'[u].state \in {"none", "active"} /\ session'[u].gen = 0
           \/ /\ session[u].state # "none"
              /\ session'[u].state = session[u].state /\ session'[u].gen >= session[u].gen
           \/ /\ session[u].state \in {"active", "failed"}
              /\ session'[u].state = "failed"
    PROVE  Path!Next \/ UNCHANGED Path!vars
<1>1. session[u].gen \in Nat /\ session'[u].gen \in Nat
  BY DEF TypeOK, Session
<1>2. \A v \in Uploads : v # u => Outcomes'[v] = Outcomes[v]
  BY DEF Outcomes, Outcome
<1>3. /\ Outcomes[u] = Outcome(session[u], pc[u])
      /\ Outcomes'[u] = Outcome(session'[u], pc'[u])
  BY DEF Outcomes, Outcome
<1>4. \/ Outcomes'[u] = Outcomes[u]
      \/ Outcomes[u] = "open" /\ Outcomes'[u] = "refused"
  <2>1. CASE session[u].state = "completed"
    <3>1. session'[u].state = "completed"
      BY <2>1
    <3> QED
      BY <1>3, <2>1, <3>1 DEF Outcome
  <2>2. CASE session[u].state = "failed"
    BY <1>3, <2>2 DEF Outcome
  <2>3. CASE session[u].state = "active"
    BY <1>1, <1>3, <2>3 DEF Outcome
  <2>4. CASE session[u].state = "none"
    BY <1>1, <1>3, <2>4 DEF Outcome
  <2> QED
    BY <2>1, <2>2, <2>3, <2>4 DEF TypeOK, Session
<1> QED
  BY <1>2, <1>4, RefuseOrStutter

LEMMA StoreRefines ==
    ASSUME IInv, NEW u \in Uploads, FinalizeUpload(u) \/ CommitUnknown(u)
    PROVE  Path!Next
<1> USE DEF IInv, TypeOK
<1>1. /\ artifact = None
      /\ artifact' = u
      /\ session[u].state = "active" /\ session[u].gen = 0
      /\ session' = [session EXCEPT ![u].state = "completed", ![u].cleaned = TRUE]
      /\ \A v \in Uploads : v # u => pc'[v] = pc[v]
  BY DEF FinalizeUpload, CommitUnknown, Finalized, Holds, Goto
<1>2. /\ session'[u].state = "completed"
      /\ \A v \in Uploads : v # u => session'[v] = session[v]
  BY <1>1 DEF Session
<1>3. Outcomes[u] = "open" /\ Outcomes'[u] = "stored"
  BY <1>1, <1>2 DEF Outcomes, Outcome
<1>4. \A v \in Uploads : v # u => Outcomes'[v] = Outcomes[v]
  BY <1>1, <1>2 DEF Outcomes, Outcome
<1>5. Outcomes' = [Outcomes EXCEPT ![u] = "stored"]
  BY <1>3, <1>4 DEF Outcomes
<1>6. Path!Store(u)
  BY <1>1, <1>3, <1>5 DEF Outcomes, Outcome, Path!Store
<1> QED
  BY <1>6 DEF Path!Next

LEMMA UploadRefines ==
    ASSUME IInv, TypeOK', NEW u \in Uploads, UploadStep(u),
           ~(FinalizeUpload(u) \/ CommitUnknown(u))
    PROVE  Path!Next \/ UNCHANGED Path!vars
<1> USE DEF IInv, TypeOK
<1>1. artifact' = artifact /\ \A v \in Uploads : v # u => pc'[v] = pc[v]
  BY DEF UploadStep, CheckPath, CreateUploadSession, PutStaging, Heartbeat, PutDone,
       PutFails, ClaimBlob, RemoveDuplicate, LinkObject, RemovePromoted, MarkReady,
       StoreFails, FinalizeFails, FailUploadSession, FailureUnrecorded, DeleteStaging,
       CompleteOwnCleanup, Abandon, AfterFailing, Goto, rowVars
<1>2. CASE CreateUploadSession(u)
  <2>1. session[u] = NoSession /\ pc[u] = "create"
    BY <1>2 DEF CreateUploadSession, SessionComesFirst
  <2>2. /\ session'[u].state = "active" /\ session'[u].gen = 0
        /\ \A v \in Uploads : v # u => session'[v] = session[v]
    BY <1>2 DEF CreateUploadSession, NoSession
  <2> QED
    BY <1>1, <2>1, <2>2, RowRefines DEF NoSession
<1>3. CASE Heartbeat(u)
  <2>1. /\ session[u].state = "active"
        /\ session'[u].state = session[u].state /\ session'[u].gen = session[u].gen
        /\ \A v \in Uploads : v # u => session'[v] = session[v]
    BY <1>3 DEF Heartbeat, Holds, Session
  <2>2. session'[u].gen >= session[u].gen
    BY <2>1 DEF Session
  <2> QED
    BY <1>1, <2>1, <2>2, RowRefines
<1>4. CASE (FailUploadSession(u) \/ CompleteOwnCleanup(u)) /\ session' # session
  <2>1. /\ session[u].state \in {"active", "failed"}
        /\ session'[u].state = "failed"
        /\ \A v \in Uploads : v # u => session'[v] = session[v]
    BY <1>4 DEF FailUploadSession, CompleteOwnCleanup, Holds, Pending, Session
  <2> QED
    BY <1>1, <2>1, RowRefines
<1>5. CASE session' = session
  <2>1. pc[u] # "refused" \/ pc' = pc
    BY DEF UploadStep, CheckPath, CreateUploadSession, PutStaging, Heartbeat, PutDone,
       PutFails, ClaimBlob, RemoveDuplicate, LinkObject, RemovePromoted, MarkReady,
       StoreFails, FinalizeFails, FailUploadSession, FailureUnrecorded, DeleteStaging,
       CompleteOwnCleanup, Abandon
  <2>2. CASE session[u].state = "none" /\ pc[u] # "refused"
    <3>1. session[u] = NoSession
      BY <2>2 DEF SessionComesFirst
    <3> QED
      BY <1>1, <1>5, <2>2, <3>1, RowRefines DEF NoSession
  <2>3. CASE session[u].state # "none"
    <3>1. session'[u].gen >= session[u].gen
      BY <1>5 DEF Session
    <3> QED
      BY <1>1, <1>5, <2>3, <3>1, RowRefines
  <2>4. CASE pc' = pc
    BY <1>1, <1>5, <2>4 DEF Path!vars
  <2> QED
    BY <2>1, <2>2, <2>3, <2>4
<1>6. session' = session \/ CreateUploadSession(u) \/ Heartbeat(u)
      \/ FailUploadSession(u) \/ CompleteOwnCleanup(u)
  BY DEF UploadStep, CheckPath, PutStaging, PutDone, PutFails, ClaimBlob, RemoveDuplicate,
     LinkObject, RemovePromoted, MarkReady, StoreFails, FinalizeFails, FailureUnrecorded,
     DeleteStaging, Abandon, rowVars
<1> QED
  BY <1>2, <1>3, <1>4, <1>5, <1>6

LEMMA PassRefines ==
    ASSUME IInv, TypeOK', NEW c \in Cleaners, PassStep(c) \/ PassFails(c)
    PROVE  Path!Next \/ UNCHANGED Path!vars
<1> USE DEF IInv, TypeOK
<1>1. artifact' = artifact /\ pc' = pc
  BY DEF PassStep, PassFails, ClaimExpiredUploadSession, ListStaging, RemoveExpired,
       CompleteUploadCleanup, CheckProtected, SweepStaging, rowVars
<1>2. ASSUME NEW u \in Uploads, ClaimExpiredUploadSession(c, u)
      PROVE  Path!Next \/ UNCHANGED Path!vars
  <2>1. session' = [session EXCEPT ![u] =
            [session[u] EXCEPT !.owner = c, !.gen = session[u].gen + 1, !.leased = TRUE]]
        /\ session[u].state # "none"
    BY <1>2 DEF ClaimExpiredUploadSession, Claimable, Pending
  <2>2. session[u].gen + 1 >= session[u].gen
    BY DEF Session
  <2>3. /\ session'[u].state = session[u].state
        /\ session'[u].gen >= session[u].gen
        /\ \A v \in Uploads : v # u => session'[v] = session[v]
    BY <2>1, <2>2 DEF Session
  <2> QED
    BY <1>1, <2>1, <2>3, RowRefines
<1>3. CASE session' = session
  BY <1>1, <1>3 DEF Path!vars
<1>4. CASE CompleteUploadCleanup(c) /\ HoldsCleanup(c)
  <2>1. /\ pass[c].upload \in Uploads
        /\ session[pass[c].upload].state \in {"active", "failed"}
        /\ session' = [session EXCEPT ![pass[c].upload].state = "failed",
                                      ![pass[c].upload].cleaned = TRUE]
    BY <1>4 DEF CompleteUploadCleanup, HoldsCleanup, Pending, PassHasReason
  <2>2. /\ session'[pass[c].upload].state = "failed"
        /\ \A v \in Uploads : v # pass[c].upload => session'[v] = session[v]
    BY <2>1 DEF Session
  <2> QED
    BY <1>1, <2>1, <2>2, RowRefines
<1>5. session' = session \/ (\E u \in Uploads : ClaimExpiredUploadSession(c, u))
      \/ (CompleteUploadCleanup(c) /\ HoldsCleanup(c))
  BY DEF PassStep, PassFails, ListStaging, RemoveExpired, CompleteUploadCleanup,
       CheckProtected, SweepStaging, rowVars
<1> QED
  BY <1>2, <1>3, <1>4, <1>5

LEMMA TimeRefines ==
    ASSUME IInv, TypeOK', NEW u \in Uploads,
           LeaseExpires(u) \/ DeadlinePasses(u) \/ FileAges(u)
    PROVE  Path!Next \/ UNCHANGED Path!vars
<1> USE DEF IInv, TypeOK
<1>1. artifact' = artifact /\ pc' = pc
  BY DEF LeaseExpires, DeadlinePasses, FileAges, rowVars
<1>2. CASE FileAges(u)
  BY <1>1, <1>2 DEF FileAges, rowVars, Path!vars
<1>3. CASE LeaseExpires(u) \/ DeadlinePasses(u)
  <2>1. /\ session[u].state # "none"
        /\ session'[u].state = session[u].state /\ session'[u].gen = session[u].gen
        /\ \A v \in Uploads : v # u => session'[v] = session[v]
    BY <1>3 DEF LeaseExpires, DeadlinePasses, Pending, Session
  <2>2. session'[u].gen >= session[u].gen
    BY <2>1 DEF Session
  <2> QED
    BY <1>1, <2>1, <2>2, RowRefines
<1> QED
  BY <1>2, <1>3

\* Uploads and passes together behave like a path that is written once.
THEOREM UploadsImplementImmutablePath == Spec => ImplementsImmutablePath
<1>1. Init => Path!Init
  BY DEF Init, NoSession, Path!Init
<1>2. ASSUME IInv, Next PROVE Path!Next \/ UNCHANGED Path!vars
  <2>1. TypeOK'
    BY <1>2, StepTyped DEF IInv
  <2>2. CASE ChecksumDeploy
    BY <2>2 DEF ChecksumDeploy, Path!Next, Path!StoreDeploy
  <2> QED
    BY <1>2, <2>1, <2>2, StoreRefines, UploadRefines, PassRefines, TimeRefines DEF Next
<1>3. ASSUME UNCHANGED vars PROVE UNCHANGED Path!vars
  BY <1>3 DEF vars, rowVars, Path!vars
<1>4. IInv /\ [Next]_vars => [Path!Next]_(Path!vars)
  BY <1>2, <1>3
<1> QED
  BY <1>1, <1>4, InductiveInvariant, PTL DEF Spec, ImplementsImmutablePath, Path!Spec

=============================================================================
