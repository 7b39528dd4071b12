--------------------------- MODULE BlobStoreProofs ---------------------------
(***************************************************************************)
(* Theorems about BlobStore for any number of writers, cleaners and        *)
(* faults, as long as no deletion outlives the lease and the quarantine of *)
(* its row ("late" is not a fault that happens); the last theorem, for     *)
(* deletions that are as late as they like.                                *)
(***************************************************************************)
EXTENDS BlobStore, TLAPS

-----------------------------------------------------------------------------
(* Type correctness                                                        *)

\* Every state a row can be given is well typed.
LEMMA RowUpdates ==
    ASSUME TypeOK
    PROVE  /\ NoRow \in Row
           /\ \A w \in Writers :
                 /\ [NoRow EXCEPT !.state = "creating", !.owner = w, !.leased = TRUE] \in Row
                 /\ [row EXCEPT !.owner = w, !.gen = row.gen + 1, !.leased = TRUE] \in Row
           /\ \A c \in Cleaners :
                 /\ [NoRow EXCEPT !.state = "deleting", !.owner = c, !.leased = TRUE] \in Row
                 /\ [row EXCEPT !.state = "deleting", !.owner = c, !.gen = row.gen + 1,
                                !.leased = TRUE, !.completed = FALSE] \in Row
           /\ [row EXCEPT !.state = "ready", !.owner = None, !.leased = FALSE] \in Row
           /\ [row EXCEPT !.completed = TRUE, !.leased = TRUE] \in Row
           /\ [row EXCEPT !.leased = TRUE] \in Row
           /\ [row EXCEPT !.leased = FALSE] \in Row
           /\ [row EXCEPT !.old = TRUE] \in Row
           /\ [row EXCEPT !.old = FALSE] \in Row
           /\ row.gen + 1 \in Nat
<1>1. row \in Row /\ row.gen \in Nat
  BY DEF TypeOK, Row
<1>2. NoRow \in Row
  BY DEF NoRow, Row
<1>3. row.gen + 1 \in Nat
  BY <1>1
<1>4. /\ [row EXCEPT !.state = "ready", !.owner = None, !.leased = FALSE] \in Row
      /\ [row EXCEPT !.completed = TRUE, !.leased = TRUE] \in Row
  BY <1>1 DEF Row
<1>5. /\ [row EXCEPT !.leased = TRUE] \in Row
      /\ [row EXCEPT !.leased = FALSE] \in Row
      /\ [row EXCEPT !.old = TRUE] \in Row
      /\ [row EXCEPT !.old = FALSE] \in Row
  BY <1>1 DEF Row
<1>6. ASSUME NEW w \in Writers
      PROVE  /\ [NoRow EXCEPT !.state = "creating", !.owner = w, !.leased = TRUE] \in Row
             /\ [row EXCEPT !.owner = w, !.gen = row.gen + 1, !.leased = TRUE] \in Row
  BY <1>1, <1>2, <1>3 DEF Row
<1>7. ASSUME NEW c \in Cleaners
      PROVE  /\ [NoRow EXCEPT !.state = "deleting", !.owner = c, !.leased = TRUE] \in Row
             /\ [row EXCEPT !.state = "deleting", !.owner = c, !.gen = row.gen + 1,
                            !.leased = TRUE, !.completed = FALSE] \in Row
  BY <1>1, <1>2, <1>3 DEF Row
<1> QED
  BY <1>2, <1>3, <1>4, <1>5, <1>6, <1>7

\* Whichever way a writer or a cleaner goes on, its label and generation stay
\* well typed.
LEMMA ProcessUpdates ==
    ASSUME TypeOK
    PROVE  /\ \A w \in Writers, l \in WriterLabels :
                 [wpc EXCEPT ![w] = l] \in [Writers -> WriterLabels]
           /\ \A w \in Writers, n \in Nat : [wgen EXCEPT ![w] = n] \in [Writers -> Nat]
           /\ \A c \in Cleaners, l \in CleanerLabels :
                 [cpc EXCEPT ![c] = l] \in [Cleaners -> CleanerLabels]
           /\ \A c \in Cleaners, n \in Nat : [cgen EXCEPT ![c] = n] \in [Cleaners -> Nat]
BY DEF TypeOK

LEMMA WritersTyped ==
    ASSUME TypeOK, NEW w \in Writers, WriterStep(w)
    PROVE  TypeOK'
<1>1. {"idle", "claim", "stat", "link", "mark", "reference", "done"} \subseteq WriterLabels
  BY DEF WriterLabels
<1>2. ASSUME NEW l \in WriterLabels, WriterGoes(w, l) \/ WriterEnds(w)
      PROVE  wpc' \in [Writers -> WriterLabels] /\ wgen' \in [Writers -> Nat]
  BY <1>1, <1>2 DEF WriterGoes, WriterEnds, TypeOK
<1>3. ASSUME ClaimNew(w) \/ ClaimExpired(w) PROVE TypeOK'
  <2>1. /\ wpc' = [wpc EXCEPT ![w] = "stat"]
        /\ \/ wgen' = [wgen EXCEPT ![w] = 0]
           \/ wgen' = [wgen EXCEPT ![w] = row.gen + 1]
    BY <1>3 DEF ClaimNew, ClaimExpired
  <2>2. wpc' \in [Writers -> WriterLabels] /\ wgen' \in [Writers -> Nat]
    <3>1. "stat" \in WriterLabels /\ row.gen + 1 \in Nat
      BY <1>1, RowUpdates
    <3> QED
      BY <2>1, <3>1 DEF TypeOK
  <2>3. row' \in Row
    <3>1. \/ row' = [NoRow EXCEPT !.state = "creating", !.owner = w, !.leased = TRUE]
          \/ row' = [row EXCEPT !.owner = w, !.gen = row.gen + 1, !.leased = TRUE]
      BY <1>3 DEF ClaimNew, ClaimExpired
    <3>2. /\ [NoRow EXCEPT !.state = "creating", !.owner = w, !.leased = TRUE] \in Row
          /\ [row EXCEPT !.owner = w, !.gen = row.gen + 1, !.leased = TRUE] \in Row
      BY RowUpdates
    <3> QED
      BY <3>1, <3>2
  <2> QED
    BY <1>3, <2>2, <2>3 DEF ClaimNew, ClaimExpired, cleanerVars, TypeOK
<1>4. ASSUME \/ StartUpload(w) \/ ClaimReady(w) \/ ClaimRefused(w) \/ StatObject(w)
             \/ LinkObject(w) \/ AbandonUpload(w)
      PROVE  TypeOK'
  <2>1. wpc' \in [Writers -> WriterLabels] /\ wgen' \in [Writers -> Nat]
    BY <1>1, <1>2, <1>4
       DEF StartUpload, ClaimReady, ClaimRefused, StatObject, LinkObject, AbandonUpload
  <2> QED
    BY <1>4, <2>1 DEF StartUpload, ClaimReady, ClaimRefused, StatObject, LinkObject,
                      AbandonUpload, cleanerVars, TypeOK
<1>5. ASSUME MarkReady(w) \/ FinalizeUpload(w) \/ ChecksumDeploy(w) PROVE TypeOK'
  <2>1. wpc' \in [Writers -> WriterLabels] /\ wgen' \in [Writers -> Nat]
    BY <1>1, <1>2, <1>5 DEF MarkReady, FinalizeUpload, ChecksumDeploy
  <2>2. row' = Touched \/ row' = row
        \/ row' = [row EXCEPT !.state = "ready", !.owner = None, !.leased = FALSE]
    BY <1>5 DEF MarkReady, FinalizeUpload, ChecksumDeploy
  <2>3. row' \in Row
    BY <2>2, RowUpdates DEF Touched, TypeOK
  <2>4. refs' \in SUBSET Writers
    BY <1>5 DEF MarkReady, FinalizeUpload, ChecksumDeploy, TypeOK
  <2> QED
    BY <1>5, <2>1, <2>3, <2>4 DEF MarkReady, FinalizeUpload, ChecksumDeploy, cleanerVars, TypeOK
<1> QED
  BY <1>3, <1>4, <1>5 DEF WriterStep

LEMMA CleanersTyped ==
    ASSUME TypeOK, NEW c \in Cleaners, CleanerStep(c)
    PROVE  TypeOK'
<1>1. {"idle", "lock", "list", "tombstone", "remove", "complete"} \subseteq CleanerLabels
  BY DEF CleanerLabels
<1>2. ASSUME NEW l \in CleanerLabels, CleanerGoes(c, l) \/ PassEnds(c)
      PROVE  cpc' \in [Cleaners -> CleanerLabels] /\ cgen' \in [Cleaners -> Nat]
  BY <1>1, <1>2 DEF CleanerGoes, PassEnds, TypeOK
<1>3. ASSUME ClaimOrphan(c) PROVE TypeOK'
  <2>1. cpc' \in [Cleaners -> CleanerLabels] /\ cgen' \in [Cleaners -> Nat] /\ row' \in Row
    BY <1>1, <1>3, RowUpdates, ProcessUpdates DEF ClaimOrphan
  <2> QED
    BY <1>3, <2>1 DEF ClaimOrphan, writerVars, TypeOK
<1>4. ASSUME InsertTombstone(c) PROVE TypeOK'
  <2>1. CASE row.state = "none"
    <3>1. [NoRow EXCEPT !.state = "deleting", !.owner = c, !.leased = TRUE] \in Row
      BY RowUpdates
    <3>2. /\ row' = [NoRow EXCEPT !.state = "deleting", !.owner = c, !.leased = TRUE]
          /\ cpc' = [cpc EXCEPT ![c] = "remove"]
          /\ cgen' = [cgen EXCEPT ![c] = 0]
      BY <1>4, <2>1 DEF InsertTombstone
    <3>3. cpc' \in [Cleaners -> CleanerLabels] /\ cgen' \in [Cleaners -> Nat]
      BY <1>1, <3>2 DEF TypeOK
    <3> QED
      BY <1>4, <3>1, <3>2, <3>3 DEF InsertTombstone, writerVars, TypeOK
  <2>2. CASE row.state # "none"
    BY <1>1, <1>2, <1>4, <2>2 DEF InsertTombstone, writerVars, TypeOK
  <2> QED
    BY <2>1, <2>2
<1>5. ASSUME \/ StartPass(c) \/ SkipOrphan(c) \/ ListObject(c) \/ DeleteCancelled(c)
             \/ DeleteFails(c) \/ CleanerCrash(c)
      PROVE  TypeOK'
  <2>1. cpc' \in [Cleaners -> CleanerLabels] /\ cgen' \in [Cleaners -> Nat]
    BY <1>1, <1>2, <1>5
       DEF StartPass, SkipOrphan, ListObject, DeleteCancelled, DeleteFails, CleanerCrash
  <2>2. faults' \in Nat
    BY <1>5 DEF StartPass, SkipOrphan, ListObject, DeleteCancelled, DeleteFails, CleanerCrash,
                TypeOK
  <2> QED
    BY <1>5, <2>1, <2>2 DEF StartPass, SkipOrphan, ListObject, DeleteCancelled, DeleteFails,
                            CleanerCrash, writerVars, TypeOK
<1>6. ASSUME RemoveObject(c) \/ CompleteDelete(c) PROVE TypeOK'
  <2>1. cpc' \in [Cleaners -> CleanerLabels] /\ cgen' \in [Cleaners -> Nat]
    BY <1>1, <1>2, <1>6 DEF RemoveObject, CompleteDelete
  <2>2. row' = row \/ row' = [row EXCEPT !.completed = TRUE, !.leased = TRUE]
    BY <1>6 DEF RemoveObject, CompleteDelete
  <2>3. row' \in Row
    BY <2>2, RowUpdates DEF TypeOK
  <2> QED
    BY <1>6, <2>1, <2>3 DEF RemoveObject, CompleteDelete, writerVars, TypeOK
<1>7. ASSUME DeleteHeartbeat(c) PROVE TypeOK'
  BY <1>7, RowUpdates DEF DeleteHeartbeat, writerVars, cleanerVars, TypeOK
<1> QED
  BY <1>3, <1>4, <1>5, <1>6, <1>7 DEF CleanerStep, PassStep

LEMMA NextTyped ==
    ASSUME TypeOK, Next
    PROVE  TypeOK'
<1>1. CASE PurgeQuarantined \/ RowAges
  BY <1>1, RowUpdates DEF PurgeQuarantined, RowAges, TypeOK, writerVars, cleanerVars
<1>2. CASE LeaseExpires
  <2>1. faults' \in Nat
    BY <1>2 DEF LeaseExpires, TypeOK
  <2> QED
    BY <1>2, <2>1, RowUpdates DEF LeaseExpires, TypeOK, writerVars, cleanerVars
<1> QED
  BY <1>1, <1>2, WritersTyped, CleanersTyped DEF Next

-----------------------------------------------------------------------------
(* The inductive invariant                                                 *)

Safe ==
    /\ ReferencedIsServable
    /\ ReadyHasObject
    /\ RemoverHasTombstone
    /\ CreatorHasObject
    /\ RecheckSeesReference

\* A creating row has no references, so claiming it, or promoting its content,
\* disturbs nothing that is visible.
LEMMA WritersSafe ==
    ASSUME TypeOK, Safe, NEW w \in Writers, WriterStep(w)
    PROVE  Safe'
<1> USE DEF Safe, TypeOK, ReferencedIsServable, ReadyHasObject, RemoverHasTombstone,
            CreatorHasObject, RecheckSeesReference
<1>1. CASE StartUpload(w) \/ ClaimReady(w) \/ ClaimRefused(w) \/ AbandonUpload(w)
  BY <1>1 DEF StartUpload, ClaimReady, ClaimRefused, AbandonUpload, WriterGoes, WriterEnds,
              cleanerVars, Owns, Orphanable
<1>2. CASE ClaimNew(w)
  BY <1>2, OwnersAssumption DEF ClaimNew, cleanerVars, Owns, Orphanable, NoRow
<1>3. CASE ClaimExpired(w)
  BY <1>3 DEF ClaimExpired, cleanerVars, Owns, Orphanable, Row
<1>4. CASE StatObject(w)
  BY <1>4 DEF StatObject, WriterGoes, cleanerVars, Owns, Orphanable
<1>5. CASE LinkObject(w)
  BY <1>5 DEF LinkObject, WriterGoes, cleanerVars, Owns, Orphanable
<1>6. CASE MarkReady(w)
  BY <1>6, OwnersAssumption
     DEF MarkReady, WriterGoes, WriterEnds, cleanerVars, Owns, Orphanable, Row
<1>7. CASE FinalizeUpload(w) \/ ChecksumDeploy(w)
  BY <1>7 DEF FinalizeUpload, ChecksumDeploy, WriterEnds, Touched, cleanerVars, Owns,
              Orphanable, Row
<1> QED
  BY <1>1, <1>2, <1>3, <1>4, <1>5, <1>6, <1>7 DEF WriterStep

\* A row is claimed only when it has no references, and the file is removed only
\* under a tombstone.
LEMMA CleanersSafe ==
    ASSUME TypeOK, Safe, NEW c \in Cleaners, CleanerStep(c)
    PROVE  Safe'
<1> USE DEF Safe, TypeOK, ReferencedIsServable, ReadyHasObject, RemoverHasTombstone,
            CreatorHasObject, RecheckSeesReference
<1>1. CASE \/ StartPass(c) \/ SkipOrphan(c) \/ ListObject(c) \/ DeleteCancelled(c)
           \/ DeleteFails(c) \/ CleanerCrash(c)
  BY <1>1 DEF StartPass, SkipOrphan, ListObject, DeleteCancelled, DeleteFails, CleanerCrash,
              CleanerGoes, PassEnds, writerVars, Owns, Orphanable
<1>2. CASE ClaimOrphan(c)
  BY <1>2 DEF ClaimOrphan, writerVars, Owns, Orphanable, Row
<1>3. CASE InsertTombstone(c)
  BY <1>3 DEF InsertTombstone, CleanerGoes, PassEnds, writerVars, Owns, Orphanable, NoRow
<1>4. CASE RemoveObject(c)
  BY <1>4 DEF RemoveObject, CleanerGoes, writerVars, Owns, Orphanable
<1>5. CASE CompleteDelete(c)
  BY <1>5 DEF CompleteDelete, HoldsDeletion, PassEnds, writerVars, Owns, Orphanable, Row
<1>6. CASE DeleteHeartbeat(c)
  BY <1>6 DEF DeleteHeartbeat, HoldsDeletion, writerVars, cleanerVars, Owns, Orphanable, Row
<1> QED
  BY <1>1, <1>2, <1>3, <1>4, <1>5, <1>6 DEF CleanerStep, PassStep

LEMMA TimeSafe ==
    ASSUME "late" \notin FaultKinds, TypeOK, Safe, PurgeQuarantined \/ LeaseExpires \/ RowAges
    PROVE  Safe'
<1> USE DEF Safe, TypeOK, ReferencedIsServable, ReadyHasObject, RemoverHasTombstone,
            CreatorHasObject, RecheckSeesReference
<1>1. CASE PurgeQuarantined
  BY <1>1 DEF PurgeQuarantined, writerVars, cleanerVars, Owns, Orphanable, NoRow
<1>2. CASE LeaseExpires
  <2>1. row.completed /\ row.state = "deleting" => \A c \in Cleaners : cpc[c] # "remove"
    BY <1>2 DEF LeaseExpires
  <2>2. row' = [row EXCEPT !.leased = FALSE] /\ UNCHANGED <<refs, object, wpc, wgen, cpc, cgen>>
    BY <1>2 DEF LeaseExpires, writerVars, cleanerVars
  <2> QED
    BY <2>1, <2>2 DEF Owns, Orphanable, Row
<1>3. CASE RowAges
  BY <1>3 DEF RowAges, writerVars, cleanerVars, Owns, Orphanable, Row
<1> QED
  BY <1>1, <1>2, <1>3

LEMMA InitIInv == Init => IInv
<1> SUFFICES ASSUME Init PROVE IInv
  OBVIOUS
<1>1. NoRow \in Row
  BY DEF NoRow, Row
<1>2. TypeOK
  BY <1>1 DEF Init, TypeOK, WriterLabels, CleanerLabels
<1>3. ReferencedIsServable /\ ReadyHasObject /\ CreatorHasObject
  BY DEF Init, NoRow, ReferencedIsServable, ReadyHasObject, CreatorHasObject
<1>4. RemoverHasTombstone /\ RecheckSeesReference
  BY DEF Init, RemoverHasTombstone, RecheckSeesReference
<1> QED
  BY <1>2, <1>3, <1>4 DEF IInv

LEMMA StepIInv == "late" \notin FaultKinds /\ IInv /\ [Next]_vars => IInv'
<1> SUFFICES ASSUME "late" \notin FaultKinds, IInv, [Next]_vars PROVE IInv'
  OBVIOUS
<1>1. TypeOK /\ Safe
  BY DEF IInv, Safe
<1>2. CASE Next
  <2>1. TypeOK'
    BY <1>1, <1>2, NextTyped
  <2>2. Safe'
    BY <1>1, <1>2, WritersSafe, CleanersSafe, TimeSafe DEF Next
  <2> QED
    BY <2>1, <2>2 DEF IInv, Safe
<1>3. CASE UNCHANGED vars
  BY <1>3 DEF vars, writerVars, cleanerVars, IInv, TypeOK, ReferencedIsServable, ReadyHasObject,
              RemoverHasTombstone, CreatorHasObject, RecheckSeesReference, Owns, Orphanable
<1> QED
  BY <1>2, <1>3

\* The conjunction that every reachable state satisfies.
THEOREM InductiveInvariant ==
    ASSUME "late" \notin FaultKinds
    PROVE  Spec => []IInv
<1>1. IInv /\ [Next]_vars => IInv'
  BY StepIInv
<1> QED
  BY <1>1, InitIInv, PTL DEF Spec

\* An artifact that is visible can be served: its blob is ready and its file
\* exists, for any number of uploads, deploys and cleaners of the same content,
\* wherever they stall or die.
THEOREM ArtifactsAreServable ==
    ASSUME "late" \notin FaultKinds
    PROVE  Spec => []ReferencedIsServable
<1>1. IInv => ReferencedIsServable
  BY DEF IInv
<1>2. Spec => []IInv
  BY InductiveInvariant
<1> QED
  BY <1>1, <1>2, PTL

\* A file is removed only while its row is a tombstone, which every claim and
\* every reference refuses.
THEOREM FilesGoUnderTombstones ==
    ASSUME "late" \notin FaultKinds
    PROVE  Spec => RemovedUnderTombstone
<1>1. ASSUME IInv, [Next]_vars PROVE [object /\ ~object' => row.state = "deleting"]_vars
  <2>1. CASE \E c \in Cleaners : RemoveObject(c)
    BY <1>1, <2>1 DEF RemoveObject, IInv, RemoverHasTombstone
  <2>2. CASE ~\E c \in Cleaners : RemoveObject(c)
    <3>1. ASSUME object, ~object', Next PROVE FALSE
      <4>1. ASSUME NEW w \in Writers, WriterStep(w) PROVE FALSE
        BY <3>1, <4>1 DEF WriterStep, StartUpload, ClaimNew, ClaimExpired, ClaimReady,
             ClaimRefused, StatObject, LinkObject, MarkReady, FinalizeUpload, ChecksumDeploy,
             AbandonUpload
      <4>2. ASSUME NEW c \in Cleaners, CleanerStep(c) PROVE FALSE
        BY <2>2, <3>1, <4>2 DEF CleanerStep, PassStep, StartPass, ClaimOrphan, SkipOrphan,
             ListObject, InsertTombstone, CompleteDelete, DeleteHeartbeat, DeleteCancelled,
             DeleteFails, CleanerCrash
      <4> QED
        BY <3>1, <4>1, <4>2 DEF Next, PurgeQuarantined, LeaseExpires, RowAges
    <3> QED
      BY <1>1, <3>1
  <2> QED
    BY <2>1, <2>2
<1>2. IInv /\ [Next]_vars => [object /\ ~object' => row.state = "deleting"]_vars
  BY <1>1
<1>3. Spec => []IInv
  BY InductiveInvariant
<1> QED
  BY <1>2, <1>3, PTL DEF Spec, RemovedUnderTombstone

-----------------------------------------------------------------------------
(* However late a deletion is                                              *)

\* As soon as one artifact references the blob, its row is ready: no cleaner has
\* claimed it (ClaimOrphanBlob) and no purge has taken it away.
ReferencedIsReady == refs # {} => row.state = "ready"
RowInv == TypeOK /\ ReferencedIsReady /\ RecheckSeesReference

\* Without any bound on how late a deletion may be, the part of the invariant
\* that the database alone answers for is inductive by itself.
LEMMA StepRowInv == RowInv /\ [Next]_vars => RowInv'
<1> SUFFICES ASSUME RowInv, [Next]_vars PROVE RowInv'
  OBVIOUS
<1>1. TypeOK /\ row \in Row
  BY DEF RowInv, TypeOK
<1> USE DEF ReferencedIsReady, RecheckSeesReference, Orphanable
<1>2. ASSUME NEW w \in Writers, WriterStep(w)
      PROVE  ReferencedIsReady' /\ RecheckSeesReference'
  <2>1. /\ cpc' = cpc
        /\ refs' # refs => row.state = "ready" /\ row' = Touched
        /\ row' # row => row.state # "ready" \/ row' = Touched
    BY <1>2 DEF WriterStep, StartUpload, ClaimNew, ClaimExpired, ClaimReady, ClaimRefused,
       StatObject, LinkObject, MarkReady, Owns, FinalizeUpload, ChecksumDeploy, AbandonUpload,
       cleanerVars
  <2>2. Touched.state = row.state /\ Touched.old = FALSE
    BY <1>1 DEF Touched, Row
  <2> QED
    BY <1>1, <2>1, <2>2 DEF RowInv
<1>3. ASSUME NEW c \in Cleaners, CleanerStep(c)
      PROVE  ReferencedIsReady' /\ RecheckSeesReference'
  <2>1. CASE ClaimOrphan(c) \/ StartPass(c)
    BY <1>1, <2>1 DEF RowInv, ClaimOrphan, StartPass, CleanerGoes, TypeOK
  <2>2. CASE InsertTombstone(c)
    BY <1>1, <2>2 DEF RowInv, InsertTombstone, PassEnds, TypeOK
  <2>3. CASE CompleteDelete(c) \/ DeleteHeartbeat(c)
    BY <1>1, <2>3 DEF RowInv, CompleteDelete, DeleteHeartbeat, HoldsDeletion, PassEnds,
       cleanerVars, TypeOK
  <2>4. CASE \/ SkipOrphan(c) \/ ListObject(c) \/ RemoveObject(c) \/ DeleteCancelled(c)
             \/ DeleteFails(c) \/ CleanerCrash(c)
    BY <1>1, <2>4 DEF RowInv, SkipOrphan, ListObject, RemoveObject, DeleteCancelled,
       DeleteFails, CleanerCrash, CleanerGoes, PassEnds, TypeOK
  <2> QED
    BY <1>3, <2>1, <2>2, <2>3, <2>4 DEF CleanerStep, PassStep
<1>4. ASSUME PurgeQuarantined \/ LeaseExpires \/ RowAges
      PROVE  ReferencedIsReady' /\ RecheckSeesReference'
  BY <1>1, <1>4 DEF RowInv, PurgeQuarantined, LeaseExpires, RowAges, cleanerVars, Row
<1>5. CASE Next
  BY <1>1, <1>2, <1>3, <1>4, <1>5, NextTyped DEF Next, RowInv
<1>6. CASE UNCHANGED vars
  BY <1>6 DEF vars, writerVars, cleanerVars, RowInv, TypeOK
<1> QED
  BY <1>5, <1>6

\* A content that an artifact references is never handed to a cleaner: its row
\* stays ready even when deletions outlive their quarantine.  A late deletion
\* can take the file of such a row, and nothing else.
THEOREM ReferencesKeepTheRow == Spec => []ReferencedIsReady
<1>1. Init => RowInv
  BY InitIInv DEF Init, IInv, RowInv, ReferencedIsReady
<1>2. RowInv => ReferencedIsReady
  BY DEF RowInv
<1> QED
  BY <1>1, <1>2, StepRowInv, PTL DEF Spec

=============================================================================
