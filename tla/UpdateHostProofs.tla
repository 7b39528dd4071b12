-------------------------- MODULE UpdateHostProofs --------------------------
(***************************************************************************)
(* Theorems about UpdateHost for any versions and clients, any numbers of  *)
(* updates, runs of the script and power losses.                           *)
(***************************************************************************)
EXTENDS UpdateHost, TLAPS

-----------------------------------------------------------------------------
(* Values                                                                  *)

LEMMA Values ==
    /\ NoVersion \notin Versions
    /\ Versions \subseteq Targets /\ NoVersion \in Targets
    /\ Torn \notin Targets /\ NoBackup \notin Targets
    /\ {"absent", "part", "whole"} = DirStates
<1>1. NoVersion \notin Versions
  BY VersionsAssumption DEF NoVersion
<1>2. Targets \subseteq Nat
  BY VersionsAssumption DEF NoVersion, Targets
<1>3. Torn \notin Targets /\ NoBackup \notin Targets
  BY <1>2, TornAssumption
<1> QED
  BY <1>1, <1>3 DEF Targets, DirStates

\* The labels, so that no other proof has to expand them.
LEMMA Labels ==
    /\ Forward = {"staging", "committed", "synced", "read", "switched", "hooks"}
    /\ Backward = {"undo", "verified", "restored", "removing", "removed"}
    /\ ScriptForward = {"staging", "moved", "committed", "replaced", "changed", "saving",
                        "linking", "linked", "hooks", "success"}
    /\ ScriptBackward = {"cleanup", "unlinked", "restore", "remove", "ended", "littered"}
    /\ Flags = {"committed", "current_changed", "launcher_saved", "launcher_changed"}
    /\ Launchers = {"none", "file", "link"}
BY DEF Forward, Backward, ScriptForward, ScriptBackward, Flags, Launchers

LEMMA Nothings == NoInstall \in Install /\ NoScript \in Script /\ NoUpdate \in Update
<1>1. NoInstall \in Install
  BY Values DEF NoInstall, Install
<1>2. NoScript \in Script
  BY Values DEF NoScript, Script, Launchers
<1>3. NoUpdate \in Update
  BY Values DEF NoUpdate, Update
<1> QED
  BY <1>1, <1>2, <1>3

-----------------------------------------------------------------------------
(* The installation directory                                              *)

\* All that is ever done to it.
RootMove ==
    \/ UNCHANGED rootVars
    \/ \E v \in Versions, synced \in BOOLEAN : PutVersion(v, synced)
    \/ \E v \in Versions, left \in {"absent", "part"} : RemoveVersion(v, left)
    \/ \E t \in Targets : PointCurrent(t)
    \/ SyncVersions \/ SyncRoot \/ PowerFails

RootKnown == (\A v \in Versions : dir[v] \in leftDir[v]) /\ current \in leftCurrent

LEMMA RootMoveKeeps ==
    ASSUME RootTypeOK, RootKnown, RootMove
    PROVE  RootTypeOK' /\ RootKnown'
<1> USE Values DEF RootTypeOK, RootKnown
<1>1. CASE UNCHANGED rootVars
  BY <1>1 DEF rootVars
<1>2. ASSUME NEW v \in Versions, NEW synced \in BOOLEAN, PutVersion(v, synced)
      PROVE  RootTypeOK' /\ RootKnown'
  <2>1. leftDir'[v] = leftDir[v] \cup {"whole"} \cup (IF synced THEN {} ELSE {"part"})
        /\ \A w \in Versions : w # v => leftDir'[w] = leftDir[w] /\ dir'[w] = dir[w]
    BY <1>2 DEF PutVersion
  <2>2. leftDir' \in [Versions -> SUBSET DirStates] /\ dir' \in [Versions -> DirStates]
    BY <1>2 DEF PutVersion
  <2>3. unsynced' \in SUBSET Versions /\ dir'[v] = "whole"
    BY <1>2 DEF PutVersion
  <2> QED
    BY <1>2, <2>1, <2>2, <2>3 DEF PutVersion
<1>3. ASSUME NEW v \in Versions, NEW left \in {"absent", "part"}, RemoveVersion(v, left)
      PROVE  RootTypeOK' /\ RootKnown'
  <2>1. leftDir' \in [Versions -> SUBSET DirStates] /\ dir' \in [Versions -> DirStates]
    BY <1>3 DEF RemoveVersion
  <2>2. \A w \in Versions : dir'[w] \in leftDir'[w]
    BY <1>3 DEF RemoveVersion
  <2> QED
    BY <1>3, <2>1, <2>2 DEF RemoveVersion
<1>4. CASE \E t \in Targets : PointCurrent(t)
  BY <1>4 DEF PointCurrent
<1>5. CASE SyncVersions
  <2>1. leftDir' \in [Versions -> SUBSET DirStates] /\ \A w \in Versions : dir'[w] \in leftDir'[w]
    BY <1>5 DEF SyncVersions
  <2> QED
    BY <1>5, <2>1 DEF SyncVersions
<1>6. CASE SyncRoot
  BY <1>6 DEF SyncRoot
<1>7. CASE PowerFails
  BY <1>7 DEF PowerFails
<1> QED
  BY <1>1, <1>2, <1>3, <1>4, <1>5, <1>6, <1>7 DEF RootMove

-----------------------------------------------------------------------------
(* The program that replaces itself                                        *)

BinaryShape == SelfTypeOK /\ BackupShape /\ ProgramSurvives

\* All that is ever done to the program and its backups.
BinaryMove(u) ==
    \/ \E v \in Targets : BeginUpdate(u, v)
    \/ UpdateStep(u) \/ RollbackUpdate(u) \/ FinalizeUpdate(u) \/ UpdaterDies(u)

LEMMA UpdateRows ==
    ASSUME SelfTypeOK, NEW u \in Clients
    PROVE  /\ \A v \in Targets : [NoUpdate EXCEPT !.at = "staging", !.version = v] \in Update
           /\ \A at \in {"replaced", "held", "finalized"} : [update[u] EXCEPT !.at = at] \in Update
           /\ \A b \in Targets : [update[u] EXCEPT !.at = "saved", !.backup = b] \in Update
           /\ \A at \in {"restored", "undone", "finalized"} :
                 [update[u] EXCEPT !.at = at, !.backup = NoBackup] \in Update
<1>1. update[u] \in Update
  BY DEF SelfTypeOK
<1>2. \A v \in Targets : [NoUpdate EXCEPT !.at = "staging", !.version = v] \in Update
  BY Values DEF NoUpdate, Update
<1>3. \A at \in {"replaced", "held", "finalized"} : [update[u] EXCEPT !.at = at] \in Update
  BY <1>1 DEF Update
<1>4. \A b \in Targets : [update[u] EXCEPT !.at = "saved", !.backup = b] \in Update
  BY <1>1 DEF Update
<1>5. \A at \in {"restored", "undone", "finalized"} :
          [update[u] EXCEPT !.at = at, !.backup = NoBackup] \in Update
  BY <1>1 DEF Update
<1> QED
  BY <1>2, <1>3, <1>4, <1>5

\* What is renamed over the program is a version that has been synced, or the backup.
LEMMA BinaryMoveTyped ==
    ASSUME BinaryShape, NEW u \in Clients, BinaryMove(u)
    PROVE  SelfTypeOK' /\ ProgramSurvives'
<1>1. update[u] \in Update /\ update[u].version \in Targets
      /\ (update[u].backup # NoBackup => update[u].backup \in Targets)
  BY DEF BinaryShape, SelfTypeOK, Update
<1>0. [update EXCEPT ![u].at = "replaced", ![u].before = target] \in [Clients -> Update]
  <2>1. update \in [Clients -> Update] /\ target \in Targets
    BY DEF BinaryShape, SelfTypeOK
  <2> QED
    BY <2>1 DEF Update
<1> USE DEF BinaryShape, ProgramSurvives, SelfTypeOK
<1>2. CASE \E v \in Targets : BeginUpdate(u, v)
  BY <1>2, Values, UpdateRows, Nothings DEF BeginUpdate, binaryVars
<1>3. CASE SaveBackup(u)
  BY <1>3, Values, UpdateRows, Nothings DEF SaveBackup, Quit, binaryVars
<1>4. CASE Replace(u)
  BY <1>0, <1>1, <1>4, Values, Nothings DEF Replace, Quit, binaryVars
<1>5. CASE SyncReplaced(u)
  BY <1>1, <1>5, Values, UpdateRows, Nothings DEF SyncReplaced, Quit, Advance, binaryVars, BackupShape
<1>6. CASE EndRestored(u)
  BY <1>6, Values, UpdateRows, Nothings DEF EndRestored, Quit
<1>7. CASE RollbackUpdate(u)
  BY <1>1, <1>7, Values, UpdateRows, Nothings DEF RollbackUpdate
<1>8. CASE SyncUndone(u) \/ SyncFinalized(u)
  BY <1>8, Values, UpdateRows, Nothings DEF SyncUndone, SyncFinalized, Quit, Advance
<1>9. CASE FinalizeUpdate(u) \/ UpdaterDies(u)
  BY <1>9, Values, UpdateRows, Nothings DEF FinalizeUpdate, UpdaterDies, Quit, binaryVars
<1> QED
  BY <1>2, <1>3, <1>4, <1>5, <1>6, <1>7, <1>8, <1>9 DEF BinaryMove, UpdateStep

LEMMA BinaryMoveKeeps ==
    ASSUME BinaryShape, NEW u \in Clients, BinaryMove(u)
    PROVE  BinaryShape' /\ \A d \in Clients : d # u => update'[d] = update[d]
<1> USE DEF SelfTypeOK
<1>1. /\ \A d \in Clients : d # u => update'[d] = update[d]
      /\ update'[u].at \in {"saved", "replaced"} => update'[u].backup # NoBackup
      /\ update'[u].at \in {"restored", "undone", "finalized"} => update'[u].backup = NoBackup
  <2> USE Values DEF BinaryShape, BackupShape, Update, NoUpdate, Quit, Advance
  <2>1. CASE \E v \in Targets : BeginUpdate(u, v)
    BY <2>1 DEF BeginUpdate
  <2>2. CASE SaveBackup(u)
    BY <2>2 DEF SaveBackup
  <2>3. CASE Replace(u)
    BY <2>3 DEF Replace
  <2>4. CASE SyncReplaced(u)
    BY <2>4 DEF SyncReplaced
  <2>5. CASE EndRestored(u) \/ UpdaterDies(u)
    BY <2>5 DEF EndRestored, UpdaterDies
  <2>6. CASE RollbackUpdate(u)
    BY <2>6 DEF RollbackUpdate
  <2>7. CASE SyncUndone(u) \/ SyncFinalized(u)
    BY <2>7 DEF SyncUndone, SyncFinalized
  <2>8. CASE FinalizeUpdate(u)
    BY <2>8 DEF FinalizeUpdate
  <2> QED
    BY <2>1, <2>2, <2>3, <2>4, <2>5, <2>6, <2>7, <2>8 DEF BinaryMove, UpdateStep
<1>2. BackupShape'
  BY <1>1 DEF BinaryShape, BackupShape
<1> QED
  BY <1>1, <1>2, BinaryMoveTyped DEF BinaryShape

\* A power loss falls back to something that was there.
LEMMA BinaryPowerKeeps ==
    ASSUME BinaryShape, BinaryPowerFails
    PROVE  BinaryShape' /\ \A u \in Clients : update'[u].at = "idle"
<1>1. target' \in Targets /\ leftTarget' = {target'} /\ update' = [u \in Clients |-> NoUpdate]
  BY DEF BinaryShape, BinaryPowerFails, ProgramSurvives, SelfTypeOK
<1>2. SelfTypeOK' /\ ProgramSurvives'
  BY <1>1, Nothings, Values DEF SelfTypeOK, ProgramSurvives
<1>3. \A u \in Clients : update'[u].at = "idle"
  BY <1>1 DEF NoUpdate
<1> QED
  BY <1>2, <1>3 DEF BinaryShape, BackupShape

-----------------------------------------------------------------------------
(* The calls and their receipts                                            *)

InstallShape == InstallTypeOK /\ ReceiptShape

\* All that a client ever does to its receipt.
InstallMove(c) ==
    \/ /\ (\E v \in Versions : BeginInstall(c, v)) \/ Rollback(c) \/ Finalize(c)
       /\ UNCHANGED owner
    \/ InstallStep(c) \/ ClientDies(c)

\* What the row of a receipt may become, and how far that keeps its shape.
RowOK(r) ==
    /\ r \in Install
    /\ r.at # "idle" => r.version \in Versions
    /\ r.at \in Forward => ~r.kept /\ ~r.restored
    /\ r.at = "held" => r.kept
    /\ r.at \in {"undo", "verified"} => ~r.restored
    /\ r.at = "restored" => r.restored
    /\ r.at \in {"removing", "removed"} /\ r.kept => r.restored

LEMMA ShapeIsRows ==
    ASSUME InstallTypeOK
    PROVE  ReceiptShape <=> \A c \in Clients : RowOK(install[c])
BY DEF InstallTypeOK, ReceiptShape, RowOK

LEMMA GoToRow ==
    ASSUME InstallTypeOK, NEW c \in Clients, NEW at, GoTo(c, at)
    PROVE  /\ install' = [install EXCEPT ![c] = [install[c] EXCEPT !.at = at]]
           /\ install'[c].at = at
           /\ install'[c].version = install[c].version
           /\ install'[c].previous = install[c].previous
           /\ install'[c].restored = install[c].restored
           /\ install'[c].kept = install[c].kept
BY DEF InstallTypeOK, GoTo, Install

\* Every step of a call puts a good row in the place of its own.
LEMMA InstallRow ==
    ASSUME InstallShape, RootTypeOK, NEW c \in Clients, InstallMove(c)
    PROVE  \E r : RowOK(r) /\ install' = [install EXCEPT ![c] = r]
<1>1. install[c] \in Install /\ RowOK(install[c]) /\ InstallTypeOK /\ current \in Targets
  BY ShapeIsRows DEF InstallShape, InstallTypeOK, RootTypeOK
<1>2. RowOK(NoInstall)
  BY Nothings, Labels DEF NoInstall, RowOK
<1>3. ASSUME Leave(c) PROVE \E r : RowOK(r) /\ install' = [install EXCEPT ![c] = r]
  BY <1>2, <1>3 DEF Leave
<1>4. ASSUME NEW at \in {"idle", "held"} \cup Forward \cup Backward, GoTo(c, at),
             RowOK([install[c] EXCEPT !.at = at])
      PROVE  \E r : RowOK(r) /\ install' = [install EXCEPT ![c] = r]
  BY <1>1, <1>4, GoToRow
<1>5. ASSUME install[c].at \in Backward, Fails(c)
      PROVE  \E r : RowOK(r) /\ install' = [install EXCEPT ![c] = r]
  <2>1. CASE install[c].kept
    <3>1. RowOK([install[c] EXCEPT !.at = "held"])
      BY <1>1, <1>5, <2>1, Labels DEF RowOK, Install
    <3> QED
      BY <1>4, <1>5, <2>1, <3>1 DEF Fails
  <2>2. CASE ~install[c].kept
    BY <1>3, <1>5, <2>2 DEF Fails
  <2> QED
    BY <2>1, <2>2
<1>6. CASE \E v \in Versions : BeginInstall(c, v)
  <2>1. PICK v \in Versions : BeginInstall(c, v)
    BY <1>6
  <2>2. RowOK([NoInstall EXCEPT !.at = "staging", !.version = v])
    BY Labels, Values DEF NoInstall, RowOK, Install
  <2> QED
    BY <2>1, <2>2 DEF BeginInstall
<1>7. CASE StagingFails(c) \/ Finalize(c) \/ ClientDies(c)
  BY <1>3, <1>7 DEF StagingFails, Finalize, ClientDies
<1>8. CASE Commit(c)
  <2>1. CASE Leave(c)
    BY <1>3, <2>1
  <2>2. CASE GoTo(c, "committed")
    <3>1. RowOK([install[c] EXCEPT !.at = "committed"])
      BY <1>1, <1>8, Labels DEF RowOK, Install, Commit
    <3> QED
      BY <1>4, <2>2, <3>1, Labels
  <2> QED
    BY <1>8, <2>1, <2>2 DEF Commit
<1>9. ASSUME install[c].at \in {"committed", "synced", "read", "switched", "hooks"},
             NEW at \in {"synced", "hooks", "switched", "removing", "undo"}, GoTo(c, at)
      PROVE  \E r : RowOK(r) /\ install' = [install EXCEPT ![c] = r]
  <2>1. RowOK([install[c] EXCEPT !.at = at])
    BY <1>1, <1>9, Labels DEF RowOK, Install
  <2> QED
    BY <1>4, <1>9, <2>1, Labels
<1>10. CASE SyncCommit(c) \/ Switch(c) \/ SyncSwitch(c)
  BY <1>9, <1>10 DEF SyncCommit, Switch, SyncSwitch
<1>11. CASE ReadPointer(c)
  <2>1. CASE GoTo(c, "removing")
    BY <1>9, <1>11, <2>1 DEF ReadPointer
  <2>2. CASE install' = [install EXCEPT ![c].at = "read", ![c].previous = current]
    <3>1. RowOK([install[c] EXCEPT !.at = "read", !.previous = current])
      BY <1>1, <1>11, Labels DEF RowOK, Install, ReadPointer
    <3>2. install' = [install EXCEPT ![c] = [install[c] EXCEPT !.at = "read", !.previous = current]]
      BY <1>1, <2>2 DEF InstallTypeOK, Install
    <3> QED
      BY <3>1, <3>2
  <2> QED
    BY <1>11, <2>1, <2>2 DEF ReadPointer
<1>12. CASE RunHooks(c)
  <2>1. CASE GoTo(c, "undo")
    BY <1>9, <1>12, <2>1 DEF RunHooks
  <2>2. CASE install' = [install EXCEPT ![c].at = "held", ![c].kept = TRUE]
    <3>1. RowOK([install[c] EXCEPT !.at = "held", !.kept = TRUE])
      BY <1>1, <1>12, Labels DEF RowOK, Install, RunHooks
    <3>2. install' = [install EXCEPT ![c] = [install[c] EXCEPT !.at = "held", !.kept = TRUE]]
      BY <1>1, <2>2 DEF InstallTypeOK, Install
    <3> QED
      BY <3>1, <3>2
  <2> QED
    BY <1>12, <2>1, <2>2 DEF RunHooks
<1>13. ASSUME install[c].at \in {"held", "undo", "restored", "removing"},
              NEW at \in {"undo", "restored", "verified", "removing", "removed"}, GoTo(c, at),
              at \in {"undo", "verified"} => ~install[c].restored,
              at = "restored" => install[c].restored,
              at \in {"removing", "removed"} => install[c].restored \/ ~install[c].kept
       PROVE  \E r : RowOK(r) /\ install' = [install EXCEPT ![c] = r]
  <2>1. RowOK([install[c] EXCEPT !.at = at])
    BY <1>1, <1>13, Labels DEF RowOK, Install
  <2> QED
    BY <1>4, <1>13, <2>1, Labels
<1>14. CASE Rollback(c)
  BY <1>13, <1>14 DEF Rollback
<1>15. CASE Verify(c)
  BY <1>1, <1>5, <1>13, <1>15, Labels DEF Verify, RowOK
<1>16. CASE Restore(c)
  <2>1. CASE Fails(c)
    BY <1>5, <1>16, <2>1, Labels DEF Restore
  <2>2. CASE install' = [install EXCEPT ![c].at = "restored", ![c].restored = TRUE]
    <3>1. RowOK([install[c] EXCEPT !.at = "restored", !.restored = TRUE])
      BY <1>1, <1>16, Labels DEF RowOK, Install, Restore
    <3>2. install' = [install EXCEPT ![c] = [install[c] EXCEPT !.at = "restored", !.restored = TRUE]]
      BY <1>1, <2>2 DEF InstallTypeOK, Install
    <3> QED
      BY <3>1, <3>2
  <2> QED
    BY <1>16, <2>1, <2>2 DEF Restore
<1>17. CASE SyncRestored(c) \/ Remove(c)
  BY <1>1, <1>5, <1>13, <1>17, Labels DEF SyncRestored, Remove, RowOK
<1>18. CASE SyncRemoved(c)
  BY <1>3, <1>5, <1>18, Labels DEF SyncRemoved
<1> QED
  BY <1>6, <1>7, <1>8, <1>10, <1>11, <1>12, <1>14, <1>15, <1>16, <1>17, <1>18
     DEF InstallMove, InstallStep

LEMMA InstallMoveKeeps ==
    ASSUME InstallShape, RootTypeOK, NEW c \in Clients, InstallMove(c)
    PROVE  /\ InstallShape'
           /\ \A d \in Clients : d # c => install'[d] = install[d]
           /\ RootMove
<1>1. PICK r : RowOK(r) /\ install' = [install EXCEPT ![c] = r]
  BY InstallRow
<1>2. /\ install' \in [Clients -> Install]
      /\ install'[c] = r
      /\ \A d \in Clients : d # c => install'[d] = install[d]
  BY <1>1 DEF InstallShape, InstallTypeOK, RowOK
<1>3. owner' \in [Versions -> Clients \cup {Nobody}]
  <2>1. install[c].at # "idle" => install[c].version \in Versions
    BY DEF InstallShape, ReceiptShape
  <2>2. CASE Commit(c)
    BY <2>1, <2>2 DEF Commit, InstallShape, InstallTypeOK
  <2>3. CASE UNCHANGED owner
    BY <2>3 DEF InstallShape, InstallTypeOK
  <2> QED
    BY <2>2, <2>3 DEF InstallMove, InstallStep, ClientDies
<1>4. InstallTypeOK'
  BY <1>2, <1>3 DEF InstallTypeOK
<1>5. \A d \in Clients : RowOK(install'[d])
  BY <1>1, <1>2, ShapeIsRows DEF InstallShape
<1>6. ReceiptShape'
  BY <1>5 DEF ReceiptShape, RowOK
<1>7. RootMove
  <2>1. install[c].at # "idle" => install[c].version \in Versions /\ install[c].previous \in Targets
    BY DEF InstallShape, ReceiptShape, InstallTypeOK, Install
  <2>2. CASE UNCHANGED rootVars
    BY <2>2 DEF RootMove
  <2>3. CASE Commit(c)
    BY <2>1, <2>2, <2>3 DEF Commit, RootMove
  <2>4. CASE SyncCommit(c) \/ SyncSwitch(c) \/ SyncRestored(c) \/ SyncRemoved(c)
    BY <2>2, <2>4 DEF SyncCommit, SyncSwitch, SyncRestored, SyncRemoved, RootMove
  <2>5. CASE Switch(c) \/ Restore(c)
    BY <2>1, <2>2, <2>5, Values DEF Switch, Restore, RootMove
  <2>6. CASE Remove(c) \/ ClientDies(c)
    BY <2>1, <2>2, <2>6 DEF Remove, ClientDies, RootMove
  <2>7. CASE \/ \E v \in Versions : BeginInstall(c, v)
             \/ StagingFails(c) \/ ReadPointer(c) \/ RunHooks(c) \/ Verify(c)
             \/ Rollback(c) \/ Finalize(c)
    BY <2>2, <2>7 DEF BeginInstall, StagingFails, ReadPointer, RunHooks, Verify, Rollback, Finalize
  <2> QED
    BY <2>3, <2>4, <2>5, <2>6, <2>7 DEF InstallMove, InstallStep
<1> QED
  BY <1>2, <1>4, <1>6, <1>7 DEF InstallShape

-----------------------------------------------------------------------------
(* The script                                                              *)

ScriptShape == ScriptTypeOK /\ ScriptUndoable

SamePaths ==
    /\ script'.version = script.version
    /\ script'.old = script.old
    /\ script'.found = script.found

LEMMA ReachFields ==
    ASSUME ScriptTypeOK, NEW at \in ScriptForward \cup ScriptBackward, Reach(at)
    PROVE  /\ script' \in Script /\ SamePaths
           /\ script'.at = at /\ script'.flags = script.flags
           /\ script'.undone = script.undone /\ script'.window = script.window
BY DEF ScriptTypeOK, Reach, Script, SamePaths

LEMMA FlagFields ==
    ASSUME ScriptTypeOK, NEW at \in ScriptForward, NEW f \in Flags, Flag(f, at)
    PROVE  /\ script' \in Script /\ SamePaths
           /\ script'.at = at /\ script'.flags = script.flags \cup {f}
           /\ script'.undone = script.undone /\ script'.window = script.window
<1>1. script.flags \cup {f} \in SUBSET Flags
  BY DEF ScriptTypeOK, Script
<1> QED
  BY <1>1 DEF ScriptTypeOK, Flag, Script, SamePaths

LEMMA GivesUpFields ==
    ASSUME ScriptTypeOK, NEW at \in {"unlinked", "restore", "remove"},
           script' = [script EXCEPT !.at = at, !.undone = FALSE]
    PROVE  /\ script' \in Script /\ SamePaths
           /\ script'.at = at /\ script'.flags = script.flags
           /\ ~script'.undone /\ script'.window = script.window
BY Labels DEF ScriptTypeOK, Script, SamePaths

\* A script that has not begun, or has ended, has nothing to undo.
LEMMA NoScriptIsUndoable ==
    /\ script = NoScript => ScriptUndoable
    /\ script' = NoScript => ScriptUndoable'
<1>1. /\ NoScript.at = "idle" /\ NoScript.flags = {} /\ NoScript.undone
      /\ NoScript.window = "none"
  BY DEF NoScript
<1> QED
  BY <1>1, Labels DEF ScriptUndoable, FlagsFollow, VersionUndoable, LinkUndoable, LauncherUndoable

LEMMA BeginScriptKeeps ==
    ASSUME RootTypeOK, ScriptShape, NEW v \in Versions, BeginScript(v)
    PROVE  ScriptShape' /\ UNCHANGED <<rootVars, touched, spoilt>>
<1>1. script' = [NoScript EXCEPT !.at = "staging", !.version = v, !.old = current, !.found = launcher]
      /\ UNCHANGED <<dir, current, launcher, touched, spoilt, backup>> /\ dir[v] = "absent"
  BY DEF BeginScript, Same, rootVars
<1>2. /\ script' \in Script
      /\ script'.at = "staging" /\ script'.version = v /\ script'.old = current
      /\ script'.flags = {} /\ script'.undone /\ script'.found = launcher
      /\ script'.window = "none"
  BY <1>1, Values, Labels DEF NoScript, Script, RootTypeOK, ScriptShape, ScriptTypeOK
<1>3. ScriptTypeOK'
  BY <1>1, <1>2 DEF ScriptShape, ScriptTypeOK
<1>4. ScriptUndoable'
  BY <1>1, <1>2, Labels
     DEF ScriptUndoable, FlagsFollow, VersionUndoable, LinkUndoable, LauncherUndoable
<1> QED
  BY <1>3, <1>4 DEF ScriptShape, BeginScript, Same

LEMMA InstallingKeeps ==
    ASSUME RootTypeOK, ScriptShape,
           \/ MoveStaging \/ FlagCommitted \/ ReplaceCurrent \/ FlagCurrent \/ SaveLauncher
           \/ FlagSaved \/ LinkLauncher \/ FlagLinked \/ HooksPass
    PROVE  ScriptUndoable' /\ script' \in Script /\ SamePaths
<1> USE Labels DEF ScriptShape, ScriptUndoable, LinkIsBack, LauncherIsBack, Same
<1>1. ScriptTypeOK /\ script.at # "idle" /\ script.version \in Versions /\ dir \in [Versions -> DirStates]
  BY DEF MoveStaging, FlagCommitted, ReplaceCurrent, FlagCurrent, SaveLauncher, FlagSaved,
         LinkLauncher, FlagLinked, HooksPass, FlagsFollow, RootTypeOK
<1>2. CASE MoveStaging
  <2>1. /\ script' \in Script /\ SamePaths
        /\ script'.at = "moved" /\ script'.flags = script.flags
        /\ script'.undone = script.undone /\ script'.window = script.window
    BY <1>1, <1>2, ReachFields DEF MoveStaging
  <2>2. /\ dir'[script.version] = "whole" /\ script.version \in touched'
        /\ current' = current /\ launcher' = launcher
    BY <1>1, <1>2 DEF MoveStaging, PutVersion
  <2> QED
    BY <1>2, <2>1, <2>2 DEF MoveStaging, SamePaths, FlagsFollow, VersionUndoable, LinkUndoable,
                            LauncherUndoable
<1>3. CASE FlagCommitted
  <2>1. /\ script' \in Script /\ SamePaths
        /\ script'.at = "committed" /\ script'.flags = script.flags \cup {"committed"}
        /\ script'.undone = script.undone /\ script'.window = script.window
    BY <1>1, <1>3, FlagFields DEF FlagCommitted
  <2> QED
    BY <1>3, <2>1 DEF FlagCommitted, rootVars, SamePaths, FlagsFollow, VersionUndoable, LinkUndoable,
                      LauncherUndoable
<1>4. CASE ReplaceCurrent
  <2>1. /\ script' \in Script /\ SamePaths
        /\ script'.at = "replaced" /\ script'.flags = script.flags
        /\ script'.undone = script.undone /\ script'.window = script.window
    BY <1>1, <1>4, ReachFields DEF ReplaceCurrent
  <2> QED
    BY <1>4, <2>1 DEF ReplaceCurrent, PointCurrent, SamePaths, FlagsFollow, VersionUndoable,
                      LinkUndoable, LauncherUndoable
<1>5. CASE FlagCurrent
  <2>1. /\ script' \in Script /\ SamePaths
        /\ script'.at = "changed" /\ script'.flags = script.flags \cup {"current_changed"}
        /\ script'.undone = script.undone /\ script'.window = script.window
    BY <1>1, <1>5, FlagFields DEF FlagCurrent
  <2> QED
    BY <1>5, <2>1 DEF FlagCurrent, rootVars, SamePaths, FlagsFollow, VersionUndoable, LinkUndoable,
                      LauncherUndoable
<1>6. CASE SaveLauncher
  <2>1. ASSUME NEW at \in {"linking", "saving"}, Reach(at)
        PROVE  /\ script' \in Script /\ SamePaths
               /\ script'.at = at /\ script'.flags = script.flags
               /\ script'.undone = script.undone /\ script'.window = script.window
    BY <1>1, <2>1, ReachFields
  <2> QED
    BY <1>6, <2>1 DEF SaveLauncher, rootVars, SamePaths, FlagsFollow, VersionUndoable, LinkUndoable,
                      LauncherUndoable
<1>7. CASE FlagSaved
  <2>1. /\ script' \in Script /\ SamePaths
        /\ script'.at = "linking" /\ script'.flags = script.flags \cup {"launcher_saved"}
        /\ script'.undone = script.undone /\ script'.window = script.window
    BY <1>1, <1>7, FlagFields DEF FlagSaved
  <2> QED
    BY <1>7, <2>1 DEF FlagSaved, rootVars, SamePaths, FlagsFollow, VersionUndoable, LinkUndoable,
                      LauncherUndoable
<1>8. CASE LinkLauncher
  <2>1. /\ script' \in Script /\ SamePaths
        /\ script'.at = "linked" /\ script'.flags = script.flags
        /\ script'.undone = script.undone /\ script'.window = script.window
    BY <1>1, <1>8, ReachFields DEF LinkLauncher
  <2> QED
    BY <1>8, <2>1 DEF LinkLauncher, rootVars, SamePaths, FlagsFollow, VersionUndoable, LinkUndoable,
                      LauncherUndoable
<1>9. CASE FlagLinked
  <2>1. /\ script' \in Script /\ SamePaths
        /\ script'.at = "hooks" /\ script'.flags = script.flags \cup {"launcher_changed"}
        /\ script'.undone = script.undone /\ script'.window = script.window
    BY <1>1, <1>9, FlagFields DEF FlagLinked
  <2> QED
    BY <1>9, <2>1 DEF FlagLinked, rootVars, SamePaths, FlagsFollow, VersionUndoable, LinkUndoable,
                      LauncherUndoable
<1>10. CASE HooksPass
  <2>1. /\ script' \in Script /\ SamePaths
        /\ script'.at = "success" /\ script'.flags = script.flags
        /\ script'.undone = script.undone /\ script'.window = script.window
    BY <1>1, <1>10, ReachFields DEF HooksPass
  <2> QED
    BY <1>10, <2>1 DEF HooksPass, rootVars, SamePaths, FlagsFollow, VersionUndoable, LinkUndoable,
                       LauncherUndoable
<1> QED
  BY <1>2, <1>3, <1>4, <1>5, <1>6, <1>7, <1>8, <1>9, <1>10

\* The trap undoes what the flags say, in any order of failures.
LEMMA UndoingKeeps ==
    ASSUME RootTypeOK, ScriptShape,
           \/ CommandFails \/ Signal \/ Cleanup \/ RestoreLauncher \/ RestoreCurrent \/ RemoveTarget
    PROVE  ScriptUndoable' /\ script' \in Script /\ SamePaths
<1> USE Labels DEF ScriptShape, ScriptUndoable, LinkIsBack, LauncherIsBack, Same
<1>1. ScriptTypeOK /\ script.at # "idle" /\ script.version \in Versions /\ dir \in [Versions -> DirStates]
  BY DEF CommandFails, Signal, Cleanup, UnlinkLauncher, RestoreLauncher, RestoreCurrent,
         RemoveTarget, RemoveIf, FlagsFollow, RootTypeOK
<1>2. CASE CommandFails
  <2>1. /\ script' \in Script /\ SamePaths
        /\ script'.at = "cleanup" /\ script'.flags = script.flags
        /\ script'.undone = script.undone /\ script'.window = script.window
    BY <1>1, <1>2, ReachFields DEF CommandFails
  <2> QED
    BY <1>2, <2>1 DEF CommandFails, rootVars, SamePaths, FlagsFollow, VersionUndoable, LinkUndoable,
                      LauncherUndoable
<1>3. CASE Signal
  <2>1. /\ script' \in Script /\ SamePaths
        /\ script'.at = "cleanup" /\ script'.flags = script.flags
        /\ script'.undone = script.undone /\ script'.window = script.at
    BY <1>1, <1>3 DEF Signal, ScriptTypeOK, Script, SamePaths
  <2> QED
    BY <1>3, <2>1 DEF Signal, rootVars, SamePaths, FlagsFollow, VersionUndoable, LinkUndoable,
                      LauncherUndoable
<1>4. CASE Cleanup
  <2>1. ASSUME NEW at \in {"unlinked", "restore"}, Reach(at)
        PROVE  /\ script' \in Script /\ SamePaths
               /\ script'.at = at /\ script'.flags = script.flags
               /\ script'.undone = script.undone /\ script'.window = script.window
    BY <1>1, <2>1, ReachFields
  <2>2. CASE /\ Reach(AfterUnlink)
             /\ IF {"launcher_saved", "launcher_changed"} \cap script.flags # {}
                THEN launcher' = "none" ELSE UNCHANGED launcher
    <3>1. /\ script' \in Script /\ SamePaths
          /\ script'.at = AfterUnlink /\ script'.flags = script.flags
          /\ script'.undone = script.undone /\ script'.window = script.window
      BY <2>1, <2>2 DEF AfterUnlink
    <3>2. UNCHANGED <<dir, current, touched, backup>> /\ script.at = "cleanup"
      BY <1>4 DEF Cleanup, UnlinkLauncher, rootVars
    <3>3. CASE "launcher_saved" \in script.flags
      <4>1. script'.at = "unlinked"
        BY <3>1, <3>3 DEF AfterUnlink
      <4> QED
        BY <2>2, <3>1, <3>2, <3>3, <4>1
           DEF SamePaths, FlagsFollow, VersionUndoable, LinkUndoable, LauncherUndoable
    <3>4. CASE "launcher_saved" \notin script.flags
      <4>1. script'.at = "restore"
        BY <3>1, <3>4 DEF AfterUnlink
      <4>2. FlagsFollow' /\ VersionUndoable' /\ LinkUndoable'
        BY <3>1, <3>2, <3>4, <4>1 DEF SamePaths, FlagsFollow, VersionUndoable, LinkUndoable
      <4>3. LauncherIsBack'
        BY <2>2, <3>1, <3>2, <3>4 DEF SamePaths, LauncherUndoable
      <4> QED
        BY <3>1, <4>1, <4>2, <4>3 DEF LauncherUndoable
    <3> QED
      BY <3>3, <3>4
  <2>3. CASE /\ {"launcher_saved", "launcher_changed"} \cap script.flags # {}
             /\ script' = [script EXCEPT !.at = AfterUnlink, !.undone = FALSE]
             /\ UNCHANGED launcher
    <3>1. /\ script' \in Script /\ SamePaths
          /\ script'.at = AfterUnlink /\ script'.flags = script.flags
          /\ ~script'.undone /\ script'.window = script.window
      BY <1>1, <2>3, GivesUpFields DEF AfterUnlink
    <3> QED
      BY <1>4, <2>3, <3>1 DEF Cleanup, UnlinkLauncher, AfterUnlink, rootVars, SamePaths,
         FlagsFollow, VersionUndoable, LinkUndoable, LinkIsBack, LauncherUndoable, LauncherIsBack
  <2> QED
    BY <1>4, <2>2, <2>3 DEF Cleanup, UnlinkLauncher
<1>5. CASE RestoreLauncher
  <2>1. CASE script' = [script EXCEPT !.at = "restore", !.undone = FALSE]
    <3>1. /\ script' \in Script /\ SamePaths
          /\ script'.at = "restore" /\ script'.flags = script.flags
          /\ ~script'.undone /\ script'.window = script.window
      BY <1>1, <2>1, GivesUpFields
    <3> QED
      BY <1>5, <3>1 DEF RestoreLauncher, rootVars, SamePaths, FlagsFollow, VersionUndoable,
                        LinkUndoable, LauncherUndoable
  <2>2. CASE launcher' = backup /\ backup' = "none" /\ Reach("restore")
    <3>1. /\ script' \in Script /\ SamePaths
          /\ script'.at = "restore" /\ script'.flags = script.flags
          /\ script'.undone = script.undone /\ script'.window = script.window
      BY <1>1, <2>2, ReachFields
    <3> QED
      BY <1>5, <2>2, <3>1 DEF RestoreLauncher, rootVars, SamePaths, FlagsFollow, VersionUndoable,
                        LinkUndoable, LauncherUndoable
  <2> QED
    BY <1>5, <2>1, <2>2 DEF RestoreLauncher
<1>6. CASE RestoreCurrent
  <2>0. dir' = dir /\ UNCHANGED <<launcher, touched>>
    BY <1>6 DEF RestoreCurrent, PointCurrent, rootVars
  <2>1. CASE /\ "current_changed" \in script.flags
             /\ script' = [script EXCEPT !.at = "remove", !.undone = FALSE]
    <3>1. /\ script' \in Script /\ SamePaths
          /\ script'.at = "remove" /\ script'.flags = script.flags
          /\ ~script'.undone /\ script'.window = script.window
      BY <1>1, <2>1, GivesUpFields
    <3> QED
      BY <1>6, <2>0, <2>1, <3>1 DEF RestoreCurrent, SamePaths, FlagsFollow, VersionUndoable,
                        LinkUndoable, LauncherUndoable
  <2>2. CASE /\ Reach("remove")
             /\ \/ PointCurrent(script.old)
                \/ "current_changed" \notin script.flags /\ UNCHANGED rootVars
    <3>1. /\ script' \in Script /\ SamePaths
          /\ script'.at = "remove" /\ script'.flags = script.flags
          /\ script'.undone = script.undone /\ script'.window = script.window
      BY <1>1, <2>2, ReachFields
    <3>2. script.undone => LinkIsBack'
      BY <1>6, <2>2, <3>1 DEF RestoreCurrent, PointCurrent, rootVars, LinkUndoable, SamePaths
    <3> QED
      BY <1>6, <2>0, <3>1, <3>2 DEF RestoreCurrent, SamePaths, FlagsFollow, VersionUndoable,
                        LinkUndoable, LauncherUndoable
  <2> QED
    BY <1>6, <2>1, <2>2 DEF RestoreCurrent
<1>7. CASE RemoveTarget
  <2>1. ASSUME NEW at \in {"ended", "littered"}, Reach(at)
        PROVE  /\ script' \in Script /\ SamePaths
               /\ script'.at = at /\ script'.flags = script.flags
               /\ script'.undone = script.undone /\ script'.window = script.window
    BY <1>1, <2>1, ReachFields
  <2>2. /\ current' = current /\ UNCHANGED <<launcher, backup, touched>> /\ script.at = "remove"
        /\ \/ MayRemove /\ Reach("ended") /\ dir'[script.version] = "absent"
           \/ MayRemove /\ Reach("littered")
           \/ ~MayRemove /\ Reach("ended") /\ dir' = dir
    BY <1>1, <1>7 DEF RemoveTarget, RemoveIf, TakeTarget, RemoveVersion, rootVars
  <2>3. MayRemove <=> "committed" \in script.flags /\ script.undone
    BY DEF MayRemove
  <2> QED
    BY <2>1, <2>2, <2>3 DEF SamePaths, FlagsFollow, VersionUndoable, LinkUndoable, LinkIsBack,
       LauncherUndoable, LauncherIsBack
<1> QED
  BY <1>2, <1>3, <1>4, <1>5, <1>6, <1>7

LEMMA ScriptStepKeeps ==
    ASSUME RootTypeOK, ScriptShape, ScriptStep
    PROVE  /\ ScriptShape' /\ RootMove
           /\ script' = NoScript \/ SamePaths
           /\ script.at # "idle"
<1> USE Labels DEF ScriptShape
<1>1. script.at # "idle" => script.version \in Versions /\ script.old \in Targets
  BY DEF ScriptTypeOK, Script, ScriptUndoable, FlagsFollow
<1>2. ScriptUndoable' /\ script' \in Script /\ (script' = NoScript \/ SamePaths)
  <2>1. CASE Succeed \/ ScriptEnds \/ ScriptDies
    <3>1. script' = NoScript
      BY <2>1 DEF Succeed, ScriptEnds, ScriptDies
    <3> QED
      BY <3>1, NoScriptIsUndoable, Nothings
  <2> QED
    BY <2>1, InstallingKeeps, UndoingKeeps DEF ScriptStep
<1>3. launcher' \in Launchers /\ backup' \in Launchers
  BY DEF ScriptStep, MoveStaging, FlagCommitted, ReplaceCurrent, FlagCurrent, SaveLauncher, FlagSaved,
         LinkLauncher, FlagLinked, HooksPass, Succeed, CommandFails, Signal, Cleanup,
         UnlinkLauncher, RestoreLauncher, RestoreCurrent, RemoveTarget, RemoveIf, TakeTarget,
         ScriptEnds, ScriptDies, Same, ScriptTypeOK
<1>4. script.at # "idle"
  BY DEF ScriptStep, MoveStaging, FlagCommitted, ReplaceCurrent, FlagCurrent, SaveLauncher, FlagSaved,
         LinkLauncher, FlagLinked, HooksPass, Succeed, CommandFails, Signal, Cleanup,
         UnlinkLauncher, RestoreLauncher, RestoreCurrent, RemoveTarget, RemoveIf, TakeTarget,
         ScriptEnds, ScriptDies
<1>5. touched' \in SUBSET Versions /\ spoilt' \in SUBSET Versions
  BY <1>1, <1>4
     DEF ScriptStep, MoveStaging, FlagCommitted, ReplaceCurrent, FlagCurrent, SaveLauncher, FlagSaved,
         LinkLauncher, FlagLinked, HooksPass, Succeed, CommandFails, Signal, Cleanup,
         UnlinkLauncher, RestoreLauncher, RestoreCurrent, RemoveTarget, RemoveIf, TakeTarget,
         ScriptEnds, ScriptDies, Same, ScriptTypeOK
<1>6. RootMove
  <2>1. CASE UNCHANGED rootVars
    BY <2>1 DEF RootMove
  <2>2. CASE MoveStaging \/ ReplaceCurrent \/ RestoreCurrent \/ RemoveTarget \/ ScriptDies
    BY <1>1, <1>4, <2>1, <2>2, Values
       DEF MoveStaging, ReplaceCurrent, RestoreCurrent, RemoveTarget, RemoveIf, TakeTarget,
           ScriptDies, RootMove
  <2> QED
    BY <2>1, <2>2 DEF ScriptStep, FlagCommitted, FlagCurrent, SaveLauncher, FlagSaved, LinkLauncher,
         FlagLinked, HooksPass, Succeed, CommandFails, Signal, Cleanup, UnlinkLauncher,
         RestoreLauncher, ScriptEnds, Same
<1> QED
  BY <1>2, <1>3, <1>4, <1>5, <1>6 DEF ScriptTypeOK

-----------------------------------------------------------------------------
(* The steps of the host                                                   *)

\* With one call at a time, c has the host to itself.
OnItsOwn(c) == alone => script.at = "idle" /\ \A d \in Clients : Calling(d) => d = c

\* A client with its bundle, or with its own program, or a client that goes.
InstallActs(c) ==
    /\ InstallMove(c)
    /\ strategy = "bundle"
    /\ \/ OnItsOwn(c)
       \/ install' = [install EXCEPT ![c] = NoInstall] /\ UNCHANGED <<rootVars, owner>>
    /\ install[c].at = "held" /\ Running(c)' => MayRepeat(c)
    /\ UNCHANGED <<scriptVars, selfVars, modeVars>>

BinaryActs(c) ==
    /\ BinaryMove(c)
    /\ strategy = "self-replace"
    /\ \/ OnItsOwn(c)
       \/ update' = [update EXCEPT ![c] = NoUpdate] /\ UNCHANGED binaryVars
    /\ UNCHANGED <<rootVars, installVars, scriptVars, modeVars>>

LEMMA CallsAreOnTheirOwn ==
    ASSUME AloneIsAlone, NEW c \in Clients, Calling(c) \/ MayCall
    PROVE  OnItsOwn(c)
BY DEF AloneIsAlone, OnItsOwn, MayCall, Busy, Calling

LEMMA Steps ==
    ASSUME CallInv, Next
    PROVE  \/ UNCHANGED <<rootVars, installVars, scriptVars, selfVars, modeVars>>
           \/ \E c \in Clients : InstallActs(c) \/ BinaryActs(c)
           \/ RunScript \/ ScriptRuns \/ PowerLoss
<1>1. TypeOK /\ AloneIsAlone /\ OneWay
  BY DEF CallInv
<1>2. ASSUME NEW c \in Clients, Check(c)
      PROVE  UNCHANGED <<rootVars, installVars, scriptVars, selfVars, modeVars>>
  BY <1>2 DEF Check
<1>3. ASSUME NEW c \in Clients, Apply(c)
      PROVE  \/ UNCHANGED <<rootVars, installVars, scriptVars, selfVars, modeVars>>
             \/ InstallActs(c) \/ BinaryActs(c)
  <2>1. plan[c] \in Versions /\ plan[c] \in Targets
    BY <1>1, <1>3 DEF Apply, TypeOK, Targets, NoPlan
  <2>2. OnItsOwn(c)
    BY <1>1, <1>3, CallsAreOnTheirOwn DEF Apply
  <2>3. CASE strategy = "bundle" /\ BeginInstall(c, plan[c]) /\ UNCHANGED update
    <3>1. install[c].at # "held"
      BY <2>3 DEF BeginInstall
    <3> QED
      BY <1>3, <2>1, <2>2, <2>3, <3>1 DEF Apply, InstallActs, InstallMove, selfVars
  <2>4. CASE strategy = "self-replace" /\ BeginUpdate(c, plan[c]) /\ UNCHANGED <<rootVars, install>>
    BY <1>3, <2>1, <2>2, <2>4 DEF Apply, BinaryActs, BinaryMove, installVars
  <2>5. CASE UNCHANGED <<rootVars, install, update>>
    BY <1>3, <2>5 DEF Apply, installVars, selfVars
  <2> QED
    BY <1>3, <2>3, <2>4, <2>5 DEF Apply
<1>4. ASSUME NEW c \in Clients, ReceiptStep(c) PROVE InstallActs(c) \/ BinaryActs(c)
  <2>1. OnItsOwn(c)
    BY <1>1, <1>4, CallsAreOnTheirOwn DEF ReceiptStep
  <2>2. CASE (Rollback(c) \/ Finalize(c)) /\ UNCHANGED <<owner, selfVars>>
    <3>1. install[c].at # "idle"
      BY <2>2 DEF Rollback, Finalize
    <3> QED
      BY <1>1, <1>4, <2>1, <2>2, <3>1 DEF ReceiptStep, InstallActs, InstallMove, OneWay
  <2>3. CASE (RollbackUpdate(c) \/ FinalizeUpdate(c)) /\ UNCHANGED <<rootVars, installVars>>
    <3>1. update[c].at # "idle"
      BY <2>3 DEF RollbackUpdate, FinalizeUpdate
    <3> QED
      BY <1>1, <1>4, <2>1, <2>3, <3>1 DEF ReceiptStep, BinaryActs, BinaryMove, OneWay
  <2> QED
    BY <1>4, <2>2, <2>3 DEF ReceiptStep
<1>5. ASSUME NEW c \in Clients, BundleStep(c) PROVE InstallActs(c)
  <2>1. install[c].at \notin {"idle", "held"}
    BY <1>5 DEF BundleStep, InstallStep, Commit, StagingFails, SyncCommit, ReadPointer, Switch,
         SyncSwitch, RunHooks, Verify, Restore, SyncRestored, Remove, SyncRemoved
  <2>2. OnItsOwn(c)
    BY <1>1, <2>1, CallsAreOnTheirOwn DEF Calling, Running
  <2> QED
    BY <1>1, <1>5, <2>1, <2>2 DEF BundleStep, InstallActs, InstallMove, OneWay
<1>6. ASSUME NEW c \in Clients, BinaryStep(c) PROVE BinaryActs(c)
  <2>1. update[c].at \notin {"idle", "held"}
    BY <1>6 DEF BinaryStep, UpdateStep, SaveBackup, Replace, SyncReplaced, EndRestored, SyncUndone,
                SyncFinalized
  <2>2. OnItsOwn(c)
    BY <1>1, <2>1, CallsAreOnTheirOwn DEF Calling
  <2> QED
    BY <1>1, <1>6, <2>1, <2>2 DEF BinaryStep, BinaryActs, BinaryMove, OneWay
<1>7. ASSUME NEW c \in Clients, ClientEnds(c) PROVE InstallActs(c) \/ BinaryActs(c)
  <2>1. CASE ClientDies(c) /\ UNCHANGED selfVars
    <3>1. install[c].at # "idle" /\ install' = [install EXCEPT ![c] = NoInstall]
          /\ UNCHANGED owner /\ ~Running(c)'
      BY <1>1, <2>1 DEF ClientDies, Leave, Running, NoInstall, TypeOK, InstallTypeOK
    <3>2. OnItsOwn(c) \/ UNCHANGED rootVars
      BY <1>1, <2>1, CallsAreOnTheirOwn DEF ClientDies, Calling, Running
    <3> QED
      BY <1>1, <1>7, <2>1, <3>1, <3>2 DEF ClientEnds, InstallActs, InstallMove, OneWay
  <2>2. CASE UpdaterDies(c) /\ UNCHANGED <<rootVars, installVars>>
    <3>1. update[c].at # "idle"
      BY <2>2 DEF UpdaterDies
    <3> QED
      BY <1>1, <1>7, <2>2, <3>1 DEF ClientEnds, BinaryActs, BinaryMove, OneWay, UpdaterDies, Quit
  <2> QED
    BY <1>7, <2>1, <2>2 DEF ClientEnds
<1> QED
  BY <1>2, <1>3, <1>4, <1>5, <1>6, <1>7 DEF Next

\* Whatever is out of a script's reach while it runs leaves it as it can be undone.
LEMMA OthersKeepScript ==
    ASSUME ScriptUndoable, UNCHANGED scriptVars,
           script.at = "idle" \/ UNCHANGED <<dir, current>>
    PROVE  ScriptUndoable'
<1> USE Labels DEF scriptVars
<1>1. CASE UNCHANGED <<dir, current>>
  BY <1>1 DEF ScriptUndoable, FlagsFollow, VersionUndoable, LinkUndoable, LauncherUndoable, LinkIsBack,
              LauncherIsBack
<1>2. CASE script.at = "idle"
  <2>1. FlagsFollow' /\ LauncherUndoable'
    BY DEF ScriptUndoable, FlagsFollow, LauncherUndoable, LauncherIsBack
  <2>2. VersionUndoable' /\ LinkUndoable'
    BY <1>2 DEF ScriptUndoable, VersionUndoable, LinkUndoable
  <2> QED
    BY <2>1, <2>2 DEF ScriptUndoable
<1> QED
  BY <1>1, <1>2

\* The files of a version are left unsynced by the script only, and it says so.
LEMMA MarksGrow ==
    /\ \A c \in Clients : InstallMove(c) => unsynced' \subseteq unsynced
    /\ ScriptStep => Marked \subseteq Marked' /\ (unsynced \subseteq Marked => unsynced' \subseteq Marked')
<1>1. ASSUME NEW c \in Clients, InstallMove(c) PROVE unsynced' \subseteq unsynced
  BY <1>1 DEF InstallMove, InstallStep, BeginInstall, Rollback, Finalize, ClientDies, Commit,
     StagingFails, SyncCommit, ReadPointer, Switch, SyncSwitch, RunHooks, Verify, Restore,
     SyncRestored, Remove, SyncRemoved, PutVersion, RemoveVersion, SyncVersions, PointCurrent,
     SyncRoot, rootVars
<1>2. ASSUME ScriptStep PROVE touched \subseteq touched' /\ spoilt \subseteq spoilt'
  BY <1>2 DEF ScriptStep, MoveStaging, FlagCommitted, ReplaceCurrent, FlagCurrent, SaveLauncher,
     FlagSaved, LinkLauncher, FlagLinked, HooksPass, Succeed, CommandFails, Signal, Cleanup,
     UnlinkLauncher, RestoreLauncher, RestoreCurrent, RemoveTarget, RemoveIf, TakeTarget,
     ScriptEnds, ScriptDies, Same
<1>3. ASSUME ScriptStep PROVE unsynced' \subseteq unsynced \cup touched'
  BY <1>3 DEF ScriptStep, MoveStaging, FlagCommitted, ReplaceCurrent, FlagCurrent, SaveLauncher,
     FlagSaved, LinkLauncher, FlagLinked, HooksPass, Succeed, CommandFails, Signal, Cleanup,
     UnlinkLauncher, RestoreLauncher, RestoreCurrent, RemoveTarget, RemoveIf, TakeTarget,
     ScriptEnds, ScriptDies, Same, PutVersion, RemoveVersion, PointCurrent, rootVars
<1> QED
  BY <1>1, <1>2, <1>3 DEF Marked

LEMMA BoundsTyped ==
    ASSUME TypeOK, Next
    PROVE  /\ strategy' = strategy /\ alone' = alone
           /\ plan' \in [Clients -> Targets]
           /\ calls' \in Nat /\ scripts' \in Nat /\ losses' \in Nat
<1> USE DEF modeVars, boundVars, TypeOK
<1>1. ASSUME NEW c \in Clients, Check(c) \/ Apply(c)
      PROVE  /\ strategy' = strategy /\ alone' = alone /\ plan' \in [Clients -> Targets]
             /\ calls' \in Nat /\ scripts' \in Nat /\ losses' \in Nat
  BY <1>1, Values DEF Check, Apply, NoPlan
<1>2. ASSUME NEW c \in Clients, ReceiptStep(c) \/ BundleStep(c) \/ BinaryStep(c) \/ ClientEnds(c)
      PROVE  UNCHANGED <<modeVars, plan, boundVars>>
  BY <1>2 DEF ReceiptStep, BundleStep, BinaryStep, ClientEnds
<1>3. CASE RunScript \/ ScriptRuns \/ PowerLoss
  BY <1>3, Values DEF RunScript, ScriptRuns, PowerLoss, NoPlan
<1> QED
  BY <1>1, <1>2, <1>3 DEF Next

\* Types, and the shapes each part keeps by itself.
LEMMA NextKeepsShapes ==
    ASSUME CallInv, Next
    PROVE  /\ TypeOK' /\ DiskKnows' /\ ReceiptShape' /\ ScriptUndoable'
           /\ BackupShape' /\ ProgramSurvives'
<1>1. RootTypeOK /\ RootKnown /\ InstallShape /\ ScriptShape /\ BinaryShape /\ unsynced \subseteq Marked
  BY DEF CallInv, TypeOK, DiskKnows, RootKnown, InstallShape, ScriptShape, BinaryShape
<1>2. SUFFICES /\ RootTypeOK' /\ RootKnown' /\ unsynced' \subseteq Marked'
               /\ InstallShape' /\ ScriptShape' /\ BinaryShape'
  BY BoundsTyped DEF CallInv, TypeOK, DiskKnows, RootKnown, InstallShape, ScriptShape, BinaryShape
<1>3. ASSUME UNCHANGED rootVars
      PROVE  RootTypeOK' /\ RootKnown' /\ unsynced' = unsynced
  BY <1>1, <1>3, RootMoveKeeps DEF RootMove, rootVars
<1>4. ASSUME UNCHANGED installVars PROVE InstallShape'
  BY <1>1, <1>4 DEF installVars, InstallShape, InstallTypeOK, ReceiptShape
<1>5. ASSUME UNCHANGED selfVars PROVE BinaryShape'
  BY <1>1, <1>5 DEF selfVars, binaryVars, BinaryShape, SelfTypeOK, BackupShape, ProgramSurvives
<1>6. ASSUME UNCHANGED scriptVars, script.at = "idle" \/ UNCHANGED rootVars
      PROVE  ScriptShape' /\ Marked' = Marked
  <2>1. ScriptUndoable'
    BY <1>1, <1>6, OthersKeepScript DEF ScriptShape, rootVars
  <2>2. ScriptTypeOK' /\ Marked' = Marked
    BY <1>1, <1>6 DEF ScriptShape, ScriptTypeOK, scriptVars, Marked
  <2> QED
    BY <2>1, <2>2 DEF ScriptShape
<1>7. CASE UNCHANGED <<rootVars, installVars, scriptVars, selfVars, modeVars>>
  BY <1>1, <1>3, <1>4, <1>5, <1>6, <1>7
<1>8. ASSUME NEW c \in Clients, InstallActs(c)
      PROVE  /\ RootTypeOK' /\ RootKnown' /\ unsynced' \subseteq Marked'
             /\ InstallShape' /\ ScriptShape' /\ BinaryShape'
  <2>1. InstallShape' /\ RootTypeOK' /\ RootKnown'
    BY <1>1, <1>8, InstallMoveKeeps, RootMoveKeeps DEF InstallActs
  <2>2. script.at = "idle" \/ UNCHANGED rootVars
    BY <1>8 DEF InstallActs, OnItsOwn, CallInv, OneWay
  <2>3. unsynced' \subseteq unsynced
    BY <1>8, MarksGrow DEF InstallActs
  <2> QED
    BY <1>1, <1>5, <1>6, <1>8, <2>1, <2>2, <2>3 DEF InstallActs
<1>9. ASSUME NEW c \in Clients, BinaryActs(c)
      PROVE  /\ RootTypeOK' /\ RootKnown' /\ unsynced' \subseteq Marked'
             /\ InstallShape' /\ ScriptShape' /\ BinaryShape'
  BY <1>1, <1>3, <1>4, <1>6, <1>9, BinaryMoveKeeps DEF BinaryActs
<1>10. CASE RunScript
  <2>1. PICK v \in Versions : BeginScript(v)
    BY <1>10 DEF RunScript
  <2>2. ScriptShape' /\ UNCHANGED <<rootVars, touched, spoilt>>
    BY <1>1, <2>1, BeginScriptKeeps
  <2>3. Marked' = Marked
    BY <2>2 DEF Marked
  <2> QED
    BY <1>1, <1>3, <1>4, <1>5, <1>10, <2>2, <2>3 DEF RunScript
<1>11. CASE ScriptRuns
  <2>1. ScriptShape' /\ RootMove /\ script.at # "idle" /\ (script' = NoScript \/ SamePaths)
    BY <1>1, <1>11, ScriptStepKeeps DEF ScriptRuns
  <2>2. InstallShape'
    <3>1. script.version \in Versions
      BY <2>1 DEF CallInv, ScriptUndoable, FlagsFollow
    <3> QED
      BY <1>1, <1>11, <3>1 DEF ScriptRuns, InstallShape, InstallTypeOK, ReceiptShape
  <2> QED
    BY <1>1, <1>5, <1>11, <2>1, <2>2, RootMoveKeeps, MarksGrow DEF ScriptRuns
<1>12. CASE PowerLoss
  <2>1. RootTypeOK' /\ RootKnown' /\ unsynced' = {}
    BY <1>1, <1>12, RootMoveKeeps DEF PowerLoss, RootMove, PowerFails
  <2>2. BinaryShape'
    BY <1>1, <1>12, BinaryPowerKeeps DEF PowerLoss
  <2>3. InstallShape'
    <3>1. install' = [c \in Clients |-> NoInstall] /\ owner' = owner
      BY <1>12 DEF PowerLoss
    <3>2. InstallTypeOK'
      BY <1>1, <3>1, Nothings DEF InstallShape, InstallTypeOK
    <3>3. \A c \in Clients : install'[c].at = "idle"
      BY <3>1 DEF NoInstall
    <3> QED
      BY <3>2, <3>3, Labels DEF InstallShape, ReceiptShape
  <2>4. ScriptShape'
    <3>1. script' = NoScript /\ backup' = "none" /\ launcher' = launcher /\ touched' = {}
          /\ spoilt' = spoilt \cup {v \in touched : dir'[v] # "whole"}
      BY <1>12 DEF PowerLoss
    <3>2. ScriptTypeOK'
      BY <1>1, <3>1, Nothings, Labels DEF ScriptShape, ScriptTypeOK
    <3> QED
      BY <3>1, <3>2, NoScriptIsUndoable DEF ScriptShape
  <2> QED
    BY <2>1, <2>2, <2>3, <2>4
<1> QED
  BY <1>7, <1>8, <1>9, <1>10, <1>11, <1>12, Steps

\* Where a call finds the link and the program as it has noted them.
LEMMA InstallMoveFinds ==
    ASSUME InstallShape, NEW c \in Clients, InstallMove(c)
    PROVE  /\ install'[c].at = "read" => install'[c].previous = current'
           /\ install'[c].at = "verified" => install'[c].version = current'
<1>1. install \in [Clients -> Install] /\ install[c] \in Install
  BY DEF InstallShape, InstallTypeOK
<1>2. ASSUME NEW at, GoTo(c, at)
      PROVE  install'[c].at = at /\ install'[c].version = install[c].version
  BY <1>2, GoToRow DEF InstallShape
<1>3. Leave(c) => install'[c].at = "idle"
  BY <1>1 DEF Leave, NoInstall
<1>4. Fails(c) => install'[c].at \in {"idle", "held"}
  BY <1>2, <1>3 DEF Fails
<1>5. CASE ReadPointer(c)
  <2>1. CASE GoTo(c, "removing")
    BY <1>2, <2>1
  <2>2. CASE install' = [install EXCEPT ![c].at = "read", ![c].previous = current]
    BY <1>1, <1>5, <2>2 DEF ReadPointer, Install, rootVars
  <2> QED
    BY <1>5, <2>1, <2>2 DEF ReadPointer
<1>6. CASE Verify(c)
  <2>1. CASE GoTo(c, "verified") /\ IsActive(c)
    BY <1>2, <1>6, <2>1 DEF Verify, IsActive, rootVars
  <2>2. CASE Fails(c)
    BY <1>4, <2>2
  <2> QED
    BY <1>6, <2>1, <2>2 DEF Verify
<1>7. install'[c].at \in {"read", "verified"} => ReadPointer(c) \/ Verify(c)
  <2>1. CASE \E v \in Versions : BeginInstall(c, v)
    BY <1>1, <2>1 DEF BeginInstall, NoInstall
  <2>2. CASE Rollback(c) \/ Finalize(c) \/ ClientDies(c) \/ StagingFails(c) \/ Commit(c)
    <3>1. CASE Leave(c)
      BY <1>3, <3>1
    <3>2. CASE GoTo(c, "committed")
      BY <1>2, <3>2
    <3>3. CASE Rollback(c)
      <4>1. PICK at \in {"restored", "undo"} : GoTo(c, at)
        BY <3>3 DEF Rollback
      <4> QED
        BY <1>2, <4>1
    <3> QED
      BY <2>2, <3>1, <3>2, <3>3 DEF Finalize, ClientDies, StagingFails, Commit
  <2>3. CASE SyncCommit(c) \/ Switch(c) \/ SyncSwitch(c) \/ Remove(c) \/ SyncRemoved(c) \/ SyncRestored(c)
    BY <1>2, <1>3, <1>4, <2>3 DEF SyncCommit, Switch, SyncSwitch, Remove, SyncRemoved, SyncRestored
  <2>4. CASE RunHooks(c)
    <3>1. CASE GoTo(c, "undo")
      BY <1>2, <3>1
    <3>2. CASE install' = [install EXCEPT ![c].at = "held", ![c].kept = TRUE]
      BY <1>1, <3>2 DEF Install
    <3> QED
      BY <2>4, <3>1, <3>2 DEF RunHooks
  <2>5. CASE Restore(c)
    <3>1. CASE Fails(c)
      BY <1>4, <3>1
    <3>2. CASE install' = [install EXCEPT ![c].at = "restored", ![c].restored = TRUE]
      BY <1>1, <3>2 DEF Install
    <3> QED
      BY <2>5, <3>1, <3>2 DEF Restore
  <2> QED
    BY <2>1, <2>2, <2>3, <2>4, <2>5 DEF InstallMove, InstallStep
<1> QED
  BY <1>5, <1>6, <1>7

\* A copy is of the program that is there; the file that it is replaced with leaves
\* what was there before in the backup.
LEMMA BinaryMoveFinds ==
    ASSUME BinaryShape, NEW u \in Clients, BinaryMove(u)
    PROVE  /\ update'[u].at = "saved" => update'[u].backup = target'
           /\ update'[u].at \in {"replaced", "held"} =>
                \/ update'[u].backup = NoBackup
                \/ update[u].at = "saved" /\ update'[u].backup = update[u].backup
                                          /\ update'[u].before = target
                \/ update[u].at \in {"replaced", "held"} /\ update'[u].backup = update[u].backup
                                                         /\ update'[u].before = update[u].before
<1> USE DEF BinaryShape, SelfTypeOK, Update, NoUpdate, Quit, Advance
<1>1. CASE \E v \in Targets : BeginUpdate(u, v)
  BY <1>1 DEF BeginUpdate
<1>2. CASE SaveBackup(u)
  BY <1>2 DEF SaveBackup, binaryVars
<1>3. CASE Replace(u)
  BY <1>3 DEF Replace
<1>4. CASE SyncReplaced(u)
  BY <1>4 DEF SyncReplaced
<1>5. CASE EndRestored(u) \/ UpdaterDies(u)
  BY <1>5 DEF EndRestored, UpdaterDies
<1>6. CASE RollbackUpdate(u) \/ FinalizeUpdate(u)
  BY <1>6 DEF RollbackUpdate, FinalizeUpdate
<1>7. CASE SyncUndone(u) \/ SyncFinalized(u)
  BY <1>7 DEF SyncUndone, SyncFinalized, BackupShape
<1> QED
  BY <1>1, <1>2, <1>3, <1>4, <1>5, <1>6, <1>7 DEF BinaryMove, UpdateStep

\* Whose turn it is changes only when nobody's is.
LEMMA TurnsGoOn ==
    ASSUME AloneIsAlone, alone' = alone, script' = script, NEW c \in Clients,
           \A d \in Clients : d # c => install'[d] = install[d] /\ update'[d] = update[d],
           OnItsOwn(c) \/ (Calling(c)' => Calling(c))
    PROVE  AloneIsAlone'
<1>1. \A d \in Clients : d # c => (Calling(d)' <=> Calling(d))
  BY DEF Calling, Running
<1>2. CASE OnItsOwn(c)
  BY <1>1, <1>2 DEF OnItsOwn, AloneIsAlone
<1>3. CASE Calling(c)' => Calling(c)
  BY <1>1, <1>3 DEF AloneIsAlone
<1> QED
  BY <1>2, <1>3

LEMMA InstallActsInTurn ==
    ASSUME CallInv, NEW c \in Clients, InstallActs(c)
    PROVE  AloneIsAlone' /\ OneWay' /\ FoundAsLeft' /\ ReceiptsFit'
<1>1. /\ AloneIsAlone /\ OneWay /\ FoundAsLeft /\ ReceiptsFit
      /\ InstallShape /\ RootTypeOK
  BY DEF CallInv, TypeOK, InstallShape
<1>2. /\ \A d \in Clients : d # c => install'[d] = install[d]
      /\ install'[c].at = "read" => install'[c].previous = current'
      /\ install'[c].at = "verified" => install'[c].version = current'
  BY <1>1, InstallMoveKeeps, InstallMoveFinds DEF InstallActs
<1>3. UNCHANGED <<script, target, update, strategy, alone>> /\ strategy = "bundle"
  BY DEF InstallActs, scriptVars, selfVars, binaryVars, modeVars
<1>4. OnItsOwn(c) \/ (~Running(c)' /\ UNCHANGED rootVars)
  BY <1>1 DEF InstallActs, Running, NoInstall, InstallShape, InstallTypeOK
<1>5. AloneIsAlone'
  <2>1. ~Running(c)' => (Calling(c)' => Calling(c))
    BY <1>3 DEF Calling
  <2> QED
    BY <1>1, <1>2, <1>3, <1>4, <2>1, TurnsGoOn
<1>6. OneWay'
  BY <1>1, <1>2, <1>3 DEF OneWay
<1>7. FoundAsLeft'
  <2>1. ASSUME alone, NEW d \in Clients, d # c
        PROVE  /\ install'[d].at = "read" => install'[d].previous = current'
               /\ install'[d].at = "verified" => install'[d].version = current'
    BY <1>1, <1>2, <1>4, <2>1 DEF FoundAsLeft, OnItsOwn, Calling, Running, rootVars
  <2> QED
    BY <1>1, <1>2, <1>3, <2>1 DEF FoundAsLeft
<1>8. ReceiptsFit'
  BY <1>1, <1>3 DEF ReceiptsFit, BackupIsPredecessor
<1> QED
  BY <1>5, <1>6, <1>7, <1>8

LEMMA BinaryActsInTurn ==
    ASSUME CallInv, NEW c \in Clients, BinaryActs(c)
    PROVE  AloneIsAlone' /\ OneWay' /\ FoundAsLeft' /\ ReceiptsFit'
<1>1. /\ AloneIsAlone /\ OneWay /\ FoundAsLeft /\ ReceiptsFit
      /\ BinaryShape
  BY DEF CallInv, TypeOK, BinaryShape
<1>2. /\ \A d \in Clients : d # c => update'[d] = update[d]
      /\ update'[c].at = "saved" => update'[c].backup = target'
      /\ update'[c].at \in {"replaced", "held"} =>
           \/ update'[c].backup = NoBackup
           \/ update[c].at = "saved" /\ update'[c].backup = update[c].backup
                                     /\ update'[c].before = target
           \/ update[c].at \in {"replaced", "held"} /\ update'[c].backup = update[c].backup
                                                    /\ update'[c].before = update[c].before
  BY <1>1, BinaryMoveKeeps, BinaryMoveFinds DEF BinaryActs
<1>3. UNCHANGED <<script, current, install, strategy, alone>> /\ strategy = "self-replace"
  BY DEF BinaryActs, scriptVars, installVars, rootVars, modeVars
<1>4. OnItsOwn(c) \/ (update'[c].at = "idle" /\ UNCHANGED target)
  BY <1>1 DEF BinaryActs, NoUpdate, BinaryShape, SelfTypeOK, binaryVars
<1>5. AloneIsAlone'
  <2>1. update'[c].at = "idle" => (Calling(c)' => Calling(c))
    BY <1>3 DEF Calling, Running
  <2> QED
    BY <1>1, <1>2, <1>3, <1>4, <2>1, TurnsGoOn
<1>6. OneWay'
  BY <1>1, <1>2, <1>3 DEF OneWay
<1>7. FoundAsLeft'
  <2>1. ASSUME alone, NEW d \in Clients, d # c
        PROVE  update'[d].at = "saved" => update'[d].backup = target'
    BY <1>1, <1>2, <1>4, <2>1 DEF FoundAsLeft, OnItsOwn, Calling
  <2> QED
    BY <1>1, <1>2, <1>3, <2>1 DEF FoundAsLeft
<1>8. ReceiptsFit'
  <2>1. alone /\ update'[c].at \in {"replaced", "held"} =>
            update'[c].backup \in {update'[c].before, NoBackup}
    BY <1>1, <1>2 DEF FoundAsLeft, ReceiptsFit, BackupIsPredecessor
  <2> QED
    BY <1>1, <1>2, <1>3, <2>1 DEF ReceiptsFit, BackupIsPredecessor
<1> QED
  BY <1>5, <1>6, <1>7, <1>8

LEMMA NextKeepsTurns ==
    ASSUME CallInv, Next
    PROVE  AloneIsAlone' /\ OneWay' /\ FoundAsLeft' /\ ReceiptsFit'
<1>1. AloneIsAlone /\ OneWay /\ FoundAsLeft /\ ReceiptsFit
  BY DEF CallInv
<1>2. alone' = alone /\ strategy' = strategy
  BY BoundsTyped DEF CallInv
<1>3. CASE UNCHANGED <<rootVars, installVars, scriptVars, selfVars, modeVars>>
  <2>1. UNCHANGED <<install, update, script, current, target>>
    BY <1>3 DEF rootVars, installVars, scriptVars, selfVars, binaryVars
  <2>2. AloneIsAlone'
    BY <1>1, <1>2, <2>1 DEF AloneIsAlone, Calling, Running
  <2> QED
    BY <1>1, <1>2, <2>1, <2>2 DEF OneWay, FoundAsLeft, ReceiptsFit, BackupIsPredecessor
<1>4. ASSUME \A d \in Clients : ~Calling(d), UNCHANGED <<install, update, target>>,
             script'.at # "idle" => alone /\ strategy = "bundle"
      PROVE  AloneIsAlone' /\ OneWay' /\ FoundAsLeft' /\ ReceiptsFit'
  <2>1. \A d \in Clients : ~Calling(d)'
    BY <1>4 DEF Calling, Running
  <2>2. AloneIsAlone' /\ FoundAsLeft'
    BY <2>1 DEF AloneIsAlone, FoundAsLeft, Calling, Running
  <2> QED
    BY <1>1, <1>2, <1>4, <2>2 DEF OneWay, ReceiptsFit, BackupIsPredecessor
<1>5. CASE RunScript
  BY <1>4, <1>5 DEF RunScript, Busy, Calling, installVars, selfVars, binaryVars
<1>6. CASE ScriptRuns
  <2>1. script.at # "idle"
    BY <1>6, ScriptStepKeeps DEF ScriptRuns, CallInv, TypeOK, ScriptShape
  <2> QED
    BY <1>1, <1>4, <1>6, <2>1 DEF ScriptRuns, AloneIsAlone, OneWay, selfVars, binaryVars
<1>7. CASE PowerLoss
  <2>1. \A c \in Clients : install'[c].at = "idle" /\ update'[c].at = "idle"
    BY <1>7, BinaryPowerKeeps DEF PowerLoss, NoInstall, CallInv, TypeOK, BinaryShape
  <2>2. script'.at = "idle"
    BY <1>7 DEF PowerLoss, NoScript
  <2> QED
    BY <2>1, <2>2 DEF AloneIsAlone, OneWay, FoundAsLeft, ReceiptsFit, BackupIsPredecessor, Calling,
                      Running
<1> QED
  BY <1>3, <1>5, <1>6, <1>7, Steps, InstallActsInTurn, BinaryActsInTurn

-----------------------------------------------------------------------------
(* However a caller repeats its rollbacks                                  *)

LEMMA InitCallInv == Init => CallInv
<1> SUFFICES ASSUME Init PROVE CallInv
  OBVIOUS
<1>1. RootTypeOK /\ DiskKnows
  BY Values DEF Init, RootInit, ScriptInit, RootTypeOK, DiskKnows, Marked
<1>2. /\ install = [c \in Clients |-> NoInstall] /\ update = [c \in Clients |-> NoUpdate]
      /\ script = NoScript /\ target = NoVersion /\ leftTarget = {NoVersion}
      /\ NoInstall.at = "idle" /\ NoUpdate.at = "idle" /\ NoScript.at = "idle"
  BY DEF Init, InstallInit, SelfInit, ScriptInit, NoInstall, NoUpdate, NoScript
<1>3. InstallTypeOK /\ ReceiptShape
  BY <1>2, Nothings, Labels DEF Init, InstallInit, InstallTypeOK, ReceiptShape
<1>4. ScriptTypeOK /\ ScriptUndoable
  BY <1>2, Nothings, Labels, NoScriptIsUndoable DEF Init, ScriptInit, ScriptTypeOK
<1>5. SelfTypeOK /\ BackupShape /\ ProgramSurvives
  BY <1>2, Nothings, Values DEF SelfTypeOK, BackupShape, ProgramSurvives
<1>6. TypeOK
  BY <1>1, <1>3, <1>4, <1>5, Values DEF Init, TypeOK, NoPlan
<1>7. AloneIsAlone /\ OneWay /\ FoundAsLeft /\ ReceiptsFit
  BY <1>2 DEF AloneIsAlone, OneWay, FoundAsLeft, ReceiptsFit, BackupIsPredecessor, Calling, Running
<1> QED
  BY <1>1, <1>3, <1>4, <1>5, <1>6, <1>7 DEF CallInv

LEMMA StepCallInv == CallInv /\ [Next]_vars => CallInv'
<1> SUFFICES ASSUME CallInv, [Next]_vars PROVE CallInv'
  OBVIOUS
<1>1. CASE Next
  BY <1>1, NextKeepsShapes, NextKeepsTurns DEF CallInv
<1>2. CASE UNCHANGED vars
  <2>1. UNCHANGED <<rootVars, installVars, scriptVars, selfVars, modeVars, plan, boundVars>>
    BY <1>2 DEF vars
  <2>2. UNCHANGED <<dir, current, leftDir, leftCurrent, unsynced, install, owner, script, launcher,
                    backup, touched, spoilt, target, leftTarget, update, strategy, alone, plan,
                    calls, scripts, losses>>
    BY <2>1 DEF rootVars, installVars, scriptVars, selfVars, binaryVars, modeVars, boundVars
  <2>3. TypeOK' /\ DiskKnows' /\ ReceiptShape'
    BY <2>2 DEF CallInv, TypeOK, RootTypeOK, InstallTypeOK, ScriptTypeOK, SelfTypeOK, DiskKnows,
                Marked, ReceiptShape
  <2>4. ScriptUndoable'
    BY <2>1, <2>2, OthersKeepScript DEF CallInv
  <2>5. BackupShape' /\ ReceiptsFit' /\ ProgramSurvives' /\ OneWay' /\ FoundAsLeft'
    BY <2>2 DEF CallInv, BackupShape, ReceiptsFit, BackupIsPredecessor, ProgramSurvives, OneWay,
                FoundAsLeft
  <2>6. AloneIsAlone'
    BY <2>2 DEF CallInv, AloneIsAlone, Calling, Running
  <2> QED
    BY <2>3, <2>4, <2>5, <2>6 DEF CallInv
<1> QED
  BY <1>1, <1>2

\* What holds however often and however late a caller repeats its rollbacks.
THEOREM CallsTakeTurns == Spec => []CallInv
<1> QED
  BY InitCallInv, StepCallInv, PTL DEF Spec

\* With one call at a time, a rollback moves the link only where its own version is current.
THEOREM RollbacksTakeOwnBack == Spec => RollbackTakesOwnBack
<1>1. ASSUME CallInv
      PROVE  \A c \in Clients :
                 alone /\ install[c].at = "verified" /\ current' # current =>
                     current = install[c].version
  BY <1>1 DEF CallInv, FoundAsLeft
<1> QED
  BY <1>1, CallsTakeTurns, PTL DEF RollbackTakesOwnBack

\* Whatever is renamed over a program has been synced before, so there is always a whole
\* program to start after a power loss.
THEOREM AProgramIsLeft == Spec => []ProgramSurvives
<1>1. CallInv => ProgramSurvives
  BY DEF CallInv
<1> QED
  BY <1>1, CallsTakeTurns, PTL

\* Of updates that do not overlap, each receipt holds the program that its own update has
\* replaced.
THEOREM BackupsArePredecessors == Spec => []ReceiptsFit
<1>1. CallInv => ReceiptsFit
  BY DEF CallInv
<1> QED
  BY <1>1, CallsTakeTurns, PTL

\* Whatever has failed, a script that has cleaned up leaves the link and the command as it
\* found them and its version gone, or no more of it than rm could not remove; or it keeps
\* the version whole, since a restoration has failed.  A signal that came between a change
\* and its flag spoils that change alone.
THEOREM ScriptsUndo == Spec => []FailedScriptUndoes
<1>1. ASSUME ScriptUndoable PROVE FailedScriptUndoes
  BY <1>1 DEF ScriptUndoable, FlagsFollow, VersionUndoable, LinkUndoable, LauncherUndoable,
              FailedScriptUndoes
<1>2. CallInv => FailedScriptUndoes
  BY <1>1 DEF CallInv
<1> QED
  BY <1>2, CallsTakeTurns, PTL

-----------------------------------------------------------------------------
(* What the steps of a call do to its receipt and to the directory         *)

SameRow(c) ==
    /\ install'[c].version = install[c].version
    /\ install'[c].previous = install[c].previous
    /\ install'[c].restored = install[c].restored

\* Nothing changes on the disk, and the receipt says no more than it did.
Quiet(c) ==
    /\ UNCHANGED <<rootVars, owner>>
    /\ \/ install'[c].at \in {"idle", "staging"}
       \/ /\ SameRow(c)
          /\ \/ install[c].at \in {"committed", "synced", "read"} /\ install'[c].at = "removing"
             \/ /\ install[c].at \in {"switched", "hooks", "undo", "verified", "held"}
                /\ ~install[c].restored
                /\ install'[c].at \in {"undo", "verified", "held"}
             \/ install[c].at = "held" /\ install[c].restored /\ install'[c].at = "restored"
             \/ /\ install[c].at \in {"restored", "removed"} /\ install[c].restored
                /\ install'[c].at = "held"

Commits(c) ==
    LET v == install[c].version IN
    /\ install[c].at = "staging" /\ install'[c].at = "committed" /\ SameRow(c)
    /\ v \in Versions /\ dir[v] = "absent"
    /\ PutVersion(v, TRUE)
    /\ owner' = [owner EXCEPT ![v] = c]

Reads(c) ==
    /\ install[c].at = "synced" /\ install'[c].at = "read"
    /\ install'[c].version = install[c].version /\ ~install'[c].restored
    /\ UNCHANGED <<rootVars, owner>>

Switches(c) ==
    /\ install[c].at = "read" /\ install'[c].at = "switched" /\ SameRow(c)
    /\ install[c].version \in Versions /\ ~install[c].restored
    /\ PointCurrent(install[c].version)
    /\ owner' = owner

Restores(c) ==
    /\ install[c].at = "verified" /\ install'[c].at = "restored"
    /\ install'[c].version = install[c].version
    /\ ~install[c].restored /\ install'[c].restored
    /\ PointCurrent(install[c].previous)
    /\ owner' = owner

\* A directory is synced: that of the versions, or the one with the link.
Syncs(c) ==
    /\ owner' = owner
    /\ \/ SyncVersions /\ install[c].at = "committed" /\ install'[c].at = "synced" /\ SameRow(c)
       \/ SyncVersions /\ install'[c].at = "idle"
       \/ /\ SyncRoot /\ SameRow(c)
          /\ \/ install[c].at = "switched" /\ install'[c].at = "hooks"
             \/ install[c].at = "restored" /\ install'[c].at = "removing"

Removes(c) ==
    /\ install[c].at = "removing" /\ install[c].version \in Versions
    /\ \E left \in {"absent", "part"} : RemoveVersion(install[c].version, left)
    /\ owner' = owner
    /\ \/ install'[c].at = "idle"
       \/ SameRow(c) /\ install'[c].at = "removed"
       \/ SameRow(c) /\ install'[c].at = "held" /\ install'[c].restored

LEMMA InstallMoves ==
    ASSUME InstallShape, RootTypeOK, NEW c \in Clients, InstallMove(c)
    PROVE  \/ Quiet(c) \/ Commits(c) \/ Reads(c) \/ Switches(c) \/ Restores(c) \/ Syncs(c)
           \/ Removes(c)
<1>1. /\ install \in [Clients -> Install] /\ install[c] \in Install /\ RowOK(install[c])
      /\ InstallTypeOK
  BY ShapeIsRows DEF InstallShape, InstallTypeOK
<1>2. /\ install[c].at # "idle" => install[c].version \in Versions
      /\ install[c].at \in {"staging", "committed", "synced", "read", "switched", "hooks"} =>
            ~install[c].kept /\ ~install[c].restored
      /\ install[c].at = "held" => install[c].kept
      /\ install[c].at \in {"undo", "verified"} => ~install[c].restored
      /\ install[c].at = "restored" => install[c].restored
      /\ install[c].at \in {"removing", "removed"} /\ install[c].kept => install[c].restored
  BY <1>1, Labels DEF RowOK
<1>3. ASSUME NEW at, GoTo(c, at) PROVE SameRow(c) /\ install'[c].at = at
  BY <1>1, <1>3, GoToRow DEF SameRow
<1>4. Leave(c) => install'[c].at = "idle"
  BY <1>1 DEF Leave, NoInstall
<1>5. Fails(c) => \/ install'[c].at = "idle"
                  \/ install[c].kept /\ SameRow(c) /\ install'[c].at = "held"
  BY <1>3, <1>4 DEF Fails
<1>6. CASE \E v \in Versions : BeginInstall(c, v) /\ UNCHANGED owner
  <2>1. PICK v \in Versions : BeginInstall(c, v) /\ UNCHANGED owner
    BY <1>6
  <2>2. install'[c].at = "staging"
    BY <1>1, <2>1 DEF BeginInstall, NoInstall
  <2> QED
    BY <2>1, <2>2 DEF BeginInstall, Quiet
<1>7. CASE (StagingFails(c) \/ Finalize(c)) /\ UNCHANGED owner
  BY <1>4, <1>7 DEF StagingFails, Finalize, Quiet
<1>8. CASE ClientDies(c)
  <2>1. install'[c].at = "idle" /\ owner' = owner
    BY <1>4, <1>8 DEF ClientDies
  <2> QED
    BY <1>2, <1>8, <2>1 DEF ClientDies, Quiet, Removes
<1>9. CASE Rollback(c) /\ UNCHANGED owner
  <2>1. CASE install[c].restored
    BY <1>3, <1>9, <2>1 DEF Rollback, Quiet
  <2>2. CASE ~install[c].restored
    BY <1>3, <1>9, <2>2 DEF Rollback, Quiet
  <2> QED
    BY <2>1, <2>2
<1>10. CASE Commit(c)
  <2>1. CASE Leave(c) /\ UNCHANGED <<owner, rootVars>>
    BY <1>4, <2>1 DEF Quiet
  <2>2. CASE /\ dir[install[c].version] = "absent" /\ PutVersion(install[c].version, TRUE)
             /\ owner' = [owner EXCEPT ![install[c].version] = c] /\ GoTo(c, "committed")
    BY <1>2, <1>3, <1>10, <2>2 DEF Commit, Commits
  <2> QED
    BY <1>10, <2>1, <2>2 DEF Commit
<1>11. CASE SyncCommit(c) /\ UNCHANGED owner
  BY <1>3, <1>11 DEF SyncCommit, Syncs, Quiet
<1>12. CASE ReadPointer(c) /\ UNCHANGED owner
  <2>1. CASE GoTo(c, "removing")
    BY <1>3, <1>12, <2>1 DEF ReadPointer, Quiet
  <2>2. CASE install' = [install EXCEPT ![c].at = "read", ![c].previous = current]
    <3>1. install'[c].at = "read" /\ install'[c].version = install[c].version
          /\ install'[c].restored = install[c].restored
      BY <1>1, <2>2 DEF Install
    <3> QED
      BY <1>2, <1>12, <3>1 DEF ReadPointer, Reads
  <2> QED
    BY <1>12, <2>1, <2>2 DEF ReadPointer
<1>13. CASE Switch(c) /\ UNCHANGED owner
  BY <1>2, <1>3, <1>13 DEF Switch, Switches, Quiet
<1>14. CASE SyncSwitch(c) /\ UNCHANGED owner
  BY <1>2, <1>3, <1>14 DEF SyncSwitch, Syncs, Quiet
<1>15. CASE RunHooks(c) /\ UNCHANGED owner
  <2>1. CASE GoTo(c, "undo")
    BY <1>2, <1>3, <1>15, <2>1 DEF RunHooks, Quiet
  <2>2. CASE install' = [install EXCEPT ![c].at = "held", ![c].kept = TRUE]
    <3>1. install'[c].at = "held" /\ SameRow(c)
      BY <1>1, <2>2 DEF Install, SameRow
    <3> QED
      BY <1>2, <1>15, <3>1 DEF RunHooks, Quiet
  <2> QED
    BY <1>15, <2>1, <2>2 DEF RunHooks
<1>16. CASE Verify(c) /\ UNCHANGED owner
  <2>1. CASE GoTo(c, "verified")
    BY <1>2, <1>3, <1>16, <2>1 DEF Verify, Quiet
  <2>2. CASE Fails(c)
    BY <1>2, <1>5, <1>16, <2>2 DEF Verify, Quiet
  <2> QED
    BY <1>16, <2>1, <2>2 DEF Verify
<1>17. CASE Restore(c) /\ UNCHANGED owner
  <2>1. CASE Fails(c) /\ UNCHANGED rootVars
    BY <1>2, <1>5, <1>17, <2>1 DEF Restore, Quiet
  <2>2. CASE install' = [install EXCEPT ![c].at = "restored", ![c].restored = TRUE]
             /\ PointCurrent(install[c].previous)
    <3>1. install'[c].at = "restored" /\ install'[c].version = install[c].version
          /\ install'[c].restored
      BY <1>1, <2>2 DEF Install
    <3> QED
      BY <1>2, <1>17, <2>2, <3>1 DEF Restore, Restores
  <2> QED
    BY <1>17, <2>1, <2>2 DEF Restore
<1>18. CASE SyncRestored(c) /\ UNCHANGED owner
  <2>1. CASE Fails(c) /\ UNCHANGED rootVars
    BY <1>2, <1>5, <1>18, <2>1 DEF SyncRestored, Quiet
  <2>2. CASE SyncRoot /\ GoTo(c, "removing")
    BY <1>3, <1>18, <2>2 DEF SyncRestored, Syncs
  <2> QED
    BY <1>18, <2>1, <2>2 DEF SyncRestored
<1>19. CASE Remove(c) /\ UNCHANGED owner
  <2>1. CASE RemoveVersion(install[c].version, "absent") /\ GoTo(c, "removed")
    BY <1>2, <1>3, <1>19, <2>1 DEF Remove, Removes
  <2>2. CASE RemoveVersion(install[c].version, "part") /\ Fails(c)
    BY <1>2, <1>5, <1>19, <2>2 DEF Remove, Removes, SameRow
  <2> QED
    BY <1>19, <2>1, <2>2 DEF Remove
<1>20. CASE SyncRemoved(c) /\ UNCHANGED owner
  <2>1. CASE Fails(c) /\ UNCHANGED rootVars
    BY <1>2, <1>5, <1>20, <2>1 DEF SyncRemoved, Quiet
  <2>2. CASE SyncVersions /\ Leave(c)
    BY <1>4, <1>20, <2>2 DEF Syncs
  <2> QED
    BY <1>20, <2>1, <2>2 DEF SyncRemoved
<1> QED
  BY <1>6, <1>7, <1>8, <1>9, <1>10, <1>11, <1>12, <1>13, <1>14, <1>15, <1>16, <1>17, <1>18, <1>19,
     <1>20 DEF InstallMove, InstallStep

-----------------------------------------------------------------------------
(* A caller that repeats a rollback only while the version is its own, or  *)
(* gone, and nobody else calls                                             *)

OwnsLabels == {"committed", "synced", "read", "switched", "hooks", "undo", "verified", "restored",
               "removing"}

LEMMA OwnsAt ==
    ASSUME NEW c \in Clients
    PROVE  /\ Owns(c) <=> \/ install[c].at \in OwnsLabels
                          \/ install[c].at = "held" /\ ~install[c].restored
           /\ Owns(c)' <=> \/ install'[c].at \in OwnsLabels
                           \/ install'[c].at = "held" /\ ~install'[c].restored
BY Labels DEF Owns, OwnsLabels

\* What the two invariants about owners say together of one call.
Has(c) ==
    LET v == install[c].version IN
    Owns(c) => \/ owner[v] = c /\ dir[v] # "absent"
               \/ alone /\ install[c].restored /\ (owner[v] = c \/ dir[v] = "absent")

LEMMA HasIsOwned ==
    /\ OwnedIsThere /\ (alone => RemovesItsOwn) <=> \A c \in Clients : Has(c)
    /\ OwnedIsThere' /\ (alone' => RemovesItsOwn') <=> \A c \in Clients : Has(c)'
BY DEF OwnedIsThere, RemovesItsOwn, Has

\* What a client's step finds.
LEMMA ClientMoves ==
    ASSUME CallInv, LateRetry = FALSE, NEW c \in Clients, InstallActs(c)
    PROVE  /\ \A d \in Clients : d # c => install'[d] = install[d]
           /\ UNCHANGED <<script, spoilt, touched, alone>>
           /\ \/ Quiet(c) /\ (install'[c].at = "restored" =>
                                alone /\ \/ owner[install[c].version] = c
                                         \/ dir[install[c].version] = "absent")
              \/ /\ alone => /\ script.at = "idle"
                             /\ \A d \in Clients : d # c => ~Running(d)
                 /\ Commits(c) \/ Reads(c) \/ Switches(c) \/ Restores(c) \/ Syncs(c) \/ Removes(c)
<1>1. InstallShape /\ RootTypeOK /\ install \in [Clients -> Install]
  BY DEF CallInv, TypeOK, InstallShape, InstallTypeOK
<1>2. \A d \in Clients : d # c => install'[d] = install[d]
  BY <1>1, InstallMoveKeeps DEF InstallActs
<1>3. UNCHANGED <<script, spoilt, touched, alone>>
  BY DEF InstallActs, scriptVars, modeVars
<1>4. CASE Quiet(c)
  <2>1. install'[c].at = "restored" =>
            /\ install[c].at = "held" /\ install[c].restored /\ Running(c)'
    BY <1>4 DEF Quiet, Running
  <2>2. install'[c].at = "restored" =>
            alone /\ (owner[install[c].version] = c \/ dir[install[c].version] = "absent")
    BY <2>1 DEF InstallActs, MayRepeat
  <2> QED
    BY <1>2, <1>3, <1>4, <2>2
<1>5. CASE ~Quiet(c)
  <2>1. OnItsOwn(c)
    <3>1. ASSUME install' = [install EXCEPT ![c] = NoInstall], UNCHANGED <<rootVars, owner>>
          PROVE  Quiet(c)
      BY <1>1, <3>1 DEF Quiet, NoInstall
    <3> QED
      BY <1>5, <3>1 DEF InstallActs
  <2>2. Commits(c) \/ Reads(c) \/ Switches(c) \/ Restores(c) \/ Syncs(c) \/ Removes(c)
    BY <1>1, <1>5, InstallMoves DEF InstallActs
  <2> QED
    BY <1>2, <1>3, <2>1, <2>2 DEF OnItsOwn, Calling
<1> QED
  BY <1>4, <1>5

\* No step of a client takes what another one may still remove.
LEMMA ClientKeepsOwners ==
    ASSUME IInv, LateRetry = FALSE, NEW c \in Clients, InstallActs(c)
    PROVE  \A d \in Clients : Has(d)'
<1>1. /\ \A d \in Clients : Has(d)
      /\ OneOwner /\ RootTypeOK /\ ReceiptShape /\ CallInv
      /\ owner \in [Versions -> Clients \cup {Nobody}]
  BY HasIsOwned DEF IInv, CallInv, AloneIsSafe, TypeOK, InstallTypeOK
<1>2. /\ \A d \in Clients : d # c => install'[d] = install[d]
      /\ alone' = alone
  BY <1>1, ClientMoves
<1>3. \A d \in Clients : Owns(d) => install[d].version \in Versions
  BY <1>1, OwnsAt DEF ReceiptShape, OwnsLabels
<1>4. \A d \in Clients : d # c => (Owns(d)' <=> Owns(d))
  BY <1>2, OwnsAt
<1>5. CASE Quiet(c) /\ (install'[c].at = "restored" =>
                            alone /\ \/ owner[install[c].version] = c
                                     \/ dir[install[c].version] = "absent")
  <2>1. UNCHANGED <<dir, owner>>
    BY <1>5 DEF Quiet, rootVars
  <2>2. ASSUME Owns(c)', ~(install[c].at = "held" /\ install[c].restored)
        PROVE  Owns(c) /\ SameRow(c)
    BY <1>5, <2>2, OwnsAt DEF Quiet, OwnsLabels, SameRow
  <2>3. ASSUME Owns(c)', install[c].at = "held" /\ install[c].restored
        PROVE  install'[c].at = "restored" /\ SameRow(c)
    BY <1>5, <2>3, OwnsAt DEF Quiet, OwnsLabels
  <2>4. Has(c)'
    BY <1>1, <1>2, <1>5, <2>1, <2>2, <2>3 DEF Has, SameRow
  <2> QED
    BY <1>1, <1>2, <1>4, <2>1, <2>4 DEF Has
<1>6. ASSUME Reads(c) \/ Switches(c) \/ Restores(c) \/ Syncs(c) PROVE \A d \in Clients : Has(d)'
  <2>1. UNCHANGED <<dir, owner>>
    BY <1>6 DEF Reads, Switches, Restores, Syncs, PointCurrent, SyncVersions, SyncRoot, rootVars
  <2>2. Owns(c)' => /\ Owns(c) /\ install'[c].version = install[c].version
                    /\ install[c].restored => install'[c].restored
    <3>1. install[c].at = "synced" => ~install[c].restored
      BY <1>1, Labels DEF ReceiptShape
    <3> QED
      BY <1>6, <3>1, OwnsAt DEF Reads, Switches, Restores, Syncs, OwnsLabels, SameRow
  <2>3. Has(c)'
    BY <1>1, <1>2, <2>1, <2>2 DEF Has
  <2> QED
    BY <1>1, <1>2, <1>4, <2>1, <2>3 DEF Has
<1>7. CASE Commits(c) /\ (alone => \A d \in Clients : d # c => ~Running(d))
  <2> DEFINE v == install[c].version
  <2>1. /\ v \in Versions /\ dir[v] = "absent" /\ install'[c].version = v
        /\ dir' = [dir EXCEPT ![v] = "whole"] /\ owner' = [owner EXCEPT ![v] = c]
    BY <1>7 DEF Commits, PutVersion, SameRow
  <2>2. owner'[v] = c /\ dir'[v] = "whole"
    BY <1>1, <2>1 DEF RootTypeOK
  <2>3. ASSUME NEW d \in Clients, d # c, Owns(d)
        PROVE  install[d].version # v /\ owner'[install[d].version] = owner[install[d].version]
               /\ dir'[install[d].version] = dir[install[d].version]
    <3>1. Owns(d) /\ install[d].restored => Running(d)
      BY OwnsAt DEF Running, OwnsLabels
    <3>2. install[d].version # v
      BY <1>1, <1>7, <2>1, <2>3, <3>1 DEF Has
    <3> QED
      BY <1>1, <1>3, <2>1, <2>3, <3>2 DEF RootTypeOK
  <2>4. Has(c)'
    BY <2>1, <2>2 DEF Has
  <2>5. ASSUME NEW d \in Clients, d # c PROVE Has(d)'
    BY <1>1, <1>2, <1>4, <2>3, <2>5 DEF Has
  <2> QED
    BY <2>4, <2>5
<1>8. CASE Removes(c)
  <2> DEFINE v == install[c].version
  <2>1. v \in Versions /\ Owns(c) /\ ~Owns(c)' /\ owner' = owner
    BY <1>8, OwnsAt DEF Removes, OwnsLabels
  <2>2. \A w \in Versions : w # v => dir'[w] = dir[w]
    BY <1>1, <1>8, <2>1 DEF Removes, RemoveVersion, RootTypeOK
  <2>3. ASSUME NEW d \in Clients, d # c, Owns(d)
        PROVE  dir'[install[d].version] = dir[install[d].version]
    BY <1>1, <1>3, <2>1, <2>2, <2>3 DEF OneOwner
  <2> QED
    BY <1>1, <1>2, <1>4, <2>1, <2>3 DEF Has
<1> QED
  BY <1>1, <1>5, <1>6, <1>7, <1>8, ClientMoves

\* While the link stays, and no receipt begins to point back.
LEMMA PointersStay ==
    ASSUME NobodyPointsAtParts, UNCHANGED <<script, current>>, spoilt \subseteq spoilt',
           \A d \in Clients : Live(d)' => Live(d) /\ install'[d].previous = install[d].previous,
           \A v \in Versions : dir'[v] # "whole" => Unused(v),
           \A d \in Clients : Leaving(d)' => Unused(install'[d].version)
    PROVE  NobodyPointsAtParts'
<1>1. ASSUME NEW v, Unused(v) PROVE Unused(v)'
  BY <1>1 DEF Unused
<1>2. \A v \in Versions : dir'[v] # "whole" => Unused(v)'
  BY <1>1
<1>3. \A d \in Clients : Leaving(d)' => Unused(install[d].version)'
  <2>1. ASSUME NEW d \in Clients, Leaving(d)' PROVE Unused(install[d].version)'
    <3> DEFINE v == install'[d].version
    <3>1. Unused(v)
      BY <2>1
    <3> QED
      BY <3>1 DEF Unused
  <2> QED
    BY <2>1
<1> QED
  BY <1>2, <1>3 DEF NobodyPointsAtParts

LEMMA SwitchKeepsPointers ==
    ASSUME NobodyPointsAtParts, SwitchIsSafe, NEW c \in Clients, Has(c), Switches(c),
           install[c].previous = current, \A v \in Versions : dir[v] \in DirStates,
           \A d \in Clients : d # c => install'[d] = install[d] /\ ~Running(d),
           UNCHANGED <<script, spoilt, alone>>, script.at = "idle"
    PROVE  NobodyPointsAtParts'
<1> DEFINE v == install[c].version
<1>1. /\ v \in Versions /\ dir[v] = "whole" /\ dir' = dir /\ current' = v /\ owner' = owner
      /\ install'[c].version = v /\ install'[c].previous = current
      /\ Unused(v) /\ ~Leaving(c)'
  BY DEF Switches, PointCurrent, SameRow, SwitchIsSafe, NobodyPointsAtParts, Leaving
<1>2. owner[v] = c
  BY OwnsAt DEF Has, Switches, OwnsLabels
<1>3. \A d \in Clients : d # c => (Live(d)' <=> Live(d)) /\ (Leaving(d)' <=> Leaving(d))
  BY <1>1 DEF Live, Leaving
<1>4. ASSUME NEW w \in Versions, Unused(w), w # v PROVE Unused(w)'
  BY <1>1, <1>3, <1>4 DEF Unused
<1>5. \A w \in Versions : dir'[w] # "whole" => Unused(w)'
  BY <1>1, <1>4 DEF NobodyPointsAtParts
<1>6. ASSUME NEW d \in Clients, Leaving(d)' PROVE Unused(install[d].version)'
  <2>1. d # c /\ Leaving(d) /\ install'[d] = install[d]
    BY <1>1, <1>3, <1>6
  <2>2. install[d].version # v
    BY <1>2, <2>1 DEF Leaving, Running
  <2>3. Unused(install[d].version)
    BY <2>1 DEF NobodyPointsAtParts
  <2> QED
    BY <1>1, <1>3, <2>1, <2>2, <2>3 DEF Unused
<1>7. ASSUME NEW d \in Clients, Live(d)', install'[d].previous \notin spoilt'
      PROVE  /\ install'[d].previous # current'
             /\ \A e \in Clients : Live(e)' /\ install'[e].previous = install'[d].previous => e = d
  <2>1. CASE d = c
    <3>1. \A e \in Clients : e # c /\ Live(e) /\ install[e].previous \notin spoilt =>
              install[e].previous # current
      BY DEF NobodyPointsAtParts
    <3> QED
      BY <1>1, <1>3, <1>7, <2>1, <3>1 DEF Unused
  <2>2. CASE d # c
    <3>1. /\ Live(d) /\ install'[d] = install[d] /\ install[d].previous \notin spoilt
          /\ install[d].previous # current
          /\ \A e \in Clients : Live(e) /\ install[e].previous = install[d].previous => e = d
      BY <1>3, <1>7, <2>2 DEF NobodyPointsAtParts
    <3>2. install[d].previous # v
      BY <1>1, <3>1 DEF Unused
    <3> QED
      BY <1>1, <1>3, <3>1, <3>2
  <2> QED
    BY <2>1, <2>2
<1> QED
  BY <1>5, <1>6, <1>7, <1>1 DEF NobodyPointsAtParts

LEMMA RestoreKeepsPointers ==
    ASSUME NobodyPointsAtParts, NEW c \in Clients, Restores(c), install[c].version = current,
           \A d \in Clients : d # c => install'[d] = install[d] /\ ~Running(d),
           UNCHANGED <<script, spoilt, alone>>, script.at = "idle"
    PROVE  NobodyPointsAtParts'
<1> DEFINE p == install[c].previous
<1>1. /\ dir' = dir /\ current' = p /\ owner' = owner /\ Live(c) /\ ~Live(c)'
      /\ install'[c].version = current
  BY DEF Restores, PointCurrent, Live
<1>2. \A d \in Clients : d # c => (Live(d)' <=> Live(d)) /\ (Leaving(d)' <=> Leaving(d))
  BY <1>1 DEF Live, Leaving
<1>3. ASSUME NEW w, Unused(w) PROVE Unused(w)'
  BY <1>1, <1>2, <1>3 DEF Unused
<1>4. \A w \in Versions : dir'[w] # "whole" => Unused(w)'
  BY <1>1, <1>3 DEF NobodyPointsAtParts
<1>5. ASSUME NEW d \in Clients, Leaving(d)' PROVE Unused(install[d].version)'
  <2>1. CASE d = c
    <3>1. \A e \in Clients : Live(e) => install[e].previous # current \/ current \in spoilt
      BY DEF NobodyPointsAtParts
    <3> QED
      BY <1>1, <1>2, <2>1, <3>1 DEF Unused
  <2>2. CASE d # c
    <3>1. Unused(install[d].version)
      BY <1>2, <1>5, <2>2 DEF NobodyPointsAtParts
    <3> QED
      BY <1>1, <1>2, <2>2, <3>1 DEF Unused
  <2> QED
    BY <2>1, <2>2
<1>6. ASSUME NEW d \in Clients, Live(d)', install'[d].previous \notin spoilt'
      PROVE  /\ install'[d].previous # current'
             /\ \A e \in Clients : Live(e)' /\ install'[e].previous = install'[d].previous => e = d
  <2>1. /\ d # c /\ Live(d) /\ install'[d] = install[d] /\ install[d].previous \notin spoilt
        /\ \A e \in Clients : Live(e) /\ install[e].previous = install[d].previous => e = d
    BY <1>1, <1>2, <1>6 DEF NobodyPointsAtParts
  <2> QED
    BY <1>1, <1>2, <2>1
<1> QED
  BY <1>1, <1>4, <1>5, <1>6 DEF NobodyPointsAtParts

LEMMA ClientKeepsPointers ==
    ASSUME IInv, LateRetry = FALSE, alone, NEW c \in Clients, InstallActs(c)
    PROVE  NobodyPointsAtParts'
<1>1. /\ NobodyPointsAtParts /\ SwitchIsSafe /\ FoundAsLeft /\ CallInv /\ RootTypeOK
      /\ \A d \in Clients : Has(d)
      /\ owner \in [Versions -> Clients \cup {Nobody}]
      /\ \A d \in Clients : install[d].at # "idle" => install[d].version \in Versions
  BY HasIsOwned DEF IInv, CallInv, AloneIsSafe, TypeOK, InstallTypeOK, ReceiptShape
<1>2. /\ \A d \in Clients : d # c => install'[d] = install[d]
      /\ UNCHANGED <<script, spoilt, touched, alone>>
  BY <1>1, ClientMoves
<1>3. ASSUME current' = current, UNCHANGED owner,
             Live(c)' => Live(c) /\ install'[c].previous = install[c].previous,
             \A v \in Versions : dir'[v] # "whole" => Unused(v),
             Leaving(c)' => Unused(install'[c].version)
      PROVE  NobodyPointsAtParts'
  <2>1. ASSUME NEW d \in Clients, d # c
        PROVE  /\ Live(d)' => Live(d) /\ install'[d].previous = install[d].previous
               /\ Leaving(d)' => Unused(install'[d].version)
    BY <1>1, <1>2, <1>3, <2>1 DEF Live, Leaving, NobodyPointsAtParts
  <2> QED
    BY <1>1, <1>2, <1>3, <2>1, PointersStay
<1>4. CASE Quiet(c) /\ (install'[c].at = "restored" =>
                            \/ owner[install[c].version] = c
                            \/ dir[install[c].version] = "absent")
  <2>1. UNCHANGED <<dir, current, owner>>
    BY <1>4 DEF Quiet, rootVars
  <2>2. Live(c)' => Live(c) /\ install'[c].previous = install[c].previous
    BY <1>4 DEF Quiet, Live, SameRow
  <2>3. ASSUME Leaving(c)' PROVE Unused(install'[c].version)
    <3>1. /\ install'[c].version = install[c].version /\ install[c].at # "idle"
          /\ Leaving(c) \/ dir[install[c].version] = "absent"
      BY <1>4, <2>1, <2>3 DEF Quiet, Leaving, SameRow
    <3> QED
      BY <1>1, <3>1 DEF NobodyPointsAtParts
  <2> QED
    BY <1>1, <1>3, <2>1, <2>2, <2>3 DEF NobodyPointsAtParts
<1>5. CASE Reads(c) \/ Syncs(c)
  <2>1. UNCHANGED <<dir, current, owner>>
    BY <1>5 DEF Reads, Syncs, SyncVersions, SyncRoot, rootVars
  <2>2. Live(c)' => Live(c) /\ install'[c].previous = install[c].previous
    BY <1>5 DEF Reads, Syncs, Live, SameRow
  <2>3. Leaving(c)' => Leaving(c) /\ install'[c].version = install[c].version
    BY <1>5 DEF Reads, Syncs, Leaving, SameRow
  <2> QED
    BY <1>1, <1>3, <2>1, <2>2, <2>3 DEF NobodyPointsAtParts
<1>6. CASE Commits(c)
  <2> DEFINE v == install[c].version
  <2>1. /\ v \in Versions /\ dir[v] = "absent" /\ install'[c].version = v /\ ~Live(c)'
        /\ current' = current
        /\ dir' = [dir EXCEPT ![v] = "whole"] /\ owner' = [owner EXCEPT ![v] = c]
    BY <1>6 DEF Commits, PutVersion, SameRow, Live
  <2>2. \A w \in Versions : dir'[w] # "whole" => Unused(w)
    BY <1>1, <2>1 DEF RootTypeOK, NobodyPointsAtParts
  <2>3. ASSUME NEW d \in Clients, Leaving(d)' PROVE Unused(install'[d].version)
    <3>1. CASE d = c
      BY <1>1, <2>1, <3>1 DEF NobodyPointsAtParts
    <3>2. CASE d # c
      <4>1. Leaving(d) /\ install'[d] = install[d]
        BY <1>1, <1>2, <2>1, <2>3, <3>2 DEF Leaving
      <4> QED
        BY <1>1, <4>1 DEF NobodyPointsAtParts
    <3> QED
      BY <3>1, <3>2
  <2>4. ASSUME NEW d \in Clients
        PROVE  Live(d)' => Live(d) /\ install'[d].previous = install[d].previous
    BY <1>2, <2>1 DEF Live
  <2> QED
    BY <1>1, <1>2, <2>1, <2>2, <2>3, <2>4, PointersStay
<1>7. CASE Removes(c)
  <2> DEFINE v == install[c].version
  <2>1. /\ v \in Versions /\ Leaving(c) /\ ~Live(c)' /\ UNCHANGED <<current, owner>>
        /\ \A w \in Versions : w # v => dir'[w] = dir[w]
    BY <1>1, <1>7 DEF Removes, RemoveVersion, Leaving, Live, RootTypeOK, SameRow
  <2>2. Unused(v) /\ \A w \in Versions : dir'[w] # "whole" => Unused(w)
    BY <1>1, <2>1 DEF NobodyPointsAtParts
  <2>3. Leaving(c)' => install'[c].version = v
    BY <1>7 DEF Removes, Leaving, SameRow
  <2> QED
    BY <1>3, <2>1, <2>2, <2>3
<1>8. CASE Switches(c) /\ script.at = "idle" /\ \A d \in Clients : d # c => ~Running(d)
  <2>1. install[c].previous = current
    BY <1>1, <1>8 DEF FoundAsLeft, Switches
  <2> QED
    BY <1>1, <1>2, <1>8, <2>1, SwitchKeepsPointers DEF RootTypeOK
<1>9. CASE Restores(c) /\ script.at = "idle" /\ \A d \in Clients : d # c => ~Running(d)
  <2>1. install[c].version = current
    BY <1>1, <1>9 DEF FoundAsLeft, Restores
  <2> QED
    BY <1>1, <1>2, <1>9, <2>1, RestoreKeepsPointers
<1> QED
  BY <1>1, <1>4, <1>5, <1>6, <1>7, <1>8, <1>9, ClientMoves

\* Syncing the versions makes solid what is complete, but for what the script has put there.
LEMMA SyncingIsSolid ==
    ASSUME DiskKnows, RootTypeOK, UNCHANGED <<touched, spoilt>>, SyncVersions
    PROVE  /\ \A v : Solid(v) /\ v \in Targets => Solid(v)'
           /\ \A v \in Versions : dir[v] = "whole" /\ v \notin unsynced => leftDir'[v] = {"whole"}
<1>1. /\ \A v \in Versions : leftDir'[v] =
             {dir[v]} \cup (IF v \in unsynced /\ dir[v] = "whole" THEN {"part"} ELSE {})
      /\ Marked' = Marked
  BY DEF SyncVersions, Marked
<1>2. \A v \in Versions : leftDir[v] = {"whole"} => dir[v] = "whole"
  BY DEF DiskKnows
<1>3. \A v \in Versions : v \in unsynced => v \in Marked
  BY DEF DiskKnows
<1>4. \A v \in Versions : dir[v] = "whole" /\ v \notin unsynced => leftDir'[v] = {"whole"}
  BY <1>1
<1> QED
  BY <1>1, <1>2, <1>3, <1>4 DEF Solid, Targets

\* Any other step leaves solid what it does not take away.
LEMMA SolidStays ==
    ASSUME Marked \subseteq Marked', NEW v, Solid(v),
           v \in Versions => leftDir'[v] = leftDir[v] \/ leftDir'[v] = leftDir[v] \cup {"whole"}
                             \/ v \in Marked',
           v \in Targets
    PROVE  Solid(v)'
BY DEF Solid, Targets

LEMMA ClientKeepsSolid ==
    ASSUME IInv, LateRetry = FALSE, alone, NEW c \in Clients, InstallActs(c)
    PROVE  LinksAreSolid' /\ SwitchIsSafe'
<1>1. /\ NobodyPointsAtParts /\ SwitchIsSafe /\ LinksAreSolid /\ FoundAsLeft /\ CallInv
      /\ RootTypeOK /\ DiskKnows
      /\ install \in [Clients -> Install]
  BY DEF IInv, CallInv, AloneIsSafe, TypeOK, InstallTypeOK
<1>2. /\ \A d \in Clients : d # c => install'[d] = install[d]
      /\ UNCHANGED <<script, spoilt, touched, alone>> /\ Marked' = Marked
  BY <1>1, ClientMoves DEF Marked
<1>3. /\ \A d \in Clients : install[d].previous \in Targets /\ install[d].version \in Targets
      /\ leftCurrent \subseteq Targets /\ current \in Targets
      /\ script.old \in Targets
  BY <1>1 DEF RootTypeOK, Install, CallInv, TypeOK, ScriptTypeOK, Script
<1>4. ASSUME UNCHANGED <<leftCurrent, owner>>,
             \A v \in Targets : Solid(v) => Solid(v)',
             Live(c)' => Live(c) /\ install'[c].previous = install[c].previous,
             install'[c].at \in {"committed", "synced", "read", "removing"} =>
                install'[c].version \notin leftCurrent \ Marked
      PROVE  LinksAreSolid'
  <2>1. \A v \in leftCurrent' : Solid(v)'
    BY <1>1, <1>3, <1>4 DEF LinksAreSolid
  <2>2. ASSUME NEW d \in Clients, Live(d)' PROVE Solid(install[d].previous)'
    <3>1. Live(d) /\ install'[d].previous = install[d].previous
      BY <1>2, <1>4, <2>2 DEF Live
    <3>2. Solid(install[d].previous) /\ install[d].previous \in Targets
      BY <1>1, <1>3, <3>1 DEF LinksAreSolid
    <3> QED
      BY <1>4, <3>1, <3>2 DEF Solid
  <2>3. script'.at # "idle" => Solid(script.old)'
    <3>1. script.at # "idle" => Solid(script.old)
      BY <1>1 DEF LinksAreSolid
    <3> QED
      BY <1>2, <1>3, <1>4, <3>1 DEF Solid
  <2>4. \A d \in Clients : install'[d].at \in {"committed", "synced", "read", "removing"} =>
            install'[d].version \notin leftCurrent' \ Marked'
    BY <1>1, <1>2, <1>4 DEF LinksAreSolid
  <2> QED
    BY <2>1, <2>2, <2>3, <2>4 DEF LinksAreSolid
<1>5. ASSUME \A d \in Clients : d # c => install[d].at \in {"idle", "held"}, script.at = "idle",
             install'[c].at \in {"committed", "synced", "read"} => dir'[install'[c].version] = "whole",
             install'[c].at = "committed" => install'[c].version \notin unsynced',
             install'[c].at \in {"synced", "read"} => leftDir'[install'[c].version] = {"whole"}
      PROVE  SwitchIsSafe'
  BY <1>2, <1>5 DEF SwitchIsSafe
<1>6. ASSUME \A d \in Clients : d # c => install[d].at \in {"idle", "held"}, script.at = "idle",
             current' \in leftCurrent',
             \A v \in leftCurrent' : Solid(v)',
             UNCHANGED <<leftDir>>,
             Live(c)' => Solid(install[c].previous)',
             install'[c].at \notin {"committed", "synced", "read"},
             install'[c].at = "removing" => install'[c].version \notin leftCurrent' \ Marked
      PROVE  LinksAreSolid' /\ SwitchIsSafe'
  <2>1. ASSUME NEW d \in Clients, Live(d)', d # c PROVE Solid(install[d].previous)'
    <3> DEFINE p == install'[d].previous
    <3>1. Live(d) /\ p = install[d].previous
      BY <1>2, <2>1 DEF Live
    <3>2. Solid(p)
      BY <1>1, <3>1 DEF LinksAreSolid
    <3> QED
      BY <1>2, <1>6, <3>2 DEF Solid
  <2>2. \A d \in Clients : Live(d)' => Solid(install[d].previous)'
    BY <1>6, <2>1
  <2> QED
    BY <1>2, <1>5, <1>6, <2>2 DEF LinksAreSolid
<1>7. CASE Quiet(c)
  <2>1. UNCHANGED <<dir, leftDir, leftCurrent, unsynced, owner>>
    BY <1>7 DEF Quiet, rootVars
  <2>2. Live(c)' => Live(c) /\ install'[c].previous = install[c].previous
    BY <1>7 DEF Quiet, Live, SameRow
  <2>3. install'[c].at \in {"committed", "synced", "read", "removing"} =>
            install'[c].version \notin leftCurrent \ Marked
    BY <1>1, <1>7 DEF Quiet, LinksAreSolid, SameRow
  <2>4. LinksAreSolid'
    BY <1>2, <1>4, <2>1, <2>2, <2>3 DEF Solid
  <2>5. SwitchIsSafe'
    BY <1>1, <1>2, <1>7, <2>1 DEF Quiet, SwitchIsSafe
  <2> QED
    BY <2>4, <2>5
<1>8. ASSUME script.at = "idle", \A d \in Clients : d # c => ~Running(d)
      PROVE  \A d \in Clients : d # c => install[d].at \in {"idle", "held"}
  BY <1>8 DEF Running
<1>9. CASE Commits(c) /\ script.at = "idle" /\ \A d \in Clients : d # c => ~Running(d)
  <2> DEFINE v == install[c].version
  <2>1. /\ v \in Versions /\ dir[v] = "absent" /\ install'[c].version = v /\ ~Live(c)'
        /\ leftCurrent' = leftCurrent /\ unsynced' = unsynced \ {v}
        /\ dir' = [dir EXCEPT ![v] = "whole"]
        /\ leftDir' = [leftDir EXCEPT ![v] = @ \cup {"whole"} \cup {}]
        /\ install'[c].at = "committed"
    BY <1>9 DEF Commits, PutVersion, SameRow, Live
  <2>2. v \notin leftCurrent \ Marked
    <3>1. v \in leftCurrent => Solid(v)
      BY <1>1 DEF LinksAreSolid
    <3>2. leftDir[v] # {"whole"} /\ v # NoVersion
      BY <1>1, <2>1, Values DEF DiskKnows
    <3> QED
      BY <3>1, <3>2 DEF Solid
  <2>3. \A w \in Targets : Solid(w) => Solid(w)'
    <3>1. \A w \in Versions : leftDir'[w] = leftDir[w] \/ leftDir'[w] = leftDir[w] \cup {"whole"}
      BY <1>1, <2>1 DEF RootTypeOK
    <3> QED
      BY <1>2, <3>1, SolidStays
  <2>4. LinksAreSolid'
    <3>1. \A w \in leftCurrent' : Solid(w)'
      BY <1>1, <1>3, <2>1, <2>3 DEF LinksAreSolid
    <3>2. ASSUME NEW d \in Clients, Live(d)' PROVE Solid(install[d].previous)'
      <4>1. Live(d) /\ install'[d].previous = install[d].previous
        BY <1>2, <2>1, <3>2 DEF Live
      <4>2. Solid(install[d].previous) /\ install[d].previous \in Targets
        BY <1>1, <1>3, <4>1 DEF LinksAreSolid
      <4> QED
        BY <2>3, <4>1, <4>2 DEF Solid
    <3>3. \A d \in Clients : install'[d].at \in {"committed", "synced", "read", "removing"} =>
              install'[d].version \notin leftCurrent' \ Marked'
      BY <1>1, <1>2, <2>1, <2>2 DEF LinksAreSolid
    <3> QED
      BY <1>2, <1>9, <3>1, <3>2, <3>3 DEF LinksAreSolid
  <2>5. SwitchIsSafe'
    <3>1. dir'[v] = "whole" /\ v \notin unsynced'
      BY <1>1, <2>1 DEF RootTypeOK
    <3> QED
      BY <1>5, <1>8, <1>9, <2>1, <3>1
  <2> QED
    BY <2>4, <2>5
<1>10. CASE Reads(c) /\ script.at = "idle" /\ \A d \in Clients : d # c => ~Running(d)
  <2>1. UNCHANGED <<dir, leftDir, leftCurrent, unsynced, owner>> /\ ~Live(c)'
        /\ install'[c].version = install[c].version /\ install[c].at = "synced"
        /\ install'[c].at = "read"
    BY <1>10 DEF Reads, rootVars, Live
  <2>2. LinksAreSolid'
    BY <1>1, <1>2, <1>4, <2>1 DEF Solid, LinksAreSolid
  <2> QED
    BY <1>1, <1>5, <1>8, <1>10, <2>1, <2>2 DEF SwitchIsSafe
<1>11. CASE Switches(c) /\ script.at = "idle" /\ \A d \in Clients : d # c => ~Running(d)
  <2>1. /\ leftCurrent' = leftCurrent \cup {install[c].version} /\ UNCHANGED <<dir, leftDir>>
        /\ current' = install[c].version /\ install'[c].at = "switched"
        /\ install'[c].previous = current
    BY <1>1, <1>11 DEF Switches, PointCurrent, FoundAsLeft, SameRow
  <2>2. leftDir[install[c].version] = {"whole"}
    BY <1>1, <1>11 DEF Switches, SwitchIsSafe
  <2>3. \A v \in leftCurrent' : Solid(v)'
    BY <1>1, <1>2, <2>1, <2>2 DEF Solid, LinksAreSolid
  <2>4. Solid(install[c].previous)'
    BY <1>1, <2>1, <2>3 DEF DiskKnows
  <2> QED
    BY <1>6, <1>8, <1>11, <2>1, <2>3, <2>4
<1>12. CASE Restores(c) /\ script.at = "idle" /\ \A d \in Clients : d # c => ~Running(d)
  <2>1. /\ leftCurrent' = leftCurrent \cup {install[c].previous} /\ UNCHANGED <<dir, leftDir>>
        /\ current' = install[c].previous /\ install'[c].at = "restored" /\ ~Live(c)'
        /\ Live(c)
    BY <1>12 DEF Restores, PointCurrent, Live
  <2>2. \A v \in leftCurrent' : Solid(v)'
    BY <1>1, <1>2, <2>1 DEF Solid, LinksAreSolid
  <2> QED
    BY <1>6, <1>8, <1>12, <2>1, <2>2
<1>13. ASSUME SyncVersions, owner' = owner, script.at = "idle",
              \A d \in Clients : d # c => ~Running(d),
              \/ install'[c].at = "idle"
              \/ install[c].at = "committed" /\ install'[c].at = "synced" /\ SameRow(c)
       PROVE  LinksAreSolid' /\ SwitchIsSafe'
  <2>1. UNCHANGED <<dir, current, leftCurrent, unsynced, owner>>
    BY <1>13 DEF SyncVersions
  <2>2. /\ \A v \in Targets : Solid(v) => Solid(v)'
        /\ \A v \in Versions : dir[v] = "whole" /\ v \notin unsynced => leftDir'[v] = {"whole"}
    BY <1>1, <1>2, <1>13, SyncingIsSolid
  <2>3. CASE install'[c].at = "idle"
    <3>1. LinksAreSolid'
      BY <1>4, <2>1, <2>2, <2>3 DEF Live
    <3> QED
      BY <1>5, <1>8, <1>13, <2>3, <3>1
  <2>4. CASE install[c].at = "committed" /\ install'[c].at = "synced" /\ SameRow(c)
    <3>1. /\ dir[install[c].version] = "whole" /\ install[c].version \notin unsynced
          /\ install[c].version \notin leftCurrent \ Marked
          /\ install[c].version \in Versions
      BY <1>1, <2>4 DEF SwitchIsSafe, LinksAreSolid, CallInv, ReceiptShape
    <3>2. LinksAreSolid'
      BY <1>4, <2>1, <2>2, <2>4, <3>1 DEF Live, SameRow
    <3> QED
      BY <1>5, <1>8, <1>13, <2>1, <2>2, <2>4, <3>1, <3>2 DEF SameRow
  <2> QED
    BY <1>13, <2>3, <2>4
<1>14. ASSUME SyncRoot, SameRow(c), owner' = owner, script.at = "idle",
              \A d \in Clients : d # c => ~Running(d),
              \/ install[c].at = "switched" /\ install'[c].at = "hooks"
              \/ install[c].at = "restored" /\ install'[c].at = "removing"
       PROVE  LinksAreSolid' /\ SwitchIsSafe'
  <2>1. leftCurrent' = {current} /\ UNCHANGED <<dir, current, leftDir>>
    BY <1>14 DEF SyncRoot
  <2>2. \A v \in leftCurrent' : Solid(v)'
    BY <1>1, <1>2, <2>1 DEF DiskKnows, LinksAreSolid, Solid
  <2>3. Live(c)' => Solid(install[c].previous)'
    <3>1. Live(c)' => Live(c) /\ install'[c].previous = install[c].previous
      BY <1>14 DEF Live, SameRow
    <3> QED
      BY <1>1, <1>2, <2>1, <3>1 DEF LinksAreSolid, Solid
  <2>4. install'[c].at = "removing" => install'[c].version \notin leftCurrent' \ Marked
    <3>1. install'[c].at = "removing" => Leaving(c) /\ install'[c].version = install[c].version
      BY <1>14 DEF Leaving, SameRow
    <3> QED
      BY <1>1, <2>1, <3>1 DEF NobodyPointsAtParts, Unused, Marked
  <2> QED
    BY <1>6, <1>8, <1>14, <2>1, <2>2, <2>3, <2>4, <1>1 DEF DiskKnows
<1>15. CASE Removes(c) /\ script.at = "idle" /\ \A d \in Clients : d # c => ~Running(d)
  <2> DEFINE v == install[c].version
  <2>1. /\ v \in Versions /\ Leaving(c) /\ UNCHANGED <<current, leftCurrent, owner>>
        /\ \A w \in Versions : w # v => leftDir'[w] = leftDir[w]
        /\ ~Live(c)' /\ install'[c].at \notin {"committed", "synced", "read", "removing"}
    BY <1>1, <1>15 DEF Removes, RemoveVersion, Leaving, Live, RootTypeOK, SameRow
  <2>2. v \notin leftCurrent \ Marked
    BY <1>1, <1>15 DEF LinksAreSolid, Removes
  <2>3. \A w \in Targets : Solid(w) /\ (w # v \/ w \in Marked) => Solid(w)'
    BY <1>2, <2>1 DEF Solid, Targets
  <2>4. \A w \in leftCurrent' : Solid(w)'
    BY <1>1, <1>3, <2>1, <2>2, <2>3 DEF LinksAreSolid
  <2>5. ASSUME NEW d \in Clients, Live(d)' PROVE Solid(install[d].previous)'
    <3>1. Live(d) /\ install'[d].previous = install[d].previous
      BY <1>2, <2>1, <2>5 DEF Live
    <3>2. install[d].previous # v \/ install[d].previous \in Marked
      BY <1>1, <2>1, <3>1 DEF NobodyPointsAtParts, Unused, Marked
    <3>3. Solid(install[d].previous) /\ install[d].previous \in Targets
      BY <1>1, <1>3, <3>1 DEF LinksAreSolid
    <3> QED
      BY <2>3, <3>1, <3>2, <3>3 DEF Solid
  <2>6. \A d \in Clients : install'[d].at \in {"committed", "synced", "read", "removing"} =>
            install'[d].version \notin leftCurrent' \ Marked'
    BY <1>1, <1>2, <2>1 DEF LinksAreSolid
  <2>7. LinksAreSolid'
    BY <1>2, <1>15, <2>4, <2>5, <2>6 DEF LinksAreSolid
  <2> QED
    BY <1>5, <1>8, <1>15, <2>1, <2>7
<1>16. CASE Syncs(c) /\ script.at = "idle" /\ \A d \in Clients : d # c => ~Running(d)
  BY <1>13, <1>14, <1>16 DEF Syncs
<1> QED
  BY <1>1, <1>7, <1>9, <1>10, <1>11, <1>12, <1>15, <1>16, ClientMoves

-----------------------------------------------------------------------------
(* What the steps of the script do to the directory                        *)

GoesOn ==
    \/ script'.at = "idle"
    \/ /\ SamePaths /\ script'.at # "moved"
       /\ "committed" \in script'.flags => "committed" \in script.flags \/ script.at = "moved"

PutsVersion ==
    LET w == script.version IN
    /\ SamePaths /\ script'.at = "moved"
    /\ w \in Versions /\ dir[w] = "absent"
    /\ PutVersion(w, FALSE)
    /\ w \in touched'

PointsTo(t) ==
    /\ SamePaths /\ GoesOn /\ t \in Targets
    /\ \/ t = script.old
       \/ t = script.version /\ script.at = "committed"
    /\ PointCurrent(t)

TakesVersion ==
    LET w == script.version IN
    /\ GoesOn
    /\ w \in Versions /\ "committed" \in script.flags /\ w \in touched
    /\ w \in spoilt' \/ current = script.old
    /\ \E left \in {"absent", "part"} : RemoveVersion(w, left)

LEMMA ScriptMoves ==
    ASSUME RootTypeOK, ScriptShape, ScriptStep
    PROVE  /\ spoilt \subseteq spoilt' /\ touched \subseteq touched' /\ script.at # "idle"
           /\ \/ UNCHANGED rootVars /\ GoesOn
              \/ PutsVersion
              \/ \E t \in Targets : PointsTo(t)
              \/ TakesVersion
<1>0. /\ ScriptTypeOK /\ FlagsFollow /\ LinkUndoable /\ VersionUndoable
      /\ script.at # "idle" /\ script.version \in Versions
      /\ script.version \in Targets /\ script.old \in Targets
  BY ScriptStepKeeps, Values DEF ScriptShape, ScriptUndoable, FlagsFollow, ScriptTypeOK, Script
<1>1. touched \subseteq touched' /\ spoilt \subseteq spoilt'
  BY DEF ScriptStep, MoveStaging, FlagCommitted, ReplaceCurrent, FlagCurrent, SaveLauncher,
     FlagSaved, LinkLauncher, FlagLinked, HooksPass, Succeed, CommandFails, Signal, Cleanup,
     UnlinkLauncher, RestoreLauncher, RestoreCurrent, RemoveTarget, RemoveIf, TakeTarget,
     ScriptEnds, ScriptDies, Same
<1>2. ASSUME NEW at \in ScriptForward \cup ScriptBackward, Reach(at), at # "moved"
      PROVE  SamePaths /\ GoesOn
  BY <1>0, <1>2, ReachFields DEF GoesOn
<1>3. ASSUME NEW at \in ScriptForward, NEW f \in Flags, Flag(f, at), at # "moved",
             f = "committed" => script.at = "moved"
      PROVE  GoesOn
  BY <1>0, <1>3, FlagFields DEF GoesOn
<1>4. ASSUME NEW at \in {"unlinked", "restore", "remove"},
             script' = [script EXCEPT !.at = at, !.undone = FALSE]
      PROVE  SamePaths /\ GoesOn
  BY <1>0, <1>4, GivesUpFields DEF GoesOn
<1>5. script' = NoScript => GoesOn
  BY DEF NoScript, GoesOn
<1>6. CASE MoveStaging
  <2>1. SamePaths /\ script'.at = "moved"
    BY <1>0, <1>6, ReachFields, Labels DEF MoveStaging
  <2> QED
    BY <1>0, <1>1, <1>6, <2>1 DEF MoveStaging, PutsVersion
<1>7. CASE FlagCommitted \/ FlagCurrent \/ FlagSaved \/ FlagLinked
  BY <1>1, <1>0, <1>3, <1>7, Labels DEF FlagCommitted, FlagCurrent, FlagSaved, FlagLinked, Same
<1>8. CASE SaveLauncher \/ LinkLauncher \/ HooksPass \/ CommandFails
  BY <1>1, <1>0, <1>2, <1>8, Labels
     DEF SaveLauncher, LinkLauncher, HooksPass, CommandFails, Same
<1>9. CASE Signal
  <2>1. script' = [script EXCEPT !.at = "cleanup", !.window = script.at]
    BY <1>9 DEF Signal
  <2>2. script'.at = "cleanup" /\ script'.flags = script.flags /\ SamePaths
    BY <1>0, <2>1 DEF ScriptTypeOK, Script, SamePaths
  <2>3. UNCHANGED rootVars
    BY <1>9 DEF Signal, Same
  <2> QED
    BY <1>0, <1>1, <2>2, <2>3 DEF GoesOn
<1>10. CASE Succeed \/ ScriptEnds
  BY <1>1, <1>0, <1>5, <1>10 DEF Succeed, ScriptEnds, Same
<1>11. CASE Cleanup \/ RestoreLauncher
  <2>1. GoesOn
    BY <1>2, <1>4, <1>11, Labels DEF Cleanup, UnlinkLauncher, AfterUnlink, RestoreLauncher
  <2> QED
    BY <1>1, <1>0, <1>11, <2>1 DEF Cleanup, UnlinkLauncher, RestoreLauncher, Same
<1>12. CASE ReplaceCurrent
  BY <1>1, <1>0, <1>2, <1>12, Labels DEF ReplaceCurrent, PointsTo
<1>13. CASE RestoreCurrent
  <2>1. CASE UNCHANGED rootVars
    BY <1>1, <1>0, <1>2, <1>4, <1>13, <2>1, Labels DEF RestoreCurrent
  <2>2. CASE PointCurrent(script.old) /\ Reach("remove")
    BY <1>1, <1>0, <1>2, <2>2, Labels DEF PointsTo
  <2> QED
    BY <1>13, <2>1, <2>2 DEF RestoreCurrent
<1>14. ASSUME MayRemove, script.at = "remove", NEW left \in {"absent", "part"}, TakeTarget(left), GoesOn
       PROVE  TakesVersion
  <2>1. script.version \in touched
    BY <1>0, <1>14 DEF VersionUndoable, MayRemove
  <2>2. script.version \in spoilt' \/ current = script.old
    BY <1>0, <1>14 DEF TakeTarget, MayRemove, LinkUndoable, LinkIsBack
  <2> QED
    BY <1>0, <1>14, <2>1, <2>2 DEF TakesVersion, TakeTarget, MayRemove
<1>15. CASE RemoveTarget
  BY <1>0, <1>1, <1>2, <1>14, <1>15, Labels DEF RemoveTarget, RemoveIf
<1>16. CASE ScriptDies
  BY <1>0, <1>1, <1>5, <1>14, <1>16 DEF ScriptDies
<1> QED
  BY <1>6, <1>7, <1>8, <1>9, <1>10, <1>11, <1>12, <1>13, <1>15, <1>16 DEF ScriptStep

LEMMA ScriptKeepsSafe ==
    ASSUME IInv, ScriptRuns
    PROVE  /\ \A d \in Clients : Has(d)'
           /\ NobodyPointsAtParts' /\ LinksAreSolid' /\ SwitchIsSafe'
<1>1. /\ CallInv /\ RootTypeOK /\ ScriptShape /\ DiskKnows
      /\ owner \in [Versions -> Clients \cup {Nobody}]
      /\ \A d \in Clients : Has(d)
  BY HasIsOwned DEF IInv, CallInv, AloneIsSafe, TypeOK, InstallTypeOK, ScriptShape
<1>2. /\ spoilt \subseteq spoilt' /\ touched \subseteq touched' /\ script.at # "idle"
      /\ \/ UNCHANGED rootVars /\ GoesOn
         \/ PutsVersion
         \/ \E t \in Targets : PointsTo(t)
         \/ TakesVersion
      /\ Marked \subseteq Marked'
  BY <1>1, ScriptMoves DEF ScriptRuns, Marked
<1>3. /\ alone /\ alone' = alone /\ install' = install
      /\ \A d \in Clients : install[d].at \in {"idle", "held"}
      /\ owner' = IF script'.at = "moved" THEN [owner EXCEPT ![script.version] = Nobody] ELSE owner
  BY <1>1, <1>2 DEF ScriptRuns, CallInv, OneWay, AloneIsAlone, Calling, Running, modeVars
<1>4. NobodyPointsAtParts /\ LinksAreSolid /\ SwitchIsSafe
  BY <1>3 DEF IInv, AloneIsSafe
<1>5. /\ \A d \in Clients : Live(d)' <=> Live(d)
      /\ \A d \in Clients : Owns(d)' <=> Owns(d)
      /\ \A d \in Clients : Owns(d) => install[d].at = "held" /\ ~install[d].restored
      /\ \A d \in Clients : Leaving(d) <=>
             install[d].at = "held" /\ install[d].restored /\ owner[install[d].version] = d
      /\ \A d \in Clients : install[d].at # "idle" => install[d].version \in Versions
      /\ \A d \in Clients : install[d].previous \in Targets
      /\ script.version \in Versions /\ script.old \in Targets
  <2>1. \A d \in Clients : Live(d)' <=> Live(d)
    BY <1>3 DEF Live
  <2>2. \A d \in Clients : /\ Owns(d)' <=> Owns(d)
                           /\ Owns(d) => install[d].at = "held" /\ ~install[d].restored
    BY <1>3, OwnsAt DEF OwnsLabels
  <2>3. \A d \in Clients : Leaving(d) <=>
             install[d].at = "held" /\ install[d].restored /\ owner[install[d].version] = d
    BY <1>3 DEF Leaving
  <2>4. \A d \in Clients : /\ install[d].at # "idle" => install[d].version \in Versions
                           /\ install[d].previous \in Targets
    BY <1>1 DEF CallInv, ReceiptShape, TypeOK, InstallTypeOK, Install
  <2>5. script.version \in Versions /\ script.old \in Targets
    BY <1>1, <1>2 DEF ScriptShape, ScriptTypeOK, Script, ScriptUndoable, FlagsFollow
  <2> QED
    BY <2>1, <2>2, <2>3, <2>4, <2>5
<1>6. \A d \in Clients : Leaving(d)' => Leaving(d)
  BY <1>1, <1>3, <1>5, NobodyAssumption DEF Leaving
\* What is moved to another place, or gone, is not what a receipt may still remove.
<1>7. \A d \in Clients : Owns(d) => owner[install[d].version] = d /\ dir[install[d].version] # "absent"
  BY <1>1, <1>5 DEF Has
\* The steps of the script, but the one that moves the version, keep the owners.
<1>8. ASSUME GoesOn
      PROVE  owner' = owner /\ SwitchIsSafe'
  <2>1. script'.at # "moved"
    BY <1>8 DEF GoesOn
  <2>2. script'.at # "idle" /\ "committed" \in script'.flags => owner'[script'.version] = Nobody
    BY <1>3, <1>4, <1>8, <2>1, <1>2 DEF GoesOn, SwitchIsSafe, SamePaths
  <2> QED
    BY <1>3, <2>1, <2>2 DEF SwitchIsSafe
\* Where nothing is taken away, what is still marked, or as it was, is solid.
<1>9. ASSUME \A v \in leftCurrent' : v \in leftCurrent \/ v = script.old \/ v \in Marked',
             \A v \in Versions : leftDir'[v] = leftDir[v] \/ v \in Marked',
             script'.at = "idle" \/ SamePaths
      PROVE  LinksAreSolid'
  <2>1. \A v \in Targets : Solid(v) => Solid(v)'
    BY <1>2, <1>9 DEF Solid, Targets
  <2>2. \A v \in leftCurrent : v \in Targets
    BY <1>1 DEF RootTypeOK
  <2>3. \A v \in leftCurrent' : Solid(v)'
    <3>1. \A v \in leftCurrent : Solid(v)'
      BY <1>4, <2>1, <2>2 DEF LinksAreSolid
    <3>2. Solid(script.old) /\ script.old \in Targets
      BY <1>2, <1>4, <1>5 DEF LinksAreSolid
    <3>3. \A v : v = script.old => Solid(v)'
      BY <2>1, <3>2
    <3>4. \A v \in Marked' : Solid(v)'
      BY DEF Solid
    <3> QED
      BY <1>9, <3>1, <3>3, <3>4
  <2>4. ASSUME NEW d \in Clients, Live(d)' PROVE Solid(install[d].previous)'
    <3>1. Solid(install[d].previous) /\ install[d].previous \in Targets
      BY <1>4, <1>5, <2>4 DEF LinksAreSolid
    <3> QED
      BY <1>3, <2>1, <3>1 DEF Solid
  <2>5. script'.at # "idle" => Solid(script.old)'
    <3>1. Solid(script.old) /\ script.old \in Targets
      BY <1>2, <1>4, <1>5 DEF LinksAreSolid
    <3>2. script'.at # "idle" => script'.old = script.old
      BY <1>9 DEF SamePaths
    <3> QED
      BY <2>1, <3>1, <3>2 DEF Solid
  <2>6. \A d \in Clients : install'[d].at \in {"idle", "held"}
    BY <1>3
  <2> QED
    BY <2>3, <2>4, <2>5, <2>6 DEF LinksAreSolid
\* A link to what nobody leaves and no receipt points back to, or to what the script found.
<1>10. ASSUME script'.at = "idle" \/ SamePaths,
              \A v \in Versions : dir'[v] # "whole" => v \in spoilt' \/ Unused(v),
              \/ current' = current
              \/ current' = script.old
              \/ /\ current' = script.version /\ dir'[script.version] = "whole"
                 /\ owner'[script.version] = Nobody
       PROVE  NobodyPointsAtParts'
  <2>1. ASSUME NEW v, Unused(v), current' # v \/ v \in spoilt' PROVE Unused(v)'
    BY <1>2, <1>3, <1>5, <1>10, <2>1 DEF Unused, SamePaths
  <2>2. ASSUME NEW v, Unused(v), current' = current \/ current' = script.old PROVE Unused(v)'
    BY <1>2, <2>1, <2>2 DEF Unused
  <2>3. \A v \in Versions : dir'[v] # "whole" => Unused(v)'
    <3>1. ASSUME NEW v \in Versions, dir'[v] # "whole" PROVE Unused(v)'
      <4>1. CASE v \in spoilt'
        BY <4>1 DEF Unused
      <4>2. CASE Unused(v)
        BY <1>10, <2>1, <2>2, <3>1, <4>2
      <4> QED
        BY <1>10, <3>1, <4>1, <4>2
    <3> QED
      BY <3>1
  <2>4. ASSUME NEW d \in Clients, Leaving(d)' PROVE Unused(install[d].version)'
    <3>1. Leaving(d) /\ Unused(install[d].version) /\ install'[d].version = install[d].version
      BY <1>3, <1>4, <1>6, <2>4 DEF NobodyPointsAtParts
    <3>2. owner'[install[d].version] = d
      BY <1>3, <1>5, <2>4, <3>1 DEF Leaving
    <3>3. current' # install[d].version \/ current' = current \/ current' = script.old
      BY <1>10, <3>2, NobodyAssumption
    <3>4. \A v : v = install[d].version => Unused(v)'
      BY <2>1, <2>2, <3>1, <3>3
    <3> QED
      BY <3>1, <3>4 DEF Unused
  <2>5. ASSUME NEW d \in Clients, Live(d)', install'[d].previous \notin spoilt'
        PROVE  /\ install'[d].previous # current'
               /\ script'.at # "idle" => install'[d].previous # script'.old
               /\ \A e \in Clients : Live(e)' /\ install'[e].previous = install'[d].previous => e = d
    <3>1. /\ Live(d) /\ install[d].previous \notin spoilt
          /\ install[d].previous # current /\ install[d].previous # script.old
          /\ \A e \in Clients : Live(e) /\ install[e].previous = install[d].previous => e = d
      BY <1>2, <1>3, <1>4, <1>5, <2>5 DEF NobodyPointsAtParts
    <3>2. install[d].previous # script.version
      BY <1>2, <1>4, <3>1 DEF NobodyPointsAtParts
    <3> QED
      BY <1>3, <1>5, <1>10, <3>1, <3>2 DEF SamePaths
  <2>6. script'.at # "idle" =>
            \/ script'.version \in spoilt'
            \/ /\ script'.version # script'.old
               /\ \A c \in Clients : Live(c)' => install'[c].previous # script'.version
    BY <1>2, <1>3, <1>4, <1>5, <1>10 DEF NobodyPointsAtParts, SamePaths
  <2> QED
    BY <2>3, <2>4, <2>5, <2>6 DEF NobodyPointsAtParts
<1>11. ASSUME owner' = owner, dir' = dir PROVE \A d \in Clients : Has(d)'
  BY <1>1, <1>3, <1>5, <1>11 DEF Has
<1>12. CASE UNCHANGED rootVars /\ GoesOn
  <2>1. UNCHANGED <<dir, current, leftDir, leftCurrent>> /\ (script'.at = "idle" \/ SamePaths)
    BY <1>12 DEF rootVars, GoesOn
  <2> QED
    BY <1>4, <1>8, <1>9, <1>10, <1>11, <1>12, <2>1 DEF NobodyPointsAtParts
<1>13. CASE PutsVersion
  <2> DEFINE w == script.version
  <2>1. /\ SamePaths /\ script'.at = "moved" /\ w \in Versions /\ dir[w] = "absent"
        /\ dir' = [dir EXCEPT ![w] = "whole"] /\ w \in Marked'
        /\ UNCHANGED <<current, leftCurrent>>
        /\ owner' = [owner EXCEPT ![w] = Nobody]
        /\ \A v \in Versions : v # w => leftDir'[v] = leftDir[v]
    BY <1>1, <1>3, <1>13 DEF PutsVersion, PutVersion, Marked, RootTypeOK
  <2>2. \A d \in Clients : Has(d)'
    <3>1. \A d \in Clients : Owns(d) => install[d].version # w
      BY <1>7, <2>1
    <3>2. \A d \in Clients : Owns(d) =>
              /\ owner'[install[d].version] = d
              /\ dir'[install[d].version] # "absent"
      BY <1>1, <1>5, <1>7, <2>1, <3>1 DEF RootTypeOK
    <3> QED
      BY <1>3, <1>5, <3>2 DEF Has
  <2>3. NobodyPointsAtParts'
    <3>1. \A v \in Versions : dir'[v] # "whole" => Unused(v)
      BY <1>1, <1>4, <2>1 DEF NobodyPointsAtParts, RootTypeOK
    <3> QED
      BY <1>10, <2>1, <3>1
  <2>4. LinksAreSolid'
    BY <1>9, <2>1
  <2>5. SwitchIsSafe'
    <3>1. owner'[script'.version] = Nobody
      BY <1>1, <2>1 DEF SamePaths
    <3> QED
      BY <1>3, <3>1 DEF SwitchIsSafe
  <2> QED
    BY <2>2, <2>3, <2>4, <2>5
<1>14. ASSUME NEW t \in Targets, PointsTo(t)
       PROVE  /\ \A d \in Clients : Has(d)'
              /\ NobodyPointsAtParts' /\ LinksAreSolid' /\ SwitchIsSafe'
  <2>1. /\ GoesOn /\ SamePaths /\ dir' = dir /\ leftDir' = leftDir /\ current' = t
        /\ leftCurrent' = leftCurrent \cup {t}
        /\ t = script.old \/ (t = script.version /\ script.at = "committed")
    BY <1>14 DEF PointsTo, PointCurrent
  <2>2. script.at = "committed" =>
            /\ dir[script.version] = "whole" /\ script.version \in touched
            /\ "committed" \in script.flags
    BY <1>1, Labels DEF ScriptShape, ScriptUndoable, VersionUndoable, FlagsFollow
  <2>3. script.at = "committed" => owner[script.version] = Nobody
    BY <1>4, <2>2 DEF SwitchIsSafe
  <2>4. owner' = owner /\ SwitchIsSafe'
    BY <1>8, <2>1
  <2>5. NobodyPointsAtParts'
    BY <1>4, <1>10, <2>1, <2>2, <2>3, <2>4 DEF NobodyPointsAtParts
  <2>6. LinksAreSolid'
    BY <1>2, <1>9, <2>1, <2>2 DEF Marked
  <2> QED
    BY <1>11, <2>1, <2>4, <2>5, <2>6
<1>15. CASE TakesVersion
  <2> DEFINE w == script.version
  <2>1. /\ GoesOn /\ w \in Versions /\ "committed" \in script.flags /\ w \in touched
        /\ w \in spoilt' \/ current = script.old
        /\ UNCHANGED <<current, leftCurrent>>
        /\ \A v \in Versions : v # w => leftDir'[v] = leftDir[v] /\ dir'[v] = dir[v]
    BY <1>1, <1>15 DEF TakesVersion, RemoveVersion, RootTypeOK
  <2>2. owner' = owner /\ SwitchIsSafe' /\ (script'.at = "idle" \/ SamePaths)
    BY <1>8, <2>1 DEF GoesOn
  <2>3. owner[w] = Nobody
    BY <1>2, <1>4, <2>1 DEF SwitchIsSafe
  <2>4. \A d \in Clients : Has(d)'
    <3>1. \A d \in Clients : Owns(d) => install[d].version # w
      BY <1>7, <2>3, NobodyAssumption
    <3>2. \A d \in Clients : Owns(d) =>
              owner'[install[d].version] = d /\ dir'[install[d].version] # "absent"
      BY <1>5, <1>7, <2>1, <2>2, <3>1
    <3> QED
      BY <1>3, <1>5, <3>2 DEF Has
  <2>5. w \in spoilt' \/ Unused(w)
    BY <1>2, <1>4, <2>1 DEF NobodyPointsAtParts, Unused
  <2>6. NobodyPointsAtParts'
    BY <1>4, <1>10, <2>1, <2>2, <2>5 DEF NobodyPointsAtParts
  <2>7. LinksAreSolid'
    BY <1>2, <1>9, <2>1, <2>2 DEF Marked
  <2> QED
    BY <2>2, <2>4, <2>6, <2>7
<1> QED
  BY <1>2, <1>12, <1>13, <1>14, <1>15

\* A script begins where nobody has put its version, and what it finds it may put back.
LEMMA BeginningIsSafe ==
    ASSUME IInv, RunScript
    PROVE  /\ \A d \in Clients : Has(d)'
           /\ NobodyPointsAtParts' /\ LinksAreSolid' /\ SwitchIsSafe'
<1>1. PICK w \in Versions : BeginScript(w)
  BY DEF RunScript
<1>2. /\ CallInv /\ RootTypeOK /\ DiskKnows /\ alone
      /\ \A d \in Clients : Has(d)
  BY HasIsOwned DEF IInv, CallInv, AloneIsSafe, TypeOK, RunScript
<1>3. NobodyPointsAtParts /\ LinksAreSolid /\ SwitchIsSafe
  BY <1>2 DEF IInv, AloneIsSafe
<1>4. /\ UNCHANGED <<install, owner, dir, current, leftDir, leftCurrent, unsynced, touched, spoilt>>
      /\ script.at = "idle" /\ dir[w] = "absent" /\ alone' = alone
      /\ script'.at = "staging" /\ script'.version = w /\ script'.old = current
      /\ script'.flags = {}
      /\ Marked' = Marked
  BY <1>1 DEF RunScript, BeginScript, Same, rootVars, installVars, modeVars, NoScript, Marked
<1>5. \A d \in Clients : (Live(d)' <=> Live(d)) /\ (Leaving(d)' <=> Leaving(d)) /\ (Owns(d)' <=> Owns(d))
  BY <1>4, OwnsAt DEF Live, Leaving
<1>6. \A v : Unused(v) => Unused(v)'
  BY <1>4, <1>5 DEF Unused
<1>7. \A v \in Versions : dir'[v] # "whole" => Unused(v)'
  BY <1>3, <1>4, <1>6 DEF NobodyPointsAtParts
<1>8. ASSUME NEW d \in Clients, Leaving(d)' PROVE Unused(install[d].version)'
  <2>1. Unused(install[d].version)
    BY <1>3, <1>5, <1>8 DEF NobodyPointsAtParts
  <2> QED
    BY <1>4, <1>5, <2>1 DEF Unused
<1>9. \A d \in Clients : Live(d)' /\ install'[d].previous \notin spoilt' =>
        /\ install'[d].previous # current' /\ install'[d].previous # script'.old
        /\ \A e \in Clients : Live(e)' /\ install'[e].previous = install'[d].previous => e = d
  BY <1>3, <1>4, <1>5 DEF NobodyPointsAtParts
<1>10. \/ script'.version \in spoilt'
       \/ /\ script'.version # script'.old
          /\ \A c \in Clients : Live(c)' => install'[c].previous # script'.version
  <2>1. Unused(w)
    BY <1>3, <1>4 DEF NobodyPointsAtParts
  <2> QED
    BY <1>4, <1>5, <2>1 DEF Unused
<1>11. NobodyPointsAtParts'
  BY <1>7, <1>8, <1>9, <1>10 DEF NobodyPointsAtParts
<1>12. LinksAreSolid'
  <2>1. \A v : Solid(v)' <=> Solid(v)
    BY <1>4 DEF Solid
  <2>2. Solid(current)
    BY <1>2, <1>3 DEF DiskKnows, LinksAreSolid
  <2>3. Solid(script.old)'
    BY <1>4, <2>2 DEF Solid
  <2>4. \A d \in Clients : Live(d)' => Solid(install[d].previous)'
    BY <1>3, <1>4, <1>5 DEF LinksAreSolid, Solid
  <2> QED
    BY <1>3, <1>4, <2>1, <2>3, <2>4 DEF LinksAreSolid
<1>13. SwitchIsSafe'
  BY <1>3, <1>4 DEF SwitchIsSafe
<1>14. \A d \in Clients : Has(d)'
  BY <1>2, <1>4, <1>5 DEF Has
<1> QED
  BY <1>11, <1>12, <1>13, <1>14

\* After a power loss there are no calls, and the link was solid wherever it points.
LEMMA PowerLossIsSafe ==
    ASSUME IInv, PowerLoss
    PROVE  /\ \A d \in Clients : Has(d)'
           /\ NobodyPointsAtParts' /\ LinksAreSolid' /\ SwitchIsSafe'
<1>1. CallInv /\ RootTypeOK /\ DiskKnows /\ LinksAreSolid
  BY DEF IInv, CallInv, AloneIsSafe, TypeOK, PowerLoss
<1>2. /\ \A v \in Versions : dir'[v] \in leftDir[v] /\ leftDir'[v] = {dir'[v]}
      /\ current' \in leftCurrent /\ leftCurrent' = {current'} /\ current' \in Targets
      /\ spoilt' = spoilt \cup {v \in touched : dir'[v] # "whole"} /\ touched' = {}
      /\ touched \subseteq Versions
  BY <1>1 DEF PowerLoss, PowerFails, RootTypeOK, CallInv, TypeOK, ScriptTypeOK
<1>3. script'.at = "idle" /\ \A c \in Clients : install'[c].at = "idle"
  BY DEF PowerLoss, NoScript, NoInstall
<1>4. \A c \in Clients : ~Live(c)' /\ ~Leaving(c)' /\ ~Owns(c)'
  BY <1>3, OwnsAt DEF Live, Leaving, OwnsLabels
<1>5. current' = NoVersion \/ dir'[current'] = "whole" \/ current' \in spoilt'
  BY <1>1, <1>2 DEF LinksAreSolid, Solid, Marked, Targets
<1>6. \A v \in Versions : dir'[v] # "whole" => Unused(v)'
  BY <1>3, <1>4, <1>5, Values DEF Unused
<1>7. NobodyPointsAtParts'
  BY <1>3, <1>4, <1>6 DEF NobodyPointsAtParts
<1>8. LinksAreSolid'
  <2>1. \A v \in leftCurrent' : Solid(v)'
    BY <1>2, <1>5 DEF Solid, Marked, Targets
  <2> QED
    BY <1>3, <1>4, <2>1 DEF LinksAreSolid
<1>9. SwitchIsSafe' /\ \A d \in Clients : Has(d)'
  BY <1>3, <1>4 DEF SwitchIsSafe, Has
<1> QED
  BY <1>7, <1>8, <1>9

\* Of two calls that would own a version one owns it, and the other would be running.  So:
\* from what each call has and, alone, from what the link and the disk are, to the invariant.
LEMMA PartsMakeIInv ==
    ASSUME CallInv', \A d \in Clients : Has(d)',
           alone' => NobodyPointsAtParts' /\ LinksAreSolid' /\ SwitchIsSafe'
    PROVE  IInv'
<1>1. OwnedIsThere' /\ (alone' => RemovesItsOwn')
  BY HasIsOwned
<1>2. OneOwner'
  <2>1. AloneIsAlone' /\ ReceiptShape'
    BY DEF CallInv
  <2> SUFFICES ASSUME NEW i \in Clients, NEW j \in Clients, Owns(i)', Owns(j)',
                      install'[i].version = install'[j].version
               PROVE  i = j
    BY DEF OneOwner
  <2>2. \A c \in Clients : Owns(c)' /\ install'[c].restored => Calling(c)'
    BY OwnsAt DEF Calling, Running, OwnsLabels
  <2>3. CASE install'[i].restored /\ install'[j].restored /\ alone'
    BY <2>1, <2>2, <2>3 DEF AloneIsAlone
  <2>4. CASE ~(install'[i].restored /\ install'[j].restored /\ alone')
    BY <2>4 DEF Has
  <2> QED
    BY <2>3, <2>4
<1> QED
  BY <1>1, <1>2 DEF IInv, AloneIsSafe

LEMMA InitIInv == Init => IInv
<1> SUFFICES ASSUME Init PROVE IInv
  OBVIOUS
<1>1. CallInv
  BY InitCallInv
<1>2. /\ \A c \in Clients : install[c].at = "idle"
      /\ script.at = "idle" /\ current = NoVersion /\ leftCurrent = {NoVersion}
  BY DEF Init, InstallInit, ScriptInit, RootInit, NoInstall, NoScript
<1>3. \A c \in Clients : ~Live(c) /\ ~Leaving(c) /\ ~Owns(c)
  BY <1>2, OwnsAt DEF Live, Leaving, OwnsLabels
<1>4. \A v \in Versions : Unused(v)
  BY <1>2, <1>3, Values DEF Unused
<1>5. NobodyPointsAtParts /\ SwitchIsSafe /\ LinksAreSolid
  BY <1>2, <1>3, <1>4 DEF NobodyPointsAtParts, SwitchIsSafe, LinksAreSolid, Solid
<1>6. OneOwner /\ OwnedIsThere /\ RemovesItsOwn
  BY <1>3 DEF OneOwner, OwnedIsThere, RemovesItsOwn
<1> QED
  BY <1>1, <1>5, <1>6 DEF IInv, AloneIsSafe

\* Where the directory, the receipts and the script stay as they are.
LEMMA NothingMoves ==
    ASSUME IInv, UNCHANGED <<rootVars, installVars, scriptVars, modeVars>>
    PROVE  /\ \A d \in Clients : Has(d)'
           /\ alone' => NobodyPointsAtParts' /\ LinksAreSolid' /\ SwitchIsSafe'
<1>1. /\ UNCHANGED <<dir, current, leftDir, leftCurrent, unsynced, install, owner, script, touched,
                     spoilt, alone>>
      /\ \A d \in Clients : Has(d)
  BY HasIsOwned DEF IInv, AloneIsSafe, rootVars, installVars, scriptVars, modeVars
<1>2. \A d \in Clients : (Live(d)' <=> Live(d)) /\ (Leaving(d)' <=> Leaving(d)) /\ (Owns(d)' <=> Owns(d))
  BY <1>1, OwnsAt DEF Live, Leaving
<1>3. \A d \in Clients : Has(d)'
  BY <1>1, <1>2 DEF Has
<1>4. ASSUME alone PROVE NobodyPointsAtParts'
  <2>1. NobodyPointsAtParts
    BY <1>4 DEF IInv, AloneIsSafe
  <2>2. \A v \in Versions : dir'[v] # "whole" => Unused(v)
    BY <1>1, <2>1 DEF NobodyPointsAtParts
  <2>3. \A d \in Clients : Leaving(d)' => Unused(install'[d].version)
    BY <1>1, <1>2, <2>1 DEF NobodyPointsAtParts
  <2> QED
    BY <1>1, <1>2, <2>1, <2>2, <2>3, PointersStay
<1>5. ASSUME alone PROVE LinksAreSolid' /\ SwitchIsSafe'
  <2>1. LinksAreSolid /\ SwitchIsSafe
    BY <1>5 DEF IInv, AloneIsSafe
  <2> QED
    BY <1>1, <1>2, <2>1 DEF LinksAreSolid, SwitchIsSafe, Solid, Marked
<1> QED
  BY <1>1, <1>3, <1>4, <1>5

LEMMA StepIInv == LateRetry = FALSE /\ IInv /\ [Next]_vars => IInv'
<1> SUFFICES ASSUME LateRetry = FALSE, IInv, [Next]_vars PROVE IInv'
  OBVIOUS
<1>1. CallInv /\ CallInv'
  BY StepCallInv DEF IInv
<1>2. SUFFICES /\ \A d \in Clients : Has(d)'
               /\ alone' => NobodyPointsAtParts' /\ LinksAreSolid' /\ SwitchIsSafe'
  BY <1>1, PartsMakeIInv
<1>3. CASE UNCHANGED <<rootVars, installVars, scriptVars, modeVars>>
  BY <1>3, NothingMoves
<1>4. ASSUME NEW c \in Clients, InstallActs(c)
      PROVE  /\ \A d \in Clients : Has(d)'
             /\ alone' => NobodyPointsAtParts' /\ LinksAreSolid' /\ SwitchIsSafe'
  <2>1. alone' = alone
    BY <1>4 DEF InstallActs, modeVars
  <2>2. alone => NobodyPointsAtParts'
    BY <1>4, ClientKeepsPointers
  <2>3. alone => LinksAreSolid' /\ SwitchIsSafe'
    BY <1>4, ClientKeepsSolid
  <2> QED
    BY <1>4, <2>1, <2>2, <2>3, ClientKeepsOwners
<1>5. ASSUME NEW c \in Clients, BinaryActs(c)
      PROVE  UNCHANGED <<rootVars, installVars, scriptVars, modeVars>>
  BY <1>5 DEF BinaryActs
<1>6. CASE Next
  BY <1>1, <1>3, <1>4, <1>5, <1>6, Steps, BeginningIsSafe, ScriptKeepsSafe, PowerLossIsSafe
<1>7. CASE UNCHANGED vars
  BY <1>3, <1>7 DEF vars
<1> QED
  BY <1>6, <1>7

\* The inductive invariant, of callers that repeat a rollback only while the version is
\* their own, or gone, and nobody else calls.
THEOREM InductiveInvariant ==
    ASSUME LateRetry = FALSE
    PROVE  Spec => []IInv
<1>1. IInv /\ [Next]_vars => IInv'
  BY StepIInv
<1> QED
  BY <1>1, InitIInv, PTL DEF Spec

\* With one call at a time, through failures, kills and power losses at any step, the link
\* names a whole version or none, and so will whatever link the disk may come back with.
THEOREM TheLinkIsWhole ==
    ASSUME LateRetry = FALSE
    PROVE  Spec => []CurrentIsWhole
<1>1. ASSUME IInv PROVE CurrentIsWhole
  <2>1. RootTypeOK /\ DiskKnows
    BY <1>1 DEF IInv, CallInv, TypeOK
  <2>2. ASSUME alone, current # NoVersion PROVE dir[current] = "whole" \/ current \in spoilt
    <3>1. current \in Versions
      BY <2>1, <2>2 DEF RootTypeOK, Targets
    <3> QED
      BY <1>1, <2>2, <3>1 DEF IInv, AloneIsSafe, NobodyPointsAtParts, Unused
  <2>3. ASSUME alone, NEW v \in leftCurrent \ {NoVersion}
        PROVE  leftDir[v] = {"whole"} \/ v \in touched \cup spoilt
    BY <1>1, <2>3 DEF IInv, AloneIsSafe, LinksAreSolid, Solid, Marked
  <2> QED
    BY <2>2, <2>3 DEF CurrentIsWhole
<1>2. IInv => CurrentIsWhole
  BY <1>1
<1> QED
  BY <1>2, InductiveInvariant, PTL

=============================================================================
