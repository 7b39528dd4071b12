---------------------------- MODULE BundleInstall ----------------------------
(***************************************************************************)
(* InstallBundle and the receipt it returns: a version is extracted aside, *)
(* committed by a rename, made current by replacing a link, checked by its *)
(* hooks, and then finalized or rolled back by the caller.                 *)
(*                                                                         *)
(* Every system call after the archive has been extracted is a step, may   *)
(* fail, and may be the last one that the process makes.                   *)
(*                                                                         *)
(* Source: pkg/forgeupdate/bundle.go, bundle_pointer_unix.go, hooks.go,    *)
(* archive.go.                                                             *)
(***************************************************************************)
EXTENDS BundleRoot

CONSTANT Nobody

ASSUME NobodyAssumption == Nobody \notin Clients

VARIABLES
    install,       \* where each call is, and what its receipt holds
    owner          \* history: the call that committed the directory of a version

\* Before the pointer has been replaced, and after.
Forward == {"staging", "committed", "synced", "read", "switched", "hooks"}
Backward == {"undo", "verified", "restored", "removing", "removed"}

\* restored: the pointerRestored of the receipt; kept: the caller has the receipt.
Install == [at : {"idle", "held"} \cup Forward \cup Backward, version : Targets,
            previous : Targets, restored : BOOLEAN, kept : BOOLEAN]
NoInstall == [at |-> "idle", version |-> NoVersion, previous |-> NoVersion,
              restored |-> FALSE, kept |-> FALSE]

InstallTypeOK ==
    /\ install \in [Clients -> Install]
    /\ owner \in [Versions -> Clients \cup {Nobody}]

InstallInit ==
    /\ install = [i \in Clients |-> NoInstall]
    /\ owner = [v \in Versions |-> Nobody]

Running(i) == install[i].at \notin {"idle", "held"}

GoTo(i, at) == install' = [install EXCEPT ![i].at = at]
Leave(i) == install' = [install EXCEPT ![i] = NoInstall]

\* An error ends a call; a receipt that the caller has stays with it.
Fails(i) == IF install[i].kept THEN GoTo(i, "held") ELSE Leave(i)

-----------------------------------------------------------------------------
(* InstallBundle                                                           *)

\* The version is looked for before anything is downloaded.
BeginInstall(i, v) ==
    /\ install[i].at = "idle"
    /\ dir[v] = "absent"
    /\ install' = [install EXCEPT ![i] = [NoInstall EXCEPT !.at = "staging", !.version = v]]
    /\ UNCHANGED rootVars

\* Download, digest, limits, entrypoint, preflight hook: the staging directory goes.
StagingFails(i) ==
    /\ install[i].at = "staging"
    /\ Leave(i)
    /\ UNCHANGED rootVars

\* Mutant: the rename replaces what it finds.
CommitOver(i) ==
    /\ install[i].at = "staging"
    /\ PutVersion(install[i].version, TRUE)
    /\ owner' = [owner EXCEPT ![install[i].version] = i]
    /\ GoTo(i, "committed")

\* os.Rename does not replace a directory.
Commit(i) ==
    LET v == install[i].version IN
    /\ install[i].at = "staging"
    /\ \/ /\ dir[v] = "absent"
          /\ PutVersion(v, TRUE)
          /\ owner' = [owner EXCEPT ![v] = i]
          /\ GoTo(i, "committed")
       \/ /\ dir[v] # "absent"
          /\ Leave(i)
          /\ UNCHANGED <<owner, rootVars>>

SyncCommit(i) ==
    /\ install[i].at = "committed"
    /\ \/ SyncVersions /\ GoTo(i, "synced")
       \/ GoTo(i, "removing") /\ UNCHANGED rootVars

\* The target is looked at before the link is replaced, and so is the one it had.
ReadPointer(i) ==
    /\ install[i].at = "synced"
    /\ IF LinkValid(install[i].version) /\ (current = NoVersion \/ LinkValid(current))
       THEN install' = [install EXCEPT ![i].at = "read", ![i].previous = current]
       ELSE GoTo(i, "removing")
    /\ UNCHANGED rootVars

Switch(i) ==
    /\ install[i].at = "read"
    /\ \/ PointCurrent(install[i].version) /\ GoTo(i, "switched")
       \/ GoTo(i, "removing") /\ UNCHANGED rootVars

SyncSwitch(i) ==
    /\ install[i].at = "switched"
    /\ \/ SyncRoot /\ GoTo(i, "hooks")
       \/ GoTo(i, "undo") /\ UNCHANGED rootVars

\* post-install and verify hooks: one that fails or times out undoes the installation.
RunHooks(i) ==
    /\ install[i].at = "hooks"
    /\ \/ install' = [install EXCEPT ![i].at = "held", ![i].kept = TRUE]
       \/ GoTo(i, "undo")
    /\ UNCHANGED rootVars

-----------------------------------------------------------------------------
(* The receipt                                                             *)

\* A rollback that has already restored the pointer goes on behind it.
Rollback(i) ==
    /\ install[i].at = "held"
    /\ GoTo(i, IF install[i].restored THEN "restored" ELSE "undo")
    /\ UNCHANGED rootVars

\* Mutant: the rollback does not ask whose version is current.
VerifyNothing(i) ==
    /\ install[i].at = "undo"
    /\ GoTo(i, "verified")
    /\ UNCHANGED rootVars

IsActive(i) == current = install[i].version /\ LinkValid(install[i].version)

\* verifyBundlePointer
Verify(i) ==
    /\ install[i].at = "undo"
    /\ IF IsActive(i) THEN GoTo(i, "verified") ELSE Fails(i)
    /\ UNCHANGED rootVars

\* Mutant: a link that could not be replaced counts as restored.
RestoreLoosely(i) ==
    LET previous == install[i].previous IN
    /\ install[i].at = "verified"
    /\ \/ /\ IF previous = NoVersion THEN current # NoVersion ELSE LinkValid(previous)
          /\ PointCurrent(previous)
       \/ UNCHANGED rootVars
    /\ install' = [install EXCEPT ![i].at = "restored", ![i].restored = TRUE]

\* The link is replaced by the previous one, or removed if there was none.
Restore(i) ==
    LET previous == install[i].previous IN
    /\ install[i].at = "verified"
    /\ \/ /\ IF previous = NoVersion THEN current # NoVersion ELSE LinkValid(previous)
          /\ PointCurrent(previous)
          /\ install' = [install EXCEPT ![i].at = "restored", ![i].restored = TRUE]
       \/ Fails(i) /\ UNCHANGED rootVars

\* Mutant: the version is removed although the link may not be durable.
SyncRestoredOrNot(i) ==
    /\ install[i].at = "restored"
    /\ GoTo(i, "removing")
    /\ UNCHANGED rootVars

SyncRestored(i) ==
    /\ install[i].at = "restored"
    /\ \/ SyncRoot /\ GoTo(i, "removing")
       \/ Fails(i) /\ UNCHANGED rootVars

\* removeBundleVersion, of a rollback or of an installation that did not switch.
Remove(i) ==
    /\ install[i].at = "removing"
    /\ \/ RemoveVersion(install[i].version, "absent") /\ GoTo(i, "removed")
       \/ RemoveVersion(install[i].version, "part") /\ Fails(i)

SyncRemoved(i) ==
    /\ install[i].at = "removed"
    /\ \/ SyncVersions /\ Leave(i)
       \/ Fails(i) /\ UNCHANGED rootVars

\* Refused, the receipt stays active.
Finalize(i) ==
    /\ install[i].at = "held"
    /\ ~install[i].restored
    /\ IsActive(i)
    /\ Leave(i)
    /\ UNCHANGED rootVars

\* The process ends wherever it is, and the receipt with it.
ClientDies(i) ==
    /\ install[i].at # "idle"
    /\ \/ UNCHANGED rootVars
       \/ install[i].at = "removing" /\ RemoveVersion(install[i].version, "part")
    /\ Leave(i)
    /\ UNCHANGED owner

\* The steps of a call that is running.
InstallStep(i) ==
    \/ Commit(i)
    \/ /\ \/ StagingFails(i) \/ SyncCommit(i) \/ ReadPointer(i) \/ Switch(i)
          \/ SyncSwitch(i) \/ RunHooks(i)
          \/ Verify(i) \/ Restore(i) \/ SyncRestored(i) \/ Remove(i) \/ SyncRemoved(i)
       /\ UNCHANGED owner

-----------------------------------------------------------------------------
(* Properties                                                              *)

\* An install that is to remove the version it committed, or still may.
Owns(i) ==
    \/ install[i].at \in (Forward \ {"staging"}) \cup (Backward \ {"removed"})
    \/ install[i].at = "held" /\ ~install[i].restored

\* However many clients install a version at once, the rename lets one of them
\* have it: nobody else rolls it back or is told that it has been installed.
OneOwner ==
    \A i, j \in Clients :
        Owns(i) /\ Owns(j) /\ install[i].version = install[j].version => i = j

\* What a call has behind it where it is: a version that is one, and a receipt that
\* says whether the link has been put back.
ReceiptShape ==
    \A i \in Clients :
        LET r == install[i] IN
        /\ r.at # "idle" => r.version \in Versions
        /\ r.at \in Forward => ~r.kept /\ ~r.restored
        /\ r.at = "held" => r.kept
        /\ r.at \in {"undo", "verified"} => ~r.restored
        /\ r.at = "restored" => r.restored
        /\ r.at \in {"removing", "removed"} /\ r.kept => r.restored

=============================================================================
