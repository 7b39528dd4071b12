------------------------------ MODULE SelfBinary ------------------------------
(***************************************************************************)
(* InstallSelfBinary: a program replaces its own file.  The candidate is   *)
(* staged beside it, verified, synced and probed, the old file is copied   *)
(* as a backup, and a rename puts the new one in its place; the receipt    *)
(* renames the backup back, or removes it.                                 *)
(*                                                                         *)
(* Source: pkg/forgeupdate/self_binary.go, download.go.                    *)
(***************************************************************************)
EXTENDS BundleRoot

CONSTANTS
    Torn,            \* a file that is not all there
    NoBackup

ASSUME TornAssumption == Torn \notin Nat /\ NoBackup \notin Nat

VARIABLES
    target,          \* the version in the program's file; NoVersion: the first one
    leftTarget,      \* what a power loss may leave in it, Torn included
    update           \* where each call is, and what its receipt holds

binaryVars == <<target, leftTarget>>

\* before is history: what the file held when it was replaced.
Update == [at : {"idle", "staging", "saved", "replaced", "restored", "held", "undone", "finalized"},
           version : Targets, backup : Targets \cup {NoBackup}, before : Targets]
NoUpdate == [at |-> "idle", version |-> NoVersion, backup |-> NoBackup, before |-> NoVersion]

SelfTypeOK ==
    /\ target \in Targets
    /\ leftTarget \in SUBSET (Targets \cup {Torn})
    /\ update \in [Clients -> Update]

SelfInit ==
    /\ target = NoVersion
    /\ leftTarget = {NoVersion}
    /\ update = [u \in Clients |-> NoUpdate]

Advance(u, at) == update' = [update EXCEPT ![u].at = at]
Quit(u) == update' = [update EXCEPT ![u] = NoUpdate]

BeginUpdate(u, v) ==
    /\ update[u].at = "idle"
    /\ update' = [update EXCEPT ![u] = [NoUpdate EXCEPT !.at = "staging", !.version = v]]
    /\ UNCHANGED binaryVars

\* Verified, synced and probed, or the staging file goes; the backup is durable.
SaveBackup(u) ==
    /\ update[u].at = "staging"
    /\ \/ update' = [update EXCEPT ![u].at = "saved", ![u].backup = target]
       \/ Quit(u)
    /\ UNCHANGED binaryVars

\* Mutant: the rename comes before the copy.
ReplaceThenSave(u) ==
    /\ update[u].at = "saved"
    /\ target' = update[u].version
    /\ leftTarget' = leftTarget \cup {update[u].version}
    /\ update' = [update EXCEPT ![u].at = "replaced", ![u].before = target,
                                ![u].backup = update[u].version]

\* Mutant: the staging file is renamed without having been synced.
ReplaceUnsynced(u) ==
    /\ update[u].at = "saved"
    /\ target' = update[u].version
    /\ leftTarget' = leftTarget \cup {update[u].version, Torn}
    /\ update' = [update EXCEPT ![u].at = "replaced", ![u].before = target]

Replace(u) ==
    /\ update[u].at = "saved"
    /\ \/ /\ target' = update[u].version
          /\ leftTarget' = leftTarget \cup {update[u].version}
          /\ update' = [update EXCEPT ![u].at = "replaced", ![u].before = target]
       \/ Quit(u) /\ UNCHANGED binaryVars

\* A directory that cannot be synced undoes the replacement, if the rename can.
SyncReplaced(u) ==
    /\ update[u].at = "replaced"
    /\ \/ leftTarget' = {target} /\ Advance(u, "held") /\ UNCHANGED target
       \/ /\ target' = update[u].backup
          /\ leftTarget' = leftTarget \cup {update[u].backup}
          /\ update' = [update EXCEPT ![u].at = "restored", ![u].backup = NoBackup]
       \/ Quit(u) /\ UNCHANGED binaryVars

\* Synced or not, the call returns an error.
EndRestored(u) ==
    /\ update[u].at = "restored"
    /\ leftTarget' \in {leftTarget, {target}}
    /\ Quit(u)
    /\ UNCHANGED target

\* Once the backup has been renamed back, another rollback finds none.
RollbackUpdate(u) ==
    /\ update[u].at = "held"
    /\ update[u].backup # NoBackup
    /\ target' = update[u].backup
    /\ leftTarget' = leftTarget \cup {update[u].backup}
    /\ update' = [update EXCEPT ![u].at = "undone", ![u].backup = NoBackup]

SyncUndone(u) ==
    /\ update[u].at = "undone"
    /\ \/ leftTarget' = {target} /\ Quit(u)
       \/ Advance(u, "held") /\ UNCHANGED leftTarget
    /\ UNCHANGED target

\* A backup that is not there is no error.
FinalizeUpdate(u) ==
    /\ update[u].at = "held"
    /\ update' = [update EXCEPT ![u].at = "finalized", ![u].backup = NoBackup]
    /\ UNCHANGED binaryVars

SyncFinalized(u) ==
    /\ update[u].at = "finalized"
    /\ \/ leftTarget' = {target} /\ Quit(u)
       \/ Advance(u, "held") /\ UNCHANGED leftTarget
    /\ UNCHANGED target

\* The process ends; its backup stays on the disk, and nobody knows it.
UpdaterDies(u) ==
    /\ update[u].at # "idle"
    /\ Quit(u)
    /\ UNCHANGED binaryVars

UpdateStep(u) ==
    \/ SaveBackup(u) \/ Replace(u) \/ SyncReplaced(u) \/ EndRestored(u)
    \/ SyncUndone(u) \/ SyncFinalized(u)

BinaryPowerFails ==
    /\ target' \in leftTarget
    /\ leftTarget' = {target'}
    /\ update' = [u \in Clients |-> NoUpdate]

-----------------------------------------------------------------------------
(* Properties                                                              *)

\* Whenever the power fails there is a whole program in the file: what is renamed
\* over it has been synced.
ProgramSurvives == Torn \notin leftTarget

\* A receipt puts back exactly what its update has replaced.
BackupIsPredecessor ==
    \A u \in Clients :
        update[u].at \in {"replaced", "held"} =>
            update[u].backup \in {update[u].before, NoBackup}

\* A backup is there from the copy to the receipt, and gone when it has been used.
BackupShape ==
    \A u \in Clients :
        /\ update[u].at \in {"saved", "replaced"} => update[u].backup # NoBackup
        /\ update[u].at \in {"restored", "undone", "finalized"} => update[u].backup = NoBackup

=============================================================================
