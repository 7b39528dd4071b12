---------------------------- MODULE InstallScript ----------------------------
(***************************************************************************)
(* The shell script a product with the bundle strategy answers to          *)
(* `curl ... | sh'.  It installs into the same directory as the update     *)
(* client, links the command to `current', and undoes what it has done     *)
(* from a trap that looks at flags set after each change.                  *)
(*                                                                         *)
(* A signal makes the shell run the trap after the command it waits for,   *)
(* hence possibly between a change and its flag; the trap resets itself,   *)
(* so a second signal kills the script wherever it is.                     *)
(*                                                                         *)
(* Source: renderBundleInstallScript in internal/api/install_handlers.go.  *)
(***************************************************************************)
EXTENDS BundleRoot

VARIABLES
    script,      \* where the script is, and its variables
    launcher,    \* $install_dir/$command_name: "none", somebody's "file", the "link"
    backup,      \* what the launcher was moved aside as, or "none"
    touched,     \* history: versions it has moved or removed, none of it synced
    spoilt       \* history: versions it has removed, or begun to, after a signal between
                 \* the link and its flag, or that a power loss took back

scriptVars == <<script, launcher, backup, touched, spoilt>>

Flags == {"committed", "current_changed", "launcher_saved", "launcher_changed"}
ScriptForward == {"staging", "moved", "committed", "replaced", "changed", "saving",
                  "linking", "linked", "hooks", "success"}
ScriptBackward == {"cleanup", "unlinked", "restore", "remove", "ended", "littered"}
Launchers == {"none", "file", "link"}

\* old: old_current; undone: launcher_restored and current_restored; littered: the
\* version could not be removed.  found and window are history: the launcher before,
\* and where a signal has interrupted.
Script == [at : {"idle"} \cup ScriptForward \cup ScriptBackward, version : Targets,
           old : Targets, flags : SUBSET Flags, undone : BOOLEAN,
           found : Launchers, window : {"none"} \cup ScriptForward]
NoScript == [at |-> "idle", version |-> NoVersion, old |-> NoVersion, flags |-> {},
             undone |-> TRUE, found |-> "none", window |-> "none"]

ScriptTypeOK ==
    /\ script \in Script
    /\ launcher \in Launchers
    /\ backup \in Launchers
    /\ touched \in SUBSET Versions
    /\ spoilt \in SUBSET Versions

ScriptInit ==
    /\ script = NoScript
    /\ launcher \in {"none", "file"}
    /\ backup = "none"
    /\ touched = {}
    /\ spoilt = {}

Reach(at) == script' = [script EXCEPT !.at = at]
Flag(f, at) == script' = [script EXCEPT !.at = at, !.flags = @ \cup {f}]
Same(vs) == UNCHANGED <<vs, touched, spoilt>>

-----------------------------------------------------------------------------
(* Installing                                                              *)

\* old_current only has to look like a version; it may have no directory.
BeginScript(v) ==
    /\ script.at = "idle"
    /\ dir[v] = "absent"
    /\ script' = [NoScript EXCEPT !.at = "staging", !.version = v, !.old = current,
                                  !.found = launcher]
    /\ Same(<<rootVars, launcher, backup>>)

\* mv "$staging" "$target"; committed=1
MoveStaging ==
    /\ script.at = "staging"
    /\ dir[script.version] = "absent"
    /\ PutVersion(script.version, FALSE)
    /\ Reach("moved")
    /\ touched' = touched \cup {script.version}
    /\ UNCHANGED <<launcher, backup, spoilt>>

FlagCommitted ==
    /\ script.at = "moved"
    /\ Flag("committed", "committed")
    /\ Same(<<rootVars, launcher, backup>>)

\* atomic_replace_symlink "$current_tmp" "$current"; current_changed=1
ReplaceCurrent ==
    /\ script.at = "committed"
    /\ PointCurrent(script.version)
    /\ Reach("replaced")
    /\ Same(<<launcher, backup>>)

FlagCurrent ==
    /\ script.at = "replaced"
    /\ Flag("current_changed", "changed")
    /\ Same(<<rootVars, launcher, backup>>)

\* mv "$launcher" "$launcher_backup"; launcher_saved=1
SaveLauncher ==
    /\ script.at = "changed"
    /\ IF launcher = "none"
       THEN Reach("linking") /\ UNCHANGED <<launcher, backup>>
       ELSE Reach("saving") /\ launcher' = "none" /\ backup' = launcher
    /\ Same(rootVars)

FlagSaved ==
    /\ script.at = "saving"
    /\ Flag("launcher_saved", "linking")
    /\ Same(<<rootVars, launcher, backup>>)

\* atomic_replace_symlink "$launcher_tmp" "$launcher"; launcher_changed=1
LinkLauncher ==
    /\ script.at = "linking"
    /\ launcher' = "link"
    /\ Reach("linked")
    /\ Same(<<rootVars, backup>>)

FlagLinked ==
    /\ script.at = "linked"
    /\ Flag("launcher_changed", "hooks")
    /\ Same(<<rootVars, launcher, backup>>)

HooksPass ==
    /\ script.at = "hooks"
    /\ Reach("success")
    /\ Same(<<rootVars, launcher, backup>>)

\* The trap, with success=1: the saved launcher goes.
Succeed ==
    /\ script.at = "success"
    /\ script' = NoScript
    /\ backup' = "none"
    /\ Same(<<rootVars, launcher>>)

\* set -e: a command that changes something, a download, a check or a hook fails.
CommandFails ==
    /\ script.at \in {"staging", "committed", "changed", "linking", "hooks"}
    /\ Reach("cleanup")
    /\ Same(<<rootVars, launcher, backup>>)

\* HUP, INT or TERM, seen after the command that the shell was waiting for.
Signal ==
    /\ script.at \in ScriptForward \ {"success"}
    /\ script' = [script EXCEPT !.at = "cleanup", !.window = script.at]
    /\ Same(<<rootVars, launcher, backup>>)

-----------------------------------------------------------------------------
(* cleanup, with success=0                                                 *)

AfterUnlink == IF "launcher_saved" \in script.flags THEN "unlinked" ELSE "restore"

\* rm -f "$launcher", before the one that was saved is moved back, if one was.
UnlinkLauncher(undone) ==
    /\ script.at = "cleanup"
    /\ \/ /\ {"launcher_saved", "launcher_changed"} \cap script.flags # {}
          /\ \/ launcher' = "none" /\ Reach(AfterUnlink)
             \/ /\ script' = [script EXCEPT !.at = AfterUnlink, !.undone = undone]
                /\ UNCHANGED launcher
       \/ /\ {"launcher_saved", "launcher_changed"} \cap script.flags = {}
          /\ Reach(AfterUnlink)
          /\ UNCHANGED launcher
    /\ Same(<<rootVars, backup>>)

\* Mutant: a launcher that could not be removed counts as restored.
CleanupUnheeded == UnlinkLauncher(TRUE)

Cleanup == UnlinkLauncher(FALSE)

\* mv -f replaces the launcher if it is still there.
RestoreLauncher ==
    /\ script.at = "unlinked"
    /\ \/ launcher' = backup /\ backup' = "none" /\ Reach("restore")
       \/ /\ script' = [script EXCEPT !.at = "restore", !.undone = FALSE]
          /\ UNCHANGED <<launcher, backup>>
    /\ Same(rootVars)

RestoreCurrent ==
    /\ script.at = "restore"
    /\ \/ /\ "current_changed" \in script.flags
          /\ \/ PointCurrent(script.old) /\ Reach("remove")
             \/ /\ script' = [script EXCEPT !.at = "remove", !.undone = FALSE]
                /\ UNCHANGED rootVars
       \/ /\ "current_changed" \notin script.flags
          /\ Reach("remove")
          /\ UNCHANGED rootVars
    /\ Same(<<launcher, backup>>)

\* A signal between the link and its flag leaves the link to what is removed.
TakeTarget(left) ==
    /\ RemoveVersion(script.version, left)
    /\ spoilt' = IF script.window = "replaced" THEN spoilt \cup {script.version} ELSE spoilt

\* rm -rf "$target", whose result nobody looks at: all of it, a part or nothing goes.
RemoveIf(asked) ==
    /\ script.at = "remove"
    /\ \/ /\ asked
          /\ \/ TakeTarget("absent") /\ Reach("ended")
             \/ TakeTarget("part") /\ Reach("littered")
             \/ Reach("littered") /\ UNCHANGED <<rootVars, spoilt>>
       \/ /\ ~asked
          /\ Reach("ended")
          /\ UNCHANGED <<rootVars, spoilt>>
    /\ UNCHANGED <<launcher, backup, touched>>

\* Mutant: the version goes whether or not the link was restored.
RemoveTargetAlways == RemoveIf("committed" \in script.flags)

MayRemove == "committed" \in script.flags /\ script.undone
RemoveTarget == RemoveIf(MayRemove)

ScriptEnds ==
    /\ script.at \in {"ended", "littered"}
    /\ script' = NoScript
    /\ backup' = "none"
    /\ Same(<<rootVars, launcher>>)

\* kill -9, or a second signal: nothing more is undone.
ScriptDies ==
    /\ script.at # "idle"
    /\ IF script.at = "remove" /\ MayRemove
       THEN TakeTarget("part")
       ELSE UNCHANGED <<rootVars, spoilt>>
    /\ script' = NoScript
    /\ backup' = "none"
    /\ UNCHANGED <<launcher, touched>>

ScriptStep ==
    \/ MoveStaging \/ FlagCommitted \/ ReplaceCurrent \/ FlagCurrent \/ SaveLauncher
    \/ FlagSaved \/ LinkLauncher \/ FlagLinked \/ HooksPass \/ Succeed \/ CommandFails
    \/ Signal \/ Cleanup \/ RestoreLauncher \/ RestoreCurrent \/ RemoveTarget \/ ScriptEnds
    \/ ScriptDies

-----------------------------------------------------------------------------
(* Properties                                                              *)

\* The link and the command are as the script found them, but for the one that a signal
\* has parted from its flag: the link stays switched, the command stays aside under its
\* other name, or a command that was not there stays.
LinkIsBack ==
    \/ current = script.old
    \/ script.window = "replaced" /\ current = script.version
LauncherIsBack ==
    \/ launcher = script.found
    \/ script.window = "saving" /\ launcher = "none" /\ backup = script.found
    \/ script.window = "linked" /\ script.found = "none" /\ launcher = "link"

\* A script that has cleaned up leaves the version, the link and the command as it found
\* them, whatever failed, and a signal spoils no more than the one change whose flag it
\* came before.  A version that rm could not remove is left behind by a script that has
\* put back everything else; one that may still be current, because a restoration has
\* failed, is kept whole.
FailedScriptUndoes ==
    script.at \in {"ended", "littered"} =>
        IF script.undone
        THEN /\ LinkIsBack
             /\ LauncherIsBack
             /\ script.at = "ended" =>
                    dir[script.version] = IF script.window = "moved" THEN "whole" ELSE "absent"
        ELSE dir[script.version] = "whole"

\* The flags follow the changes, one after the other, and are never ahead of them.
FlagsFollow ==
    LET s == script IN
    /\ s.at # "idle" => s.version \in Versions
    /\ s.at \in {"staging", "moved"} => s.flags = {}
    /\ s.at \in {"committed", "replaced"} => s.flags = {"committed"}
    /\ s.at \in {"changed", "saving"} => s.flags = {"committed", "current_changed"}
    /\ s.at \in {"linking", "linked"} =>
           "current_changed" \in s.flags /\ "launcher_changed" \notin s.flags
    /\ s.at \in {"hooks", "success"} => {"current_changed", "launcher_changed"} \subseteq s.flags
    /\ s.at = "unlinked" => "launcher_saved" \in s.flags
    /\ {"launcher_saved", "launcher_changed"} \cap s.flags # {} => "current_changed" \in s.flags
    /\ "current_changed" \in s.flags => "committed" \in s.flags
    /\ s.at \in ScriptForward => s.window = "none"
    /\ s.at \in ScriptForward \cup {"cleanup"} => s.undone
    /\ s.at = "littered" => s.undone
    /\ ~s.undone => "committed" \in s.flags

\* What each step finds is what it needs to undo the one before: the version, the link
\* and the command.
VersionUndoable ==
    LET s == script IN
    /\ s.at = "staging" => dir[s.version] = "absent"
    /\ s.at \in ScriptForward \ {"staging"} => dir[s.version] = "whole"
    /\ s.at \in {"cleanup", "unlinked", "restore", "remove"} =>
           dir[s.version] = IF "committed" \in s.flags \/ s.window = "moved"
                            THEN "whole" ELSE "absent"
    /\ s.at = "ended" =>
           dir[s.version] = IF s.window = "moved" \/ ~s.undone THEN "whole" ELSE "absent"
    /\ s.window = "moved" => "committed" \notin s.flags
    /\ s.at \in ScriptForward \ {"staging"} \/ "committed" \in s.flags => s.version \in touched

LinkUndoable ==
    LET s == script IN
    /\ s.at \in {"staging", "moved", "committed"} => current = s.old
    /\ s.at = "replaced" => current = s.version
    /\ s.at \in {"cleanup", "unlinked", "restore"} /\ "current_changed" \notin s.flags => LinkIsBack
    /\ s.at \in {"remove", "ended", "littered"} /\ s.undone => LinkIsBack

LauncherUndoable ==
    LET s == script
        saved == "launcher_saved" \in s.flags
    IN
    /\ s.at \in {"staging", "moved", "committed", "replaced", "changed"} => launcher = s.found
    /\ s.at = "saving" => launcher = "none" /\ backup = s.found
    /\ s.at = "linking" => IF saved THEN backup = s.found ELSE launcher = s.found /\ s.found = "none"
    /\ s.at \in {"linked", "hooks"} => IF saved THEN backup = s.found ELSE s.found = "none"
    /\ s.at = "linked" => launcher = "link"
    /\ s.at = "cleanup" =>
           IF saved THEN backup = s.found
           ELSE IF "launcher_changed" \in s.flags THEN s.found = "none"
           ELSE LauncherIsBack
    /\ s.at = "unlinked" => backup = s.found
    /\ s.at \in {"restore", "remove", "ended", "littered"} /\ s.undone => LauncherIsBack

ScriptUndoable == FlagsFollow /\ VersionUndoable /\ LinkUndoable /\ LauncherUndoable

=============================================================================
