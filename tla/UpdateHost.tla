------------------------------ MODULE UpdateHost ------------------------------
(***************************************************************************)
(* A host with one product: programs built with the update client check    *)
(* for a newer release, ask, and apply what they have found; the user runs *)
(* the installation script; and the power may fail at any time.            *)
(*                                                                         *)
(* Nothing in the code keeps two of them apart.  alone says whether calls  *)
(* overlap: what a rollback promises holds when they do not.  The manifest *)
(* of a product says whether it is installed as a bundle or as one file.   *)
(*                                                                         *)
(* Source: pkg/forgeupdate/client.go, source.go, manifest.go, version.go.  *)
(***************************************************************************)
EXTENDS BundleInstall, InstallScript, SelfBinary

CONSTANTS
    MaxCalls,     \* how many updates are applied
    MaxScripts,   \* how often the script is run
    MaxLosses,    \* how often the power fails
    LateRetry     \* whether a caller repeats a rollback that failed half-way
                  \* after the version has been installed again

ASSUME BoundsAssumption == MaxCalls \in Nat /\ MaxScripts \in Nat /\ MaxLosses \in Nat
ASSUME LateRetryAssumption == LateRetry \in BOOLEAN

VARIABLES
    strategy,     \* of the product: "bundle" or "self-replace"
    alone,        \* one call at a time on this host
    plan,         \* the version each client has found
    calls,        \* updates so far
    scripts,      \* runs of the script so far
    losses        \* power losses so far

installVars == <<install, owner>>
selfVars == <<binaryVars, update>>
modeVars == <<strategy, alone>>
boundVars == <<calls, scripts, losses>>
vars == <<rootVars, installVars, scriptVars, selfVars, modeVars, plan, boundVars>>

TypeOK ==
    /\ RootTypeOK /\ InstallTypeOK /\ ScriptTypeOK /\ SelfTypeOK
    /\ strategy \in {"bundle", "self-replace"}
    /\ alone \in BOOLEAN
    /\ plan \in [Clients -> Targets]
    /\ calls \in Nat
    /\ scripts \in Nat
    /\ losses \in Nat

NoPlan == NoVersion

Init ==
    /\ RootInit /\ InstallInit /\ ScriptInit /\ SelfInit
    /\ strategy \in {"bundle", "self-replace"}
    /\ alone \in BOOLEAN
    /\ ~alone \/ strategy = "self-replace" => launcher = "none"
    /\ plan = [c \in Clients |-> NoPlan]
    /\ calls = 0
    /\ scripts = 0
    /\ losses = 0

\* Held receipts are no calls.
Busy ==
    \/ \E c \in Clients : Running(c) \/ update[c].at \notin {"idle", "held"}
    \/ script.at # "idle"

MayCall == alone => ~Busy

-----------------------------------------------------------------------------
(* Checking and applying                                                   *)

\* The program that is started is the one that is installed.
Installed == IF strategy = "bundle" THEN current ELSE target

\* Check: the stable release, whichever it is now, with a manifest signed by a trusted
\* key, of this product and platform, and newer than the program that asks.
Check(c) ==
    /\ plan[c] = NoPlan /\ install[c].at = "idle" /\ update[c].at = "idle"
    /\ calls < MaxCalls
    /\ current \in {NoVersion} \cup {v \in Versions : dir[v] = "whole"}
    /\ \E v \in Versions :
        /\ v > Installed
        /\ plan' = [plan EXCEPT ![c] = v]
    /\ UNCHANGED <<rootVars, installVars, scriptVars, selfVars, modeVars, boundVars>>

\* Apply uses the plan up before anything can fail.
Apply(c) ==
    /\ plan[c] # NoPlan
    /\ calls < MaxCalls
    /\ calls' = calls + 1
    /\ MayCall
    /\ \/ /\ strategy = "bundle"
          /\ BeginInstall(c, plan[c])
          /\ UNCHANGED update
       \/ /\ strategy = "self-replace"
          /\ BeginUpdate(c, plan[c])
          /\ UNCHANGED <<rootVars, install>>
       \/ UNCHANGED <<rootVars, install, update>>
    /\ plan' = [plan EXCEPT ![c] = NoPlan]
    /\ UNCHANGED <<owner, scriptVars, binaryVars, modeVars, scripts, losses>>

\* A rollback that has failed half-way may be repeated.
MayRepeat(c) ==
    LET v == install[c].version IN
    IF install[c].restored /\ ~LateRetry
    THEN alone /\ (owner[v] = c \/ dir[v] = "absent")
    ELSE TRUE

ReceiptStep(c) ==
    /\ MayCall
    /\ MayRepeat(c)
    /\ \/ /\ Rollback(c) \/ Finalize(c)
          /\ UNCHANGED <<owner, selfVars>>
       \/ /\ RollbackUpdate(c) \/ FinalizeUpdate(c)
          /\ UNCHANGED <<rootVars, installVars>>
    /\ UNCHANGED <<scriptVars, modeVars, plan, boundVars>>

BundleStep(c) ==
    /\ InstallStep(c)
    /\ UNCHANGED <<scriptVars, selfVars, modeVars, plan, boundVars>>

BinaryStep(c) ==
    /\ UpdateStep(c)
    /\ UNCHANGED <<rootVars, installVars, scriptVars, modeVars, plan, boundVars>>

ClientEnds(c) ==
    /\ \/ ClientDies(c) /\ UNCHANGED selfVars
       \/ UpdaterDies(c) /\ UNCHANGED <<rootVars, installVars>>
    /\ UNCHANGED <<scriptVars, modeVars, plan, boundVars>>

-----------------------------------------------------------------------------
(* The script and the power                                                *)

\* A script that overlaps with other calls is left out: it asks nobody whose
\* version it moves into, points to or removes.
RunScript ==
    /\ strategy = "bundle"
    /\ alone
    /\ ~Busy
    /\ scripts < MaxScripts
    /\ scripts' = scripts + 1
    /\ \E v \in Versions : BeginScript(v)
    /\ UNCHANGED <<installVars, selfVars, modeVars, plan, calls, losses>>

ScriptRuns ==
    /\ ScriptStep
    /\ owner' = IF script'.at = "moved" THEN [owner EXCEPT ![script.version] = Nobody] ELSE owner
    /\ UNCHANGED <<install, selfVars, modeVars, plan, boundVars>>

PowerLoss ==
    /\ alone
    /\ losses < MaxLosses
    /\ losses' = losses + 1
    /\ PowerFails
    /\ BinaryPowerFails
    /\ install' = [c \in Clients |-> NoInstall]
    /\ script' = NoScript
    /\ backup' = "none"
    /\ spoilt' = spoilt \cup {v \in touched : dir'[v] # "whole"}
    /\ touched' = {}
    /\ plan' = [c \in Clients |-> NoPlan]
    /\ UNCHANGED <<owner, launcher, modeVars, calls, scripts>>

Next ==
    \/ \E c \in Clients :
        \/ Check(c) \/ Apply(c)
        \/ ReceiptStep(c) \/ BundleStep(c) \/ BinaryStep(c) \/ ClientEnds(c)
    \/ RunScript \/ ScriptRuns
    \/ PowerLoss

Spec == Init /\ [][Next]_vars

-----------------------------------------------------------------------------
(* Properties                                                              *)

\* A version that a client may still remove is the one that it has committed, but
\* for a rollback that is repeated, alone, after the version has gone.
OwnedIsThere ==
    \A c \in Clients :
        LET v == install[c].version IN
        Owns(c) => \/ owner[v] = c /\ dir[v] # "absent"
                   \/ alone /\ install[c].restored

\* A receipt puts back exactly what its update has replaced.
ReceiptsFit == alone => BackupIsPredecessor

\* A call of its own keeps the others out, and a host installs one way only.
Calling(c) == Running(c) \/ update[c].at \notin {"idle", "held"}

AloneIsAlone ==
    alone =>
        /\ \A c, d \in Clients : Calling(c) /\ Calling(d) => c = d
        /\ script.at # "idle" => \A c \in Clients : ~Calling(c)

OneWay ==
    /\ script.at # "idle" => alone /\ strategy = "bundle"
    /\ \A c \in Clients : install[c].at # "idle" => strategy = "bundle"
    /\ \A c \in Clients : update[c].at # "idle" => strategy = "self-replace"

\* Of calls that do not overlap, the link is what the last of them has left, and so is
\* the program's file.
FoundAsLeft ==
    alone => \A c \in Clients :
        /\ install[c].at = "read" => install[c].previous = current
        /\ install[c].at = "verified" => install[c].version = current
        /\ update[c].at = "saved" => update[c].backup = target

\* What a power loss may leave is what there is, among others; and files that nobody has
\* synced are the script's.
Marked == touched \cup spoilt
DiskKnows ==
    /\ \A v \in Versions : dir[v] \in leftDir[v]
    /\ current \in leftCurrent
    /\ unsynced \subseteq Marked

\* What holds however a caller repeats its rollbacks.
CallInv ==
    /\ TypeOK /\ DiskKnows
    /\ ReceiptShape /\ ScriptUndoable
    /\ BackupShape /\ ProgramSurvives
    /\ AloneIsAlone /\ OneWay /\ FoundAsLeft /\ ReceiptsFit

\* With one call at a time, and through crashes and power losses at any step,
\* `current' names a version that is complete, and would after a power loss whichever
\* link and directories it leaves.  What the script takes away after a signal, or loses
\* because it syncs nothing, is all that can spoil it.
CurrentIsWhole ==
    alone =>
        /\ current # NoVersion => dir[current] = "whole" \/ current \in spoilt
        /\ \A v \in leftCurrent \ {NoVersion} :
            leftDir[v] = {"whole"} \/ v \in touched \cup spoilt

\* A receipt that will point the link back, and a call that will remove its version.
Live(c) ==
    \/ install[c].at \in {"switched", "hooks", "undo", "verified"}
    \/ install[c].at = "held" /\ ~install[c].restored
Leaving(c) ==
    \/ install[c].at \in {"committed", "synced", "read", "restored", "removing", "removed"}
    \/ install[c].at = "held" /\ install[c].restored /\ owner[install[c].version] = c

\* Neither the link, nor the script, nor a receipt points to v or will point back to it.
Unused(v) ==
    \/ v \in spoilt
    \/ /\ current # v
       /\ script.at # "idle" => script.old # v
       /\ \A c \in Clients : Live(c) => install[c].previous # v

\* What is not complete, or goes, nobody points to; and each receipt points back to a
\* version of its own, which is not the current one.
NobodyPointsAtParts ==
    /\ \A v \in Versions : dir[v] # "whole" => Unused(v)
    /\ \A c \in Clients : Leaving(c) => Unused(install[c].version)
    /\ \A c \in Clients : Live(c) /\ install[c].previous \notin spoilt =>
        /\ install[c].previous # current
        /\ script.at # "idle" => install[c].previous # script.old
        /\ \A d \in Clients : Live(d) /\ install[d].previous = install[c].previous => d = c
    /\ script.at # "idle" =>
        \/ script.version \in spoilt
        \/ /\ script.version # script.old
           /\ \A c \in Clients : Live(c) => install[c].previous # script.version

\* The link may survive on the disk: what it named or may name again is there too.
Solid(v) == v = NoVersion \/ leftDir[v] = {"whole"} \/ v \in Marked
LinksAreSolid ==
    /\ \A v \in leftCurrent : Solid(v)
    /\ \A c \in Clients : Live(c) => Solid(install[c].previous)
    /\ script.at # "idle" => Solid(script.old)
    /\ \A c \in Clients : install[c].at \in {"committed", "synced", "read", "removing"} =>
        install[c].version \notin leftCurrent \ Marked

\* Before the link is switched to a version, its files and its name are on the disk; and
\* what the script has moved into place is nobody else's.
SwitchIsSafe ==
    /\ \A c \in Clients :
        LET v == install[c].version IN
        /\ install[c].at \in {"committed", "synced", "read"} => dir[v] = "whole"
        /\ install[c].at = "committed" => v \notin unsynced
        /\ install[c].at \in {"synced", "read"} => leftDir[v] = {"whole"}
    /\ script.at = "moved" => owner[script.version] = Nobody
    /\ script.at # "idle" /\ "committed" \in script.flags => owner[script.version] = Nobody

\* A rollback that goes on removes what is its own, or gone.
RemovesItsOwn ==
    \A c \in Clients :
        LET v == install[c].version IN Owns(c) => owner[v] = c \/ dir[v] = "absent"

AloneIsSafe ==
    alone => RemovesItsOwn /\ NobodyPointsAtParts /\ LinksAreSolid /\ SwitchIsSafe

\* The inductive invariant, of callers that leave a version alone that is not theirs.
IInv == CallInv /\ OneOwner /\ OwnedIsThere /\ AloneIsSafe

\* Of calls that do not overlap, a rollback takes back its own version only: one
\* that has been followed by another installation leaves the link alone.
RollbackTakesOwnBack ==
    [][\A c \in Clients :
        alone /\ install[c].at = "verified" /\ current' # current =>
            current = install[c].version]_vars

\* The comment of Rollback: a version is not removed while current points to it.
NeverRemovesCurrent ==
    [][\A c \in Clients :
        alone /\ install[c].at = "removing" /\ current = install[c].version =>
            dir' = dir]_vars

=============================================================================
