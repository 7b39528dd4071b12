------------------------------ MODULE BundleRoot ------------------------------
(***************************************************************************)
(* The directory a product's bundles are installed in: one directory per   *)
(* version and the symbolic link `current' that names the active one.  The *)
(* update client and the installation script share it.                     *)
(*                                                                         *)
(* Beside what processes see, the model keeps what a power loss may leave  *)
(* of each entry: the states it has had since its directory was synced.    *)
(*                                                                         *)
(* Source: pkg/forgeupdate/bundle.go, bundle_pointer_unix.go, sync_unix.go *)
(* and the bundle script of internal/api/install_handlers.go.              *)
(***************************************************************************)
EXTENDS Naturals, FiniteSets

CONSTANTS
    Versions,     \* in the order of their precedence
    Clients       \* calls of the update client, each with the receipt it may return

ASSUME VersionsAssumption == Versions \subseteq Nat \ {0}

NoVersion == 0        \* older than any

VARIABLES
    dir,          \* versions/<version>: "absent", "part" of the bundle, or "whole"
    current,      \* the version that `current' names
    leftDir,      \* per version, the states that a power loss may leave
    leftCurrent,  \* the versions that `current' may name after a power loss
    unsynced      \* versions whose files nobody has synced

rootVars == <<dir, current, leftDir, leftCurrent, unsynced>>

Targets == Versions \cup {NoVersion}
DirStates == {"absent", "part", "whole"}

RootTypeOK ==
    /\ dir \in [Versions -> DirStates]
    /\ current \in Targets
    /\ leftDir \in [Versions -> SUBSET DirStates]
    /\ leftCurrent \in SUBSET Targets
    /\ unsynced \in SUBSET Versions

RootInit ==
    /\ dir = [v \in Versions |-> "absent"]
    /\ current = NoVersion
    /\ leftDir = [v \in Versions |-> {"absent"}]
    /\ leftCurrent = {NoVersion}
    /\ unsynced = {}

\* validateBundleLinkTarget asks for a real directory, whatever is in it.
LinkValid(v) == dir[v] # "absent"

\* A staging directory is renamed to the version, its files synced or not.
PutVersion(v, synced) ==
    /\ dir' = [dir EXCEPT ![v] = "whole"]
    /\ leftDir' = [leftDir EXCEPT ![v] =
           @ \cup {"whole"} \cup (IF synced THEN {} ELSE {"part"})]
    /\ unsynced' = IF synced THEN unsynced \ {v} ELSE unsynced \cup {v}
    /\ UNCHANGED <<current, leftCurrent>>

\* RemoveAll, complete or not.
RemoveVersion(v, left) ==
    /\ dir' = [dir EXCEPT ![v] = IF @ = "absent" THEN @ ELSE left]
    /\ leftDir' = [leftDir EXCEPT ![v] = IF dir[v] = "absent" THEN @ ELSE DirStates]
    /\ UNCHANGED <<current, leftCurrent, unsynced>>

\* Syncing the directory of versions makes its entries durable, not the files below.
SyncVersions ==
    /\ leftDir' = [v \in Versions |->
           {dir[v]} \cup (IF v \in unsynced /\ dir[v] = "whole" THEN {"part"} ELSE {})]
    /\ UNCHANGED <<dir, current, leftCurrent, unsynced>>

\* A link made aside is renamed over `current', or `current' is removed.
PointCurrent(t) ==
    /\ current' = t
    /\ leftCurrent' = leftCurrent \cup {t}
    /\ UNCHANGED <<dir, leftDir, unsynced>>

SyncRoot ==
    /\ leftCurrent' = {current}
    /\ UNCHANGED <<dir, current, leftDir, unsynced>>

\* Every entry falls back, on its own, to a state it may have had on the disk.
PowerFails ==
    /\ dir' \in {d \in [Versions -> DirStates] : \A v \in Versions : d[v] \in leftDir[v]}
    /\ current' \in leftCurrent
    /\ leftDir' = [v \in Versions |-> {dir'[v]}]
    /\ leftCurrent' = {current'}
    /\ unsynced' = {}

=============================================================================
