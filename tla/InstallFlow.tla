----------------------------- MODULE InstallFlow -----------------------------
(***************************************************************************)
(* From a draft to an installed program: the releases and channels of a    *)
(* product's package, the product's install keys, and the hosts that ask   *)
(* for the stable release and download it with a request of its own, each  *)
(* running against promotions, publishing and rotated keys.                *)
(*                                                                         *)
(* A host asks with the update client, which trusts only the signed        *)
(* manifest, or with the installation script, which trusts the server and  *)
(* checks the digest it was given.  One platform is modelled: the release  *)
(* artifact that the hosts could use, if the release has it.               *)
(*                                                                         *)
(* Source: internal/api/install_handlers.go, internal/channel/service.go   *)
(* (Resolve), internal/release (drafts, snapshots and manifests),          *)
(* pkg/forgeupdate/client.go, source.go, manifest.go and download.go.      *)
(***************************************************************************)
EXTENDS PackageReleases, ProductRegistry, SemVer

CONSTANTS
    Stable,     \* the channel that hosts follow
    Builds,     \* files that may be released
    Hosts,
    Samples     \* versions to compare, besides those of the package

ASSUME StableAssumption == Stable \in Channels
ASSUME VersionsAssumption == \A v \in Versions : ValidVersion(v)
ASSUME SamplesAssumption == \A v \in Samples : ValidVersion(v)
ASSUME BuildsAssumption == None \notin Builds

VARIABLES
    artifacts,    \* the release artifact of each version
    snapshot,     \* what the attempt of each version, or its manifest, says
    host          \* where each host is in asking and installing

packageVars == <<releaseVars, channelVars, promotionVars>>
contentVars == <<artifacts, snapshot>>
flowVars == <<packageVars, registryVars, contentVars, host>>

-----------------------------------------------------------------------------
(* State                                                                   *)

\* install: the artifact says how it is installed.
File == [build : Builds, install : BOOLEAN]

\* product: the manifest has schema 2 and names the product.
Snapshot == [file : File \cup {None}, product : BOOLEAN]

Damaged == [build |-> None, install |-> FALSE]

\* runs: the version that is installed; since: how many promotions there had been
\* when the host asked; version, file: the offer; got: the bytes that came.
Host == [at : {"idle", "known", "offered", "admitted", "opened", "turnedAway", "installed"},
         kind : {"client", "script"}, key : Nat, since : Nat,
         runs : Versions \cup {None}, version : Versions \cup {None},
         file : File \cup {None}, got : File \cup {None}]

AtRest(runs) == [at |-> "idle", kind |-> "client", key |-> 0, since |-> 0, runs |-> runs,
                 version |-> None, file |-> None, got |-> None]

FlowTypeOK ==
    /\ TypeOK
    /\ RegistryTypeOK
    /\ artifacts \in [Versions -> File \cup {None}]
    /\ snapshot \in [Versions -> Snapshot \cup {None}]
    /\ host \in [Hosts -> Host]

FlowInit ==
    /\ Init
    /\ RegistryInit
    /\ artifacts = [v \in Versions |-> None]
    /\ snapshot = [v \in Versions |-> None]
    /\ host = [h \in Hosts |-> AtRest(None)]

-----------------------------------------------------------------------------
(* Drafts and manifests                                                    *)

CreateDraft(v) ==
    /\ "package" \in registered
    /\ Create(v)
    /\ UNCHANGED contentVars

\* A coordinate takes one artifact.
AddArtifact(v) ==
    /\ release[v] = "draft"
    /\ artifacts[v] = None
    /\ \E f \in File : artifacts' = [artifacts EXCEPT ![v] = f]
    /\ UNCHANGED <<packageVars, snapshot>>

\* Mutant: only publishing releases are protected.
RemoveArtifactOfAny(v) ==
    /\ release[v] \in {"draft", "published"}
    /\ artifacts[v] # None
    /\ artifacts' = [artifacts EXCEPT ![v] = None]
    /\ UNCHANGED <<packageVars, snapshot>>

RemoveArtifact(v) ==
    /\ release[v] = "draft"
    /\ artifacts[v] # None
    /\ artifacts' = [artifacts EXCEPT ![v] = None]
    /\ UNCHANGED <<packageVars, snapshot>>

\* The release artifacts go with their release.
CancelDraft(v) ==
    /\ Cancel(v)
    /\ artifacts' = [artifacts EXCEPT ![v] = None]
    /\ UNCHANGED snapshot

\* BuildManifest: the release of a product consists of installable artifacts, any other
\* release of none.  A release without an artifact here has some for other platforms.
ManifestValid(s) == s.file # None => s.file.install = s.product

\* The release row is locked.  The product is read through another connection: what
\* counts is whether it is there at that moment.
TakeSnapshot(v) ==
    LET s == [file |-> artifacts[v], product |-> installKey # 0] IN
    /\ StartPublish(v)
    /\ ManifestValid(s)
    /\ snapshot' = [snapshot EXCEPT ![v] = s]
    /\ UNCHANGED artifacts

\* The manifest that is signed and finalized is that of the snapshot; nobody reads the
\* snapshot of an attempt that has failed or was aborted.
SignOrGiveUp(v) ==
    /\ EndPublish(v)
    /\ snapshot' = [snapshot EXCEPT ![v] = IF release'[v] = "published" THEN @ ELSE None]
    /\ UNCHANGED artifacts

DraftStep(v) ==
    CreateDraft(v) \/ AddArtifact(v) \/ RemoveArtifact(v) \/ CancelDraft(v)
        \/ TakeSnapshot(v) \/ SignOrGiveUp(v)

\* Nothing is found before the package exists.
PromotionStep(p) ==
    /\ "package" \in registered
    /\ PromoteStep(p)
    /\ UNCHANGED contentVars

-----------------------------------------------------------------------------
(* Asking                                                                  *)

Moves(h, to) == host' = [host EXCEPT ![h] = to]

\* product: a key that the script or the program was given at some time.
LookUp(h) ==
    /\ host[h].at = "idle"
    /\ \E kind \in {"client", "script"}, key \in 1..installKey :
        /\ Accepted(key)
        /\ Moves(h, [at |-> "known", kind |-> kind, key |-> key,
                     since |-> Len(revisions[Stable]), runs |-> host[h].runs,
                     version |-> None, file |-> None, got |-> None])

\* ResolveChannelArtifact: a published release with an artifact for the host.
Resolvable(v) == release[v] = "published" /\ artifacts[v] # None

\* selectedInstallPlan: a manifest of schema 2.
HasPlan(v) == snapshot[v].product

\* Mutant: any other version will do.
VerifiedOther(h, v) == snapshot[v].product /\ v # host[h].runs

\* Verify: a manifest of the product, newer than the program that asks.
Verified(h, v) ==
    /\ snapshot[v].product
    /\ IF host[h].runs = None THEN TRUE ELSE CompareVersions(v, host[h].runs) > 0

\* bindResolution: the rows of the answer are what the manifest says.
Bound(v) == artifacts[v] = snapshot[v].file

ScriptAccepts(h, v) == host[h].kind = "script" /\ HasPlan(v)

ClientAccepts(h, v) == host[h].kind = "client" /\ Verified(h, v) /\ Bound(v)

\* The version and the digest go into the URL of the download.
Offer(h, v) ==
    Moves(h, [at |-> "offered", kind |-> host[h].kind, key |-> host[h].key,
              since |-> host[h].since, runs |-> host[h].runs,
              version |-> v, file |-> artifacts[v], got |-> host[h].got])

\* Mutant: the newest release will do, promoted or not.
ResolvePublished(h) ==
    /\ host[h].at = "known"
    /\ \E v \in Versions :
        /\ Resolvable(v)
        /\ ScriptAccepts(h, v) \/ ClientAccepts(h, v)
        /\ Offer(h, v)

\* Resolve: one statement reads the channel, the release and its artifact.
Resolve(h) ==
    /\ host[h].at = "known"
    /\ \E v \in Versions :
        /\ current[Stable] = v
        /\ Resolvable(v)
        /\ ScriptAccepts(h, v) \/ ClientAccepts(h, v)
        /\ Offer(h, v)

-----------------------------------------------------------------------------
(* Downloading                                                             *)

\* download: the key is looked up again.
Admit(h) ==
    /\ host[h].at = "offered"
    /\ Moves(h, [host[h] EXCEPT !.at = IF Accepted(host[h].key) THEN "admitted" ELSE "turnedAway"])

\* Mutant: the version and the digest of the request are not looked at.
SelectedStable(h) == [version |-> current[Stable], file |-> artifacts[current[Stable]]]

\* downloadSelection: the release that the request names, whatever is stable now.
Selected(h) ==
    LET v == host[h].version IN
    [version |-> v, file |-> IF release[v] = "published" THEN artifacts[v] ELSE None]

\* The headers of the answer are compared with the offer.
Open(h) ==
    /\ host[h].at = "admitted"
    /\ Moves(h, [host[h] EXCEPT
           !.at = IF Selected(h) = [version |-> host[h].version, file |-> host[h].file]
                  THEN "opened" ELSE "turnedAway"])

Installed(h, bytes) ==
    Moves(h, [at |-> "installed", kind |-> host[h].kind, key |-> host[h].key,
              since |-> host[h].since, runs |-> host[h].version,
              version |-> host[h].version, file |-> host[h].file, got |-> bytes])

\* Mutant: the bytes are installed as they come.
InstallUnverified(h) ==
    /\ host[h].at = "opened"
    /\ \E bytes \in {host[h].file, Damaged} : Installed(h, bytes)

\* CopyVerified: bytes that were damaged on their way or are too few are not installed.
Install(h) ==
    /\ host[h].at = "opened"
    /\ \E bytes \in {host[h].file, Damaged} :
        IF bytes = host[h].file THEN Installed(h, bytes) ELSE Moves(h, AtRest(host[h].runs))

\* It is done, or a request failed: 404, 409, no update, no answer.
Leave(h) ==
    /\ host[h].at # "idle"
    /\ Moves(h, AtRest(host[h].runs))

HostStep(h) == LookUp(h) \/ Resolve(h) \/ Admit(h) \/ Open(h) \/ Install(h) \/ Leave(h)

-----------------------------------------------------------------------------
(* Specification                                                           *)

FlowNext ==
    \/ \E v \in Versions : DraftStep(v) /\ UNCHANGED <<registryVars, host>>
    \/ \E p \in Promoters : PromotionStep(p) /\ UNCHANGED <<registryVars, host>>
    \/ RegistryNext /\ UNCHANGED <<packageVars, contentVars, host>>
    \/ \E h \in Hosts : HostStep(h) /\ UNCHANGED <<packageVars, registryVars, contentVars>>

FlowSpec == FlowInit /\ [][FlowNext]_flowVars

-----------------------------------------------------------------------------
(* Properties                                                              *)

\* What is being published or is published is what its manifest says, down to whether
\* it can be installed, although drafts are edited and cancelled and the product may
\* come after the package; and a rotation leaves its predecessor's key usable.
ManifestsAgree ==
    /\ \A v \in Versions :
        /\ release[v] = "none" => artifacts[v] = None
        /\ release[v] \in {"publishing", "published"} =>
            /\ snapshot[v].file = artifacts[v]
            /\ ManifestValid(snapshot[v])
            /\ snapshot[v].product => installKey # 0
        /\ release[v] # "none" => "package" \in registered
    /\ installKey # 0 => "package" \in registered
    /\ previousKey = IF installKey = 0 THEN 0 ELSE installKey - 1

\* What a host has been told stays true: its key was good once, and what it has been
\* offered is a published release of the product and still has the file of the offer.
HostsAgree ==
    \A h \in Hosts :
        LET o == host[h] IN
        /\ o.at # "idle" => o.key \in 1..installKey /\ o.since <= Len(revisions[Stable])
        /\ o.at \in {"offered", "admitted", "opened"} =>
            /\ o.version # None
            /\ release[o.version] = "published"
            /\ snapshot[o.version].product
            /\ o.file = artifacts[o.version]
        /\ o.at = "installed" => o.runs # None

Offered == {"offered", "admitted", "opened", "turnedAway", "installed"}

\* A host is offered what was the stable release at some moment since it asked, whatever
\* has been promoted before or after.
OffersWereStable ==
    \A h \in Hosts :
        host[h].at \in Offered =>
            \E i \in 1..Len(revisions[Stable]) :
                i >= host[h].since /\ revisions[Stable][i].to = host[h].version

\* The bytes that are installed are those of the signed manifest of that version.
InstalledIsSigned ==
    \A h \in Hosts :
        host[h].at = "installed" =>
            /\ release[host[h].runs] = "published"
            /\ snapshot[host[h].runs].product
            /\ host[h].got = snapshot[host[h].runs].file

\* Between the offer and the download the stable release may change as often as it
\* likes: a host is turned away only if its key has expired or has been rotated twice.
OnlyOldKeysAreTurnedAway ==
    \A h \in Hosts :
        host[h].at = "turnedAway" => host[h].key \in expired \/ host[h].key + 1 < installKey

\* Together these are inductive.
FlowIInv ==
    /\ FlowTypeOK
    /\ IInv
    /\ ManifestsAgree
    /\ HostsAgree
    /\ OffersWereStable
    /\ InstalledIsSigned
    /\ OnlyOldKeysAreTurnedAway

\* The client is never offered what it runs or something older, in the order of SemVer,
\* even if an older release is promoted.
UpdatesAreNewer ==
    \A h \in Hosts :
        /\ host[h].at \in Offered \ {"installed"}
        /\ host[h].kind = "client"
        /\ host[h].runs # None
        => Precedes(host[h].runs, host[h].version)

\* CompareVersions, which compares digit strings by their length first and stops at the
\* first difference, gives the precedence of SemVer: numbers by value whatever their
\* length, numbers below words, a release above its prereleases, and a longer list of
\* identifiers above its beginning.  No variable has a part in this: it is evaluated in
\* the initial states.
ComparisonIsSemVer ==
    FlowInit => \A a, b \in Samples : CompareVersions(a, b) = Precedence(a, b)

=============================================================================
