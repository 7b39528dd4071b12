---------------------------- MODULE ImmutablePath ----------------------------
(***************************************************************************)
(* What the artifact service promises for one path of one repository: the  *)
(* path is written once, by one upload or by a checksum deploy, and never  *)
(* again; an upload that is refused stays refused.  No sessions, leases,   *)
(* files or cleaners.                                                      *)
(*                                                                         *)
(* Source: the artifacts and upload_sessions rows as                       *)
(* internal/artifact/service.go and internal/jobs/upload_cleanup.go change *)
(* them.                                                                   *)
(***************************************************************************)
CONSTANTS Uploads, Deploy, None

VARIABLES
    artifact,   \* the upload (or deploy) the path belongs to
    outcome     \* of each upload: open, stored, refused

vars == <<artifact, outcome>>

Init ==
    /\ artifact = None
    /\ outcome = [u \in Uploads |-> "open"]

Store(u) ==
    /\ artifact = None
    /\ outcome[u] = "open"
    /\ artifact' = u
    /\ outcome' = [outcome EXCEPT ![u] = "stored"]

StoreDeploy ==
    /\ artifact = None
    /\ artifact' = Deploy
    /\ UNCHANGED outcome

Refuse(u) ==
    /\ outcome[u] = "open"
    /\ outcome' = [outcome EXCEPT ![u] = "refused"]
    /\ UNCHANGED artifact

Next == StoreDeploy \/ \E u \in Uploads : Store(u) \/ Refuse(u)

Spec == Init /\ [][Next]_vars

=============================================================================
