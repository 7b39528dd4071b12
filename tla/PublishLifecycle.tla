-------------------------- MODULE PublishLifecycle --------------------------
(***************************************************************************)
(* What publishing promises to the clients of one release: the states a    *)
(* release goes through (draft, publishing, published or publish_failed),  *)
(* what readers of the signed manifest see, and the answer stored for the  *)
(* idempotency key of each publish request.  No leases, attempts, blobs,   *)
(* files or processes: every decision is one indivisible step.             *)
(*                                                                         *)
(* Source: the release and idempotency rows as internal/release/publish.go *)
(* and internal/release/draft_service.go change them.                      *)
(***************************************************************************)
CONSTANTS Artifacts, Keys, None

VARIABLES
    state,      \* releases.state
    content,    \* the artifacts the release lists
    visible,    \* what the published manifest lists, None before there is one
    answer      \* the stored answer of each key

vars == <<state, content, visible, answer>>

Init ==
    /\ state = "draft"
    /\ content = {}
    /\ visible = None
    /\ answer = [k \in Keys |-> "none"]

\* The accepted request gets its answer when the publish ends.
Answer(status) ==
    [k \in Keys |-> IF answer[k] = "pending" THEN status ELSE answer[k]]

Edit ==
    /\ state = "draft"
    /\ content' \in SUBSET Artifacts
    /\ UNCHANGED <<state, visible, answer>>

Accept(k) ==
    /\ state = "draft"
    /\ content # {}
    /\ k \in Keys => answer[k] = "none"
    /\ state' = "publishing"
    /\ answer' = [j \in Keys |-> IF j = k THEN "pending" ELSE answer[j]]
    /\ UNCHANGED <<content, visible>>

Reject(k) ==
    /\ answer[k] = "none"
    /\ state # "draft" \/ content = {}
    /\ answer' = [answer EXCEPT ![k] = "rejected"]
    /\ UNCHANGED <<state, content, visible>>

\* The whole content becomes visible at once, under the state published.
Publish ==
    /\ state = "publishing"
    /\ state' = "published"
    /\ visible' = content
    /\ answer' = Answer("200")
    /\ UNCHANGED content

GiveUp ==
    /\ state = "publishing"
    /\ state' = "publish_failed"
    /\ answer' = Answer("500")
    /\ UNCHANGED <<content, visible>>

BackToDraft ==
    /\ state = "publishing"
    /\ state' = "draft"
    /\ answer' = Answer("503")
    /\ UNCHANGED <<content, visible>>

Forget(k) ==
    /\ answer[k] \notin {"none", "pending"}
    /\ answer' = [answer EXCEPT ![k] = "none"]
    /\ UNCHANGED <<state, content, visible>>

Next ==
    \/ Edit
    \/ \E k \in Keys \cup {None} : Accept(k)
    \/ \E k \in Keys : Reject(k) \/ Forget(k)
    \/ Publish \/ GiveUp \/ BackToDraft

Spec == Init /\ [][Next]_vars

=============================================================================
