--------------------------- MODULE PackageReleases ---------------------------
(***************************************************************************)
(* The releases of one package and the channels that point to them: drafts *)
(* are created and cancelled, published through attempts that leave rows   *)
(* behind, and promoted by transactions that wait for each other.          *)
(*                                                                         *)
(* Source: internal/release/draft_service.go (Create, Cancel),             *)
(* internal/channel/service.go (Promote), channel.sql, release.sql and the *)
(* foreign keys of 00001_initial.sql.  Of publishing only how a release    *)
(* enters and leaves it is modelled; PublishAttempt has the rest.  The     *)
(* arbitration of idempotency keys around each mutation is in Idempotency. *)
(***************************************************************************)
EXTENDS Naturals, Sequences

CONSTANTS
    Versions,
    Channels,
    Promoters,       \* concurrent promotions
    None,            \* no version, no channel, no promoter
    MaxPromotions    \* how many promotions are begun

ASSUME NoneAssumption == None \notin Versions \cup Channels \cup Promoters
ASSUME MaxPromotionsAssumption == MaxPromotions \in Nat

VARIABLES
    release,      \* the state of the releases row of each version
    attempted,    \* the versions whose row publish_attempts rows refer to
    current,      \* current_release_id of each channel
    revisions,    \* the channel_revisions of each channel, as they were committed
    lock,         \* who has locked the row of each channel
    promotion,    \* where each promotion is
    begun         \* promotions so far

releaseVars == <<release, attempted>>
channelVars == <<current, revisions>>
promotionVars == <<lock, promotion, begun>>
vars == <<releaseVars, channelVars, promotionVars>>

-----------------------------------------------------------------------------
(* State                                                                   *)

Revision == [from : Versions \cup {None}, to : Versions]

Promotion == [at : {"idle", "begun", "locked", "checked"}, channel : Channels \cup {None},
              version : Versions \cup {None}, from : Versions \cup {None}]
NoPromotion == [at |-> "idle", channel |-> None, version |-> None, from |-> None]

TypeOK ==
    /\ release \in [Versions -> {"none", "draft", "publishing", "published", "publish_failed"}]
    /\ attempted \in SUBSET Versions
    /\ current \in [Channels -> Versions \cup {None}]
    /\ revisions \in [Channels -> Seq(Revision)]
    /\ lock \in [Channels -> Promoters \cup {None}]
    /\ promotion \in [Promoters -> Promotion]
    /\ begun \in Nat

Init ==
    /\ release = [v \in Versions |-> "none"]
    /\ attempted = {}
    /\ current = [c \in Channels |-> None]
    /\ revisions = [c \in Channels |-> <<>>]
    /\ lock = [c \in Channels |-> None]
    /\ promotion = [p \in Promoters |-> NoPromotion]
    /\ begun = 0

-----------------------------------------------------------------------------
(* Releases                                                                *)

\* The coordinate is unique: a version that has a row is a conflict.
Create(v) ==
    /\ release[v] = "none"
    /\ release' = [release EXCEPT ![v] = "draft"]
    /\ UNCHANGED <<attempted, channelVars, promotionVars>>

\* The rows that refer to a release and do not go with it.
Referenced(v) ==
    \/ v \in attempted
    \/ \E c \in Channels :
        \/ current[c] = v
        \/ \E i \in 1..Len(revisions[c]) : v \in {revisions[c][i].from, revisions[c][i].to}

\* The foreign key of an attempt refuses the DELETE for ever, which ends as a 500.
Cancel(v) ==
    /\ release[v] = "draft"
    /\ ~Referenced(v)
    /\ release' = [release EXCEPT ![v] = "none"]
    /\ UNCHANGED <<attempted, channelVars, promotionVars>>

StartPublish(v) ==
    /\ release[v] = "draft"
    /\ release' = [release EXCEPT ![v] = "publishing"]
    /\ attempted' = attempted \cup {v}
    /\ UNCHANGED <<channelVars, promotionVars>>

\* Finalized, failed, or aborted; the row of the attempt stays.
EndPublish(v) ==
    /\ release[v] = "publishing"
    /\ \E state \in {"published", "publish_failed", "draft"} :
        release' = [release EXCEPT ![v] = state]
    /\ UNCHANGED <<attempted, channelVars, promotionVars>>

-----------------------------------------------------------------------------
(* Promotion                                                               *)

BeginPromote(p, c, v) ==
    /\ promotion[p].at = "idle"
    /\ begun < MaxPromotions
    /\ begun' = begun + 1
    /\ promotion' = [promotion EXCEPT ![p] =
           [at |-> "begun", channel |-> c, version |-> v, from |-> None]]
    /\ UNCHANGED <<releaseVars, channelVars, lock>>

Locked(p) ==
    LET c == promotion[p].channel IN
    /\ lock' = [lock EXCEPT ![c] = p]
    /\ promotion' = [promotion EXCEPT ![p] =
           [promotion[p] EXCEPT !.at = "locked", !.from = current[c]]]
    /\ UNCHANGED <<releaseVars, channelVars, begun>>

\* Mutant: the row is read without FOR UPDATE.
ReadChannel(p) == promotion[p].at = "begun" /\ Locked(p)

\* GetChannelForUpdate: the release it finds will be named in the answer.
LockChannel(p) ==
    /\ promotion[p].at = "begun"
    /\ lock[promotion[p].channel] = None
    /\ Locked(p)

Checked(p) ==
    /\ promotion' = [promotion EXCEPT ![p].at = "checked"]
    /\ UNCHANGED <<releaseVars, channelVars, lock, begun>>

\* Mutant: a release that exists will do.
CheckExists(p) ==
    /\ promotion[p].at = "locked"
    /\ release[promotion[p].version] # "none"
    /\ Checked(p)

\* GetReleaseByVersion takes no lock: what is checked here is used later.
CheckPublished(p) ==
    /\ promotion[p].at = "locked"
    /\ release[promotion[p].version] = "published"
    /\ Checked(p)

Leaves(p) ==
    /\ promotion' = [promotion EXCEPT ![p] = NoPromotion]
    /\ lock' = [c \in Channels |-> IF lock[c] = p THEN None ELSE lock[c]]
    /\ UNCHANGED begun

\* Mutant: the previous release is read after the update.
PromoteThenRead(p) ==
    LET c == promotion[p].channel
        v == promotion[p].version
    IN
    /\ promotion[p].at = "checked"
    /\ current' = [current EXCEPT ![c] = v]
    /\ revisions' = [revisions EXCEPT ![c] =
           Append(revisions[c], [from |-> v, to |-> v])]
    /\ Leaves(p)
    /\ UNCHANGED releaseVars

\* The statement reads the previous release again, and the transaction commits.
PromoteChannel(p) ==
    LET c == promotion[p].channel
        v == promotion[p].version
    IN
    /\ promotion[p].at = "checked"
    /\ current' = [current EXCEPT ![c] = v]
    /\ revisions' = [revisions EXCEPT ![c] =
           Append(revisions[c], [from |-> current[c], to |-> v])]
    /\ Leaves(p)
    /\ UNCHANGED releaseVars

\* Not published, not there, an error or a crash: nothing of it is committed.
EndPromote(p) ==
    /\ promotion[p].at # "idle"
    /\ Leaves(p)
    /\ UNCHANGED <<releaseVars, channelVars>>

-----------------------------------------------------------------------------
(* Specification                                                           *)

PromoteStep(p) ==
    \/ \E c \in Channels, v \in Versions : BeginPromote(p, c, v)
    \/ LockChannel(p) \/ CheckPublished(p) \/ PromoteChannel(p) \/ EndPromote(p)

ReleaseStep(v) ==
    Create(v) \/ Cancel(v) \/ StartPublish(v) \/ EndPublish(v)

Next ==
    \/ \E v \in Versions : ReleaseStep(v)
    \/ \E p \in Promoters : PromoteStep(p)

Spec == Init /\ [][Next]_vars

-----------------------------------------------------------------------------
(* Properties                                                              *)

\* A channel, its whole history and a promotion that has made its check name
\* published releases only, although the check takes no lock on the release.
ChannelsNamePublished ==
    /\ \A c \in Channels :
        /\ current[c] # None => release[current[c]] = "published"
        /\ \A i \in 1..Len(revisions[c]) : release[revisions[c][i].to] = "published"
    /\ \A p \in Promoters :
        promotion[p].at = "checked" => release[promotion[p].version] = "published"

\* In the order of their commits the revisions of a channel form a chain from
\* nothing to the current release, whoever promoted concurrently.
HistoryIsChain ==
    \A c \in Channels :
        LET h == revisions[c] IN
        /\ current[c] = IF h = <<>> THEN None ELSE h[Len(h)].to
        /\ \A i \in 1..Len(h) : h[i].from = IF i = 1 THEN None ELSE h[i - 1].to

\* The previous release that Promote answers was read with the lock and is the
\* one its revision will name.
AnswerMatchesHistory ==
    \A p \in Promoters :
        promotion[p].at \in {"locked", "checked"} =>
            promotion[p].from = current[promotion[p].channel]

\* Who works on a channel has its lock, and says for what.
LocksAreHeld ==
    /\ \A p \in Promoters :
        /\ promotion[p].at # "idle" => promotion[p].channel # None /\ promotion[p].version # None
        /\ promotion[p].at \in {"locked", "checked"} => lock[promotion[p].channel] = p

\* Together with the types these are inductive.
IInv ==
    /\ TypeOK
    /\ ChannelsNamePublished
    /\ HistoryIsChain
    /\ AnswerMatchesHistory
    /\ LocksAreHeld

=============================================================================
