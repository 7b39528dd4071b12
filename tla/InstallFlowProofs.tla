-------------------------- MODULE InstallFlowProofs --------------------------
(***************************************************************************)
(* Theorems about PackageReleases and InstallFlow for any numbers of       *)
(* versions, channels, promoters, hosts, builds, promotions and install    *)
(* keys.                                                                   *)
(***************************************************************************)
EXTENDS InstallFlow, TLAPS, WellFoundedInduction

-----------------------------------------------------------------------------
(* Releases                                                                *)

\* The state of a release may change as long as published stays published.
LEMMA ReleasePreserves ==
    ASSUME IInv, TypeOK', UNCHANGED <<channelVars, promotionVars>>,
           \A v \in Versions : release[v] = "published" => release'[v] = "published"
    PROVE  IInv'
<1> USE DEF channelVars, promotionVars
<1>1. \A c \in Channels : \A i \in 1..Len(revisions[c]) : revisions[c][i].to \in Versions
  <2>1. ASSUME NEW c \in Channels, NEW i \in 1..Len(revisions[c])
        PROVE  revisions[c][i] \in Revision
    <3>1. revisions[c] \in Seq(Revision)
      BY DEF IInv, TypeOK
    <3> QED
      BY <3>1
  <2> QED
    BY <2>1 DEF Revision
<1>2. \A p \in Promoters :
        promotion[p].at = "checked" => promotion[p].version \in Versions
  BY DEF IInv, TypeOK, Promotion, LocksAreHeld
<1>3. \A c \in Channels : current[c] # None => current[c] \in Versions
  BY DEF IInv, TypeOK
<1>4. ChannelsNamePublished'
  BY <1>1, <1>2, <1>3 DEF IInv, ChannelsNamePublished
<1>5. HistoryIsChain' /\ AnswerMatchesHistory' /\ LocksAreHeld'
  BY DEF IInv, HistoryIsChain, AnswerMatchesHistory, LocksAreHeld
<1> QED
  BY <1>4, <1>5 DEF IInv

LEMMA ReleaseStepPreserves ==
    ASSUME IInv, NEW v \in Versions, ReleaseStep(v)
    PROVE  IInv'
<1> USE DEF ReleaseStep, Create, Cancel, StartPublish, EndPublish
<1>1. UNCHANGED <<channelVars, promotionVars>>
  BY DEF ReleaseStep
<1>2. /\ release[v] # "published" \/ release' = release
      /\ \A w \in Versions : w # v => release'[w] = release[w]
  BY DEF IInv, TypeOK
<1>3. TypeOK'
  BY <1>1 DEF IInv, TypeOK, channelVars, promotionVars
<1>4. \A w \in Versions : release[w] = "published" => release'[w] = "published"
  BY <1>2
<1> QED
  BY <1>1, <1>3, <1>4, ReleasePreserves

-----------------------------------------------------------------------------
(* Promotions                                                              *)

\* A promotion goes on with the lock it has, or without one.
LEMMA MovePreserves ==
    ASSUME IInv, NEW p \in Promoters, NEW t \in Promotion,
           promotion' = [promotion EXCEPT ![p] = t], begun' \in Nat,
           UNCHANGED <<releaseVars, channelVars, lock>>,
           t.at # "idle" => t.channel # None /\ t.version # None,
           t.at \in {"locked", "checked"} => lock[t.channel] = p /\ t.from = current[t.channel],
           t.at = "checked" => release[t.version] = "published"
    PROVE  IInv'
<1> USE DEF releaseVars, channelVars
<1>1. /\ promotion'[p] = t
      /\ \A q \in Promoters : q # p => promotion'[q] = promotion[q]
      /\ promotion' \in [Promoters -> Promotion]
  BY DEF IInv, TypeOK
<1>2. TypeOK'
  BY <1>1 DEF IInv, TypeOK
<1>3. ChannelsNamePublished'
  BY <1>1 DEF IInv, ChannelsNamePublished
<1>4. HistoryIsChain'
  BY DEF IInv, HistoryIsChain
<1>5. AnswerMatchesHistory' /\ LocksAreHeld'
  BY <1>1 DEF IInv, AnswerMatchesHistory, LocksAreHeld
<1> QED
  BY <1>2, <1>3, <1>4, <1>5 DEF IInv

LEMMA BeginPreserves ==
    ASSUME IInv, NEW p \in Promoters, NEW c \in Channels, NEW v \in Versions,
           BeginPromote(p, c, v)
    PROVE  IInv'
<1> DEFINE t == [at |-> "begun", channel |-> c, version |-> v, from |-> None]
<1>1. begun \in Nat
  BY DEF IInv, TypeOK
<1>2. t \in Promotion /\ t.at = "begun" /\ t.channel = c /\ t.version = v
  BY <1>1 DEF Promotion
<1>3. /\ promotion' = [promotion EXCEPT ![p] = t]
      /\ begun' \in Nat
      /\ UNCHANGED <<releaseVars, channelVars, lock>>
  BY <1>1 DEF BeginPromote
<1>4. c # None /\ v # None
  BY NoneAssumption
<1> HIDE DEF t
<1> QED
  BY <1>2, <1>3, <1>4, MovePreserves

LEMMA CheckPreserves ==
    ASSUME IInv, NEW p \in Promoters, CheckPublished(p)
    PROVE  IInv'
<1>1. promotion[p] \in Promotion /\ begun' \in Nat
  BY DEF IInv, TypeOK, CheckPublished, Checked
<1>2. PICK t \in Promotion : /\ promotion' = [promotion EXCEPT ![p] = t]
                             /\ t.at = "checked" /\ t.channel = promotion[p].channel
                             /\ t.version = promotion[p].version
                             /\ t.from = promotion[p].from
  <2> DEFINE t == [promotion[p] EXCEPT !.at = "checked"]
  <2>1. t \in Promotion
    BY <1>1 DEF Promotion
  <2>2. promotion' = [promotion EXCEPT ![p] = t]
    BY DEF CheckPublished, Checked, IInv, TypeOK
  <2> QED
    BY <1>1, <2>1, <2>2 DEF Promotion
<1>3. /\ t.channel # None /\ t.version # None /\ release[t.version] = "published"
      /\ lock[t.channel] = p /\ t.from = current[t.channel]
  BY <1>2 DEF CheckPublished, IInv, LocksAreHeld, AnswerMatchesHistory
<1>4. UNCHANGED <<releaseVars, channelVars, lock>>
  BY DEF CheckPublished, Checked
<1> QED
  BY <1>1, <1>2, <1>3, <1>4, MovePreserves

LEMMA LockPreserves ==
    ASSUME IInv, NEW p \in Promoters, LockChannel(p)
    PROVE  IInv'
<1> DEFINE c == promotion[p].channel
<1>1. /\ promotion[p] \in Promotion /\ c \in Channels
      /\ promotion[p].version # None /\ lock[c] = None
  BY DEF LockChannel, IInv, TypeOK, LocksAreHeld, Promotion
<1>2. /\ promotion'[p] = [promotion[p] EXCEPT !.at = "locked", !.from = current[c]]
      /\ \A q \in Promoters : q # p => promotion'[q] = promotion[q]
      /\ promotion' = [promotion EXCEPT ![p] = promotion'[p]]
      /\ lock' = [lock EXCEPT ![c] = p]
      /\ UNCHANGED <<releaseVars, channelVars, begun>>
  BY DEF LockChannel, Locked, IInv, TypeOK
<1>3. /\ promotion'[p] \in Promotion
      /\ promotion'[p].at = "locked" /\ promotion'[p].channel = c
      /\ promotion'[p].version = promotion[p].version /\ promotion'[p].from = current[c]
  <2>1. current[c] \in Versions \cup {None}
    BY <1>1 DEF IInv, TypeOK
  <2> QED
    BY <1>1, <1>2, <2>1 DEF Promotion
<1>4. \A q \in Promoters : promotion[q].at \in {"locked", "checked"} => promotion[q].channel # c
  BY <1>1, NoneAssumption DEF IInv, LocksAreHeld
<1> HIDE DEF c
<1>5. TypeOK'
  <2>1. promotion' \in [Promoters -> Promotion]
    BY <1>2, <1>3 DEF IInv, TypeOK
  <2>2. lock' \in [Channels -> Promoters \cup {None}]
    BY <1>1, <1>2 DEF IInv, TypeOK
  <2> QED
    BY <1>2, <2>1, <2>2 DEF IInv, TypeOK, releaseVars, channelVars
<1>6. ChannelsNamePublished'
  <2>1. \A q \in Promoters : promotion'[q].at = "checked" =>
            release'[promotion'[q].version] = "published"
    BY <1>2, <1>3 DEF IInv, ChannelsNamePublished, releaseVars
  <2> QED
    BY <1>2, <2>1 DEF IInv, ChannelsNamePublished, releaseVars, channelVars
<1>7. HistoryIsChain'
  BY <1>2 DEF IInv, HistoryIsChain, channelVars
<1>8. AnswerMatchesHistory'
  BY <1>2, <1>3 DEF IInv, AnswerMatchesHistory, channelVars
<1>9. LocksAreHeld'
  <2>1. \A q \in Promoters : promotion[q].at \in {"locked", "checked"} =>
            lock'[promotion[q].channel] = lock[promotion[q].channel]
    BY <1>2, <1>4 DEF IInv, TypeOK, Promotion, LocksAreHeld
  <2>2. lock'[c] = p
    BY <1>1, <1>2 DEF IInv, TypeOK
  <2>3. c # None
    BY <1>1, NoneAssumption
  <2>4. ASSUME NEW q \in Promoters
        PROVE  /\ promotion'[q].at # "idle" =>
                    promotion'[q].channel # None /\ promotion'[q].version # None
               /\ promotion'[q].at \in {"locked", "checked"} =>
                    lock'[promotion'[q].channel] = q
    <3>1. CASE q = p
      BY <1>1, <1>3, <2>2, <2>3, <3>1
    <3>2. CASE q # p
      BY <1>2, <2>1, <3>2 DEF IInv, LocksAreHeld
    <3> QED
      BY <3>1, <3>2
  <2> QED
    BY <2>4 DEF LocksAreHeld
<1> QED
  BY <1>5, <1>6, <1>7, <1>8, <1>9 DEF IInv

\* What the end of a promotion does to promotions and locks.
LEMMA LeavingPreserves ==
    ASSUME IInv, NEW p \in Promoters, Leaves(p)
    PROVE  /\ promotion' \in [Promoters -> Promotion]
           /\ promotion'[p].at = "idle"
           /\ \A q \in Promoters : q # p => promotion'[q] = promotion[q]
           /\ lock' \in [Channels -> Promoters \cup {None}]
           /\ begun' = begun
           /\ LocksAreHeld'
<1>1. NoPromotion \in Promotion /\ NoPromotion.at = "idle"
  BY DEF NoPromotion, Promotion
<1>2. /\ promotion' \in [Promoters -> Promotion]
      /\ promotion'[p].at = "idle"
      /\ \A q \in Promoters : q # p => promotion'[q] = promotion[q]
  BY <1>1 DEF Leaves, IInv, TypeOK
<1>3. /\ lock' \in [Channels -> Promoters \cup {None}]
      /\ \A c \in Channels : lock[c] # p => lock'[c] = lock[c]
      /\ begun' = begun
  BY DEF Leaves, IInv, TypeOK
<1>4. \A q \in Promoters : promotion[q].at \in {"locked", "checked"} =>
        promotion[q].channel \in Channels
  BY DEF IInv, TypeOK, LocksAreHeld, Promotion
<1>5. LocksAreHeld'
  BY <1>2, <1>3, <1>4, NoneAssumption DEF IInv, LocksAreHeld
<1> QED
  BY <1>2, <1>3, <1>5

LEMMA EndPreserves ==
    ASSUME IInv, NEW p \in Promoters, EndPromote(p)
    PROVE  IInv'
<1> USE DEF EndPromote, releaseVars, channelVars
<1>1. /\ promotion' \in [Promoters -> Promotion]
      /\ promotion'[p].at = "idle"
      /\ \A q \in Promoters : q # p => promotion'[q] = promotion[q]
      /\ lock' \in [Channels -> Promoters \cup {None}]
      /\ begun' = begun
      /\ LocksAreHeld'
  BY LeavingPreserves
<1>2. UNCHANGED <<releaseVars, channelVars>>
  BY DEF EndPromote
<1>3. TypeOK'
  BY <1>1, <1>2 DEF IInv, TypeOK
<1>4. ChannelsNamePublished' /\ HistoryIsChain' /\ AnswerMatchesHistory'
  BY <1>1, <1>2 DEF IInv, ChannelsNamePublished, HistoryIsChain, AnswerMatchesHistory
<1> QED
  BY <1>1, <1>3, <1>4 DEF IInv

LEMMA PromotePreserves ==
    ASSUME IInv, NEW p \in Promoters, PromoteChannel(p)
    PROVE  IInv'
<1> DEFINE c == promotion[p].channel
           v == promotion[p].version
           new == [from |-> current[c], to |-> v]
<1>1. /\ promotion' \in [Promoters -> Promotion]
      /\ promotion'[p].at = "idle"
      /\ \A q \in Promoters : q # p => promotion'[q] = promotion[q]
      /\ lock' \in [Channels -> Promoters \cup {None}]
      /\ begun' = begun
      /\ LocksAreHeld'
  BY LeavingPreserves DEF PromoteChannel
<1>2. /\ c \in Channels /\ v \in Versions /\ release[v] = "published" /\ lock[c] = p
  BY DEF PromoteChannel, IInv, TypeOK, Promotion, LocksAreHeld, ChannelsNamePublished
<1>3. new \in Revision /\ new.from = current[c] /\ new.to = v
  BY <1>2 DEF Revision, IInv, TypeOK
<1>4. /\ current' = [current EXCEPT ![c] = v]
      /\ revisions' = [revisions EXCEPT ![c] = Append(revisions[c], new)]
      /\ UNCHANGED releaseVars
  BY DEF PromoteChannel
<1> HIDE DEF c, v, new
<1>5. /\ revisions[c] \in Seq(Revision)
      /\ Len(revisions[c]) \in Nat
      /\ revisions'[c] = Append(revisions[c], new)
      /\ current'[c] = v
      /\ \A d \in Channels : d # c => revisions'[d] = revisions[d] /\ current'[d] = current[d]
  BY <1>2, <1>4 DEF IInv, TypeOK
<1>6. /\ Len(revisions'[c]) = Len(revisions[c]) + 1
      /\ revisions'[c][Len(revisions[c]) + 1] = new
      /\ \A i \in 1..Len(revisions[c]) : revisions'[c][i] = revisions[c][i]
      /\ revisions'[c] \in Seq(Revision)
      /\ revisions'[c] # <<>>
  BY <1>3, <1>5
<1>7. TypeOK'
  <2>1. revisions' \in [Channels -> Seq(Revision)]
    BY <1>2, <1>4, <1>5, <1>6 DEF IInv, TypeOK
  <2> QED
    BY <1>1, <1>2, <1>4, <2>1 DEF IInv, TypeOK, releaseVars
<1>8. ChannelsNamePublished'
  <2>1. ASSUME NEW d \in Channels
        PROVE  /\ current'[d] # None => release'[current'[d]] = "published"
               /\ \A i \in 1..Len(revisions'[d]) : release'[revisions'[d][i].to] = "published"
    <3>1. CASE d # c
      BY <1>4, <1>5, <3>1 DEF IInv, ChannelsNamePublished, releaseVars
    <3>2. CASE d = c
      <4>1. \A i \in 1..Len(revisions'[c]) :
              i \in 1..Len(revisions[c]) \/ i = Len(revisions[c]) + 1
        BY <1>5, <1>6
      <4> QED
        BY <1>2, <1>3, <1>4, <1>5, <1>6, <3>2, <4>1 DEF IInv, ChannelsNamePublished, releaseVars
    <3> QED
      BY <3>1, <3>2
  <2>2. \A q \in Promoters :
          promotion'[q].at = "checked" => release'[promotion'[q].version] = "published"
    BY <1>1, <1>4 DEF IInv, ChannelsNamePublished, releaseVars
  <2> QED
    BY <2>1, <2>2 DEF ChannelsNamePublished
<1>9. HistoryIsChain'
  <2>1. ASSUME NEW d \in Channels, d # c
        PROVE  /\ current'[d] = IF revisions'[d] = <<>> THEN None
                                ELSE revisions'[d][Len(revisions'[d])].to
               /\ \A i \in 1..Len(revisions'[d]) :
                    revisions'[d][i].from = IF i = 1 THEN None ELSE revisions'[d][i - 1].to
    BY <1>5, <2>1 DEF IInv, HistoryIsChain
  <2>2. current'[c] = revisions'[c][Len(revisions'[c])].to
    BY <1>3, <1>5, <1>6
  <2>3. ASSUME NEW i \in 1..Len(revisions'[c])
        PROVE  revisions'[c][i].from = IF i = 1 THEN None ELSE revisions'[c][i - 1].to
    <3>1. CASE i \in 1..Len(revisions[c])
      <4>1. i # 1 => i - 1 \in 1..Len(revisions[c])
        BY <1>5, <3>1
      <4>2. revisions[c][i].from = IF i = 1 THEN None ELSE revisions[c][i - 1].to
        BY <1>2, <3>1 DEF IInv, HistoryIsChain
      <4>3. revisions'[c][i] = revisions[c][i]
        BY <1>6, <3>1
      <4>4. i # 1 => revisions'[c][i - 1] = revisions[c][i - 1]
        BY <1>6, <4>1
      <4> QED
        BY <4>2, <4>3, <4>4
    <3>2. CASE i = Len(revisions[c]) + 1 /\ Len(revisions[c]) = 0
      <4>1. revisions[c] = <<>>
        BY <1>5, <3>2
      <4> QED
        BY <1>2, <1>3, <1>6, <3>2, <4>1 DEF IInv, HistoryIsChain
    <3>3. CASE i = Len(revisions[c]) + 1 /\ Len(revisions[c]) # 0
      <4>1. revisions[c] # <<>> /\ Len(revisions[c]) \in 1..Len(revisions[c])
        BY <1>5, <3>3
      <4>2. current[c] = revisions[c][Len(revisions[c])].to
        BY <1>2, <4>1 DEF IInv, HistoryIsChain
      <4> QED
        BY <1>3, <1>5, <1>6, <3>3, <4>1, <4>2
    <3> QED
      BY <1>5, <1>6, <3>1, <3>2, <3>3
  <2> QED
    BY <1>6, <2>1, <2>2, <2>3 DEF HistoryIsChain
<1>10. AnswerMatchesHistory'
  <2>1. \A q \in Promoters : q # p /\ promotion[q].at \in {"locked", "checked"} =>
          promotion[q].channel \in Channels /\ promotion[q].channel # c
    BY <1>2 DEF IInv, TypeOK, Promotion, LocksAreHeld
  <2> QED
    BY <1>1, <1>5, <2>1 DEF IInv, AnswerMatchesHistory
<1> QED
  BY <1>1, <1>7, <1>8, <1>9, <1>10 DEF IInv

-----------------------------------------------------------------------------
(* Versions                                                                *)

\* A set of numbers has a least one, by which a set that contains 0 and with each number
\* the next one contains them all.
LEMMA Least ==
    ASSUME NEW T, T \subseteq Nat, T # {}
    PROVE  \E n \in T : \A m \in T : n <= m
<1> DEFINE R == OpToRel(<, Nat)
<1>1. IsWellFoundedOn(R, Nat)
  BY NatLessThanWellFounded
<1>2. \A m, n \in Nat : m < n => <<m, n>> \in R
  BY DEF OpToRel
<1> HIDE DEF R
<1>3. \E n \in T : \A m \in T : ~ (<<m, n>> \in R)
  BY <1>1, WFMin
<1>4. PICK n \in T : \A m \in T : ~ (<<m, n>> \in R)
  BY <1>3
<1>5. ASSUME NEW m \in T PROVE n <= m
  <2>1. m \in Nat /\ n \in Nat /\ ~ (m < n)
    BY <1>2, <1>4
  <2> QED
    BY <2>1
<1> QED
  BY <1>5

LEMMA Upwards ==
    ASSUME NEW T, 0 \in T, \A n \in Nat : n \in T => n + 1 \in T
    PROVE  Nat \subseteq T
<1> DEFINE gaps == Nat \ T
<1>1. SUFFICES ASSUME gaps # {} PROVE FALSE
  OBVIOUS
<1>2. gaps \subseteq Nat
  OBVIOUS
<1> HIDE DEF gaps
<1>3. PICK n \in gaps : \A m \in gaps : n <= m
  BY <1>1, <1>2, Least
<1>4. n \in Nat /\ n \notin T /\ n # 0
  BY <1>3 DEF gaps
<1>5. n - 1 \in Nat /\ n - 1 \notin gaps
  BY <1>3, <1>4
<1>6. n - 1 \in T
  BY <1>5 DEF gaps
<1>7. (n - 1) + 1 = n
  BY <1>4
<1> QED
  BY <1>4, <1>5, <1>6, <1>7

\* The loop returns the first comparison that is not 0, if there is one.
LEMMA FirstDifferenceIs ==
    ASSUME NEW L \in Nat, NEW c \in [1..L -> {-1, 0, 1}]
    PROVE  \/ FirstDifference(c) = 0 /\ \A i \in 1..L : c[i] = 0
           \/ \E i \in 1..L : /\ c[i] # 0 /\ FirstDifference(c) = c[i]
                              /\ \A j \in 1..L : j < i => c[j] = 0
<1> DEFINE places == {i \in DOMAIN c : c[i] # 0}
           i0 == CHOOSE i \in places : \A j \in places : i <= j
<1>1. DOMAIN c = 1..L
  OBVIOUS
<1>2. FirstDifference(c) = IF places = {} THEN 0 ELSE c[i0]
  BY DEF FirstDifference
<1>3. CASE places = {}
  BY <1>1, <1>2, <1>3
<1>4. CASE places # {}
  <2>1. places \subseteq Nat /\ places \subseteq 1..L
    BY <1>1
  <2>2. \E i \in places : \A j \in places : i <= j
    <3> HIDE DEF places
    <3> QED
      BY <1>4, <2>1, Least
  <2>3. i0 \in places /\ \A j \in places : i0 <= j
    BY <2>2
  <2>4. i0 \in 1..L /\ c[i0] # 0
    BY <2>1, <2>3
  <2>5. \A j \in 1..L : j < i0 => c[j] = 0
    <3> SUFFICES ASSUME NEW j \in 1..L, j < i0, c[j] # 0 PROVE FALSE
      OBVIOUS
    <3>1. j \in places
      BY <1>1
    <3> HIDE DEF i0, places
    <3> QED
      BY <3>1, <2>3, <2>4
  <2>6. FirstDifference(c) = c[i0]
    BY <1>2, <1>4
  <2> HIDE DEF i0, places
  <2> QED
    BY <2>4, <2>5, <2>6
<1> QED
  BY <1>3, <1>4

\* By the comparisons c of their common places, l comes before r, after it, or is the same.
Before(l, r, c) ==
    \E n \in 0..Len(l) :
        /\ n < Len(r)
        /\ \A i \in 1..n : c[i] = 0
        /\ n = Len(l) \/ c[n + 1] = -1

After(l, r, c) ==
    \E n \in 0..Len(r) :
        /\ n < Len(l)
        /\ \A i \in 1..n : c[i] = 0
        /\ n = Len(r) \/ c[n + 1] = 1

Same(l, r, c) == Len(l) = Len(r) /\ \A i \in 1..Len(l) : c[i] = 0

\* The outcome of a comparison says which is below the other, and nothing else.
Tells(outcome, below, above, same) ==
    \/ outcome = -1 /\ below /\ ~above /\ ~same
    \/ outcome = 1 /\ above /\ ~below /\ ~same
    \/ outcome = 0 /\ same /\ ~below /\ ~above

\* A comparison of lists, of anything whose comparisons are c.
LEMMA ListsAreCompared ==
    ASSUME NEW l, NEW r, Len(l) \in Nat, Len(r) \in Nat,
           NEW c \in [Common(l, r) -> {-1, 0, 1}]
    PROVE  Tells(CompareLists(l, r, c), Before(l, r, c), After(l, r, c), Same(l, r, c))
<1> DEFINE L == IF Len(l) < Len(r) THEN Len(l) ELSE Len(r)
<1>1. /\ L \in Nat /\ c \in [1..L -> {-1, 0, 1}]
      /\ L <= Len(l) /\ L <= Len(r) /\ (L = Len(l) \/ L = Len(r))
  BY DEF Common
<1> HIDE DEF L
<1>2. CASE FirstDifference(c) = 0 /\ \A i \in 1..L : c[i] = 0
  <2>1. CompareLists(l, r, c) = Sign(Len(l) - Len(r))
    BY <1>2 DEF CompareLists
  <2>2. CASE Len(l) = Len(r)
    <3>1. CompareLists(l, r, c) = 0
      BY <2>1, <2>2 DEF Sign
    <3>2. Same(l, r, c)
      BY <1>1, <1>2, <2>2 DEF Same
    <3>3. ~Before(l, r, c) /\ ~After(l, r, c)
      BY <1>1, <1>2, <2>2 DEF Before, After
    <3> QED
      BY <3>1, <3>2, <3>3 DEF Tells
  <2>3. CASE Len(l) < Len(r)
    <3>1. CompareLists(l, r, c) = -1
      BY <2>1, <2>3 DEF Sign
    <3>2. Before(l, r, c)
      BY <1>1, <1>2, <2>3 DEF Before
    <3>3. ~After(l, r, c)
      BY <1>1, <1>2, <2>3 DEF After
    <3> QED
      BY <2>3, <3>1, <3>2, <3>3 DEF Tells, Same
  <2>4. CASE Len(l) > Len(r)
    <3>1. CompareLists(l, r, c) = 1
      BY <2>1, <2>4 DEF Sign
    <3>2. After(l, r, c)
      BY <1>1, <1>2, <2>4 DEF After
    <3>3. ~Before(l, r, c)
      BY <1>1, <1>2, <2>4 DEF Before
    <3> QED
      BY <2>4, <3>1, <3>2, <3>3 DEF Tells, Same
  <2> QED
    BY <2>2, <2>3, <2>4
<1>3. ASSUME NEW i \in 1..L, c[i] # 0, FirstDifference(c) = c[i], \A j \in 1..L : j < i => c[j] = 0
      PROVE  Tells(CompareLists(l, r, c), Before(l, r, c), After(l, r, c), Same(l, r, c))
  <2>1. CompareLists(l, r, c) = c[i]
    BY <1>3 DEF CompareLists
  <2>2. ~Same(l, r, c)
    BY <1>1, <1>3 DEF Same
  <2>3. /\ i - 1 \in 0..Len(l) /\ i - 1 < Len(l)
        /\ i - 1 \in 0..Len(r) /\ i - 1 < Len(r)
        /\ (i - 1) + 1 = i
        /\ \A j \in 1..(i - 1) : c[j] = 0
    BY <1>1, <1>3
  <2>4. ASSUME NEW n \in Nat, n < Len(l) \/ n < Len(r), n <= L, \A j \in 1..n : c[j] = 0,
               n = L \/ c[n + 1] # 0
        PROVE  n + 1 = i /\ n # Len(l) /\ n # Len(r)
    <3>1. ~(i <= n)
      BY <1>3, <2>4
    <3>2. ~(n + 1 < i)
      BY <1>1, <1>3, <2>4
    <3> QED
      BY <1>1, <3>1, <3>2
  <2>5. CASE c[i] = -1
    <3>1. Before(l, r, c)
      BY <2>3, <2>5 DEF Before
    <3>2. ~After(l, r, c)
      <4> SUFFICES ASSUME NEW n \in 0..Len(r), n < Len(l), \A j \in 1..n : c[j] = 0,
                          n = Len(r) \/ c[n + 1] = 1
                   PROVE FALSE
        BY DEF After
      <4>1. n <= L /\ (n = L \/ c[n + 1] # 0)
        BY <1>1
      <4> QED
        BY <2>4, <2>5, <4>1
    <3> QED
      BY <2>1, <2>2, <2>5, <3>1, <3>2 DEF Tells
  <2>6. CASE c[i] = 1
    <3>1. After(l, r, c)
      BY <2>3, <2>6 DEF After
    <3>2. ~Before(l, r, c)
      <4> SUFFICES ASSUME NEW n \in 0..Len(l), n < Len(r), \A j \in 1..n : c[j] = 0,
                          n = Len(l) \/ c[n + 1] = -1
                   PROVE FALSE
        BY DEF Before
      <4>1. n <= L /\ (n = L \/ c[n + 1] # 0)
        BY <1>1
      <4> QED
        BY <2>4, <2>6, <4>1
    <3> QED
      BY <2>1, <2>2, <2>6, <3>1, <3>2 DEF Tells
  <2>7. c[i] \in {-1, 0, 1}
    BY <1>1
  <2> QED
    BY <1>3, <2>5, <2>6, <2>7
<1> QED
  BY <1>1, <1>2, <1>3, FirstDifferenceIs


\* The places that two lists have in common.
LEMMA CommonIs ==
    ASSUME NEW X, NEW a \in Seq(X), NEW b \in Seq(X), NEW i \in Common(a, b)
    PROVE  i \in 1..Len(a) /\ i \in 1..Len(b) /\ a[i] \in X /\ b[i] \in X
<1>1. Len(a) \in Nat /\ Len(b) \in Nat
  OBVIOUS
<1>2. i \in 1..Len(a) /\ i \in 1..Len(b)
  BY <1>1 DEF Common
<1> QED
  BY <1>2

LEMMA CommonHas ==
    ASSUME NEW a, NEW b, Len(a) \in Nat, Len(b) \in Nat, NEW n \in Nat, n <= Len(a), n <= Len(b)
    PROVE  \A i \in 1..n : i \in Common(a, b)
BY DEF Common

\* Sequences are equal that agree in each place.
LEMMA ListsAreEqual ==
    ASSUME NEW X, NEW a \in Seq(X), NEW b \in Seq(X), Len(a) = Len(b),
           \A i \in 1..Len(a) : a[i] = b[i]
    PROVE  a = b
OBVIOUS

\* Go's order of strings.
LEMMA TextIsCompared ==
    ASSUME NEW a \in Seq(Int), NEW b \in Seq(Int)
    PROVE  Tells(CompareText(a, b), TextBelow(a, b), TextBelow(b, a), a = b)
<1> DEFINE c == [i \in Common(a, b) |-> Sign(a[i] - b[i])]
<1>1. \A i \in Common(a, b) :
          /\ c[i] \in {-1, 0, 1}
          /\ c[i] = 0 <=> a[i] = b[i]
          /\ c[i] = -1 <=> a[i] < b[i]
          /\ c[i] = 1 <=> b[i] < a[i]
  <2> SUFFICES ASSUME NEW i \in Common(a, b) PROVE
          /\ c[i] \in {-1, 0, 1}
          /\ c[i] = 0 <=> a[i] = b[i]
          /\ c[i] = -1 <=> a[i] < b[i]
          /\ c[i] = 1 <=> b[i] < a[i]
    OBVIOUS
  <2>1. a[i] \in Int /\ b[i] \in Int /\ c[i] = Sign(a[i] - b[i])
    BY CommonIs
  <2> HIDE DEF c
  <2> QED
    BY <2>1 DEF Sign
<1>2. c \in [Common(a, b) -> {-1, 0, 1}]
  BY <1>1
<1>3. Len(a) \in Nat /\ Len(b) \in Nat
  OBVIOUS
<1>4. CompareText(a, b) = CompareLists(a, b, c)
  BY DEF CompareText
<1> HIDE DEF c
<1>5. Tells(CompareLists(a, b, c), Before(a, b, c), After(a, b, c), Same(a, b, c))
  BY <1>2, <1>3, ListsAreCompared
<1>6. \A i \in 1..Len(a) : i <= Len(b) => i \in Common(a, b)
  BY <1>3 DEF Common
<1>7. Before(a, b, c) <=> TextBelow(a, b)
  <2>1. ASSUME NEW n \in 0..Len(a), n < Len(b)
        PROVE  /\ (\A i \in 1..n : c[i] = 0) <=> (\A i \in 1..n : a[i] = b[i])
               /\ n # Len(a) => (c[n + 1] = -1 <=> a[n + 1] < b[n + 1])
    <3>1. \A i \in 1..n : i \in Common(a, b)
      BY <1>3, <1>6, <2>1
    <3>2. n # Len(a) => n + 1 \in Common(a, b)
      BY <1>3, <1>6, <2>1
    <3> QED
      BY <1>1, <3>1, <3>2
  <2> QED
    BY <2>1 DEF Before, TextBelow
<1>8. After(a, b, c) <=> TextBelow(b, a)
  <2>1. ASSUME NEW n \in 0..Len(b), n < Len(a)
        PROVE  /\ (\A i \in 1..n : c[i] = 0) <=> (\A i \in 1..n : b[i] = a[i])
               /\ n # Len(b) => (c[n + 1] = 1 <=> b[n + 1] < a[n + 1])
    <3>1. \A i \in 1..n : i \in Common(a, b)
      BY <1>3, <1>6, <2>1
    <3>2. n # Len(b) => n + 1 \in Common(a, b)
      BY <1>3, <1>6, <2>1
    <3> QED
      BY <1>1, <3>1, <3>2
  <2> QED
    BY <2>1 DEF After, TextBelow
<1>9. Same(a, b, c) <=> a = b
  <2>1. ASSUME Len(a) = Len(b)
        PROVE  (\A i \in 1..Len(a) : c[i] = 0) <=> (\A i \in 1..Len(a) : a[i] = b[i])
    <3>1. \A i \in 1..Len(a) : i \in Common(a, b)
      BY <1>3, <2>1, CommonHas
    <3>2. \A i \in 1..Len(a) : c[i] = 0 <=> a[i] = b[i]
      BY <1>1, <3>1
    <3> QED
      BY <3>2
  <2>2. Same(a, b, c) => a = b
    BY <2>1, ListsAreEqual DEF Same
  <2>3. a = b => Same(a, b, c)
    BY <2>1 DEF Same
  <2> QED
    BY <2>2, <2>3
<1> QED
  BY <1>4, <1>5, <1>7, <1>8, <1>9 DEF Tells

\* The digits of a number.
Digits(a) == a \in Seq(Int) /\ IsNumeric(a)

LEMMA DigitsAre ==
    ASSUME NEW a, Digits(a)
    PROVE  Len(a) \in Nat /\ Len(a) > 0 /\ \A i \in 1..Len(a) : a[i] \in 0..9
BY DEF Digits, IsNumeric

\* The recursion of Prefixes has a solution.
LEMMA PrefixesAre ==
    ASSUME NEW a, Digits(a)
    PROVE  /\ Prefixes(a) \in [0..Len(a) -> Nat]
           /\ Prefixes(a)[0] = 0
           /\ \A n \in 1..Len(a) : Prefixes(a)[n] = 10 * Prefixes(a)[n - 1] + a[n]
<1> DEFINE L == Len(a)
           Step(f, m) == \A n \in 0..m : f[n] = IF n = 0 THEN 0 ELSE 10 * f[n - 1] + a[n]
           T == {m \in Nat : m <= L => \E f \in [0..m -> Nat] : Step(f, m)}
<1>1. L \in Nat /\ \A i \in 1..L : a[i] \in 0..9
  BY DigitsAre
<1> HIDE DEF L
<1>2. 0 \in T
  <2>1. [n \in 0..0 |-> 0] \in [0..0 -> Nat] /\ Step([n \in 0..0 |-> 0], 0)
    OBVIOUS
  <2> QED
    BY <2>1
<1>3. ASSUME NEW m \in Nat, m \in T PROVE m + 1 \in T
  <2> SUFFICES ASSUME m + 1 <= L PROVE \E f \in [0..(m + 1) -> Nat] : Step(f, m + 1)
    OBVIOUS
  <2>1. PICK f \in [0..m -> Nat] : Step(f, m)
    BY <1>1, <1>3
  <2>2. f[m] \in Nat /\ a[m + 1] \in Nat
    BY <1>1
  <2> DEFINE g == [n \in 0..(m + 1) |-> IF n = m + 1 THEN 10 * f[m] + a[m + 1] ELSE f[n]]
  <2>3. g \in [0..(m + 1) -> Nat]
    BY <2>2
  <2>4. g[m + 1] = 10 * g[m] + a[m + 1] /\ \A n \in 0..m : g[n] = f[n]
    OBVIOUS
  <2> HIDE DEF g
  <2>5. ASSUME NEW n \in 0..(m + 1)
        PROVE  g[n] = IF n = 0 THEN 0 ELSE 10 * g[n - 1] + a[n]
    <3>1. CASE n = m + 1
      BY <2>4, <3>1
    <3>2. CASE n \in 0..m
      BY <2>1, <2>4, <3>2
    <3> QED
      BY <3>1, <3>2
  <2> QED
    BY <2>3, <2>5
<1>4. L \in T
  <2> HIDE DEF T
  <2> QED
    BY <1>1, <1>2, <1>3, Upwards
<1>5. PICK f \in [0..L -> Nat] : Step(f, L)
  BY <1>1, <1>4
<1>6. f = [n \in 0..L |-> IF n = 0 THEN 0 ELSE 10 * f[n - 1] + a[n]]
  BY <1>5
<1>7. Prefixes(a) = CHOOSE p : p = [n \in 0..L |-> IF n = 0 THEN 0 ELSE 10 * p[n - 1] + a[n]]
  BY DEF Prefixes, L
<1> DEFINE p == Prefixes(a)
<1>8. p = [n \in 0..L |-> IF n = 0 THEN 0 ELSE 10 * p[n - 1] + a[n]]
  BY <1>6, <1>7
<1> HIDE DEF p
<1>9. p[0] = 0 /\ \A n \in 1..L : p[n] = 10 * p[n - 1] + a[n]
  BY <1>1, <1>8
<1> DEFINE N == {n \in Nat : n <= L => p[n] \in Nat}
<1>10. 0 \in N
  BY <1>9
<1>11. ASSUME NEW n \in Nat, n \in N PROVE n + 1 \in N
  <2> SUFFICES ASSUME n + 1 <= L PROVE p[n + 1] \in Nat
    OBVIOUS
  <2>1. n + 1 \in 1..L /\ (n + 1) - 1 = n /\ n <= L
    BY <1>1
  <2>2. p[n] \in Nat
    BY <1>11, <2>1
  <2>3. a[n + 1] \in Nat
    <3>1. a[n + 1] \in 0..9
      BY <1>1, <2>1
    <3> QED
      BY <3>1
  <2>4. p[n + 1] = 10 * p[n] + a[n + 1]
    BY <1>9, <2>1
  <2> QED
    BY <2>2, <2>3, <2>4
<1>12. Nat \subseteq N
  <2> HIDE DEF N
  <2> QED
    BY <1>10, <1>11, Upwards
<1>13. p \in [0..L -> Nat]
  <2>1. \A n \in 0..L : p[n] \in Nat
    BY <1>1, <1>12
  <2> QED
    BY <1>8, <2>1
<1> QED
  BY <1>9, <1>13 DEF p, L


\* Another digit does not change which of two numbers is the smaller.
LEMMA DigitAppended ==
    ASSUME NEW x \in Nat, NEW y \in Nat, NEW c \in 0..9, NEW d \in 0..9
    PROVE  /\ x < y => 10 * x + c < 10 * y + d
           /\ x < y => x < 10 * y + d
           /\ x = y /\ c < d => 10 * x + c < 10 * y + d
OBVIOUS

\* A number with more digits than another one, the first of which is not zero, is the
\* greater.
LEMMA LongerIsGreater ==
    ASSUME NEW a, NEW b, Digits(a), Digits(b), NoLeadingZero(b), Len(a) < Len(b)
    PROVE  Value(a) < Value(b)
<1> DEFINE K == Len(a)
           L == Len(b)
           p == Prefixes(a)
           q == Prefixes(b)
<1>1. K \in Nat /\ L \in Nat /\ K > 0 /\ K < L
  BY DigitsAre
<1>2. (\A i \in 1..K : a[i] \in 0..9) /\ (\A i \in 1..L : b[i] \in 0..9)
  BY DigitsAre
<1>3. p \in [0..K -> Nat] /\ p[0] = 0 /\ \A n \in 1..K : p[n] = 10 * p[n - 1] + a[n]
  BY PrefixesAre
<1>4. q \in [0..L -> Nat] /\ q[0] = 0 /\ \A n \in 1..L : q[n] = 10 * q[n - 1] + b[n]
  BY PrefixesAre
<1>5. b[1] # 0
  BY <1>1 DEF NoLeadingZero
<1>6. Value(a) = p[K] /\ Value(b) = q[L]
  BY DEF Value
<1> HIDE DEF K, L, p, q
<1> DEFINE T == {n \in Nat : n <= K => p[n] < q[n + 1]}
           U == {n \in Nat : K + 1 + n <= L => p[K] < q[K + 1 + n]}
<1>7. 0 \in T
  <2>1. 1 \in 1..L /\ 1 - 1 = 0
    BY <1>1
  <2>2. b[1] \in 0..9 /\ q[1] = 10 * q[0] + b[1]
    BY <1>2, <1>4, <2>1
  <2> QED
    BY <1>3, <1>4, <1>5, <2>2
<1>8. ASSUME NEW n \in Nat, n \in T PROVE n + 1 \in T
  <2> SUFFICES ASSUME n + 1 <= K PROVE p[n + 1] < q[(n + 1) + 1]
    OBVIOUS
  <2>1. /\ n + 1 \in 1..K /\ (n + 1) - 1 = n /\ n <= K
        /\ (n + 1) + 1 \in 1..L /\ ((n + 1) + 1) - 1 = n + 1
        /\ n \in 0..K /\ n + 1 \in 0..L
    BY <1>1
  <2>2. p[n] < q[n + 1]
    BY <1>8, <2>1
  <2>3. p[n + 1] = 10 * p[n] + a[n + 1] /\ a[n + 1] \in 0..9
    BY <1>2, <1>3, <2>1
  <2>4. q[(n + 1) + 1] = 10 * q[n + 1] + b[(n + 1) + 1] /\ b[(n + 1) + 1] \in 0..9
    BY <1>2, <1>4, <2>1
  <2>5. p[n] \in Nat /\ q[n + 1] \in Nat
    BY <1>3, <1>4, <2>1
  <2> QED
    BY <2>2, <2>3, <2>4, <2>5, DigitAppended
<1>9. p[K] < q[K + 1]
  <2> HIDE DEF T
  <2>1. K \in T
    BY <1>1, <1>7, <1>8, Upwards
  <2> QED
    BY <1>1, <2>1 DEF T
<1>10. 0 \in U
  BY <1>1, <1>9
<1>11. ASSUME NEW n \in Nat, n \in U PROVE n + 1 \in U
  <2> SUFFICES ASSUME K + 1 + (n + 1) <= L PROVE p[K] < q[K + 1 + (n + 1)]
    OBVIOUS
  <2>1. /\ K + 1 + (n + 1) \in 1..L /\ (K + 1 + (n + 1)) - 1 = K + 1 + n
        /\ K + 1 + n <= L /\ K + 1 + n \in 0..L
        /\ K \in 0..K
    BY <1>1
  <2>2. p[K] < q[K + 1 + n]
    BY <1>11, <2>1
  <2>3. q[K + 1 + (n + 1)] = 10 * q[K + 1 + n] + b[K + 1 + (n + 1)] /\ b[K + 1 + (n + 1)] \in 0..9
    BY <1>2, <1>4, <2>1
  <2>4. p[K] \in Nat /\ q[K + 1 + n] \in Nat
    BY <1>3, <1>4, <2>1
  <2>5. 0 \in 0..9
    OBVIOUS
  <2> QED
    BY <2>2, <2>3, <2>4, <2>5, DigitAppended
<1>12. L - (K + 1) \in U
  <2> HIDE DEF U
  <2>1. L - (K + 1) \in Nat
    BY <1>1
  <2> QED
    BY <2>1, <1>10, <1>11, Upwards
<1>13. K + 1 + (L - (K + 1)) = L
  BY <1>1
<1> QED
  BY <1>1, <1>6, <1>12, <1>13

\* Of two numbers with the same digits up to a place, the one with the smaller digit there
\* is the smaller.
LEMMA FirstDigitDecides ==
    ASSUME NEW a, NEW b, Digits(a), Digits(b), Len(a) = Len(b), TextBelow(a, b)
    PROVE  Value(a) < Value(b)
<1> DEFINE L == Len(a)
           p == Prefixes(a)
           q == Prefixes(b)
<1>1. L \in Nat /\ L > 0 /\ (\A i \in 1..L : a[i] \in 0..9) /\ (\A i \in 1..L : b[i] \in 0..9)
  BY DigitsAre
<1>2. p \in [0..L -> Nat] /\ p[0] = 0 /\ \A n \in 1..L : p[n] = 10 * p[n - 1] + a[n]
  BY PrefixesAre
<1>3. q \in [0..L -> Nat] /\ q[0] = 0 /\ \A n \in 1..L : q[n] = 10 * q[n - 1] + b[n]
  BY PrefixesAre
<1>4. Value(a) = p[L] /\ Value(b) = q[L]
  BY DEF Value
<1>5. PICK k \in 0..L : k < L /\ (\A i \in 1..k : a[i] = b[i]) /\ a[k + 1] < b[k + 1]
  BY <1>1 DEF TextBelow
<1> HIDE DEF L, p, q
<1> DEFINE T == {n \in Nat : n <= L => IF n <= k THEN p[n] = q[n] ELSE p[n] < q[n]}
<1>6. 0 \in T
  BY <1>2, <1>3, <1>5
<1>7. ASSUME NEW n \in Nat, n \in T PROVE n + 1 \in T
  <2> SUFFICES ASSUME n + 1 <= L
               PROVE  IF n + 1 <= k THEN p[n + 1] = q[n + 1] ELSE p[n + 1] < q[n + 1]
    OBVIOUS
  <2>1. n + 1 \in 1..L /\ (n + 1) - 1 = n /\ n <= L /\ n \in 0..L
    BY <1>1
  <2>2. IF n <= k THEN p[n] = q[n] ELSE p[n] < q[n]
    BY <1>7, <2>1
  <2>3. p[n + 1] = 10 * p[n] + a[n + 1] /\ a[n + 1] \in 0..9 /\ p[n] \in Nat
    BY <1>1, <1>2, <2>1
  <2>4. q[n + 1] = 10 * q[n] + b[n + 1] /\ b[n + 1] \in 0..9 /\ q[n] \in Nat
    BY <1>1, <1>3, <2>1
  <2>5. n + 1 <= k => a[n + 1] = b[n + 1]
    BY <1>5, <2>1
  <2>6. CASE n + 1 <= k
    <3>1. n <= k
      BY <1>1, <2>6
    <3> QED
      BY <2>2, <2>3, <2>4, <2>5, <2>6, <3>1
  <2>7. CASE n = k
    <3>1. p[n] = q[n] /\ a[n + 1] < b[n + 1]
      BY <1>1, <1>5, <2>2, <2>7
    <3>2. p[n + 1] < q[n + 1]
      BY <2>3, <2>4, <3>1, DigitAppended
    <3> QED
      BY <1>1, <2>7, <3>2
  <2>8. CASE n > k
    <3>1. p[n] < q[n]
      BY <1>1, <2>2, <2>8
    <3>2. p[n + 1] < q[n + 1]
      BY <2>3, <2>4, <3>1, DigitAppended
    <3> QED
      BY <1>1, <2>8, <3>2
  <2> QED
    BY <1>1, <2>6, <2>7, <2>8
<1>8. L \in T
  <2> HIDE DEF T
  <2> QED
    BY <1>1, <1>6, <1>7, Upwards
<1> QED
  BY <1>1, <1>4, <1>5, <1>8

LEMMA ValueIsNatural ==
    ASSUME NEW a, Digits(a)
    PROVE  Value(a) \in Nat
<1>1. Len(a) \in 0..Len(a)
  BY DigitsAre
<1> QED
  BY <1>1, PrefixesAre DEF Value

\* Numbers are compared by their values, for which the length of a number decides first.
LEMMA NumbersAreCompared ==
    ASSUME NEW a, NEW b, Digits(a), Digits(b), NoLeadingZero(a), NoLeadingZero(b)
    PROVE  /\ Tells(CompareNumericIdentifier(a, b), Value(a) < Value(b), Value(b) < Value(a), a = b)
           /\ Value(a) \in Nat /\ Value(b) \in Nat
<1>1. Value(a) \in Nat /\ Value(b) \in Nat
  BY ValueIsNatural
<1>2. Len(a) \in Nat /\ Len(b) \in Nat /\ a \in Seq(Int) /\ b \in Seq(Int)
  BY DigitsAre DEF Digits
<1>3. CASE Len(a) < Len(b)
  <2>1. CompareNumericIdentifier(a, b) = -1
    BY <1>2, <1>3 DEF CompareNumericIdentifier, Sign
  <2>2. Value(a) < Value(b)
    BY <1>3, LongerIsGreater
  <2> QED
    BY <1>1, <1>2, <1>3, <2>1, <2>2 DEF Tells
<1>4. CASE Len(b) < Len(a)
  <2>1. CompareNumericIdentifier(a, b) = 1
    BY <1>2, <1>4 DEF CompareNumericIdentifier, Sign
  <2>2. Value(b) < Value(a)
    BY <1>4, LongerIsGreater
  <2> QED
    BY <1>1, <1>2, <1>4, <2>1, <2>2 DEF Tells
<1>5. CASE Len(a) = Len(b)
  <2>1. CompareNumericIdentifier(a, b) = CompareText(a, b)
    BY <1>5 DEF CompareNumericIdentifier
  <2>2. Tells(CompareText(a, b), TextBelow(a, b), TextBelow(b, a), a = b)
    BY <1>2, TextIsCompared
  <2>3. TextBelow(a, b) => Value(a) < Value(b)
    BY <1>5, FirstDigitDecides
  <2>4. TextBelow(b, a) => Value(b) < Value(a)
    BY <1>5, FirstDigitDecides
  <2>5. a = b => Value(a) = Value(b)
    OBVIOUS
  <2> QED
    BY <1>1, <2>1, <2>2, <2>3, <2>4, <2>5 DEF Tells
<1> QED
  BY <1>1, <1>2, <1>3, <1>4, <1>5


\* An identifier of a valid prerelease.
Identifier(a) == a \in Seq(Int) /\ (IsNumeric(a) => NoLeadingZero(a))

\* Numbers by value and below words, words as strings.
LEMMA IdentifiersAreCompared ==
    ASSUME NEW a, NEW b, Identifier(a), Identifier(b)
    PROVE  Tells(CompareIdentifier(a, b), IdentifierBelow(a, b), IdentifierBelow(b, a), a = b)
<1>1. CASE IsNumeric(a) /\ IsNumeric(b)
  <2>1. Digits(a) /\ Digits(b) /\ NoLeadingZero(a) /\ NoLeadingZero(b)
    BY <1>1 DEF Identifier, Digits
  <2>2. CompareIdentifier(a, b) = CompareNumericIdentifier(a, b)
    BY <1>1 DEF CompareIdentifier
  <2>3. Tells(CompareNumericIdentifier(a, b), Value(a) < Value(b), Value(b) < Value(a), a = b)
    BY <2>1, NumbersAreCompared
  <2> QED
    BY <1>1, <2>2, <2>3 DEF IdentifierBelow, Tells
<1>2. CASE IsNumeric(a) /\ ~IsNumeric(b)
  <2>1. CompareIdentifier(a, b) = -1 /\ a # b
    BY <1>2 DEF CompareIdentifier
  <2>2. IdentifierBelow(a, b) /\ ~IdentifierBelow(b, a)
    BY <1>2 DEF IdentifierBelow
  <2> QED
    BY <2>1, <2>2 DEF Tells
<1>3. CASE ~IsNumeric(a) /\ IsNumeric(b)
  <2>1. CompareIdentifier(a, b) = 1 /\ a # b
    BY <1>3 DEF CompareIdentifier
  <2>2. IdentifierBelow(b, a) /\ ~IdentifierBelow(a, b)
    BY <1>3 DEF IdentifierBelow
  <2> QED
    BY <2>1, <2>2 DEF Tells
<1>4. CASE ~IsNumeric(a) /\ ~IsNumeric(b)
  <2>1. CompareIdentifier(a, b) = CompareText(a, b)
    BY <1>4 DEF CompareIdentifier
  <2>2. Tells(CompareText(a, b), TextBelow(a, b), TextBelow(b, a), a = b)
    BY TextIsCompared DEF Identifier
  <2> QED
    BY <1>4, <2>1, <2>2 DEF IdentifierBelow, Tells
<1> QED
  BY <1>1, <1>2, <1>3, <1>4

Identifiers(a) == a \in Seq(Seq(Int)) /\ \A i \in 1..Len(a) : Identifier(a[i])

\* The first different identifier decides, and a list is below its continuation; having no
\* prerelease is above having one.
LEMMA PrereleasesAreCompared ==
    ASSUME NEW a, NEW b, Identifiers(a), Identifiers(b)
    PROVE  Tells(ComparePrerelease(a, b), PrereleaseBelow(a, b), PrereleaseBelow(b, a), a = b)
<1>1. a \in Seq(Seq(Int)) /\ b \in Seq(Seq(Int)) /\ Len(a) \in Nat /\ Len(b) \in Nat
  BY DEF Identifiers
<1>2. CASE a = <<>> /\ b = <<>>
  BY <1>2 DEF ComparePrerelease, PrereleaseBelow, Tells
<1>3. CASE a = <<>> /\ b # <<>>
  <2>1. ComparePrerelease(a, b) = 1
    BY <1>3 DEF ComparePrerelease
  <2> QED
    BY <1>3, <2>1 DEF PrereleaseBelow, Tells
<1>4. CASE a # <<>> /\ b = <<>>
  <2>1. ComparePrerelease(a, b) = -1
    BY <1>4 DEF ComparePrerelease
  <2> QED
    BY <1>4, <2>1 DEF PrereleaseBelow, Tells
<1>5. CASE a # <<>> /\ b # <<>>
  <2> DEFINE c == [i \in Common(a, b) |-> CompareIdentifier(a[i], b[i])]
  <2>1. ASSUME NEW i \in Common(a, b)
        PROVE  Tells(c[i], IdentifierBelow(a[i], b[i]), IdentifierBelow(b[i], a[i]), a[i] = b[i])
    <3>1. i \in 1..Len(a) /\ i \in 1..Len(b)
      BY <1>1, CommonIs
    <3>2. Identifier(a[i]) /\ Identifier(b[i])
      BY <3>1 DEF Identifiers
    <3>3. c[i] = CompareIdentifier(a[i], b[i])
      OBVIOUS
    <3> QED
      BY <3>2, <3>3, IdentifiersAreCompared
  <2>2. \A i \in Common(a, b) : c[i] \in {-1, 0, 1}
    BY <2>1 DEF Tells
  <2>3. c \in [Common(a, b) -> {-1, 0, 1}]
    BY <2>2
  <2>4. ComparePrerelease(a, b) = CompareLists(a, b, c)
    BY <1>5 DEF ComparePrerelease
  <2> HIDE DEF c
  <2>5. Tells(CompareLists(a, b, c), Before(a, b, c), After(a, b, c), Same(a, b, c))
    BY <1>1, <2>3, ListsAreCompared
  <2>6. Len(a) \in Nat /\ Len(b) \in Nat
    BY <1>1
  <2>7. Before(a, b, c) <=> PrereleaseBelow(a, b)
    <3>1. ASSUME NEW n \in 0..Len(a), n < Len(b)
          PROVE  /\ (\A i \in 1..n : c[i] = 0) <=> (\A i \in 1..n : a[i] = b[i])
                 /\ n # Len(a) => (c[n + 1] = -1 <=> IdentifierBelow(a[n + 1], b[n + 1]))
      <4>1. \A i \in 1..n : i \in Common(a, b)
        BY <2>6, <3>1, CommonHas
      <4>2. n # Len(a) => n + 1 \in Common(a, b)
        <5>1. n # Len(a) => /\ n + 1 \in Nat /\ n + 1 \in 1..(n + 1)
                            /\ n + 1 <= Len(a) /\ n + 1 <= Len(b)
          BY <2>6, <3>1
        <5> QED
          BY <2>6, <5>1, CommonHas
      <4>3. \A i \in 1..n : c[i] = 0 <=> a[i] = b[i]
        BY <2>1, <4>1 DEF Tells
      <4>4. n # Len(a) => (c[n + 1] = -1 <=> IdentifierBelow(a[n + 1], b[n + 1]))
        BY <2>1, <4>2 DEF Tells
      <4> QED
        BY <4>3, <4>4
    <3> QED
      BY <1>5, <3>1 DEF Before, PrereleaseBelow
  <2>8. After(a, b, c) <=> PrereleaseBelow(b, a)
    <3>1. ASSUME NEW n \in 0..Len(b), n < Len(a)
          PROVE  /\ (\A i \in 1..n : c[i] = 0) <=> (\A i \in 1..n : b[i] = a[i])
                 /\ n # Len(b) => (c[n + 1] = 1 <=> IdentifierBelow(b[n + 1], a[n + 1]))
      <4>1. \A i \in 1..n : i \in Common(a, b)
        BY <2>6, <3>1, CommonHas
      <4>2. n # Len(b) => n + 1 \in Common(a, b)
        <5>1. n # Len(b) => /\ n + 1 \in Nat /\ n + 1 \in 1..(n + 1)
                            /\ n + 1 <= Len(a) /\ n + 1 <= Len(b)
          BY <2>6, <3>1
        <5> QED
          BY <2>6, <5>1, CommonHas
      <4>3. \A i \in 1..n : c[i] = 0 <=> a[i] = b[i]
        BY <2>1, <4>1 DEF Tells
      <4>4. n # Len(b) => (c[n + 1] = 1 <=> IdentifierBelow(b[n + 1], a[n + 1]))
        BY <2>1, <4>2 DEF Tells
      <4> QED
        BY <4>3, <4>4
    <3> QED
      BY <1>5, <3>1 DEF After, PrereleaseBelow
  <2>9. Same(a, b, c) <=> a = b
    <3>1. ASSUME Len(a) = Len(b)
          PROVE  (\A i \in 1..Len(a) : c[i] = 0) <=> (\A i \in 1..Len(a) : a[i] = b[i])
      <4>1. \A i \in 1..Len(a) : i \in Common(a, b)
        BY <2>6, <3>1, CommonHas
      <4>2. \A i \in 1..Len(a) : c[i] = 0 <=> a[i] = b[i]
        BY <2>1, <4>1 DEF Tells
      <4> QED
        BY <4>2
    <3>2. Same(a, b, c) => a = b
      BY <1>1, <3>1, ListsAreEqual DEF Same
    <3>3. a = b => Same(a, b, c)
      BY <3>1 DEF Same
    <3> QED
      BY <3>2, <3>3
  <2> QED
    BY <2>4, <2>5, <2>7, <2>8, <2>9 DEF Tells
<1> QED
  BY <1>2, <1>3, <1>4, <1>5

\* Major, minor and patch, in this order.
LEMMA CoresAreCompared ==
    ASSUME NEW x \in {-1, 0, 1}, NEW y \in {-1, 0, 1}, NEW z \in {-1, 0, 1}
    PROVE  FirstDifference(<<x, y, z>>) = IF x # 0 THEN x ELSE IF y # 0 THEN y ELSE z
<1> DEFINE c == <<x, y, z>>
<1>1. c \in [1..3 -> {-1, 0, 1}] /\ c[1] = x /\ c[2] = y /\ c[3] = z
  OBVIOUS
<1>2. \A i \in 1..3 : i = 1 \/ i = 2 \/ i = 3
  OBVIOUS
<1> HIDE DEF c
<1>3. \/ FirstDifference(c) = 0 /\ \A i \in 1..3 : c[i] = 0
      \/ \E i \in 1..3 : /\ c[i] # 0 /\ FirstDifference(c) = c[i]
                         /\ \A j \in 1..3 : j < i => c[j] = 0
  BY <1>1, FirstDifferenceIs
<1>4. FirstDifference(c) = IF x # 0 THEN x ELSE IF y # 0 THEN y ELSE z
  BY <1>1, <1>2, <1>3
<1> QED
  BY <1>4 DEF c

\* For every two versions the client finds the precedence of SemVer, however many digits
\* their numbers have.
THEOREM ComparisonIsPrecedence ==
    ASSUME NEW a, NEW b, ValidVersion(a), ValidVersion(b)
    PROVE  CompareVersions(a, b) = Precedence(a, b)
<1>1. /\ Digits(a.major) /\ Digits(a.minor) /\ Digits(a.patch)
      /\ NoLeadingZero(a.major) /\ NoLeadingZero(a.minor) /\ NoLeadingZero(a.patch)
      /\ Identifiers(a.prerelease)
  BY DEF ValidVersion, Version, Digits, Identifiers, Identifier
<1>2. /\ Digits(b.major) /\ Digits(b.minor) /\ Digits(b.patch)
      /\ NoLeadingZero(b.major) /\ NoLeadingZero(b.minor) /\ NoLeadingZero(b.patch)
      /\ Identifiers(b.prerelease)
  BY DEF ValidVersion, Version, Digits, Identifiers, Identifier
<1> DEFINE x == CompareNumericIdentifier(a.major, b.major)
           y == CompareNumericIdentifier(a.minor, b.minor)
           z == CompareNumericIdentifier(a.patch, b.patch)
           core == FirstDifference(<<x, y, z>>)
           rest == ComparePrerelease(a.prerelease, b.prerelease)
<1>3. /\ Tells(x, Value(a.major) < Value(b.major), Value(b.major) < Value(a.major),
               a.major = b.major)
      /\ Value(a.major) \in Nat /\ Value(b.major) \in Nat
  BY <1>1, <1>2, NumbersAreCompared
<1>4. /\ Tells(y, Value(a.minor) < Value(b.minor), Value(b.minor) < Value(a.minor),
               a.minor = b.minor)
      /\ Value(a.minor) \in Nat /\ Value(b.minor) \in Nat
  BY <1>1, <1>2, NumbersAreCompared
<1>5. /\ Tells(z, Value(a.patch) < Value(b.patch), Value(b.patch) < Value(a.patch),
               a.patch = b.patch)
      /\ Value(a.patch) \in Nat /\ Value(b.patch) \in Nat
  BY <1>1, <1>2, NumbersAreCompared
<1>6. Tells(rest, PrereleaseBelow(a.prerelease, b.prerelease),
            PrereleaseBelow(b.prerelease, a.prerelease), a.prerelease = b.prerelease)
  BY <1>1, <1>2, PrereleasesAreCompared
<1>7. CompareVersions(a, b) = IF core # 0 THEN core ELSE rest
  BY DEF CompareVersions
<1> HIDE DEF x, y, z, rest
<1>8. x \in {-1, 0, 1} /\ y \in {-1, 0, 1} /\ z \in {-1, 0, 1}
  BY <1>3, <1>4, <1>5 DEF Tells
<1>9. core = IF x # 0 THEN x ELSE IF y # 0 THEN y ELSE z
  BY <1>8, CoresAreCompared
<1> HIDE DEF core
<1>10. \/ core = -1 /\ CoreBelow(a, b) /\ ~CoreBelow(b, a)
       \/ core = 1 /\ CoreBelow(b, a) /\ ~CoreBelow(a, b)
       \/ core = 0 /\ ~CoreBelow(a, b) /\ ~CoreBelow(b, a)
  BY <1>3, <1>4, <1>5, <1>9 DEF Tells, CoreBelow
<1>11. CASE core # 0
  BY <1>7, <1>10, <1>11 DEF Precedence, Precedes
<1>12. CASE core = 0
  BY <1>6, <1>7, <1>10, <1>12 DEF Precedence, Precedes, Tells
<1> QED
  BY <1>11, <1>12

-----------------------------------------------------------------------------
(* Updates                                                                 *)

\* The condition of UpdatesAreNewer, of one host.
Newer(o) ==
    /\ o.at \in Offered \ {"installed"}
    /\ o.kind = "client"
    /\ o.runs # None
    => Precedes(o.runs, o.version)

\* Of the steps of a host only Resolve makes an offer, and Verified has compared it.
LEMMA OffersAreNewer ==
    ASSUME FlowIInv, NEW h \in Hosts, HostStep(h), Newer(host[h])
    PROVE  Newer(host'[h])
<1> DEFINE o == host[h]
<1>1. host \in [Hosts -> Host] /\ o \in Host
  BY DEF FlowIInv, FlowTypeOK
<1>2. ASSUME NEW t, Moves(h, t) PROVE host'[h] = t
  BY <1>1, <1>2 DEF Moves
<1>3. Newer(AtRest(o.runs))
  BY DEF Newer, AtRest, Offered
<1>4. CASE LookUp(h)
  <2>1. PICK t \in {host'[h]} : t.at = "known"
    BY <1>2, <1>4 DEF LookUp
  <2> QED
    BY <2>1 DEF Newer, Offered
<1>5. CASE Resolve(h)
  <2>1. PICK v \in Versions : (ScriptAccepts(h, v) \/ ClientAccepts(h, v)) /\ Offer(h, v)
    BY <1>5 DEF Resolve
  <2>2. host'[h].kind = o.kind /\ host'[h].runs = o.runs /\ host'[h].version = v
    BY <1>2, <2>1 DEF Offer
  <2>3. ASSUME o.kind = "client", o.runs # None PROVE Precedes(o.runs, v)
    <3>1. CompareVersions(v, o.runs) > 0
      BY <2>1, <2>3 DEF ScriptAccepts, ClientAccepts, Verified
    <3>2. ValidVersion(v) /\ ValidVersion(o.runs)
      BY <1>1, <2>3, VersionsAssumption DEF Host
    <3>3. CompareVersions(v, o.runs) = Precedence(v, o.runs)
      BY <3>2, ComparisonIsPrecedence
    <3> QED
      BY <3>1, <3>3 DEF Precedence
  <2> QED
    BY <2>2, <2>3 DEF Newer
<1>6. CASE Admit(h) \/ Open(h)
  <2>1. /\ o.at \in {"offered", "admitted"}
        /\ host'[h].kind = o.kind /\ host'[h].runs = o.runs /\ host'[h].version = o.version
    BY <1>1, <1>2, <1>6 DEF Admit, Open, Host
  <2> QED
    BY <2>1 DEF Newer, Offered
<1>7. CASE Install(h)
  <2>1. host'[h] = AtRest(o.runs) \/ host'[h].at = "installed"
    BY <1>2, <1>7 DEF Install, Installed
  <2> QED
    BY <1>3, <2>1 DEF Newer
<1>8. CASE Leave(h)
  BY <1>2, <1>3, <1>8 DEF Leave
<1> QED
  BY <1>4, <1>5, <1>6, <1>7, <1>8 DEF HostStep

\* The offers of other hosts, and what else happens, are as they were.
LEMMA UpdatesStayNewer ==
    FlowIInv /\ UpdatesAreNewer /\ [FlowNext]_flowVars => UpdatesAreNewer'
<1> SUFFICES ASSUME FlowIInv, UpdatesAreNewer, [FlowNext]_flowVars, NEW g \in Hosts
             PROVE  Newer(host'[g])
  BY DEF UpdatesAreNewer, Newer
<1>1. Newer(host[g])
  BY DEF UpdatesAreNewer, Newer
<1>2. CASE host' = host
  BY <1>1, <1>2
<1>3. ASSUME NEW h \in Hosts, HostStep(h) PROVE Newer(host'[g])
  <2>1. CASE g = h
    BY <1>1, <1>3, <2>1, OffersAreNewer
  <2>2. CASE g # h
    <3>1. ASSUME NEW t, Moves(h, t) PROVE host'[g] = host[g]
      BY <2>2, <3>1 DEF Moves, FlowIInv, FlowTypeOK
    <3>2. \E t : Moves(h, t)
      BY <1>3 DEF HostStep, LookUp, Resolve, Offer, Admit, Open, Install, Installed, Leave
    <3> QED
      BY <1>1, <3>1, <3>2
  <2> QED
    BY <2>1, <2>2
<1> QED
  BY <1>2, <1>3 DEF FlowNext, flowVars

-----------------------------------------------------------------------------
(* The theorems                                                            *)

LEMMA InitEstablishes == Init => IInv
<1> SUFFICES ASSUME Init PROVE IInv
  OBVIOUS
<1> USE DEF Init
<1>1. NoPromotion \in Promotion /\ NoPromotion.at = "idle"
  BY DEF NoPromotion, Promotion
<1>2. <<>> \in Seq(Revision) /\ Len(<<>>) = 0
  OBVIOUS
<1>3. TypeOK
  BY <1>1, <1>2 DEF TypeOK
<1>4. ChannelsNamePublished /\ HistoryIsChain
  BY <1>1, <1>2 DEF ChannelsNamePublished, HistoryIsChain
<1>5. AnswerMatchesHistory /\ LocksAreHeld
  BY <1>1 DEF AnswerMatchesHistory, LocksAreHeld
<1> QED
  BY <1>3, <1>4, <1>5 DEF IInv

LEMMA StepPreserves == IInv /\ [Next]_vars => IInv'
<1> SUFFICES ASSUME IInv, [Next]_vars PROVE IInv'
  OBVIOUS
<1>1. CASE UNCHANGED vars
  BY <1>1 DEF vars, releaseVars, channelVars, promotionVars, IInv, TypeOK,
              ChannelsNamePublished, HistoryIsChain, AnswerMatchesHistory, LocksAreHeld
<1>2. ASSUME NEW v \in Versions, ReleaseStep(v) PROVE IInv'
  BY <1>2, ReleaseStepPreserves
<1>3. ASSUME NEW p \in Promoters, PromoteStep(p) PROVE IInv'
  <2>1. ASSUME NEW c \in Channels, NEW v \in Versions, BeginPromote(p, c, v) PROVE IInv'
    BY <2>1, BeginPreserves
  <2>2. CASE LockChannel(p)
    BY <2>2, LockPreserves
  <2>3. CASE CheckPublished(p)
    BY <2>3, CheckPreserves
  <2>4. CASE PromoteChannel(p)
    BY <2>4, PromotePreserves
  <2>5. CASE EndPromote(p)
    BY <2>5, EndPreserves
  <2> QED
    BY <1>3, <2>1, <2>2, <2>3, <2>4, <2>5 DEF PromoteStep
<1> QED
  BY <1>1, <1>2, <1>3 DEF Next

\* The invariant is inductive for any versions, channels and promoters.
THEOREM InductiveInvariant == Spec => []IInv
<1> QED
  BY InitEstablishes, StepPreserves, PTL DEF Spec

\* The history of every channel is a chain that ends at its current release,
\* whatever promotions run concurrently, fail or crash.
THEOREM HistoriesAreChains == Spec => []HistoryIsChain
<1>1. IInv => HistoryIsChain
  BY DEF IInv
<1> QED
  BY InductiveInvariant, <1>1, PTL

\* The previous release a promotion answers is the one its revision names.
THEOREM AnswersMatchHistory == Spec => []AnswerMatchesHistory
<1>1. IInv => AnswerMatchesHistory
  BY DEF IInv
<1> QED
  BY InductiveInvariant, <1>1, PTL

-----------------------------------------------------------------------------
(* The flow is one of PackageReleases                                      *)

LEMMA DraftIsRelease ==
    ASSUME NEW v \in Versions, DraftStep(v)
    PROVE  ReleaseStep(v) \/ UNCHANGED vars
BY DEF DraftStep, CreateDraft, AddArtifact, RemoveArtifact, CancelDraft, TakeSnapshot,
       SignOrGiveUp, ReleaseStep, packageVars, vars

LEMMA FlowStepIsPackageStep == [FlowNext]_flowVars => [Next]_vars
<1> SUFFICES ASSUME [FlowNext]_flowVars PROVE [Next]_vars
  OBVIOUS
<1>1. ASSUME NEW v \in Versions, DraftStep(v) PROVE [Next]_vars
  BY <1>1, DraftIsRelease DEF Next
<1>2. ASSUME NEW p \in Promoters, PromotionStep(p) PROVE [Next]_vars
  BY <1>2 DEF PromotionStep, Next
<1>3. CASE UNCHANGED packageVars
  BY <1>3 DEF packageVars, vars
<1> QED
  BY <1>1, <1>2, <1>3 DEF FlowNext, flowVars

\* Whatever drafts, products, keys and hosts do around them, the releases and the
\* channels of the flow move as PackageReleases says.
THEOREM FlowImplementsReleases == FlowSpec => Spec
<1>1. FlowInit => Init
  BY DEF FlowInit
<1> QED
  BY <1>1, FlowStepIsPackageStep, PTL DEF FlowSpec, Spec

-----------------------------------------------------------------------------
(* What a package step keeps                                               *)

LEMMA PublishedReleasesStay ==
    ASSUME IInv, [Next]_vars, NEW v \in Versions, release[v] = "published"
    PROVE  release'[v] = "published"
<1>1. release \in [Versions -> {"none", "draft", "publishing", "published", "publish_failed"}]
  BY DEF IInv, TypeOK
<1>2. ASSUME NEW w \in Versions, ReleaseStep(w) PROVE release'[v] = "published"
  BY <1>1, <1>2 DEF ReleaseStep, Create, Cancel, StartPublish, EndPublish
<1>3. ASSUME NEW p \in Promoters, PromoteStep(p) PROVE release' = release
  BY <1>3 DEF PromoteStep, BeginPromote, LockChannel, Locked, CheckPublished, Checked,
              PromoteChannel, EndPromote, releaseVars
<1>4. CASE UNCHANGED vars
  BY <1>4 DEF vars, releaseVars
<1> QED
  BY <1>2, <1>3, <1>4 DEF Next

LEMMA HistoriesGrow ==
    ASSUME IInv, [Next]_vars, NEW c \in Channels
    PROVE  /\ Len(revisions[c]) \in Nat /\ Len(revisions'[c]) \in Nat
           /\ Len(revisions[c]) <= Len(revisions'[c])
           /\ \A i \in 1..Len(revisions[c]) : revisions'[c][i] = revisions[c][i]
<1>1. revisions \in [Channels -> Seq(Revision)] /\ revisions[c] \in Seq(Revision)
  BY DEF IInv, TypeOK
<1>2. Len(revisions[c]) \in Nat
  BY <1>1
<1>3. CASE revisions' = revisions
  BY <1>2, <1>3
<1>4. ASSUME NEW p \in Promoters, PromoteChannel(p)
      PROVE  revisions'[c] = revisions[c] \/ \E r \in Revision : revisions'[c] = Append(revisions[c], r)
  <2> DEFINE d == promotion[p].channel
             new == [from |-> current[d], to |-> promotion[p].version]
  <2>1. new \in Revision
    BY <1>4 DEF PromoteChannel, IInv, TypeOK, Promotion, LocksAreHeld, Revision
  <2>2. revisions' = [revisions EXCEPT ![d] = Append(revisions[d], new)]
    BY <1>4 DEF PromoteChannel
  <2> HIDE DEF d, new
  <2> QED
    BY <1>1, <2>1, <2>2
<1>5. ASSUME NEW r \in Revision, revisions'[c] = Append(revisions[c], r)
      PROVE  /\ Len(revisions'[c]) = Len(revisions[c]) + 1
             /\ \A i \in 1..Len(revisions[c]) : revisions'[c][i] = revisions[c][i]
  BY <1>1, <1>5
<1>6. ASSUME NEW w \in Versions, ReleaseStep(w) PROVE revisions' = revisions
  BY <1>6 DEF ReleaseStep, Create, Cancel, StartPublish, EndPublish, channelVars
<1>7. ASSUME NEW p \in Promoters, PromoteStep(p) PROVE PromoteChannel(p) \/ revisions' = revisions
  BY <1>7 DEF PromoteStep, BeginPromote, LockChannel, Locked, CheckPublished, Checked,
              EndPromote, channelVars
<1>8. CASE UNCHANGED vars
  BY <1>3, <1>8 DEF vars, channelVars
<1>9. ASSUME NEW p \in Promoters, PromoteChannel(p)
      PROVE  /\ Len(revisions'[c]) \in Nat
             /\ Len(revisions[c]) <= Len(revisions'[c])
             /\ \A i \in 1..Len(revisions[c]) : revisions'[c][i] = revisions[c][i]
  <2>1. CASE revisions'[c] = revisions[c]
    BY <1>2, <2>1
  <2>2. CASE \E r \in Revision : revisions'[c] = Append(revisions[c], r)
    BY <1>2, <1>5, <2>2
  <2> QED
    BY <1>4, <1>9, <2>1, <2>2
<1> QED
  BY <1>2, <1>3, <1>6, <1>7, <1>8, <1>9 DEF Next

-----------------------------------------------------------------------------
(* What a host has been told                                               *)

\* The conditions on hosts, of one of them.
Fits(o) ==
    /\ o.at # "idle" => o.key \in 1..installKey /\ o.since <= Len(revisions[Stable])
    /\ o.at \in {"offered", "admitted", "opened"} =>
        /\ o.version # None
        /\ release[o.version] = "published"
        /\ snapshot[o.version].product
        /\ o.file = artifacts[o.version]
    /\ o.at \in Offered =>
        \E i \in 1..Len(revisions[Stable]) : i >= o.since /\ revisions[Stable][i].to = o.version
    /\ o.at = "installed" =>
        /\ o.runs # None
        /\ release[o.runs] = "published"
        /\ snapshot[o.runs].product
        /\ o.got = snapshot[o.runs].file
    /\ o.at = "turnedAway" => o.key \in expired \/ o.key + 1 < installKey

HostsFit == HostsAgree /\ OffersWereStable /\ InstalledIsSigned /\ OnlyOldKeysAreTurnedAway

LEMMA HostsFitOneByOne == HostsFit <=> \A h \in Hosts : Fits(host[h])
BY DEF HostsFit, HostsAgree, OffersWereStable, InstalledIsSigned, OnlyOldKeysAreTurnedAway, Fits

\* What releases, channels and keys do leaves every host as it was.
LEMMA FitStays ==
    ASSUME FlowIInv, [Next]_vars, NEW o \in Host, Fits(o),
           \A v \in Versions : release[v] = "published" =>
               artifacts'[v] = artifacts[v] /\ snapshot'[v] = snapshot[v],
           installKey' \in Nat, installKey <= installKey', expired \subseteq expired'
    PROVE  Fits(o)'
<1>1. IInv /\ installKey \in Nat /\ Stable \in Channels
  BY StableAssumption DEF FlowIInv, FlowTypeOK, RegistryTypeOK
<1>2. /\ Len(revisions[Stable]) \in Nat /\ Len(revisions'[Stable]) \in Nat
      /\ Len(revisions[Stable]) <= Len(revisions'[Stable])
      /\ \A i \in 1..Len(revisions[Stable]) : revisions'[Stable][i] = revisions[Stable][i]
  BY <1>1, HistoriesGrow
<1>3. /\ o.key \in Nat /\ o.since \in Nat
      /\ o.version \in Versions \cup {None} /\ o.runs \in Versions \cup {None}
  BY DEF Host
<1>4. ASSUME NEW v \in Versions, release[v] = "published"
      PROVE  release'[v] = "published" /\ artifacts'[v] = artifacts[v] /\ snapshot'[v] = snapshot[v]
  BY <1>1, <1>4, PublishedReleasesStay
<1>5. o.at # "idle" => o.key \in 1..installKey' /\ o.since <= Len(revisions'[Stable])
  BY <1>1, <1>2, <1>3 DEF Fits
<1>6. o.at \in {"offered", "admitted", "opened"} =>
        /\ o.version # None
        /\ release'[o.version] = "published"
        /\ snapshot'[o.version].product
        /\ o.file = artifacts'[o.version]
  BY <1>3, <1>4 DEF Fits
<1>7. ASSUME o.at \in Offered
      PROVE  \E i \in 1..Len(revisions'[Stable]) :
                i >= o.since /\ revisions'[Stable][i].to = o.version
  <2>1. PICK i \in 1..Len(revisions[Stable]) : i >= o.since /\ revisions[Stable][i].to = o.version
    BY <1>7 DEF Fits
  <2>2. i \in 1..Len(revisions'[Stable]) /\ revisions'[Stable][i] = revisions[Stable][i]
    BY <1>2
  <2> QED
    BY <2>1, <2>2
<1>8. o.at = "installed" =>
        /\ o.runs # None
        /\ release'[o.runs] = "published"
        /\ snapshot'[o.runs].product
        /\ o.got = snapshot'[o.runs].file
  BY <1>3, <1>4 DEF Fits
<1>9. o.at = "turnedAway" => o.key \in expired' \/ o.key + 1 < installKey'
  BY <1>1, <1>3 DEF Fits
<1> QED
  BY <1>5, <1>6, <1>7, <1>8, <1>9 DEF Fits, Offered

\* A step of another than a host.
LEMMA OthersPreserve ==
    ASSUME FlowIInv, [Next]_vars, FlowTypeOK', ManifestsAgree', host' = host,
           \A v \in Versions : release[v] = "published" =>
               artifacts'[v] = artifacts[v] /\ snapshot'[v] = snapshot[v],
           installKey <= installKey', expired \subseteq expired'
    PROVE  FlowIInv'
<1>1. IInv'
  BY StepPreserves DEF FlowIInv
<1>2. host \in [Hosts -> Host] /\ installKey' \in Nat
  BY DEF FlowIInv, FlowTypeOK, RegistryTypeOK
<1>3. HostsFit
  BY DEF FlowIInv, HostsFit
<1>4. ASSUME NEW h \in Hosts PROVE Fits(host[h])'
  <2>1. PICK o \in Host : o = host[h]
    BY <1>2
  <2>2. Fits(o)
    BY <1>3, <2>1, HostsFitOneByOne
  <2>3. Fits(o)'
    BY <1>2, <2>2, FitStays
  <2> QED
    BY <2>1, <2>3 DEF Fits
<1>5. HostsFit'
  BY <1>4 DEF HostsFit, HostsAgree, OffersWereStable, InstalledIsSigned,
     OnlyOldKeysAreTurnedAway, Fits
<1> QED
  BY <1>1, <1>5 DEF FlowIInv, HostsFit

-----------------------------------------------------------------------------
(* Drafts, promotions, products and keys                                   *)

\* What ManifestsAgree says of one version.
Agrees(v) ==
    /\ release[v] = "none" => artifacts[v] = None
    /\ release[v] \in {"publishing", "published"} =>
        /\ snapshot[v].file = artifacts[v]
        /\ ManifestValid(snapshot[v])
        /\ snapshot[v].product => installKey # 0
    /\ release[v] # "none" => "package" \in registered

\* A step of a draft changes its version only, and not once it is published.
LEMMA DraftPreserves ==
    ASSUME FlowIInv, NEW v \in Versions, DraftStep(v), UNCHANGED <<registryVars, host>>
    PROVE  FlowIInv'
<1>1. /\ release \in [Versions -> {"none", "draft", "publishing", "published", "publish_failed"}]
      /\ artifacts \in [Versions -> File \cup {None}]
      /\ snapshot \in [Versions -> Snapshot \cup {None}]
      /\ host \in [Hosts -> Host]
      /\ installKey \in Nat
      /\ RegistryTypeOK
  BY DEF FlowIInv, FlowTypeOK, TypeOK, RegistryTypeOK
<1>2. [Next]_vars
  BY DraftIsRelease DEF Next
<1>3. TypeOK'
  BY <1>2, StepPreserves DEF FlowIInv, IInv
<1>4. UNCHANGED <<registered, installKey, previousKey, expired, host>>
  BY DEF registryVars
<1>5. /\ Agrees(v)
      /\ \A w \in Versions \ {v} : Agrees(w)
  BY DEF FlowIInv, ManifestsAgree, Agrees
<1> DEFINE Done ==
        /\ artifacts' \in [Versions -> File \cup {None}]
        /\ snapshot' \in [Versions -> Snapshot \cup {None}]
        /\ \A w \in Versions \ {v} :
            release'[w] = release[w] /\ artifacts'[w] = artifacts[w] /\ snapshot'[w] = snapshot[w]
        /\ release[v] = "published" => artifacts'[v] = artifacts[v] /\ snapshot'[v] = snapshot[v]
        /\ Agrees(v)'
<1>6. ASSUME CreateDraft(v) PROVE Done
  BY <1>1, <1>4, <1>5, <1>6 DEF CreateDraft, Create, contentVars, Agrees
<1>7. ASSUME AddArtifact(v) PROVE Done
  BY <1>1, <1>4, <1>5, <1>7 DEF AddArtifact, packageVars, releaseVars, Agrees
<1>8. ASSUME RemoveArtifact(v) PROVE Done
  BY <1>1, <1>4, <1>5, <1>8 DEF RemoveArtifact, packageVars, releaseVars, Agrees
<1>9. ASSUME CancelDraft(v) PROVE Done
  BY <1>1, <1>4, <1>5, <1>9 DEF CancelDraft, Cancel, Agrees
<1>10. ASSUME TakeSnapshot(v) PROVE Done
  <2>1. PICK s \in Snapshot : /\ s.file = artifacts[v] /\ (s.product => installKey # 0)
                              /\ ManifestValid(s) /\ snapshot' = [snapshot EXCEPT ![v] = s]
    <3> DEFINE s == [file |-> artifacts[v], product |-> installKey # 0]
    <3>1. s \in Snapshot
      BY <1>1 DEF Snapshot
    <3>2. s.file = artifacts[v] /\ s.product = (installKey # 0)
      OBVIOUS
    <3>3. ManifestValid(s) /\ snapshot' = [snapshot EXCEPT ![v] = s]
      BY <1>10 DEF TakeSnapshot
    <3> HIDE DEF s
    <3> QED
      BY <3>1, <3>2, <3>3
  <2> QED
    BY <1>1, <1>4, <1>5, <1>10, <2>1 DEF TakeSnapshot, StartPublish, Agrees
<1>11. ASSUME SignOrGiveUp(v) PROVE Done
  BY <1>1, <1>4, <1>5, <1>11 DEF SignOrGiveUp, EndPublish, Agrees
<1>12. Done
  BY <1>6, <1>7, <1>8, <1>9, <1>10, <1>11 DEF DraftStep
<1>13. FlowTypeOK'
  BY <1>1, <1>3, <1>4, <1>12 DEF FlowTypeOK, RegistryTypeOK
<1>14. ASSUME NEW w \in Versions PROVE Agrees(w)'
  BY <1>4, <1>5, <1>12 DEF Agrees
<1>15. ManifestsAgree'
  BY <1>4, <1>14 DEF ManifestsAgree, Agrees, FlowIInv
<1> QED
  BY <1>1, <1>2, <1>4, <1>12, <1>13, <1>15, OthersPreserve

LEMMA PromotionPreserves ==
    ASSUME FlowIInv, NEW p \in Promoters, PromotionStep(p), UNCHANGED <<registryVars, host>>
    PROVE  FlowIInv'
<1>1. [Next]_vars /\ release' = release
  BY DEF PromotionStep, Next, PromoteStep, BeginPromote, LockChannel, Locked, CheckPublished,
         Checked, PromoteChannel, EndPromote, releaseVars
<1>2. UNCHANGED <<registered, installKey, previousKey, expired, artifacts, snapshot, host>>
  BY DEF PromotionStep, contentVars, registryVars
<1>3. TypeOK'
  BY <1>1, StepPreserves DEF FlowIInv, IInv
<1>4. FlowTypeOK' /\ installKey \in Nat
  BY <1>2, <1>3 DEF FlowIInv, FlowTypeOK, RegistryTypeOK
<1>5. ManifestsAgree'
  BY <1>1, <1>2 DEF FlowIInv, ManifestsAgree
<1> QED
  BY <1>1, <1>2, <1>4, <1>5, OthersPreserve

LEMMA RegistryPreserves ==
    ASSUME FlowIInv, RegistryNext, UNCHANGED <<packageVars, contentVars, host>>
    PROVE  FlowIInv'
<1>1. UNCHANGED vars /\ UNCHANGED <<release, artifacts, snapshot, host>>
  BY DEF packageVars, vars, contentVars, releaseVars
<1>2. TypeOK'
  BY <1>1, StepPreserves DEF FlowIInv, IInv
<1>3. RegistryTypeOK /\ MaxKeys \in Nat
  BY MaxKeysAssumption DEF FlowIInv, FlowTypeOK
<1> DEFINE Done ==
        /\ RegistryTypeOK'
        /\ installKey <= installKey' /\ expired \subseteq expired'
        /\ registered \subseteq registered'
        /\ installKey' # 0 => "package" \in registered'
        /\ previousKey' = IF installKey' = 0 THEN 0 ELSE installKey' - 1
<1>4. /\ installKey # 0 => "package" \in registered
      /\ previousKey = IF installKey = 0 THEN 0 ELSE installKey - 1
  BY DEF FlowIInv, ManifestsAgree
<1>5. ASSUME CreateRepository PROVE Done
  BY <1>3, <1>4, <1>5 DEF CreateRepository, RegistryTypeOK
<1>6. ASSUME CreatePackage PROVE Done
  BY <1>3, <1>4, <1>6 DEF CreatePackage, RegistryTypeOK
<1>7. ASSUME CreateProduct PROVE Done
  BY <1>3, <1>4, <1>7 DEF CreateProduct, Ensured, RegistryTypeOK
<1>8. ASSUME RotateInstallKey PROVE Done
  BY <1>3, <1>4, <1>8 DEF RotateInstallKey, ReplaceKey, RegistryTypeOK
<1>9. ASSUME PreviousKeyExpires PROVE Done
  BY <1>3, <1>4, <1>9 DEF PreviousKeyExpires, RegistryTypeOK
<1>10. Done
  BY <1>5, <1>6, <1>7, <1>8, <1>9 DEF RegistryNext
<1>11. FlowTypeOK'
  BY <1>1, <1>2, <1>10 DEF FlowIInv, FlowTypeOK
<1>12. installKey # 0 => installKey' # 0
  BY <1>3, <1>10 DEF RegistryTypeOK
<1>13. ManifestsAgree'
  BY <1>1, <1>10, <1>12 DEF FlowIInv, ManifestsAgree
<1> QED
  BY <1>1, <1>10, <1>11, <1>13, OthersPreserve

-----------------------------------------------------------------------------
(* Hosts                                                                   *)

\* A host goes on with what is true of it.
LEMMA MovesPreserve ==
    ASSUME FlowIInv, NEW h \in Hosts, NEW t \in Host, Moves(h, t), Fits(t),
           UNCHANGED <<packageVars, registryVars, contentVars>>
    PROVE  FlowIInv'
<1>1. UNCHANGED vars /\ UNCHANGED <<registered, installKey, previousKey, expired>>
      /\ UNCHANGED <<artifacts, snapshot, release, revisions>>
  BY DEF packageVars, vars, registryVars, contentVars, releaseVars, channelVars
<1>2. IInv'
  BY <1>1, StepPreserves DEF FlowIInv
<1>3. /\ host'[h] = t
      /\ \A g \in Hosts \ {h} : host'[g] = host[g]
      /\ host' \in [Hosts -> Host]
  BY DEF Moves, FlowIInv, FlowTypeOK
<1>4. FlowTypeOK'
  BY <1>1, <1>2, <1>3 DEF FlowIInv, FlowTypeOK, RegistryTypeOK, IInv
<1>5. ManifestsAgree'
  BY <1>1 DEF FlowIInv, ManifestsAgree
<1>6. \A g \in Hosts : Fits(host[g])
  BY HostsFitOneByOne DEF FlowIInv, HostsFit
<1>7. ASSUME NEW g \in Hosts PROVE Fits(host[g])'
  <2>1. Fits(host'[g])
    BY <1>3, <1>6
  <2> QED
    BY <1>1, <2>1 DEF Fits
<1>8. HostsFit'
  BY <1>7 DEF HostsFit, HostsAgree, OffersWereStable, InstalledIsSigned,
              OnlyOldKeysAreTurnedAway, Fits
<1> QED
  BY <1>2, <1>4, <1>5, <1>8 DEF FlowIInv, HostsFit

LEMMA RestPreserves ==
    ASSUME FlowIInv, NEW h \in Hosts, Moves(h, AtRest(host[h].runs)),
           UNCHANGED <<packageVars, registryVars, contentVars>>
    PROVE  FlowIInv'
<1> DEFINE t == AtRest(host[h].runs)
<1>1. t \in Host
  BY DEF AtRest, Host, FlowIInv, FlowTypeOK
<1>2. Fits(t)
  BY DEF AtRest, Fits, Offered
<1> QED
  BY <1>1, <1>2, MovesPreserve

LEMMA LookUpPreserves ==
    ASSUME FlowIInv, NEW h \in Hosts, LookUp(h),
           UNCHANGED <<packageVars, registryVars, contentVars>>
    PROVE  FlowIInv'
<1>1. PICK kind \in {"client", "script"}, key \in 1..installKey :
        Moves(h, [at |-> "known", kind |-> kind, key |-> key,
                  since |-> Len(revisions[Stable]), runs |-> host[h].runs,
                  version |-> None, file |-> None, got |-> None])
  BY DEF LookUp
<1> DEFINE t == [at |-> "known", kind |-> kind, key |-> key, since |-> Len(revisions[Stable]),
                 runs |-> host[h].runs, version |-> None, file |-> None, got |-> None]
<1>2. Moves(h, t)
  BY <1>1
<1>3. installKey \in Nat /\ Len(revisions[Stable]) \in Nat /\ host[h] \in Host
  BY StableAssumption DEF FlowIInv, FlowTypeOK, RegistryTypeOK, TypeOK
<1>4. t \in Host
  BY <1>3 DEF Host
<1>5. Fits(t)
  BY <1>3 DEF Fits, Offered
<1> QED
  BY <1>2, <1>4, <1>5, MovesPreserve

LEMMA ResolvePreserves ==
    ASSUME FlowIInv, NEW h \in Hosts, Resolve(h),
           UNCHANGED <<packageVars, registryVars, contentVars>>
    PROVE  FlowIInv'
<1>1. PICK v \in Versions : /\ current[Stable] = v
                            /\ Resolvable(v)
                            /\ ScriptAccepts(h, v) \/ ClientAccepts(h, v)
                            /\ Offer(h, v)
  BY DEF Resolve
<1> DEFINE o == host[h]
           t == [at |-> "offered", kind |-> o.kind, key |-> o.key, since |-> o.since,
                 runs |-> o.runs, version |-> v, file |-> artifacts[v], got |-> o.got]
<1>2. o \in Host /\ o.at = "known"
  BY DEF Resolve, FlowIInv, FlowTypeOK
<1>3. Moves(h, t)
  BY <1>1 DEF Offer
<1>4. t \in Host
  BY <1>2 DEF Host, FlowIInv, FlowTypeOK
<1>5. o.key \in 1..installKey /\ o.since <= Len(revisions[Stable])
  BY <1>2 DEF FlowIInv, HostsAgree
<1>6. release[v] = "published" /\ snapshot[v].product /\ v # None
  BY <1>1, NoneAssumption DEF Resolvable, ScriptAccepts, ClientAccepts, HasPlan, Verified
<1>7. \E i \in 1..Len(revisions[Stable]) : i >= o.since /\ revisions[Stable][i].to = v
  <2>1. revisions[Stable] \in Seq(Revision)
    BY StableAssumption DEF FlowIInv, IInv, TypeOK
  <2>2. current[Stable] = IF revisions[Stable] = <<>> THEN None
                          ELSE revisions[Stable][Len(revisions[Stable])].to
    BY StableAssumption DEF FlowIInv, IInv, HistoryIsChain
  <2>3. revisions[Stable] # <<>> /\ revisions[Stable][Len(revisions[Stable])].to = v
    BY <1>1, <1>6, <2>2
  <2>4. Len(revisions[Stable]) \in 1..Len(revisions[Stable])
    BY <2>1, <2>3
  <2>5. Len(revisions[Stable]) >= o.since
    BY <1>2, <1>5, <2>4 DEF Host
  <2> QED
    BY <2>3, <2>4, <2>5
<1> HIDE DEF o
<1>8. Fits(t)
  BY <1>5, <1>6, <1>7 DEF Fits
<1> QED
  BY <1>3, <1>4, <1>8, MovesPreserve

\* The key is the current one, the previous one, or was replaced twice.
LEMMA AdmitPreserves ==
    ASSUME FlowIInv, NEW h \in Hosts, Admit(h),
           UNCHANGED <<packageVars, registryVars, contentVars>>
    PROVE  FlowIInv'
<1> DEFINE o == host[h]
           to == IF Accepted(o.key) THEN "admitted" ELSE "turnedAway"
           t == [at |-> to, kind |-> o.kind, key |-> o.key, since |-> o.since, runs |-> o.runs,
                 version |-> o.version, file |-> o.file, got |-> o.got]
<1>1. o \in Host /\ o.at = "offered" /\ installKey \in Nat
  BY DEF Admit, FlowIInv, FlowTypeOK, RegistryTypeOK
<1>2. Moves(h, t)
  BY <1>1 DEF Admit, Host
<1>3. t \in Host
  BY <1>1 DEF Host
<1>4. Fits(o)
  BY HostsFitOneByOne DEF FlowIInv, HostsFit
<1>5. to = "turnedAway" => o.key \in expired \/ o.key + 1 < installKey
  <2>1. /\ o.key \in 1..installKey
        /\ previousKey = IF installKey = 0 THEN 0 ELSE installKey - 1
    BY <1>1, <1>4 DEF Fits, FlowIInv, ManifestsAgree
  <2> QED
    BY <1>1, <2>1 DEF Accepted
<1>6. to \in {"admitted", "turnedAway"}
  OBVIOUS
<1> HIDE DEF o, to
<1>7. Fits(t)
  BY <1>1, <1>4, <1>5, <1>6 DEF Fits, Offered
<1> QED
  BY <1>2, <1>3, <1>7, MovesPreserve

\* The release of the offer is still published, with the file of the offer.
LEMMA OpenPreserves ==
    ASSUME FlowIInv, NEW h \in Hosts, Open(h),
           UNCHANGED <<packageVars, registryVars, contentVars>>
    PROVE  FlowIInv'
<1> DEFINE o == host[h]
           t == [at |-> "opened", kind |-> o.kind, key |-> o.key, since |-> o.since,
                 runs |-> o.runs, version |-> o.version, file |-> o.file, got |-> o.got]
<1>1. o \in Host /\ o.at = "admitted"
  BY DEF Open, FlowIInv, FlowTypeOK
<1>2. Fits(o)
  BY HostsFitOneByOne DEF FlowIInv, HostsFit
<1>3. release[o.version] = "published" /\ o.file = artifacts[o.version]
  BY <1>1, <1>2 DEF Fits
<1>4. Selected(h) = [version |-> o.version, file |-> o.file]
  BY <1>3 DEF Selected
<1>5. Moves(h, t)
  BY <1>1, <1>4 DEF Open, Host
<1>6. t \in Host
  BY <1>1 DEF Host
<1> HIDE DEF o
<1>7. Fits(t)
  BY <1>1, <1>2 DEF Fits, Offered
<1> QED
  BY <1>5, <1>6, <1>7, MovesPreserve

LEMMA InstallPreserves ==
    ASSUME FlowIInv, NEW h \in Hosts, Install(h),
           UNCHANGED <<packageVars, registryVars, contentVars>>
    PROVE  FlowIInv'
<1> DEFINE o == host[h]
           t == [at |-> "installed", kind |-> o.kind, key |-> o.key, since |-> o.since,
                 runs |-> o.version, version |-> o.version, file |-> o.file, got |-> o.file]
<1>1. o \in Host /\ o.at = "opened"
  BY DEF Install, FlowIInv, FlowTypeOK
<1>2. Moves(h, t) \/ Moves(h, AtRest(o.runs))
  BY DEF Install, Installed
<1>3. t \in Host
  BY <1>1 DEF Host
<1>4. Fits(o)
  BY HostsFitOneByOne DEF FlowIInv, HostsFit
<1>5. /\ release[o.version] = "published" /\ snapshot[o.version].product
      /\ o.version # None /\ o.file = snapshot[o.version].file
  BY <1>1, <1>4 DEF Fits, Host, FlowIInv, ManifestsAgree
<1> HIDE DEF o
<1>6. Fits(t)
  BY <1>1, <1>4, <1>5 DEF Fits, Offered
<1>7. CASE Moves(h, t)
  BY <1>3, <1>6, <1>7, MovesPreserve
<1>8. CASE Moves(h, AtRest(o.runs))
  BY <1>8, RestPreserves DEF o
<1> QED
  BY <1>2, <1>7, <1>8

-----------------------------------------------------------------------------
(* The theorems                                                            *)

LEMMA FlowInitEstablishes == FlowInit => FlowIInv
<1> SUFFICES ASSUME FlowInit PROVE FlowIInv
  OBVIOUS
<1>1. IInv
  BY InitEstablishes DEF FlowInit
<1>2. AtRest(None) \in Host /\ AtRest(None).at = "idle"
  BY DEF AtRest, Host
<1>3. FlowTypeOK
  BY <1>1, <1>2 DEF FlowInit, FlowTypeOK, IInv, RegistryInit, RegistryTypeOK
<1>4. ManifestsAgree
  BY DEF FlowInit, Init, RegistryInit, ManifestsAgree
<1>5. HostsAgree /\ OffersWereStable /\ InstalledIsSigned /\ OnlyOldKeysAreTurnedAway
  BY <1>2 DEF FlowInit, HostsAgree, OffersWereStable, InstalledIsSigned,
              OnlyOldKeysAreTurnedAway, Offered
<1> QED
  BY <1>1, <1>3, <1>4, <1>5 DEF FlowIInv

LEMMA FlowStepPreserves == FlowIInv /\ [FlowNext]_flowVars => FlowIInv'
<1> SUFFICES ASSUME FlowIInv, [FlowNext]_flowVars PROVE FlowIInv'
  OBVIOUS
<1>1. ASSUME NEW v \in Versions, DraftStep(v), UNCHANGED <<registryVars, host>>
      PROVE  FlowIInv'
  BY <1>1, DraftPreserves
<1>2. ASSUME NEW p \in Promoters, PromotionStep(p), UNCHANGED <<registryVars, host>>
      PROVE  FlowIInv'
  BY <1>2, PromotionPreserves
<1>3. CASE RegistryNext /\ UNCHANGED <<packageVars, contentVars, host>>
  BY <1>3, RegistryPreserves
<1>4. ASSUME NEW h \in Hosts, HostStep(h), UNCHANGED <<packageVars, registryVars, contentVars>>
      PROVE  FlowIInv'
  <2>1. CASE LookUp(h)
    BY <1>4, <2>1, LookUpPreserves
  <2>2. CASE Resolve(h)
    BY <1>4, <2>2, ResolvePreserves
  <2>3. CASE Admit(h)
    BY <1>4, <2>3, AdmitPreserves
  <2>4. CASE Open(h)
    BY <1>4, <2>4, OpenPreserves
  <2>5. CASE Install(h)
    BY <1>4, <2>5, InstallPreserves
  <2>6. CASE Leave(h)
    BY <1>4, <2>6, RestPreserves DEF Leave
  <2> QED
    BY <1>4, <2>1, <2>2, <2>3, <2>4, <2>5, <2>6 DEF HostStep
<1>5. CASE UNCHANGED flowVars
  <2>1. UNCHANGED vars /\ UNCHANGED <<registered, installKey, previousKey, expired>>
        /\ UNCHANGED <<artifacts, snapshot, release, host>>
    BY <1>5 DEF flowVars, packageVars, vars, registryVars, contentVars, releaseVars
  <2>2. TypeOK'
    BY <2>1, StepPreserves DEF FlowIInv, IInv
  <2>3. FlowTypeOK' /\ installKey \in Nat
    BY <2>1, <2>2 DEF FlowIInv, FlowTypeOK, RegistryTypeOK
  <2>4. ManifestsAgree'
    BY <2>1 DEF FlowIInv, ManifestsAgree
  <2> QED
    BY <2>1, <2>3, <2>4, OthersPreserve
<1> QED
  BY <1>1, <1>2, <1>3, <1>4, <1>5 DEF FlowNext

\* Manifests, keys and what hosts have been told agree, for any numbers of everything.
THEOREM FlowInvariant == FlowSpec => []FlowIInv
<1> QED
  BY FlowInitEstablishes, FlowStepPreserves, PTL DEF FlowSpec

\* A host is offered what was stable since it asked, however often that changes.
THEOREM HostsGetStable == FlowSpec => []OffersWereStable
<1>1. FlowIInv => OffersWereStable
  BY DEF FlowIInv
<1> QED
  BY FlowInvariant, <1>1, PTL

\* What is installed is the file of the signed manifest of a published release.
THEOREM HostsInstallSigned == FlowSpec => []InstalledIsSigned
<1>1. FlowIInv => InstalledIsSigned
  BY DEF FlowIInv
<1> QED
  BY FlowInvariant, <1>1, PTL

\* A download that follows an offer is refused only for a key that was replaced twice
\* or has expired, whatever is promoted in between.
THEOREM HostsWithKeysAreServed == FlowSpec => []OnlyOldKeysAreTurnedAway
<1>1. FlowIInv => OnlyOldKeysAreTurnedAway
  BY DEF FlowIInv
<1> QED
  BY FlowInvariant, <1>1, PTL

\* A client is offered only what SemVer puts above what it runs, whatever is promoted.
THEOREM ClientsOnlyGoUp == FlowSpec => []UpdatesAreNewer
<1>1. FlowInit => UpdatesAreNewer
  BY DEF FlowInit, AtRest, UpdatesAreNewer, Offered
<1> QED
  BY <1>1, FlowInvariant, UpdatesStayNewer, PTL DEF FlowSpec

\* The comparison of the client is that of SemVer, over whatever samples.
THEOREM SamplesCompareAsSemVer == FlowSpec => []ComparisonIsSemVer
<1>1. ComparisonIsSemVer
  BY ComparisonIsPrecedence, SamplesAssumption DEF ComparisonIsSemVer
<1> QED
  BY <1>1, PTL

=============================================================================
