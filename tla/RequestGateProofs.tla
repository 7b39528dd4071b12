-------------------------- MODULE RequestGateProofs --------------------------
(***************************************************************************)
(* Theorems about RequestGate for any numbers of tokens, accounts, keys,   *)
(* requests and bootstrap commands, any rates, bursts and limits, and any  *)
(* length of time.                                                         *)
(***************************************************************************)
EXTENDS RequestGate, FiniteSetTheorems, TLAPS

-----------------------------------------------------------------------------
(* Arithmetic                                                              *)

LEMMA RateTimes ==
    ASSUME NEW r \in Nat, NEW a \in Int, NEW b \in Int
    PROVE  /\ r * (a + b) = r * a + r * b
           /\ a <= b => r * a <= r * b
           /\ a >= 0 => r * a >= 0
           /\ r * a \in Int
<1>1. r * a \in Int /\ r * b \in Int /\ r * (a + b) = r * a + r * b
  OBVIOUS
<1>2. a >= 0 => r * a >= 0
  OBVIOUS
<1>3. a <= b => r * a <= r * b
  OBVIOUS
<1> QED
  BY <1>1, <1>2, <1>3

-----------------------------------------------------------------------------
(* What a bucket gets                                                      *)

LEMMA YieldBounds ==
    ASSUME NEW c \in Classes
    PROVE  /\ Yield(c) \in Nat /\ Burst[c] \in Nat \ {0} /\ Rate[c] \in Nat \ {0}
           /\ IdleTTL \in Nat \ {0}
           /\ Burst[c] <= Yield(c) /\ Rate[c] * IdleTTL <= Yield(c)
           /\ Yield(c) \in {Burst[c], Rate[c] * IdleTTL}
<1>1. Burst[c] \in Nat \ {0} /\ Rate[c] \in Nat \ {0} /\ IdleTTL \in Nat \ {0}
  BY RateAssumption, LimitAssumption
<1>2. Rate[c] * IdleTTL \in Int /\ Rate[c] * IdleTTL >= 0
  BY <1>1, RateTimes
<1> QED
  BY <1>1, <1>2 DEF Yield, Larger

\* More time covers what less time does, and nothing needs no time.
LEMMA CoversMore ==
    ASSUME NEW c \in Classes, NEW t \in Int, NEW n \in Int, NEW t2 \in Int, NEW n2 \in Int,
           \/ Covers(c, t, n) /\ t <= t2 /\ n2 <= n
           \/ n2 <= 0 /\ t2 >= 0
    PROVE  Covers(c, t2, n2)
<1>1. Yield(c) \in Nat /\ IdleTTL \in Nat
  BY YieldBounds
<1>2. CASE Covers(c, t, n) /\ t <= t2 /\ n2 <= n
  <2>1. Yield(c) * t <= Yield(c) * t2 /\ IdleTTL * n2 <= IdleTTL * n
    BY <1>1, <1>2, RateTimes
  <2>2. /\ Yield(c) * t \in Int /\ Yield(c) * t2 \in Int
        /\ IdleTTL * n \in Int /\ IdleTTL * n2 \in Int
    BY <1>1, RateTimes
  <2> QED
    BY <1>2, <2>1, <2>2 DEF Covers
<1>3. CASE n2 <= 0 /\ t2 >= 0
  <2>1. /\ Yield(c) * t2 \in Int /\ Yield(c) * t2 >= 0
        /\ IdleTTL * n2 \in Int /\ IdleTTL * n2 <= IdleTTL * 0
    BY <1>1, <1>3, RateTimes
  <2> QED
    BY <1>1, <2>1 DEF Covers
<1> QED
  BY <1>2, <1>3

\* The rate covers what it gives.
LEMMA CoversGain ==
    ASSUME NEW c \in Classes, NEW t \in Int, NEW n \in Int, NEW g \in Nat, Covers(c, t, n)
    PROVE  Covers(c, t + g, n + Rate[c] * g)
<1>1. /\ Yield(c) \in Nat /\ IdleTTL \in Nat /\ Rate[c] \in Nat
      /\ Rate[c] * IdleTTL \in Int /\ Rate[c] * IdleTTL <= Yield(c)
  BY YieldBounds, RateTimes
<1>2. Rate[c] * g \in Int
  BY <1>1, RateTimes
<1>3. /\ Yield(c) * (t + g) = Yield(c) * t + Yield(c) * g
      /\ IdleTTL * (n + Rate[c] * g) = IdleTTL * n + IdleTTL * (Rate[c] * g)
      /\ Yield(c) * t \in Int /\ Yield(c) * g \in Int /\ IdleTTL * n \in Int
      /\ IdleTTL * (Rate[c] * g) \in Int
  BY <1>1, <1>2, RateTimes
<1>4. g * (Rate[c] * IdleTTL) <= g * Yield(c)
  BY <1>1, RateTimes
<1>5. IdleTTL * (Rate[c] * g) = g * (Rate[c] * IdleTTL) /\ g * Yield(c) = Yield(c) * g
  BY <1>1
<1> QED
  BY <1>3, <1>4, <1>5 DEF Covers

\* An idle time covers a burst.
LEMMA CoversBurst ==
    ASSUME NEW c \in Classes, NEW t \in Int, NEW n \in Int, NEW t2 \in Int,
           Covers(c, t, n - Burst[c]), t + IdleTTL <= t2
    PROVE  Covers(c, t2, n)
<1>1. /\ Yield(c) \in Nat /\ IdleTTL \in Nat /\ Burst[c] \in Nat /\ Burst[c] <= Yield(c)
  BY YieldBounds
<1>2. /\ Yield(c) * (t + IdleTTL) = Yield(c) * t + Yield(c) * IdleTTL
      /\ Yield(c) * (t + IdleTTL) <= Yield(c) * t2
      /\ IdleTTL * ((n - Burst[c]) + Burst[c]) = IdleTTL * (n - Burst[c]) + IdleTTL * Burst[c]
      /\ Yield(c) * t \in Int /\ Yield(c) * IdleTTL \in Int /\ Yield(c) * t2 \in Int
      /\ IdleTTL * (n - Burst[c]) \in Int /\ IdleTTL * Burst[c] \in Int
      /\ IdleTTL * Burst[c] <= IdleTTL * Yield(c)
  BY <1>1, RateTimes
<1>3. IdleTTL * Yield(c) = Yield(c) * IdleTTL /\ (n - Burst[c]) + Burst[c] = n
  BY <1>1
<1> QED
  BY <1>2, <1>3 DEF Covers

\* Where an idle time fills the bucket, forgetting it gives nothing away.
LEMMA CoversByRate ==
    ASSUME NEW c \in Classes, NEW t \in Int, NEW n \in Int, Covers(c, t, n),
           Burst[c] <= Rate[c] * IdleTTL
    PROVE  n <= Rate[c] * t
<1>1. /\ IdleTTL \in Nat \ {0} /\ Rate[c] \in Nat /\ Yield(c) = Rate[c] * IdleTTL
      /\ Rate[c] * t \in Int
  BY YieldBounds, RateTimes DEF Yield, Larger
<1>2. IdleTTL * n <= IdleTTL * (Rate[c] * t)
  <2>1. (Rate[c] * IdleTTL) * t = IdleTTL * (Rate[c] * t)
    BY <1>1
  <2> QED
    BY <1>1, <2>1 DEF Covers
<1>3. ASSUME n > Rate[c] * t PROVE FALSE
  <2>1. Rate[c] * t + 1 <= n
    BY <1>1, <1>3
  <2>2. /\ IdleTTL * (Rate[c] * t + 1) <= IdleTTL * n
        /\ IdleTTL * (Rate[c] * t + 1) = IdleTTL * (Rate[c] * t) + IdleTTL * 1
        /\ IdleTTL * (Rate[c] * t) \in Int /\ IdleTTL * n \in Int
    BY <1>1, <2>1, RateTimes
  <2> QED
    BY <1>1, <1>2, <2>2
<1> QED
  BY <1>1, <1>3

-----------------------------------------------------------------------------
(* One bucket                                                              *)

\* A fair bucket stays fair when the key is used later, or earlier and rewound.
LEMMA FairStays ==
    ASSUME NEW b \in Bucket, NEW c \in Classes, NEW n \in Nat,
           NEW seen \in Nat, NEW w \in Nat, NEW seen2 \in Nat, NEW w2 \in Nat,
           Fair(b, c, n, seen, w), seen + w <= seen2 + w2, w <= w2
    PROVE  Fair(b, c, n, seen2, w2)
<1>1. /\ Rate[c] \in Nat /\ Burst[c] \in Nat
      /\ b.tokens \in Nat /\ b.last \in Nat
  BY RateAssumption DEF Bucket
<1>2. ASSUME NEW t \in Int, NEW t2 \in Int, t <= t2, Covers(c, t, n + b.tokens - Burst[c])
      PROVE  Covers(c, t2, n + b.tokens - Burst[c])
  BY <1>1, <1>2, CoversMore
<1> QED
  BY <1>1, <1>2 DEF Fair

\* A refill gives no more than the rate since the last one, and an early reading that it
\* leaves behind is paid for by what is rewound.
LEMMA RefillIsFair ==
    ASSUME NEW b \in Bucket, NEW c \in Classes, NEW n \in Nat, NEW now \in Nat,
           NEW seen \in Nat, NEW w \in Nat, NEW w2 \in Nat,
           Fair(b, c, n, seen, w),
           w <= w2, seen + w <= now + w2, b.last + w <= now + w2
    PROVE  /\ Refilled(b, c, now) \in Bucket
           /\ Refilled(b, c, now).last = now
           /\ Fair(Refilled(b, c, now), c, n, now, w2)
<1> DEFINE gain == Larger(0, now - b.last)
           left == Smaller(Burst[c], b.tokens + Rate[c] * gain)
<1>1. /\ Rate[c] \in Nat /\ Burst[c] \in Nat
      /\ b.tokens \in Nat /\ b.last \in Nat
  BY RateAssumption DEF Bucket
<1>2. gain \in Nat /\ (gain = 0 \/ gain = now - b.last)
  BY <1>1 DEF Larger
<1>3. Rate[c] * gain \in Int /\ Rate[c] * gain >= 0
  BY <1>1, <1>2, RateTimes
<1>4. /\ left \in Nat /\ left <= Burst[c] /\ left <= b.tokens + Rate[c] * gain
      /\ Refilled(b, c, now) = [tokens |-> left, last |-> now]
  BY <1>1, <1>3 DEF Smaller, Refilled
<1> HIDE DEF gain, left
<1>5. Covers(c, now + w2, n + left - Burst[c])
  <2>1. CASE b.tokens = Burst[c] /\ b.last = 0
    <3>1. Covers(c, seen + w, n + b.tokens - Burst[c]) /\ left <= b.tokens
      BY <1>1, <1>4, <2>1 DEF Fair
    <3> QED
      BY <1>1, <1>4, <3>1, CoversMore
  <2>2. CASE Covers(c, b.last + w, n + b.tokens - Burst[c])
    <3>1. (b.last + w) + gain <= now + w2
      BY <1>1, <1>2
    <3>2. Covers(c, (b.last + w) + gain, (n + b.tokens - Burst[c]) + Rate[c] * gain)
      <4>1. b.last + w \in Int /\ n + b.tokens - Burst[c] \in Int /\ gain \in Nat
        BY <1>1, <1>2
      <4> QED
        BY <2>2, <4>1, CoversGain
    <3>3. n + left - Burst[c] <= (n + b.tokens - Burst[c]) + Rate[c] * gain
      BY <1>1, <1>3, <1>4
    <3> QED
      BY <1>1, <1>2, <1>3, <1>4, <3>1, <3>2, <3>3, CoversMore
  <2> QED
    BY <2>1, <2>2 DEF Fair
<1> QED
  BY <1>4, <1>5 DEF Bucket, Fair

-----------------------------------------------------------------------------
(* The limiter                                                             *)

LimiterInv ==
    /\ LimiterTypeOK
    /\ BucketsAreFair
    /\ \A k \in Keys : entries[k] # Absent => entries[k].lastSeen <= clock
    /\ lastSweep <= clock

\* BucketsAreFair of an entry e, or of no entry, with n admitted, the last sweep at swept
\* and w ticks rewound.
EntryFair(e, n, swept, w) ==
    \A c \in Classes :
        IF e = Absent
        THEN n[c] = 0 \/ Covers(c, swept + w, n[c])
        ELSE Fair(e.bucket[c], c, n[c], e.lastSeen, w)

LEMMA FairByEntry ==
    BucketsAreFair <=> \A k \in Keys : EntryFair(entries[k], admitted[k], lastSweep, rewound[k])
BY DEF BucketsAreFair, EntryFair

LEMMA FairByEntryNext ==
    BucketsAreFair' <=>
        \A k \in Keys : EntryFair(entries'[k], admitted'[k], lastSweep', rewound'[k])
BY DEF BucketsAreFair, EntryFair

LEMMA LimiterTypes ==
    ASSUME LimiterTypeOK
    PROVE  /\ clock \in Nat /\ lastSweep \in Int
           /\ \A k \in Keys : /\ rewound[k] \in Nat
                              /\ admitted[k] \in [Classes -> Nat]
                              /\ entries[k] # Absent => entries[k] \in Entry
BY DEF LimiterTypeOK, Unswept

\* What is forgotten could have filled its buckets, and what was forgotten before stays so.
LEMMA SweptIsFair ==
    ASSUME LimiterInv, NEW now \in Nat, now <= clock, NEW k \in Keys,
           NEW sweep, sweep = IF SweepDue(now) THEN now ELSE lastSweep
    PROVE  /\ Swept(now)[k] # Absent => Swept(now)[k] = entries[k]
           /\ EntryFair(Swept(now)[k], admitted[k], sweep, rewound[k])
           /\ Swept(now)[k] = Absent =>
                  \/ EntryFair(Absent, admitted[k], lastSweep, rewound[k])
                  \/ EntryFair(Absent, admitted[k], now, rewound[k]) /\ lastSweep <= now
           /\ sweep \in Nat \cup {Unswept} /\ lastSweep <= sweep /\ sweep <= clock
           /\ Active(k) = IF Swept(now)[k] = Absent THEN 0 ELSE Swept(now)[k].active
<1>1. /\ clock \in Nat /\ lastSweep \in Int /\ lastSweep \in Nat \cup {Unswept} /\ lastSweep <= clock
      /\ rewound[k] \in Nat
      /\ admitted[k] \in [Classes -> Nat]
      /\ entries[k] # Absent => entries[k] \in Entry
      /\ IdleTTL \in Nat \ {0}
  BY LimiterTypes, LimitAssumption DEF LimiterInv, LimiterTypeOK
<1>2. Swept(now)[k] = IF SweepDue(now) /\ Idle(entries[k], now) THEN Absent ELSE entries[k]
  BY DEF Swept
<1>3. EntryFair(entries[k], admitted[k], lastSweep, rewound[k])
  BY FairByEntry DEF LimiterInv
<1>4. sweep \in Nat \cup {Unswept} /\ lastSweep <= sweep /\ sweep <= clock
  BY <1>1 DEF SweepDue, Unswept
<1>5. SweepDue(now) => lastSweep <= now
  BY <1>1 DEF SweepDue, Unswept
<1>6. ASSUME NEW s \in Int, lastSweep <= s, EntryFair(Absent, admitted[k], lastSweep, rewound[k])
      PROVE  EntryFair(Absent, admitted[k], s, rewound[k])
  <2> SUFFICES ASSUME NEW c \in Classes, Covers(c, lastSweep + rewound[k], admitted[k][c])
               PROVE  Covers(c, s + rewound[k], admitted[k][c])
    BY <1>6 DEF EntryFair
  <2> QED
    BY <1>1, <1>6, CoversMore
<1>7. ASSUME entries[k] # Absent, Idle(entries[k], now)
      PROVE  EntryFair(Absent, admitted[k], now, rewound[k])
  <2> DEFINE seen == entries[k].lastSeen
  <2> SUFFICES ASSUME NEW c \in Classes
               PROVE  Covers(c, now + rewound[k], admitted[k][c])
    BY DEF EntryFair
  <2>1. Burst[c] \in Nat /\ admitted[k][c] \in Nat
    BY <1>1, RateAssumption
  <2>2. seen \in Nat /\ seen + IdleTTL < now /\ entries[k].bucket[c].tokens \in Nat
    BY <1>1, <1>7 DEF Idle, Entry, Bucket
  <2>3. Covers(c, seen + rewound[k], admitted[k][c] + entries[k].bucket[c].tokens - Burst[c])
    BY <1>3, <1>7 DEF EntryFair, Fair
  <2> HIDE DEF seen
  <2>4. Covers(c, seen + rewound[k], admitted[k][c] - Burst[c])
    BY <1>1, <2>1, <2>2, <2>3, CoversMore
  <2> QED
    BY <1>1, <2>1, <2>2, <2>4, CoversBurst
<1>8. Swept(now)[k] # Absent => Swept(now)[k] = entries[k]
  BY <1>2
<1>9. Swept(now)[k] = Absent =>
          \/ EntryFair(Absent, admitted[k], lastSweep, rewound[k])
          \/ EntryFair(Absent, admitted[k], now, rewound[k]) /\ SweepDue(now)
  BY <1>2, <1>3, <1>7 DEF Idle
<1>10. EntryFair(Swept(now)[k], admitted[k], sweep, rewound[k])
  <2>1. CASE Swept(now)[k] = Absent
    BY <1>1, <1>4, <1>6, <1>9, <2>1 DEF Unswept
  <2>2. CASE Swept(now)[k] # Absent
    BY <1>3, <1>8, <2>2 DEF EntryFair
  <2> QED
    BY <2>1, <2>2
<1>11. Active(k) = IF Swept(now)[k] = Absent THEN 0 ELSE Swept(now)[k].active
  BY <1>2 DEF Active, Idle
<1>12. Swept(now)[k] = Absent =>
           \/ EntryFair(Absent, admitted[k], lastSweep, rewound[k])
           \/ EntryFair(Absent, admitted[k], now, rewound[k]) /\ lastSweep <= now
  BY <1>5, <1>9
<1> QED
  BY <1>4, <1>8, <1>10, <1>11, <1>12

\* The entry that Acquire works on is fair at the new reading, for what it rewinds.
LEMMA SeenIsFair ==
    ASSUME LimiterInv, NEW k \in Keys, NEW c \in Classes, NEW now \in Nat, now <= clock,
           NEW newest, NEW w2,
           newest = IF Swept(now)[k] = Absent THEN lastSweep
                    ELSE Larger(Swept(now)[k].lastSeen, Seen(k, now).bucket[c].last),
           w2 = rewound[k] + Larger(0, newest - now)
    PROVE  /\ w2 \in Nat
           /\ Seen(k, now) \in Entry
           /\ Seen(k, now).lastSeen = now
           /\ Seen(k, now).active = Active(k)
           /\ \A d \in Classes : Fair(Seen(k, now).bucket[d], d, admitted[k][d], now, w2)
           /\ LET b == Refilled(Seen(k, now).bucket[c], c, now) IN
              /\ b \in Bucket /\ b.last = now
              /\ Fair(b, c, admitted[k][c], now, w2)
<1> DEFINE w == rewound[k]
           n == admitted[k]
           old == Swept(now)[k]
           e == Seen(k, now)
<1>1. /\ clock \in Nat /\ lastSweep \in Int
      /\ w \in Nat /\ n \in [Classes -> Nat]
      /\ entries[k] # Absent => entries[k] \in Entry
  BY LimiterTypes DEF LimiterInv
<1>2. /\ old # Absent => old = entries[k]
      /\ EntryFair(old, n, IF SweepDue(now) THEN now ELSE lastSweep, w)
      /\ old = Absent =>
             \/ EntryFair(Absent, n, lastSweep, w)
             \/ EntryFair(Absent, n, now, w) /\ lastSweep <= now
      /\ Active(k) = IF old = Absent THEN 0 ELSE old.active
  BY SweptIsFair
<1>3. e = IF old = Absent THEN NewEntry(now) ELSE [old EXCEPT !.lastSeen = now]
  BY DEF Seen
<1>4. \A d \in Classes : Rate[d] \in Nat /\ Burst[d] \in Nat
  BY RateAssumption
<1> HIDE DEF old, e, n, w
<1>5. CASE old = Absent
  <2>1. newest = lastSweep /\ w2 = w + Larger(0, newest - now)
    BY <1>5 DEF old, w
  <2>2. w2 \in Nat /\ w <= w2 /\ lastSweep + w <= now + w2
    BY <1>1, <2>1 DEF Larger
  <2>3. /\ e = NewEntry(now) /\ e \in Entry /\ e.lastSeen = now /\ e.active = 0
        /\ \A d \in Classes : /\ e.bucket[d] \in Bucket
                               /\ e.bucket[d].tokens = Burst[d] /\ e.bucket[d].last = 0
    BY <1>3, <1>4, <1>5 DEF NewEntry, Entry, Bucket
  <2>4. ASSUME NEW d \in Classes PROVE Covers(d, now + w2, n[d])
    <3>1. n[d] = 0 \/ Covers(d, lastSweep + w, n[d]) \/ Covers(d, now + w, n[d])
      BY <1>2, <1>5 DEF EntryFair
    <3>2. n[d] \in Nat /\ now + w2 \in Nat /\ lastSweep + w \in Int /\ now + w \in Int
      BY <1>1, <2>2
    <3>3. lastSweep + w <= now + w2 /\ now + w <= now + w2
      BY <1>1, <2>2
    <3> QED
      BY <3>1, <3>2, <3>3, CoversMore
  <2>5. ASSUME NEW d \in Classes PROVE Fair(e.bucket[d], d, n[d], now, w2)
    <3>1. n[d] \in Nat /\ Burst[d] \in Nat /\ Covers(d, now + w2, n[d])
      BY <1>1, <1>4, <2>4
    <3>2. e.bucket[d].tokens = Burst[d] /\ e.bucket[d].last = 0
      BY <2>3
    <3>3. n[d] + Burst[d] - Burst[d] = n[d]
      BY <3>1
    <3> QED
      BY <3>1, <3>2, <3>3 DEF Fair
  <2>6. e.bucket[c] \in Bucket /\ e.bucket[c].last + w2 <= now + w2
    BY <2>2, <2>3
  <2> DEFINE b == Refilled(e.bucket[c], c, now)
  <2>7. Fair(e.bucket[c], c, n[c], now, w2) /\ n[c] \in Nat
    BY <1>1, <2>5
  <2>8. b \in Bucket /\ b.last = now /\ Fair(b, c, n[c], now, w2)
    BY <2>2, <2>6, <2>7, RefillIsFair
  <2> QED
    BY <1>2, <1>5, <2>2, <2>3, <2>5, <2>8 DEF e, n
<1>6. CASE old # Absent
  <2>1. old \in Entry /\ old = entries[k]
    BY <1>1, <1>2, <1>6
  <2>2. /\ e \in Entry /\ e.lastSeen = now /\ e.active = old.active /\ e.bucket = old.bucket
        /\ old.lastSeen \in Nat
        /\ \A d \in Classes : old.bucket[d] \in Bucket /\ old.bucket[d].last \in Nat
    BY <1>3, <1>6, <2>1 DEF Entry, Bucket
  <2>3. newest = Larger(old.lastSeen, old.bucket[c].last) /\ w2 = w + Larger(0, newest - now)
    BY <1>6, <2>2 DEF old, e, w
  <2>4. w2 \in Nat /\ w <= w2 /\ old.lastSeen + w <= now + w2 /\ old.bucket[c].last + w <= now + w2
    BY <1>1, <2>2, <2>3 DEF Larger
  <2>5. ASSUME NEW d \in Classes
        PROVE  Fair(old.bucket[d], d, n[d], old.lastSeen, w) /\ n[d] \in Nat
    BY <1>1, <1>2, <1>6 DEF EntryFair
  <2>6. ASSUME NEW d \in Classes PROVE Fair(e.bucket[d], d, n[d], now, w2)
    <3>1. /\ Fair(e.bucket[d], d, n[d], old.lastSeen, w) /\ n[d] \in Nat
          /\ e.bucket[d] \in Bucket /\ old.lastSeen \in Nat
      BY <2>2, <2>5
    <3>2. old.lastSeen + w <= now + w2 /\ w <= w2 /\ w2 \in Nat /\ w \in Nat
      BY <1>1, <2>4
    <3> QED
      BY <3>1, <3>2, FairStays
  <2> DEFINE b == Refilled(e.bucket[c], c, now)
  <2>7. /\ Fair(e.bucket[c], c, n[c], old.lastSeen, w) /\ n[c] \in Nat
        /\ e.bucket[c] \in Bucket /\ e.bucket[c].last + w <= now + w2
    BY <2>2, <2>4, <2>5
  <2>8. b \in Bucket /\ b.last = now /\ Fair(b, c, n[c], now, w2)
    <3>1. old.lastSeen + w <= now + w2 /\ w <= w2 /\ w2 \in Nat /\ w \in Nat /\ old.lastSeen \in Nat
      BY <1>1, <2>2, <2>4
    <3> QED
      BY <2>7, <3>1, RefillIsFair
  <2> QED
    BY <1>2, <1>6, <2>2, <2>4, <2>6, <2>8 DEF e, n
<1> QED
  BY <1>5, <1>6

\* An Acquire keeps every key fair, and takes a slot of its key only if it admits an
\* upload, which it does below the limit only.
LEMMA AcquireKeeps ==
    ASSUME LimiterInv, NEW k \in Keys, NEW c \in Classes, NEW now \in Nat, now <= clock,
           Acquire(k, c, now), clock' = clock
    PROVE  /\ LimiterInv'
           /\ \A x \in Keys \ {k} : Active(x)' = Active(x)
           /\ Active(k)' = IF Admits(k, c, now) /\ c = "upload" THEN Active(k) + 1 ELSE Active(k)
           /\ Admits(k, c, now) /\ c = "upload" => Active(k) < UploadConcurrency
<1> DEFINE w == rewound[k]
           n == admitted[k]
           e == Seen(k, now)
           b == Refilled(e.bucket[c], c, now)
           newest == IF Swept(now)[k] = Absent THEN lastSweep
                     ELSE Larger(Swept(now)[k].lastSeen, e.bucket[c].last)
           w2 == w + Larger(0, newest - now)
           granted == Admits(k, c, now)
           sweep == IF SweepDue(now) THEN now ELSE lastSweep
           e2 == IF ~HasSlot(k, c, now) THEN e
                 ELSE [bucket |-> [e.bucket EXCEPT ![c] =
                                      IF granted THEN [b EXCEPT !.tokens = b.tokens - 1] ELSE b],
                       active |-> IF granted /\ c = "upload" THEN e.active + 1 ELSE e.active,
                       lastSeen |-> now]
           n2 == IF granted THEN [n EXCEPT ![c] = n[c] + 1] ELSE n
<1>1. /\ entries' = [Swept(now) EXCEPT ![k] = e2]
      /\ lastSweep' = sweep
      /\ admitted' = [admitted EXCEPT ![k] = n2]
      /\ rewound' = [rewound EXCEPT ![k] = w2]
  BY DEF Acquire, LimiterInv, LimiterTypeOK
<1>2. /\ clock \in Nat /\ n \in [Classes -> Nat] /\ w \in Nat
      /\ admitted \in [Keys -> [Classes -> Nat]] /\ rewound \in [Keys -> Nat]
      /\ entries \in [Keys -> Entry \cup {Absent}]
  BY DEF LimiterInv, LimiterTypeOK
<1>3. /\ w2 \in Nat /\ e \in Entry /\ e.lastSeen = now /\ e.active = Active(k)
      /\ \A d \in Classes : Fair(e.bucket[d], d, n[d], now, w2)
      /\ b \in Bucket /\ b.last = now /\ Fair(b, c, n[c], now, w2)
  BY SeenIsFair
<1>4. granted <=> HasSlot(k, c, now) /\ b.tokens >= 1
  BY DEF Admits
<1>5. HasSlot(k, c, now) /\ c = "upload" => e.active < UploadConcurrency
  BY DEF HasSlot
<1> HIDE DEF e, b, w2, granted, sweep, newest
<1>6. /\ b.tokens \in Nat /\ e.active \in Nat /\ e.bucket \in [Classes -> Bucket]
      /\ b.tokens >= 1 => [b EXCEPT !.tokens = b.tokens - 1] \in Bucket
      /\ b.tokens >= 1 => [b EXCEPT !.tokens = b.tokens - 1].tokens = b.tokens - 1
      /\ [b EXCEPT !.tokens = b.tokens - 1].last = b.last
  BY <1>3 DEF Bucket, Entry
<1>7. /\ e2 \in Entry /\ e2.lastSeen = now
      /\ e2.active = IF granted /\ c = "upload" THEN Active(k) + 1 ELSE Active(k)
  <2>1. CASE ~HasSlot(k, c, now)
    BY <1>3, <1>4, <2>1
  <2>2. CASE HasSlot(k, c, now)
    <3> DEFINE b2 == IF granted THEN [b EXCEPT !.tokens = b.tokens - 1] ELSE b
               a2 == IF granted /\ c = "upload" THEN e.active + 1 ELSE e.active
    <3>1. b2 \in Bucket /\ a2 \in Nat
      BY <1>3, <1>4, <1>6
    <3>2. e2 = [bucket |-> [e.bucket EXCEPT ![c] = b2], active |-> a2, lastSeen |-> now]
      BY <2>2
    <3>3. a2 = IF granted /\ c = "upload" THEN Active(k) + 1 ELSE Active(k)
      BY <1>3
    <3> HIDE DEF a2, b2, e2
    <3> QED
      BY <1>6, <3>1, <3>2, <3>3 DEF Entry
  <2> QED
    BY <2>1, <2>2
<1>8. n2 \in [Classes -> Nat]
  BY <1>2
<1>9. EntryFair(e2, n2, sweep, w2)
  <2>1. e2 # Absent
    BY <1>7, AbsentAssumption
  <2>2. CASE ~HasSlot(k, c, now)
    <3>1. e2 = e /\ n2 = n
      BY <1>4, <2>2
    <3> QED
      BY <1>3, <2>1, <3>1 DEF EntryFair
  <2>3. CASE HasSlot(k, c, now)
    <3> DEFINE b2 == IF granted THEN [b EXCEPT !.tokens = b.tokens - 1] ELSE b
    <3>1. /\ \A d \in Classes \ {c} : e2.bucket[d] = e.bucket[d] /\ n2[d] = n[d]
          /\ e2.bucket[c] = b2
          /\ n2[c] = IF granted THEN n[c] + 1 ELSE n[c]
      BY <1>2, <1>6, <2>3
    <3>2. b2.tokens = IF granted THEN b.tokens - 1 ELSE b.tokens
      BY <1>4, <1>6
    <3>3. b2.last = now
      BY <1>3, <1>6
    <3> HIDE DEF b2, n2, e2, n, w
    <3>4. n2[c] + b2.tokens = n[c] + b.tokens /\ b2.tokens <= b.tokens
      <4>1. n[c] \in Nat /\ b.tokens \in Nat
        BY <1>2, <1>6
      <4> QED
        BY <3>1, <3>2, <4>1
    <3>5. /\ b.tokens <= Burst[c]
          /\ Covers(c, now + w2, n[c] + b.tokens - Burst[c])
      BY <1>3 DEF Fair
    <3>6. Fair(b2, c, n2[c], now, w2)
      <4>1. Burst[c] \in Nat /\ b2.tokens \in Int
        BY <1>6, <3>2, RateAssumption
      <4>2. b2.tokens <= Burst[c]
        BY <1>6, <3>4, <3>5, <4>1
      <4>3. Covers(c, b2.last + w2, n2[c] + b2.tokens - Burst[c])
        <5>1. b2.last + w2 = now + w2 /\ n2[c] + b2.tokens - Burst[c] = n[c] + b.tokens - Burst[c]
          <6>1. n[c] \in Nat /\ n2[c] \in Nat /\ b.tokens \in Nat
            BY <1>2, <1>6, <1>8
          <6>2. n2[c] + (b2.tokens - Burst[c]) = (n2[c] + b2.tokens) - Burst[c]
            BY <4>1, <6>1
          <6>3. n[c] + (b.tokens - Burst[c]) = (n[c] + b.tokens) - Burst[c]
            BY <4>1, <6>1
          <6> QED
            BY <3>3, <3>4, <6>2, <6>3
        <5> QED
          BY <3>5, <5>1
      <4> QED
        BY <3>3, <4>2, <4>3 DEF Fair
    <3> QED
      BY <1>3, <1>7, <2>1, <3>1, <3>6 DEF EntryFair
  <2> QED
    BY <2>2, <2>3
<1> HIDE DEF e2, n2
<1>10. ASSUME NEW x \in Keys
       PROVE  /\ EntryFair(entries'[x], admitted'[x], lastSweep', rewound'[x])
              /\ entries'[x] # Absent => entries'[x].lastSeen <= clock
              /\ entries'[x] \in Entry \cup {Absent}
              /\ lastSweep' \in Nat \cup {Unswept} /\ lastSweep' <= clock
              /\ x # k => Active(x)' = Active(x)
  <2>1. /\ Swept(now)[x] # Absent => Swept(now)[x] = entries[x]
        /\ EntryFair(Swept(now)[x], admitted[x], sweep, rewound[x])
        /\ sweep \in Nat \cup {Unswept} /\ sweep <= clock
        /\ Active(x) = IF Swept(now)[x] = Absent THEN 0 ELSE Swept(now)[x].active
    BY SweptIsFair DEF sweep
  <2>2. Swept(now) = [y \in Keys |-> Swept(now)[y]]
    BY DEF Swept
  <2>3. CASE x = k
    <3>1. entries'[x] = e2 /\ admitted'[x] = n2 /\ rewound'[x] = w2
      BY <1>1, <1>2, <2>2, <2>3
    <3> QED
      BY <1>1, <1>7, <1>9, <2>1, <2>3, <3>1
  <2>4. CASE x # k
    <3>1. entries'[x] = Swept(now)[x] /\ admitted'[x] = admitted[x] /\ rewound'[x] = rewound[x]
      BY <1>1, <1>2, <2>2, <2>4
    <3>2. entries[x] # Absent => entries[x].lastSeen <= clock
      BY DEF LimiterInv
    <3>3. Active(x)' = Active(x)
      BY <2>1, <3>1 DEF Active
    <3> QED
      BY <1>1, <1>2, <2>1, <3>1, <3>2, <3>3
  <2> QED
    BY <2>3, <2>4
<1>11. entries' = [x \in Keys |-> entries'[x]]
  BY <1>1 DEF Swept
<1>12. /\ entries' \in [Keys -> Entry \cup {Absent}]
       /\ lastSweep' \in Nat \cup {Unswept}
       /\ admitted' \in [Keys -> [Classes -> Nat]]
       /\ rewound' \in [Keys -> Nat]
  BY <1>1, <1>2, <1>3, <1>8, <1>10, <1>11
<1>13. LimiterTypeOK'
  BY <1>2, <1>12 DEF LimiterTypeOK, Unswept
<1>14. BucketsAreFair'
  BY <1>10, FairByEntryNext
<1>15. LimiterInv'
  BY <1>10, <1>13, <1>14 DEF LimiterInv
<1>16. entries'[k] = e2 /\ e2 # Absent
  BY <1>1, <1>7, AbsentAssumption DEF Swept
<1>17. Active(k)' = IF granted /\ c = "upload" THEN Active(k) + 1 ELSE Active(k)
  BY <1>7, <1>16 DEF Active
<1> QED
  BY <1>3, <1>4, <1>5, <1>10, <1>15, <1>17 DEF granted

\* A Release gives one slot back, if there is one, and keeps every key fair.
LEMMA ReleaseKeeps ==
    ASSUME LimiterInv, NEW k \in Keys, Release(k), clock' = clock
    PROVE  /\ LimiterInv'
           /\ \A x \in Keys \ {k} : Active(x)' = Active(x)
           /\ Active(k)' = Larger(0, Active(k) - 1)
<1>1. /\ clock \in Nat /\ lastSweep \in Int /\ lastSweep <= clock
      /\ admitted \in [Keys -> [Classes -> Nat]] /\ rewound \in [Keys -> Nat]
      /\ entries \in [Keys -> Entry \cup {Absent}]
      /\ lastSweep \in Nat \cup {Unswept}
  BY DEF LimiterInv, LimiterTypeOK, Unswept
<1>2. UNCHANGED <<lastSweep, admitted, rewound>>
  BY DEF Release
<1>3. CASE entries[k] = Absent
  <2>1. entries' = entries
    BY <1>1, <1>3 DEF Release
  <2>2. LimiterInv'
    BY <1>2, <2>1 DEF LimiterInv, LimiterTypeOK, BucketsAreFair
  <2>3. Active(k) = 0 /\ \A x \in Keys : Active(x)' = Active(x)
    BY <1>3, <2>1 DEF Active
  <2> QED
    BY <2>2, <2>3 DEF Larger
<1>4. CASE entries[k] # Absent
  <2> DEFINE e == entries[k]
             e2 == [bucket |-> e.bucket, active |-> Larger(0, e.active - 1), lastSeen |-> clock]
  <2>1. e \in Entry /\ e.active \in Nat /\ e.lastSeen \in Nat /\ e.lastSeen <= clock
    BY <1>1, <1>4 DEF Entry, LimiterInv
  <2>2. e2 \in Entry
    BY <1>1, <2>1 DEF Entry, Larger
  <2>3. entries' = [entries EXCEPT ![k] = e2]
    BY <1>4 DEF Release
  <2>4. e2 # Absent /\ e2.bucket = e.bucket /\ e2.lastSeen = clock /\ e2.active = Larger(0, e.active - 1)
    BY <2>2, AbsentAssumption
  <2> HIDE DEF e2
  <2>5. ASSUME NEW c \in Classes PROVE Fair(e2.bucket[c], c, admitted[k][c], clock, rewound[k])
    <3>1. /\ e.bucket[c] \in Bucket /\ admitted[k][c] \in Nat /\ rewound[k] \in Nat
          /\ Fair(e.bucket[c], c, admitted[k][c], e.lastSeen, rewound[k])
      BY <1>1, <1>4, <2>1, FairByEntry DEF EntryFair, Entry, LimiterInv
    <3> QED
      BY <1>1, <2>1, <2>4, <3>1, FairStays
  <2>6. EntryFair(e2, admitted[k], lastSweep, rewound[k])
    BY <2>4, <2>5 DEF EntryFair
  <2>7. ASSUME NEW x \in Keys
        PROVE  /\ EntryFair(entries'[x], admitted'[x], lastSweep', rewound'[x])
               /\ entries'[x] # Absent => entries'[x].lastSeen <= clock
               /\ x # k => entries'[x] = entries[x]
    BY <1>1, <1>2, <2>1, <2>3, <2>4, <2>6, FairByEntry DEF LimiterInv
  <2>8. entries' \in [Keys -> Entry \cup {Absent}]
    BY <1>1, <2>2, <2>3
  <2>9. LimiterInv'
    <3>1. LimiterTypeOK'
      BY <1>1, <1>2, <2>8 DEF LimiterTypeOK
    <3>2. BucketsAreFair'
      BY <2>7, FairByEntryNext
    <3> QED
      BY <1>1, <1>2, <2>7, <3>1, <3>2 DEF LimiterInv
  <2>10. entries'[k] = e2
    BY <1>1, <2>3
  <2> QED
    BY <1>4, <2>4, <2>7, <2>9, <2>10 DEF Active
<1> QED
  BY <1>3, <1>4

-----------------------------------------------------------------------------
(* Tokens, accounts and time                                               *)

\* What the past of a token may become.
Ages ==
    /\ clock \in Nat /\ clock' \in Nat /\ clock <= clock'
    /\ accounts \subseteq accounts'
    /\ \A t \in Tokens : tokens[t] # NoToken =>
        /\ tokens[t] \in Row /\ tokens'[t] # NoToken
        /\ tokens'[t].expires = tokens[t].expires
        /\ tokens[t].revoked # Never => tokens'[t].revoked = tokens[t].revoked
        /\ tokens[t].used # Never => tokens'[t].used >= tokens[t].used

LEMMA RowsAge ==
    ASSUME IInv, NEW t \in Tokens, tokens[t] # NoToken, NEW now \in Nat
    PROVE  /\ Touched(t, now) \in [Tokens -> Row \cup {NoToken}]
           /\ Revoked(t, now) \in [Tokens -> Row \cup {NoToken}]
           /\ \A u \in Tokens \ {t} : Touched(t, now)[u] = tokens[u] /\ Revoked(t, now)[u] = tokens[u]
           /\ \A new \in {Touched(t, now)[t], Revoked(t, now)[t]} :
                /\ new # NoToken
                /\ new.expires = tokens[t].expires
                /\ tokens[t].revoked # Never => new.revoked = tokens[t].revoked
                /\ tokens[t].used # Never => new.used >= tokens[t].used
<1> DEFINE row == tokens[t]
           used == [row EXCEPT !.used = now]
           revoked == [row EXCEPT !.revoked = now]
<1>1. tokens \in [Tokens -> Row \cup {NoToken}] /\ row \in Row
  BY DEF IInv, TypeOK, TokensTypeOK
<1>2. /\ used \in Row /\ used.expires = row.expires /\ used.revoked = row.revoked /\ used.used = now
      /\ revoked \in Row /\ revoked.expires = row.expires /\ revoked.revoked = now /\ revoked.used = row.used
      /\ row.used \in Nat \cup {Never}
  BY <1>1 DEF Row
<1>3. /\ Touched(t, now) = IF NeedsTouch(t, now) THEN [tokens EXCEPT ![t] = used] ELSE tokens
      /\ Revoked(t, now) = IF row.revoked = Never THEN [tokens EXCEPT ![t] = revoked] ELSE tokens
  BY DEF Touched, Revoked
<1>4. NeedsTouch(t, now) /\ row.used # Never => now >= row.used
  BY <1>2, TTLAssumption DEF NeedsTouch
<1> HIDE DEF used, revoked, row
<1>5. used # NoToken /\ revoked # NoToken
  BY <1>2, NoTokenAssumption
<1>6. /\ Touched(t, now) \in [Tokens -> Row \cup {NoToken}]
      /\ Revoked(t, now) \in [Tokens -> Row \cup {NoToken}]
      /\ \A u \in Tokens \ {t} : Touched(t, now)[u] = tokens[u] /\ Revoked(t, now)[u] = tokens[u]
      /\ Touched(t, now)[t] = IF NeedsTouch(t, now) THEN used ELSE tokens[t]
      /\ Revoked(t, now)[t] = IF row.revoked = Never THEN revoked ELSE tokens[t]
  BY <1>1, <1>2, <1>3
<1>7. ASSUME NEW new \in {Touched(t, now)[t], Revoked(t, now)[t]}
      PROVE  /\ new # NoToken
             /\ new.expires = tokens[t].expires
             /\ tokens[t].revoked # Never => new.revoked = tokens[t].revoked
             /\ tokens[t].used # Never => new.used >= tokens[t].used
  <2>1. tokens[t].used # Never => tokens[t].used \in Nat
    BY <1>2 DEF row
  <2>2. CASE new = tokens[t]
    BY <2>1, <2>2
  <2>3. CASE new = used /\ NeedsTouch(t, now)
    BY <1>2, <1>4, <1>5, <2>3 DEF row
  <2>4. CASE new = revoked /\ row.revoked = Never
    BY <1>2, <1>5, <2>1, <2>4 DEF row
  <2> QED
    BY <1>6, <2>2, <2>3, <2>4
<1> QED
  BY <1>6, <1>7

LEMMA NewRowTyped ==
    ASSUME NEW scopes \in SUBSET Scopes, NEW expires \in Nat
    PROVE  NewRow(scopes, expires) \in Row
BY DEF NewRow, Row

LEMMA TokensTyped ==
    ASSUME IInv, Next
    PROVE  Ages /\ TokensTypeOK' /\ rowLock' \in [Tokens -> Requests \cup {NoOne}]
<1> DEFINE Done == Ages /\ TokensTypeOK' /\ rowLock' \in [Tokens -> Requests \cup {NoOne}]
<1>1. /\ clock \in Nat
      /\ accounts \subseteq Accounts
      /\ tokens \in [Tokens -> Row \cup {NoToken}]
      /\ boot \in [Operators -> {"idle", "locked", "counted", "done"}]
      /\ printed \subseteq Tokens
      /\ rowLock \in [Tokens -> Requests \cup {NoOne}]
      /\ req \in [Requests -> Request]
  BY DEF IInv, TypeOK, LimiterTypeOK, TokensTypeOK
<1>2. \A t \in Tokens : tokens[t] # NoToken => tokens[t] \in Row /\ (tokens[t].used # Never => tokens[t].used \in Nat)
  BY <1>1 DEF Row
<1>3. ASSUME accounts' = accounts, tokens' = tokens, printed' = printed, clock' \in Nat, clock <= clock',
             boot' \in [Operators -> {"idle", "locked", "counted", "done"}],
             rowLock' \in [Tokens -> Requests \cup {NoOne}]
      PROVE  Done
  <2>1. \A t \in Tokens : tokens[t] # NoToken => (tokens[t].used # Never => tokens[t].used >= tokens[t].used)
    BY <1>2
  <2> QED
    BY <1>1, <1>2, <1>3, <2>1 DEF Ages, TokensTypeOK
<1>4. ASSUME NEW t \in Tokens, tokens[t] = NoToken, NEW row \in Row, tokens' = [tokens EXCEPT ![t] = row],
             clock' = clock, accounts \subseteq accounts', accounts' \subseteq Accounts, printed' \subseteq Tokens,
             boot' \in [Operators -> {"idle", "locked", "counted", "done"}], rowLock' = rowLock
      PROVE  Done
  <2>1. tokens' \in [Tokens -> Row \cup {NoToken}] /\ \A u \in Tokens : tokens[u] # NoToken => tokens'[u] = tokens[u]
    BY <1>1, <1>4
  <2>2. \A u \in Tokens : tokens[u] # NoToken => (tokens[u].used # Never => tokens[u].used >= tokens[u].used)
    BY <1>2
  <2> QED
    BY <1>1, <1>2, <1>4, <2>1, <2>2 DEF Ages, TokensTypeOK
<1>5. ASSUME NEW t \in Tokens, tokens[t] # NoToken, NEW now \in Nat,
             tokens' = Touched(t, now) \/ tokens' = Revoked(t, now),
             clock' = clock, accounts' = accounts, printed' = printed, boot' = boot,
             rowLock' \in [Tokens -> Requests \cup {NoOne}]
      PROVE  Done
  <2>1. tokens' \in [Tokens -> Row \cup {NoToken}] /\ \A u \in Tokens \ {t} : tokens'[u] = tokens[u]
    BY <1>5, RowsAge
  <2>2. /\ tokens'[t] # NoToken
        /\ tokens'[t].expires = tokens[t].expires
        /\ tokens[t].revoked # Never => tokens'[t].revoked = tokens[t].revoked
        /\ tokens[t].used # Never => tokens'[t].used >= tokens[t].used
    BY <1>5, RowsAge
  <2>3. ASSUME NEW u \in Tokens, tokens[u] # NoToken
        PROVE  /\ tokens[u] \in Row /\ tokens'[u] # NoToken
               /\ tokens'[u].expires = tokens[u].expires
               /\ tokens[u].revoked # Never => tokens'[u].revoked = tokens[u].revoked
               /\ tokens[u].used # Never => tokens'[u].used >= tokens[u].used
    <3>1. CASE u = t
      BY <1>2, <2>2, <2>3, <3>1
    <3>2. CASE u # t
      BY <1>2, <2>1, <2>3, <3>2
    <3> QED
      BY <3>1, <3>2
  <2>4. Ages
    BY <1>1, <1>5, <2>3 DEF Ages
  <2> QED
    BY <1>1, <1>5, <2>1, <2>4 DEF TokensTypeOK
<1> HIDE DEF Done
<1>6. ASSUME Tick PROVE Done
  BY <1>1, <1>3, <1>6 DEF Tick, tokenVars, bootVars
<1>7. ASSUME NEW b \in Operators, Bootstrap(b) PROVE Done
  <2>1. clock' = clock /\ clock <= clock' /\ boot' \in [Operators -> {"idle", "locked", "counted", "done"}]
    BY <1>1, <1>7 DEF Bootstrap, BootstrapLock, BootstrapCount, BootstrapCommit, BootstrapFails
  <2>2. CASE BootstrapCommit(b, clock)
    <3>1. PICK t \in Tokens : /\ tokens[t] = NoToken
                              /\ tokens' = [tokens EXCEPT ![t] = NewRow({"admin"}, clock + LongTTL)]
                              /\ printed' = printed \cup {t}
      BY <2>2 DEF BootstrapCommit
    <3>2. NewRow({"admin"}, clock + LongTTL) \in Row
      BY <1>1, NewRowTyped, TTLAssumption DEF Scopes
    <3> QED
      BY <1>1, <1>4, <2>1, <2>2, <3>1, <3>2, RootAssumption DEF BootstrapCommit
  <2>3. CASE BootstrapLock(b) \/ BootstrapCount(b) \/ BootstrapFails(b)
    BY <1>1, <1>3, <2>1, <2>3 DEF BootstrapLock, BootstrapCount, BootstrapFails, tokenVars
  <2> QED
    BY <1>7, <2>2, <2>3 DEF Bootstrap
<1>8. ASSUME NEW r \in Requests, RequestStep(r) PROVE Done
  <2>1. clock' = clock /\ clock <= clock' /\ printed' = printed /\ boot' = boot
    <3>1. UNCHANGED <<clock, bootVars>>
      BY <1>8 DEF RequestStep, Arrive, Lookup, Touch, AuthenticationFails, ReadClock, AcquireGate,
         Serve, Work, CommitWork, Breaks, AuditDenial
    <3> QED
      BY <1>1, <3>1 DEF bootVars
  <2>2. req[r] \in Request /\ req[r].now \in Nat
    BY <1>1 DEF Request
  <2>3. CASE Touch(r)
    <3>1. req[r].key \in Tokens /\ tokens[req[r].key] # NoToken
      BY <2>3 DEF Touch, IInv, RequestsAreInPlace
    <3> QED
      BY <1>1, <1>5, <2>1, <2>2, <2>3, <3>1 DEF Touch
  <2>4. CASE CommitWork(r)
    <3>1. CASE req[r].doing = "refusal"
      BY <1>1, <1>3, <2>1, <2>4, <3>1 DEF CommitWork, tokenVars
    <3>2. CASE req[r].op = "account" /\ CreateServiceAccount(req[r].target)
      <4>1. req[r].target \in Accounts
        BY <2>4, <3>2 DEF CommitWork, IInv, RequestsAreInPlace
      <4>2. \A t \in Tokens : tokens[t] # NoToken => (tokens[t].used # Never => tokens[t].used >= tokens[t].used)
        BY <1>2
      <4> QED
        BY <1>1, <1>2, <2>1, <3>2, <4>1, <4>2 DEF Done, Ages, TokensTypeOK, CreateServiceAccount
    <3>3. CASE IssueToken(req[r].now)
      <4>1. PICK t \in Tokens, x \in Scopes : /\ tokens[t] = NoToken
                                             /\ tokens' = [tokens EXCEPT ![t] = NewRow({x}, req[r].now + 1)]
        BY <3>3 DEF IssueToken
      <4>2. NewRow({x}, req[r].now + 1) \in Row
        BY <2>2, NewRowTyped
      <4> QED
        BY <1>1, <1>4, <2>1, <3>3, <4>1, <4>2 DEF IssueToken
    <3>4. CASE req[r].doing = "change" /\ req[r].op = "revoke" /\ RevokeToken(req[r].target, req[r].now)
      <4>1. req[r].target \in Tokens /\ tokens[req[r].target] # NoToken
        BY <2>4, <3>4 DEF CommitWork, IInv, RequestsAreInPlace
      <4>2. rowLock' \in [Tokens -> Requests \cup {NoOne}]
        BY <1>1, <3>4 DEF RevokeToken
      <4> QED
        BY <1>5, <2>1, <2>2, <3>4, <4>1, <4>2 DEF RevokeToken
    <3> QED
      BY <2>4, <3>1, <3>2, <3>3, <3>4 DEF CommitWork
  <2>5. CASE Work(r) \/ Breaks(r)
    <3>1. rowLock' \in [Tokens -> Requests \cup {NoOne}]
      BY <1>1, <2>5 DEF Work, Breaks
    <3> QED
      BY <1>1, <1>3, <2>1, <2>5, <3>1 DEF Work, Breaks
  <2>6. CASE \/ \E op \in Operations, k \in Keys, x \in Tokens \cup Accounts : Arrive(r, op, k, x)
             \/ Lookup(r) \/ AuthenticationFails(r) \/ ReadClock(r) \/ AcquireGate(r)
             \/ Serve(r) \/ AuditDenial(r)
    BY <1>1, <1>3, <2>1, <2>6 DEF Arrive, Lookup, AuthenticationFails, ReadClock, AcquireGate,
       Serve, AuditDenial, tokenVars
  <2> QED
    BY <1>8, <2>3, <2>4, <2>5, <2>6 DEF RequestStep
<1> QED
  BY <1>6, <1>7, <1>8 DEF Next, Done

-----------------------------------------------------------------------------
(* One request                                                             *)

\* What the invariant says of a request q by itself.
Fits(q) ==
    /\ q.now <= clock
    /\ q.op # "install" => q.gate = "own"
    /\ q.slot => q.op = "upload" /\ q.at \in {"serve", "deny"}
    /\ q.at # "idle" =>
        /\ IF q.op = "install" THEN q.at \in {"clock", "acquire", "serve"}
           ELSE q.key \in Tokens /\ tokens[q.key] # NoToken
        /\ q.op = "revoke" => q.target \in Tokens
        /\ q.op = "account" => q.target \in Accounts
        /\ q.effects = 0 /\ q.successes = 0 /\ q.others = 0
    /\ q.at \in {"work", "commit"} => q.op \in {"account", "issue", "revoke"}
    /\ q.at = "commit" /\ q.op = "revoke" /\ q.doing = "change" => tokens[q.target] # NoToken
    /\ q.late =>
        /\ q.at = "lookup" => q.op # "install" /\ Dead(q.key)
        /\ q.at = "deny" => q.answer = 401
        /\ q.at \in {"lookup", "deny", "idle"}
        /\ q.answer \in {0, 401, 503}
        /\ q.effects = 0
    /\ q.at = "idle" /\ q.op # "install" =>
        /\ q.successes = q.effects
        /\ q.answer \in {401, 403, 404, 409, 429} => q.others = 1

RequestsFit ==
    /\ RequestsAreInPlace /\ DeadStaysDead /\ DeadTokensAreShutOut /\ AuditTellsTheTruth
    /\ \A r \in Requests : req[r].now <= clock

LEMMA FitOneByOne == RequestsFit <=> \A r \in Requests : Fits(req[r])
<1>1. RequestsFit => \A r \in Requests : Fits(req[r])
  BY DEF RequestsFit, RequestsAreInPlace, DeadStaysDead, DeadTokensAreShutOut, AuditTellsTheTruth, Fits
<1>2. ASSUME \A r \in Requests : Fits(req[r]) PROVE RequestsFit
  <2>1. RequestsAreInPlace
    BY <1>2 DEF RequestsAreInPlace, Fits
  <2>2. DeadStaysDead /\ DeadTokensAreShutOut
    BY <1>2 DEF DeadStaysDead, DeadTokensAreShutOut, Fits
  <2>3. AuditTellsTheTruth /\ \A r \in Requests : req[r].now <= clock
    BY <1>2 DEF AuditTellsTheTruth, Fits
  <2> QED
    BY <2>1, <2>2, <2>3 DEF RequestsFit
<1> QED
  BY <1>1, <1>2

LEMMA InvFits == ASSUME IInv PROVE RequestsFit /\ LimiterInv /\ clock \in Nat /\ req \in [Requests -> Request]
BY DEF IInv, RequestsFit, LimiterInv, ReadingsArePast, TypeOK, LimiterTypeOK

\* What the past makes of tokens and the clock leaves a request as it should be.
LEMMA FitStays ==
    ASSUME Ages, NEW q \in Request, Fits(q)
    PROVE  Fits(q)'
<1>1. clock \in Nat /\ clock' \in Nat /\ clock <= clock' /\ q.now \in Nat
  BY DEF Ages, Request
<1>2. q.now <= clock'
  BY <1>1 DEF Fits
<1>3. q.key \in Tokens /\ tokens[q.key] # NoToken => tokens'[q.key] # NoToken
  BY DEF Ages
<1>4. q.target \in Tokens /\ tokens[q.target] # NoToken => tokens'[q.target] # NoToken
  BY DEF Ages
<1>5. q.late /\ q.at = "lookup" => Dead(q.key)'
  <2> SUFFICES ASSUME q.late, q.at = "lookup" PROVE Dead(q.key)'
    OBVIOUS
  <2>1. Dead(q.key) /\ q.key \in Tokens /\ tokens[q.key] # NoToken
    BY DEF Fits
  <2>2. /\ tokens[q.key] \in Row /\ tokens'[q.key].expires = tokens[q.key].expires
        /\ tokens[q.key].revoked # Never => tokens'[q.key].revoked = tokens[q.key].revoked
    BY <2>1 DEF Ages
  <2>3. tokens[q.key].expires \in Nat
    BY <2>2 DEF Row
  <2> QED
    BY <1>1, <2>1, <2>2, <2>3 DEF Dead
<1> QED
  BY <1>2, <1>3, <1>4, <1>5 DEF Fits

LEMMA NothingTyped == Nothing \in Request /\ Shared \in Keys
BY KeysAssumption, RootAssumption DEF Nothing, Request, Operations, Codes

\* How a request ends.
LEMMA EndsTyped ==
    ASSUME NEW q \in Request, NEW code \in Codes
    PROVE  /\ Ends(q, code) \in Request
           /\ Ends(q, code).at = "idle" /\ Ends(q, code).now = 0 /\ Ends(q, code).gate = "own"
           /\ (Ends(q, code).op = "install") <=> (q.op = "install")
           /\ Ends(q, code).slot = FALSE
           /\ Ends(q, code).late = q.late /\ Ends(q, code).answer = code
           /\ Ends(q, code).effects = q.effects /\ Ends(q, code).successes = q.successes
           /\ Ends(q, code).others = q.others
<1> DEFINE op == IF q.op = "install" THEN "install" ELSE Nothing.op
<1>1. /\ q.late \in BOOLEAN /\ q.effects \in Nat /\ q.successes \in Nat /\ q.others \in Nat
      /\ op \in Operations
  BY NothingTyped DEF Request, Operations
<1>2. Ends(q, code) = [Nothing EXCEPT !.op = op, !.late = q.late, !.answer = code, !.effects = q.effects,
                                      !.successes = q.successes, !.others = q.others]
  BY DEF Ends
<1>3. op = "install" <=> q.op = "install"
  BY DEF Nothing
<1> HIDE DEF op
<1>4. Ends(q, code) \in Request
  BY <1>1, <1>2, NothingTyped DEF Request
<1>5. /\ Ends(q, code).at = "idle" /\ Ends(q, code).now = 0 /\ Ends(q, code).gate = "own"
      /\ Ends(q, code).op = op /\ Ends(q, code).slot = FALSE
      /\ Ends(q, code).late = q.late /\ Ends(q, code).answer = code
      /\ Ends(q, code).effects = q.effects /\ Ends(q, code).successes = q.successes
      /\ Ends(q, code).others = q.others
  BY <1>2 DEF Nothing
<1> QED
  BY <1>3, <1>4, <1>5

\* Request q has become x, which is over.
Ended(q, x) ==
    /\ x.at = "idle" /\ x.now = 0 /\ x.gate = "own" /\ x.slot = FALSE /\ x.late = q.late
    /\ (x.op = "install") <=> (q.op = "install")

\* What was written and what the client hears agree.
Agrees(q, x) ==
    /\ q.late => x.answer \in {0, 401, 503} /\ x.effects = 0
    /\ q.op # "install" => /\ x.successes = x.effects
                           /\ x.answer \in {401, 403, 404, 409, 429} => x.others = 1

LEMMA EndedFits ==
    ASSUME clock \in Nat, NEW q \in Request, NEW x \in Request, Ended(q, x), Agrees(q, x)
    PROVE  Fits(x)
BY DEF Fits, Ended, Agrees

\* An answer that needs no audit event of its own.
MayEnd(q, code) ==
    /\ q.effects = 0 /\ q.successes = 0
    /\ q.late => code \in {0, 401, 503}
    /\ q.op = "install" \/ code \in {0, 200, 500, 503}

LEMMA EndsFits ==
    ASSUME clock \in Nat, NEW q \in Request, NEW code \in Codes, MayEnd(q, code)
    PROVE  Ends(q, code) \in Request /\ Fits(Ends(q, code)) /\ Ends(q, code).slot = FALSE
<1>1. PICK x \in Request : x = Ends(q, code)
  BY EndsTyped
<1>2. /\ x.at = "idle" /\ x.now = 0 /\ x.gate = "own" /\ x.slot = FALSE
      /\ (x.op = "install") <=> (q.op = "install")
      /\ x.late = q.late /\ x.answer = code
      /\ x.effects = q.effects /\ x.successes = q.successes
  <2>1. x.at = "idle" /\ x.now = 0 /\ x.gate = "own" /\ x.slot = FALSE
    BY <1>1, EndsTyped
  <2>2. (x.op = "install") <=> (q.op = "install")
    BY <1>1, EndsTyped
  <2>3. x.late = q.late /\ x.answer = code
    BY <1>1, EndsTyped
  <2>4. x.effects = q.effects /\ x.successes = q.successes
    BY <1>1, EndsTyped
  <2> QED
    BY <2>1, <2>2, <2>3, <2>4
<1>3. Ended(q, x) /\ Agrees(q, x)
  BY <1>2 DEF MayEnd, Ended, Agrees
<1>4. Fits(x)
  BY <1>3, EndedFits
<1> QED
  BY <1>1, <1>2, <1>4

\* Who is denied has a token, and has done nothing yet.
MayDeny(q, code) ==
    /\ q.op # "install" /\ q.at # "idle" /\ ~q.slot
    /\ q.late => code = 401

LEMMA DeniedFits ==
    ASSUME clock \in Nat, NEW q \in Request, Fits(q), NEW code \in Codes, MayDeny(q, code)
    PROVE  Denied(q, code) \in Request /\ Fits(Denied(q, code)) /\ Denied(q, code).slot = FALSE
<1> DEFINE x == Denied(q, code)
<1>1. x \in Request
  BY DEF Denied, Request
<1>2. /\ x.at = "deny" /\ x.answer = code
      /\ x.op = q.op /\ x.key = q.key /\ x.target = q.target /\ x.now = q.now /\ x.late = q.late
      /\ x.gate = q.gate /\ x.slot = q.slot
      /\ x.effects = q.effects /\ x.successes = q.successes /\ x.others = q.others
  BY DEF Denied, Request
<1>3. /\ q.now <= clock /\ q.gate = "own" /\ q.slot = FALSE /\ q.op # "install"
      /\ q.key \in Tokens /\ tokens[q.key] # NoToken
      /\ q.op = "revoke" => q.target \in Tokens
      /\ q.op = "account" => q.target \in Accounts
      /\ q.effects = 0 /\ q.successes = 0 /\ q.others = 0
      /\ q.late => code = 401
  BY DEF Fits, MayDeny, Request
<1> HIDE DEF x
<1>4. Fits(x)
  BY <1>2, <1>3 DEF Fits
<1> QED
  BY <1>1, <1>2, <1>3, <1>4 DEF x

-----------------------------------------------------------------------------
(* Slots                                                                   *)

Holders(k) == {r \in Requests : req[r].slot /\ req[r].key = k}

\* Request r becomes q, and the limiter counts its slot.
SlotFollows(r, q) ==
    \/ /\ q.slot = req[r].slot /\ (q.slot => q.key = req[r].key)
       /\ \A k \in Keys : Active(k)' = Active(k)
    \/ /\ ~req[r].slot /\ q.slot
       /\ \A k \in Keys : Active(k)' = IF k = q.key THEN Active(k) + 1 ELSE Active(k)
       /\ Active(q.key) < UploadConcurrency
    \/ /\ req[r].slot /\ ~q.slot
       /\ \A k \in Keys :
            Active(k)' = IF k = req[r].key THEN Larger(0, Active(k) - 1) ELSE Active(k)

LEMMA SlotsStayCounted ==
    ASSUME IInv, NEW r \in Requests, NEW q \in Request, req' = [req EXCEPT ![r] = q], SlotFollows(r, q)
    PROVE  SlotsAreCounted' /\ UploadsAreBounded'
<1>1. /\ req \in [Requests -> Request] /\ req[r] \in Request /\ req[r].key \in Keys /\ q.key \in Keys
      /\ \A s \in Requests : req[s].slot \in BOOLEAN /\ q.slot \in BOOLEAN
      /\ \A s \in Requests \ {r} : req'[s] = req[s]
      /\ req'[r] = q
  BY InvFits DEF Request
<1>2. ASSUME NEW k \in Keys
      PROVE  /\ IsFiniteSet(Holders(k)) /\ Cardinality(Holders(k)) \in Nat
             /\ Active(k) = Cardinality(Holders(k))
             /\ Active(k) <= UploadConcurrency
             /\ Holders(k)' = IF q.slot /\ q.key = k THEN Holders(k) \cup {r} ELSE Holders(k) \ {r}
             /\ r \in Holders(k) <=> req[r].slot /\ req[r].key = k
  <2>1. IsFiniteSet(Holders(k))
    BY RequestsAssumption, FS_Subset DEF Holders
  <2>2. Active(k) = Cardinality(Holders(k)) /\ Cardinality(Holders(k)) <= UploadConcurrency
    BY DEF IInv, SlotsAreCounted, UploadsAreBounded, Holders
  <2>3. Holders(k)' = IF q.slot /\ q.key = k THEN Holders(k) \cup {r} ELSE Holders(k) \ {r}
    BY <1>1 DEF Holders
  <2> QED
    BY <2>1, <2>2, <2>3, FS_CardinalityType DEF Holders
<1>3. ASSUME NEW k \in Keys
      PROVE  Active(k)' = Cardinality(Holders(k)') /\ Active(k)' <= UploadConcurrency
  <2>1. /\ Cardinality(Holders(k) \cup {r}) =
              (IF r \in Holders(k) THEN Cardinality(Holders(k)) ELSE Cardinality(Holders(k)) + 1)
        /\ Cardinality(Holders(k) \ {r}) =
              (IF r \in Holders(k) THEN Cardinality(Holders(k)) - 1 ELSE Cardinality(Holders(k)))
    BY <1>2, FS_AddElement, FS_RemoveElement
  <2>2. UploadConcurrency \in Nat
    BY LimitAssumption
  <2>3. r \in Holders(k) => Cardinality(Holders(k)) >= 1
    <3>1. r \in Holders(k) => Cardinality(Holders(k)) # 0
      BY <1>2, FS_EmptySet
    <3> QED
      BY <1>2, <3>1
  <2>4. CASE /\ q.slot = req[r].slot /\ (q.slot => q.key = req[r].key)
             /\ \A x \in Keys : Active(x)' = Active(x)
    BY <1>1, <1>2, <2>1, <2>4
  <2>5. CASE /\ ~req[r].slot /\ q.slot
             /\ \A x \in Keys : Active(x)' = IF x = q.key THEN Active(x) + 1 ELSE Active(x)
             /\ Active(q.key) < UploadConcurrency
    <3>1. r \notin Holders(k)
      BY <1>2, <2>5
    <3>2. CASE k = q.key
      <4>1. Active(k)' = Active(k) + 1 /\ Active(k) < UploadConcurrency /\ Active(k) \in Nat
        BY <1>2, <2>5, <3>2
      <4>2. Cardinality(Holders(k)') = Cardinality(Holders(k)) + 1
        BY <1>2, <2>1, <2>5, <3>1, <3>2
      <4> QED
        BY <1>2, <2>2, <4>1, <4>2
    <3>3. CASE k # q.key
      BY <1>1, <1>2, <2>1, <2>2, <2>5, <3>1, <3>3
    <3> QED
      BY <3>2, <3>3
  <2>6. CASE /\ req[r].slot /\ ~q.slot
             /\ \A x \in Keys :
                  Active(x)' = IF x = req[r].key THEN Larger(0, Active(x) - 1) ELSE Active(x)
    <3>1. Holders(k)' = Holders(k) \ {r}
      BY <1>2, <2>6
    <3>2. CASE k = req[r].key
      <4>1. Active(k)' = Active(k) - 1
        BY <1>2, <2>3, <2>6, <3>2 DEF Larger
      <4> QED
        BY <1>2, <2>1, <2>2, <2>6, <3>1, <3>2, <4>1
    <3>3. CASE k # req[r].key
      BY <1>2, <2>1, <2>6, <3>1, <3>3
    <3> QED
      BY <3>2, <3>3
  <2> QED
    BY <2>4, <2>5, <2>6 DEF SlotFollows
<1>4. SlotsAreCounted'
  BY <1>3 DEF SlotsAreCounted, Holders
<1>5. UploadsAreBounded'
  BY <1>3 DEF UploadsAreBounded, Holders
<1> QED
  BY <1>4, <1>5

\* Nothing that is not in the limiter touches a slot.
LEMMA LimiterStays ==
    ASSUME LimiterInv, UNCHANGED limiterVars, clock' \in Nat, clock <= clock'
    PROVE  LimiterInv' /\ \A k \in Keys : Active(k)' = Active(k)
<1>1. UNCHANGED <<entries, lastSweep, admitted, rewound>>
  BY DEF limiterVars
<1>2. clock \in Nat /\ entries \in [Keys -> Entry \cup {Absent}] /\ lastSweep \in Nat \cup {Unswept}
  BY DEF LimiterInv, LimiterTypeOK
<1>3. LimiterTypeOK' /\ BucketsAreFair'
  BY <1>1 DEF LimiterInv, LimiterTypeOK, BucketsAreFair
<1>4. ASSUME NEW k \in Keys, entries[k] # Absent PROVE entries[k].lastSeen <= clock'
  BY <1>2, <1>4 DEF LimiterInv, Entry
<1>5. lastSweep <= clock'
  BY <1>2 DEF LimiterInv, Unswept
<1> QED
  BY <1>1, <1>3, <1>4, <1>5 DEF LimiterInv, Active

\* The answer gives the slot back.
LEMMA AnswerFreesSlot ==
    ASSUME IInv, NEW r \in Requests, NEW q \in Request, ~q.slot,
           IF req[r].slot THEN Release(req[r].key) ELSE UNCHANGED limiterVars,
           clock' = clock
    PROVE  LimiterInv' /\ SlotFollows(r, q)
<1>1. LimiterInv /\ clock \in Nat /\ clock <= clock'
  BY InvFits
<1>2. /\ req[r] \in Request /\ req[r].key \in Keys
      /\ req[r].slot \in BOOLEAN /\ q.slot \in BOOLEAN
  BY InvFits DEF Request
<1>3. CASE req[r].slot
  <2>1. PICK key \in Keys : key = req[r].key
    BY <1>2
  <2>2. LimiterInv' /\ Active(key)' = Larger(0, Active(key) - 1)
        /\ \A k \in Keys \ {key} : Active(k)' = Active(k)
    BY <1>1, <1>3, <2>1, ReleaseKeeps
  <2> QED
    BY <1>3, <2>1, <2>2 DEF SlotFollows
<1>4. CASE ~req[r].slot
  <2>1. LimiterInv' /\ \A k \in Keys : Active(k)' = Active(k)
    BY <1>1, <1>4, LimiterStays
  <2> QED
    BY <1>2, <1>4, <2>1 DEF SlotFollows
<1> QED
  BY <1>3, <1>4

-----------------------------------------------------------------------------
(* The steps of a request                                                  *)

Moves(r) ==
    /\ LimiterInv'
    /\ \E q \in Request : req' = [req EXCEPT ![r] = q] /\ Fits(q) /\ SlotFollows(r, q)

LEMMA QuietMoves ==
    ASSUME IInv, NEW r \in Requests, NEW q \in Request, req' = [req EXCEPT ![r] = q], Fits(q),
           UNCHANGED limiterVars, clock' = clock,
           q.slot = req[r].slot, q.slot => q.key = req[r].key
    PROVE  Moves(r)
<1>1. LimiterInv /\ clock \in Nat
  BY InvFits
<1>2. LimiterInv' /\ \A k \in Keys : Active(k)' = Active(k)
  BY <1>1, LimiterStays
<1> QED
  BY <1>2 DEF Moves, SlotFollows

LEMMA AnswerMoves ==
    ASSUME IInv, NEW r \in Requests, NEW q \in Request, req' = [req EXCEPT ![r] = q], Fits(q), ~q.slot,
           IF req[r].slot THEN Release(req[r].key) ELSE UNCHANGED limiterVars, clock' = clock
    PROVE  Moves(r)
BY AnswerFreesSlot DEF Moves

LEMMA ArriveMoves ==
    ASSUME IInv, NEW r \in Requests, NEW op \in Operations, NEW k \in Keys, NEW x \in Tokens \cup Accounts,
           Arrive(r, op, k, x)
    PROVE  Moves(r)
<1> DEFINE q == [Nothing EXCEPT !.at = IF op = "install" THEN "clock" ELSE "lookup",
                                !.op = op, !.key = k, !.target = x,
                                !.gate = IF op = "install" THEN "shared" ELSE "own",
                                !.late = op # "install" /\ Dead(k)]
<1>1. clock \in Nat /\ req[r] \in Request /\ Fits(req[r])
  BY InvFits, FitOneByOne
<1>2. req[r].at = "idle" /\ req' = [req EXCEPT ![r] = q] /\ UNCHANGED <<clock, limiterVars>>
  BY DEF Arrive
<1>3. req[r].slot = FALSE
  BY <1>1, <1>2 DEF Fits, Request
<1>4. q \in Request
  BY NothingTyped DEF Request
<1>5. /\ q.at = IF op = "install" THEN "clock" ELSE "lookup"
      /\ q.op = op /\ q.key = k /\ q.target = x /\ q.gate = IF op = "install" THEN "shared" ELSE "own"
      /\ q.late = (op # "install" /\ Dead(k))
      /\ q.now = 0 /\ q.slot = FALSE /\ q.answer = 0
      /\ q.effects = 0 /\ q.successes = 0 /\ q.others = 0
  BY DEF Nothing
<1>6. /\ op # "install" => k \in Tokens /\ tokens[k] # NoToken
      /\ op = "revoke" => x \in Tokens
      /\ op = "account" => x \in Accounts
  BY DEF Arrive
<1> HIDE DEF q
<1>7. /\ q.late => op # "install" /\ Dead(k)
      /\ q.at = "lookup" \/ q.at = "clock"
      /\ q.at = "clock" <=> op = "install"
  BY <1>5
<1>8. q.now <= clock /\ (q.op # "install" => q.gate = "own") /\ ~q.slot
  BY <1>1, <1>5
<1>9. IF q.op = "install" THEN q.at \in {"clock", "acquire", "serve"}
      ELSE q.key \in Tokens /\ tokens[q.key] # NoToken
  BY <1>5, <1>6
<1>10. (q.op = "revoke" => q.target \in Tokens) /\ (q.op = "account" => q.target \in Accounts)
  BY <1>5, <1>6
<1>11. /\ q.late => q.at = "lookup" /\ q.op # "install" /\ Dead(q.key)
       /\ q.effects = 0 /\ q.successes = 0 /\ q.others = 0 /\ q.answer = 0
  BY <1>5, <1>7
<1>12. Fits(q)
  BY <1>7, <1>8, <1>9, <1>10, <1>11 DEF Fits
<1> QED
  BY <1>2, <1>3, <1>4, <1>5, <1>12, QuietMoves

LEMMA AuthenticationMoves ==
    ASSUME IInv, NEW r \in Requests, Lookup(r) \/ Touch(r) \/ AuthenticationFails(r) \/ ReadClock(r)
    PROVE  Moves(r)
<1> DEFINE q == req[r]
<1>1. clock \in Nat /\ q \in Request /\ Fits(q) /\ req \in [Requests -> Request]
  BY InvFits, FitOneByOne
<1>2. UNCHANGED <<clock, limiterVars>> /\ q.at \in {"lookup", "touch", "clock"}
  BY DEF Lookup, Touch, AuthenticationFails, ReadClock
<1>3. /\ q.slot = FALSE /\ q.effects = 0 /\ q.successes = 0
      /\ q.at # "lookup" => ~q.late
      /\ q.at \in {"lookup", "touch"} => q.op # "install"
  BY <1>1, <1>2 DEF Fits, Request
<1> HIDE DEF q
<1>4. ASSUME q.at = "lookup", Accepts(q.key, clock), req' = [req EXCEPT ![r].at = "touch", ![r].now = clock]
      PROVE  Moves(r)
  <2> DEFINE x == [q EXCEPT !.at = "touch", !.now = clock]
  <2>0. req' = [req EXCEPT ![r] = x]
    BY <1>1, <1>4 DEF q
  <2>1. x \in Request /\ x.slot = FALSE
    BY <1>1, <1>3 DEF Request
  <2>2. ~q.late
    <3>1. q.late => Dead(q.key) /\ q.key \in Tokens
      BY <1>4, <1>1 DEF Fits
    <3>2. q.key \in Tokens => tokens[q.key].expires \in Nat
      BY <1>4 DEF IInv, TypeOK, TokensTypeOK, Accepts, Row
    <3> QED
      BY <1>1, <1>4, <3>1, <3>2 DEF Accepts, Dead
  <2>3. Fits(x)
    BY <1>1, <1>3, <1>4, <2>2 DEF Fits, Request
  <2> QED
    BY <1>2, <1>3, <2>0, <2>1, <2>3, QuietMoves DEF q
<1>5. ASSUME q.at = "lookup", req' = [req EXCEPT ![r] = Denied(q, 401)]
      PROVE  Moves(r)
  <2> DEFINE x == Denied(q, 401)
  <2>1. MayDeny(q, 401) /\ 401 \in Codes
    BY <1>3, <1>5 DEF MayDeny, Codes
  <2>2. x \in Request /\ Fits(x) /\ x.slot = FALSE
    BY <1>1, <2>1, DeniedFits
  <2> HIDE DEF x
  <2> QED
    BY <1>2, <1>3, <1>5, <2>2, QuietMoves DEF q, x
<1>6. ASSUME q.at = "touch", req' = [req EXCEPT ![r].at = "clock"]
      PROVE  Moves(r)
  <2> DEFINE x == [q EXCEPT !.at = "clock"]
  <2>1. x \in Request /\ req' = [req EXCEPT ![r] = x] /\ x.slot = FALSE
    BY <1>1, <1>3, <1>6 DEF Request, q
  <2>2. Fits(x)
    BY <1>1, <1>3, <1>6 DEF Fits, Request
  <2> QED
    BY <1>2, <1>3, <2>1, <2>2, QuietMoves DEF q
<1>7. ASSUME q.at = "clock", req' = [req EXCEPT ![r].at = "acquire", ![r].now = clock]
      PROVE  Moves(r)
  <2> DEFINE x == [q EXCEPT !.at = "acquire", !.now = clock]
  <2>1. x \in Request /\ req' = [req EXCEPT ![r] = x] /\ x.slot = FALSE
    BY <1>1, <1>3, <1>7 DEF Request, q
  <2>2. Fits(x)
    BY <1>1, <1>3, <1>7 DEF Fits, Request
  <2> QED
    BY <1>2, <1>3, <2>1, <2>2, QuietMoves DEF q
<1>8. ASSUME q.at \in {"lookup", "touch"}, req' = [req EXCEPT ![r] = Ends(q, 503)]
      PROVE  Moves(r)
  <2>1. MayEnd(q, 503)
    BY <1>3 DEF MayEnd
  <2>2. Ends(q, 503) \in Request /\ Fits(Ends(q, 503)) /\ Ends(q, 503).slot = FALSE
    <3>1. PICK code \in Codes : code = 503
      BY DEF Codes
    <3>2. MayEnd(q, code)
      BY <2>1, <3>1
    <3>3. Ends(q, code) \in Request /\ Fits(Ends(q, code)) /\ Ends(q, code).slot = FALSE
      BY <1>1, <3>2, EndsFits
    <3> QED
      BY <3>1, <3>3
  <2> QED
    BY <1>2, <1>3, <1>8, <2>2, QuietMoves DEF q
<1>9. CASE Lookup(r)
  BY <1>4, <1>5, <1>9 DEF Lookup, q
<1>10. CASE Touch(r)
  BY <1>6, <1>10 DEF Touch, Goes, q
<1>11. CASE AuthenticationFails(r)
  BY <1>8, <1>11 DEF AuthenticationFails, q
<1>12. CASE ReadClock(r)
  BY <1>7, <1>12 DEF ReadClock, q
<1> QED
  BY <1>9, <1>10, <1>11, <1>12

LEMMA AcquireMoves ==
    ASSUME IInv, NEW r \in Requests, AcquireGate(r)
    PROVE  Moves(r)
<1> DEFINE q == req[r]
           k == IF q.gate = "shared" THEN Shared ELSE q.key
           c == ClassOf(q.op)
<1>1. clock \in Nat /\ q \in Request /\ Fits(q) /\ LimiterInv
  BY InvFits, FitOneByOne
<1>2. /\ k \in Keys /\ c \in Classes /\ q.now \in Nat /\ q.now <= clock
      /\ c = "upload" <=> q.op = "upload"
  BY <1>1, NothingTyped, ClassesAssumption DEF Fits, Request, ClassOf
<1>3. q.at = "acquire" /\ Acquire(k, c, q.now) /\ clock' = clock
  BY DEF AcquireGate
<1>4. /\ q.slot = FALSE /\ q.late = FALSE
      /\ q.effects = 0 /\ q.successes = 0 /\ q.others = 0
      /\ q.op # "install" => q.gate = "own" /\ q.key \in Tokens /\ tokens[q.key] # NoToken
      /\ q.op = "revoke" => q.target \in Tokens
      /\ q.op = "account" => q.target \in Accounts
  BY <1>1, <1>3 DEF Fits, Request
<1>5. PICK key \in Keys, class \in Classes, now \in Nat : key = k /\ class = c /\ now = q.now
  BY <1>2
<1>6. /\ LimiterInv'
      /\ \A x \in Keys \ {key} : Active(x)' = Active(x)
      /\ Active(key)' = IF Admits(key, class, now) /\ class = "upload" THEN Active(key) + 1 ELSE Active(key)
      /\ Admits(key, class, now) /\ class = "upload" => Active(key) < UploadConcurrency
  BY <1>1, <1>2, <1>3, <1>5, AcquireKeeps
<1>7. req' = [req EXCEPT ![r] =
           IF ~Admits(key, class, now)
           THEN IF q.op = "install" THEN Ends(q, 429) ELSE Denied(q, 429)
           ELSE IF q.gate = "shared" THEN [q EXCEPT !.at = "clock", !.gate = "own"]
           ELSE [q EXCEPT !.at = "serve", !.slot = (class = "upload")]]
  BY <1>5 DEF AcquireGate
<1>8. class = "upload" <=> q.op = "upload"
  BY <1>2, <1>5
<1>9. PICK code \in Codes : code = 429
  BY DEF Codes
<1> HIDE DEF q, k, c
<1>10. ASSUME NEW x \in Request, req' = [req EXCEPT ![r] = x], Fits(x), ~x.slot,
              ~(Admits(key, class, now) /\ class = "upload")
       PROVE  Moves(r)
  <2>1. \A y \in Keys : Active(y)' = Active(y)
    BY <1>6, <1>10
  <2>2. x.slot = FALSE
    BY <1>10 DEF Request
  <2>3. SlotFollows(r, x)
    BY <1>4, <2>1, <2>2 DEF SlotFollows, q
  <2> QED
    BY <1>6, <1>10, <2>3 DEF Moves
<1>11. CASE ~Admits(key, class, now) /\ q.op = "install"
  <2>1. MayEnd(q, code)
    BY <1>4, <1>11 DEF MayEnd
  <2>2. Ends(q, code) \in Request /\ Fits(Ends(q, code)) /\ Ends(q, code).slot = FALSE
    BY <1>1, <2>1, EndsFits
  <2> QED
    BY <1>7, <1>9, <1>10, <1>11, <2>2
<1>12. CASE ~Admits(key, class, now) /\ q.op # "install"
  <2>1. MayDeny(q, code)
    BY <1>3, <1>4, <1>12 DEF MayDeny
  <2>2. Denied(q, code) \in Request /\ Fits(Denied(q, code)) /\ Denied(q, code).slot = FALSE
    BY <1>1, <2>1, DeniedFits
  <2> QED
    BY <1>7, <1>9, <1>10, <1>12, <2>2
<1>13. CASE Admits(key, class, now) /\ q.gate = "shared"
  <2> DEFINE x == [q EXCEPT !.at = "clock", !.gate = "own"]
  <2>1. q.op = "install" /\ class # "upload"
    BY <1>4, <1>8, <1>13
  <2>2. x \in Request
    BY <1>1 DEF Request
  <2>3. /\ x.at = "clock" /\ x.gate = "own" /\ x.op = q.op /\ x.now = q.now /\ x.slot = FALSE
        /\ x.late = FALSE /\ x.effects = 0 /\ x.successes = 0 /\ x.others = 0
    BY <1>1, <1>4 DEF Request
  <2>4. req' = [req EXCEPT ![r] = x]
    BY <1>7, <1>13
  <2> HIDE DEF x
  <2>5. Fits(x)
    BY <1>2, <2>1, <2>3 DEF Fits
  <2> QED
    BY <1>10, <2>1, <2>2, <2>3, <2>4, <2>5
<1>14. CASE Admits(key, class, now) /\ q.gate # "shared"
  <2> DEFINE x == [q EXCEPT !.at = "serve", !.slot = (class = "upload")]
  <2>1. q.gate = "own" /\ key = q.key
    BY <1>1, <1>5, <1>14 DEF Request, k
  <2>2. x \in Request
    BY <1>1 DEF Request
  <2>3. /\ x.at = "serve" /\ x.gate = "own" /\ x.op = q.op /\ x.now = q.now
        /\ x.slot = (class = "upload") /\ x.key = q.key /\ x.target = q.target
        /\ x.late = FALSE /\ x.effects = 0 /\ x.successes = 0 /\ x.others = 0
    BY <1>1, <1>4, <2>1 DEF Request
  <2>4. req' = [req EXCEPT ![r] = x]
    BY <1>7, <1>14
  <2> HIDE DEF x
  <2>5. Fits(x)
    BY <1>2, <1>4, <1>8, <2>3 DEF Fits
  <2>6. CASE class # "upload"
    BY <1>10, <2>2, <2>3, <2>4, <2>5, <2>6
  <2>7. CASE class = "upload"
    <3>1. SlotFollows(r, x)
      BY <1>4, <1>6, <1>14, <2>1, <2>3, <2>7 DEF SlotFollows, q
    <3> QED
      BY <1>6, <2>2, <2>4, <2>5, <3>1 DEF Moves
  <2> QED
    BY <2>6, <2>7
<1> QED
  BY <1>11, <1>12, <1>13, <1>14

LEMMA ServeMoves ==
    ASSUME IInv, NEW r \in Requests, Serve(r)
    PROVE  Moves(r)
<1> DEFINE q == req[r]
<1>1. clock \in Nat /\ q \in Request /\ Fits(q) /\ LimiterInv /\ req \in [Requests -> Request]
  BY InvFits, FitOneByOne
<1>2. q.at = "serve" /\ clock' = clock
  BY DEF Serve
<1>3. /\ q.slot \in BOOLEAN /\ q.late = FALSE
      /\ q.slot => q.op = "upload"
      /\ q.effects = 0 /\ q.successes = 0 /\ q.others = 0
      /\ q.op # "install" => q.gate = "own" /\ q.key \in Tokens /\ tokens[q.key] # NoToken
      /\ q.op = "revoke" => q.target \in Tokens
      /\ q.op = "account" => q.target \in Accounts
      /\ q.op \in Operations
  BY <1>1, <1>2 DEF Fits, Request
<1> HIDE DEF q
<1>4. ASSUME NEW code \in Codes, MayEnd(q, code), Answers(r, code)
      PROVE  Moves(r)
  <2>1. Ends(q, code) \in Request /\ Fits(Ends(q, code)) /\ Ends(q, code).slot = FALSE
    BY <1>1, <1>4, EndsFits
  <2>2. PICK x \in Request : x = Ends(q, code)
    BY <2>1
  <2>3. /\ req' = [req EXCEPT ![r] = x]
        /\ IF req[r].slot THEN Release(req[r].key) ELSE UNCHANGED limiterVars
    BY <1>4, <2>2 DEF Answers, q
  <2>4. Fits(x) /\ ~x.slot
    BY <2>1, <2>2
  <2> QED
    BY <1>2, <2>3, <2>4, AnswerMoves
<1>5. CASE q.op = "install"
  <2>1. PICK code \in Codes : Answers(r, code)
    BY <1>5 DEF Serve, q, Codes
  <2>2. MayEnd(q, code)
    BY <1>3, <1>5 DEF MayEnd
  <2> QED
    BY <1>4, <2>1, <2>2
<1>6. CASE q.op # "install" /\ ~Permits(q)
  <2>1. PICK code \in Codes : code = 403
    BY DEF Codes
  <2> DEFINE x == Denied(q, code)
  <2>2. req' = [req EXCEPT ![r] = x] /\ UNCHANGED limiterVars
    BY <1>6, <2>1 DEF Serve, q
  <2>3. x \in Request /\ x.slot = q.slot /\ x.key = q.key
    BY <1>1 DEF Denied, Request
  <2>4. /\ x.at = "deny" /\ x.answer = code
        /\ x.op = q.op /\ x.key = q.key /\ x.target = q.target /\ x.now = q.now /\ x.late = q.late
        /\ x.gate = q.gate /\ x.slot = q.slot
        /\ x.effects = q.effects /\ x.successes = q.successes /\ x.others = q.others
    BY <1>1 DEF Denied, Request
  <2>5. q.now <= clock
    BY <1>1 DEF Fits
  <2> HIDE DEF x
  <2>6. Fits(x)
    BY <1>3, <1>6, <2>4, <2>5 DEF Fits
  <2> QED
    BY <1>2, <2>2, <2>3, <2>6, QuietMoves DEF q
<1>7. CASE q.op = "upload" /\ Permits(q)
  <2>1. PICK code \in Codes : code = 200
    BY DEF Codes
  <2>2. MayEnd(q, code) /\ Answers(r, code)
    BY <1>3, <1>7, <2>1 DEF MayEnd, Serve, q
  <2> QED
    BY <1>4, <2>2
<1>8. CASE q.op \notin {"install", "upload"} /\ Permits(q)
  <2> DEFINE x == [q EXCEPT !.at = "work"]
  <2>1. req' = [req EXCEPT ![r] = x] /\ UNCHANGED limiterVars
    BY <1>1, <1>8 DEF Serve, Goes, q
  <2>2. x \in Request /\ x.slot = FALSE
    BY <1>1, <1>3, <1>8 DEF Request
  <2>3. /\ x.at = "work"
        /\ x.op = q.op /\ x.key = q.key /\ x.target = q.target /\ x.now = q.now /\ x.late = q.late
        /\ x.gate = q.gate
        /\ x.effects = q.effects /\ x.successes = q.successes /\ x.others = q.others
    BY <1>1 DEF Request
  <2>4. q.now <= clock /\ q.op \in {"account", "issue", "revoke"}
    BY <1>1, <1>3, <1>8 DEF Fits, Operations
  <2> HIDE DEF x
  <2>5. Fits(x)
    BY <1>3, <2>2, <2>3, <2>4 DEF Fits
  <2>6. q.slot = FALSE
    BY <1>3, <1>8
  <2> QED
    BY <1>2, <2>1, <2>2, <2>5, <2>6, QuietMoves DEF q
<1> QED
  BY <1>5, <1>6, <1>7, <1>8

LEMMA WorkMoves ==
    ASSUME IInv, NEW r \in Requests, Work(r)
    PROVE  Moves(r)
<1> DEFINE q == req[r]
           refused == RefusalOf(q) # 0
           x == [q EXCEPT !.at = "commit", !.now = clock,
                          !.doing = IF refused THEN "refusal" ELSE "change", !.answer = RefusalOf(q)]
<1>1. clock \in Nat /\ q \in Request /\ Fits(q) /\ req \in [Requests -> Request]
  BY InvFits, FitOneByOne
<1>2. q.at = "work" /\ clock' = clock /\ UNCHANGED limiterVars
  BY DEF Work
<1>3. req' = [req EXCEPT ![r] = x]
  BY <1>1 DEF Work
<1>4. /\ q.slot = FALSE /\ q.late = FALSE
      /\ q.effects = 0 /\ q.successes = 0 /\ q.others = 0
      /\ q.op \in {"account", "issue", "revoke"}
      /\ q.gate = "own" /\ q.key \in Tokens /\ tokens[q.key] # NoToken
      /\ q.op = "revoke" => q.target \in Tokens
      /\ q.op = "account" => q.target \in Accounts
  BY <1>1, <1>2 DEF Fits, Request
<1>5. ~refused /\ q.op = "revoke" => tokens[q.target] # NoToken
  BY DEF RefusalOf
<1>6. RefusalOf(q) \in Codes
  BY DEF RefusalOf, Codes
<1> HIDE DEF refused, q
<1>7. x \in Request
  BY <1>1, <1>6 DEF Request
<1>8. /\ x.at = "commit" /\ x.now = clock
      /\ x.doing = IF refused THEN "refusal" ELSE "change"
      /\ x.op = q.op /\ x.key = q.key /\ x.target = q.target /\ x.late = q.late
      /\ x.gate = q.gate /\ x.slot = q.slot
      /\ x.effects = q.effects /\ x.successes = q.successes /\ x.others = q.others
  BY <1>1 DEF Request
<1> HIDE DEF x
<1>9. Fits(x)
  BY <1>1, <1>4, <1>5, <1>8 DEF Fits
<1> QED
  BY <1>2, <1>3, <1>4, <1>7, <1>8, <1>9, QuietMoves DEF q

\* An answer that is recorded, or that reports a change.
LEMMA RecordedMoves ==
    ASSUME IInv, NEW r \in Requests, NEW x \in Request, req' = [req EXCEPT ![r] = x],
           Ended(req[r], x), Agrees(req[r], x),
           IF req[r].slot THEN Release(req[r].key) ELSE UNCHANGED limiterVars,
           clock' = clock
    PROVE  Moves(r)
<1>1. clock \in Nat /\ req[r] \in Request
  BY InvFits
<1>2. Fits(x)
  BY <1>1, EndedFits
<1>3. ~x.slot
  BY DEF Ended
<1> QED
  BY <1>2, <1>3, AnswerMoves

LEMMA CommitMoves ==
    ASSUME IInv, NEW r \in Requests, CommitWork(r)
    PROVE  Moves(r)
<1> DEFINE q == req[r]
<1>1. clock \in Nat /\ q \in Request /\ Fits(q) /\ req \in [Requests -> Request]
  BY InvFits, FitOneByOne
<1>2. q.at = "commit" /\ clock' = clock /\ UNCHANGED limiterVars
  BY DEF CommitWork
<1>3. /\ q.slot = FALSE /\ q.late = FALSE /\ q.answer \in Codes
      /\ q.effects = 0 /\ q.successes = 0 /\ q.others = 0
  BY <1>1, <1>2 DEF Fits, Request
<1> HIDE DEF q
<1>4. ASSUME NEW code \in Codes, NEW e, e = Ends(q, code)
      PROVE  /\ e \in Request /\ Ended(q, e) /\ e.answer = code
             /\ e.effects = 0 /\ e.successes = 0 /\ e.others = 0
  BY <1>1, <1>3, <1>4, EndsTyped DEF Ended
<1>5. ASSUME q.doing = "refusal", req' = [req EXCEPT ![r] = [Ends(q, q.answer) EXCEPT !.others = q.others + 1]]
      PROVE  Moves(r)
  <2>1. PICK code \in Codes : code = q.answer
    BY <1>3
  <2>2. PICK e \in Request : e = Ends(q, code)
    BY <1>4
  <2>3. Ended(q, e) /\ e.answer = code /\ e.effects = 0 /\ e.successes = 0
    BY <1>4, <2>2
  <2> DEFINE x == [e EXCEPT !.others = q.others + 1]
  <2>4. req' = [req EXCEPT ![r] = x]
    BY <1>5, <2>1, <2>2
  <2>5. x \in Request
    BY <1>3 DEF Request
  <2>6. /\ x.at = e.at /\ x.now = e.now /\ x.gate = e.gate /\ x.op = e.op /\ x.slot = e.slot
        /\ x.late = e.late /\ x.answer = e.answer
        /\ x.effects = e.effects /\ x.successes = e.successes /\ x.others = 1
    BY <1>3 DEF Request
  <2> HIDE DEF x
  <2>7. Ended(q, x)
    BY <2>3, <2>6 DEF Ended
  <2>8. Agrees(q, x)
    <3>1. q.late => x.answer = 401
      BY <1>3, <2>1, <2>3, <2>6
    <3> QED
      BY <2>3, <2>6, <3>1 DEF Agrees
  <2> QED
    BY <1>2, <1>3, <2>4, <2>5, <2>7, <2>8, RecordedMoves DEF q
<1>6. ASSUME NEW n \in {200, 500},
             req' = [req EXCEPT ![r] = [Ends(q, n) EXCEPT !.effects = q.effects + 1, !.successes = q.successes + 1]]
      PROVE  Moves(r)
  <2>1. PICK code \in Codes : code = n
    BY DEF Codes
  <2>2. PICK e \in Request : e = Ends(q, code)
    BY <1>4
  <2>3. Ended(q, e) /\ e.answer = code
    BY <1>4, <2>2
  <2> DEFINE x == [e EXCEPT !.effects = q.effects + 1, !.successes = q.successes + 1]
  <2>4. req' = [req EXCEPT ![r] = x]
    <3>1. e = Ends(q, n)
      BY <2>1, <2>2
    <3> QED
      BY <1>6, <3>1, Zenon
  <2>5. x \in Request
    <3>1. PICK u \in Nat, v \in Nat : u = q.effects + 1 /\ v = q.successes + 1
      BY <1>3
    <3>2. [e EXCEPT !.effects = u, !.successes = v] \in Request
      BY DEF Request
    <3> QED
      BY <3>1, <3>2, Zenon
  <2>6. /\ x.at = e.at /\ x.now = e.now /\ x.gate = e.gate /\ x.op = e.op /\ x.slot = e.slot
        /\ x.late = e.late /\ x.answer = e.answer
        /\ x.effects = 1 /\ x.successes = 1
    BY <1>3 DEF Request
  <2> HIDE DEF x
  <2>7. Ended(q, x)
    BY <2>3, <2>6 DEF Ended
  <2>8. x.answer \notin {401, 403, 404, 409, 429}
    BY <1>6, <2>1, <2>3, <2>6
  <2>9. Agrees(q, x)
    BY <1>3, <2>6, <2>8 DEF Agrees
  <2> QED
    BY <1>2, <1>3, <2>4, <2>5, <2>7, <2>9, RecordedMoves DEF q
<1> QED
  BY <1>5, <1>6 DEF CommitWork, Written, q

LEMMA BreakMoves ==
    ASSUME IInv, NEW r \in Requests, Breaks(r)
    PROVE  Moves(r)
<1> DEFINE q == req[r]
<1>1. clock \in Nat /\ q \in Request /\ Fits(q)
  BY InvFits, FitOneByOne
<1>2. q.at \in {"serve", "work", "commit"} /\ clock' = clock
  BY DEF Breaks
<1>3. PICK code \in Codes : code = 500
  BY DEF Codes
<1>4. MayEnd(q, code)
  BY <1>1, <1>2, <1>3 DEF Fits, MayEnd
<1>5. Ends(q, code) \in Request /\ Fits(Ends(q, code)) /\ Ends(q, code).slot = FALSE
  BY <1>1, <1>4, EndsFits
<1>6. PICK x \in Request : x = Ends(q, code)
  BY <1>5
<1>7. /\ req' = [req EXCEPT ![r] = x]
      /\ IF req[r].slot THEN Release(req[r].key) ELSE UNCHANGED limiterVars
  BY <1>3, <1>6 DEF Breaks, Answers
<1>8. Fits(x) /\ ~x.slot
  BY <1>5, <1>6
<1> QED
  BY <1>2, <1>7, <1>8, AnswerMoves

LEMMA DenialMoves ==
    ASSUME IInv, NEW r \in Requests, AuditDenial(r)
    PROVE  Moves(r)
<1> DEFINE q == req[r]
<1>1. clock \in Nat /\ q \in Request /\ Fits(q) /\ req \in [Requests -> Request]
  BY InvFits, FitOneByOne
<1>2. /\ q.at = "deny" /\ clock' = clock
      /\ IF q.slot THEN Release(q.key) ELSE UNCHANGED limiterVars
  BY DEF AuditDenial
<1>3. /\ q.answer \in Codes
      /\ q.effects = 0 /\ q.successes = 0 /\ q.others = 0
      /\ q.late => q.answer = 401
  BY <1>1, <1>2 DEF Fits, Request
<1> HIDE DEF q
<1>4. ASSUME NEW code \in Codes, NEW e, e = Ends(q, code)
      PROVE  /\ e \in Request /\ Ended(q, e) /\ e.answer = code
             /\ e.effects = 0 /\ e.successes = 0 /\ e.others = 0
  <2>1. /\ e \in Request /\ e.at = "idle" /\ e.now = 0 /\ e.gate = "own" /\ e.slot = FALSE
        /\ (e.op = "install") <=> (q.op = "install")
        /\ e.late = q.late /\ e.answer = code
    BY <1>1, <1>4, EndsTyped
  <2>2. e.effects = q.effects /\ e.successes = q.successes /\ e.others = q.others
    BY <1>1, <1>4, EndsTyped
  <2>3. e.effects = 0 /\ e.successes = 0 /\ e.others = 0
    BY <1>3, <2>2
  <2> QED
    BY <2>1, <2>3 DEF Ended
<1>5. CASE req' = [req EXCEPT ![r] = [Ends(q, q.answer) EXCEPT !.others = q.others + 1]]
  <2>1. PICK code \in Codes : code = q.answer
    BY <1>3
  <2>2. PICK e \in Request : e = Ends(q, code)
    BY <1>4
  <2>3. Ended(q, e) /\ e.answer = code /\ e.effects = 0 /\ e.successes = 0
    BY <1>4, <2>2
  <2> DEFINE x == [e EXCEPT !.others = q.others + 1]
  <2>4. req' = [req EXCEPT ![r] = x]
    BY <1>5, <2>1, <2>2
  <2>5. x \in Request
    BY <1>3 DEF Request
  <2>6. /\ x.at = e.at /\ x.now = e.now /\ x.gate = e.gate /\ x.op = e.op /\ x.slot = e.slot
        /\ x.late = e.late /\ x.answer = e.answer
        /\ x.effects = e.effects /\ x.successes = e.successes /\ x.others = 1
    BY <1>3 DEF Request
  <2> HIDE DEF x
  <2>7. Ended(q, x)
    BY <2>3, <2>6 DEF Ended
  <2>8. Agrees(q, x)
    <3>1. q.late => x.answer = 401
      BY <1>3, <2>1, <2>3, <2>6
    <3> QED
      BY <2>3, <2>6, <3>1 DEF Agrees
  <2> QED
    BY <1>2, <1>3, <2>4, <2>5, <2>7, <2>8, RecordedMoves DEF q
<1>6. CASE req' = [req EXCEPT ![r] = Ends(q, 503)]
  <2>1. PICK code \in Codes : code = 503
    BY DEF Codes
  <2>2. MayEnd(q, code)
    BY <1>3, <2>1 DEF MayEnd
  <2>3. Ends(q, code) \in Request /\ Fits(Ends(q, code)) /\ Ends(q, code).slot = FALSE
    BY <1>1, <2>2, EndsFits
  <2>4. PICK x \in Request : x = Ends(q, code)
    BY <2>3
  <2>5. Fits(x) /\ ~x.slot /\ req' = [req EXCEPT ![r] = x]
    BY <1>6, <2>1, <2>3, <2>4
  <2> QED
    BY <1>2, <2>5, AnswerMoves DEF q
<1> QED
  BY <1>5, <1>6 DEF AuditDenial, q

LEMMA RequestMoves ==
    ASSUME IInv, NEW r \in Requests, RequestStep(r)
    PROVE  Moves(r)
BY ArriveMoves, AuthenticationMoves, AcquireMoves, ServeMoves, WorkMoves, CommitMoves, BreakMoves, DenialMoves
   DEF RequestStep

-----------------------------------------------------------------------------
(* Every step                                                              *)

\* What the limiter, the requests and their locks keep.
GateInv ==
    /\ LimiterInv /\ RequestsFit
    /\ SlotsAreCounted /\ UploadsAreBounded
    /\ LocksAreHeld
    /\ req \in [Requests -> Request]

\* A lock is taken by work and given back by the commit or the rollback.
LEMMA LocksStayHeld ==
    ASSUME IInv, NEW r \in Requests, RequestStep(r)
    PROVE  LocksAreHeld'
<1>1. /\ req \in [Requests -> Request] /\ req[r] \in Request
      /\ rowLock \in [Tokens -> Requests \cup {NoOne}] /\ LocksAreHeld
      /\ NoOne \notin Requests
  BY RequestsAssumption DEF IInv, TypeOK
<1>2. /\ req'[r] = req'[r]
      /\ \A s \in Requests \ {r} : req'[s] = req[s]
  BY <1>1, RequestMoves DEF Moves
<1>3. CASE rowLock' = rowLock /\ \A t \in Tokens : rowLock[t] # r
  BY <1>1, <1>2, <1>3 DEF LocksAreHeld
<1>4. CASE Work(r)
  <2> DEFINE q == req[r]
  <2>1. q.at = "work" /\ \A t \in Tokens : rowLock[t] # r
    BY <1>1, <1>4 DEF Work, LocksAreHeld
  <2>2. CASE RefusalOf(q) # 0 \/ q.op # "revoke"
    BY <1>3, <1>4, <2>1, <2>2 DEF Work
  <2>3. CASE RefusalOf(q) = 0 /\ q.op = "revoke"
    <3>1. rowLock' = [rowLock EXCEPT ![q.target] = r]
      BY <1>4, <2>3 DEF Work
    <3>2. /\ req'[r].at = "commit" /\ req'[r].op = "revoke"
          /\ req'[r].doing = "change" /\ req'[r].target = q.target
      BY <1>1, <1>4, <2>3 DEF Work, Request
    <3> QED
      BY <1>1, <1>2, <2>1, <3>1, <3>2 DEF LocksAreHeld
  <2> QED
    BY <2>2, <2>3
<1>5. CASE Breaks(r)
  <2>1. \A t \in Tokens : rowLock'[t] = IF rowLock[t] = r THEN NoOne ELSE rowLock[t]
    BY <1>5 DEF Breaks
  <2> QED
    BY <1>1, <1>2, <2>1 DEF LocksAreHeld
<1>6. CASE CommitWork(r)
  <2> DEFINE q == req[r]
  <2>1. CASE q.doing = "refusal"
    <3>1. rowLock' = rowLock
      BY <1>6, <2>1 DEF CommitWork, tokenVars
    <3>2. \A t \in Tokens : rowLock[t] # r
      BY <1>1, <2>1 DEF LocksAreHeld
    <3> QED
      BY <1>3, <3>1, <3>2
  <2>2. CASE q.op \in {"account", "issue"} /\ rowLock' = rowLock
    <3>1. \A t \in Tokens : rowLock[t] # r
      BY <1>1, <2>2 DEF LocksAreHeld
    <3> QED
      BY <1>3, <2>2, <3>1
  <2>3. CASE rowLock' = [rowLock EXCEPT ![q.target] = NoOne]
    BY <1>1, <1>2, <2>3 DEF LocksAreHeld
  <2> QED
    BY <1>6, <2>1, <2>2, <2>3 DEF CommitWork, CreateServiceAccount, IssueToken, RevokeToken
<1>7. CASE \/ \E op \in Operations, k \in Keys, x \in Tokens \cup Accounts : Arrive(r, op, k, x)
           \/ Lookup(r) \/ Touch(r) \/ AuthenticationFails(r) \/ ReadClock(r)
           \/ AcquireGate(r) \/ Serve(r) \/ AuditDenial(r)
  <2>1. req[r].at # "commit" /\ rowLock' = rowLock
    BY <1>7 DEF Arrive, Lookup, Touch, AuthenticationFails, ReadClock, AcquireGate, Serve, AuditDenial, tokenVars
  <2>2. \A t \in Tokens : rowLock[t] # r
    BY <1>1, <2>1 DEF LocksAreHeld
  <2> QED
    BY <1>3, <2>1, <2>2
<1> QED
  BY <1>4, <1>5, <1>6, <1>7 DEF RequestStep

LEMMA FitsAgain ==
    ASSUME Ages, \A s \in Requests : req'[s] \in Request /\ Fits(req'[s])
    PROVE  RequestsFit'
<1>1. ASSUME NEW s \in Requests PROVE Fits(req[s])'
  <2>1. PICK x \in Request : x = req'[s]
    OBVIOUS
  <2>2. Fits(x)'
    BY <2>1, FitStays
  <2> QED
    BY <2>1, <2>2 DEF Fits, Dead
<1>2. RequestsAreInPlace'
  BY <1>1 DEF RequestsAreInPlace, Fits
<1>3. DeadStaysDead' /\ DeadTokensAreShutOut'
  BY <1>1 DEF DeadStaysDead, DeadTokensAreShutOut, Fits
<1>4. AuditTellsTheTruth' /\ \A s \in Requests : req'[s].now <= clock'
  BY <1>1 DEF AuditTellsTheTruth, Fits
<1> QED
  BY <1>2, <1>3, <1>4 DEF RequestsFit

LEMMA RequestKeepsGate ==
    ASSUME IInv, NEW r \in Requests, RequestStep(r)
    PROVE  GateInv'
<1>1. PICK q \in Request : req' = [req EXCEPT ![r] = q] /\ Fits(q) /\ SlotFollows(r, q)
  BY RequestMoves DEF Moves
<1>2. LimiterInv' /\ Ages
  BY RequestMoves, TokensTyped DEF Moves, Next
<1>3. SlotsAreCounted' /\ UploadsAreBounded'
  BY <1>1, SlotsStayCounted
<1>4. req \in [Requests -> Request] /\ \A s \in Requests : Fits(req[s])
  BY InvFits, FitOneByOne
<1>5. req' \in [Requests -> Request] /\ \A s \in Requests : req'[s] \in Request /\ Fits(req'[s])
  BY <1>1, <1>4
<1>6. RequestsFit'
  BY <1>2, <1>5, FitsAgain
<1> QED
  BY <1>2, <1>3, <1>5, <1>6, LocksStayHeld DEF GateInv

\* Time and the bootstrap commands do not touch the requests.
LEMMA OthersKeepGate ==
    ASSUME IInv, Ages, UNCHANGED <<limiterVars, req, rowLock>>
    PROVE  GateInv'
<1>1. /\ LimiterInv /\ clock' \in Nat /\ clock <= clock'
      /\ req \in [Requests -> Request] /\ \A s \in Requests : Fits(req[s])
  BY InvFits, FitOneByOne DEF Ages
<1>2. LimiterInv' /\ \A k \in Keys : Active(k)' = Active(k)
  BY <1>1, LimiterStays
<1>3. RequestsFit'
  BY <1>1, FitsAgain
<1>4. SlotsAreCounted' /\ UploadsAreBounded' /\ LocksAreHeld'
  BY <1>2 DEF IInv, SlotsAreCounted, UploadsAreBounded, LocksAreHeld
<1> QED
  BY <1>1, <1>2, <1>3, <1>4 DEF GateInv

\* A request of the administration has a token, so that there is an account.
LEMMA RequestKeepsTurns ==
    ASSUME IInv, NEW r \in Requests, RequestStep(r)
    PROVE  CommandsTakeTurns' /\ OneBootstrap'
<1>1. UNCHANGED <<boot, printed>>
  <2>1. UNCHANGED bootVars
    BY DEF RequestStep, Arrive, Lookup, Touch, AuthenticationFails, ReadClock, AcquireGate,
       Serve, Work, CommitWork, Breaks, AuditDenial
  <2> QED
    BY <2>1 DEF bootVars
<1>2. CommandsTakeTurns /\ OneBootstrap
  BY DEF IInv
<1>3. accounts \subseteq accounts'
  BY TokensTyped DEF Next, Ages
<1>4. CASE accounts' = accounts /\ tokens' = tokens
  BY <1>1, <1>2, <1>4 DEF CommandsTakeTurns, OneBootstrap
<1>5. CASE req[r].at \in {"touch", "commit"}
  <2>1. req[r].key \in Tokens /\ tokens[req[r].key] # NoToken
    BY <1>5 DEF IInv, RequestsAreInPlace
  <2>2. accounts # {}
    BY <1>2, <2>1 DEF CommandsTakeTurns
  <2> QED
    BY <1>1, <1>2, <1>3, <2>2 DEF CommandsTakeTurns, OneBootstrap
<1>6. (accounts' = accounts /\ tokens' = tokens) \/ req[r].at \in {"touch", "commit"}
  BY DEF RequestStep, Arrive, Lookup, Touch, AuthenticationFails, ReadClock, AcquireGate,
     Serve, Work, CommitWork, Breaks, AuditDenial, tokenVars
<1> QED
  BY <1>4, <1>5, <1>6

LEMMA BootstrapKeepsTurns ==
    ASSUME IInv, NEW b \in Operators, Bootstrap(b)
    PROVE  CommandsTakeTurns' /\ OneBootstrap'
<1>1. /\ CommandsTakeTurns /\ OneBootstrap
      /\ boot \in [Operators -> {"idle", "locked", "counted", "done"}]
  BY DEF IInv, TypeOK, TokensTypeOK
<1>2. CASE BootstrapLock(b) \/ BootstrapCount(b) \/ BootstrapFails(b)
  <2>1. UNCHANGED <<accounts, tokens, printed>>
    BY <1>2 DEF BootstrapLock, BootstrapCount, BootstrapFails, tokenVars
  <2>2. CASE BootstrapLock(b)
    <3>1. boot' = [boot EXCEPT ![b] = "locked"] /\ \A d \in Operators : boot[d] \notin {"locked", "counted"}
      BY <2>2 DEF BootstrapLock, Locked
    <3> QED
      BY <1>1, <2>1, <3>1 DEF CommandsTakeTurns, OneBootstrap
  <2>3. CASE BootstrapCount(b)
    <3>1. /\ boot[b] = "locked"
          /\ boot' = [boot EXCEPT ![b] = IF accounts = {} THEN "counted" ELSE "done"]
      BY <2>3 DEF BootstrapCount
    <3> QED
      BY <1>1, <2>1, <3>1 DEF CommandsTakeTurns, OneBootstrap
  <2>4. CASE BootstrapFails(b)
    <3>1. boot' = [boot EXCEPT ![b] = "idle"]
      BY <2>4 DEF BootstrapFails
    <3> QED
      BY <1>1, <2>1, <3>1 DEF CommandsTakeTurns, OneBootstrap
  <2> QED
    BY <1>2, <2>2, <2>3, <2>4
<1>3. CASE BootstrapCommit(b, clock)
  <2>1. boot[b] = "counted" /\ printed = {}
    BY <1>1, <1>3 DEF BootstrapCommit, CommandsTakeTurns
  <2>2. PICK t \in Tokens : printed' = printed \cup {t}
    BY <1>3 DEF BootstrapCommit
  <2>3. printed' = {t}
    BY <2>1, <2>2
  <2>4. OneBootstrap'
    BY <2>3, FS_Singleton DEF OneBootstrap
  <2>5. boot' = [boot EXCEPT ![b] = "done"] /\ accounts' # {}
    BY <1>3 DEF BootstrapCommit
  <2>6. \A d \in Operators : boot'[d] \notin {"locked", "counted"}
    BY <1>1, <2>1, <2>5 DEF CommandsTakeTurns
  <2> QED
    BY <2>4, <2>5, <2>6 DEF CommandsTakeTurns
<1> QED
  BY <1>2, <1>3 DEF Bootstrap

LEMMA StepKeepsIInv ==
    ASSUME IInv, Next
    PROVE  IInv'
<1>1. Ages /\ TokensTypeOK' /\ rowLock' \in [Tokens -> Requests \cup {NoOne}]
  BY TokensTyped
<1>2. sent' \in Nat /\ load' \in Loads
  <2>1. sent \in Nat /\ load \in Loads
    BY DEF IInv, TypeOK
  <2>2. (Tick \/ \E b \in Operators : Bootstrap(b)) => UNCHANGED <<sent, load>>
    BY DEF Tick, Bootstrap
  <2>3. ASSUME NEW r \in Requests, RequestStep(r) PROVE sent' \in {sent, sent + 1} /\ load' = load
    BY <2>3 DEF RequestStep, Arrive, Lookup, Touch, AuthenticationFails, ReadClock,
       AcquireGate, Serve, Work, CommitWork, Breaks, AuditDenial
  <2> QED
    BY <2>1, <2>2, <2>3 DEF Next
<1>3. GateInv' /\ CommandsTakeTurns' /\ OneBootstrap'
  <2>1. CASE Tick
    <3>1. UNCHANGED <<limiterVars, req, rowLock, accounts, tokens, boot, printed>>
      BY <2>1 DEF Tick, tokenVars, bootVars
    <3>2. CommandsTakeTurns' /\ OneBootstrap'
      BY <3>1 DEF IInv, CommandsTakeTurns, OneBootstrap
    <3> QED
      BY <1>1, <3>1, <3>2, OthersKeepGate
  <2>2. ASSUME NEW b \in Operators, Bootstrap(b)
        PROVE  GateInv' /\ CommandsTakeTurns' /\ OneBootstrap'
    <3>1. UNCHANGED <<limiterVars, req, rowLock>>
      BY <2>2 DEF Bootstrap, BootstrapLock, BootstrapCount, BootstrapCommit, BootstrapFails, tokenVars
    <3> QED
      BY <1>1, <2>2, <3>1, OthersKeepGate, BootstrapKeepsTurns
  <2>3. ASSUME NEW r \in Requests, RequestStep(r)
        PROVE  GateInv' /\ CommandsTakeTurns' /\ OneBootstrap'
    BY <2>3, RequestKeepsGate, RequestKeepsTurns
  <2> QED
    BY <2>1, <2>2, <2>3 DEF Next
<1>4. LimiterTypeOK' /\ BucketsAreFair' /\ ReadingsArePast'
  BY <1>3 DEF GateInv, LimiterInv, RequestsFit, ReadingsArePast
<1>5. /\ RequestsAreInPlace' /\ DeadStaysDead' /\ DeadTokensAreShutOut' /\ AuditTellsTheTruth'
      /\ SlotsAreCounted' /\ UploadsAreBounded' /\ LocksAreHeld'
      /\ req' \in [Requests -> Request]
  BY <1>3 DEF GateInv, RequestsFit
<1>6. TypeOK'
  BY <1>1, <1>2, <1>4, <1>5 DEF TypeOK
<1> QED
  BY <1>3, <1>4, <1>5, <1>6 DEF IInv

LEMMA StutterKeepsIInv ==
    ASSUME IInv, UNCHANGED vars
    PROVE  IInv' /\ Ages
<1>1. /\ UNCHANGED <<clock, entries, lastSweep, admitted, rewound>>
      /\ UNCHANGED <<accounts, tokens, rowLock, boot, printed, req, sent, load>>
  BY DEF vars, limiterVars, tokenVars, bootVars
<1>2. /\ clock \in Nat
      /\ \A t \in Tokens : tokens[t] # NoToken => tokens[t] \in Row
  BY DEF IInv, TypeOK, LimiterTypeOK, TokensTypeOK
<1>3. Ages
  <2>1. \A t \in Tokens : tokens[t] # NoToken => (tokens[t].used # Never => tokens[t].used \in Nat)
    BY <1>2 DEF Row
  <2>2. \A t \in Tokens : tokens[t] # NoToken => (tokens[t].used # Never => tokens[t].used >= tokens[t].used)
    BY <2>1
  <2> QED
    BY <1>1, <1>2, <2>2 DEF Ages
<1>4. GateInv'
  BY <1>1, <1>3, OthersKeepGate DEF limiterVars
<1>5. TypeOK'
  BY <1>1 DEF IInv, TypeOK, LimiterTypeOK, TokensTypeOK
<1>6. CommandsTakeTurns' /\ OneBootstrap'
  BY <1>1 DEF IInv, CommandsTakeTurns, OneBootstrap
<1> QED
  BY <1>3, <1>4, <1>5, <1>6 DEF IInv, GateInv, LimiterInv, RequestsFit, ReadingsArePast

LEMMA InitIInv == Init => IInv
<1> SUFFICES ASSUME Init PROVE IInv
  OBVIOUS
<1>1. LimiterInit /\ req = [r \in Requests |-> Nothing] /\ sent = 0 /\ load \in Loads
  BY DEF Init
<1>2. LimiterTypeOK /\ ReadingsArePast /\ BucketsAreFair
  <2>1. \A k \in Keys : entries[k] = Absent /\ \A c \in Classes : admitted[k][c] = 0
    BY <1>1 DEF LimiterInit
  <2>2. BucketsAreFair
    BY <2>1 DEF BucketsAreFair
  <2>3. ReadingsArePast
    BY <1>1, <2>1 DEF LimiterInit, ReadingsArePast, Unswept, Nothing
  <2>4. LimiterTypeOK
    BY <1>1 DEF LimiterInit, LimiterTypeOK
  <2> QED
    BY <2>2, <2>3, <2>4
<1>3. /\ TokensTypeOK /\ rowLock = [t \in Tokens |-> NoOne]
      /\ CommandsTakeTurns /\ OneBootstrap
  <2>1. CASE TokensInit
    <3>1. OneBootstrap
      BY <2>1, FS_EmptySet DEF TokensInit, OneBootstrap
    <3> QED
      BY <2>1, <3>1 DEF TokensInit, TokensTypeOK, CommandsTakeTurns
  <2>2. CASE BootedInit
    <3>1. PICK t \in Tokens :
            /\ tokens = [u \in Tokens |-> IF u = t THEN NewRow({"admin"}, LongTTL) ELSE NoToken]
            /\ printed = {t}
      BY <2>2 DEF BootedInit
    <3>2. NewRow({"admin"}, LongTTL) \in Row
      BY NewRowTyped, TTLAssumption DEF Scopes
    <3>3. /\ accounts = {Root} /\ boot = [b \in Operators |-> "done"]
          /\ rowLock = [u \in Tokens |-> NoOne]
      BY <2>2 DEF BootedInit
    <3>4. OneBootstrap
      BY <3>1, FS_Singleton DEF OneBootstrap
    <3>5. TokensTypeOK
      BY <3>1, <3>2, <3>3, RootAssumption DEF TokensTypeOK
    <3>6. CommandsTakeTurns
      BY <3>3 DEF CommandsTakeTurns
    <3> QED
      BY <3>3, <3>4, <3>5, <3>6
  <2> QED
    BY <2>1, <2>2 DEF Init
<1>4. TypeOK
  BY <1>1, <1>2, <1>3, NothingTyped DEF TypeOK
<1>5. \A r \in Requests : Fits(req[r])
  BY <1>1, <1>2 DEF Fits, Nothing, LimiterTypeOK
<1>6. RequestsFit
  BY <1>5, FitOneByOne
<1>7. LocksAreHeld
  BY <1>3, RequestsAssumption DEF LocksAreHeld
<1>8. SlotsAreCounted /\ UploadsAreBounded
  <2>1. ASSUME NEW k \in Keys
        PROVE  /\ {r \in Requests : req[r].slot /\ req[r].key = k} = {}
               /\ Active(k) = 0
    <3>1. \A r \in Requests : req[r].slot = FALSE
      BY <1>1 DEF Nothing
    <3>2. entries[k] = Absent
      BY <1>1 DEF LimiterInit
    <3> QED
      BY <3>1, <3>2 DEF Active
  <2>2. Cardinality({}) = 0 /\ 0 <= UploadConcurrency
    BY FS_EmptySet, LimitAssumption
  <2>3. ASSUME NEW k \in Keys
        PROVE  Cardinality({r \in Requests : req[r].slot /\ req[r].key = k}) = 0
    BY <2>1, <2>2
  <2> QED
    BY <2>1, <2>2, <2>3 DEF SlotsAreCounted, UploadsAreBounded
<1> QED
  BY <1>2, <1>3, <1>4, <1>6, <1>7, <1>8 DEF IInv, RequestsFit

-----------------------------------------------------------------------------
(* Theorems                                                                *)

\* The inductive invariant: the limiter's count is the uploads that run, no bucket has
\* given more than its rate, dead tokens stay dead, the rows that requests have locked
\* are theirs, and bootstrap commands take turns.
THEOREM InductiveInvariant == Spec => []IInv
<1>1. IInv /\ [Next]_vars => IInv'
  BY StepKeepsIInv, StutterKeepsIInv
<1> QED
  BY <1>1, InitIInv, PTL DEF Spec

\* No token ever has more uploads running than UploadConcurrency, whatever entries the
\* limiter forgets and makes again, and whatever fails or panics.
THEOREM UploadsStayBounded == Spec => []UploadsAreBounded
<1>1. IInv => UploadsAreBounded
  BY DEF IInv
<1> QED
  BY <1>1, InductiveInvariant, PTL

\* Whatever rates, bursts and idle times are configured, since the start of the process no
\* key has passed more requests of a class than one burst and what its bucket gets, for
\* all the time there was and all that late readings of the clock gave it twice.
THEOREM RatesAreKept == Spec => []RateIsKept
<1>1. ASSUME IInv, NEW k \in Keys, NEW c \in Classes
      PROVE  Covers(c, clock + rewound[k], admitted[k][c] - Burst[c])
  <2>1. /\ clock \in Nat /\ lastSweep \in Int /\ lastSweep <= clock
        /\ rewound[k] \in Nat /\ admitted[k] \in [Classes -> Nat]
        /\ entries[k] # Absent => entries[k] \in Entry
        /\ LimiterInv
    BY <1>1, InvFits, LimiterTypes DEF LimiterInv
  <2>2. Burst[c] \in Nat /\ admitted[k][c] \in Nat
    BY <2>1, RateAssumption
  <2>3. EntryFair(entries[k], admitted[k], lastSweep, rewound[k])
    BY <2>1, FairByEntry DEF LimiterInv
  <2>4. CASE entries[k] = Absent
    <3>1. admitted[k][c] = 0 \/ Covers(c, lastSweep + rewound[k], admitted[k][c])
      BY <2>3, <2>4 DEF EntryFair
    <3> QED
      BY <2>1, <2>2, <3>1, CoversMore
  <2>5. CASE entries[k] # Absent
    <3> DEFINE seen == entries[k].lastSeen
               left == entries[k].bucket[c].tokens
    <3>1. seen \in Nat /\ left \in Nat /\ seen <= clock
      BY <2>1, <2>5 DEF Entry, Bucket, LimiterInv
    <3>2. Covers(c, seen + rewound[k], admitted[k][c] + left - Burst[c])
      BY <2>3, <2>5 DEF EntryFair, Fair
    <3> HIDE DEF seen, left
    <3> QED
      BY <2>1, <2>2, <3>1, <3>2, CoversMore
  <2> QED
    BY <2>4, <2>5
<1>2. IInv => RateIsKept
  BY <1>1 DEF RateIsKept
<1> QED
  BY <1>2, InductiveInvariant, PTL

BurstAndRate(c) ==
    \A k \in Keys : admitted[k][c] <= Burst[c] + Rate[c] * (clock + rewound[k])

\* A key gains nothing from being forgotten in a class whose bucket fills in an idle time,
\* as it does with the defaults (a burst of 100, 50 a second, 15 minutes).
THEOREM ForgettingIsFree ==
    ASSUME NEW c \in Classes, Burst[c] <= Rate[c] * IdleTTL
    PROVE  Spec => []BurstAndRate(c)
<1>1. ASSUME IInv, RateIsKept, NEW k \in Keys
      PROVE  admitted[k][c] <= Burst[c] + Rate[c] * (clock + rewound[k])
  <2>1. /\ clock \in Nat /\ rewound[k] \in Nat /\ admitted[k][c] \in Nat /\ Burst[c] \in Nat
        /\ Rate[c] \in Nat
    BY <1>1, InvFits, LimiterTypes, RateAssumption DEF LimiterInv
  <2>2. Covers(c, clock + rewound[k], admitted[k][c] - Burst[c])
    BY <1>1 DEF RateIsKept
  <2>3. /\ admitted[k][c] - Burst[c] <= Rate[c] * (clock + rewound[k])
        /\ Rate[c] * (clock + rewound[k]) \in Int
    BY <2>1, <2>2, CoversByRate, RateTimes
  <2> QED
    BY <2>1, <2>3
<1>2. IInv /\ RateIsKept => BurstAndRate(c)
  BY <1>1 DEF BurstAndRate
<1> QED
  BY <1>2, InductiveInvariant, RatesAreKept, PTL

\* Who comes with a token that is revoked or expired is told so, and changes nothing.
THEOREM DeadTokensStayOut == Spec => []DeadTokensAreShutOut
<1>1. IInv => DeadTokensAreShutOut
  BY DEF IInv
<1> QED
  BY <1>1, InductiveInvariant, PTL

\* The audit trail has one success for each change, and an event for each denial and
\* refusal that a client hears of.
THEOREM AuditIsTrue == Spec => []AuditTellsTheTruth
<1>1. IInv => AuditTellsTheTruth
  BY DEF IInv
<1> QED
  BY <1>1, InductiveInvariant, PTL

\* Any number of bootstrap commands make one administrator at most, next to requests
\* that create accounts.
THEOREM OneAdministrator == Spec => []OneBootstrap
<1>1. IInv => OneBootstrap
  BY DEF IInv
<1> QED
  BY <1>1, InductiveInvariant, PTL

\* Tokens stay, first revocations count, and the last use never goes back.
THEOREM TokensAge == Spec => TokensOnlyAge
<1> DEFINE Older == \A t \in Tokens : tokens[t] # NoToken =>
                        /\ tokens'[t] # NoToken
                        /\ tokens[t].revoked # Never => tokens'[t].revoked = tokens[t].revoked
                        /\ tokens[t].used # Never => tokens'[t].used >= tokens[t].used
<1>1. Ages => Older
  BY DEF Ages
<1>2. IInv /\ [Next]_vars => [Older]_vars
  BY <1>1, TokensTyped
<1> QED
  BY <1>2, InductiveInvariant, PTL DEF Spec, TokensOnlyAge

=============================================================================
