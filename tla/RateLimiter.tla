------------------------------ MODULE RateLimiter ------------------------------
(***************************************************************************)
(* The in-memory limiter of the API process: for every key (a token, an    *)
(* install key, the shared install key) one bucket per class of requests   *)
(* and a count of its uploads, forgotten once the key has been idle.       *)
(*                                                                         *)
(* Acquire reads the clock before it takes the mutex, so a reading may be  *)
(* old when it is used: now is a parameter here, and its age is kept in    *)
(* rewound.  Time is counted in ticks.                                     *)
(*                                                                         *)
(* Source: internal/ratelimit/limiter.go.  The token bucket itself is that *)
(* of golang.org/x/time/rate.                                              *)
(***************************************************************************)
EXTENDS Integers

CONSTANTS
    Keys,
    Classes,             \* "read", "mutation" and "upload"
    Rate,                \* of each class: tokens per tick
    Burst,               \* of each class: the most a bucket holds
    UploadConcurrency,   \* uploads of a key at a time
    IdleTTL,             \* ticks after which an idle key is forgotten
    Absent               \* no entry

ASSUME ClassesAssumption == {"read", "mutation", "upload"} \subseteq Classes
ASSUME RateAssumption == Rate \in [Classes -> Nat \ {0}] /\ Burst \in [Classes -> Nat \ {0}]
ASSUME LimitAssumption == UploadConcurrency \in Nat \ {0} /\ IdleTTL \in Nat \ {0}

VARIABLES
    clock,
    entries,     \* what the limiter knows of each key
    lastSweep,   \* when it last looked for idle keys
    admitted,    \* how many requests of each key and class have passed
    rewound      \* by how many ticks the readings of each key were too old

limiterVars == <<entries, lastSweep, admitted, rewound>>

Unswept == -1

Bucket == [tokens : Nat, last : Nat]
Entry == [bucket : [Classes -> Bucket], active : Nat, lastSeen : Nat]

ASSUME AbsentAssumption == Absent \notin Entry

LimiterTypeOK ==
    /\ clock \in Nat
    /\ entries \in [Keys -> Entry \cup {Absent}]
    /\ lastSweep \in Nat \cup {Unswept}
    /\ admitted \in [Keys -> [Classes -> Nat]]
    /\ rewound \in [Keys -> Nat]

LimiterInit ==
    /\ clock = 0
    /\ entries = [k \in Keys |-> Absent]
    /\ lastSweep = Unswept
    /\ admitted = [k \in Keys |-> [c \in Classes |-> 0]]
    /\ rewound = [k \in Keys |-> 0]

-----------------------------------------------------------------------------
(* Sweeping                                                                *)

SweepDue(now) == lastSweep = Unswept \/ 2 * (now - lastSweep) >= IdleTTL

\* Mutant: uploads that run do not keep an entry.
IdleWhenUnseen(e, now) == e # Absent /\ now - e.lastSeen > IdleTTL
\* Mutant: an entry is idle at once.
IdleAtOnce(e, now) == e # Absent /\ e.active = 0

Idle(e, now) == e # Absent /\ e.active = 0 /\ now - e.lastSeen > IdleTTL

Swept(now) ==
    [k \in Keys |-> IF SweepDue(now) /\ Idle(entries[k], now) THEN Absent ELSE entries[k]]

-----------------------------------------------------------------------------
(* Acquire and Release                                                     *)

NewEntry(now) ==
    [bucket |-> [c \in Classes |-> [tokens |-> Burst[c], last |-> 0]],
     active |-> 0, lastSeen |-> now]

Smaller(a, b) == IF a < b THEN a ELSE b
Larger(a, b) == IF a > b THEN a ELSE b

\* A reading before the last one adds nothing, but becomes the last one.
Refilled(b, c, now) ==
    [tokens |-> Smaller(Burst[c], b.tokens + Rate[c] * Larger(0, now - b.last)), last |-> now]

\* The entry of the key as Acquire finds or makes it.
Seen(k, now) ==
    LET e == Swept(now)[k] IN
    IF e = Absent THEN NewEntry(now) ELSE [e EXCEPT !.lastSeen = now]

\* Mutant: the uploads of a key are not counted against the limit.
FreeAlways(k, c, now) == TRUE
HasSlot(k, c, now) == c = "upload" => Seen(k, now).active < UploadConcurrency

Admits(k, c, now) ==
    /\ HasSlot(k, c, now)
    /\ Refilled(Seen(k, now).bucket[c], c, now).tokens >= 1

\* A reservation that would have to wait is cancelled: its token comes back, the
\* reading stays.
Acquire(k, c, now) ==
    LET e == Seen(k, now)
        b == Refilled(e.bucket[c], c, now)
        granted == Admits(k, c, now)
        newest == IF Swept(now)[k] = Absent THEN lastSweep
                  ELSE Larger(Swept(now)[k].lastSeen, e.bucket[c].last)
    IN
    /\ entries' = [Swept(now) EXCEPT ![k] =
           IF ~HasSlot(k, c, now) THEN e
           ELSE [bucket |-> [e.bucket EXCEPT ![c] =
                                IF granted THEN [b EXCEPT !.tokens = b.tokens - 1] ELSE b],
                 active |-> IF granted /\ c = "upload" THEN e.active + 1 ELSE e.active,
                 lastSeen |-> now]]
    /\ lastSweep' = IF SweepDue(now) THEN now ELSE lastSweep
    /\ admitted' = IF granted THEN [admitted EXCEPT ![k][c] = @ + 1] ELSE admitted
    /\ rewound' = [rewound EXCEPT ![k] = @ + Larger(0, newest - now)]

\* Only the first call of a Release counts.
Release(k) ==
    /\ LET e == entries[k] IN
       entries' = IF e = Absent THEN entries
                  ELSE [entries EXCEPT ![k] =
                           [bucket |-> e.bucket, active |-> Larger(0, e.active - 1), lastSeen |-> clock]]
    /\ UNCHANGED <<lastSweep, admitted, rewound>>

Active(k) == IF entries[k] = Absent THEN 0 ELSE entries[k].active

=============================================================================
