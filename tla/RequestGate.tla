------------------------------ MODULE RequestGate ------------------------------
(***************************************************************************)
(* What stands between a request and the work it asks for: authentication, *)
(* the rate limiter, the scopes, and the audit trail of what was done or   *)
(* denied.  Behind it, the administration of accounts and tokens, which    *)
(* changes what the next request meets; other work is "upload".            *)
(*                                                                         *)
(* Requests interleave between any two accesses to the database, the clock *)
(* or the limiter, and any access may fail: the database is away, the      *)
(* client is gone, the handler panics.                                     *)
(*                                                                         *)
(* Source: internal/api/server.go, auth_handlers.go, rate_limit.go,        *)
(* denial_audit.go, install_handlers.go (installRateLimitMiddleware),      *)
(* internal/auth/middleware.go, authorize.go, service.go, internal/audit.  *)
(***************************************************************************)
EXTENDS RateLimiter, AccessTokens

CONSTANTS
    Requests,     \* threads of the API server, one request at a time each
    InstallKeys,  \* the keys in install URLs
    Shared,       \* the key all requests for installation share
    Loads         \* what clients may ask for, of which one is chosen at the start

Operations == {"upload", "account", "issue", "revoke", "install"}

\* ops: the operations; most: how many requests in all; until: the end of the clock;
\* booted: the server has its administrator before the first request.
Load == [ops : SUBSET Operations, most : Nat, until : Nat, booted : BOOLEAN]

ASSUME KeysAssumption == Keys = Tokens \cup InstallKeys \cup {Shared}
ASSUME LoadsAssumption == Loads \subseteq Load
ASSUME RequestsAssumption == IsFiniteSet(Requests) /\ NoOne \notin Requests

VARIABLES
    req,    \* where each request is, what it has done and what its client has heard
    sent,   \* how many requests have come
    load    \* one of Loads

vars == <<clock, limiterVars, tokenVars, bootVars, req, sent, load>>

-----------------------------------------------------------------------------
(* Requests                                                                *)

ClassOf(op) == IF op = "install" THEN "read" ELSE IF op = "upload" THEN "upload" ELSE "mutation"

Codes == {0, 200, 401, 403, 404, 409, 429, 500, 503}

\* key: the token, or the install key.  now: a reading of the clock.  late: the token
\* was dead when the request came.  slot: it holds an upload slot.  doing: what its
\* open transaction has done.  answer: what its client hears, or has heard.  effects,
\* successes and others: what it has committed, and its audit events.
Request ==
    [at : {"idle", "lookup", "touch", "clock", "acquire", "serve", "work", "commit", "deny"},
     op : Operations, key : Keys, target : Tokens \cup Accounts, now : Nat, late : BOOLEAN,
     gate : {"shared", "own"}, slot : BOOLEAN, doing : {"nothing", "change", "refusal"},
     answer : Codes, effects : Nat, successes : Nat, others : Nat]

Nothing ==
    [at |-> "idle", op |-> "upload", key |-> Shared, target |-> Root, now |-> 0, late |-> FALSE,
     gate |-> "own", slot |-> FALSE, doing |-> "nothing",
     answer |-> 0, effects |-> 0, successes |-> 0, others |-> 0]

TypeOK ==
    /\ LimiterTypeOK /\ TokensTypeOK
    /\ rowLock \in [Tokens -> Requests \cup {NoOne}]
    /\ req \in [Requests -> Request]
    /\ sent \in Nat
    /\ load \in Loads

Init ==
    /\ load \in Loads
    /\ LimiterInit
    /\ IF load.booted THEN BootedInit ELSE TokensInit
    /\ req = [r \in Requests |-> Nothing]
    /\ sent = 0

Goes(r, place) == req' = [req EXCEPT ![r].at = place]

Denied(q, code) == [q EXCEPT !.at = "deny", !.answer = code]

\* The answer is written; the slot, if there is one, comes back when the handler returns.
Ends(q, code) ==
    [Nothing EXCEPT !.op = IF q.op = "install" THEN "install" ELSE Nothing.op, !.late = q.late, !.answer = code,
                    !.effects = q.effects, !.successes = q.successes, !.others = q.others]

Answers(r, code) ==
    /\ req' = [req EXCEPT ![r] = Ends(req[r], code)]
    /\ IF req[r].slot THEN Release(req[r].key) ELSE UNCHANGED limiterVars

Dead(t) == tokens[t].revoked # Never \/ tokens[t].expires <= clock

\* Nobody has the bearer of a token that is not there yet.
Arrive(r, op, k, x) ==
    /\ req[r].at = "idle"
    /\ sent < load.most
    /\ op \in load.ops
    /\ k \in IF op = "install" THEN InstallKeys ELSE {t \in Tokens : tokens[t] # NoToken}
    /\ x \in IF op = "revoke" THEN Tokens ELSE IF op = "upload" \/ op = "install" THEN {Root} ELSE Accounts
    /\ req' = [req EXCEPT ![r] =
           [Nothing EXCEPT !.at = IF op = "install" THEN "clock" ELSE "lookup",
                           !.op = op, !.key = k, !.target = x,
                           !.gate = IF op = "install" THEN "shared" ELSE "own",
                           !.late = op # "install" /\ Dead(k)]]
    /\ sent' = sent + 1
    /\ UNCHANGED <<clock, limiterVars, tokenVars, bootVars, load>>

-----------------------------------------------------------------------------
(* Authentication                                                          *)

\* The row, and the clock; a bearer that does not parse or whose secret does not match
\* is denied like a row that is not there.
Lookup(r) ==
    LET q == req[r] IN
    /\ q.at = "lookup"
    /\ \/ /\ Accepts(q.key, clock)
          /\ req' = [req EXCEPT ![r].at = "touch", ![r].now = clock]
       \/ req' = [req EXCEPT ![r] = Denied(q, 401)]
    /\ UNCHANGED <<clock, limiterVars, tokenVars, bootVars, sent, load>>

\* The use is written, unless it is recent; a row that a revocation holds is waited for.
Touch(r) ==
    LET q == req[r] IN
    /\ q.at = "touch"
    /\ rowLock[q.key] = NoOne \/ ~NeedsTouch(q.key, q.now)
    /\ tokens' = Touched(q.key, q.now)
    /\ Goes(r, "clock")
    /\ UNCHANGED <<clock, limiterVars, accounts, rowLock, bootVars, sent, load>>

\* The database is away: "authentication-unavailable".
AuthenticationFails(r) ==
    /\ req[r].at \in {"lookup", "touch"}
    /\ req' = [req EXCEPT ![r] = Ends(req[r], 503)]
    /\ UNCHANGED <<clock, limiterVars, tokenVars, bootVars, sent, load>>

-----------------------------------------------------------------------------
(* The rate limiter                                                        *)

ReadClock(r) ==
    /\ req[r].at = "clock"
    /\ req' = [req EXCEPT ![r].at = "acquire", ![r].now = clock]
    /\ UNCHANGED <<clock, limiterVars, tokenVars, bootVars, sent, load>>

\* Requests for installation pass the shared key before their own; they have no actor,
\* and a denial of theirs is not audited.
AcquireGate(r) ==
    LET q == req[r]
        k == IF q.gate = "shared" THEN Shared ELSE q.key
        c == ClassOf(q.op)
    IN
    /\ q.at = "acquire"
    /\ Acquire(k, c, q.now)
    /\ req' = [req EXCEPT ![r] =
           IF ~Admits(k, c, q.now)
           THEN IF q.op = "install" THEN Ends(q, 429) ELSE Denied(q, 429)
           ELSE IF q.gate = "shared" THEN [q EXCEPT !.at = "clock", !.gate = "own"]
           ELSE [q EXCEPT !.at = "serve", !.slot = (c = "upload")]]
    /\ UNCHANGED <<clock, tokenVars, bootVars, sent, load>>

-----------------------------------------------------------------------------
(* Handlers                                                                *)

Needs(op) == IF op = "upload" THEN "write" ELSE "admin"

\* Require: an administrator may do everything.  The actor is the row that was read; the
\* scopes of a row never change.
Permits(q) == {"admin", Needs(q.op)} \cap tokens[q.key].scopes # {}

Serve(r) ==
    LET q == req[r] IN
    /\ q.at = "serve"
    /\ IF q.op = "install" THEN \E code \in {200, 404} : Answers(r, code)
       ELSE IF ~Permits(q) THEN req' = [req EXCEPT ![r] = Denied(q, 403)] /\ UNCHANGED limiterVars
       ELSE IF q.op = "upload" THEN Answers(r, 200)
       ELSE Goes(r, "work") /\ UNCHANGED limiterVars
    /\ UNCHANGED <<clock, tokenVars, bootVars, sent, load>>

\* An error or a panic anywhere behind the limiter: what is open is rolled back.
Breaks(r) ==
    /\ req[r].at \in {"serve", "work", "commit"}
    /\ Answers(r, 500)
    /\ rowLock' = [t \in Tokens |-> IF rowLock[t] = r THEN NoOne ELSE rowLock[t]]
    /\ UNCHANGED <<clock, accounts, tokens, bootVars, sent, load>>

\* The row a refused work leaves alone, and what it says: the account or token is not
\* there, or the name is taken.
RefusalOf(q) ==
    IF q.op = "account" THEN IF q.target \in accounts THEN 409 ELSE 0
    ELSE IF q.op = "issue" THEN IF q.target \notin accounts THEN 404 ELSE 0
    ELSE IF tokens[q.target] = NoToken THEN 404 ELSE 0

\* An insert of a name waits for one that has not committed; so does the write of a row.
MayWrite(r) ==
    LET q == req[r] IN
    IF q.op = "account"
    THEN \A s \in Requests \ {r} :
            req[s].op = "account" /\ req[s].target = q.target => req[s].at # "commit"
    ELSE IF q.op = "revoke" THEN rowLock[q.target] = NoOne ELSE TRUE

\* The work in its savepoint; a refusal takes the savepoint back and is recorded instead.
Work(r) ==
    LET q == req[r]
        refused == RefusalOf(q) # 0
    IN
    /\ q.at = "work"
    /\ refused \/ MayWrite(r)
    /\ req' = [req EXCEPT ![r].at = "commit", ![r].now = clock,
                          ![r].doing = IF refused THEN "refusal" ELSE "change",
                          ![r].answer = RefusalOf(q)]
    /\ rowLock' = IF ~refused /\ q.op = "revoke" THEN [rowLock EXCEPT ![q.target] = r] ELSE rowLock
    /\ UNCHANGED <<clock, limiterVars, accounts, tokens, bootVars, sent, load>>

\* Mutant: the audit event has a transaction of its own, which may fail after the commit.
WrittenApart(q) == {0, 1}
\* Every change commits with its one event of success, every refusal with one of failure.
Written(q) == {1}

CommitWork(r) ==
    LET q == req[r] IN
    /\ q.at = "commit"
    /\ \/ /\ q.doing = "refusal"
          /\ req' = [req EXCEPT ![r] = [Ends(q, q.answer) EXCEPT !.others = q.others + 1]]
          /\ UNCHANGED tokenVars
       \/ /\ q.doing = "change"
          /\ \E n \in Written(q), code \in {200, 500} :
                req' = [req EXCEPT ![r] =
                    [Ends(q, code) EXCEPT !.effects = q.effects + 1, !.successes = q.successes + n]]
          /\ \/ q.op = "account" /\ CreateServiceAccount(q.target)
             \/ q.op = "issue" /\ IssueToken(q.now)
             \/ q.op = "revoke" /\ RevokeToken(q.target, q.now)
    /\ UNCHANGED <<clock, limiterVars, bootVars, sent, load>>

-----------------------------------------------------------------------------
(* Denials                                                                 *)

\* Mutant: the answer does not wait for the audit event.
AuditLater(r) ==
    LET q == req[r] IN
    /\ q.at = "deny"
    /\ \/ req' = [req EXCEPT ![r] = [Ends(q, q.answer) EXCEPT !.others = q.others + 1]]
       \/ req' = [req EXCEPT ![r] = Ends(q, q.answer)]
    /\ IF q.slot THEN Release(q.key) ELSE UNCHANGED limiterVars
    /\ UNCHANGED <<clock, tokenVars, bootVars, sent, load>>

\* The answer waits for the audit event, which has a transaction of its own: without it
\* the client hears "audit-unavailable".
AuditDenial(r) ==
    LET q == req[r] IN
    /\ q.at = "deny"
    /\ \/ req' = [req EXCEPT ![r] = [Ends(q, q.answer) EXCEPT !.others = q.others + 1]]
       \/ req' = [req EXCEPT ![r] = Ends(q, 503)]
    /\ IF q.slot THEN Release(q.key) ELSE UNCHANGED limiterVars
    /\ UNCHANGED <<clock, tokenVars, bootVars, sent, load>>

-----------------------------------------------------------------------------
(* Specification                                                           *)

Tick ==
    /\ clock < load.until
    /\ clock' = clock + 1
    /\ UNCHANGED <<limiterVars, tokenVars, bootVars, req, sent, load>>

Bootstrap(b) ==
    /\ BootstrapLock(b) \/ BootstrapCount(b) \/ BootstrapCommit(b, clock) \/ BootstrapFails(b)
    /\ UNCHANGED <<clock, limiterVars, req, sent, load>>

RequestStep(r) ==
    \/ \E op \in Operations, k \in Keys, x \in Tokens \cup Accounts : Arrive(r, op, k, x)
    \/ Lookup(r) \/ Touch(r) \/ AuthenticationFails(r)
    \/ ReadClock(r) \/ AcquireGate(r)
    \/ Serve(r) \/ Work(r) \/ CommitWork(r) \/ Breaks(r)
    \/ AuditDenial(r)

Next == Tick \/ (\E b \in Operators : Bootstrap(b)) \/ (\E r \in Requests : RequestStep(r))

Spec == Init /\ [][Next]_vars

-----------------------------------------------------------------------------
(* Properties                                                              *)

\* The limiter's count of a key's uploads is the number of uploads that run: no error,
\* panic or sweep loses or leaks a slot.
SlotsAreCounted ==
    \A k \in Keys : Active(k) = Cardinality({r \in Requests : req[r].slot /\ req[r].key = k})

\* A row is held by a revocation that is about to commit.
LocksAreHeld ==
    \A t \in Tokens, r \in Requests :
        rowLock[t] = r => /\ req[r].at = "commit" /\ req[r].op = "revoke"
                          /\ req[r].doing = "change" /\ req[r].target = t

\* A token never has more uploads running than its limit, although its entry may be
\* forgotten and made again at any time.
UploadsAreBounded ==
    \A k \in Keys :
        Cardinality({r \in Requests : req[r].slot /\ req[r].key = k}) <= UploadConcurrency

\* The most that a bucket gets in an idle time: what its rate gives it, or, forgotten and
\* made again, one more burst.  With the default configuration the rate gives more.
Yield(c) == Larger(Burst[c], Rate[c] * IdleTTL)

\* What a bucket gets in so many ticks is enough for n requests.
Covers(c, ticks, n) == IdleTTL * n <= Yield(c) * ticks

\* Over all the time since the start, a key passes no more requests of a class than a
\* burst and what its bucket gets, also for the time that old readings of the clock give
\* it twice: forgetting idle keys gives away a burst in each idle time at the most, and
\* nothing at all where an idle time fills the bucket.
RateIsKept ==
    \A k \in Keys, c \in Classes :
        Covers(c, clock + rewound[k], admitted[k][c] - Burst[c])

\* A request that comes when its token is revoked or expired has no effect and is told
\* so, however the revocation and other requests of the token interleave.
DeadTokensAreShutOut ==
    \A r \in Requests :
        req[r].late => /\ req[r].at \in {"lookup", "deny", "idle"}
                       /\ req[r].answer \in {0, 401, 503}
                       /\ req[r].effects = 0

\* What the audit trail says of a request that is over is what happened: a success for
\* each change and for nothing else, and an event for each denial and refusal its client
\* hears of; requests for installation leave none.
AuditTellsTheTruth ==
    \A r \in Requests :
        req[r].at = "idle" /\ req[r].op # "install" =>
            /\ req[r].successes = req[r].effects
            /\ req[r].answer \in {401, 403, 404, 409, 429} => req[r].others = 1

\* A token stays, its first revocation is the one that counts, and last_used_at never
\* goes back, although each request brings a reading of the clock of its own.
TokensOnlyAge ==
    [][\A t \in Tokens : tokens[t] # NoToken =>
          /\ tokens'[t] # NoToken
          /\ tokens[t].revoked # Never => tokens'[t].revoked = tokens[t].revoked
          /\ tokens[t].used # Never => tokens'[t].used >= tokens[t].used]_vars

\* However many bootstrap commands run at once, one of them makes an administrator.
OneBootstrap == Cardinality(printed) <= 1

-----------------------------------------------------------------------------
(* The inductive invariant                                                 *)

\* What a request can be where it is: who asks with an install key has no token, a slot
\* is held by an upload that has passed the limiter, and only the administration opens
\* a transaction.
RequestsAreInPlace ==
    \A r \in Requests :
        LET q == req[r] IN
        /\ q.op # "install" => q.gate = "own"
        /\ q.slot => q.op = "upload" /\ q.at \in {"serve", "deny"}
        /\ q.at # "idle" =>
            /\ IF q.op = "install" THEN q.at \in {"clock", "acquire", "serve"}
               ELSE q.key \in Tokens /\ tokens[q.key] # NoToken
            /\ q.op = "revoke" => q.target \in Tokens
            /\ q.op = "account" => q.target \in Accounts
            /\ q.effects = 0 /\ q.successes = 0 /\ q.others = 0
        /\ q.at \in {"work", "commit"} => q.op \in {"account", "issue", "revoke"}
        /\ q.at = "commit" /\ q.op = "revoke" /\ q.doing = "change" => tokens[q.target] # NoToken

\* A token that was dead on arrival is dead when it is looked up.
DeadStaysDead ==
    \A r \in Requests :
        req[r].late =>
            /\ req[r].at = "lookup" => req[r].op # "install" /\ Dead(req[r].key)
            /\ req[r].at = "deny" => req[r].answer = 401

\* No reading of the clock is from the future.
ReadingsArePast ==
    /\ \A r \in Requests : req[r].now <= clock
    /\ \A k \in Keys : entries[k] # Absent => entries[k].lastSeen <= clock
    /\ lastSweep <= clock

\* Of a bucket b of class c, with n requests admitted, the last use of the key at seen and
\* w ticks rewound: what has been admitted and what is left are covered at the last use of
\* the key, and of the bucket unless that is still as it was made.
Fair(b, c, n, seen, w) ==
    /\ b.tokens <= Burst[c]
    /\ Covers(c, seen + w, n + b.tokens - Burst[c])
    /\ \/ b.tokens = Burst[c] /\ b.last = 0
       \/ Covers(c, b.last + w, n + b.tokens - Burst[c])

\* Buckets are fair; what a key that was forgotten has used is covered without the burst
\* that it gets when it comes back.
BucketsAreFair ==
    \A k \in Keys, c \in Classes :
        IF entries[k] = Absent
        THEN admitted[k][c] = 0 \/ Covers(c, lastSweep + rewound[k], admitted[k][c])
        ELSE Fair(entries[k].bucket[c], c, admitted[k][c], entries[k].lastSeen, rewound[k])

\* One command at a time is between its lock and its commit, and as long as there is no
\* account there is nothing to authenticate with.
CommandsTakeTurns ==
    /\ \A b, d \in Operators :
            boot[b] \in {"locked", "counted"} /\ boot[d] \in {"locked", "counted"} => b = d
    /\ \A b \in Operators : boot[b] = "counted" => accounts = {}
    /\ accounts = {} => printed = {} /\ \A t \in Tokens : tokens[t] = NoToken

IInv ==
    /\ TypeOK
    /\ SlotsAreCounted /\ UploadsAreBounded
    /\ LocksAreHeld
    /\ RequestsAreInPlace
    /\ DeadStaysDead /\ DeadTokensAreShutOut
    /\ ReadingsArePast /\ BucketsAreFair
    /\ AuditTellsTheTruth
    /\ CommandsTakeTurns /\ OneBootstrap

=============================================================================
