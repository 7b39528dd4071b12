------------------------------ MODULE AccessTokens ------------------------------
(***************************************************************************)
(* Service accounts and their API tokens as the database holds them, and   *)
(* the command that creates the first administrator.                       *)
(*                                                                         *)
(* A token is one row; its secret is abstracted to whether the bearer is   *)
(* that of the row.  A revocation that has not committed holds the row.    *)
(*                                                                         *)
(* Source: internal/auth/service.go, token.go, internal/bootstrap/admin.go,*)
(* auth.sql.                                                               *)
(***************************************************************************)
EXTENDS Integers, FiniteSets

CONSTANTS
    Tokens,
    Accounts,
    Operators,   \* runs of the bootstrap command
    Root,        \* the account the command creates
    NoToken,     \* no row
    NoOne,       \* a row that no transaction holds
    Never,       \* a token that is not revoked, or not used yet
    LongTTL,     \* the life of the first token
    TouchAge     \* five minutes: a use this recent is not written again

ASSUME RootAssumption == Root \in Accounts
ASSUME TTLAssumption == LongTTL \in Nat \ {0} /\ TouchAge \in Nat

VARIABLES
    accounts,    \* the service accounts
    tokens,      \* the rows of api_tokens
    rowLock,     \* the request whose transaction has written a row
    boot,        \* where each bootstrap command is
    printed      \* the tokens bootstrap commands have created

tokenVars == <<accounts, tokens, rowLock>>
bootVars == <<boot, printed>>

Scopes == {"write", "admin"}

\* Times are numbers, Never is none.
Row == [scopes : SUBSET Scopes, expires : Nat, revoked : Nat \cup {Never}, used : Nat \cup {Never}]

ASSUME NeverAssumption == Never \notin Nat
ASSUME NoTokenAssumption == NoToken \notin Row

TokensTypeOK ==
    /\ accounts \subseteq Accounts
    /\ tokens \in [Tokens -> Row \cup {NoToken}]
    /\ boot \in [Operators -> {"idle", "locked", "counted", "done"}]
    /\ printed \subseteq Tokens

TokensInit ==
    /\ accounts = {}
    /\ tokens = [t \in Tokens |-> NoToken]
    /\ rowLock = [t \in Tokens |-> NoOne]
    /\ boot = [b \in Operators |-> "idle"]
    /\ printed = {}

NewRow(scopes, expires) ==
    [scopes |-> scopes, expires |-> expires, revoked |-> Never, used |-> Never]

\* A database that has its administrator.
BootedInit ==
    /\ accounts = {Root}
    /\ \E t \in Tokens :
        /\ tokens = [u \in Tokens |-> IF u = t THEN NewRow({"admin"}, LongTTL) ELSE NoToken]
        /\ printed = {t}
    /\ rowLock = [t \in Tokens |-> NoOne]
    /\ boot = [b \in Operators |-> "done"]

-----------------------------------------------------------------------------
(* Rows                                                                    *)

\* Mutant: only the expiry counts.
Unexpired(t, now) == tokens[t] # NoToken /\ tokens[t].expires > now

\* What Authenticate asks of the row it has read, the secret apart.
Accepts(t, now) ==
    /\ tokens[t] # NoToken
    /\ tokens[t].revoked = Never
    /\ tokens[t].expires > now

NeedsTouch(t, now) == IF tokens[t].used = Never THEN TRUE ELSE tokens[t].used < now - TouchAge

\* Mutant: every use is written.
TouchedAlways(t, now) == [tokens EXCEPT ![t].used = now]
Touched(t, now) == IF NeedsTouch(t, now) THEN [tokens EXCEPT ![t].used = now] ELSE tokens

\* Mutant: the last revocation counts.
RevokedLast(t, now) == [tokens EXCEPT ![t].revoked = now]
\* COALESCE(revoked_at, $2)
Revoked(t, now) == IF tokens[t].revoked = Never THEN [tokens EXCEPT ![t].revoked = now] ELSE tokens

\* The three mutations, as they commit.
CreateServiceAccount(a) ==
    /\ accounts' = accounts \cup {a}
    /\ UNCHANGED <<tokens, rowLock>>

\* The caller may ask for any scopes; the life it asks for is one tick here.
IssueToken(now) ==
    /\ \E t \in {u \in Tokens : tokens[u] = NoToken}, s \in Scopes :
        tokens' = [tokens EXCEPT ![t] = NewRow({s}, now + 1)]
    /\ UNCHANGED <<accounts, rowLock>>

RevokeToken(t, now) ==
    /\ tokens' = Revoked(t, now)
    /\ rowLock' = [rowLock EXCEPT ![t] = NoOne]
    /\ UNCHANGED accounts

-----------------------------------------------------------------------------
(* bootstrap-admin                                                         *)

Locked == \E b \in Operators : boot[b] \in {"locked", "counted"}

\* Mutant: the advisory lock is not taken.
BeginUnlocked(b) ==
    /\ boot[b] = "idle"
    /\ boot' = [boot EXCEPT ![b] = "locked"]
    /\ UNCHANGED <<tokenVars, printed>>

BootstrapLock(b) ==
    /\ boot[b] = "idle"
    /\ ~Locked
    /\ boot' = [boot EXCEPT ![b] = "locked"]
    /\ UNCHANGED <<tokenVars, printed>>

BootstrapCount(b) ==
    /\ boot[b] = "locked"
    /\ boot' = [boot EXCEPT ![b] = IF accounts = {} THEN "counted" ELSE "done"]
    /\ UNCHANGED <<tokenVars, printed>>

\* Account, token and audit event commit together; or the command fails.
BootstrapCommit(b, now) ==
    /\ boot[b] = "counted"
    /\ \E t \in {u \in Tokens : tokens[u] = NoToken} :
        /\ tokens' = [tokens EXCEPT ![t] = NewRow({"admin"}, now + LongTTL)]
        /\ printed' = printed \cup {t}
    /\ accounts' = accounts \cup {Root}
    /\ boot' = [boot EXCEPT ![b] = "done"]
    /\ UNCHANGED rowLock

BootstrapFails(b) ==
    /\ boot[b] \in {"locked", "counted"}
    /\ boot' = [boot EXCEPT ![b] = "idle"]
    /\ UNCHANGED <<tokenVars, printed>>

=============================================================================
