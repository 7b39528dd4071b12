----------------------------- MODULE Idempotency -----------------------------
(***************************************************************************)
(* Requests with an Idempotency-Key whose work is one database             *)
(* transaction: drafts, channels, tokens, packages, repositories.          *)
(*                                                                         *)
(* Source: internal/idempotency/service.go (RunInTx, executeInTx, replay), *)
(* auth.sql (InsertIdempotencyRecord to DeleteExpiredIdempotencyRecords)   *)
(* and internal/jobs/idempotency_cleanup.go.  Publishing, which commits    *)
(* its record while pending, is in PublishAttempt.                         *)
(*                                                                         *)
(* A transaction that has inserted the record of a key holds the key:      *)
(* another insert waits until it commits or rolls back.  A key here is the *)
(* whole scope of one (token, method, resource, key); a body stands for a  *)
(* request fingerprint.                                                    *)
(***************************************************************************)
EXTENDS Naturals

CONSTANTS
    Requests,   \* threads of the API processes, each with one request at a time
    Keys,
    Bodies,
    None,       \* no key: the header is absent
    NoRecord    \* no committed row

ASSUME NoneAssumption == None \notin Keys \cup Requests \cup Bodies
ASSUME NoRecordAssumption == NoRecord \notin [body : Bodies, status : {"ok", "refused"}]

VARIABLES
    row,       \* the committed record of each key
    expired,   \* the keys whose record is past expires_at
    holder,    \* the request whose uncommitted record a key has
    tx,        \* where each request is and what its transaction has done
    effects,   \* how often the work of the present record of a key took effect
    heard      \* what clients were told of the present record of a key

storeVars == <<row, expired>>
historyVars == <<effects, heard>>
vars == <<storeVars, holder, tx, historyVars>>

-----------------------------------------------------------------------------
(* State                                                                   *)

Record == [body : Bodies, status : {"ok", "refused"}]

\* changed: the savepoint holds changes that a commit would make visible.
Tx == [at : {"idle", "insert", "select", "work", "store"},
       key : Keys \cup {None}, body : Bodies \cup {None},
       status : {"none", "ok", "refused"}, changed : BOOLEAN]
NoTx == [at |-> "idle", key |-> None, body |-> None, status |-> "none", changed |-> FALSE]

TypeOK ==
    /\ row \in [Keys -> Record \cup {NoRecord}]
    /\ expired \in SUBSET Keys
    /\ holder \in [Keys -> Requests \cup {None}]
    /\ tx \in [Requests -> Tx]
    /\ effects \in [Keys -> Nat]
    /\ heard \in [Keys -> SUBSET Record]

Init ==
    /\ row = [k \in Keys |-> NoRecord]
    /\ expired = {}
    /\ holder = [k \in Keys |-> None]
    /\ tx = [r \in Requests |-> NoTx]
    /\ effects = [k \in Keys |-> 0]
    /\ heard = [k \in Keys |-> {}]

\* The transaction is over, and with it its hold on the key.
Ends(r) == tx' = [tx EXCEPT ![r] = NoTx]
Released(r) == holder' = [k \in Keys |-> IF holder[k] = r THEN None ELSE holder[k]]

-----------------------------------------------------------------------------
(* Arbitration of the key                                                  *)

\* A request without a key goes straight to its work.
Receive(r, k, b) ==
    /\ tx[r].at = "idle"
    /\ tx' = [tx EXCEPT ![r] =
           [NoTx EXCEPT !.at = IF k = None THEN "work" ELSE "insert", !.key = k, !.body = b]]
    /\ UNCHANGED <<storeVars, holder, historyVars>>

\* INSERT ... ON CONFLICT DO NOTHING waits for a transaction that has inserted
\* the same key; a committed row is left to the SELECT.
InsertRecord(r) ==
    LET k == tx[r].key IN
    /\ tx[r].at = "insert"
    /\ holder[k] = None
    /\ IF row[k] = NoRecord
       THEN /\ holder' = [holder EXCEPT ![k] = r]
            /\ tx' = [tx EXCEPT ![r].at = "work"]
       ELSE /\ tx' = [tx EXCEPT ![r].at = "select"]
            /\ UNCHANGED holder
    /\ UNCHANGED <<storeVars, historyVars>>

Tells(r, k) ==
    heard' = [heard EXCEPT ![k] = heard[k] \cup {[body |-> tx[r].body, status |-> row[k].status]}]

\* Mutant: the fingerprint is not compared.
ReplayAnyBody(r) ==
    LET k == tx[r].key IN
    /\ tx[r].at = "select"
    /\ row[k] # NoRecord
    /\ Tells(r, k)
    /\ Ends(r)
    /\ UNCHANGED <<storeVars, holder, effects>>

ReplayRecord(r) ==
    LET k == tx[r].key IN
    /\ tx[r].at = "select"
    /\ row[k] # NoRecord
    /\ row[k].body = tx[r].body
    /\ Tells(r, k)
    /\ Ends(r)
    /\ UNCHANGED <<storeVars, holder, effects>>

\* A key conflict; or a row that the cleanup took between the two statements,
\* which is an error although the key is free.
SelectFails(r) ==
    LET k == tx[r].key IN
    /\ tx[r].at = "select"
    /\ row[k] # NoRecord => row[k].body # tx[r].body
    /\ Ends(r)
    /\ UNCHANGED <<storeVars, holder, historyVars>>

-----------------------------------------------------------------------------
(* The work                                                                *)

WorkSucceeds(r) ==
    /\ tx[r].at = "work"
    /\ tx' = [tx EXCEPT ![r] =
           [tx[r] EXCEPT !.at = "store", !.status = "ok", !.changed = TRUE]]
    /\ UNCHANGED <<storeVars, holder, historyVars>>

\* Mutant: the savepoint is not rolled back.
WorkRefusedAsItIs(r) ==
    /\ tx[r].at = "work"
    /\ \E changed \in BOOLEAN :
        tx' = [tx EXCEPT ![r] =
            [tx[r] EXCEPT !.at = "store", !.status = "refused", !.changed = changed]]
    /\ UNCHANGED <<storeVars, holder, historyVars>>

\* A terminal error of the work: its changes are undone to the savepoint, the
\* answer will be stored.
WorkRefused(r) ==
    /\ tx[r].at = "work"
    /\ tx' = [tx EXCEPT ![r] =
           [tx[r] EXCEPT !.at = "store", !.status = "refused", !.changed = FALSE]]
    /\ UNCHANGED <<storeVars, holder, historyVars>>

\* Mutant: the transaction of a request that failed stays open.
AbortWithoutRollback(r) ==
    /\ tx[r].at # "idle"
    /\ Ends(r)
    /\ UNCHANGED <<storeVars, holder, historyVars>>

\* Any other error, a cancelled request or a crash rolls all of it back.
Abort(r) ==
    /\ tx[r].at # "idle"
    /\ Ends(r)
    /\ Released(r)
    /\ UNCHANGED <<storeVars, historyVars>>

\* completeResponse and the commit; the answer may be lost after it.
CommitRequest(r) ==
    LET k == tx[r].key
        answer == [body |-> tx[r].body, status |-> tx[r].status]
    IN
    /\ tx[r].at = "store"
    /\ Ends(r)
    /\ IF k = None
       THEN UNCHANGED <<storeVars, holder, historyVars>>
       ELSE /\ row' = [row EXCEPT ![k] = answer]
            /\ Released(r)
            /\ effects' = [effects EXCEPT ![k] = effects[k] + (IF tx[r].changed THEN 1 ELSE 0)]
            /\ \E told \in {{}, {answer}} : heard' = [heard EXCEPT ![k] = heard[k] \cup told]
            /\ UNCHANGED expired

-----------------------------------------------------------------------------
(* Retention                                                               *)

Expires(k) ==
    /\ row[k] # NoRecord
    /\ k \notin expired
    /\ expired' = expired \cup {k}
    /\ UNCHANGED <<row, holder, tx, historyVars>>

\* The key may be used anew: what follows belongs to another record.
DeleteExpired(k) ==
    /\ k \in expired
    /\ row' = [row EXCEPT ![k] = NoRecord]
    /\ expired' = expired \ {k}
    /\ effects' = [effects EXCEPT ![k] = 0]
    /\ heard' = [heard EXCEPT ![k] = {}]
    /\ UNCHANGED <<holder, tx>>

-----------------------------------------------------------------------------
(* Specification                                                           *)

RequestStep(r) ==
    \/ \E k \in Keys \cup {None}, b \in Bodies : Receive(r, k, b)
    \/ InsertRecord(r) \/ ReplayRecord(r) \/ SelectFails(r)
    \/ WorkSucceeds(r) \/ WorkRefused(r) \/ Abort(r) \/ CommitRequest(r)

Next ==
    \/ \E r \in Requests : RequestStep(r)
    \/ \E k \in Keys : Expires(k) \/ DeleteExpired(k)

Spec == Init /\ [][Next]_vars

\* Statements return, and PostgreSQL serves those who wait for a key in turn.  Nothing is
\* assumed of the work: it may hang, and no timeout ends the wait for it.
Fairness ==
    \A r \in Requests :
        /\ SF_vars(InsertRecord(r))
        /\ WF_vars(ReplayRecord(r) \/ SelectFails(r) \/ CommitRequest(r))

FairSpec == Spec /\ Fairness

-----------------------------------------------------------------------------
(* Properties                                                              *)

\* A key is held by the one request that works under it, and by nobody while
\* its record exists: insert, work and commit of RunInTx exclude each other.
KeyHasOneWorker ==
    /\ \A r \in Requests :
        /\ tx[r].at \in {"work", "store"} /\ tx[r].key # None => holder[tx[r].key] = r
        /\ tx[r].at \in {"insert", "select"} => tx[r].key # None
        /\ tx[r].at # "idle" => tx[r].body # None
    /\ \A k \in Keys :
        /\ row[k] # NoRecord => holder[k] = None
        /\ holder[k] # None =>
            tx[holder[k]].at \in {"work", "store"} /\ tx[holder[k]].key = k

\* What executeInTx is about to commit: a success with its changes, or a refusal
\* without any.
RefusedHasNoChanges ==
    \A r \in Requests :
        tx[r].at = "store" =>
            \/ tx[r].status = "ok" /\ tx[r].changed
            \/ tx[r].status = "refused" /\ ~tx[r].changed

\* The work of a record took effect once if it says so and never otherwise, and
\* all that clients heard is what the record says, whatever retries, lost
\* answers, concurrent duplicates and cleanups there were.
RecordIsTheTruth ==
    \A k \in Keys :
        /\ effects[k] = IF row[k] # NoRecord /\ row[k].status = "ok" THEN 1 ELSE 0
        /\ heard[k] \subseteq {row[k]}

IInv ==
    /\ TypeOK
    /\ KeyHasOneWorker
    /\ RefusedHasNoChanges
    /\ RecordIsTheTruth
    /\ \A k \in expired : row[k] # NoRecord

\* RunInTx is one execution per key and record.
Once == INSTANCE OncePerKey WITH outcome <- row
ImplementsOncePerKey == Once!Spec

\* Work that hangs keeps nobody from ending but the requests with its own key: if the work
\* under a key returns, or is given up, every time, each request with that key ends, although
\* others hold the key, fail or vanish, and whatever hangs under other keys or none.
RequestsEnd ==
    \A k \in Keys \cup {None} :
        LET Busy(r) == tx[r].key = k /\ tx[r].at # "idle"
            Works(r) == tx[r].key = k /\ tx[r].at = "work"
        IN  \A r \in Requests :
            (\A q \in Requests : k # None \/ q = r => []<>~Works(q)) => (Busy(r) ~> ~Busy(r))

=============================================================================
