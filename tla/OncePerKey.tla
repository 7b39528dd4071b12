----------------------------- MODULE OncePerKey -----------------------------
(***************************************************************************)
(* What an Idempotency-Key promises for as long as it is remembered: the   *)
(* request runs once, everybody who sends it hears the same, a request     *)
(* that was refused has changed nothing, and the key names one body only.  *)
(*                                                                         *)
(* Source: the idempotency_records rows as internal/idempotency/service.go *)
(* and the cleanup job change them.                                        *)
(***************************************************************************)
EXTENDS Naturals

CONSTANTS Keys, Bodies, NoRecord

VARIABLES
    outcome,   \* of each key: the body it stands for and its status
    effects,   \* how often the work of a key took effect
    heard      \* what clients have been told of a key

vars == <<outcome, effects, heard>>

Init ==
    /\ outcome = [k \in Keys |-> NoRecord]
    /\ effects = [k \in Keys |-> 0]
    /\ heard = [k \in Keys |-> {}]

\* The answer reaches the client, or is lost on its way.
Told(k, told) == heard' = [heard EXCEPT ![k] = @ \cup told]

Execute(k) ==
    /\ outcome[k] = NoRecord
    /\ \E b \in Bodies, s \in {"ok", "refused"} :
        /\ outcome' = [outcome EXCEPT ![k] = [body |-> b, status |-> s]]
        /\ effects' = [effects EXCEPT ![k] = IF s = "ok" THEN 1 ELSE 0]
        /\ \E told \in {{}, {[body |-> b, status |-> s]}} : Told(k, told)

Replay(k) ==
    /\ outcome[k] # NoRecord
    /\ Told(k, {outcome[k]})
    /\ UNCHANGED <<outcome, effects>>

Forget(k) ==
    /\ outcome[k] # NoRecord
    /\ outcome' = [outcome EXCEPT ![k] = NoRecord]
    /\ effects' = [effects EXCEPT ![k] = 0]
    /\ heard' = [heard EXCEPT ![k] = {}]

Next == \E k \in Keys : Execute(k) \/ Replay(k) \/ Forget(k)

Spec == Init /\ [][Next]_vars

=============================================================================
