-------------------------- MODULE IdempotencyProofs --------------------------
(***************************************************************************)
(* Theorems about Idempotency for any sets of requests, keys and bodies.   *)
(***************************************************************************)
EXTENDS Idempotency, TLAPS

-----------------------------------------------------------------------------
(* Actions that change only where one request is                           *)

\* A request that does not hold its key may move, and only its row is checked.
LEMMA MovePreserves ==
    ASSUME IInv, NEW r \in Requests, NEW t \in Tx,
           tx' = [tx EXCEPT ![r] = t],
           UNCHANGED <<storeVars, holder, historyVars>>,
           t.at \in {"work", "store"} /\ t.key # None => holder[t.key] = r,
           t.at \in {"insert", "select"} => t.key # None,
           t.at # "idle" => t.body # None,
           \A k \in Keys : holder[k] = r => t.at \in {"work", "store"} /\ t.key = k,
           t.at = "store" => \/ t.status = "ok" /\ t.changed
                             \/ t.status = "refused" /\ ~t.changed
    PROVE  IInv'
<1> USE DEF IInv, TypeOK, storeVars, historyVars
<1>1. /\ tx'[r] = t
      /\ \A q \in Requests : q # r => tx'[q] = tx[q]
      /\ tx' \in [Requests -> Tx]
  OBVIOUS
<1>2. TypeOK'
  BY <1>1
<1>3. KeyHasOneWorker'
  BY <1>1, NoneAssumption DEF KeyHasOneWorker
<1>4. RefusedHasNoChanges'
  BY <1>1 DEF RefusedHasNoChanges
<1>5. RecordIsTheTruth' /\ \A k \in expired' : row'[k] # NoRecord
  BY DEF RecordIsTheTruth
<1> QED
  BY <1>2, <1>3, <1>4, <1>5

\* The transaction of a request ends and gives back the keys it held.
LEMMA AbortPreserves ==
    ASSUME IInv, NEW r \in Requests, Ends(r), Released(r),
           UNCHANGED <<storeVars, historyVars>>
    PROVE  IInv'
<1> USE DEF IInv, TypeOK, storeVars, historyVars
<1>1. NoTx \in Tx /\ NoTx.at = "idle"
  BY DEF NoTx, Tx
<1>2. /\ tx'[r] = NoTx
      /\ \A q \in Requests : q # r => tx'[q] = tx[q]
      /\ tx' \in [Requests -> Tx]
  BY <1>1 DEF Ends
<1>3. /\ holder' \in [Keys -> Requests \cup {None}]
      /\ \A k \in Keys : holder'[k] = IF holder[k] = r THEN None ELSE holder[k]
  BY DEF Released
<1>4. TypeOK'
  BY <1>2, <1>3
<1>5. KeyHasOneWorker'
  BY <1>1, <1>2, <1>3, NoneAssumption DEF KeyHasOneWorker, Tx
<1>6. RefusedHasNoChanges'
  BY <1>1, <1>2 DEF RefusedHasNoChanges
<1>7. RecordIsTheTruth' /\ \A k \in expired' : row'[k] # NoRecord
  BY DEF RecordIsTheTruth
<1> QED
  BY <1>4, <1>5, <1>6, <1>7

-----------------------------------------------------------------------------
(* The other actions                                                       *)

LEMMA ReceivePreserves ==
    ASSUME IInv, NEW r \in Requests, NEW k \in Keys \cup {None}, NEW b \in Bodies,
           Receive(r, k, b)
    PROVE  IInv'
<1> DEFINE t == [NoTx EXCEPT !.at = IF k = None THEN "work" ELSE "insert",
                             !.key = k, !.body = b]
<1>1. /\ t \in Tx
      /\ t.at = IF k = None THEN "work" ELSE "insert"
      /\ t.key = k
      /\ t.body = b
  BY DEF NoTx, Tx
<1>2. tx[r].at = "idle" /\ tx' = [tx EXCEPT ![r] = t]
      /\ UNCHANGED <<storeVars, holder, historyVars>>
  BY DEF Receive
<1>3. \A q \in Keys : holder[q] # r
  BY <1>2, NoneAssumption DEF IInv, TypeOK, KeyHasOneWorker
<1> HIDE DEF t
<1> QED
  BY <1>1, <1>2, <1>3, MovePreserves, NoneAssumption

LEMMA InsertPreserves ==
    ASSUME IInv, NEW r \in Requests, InsertRecord(r)
    PROVE  IInv'
<1> USE DEF IInv, TypeOK
<1> DEFINE k == tx[r].key
           to(l) == [tx[r] EXCEPT !.at = l]
<1>1. /\ tx[r] \in Tx /\ tx[r].at = "insert" /\ k \in Keys /\ tx[r].body # None
      /\ \A q \in Keys : holder[q] # r
  BY NoneAssumption DEF InsertRecord, KeyHasOneWorker, Tx
<1>2. \A l \in {"work", "select"} :
        to(l) \in Tx /\ to(l).at = l /\ to(l).key = k /\ to(l).body = tx[r].body
  BY <1>1 DEF Tx
<1>3. CASE row[k] # NoRecord
  <2>1. tx' = [tx EXCEPT ![r] = to("select")] /\ UNCHANGED <<storeVars, holder, historyVars>>
    BY <1>1, <1>3 DEF InsertRecord
  <2>2. k # None /\ \A q \in Keys : holder[q] # r
    BY <1>1, NoneAssumption
  <2>3. PICK t \in Tx : /\ tx' = [tx EXCEPT ![r] = t]
                         /\ t.at = "select" /\ t.key # None /\ t.body # None
    BY <1>1, <1>2, <2>1, <2>2
  <2> HIDE DEF to, k, IInv, TypeOK
  <2> QED
    BY <2>1, <2>2, <2>3, MovePreserves
<1>4. CASE row[k] = NoRecord
  <2>1. /\ tx'[r] = to("work")
        /\ \A q \in Requests : q # r => tx'[q] = tx[q]
        /\ tx' \in [Requests -> Tx]
        /\ holder[k] = None
        /\ holder'[k] = r
        /\ \A q \in Keys : q # k => holder'[q] = holder[q]
        /\ holder' \in [Keys -> Requests \cup {None}]
        /\ UNCHANGED <<row, expired, effects, heard>>
    BY <1>1, <1>2, <1>4 DEF InsertRecord, storeVars, historyVars
  <2> HIDE DEF to
  <2>2. TypeOK'
    BY <2>1
  <2>3. KeyHasOneWorker'
    <3>1. ASSUME NEW q \in Requests
          PROVE  /\ tx'[q].at \in {"work", "store"} /\ tx'[q].key # None
                    => holder'[tx'[q].key] = q
                 /\ tx'[q].at \in {"insert", "select"} => tx'[q].key # None
                 /\ tx'[q].at # "idle" => tx'[q].body # None
      <4>1. CASE q = r
        BY <1>1, <1>2, <2>1, <4>1
      <4>2. CASE q # r
        <5>1. tx'[q] = tx[q] /\ tx[q].key \in Keys \cup {None}
          BY <2>1, <4>2 DEF Tx
        <5>2. tx[q].at \in {"work", "store"} => tx[q].key # k
          BY <1>1, <2>1, NoneAssumption DEF KeyHasOneWorker
        <5> QED
          BY <2>1, <5>1, <5>2 DEF KeyHasOneWorker
      <4> QED
        BY <4>1, <4>2
    <3>2. ASSUME NEW q \in Keys
          PROVE  /\ row'[q] # NoRecord => holder'[q] = None
                 /\ holder'[q] # None =>
                      tx'[holder'[q]].at \in {"work", "store"} /\ tx'[holder'[q]].key = q
      <4>1. CASE q = k
        BY <1>1, <1>2, <1>4, <2>1, <4>1
      <4>2. CASE q # k
        <5>1. row'[q] = row[q] /\ holder'[q] = holder[q] /\ holder[q] # r
          BY <1>1, <2>1, <4>2
        <5>2. holder[q] # None => tx'[holder[q]] = tx[holder[q]]
          BY <2>1, <5>1
        <5> QED
          BY <5>1, <5>2 DEF KeyHasOneWorker
      <4> QED
        BY <4>1, <4>2
    <3> QED
      BY <3>1, <3>2 DEF KeyHasOneWorker
  <2>4. RefusedHasNoChanges'
    BY <1>2, <2>1 DEF RefusedHasNoChanges
  <2>5. RecordIsTheTruth' /\ \A q \in expired' : row'[q] # NoRecord
    BY <2>1 DEF RecordIsTheTruth
  <2> QED
    BY <2>2, <2>3, <2>4, <2>5
<1> QED
  BY <1>3, <1>4

LEMMA SelectPreserves ==
    ASSUME IInv, NEW r \in Requests, ReplayRecord(r) \/ SelectFails(r)
    PROVE  IInv'
<1> USE DEF IInv, TypeOK
<1>1. /\ tx[r].at = "select" /\ tx[r].key \in Keys
      /\ tx' = [tx EXCEPT ![r] = NoTx]
      /\ \A q \in Keys : holder[q] # r
      /\ UNCHANGED <<storeVars, holder, effects>>
  BY NoneAssumption DEF ReplayRecord, SelectFails, KeyHasOneWorker, Tx, Ends, historyVars
<1>2. NoTx \in Tx /\ NoTx.at = "idle"
  BY DEF NoTx, Tx
<1>3. CASE SelectFails(r)
  BY <1>1, <1>2, <1>3, MovePreserves DEF SelectFails
<1>4. CASE ReplayRecord(r)
  <2> DEFINE k == tx[r].key
  <2>1. /\ row[k] # NoRecord
        /\ heard' = [heard EXCEPT ![k] = heard[k] \cup {row[k]}]
    BY <1>1, <1>4 DEF ReplayRecord, Tells, Record
  <2>2. /\ tx'[r] = NoTx
        /\ \A q \in Requests : q # r => tx'[q] = tx[q]
        /\ tx' \in [Requests -> Tx]
        /\ heard' \in [Keys -> SUBSET Record]
        /\ heard'[k] = heard[k] \cup {row[k]}
        /\ \A q \in Keys : q # k => heard'[q] = heard[q]
    BY <1>1, <1>2, <2>1
  <2>3. TypeOK'
    BY <1>1, <2>2 DEF storeVars
  <2>4. KeyHasOneWorker'
    BY <1>1, <1>2, <2>2, NoneAssumption DEF KeyHasOneWorker, storeVars
  <2>5. RefusedHasNoChanges'
    BY <1>2, <2>2 DEF RefusedHasNoChanges
  <2>6. RecordIsTheTruth' /\ \A q \in expired' : row'[q] # NoRecord
    BY <1>1, <2>2 DEF RecordIsTheTruth, storeVars
  <2> QED
    BY <2>3, <2>4, <2>5, <2>6
<1> QED
  BY <1>3, <1>4

LEMMA WorkPreserves ==
    ASSUME IInv, NEW r \in Requests, WorkSucceeds(r) \/ WorkRefused(r)
    PROVE  IInv'
<1> USE DEF IInv, TypeOK
<1> DEFINE t(s, b) == [tx[r] EXCEPT !.at = "store", !.status = s, !.changed = b]
<1>1. /\ tx[r] \in Tx /\ tx[r].at = "work" /\ tx[r].body # None
      /\ tx[r].key # None => holder[tx[r].key] = r
      /\ \A k \in Keys : holder[k] = r => tx[r].key = k
      /\ UNCHANGED <<storeVars, holder, historyVars>>
  BY NoneAssumption DEF WorkSucceeds, WorkRefused, KeyHasOneWorker
<1>2. \A s \in {"ok", "refused"}, b \in BOOLEAN :
        /\ t(s, b) \in Tx /\ t(s, b).at = "store" /\ t(s, b).status = s
        /\ t(s, b).changed = b /\ t(s, b).key = tx[r].key /\ t(s, b).body = tx[r].body
  BY <1>1 DEF Tx
<1>3. PICK u \in Tx : /\ tx' = [tx EXCEPT ![r] = u]
                       /\ u.at = "store" /\ u.key = tx[r].key /\ u.body = tx[r].body
                       /\ \/ u.status = "ok" /\ u.changed
                          \/ u.status = "refused" /\ ~u.changed
  <2>1. CASE WorkSucceeds(r)
    BY <1>2, <2>1 DEF WorkSucceeds
  <2>2. CASE WorkRefused(r)
    BY <1>2, <2>2 DEF WorkRefused
  <2> QED
    BY <2>1, <2>2
<1> HIDE DEF t, IInv, TypeOK
<1> QED
  BY <1>1, <1>3, MovePreserves

\* What a commit under a key does, in terms of the key's values.
LEMMA CommitEffect ==
    ASSUME IInv, NEW r \in Requests, CommitRequest(r), tx[r].key # None
    PROVE  LET k == tx[r].key
               answer == [body |-> tx[r].body, status |-> tx[r].status]
           IN  /\ k \in Keys /\ answer \in Record
               /\ row[k] = NoRecord /\ effects[k] = 0 /\ heard[k] = {}
               /\ row' = [row EXCEPT ![k] = answer]
               /\ effects' = [effects EXCEPT ![k] = IF answer.status = "ok" THEN 1 ELSE 0]
               /\ \E told \in {{}, {answer}} : heard' = [heard EXCEPT ![k] = told]
               /\ expired' = expired
<1> USE DEF IInv, TypeOK
<1> DEFINE k == tx[r].key
           answer == [body |-> tx[r].body, status |-> tx[r].status]
<1>1. /\ tx[r] \in Tx /\ tx[r].at = "store" /\ k \in Keys /\ tx[r].body # None
      /\ holder[k] = r
  BY DEF CommitRequest, KeyHasOneWorker, Tx
<1>2. /\ tx[r].status \in {"ok", "refused"}
      /\ tx[r].changed <=> tx[r].status = "ok"
  BY <1>1 DEF RefusedHasNoChanges
<1>3. answer \in Record /\ answer.status = tx[r].status
  BY <1>1, <1>2 DEF Record, Tx
<1>4. row[k] = NoRecord
  BY <1>1, NoneAssumption DEF KeyHasOneWorker
<1>5. effects[k] = 0 /\ heard[k] \subseteq {NoRecord}
  BY <1>1, <1>4 DEF RecordIsTheTruth
<1>6. NoRecord \notin Record
  BY NoRecordAssumption DEF Record
<1>7. heard[k] = {}
  BY <1>1, <1>5, <1>6
<1>8. effects[k] + (IF tx[r].changed THEN 1 ELSE 0) = IF answer.status = "ok" THEN 1 ELSE 0
  BY <1>2, <1>3, <1>5
<1>9. effects' = [effects EXCEPT ![k] = effects[k] + (IF tx[r].changed THEN 1 ELSE 0)]
      /\ row' = [row EXCEPT ![k] = answer] /\ expired' = expired
      /\ \E told \in {{}, {answer}} : heard' = [heard EXCEPT ![k] = heard[k] \cup told]
  BY DEF CommitRequest
<1> QED
  BY <1>1, <1>3, <1>4, <1>5, <1>7, <1>8, <1>9

LEMMA CommitPreserves ==
    ASSUME IInv, NEW r \in Requests, CommitRequest(r)
    PROVE  IInv'
<1> USE DEF IInv, TypeOK
<1> DEFINE k == tx[r].key
           answer == [body |-> tx[r].body, status |-> tx[r].status]
<1>1. NoTx \in Tx /\ NoTx.at = "idle"
  BY DEF NoTx, Tx
<1>2. /\ tx[r] \in Tx /\ tx[r].at = "store"
      /\ tx' = [tx EXCEPT ![r] = NoTx]
      /\ tx'[r] = NoTx
      /\ \A q \in Requests : q # r => tx'[q] = tx[q]
      /\ tx' \in [Requests -> Tx]
  BY <1>1 DEF CommitRequest, Ends
<1>3. CASE k = None
  <2>1. \A q \in Keys : holder[q] # r
    BY <1>2, <1>3, NoneAssumption DEF KeyHasOneWorker
  <2>2. UNCHANGED <<storeVars, holder, historyVars>>
    BY <1>3 DEF CommitRequest
  <2> QED
    BY <1>1, <1>2, <2>1, <2>2, MovePreserves
<1>4. CASE k # None
  <2>1. PICK told \in {{}, {answer}} : heard' = [heard EXCEPT ![k] = told]
    BY <1>4, CommitEffect
  <2>2. k \in Keys /\ answer \in Record
    BY <1>4, CommitEffect
  <2>3. /\ row' = [row EXCEPT ![k] = answer]
        /\ effects' = [effects EXCEPT ![k] = IF answer.status = "ok" THEN 1 ELSE 0]
        /\ expired' = expired
    BY <1>4, CommitEffect
  <2>4. /\ holder' \in [Keys -> Requests \cup {None}]
        /\ \A q \in Keys : holder'[q] = IF holder[q] = r THEN None ELSE holder[q]
        /\ holder[k] = r
    <3>1. Released(r)
      BY <1>4 DEF CommitRequest
    <3>2. holder[k] = r
      BY <1>2, <1>4 DEF KeyHasOneWorker
    <3> QED
      BY <3>1, <3>2 DEF Released
  <2>5. \A q \in Keys : q # k => holder[q] # r
    BY <1>2, NoneAssumption DEF KeyHasOneWorker
  <2> HIDE DEF k, answer
  <2>6. TypeOK'
    BY <1>2, <2>1, <2>2, <2>3, <2>4
  <2>7. answer # NoRecord
    BY <2>2, NoRecordAssumption DEF Record
  <2>8. KeyHasOneWorker'
    <3>1. ASSUME NEW q \in Requests, q # r
          PROVE  /\ tx'[q].at \in {"work", "store"} /\ tx'[q].key # None
                    => holder'[tx'[q].key] = q
                 /\ tx'[q].at \in {"insert", "select"} => tx'[q].key # None
                 /\ tx'[q].at # "idle" => tx'[q].body # None
      <4>1. tx'[q] = tx[q] /\ tx[q].key \in Keys \cup {None}
        BY <1>2, <3>1 DEF Tx
      <4> QED
        BY <2>4, <3>1, <4>1 DEF KeyHasOneWorker
    <3>2. tx'[r].at = "idle"
      BY <1>1, <1>2
    <3>3. ASSUME NEW q \in Keys
          PROVE  /\ row'[q] # NoRecord => holder'[q] = None
                 /\ holder'[q] # None =>
                      tx'[holder'[q]].at \in {"work", "store"} /\ tx'[holder'[q]].key = q
      <4>1. CASE q = k
        BY <2>4, <4>1
      <4>2. CASE q # k
        <5>1. row'[q] = row[q] /\ holder'[q] = holder[q] /\ holder[q] # r
          BY <2>2, <2>3, <2>4, <2>5, <4>2
        <5>2. holder[q] # None => tx'[holder[q]] = tx[holder[q]]
          BY <1>2, <5>1
        <5> QED
          BY <5>1, <5>2 DEF KeyHasOneWorker
      <4> QED
        BY <4>1, <4>2
    <3> QED
      BY <3>1, <3>2, <3>3 DEF KeyHasOneWorker
  <2>9. RefusedHasNoChanges'
    BY <1>1, <1>2 DEF RefusedHasNoChanges
  <2>10. RecordIsTheTruth' /\ \A q \in expired' : row'[q] # NoRecord
    <3>1. /\ row'[k] = answer /\ heard'[k] = told /\ told \subseteq {answer}
          /\ effects'[k] = IF answer.status = "ok" THEN 1 ELSE 0
          /\ \A q \in Keys : q # k => /\ row'[q] = row[q]
                                      /\ effects'[q] = effects[q]
                                      /\ heard'[q] = heard[q]
      BY <2>1, <2>2, <2>3
    <3> QED
      BY <2>2, <2>3, <2>7, <3>1 DEF RecordIsTheTruth
  <2> QED
    BY <2>6, <2>8, <2>9, <2>10
<1> QED
  BY <1>3, <1>4

LEMMA RetentionPreserves ==
    ASSUME IInv, NEW k \in Keys, Expires(k) \/ DeleteExpired(k)
    PROVE  IInv'
<1> USE DEF IInv, TypeOK, historyVars
<1>1. holder' = holder /\ tx' = tx
  BY DEF Expires, DeleteExpired
<1>2. CASE Expires(k)
  BY <1>2 DEF Expires, KeyHasOneWorker, RefusedHasNoChanges, RecordIsTheTruth
<1>3. CASE DeleteExpired(k)
  <2>1. /\ row'[k] = NoRecord /\ effects'[k] = 0 /\ heard'[k] = {}
        /\ \A q \in Keys : q # k => /\ row'[q] = row[q]
                                    /\ effects'[q] = effects[q]
                                    /\ heard'[q] = heard[q]
        /\ expired' = expired \ {k}
    BY <1>3 DEF DeleteExpired
  <2>2. TypeOK'
    BY <1>1, <1>3 DEF DeleteExpired
  <2>3. KeyHasOneWorker' /\ RefusedHasNoChanges'
    BY <1>1, <2>1 DEF KeyHasOneWorker, RefusedHasNoChanges
  <2>4. RecordIsTheTruth' /\ \A q \in expired' : row'[q] # NoRecord
    BY <2>1 DEF RecordIsTheTruth
  <2> QED
    BY <2>2, <2>3, <2>4
<1> QED
  BY <1>2, <1>3

-----------------------------------------------------------------------------
(* The theorems                                                            *)

LEMMA InitEstablishes == Init => IInv
<1> SUFFICES ASSUME Init PROVE IInv
  OBVIOUS
<1> USE DEF Init
<1>1. NoTx \in Tx /\ NoTx.at = "idle"
  BY DEF NoTx, Tx
<1>2. TypeOK
  BY <1>1 DEF TypeOK
<1>3. KeyHasOneWorker /\ RefusedHasNoChanges
  BY <1>1 DEF KeyHasOneWorker, RefusedHasNoChanges
<1>4. RecordIsTheTruth /\ \A k \in expired : row[k] # NoRecord
  BY DEF RecordIsTheTruth
<1> QED
  BY <1>2, <1>3, <1>4 DEF IInv

LEMMA StepPreserves == IInv /\ [Next]_vars => IInv'
<1> SUFFICES ASSUME IInv, [Next]_vars PROVE IInv'
  OBVIOUS
<1>1. CASE UNCHANGED vars
  BY <1>1 DEF vars, storeVars, historyVars, IInv, TypeOK, KeyHasOneWorker,
              RefusedHasNoChanges, RecordIsTheTruth
<1>2. ASSUME NEW r \in Requests, RequestStep(r) PROVE IInv'
  <2>1. ASSUME NEW k \in Keys \cup {None}, NEW b \in Bodies, Receive(r, k, b) PROVE IInv'
    BY <2>1, ReceivePreserves
  <2>2. CASE InsertRecord(r)
    BY <2>2, InsertPreserves
  <2>3. CASE ReplayRecord(r) \/ SelectFails(r)
    BY <2>3, SelectPreserves
  <2>4. CASE WorkSucceeds(r) \/ WorkRefused(r)
    BY <2>4, WorkPreserves
  <2>5. CASE Abort(r)
    BY <2>5, AbortPreserves DEF Abort
  <2>6. CASE CommitRequest(r)
    BY <2>6, CommitPreserves
  <2> QED
    BY <1>2, <2>1, <2>2, <2>3, <2>4, <2>5, <2>6 DEF RequestStep
<1>3. ASSUME NEW k \in Keys, Expires(k) \/ DeleteExpired(k) PROVE IInv'
  BY <1>3, RetentionPreserves
<1> QED
  BY <1>1, <1>2, <1>3 DEF Next

\* Keys are arbitrated, refusals leave nothing behind, and every record tells
\* the truth about its work and its answers, for any number of requests and keys.
THEOREM InductiveInvariant == Spec => []IInv
<1> QED
  BY InitEstablishes, StepPreserves, PTL DEF Spec

-----------------------------------------------------------------------------
(* Refinement                                                              *)

LEMMA InitIsOnce == Init => Once!Init
BY DEF Init, Once!Init

LEMMA StepIsOnce == IInv /\ [Next]_vars => [Once!Next]_Once!vars
<1> SUFFICES ASSUME IInv, [Next]_vars PROVE [Once!Next]_Once!vars
  OBVIOUS
<1>1. CASE UNCHANGED <<row, effects, heard>>
  BY <1>1 DEF Once!vars
<1>2. CASE UNCHANGED vars
  BY <1>1, <1>2 DEF vars, storeVars, historyVars
<1>3. ASSUME NEW r \in Requests, RequestStep(r) PROVE [Once!Next]_Once!vars
  <2>1. CASE ReplayRecord(r)
    <3> DEFINE k == tx[r].key
    <3>1. k \in Keys
      BY <2>1 DEF ReplayRecord, IInv, TypeOK, KeyHasOneWorker, Tx
    <3>2. /\ row[k] # NoRecord
          /\ heard' = [heard EXCEPT ![k] = heard[k] \cup {row[k]}]
          /\ UNCHANGED <<row, effects>>
      BY <2>1, <3>1 DEF ReplayRecord, Tells, storeVars, IInv, TypeOK, Record
    <3>3. Once!Replay(k)
      BY <3>2 DEF Once!Replay, Once!Told
    <3> QED
      BY <3>1, <3>3 DEF Once!Next
  <2>2. CASE CommitRequest(r) /\ tx[r].key # None
    <3> DEFINE k == tx[r].key
               answer == [body |-> tx[r].body, status |-> tx[r].status]
    <3>1. /\ k \in Keys /\ answer \in Record
          /\ row[k] = NoRecord /\ heard[k] = {}
          /\ row' = [row EXCEPT ![k] = answer]
          /\ effects' = [effects EXCEPT ![k] = IF answer.status = "ok" THEN 1 ELSE 0]
          /\ \E told \in {{}, {answer}} : heard' = [heard EXCEPT ![k] = told]
      BY <2>2, CommitEffect
    <3>2. /\ answer.body \in Bodies /\ answer.status \in {"ok", "refused"}
          /\ answer = [body |-> answer.body, status |-> answer.status]
      BY <3>1 DEF Record
    <3>3. \E told \in {{}, {answer}} : heard' = [heard EXCEPT ![k] = heard[k] \cup told]
      BY <3>1
    <3> HIDE DEF k, answer
    <3>4. Once!Execute(k)
      BY <3>1, <3>2, <3>3 DEF Once!Execute, Once!Told
    <3> QED
      BY <3>1, <3>4 DEF Once!Next
  <2>3. CASE ~ReplayRecord(r) /\ ~(CommitRequest(r) /\ tx[r].key # None)
    <3>1. UNCHANGED <<row, effects, heard>>
      BY <1>3, <2>3 DEF RequestStep, Receive, InsertRecord, SelectFails, WorkSucceeds,
                        WorkRefused, Abort, CommitRequest, storeVars, historyVars
    <3> QED
      BY <1>1, <3>1
  <2> QED
    BY <2>1, <2>2, <2>3
<1>4. ASSUME NEW k \in Keys, Expires(k) \/ DeleteExpired(k) PROVE [Once!Next]_Once!vars
  <2>1. CASE Expires(k)
    BY <1>1, <2>1 DEF Expires, historyVars
  <2>2. CASE DeleteExpired(k)
    <3>1. Once!Forget(k)
      BY <2>2 DEF DeleteExpired, IInv, Once!Forget
    <3> QED
      BY <3>1 DEF Once!Next
  <2> QED
    BY <1>4, <2>1, <2>2
<1> QED
  BY <1>2, <1>3, <1>4 DEF Next

\* RunInTx keeps the promise of an Idempotency-Key: one execution per record,
\* the same answer to everybody, nothing changed by what was refused.
THEOREM RequestsImplementOncePerKey == Spec => ImplementsOncePerKey
<1> QED
  BY InductiveInvariant, InitIsOnce, StepIsOnce, PTL DEF Spec, Once!Spec, ImplementsOncePerKey

=============================================================================
