--------------------------- MODULE JobRunnerProofs ---------------------------
(***************************************************************************)
(* Theorems about JobRunner for any numbers of kinds, workers, attempts    *)
(* and crashes.                                                            *)
(***************************************************************************)
EXTENDS JobRunner, TLAPS

-----------------------------------------------------------------------------
(* Rows                                                                    *)

\* A row with a budget that makes sense: what NoRowIsStuck says of one row.
Sound(r) ==
    /\ r.state = "pending" => r.attempts < MaxAttempts
    /\ r.state = "running" => r.attempts \in 1..MaxAttempts

\* The statements that insert, reap, retry and complete rows yield sound rows,
\* which are not running.
LEMMA RowStatements ==
    ASSUME NEW r \in Row, Sound(r), NEW due \in BOOLEAN
    PROVE  /\ Absent \in Row /\ Sound(Absent)
           /\ Enqueued(r, due) \in Row /\ Sound(Enqueued(r, due))
           /\ Enqueued(r, due).state # "absent"
           /\ r.state # "absent" => Enqueued(r, due) = r
           /\ Retried(r) \in Row /\ Sound(Retried(r))
           /\ Retried(r).state # "running"
           /\ r.attempts < MaxAttempts => Retried(r).state = "pending"
<1>1. MaxAttempts \in Nat /\ MaxAttempts > 0
  BY MaxAttemptsAssumption
<1>2. Absent \in Row /\ Absent.state = "absent" /\ Absent.attempts = 0
  BY DEF Absent, Row
<1>3. Sound(Absent)
  BY <1>2 DEF Sound
<1>4. DEFINE new == [Absent EXCEPT !.state = "pending", !.due = due]
<1>5. new \in Row /\ new.state = "pending" /\ new.attempts = 0
  BY <1>2 DEF Row
<1>6. Sound(new)
  BY <1>1, <1>5 DEF Sound
<1>7. Enqueued(r, due) = IF r.state = "absent" THEN new ELSE r
  BY DEF Enqueued
<1>8. DEFINE again == [r EXCEPT !.state = "pending", !.owner = None, !.leased = FALSE,
                                !.due = FALSE]
<1>9. again \in Row /\ again.state = "pending" /\ again.attempts = r.attempts
  BY DEF Row
<1>10. Retried(r) = IF r.attempts >= MaxAttempts THEN Absent ELSE again
  BY DEF Retried
<1>11. r.attempts \in Nat
  BY DEF Row
<1>12. r.attempts < MaxAttempts => Sound(again)
  BY <1>9 DEF Sound
<1>13. Enqueued(r, due) \in Row /\ Sound(Enqueued(r, due)) /\ Enqueued(r, due).state # "absent"
  BY <1>5, <1>6, <1>7
<1>14. Retried(r) \in Row /\ Sound(Retried(r)) /\ Retried(r).state # "running"
  BY <1>1, <1>2, <1>3, <1>9, <1>10, <1>11, <1>12
<1>15. r.attempts < MaxAttempts => Retried(r).state = "pending"
  BY <1>1, <1>9, <1>10, <1>11
<1> HIDE DEF new, again
<1> QED
  BY <1>2, <1>3, <1>7, <1>13, <1>14, <1>15

\* ensureScheduled yields a sound row that is not absent, and changes a row only
\* if there is none, or one that is running and whose lease has expired.
LEMMA ScheduledRow ==
    ASSUME NEW r \in Row, Sound(r)
    PROVE  /\ Scheduled(r) \in Row
           /\ Sound(Scheduled(r))
           /\ Scheduled(r).state # "absent"
           /\ Scheduled(r) # r => \/ r.state = "absent"
                                  \/ r.state = "running" /\ ~r.leased
           /\ Scheduled(r) # r => Scheduled(r).state # "running"
<1>1. Absent \in Row /\ Sound(Absent) /\ Absent.state = "absent"
  BY RowStatements DEF Absent
<1>2. /\ Enqueued(Absent, FALSE) \in Row /\ Sound(Enqueued(Absent, FALSE))
      /\ Enqueued(Absent, FALSE).state # "absent"
  BY <1>1, RowStatements
<1>3. /\ Enqueued(r, TRUE) \in Row /\ Sound(Enqueued(r, TRUE))
      /\ Enqueued(r, TRUE).state # "absent"
      /\ r.state # "absent" => Enqueued(r, TRUE) = r
  BY RowStatements
<1>4. \A x \in Row, d \in BOOLEAN : x.state = "absent" => Enqueued(x, d).state = "pending"
  <2>1. Absent \in Row
    BY <1>1
  <2>2. \A d \in BOOLEAN : [Absent EXCEPT !.state = "pending", !.due = d].state = "pending"
    BY <2>1 DEF Row
  <2> QED
    BY <2>2 DEF Enqueued
<1>5. CASE Exhausted(r)
  <2>1. Scheduled(r) = Enqueued(Absent, FALSE)
    BY <1>5 DEF Scheduled
  <2>2. Scheduled(r).state = "pending"
    BY <1>1, <1>4, <2>1
  <2> QED
    BY <1>2, <1>5, <2>1, <2>2 DEF Exhausted
<1>6. CASE ~Exhausted(r)
  <2>1. Scheduled(r) = Enqueued(r, TRUE)
    BY <1>6 DEF Scheduled
  <2>2. Scheduled(r) # r => r.state = "absent" /\ Scheduled(r).state = "pending"
    BY <1>3, <1>4, <2>1
  <2> QED
    BY <1>3, <2>1, <2>2
<1> QED
  BY <1>5, <1>6

-----------------------------------------------------------------------------
(* Steps                                                                   *)

\* What one step makes of one row: the kinds of update that Next contains.
LEMMA RowStep ==
    ASSUME IInv, Next
    PROVE  /\ row' \in [Kinds -> Row]
           /\ \A k \in Kinds : Sound(row'[k])
           /\ \A k \in Kinds : row[k].state # "absent" => row'[k].state # "absent"
<1>1. row \in [Kinds -> Row] /\ at \in [Workers -> Kinds]
  BY DEF IInv, TypeOK
<1>2. \A k \in Kinds : Sound(row[k])
  BY DEF IInv, NoRowIsStuck, Sound
<1> DEFINE Good(k, r) == /\ r \in Row
                         /\ Sound(r)
                         /\ row[k].state # "absent" => r.state # "absent"
<1>3. ASSUME NEW k \in Kinds, NEW r, Good(k, r), row' = [row EXCEPT ![k] = r]
      PROVE  \A j \in Kinds : row'[j] \in Row /\ Good(j, row'[j])
  BY <1>1, <1>2, <1>3
<1>4. ASSUME NEW k \in Kinds, NEW r, Good(k, r), row' = [row EXCEPT ![k] = r]
      PROVE  row' \in [Kinds -> Row]
  BY <1>1, <1>4
<1>5. ASSUME NEW k \in Kinds, NEW r, Good(k, r), row' = [row EXCEPT ![k] = r]
      PROVE  /\ row' \in [Kinds -> Row]
             /\ \A j \in Kinds : Good(j, row'[j])
  BY <1>3, <1>4, <1>5
<1>6. ASSUME row' = row
      PROVE  /\ row' \in [Kinds -> Row]
             /\ \A j \in Kinds : Good(j, row'[j])
  BY <1>1, <1>2, <1>6
<1>7. SUFFICES /\ row' \in [Kinds -> Row]
               /\ \A j \in Kinds : Good(j, row'[j])
  OBVIOUS
<1>8. ASSUME NEW w \in Workers, SeedKind(w) \/ ScheduleKind(w)
      PROVE  /\ row' \in [Kinds -> Row] /\ \A j \in Kinds : Good(j, row'[j])
  <2>1. row' = [row EXCEPT ![at[w]] = Scheduled(row[at[w]])]
    BY <1>8 DEF SeedKind, ScheduleKind
  <2>2. at[w] \in Kinds /\ row[at[w]] \in Row /\ Sound(row[at[w]])
    BY <1>1, <1>2
  <2>3. Good(at[w], Scheduled(row[at[w]]))
    BY <2>2, ScheduledRow
  <2> QED
    BY <1>5, <2>1, <2>2, <2>3
<1>9. ASSUME NEW w \in Workers, ClaimJob(w)
      PROVE  /\ row' \in [Kinds -> Row] /\ \A j \in Kinds : Good(j, row'[j])
  <2> DEFINE r == row[at[w]]
  <2> DEFINE s == [r EXCEPT !.state = "running", !.attempts = r.attempts + 1,
                            !.gen = r.gen + 1, !.owner = w, !.leased = TRUE]
  <2>1. row' = [row EXCEPT ![at[w]] = s] /\ r.attempts < MaxAttempts
    BY <1>9 DEF ClaimJob, Claimable
  <2>2. at[w] \in Kinds /\ r \in Row
    BY <1>1
  <2>6. r.attempts \in Nat /\ r.attempts + 1 \in Nat /\ r.gen + 1 \in Nat
    BY <2>2 DEF Row
  <2>7. \A m, n \in Nat :
           LET x == [r EXCEPT !.state = "running", !.attempts = m, !.gen = n,
                              !.owner = w, !.leased = TRUE]
           IN  x \in Row /\ x.state = "running" /\ x.attempts = m
    <3> HIDE DEF r
    <3> QED
      BY <2>2 DEF Row
  <2>3. s \in Row /\ s.state = "running" /\ s.attempts = r.attempts + 1 /\ r.attempts \in Nat
    BY <2>6, <2>7
  <2>4. Sound(s)
    BY <2>1, <2>3, MaxAttemptsAssumption DEF Sound
  <2>5. Good(at[w], s)
    BY <2>3, <2>4
  <2> HIDE DEF s
  <2> QED
    BY <1>5, <2>1, <2>2, <2>5
<1>10. ASSUME NEW w \in Workers, CompleteJob(w)
       PROVE  /\ row' \in [Kinds -> Row] /\ \A j \in Kinds : Good(j, row'[j])
  <2>1. \/ row' = row
        \/ row' = [row EXCEPT ![at[w]] = Enqueued(Absent, FALSE)]
    BY <1>10 DEF CompleteJob
  <2>2. at[w] \in Kinds /\ row[at[w]] \in Row /\ Sound(row[at[w]])
    BY <1>1, <1>2
  <2>3. Absent \in Row /\ Sound(Absent)
    BY <2>2, RowStatements
  <2>4. Good(at[w], Enqueued(Absent, FALSE))
    BY <2>3, RowStatements
  <2> QED
    BY <1>5, <1>6, <2>1, <2>2, <2>4
<1>11. ASSUME NEW w \in Workers, RetryJob(w)
       PROVE  /\ row' \in [Kinds -> Row] /\ \A j \in Kinds : Good(j, row'[j])
  <2> DEFINE r == row[at[w]]
  <2>1. at[w] \in Kinds /\ r \in Row /\ Sound(r)
    BY <1>1, <1>2
  <2>2. Retried(r) \in Row /\ Sound(Retried(r))
    BY <2>1, RowStatements
  <2>3. CASE ~Holds(w)
    BY <1>6, <1>11, <2>3 DEF RetryJob
  <2>4. CASE Holds(w) /\ claim[w].attempts >= MaxAttempts
    <3>1. row' = [row EXCEPT ![at[w]] = Enqueued(Retried(r), FALSE)]
      BY <1>11, <2>4 DEF RetryJob
    <3>2. Good(at[w], Enqueued(Retried(r), FALSE))
      BY <2>2, RowStatements
    <3> QED
      BY <1>5, <2>1, <3>1, <3>2
  <2>5. CASE Holds(w) /\ ~(claim[w].attempts >= MaxAttempts)
    <3>1. row' = [row EXCEPT ![at[w]] = Retried(r)]
      BY <1>11, <2>5 DEF RetryJob
    <3>2. claim[w].attempts = r.attempts /\ r.attempts \in Nat
      BY <1>11, <2>1, <2>5 DEF RetryJob, IInv, CopyIsCurrent, Row
    <3>3. r.attempts < MaxAttempts
      BY <2>5, <3>2, MaxAttemptsAssumption
    <3>4. Retried(r).state = "pending"
      BY <2>1, <3>3, RowStatements
    <3>5. Good(at[w], Retried(r))
      BY <2>2, <3>4
    <3> QED
      BY <1>5, <2>1, <3>1, <3>5
  <2> QED
    BY <2>3, <2>4, <2>5
<1>12. ASSUME NEW k \in Kinds, LeaseExpires(k) \/ BecomesDue(k)
       PROVE  /\ row' \in [Kinds -> Row] /\ \A j \in Kinds : Good(j, row'[j])
  <2> DEFINE r == row[k]
  <2>1. r \in Row /\ Sound(r)
    BY <1>1, <1>2
  <2>2. /\ [r EXCEPT !.leased = FALSE] \in Row
        /\ [r EXCEPT !.leased = FALSE].state = r.state
        /\ [r EXCEPT !.leased = FALSE].attempts = r.attempts
        /\ [r EXCEPT !.due = TRUE] \in Row
        /\ [r EXCEPT !.due = TRUE].state = r.state
        /\ [r EXCEPT !.due = TRUE].attempts = r.attempts
    BY <2>1 DEF Row
  <2>3. Good(k, [r EXCEPT !.leased = FALSE]) /\ Good(k, [r EXCEPT !.due = TRUE])
    BY <2>1, <2>2 DEF Sound
  <2>4. \/ row' = [row EXCEPT ![k] = [r EXCEPT !.leased = FALSE]]
        \/ row' = [row EXCEPT ![k] = [r EXCEPT !.due = TRUE]]
    BY <1>12 DEF LeaseExpires, BecomesDue
  <2> QED
    BY <1>5, <2>3, <2>4
<1>13. ASSUME NEW w \in Workers,
              NothingToClaim(w) \/ HandlerReturns(w) \/ Crash(w) \/ Restart(w)
       PROVE  row' = row
  BY <1>13 DEF NothingToClaim, HandlerReturns, Crash, Restart
<1> HIDE DEF Good
<1> QED
  BY <1>6, <1>8, <1>9, <1>10, <1>11, <1>12, <1>13 DEF Next, WorkerStep

\* Where the workers are and what they remember stays well typed.
LEMMA WorkersTyped ==
    ASSUME TypeOK, Next
    PROVE  /\ pc' \in [Workers -> Labels]
           /\ at' \in [Workers -> Kinds]
           /\ claim' \in [Workers -> [attempts: Nat, gen: Nat]]
           /\ faults' \in Nat
<1>1. /\ pc \in [Workers -> Labels] /\ at \in [Workers -> Kinds] /\ faults \in Nat
      /\ claim \in [Workers -> [attempts: Nat, gen: Nat]] /\ row \in [Kinds -> Row]
  BY DEF TypeOK
<1>2. 1 \in Kinds /\ NoClaim \in [attempts: Nat, gen: Nat]
  BY KindCountAssumption DEF Kinds, NoClaim
<1>3. \A w \in Workers : NextKind(w) \in Kinds
  BY <1>1, KindCountAssumption DEF NextKind, Kinds
<1>4. \A w \in Workers : row[at[w]].attempts \in Nat /\ row[at[w]].gen \in Nat
  BY <1>1 DEF Row
<1>5. {"seed", "schedule", "claim", "handle", "complete", "retry", "down"} \subseteq Labels
  BY DEF Labels
<1>6. ASSUME NEW w \in Workers, SeedKind(w) \/ ScheduleKind(w) \/ NothingToClaim(w)
      PROVE  /\ pc' \in [Workers -> Labels] /\ at' \in [Workers -> Kinds]
             /\ claim' = claim /\ faults' = faults
  BY <1>1, <1>3, <1>5, <1>6 DEF SeedKind, ScheduleKind, NothingToClaim
<1>7. ASSUME NEW w \in Workers, ClaimJob(w)
      PROVE  /\ pc' \in [Workers -> Labels] /\ at' = at /\ faults' = faults
             /\ claim' \in [Workers -> [attempts: Nat, gen: Nat]]
  <2>1. [attempts |-> row[at[w]].attempts + 1, gen |-> row[at[w]].gen + 1]
           \in [attempts: Nat, gen: Nat]
    BY <1>4
  <2>2. pc' \in [Workers -> Labels] /\ at' = at /\ faults' = faults
    BY <1>1, <1>5, <1>7 DEF ClaimJob
  <2>3. claim' = [claim EXCEPT ![w] =
           [attempts |-> row[at[w]].attempts + 1, gen |-> row[at[w]].gen + 1]]
    BY <1>7 DEF ClaimJob
  <2> QED
    BY <1>1, <2>1, <2>2, <2>3
<1>8. ASSUME NEW w \in Workers, CompleteJob(w) \/ RetryJob(w)
      PROVE  /\ pc' \in [Workers -> Labels] /\ at' \in [Workers -> Kinds]
             /\ claim' \in [Workers -> [attempts: Nat, gen: Nat]] /\ faults' = faults
  BY <1>1, <1>2, <1>3, <1>5, <1>8 DEF CompleteJob, RetryJob, MoveOn
<1>9. ASSUME NEW w \in Workers, HandlerReturns(w) \/ Restart(w)
      PROVE  /\ pc' \in [Workers -> Labels] /\ at' = at /\ claim' = claim /\ faults' = faults
  BY <1>1, <1>5, <1>9 DEF HandlerReturns, Restart
<1>10. ASSUME NEW w \in Workers, Crash(w)
       PROVE  /\ pc' \in [Workers -> Labels] /\ at' \in [Workers -> Kinds]
              /\ claim' \in [Workers -> [attempts: Nat, gen: Nat]] /\ faults' \in Nat
  BY <1>1, <1>2, <1>5, <1>10 DEF Crash
<1>11. ASSUME NEW k \in Kinds, LeaseExpires(k) \/ BecomesDue(k)
       PROVE  pc' = pc /\ at' = at /\ claim' = claim /\ faults' = faults
  BY <1>11 DEF LeaseExpires, BecomesDue
<1> QED
  BY <1>1, <1>6, <1>7, <1>8, <1>9, <1>10, <1>11 DEF Next, WorkerStep

\* A row that a step leaves running keeps its claimant and its budget, unless
\* it is claimed.
LEMMA RunningRowStep ==
    ASSUME IInv, Next, NEW k \in Kinds, row'[k].state = "running"
    PROVE  \/ /\ row[k].state = "running" /\ row'[k].owner = row[k].owner
              /\ row'[k].gen = row[k].gen /\ row'[k].attempts = row[k].attempts
           \/ \E v \in Workers : ClaimJob(v) /\ at[v] = k
<1>1. /\ row \in [Kinds -> Row] /\ at \in [Workers -> Kinds]
      /\ \A j \in Kinds : row[j] \in Row /\ Sound(row[j])
  BY DEF IInv, TypeOK, NoRowIsStuck, Sound
<1>2. \A x \in Row, d \in BOOLEAN :
         x.state # "running" => Enqueued(x, d).state # "running"
  <2>1. \A d \in BOOLEAN : [Absent EXCEPT !.state = "pending", !.due = d].state = "pending"
    BY DEF Absent
  <2> QED
    BY <2>1 DEF Enqueued
<1>3. Absent \in Row /\ Absent.state # "running"
  BY DEF Absent, Row
<1>4. ASSUME NEW v \in Workers, SeedKind(v) \/ ScheduleKind(v)
      PROVE  row'[k] = row[k]
  <2>1. row' = [row EXCEPT ![at[v]] = Scheduled(row[at[v]])]
    BY <1>4 DEF SeedKind, ScheduleKind
  <2>2. at[v] \in Kinds /\ row[at[v]] \in Row /\ Sound(row[at[v]])
    BY <1>1
  <2>3. Scheduled(row[at[v]]) # row[at[v]] => Scheduled(row[at[v]]).state # "running"
    BY <2>2, ScheduledRow
  <2>4. CASE at[v] = k
    <3>1. row'[k] = Scheduled(row[k])
      BY <1>1, <2>1, <2>4
    <3> QED
      BY <2>3, <2>4, <3>1
  <2>5. CASE at[v] # k
    BY <1>1, <2>1, <2>5
  <2> QED
    BY <2>4, <2>5
<1>5. ASSUME NEW v \in Workers, ClaimJob(v), at[v] # k
      PROVE  row'[k] = row[k]
  BY <1>1, <1>5 DEF ClaimJob
<1>6. ASSUME NEW v \in Workers, CompleteJob(v)
      PROVE  row'[k] = row[k]
  <2>1. Enqueued(Absent, FALSE).state # "running"
    BY <1>2, <1>3
  <2> QED
    BY <1>1, <1>6, <2>1 DEF CompleteJob
<1>7. ASSUME NEW v \in Workers, RetryJob(v)
      PROVE  row'[k] = row[k]
  <2>1. at[v] \in Kinds /\ row[at[v]] \in Row /\ Sound(row[at[v]])
    BY <1>1
  <2>2. Retried(row[at[v]]) \in Row /\ Retried(row[at[v]]).state # "running"
    BY <2>1, RowStatements
  <2>3. Enqueued(Retried(row[at[v]]), FALSE).state # "running"
    BY <1>2, <2>2
  <2>4. \/ row' = row
        \/ row' = [row EXCEPT ![at[v]] = Enqueued(Retried(row[at[v]]), FALSE)]
        \/ row' = [row EXCEPT ![at[v]] = Retried(row[at[v]])]
    BY <1>7 DEF RetryJob
  <2> QED
    BY <1>1, <2>1, <2>2, <2>3, <2>4
<1>8. ASSUME NEW j \in Kinds, LeaseExpires(j) \/ BecomesDue(j)
      PROVE  /\ row[k].state = "running" /\ row'[k].owner = row[k].owner
             /\ row'[k].gen = row[k].gen /\ row'[k].attempts = row[k].attempts
  <2>1. /\ [row[j] EXCEPT !.leased = FALSE].state = row[j].state
        /\ [row[j] EXCEPT !.leased = FALSE].owner = row[j].owner
        /\ [row[j] EXCEPT !.leased = FALSE].gen = row[j].gen
        /\ [row[j] EXCEPT !.leased = FALSE].attempts = row[j].attempts
        /\ [row[j] EXCEPT !.due = TRUE].state = row[j].state
        /\ [row[j] EXCEPT !.due = TRUE].owner = row[j].owner
        /\ [row[j] EXCEPT !.due = TRUE].gen = row[j].gen
        /\ [row[j] EXCEPT !.due = TRUE].attempts = row[j].attempts
    BY <1>1 DEF Row
  <2>2. \/ row' = [row EXCEPT ![j] = [row[j] EXCEPT !.leased = FALSE]]
        \/ row' = [row EXCEPT ![j] = [row[j] EXCEPT !.due = TRUE]]
    BY <1>8 DEF LeaseExpires, BecomesDue
  <2>3. CASE j = k
    <3>1. \/ row'[k] = [row[j] EXCEPT !.leased = FALSE]
          \/ row'[k] = [row[j] EXCEPT !.due = TRUE]
      BY <1>1, <2>2, <2>3
    <3> QED
      BY <2>1, <2>3, <3>1
  <2>4. CASE j # k
    <3>1. row'[k] = row[k]
      BY <1>1, <2>2, <2>4
    <3> QED
      BY <3>1
  <2> QED
    BY <2>3, <2>4
<1>9. ASSUME NEW v \in Workers,
             NothingToClaim(v) \/ HandlerReturns(v) \/ Crash(v) \/ Restart(v)
      PROVE  row' = row
  BY <1>9 DEF NothingToClaim, HandlerReturns, Crash, Restart
<1> QED
  BY <1>4, <1>5, <1>6, <1>7, <1>8, <1>9 DEF Next, WorkerStep

\* A worker that comes to work on a job has just claimed it; one that goes on
\* working keeps its place and its copy.
LEMMA WorkingStep ==
    ASSUME TypeOK, Next, NEW w \in Workers, pc'[w] \in {"handle", "complete", "retry"}
    PROVE  \/ ClaimJob(w)
           \/ /\ pc[w] \in {"handle", "complete", "retry"}
              /\ at'[w] = at[w] /\ claim'[w] = claim[w]
              /\ ~ClaimJob(w)
<1>1. pc \in [Workers -> Labels] /\ at \in [Workers -> Kinds]
      /\ claim \in [Workers -> [attempts: Nat, gen: Nat]]
  BY DEF TypeOK
<1>2. ASSUME NEW v \in Workers, SeedKind(v) \/ ScheduleKind(v) \/ NothingToClaim(v)
      PROVE  v # w /\ pc'[w] = pc[w] /\ at'[w] = at[w] /\ claim'[w] = claim[w]
  BY <1>1, <1>2 DEF SeedKind, ScheduleKind, NothingToClaim
<1>3. ASSUME NEW v \in Workers, ClaimJob(v), v # w
      PROVE  pc'[w] = pc[w] /\ at'[w] = at[w] /\ claim'[w] = claim[w]
  BY <1>1, <1>3 DEF ClaimJob
<1>4. ASSUME NEW v \in Workers, HandlerReturns(v)
      PROVE  /\ pc[w] \in {"handle", "complete", "retry"}
             /\ at'[w] = at[w] /\ claim'[w] = claim[w]
  BY <1>1, <1>4 DEF HandlerReturns
<1>5. ASSUME NEW v \in Workers, CompleteJob(v) \/ RetryJob(v)
      PROVE  v # w /\ pc'[w] = pc[w] /\ at'[w] = at[w] /\ claim'[w] = claim[w]
  BY <1>1, <1>5 DEF CompleteJob, RetryJob, MoveOn
<1>6. ASSUME NEW v \in Workers, Crash(v) \/ Restart(v)
      PROVE  v # w /\ pc'[w] = pc[w] /\ at'[w] = at[w] /\ claim'[w] = claim[w]
  BY <1>1, <1>6 DEF Crash, Restart
<1>7. ASSUME NEW k \in Kinds, LeaseExpires(k) \/ BecomesDue(k)
      PROVE  pc' = pc /\ at' = at /\ claim' = claim
  BY <1>7 DEF LeaseExpires, BecomesDue
<1>8. pc[w] \in {"handle", "complete", "retry"} => ~ClaimJob(w)
  BY DEF ClaimJob
<1> QED
  BY <1>2, <1>3, <1>4, <1>5, <1>6, <1>7, <1>8 DEF Next, WorkerStep

LEMMA CopyStep ==
    ASSUME IInv, Next
    PROVE  CopyIsCurrent'
<1> SUFFICES ASSUME NEW w \in Workers, pc'[w] \in {"handle", "complete", "retry"}, Holds(w)'
             PROVE  claim'[w].attempts = row'[at'[w]].attempts
  BY DEF CopyIsCurrent
<1>1. TypeOK /\ row \in [Kinds -> Row] /\ at \in [Workers -> Kinds]
      /\ claim \in [Workers -> [attempts: Nat, gen: Nat]]
  BY DEF IInv, TypeOK
<1>2. /\ row'[at'[w]].state = "running" /\ row'[at'[w]].owner = w
      /\ row'[at'[w]].gen = claim'[w].gen
  BY DEF Holds
<1>3. CASE ClaimJob(w)
  <2> DEFINE r == row[at[w]]
  <2>1. at' = at /\ claim'[w].attempts = r.attempts + 1
    BY <1>1, <1>3 DEF ClaimJob
  <2>2. row'[at[w]] = [r EXCEPT !.state = "running", !.attempts = r.attempts + 1,
                                !.gen = r.gen + 1, !.owner = w, !.leased = TRUE]
    BY <1>1, <1>3 DEF ClaimJob
  <2>3. r \in Row
    BY <1>1
  <2>4. \A m, n \in Nat : [r EXCEPT !.state = "running", !.attempts = m, !.gen = n,
                                    !.owner = w, !.leased = TRUE].attempts = m
    <3> HIDE DEF r
    <3> QED
      BY <2>3 DEF Row
  <2>5. r.attempts + 1 \in Nat /\ r.gen + 1 \in Nat
    BY <2>3 DEF Row
  <2> QED
    BY <2>1, <2>2, <2>4, <2>5
<1>4. CASE /\ pc[w] \in {"handle", "complete", "retry"}
           /\ at'[w] = at[w] /\ claim'[w] = claim[w]
           /\ ~ClaimJob(w)
  <2>1. at[w] \in Kinds /\ row'[at[w]].state = "running"
    BY <1>1, <1>2, <1>4
  <2>2. ASSUME NEW v \in Workers, ClaimJob(v), at[v] = at[w] PROVE FALSE
    <3>1. v # w
      BY <1>4, <2>2
    <3>2. row'[at[w]] = [row[at[w]] EXCEPT !.state = "running",
                            !.attempts = row[at[w]].attempts + 1,
                            !.gen = row[at[w]].gen + 1, !.owner = v, !.leased = TRUE]
      BY <1>1, <2>2 DEF ClaimJob
    <3>3. row[at[w]] \in Row
      BY <1>1
    <3>4. \A m, n \in Nat : [row[at[w]] EXCEPT !.state = "running", !.attempts = m, !.gen = n,
                                !.owner = v, !.leased = TRUE].owner = v
      BY <3>3 DEF Row
    <3>5. row[at[w]].attempts + 1 \in Nat /\ row[at[w]].gen + 1 \in Nat
      BY <3>3 DEF Row
    <3>6. row'[at[w]].owner = v
      BY <3>2, <3>4, <3>5
    <3> QED
      BY <1>2, <1>4, <3>1, <3>6
  <2>3. /\ row[at[w]].state = "running" /\ row'[at[w]].owner = row[at[w]].owner
        /\ row'[at[w]].gen = row[at[w]].gen /\ row'[at[w]].attempts = row[at[w]].attempts
    BY <2>1, <2>2, RunningRowStep
  <2>4. Holds(w)
    BY <1>2, <1>4, <2>3 DEF Holds
  <2> QED
    BY <1>4, <2>3, <2>4 DEF IInv, CopyIsCurrent
<1> QED
  BY <1>1, <1>3, <1>4, WorkingStep

-----------------------------------------------------------------------------
(* Theorems                                                                *)

\* The inductive invariant: types, rows that can always be claimed or reaped,
\* and copies that agree with the rows they are for.
THEOREM InductiveInvariant == Spec => []IInv
<1>1. Init => IInv
  <2> SUFFICES ASSUME Init PROVE IInv
    OBVIOUS
  <2>1. Absent \in Row /\ Absent.state = "absent"
    BY DEF Absent, Row
  <2>2. 1 \in Kinds /\ NoClaim \in [attempts: Nat, gen: Nat]
    BY KindCountAssumption DEF Kinds, NoClaim
  <2>3. TypeOK
    BY <2>1, <2>2 DEF Init, TypeOK, Labels
  <2>4. NoRowIsStuck
    BY <2>1 DEF Init, NoRowIsStuck
  <2>5. CopyIsCurrent
    BY DEF Init, CopyIsCurrent
  <2> QED
    BY <2>3, <2>4, <2>5 DEF IInv
<1>2. IInv /\ [Next]_vars => IInv'
  <2> SUFFICES ASSUME IInv, [Next]_vars PROVE IInv'
    OBVIOUS
  <2>1. CASE Next
    <3>1. row' \in [Kinds -> Row] /\ \A k \in Kinds : Sound(row'[k])
      BY <2>1, RowStep
    <3>2. TypeOK'
      BY <2>1, <3>1, WorkersTyped DEF IInv, TypeOK
    <3>3. NoRowIsStuck'
      BY <3>1 DEF NoRowIsStuck, Sound
    <3>4. CopyIsCurrent'
      BY <2>1, CopyStep
    <3> QED
      BY <3>2, <3>3, <3>4 DEF IInv
  <2>2. CASE UNCHANGED vars
    BY <2>2 DEF vars, IInv, TypeOK, NoRowIsStuck, CopyIsCurrent, Holds
  <2> QED
    BY <2>1, <2>2
<1> QED
  BY <1>1, <1>2, PTL DEF Spec

\* No active row is ever stuck without budget, for any budget.
THEOREM RowsNeverStick == Spec => []NoRowIsStuck
<1>1. IInv => NoRowIsStuck
  BY DEF IInv
<1> QED
  BY <1>1, InductiveInvariant, PTL

\* Once seeded a kind always has an active row.
THEOREM KindsStayScheduled == Spec => KindStaysScheduled
<1>1. Spec => []IInv
  BY InductiveInvariant
<1>2. IInv /\ [Next]_vars =>
        [\A k \in Kinds : row[k].state # "absent" => row'[k].state # "absent"]_vars
  BY RowStep DEF vars
<1> QED
  BY <1>1, <1>2, PTL DEF Spec, KindStaysScheduled

\* A running row with a live lease is only moved by its claimant.
THEOREM LeasesAreRespected == Spec => LeaseIsRespected
<1> DEFINE Moved(k) == row[k].state = "running" /\ row[k].leased /\ row'[k] # row[k] =>
              \/ row'[k] = [row[k] EXCEPT !.leased = FALSE]
              \/ \E w \in Workers :
                    /\ row[k].owner = w
                    /\ pc[w] \in {"complete", "retry"}
                    /\ at[w] = k
                    /\ pc'[w] # pc[w]
<1>1. Spec => []IInv
  BY InductiveInvariant
<1>2. IInv /\ [Next]_vars => [\A k \in Kinds : Moved(k)]_vars
  <2> SUFFICES ASSUME IInv, Next, NEW k \in Kinds,
                      row[k].state = "running", row[k].leased, row'[k] # row[k]
               PROVE  \/ row'[k] = [row[k] EXCEPT !.leased = FALSE]
                      \/ \E w \in Workers :
                            /\ row[k].owner = w
                            /\ pc[w] \in {"complete", "retry"}
                            /\ at[w] = k
                            /\ pc'[w] # pc[w]
    OBVIOUS
  <2>1. /\ row \in [Kinds -> Row] /\ at \in [Workers -> Kinds]
        /\ pc \in [Workers -> Labels] /\ Sound(row[k]) /\ row[k] \in Row
    BY DEF IInv, TypeOK, NoRowIsStuck, Sound
  <2>2. ASSUME NEW w \in Workers, SeedKind(w) \/ ScheduleKind(w) PROVE FALSE
    <3>1. row' = [row EXCEPT ![at[w]] = Scheduled(row[at[w]])]
      BY <2>2 DEF SeedKind, ScheduleKind
    <3>2. at[w] = k /\ row'[k] = Scheduled(row[k])
      BY <2>1, <3>1
    <3>3. Scheduled(row[k]) = row[k]
      BY <2>1, ScheduledRow
    <3> QED
      BY <3>2, <3>3
  <2>3. ASSUME NEW w \in Workers, ClaimJob(w) PROVE FALSE
    BY <2>1, <2>3 DEF ClaimJob, Claimable
  <2>4. ASSUME NEW w \in Workers, CompleteJob(w) \/ RetryJob(w)
        PROVE  /\ row[k].owner = w /\ at[w] = k
               /\ pc[w] \in {"complete", "retry"} /\ pc'[w] # pc[w]
    <3>1. pc[w] \in {"complete", "retry"} /\ pc'[w] = "schedule"
      BY <2>1, <2>4 DEF CompleteJob, RetryJob, MoveOn
    <3>2. Holds(w)
      BY <2>4 DEF CompleteJob, RetryJob
    <3>3. at[w] = k
      BY <2>1, <2>4 DEF CompleteJob, RetryJob
    <3> QED
      BY <3>1, <3>2, <3>3 DEF Holds
  <2>5. ASSUME NEW j \in Kinds, LeaseExpires(j)
        PROVE  row'[k] = [row[k] EXCEPT !.leased = FALSE]
    BY <2>1, <2>5 DEF LeaseExpires
  <2>6. ASSUME NEW j \in Kinds, BecomesDue(j) PROVE FALSE
    BY <2>1, <2>6 DEF BecomesDue
  <2>7. ASSUME NEW w \in Workers,
               NothingToClaim(w) \/ HandlerReturns(w) \/ Crash(w) \/ Restart(w)
        PROVE  FALSE
    BY <2>7 DEF NothingToClaim, HandlerReturns, Crash, Restart
  <2> QED
    BY <2>2, <2>3, <2>4, <2>5, <2>6, <2>7 DEF Next, WorkerStep
<1> QED
  BY <1>1, <1>2, PTL DEF Spec, LeaseIsRespected

=============================================================================
