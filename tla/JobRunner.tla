------------------------------ MODULE JobRunner ------------------------------
(***************************************************************************)
(* The recurring jobs of the worker processes: one active row per kind in  *)
(* the jobs table, claimed under a lease, retried with a budget of         *)
(* attempts, and followed by its successor.                                *)
(*                                                                         *)
(* Source: internal/jobs/runner.go and the statements EnqueueJob to        *)
(* ReapExpiredExhaustedJob of internal/database/queries/jobs.sql.  Each    *)
(* transaction is one action.                                              *)
(*                                                                         *)
(* Rows that are completed or failed are never looked at again, so only    *)
(* the active row of a kind is kept; the partial unique index              *)
(* jobs_active_kind_idx allows one.  Time is abstracted to flags: whether  *)
(* a lease has expired and whether available_at has come.                  *)
(***************************************************************************)
EXTENDS Naturals

CONSTANTS
    KindCount,     \* how many job kinds are defined, 4 in the code
    Workers,       \* worker processes
    Reliable,      \* the workers that are scheduled and whose handlers return
    None,          \* no owner
    MaxAttempts,   \* max_attempts of every row, 10 in the code
    MaxFaults      \* how many worker crashes a behaviour may contain

ASSUME KindCountAssumption == KindCount \in Nat \ {0}
ASSUME WorkersAssumption == Reliable \subseteq Workers /\ None \notin Workers
ASSUME MaxAttemptsAssumption == MaxAttempts \in Nat \ {0}
ASSUME MaxFaultsAssumption == MaxFaults \in Nat

VARIABLES
    row,       \* the active jobs row of each kind
    pc,        \* where each worker is
    at,        \* the definition each worker is at
    claim,     \* attempts and lease_generation that the worker's claim returned
    faults     \* crashes so far

vars == <<row, pc, at, claim, faults>>

-----------------------------------------------------------------------------
(* State                                                                   *)

\* The definitions, numbered in the order in which runOnce goes through them.
Kinds == 1..KindCount

Labels == {"seed", "schedule", "claim", "handle", "complete", "retry", "down"}

\* due: available_at has come.  leased: lease_expires_at lies ahead.
Row == [state: {"absent", "pending", "running"}, attempts: Nat, gen: Nat,
        owner: Workers \cup {None}, leased: BOOLEAN, due: BOOLEAN]
Absent == [state |-> "absent", attempts |-> 0, gen |-> 0, owner |-> None,
           leased |-> FALSE, due |-> FALSE]
NoClaim == [attempts |-> 0, gen |-> 0]

TypeOK ==
    /\ row \in [Kinds -> Row]
    /\ pc \in [Workers -> Labels]
    /\ at \in [Workers -> Kinds]
    /\ claim \in [Workers -> [attempts: Nat, gen: Nat]]
    /\ faults \in Nat

Init ==
    /\ row = [k \in Kinds |-> Absent]
    /\ pc = [w \in Workers |-> "seed"]
    /\ at = [w \in Workers |-> 1]
    /\ claim = [w \in Workers |-> NoClaim]
    /\ faults = 0

-----------------------------------------------------------------------------
(* Scheduling                                                              *)

\* EnqueueJob on a kind that has no active row; on any other it does nothing.
Enqueued(r, due) ==
    IF r.state = "absent" THEN [Absent EXCEPT !.state = "pending", !.due = due] ELSE r

\* ReapExpiredExhaustedJob.
Exhausted(r) == r.state = "running" /\ ~r.leased /\ r.attempts >= MaxAttempts

\* ensureScheduled: the successor of a reaped job waits for the interval.
Scheduled(r) == IF Exhausted(r) THEN Enqueued(Absent, FALSE) ELSE Enqueued(r, TRUE)

\* The loop goes on with the next definition, in another round after the last.
NextKind(w) == IF at[w] < KindCount THEN at[w] + 1 ELSE 1

\* enqueueScheduledJobs, when the worker starts.
SeedKind(w) ==
    /\ pc[w] = "seed"
    /\ row' = [row EXCEPT ![at[w]] = Scheduled(@)]
    /\ pc' = [pc EXCEPT ![w] = IF at[w] < KindCount THEN "seed" ELSE "schedule"]
    /\ at' = [at EXCEPT ![w] = NextKind(w)]
    /\ UNCHANGED <<claim, faults>>

ScheduleKind(w) ==
    /\ pc[w] = "schedule"
    /\ row' = [row EXCEPT ![at[w]] = Scheduled(@)]
    /\ pc' = [pc EXCEPT ![w] = "claim"]
    /\ UNCHANGED <<at, claim, faults>>

-----------------------------------------------------------------------------
(* Claims                                                                  *)

\* Mutant: the budget is not looked at.
ClaimableUnbounded(r) ==
    /\ r.state = "pending" \/ (r.state = "running" /\ ~r.leased)
    /\ r.due

\* Mutant: only pending jobs are claimed.
ClaimablePending(r) == r.state = "pending" /\ r.due /\ r.attempts < MaxAttempts

\* The WHERE clause of ClaimJob.
Claimable(r) ==
    /\ r.state = "pending" \/ (r.state = "running" /\ ~r.leased)
    /\ r.due
    /\ r.attempts < MaxAttempts

ClaimJob(w) ==
    LET r == row[at[w]] IN
    /\ pc[w] = "claim"
    /\ Claimable(r)
    /\ row' = [row EXCEPT ![at[w]] =
           [r EXCEPT !.state = "running", !.attempts = @ + 1, !.gen = @ + 1,
                     !.owner = w, !.leased = TRUE]]
    /\ claim' = [claim EXCEPT ![w] = [attempts |-> r.attempts + 1, gen |-> r.gen + 1]]
    /\ pc' = [pc EXCEPT ![w] = "handle"]
    /\ UNCHANGED <<at, faults>>

NothingToClaim(w) ==
    /\ pc[w] = "claim"
    /\ ~Claimable(row[at[w]])
    /\ pc' = [pc EXCEPT ![w] = "schedule"]
    /\ at' = [at EXCEPT ![w] = NextKind(w)]
    /\ UNCHANGED <<row, claim, faults>>

\* The handler runs as long as it likes: nothing renews the lease.
HandlerReturns(w) ==
    /\ pc[w] = "handle"
    /\ \E label \in {"complete", "retry"} : pc' = [pc EXCEPT ![w] = label]
    /\ UNCHANGED <<row, at, claim, faults>>

-----------------------------------------------------------------------------
(* Outcomes                                                                *)

\* Mutant: the id and the state of the row are compared, its lease is not.
HoldsById(w) == row[at[w]].state = "running"

\* The WHERE clause of CompleteJob and RetryJob.  A worker claims nothing while
\* it works on a job, so that its name stands for the row's id and for the
\* owner UUID of the claim.
Holds(w) ==
    LET r == row[at[w]] IN
    /\ r.state = "running"
    /\ r.owner = w
    /\ r.gen = claim[w].gen

\* The job is finished; the worker goes on, also when its lease was lost.
MoveOn(w) ==
    /\ pc' = [pc EXCEPT ![w] = "schedule"]
    /\ at' = [at EXCEPT ![w] = NextKind(w)]
    /\ claim' = [claim EXCEPT ![w] = NoClaim]

\* completeAndSchedule: the row is completed, and its successor inserted, in
\* one transaction.
CompleteJob(w) ==
    /\ pc[w] = "complete"
    /\ row' = IF Holds(w) THEN [row EXCEPT ![at[w]] = Enqueued(Absent, FALSE)] ELSE row
    /\ MoveOn(w)
    /\ UNCHANGED faults

\* RetryJob: the row fails when its budget is used up and is pending again,
\* after its backoff, otherwise.
Retried(r) ==
    IF r.attempts >= MaxAttempts
    THEN Absent
    ELSE [r EXCEPT !.state = "pending", !.owner = None, !.leased = FALSE, !.due = FALSE]

\* Mutant: the successor of a failed job is left to the next round.
RetryWithoutSuccessor(w) ==
    /\ pc[w] = "retry"
    /\ row' = IF Holds(w) THEN [row EXCEPT ![at[w]] = Retried(@)] ELSE row
    /\ MoveOn(w)
    /\ UNCHANGED faults

\* retry: whether a successor is due is decided by the worker's copy.
RetryJob(w) ==
    /\ pc[w] = "retry"
    /\ row' = IF Holds(w)
              THEN [row EXCEPT ![at[w]] = IF claim[w].attempts >= MaxAttempts
                                          THEN Enqueued(Retried(@), FALSE)
                                          ELSE Retried(@)]
              ELSE row
    /\ MoveOn(w)
    /\ UNCHANGED faults

-----------------------------------------------------------------------------
(* Time and crashes                                                        *)

LeaseExpires(k) ==
    /\ row[k].state = "running"
    /\ row[k].leased
    /\ row' = [row EXCEPT ![k].leased = FALSE]
    /\ UNCHANGED <<pc, at, claim, faults>>

\* The interval or the backoff has passed.
BecomesDue(k) ==
    /\ row[k].state = "pending"
    /\ ~row[k].due
    /\ row' = [row EXCEPT ![k].due = TRUE]
    /\ UNCHANGED <<pc, at, claim, faults>>

\* The process is stopped or dies, or a statement fails, upon which Run returns
\* the error and the process ends: a claimed row stays as it is.
Crash(w) ==
    /\ pc[w] # "down"
    /\ faults < MaxFaults
    /\ faults' = faults + 1
    /\ pc' = [pc EXCEPT ![w] = "down"]
    /\ at' = [at EXCEPT ![w] = 1]
    /\ claim' = [claim EXCEPT ![w] = NoClaim]
    /\ UNCHANGED row

Restart(w) ==
    /\ pc[w] = "down"
    /\ pc' = [pc EXCEPT ![w] = "seed"]
    /\ UNCHANGED <<row, at, claim, faults>>

-----------------------------------------------------------------------------
(* Specification                                                           *)

WorkerStep(w) ==
    \/ SeedKind(w) \/ ScheduleKind(w)
    \/ ClaimJob(w) \/ NothingToClaim(w) \/ HandlerReturns(w)
    \/ CompleteJob(w) \/ RetryJob(w)
    \/ Restart(w)

Next ==
    \/ \E w \in Workers : WorkerStep(w) \/ Crash(w)
    \/ \E k \in Kinds : LeaseExpires(k) \/ BecomesDue(k)

Spec == Init /\ [][Next]_vars

\* A reliable worker polls every second, its handlers return, and the
\* deployment starts it again when it has ended.  The other workers may hang in
\* a handler for ever.  Time passes.
Fairness ==
    /\ \A w \in Reliable : WF_vars(WorkerStep(w))
    /\ \A k \in Kinds : WF_vars(LeaseExpires(k)) /\ WF_vars(BecomesDue(k))

FairSpec == Spec /\ Fairness

-----------------------------------------------------------------------------
(* Properties                                                              *)

\* No active row is ever stuck: one that waits still has budget, so that it can
\* be claimed, and one that runs used no more than its budget.  A pending row
\* without budget would block its kind for ever: nobody claims or reaps it, and
\* the unique index admits no other.
NoRowIsStuck ==
    \A k \in Kinds :
        /\ row[k].state = "pending" => row[k].attempts < MaxAttempts
        /\ row[k].state = "running" => row[k].attempts \in 1..MaxAttempts

\* The copy that decides about the successor agrees with the row it is for.
CopyIsCurrent ==
    \A w \in Workers :
        pc[w] \in {"handle", "complete", "retry"} /\ Holds(w) =>
            claim[w].attempts = row[at[w]].attempts

\* Together with the types these are inductive.
IInv == TypeOK /\ NoRowIsStuck /\ CopyIsCurrent

\* While the lease of a running row lies ahead nobody but its claimant moves
\* it, although superseded handlers return late and finish their jobs.
LeaseIsRespected ==
    [][\A k \in Kinds :
          row[k].state = "running" /\ row[k].leased /\ row'[k] # row[k] =>
              \/ row'[k] = [row[k] EXCEPT !.leased = FALSE]
              \/ \E w \in Workers :
                    /\ row[k].owner = w
                    /\ pc[w] \in {"complete", "retry"}
                    /\ at[w] = k
                    /\ pc'[w] # pc[w]]_vars

\* Once seeded a kind always has an active row, even if every worker dies right
\* after a job has completed or failed: its successor is there already.
KindStaysScheduled ==
    [][\A k \in Kinds : row[k].state # "absent" => row'[k].state # "absent"]_vars

\* Every kind is claimed again and again as long as one worker is reliable,
\* whatever other workers do to its rows: the recovery of publishes and the
\* cleaners rely on it.
EveryKindKeepsRunning ==
    \A k \in Kinds :
        []<><<\E w \in Workers : at[w] = k /\ pc[w] = "claim" /\ pc'[w] = "handle">>_vars

=============================================================================
