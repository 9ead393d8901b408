------------------------------ MODULE JobQueue ------------------------------
(***************************************************************************)
(* The durable job queue: the table job_queue_entries, written by          *)
(* job-queue.service.ts one SQL statement at a time, and the workers of    *)
(* job-queue-worker.service.ts, one per server process.                    *)
(*                                                                         *)
(* A worker recovers stale rows, claims a batch with FOR UPDATE SKIP       *)
(* LOCKED, then handles the jobs of the batch one after the other.  What   *)
(* it holds of a job is a ticket, the row's lockedAt when it was claimed;  *)
(* complete and fail write only while the row still has that lockedAt.     *)
(* The kind and payload of a job are abstracted; its handler returns or    *)
(* throws, but for the two sweeps, which catch every error themselves.     *)
(***************************************************************************)
EXTENDS Integers, FiniteSets

CONSTANTS Jobs,             \* dedupe keys
          ResetJobs,        \* jobs enqueued with resetSucceededOnDedupe
          Sweeps,           \* of these, the ones a timer enqueues
          Workers,
          MaxAttempts,      \* max_attempts of each job
          BatchSize, RetryDelay, StaleAfter,
          MaxNow,           \* bound on the clock
          MaxClaims         \* bound on attempts, tested when an operator requeues

ASSUME JobsAssumption ==
    /\ ResetJobs \subseteq Jobs /\ Sweeps \subseteq ResetJobs
    /\ MaxAttempts \in [Jobs -> Nat \ {0}]
ASSUME TimesAssumption ==
    /\ RetryDelay \in Nat /\ StaleAfter \in Nat \ {0}
    /\ BatchSize \in Nat \ {0} /\ MaxNow \in Nat /\ MaxClaims \in Nat

VARIABLES
    status,         \* "NONE" before the row exists
    attempts, lockedAt, nextRunAt,
    ran,            \* history: a handler returned since the row was inserted or reset
    phase,          \* where processDueJobs of each worker is
    batch,          \* tickets claimed and not handled yet
    doing,          \* the ticket whose handler ended, with its outcome, if any
    now

rowVars == <<status, attempts, lockedAt, nextRunAt>>
workerVars == <<phase, batch, doing>>
vars == <<rowVars, ran, workerVars, now>>

JobStatus == {"NONE", "PENDING", "RUNNING", "SUCCEEDED", "DEAD_LETTER"}
Phase == {"idle", "recovered", "working"}
NotLocked == -1     \* SQL NULL in locked_at
Ticket == [job : Jobs, lockedAt : Nat]

\* The tickets a worker holds, handled or not.
Held(w) == batch[w] \cup {e.ticket : e \in doing[w]}

\* (mutant) complete and fail without the test of locked_at
AnyRunning(t) == status[t.job] = "RUNNING"

\* complete and fail: the row is still the one this ticket was given for.
Current(t) == status[t.job] = "RUNNING" /\ lockedAt[t.job] = t.lockedAt

Due == {j \in Jobs : status[j] = "PENDING" /\ nextRunAt[j] <= now}

\* (mutant) recovery of any RUNNING job, however recent
AllRunning == {j \in Jobs : status[j] = "RUNNING"}

Stale ==
    {j \in Jobs : /\ status[j] = "RUNNING" /\ lockedAt[j] # NotLocked
                  /\ lockedAt[j] <= now - StaleAfter}

\* ORDER BY key ASC LIMIT batch size; ties are broken by creation, any way here.
Batches(S, key) ==
    {B \in SUBSET S : /\ Cardinality(B) = IF Cardinality(S) < BatchSize THEN Cardinality(S)
                                          ELSE BatchSize
                      /\ \A i \in B, k \in S \ B : key[i] <= key[k]}

Init ==
    /\ status = [j \in Jobs |-> "NONE"]
    /\ attempts = [j \in Jobs |-> 0]
    /\ lockedAt = [j \in Jobs |-> NotLocked]
    /\ nextRunAt = [j \in Jobs |-> 0]
    /\ ran = [j \in Jobs |-> FALSE]
    /\ phase = [w \in Workers |-> "idle"]
    /\ batch = [w \in Workers |-> {}]
    /\ doing = [w \in Workers |-> {}]
    /\ now = 0

Tick ==
    /\ now < MaxNow
    /\ now' = now + 1
    /\ UNCHANGED <<rowVars, ran, workerVars>>

-----------------------------------------------------------------------------
(* enqueue and requeueDeadLetter.                                          *)

Insert(j) ==
    /\ status[j] = "NONE"
    /\ \E at \in now..MaxNow : nextRunAt' = [nextRunAt EXCEPT ![j] = at]
    /\ status' = [status EXCEPT ![j] = "PENDING"]
    /\ UNCHANGED <<attempts, lockedAt, ran, workerVars, now>>

\* ON CONFLICT: only a SUCCEEDED row is reset, and the earlier date is kept.
EnqueueAgain(j) ==
    /\ status[j] # "NONE"
    /\ \E at \in now..MaxNow :
          nextRunAt' = [nextRunAt EXCEPT ![j] = IF @ < at THEN @ ELSE at]
    /\ IF j \in ResetJobs /\ status[j] = "SUCCEEDED"
       THEN /\ status' = [status EXCEPT ![j] = "PENDING"]
            /\ attempts' = [attempts EXCEPT ![j] = 0]
            /\ ran' = [ran EXCEPT ![j] = FALSE]
       ELSE UNCHANGED <<status, attempts, ran>>
    /\ UNCHANGED <<lockedAt, workerVars, now>>

RequeueDeadLetter(j) ==
    /\ status[j] = "DEAD_LETTER" /\ attempts[j] < MaxClaims
    /\ status' = [status EXCEPT ![j] = "PENDING"]
    /\ nextRunAt' = [nextRunAt EXCEPT ![j] = now]
    /\ lockedAt' = [lockedAt EXCEPT ![j] = NotLocked]
    /\ UNCHANGED <<attempts, ran, workerVars, now>>

-----------------------------------------------------------------------------
(* processDueJobs.                                                          *)

RecoverStaleRunningJobs(w) ==
    /\ phase[w] = "idle"
    /\ \E B \in Batches(Stale, lockedAt) :
          /\ status' = [j \in Jobs |-> IF j \in B THEN "PENDING" ELSE status[j]]
          /\ nextRunAt' = [j \in Jobs |-> IF j \in B THEN now ELSE nextRunAt[j]]
          /\ lockedAt' = [j \in Jobs |-> IF j \in B THEN NotLocked ELSE lockedAt[j]]
    /\ phase' = [phase EXCEPT ![w] = "recovered"]
    /\ UNCHANGED <<attempts, ran, batch, doing, now>>

ClaimDueJobs(w) ==
    /\ phase[w] = "recovered"
    /\ \E B \in Batches(Due, nextRunAt) :
          /\ status' = [j \in Jobs |-> IF j \in B THEN "RUNNING" ELSE status[j]]
          /\ attempts' = [j \in Jobs |-> IF j \in B THEN attempts[j] + 1 ELSE attempts[j]]
          /\ lockedAt' = [j \in Jobs |-> IF j \in B THEN now ELSE lockedAt[j]]
          /\ batch' = [batch EXCEPT ![w] = {[job |-> j, lockedAt |-> now] : j \in B}]
    /\ phase' = [phase EXCEPT ![w] = "working"]
    /\ UNCHANGED <<nextRunAt, ran, doing, now>>

\* The handler of one job returns or throws, however long after the claim.
HandleJob(w, ok) ==
    /\ phase[w] = "working" /\ doing[w] = {}
    /\ \E t \in batch[w] :
          /\ ok \/ t.job \notin Sweeps
          /\ batch' = [batch EXCEPT ![w] = @ \ {t}]
          /\ doing' = [doing EXCEPT ![w] = {[ticket |-> t, ok |-> ok]}]
          /\ ran' = [ran EXCEPT ![t.job] = @ \/ ok]
    /\ UNCHANGED <<rowVars, phase, now>>

Complete(w) ==
    /\ \E e \in doing[w] :
          /\ e.ok
          /\ IF Current(e.ticket)
             THEN /\ status' = [status EXCEPT ![e.ticket.job] = "SUCCEEDED"]
                  /\ lockedAt' = [lockedAt EXCEPT ![e.ticket.job] = NotLocked]
             ELSE UNCHANGED <<status, lockedAt>>
    /\ doing' = [doing EXCEPT ![w] = {}]
    /\ UNCHANGED <<attempts, nextRunAt, ran, phase, batch, now>>

\* complete throws after the handler returned: the catch block treats the job as failed.
CompleteThrows(w) ==
    /\ \E e \in doing[w] :
          e.ok /\ doing' = [doing EXCEPT ![w] = {[ticket |-> e.ticket, ok |-> FALSE]}]
    /\ UNCHANGED <<rowVars, ran, phase, batch, now>>

StatusAfterFailure(j) == IF attempts[j] >= MaxAttempts[j] THEN "DEAD_LETTER" ELSE "PENDING"

Fail(w) ==
    /\ \E e \in doing[w] :
          /\ ~e.ok
          /\ LET j == e.ticket.job IN
             IF Current(e.ticket)
             THEN /\ status' = [status EXCEPT ![j] = StatusAfterFailure(j)]
                  /\ nextRunAt' = [nextRunAt EXCEPT ![j] = now + RetryDelay]
                  /\ lockedAt' = [lockedAt EXCEPT ![j] = NotLocked]
             ELSE UNCHANGED <<status, nextRunAt, lockedAt>>
    /\ doing' = [doing EXCEPT ![w] = {}]
    /\ UNCHANGED <<attempts, ran, phase, batch, now>>

\* (mutant) running is not reset at the end of the batch
BatchDoneStuck(w) ==
    /\ phase[w] = "working" /\ batch[w] = {} /\ doing[w] = {}
    /\ UNCHANGED vars

BatchDone(w) ==
    /\ phase[w] = "working" /\ batch[w] = {} /\ doing[w] = {}
    /\ phase' = [phase EXCEPT ![w] = "idle"]
    /\ UNCHANGED <<rowVars, ran, batch, doing, now>>

\* The process dies, or recover, claim or fail throws: the rest of the batch
\* stays RUNNING in the table and running is reset.
BatchLost(w) ==
    /\ phase[w] # "idle"
    /\ phase' = [phase EXCEPT ![w] = "idle"]
    /\ batch' = [batch EXCEPT ![w] = {}]
    /\ doing' = [doing EXCEPT ![w] = {}]
    /\ UNCHANGED <<rowVars, ran, now>>

-----------------------------------------------------------------------------
JobStep(j) == Insert(j) \/ EnqueueAgain(j) \/ RequeueDeadLetter(j)

WorkerStep(w) ==
    \/ RecoverStaleRunningJobs(w)
    \/ ClaimDueJobs(w)
    \/ HandleJob(w, TRUE)
    \/ HandleJob(w, FALSE)
    \/ Complete(w)
    \/ CompleteThrows(w)
    \/ Fail(w)
    \/ BatchDone(w)

Next ==
    \/ Tick
    \/ \E j \in Jobs : JobStep(j)
    \/ \E w \in Workers : WorkerStep(w)
    \/ \E w \in Workers : BatchLost(w)

Spec == Init /\ [][Next]_vars

\* setInterval starts processDueJobs again and again; a handler ends; a worker
\* that is not lost goes on.  Batches may be lost for ever: SF on the claim says
\* that not every call dies between its two statements.
WorkerFairness ==
    \A w \in Workers : /\ WF_vars(WorkerStep(w))
                       /\ SF_vars(ClaimDueJobs(w))

FairSpec == Spec /\ WorkerFairness

-----------------------------------------------------------------------------
(* The queue as WorkQueue sees it.                                         *)

\* The ticket that complete and fail honour for a running job.
CurrentTicket(j) == [job |-> j, lockedAt |-> lockedAt[j]]

Holder ==
    [j \in Jobs |-> {w \in Workers : status[j] = "RUNNING" /\ CurrentTicket(j) \in Held(w)}]

\* How the run of the holder ended, until its complete or fail is over.
RunOutcome ==
    [j \in Jobs |->
        {o \in {"returned", "threw"} :
            /\ status[j] = "RUNNING"
            /\ \E w \in Workers :
                  [ticket |-> CurrentTicket(j), ok |-> o = "returned"] \in doing[w]}]

Queue == INSTANCE WorkQueue
         WITH Items <- Jobs, Staff <- Workers, Term <- StaleAfter, Never <- NotLocked,
              state <- status, holder <- Holder, outcome <- RunOutcome,
              since <- lockedAt, clock <- now

-----------------------------------------------------------------------------
(* Properties.                                                             *)

\* Types of the rows, the workers and the clock.
TypeOK ==
    /\ status \in [Jobs -> JobStatus]
    /\ attempts \in [Jobs -> Nat]
    /\ lockedAt \in [Jobs -> Nat \cup {NotLocked}]
    /\ nextRunAt \in [Jobs -> Nat]
    /\ ran \in [Jobs -> BOOLEAN]
    /\ phase \in [Workers -> Phase]
    /\ batch \in [Workers -> SUBSET Ticket]
    /\ doing \in [Workers -> SUBSET [ticket : Ticket, ok : BOOLEAN]]
    /\ now \in Nat

\* At most one worker holds a ticket its row still honours: two runs of a job may
\* overlap after a recovery, but only one of them can decide how the job ends.
SingleLease ==
    \A v, w \in Workers : \A s \in Held(v), t \in Held(w) :
        s.job = t.job /\ Current(s) /\ Current(t) => v = w /\ s = t

\* A ticket the row no longer honours was recovered as stale: its worker was slow
\* by StaleAfter, so no later claim, even of the same millisecond, looks like it.
LostOnlyIfStale ==
    \A w \in Workers : \A t \in Held(w) :
        Current(t) \/ t.lockedAt + StaleAfter <= now

\* A job ends SUCCEEDED only if a handler returned for it since it was submitted:
\* a worker that lost its lease never closes a later submission of the same key.
SucceededWasHandled == \A j \in Jobs : status[j] = "SUCCEEDED" => ran[j]

\* A running job is taken from its worker only by that worker's own complete or
\* fail, or because it is stale.
OnlyHolderEnds ==
    [][\A j \in Jobs : status[j] = "RUNNING" /\ status'[j] # "RUNNING" =>
          \/ j \in Stale
          \/ \E w \in Workers : \E e \in doing[w] :
                e.ticket = [job |-> j, lockedAt |-> lockedAt[j]] /\ doing'[w] = {}]_vars

\* The rows, tickets and batches are a queue of leased items: a job is held by at
\* most one worker, ends as that worker's own run of it did, and is taken from it
\* only once its lease is StaleAfter old.
ImplementsWorkQueue == Queue!QueueSpec

\* A due job is claimed in the end, whatever fails, as long as the batch is
\* larger than the number of jobs that are submitted again and again.
DueJobClaimed == \A j \in Jobs : j \in Due ~> j \notin Due

\* A job whose worker died is given back in the end.
StaleRecovered == \A j \in Jobs : j \in Stale ~> j \notin Stale
=============================================================================
