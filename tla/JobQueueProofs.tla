--------------------------- MODULE JobQueueProofs ---------------------------
(***************************************************************************)
(* Theorems about JobQueue, for every set of jobs and workers, every limit *)
(* on attempts and batches, and every pair of delays with StaleAfter > 0.  *)
(*                                                                         *)
(* The invariant is inductive because a row that is claimed again at now   *)
(* cannot be confused with an older claim: whoever still holds a ticket of *)
(* that row lost it by recovery, which takes StaleAfter, so the old ticket *)
(* bears an earlier time (LostOnlyIfStale).  The three parts below say     *)
(* what a worker holds.                                                    *)
(***************************************************************************)
EXTENDS JobQueue, TLAPS

\* A worker holds tickets only while it works on a batch.
IdleHoldsNothing ==
    \A w \in Workers : phase[w] # "working" => batch[w] = {} /\ doing[w] = {}

\* A ticket whose handler ended is no longer in the batch.
HandledLeftBatch == \A w \in Workers : \A e \in doing[w] : e.ticket \notin batch[w]

\* A handler that returned and may still complete its row did so after the row
\* was last reset.
OkWasRun ==
    \A w \in Workers : \A e \in doing[w] :
        e.ok /\ Current(e.ticket) => ran[e.ticket.job]

\* The inductive invariant.
IInv ==
    /\ TypeOK
    /\ SingleLease
    /\ LostOnlyIfStale
    /\ SucceededWasHandled
    /\ IdleHoldsNothing
    /\ HandledLeftBatch
    /\ OkWasRun

USE DEF NotLocked, JobStatus, Phase, Ticket

\* The initial states are typed.
LEMMA InitType == Init => TypeOK
  BY JobsAssumption, TimesAssumption DEF Init, TypeOK

\* A batch is made of the rows it was chosen from.
LEMMA BatchSubset ==
    ASSUME NEW S, NEW key, NEW B \in Batches(S, key)
    PROVE  B \subseteq S
  BY DEF Batches

\* Every operation keeps the variables well-typed.
LEMMA StepType == ASSUME TypeOK, [Next]_vars PROVE TypeOK'
<1> USE JobsAssumption, TimesAssumption DEF TypeOK
<1>1. CASE Tick
  BY <1>1 DEF Tick, rowVars, workerVars
<1>2. ASSUME NEW j \in Jobs, Insert(j) PROVE TypeOK'
  BY <1>2 DEF Insert, workerVars
<1>3. ASSUME NEW j \in Jobs, EnqueueAgain(j) PROVE TypeOK'
  <2>1. nextRunAt' \in [Jobs -> Nat]
    BY <1>3 DEF EnqueueAgain
  <2>2. status' \in [Jobs -> JobStatus] /\ attempts' \in [Jobs -> Nat]
        /\ ran' \in [Jobs -> BOOLEAN]
    <3>1. CASE j \in ResetJobs /\ status[j] = "SUCCEEDED"
      <4>1. /\ status' = [status EXCEPT ![j] = "PENDING"]
            /\ attempts' = [attempts EXCEPT ![j] = 0]
            /\ ran' = [ran EXCEPT ![j] = FALSE]
        BY <1>3, <3>1 DEF EnqueueAgain
      <4>2. status' \in [Jobs -> JobStatus]
        BY <4>1
      <4>3. attempts' \in [Jobs -> Nat]
        BY <4>1
      <4>4. ran' \in [Jobs -> BOOLEAN]
        BY <4>1
      <4> QED BY <4>2, <4>3, <4>4
    <3>2. CASE ~(j \in ResetJobs /\ status[j] = "SUCCEEDED")
      BY <1>3, <3>2 DEF EnqueueAgain
    <3> QED BY <3>1, <3>2
  <2> QED BY <1>3, <2>1, <2>2 DEF EnqueueAgain, workerVars
<1>4. ASSUME NEW j \in Jobs, RequeueDeadLetter(j) PROVE TypeOK'
  BY <1>4 DEF RequeueDeadLetter, workerVars
<1>5. ASSUME NEW w \in Workers, RecoverStaleRunningJobs(w) PROVE TypeOK'
  BY <1>5 DEF RecoverStaleRunningJobs
<1>6. ASSUME NEW w \in Workers, ClaimDueJobs(w) PROVE TypeOK'
  <2>1. PICK B \in Batches(Due, nextRunAt) : ClaimDueJobs(w)!2!(B)
    BY <1>6 DEF ClaimDueJobs
  <2>2. B \subseteq Jobs
    BY BatchSubset DEF Due
  <2>3. {[job |-> j, lockedAt |-> now] : j \in B} \in SUBSET Ticket
    BY <2>2
  <2> QED BY <1>6, <2>1, <2>2, <2>3 DEF ClaimDueJobs
<1>7. ASSUME NEW w \in Workers, NEW ok \in BOOLEAN, HandleJob(w, ok) PROVE TypeOK'
  BY <1>7 DEF HandleJob, rowVars
<1>8. ASSUME NEW w \in Workers, Complete(w) PROVE TypeOK'
  BY <1>8 DEF Complete
<1>9. ASSUME NEW w \in Workers, CompleteThrows(w) PROVE TypeOK'
  BY <1>9 DEF CompleteThrows, rowVars
<1>10. ASSUME NEW w \in Workers, Fail(w) PROVE TypeOK'
  BY <1>10 DEF Fail, StatusAfterFailure
<1>11. ASSUME NEW w \in Workers, BatchDone(w) \/ BatchLost(w) PROVE TypeOK'
  BY <1>11 DEF BatchDone, BatchLost, rowVars
<1>12. CASE UNCHANGED vars
  BY <1>12 DEF vars, rowVars, workerVars
<1> QED
  BY <1>1, <1>2, <1>3, <1>4, <1>5, <1>6, <1>7, <1>8, <1>9, <1>10, <1>11, <1>12
  DEF Next, JobStep, WorkerStep

\* Every reachable state is well-typed.
THEOREM TypeCorrect == Spec => []TypeOK
  BY InitType, StepType, PTL DEF Spec

-----------------------------------------------------------------------------
(* The invariant.                                                          *)

\* The initial states satisfy it.
LEMMA InitInv == Init => IInv
  BY InitType DEF Init, IInv, SingleLease, LostOnlyIfStale, SucceededWasHandled,
     IdleHoldsNothing, HandledLeftBatch, OkWasRun, Held

\* A step that changes neither the rows' leases nor what the workers hold keeps
\* the invariant, if it resets ran only on rows that are not closed after it.
LEMMA LeasesKept ==
    ASSUME IInv, TypeOK', UNCHANGED <<lockedAt, batch, doing, phase>>,
           now <= now',
           \A j \in Jobs : /\ status[j] = "RUNNING" <=> status'[j] = "RUNNING"
                           /\ status[j] = "RUNNING" => ran'[j] = ran[j]
                           /\ status'[j] = "SUCCEEDED" => ran'[j]
    PROVE  IInv'
<1> USE TimesAssumption DEF IInv, TypeOK, Held, Current
<1>1. \A w \in Workers : Held(w)' = Held(w) /\ Held(w) \subseteq Ticket
  OBVIOUS
<1>2. \A t \in Ticket : Current(t)' <=> Current(t)
  OBVIOUS
<1>3. SingleLease'
  BY <1>1, <1>2 DEF SingleLease
<1>4. LostOnlyIfStale'
  BY <1>1, <1>2 DEF LostOnlyIfStale
<1>5. SucceededWasHandled' /\ IdleHoldsNothing' /\ HandledLeftBatch'
  BY DEF SucceededWasHandled, IdleHoldsNothing, HandledLeftBatch
<1>6. OkWasRun'
  BY <1>2 DEF OkWasRun
<1> QED BY <1>3, <1>4, <1>5, <1>6

\* The recovery takes leases of stale rows only.
LEMMA RecoverInv ==
    ASSUME IInv, TypeOK', NEW w \in Workers, RecoverStaleRunningJobs(w)
    PROVE  IInv'
<1> USE TimesAssumption DEF IInv, TypeOK, Held
<1>1. PICK B \in Batches(Stale, lockedAt) :
          /\ status' = [j \in Jobs |-> IF j \in B THEN "PENDING" ELSE status[j]]
          /\ lockedAt' = [j \in Jobs |-> IF j \in B THEN NotLocked ELSE lockedAt[j]]
  BY DEF RecoverStaleRunningJobs
<1>2. B \subseteq Stale
  BY BatchSubset
<1>3. UNCHANGED <<batch, doing, now, ran>>
  BY DEF RecoverStaleRunningJobs
<1>4. \A v \in Workers : Held(v)' = Held(v) /\ Held(v) \subseteq Ticket
  BY <1>3
<1>5. \A t \in Ticket : Current(t)' => Current(t)
  BY <1>1 DEF Current
<1>6. \A t \in Ticket : Current(t) /\ ~Current(t)' => t.lockedAt + StaleAfter <= now
  BY <1>1, <1>2 DEF Current, Stale
<1>7. SingleLease'
  BY <1>4, <1>5 DEF SingleLease
<1>8. LostOnlyIfStale'
  BY <1>3, <1>4, <1>6 DEF LostOnlyIfStale
<1>9. SucceededWasHandled'
  BY <1>1, <1>3 DEF SucceededWasHandled
<1>10. IdleHoldsNothing' /\ HandledLeftBatch'
  BY <1>3 DEF RecoverStaleRunningJobs, IdleHoldsNothing, HandledLeftBatch
<1>11. OkWasRun'
  BY <1>3, <1>5 DEF OkWasRun
<1> QED BY <1>7, <1>8, <1>9, <1>10, <1>11

\* A claim at now makes no older ticket current: the row was PENDING, so older
\* tickets of it are stale and bear an earlier time.
LEMMA ClaimInv ==
    ASSUME IInv, TypeOK', NEW w \in Workers, ClaimDueJobs(w)
    PROVE  IInv'
<1> USE TimesAssumption DEF IInv, TypeOK, Held
<1>1. PICK B \in Batches(Due, nextRunAt) :
          /\ status' = [j \in Jobs |-> IF j \in B THEN "RUNNING" ELSE status[j]]
          /\ lockedAt' = [j \in Jobs |-> IF j \in B THEN now ELSE lockedAt[j]]
          /\ batch' = [batch EXCEPT ![w] = {[job |-> j, lockedAt |-> now] : j \in B}]
  BY DEF ClaimDueJobs
<1>2. B \subseteq Due
  BY BatchSubset
<1>3. UNCHANGED <<doing, now, ran>> /\ phase' = [phase EXCEPT ![w] = "working"]
  BY DEF ClaimDueJobs
<1>4. batch[w] = {} /\ doing[w] = {}
  BY DEF ClaimDueJobs, IdleHoldsNothing
<1> DEFINE New == {[job |-> j, lockedAt |-> now] : j \in B}
<1>5. Held(w)' = New /\ \A v \in Workers \ {w} : Held(v)' = Held(v)
  BY <1>1, <1>3, <1>4
<1>6. \A v \in Workers : Held(v) \subseteq Ticket
  OBVIOUS
<1>7. \A v \in Workers : \A t \in Held(v) : t.job \in B => ~Current(t) /\ t.lockedAt < now
  <2>1. SUFFICES ASSUME NEW v \in Workers, NEW t \in Held(v), t.job \in B
        PROVE  ~Current(t) /\ t.lockedAt < now
    OBVIOUS
  <2>2. status[t.job] = "PENDING"
    BY <1>2, <2>1 DEF Due
  <2>3. ~Current(t)
    BY <2>2 DEF Current
  <2>4. t.lockedAt + StaleAfter <= now
    BY <2>3 DEF LostOnlyIfStale
  <2> QED BY <1>6, <2>3, <2>4
<1>8. \A v \in Workers : \A t \in Held(v) : Current(t)' <=> Current(t)
  BY <1>1, <1>6, <1>7 DEF Current
<1>9. \A t \in New : Current(t)'
  BY <1>1, <1>2 DEF Current, Due
<1>10. \A v \in Workers : \A s \in Held(v), t \in New : Current(s)' => s.job # t.job
  BY <1>1, <1>7, <1>8
<1>11. SingleLease'
  <2>1. SUFFICES ASSUME NEW u \in Workers, NEW v \in Workers,
                        NEW s \in Held(u)', NEW t \in Held(v)',
                        s.job = t.job, Current(s)', Current(t)'
                 PROVE  u = v /\ s = t
    BY DEF SingleLease
  <2>2. CASE u = w /\ v = w
    BY <1>5, <2>1, <2>2
  <2>3. CASE u = w /\ v # w
    BY <1>5, <1>10, <2>1, <2>3
  <2>4. CASE u # w /\ v = w
    BY <1>5, <1>10, <2>1, <2>4
  <2>5. CASE u # w /\ v # w
    BY <1>5, <1>8, <2>1, <2>5 DEF SingleLease
  <2> QED BY <2>2, <2>3, <2>4, <2>5
<1>12. LostOnlyIfStale'
  BY <1>3, <1>5, <1>8, <1>9 DEF LostOnlyIfStale
<1>13. SucceededWasHandled'
  BY <1>1, <1>3 DEF SucceededWasHandled
<1>14. IdleHoldsNothing'
  BY <1>1, <1>3, <1>4 DEF IdleHoldsNothing
<1>15. HandledLeftBatch'
  BY <1>1, <1>3, <1>4 DEF HandledLeftBatch
<1>16. OkWasRun'
  BY <1>3, <1>8 DEF OkWasRun
<1> QED BY <1>11, <1>12, <1>13, <1>14, <1>15, <1>16

\* A step that leaves the rows' leases alone and lets no worker hold more keeps
\* the leases: handlers that end, and batches that are lost.
LEMMA HandleInv ==
    ASSUME IInv, TypeOK', NEW w \in Workers, NEW ok \in BOOLEAN, HandleJob(w, ok)
    PROVE  IInv'
<1> USE TimesAssumption DEF IInv, TypeOK, Held
<1>1. PICK t \in batch[w] :
          /\ batch' = [batch EXCEPT ![w] = @ \ {t}]
          /\ doing' = [doing EXCEPT ![w] = {[ticket |-> t, ok |-> ok]}]
          /\ ran' = [ran EXCEPT ![t.job] = @ \/ ok]
  BY DEF HandleJob
<1>2. UNCHANGED <<status, lockedAt, now, phase>> /\ doing[w] = {} /\ phase[w] = "working"
  BY DEF HandleJob, rowVars
<1>3. \A v \in Workers : Held(v)' = Held(v)
  <2>1. batch'[w] = batch[w] \ {t} /\ doing'[w] = {[ticket |-> t, ok |-> ok]}
    BY <1>1
  <2>2. {e.ticket : e \in doing'[w]} = {t}
    BY <2>1
  <2>3. Held(w)' = Held(w)
    BY <1>1, <1>2, <2>1, <2>2
  <2>4. \A v \in Workers \ {w} : batch'[v] = batch[v] /\ doing'[v] = doing[v]
    BY <1>1
  <2> QED BY <2>3, <2>4
<1>4. \A s : Current(s)' <=> Current(s)
  BY <1>2 DEF Current
<1>5. SingleLease' /\ LostOnlyIfStale'
  BY <1>2, <1>3, <1>4 DEF SingleLease, LostOnlyIfStale
<1>6. \A j \in Jobs : ran[j] => ran'[j]
  BY <1>1
<1>7. SucceededWasHandled'
  BY <1>2, <1>6 DEF SucceededWasHandled
<1>8. IdleHoldsNothing' /\ HandledLeftBatch'
  BY <1>1, <1>2 DEF IdleHoldsNothing, HandledLeftBatch
<1>9. OkWasRun'
  <2>1. ASSUME NEW v \in Workers, NEW e \in doing'[v], e.ok, Current(e.ticket)'
        PROVE  ran'[e.ticket.job]
    <3>1. CASE v = w
      <4>1. e = [ticket |-> t, ok |-> ok] /\ t.job \in Jobs
        BY <1>1, <3>1
      <4> QED BY <1>1, <2>1, <4>1
    <3>2. CASE v # w
      <4>1. e \in doing[v] /\ e.ticket.job \in Jobs
        BY <1>1, <3>2
      <4> QED BY <1>4, <1>6, <2>1, <4>1 DEF OkWasRun
    <3> QED BY <3>1, <3>2
  <2> QED BY <2>1 DEF OkWasRun
<1> QED BY <1>5, <1>7, <1>8, <1>9

\* A step that frees at most the row of the one ticket a worker has just handled,
\* and drops that ticket, keeps the invariant.
LEMMA EndInv ==
    ASSUME IInv, TypeOK', NEW w \in Workers, NEW e \in doing[w],
           doing' = [doing EXCEPT ![w] = {}],
           UNCHANGED <<batch, phase, ran, now>>,
           \/ UNCHANGED <<status, lockedAt>>
           \/ /\ Current(e.ticket)
              /\ \A j \in Jobs \ {e.ticket.job} :
                     status'[j] = status[j] /\ lockedAt'[j] = lockedAt[j]
              /\ status'[e.ticket.job] # "RUNNING"
              /\ status'[e.ticket.job] = "SUCCEEDED" => e.ok
    PROVE  IInv'
<1> USE TimesAssumption DEF IInv, TypeOK, Held
<1>1. \A v \in Workers : Held(v)' \subseteq Held(v) /\ Held(v) \subseteq Ticket
  OBVIOUS
<1>2. \A t \in Ticket : Current(t)' => Current(t)
  BY DEF Current
<1>3. \A t \in Ticket : Current(t) /\ ~Current(t)' => t = e.ticket
  BY DEF Current, Ticket
<1>4. \A v \in Workers : e.ticket \in Held(v)' /\ ~Current(e.ticket)' /\ Current(e.ticket) => FALSE
  <2>1. SUFFICES ASSUME NEW v \in Workers, e.ticket \in Held(v)', Current(e.ticket)
        PROVE  FALSE
    OBVIOUS
  <2>2. v = w
    BY <1>1, <2>1 DEF SingleLease
  <2>3. e.ticket \in batch[w]
    BY <2>1, <2>2
  <2> QED BY <2>3 DEF HandledLeftBatch
<1>5. SingleLease'
  BY <1>1, <1>2 DEF SingleLease
<1>6. LostOnlyIfStale'
  BY <1>1, <1>3, <1>4 DEF LostOnlyIfStale
<1>7. SucceededWasHandled'
  BY DEF SucceededWasHandled, OkWasRun
<1>8. IdleHoldsNothing' /\ HandledLeftBatch'
  BY DEF IdleHoldsNothing, HandledLeftBatch
<1>9. OkWasRun'
  BY <1>2 DEF OkWasRun
<1> QED BY <1>5, <1>6, <1>7, <1>8, <1>9

\* Losing a batch, or finding it done, only drops tickets.
LEMMA DropInv ==
    ASSUME IInv, TypeOK', NEW w \in Workers, BatchDone(w) \/ BatchLost(w)
    PROVE  IInv'
<1> USE TimesAssumption DEF IInv, TypeOK, Held
<1>1. UNCHANGED <<status, lockedAt, ran, now>>
  BY DEF BatchDone, BatchLost, rowVars
<1>2. /\ batch' = [batch EXCEPT ![w] = {}] /\ doing' = [doing EXCEPT ![w] = {}]
      /\ phase' = [phase EXCEPT ![w] = "idle"]
  BY DEF BatchDone, BatchLost
<1>3. \A v \in Workers : Held(v)' \subseteq Held(v)
  BY <1>2
<1>4. \A t : Current(t)' <=> Current(t)
  BY <1>1 DEF Current
<1>5. SingleLease' /\ LostOnlyIfStale'
  BY <1>1, <1>3, <1>4 DEF SingleLease, LostOnlyIfStale
<1>6. SucceededWasHandled' /\ IdleHoldsNothing' /\ HandledLeftBatch'
  BY <1>1, <1>2 DEF SucceededWasHandled, IdleHoldsNothing, HandledLeftBatch
<1>7. OkWasRun'
  BY <1>1, <1>2, <1>4 DEF OkWasRun
<1> QED BY <1>5, <1>6, <1>7

\* complete threw: the outcome of the ticket becomes a failure.
LEMMA ThrowInv ==
    ASSUME IInv, TypeOK', NEW w \in Workers, CompleteThrows(w)
    PROVE  IInv'
<1> USE TimesAssumption DEF IInv, TypeOK, Held
<1>1. PICK e \in doing[w] :
          e.ok /\ doing' = [doing EXCEPT ![w] = {[ticket |-> e.ticket, ok |-> FALSE]}]
  BY DEF CompleteThrows
<1>2. UNCHANGED <<status, lockedAt, ran, now, batch, phase>>
  BY DEF CompleteThrows, rowVars
<1>3. \A v \in Workers : Held(v)' \subseteq Held(v)
  <2>0. doing'[w] = {[ticket |-> e.ticket, ok |-> FALSE]}
    BY <1>1
  <2>1. {d.ticket : d \in doing'[w]} = {e.ticket}
    BY <2>0
  <2>2. Held(w)' \subseteq Held(w)
    BY <1>2, <2>1
  <2>3. \A v \in Workers \ {w} : doing'[v] = doing[v]
    BY <1>1
  <2> QED BY <1>2, <2>2, <2>3
<1>4. \A t : Current(t)' <=> Current(t)
  BY <1>2 DEF Current
<1> HIDE DEF Held
<1>5. SingleLease' /\ LostOnlyIfStale'
  BY <1>2, <1>3, <1>4 DEF SingleLease, LostOnlyIfStale
<1>6. SucceededWasHandled'
  BY <1>2 DEF SucceededWasHandled
<1>7. IdleHoldsNothing'
  BY <1>1, <1>2 DEF IdleHoldsNothing
<1>8. HandledLeftBatch'
  BY <1>1, <1>2 DEF HandledLeftBatch
<1>9. OkWasRun'
  BY <1>1, <1>2, <1>4 DEF OkWasRun
<1> QED BY <1>5, <1>6, <1>7, <1>8, <1>9

\* An operator's requeue touches no running row.
LEMMA RequeueInv ==
    ASSUME IInv, TypeOK', NEW j \in Jobs, RequeueDeadLetter(j)
    PROVE  IInv'
<1> USE TimesAssumption DEF IInv, TypeOK, Held
<1>1. UNCHANGED <<batch, doing, phase, now, ran>>
  BY DEF RequeueDeadLetter, workerVars
<1>2. \A t \in Ticket : Current(t)' <=> Current(t)
  BY DEF RequeueDeadLetter, Current
<1>3. \A v \in Workers : Held(v)' = Held(v) /\ Held(v) \subseteq Ticket
  BY <1>1
<1>4. SingleLease' /\ LostOnlyIfStale'
  BY <1>1, <1>2, <1>3 DEF SingleLease, LostOnlyIfStale
<1>5. SucceededWasHandled'
  BY <1>1 DEF RequeueDeadLetter, SucceededWasHandled
<1>6. IdleHoldsNothing' /\ HandledLeftBatch'
  BY <1>1 DEF IdleHoldsNothing, HandledLeftBatch
<1>7. OkWasRun'
  BY <1>1, <1>2 DEF OkWasRun
<1> QED BY <1>4, <1>5, <1>6, <1>7

\* Every step keeps the invariant.
LEMMA StepInv == ASSUME IInv, [Next]_vars PROVE IInv'
<1>0. TypeOK'
  BY StepType DEF IInv
<1> USE <1>0
<1>1. CASE Tick
  BY <1>1, LeasesKept DEF Tick, rowVars, workerVars, IInv, TypeOK, SucceededWasHandled
<1>2. ASSUME NEW j \in Jobs, Insert(j) PROVE IInv'
  <2>1. \A k \in Jobs : /\ status[k] = "RUNNING" <=> status'[k] = "RUNNING"
                        /\ status'[k] = "SUCCEEDED" => status[k] = "SUCCEEDED"
    BY <1>2 DEF Insert, IInv, TypeOK
  <2> QED BY <1>2, <2>1, LeasesKept DEF Insert, workerVars, IInv, TypeOK, SucceededWasHandled
<1>3. ASSUME NEW j \in Jobs, EnqueueAgain(j) PROVE IInv'
  <2>1. CASE j \in ResetJobs /\ status[j] = "SUCCEEDED"
    <3>1. status' = [status EXCEPT ![j] = "PENDING"] /\ ran' = [ran EXCEPT ![j] = FALSE]
      BY <1>3, <2>1 DEF EnqueueAgain
    <3>2. \A k \in Jobs : /\ status[k] = "RUNNING" <=> status'[k] = "RUNNING"
                          /\ status[k] = "RUNNING" => ran'[k] = ran[k]
                          /\ status'[k] = "SUCCEEDED" => ran'[k]
      BY <2>1, <3>1 DEF IInv, TypeOK, SucceededWasHandled
    <3> QED BY <1>3, <3>2, LeasesKept DEF EnqueueAgain, workerVars, IInv, TypeOK
  <2>2. CASE ~(j \in ResetJobs /\ status[j] = "SUCCEEDED")
    <3>1. UNCHANGED <<status, ran>>
      BY <1>3, <2>2 DEF EnqueueAgain
    <3> QED BY <1>3, <3>1, LeasesKept
            DEF EnqueueAgain, workerVars, IInv, TypeOK, SucceededWasHandled
  <2> QED BY <2>1, <2>2
<1>4. ASSUME NEW j \in Jobs, RequeueDeadLetter(j) PROVE IInv'
  BY <1>4, RequeueInv
<1>5. ASSUME NEW w \in Workers, RecoverStaleRunningJobs(w) PROVE IInv'
  BY <1>5, RecoverInv
<1>6. ASSUME NEW w \in Workers, ClaimDueJobs(w) PROVE IInv'
  BY <1>6, ClaimInv
<1>7. ASSUME NEW w \in Workers, NEW ok \in BOOLEAN, HandleJob(w, ok) PROVE IInv'
  BY <1>7, HandleInv
<1>8. ASSUME NEW w \in Workers, Complete(w) PROVE IInv'
  <2>1. PICK e \in doing[w] :
            /\ e.ok
            /\ IF Current(e.ticket)
               THEN /\ status' = [status EXCEPT ![e.ticket.job] = "SUCCEEDED"]
                    /\ lockedAt' = [lockedAt EXCEPT ![e.ticket.job] = NotLocked]
               ELSE UNCHANGED <<status, lockedAt>>
    BY <1>8 DEF Complete
  <2>2. e.ticket.job \in Jobs
    BY DEF IInv, TypeOK
  <2>3. \/ UNCHANGED <<status, lockedAt>>
        \/ /\ Current(e.ticket)
           /\ \A j \in Jobs \ {e.ticket.job} :
                  status'[j] = status[j] /\ lockedAt'[j] = lockedAt[j]
           /\ status'[e.ticket.job] = "SUCCEEDED"
    BY <2>1, <2>2 DEF IInv, TypeOK
  <2> QED BY <1>8, <2>1, <2>3, EndInv DEF Complete
<1>9. ASSUME NEW w \in Workers, CompleteThrows(w) PROVE IInv'
  BY <1>9, ThrowInv
<1>10. ASSUME NEW w \in Workers, Fail(w) PROVE IInv'
  <2>1. PICK e \in doing[w] :
            IF Current(e.ticket)
            THEN /\ status' = [status EXCEPT ![e.ticket.job] = StatusAfterFailure(e.ticket.job)]
                 /\ lockedAt' = [lockedAt EXCEPT ![e.ticket.job] = NotLocked]
            ELSE UNCHANGED <<status, lockedAt>>
    BY <1>10 DEF Fail
  <2>2. e.ticket.job \in Jobs
    BY DEF IInv, TypeOK
  <2>3. \/ UNCHANGED <<status, lockedAt>>
        \/ /\ Current(e.ticket)
           /\ \A j \in Jobs \ {e.ticket.job} :
                  status'[j] = status[j] /\ lockedAt'[j] = lockedAt[j]
           /\ status'[e.ticket.job] \notin {"RUNNING", "SUCCEEDED"}
    BY <2>1, <2>2 DEF IInv, TypeOK, StatusAfterFailure
  <2> QED BY <1>10, <2>3, EndInv DEF Fail
<1>11. ASSUME NEW w \in Workers, BatchDone(w) \/ BatchLost(w) PROVE IInv'
  BY <1>11, DropInv
<1>12. CASE UNCHANGED vars
  BY <1>12, LeasesKept DEF vars, rowVars, workerVars, IInv, TypeOK, SucceededWasHandled
<1> QED
  BY <1>1, <1>2, <1>3, <1>4, <1>5, <1>6, <1>7, <1>8, <1>9, <1>10, <1>11, <1>12
  DEF Next, JobStep, WorkerStep

\* The inductive invariant holds in every reachable state.
THEOREM Invariance == Spec => []IInv
  BY InitInv, StepInv, PTL DEF Spec

\* Two workers never both hold a ticket that complete or fail would honour.
THEOREM SingleLeaseAlways == Spec => []SingleLease
<1>1. IInv => SingleLease
  BY DEF IInv
<1> QED BY <1>1, Invariance, PTL

\* A ticket that is no longer honoured is older than the stale threshold.
THEOREM LostOnlyIfStaleAlways == Spec => []LostOnlyIfStale
<1>1. IInv => LostOnlyIfStale
  BY DEF IInv
<1> QED BY <1>1, Invariance, PTL

\* A job is SUCCEEDED only if a handler returned since it was last submitted.
THEOREM SucceededWasHandledAlways == Spec => []SucceededWasHandled
<1>1. IInv => SucceededWasHandled
  BY DEF IInv
<1> QED BY <1>1, Invariance, PTL

\* Only the holder of the lease ends a run, unless it is stale.
THEOREM OnlyHolderEndsAlways == Spec => OnlyHolderEnds
<1> DEFINE Ended(j) ==
        \/ j \in Stale
        \/ \E w \in Workers : \E e \in doing[w] :
              e.ticket = [job |-> j, lockedAt |-> lockedAt[j]] /\ doing'[w] = {}
<1>1. ASSUME IInv, [Next]_vars, NEW j \in Jobs, status[j] = "RUNNING", status'[j] # "RUNNING"
      PROVE  Ended(j)
  <2> USE <1>1 DEF IInv, TypeOK
  <2>1. CASE Tick \/ UNCHANGED vars
    BY <2>1 DEF Tick, vars, rowVars
  <2>2. ASSUME NEW k \in Jobs, JobStep(k) PROVE FALSE
    BY <2>2 DEF JobStep, Insert, EnqueueAgain, RequeueDeadLetter
  <2>3. ASSUME NEW w \in Workers, RecoverStaleRunningJobs(w) PROVE Ended(j)
    BY <2>3, BatchSubset DEF RecoverStaleRunningJobs
  <2>4. ASSUME NEW w \in Workers, ClaimDueJobs(w) PROVE FALSE
    BY <2>4 DEF ClaimDueJobs
  <2>5. ASSUME NEW w \in Workers, Complete(w) \/ Fail(w) PROVE Ended(j)
    <3>1. PICK e \in doing[w] : Current(e.ticket) /\ e.ticket.job = j
      BY <2>5 DEF Complete, Fail
    <3>2. e.ticket = [job |-> j, lockedAt |-> lockedAt[j]]
      BY <3>1 DEF Current, Ticket
    <3>3. doing'[w] = {}
      BY <2>5 DEF Complete, Fail
    <3> QED BY <3>2, <3>3
  <2>6. ASSUME NEW w \in Workers,
               \/ \E ok \in BOOLEAN : HandleJob(w, ok)
               \/ CompleteThrows(w)
               \/ BatchDone(w)
               \/ BatchLost(w)
        PROVE  FALSE
    BY <2>6 DEF HandleJob, CompleteThrows, BatchDone, BatchLost, rowVars
  <2> QED BY <2>1, <2>2, <2>3, <2>4, <2>5, <2>6 DEF Next, WorkerStep
<1>2. IInv /\ [Next]_vars =>
          [\A j \in Jobs : status[j] = "RUNNING" /\ status'[j] # "RUNNING" => Ended(j)]_vars
  BY <1>1
<1> QED BY <1>2, Invariance, PTL DEF Spec, OnlyHolderEnds

\* A due job stays due until a worker claims it, gets a ticket that its row honours, and
\* counts an attempt: no enqueue, requeue, recovery or failure puts it off or drops it.
\* What remains for DueJobClaimed is that some worker comes to claim it.
DueUntilClaimed ==
    [][\A j \in Jobs : j \in Due /\ j \notin Due' =>
          /\ status'[j] = "RUNNING" /\ attempts'[j] = attempts[j] + 1
          /\ \E w \in Workers : [job |-> j, lockedAt |-> lockedAt'[j]] \in batch'[w]]_vars

THEOREM DueUntilClaimedAlways == Spec => DueUntilClaimed
<1> DEFINE Claimed(j) ==
        /\ status'[j] = "RUNNING" /\ attempts'[j] = attempts[j] + 1
        /\ \E w \in Workers : [job |-> j, lockedAt |-> lockedAt'[j]] \in batch'[w]
<1>1. ASSUME IInv, [Next]_vars, NEW j \in Jobs, j \in Due, j \notin Due' PROVE Claimed(j)
  <2> USE <1>1 DEF IInv, TypeOK, Due
  <2>1. CASE Tick \/ UNCHANGED vars
    BY <2>1 DEF Tick, vars, rowVars
  <2>2. ASSUME NEW k \in Jobs, JobStep(k) PROVE FALSE
    BY <2>2 DEF JobStep, Insert, EnqueueAgain, RequeueDeadLetter
  <2>3. ASSUME NEW w \in Workers, RecoverStaleRunningJobs(w) PROVE FALSE
    BY <2>3 DEF RecoverStaleRunningJobs
  <2>4. ASSUME NEW w \in Workers, ClaimDueJobs(w) PROVE Claimed(j)
    <3>1. PICK B \in Batches(Due, nextRunAt) :
             /\ status' = [k \in Jobs |-> IF k \in B THEN "RUNNING" ELSE status[k]]
             /\ attempts' = [k \in Jobs |-> IF k \in B THEN attempts[k] + 1 ELSE attempts[k]]
             /\ lockedAt' = [k \in Jobs |-> IF k \in B THEN now ELSE lockedAt[k]]
             /\ batch' = [batch EXCEPT ![w] = {[job |-> k, lockedAt |-> now] : k \in B}]
      BY <2>4 DEF ClaimDueJobs
    <3>2. j \in B
      BY <2>4, <3>1 DEF ClaimDueJobs
    <3>3. batch'[w] = {[job |-> k, lockedAt |-> now] : k \in B}
      BY <3>1
    <3>4. [job |-> j, lockedAt |-> lockedAt'[j]] \in batch'[w]
      BY <3>1, <3>2, <3>3
    <3> QED BY <3>1, <3>2, <3>4
  <2>5. ASSUME NEW w \in Workers, Complete(w) \/ Fail(w) PROVE FALSE
    BY <2>5 DEF Complete, Fail, Current
  <2>6. ASSUME NEW w \in Workers,
               \/ \E ok \in BOOLEAN : HandleJob(w, ok)
               \/ CompleteThrows(w)
               \/ BatchDone(w)
               \/ BatchLost(w)
        PROVE  FALSE
    BY <2>6 DEF HandleJob, CompleteThrows, BatchDone, BatchLost, rowVars
  <2> QED BY <2>1, <2>2, <2>3, <2>4, <2>5, <2>6 DEF Next, WorkerStep
<1>2. IInv /\ [Next]_vars => [\A j \in Jobs : j \in Due /\ j \notin Due' => Claimed(j)]_vars
  BY <1>1
<1> QED BY <1>2, Invariance, PTL DEF Spec, DueUntilClaimed
-----------------------------------------------------------------------------
(* The queue implements WorkQueue.                                         *)

\* A row has a lock time exactly while it runs, and never one to come: each
\* running row is stale in the end, whatever became of its worker.
LockedWhileRunning ==
    \A j \in Jobs : /\ lockedAt[j] # NotLocked <=> status[j] = "RUNNING"
                    /\ lockedAt[j] <= now

\* A worker ends one job at a time.
OneOutcome == \A w \in Workers : \A d, e \in doing[w] : d = e

QueueInv == IInv /\ LockedWhileRunning /\ OneOutcome

\* Every step keeps the three.
LEMMA QueueInvStep == ASSUME QueueInv, [Next]_vars PROVE QueueInv'
<1> USE TimesAssumption DEF QueueInv, IInv, TypeOK
<1>1. IInv'
  BY StepInv
<1>2. LockedWhileRunning'
  <2> USE DEF LockedWhileRunning
  <2>1. CASE Tick \/ UNCHANGED vars
    BY <2>1 DEF Tick, vars, rowVars
  <2>2. ASSUME NEW j \in Jobs, Insert(j) \/ RequeueDeadLetter(j) PROVE LockedWhileRunning'
    BY <2>2 DEF Insert, RequeueDeadLetter
  <2>3. ASSUME NEW j \in Jobs, EnqueueAgain(j) PROVE LockedWhileRunning'
    BY <2>3 DEF EnqueueAgain
  <2>4. ASSUME NEW w \in Workers, RecoverStaleRunningJobs(w) PROVE LockedWhileRunning'
    BY <2>4 DEF RecoverStaleRunningJobs
  <2>5. ASSUME NEW w \in Workers, ClaimDueJobs(w) PROVE LockedWhileRunning'
    BY <2>5 DEF ClaimDueJobs
  <2>6. ASSUME NEW w \in Workers, Complete(w) PROVE LockedWhileRunning'
    BY <2>6 DEF Complete, Current
  <2>7. ASSUME NEW w \in Workers, Fail(w) PROVE LockedWhileRunning'
    BY <2>7 DEF Fail, Current, StatusAfterFailure
  <2>8. ASSUME NEW w \in Workers,
               \/ \E ok \in BOOLEAN : HandleJob(w, ok)
               \/ CompleteThrows(w)
               \/ BatchDone(w)
               \/ BatchLost(w)
        PROVE  LockedWhileRunning'
    BY <2>8 DEF HandleJob, CompleteThrows, BatchDone, BatchLost, rowVars
  <2> QED BY <2>1, <2>2, <2>3, <2>4, <2>5, <2>6, <2>7, <2>8 DEF Next, JobStep, WorkerStep
<1>3. OneOutcome'
  <2> USE DEF OneOutcome
  <2>1. CASE UNCHANGED doing
    BY <2>1
  <2>2. ASSUME NEW w \in Workers, NEW ok \in BOOLEAN, HandleJob(w, ok) PROVE OneOutcome'
    BY <2>2 DEF HandleJob
  <2>3. ASSUME NEW w \in Workers, Complete(w) \/ CompleteThrows(w) \/ Fail(w) \/ BatchLost(w)
        PROVE  OneOutcome'
    <3>1. CASE CompleteThrows(w)
      <4>1. PICK f : doing' = [doing EXCEPT ![w] = {f}]
        BY <3>1 DEF CompleteThrows
      <4> QED BY <4>1
    <3>2. CASE Complete(w) \/ Fail(w) \/ BatchLost(w)
      <4>1. doing' = [doing EXCEPT ![w] = {}]
        BY <3>2 DEF Complete, Fail, BatchLost
      <4> QED BY <4>1
    <3> QED BY <2>3, <3>1, <3>2
  <2>4. ASSUME NEW w \in Workers,
               RecoverStaleRunningJobs(w) \/ ClaimDueJobs(w) \/ BatchDone(w)
        PROVE  OneOutcome'
    BY <2>1, <2>4 DEF RecoverStaleRunningJobs, ClaimDueJobs, BatchDone
  <2>5. ASSUME NEW j \in Jobs, JobStep(j) PROVE OneOutcome'
    BY <2>1, <2>5 DEF JobStep, Insert, EnqueueAgain, RequeueDeadLetter, workerVars
  <2>6. CASE Tick \/ UNCHANGED vars
    BY <2>1, <2>6 DEF Tick, vars, workerVars
  <2> QED BY <2>2, <2>3, <2>4, <2>5, <2>6 DEF Next, WorkerStep
<1> QED BY <1>1, <1>2, <1>3

\* The two parts hold in every reachable state.
THEOREM LockedWhileRunningAlways == Spec => [](LockedWhileRunning /\ OneOutcome)
<1>1. Init => QueueInv
  BY InitInv DEF Init, QueueInv, LockedWhileRunning, OneOutcome
<1>2. QueueInv => LockedWhileRunning /\ OneOutcome
  BY DEF QueueInv
<1> QED BY <1>1, <1>2, QueueInvStep, PTL DEF Spec

\* A job that does not run has no holder and no outcome.
LEMMA NotRunning ==
    ASSUME NEW j \in Jobs, status[j] # "RUNNING"
    PROVE  Holder[j] = {} /\ RunOutcome[j] = {}
  BY DEF Holder, RunOutcome

\* A ticket that its row honours makes its worker the only holder.
LEMMA HolderIs ==
    ASSUME IInv, NEW w \in Workers, NEW t \in Held(w), Current(t)
    PROVE  t.job \in Jobs /\ CurrentTicket(t.job) = t /\ Holder[t.job] = {w}
<1> USE DEF IInv, TypeOK
<1>1. t \in Ticket
  BY DEF Held
<1>2. t.job \in Jobs /\ CurrentTicket(t.job) = t /\ status[t.job] = "RUNNING"
  BY <1>1 DEF Current, CurrentTicket
<1>3. \A v \in Workers : t \in Held(v) <=> v = w
  BY DEF SingleLease
<1> QED BY <1>2, <1>3 DEF Holder

\* What the holder's run of a job has come to.
LEMMA OutcomeIs ==
    ASSUME QueueInv, NEW w \in Workers, NEW e \in doing[w], Current(e.ticket)
    PROVE  RunOutcome[e.ticket.job] = {IF e.ok THEN "returned" ELSE "threw"}
<1> USE DEF QueueInv, IInv, TypeOK
<1> DEFINE j == e.ticket.job
<1>1. e.ticket \in Held(w)
  BY DEF Held
<1>2. j \in Jobs /\ CurrentTicket(j) = e.ticket
  BY <1>1, HolderIs
<1>3. e = [ticket |-> e.ticket, ok |-> e.ok] /\ e.ok \in BOOLEAN
  OBVIOUS
<1>4. \A v \in Workers, b \in BOOLEAN : [ticket |-> e.ticket, ok |-> b] \in doing[v]
                                        <=> v = w /\ b = e.ok
  <2>1. SUFFICES ASSUME NEW v \in Workers, NEW b \in BOOLEAN,
                        [ticket |-> e.ticket, ok |-> b] \in doing[v]
                 PROVE  v = w /\ b = e.ok
    BY <1>3
  <2>2. [ticket |-> e.ticket, ok |-> b].ticket = e.ticket
    OBVIOUS
  <2>3. e.ticket \in Held(v)
    BY <2>1, <2>2 DEF Held
  <2>4. v = w
    BY <1>1, <2>3 DEF SingleLease
  <2>5. [ticket |-> e.ticket, ok |-> b] = e
    BY <2>1, <2>4 DEF OneOutcome
  <2> QED BY <2>4, <2>5
<1>5. status[j] = "RUNNING"
  BY DEF Current
<1>6. \A o \in {"returned", "threw"} :
          o \in RunOutcome[j] <=> ((o = "returned") <=> e.ok)
  BY <1>2, <1>3, <1>4, <1>5 DEF RunOutcome
<1>7. RunOutcome[j] \subseteq {"returned", "threw"}
  BY <1>2 DEF RunOutcome
<1> QED BY <1>3, <1>6, <1>7

\* Neither changes for a job whose row's lock and whose current ticket stay as they are.
LEMMA ViewKept ==
    ASSUME NEW j \in Jobs,
           status'[j] = "RUNNING" <=> status[j] = "RUNNING",
           status[j] = "RUNNING" =>
               /\ lockedAt'[j] = lockedAt[j]
               /\ \A v \in Workers : CurrentTicket(j) \in Held(v)' <=> CurrentTicket(j) \in Held(v)
               /\ \A v \in Workers, ok \in BOOLEAN :
                      [ticket |-> CurrentTicket(j), ok |-> ok] \in doing'[v]
                      <=> [ticket |-> CurrentTicket(j), ok |-> ok] \in doing[v]
    PROVE  Holder'[j] = Holder[j] /\ RunOutcome'[j] = RunOutcome[j]
<1>1. CASE status[j] # "RUNNING"
  BY <1>1 DEF Holder, RunOutcome
<1>2. CASE status[j] = "RUNNING"
  <2>1. CurrentTicket(j)' = CurrentTicket(j)
    BY <1>2 DEF CurrentTicket
  <2>2. Holder'[j] = Holder[j]
    BY <1>2, <2>1 DEF Holder
  <2>3. \A o \in {"returned", "threw"} : (o = "returned") \in BOOLEAN
    OBVIOUS
  <2>4. RunOutcome'[j] = RunOutcome[j]
    BY <1>2, <2>1, <2>3 DEF RunOutcome
  <2> QED BY <2>2, <2>4
<1> QED BY <1>1, <1>2

\* Steps that leave the locks and the current tickets alone.
LEMMA QueueStutter ==
    ASSUME UNCHANGED <<status, lockedAt, now>>,
           \A j \in Jobs : Holder'[j] = Holder[j] /\ RunOutcome'[j] = RunOutcome[j]
    PROVE  UNCHANGED Queue!queueVars
<1>1. Holder' = Holder /\ RunOutcome' = RunOutcome
  BY DEF Holder, RunOutcome
<1> QED BY <1>1 DEF Queue!queueVars

\* A submission changes only the status of a job that is not in the queue.
LEMMA SubmitStep ==
    ASSUME QueueInv, NEW j \in Jobs, status[j] \in {"NONE", "SUCCEEDED", "DEAD_LETTER"},
           status' = [status EXCEPT ![j] = "PENDING"],
           \/ UNCHANGED lockedAt
           \/ lockedAt' = [lockedAt EXCEPT ![j] = NotLocked],
           UNCHANGED <<workerVars, now>>
    PROVE  Queue!Submit(j)
<1> USE DEF QueueInv, IInv, TypeOK, workerVars
<1>1. UNCHANGED lockedAt
  <2>1. lockedAt[j] = NotLocked
    BY DEF LockedWhileRunning
  <2> QED BY <2>1
<1>2. \A k \in Jobs : status'[k] = "RUNNING" <=> status[k] = "RUNNING"
  OBVIOUS
<1>3. \A v \in Workers : Held(v)' = Held(v)
  BY DEF Held
<1>4. \A k \in Jobs : Holder'[k] = Holder[k] /\ RunOutcome'[k] = RunOutcome[k]
  BY <1>1, <1>2, <1>3, ViewKept
<1>5. Holder' = Holder /\ RunOutcome' = RunOutcome
  BY <1>4 DEF Holder, RunOutcome
<1> QED BY <1>1, <1>5 DEF Queue!Submit

\* enqueue and requeueDeadLetter submit the job or change nothing of it.
LEMMA JobStepRefines ==
    ASSUME QueueInv, NEW j \in Jobs, JobStep(j)
    PROVE  [Queue!QueueNext]_(Queue!queueVars)
<1> USE DEF QueueInv, IInv, TypeOK
<1>1. CASE \/ Insert(j) \/ RequeueDeadLetter(j)
           \/ EnqueueAgain(j) /\ j \in ResetJobs /\ status[j] = "SUCCEEDED"
  <2>1. Queue!Submit(j)
    BY <1>1, SubmitStep DEF Insert, EnqueueAgain, RequeueDeadLetter
  <2> QED BY <2>1 DEF Queue!QueueNext
<1>2. CASE EnqueueAgain(j) /\ ~(j \in ResetJobs /\ status[j] = "SUCCEEDED")
  <2>1. UNCHANGED <<status, lockedAt, batch, doing, now>>
    BY <1>2 DEF EnqueueAgain, workerVars
  <2>2. UNCHANGED Queue!queueVars
    BY <2>1 DEF Queue!queueVars, Holder, RunOutcome, Held, CurrentTicket
  <2> QED BY <2>2
<1> QED BY <1>1, <1>2 DEF JobStep

\* The recovery reclaims leases that are StaleAfter old.
LEMMA RecoverRefines ==
    ASSUME QueueInv, NEW w \in Workers, RecoverStaleRunningJobs(w)
    PROVE  \E B \in SUBSET Jobs : Queue!Reclaim(B)
<1> USE TimesAssumption DEF QueueInv, IInv, TypeOK
<1>1. PICK B \in Batches(Stale, lockedAt) :
          /\ status' = [j \in Jobs |-> IF j \in B THEN "PENDING" ELSE status[j]]
          /\ lockedAt' = [j \in Jobs |-> IF j \in B THEN NotLocked ELSE lockedAt[j]]
  BY DEF RecoverStaleRunningJobs
<1>2. B \subseteq Stale
  BY BatchSubset
<1>3. UNCHANGED <<batch, doing, now>>
  BY DEF RecoverStaleRunningJobs
<1>4. \A v \in Workers : Held(v)' = Held(v)
  BY <1>3 DEF Held
<1>5. \A j \in Jobs \ B : Holder'[j] = Holder[j] /\ RunOutcome'[j] = RunOutcome[j]
  <2>1. SUFFICES ASSUME NEW j \in Jobs \ B
                 PROVE  Holder'[j] = Holder[j] /\ RunOutcome'[j] = RunOutcome[j]
    OBVIOUS
  <2>2. status'[j] = status[j] /\ lockedAt'[j] = lockedAt[j]
    BY <1>1
  <2> QED BY <1>3, <1>4, <2>2, ViewKept
<1>6. \A j \in B : Holder'[j] = {} /\ RunOutcome'[j] = {}
  BY <1>1, <1>2 DEF Stale, Holder, RunOutcome
<1>7. Holder' = [j \in Jobs |-> IF j \in B THEN {} ELSE Holder[j]]
  BY <1>5, <1>6 DEF Holder
<1>8. RunOutcome' = [j \in Jobs |-> IF j \in B THEN {} ELSE RunOutcome[j]]
  BY <1>5, <1>6 DEF RunOutcome
<1>9. \A j \in B : j \in Jobs /\ status[j] = "RUNNING" /\ lockedAt[j] + StaleAfter <= now
  BY <1>2 DEF Stale
<1>10. Queue!Reclaim(B)
  BY <1>1, <1>3, <1>7, <1>8, <1>9 DEF Queue!Reclaim
<1> QED BY <1>9, <1>10

\* A claim leases PENDING jobs: no worker holds an older ticket that looks like it.
LEMMA ClaimRefines ==
    ASSUME QueueInv, NEW w \in Workers, ClaimDueJobs(w)
    PROVE  \E B \in SUBSET Jobs : Queue!Lease(w, B)
<1> USE TimesAssumption DEF QueueInv, IInv, TypeOK
<1>1. PICK B \in Batches(Due, nextRunAt) :
          /\ status' = [j \in Jobs |-> IF j \in B THEN "RUNNING" ELSE status[j]]
          /\ lockedAt' = [j \in Jobs |-> IF j \in B THEN now ELSE lockedAt[j]]
          /\ batch' = [batch EXCEPT ![w] = {[job |-> j, lockedAt |-> now] : j \in B}]
  BY DEF ClaimDueJobs
<1>2. B \subseteq Due
  BY BatchSubset
<1>3. UNCHANGED <<doing, now>>
  BY DEF ClaimDueJobs
<1>4. batch[w] = {} /\ doing[w] = {}
  BY DEF ClaimDueJobs, IdleHoldsNothing
<1>5. /\ Held(w) = {} /\ Held(w)' = {[job |-> j, lockedAt |-> now] : j \in B}
      /\ \A v \in Workers \ {w} : Held(v)' = Held(v)
  BY <1>1, <1>3, <1>4 DEF Held
<1>6. \A v \in Workers : \A t \in Held(v) : t.job \in B => t.lockedAt < now
  <2>1. SUFFICES ASSUME NEW v \in Workers, NEW t \in Held(v), t.job \in B
        PROVE  t.lockedAt < now
    OBVIOUS
  <2>2. ~Current(t)
    BY <1>2, <2>1 DEF Due, Current
  <2>3. t.lockedAt \in Nat
    BY DEF Held
  <2> QED BY <2>2, <2>3 DEF LostOnlyIfStale
<1>7. \A j \in Jobs \ B : Holder'[j] = Holder[j] /\ RunOutcome'[j] = RunOutcome[j]
  <2>1. SUFFICES ASSUME NEW j \in Jobs \ B
                 PROVE  Holder'[j] = Holder[j] /\ RunOutcome'[j] = RunOutcome[j]
    OBVIOUS
  <2>2. status'[j] = status[j] /\ lockedAt'[j] = lockedAt[j]
    BY <1>1
  <2>3. \A v \in Workers : CurrentTicket(j) \in Held(v)' <=> CurrentTicket(j) \in Held(v)
    BY <1>5 DEF CurrentTicket
  <2> QED BY <1>3, <2>2, <2>3, ViewKept
<1>8. \A j \in B : Holder'[j] = {w} /\ RunOutcome'[j] = {}
  <2>1. SUFFICES ASSUME NEW j \in B
                 PROVE  Holder'[j] = {w} /\ RunOutcome'[j] = {}
    OBVIOUS
  <2>2. j \in Jobs /\ status'[j] = "RUNNING" /\ lockedAt'[j] = now
    BY <1>1, <1>2 DEF Due
  <2>3. CurrentTicket(j)' = [job |-> j, lockedAt |-> now]
    BY <2>2 DEF CurrentTicket
  <2>4. \A v \in Workers : [job |-> j, lockedAt |-> now] \notin Held(v)
    BY <1>6
  <2>5. \A v \in Workers : CurrentTicket(j)' \in Held(v)' <=> v = w
    BY <1>5, <2>3, <2>4
  <2>6. \A v \in Workers : \A e \in doing'[v] : e.ticket # CurrentTicket(j)'
    BY <1>3, <2>3, <2>4 DEF Held
  <2>7. \A v \in Workers, ok \in BOOLEAN :
            [ticket |-> CurrentTicket(j)', ok |-> ok] \notin doing'[v]
    <3>1. \A ok \in BOOLEAN : [ticket |-> CurrentTicket(j)', ok |-> ok].ticket = CurrentTicket(j)'
      OBVIOUS
    <3> QED BY <2>6, <3>1
  <2>8. \A o \in {"returned", "threw"} : (o = "returned") \in BOOLEAN
    OBVIOUS
  <2> QED BY <2>2, <2>5, <2>7, <2>8 DEF Holder, RunOutcome
<1>9. Holder' = [j \in Jobs |-> IF j \in B THEN {w} ELSE Holder[j]]
  BY <1>7, <1>8 DEF Holder
<1>10. RunOutcome' = RunOutcome
  <2>1. \A j \in B : RunOutcome[j] = {}
    BY <1>2, NotRunning DEF Due
  <2> QED BY <1>7, <1>8, <2>1 DEF RunOutcome
<1>11. B \subseteq Jobs /\ \A j \in B : status[j] = "PENDING"
  BY <1>2 DEF Due
<1>12. Queue!Lease(w, B)
  BY <1>1, <1>3, <1>9, <1>10, <1>11 DEF Queue!Lease
<1> QED BY <1>11, <1>12

\* A handler that ends for the job it still holds is a run; for a job it lost,
\* it changes nothing.
LEMMA HandleRefines ==
    ASSUME QueueInv, NEW w \in Workers, NEW ok \in BOOLEAN, HandleJob(w, ok)
    PROVE  [Queue!QueueNext]_(Queue!queueVars)
<1> USE DEF QueueInv, IInv, TypeOK
<1>1. PICK t \in batch[w] :
          /\ batch' = [batch EXCEPT ![w] = @ \ {t}]
          /\ doing' = [doing EXCEPT ![w] = {[ticket |-> t, ok |-> ok]}]
  BY DEF HandleJob
<1>2. UNCHANGED <<status, lockedAt, now>> /\ doing[w] = {}
  BY DEF HandleJob, rowVars
<1> DEFINE e == [ticket |-> t, ok |-> ok]
<1>3. doing'[w] = {e} /\ \A v \in Workers \ {w} : doing'[v] = doing[v]
  BY <1>1
<1>4. \A v \in Workers : Held(v)' = Held(v)
  <2>1. {d.ticket : d \in doing'[w]} = {t}
    BY <1>3
  <2>2. batch'[w] = batch[w] \ {t}
    BY <1>1
  <2>3. Held(w)' = Held(w)
    BY <1>1, <1>2, <2>1, <2>2 DEF Held
  <2>4. \A v \in Workers \ {w} : batch'[v] = batch[v]
    BY <1>1
  <2> QED BY <1>3, <2>3, <2>4 DEF Held
<1>5. Holder' = Holder
  BY <1>2, <1>4 DEF Holder, CurrentTicket
<1>6. t \in Held(w) /\ t \in Ticket
  BY DEF Held
<1>7. \A j \in Jobs : (status[j] = "RUNNING" => CurrentTicket(j) # t)
                      => RunOutcome'[j] = RunOutcome[j]
  <2>1. SUFFICES ASSUME NEW j \in Jobs, status[j] = "RUNNING" => CurrentTicket(j) # t
        PROVE  RunOutcome'[j] = RunOutcome[j]
    OBVIOUS
  <2>2. \A v \in Workers, b \in BOOLEAN :
            CurrentTicket(j) # t => ([ticket |-> CurrentTicket(j), ok |-> b] \in doing'[v]
                                     <=> [ticket |-> CurrentTicket(j), ok |-> b] \in doing[v])
    BY <1>2, <1>3
  <2> QED BY <1>2, <1>4, <2>1, <2>2, ViewKept
<1>8. CASE ~Current(t)
  <2>1. \A j \in Jobs : status[j] = "RUNNING" => CurrentTicket(j) # t
    BY <1>8 DEF Current, CurrentTicket
  <2>2. UNCHANGED Queue!queueVars
    BY <1>2, <1>5, <1>7, <2>1, QueueStutter
  <2> QED BY <2>2
<1>9. CASE Current(t)
  <2> DEFINE j == t.job
  <2>1. j \in Jobs /\ CurrentTicket(j) = t /\ Holder[j] = {w} /\ status[j] = "RUNNING"
    BY <1>6, <1>9, HolderIs DEF Current
  <2>2. \A v \in Workers : \A d \in doing[v] : d.ticket # t
    <3>1. SUFFICES ASSUME NEW v \in Workers, NEW d \in doing[v], d.ticket = t PROVE FALSE
      OBVIOUS
    <3>2. t \in Held(v)
      BY <3>1 DEF Held
    <3>3. v = w
      BY <1>6, <1>9, <3>2 DEF SingleLease
    <3> QED BY <1>2, <3>1, <3>3
  <2>3. \A v \in Workers, b \in BOOLEAN : [ticket |-> t, ok |-> b] \notin doing[v]
    <3>1. \A b \in BOOLEAN : [ticket |-> t, ok |-> b].ticket = t
      OBVIOUS
    <3> QED BY <2>2, <3>1
  <2>4. \A o \in {"returned", "threw"} : (o = "returned") \in BOOLEAN
    OBVIOUS
  <2>5. RunOutcome[j] = {}
    BY <2>1, <2>3, <2>4 DEF RunOutcome
  <2> DEFINE o == IF ok THEN "returned" ELSE "threw"
  <2>6. \A v \in Workers, b \in BOOLEAN :
            [ticket |-> t, ok |-> b] \in doing'[v] <=> v = w /\ b = ok
    BY <1>3, <2>3
  <2>7. CurrentTicket(j)' = t /\ status'[j] = "RUNNING"
    BY <1>2, <2>1 DEF CurrentTicket
  <2>8. RunOutcome'[j] = {o}
    <3>1. \A x \in {"returned", "threw"} : x \in RunOutcome'[j] <=> ((x = "returned") = ok)
      BY <2>1, <2>4, <2>6, <2>7 DEF RunOutcome
    <3>2. RunOutcome'[j] \subseteq {"returned", "threw"}
      BY <2>1 DEF RunOutcome
    <3> QED BY <3>1, <3>2
  <2>9. \A k \in Jobs \ {j} : RunOutcome'[k] = RunOutcome[k]
    BY <1>7 DEF CurrentTicket
  <2>10. RunOutcome' = [RunOutcome EXCEPT ![j] = {o}]
    BY <2>1, <2>8, <2>9 DEF RunOutcome
  <2>11. Queue!Run(w, j, o)
    BY <1>2, <1>5, <2>1, <2>5, <2>10 DEF Queue!Run
  <2>12. o \in Queue!Outcome
    BY DEF Queue!Outcome
  <2> QED BY <2>1, <2>11, <2>12 DEF Queue!QueueNext
<1> QED BY <1>8, <1>9

\* The worker drops the ticket of the job it has just handled: nothing else
\* changes if the row was taken from it; otherwise the job is left by all.
LEMMA TicketDropped ==
    ASSUME QueueInv, NEW w \in Workers, NEW e \in doing[w],
           doing' = [doing EXCEPT ![w] = {}], UNCHANGED batch,
           \A j \in Jobs \ {e.ticket.job} :
               status'[j] = status[j] /\ lockedAt'[j] = lockedAt[j]
    PROVE  \A j \in Jobs \ {e.ticket.job} :
               Holder'[j] = Holder[j] /\ RunOutcome'[j] = RunOutcome[j]
<1> USE DEF QueueInv, IInv, TypeOK
<1>1. SUFFICES ASSUME NEW j \in Jobs \ {e.ticket.job}
               PROVE  Holder'[j] = Holder[j] /\ RunOutcome'[j] = RunOutcome[j]
  OBVIOUS
<1>2. doing[w] = {e}
  BY DEF OneOutcome
<1>3. CurrentTicket(j) # e.ticket
  BY DEF CurrentTicket
<1>4. doing'[w] = {} /\ \A v \in Workers \ {w} : doing'[v] = doing[v]
  OBVIOUS
<1>5. \A v \in Workers : CurrentTicket(j) \in Held(v)' <=> CurrentTicket(j) \in Held(v)
  BY <1>2, <1>3, <1>4 DEF Held
<1>6. \A b \in BOOLEAN : [ticket |-> CurrentTicket(j), ok |-> b] # e
  BY <1>3
<1>7. \A v \in Workers, b \in BOOLEAN :
          [ticket |-> CurrentTicket(j), ok |-> b] \in doing'[v]
          <=> [ticket |-> CurrentTicket(j), ok |-> b] \in doing[v]
  BY <1>2, <1>4, <1>6
<1> QED BY <1>1, <1>5, <1>7, ViewKept

\* complete and fail of a ticket that was lost end nothing.
LEMMA LostTicketRefines ==
    ASSUME QueueInv, NEW w \in Workers, NEW e \in doing[w], ~Current(e.ticket),
           doing' = [doing EXCEPT ![w] = {}], UNCHANGED <<status, lockedAt, batch, now>>
    PROVE  UNCHANGED Queue!queueVars
<1> USE DEF QueueInv, IInv, TypeOK
<1> DEFINE j == e.ticket.job
<1>1. j \in Jobs /\ e.ticket \in Ticket
  OBVIOUS
<1>2. \A k \in Jobs \ {j} : Holder'[k] = Holder[k] /\ RunOutcome'[k] = RunOutcome[k]
  BY TicketDropped
<1>3. doing[w] = {e} /\ doing'[w] = {} /\ \A v \in Workers \ {w} : doing'[v] = doing[v]
  BY DEF OneOutcome
<1>4. status[j] = "RUNNING" => CurrentTicket(j) # e.ticket
  BY DEF Current, CurrentTicket
<1>5. status[j] = "RUNNING" =>
          \A v \in Workers : CurrentTicket(j) \in Held(v)' <=> CurrentTicket(j) \in Held(v)
  BY <1>3, <1>4 DEF Held
<1>6. status[j] = "RUNNING" => \A b \in BOOLEAN : [ticket |-> CurrentTicket(j), ok |-> b] # e
  BY <1>4
<1>7. status[j] = "RUNNING" => \A v \in Workers, b \in BOOLEAN :
          [ticket |-> CurrentTicket(j), ok |-> b] \in doing'[v]
          <=> [ticket |-> CurrentTicket(j), ok |-> b] \in doing[v]
  BY <1>3, <1>6
<1>8. Holder'[j] = Holder[j] /\ RunOutcome'[j] = RunOutcome[j]
  BY <1>1, <1>5, <1>7, ViewKept
<1> QED BY <1>2, <1>8, QueueStutter

\* complete and fail of the holder release the job.
LEMMA HolderReleases ==
    ASSUME QueueInv, NEW w \in Workers, NEW e \in doing[w], NEW s, s # "RUNNING",
           Current(e.ticket),
           status' = [status EXCEPT ![e.ticket.job] = s],
           lockedAt' = [lockedAt EXCEPT ![e.ticket.job] = NotLocked],
           doing' = [doing EXCEPT ![w] = {}], UNCHANGED <<batch, now>>
    PROVE  /\ e.ticket.job \in Jobs /\ Holder[e.ticket.job] = {w}
           /\ RunOutcome[e.ticket.job] = {IF e.ok THEN "returned" ELSE "threw"}
           /\ Queue!Release(e.ticket.job, s)
<1> USE DEF QueueInv, IInv, TypeOK
<1> DEFINE j == e.ticket.job
<1>1. j \in Jobs /\ Holder[j] = {w}
  <2>1. e.ticket \in Held(w)
    BY DEF Held
  <2> QED BY <2>1, HolderIs
<1>2. \A k \in Jobs \ {j} : Holder'[k] = Holder[k] /\ RunOutcome'[k] = RunOutcome[k]
  BY TicketDropped
<1>3. Holder'[j] = {} /\ RunOutcome'[j] = {}
  BY <1>1 DEF Holder, RunOutcome
<1>4. Holder' = [Holder EXCEPT ![j] = {}]
  BY <1>1, <1>2, <1>3 DEF Holder
<1>5. RunOutcome' = [RunOutcome EXCEPT ![j] = {}]
  BY <1>1, <1>2, <1>3 DEF RunOutcome
<1> QED BY <1>1, <1>4, <1>5, OutcomeIs DEF Queue!Release

\* complete ends the job of the holder as succeeded, or nothing.
LEMMA CompleteRefines ==
    ASSUME QueueInv, NEW w \in Workers, Complete(w)
    PROVE  [Queue!QueueNext]_(Queue!queueVars)
<1>1. PICK e \in doing[w] :
          /\ e.ok
          /\ IF Current(e.ticket)
             THEN /\ status' = [status EXCEPT ![e.ticket.job] = "SUCCEEDED"]
                  /\ lockedAt' = [lockedAt EXCEPT ![e.ticket.job] = NotLocked]
             ELSE UNCHANGED <<status, lockedAt>>
  BY DEF Complete
<1>2. doing' = [doing EXCEPT ![w] = {}] /\ UNCHANGED <<batch, now>>
  BY DEF Complete
<1>3. CASE ~Current(e.ticket)
  BY <1>1, <1>2, <1>3, LostTicketRefines
<1>4. CASE Current(e.ticket)
  <2>1. /\ e.ticket.job \in Jobs /\ Holder[e.ticket.job] = {w}
        /\ RunOutcome[e.ticket.job] = {"returned"}
        /\ Queue!Release(e.ticket.job, "SUCCEEDED")
    BY <1>1, <1>2, <1>4, HolderReleases
  <2>2. Queue!Succeed(w, e.ticket.job)
    BY <2>1 DEF Queue!Succeed
  <2> QED BY <2>1, <2>2 DEF Queue!QueueNext
<1> QED BY <1>3, <1>4

\* fail sends it back or to the dead letters, or ends nothing.
LEMMA FailRefines ==
    ASSUME QueueInv, NEW w \in Workers, Fail(w)
    PROVE  [Queue!QueueNext]_(Queue!queueVars)
<1>1. PICK e \in doing[w] :
          /\ ~e.ok
          /\ IF Current(e.ticket)
             THEN /\ status' = [status EXCEPT ![e.ticket.job] = StatusAfterFailure(e.ticket.job)]
                  /\ lockedAt' = [lockedAt EXCEPT ![e.ticket.job] = NotLocked]
             ELSE UNCHANGED <<status, lockedAt>>
  BY DEF Fail
<1>2. doing' = [doing EXCEPT ![w] = {}] /\ UNCHANGED <<batch, now>>
  BY DEF Fail
<1>3. CASE ~Current(e.ticket)
  BY <1>1, <1>2, <1>3, LostTicketRefines
<1>4. CASE Current(e.ticket)
  <2> DEFINE s == StatusAfterFailure(e.ticket.job)
  <2>1. s \in {"PENDING", "DEAD_LETTER"}
    BY DEF StatusAfterFailure
  <2>2. /\ e.ticket.job \in Jobs /\ Holder[e.ticket.job] = {w}
        /\ RunOutcome[e.ticket.job] = {"threw"}
        /\ Queue!Release(e.ticket.job, s)
    BY <1>1, <1>2, <1>4, <2>1, HolderReleases
  <2>3. Queue!Fail(w, e.ticket.job)
    BY <2>1, <2>2 DEF Queue!Fail
  <2> QED BY <2>2, <2>3 DEF Queue!QueueNext
<1> QED BY <1>3, <1>4

\* complete threw: the holder's run counts as failed; a lost ticket changes nothing.
LEMMA ThrowRefines ==
    ASSUME QueueInv, NEW w \in Workers, CompleteThrows(w)
    PROVE  [Queue!QueueNext]_(Queue!queueVars)
<1> USE DEF QueueInv, IInv, TypeOK
<1>1. PICK e \in doing[w] :
          e.ok /\ doing' = [doing EXCEPT ![w] = {[ticket |-> e.ticket, ok |-> FALSE]}]
  BY DEF CompleteThrows
<1>2. UNCHANGED <<status, lockedAt, batch, now>>
  BY DEF CompleteThrows, rowVars
<1> DEFINE t == e.ticket
           j == e.ticket.job
           f == [ticket |-> t, ok |-> FALSE]
<1>3. /\ doing[w] = {e} /\ doing'[w] = {f}
      /\ \A v \in Workers \ {w} : doing'[v] = doing[v]
  BY <1>1 DEF OneOutcome
<1>4. \A v \in Workers : Held(v)' = Held(v)
  <2>1. {d.ticket : d \in doing'[w]} = {t} /\ {d.ticket : d \in doing[w]} = {t}
    BY <1>3
  <2>2. Held(w)' = Held(w)
    BY <1>2, <2>1 DEF Held
  <2> QED BY <1>2, <1>3, <2>2 DEF Held
<1>5. Holder' = Holder
  BY <1>2, <1>4 DEF Holder, CurrentTicket
<1>6. t \in Held(w) /\ t \in Ticket
  BY DEF Held
<1>7. \A k \in Jobs : (status[k] = "RUNNING" => CurrentTicket(k) # t)
                      => RunOutcome'[k] = RunOutcome[k]
  <2>1. SUFFICES ASSUME NEW k \in Jobs, status[k] = "RUNNING" => CurrentTicket(k) # t
        PROVE  RunOutcome'[k] = RunOutcome[k]
    OBVIOUS
  <2>2. \A v \in Workers, b \in BOOLEAN :
            CurrentTicket(k) # t => ([ticket |-> CurrentTicket(k), ok |-> b] \in doing'[v]
                                     <=> [ticket |-> CurrentTicket(k), ok |-> b] \in doing[v])
    <3>1. \A b \in BOOLEAN : CurrentTicket(k) # t =>
              [ticket |-> CurrentTicket(k), ok |-> b] \notin {e, f}
      OBVIOUS
    <3> QED BY <1>3, <3>1
  <2> QED BY <1>2, <1>4, <2>1, <2>2, ViewKept
<1>8. CASE ~Current(t)
  <2>1. \A k \in Jobs : status[k] = "RUNNING" => CurrentTicket(k) # t
    BY <1>8 DEF Current, CurrentTicket
  <2>2. UNCHANGED Queue!queueVars
    BY <1>2, <1>5, <1>7, <2>1, QueueStutter
  <2> QED BY <2>2
<1>9. CASE Current(t)
  <2>1. j \in Jobs /\ CurrentTicket(j) = t /\ Holder[j] = {w} /\ status[j] = "RUNNING"
    BY <1>6, <1>9, HolderIs DEF Current
  <2>2. RunOutcome[j] = {"returned"}
    BY <1>1, <1>9, OutcomeIs
  <2>3. \A v \in Workers : v # w => t \notin Held(v)
    BY <1>6, <1>9 DEF SingleLease
  <2>4. \A v \in Workers, b \in BOOLEAN :
            [ticket |-> t, ok |-> b] \in doing'[v] <=> v = w /\ b = FALSE
    <3>1. \A b \in BOOLEAN : [ticket |-> t, ok |-> b].ticket = t
      OBVIOUS
    <3>2. \A v \in Workers \ {w}, b \in BOOLEAN : [ticket |-> t, ok |-> b] \notin doing'[v]
      BY <1>3, <2>3, <3>1 DEF Held
    <3>3. \A b \in BOOLEAN : [ticket |-> t, ok |-> b] \in doing'[w] <=> b = FALSE
      BY <1>3
    <3> QED BY <3>2, <3>3
  <2>5. CurrentTicket(j)' = t /\ status'[j] = "RUNNING"
    BY <1>2, <2>1 DEF CurrentTicket
  <2>6. \A o \in {"returned", "threw"} : (o = "returned") \in BOOLEAN
    OBVIOUS
  <2>7. RunOutcome'[j] = {"threw"}
    <3>1. \A o \in {"returned", "threw"} : o \in RunOutcome'[j] <=> (o = "returned") = FALSE
      BY <2>1, <2>4, <2>5, <2>6 DEF RunOutcome
    <3>2. RunOutcome'[j] \subseteq {"returned", "threw"}
      BY <2>1 DEF RunOutcome
    <3> QED BY <3>1, <3>2
  <2>8. \A k \in Jobs \ {j} : RunOutcome'[k] = RunOutcome[k]
    <3>1. \A k \in Jobs : CurrentTicket(k).job = k
      BY DEF CurrentTicket
    <3> HIDE DEF CurrentTicket
    <3>2. \A k \in Jobs \ {j} : CurrentTicket(k) # t
      BY <3>1
    <3> QED BY <1>7, <3>2
  <2>9. RunOutcome' = [RunOutcome EXCEPT ![j] = {"threw"}]
    BY <2>1, <2>7, <2>8 DEF RunOutcome
  <2>10. Queue!Run(w, j, "threw")
    BY <1>2, <1>5, <2>1, <2>2, <2>9 DEF Queue!Run
  <2> QED BY <2>1, <2>10 DEF Queue!QueueNext, Queue!Outcome
<1> QED BY <1>8, <1>9

\* A lost batch leaves its jobs leased to nobody.
LEMMA LostBatchRefines ==
    ASSUME QueueInv, NEW w \in Workers, BatchLost(w)
    PROVE  Queue!Lose(w)
<1> USE DEF QueueInv, IInv, TypeOK
<1>1. /\ batch' = [batch EXCEPT ![w] = {}] /\ doing' = [doing EXCEPT ![w] = {}]
      /\ UNCHANGED <<status, lockedAt, now>>
  BY DEF BatchLost, rowVars
<1>2. /\ batch'[w] = {} /\ doing'[w] = {}
      /\ \A v \in Workers \ {w} : batch'[v] = batch[v] /\ doing'[v] = doing[v]
  BY <1>1
<1>3. Held(w)' = {} /\ \A v \in Workers \ {w} : Held(v)' = Held(v)
  BY <1>2 DEF Held
<1>4. \A j \in Jobs : Holder'[j] = Holder[j] \ {w}
  BY <1>1, <1>3 DEF Holder, CurrentTicket
<1>5. \A j \in Jobs : w \in Holder[j] => RunOutcome'[j] = {}
  <2>1. SUFFICES ASSUME NEW j \in Jobs, w \in Holder[j] PROVE RunOutcome'[j] = {}
    OBVIOUS
  <2> DEFINE t == CurrentTicket(j)
  <2>2. t \in Held(w) /\ status[j] = "RUNNING"
    BY <2>1 DEF Holder
  <2>3. Current(t) /\ t' = t
    BY <1>1, <2>2 DEF Current, CurrentTicket
  <2>4. \A v \in Workers \ {w} : t \notin Held(v)
    BY <2>2, <2>3 DEF SingleLease
  <2>5. \A v \in Workers, b \in BOOLEAN : [ticket |-> t, ok |-> b] \notin doing'[v]
    <3>1. \A b \in BOOLEAN : [ticket |-> t, ok |-> b].ticket = t
      OBVIOUS
    <3> QED BY <1>2, <2>4, <3>1 DEF Held
  <2>6. \A o \in {"returned", "threw"} : (o = "returned") \in BOOLEAN
    OBVIOUS
  <2> QED BY <2>3, <2>5, <2>6 DEF RunOutcome
<1>6. \A j \in Jobs : w \notin Holder[j] => RunOutcome'[j] = RunOutcome[j]
  <2>1. SUFFICES ASSUME NEW j \in Jobs, w \notin Holder[j] PROVE RunOutcome'[j] = RunOutcome[j]
    OBVIOUS
  <2>2. status[j] = "RUNNING" => CurrentTicket(j) \notin Held(w)
    BY <2>1 DEF Holder
  <2>3. status[j] = "RUNNING" => \A b \in BOOLEAN :
            [ticket |-> CurrentTicket(j), ok |-> b] \notin doing[w]
    <3>1. \A b \in BOOLEAN : [ticket |-> CurrentTicket(j), ok |-> b].ticket = CurrentTicket(j)
      OBVIOUS
    <3> QED BY <2>2, <3>1 DEF Held
  <2>4. status[j] = "RUNNING" =>
            \A v \in Workers : CurrentTicket(j) \in Held(v)' <=> CurrentTicket(j) \in Held(v)
    BY <1>3, <2>2
  <2>5. status[j] = "RUNNING" => \A v \in Workers, b \in BOOLEAN :
            [ticket |-> CurrentTicket(j), ok |-> b] \in doing'[v]
            <=> [ticket |-> CurrentTicket(j), ok |-> b] \in doing[v]
    BY <1>2, <2>3
  <2> QED BY <1>1, <2>4, <2>5, ViewKept
<1>7. Holder' = [j \in Jobs |-> Holder[j] \ {w}]
  BY <1>4 DEF Holder
<1>8. RunOutcome' = [j \in Jobs |-> IF w \in Holder[j] THEN {} ELSE RunOutcome[j]]
  BY <1>5, <1>6 DEF RunOutcome
<1> QED BY <1>1, <1>7, <1>8 DEF Queue!Lose

\* Every step of the tables and the workers is a step of the queue or a stutter.
LEMMA QueueStep ==
    ASSUME QueueInv, [Next]_vars
    PROVE  [Queue!QueueNext]_(Queue!queueVars)
<1>1. CASE Tick
  <2>1. UNCHANGED <<status, lockedAt, batch, doing>>
    BY <1>1 DEF Tick, rowVars, workerVars
  <2>2. Holder' = Holder /\ RunOutcome' = RunOutcome
    BY <2>1 DEF Holder, RunOutcome, Held, CurrentTicket
  <2>3. Queue!Advance
    BY <1>1, <2>1, <2>2 DEF Tick, Queue!Advance
  <2> QED BY <2>3 DEF Queue!QueueNext
<1>2. ASSUME NEW j \in Jobs, JobStep(j) PROVE [Queue!QueueNext]_(Queue!queueVars)
  BY <1>2, JobStepRefines
<1>3. ASSUME NEW w \in Workers, WorkerStep(w) PROVE [Queue!QueueNext]_(Queue!queueVars)
  <2>1. CASE RecoverStaleRunningJobs(w)
    BY <2>1, RecoverRefines DEF Queue!QueueNext
  <2>2. CASE ClaimDueJobs(w)
    BY <2>2, ClaimRefines DEF Queue!QueueNext
  <2>3. CASE HandleJob(w, TRUE) \/ HandleJob(w, FALSE)
    BY <2>3, HandleRefines
  <2>4. CASE Complete(w) \/ CompleteThrows(w) \/ Fail(w)
    BY <2>4, CompleteRefines, ThrowRefines, FailRefines
  <2>5. CASE BatchDone(w)
    <3>1. UNCHANGED <<status, lockedAt, now, batch, doing>>
      BY <2>5 DEF BatchDone, rowVars
    <3> QED BY <3>1 DEF Queue!queueVars, Holder, RunOutcome, Held, CurrentTicket
  <2> QED BY <1>3, <2>1, <2>2, <2>3, <2>4, <2>5 DEF WorkerStep
<1>4. ASSUME NEW w \in Workers, BatchLost(w) PROVE [Queue!QueueNext]_(Queue!queueVars)
  BY <1>4, LostBatchRefines DEF Queue!QueueNext
<1>5. CASE UNCHANGED vars
  <2>1. UNCHANGED <<status, lockedAt, now, batch, doing>>
    BY <1>5 DEF vars, rowVars, workerVars
  <2> QED BY <2>1 DEF Queue!queueVars, Holder, RunOutcome, Held, CurrentTicket
<1> QED BY <1>1, <1>2, <1>3, <1>4, <1>5 DEF Next

\* Claims, recoveries, outcomes and lost batches, however they interleave, are
\* steps of a queue of leased items, or leave it alone.
THEOREM WorkQueueRefinement == Spec => ImplementsWorkQueue
<1>1. Init => QueueInv
  BY InitInv DEF Init, QueueInv, LockedWhileRunning, OneOutcome
<1>2. Init => Queue!QueueInit
  BY DEF Init, Queue!QueueInit, Holder, RunOutcome
<1>3. QueueInv /\ [Next]_vars => QueueInv'
  BY QueueInvStep
<1>4. QueueInv /\ [Next]_vars => [Queue!QueueNext]_(Queue!queueVars)
  BY QueueStep
<1> QED BY <1>1, <1>2, <1>3, <1>4, PTL DEF Spec, ImplementsWorkQueue, Queue!QueueSpec

=============================================================================
