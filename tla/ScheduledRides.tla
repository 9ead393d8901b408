--------------------------- MODULE ScheduledRides ---------------------------
(***************************************************************************)
(* Rides booked in advance: scheduled-rides.service.ts and the job that    *)
(* starts their dispatch Lead before the hour.                             *)
(*                                                                         *)
(* Every handler reads, then writes by id: a record of calls holds what it *)
(* read in between.  The job is reduced to what JobQueue proves of it: it  *)
(* is not run before its date and stays queued until a run ends well or it *)
(* is dead-lettered.  Time is a number of units; places, prices and audit  *)
(* entries are left out.                                                   *)
(***************************************************************************)
EXTENDS FiniteSets, Integers

CONSTANTS Rides,
          Riders,
          RiderOf,              \* the rider who may book each ride
          MinAdvance, MaxAdvance,
          Lead,                 \* DISPATCH_LEAD_MINUTES
          Slack,                \* how early a job may start its dispatch
          FreeCancelBuffer,
          Crashes,              \* TRUE if a handler may die between two steps
          MaxNow, MaxCalls      \* bounds on the clock, the hours booked and the handlers in flight

ASSUME RidesAssumption == RiderOf \in [Rides -> Riders] /\ Crashes \in BOOLEAN
ASSUME TimesAssumption ==
    /\ {MinAdvance, MaxAdvance, Lead, Slack, FreeCancelBuffer, MaxNow, MaxCalls} \subseteq Nat
    /\ FreeCancelBuffer < Lead /\ Lead < MinAdvance

VARIABLES
    status,         \* of each scheduled ride, "NONE" before its row exists
    scheduledFor,   \* its hour
    job,            \* its row in the job queue
    calls,          \* handlers in flight
    now

vars == <<status, scheduledFor, job, calls, now>>

\* Nothing in the code writes MATCHED, COMPLETED or EXPIRED.
ScheduledRideStatus ==
    {"NONE", "PENDING", "DISPATCHING", "MATCHED", "CANCELLED", "COMPLETED", "EXPIRED"}
Active == {"PENDING", "DISPATCHING", "MATCHED"}
Job == {"none", "queued", "done", "dead"}

Hour == 0 .. MaxNow
CreateCall == [op : {"create"}, ride : Rides, at : Hour]
RideCall == [op : {"enqueue", "dispatch", "complete", "cancel"}, ride : Rides]
Call == CreateCall \cup RideCall

\* (mutant) the job is queued for one unit too early
DispatchAtEarly(r) == scheduledFor[r] - Lead - 1

DispatchAt(r) == scheduledFor[r] - Lead

Begin(c) == Cardinality(calls) < MaxCalls /\ calls' = calls \cup {c}

\* When a handler goes on, another that holds the same may be left where it was: a
\* job run by two workers, a cancellation sent twice.
Rest(c) == {calls \ {c}} \cup (IF c.op \in {"dispatch", "cancel"} THEN {calls} ELSE {})

Finish(c) == calls' \in Rest(c)
Continue(c, op) == \E rest \in Rest(c) : calls' = rest \cup {[op |-> op, ride |-> c.ride]}

Init ==
    /\ status = [r \in Rides |-> "NONE"]
    /\ scheduledFor = [r \in Rides |-> 0]
    /\ job = [r \in Rides |-> "none"]
    /\ calls = {}
    /\ now = 0

Tick ==
    /\ now < MaxNow /\ now' = now + 1
    /\ UNCHANGED <<status, scheduledFor, job, calls>>

-----------------------------------------------------------------------------
(* createScheduledRide.                                                    *)

CreateRead(r, at) ==
    /\ status[r] = "NONE"
    /\ now + MinAdvance <= at /\ at <= now + MaxAdvance
    /\ \A q \in Rides : RiderOf[q] = RiderOf[r] => status[q] \notin Active
    /\ Begin([op |-> "create", ride |-> r, at |-> at])
    /\ UNCHANGED <<status, scheduledFor, job, now>>

CreateCommit(c) ==
    /\ c.op = "create" /\ status[c.ride] = "NONE"
    /\ status' = [status EXCEPT ![c.ride] = "PENDING"]
    /\ scheduledFor' = [scheduledFor EXCEPT ![c.ride] = c.at]
    /\ Continue(c, "enqueue")
    /\ UNCHANGED <<job, now>>

Enqueues(r) == DispatchAt(r) > now

Enqueue(c) ==
    /\ c.op = "enqueue"
    /\ job' = IF Enqueues(c.ride) THEN [job EXCEPT ![c.ride] = "queued"] ELSE job
    /\ Finish(c)
    /\ UNCHANGED <<status, scheduledFor, now>>

-----------------------------------------------------------------------------
(* triggerDispatch, run by the job.                                        *)

\* (mutant) a cancelled ride is not told from a pending one
StillOpen(r) == status[r] \notin {"NONE", "DISPATCHING"}

AwaitsDispatch(r) == status[r] = "PENDING"

\* (mutant) the comparison is the wrong way round
InWindowReversed(r) == scheduledFor[r] - now > Lead + Slack

InWindow(r) == scheduledFor[r] - now <= Lead + Slack

\* A ride that no longer waits ends the job; one whose time has not come makes the
\* handler throw, which leaves the job queued.
DispatchRead(r) ==
    /\ job[r] = "queued" /\ now >= DispatchAt(r)
    /\ IF AwaitsDispatch(r)
       THEN /\ InWindow(r)
            /\ Begin([op |-> "dispatch", ride |-> r])
            /\ UNCHANGED job
       ELSE job' = [job EXCEPT ![r] = "done"] /\ UNCHANGED calls
    /\ UNCHANGED <<status, scheduledFor, now>>

DispatchCommit(c) ==
    /\ c.op = "dispatch"
    /\ status' = [status EXCEPT ![c.ride] = "DISPATCHING"]
    /\ Continue(c, "complete")
    /\ UNCHANGED <<scheduledFor, job, now>>

Complete(c) ==
    /\ c.op = "complete"
    /\ job' = [job EXCEPT ![c.ride] = "done"]
    /\ Finish(c)
    /\ UNCHANGED <<status, scheduledFor, now>>

\* An operator gives a dead-lettered job back to the queue.
RequeueDeadLetter(r) ==
    /\ job[r] = "dead"
    /\ job' = [job EXCEPT ![r] = "queued"]
    /\ UNCHANGED <<status, scheduledFor, calls, now>>

-----------------------------------------------------------------------------
(* cancelScheduledRide.                                                    *)

Cancellable(r) ==
    /\ status[r] \notin {"NONE", "CANCELLED", "COMPLETED"}
    /\ ~(status[r] = "DISPATCHING" /\ scheduledFor[r] - now < FreeCancelBuffer)

CancelRead(r) ==
    /\ Cancellable(r)
    /\ Begin([op |-> "cancel", ride |-> r])
    /\ UNCHANGED <<status, scheduledFor, job, now>>

CancelCommit(c) ==
    /\ c.op = "cancel"
    /\ status' = [status EXCEPT ![c.ride] = "CANCELLED"]
    /\ Finish(c)
    /\ UNCHANGED <<scheduledFor, job, now>>

\* The process dies or the database fails; a job may have used up its attempts.
CallLost(c) ==
    /\ Crashes
    /\ Finish(c)
    /\ \/ UNCHANGED job
       \/ c.op \in {"dispatch", "complete"} /\ job' = [job EXCEPT ![c.ride] = "dead"]
    /\ UNCHANGED <<status, scheduledFor, now>>

-----------------------------------------------------------------------------
CallStep(c) ==
    \/ CreateCommit(c)
    \/ Enqueue(c)
    \/ DispatchCommit(c)
    \/ Complete(c)
    \/ CancelCommit(c)

Next ==
    \/ Tick
    \/ \E r \in Rides, at \in Hour : CreateRead(r, at)
    \/ \E r \in Rides : DispatchRead(r) \/ RequeueDeadLetter(r) \/ CancelRead(r)
    \/ \E c \in calls : CallStep(c) \/ CallLost(c)

Spec == Init /\ [][Next]_vars

\* Time passes, the workers take due jobs, a handler that does not die goes on (to
\* the last of those that hold the same), and not every run of a job dies.
FairSpec ==
    /\ Spec
    /\ WF_vars(Tick)
    /\ \A r \in Rides : SF_vars(DispatchRead(r))
    /\ \A c \in Call : WF_vars(c \in calls /\ CallStep(c) /\ c \notin calls')
    /\ \A r \in Rides :
          LET c == [op |-> "dispatch", ride |-> r] IN SF_vars(c \in calls /\ DispatchCommit(c))

-----------------------------------------------------------------------------
(* Properties.                                                             *)

\* Types of the rows and the handlers.
TypeOK ==
    /\ status \in [Rides -> ScheduledRideStatus]
    /\ scheduledFor \in [Rides -> Hour]
    /\ job \in [Rides -> Job]
    /\ calls \subseteq Call
    /\ now \in 0 .. MaxNow

\* A cancelled ride that no dispatch is at work on.
CancelSettled(r) ==
    status[r] = "CANCELLED" /\ \A c \in calls : c.ride = r => c.op # "dispatch"

\* "Deja traitee ou annulee": a dispatch may overtake a cancellation it did not see,
\* but none starts after it, however often the job is run again or requeued.
SettledCancelIsFinal == [][\A r \in Rides : CancelSettled(r) => CancelSettled(r)']_vars

\* The dispatch starts in its window: never more than Lead before the hour.
NotDispatchedEarly ==
    \A r \in Rides : status[r] = "DISPATCHING" => scheduledFor[r] - now <= Lead

\* A ride whose job is queued is dispatched or cancelled, unless the job is given up.
QueuedIsDispatched ==
    \A r \in Rides : status[r] = "PENDING" /\ job[r] = "queued"
                        ~> status[r] # "PENDING" \/ job[r] = "dead"
=============================================================================
