------------------------ MODULE ScheduledRidesProofs ------------------------
(***************************************************************************)
(* Theorems about ScheduledRides, for every set of rides and riders, any   *)
(* delays and any number of handlers, with or without crashes.             *)
(*                                                                         *)
(* NotDispatchedEarly is a promise of the job's date, kept by a write that *)
(* comes after the read: the invariant carries it to the handler in flight *)
(* (DispatchOnTime), whose ride keeps its hour because it has one already  *)
(* (WorkHasRide).                                                          *)
(***************************************************************************)
EXTENDS ScheduledRides, TLAPS

\* A dispatch in flight was begun in its window.
DispatchOnTime ==
    \A c \in calls : c.op = "dispatch" => scheduledFor[c.ride] - now <= Lead

\* Jobs and handlers work on rides that exist, but for the one that creates them.
WorkHasRide ==
    /\ \A r \in Rides : job[r] # "none" => status[r] # "NONE"
    /\ \A c \in calls : c.op # "create" => status[c.ride] # "NONE"

\* The inductive invariant.
IInv == TypeOK /\ WorkHasRide /\ DispatchOnTime /\ NotDispatchedEarly

USE RidesAssumption, TimesAssumption DEF Job, ScheduledRideStatus

\* The fields of a handler in flight.
LEMMA CallFields ==
    ASSUME NEW c \in Call
    PROVE  /\ c.ride \in Rides
           /\ c.op \in {"create", "enqueue", "dispatch", "complete", "cancel"}
           /\ c.op = "create" => c.at \in Hour
  BY DEF Call, CreateCall, RideCall

\* The handlers the actions start.
LEMMA CallsMade ==
    ASSUME NEW r \in Rides
    PROVE  /\ \A at \in Hour : [op |-> "create", ride |-> r, at |-> at] \in Call
           /\ \A op \in {"enqueue", "dispatch", "complete", "cancel"} :
                 [op |-> op, ride |-> r] \in Call
  BY DEF Call, CreateCall, RideCall

\* A handler that ends leaves no new one, one that goes on its continuation only.
LEMMA CallsLeft ==
    ASSUME NEW c
    PROVE  /\ Finish(c) => calls' \subseteq calls
           /\ \A op : Continue(c, op) => calls' \subseteq calls \cup {[op |-> op, ride |-> c.ride]}
  BY DEF Finish, Continue, Rest

\* The initial states satisfy the invariant.
LEMMA InitInv == Init => IInv
  BY DEF Init, IInv, TypeOK, WorkHasRide, DispatchOnTime, NotDispatchedEarly, Hour

\* Every operation keeps the variables well-typed.
LEMMA StepType == ASSUME TypeOK, [Next]_vars PROVE TypeOK'
<1> USE DEF TypeOK
<1>1. CASE Tick
  BY <1>1 DEF Tick
<1>2. ASSUME NEW r \in Rides, NEW at \in Hour, CreateRead(r, at) PROVE TypeOK'
  BY <1>2, CallsMade DEF CreateRead, Begin
<1>3. ASSUME NEW r \in Rides, DispatchRead(r) \/ RequeueDeadLetter(r) \/ CancelRead(r)
      PROVE  TypeOK'
  <2>1. \A op \in {"dispatch", "cancel"} : [op |-> op, ride |-> r] \in Call
    BY CallsMade
  <2>2. CASE DispatchRead(r)
    <3>1. calls' \subseteq Call
      BY <2>1, <2>2 DEF DispatchRead, Begin
    <3>2. job' \in [Rides -> {"none", "queued", "done", "dead"}]
      BY <2>2 DEF DispatchRead
    <3> QED BY <2>2, <3>1, <3>2 DEF DispatchRead
  <2>3. CASE RequeueDeadLetter(r)
    BY <2>3 DEF RequeueDeadLetter
  <2>4. CASE CancelRead(r)
    BY <2>1, <2>4 DEF CancelRead, Begin
  <2> QED BY <1>3, <2>2, <2>3, <2>4
<1>4. ASSUME NEW c \in calls, CallStep(c) PROVE TypeOK'
  <2> c \in Call /\ c.ride \in Rides
    BY CallFields
  <2>1. calls' \subseteq Call
    <3>1. \A op \in {"enqueue", "complete"} : [op |-> op, ride |-> c.ride] \in Call
      BY CallsMade
    <3>2. CASE CreateCommit(c)
      BY <3>1, <3>2, CallsLeft DEF CreateCommit
    <3>3. CASE DispatchCommit(c)
      BY <3>1, <3>3, CallsLeft DEF DispatchCommit
    <3>4. CASE Enqueue(c) \/ Complete(c) \/ CancelCommit(c)
      BY <3>4, CallsLeft DEF Enqueue, Complete, CancelCommit
    <3> QED BY <1>4, <3>2, <3>3, <3>4 DEF CallStep
  <2>2. /\ status' \in [Rides -> ScheduledRideStatus] /\ job' \in [Rides -> Job]
        /\ scheduledFor' \in [Rides -> Hour] /\ now' = now
    BY <1>4, CallFields
    DEF CallStep, CreateCommit, Enqueue, DispatchCommit, Complete, CancelCommit
  <2> QED BY <2>1, <2>2
<1>5. ASSUME NEW c \in calls, CallLost(c) PROVE TypeOK'
  BY <1>5, CallFields, CallsLeft DEF CallLost
<1>6. CASE UNCHANGED vars
  BY <1>6 DEF vars
<1> QED BY <1>1, <1>2, <1>3, <1>4, <1>5, <1>6 DEF Next

\* Every reachable state is well-typed.
THEOREM TypeCorrect == Spec => []TypeOK
<1>1. Init => TypeOK
  BY InitInv DEF IInv
<1> QED BY <1>1, StepType, PTL DEF Spec

-----------------------------------------------------------------------------
(* Settled cancellations.                                                  *)

\* No step of any handler, worker or operator unsettles a cancellation.
LEMMA StepSettled ==
    ASSUME TypeOK, [Next]_vars, NEW r \in Rides, CancelSettled(r)
    PROVE  CancelSettled(r)'
<1> USE DEF TypeOK, CancelSettled
<1>1. CASE Tick
  BY <1>1 DEF Tick
<1>2. ASSUME NEW q \in Rides, NEW at \in Hour, CreateRead(q, at) PROVE CancelSettled(r)'
  BY <1>2 DEF CreateRead, Begin
<1>3. ASSUME NEW q \in Rides, DispatchRead(q) PROVE CancelSettled(r)'
  <2>1. AwaitsDispatch(q) => q # r
    BY DEF AwaitsDispatch
  <2> QED BY <1>3, <2>1 DEF DispatchRead, Begin
<1>4. ASSUME NEW q \in Rides, RequeueDeadLetter(q) \/ CancelRead(q)
      PROVE  CancelSettled(r)'
  BY <1>4 DEF RequeueDeadLetter, CancelRead, Begin
<1>5. ASSUME NEW c \in calls, CallStep(c) PROVE CancelSettled(r)'
  <2>1. c.ride \in Rides
    BY CallFields
  <2>2. status'[r] = "CANCELLED"
    BY <1>5, <2>1
    DEF CallStep, CreateCommit, Enqueue, DispatchCommit, Complete, CancelCommit
  <2>3. \A d \in calls' : d.op = "dispatch" => d \in calls
    BY <1>5, CallsLeft
    DEF CallStep, CreateCommit, Enqueue, DispatchCommit, Complete, CancelCommit
  <2> QED BY <2>2, <2>3
<1>6. ASSUME NEW c \in calls, CallLost(c) PROVE CancelSettled(r)'
  BY <1>6, CallsLeft DEF CallLost
<1>7. CASE UNCHANGED vars
  BY <1>7 DEF vars
<1> QED BY <1>1, <1>2, <1>3, <1>4, <1>5, <1>6, <1>7 DEF Next

\* A cancellation no dispatch had overtaken is final, however often the job runs.
THEOREM SettledCancelIsFinalAlways == Spec => SettledCancelIsFinal
<1>1. ASSUME TypeOK, [Next]_vars
      PROVE  [\A r \in Rides : CancelSettled(r) => CancelSettled(r)']_vars
  BY <1>1, StepSettled
<1> QED BY <1>1, TypeCorrect, PTL DEF Spec, SettledCancelIsFinal

-----------------------------------------------------------------------------
(* The dispatch window.                                                    *)

\* A ride that exists keeps existing and keeps its hour; time does not go back.
LEMMA HourKept ==
    ASSUME TypeOK, [Next]_vars
    PROVE  /\ now <= now'
           /\ \A r \in Rides : status[r] # "NONE" =>
                 status'[r] # "NONE" /\ scheduledFor'[r] = scheduledFor[r]
<1>1. ASSUME NEW c \in calls, CallStep(c)
      PROVE  /\ now' = now
             /\ \A r \in Rides : status[r] # "NONE" =>
                   status'[r] # "NONE" /\ scheduledFor'[r] = scheduledFor[r]
  BY <1>1, CallFields
  DEF CallStep, CreateCommit, Enqueue, DispatchCommit, Complete, CancelCommit, TypeOK
<1>2. CASE Tick
  BY <1>2 DEF Tick, TypeOK
<1>3. CASE \/ UNCHANGED vars
           \/ \E r \in Rides, at \in Hour : CreateRead(r, at)
           \/ \E r \in Rides : DispatchRead(r) \/ RequeueDeadLetter(r) \/ CancelRead(r)
           \/ \E c \in calls : CallLost(c)
  <2>1. UNCHANGED <<status, scheduledFor, now>>
    BY <1>3 DEF vars, CreateRead, DispatchRead, RequeueDeadLetter, CancelRead, CallLost
  <2> QED BY <2>1 DEF TypeOK
<1>4. now \in Int
  BY DEF TypeOK
<1> QED BY <1>1, <1>2, <1>3, <1>4 DEF Next

\* Every step keeps jobs and handlers with existing rides.
LEMMA StepHasRide == ASSUME IInv, [Next]_vars PROVE WorkHasRide'
<1> TypeOK /\ WorkHasRide
  BY DEF IInv
<1>1. ASSUME NEW r \in Rides, status[r] # "NONE" PROVE status'[r] # "NONE"
  BY <1>1, HourKept
<1>2. \A c \in calls : c.op # "create" => status'[c.ride] # "NONE"
  BY <1>1, CallFields DEF WorkHasRide, TypeOK
<1>3. ASSUME NEW r \in Rides, job'[r] # "none" PROVE status'[r] # "NONE"
  <2>1. CASE job[r] # "none"
    BY <1>1, <2>1 DEF WorkHasRide
  <2>2. CASE job[r] = "none"
    <3>1. PICK c \in calls : c.ride = r /\ c.op # "create"
      BY <1>3, <2>2, CallFields
      DEF Next, vars, Tick, CreateRead, DispatchRead, RequeueDeadLetter, CancelRead,
          CallStep, CreateCommit, Enqueue, DispatchCommit, Complete, CancelCommit, CallLost,
          TypeOK
    <3> QED BY <1>2, <3>1
  <2> QED BY <2>1, <2>2
<1>4. ASSUME NEW d \in calls', d \notin calls, d.op # "create"
      PROVE  status'[d.ride] # "NONE"
  <2>1. ASSUME NEW r \in Rides, DispatchRead(r) \/ CancelRead(r)
        PROVE  status'[d.ride] # "NONE"
    <3>1. d.ride = r /\ status[r] # "NONE"
      BY <1>4, <2>1
      DEF DispatchRead, CancelRead, Cancellable, AwaitsDispatch, Begin
    <3> QED BY <1>1, <3>1
  <2>2. ASSUME NEW c \in calls, CallStep(c) PROVE status'[d.ride] # "NONE"
    <3>1. /\ c.ride \in Rides /\ d.ride = c.ride
          /\ CreateCommit(c) \/ DispatchCommit(c)
      BY <1>4, <2>2, CallFields, CallsLeft
      DEF CallStep, CreateCommit, Enqueue, DispatchCommit, Complete, CancelCommit, TypeOK
    <3> QED BY <3>1 DEF CreateCommit, DispatchCommit, TypeOK
  <2> QED BY <1>4, <2>1, <2>2, CallsLeft
      DEF Next, vars, Tick, CreateRead, RequeueDeadLetter, CallLost, Begin
<1> QED BY <1>2, <1>3, <1>4 DEF WorkHasRide

\* Every step keeps dispatches in their window.
LEMMA StepOnTime == ASSUME IInv, [Next]_vars PROVE DispatchOnTime' /\ NotDispatchedEarly'
<1> TypeOK /\ WorkHasRide /\ DispatchOnTime /\ NotDispatchedEarly
  BY DEF IInv
<1>0. TypeOK'
  BY StepType
<1>1. ASSUME NEW r \in Rides, status[r] # "NONE", scheduledFor[r] - now <= Lead
      PROVE  scheduledFor'[r] - now' <= Lead
  BY <1>0, <1>1, HourKept DEF TypeOK, Hour
<1>2. ASSUME NEW d \in calls', d.op = "dispatch"
      PROVE  scheduledFor'[d.ride] - now' <= Lead
  <2>1. CASE d \in calls
    BY <1>1, <1>2, <2>1, CallFields DEF WorkHasRide, DispatchOnTime, TypeOK
  <2>2. CASE d \notin calls
    <3>1. PICK r \in Rides : DispatchRead(r) /\ d.ride = r
      BY <1>2, <2>2, CallsLeft
      DEF Next, vars, Tick, CreateRead, DispatchRead, RequeueDeadLetter, CancelRead,
          CallStep, CreateCommit, Enqueue, DispatchCommit, Complete, CancelCommit, CallLost,
          Begin
    <3>2. status[r] # "NONE" /\ scheduledFor[r] - now <= Lead
      BY <2>2, <3>1 DEF DispatchRead, DispatchAt, WorkHasRide, TypeOK, Hour
    <3> QED BY <1>1, <3>1, <3>2
  <2> QED BY <2>1, <2>2
<1>3. ASSUME NEW r \in Rides, status'[r] = "DISPATCHING"
      PROVE  scheduledFor'[r] - now' <= Lead
  <2>1. CASE status[r] = "DISPATCHING"
    BY <1>1, <2>1 DEF NotDispatchedEarly
  <2>2. CASE status[r] # "DISPATCHING"
    <3>1. PICK c \in calls : c.op = "dispatch" /\ c.ride = r
      BY <1>3, <2>2, CallFields
      DEF Next, vars, Tick, CreateRead, DispatchRead, RequeueDeadLetter, CancelRead,
          CallStep, CreateCommit, Enqueue, DispatchCommit, Complete, CancelCommit, CallLost,
          TypeOK
    <3> QED BY <1>1, <3>1 DEF WorkHasRide, DispatchOnTime
  <2> QED BY <2>1, <2>2
<1> QED BY <1>2, <1>3 DEF DispatchOnTime, NotDispatchedEarly

\* The inductive invariant holds in every reachable state.
THEOREM Invariance == Spec => []IInv
<1>1. ASSUME IInv, [Next]_vars PROVE IInv'
  BY <1>1, StepType, StepHasRide, StepOnTime DEF IInv
<1> QED BY <1>1, InitInv, PTL DEF Spec

\* The dispatch of a ride never starts more than Lead before its hour, however late the
\* write follows the read.
THEOREM NotDispatchedEarlyAlways == Spec => []NotDispatchedEarly
<1>1. IInv => NotDispatchedEarly
  BY DEF IInv
<1> QED BY <1>1, Invariance, PTL

-----------------------------------------------------------------------------
(* Jobs that are not spent.                                                *)

\* No job is completed while its ride still waits for it: two workers, a late
\* cancellation or a requeue never use up the job that would dispatch the ride.
JobNotSpent == \A r \in Rides : status[r] = "PENDING" => job[r] # "done"

\* Nor is a handler about to complete it.
CompletesDispatched == \A c \in calls : c.op = "complete" => status[c.ride] # "PENDING"

\* A ride waits only if it was just created, or waited before.
LEMMA StillWaits ==
    ASSUME TypeOK, [Next]_vars, NEW r \in Rides, status[r] # "NONE", status'[r] = "PENDING"
    PROVE  status[r] = "PENDING"
<1>1. ASSUME NEW c \in calls, CallStep(c) PROVE status[r] = "PENDING"
  BY <1>1, CallFields
  DEF CallStep, CreateCommit, Enqueue, DispatchCommit, Complete, CancelCommit, TypeOK
<1>2. CASE \/ Tick \/ UNCHANGED vars
           \/ \E q \in Rides, at \in Hour : CreateRead(q, at)
           \/ \E q \in Rides : DispatchRead(q) \/ RequeueDeadLetter(q) \/ CancelRead(q)
           \/ \E c \in calls : CallLost(c)
  BY <1>2 DEF Tick, vars, CreateRead, DispatchRead, RequeueDeadLetter, CancelRead, CallLost
<1> QED BY <1>1, <1>2 DEF Next

LEMMA StepNotSpent ==
    ASSUME IInv, JobNotSpent, CompletesDispatched, [Next]_vars
    PROVE  JobNotSpent' /\ CompletesDispatched'
<1> TypeOK /\ WorkHasRide
  BY DEF IInv
<1>1. ASSUME NEW r \in Rides, status'[r] = "PENDING" PROVE job'[r] # "done"
  <2> SUFFICES ASSUME job'[r] = "done" PROVE FALSE
    OBVIOUS
  <2>1. CASE job[r] = "done"
    BY <1>1, <2>1, StillWaits DEF WorkHasRide, JobNotSpent
  <2>2. CASE job[r] # "done"
    <3>1. CASE DispatchRead(r) /\ ~AwaitsDispatch(r)
      BY <1>1, <3>1 DEF DispatchRead, AwaitsDispatch
    <3>2. CASE \E c \in calls : Complete(c) /\ c.ride = r
      <4>1. PICK c \in calls : Complete(c) /\ c.ride = r
        BY <3>2
      <4> QED BY <1>1, <4>1 DEF Complete, CompletesDispatched
    <3> QED BY <2>2, <3>1, <3>2, CallFields
        DEF Next, vars, Tick, CreateRead, DispatchRead, RequeueDeadLetter, CancelRead,
            CallStep, CreateCommit, Enqueue, DispatchCommit, Complete, CancelCommit,
            CallLost, TypeOK
  <2> QED BY <2>1, <2>2
<1>2. ASSUME NEW d \in calls', d.op = "complete" PROVE status'[d.ride] # "PENDING"
  <2>1. CASE d \in calls
    BY <1>2, <2>1, StillWaits, CallFields DEF WorkHasRide, CompletesDispatched, TypeOK
  <2>2. CASE d \notin calls
    <3>1. PICK c \in calls : DispatchCommit(c) /\ d.ride = c.ride
      BY <1>2, <2>2, CallsLeft
      DEF Next, vars, Tick, CreateRead, DispatchRead, RequeueDeadLetter, CancelRead,
          CallStep, CreateCommit, Enqueue, DispatchCommit, Complete, CancelCommit, CallLost,
          Begin
    <3>2. c.ride \in Rides
      BY CallFields DEF TypeOK
    <3> QED BY <3>1, <3>2 DEF DispatchCommit, TypeOK
  <2> QED BY <2>1, <2>2
<1> QED BY <1>1, <1>2 DEF JobNotSpent, CompletesDispatched

\* What QueuedIsDispatched rests on: the job of a ride that waits is queued or dead, or
\* was not queued yet.
THEOREM JobNotSpentAlways == Spec => []JobNotSpent
<1>1. Init => JobNotSpent /\ CompletesDispatched
  BY DEF Init, JobNotSpent, CompletesDispatched
<1>2. IInv /\ JobNotSpent /\ CompletesDispatched /\ [Next]_vars
          => JobNotSpent' /\ CompletesDispatched'
  BY StepNotSpent
<1> QED BY <1>1, <1>2, Invariance, PTL DEF Spec
=============================================================================
