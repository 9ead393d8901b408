--------------------------- MODULE RideLifecycle ---------------------------
(***************************************************************************)
(* Ride requests, driver reservations, trips and driver availability: the  *)
(* handlers of ride-requests.service.ts, dispatch-coordinator.service.ts,  *)
(* trips.service.ts and drivers.service.ts that write the tables           *)
(* ride_requests, trips and driver_profiles.                               *)
(*                                                                         *)
(* PostgreSQL runs them at READ COMMITTED.  A handler is therefore two or  *)
(* more steps: it reads rows and decides (its record enters calls), and    *)
(* later it writes and commits.  What was read may be stale by then; the   *)
(* WHERE clause of an updateMany is evaluated again against the committed  *)
(* row at the write, the WHERE of an update by id is the id alone.  A      *)
(* handler may also be lost between two steps (crash, timeout, unique      *)
(* violation): CallLost.                                                   *)
(***************************************************************************)
EXTENDS Integers, FiniteSets

CONSTANTS Riders, Drivers, Requests,
          RiderOf,        \* the rider who creates each request
          NoDriver,       \* SQL NULL in assignedDriverId
          Window,         \* length of a reservation, in ticks
          MaxNow,         \* bound on the clock
          MaxCalls        \* bound on the handlers in flight at once

ASSUME RiderOfAssumption == RiderOf \in [Requests -> Riders]
ASSUME NoDriverAssumption == NoDriver \notin Drivers
ASSUME BoundsAssumption == Window \in Nat \ {0} /\ MaxNow \in Nat /\ MaxCalls \in Nat

VARIABLES
    reqStatus,      \* ride_requests.status, "NONE" before the row exists
    assigned,       \* ride_requests.assigned_driver_id
    expiresAt,      \* ride_requests.assignment_expires_at
    trip,           \* trips.status of the request's trip, "NONE" before it exists
    tripDriver,     \* trips.driver_id
    started,        \* trips.started_at is not null
    completed,      \* trips.completed_at is not null
    driverStatus,   \* driver_profiles.status
    now,            \* the database and server clock
    calls           \* handlers between their reads and their last write

reqVars == <<reqStatus, assigned, expiresAt>>
tripVars == <<trip, tripDriver, started, completed>>
vars == <<reqVars, tripVars, driverStatus, now, calls>>

-----------------------------------------------------------------------------
(* Status sets and the transition policy of packages/domain.               *)

RequestStatus == {"NONE", "REQUESTED", "MATCHED", "DRIVER_ARRIVING", "CANCELLED", "FULFILLED"}
ActiveRequest == {"REQUESTED", "MATCHED", "DRIVER_ARRIVING"}
Assignable == {"REQUESTED", "MATCHED"}

TripStatus == {"NONE", "MATCHED", "DRIVER_ARRIVING", "IN_PROGRESS", "COMPLETED", "CANCELLED"}
ActiveTrip == {"MATCHED", "DRIVER_ARRIVING", "IN_PROGRESS"}
NextTripStatus == {"DRIVER_ARRIVING", "IN_PROGRESS", "COMPLETED", "CANCELLED"}

DriverStatus == {"OFFLINE", "ONLINE", "BUSY", "SUSPENDED"}
Roles == {"RIDER", "DRIVER", "ADMIN"}

NoTime == -1        \* SQL NULL in assignmentExpiresAt

\* (mutant) a table that lets a trip be completed before it was started
AllowedTransitionsSkippingStart ==
    { <<"MATCHED", "DRIVER_ARRIVING">>, <<"DRIVER_ARRIVING", "IN_PROGRESS">> }
        \cup (ActiveTrip \X {"COMPLETED", "CANCELLED"})

AllowedTransitions ==
    { <<"MATCHED", "DRIVER_ARRIVING">>, <<"DRIVER_ARRIVING", "IN_PROGRESS">>,
      <<"IN_PROGRESS", "COMPLETED">> } \cup (ActiveTrip \X {"CANCELLED"})

\* updateStatus with the actor policy: riders cancel before departure only,
\* drivers start a trip through verifyPickupCode only.
MayUpdate(role, from, to) ==
    /\ <<from, to>> \in AllowedTransitions
    /\ role = "RIDER" => to = "CANCELLED" /\ from # "IN_PROGRESS"
    /\ role = "DRIVER" => to # "IN_PROGRESS"

-----------------------------------------------------------------------------
(* Rows as the handlers query them.                                         *)

RequestsOfSameRider(r) == {q \in Requests : RiderOf[q] = RiderOf[r]}

RequestIndexMissing(r) == TRUE      \* (mutant) the index was not created

\* The two partial unique indexes: the write that would break one fails.
RequestIndexAllows(r) ==
    \A q \in RequestsOfSameRider(r) \ {r} : reqStatus[q] \notin ActiveRequest
TripIndexAllows(r) ==
    \A q \in RequestsOfSameRider(r) \ {r} : trip[q] \notin ActiveTrip

HasActiveTrip(d) == \E r \in Requests : trip[r] \in ActiveTrip /\ tripDriver[r] = d

\* (mutant) a NULL deadline counts as overdue
NullIsExpired(r, t) == expiresAt[r] < t

\* SQL comparisons with a NULL assignmentExpiresAt are never true.
ExpiredBefore(r, t) == expiresAt[r] # NoTime /\ expiresAt[r] < t
LiveAfter(r, t) == expiresAt[r] # NoTime /\ expiresAt[r] > t

\* (mutant) the claim of an acceptance forgets whose reservation it is
ReservedForAnyone(r, d, t) == reqStatus[r] \in Assignable /\ LiveAfter(r, t)

ReservedFor(r, d, t) ==
    reqStatus[r] \in Assignable /\ assigned[r] = d /\ LiveAfter(r, t)

\* Rows a driver's offer query returns (the compatibility filters select a subset).
Claimable(d) ==
    {r \in Requests : /\ reqStatus[r] \in Assignable
                      /\ assigned[r] \in {NoDriver, d} \/ ExpiredBefore(r, now)}

ExpiredReservations ==
    {<<r, assigned[r]>> : r \in {q \in Requests : /\ reqStatus[q] \in Assignable
                                                  /\ assigned[q] # NoDriver
                                                  /\ ExpiredBefore(q, now)}}

-----------------------------------------------------------------------------
(* The records of calls, one shape per kind of handler.                    *)

CreateCall == [op : {"create", "dispatch", "cancelRequest"}, req : Requests]
ProactiveCall == [op : {"proactive"}, req : Requests, drv : Drivers, at : Nat]
ExpireCall == [op : {"expire"}, rows : SUBSET (Requests \X Drivers), at : Nat,
               then : Drivers \cup {NoDriver}]
ClaimCall == [op : {"offers", "goOffline"}, drv : Drivers, reqs : SUBSET Requests, at : Nat]
AcceptCall == [op : {"accept"}, req : Requests, drv : Drivers, at : Nat]
StatusCall == [op : {"updateStatus"}, req : Requests, role : Roles, to : NextTripStatus]
OnlineCall == [op : {"goOnline"}, drv : Drivers]
SetStatusCall == [op : {"setStatus"}, drv : Drivers, to : {"OFFLINE", "SUSPENDED"}]

Call == CreateCall \cup ProactiveCall \cup ExpireCall \cup ClaimCall
        \cup AcceptCall \cup StatusCall \cup OnlineCall \cup SetStatusCall

Room == Cardinality(calls) < MaxCalls
Begin(c) == Room /\ calls' = calls \cup {c}

IsSweep(c) == c.op = "expire" /\ c.then = NoDriver

\* When a handler goes on, another that holds the same may be left where it was: a
\* call about a request or its trip that is sent twice.
Repeatable(c) == c.op \in {"cancelRequest", "accept", "updateStatus"}
Rest(c) == {calls \ {c}} \cup (IF Repeatable(c) THEN {calls} ELSE {})

Finish(c) == calls' \in Rest(c)
Continue(c, d) == \E rest \in Rest(c) : calls' = rest \cup {d}

ExpireThen(d) == [op |-> "expire", rows |-> ExpiredReservations, at |-> now, then |-> d]

Init ==
    /\ reqStatus = [r \in Requests |-> "NONE"]
    /\ assigned = [r \in Requests |-> NoDriver]
    /\ expiresAt = [r \in Requests |-> NoTime]
    /\ trip = [r \in Requests |-> "NONE"]
    /\ tripDriver = [r \in Requests |-> NoDriver]
    /\ started = [r \in Requests |-> FALSE]
    /\ completed = [r \in Requests |-> FALSE]
    /\ driverStatus = [d \in Drivers |-> "OFFLINE"]
    /\ now = 0
    /\ calls = {}

Tick ==
    /\ now < MaxNow
    /\ now' = now + 1
    /\ UNCHANGED <<reqVars, tripVars, driverStatus, calls>>

CallLost(c) ==
    /\ Finish(c)
    /\ UNCHANGED <<reqVars, tripVars, driverStatus, now>>

-----------------------------------------------------------------------------
(* RideRequestsService: create, its proactive dispatch, cancel.            *)

CreateRead(r) ==
    /\ reqStatus[r] = "NONE"
    /\ \A q \in RequestsOfSameRider(r) :
          reqStatus[q] \notin ActiveRequest /\ trip[q] \notin ActiveTrip
    /\ Begin([op |-> "create", req |-> r])
    /\ UNCHANGED <<reqVars, tripVars, driverStatus, now>>

CreateCommit(c) ==
    /\ c.op = "create"
    /\ reqStatus[c.req] = "NONE"
    /\ RequestIndexAllows(c.req)
    /\ reqStatus' = [reqStatus EXCEPT ![c.req] = "REQUESTED"]
    /\ Continue(c, [op |-> "dispatch", req |-> c.req])
    /\ UNCHANGED <<assigned, expiresAt, tripVars, driverStatus, now>>

\* proactiveDispatch reads the candidates and keeps the best one, if any.
DispatchRead(c) ==
    /\ c.op = "dispatch"
    /\ \/ \E d \in Drivers :
             /\ driverStatus[d] = "ONLINE"
             /\ ~HasActiveTrip(d)
             /\ Continue(c, [op |-> "proactive", req |-> c.req, drv |-> d, at |-> now])
       \/ Finish(c)
    /\ UNCHANGED <<reqVars, tripVars, driverStatus, now>>

DispatchClaim(c) ==
    /\ c.op = "proactive"
    /\ reqStatus[c.req] \in Assignable /\ assigned[c.req] = NoDriver
    /\ assigned' = [assigned EXCEPT ![c.req] = c.drv]
    /\ expiresAt' = [expiresAt EXCEPT ![c.req] = c.at + Window]
    /\ Finish(c)
    /\ UNCHANGED <<reqStatus, tripVars, driverStatus, now>>

CancelRequestRead(r) ==
    /\ trip[r] = "NONE" /\ reqStatus[r] = "REQUESTED"
    /\ Begin([op |-> "cancelRequest", req |-> r])
    /\ UNCHANGED <<reqVars, tripVars, driverStatus, now>>

\* The update is by id: neither the status nor the trip is looked at again.
CancelRequestCommit(c) ==
    /\ c.op = "cancelRequest"
    /\ reqStatus' = [reqStatus EXCEPT ![c.req] = "CANCELLED"]
    /\ Finish(c)
    /\ UNCHANGED <<assigned, expiresAt, tripVars, driverStatus, now>>

-----------------------------------------------------------------------------
(* DispatchCoordinator: expiry, offers, decline, release.                  *)

\* runSweep; sweepInFlight keeps one sweep at a time, outside MaxCalls.
SweepRead ==
    /\ ExpiredReservations # {}
    /\ \A c \in calls : ~IsSweep(c)
    /\ calls' = calls \cup {ExpireThen(NoDriver)}
    /\ UNCHANGED <<reqVars, tripVars, driverStatus, now>>

\* (mutant) the deadline that was read is not tested again at the write
ReleaseWithoutRecheck(row, t) == assigned[row[1]] = row[2]

\* (mutant) the comparison of releaseDriverReservations in the sweep
ReleaseIfLive(row, t) == assigned[row[1]] = row[2] /\ LiveAfter(row[1], t)

\* One updateMany of expireStaleReservations: it tests the driver that was
\* read and the deadline, not the status.
ReleaseMatches(row, t) == assigned[row[1]] = row[2] /\ ExpiredBefore(row[1], t)

Unassign(r) ==
    /\ assigned' = [assigned EXCEPT ![r] = NoDriver]
    /\ expiresAt' = [expiresAt EXCEPT ![r] = NoTime]

ExpireRow(c, row) ==
    /\ c.op = "expire" /\ row \in c.rows
    /\ Continue(c, [c EXCEPT !.rows = @ \ {row}])
    /\ IF ReleaseMatches(row, c.at)
       THEN Unassign(row[1])
       ELSE UNCHANGED <<assigned, expiresAt>>
    /\ UNCHANGED <<reqStatus, tripVars, driverStatus, now>>

\* getOffers first expires stale reservations, then reads what it may claim.
GetOffers(d) ==
    /\ Begin(ExpireThen(d))
    /\ UNCHANGED <<reqVars, tripVars, driverStatus, now>>

ExpireDone(c) ==
    /\ c.op = "expire" /\ c.rows = {}
    /\ \/ /\ c.then # NoDriver
          /\ driverStatus[c.then] = "ONLINE"
          /\ \E S \in SUBSET Claimable(c.then) \ {{}} :
                Continue(c, [op |-> "offers", drv |-> c.then, reqs |-> S, at |-> now])
       \/ Finish(c)
    /\ UNCHANGED <<reqVars, tripVars, driverStatus, now>>

\* (mutant) the updateMany tests the status only
ClaimWithoutReservationTest(r, t) == reqStatus[r] \in Assignable

ClaimMatches(r, t) ==
    reqStatus[r] \in Assignable /\ (assigned[r] = NoDriver \/ ExpiredBefore(r, t))

DropRow(c, r) ==
    IF c.reqs = {r} THEN Finish(c) ELSE Continue(c, [c EXCEPT !.reqs = @ \ {r}])

OfferClaim(c) ==
    /\ c.op = "offers"
    /\ \E r \in c.reqs :
          /\ DropRow(c, r)
          /\ IF ClaimMatches(r, c.at)
             THEN /\ assigned' = [assigned EXCEPT ![r] = c.drv]
                  /\ expiresAt' = [expiresAt EXCEPT ![r] = c.at + Window]
             ELSE UNCHANGED <<assigned, expiresAt>>
    /\ UNCHANGED <<reqStatus, tripVars, driverStatus, now>>

DeclineOffer(d, r) ==
    /\ ReservedFor(r, d, now)
    /\ Unassign(r)
    /\ UNCHANGED <<reqStatus, tripVars, driverStatus, now, calls>>

-----------------------------------------------------------------------------
(* TripsService: accept, pickup code, updateStatus (and forceCloseTrip).   *)

\* at is taken before the fatigue check, so the reads may come later.
AcceptRead(d, r) ==
    /\ driverStatus[d] = "ONLINE"
    /\ ~HasActiveTrip(d)
    /\ \E t \in 0..now : /\ ReservedFor(r, d, t)
                         /\ Begin([op |-> "accept", req |-> r, drv |-> d, at |-> t])
    /\ UNCHANGED <<reqVars, tripVars, driverStatus, now>>

AcceptCommit(c) ==
    /\ c.op = "accept"
    /\ ReservedFor(c.req, c.drv, c.at)
    /\ trip[c.req] = "NONE" /\ TripIndexAllows(c.req)
    /\ reqStatus' = [reqStatus EXCEPT ![c.req] = "MATCHED"]
    /\ expiresAt' = [expiresAt EXCEPT ![c.req] = NoTime]
    /\ trip' = [trip EXCEPT ![c.req] = "MATCHED"]
    /\ tripDriver' = [tripDriver EXCEPT ![c.req] = c.drv]
    /\ driverStatus' = [driverStatus EXCEPT ![c.drv] = "BUSY"]
    /\ Finish(c)
    /\ UNCHANGED <<assigned, started, completed, now>>

\* The read of the challenge needs DRIVER_ARRIVING; the claim tests it again.
VerifyPickupCode(r) ==
    /\ trip[r] = "DRIVER_ARRIVING" /\ ~started[r]
    /\ trip' = [trip EXCEPT ![r] = "IN_PROGRESS"]
    /\ started' = [started EXCEPT ![r] = TRUE]
    /\ UNCHANGED <<reqVars, tripDriver, completed, driverStatus, now, calls>>

UpdateStatusRead(r, role, to) ==
    /\ MayUpdate(role, trip[r], to)
    /\ Begin([op |-> "updateStatus", req |-> r, role |-> role, to |-> to])
    /\ UNCHANGED <<reqVars, tripVars, driverStatus, now>>

\* Only a driver's completion tests the row again; every other transition is
\* an update by id, stopped by the unique indexes alone.
TripWriteAllowed(c) ==
    /\ c.role = "DRIVER" /\ c.to = "COMPLETED"
          => trip[c.req] = "IN_PROGRESS" /\ ~completed[c.req]
    /\ c.to \in ActiveTrip => TripIndexAllows(c.req)
    /\ c.to = "DRIVER_ARRIVING" => RequestIndexAllows(c.req)

\* (mutant) cancelling the trip puts the request back in the queue
RequestAfterRequeued(c) ==
    IF c.to = "IN_PROGRESS" THEN reqStatus[c.req]
    ELSE [DRIVER_ARRIVING |-> "DRIVER_ARRIVING", COMPLETED |-> "FULFILLED",
          CANCELLED |-> "REQUESTED"][c.to]

RequestAfter(c) ==
    CASE c.to = "DRIVER_ARRIVING" -> "DRIVER_ARRIVING"
      [] c.to = "IN_PROGRESS" -> reqStatus[c.req]
      [] c.to = "COMPLETED" -> "FULFILLED"
      [] c.to = "CANCELLED" -> "CANCELLED"

\* A driver who cancels repeatedly is put OFFLINE; the count is abstracted.
DriverAfter(c) ==
    CASE c.to \notin {"COMPLETED", "CANCELLED"} -> {"BUSY"}
      [] c.to = "CANCELLED" /\ c.role = "DRIVER" -> {"ONLINE", "OFFLINE"}
      [] OTHER -> {"ONLINE"}

UpdateStatusCommit(c) ==
    /\ c.op = "updateStatus"
    /\ TripWriteAllowed(c)
    /\ trip' = [trip EXCEPT ![c.req] = c.to]
    /\ started' = [started EXCEPT ![c.req] = @ \/ c.to = "IN_PROGRESS"]
    /\ completed' = [completed EXCEPT ![c.req] = @ \/ c.to = "COMPLETED"]
    /\ reqStatus' = [reqStatus EXCEPT ![c.req] = RequestAfter(c)]
    /\ \E s \in DriverAfter(c) :
          driverStatus' = [driverStatus EXCEPT ![tripDriver[c.req]] = s]
    /\ Finish(c)
    /\ UNCHANGED <<assigned, expiresAt, tripDriver, now>>

-----------------------------------------------------------------------------
(* Driver availability, logout, suspension.                                *)

GoOnlineRead(d) ==
    /\ driverStatus[d] # "SUSPENDED" /\ ~HasActiveTrip(d)
    /\ Begin([op |-> "goOnline", drv |-> d])
    /\ UNCHANGED <<reqVars, tripVars, driverStatus, now>>

\* The write is by id; updateAvailability then calls getOffers.
GoOnlineCommit(c) ==
    /\ c.op = "goOnline"
    /\ driverStatus' = [driverStatus EXCEPT ![c.drv] = "ONLINE"]
    /\ Continue(c, ExpireThen(c.drv))
    /\ UNCHANGED <<reqVars, tripVars, now>>

GoOfflineRead(d) ==
    /\ driverStatus[d] # "SUSPENDED" /\ ~HasActiveTrip(d)
    /\ Begin([op |-> "goOffline", drv |-> d, at |-> now,
              reqs |-> {r \in Requests : ReservedFor(r, d, now)}])
    /\ UNCHANGED <<reqVars, tripVars, driverStatus, now>>

\* releaseDriverReservations, one row at a time.
GoOfflineRelease(c) ==
    /\ c.op = "goOffline"
    /\ \E r \in c.reqs :
          /\ Continue(c, [c EXCEPT !.reqs = @ \ {r}])
          /\ IF assigned[r] = c.drv /\ LiveAfter(r, c.at)
             THEN Unassign(r)
             ELSE UNCHANGED <<assigned, expiresAt>>
    /\ UNCHANGED <<reqStatus, tripVars, driverStatus, now>>

GoOfflineCommit(c) ==
    /\ c.op = "goOffline" /\ c.reqs = {}
    /\ driverStatus' = [driverStatus EXCEPT ![c.drv] = "OFFLINE"]
    /\ Finish(c)
    /\ UNCHANGED <<reqVars, tripVars, now>>

Logout(d) ==
    /\ driverStatus[d] = "ONLINE" /\ ~HasActiveTrip(d)
    /\ driverStatus' = [driverStatus EXCEPT ![d] = "OFFLINE"]
    /\ UNCHANGED <<reqVars, tripVars, now, calls>>

\* suspendDriver, reactivateDriver, upsertOnboarding and the administrator's
\* onboarding review each look at the status once and write theirs by id; none
\* of them looks at trips.
SuspendRead(d) ==
    /\ driverStatus[d] # "SUSPENDED"
    /\ Begin([op |-> "setStatus", drv |-> d, to |-> "SUSPENDED"])
    /\ UNCHANGED <<reqVars, tripVars, driverStatus, now>>

ReactivateRead(d) ==
    /\ driverStatus[d] = "SUSPENDED"
    /\ Begin([op |-> "setStatus", drv |-> d, to |-> "OFFLINE"])
    /\ UNCHANGED <<reqVars, tripVars, driverStatus, now>>

OnboardingRead(d) ==
    /\ Begin([op |-> "setStatus", drv |-> d,
              to |-> IF driverStatus[d] = "SUSPENDED" THEN "SUSPENDED" ELSE "OFFLINE"])
    /\ UNCHANGED <<reqVars, tripVars, driverStatus, now>>

SetStatusCommit(c) ==
    /\ c.op = "setStatus"
    /\ driverStatus' = [driverStatus EXCEPT ![c.drv] = c.to]
    /\ Finish(c)
    /\ UNCHANGED <<reqVars, tripVars, now>>

-----------------------------------------------------------------------------
RequestRead(r) ==
    \/ CreateRead(r)
    \/ CancelRequestRead(r)
    \/ VerifyPickupCode(r)
    \/ \E role \in Roles, to \in NextTripStatus : UpdateStatusRead(r, role, to)

DriverRead(d) ==
    \/ GetOffers(d)
    \/ GoOnlineRead(d)
    \/ GoOfflineRead(d)
    \/ Logout(d)
    \/ SuspendRead(d)
    \/ ReactivateRead(d)
    \/ OnboardingRead(d)

DriverOnRequest(d, r) ==
    \/ DeclineOffer(d, r)
    \/ AcceptRead(d, r)

CallStep(c) ==
    \/ CreateCommit(c)
    \/ DispatchRead(c)
    \/ DispatchClaim(c)
    \/ CancelRequestCommit(c)
    \/ \E r \in Requests, d \in Drivers : ExpireRow(c, <<r, d>>)
    \/ ExpireDone(c)
    \/ OfferClaim(c)
    \/ AcceptCommit(c)
    \/ UpdateStatusCommit(c)
    \/ GoOnlineCommit(c)
    \/ GoOfflineRelease(c)
    \/ GoOfflineCommit(c)
    \/ SetStatusCommit(c)
    \/ CallLost(c)

Next ==
    \/ Tick
    \/ SweepRead
    \/ \E r \in Requests : RequestRead(r)
    \/ \E d \in Drivers : DriverRead(d)
    \/ \E d \in Drivers, r \in Requests : DriverOnRequest(d, r)
    \/ \E c \in calls : CallStep(c)

Spec == Init /\ [][Next]_vars

\* The periodic sweep of driver-reservation-expiry.service.ts runs again and
\* again, and a sweep that is not cut off goes through the rows it read.  A row
\* that sweep after sweep comes to is in the end written: crashes do not hit
\* that one row every time.  Nothing is assumed of riders, drivers and admins.
SweepFairness ==
    /\ WF_vars(SweepRead)
    /\ WF_vars(\E c \in calls : IsSweep(c) /\ ExpireDone(c))
    /\ \A r \in Requests : SF_vars(\E c \in calls, d \in Drivers :
                                        IsSweep(c) /\ ExpireRow(c, <<r, d>>))

FairSpec == Spec /\ SweepFairness

-----------------------------------------------------------------------------
(* Properties.                                                             *)

\* Types of every variable, and of the handlers in flight.
TypeOK ==
    /\ reqStatus \in [Requests -> RequestStatus]
    /\ assigned \in [Requests -> Drivers \cup {NoDriver}]
    /\ expiresAt \in [Requests -> Nat \cup {NoTime}]
    /\ trip \in [Requests -> TripStatus]
    /\ tripDriver \in [Requests -> Drivers \cup {NoDriver}]
    /\ started \in [Requests -> BOOLEAN]
    /\ completed \in [Requests -> BOOLEAN]
    /\ driverStatus \in [Drivers -> DriverStatus]
    /\ now \in Nat
    /\ calls \subseteq Call

\* Once a driver's acceptance created the trip, no other dispatch path takes the
\* request away: it stays assigned to the trip's driver, with no deadline.  The
\* request stays MATCHED, a status every claim accepts; only the NULL deadline
\* written by acceptRideRequest protects it from offers, sweeps and releases.
AcceptedKeepsDriver ==
    \A r \in Requests :
        trip[r] # "NONE" => /\ assigned[r] = tripDriver[r] /\ assigned[r] # NoDriver
                            /\ expiresAt[r] = NoTime

\* A rider never has two open requests or two live trips, whatever creates,
\* acceptances and late status writes overlap: the partial unique indexes.
RiderSingleFlow ==
    \A r \in Requests : \A q \in RequestsOfSameRider(r) \ {r} :
        /\ ~(reqStatus[r] \in ActiveRequest /\ reqStatus[q] \in ActiveRequest)
        /\ ~(trip[r] \in ActiveTrip /\ trip[q] \in ActiveTrip)

\* A request without a trip is still open or was cancelled, and a request with
\* one never looks open for matching again (REQUESTED): a late write of one
\* handler never undoes the acceptance of another.
RequestTripAgree ==
    \A r \in Requests :
        /\ trip[r] = "NONE" => reqStatus[r] \in {"NONE", "REQUESTED", "CANCELLED"}
        /\ trip[r] # "NONE" => reqStatus[r] \notin {"NONE", "REQUESTED"}

\* No trip is completed (priced, charged, paid out) that was never started with
\* the pickup code or by an operator, even when the completing write is late.
CompletedWasStarted ==
    \A r \in Requests : completed[r] \/ trip[r] \in {"IN_PROGRESS", "COMPLETED"} => started[r]

\* What a handler knows of the rows when it comes to write, however stale its
\* reads: its clock is not ahead, the request it works on exists, and the trip
\* whose status it writes exists and was started if it is to be completed.
Coherent(c) ==
    /\ c.op \in {"proactive", "expire", "offers", "goOffline", "accept"} => c.at <= now
    /\ c.op \in {"dispatch", "proactive", "cancelRequest"} => reqStatus[c.req] # "NONE"
    /\ c.op = "updateStatus" => trip[c.req] # "NONE" /\ (c.to = "COMPLETED" => started[c.req])
CallsCoherent == \A c \in calls : Coherent(c)

\* While a reservation is live nobody else gets the request: a claim computed
\* from an old read never overrides it, it ends by release or acceptance.
LeaseNotStolen ==
    [][\A r \in Requests :
          assigned[r] # NoDriver /\ (expiresAt[r] = NoTime \/ expiresAt[r] >= now)
              => assigned'[r] \in {assigned[r], NoDriver}]_vars

\* The driver the request is reserved for accepts it, with a clock before the deadline.
AcceptedInTime(r) ==
    \E c \in calls : /\ c.op = "accept" /\ c.req = r
                     /\ c.drv = assigned[r] /\ LiveAfter(r, c.at)

\* A trip appears only for the driver whom the request is reserved for at that moment,
\* whose acceptance read its clock before the deadline, at most once per request, and
\* its driver never changes.  The clock is read before the fatigue check
\* (trips.service.ts:733): a reservation that is overdue by now, and that nobody has
\* released or taken since, may still be accepted.
TripForHolderOnly ==
    [][\A r \in Requests :
          IF trip[r] = "NONE"
          THEN trip'[r] # "NONE" =>
                  /\ trip'[r] = "MATCHED" /\ tripDriver'[r] = assigned[r]
                  /\ AcceptedInTime(r)
          ELSE trip'[r] # "NONE" /\ tripDriver'[r] = tripDriver[r]]_vars

\* A reservation whose holder neither accepts nor declines does not keep the
\* request for ever: the sweep, an offer query or a cancellation ends it, even
\* if sweeps are cut off between their read and their writes.
LeaseExpired(r) ==
    reqStatus[r] \in Assignable /\ assigned[r] # NoDriver /\ ExpiredBefore(r, now)
ExpiredReservationEnds == \A r \in Requests : LeaseExpired(r) ~> ~LeaseExpired(r)

\* The abstract lease of one driver per request that dispatch implements.
TripExists == [r \in Requests |-> trip[r] # "NONE"]
Lease == INSTANCE OfferLease WITH
            Items <- Requests, Holders <- Drivers, Nobody <- NoDriver,
            Term <- Window, Never <- NoTime,
            holder <- assigned, deadline <- expiresAt, taken <- TripExists,
            owner <- tripDriver, clock <- now

\* Claims, sweeps, declines, going offline and acceptance, however they overlap,
\* are steps of that lease: granted when free or expired, taken by its holder.
ImplementsLease == Lease!LeaseSpec

\* "This request already has an active trip. Cancel the trip instead."
\* (cancel): a live trip's request is not cancelled.
LiveTripRequestOpen ==
    \A r \in Requests : trip[r] \in ActiveTrip => reqStatus[r] # "CANCELLED"
=============================================================================
