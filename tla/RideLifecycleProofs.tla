------------------------ MODULE RideLifecycleProofs ------------------------
(* Proofs about RideLifecycle, for all riders, drivers, requests, bounds.   *)
EXTENDS RideLifecycle, TLAPS

-----------------------------------------------------------------------------
(* The shape of a handler in flight follows from its op.                    *)

\* Each kind of handler is recognised by its op, so a step that tests op knows
\* the fields of its record.
LEMMA CallShape ==
    ASSUME NEW c \in Call
    PROVE  /\ c.op \in {"create", "dispatch", "cancelRequest"} => c \in CreateCall
           /\ c.op = "proactive" => c \in ProactiveCall
           /\ c.op = "expire" => c \in ExpireCall
           /\ c.op \in {"offers", "goOffline"} => c \in ClaimCall
           /\ c.op = "accept" => c \in AcceptCall
           /\ c.op = "updateStatus" => c \in StatusCall
           /\ c.op = "goOnline" => c \in OnlineCall
           /\ c.op = "setStatus" => c \in SetStatusCall
  BY DEF Call, CreateCall, ProactiveCall, ExpireCall, ClaimCall, AcceptCall,
         StatusCall, OnlineCall, SetStatusCall

\* An expiry computed now is a well-formed handler.
LEMMA ExpireThenType ==
    ASSUME TypeOK, NEW d \in Drivers \cup {NoDriver}
    PROVE  ExpireThen(d) \in ExpireCall
  <1>1. ExpiredReservations \in SUBSET (Requests \X Drivers)
    BY NoDriverAssumption DEF ExpiredReservations, TypeOK, ExpiredBefore
  <1>2. QED
    BY <1>1 DEF ExpireThen, ExpireCall, TypeOK

\* A handler that ends leaves no new one, one that goes on its continuation only.
LEMMA CallsLeft ==
    ASSUME NEW c
    PROVE  /\ Finish(c) => calls' \subseteq calls
           /\ \A d : Continue(c, d) => calls' \subseteq calls \cup {d}
  BY DEF Finish, Continue, Rest

\* Starting, ending or replacing a handler keeps calls well-formed.
LEMMA CallsType ==
    ASSUME TypeOK, NEW c, NEW d \in Call,
           Begin(d) \/ Finish(c) \/ Continue(c, d)
    PROVE  calls' \subseteq Call
  BY CallsLeft DEF TypeOK, Begin

-----------------------------------------------------------------------------
(* Type correctness.                                                        *)

\* The steps that only start a handler, answer at once, or move the clock.
LEMMA TypeRead ==
    ASSUME TypeOK,
           \/ Tick
           \/ SweepRead
           \/ \E r \in Requests : RequestRead(r)
           \/ \E d \in Drivers : DriverRead(d)
           \/ \E d \in Drivers, r \in Requests : DriverOnRequest(d, r)
    PROVE  TypeOK'
  <1>1. CASE Tick
    BY <1>1 DEF Tick, TypeOK, reqVars, tripVars
  <1>2. CASE SweepRead
    <2>1. ExpireThen(NoDriver) \in Call
      BY ExpireThenType DEF Call
    <2>2. QED
      BY <1>2, <2>1 DEF SweepRead, TypeOK, reqVars, tripVars
  <1>3. ASSUME NEW r \in Requests, RequestRead(r) PROVE TypeOK'
    <2>1. CASE CreateRead(r)
      <3>1. [op |-> "create", req |-> r] \in Call
        BY DEF Call, CreateCall
      <3>2. QED
        BY <2>1, <3>1, CallsType DEF CreateRead, TypeOK, reqVars, tripVars
    <2>2. CASE CancelRequestRead(r)
      <3>1. [op |-> "cancelRequest", req |-> r] \in Call
        BY DEF Call, CreateCall
      <3>2. QED
        BY <2>2, <3>1, CallsType DEF CancelRequestRead, TypeOK, reqVars, tripVars
    <2>3. CASE VerifyPickupCode(r)
      BY <2>3 DEF VerifyPickupCode, TypeOK, TripStatus, reqVars
    <2>4. ASSUME NEW role \in Roles, NEW to \in NextTripStatus, UpdateStatusRead(r, role, to)
          PROVE  TypeOK'
      <3>1. [op |-> "updateStatus", req |-> r, role |-> role, to |-> to] \in Call
        BY DEF Call, StatusCall
      <3>2. QED
        BY <2>4, <3>1, CallsType DEF UpdateStatusRead, TypeOK, reqVars, tripVars
    <2>5. QED
      BY <1>3, <2>1, <2>2, <2>3, <2>4 DEF RequestRead
  <1>4. ASSUME NEW d \in Drivers, DriverRead(d) PROVE TypeOK'
    <2>1. CASE GetOffers(d)
      <3>1. ExpireThen(d) \in Call
        BY ExpireThenType DEF Call
      <3>2. QED
        BY <2>1, <3>1, CallsType DEF GetOffers, TypeOK, reqVars, tripVars
    <2>2. CASE GoOnlineRead(d)
      <3>1. [op |-> "goOnline", drv |-> d] \in Call
        BY DEF Call, OnlineCall
      <3>2. QED
        BY <2>2, <3>1, CallsType DEF GoOnlineRead, TypeOK, reqVars, tripVars
    <2>3. CASE GoOfflineRead(d)
      <3> DEFINE c == [op |-> "goOffline", drv |-> d, at |-> now,
                       reqs |-> {r \in Requests : ReservedFor(r, d, now)}]
      <3>1. c \in Call
        BY DEF Call, ClaimCall, TypeOK
      <3>2. QED
        BY <2>3, <3>1, CallsType DEF GoOfflineRead, TypeOK, reqVars, tripVars
    <2>4. CASE Logout(d)
      BY <2>4 DEF Logout, TypeOK, DriverStatus, reqVars, tripVars
    <2>5. CASE SuspendRead(d) \/ ReactivateRead(d) \/ OnboardingRead(d)
      <3>1. \A s \in {"OFFLINE", "SUSPENDED"} : [op |-> "setStatus", drv |-> d, to |-> s] \in Call
        BY DEF Call, SetStatusCall
      <3>2. QED
        BY <2>5, <3>1, CallsType DEF SuspendRead, ReactivateRead, OnboardingRead, TypeOK,
                                     reqVars, tripVars
    <2>6. QED
      BY <1>4, <2>1, <2>2, <2>3, <2>4, <2>5 DEF DriverRead
  <1>5. ASSUME NEW d \in Drivers, NEW r \in Requests, DriverOnRequest(d, r) PROVE TypeOK'
    <2>1. CASE DeclineOffer(d, r)
      BY <2>1 DEF DeclineOffer, Unassign, TypeOK, tripVars
    <2>2. CASE AcceptRead(d, r)
      <3>1. PICK t \in 0..now : Begin([op |-> "accept", req |-> r, drv |-> d, at |-> t])
        BY <2>2 DEF AcceptRead
      <3>2. [op |-> "accept", req |-> r, drv |-> d, at |-> t] \in Call
        BY DEF Call, AcceptCall, TypeOK
      <3>3. QED
        BY <2>2, <3>1, <3>2, CallsType DEF AcceptRead, TypeOK, reqVars, tripVars
    <2>3. QED
      BY <1>5, <2>1, <2>2 DEF DriverOnRequest
  <1>6. QED
    BY <1>1, <1>2, <1>3, <1>4, <1>5

\* The steps of a handler in flight.
LEMMA TypeCallStep ==
    ASSUME TypeOK, NEW c \in calls, CallStep(c)
    PROVE  TypeOK'
  <1> USE DEF reqVars, tripVars
  <1>c. c \in Call
    BY DEF TypeOK
  <1>1. CASE CreateCommit(c)
    <2>1. c.req \in Requests /\ [op |-> "dispatch", req |-> c.req] \in Call
      BY <1>1, <1>c, CallShape DEF CreateCommit, CreateCall, Call
    <2>2. QED
      BY <1>1, <2>1, CallsType DEF CreateCommit, TypeOK, RequestStatus
  <1>2. CASE DispatchRead(c)
    <2>1. CASE \E d \in Drivers :
                  Continue(c, [op |-> "proactive", req |-> c.req, drv |-> d, at |-> now])
      <3>1. PICK d \in Drivers :
                  Continue(c, [op |-> "proactive", req |-> c.req, drv |-> d, at |-> now])
        BY <2>1
      <3>2. [op |-> "proactive", req |-> c.req, drv |-> d, at |-> now] \in Call
        BY <1>2, <1>c, CallShape DEF DispatchRead, CreateCall, ProactiveCall, Call, TypeOK
      <3>3. QED
        BY <1>2, <3>1, <3>2, CallsType DEF DispatchRead, TypeOK
    <2>2. CASE Finish(c)
      BY <1>2, <2>2, CallsLeft DEF DispatchRead, TypeOK
    <2>3. QED
      BY <1>2, <2>1, <2>2 DEF DispatchRead
  <1>3. CASE DispatchClaim(c)
    <2>1. c \in ProactiveCall
      BY <1>3, <1>c, CallShape DEF DispatchClaim
    <2>2. QED
      BY <1>3, <2>1, BoundsAssumption, CallsLeft DEF DispatchClaim, ProactiveCall, TypeOK
  <1>4. CASE CancelRequestCommit(c)
    BY <1>4, <1>c, CallShape, CallsLeft DEF CancelRequestCommit, CreateCall, TypeOK, RequestStatus
  <1>5. ASSUME NEW r \in Requests, NEW d \in Drivers, ExpireRow(c, <<r, d>>) PROVE TypeOK'
    <2>1. c \in ExpireCall
      BY <1>5, <1>c, CallShape DEF ExpireRow
    <2>2. [c EXCEPT !.rows = @ \ {<<r, d>>}] \in Call
      BY <2>1 DEF ExpireCall, Call
    <2>3. assigned' \in [Requests -> Drivers \cup {NoDriver}] /\ expiresAt' \in [Requests -> Nat \cup {NoTime}]
      BY <1>5 DEF ExpireRow, Unassign, TypeOK
    <2>4. calls' \subseteq Call
      BY <1>5, <2>2, CallsType DEF ExpireRow
    <2>5. QED
      BY <1>5, <2>3, <2>4 DEF ExpireRow, TypeOK
  <1>6. CASE ExpireDone(c)
    <2>1. CASE Finish(c)
      BY <1>6, <2>1, CallsLeft DEF ExpireDone, TypeOK
    <2>2. ASSUME c.then # NoDriver, NEW S \in SUBSET Claimable(c.then),
                 Continue(c, [op |-> "offers", drv |-> c.then, reqs |-> S, at |-> now])
          PROVE  TypeOK'
      <3>1. c \in ExpireCall
        BY <1>6, <1>c, CallShape DEF ExpireDone
      <3>2. [op |-> "offers", drv |-> c.then, reqs |-> S, at |-> now] \in Call
        BY <2>2, <3>1 DEF ExpireCall, ClaimCall, Call, Claimable, TypeOK
      <3>3. QED
        BY <1>6, <2>2, <3>2, CallsType DEF ExpireDone, TypeOK
    <2>3. QED
      BY <1>6, <2>1, <2>2 DEF ExpireDone
  <1>7. CASE OfferClaim(c)
    <2>1. c \in ClaimCall
      BY <1>7, <1>c, CallShape DEF OfferClaim
    <2>2. PICK r \in c.reqs :
             /\ DropRow(c, r)
             /\ IF ClaimMatches(r, c.at)
                THEN /\ assigned' = [assigned EXCEPT ![r] = c.drv]
                     /\ expiresAt' = [expiresAt EXCEPT ![r] = c.at + Window]
                ELSE UNCHANGED <<assigned, expiresAt>>
      BY <1>7 DEF OfferClaim
    <2>3. calls' \subseteq Call
      <3>1. [c EXCEPT !.reqs = @ \ {r}] \in Call
        BY <2>1 DEF ClaimCall, Call
      <3>2. QED
        BY <2>2, <3>1, CallsType DEF DropRow
    <2>4. assigned' \in [Requests -> Drivers \cup {NoDriver}] /\ expiresAt' \in [Requests -> Nat \cup {NoTime}]
      BY <2>1, <2>2, BoundsAssumption DEF ClaimCall, TypeOK
    <2>5. QED
      BY <1>7, <2>3, <2>4 DEF OfferClaim, TypeOK
  <1>8. CASE AcceptCommit(c)
    <2>1. c \in AcceptCall
      BY <1>8, <1>c, CallShape DEF AcceptCommit
    <2>2. QED
      BY <1>8, <2>1, CallsLeft DEF AcceptCommit, AcceptCall, TypeOK, RequestStatus, TripStatus,
                        DriverStatus
  <1>9. CASE UpdateStatusCommit(c)
    <2>1. c \in StatusCall
      BY <1>9, <1>c, CallShape DEF UpdateStatusCommit
    <2>2. RequestAfter(c) \in RequestStatus
      BY <2>1 DEF RequestAfter, RequestStatus, StatusCall, NextTripStatus, TypeOK
    <2>3. DriverAfter(c) \subseteq DriverStatus
      BY <2>1 DEF DriverAfter, DriverStatus
    <2>4. driverStatus' \in [Drivers -> DriverStatus]
      BY <1>9, <2>3 DEF UpdateStatusCommit, TypeOK
    <2>5. QED
      BY <1>9, <2>1, <2>2, <2>4, CallsLeft DEF UpdateStatusCommit, StatusCall, TypeOK, TripStatus,
                                    NextTripStatus
  <1>10. CASE GoOnlineCommit(c)
    <2>1. c.drv \in Drivers
      BY <1>10, <1>c, CallShape DEF GoOnlineCommit, OnlineCall
    <2>2. ExpireThen(c.drv) \in Call
      BY <2>1, ExpireThenType DEF Call
    <2>3. QED
      BY <1>10, <2>1, <2>2, CallsType DEF GoOnlineCommit, TypeOK, DriverStatus
  <1>11. CASE GoOfflineRelease(c)
    <2>1. c \in ClaimCall
      BY <1>11, <1>c, CallShape DEF GoOfflineRelease
    <2>2. PICK r \in c.reqs :
             /\ Continue(c, [c EXCEPT !.reqs = @ \ {r}])
             /\ IF assigned[r] = c.drv /\ LiveAfter(r, c.at)
                THEN Unassign(r)
                ELSE UNCHANGED <<assigned, expiresAt>>
      BY <1>11 DEF GoOfflineRelease
    <2>3. [c EXCEPT !.reqs = @ \ {r}] \in Call
      BY <2>1 DEF ClaimCall, Call
    <2>4. assigned' \in [Requests -> Drivers \cup {NoDriver}] /\ expiresAt' \in [Requests -> Nat \cup {NoTime}]
      BY <2>2 DEF Unassign, TypeOK
    <2>5. calls' \subseteq Call
      BY <2>2, <2>3, CallsType
    <2>6. QED
      BY <1>11, <2>4, <2>5 DEF GoOfflineRelease, TypeOK
  <1>12. CASE GoOfflineCommit(c)
    BY <1>12, <1>c, CallShape, CallsLeft DEF GoOfflineCommit, ClaimCall, TypeOK, DriverStatus
  <1>13. CASE SetStatusCommit(c)
    BY <1>13, <1>c, CallShape, CallsLeft DEF SetStatusCommit, SetStatusCall, TypeOK, DriverStatus
  <1>14. CASE CallLost(c)
    BY <1>14, CallsLeft DEF CallLost, TypeOK
  <1>15. QED
    BY <1>1, <1>2, <1>3, <1>4, <1>5, <1>6, <1>7, <1>8, <1>9, <1>10, <1>11, <1>12, <1>13, <1>14
       DEF CallStep

\* Every handler keeps every column and every handler in flight well-formed: in
\* particular no status outside the column's enum is ever written.
THEOREM TypeCorrect == Spec => []TypeOK
  <1>1. Init => TypeOK
    BY DEF Init, TypeOK, RequestStatus, TripStatus, DriverStatus
  <1>2. TypeOK /\ [Next]_vars => TypeOK'
    <2> SUFFICES ASSUME TypeOK, [Next]_vars PROVE TypeOK'
      OBVIOUS
    <2>1. CASE Next
      BY <2>1, TypeRead, TypeCallStep DEF Next
    <2>2. CASE UNCHANGED vars
      BY <2>2 DEF vars, reqVars, tripVars, TypeOK
    <2>3. QED
      BY <2>1, <2>2
  <1>3. QED
    BY <1>1, <1>2, PTL DEF Spec

-----------------------------------------------------------------------------
(* The inductive invariant.                                                 *)

\* What relates the rows, and what the handlers in flight know of them: a late
\* updateStatus is harmless to these because the trip it read still exists.
RowInv == AcceptedKeepsDriver /\ RiderSingleFlow /\ RequestTripAgree /\ CompletedWasStarted
IInv == TypeOK /\ CallsCoherent /\ RowInv

\* Rows never disappear, a start is never undone and the clock does not go back.
Stable ==
    /\ now <= now'
    /\ \A r \in Requests : /\ trip[r] # "NONE" => trip'[r] # "NONE"
                           /\ reqStatus[r] # "NONE" => reqStatus'[r] # "NONE"
                           /\ started[r] => started'[r]

LEMMA Stability ==
    ASSUME TypeOK, [Next]_vars
    PROVE  Stable
  <1> USE DEF reqVars, tripVars
  <1>1. CASE UNCHANGED <<reqStatus, tripVars>> /\ now' \in {now, now + 1}
    BY <1>1 DEF TypeOK, Stable
  <1>2. ASSUME NEW r \in Requests, RequestRead(r) \/ \E d \in Drivers : DriverOnRequest(d, r)
        PROVE \/ VerifyPickupCode(r)
              \/ UNCHANGED <<reqStatus, tripVars, now>>
    BY <1>2 DEF RequestRead, DriverOnRequest, CreateRead, CancelRequestRead, UpdateStatusRead,
                DeclineOffer, AcceptRead
  <1>3. ASSUME NEW d \in Drivers, DriverRead(d)
        PROVE  UNCHANGED <<reqStatus, tripVars, now>>
    BY <1>3 DEF DriverRead, GetOffers, GoOnlineRead, GoOfflineRead, Logout, SuspendRead,
                ReactivateRead, OnboardingRead
  <1>4. ASSUME NEW c \in calls, CallStep(c)
        PROVE \/ CreateCommit(c) \/ CancelRequestCommit(c)
              \/ AcceptCommit(c) \/ UpdateStatusCommit(c)
              \/ UNCHANGED <<reqStatus, tripVars, now>>
    BY <1>4 DEF CallStep, DispatchRead, DispatchClaim, ExpireRow, ExpireDone, OfferClaim,
                GoOnlineCommit, GoOfflineRelease, GoOfflineCommit, SetStatusCommit, CallLost
  <1>5. ASSUME NEW r \in Requests, VerifyPickupCode(r)
        PROVE  /\ UNCHANGED <<reqStatus, now>>
               /\ trip' = [trip EXCEPT ![r] = "IN_PROGRESS"]
               /\ started' = [started EXCEPT ![r] = TRUE]
    BY <1>5 DEF VerifyPickupCode
  <1>6. ASSUME NEW c \in calls,
               CreateCommit(c) \/ CancelRequestCommit(c) \/ AcceptCommit(c) \/ UpdateStatusCommit(c)
        PROVE  /\ now' = now
               /\ \A r \in Requests : /\ trip[r] # "NONE" => trip'[r] # "NONE"
                                      /\ reqStatus[r] # "NONE" => reqStatus'[r] # "NONE"
                                      /\ started[r] => started'[r]
    <2>c. c \in Call
      BY DEF TypeOK
    <2>1. CASE CreateCommit(c)
      BY <2>1 DEF CreateCommit, TypeOK
    <2>2. CASE CancelRequestCommit(c)
      BY <2>2 DEF CancelRequestCommit, TypeOK
    <2>3. CASE AcceptCommit(c)
      BY <2>3 DEF AcceptCommit, TypeOK
    <2>4. CASE UpdateStatusCommit(c)
      <3>1. c \in StatusCall
        BY <2>4, <2>c, CallShape DEF UpdateStatusCommit
      <3>2. RequestAfter(c) # "NONE" \/ RequestAfter(c) = reqStatus[c.req]
        BY <3>1 DEF RequestAfter, StatusCall, NextTripStatus
      <3>3. \A r \in Requests : started[r] => started'[r]
        BY <2>4, <3>1 DEF UpdateStatusCommit, StatusCall, TypeOK
      <3>4. QED
        BY <2>4, <3>1, <3>2, <3>3 DEF UpdateStatusCommit, StatusCall, NextTripStatus, TypeOK
    <2>5. QED
      BY <1>6, <2>1, <2>2, <2>3, <2>4
  <1>7. CASE Tick \/ SweepRead \/ UNCHANGED vars
    BY <1>7, <1>1 DEF Tick, SweepRead, vars
  <1>8. CASE \E r \in Requests : VerifyPickupCode(r)
    BY <1>8, <1>5 DEF TypeOK, Stable
  <1>9. ASSUME NEW r \in Requests, RequestRead(r) \/ \E d \in Drivers : DriverOnRequest(d, r)
        PROVE  Stable
    BY <1>1, <1>2, <1>8, <1>9
  <1>10. CASE \E c \in calls : CallStep(c)
    <2>1. PICK c \in calls : CallStep(c)
      BY <1>10
    <2>2. CASE UNCHANGED <<reqStatus, tripVars, now>>
      BY <1>1, <2>2
    <2>3. QED
      BY <1>4, <1>6, <2>1, <2>2 DEF TypeOK, Stable
  <1>11. ASSUME NEW d \in Drivers, DriverRead(d) PROVE Stable
    BY <1>1, <1>3, <1>11
  <1>12. QED
    BY <1>7, <1>9, <1>10, <1>11 DEF Next

\* A handler in flight stays coherent whatever the others do.
LEMMA CoherentKept ==
    ASSUME TypeOK, CallsCoherent, Stable, now' \in Nat, NEW c \in calls
    PROVE  Coherent(c)'
  <1>1. c \in Call /\ Coherent(c)
    BY DEF TypeOK, CallsCoherent
  <1>2. CASE c.op \in {"proactive", "expire", "offers", "goOffline", "accept"}
    <2>1. c.at \in Nat /\ c.at <= now
      BY <1>1, <1>2, CallShape DEF Coherent, ProactiveCall, ExpireCall, ClaimCall, AcceptCall
    <2>2. c.op = "proactive" => c.req \in Requests
      BY <1>1, CallShape DEF ProactiveCall
    <2>3. QED
      BY <1>1, <1>2, <2>1, <2>2 DEF Coherent, Stable, TypeOK
  <1>3. CASE c.op \in {"dispatch", "cancelRequest"}
    BY <1>1, <1>3, CallShape DEF Coherent, Stable, CreateCall
  <1>4. CASE c.op = "updateStatus"
    BY <1>1, <1>4, CallShape DEF Coherent, Stable, StatusCall
  <1>5. QED
    BY <1>2, <1>3, <1>4 DEF Coherent

\* A handler that reads and starts, or goes on to its next step, is coherent.
LEMMA CoherentNew ==
    ASSUME TypeOK, CallsCoherent, CompletedWasStarted, Stable, Next,
           NEW n \in calls' \ calls
    PROVE  Coherent(n)'
  <1>1. CASE Tick
    BY <1>1 DEF Tick
  <1>2. CASE SweepRead
    BY <1>2 DEF SweepRead, ExpireThen, Coherent, TypeOK
  <1>3. ASSUME NEW r \in Requests, RequestRead(r) PROVE Coherent(n)'
    <2>1. CASE CreateRead(r) \/ CancelRequestRead(r) \/ VerifyPickupCode(r)
      BY <2>1 DEF CreateRead, CancelRequestRead, VerifyPickupCode, Begin, Coherent, reqVars
    <2>2. ASSUME NEW role \in Roles, NEW to \in NextTripStatus, UpdateStatusRead(r, role, to)
          PROVE  Coherent(n)'
      <3>1. <<trip[r], to>> \in AllowedTransitions
        BY <2>2 DEF UpdateStatusRead, MayUpdate
      <3>2. trip[r] # "NONE" /\ (to = "COMPLETED" => trip[r] = "IN_PROGRESS")
        BY <3>1 DEF AllowedTransitions, ActiveTrip
      <3>3. to = "COMPLETED" => started[r]
        BY <3>2 DEF CompletedWasStarted
      <3>4. n = [op |-> "updateStatus", req |-> r, role |-> role, to |-> to]
        BY <2>2 DEF UpdateStatusRead, Begin
      <3>5. QED
        BY <2>2, <3>2, <3>3, <3>4 DEF UpdateStatusRead, Coherent, tripVars
    <2>3. QED
      BY <1>3, <2>1, <2>2 DEF RequestRead
  <1>4. ASSUME NEW d \in Drivers, DriverRead(d) PROVE Coherent(n)'
    <2>1. CASE GetOffers(d)
      BY <2>1 DEF GetOffers, ExpireThen, Begin, Coherent, TypeOK
    <2>2. CASE GoOfflineRead(d)
      BY <2>2 DEF GoOfflineRead, Begin, Coherent, TypeOK
    <2>3. CASE GoOnlineRead(d) \/ Logout(d)
      BY <2>3 DEF GoOnlineRead, Logout, Begin, Coherent
    <2>4. CASE SuspendRead(d) \/ ReactivateRead(d) \/ OnboardingRead(d)
      BY <2>4 DEF SuspendRead, ReactivateRead, OnboardingRead, Begin, Coherent
    <2>5. QED
      BY <1>4, <2>1, <2>2, <2>3, <2>4 DEF DriverRead
  <1>5. ASSUME NEW d \in Drivers, NEW r \in Requests, DriverOnRequest(d, r)
        PROVE  Coherent(n)'
    <2>1. CASE DeclineOffer(d, r)
      BY <2>1 DEF DeclineOffer
    <2>2. CASE AcceptRead(d, r)
      BY <2>2 DEF AcceptRead, Begin, Coherent, TypeOK
    <2>3. QED
      BY <1>5, <2>1, <2>2 DEF DriverOnRequest
  <1>6. ASSUME NEW c \in calls, CallStep(c) PROVE Coherent(n)'
    <2>c. c \in Call /\ Coherent(c)
      BY DEF TypeOK, CallsCoherent
    <2>n. ~Finish(c) /\ \A d : Continue(c, d) => n = d
      BY CallsLeft
    <2>1. CASE CreateCommit(c)
      <3>1. c.req \in Requests
        BY <2>1, <2>c, CallShape DEF CreateCommit, CreateCall
      <3>2. QED
        BY <2>1, <2>n, <3>1 DEF CreateCommit, Coherent, TypeOK
    <2>2. CASE DispatchRead(c)
      <3>1. PICK d \in Drivers :
               Continue(c, [op |-> "proactive", req |-> c.req, drv |-> d, at |-> now])
        BY <2>2, <2>n DEF DispatchRead
      <3>2. n = [op |-> "proactive", req |-> c.req, drv |-> d, at |-> now]
        BY <2>n, <3>1
      <3>3. n.op = "proactive" /\ n.req = c.req /\ n.at = now
        BY <3>2
      <3>4. reqStatus'[c.req] # "NONE" /\ now' = now
        BY <2>2, <2>c DEF DispatchRead, Coherent, reqVars
      <3>5. QED
        BY <3>3, <3>4 DEF Coherent, TypeOK
    <2>3. CASE DispatchClaim(c) \/ CancelRequestCommit(c) \/ AcceptCommit(c)
               \/ UpdateStatusCommit(c) \/ GoOfflineCommit(c) \/ SetStatusCommit(c) \/ CallLost(c)
      BY <2>3, CallsLeft DEF DispatchClaim, CancelRequestCommit, AcceptCommit, UpdateStatusCommit,
                  GoOfflineCommit, SetStatusCommit, CallLost
    <2>4. ASSUME NEW r \in Requests, NEW d \in Drivers, ExpireRow(c, <<r, d>>)
          PROVE  Coherent(n)'
      <3>1. c \in ExpireCall
        BY <2>4, <2>c, CallShape DEF ExpireRow
      <3>2. n.op = "expire" /\ n.at = c.at
        BY <2>4, <2>n, <3>1 DEF ExpireRow, ExpireCall
      <3>3. QED
        BY <2>4, <2>c, <3>2 DEF ExpireRow, Coherent
    <2>5. CASE ExpireDone(c)
      <3>1. PICK S \in SUBSET Claimable(c.then) :
               Continue(c, [op |-> "offers", drv |-> c.then, reqs |-> S, at |-> now])
        BY <2>5, <2>n DEF ExpireDone
      <3>2. n = [op |-> "offers", drv |-> c.then, reqs |-> S, at |-> now]
        BY <2>n, <3>1
      <3>3. n.op = "offers" /\ n.at = now /\ now' = now
        BY <2>5, <3>2 DEF ExpireDone
      <3>4. QED
        BY <3>3 DEF Coherent, TypeOK
    <2>6. CASE OfferClaim(c)
      <3>1. c \in ClaimCall
        BY <2>6, <2>c, CallShape DEF OfferClaim
      <3>2. n.op = "offers" /\ n.at = c.at
        BY <2>6, <2>n, <3>1 DEF OfferClaim, DropRow, ClaimCall
      <3>3. QED
        BY <2>6, <2>c, <3>2 DEF OfferClaim, Coherent
    <2>7. CASE GoOnlineCommit(c)
      BY <2>7, <2>n DEF GoOnlineCommit, ExpireThen, Coherent, TypeOK
    <2>8. CASE GoOfflineRelease(c)
      <3>1. c \in ClaimCall
        BY <2>8, <2>c, CallShape DEF GoOfflineRelease
      <3>2. n.op = "goOffline" /\ n.at = c.at
        BY <2>8, <2>n, <3>1 DEF GoOfflineRelease, ClaimCall
      <3>3. QED
        BY <2>8, <2>c, <3>2 DEF GoOfflineRelease, Coherent
    <2>9. QED
      BY <1>6, <2>1, <2>2, <2>3, <2>4, <2>5, <2>6, <2>7, <2>8 DEF CallStep
  <1>7. QED
    BY <1>1, <1>2, <1>3, <1>4, <1>5, <1>6 DEF Next

-----------------------------------------------------------------------------
(* The rows: RowInv is kept by each kind of write.                          *)

\* Steps that write no request and no trip.
LEMMA RowsKept ==
    ASSUME RowInv, UNCHANGED <<reqVars, tripVars>>
    PROVE  RowInv'
  BY DEF RowInv, reqVars, tripVars, AcceptedKeepsDriver, RiderSingleFlow, RequestTripAgree,
         CompletedWasStarted, ActiveRequest, ActiveTrip

\* A claim or release of a request that has no trip.
LEMMA LeaseWriteKeeps ==
    ASSUME TypeOK, RowInv, NEW r \in Requests, trip[r] = "NONE",
           \A q \in Requests \ {r} : assigned'[q] = assigned[q] /\ expiresAt'[q] = expiresAt[q],
           UNCHANGED <<reqStatus, tripVars>>
    PROVE  RowInv'
  BY DEF RowInv, tripVars, AcceptedKeepsDriver, RiderSingleFlow, RequestTripAgree,
         CompletedWasStarted, ActiveRequest, ActiveTrip

\* A deadline, or no driver at all, shows that the request has no trip: this is
\* why the claims and releases, which never read trips, leave live trips alone.
LEMMA FreeOrDatedHasNoTrip ==
    ASSUME RowInv, NEW r \in Requests, assigned[r] = NoDriver \/ expiresAt[r] # NoTime
    PROVE  trip[r] = "NONE"
  BY DEF RowInv, AcceptedKeepsDriver

LEMMA RowsCreateCommit ==
    ASSUME TypeOK, RowInv, NEW c \in calls, CreateCommit(c)
    PROVE  RowInv'
  <1>1. c.req \in Requests
    BY CallShape DEF TypeOK, CreateCommit, CreateCall
  <1>2. trip[c.req] = "NONE"
    BY <1>1 DEF CreateCommit, RowInv, RequestTripAgree
  <1>3. AcceptedKeepsDriver' /\ CompletedWasStarted'
    BY DEF CreateCommit, RowInv, tripVars, AcceptedKeepsDriver, CompletedWasStarted
  <1>4. RequestTripAgree'
    BY <1>1, <1>2 DEF CreateCommit, RowInv, tripVars, RequestTripAgree, TypeOK
  <1>5. RiderSingleFlow'
    BY <1>1 DEF CreateCommit, RowInv, tripVars, RiderSingleFlow, RequestIndexAllows, TypeOK,
                RequestsOfSameRider, ActiveRequest, ActiveTrip
  <1>6. QED
    BY <1>3, <1>4, <1>5 DEF RowInv

LEMMA RowsCancelCommit ==
    ASSUME TypeOK, CallsCoherent, RowInv, NEW c \in calls, CancelRequestCommit(c)
    PROVE  RowInv'
  <1>1. AcceptedKeepsDriver' /\ CompletedWasStarted'
    BY DEF CancelRequestCommit, RowInv, tripVars, AcceptedKeepsDriver, CompletedWasStarted
  <1>2. RequestTripAgree'
    BY DEF CancelRequestCommit, RowInv, tripVars, RequestTripAgree, TypeOK
  <1>3. RiderSingleFlow'
    BY DEF CancelRequestCommit, RowInv, tripVars, RiderSingleFlow, TypeOK,
           RequestsOfSameRider, ActiveRequest, ActiveTrip
  <1>4. QED
    BY <1>1, <1>2, <1>3 DEF RowInv

LEMMA RowsAcceptCommit ==
    ASSUME TypeOK, RowInv, NEW c \in calls, AcceptCommit(c)
    PROVE  RowInv'
  <1>1. c.req \in Requests /\ c.drv \in Drivers
    BY CallShape DEF TypeOK, AcceptCommit, AcceptCall
  <1>2. reqStatus[c.req] \in ActiveRequest /\ assigned[c.req] = c.drv
    BY DEF AcceptCommit, ReservedFor, Assignable, ActiveRequest
  <1>3. AcceptedKeepsDriver'
    BY <1>1, <1>2, NoDriverAssumption DEF AcceptCommit, RowInv, AcceptedKeepsDriver, TypeOK
  <1>4. CompletedWasStarted'
    BY <1>1 DEF AcceptCommit, RowInv, CompletedWasStarted, TypeOK
  <1>5. RequestTripAgree'
    BY <1>1 DEF AcceptCommit, RowInv, RequestTripAgree, TypeOK
  <1>6. RiderSingleFlow'
    BY <1>1, <1>2 DEF AcceptCommit, RowInv, RiderSingleFlow, TripIndexAllows, TypeOK,
                      RequestsOfSameRider, ActiveRequest, ActiveTrip
  <1>7. QED
    BY <1>3, <1>4, <1>5, <1>6 DEF RowInv

LEMMA RowsVerifyPickupCode ==
    ASSUME TypeOK, RowInv, NEW r \in Requests, VerifyPickupCode(r)
    PROVE  RowInv'
  <1>1. AcceptedKeepsDriver' /\ RequestTripAgree' /\ CompletedWasStarted'
    BY DEF VerifyPickupCode, RowInv, reqVars, AcceptedKeepsDriver, RequestTripAgree,
           CompletedWasStarted, TypeOK
  <1>2. RiderSingleFlow'
    BY DEF VerifyPickupCode, RowInv, reqVars, RiderSingleFlow, RequestsOfSameRider,
           ActiveRequest, ActiveTrip, TypeOK
  <1>3. QED
    BY <1>1, <1>2 DEF RowInv

LEMMA RowsUpdateStatusCommit ==
    ASSUME TypeOK, CallsCoherent, RowInv, NEW c \in calls, UpdateStatusCommit(c)
    PROVE  RowInv'
  <1>1. c \in StatusCall /\ Coherent(c)
    BY CallShape DEF TypeOK, UpdateStatusCommit, CallsCoherent
  <1>2. c.req \in Requests /\ c.to \in NextTripStatus /\ c.to # "NONE"
    BY <1>1 DEF StatusCall, NextTripStatus
  <1>3. trip[c.req] # "NONE" /\ (c.to = "COMPLETED" => started[c.req])
    BY <1>1, CallShape DEF Coherent, UpdateStatusCommit
  <1>4. RequestAfter(c) \in {"DRIVER_ARRIVING", "FULFILLED", "CANCELLED", reqStatus[c.req]}
    BY <1>2 DEF RequestAfter, NextTripStatus
  <1>5. AcceptedKeepsDriver'
    BY <1>2, <1>3 DEF UpdateStatusCommit, RowInv, AcceptedKeepsDriver, TypeOK
  <1>6. RequestTripAgree'
    BY <1>2, <1>3, <1>4 DEF UpdateStatusCommit, RowInv, RequestTripAgree, TypeOK
  <1>7. CompletedWasStarted'
    <2>1. \A q \in Requests \ {c.req} : /\ trip'[q] = trip[q] /\ started'[q] = started[q]
                                        /\ completed'[q] = completed[q]
      BY DEF UpdateStatusCommit, TypeOK
    <2>2. /\ trip'[c.req] = c.to
          /\ started'[c.req] = (started[c.req] \/ c.to = "IN_PROGRESS")
          /\ completed'[c.req] = (completed[c.req] \/ c.to = "COMPLETED")
      BY <1>2 DEF UpdateStatusCommit, TypeOK
    <2>3. completed[c.req] => started[c.req]
      BY <1>2 DEF RowInv, CompletedWasStarted
    <2>4. QED
      BY <1>2, <1>3, <2>1, <2>2, <2>3 DEF RowInv, CompletedWasStarted
  <1>8. RiderSingleFlow'
    <2>1. RequestAfter(c) = "DRIVER_ARRIVING" =>
             RequestIndexAllows(c.req) \/ reqStatus[c.req] = "DRIVER_ARRIVING"
      BY <1>2 DEF RequestAfter, NextTripStatus, UpdateStatusCommit, TripWriteAllowed
    <2>2. c.to \in ActiveTrip => TripIndexAllows(c.req)
      BY DEF UpdateStatusCommit, TripWriteAllowed
    <2>3. \A q \in Requests \ {c.req} : reqStatus'[q] = reqStatus[q] /\ trip'[q] = trip[q]
      BY DEF UpdateStatusCommit, TypeOK
    <2>4. reqStatus'[c.req] = RequestAfter(c) /\ trip'[c.req] = c.to
      BY <1>2 DEF UpdateStatusCommit, TypeOK
    <2>5. \A q \in RequestsOfSameRider(c.req) \ {c.req} :
             /\ ~(reqStatus'[c.req] \in ActiveRequest /\ reqStatus[q] \in ActiveRequest)
             /\ ~(trip'[c.req] \in ActiveTrip /\ trip[q] \in ActiveTrip)
      BY <1>2, <1>4, <2>1, <2>2, <2>4 DEF RowInv, RiderSingleFlow, RequestIndexAllows,
         TripIndexAllows, ActiveRequest
    <2>6. QED
      BY <1>2, <2>3, <2>5 DEF RowInv, RiderSingleFlow, RequestsOfSameRider
  <1>9. QED
    BY <1>5, <1>6, <1>7, <1>8 DEF RowInv

\* Which rows a step of a handler that only claims or releases can touch.
LEMMA RowsLeaseStep ==
    ASSUME TypeOK, CallsCoherent, RowInv, NEW c \in calls,
           \/ DispatchClaim(c) \/ OfferClaim(c) \/ GoOfflineRelease(c)
           \/ \E r \in Requests, d \in Drivers : ExpireRow(c, <<r, d>>)
    PROVE  RowInv'
  <1>c. c \in Call
    BY DEF TypeOK
  <1>1. CASE DispatchClaim(c)
    <2>1. c.req \in Requests /\ assigned[c.req] = NoDriver
      BY <1>1, <1>c, CallShape DEF DispatchClaim, ProactiveCall
    <2>2. QED
      BY <1>1, <2>1, FreeOrDatedHasNoTrip, LeaseWriteKeeps DEF DispatchClaim, TypeOK
  <1>2. CASE OfferClaim(c)
    <2>1. c.reqs \subseteq Requests
      BY <1>2, <1>c, CallShape DEF OfferClaim, ClaimCall
    <2>2. PICK r \in c.reqs :
             IF ClaimMatches(r, c.at)
             THEN /\ assigned' = [assigned EXCEPT ![r] = c.drv]
                  /\ expiresAt' = [expiresAt EXCEPT ![r] = c.at + Window]
             ELSE UNCHANGED <<assigned, expiresAt>>
      BY <1>2 DEF OfferClaim
    <2>3. CASE ClaimMatches(r, c.at)
      <3>1. trip[r] = "NONE"
        BY <2>1, <2>3, FreeOrDatedHasNoTrip DEF ClaimMatches, ExpiredBefore
      <3>2. QED
        BY <1>2, <2>1, <2>2, <2>3, <3>1, LeaseWriteKeeps DEF OfferClaim, TypeOK
    <2>4. CASE ~ClaimMatches(r, c.at)
      BY <1>2, <2>2, <2>4, RowsKept DEF OfferClaim, reqVars
    <2>5. QED
      BY <2>3, <2>4
  <1>3. CASE GoOfflineRelease(c)
    <2>1. c.reqs \subseteq Requests
      BY <1>3, <1>c, CallShape DEF GoOfflineRelease, ClaimCall
    <2>2. PICK r \in c.reqs :
             IF assigned[r] = c.drv /\ LiveAfter(r, c.at)
             THEN Unassign(r)
             ELSE UNCHANGED <<assigned, expiresAt>>
      BY <1>3 DEF GoOfflineRelease
    <2>3. CASE assigned[r] = c.drv /\ LiveAfter(r, c.at)
      <3>1. trip[r] = "NONE"
        BY <2>1, <2>3, FreeOrDatedHasNoTrip DEF LiveAfter
      <3>2. QED
        BY <1>3, <2>1, <2>2, <2>3, <3>1, LeaseWriteKeeps DEF GoOfflineRelease, Unassign, TypeOK
    <2>4. CASE ~(assigned[r] = c.drv /\ LiveAfter(r, c.at))
      BY <1>3, <2>2, <2>4, RowsKept DEF GoOfflineRelease, reqVars
    <2>5. QED
      BY <2>3, <2>4
  <1>4. ASSUME NEW r \in Requests, NEW d \in Drivers, ExpireRow(c, <<r, d>>) PROVE RowInv'
    <2>1. CASE ReleaseMatches(<<r, d>>, c.at)
      <3>1. trip[r] = "NONE"
        BY <2>1, FreeOrDatedHasNoTrip DEF ReleaseMatches, ExpiredBefore
      <3>2. QED
        BY <1>4, <2>1, <3>1, LeaseWriteKeeps DEF ExpireRow, Unassign, TypeOK
    <2>2. CASE ~ReleaseMatches(<<r, d>>, c.at)
      BY <1>4, <2>2, RowsKept DEF ExpireRow, reqVars
    <2>3. QED
      BY <2>1, <2>2
  <1>5. QED
    BY <1>1, <1>2, <1>3, <1>4

LEMMA RowsStep ==
    ASSUME TypeOK, CallsCoherent, RowInv, Next
    PROVE  RowInv'
  <1>1. CASE Tick \/ SweepRead
    BY <1>1, RowsKept DEF Tick, SweepRead
  <1>2. ASSUME NEW r \in Requests, RequestRead(r) PROVE RowInv'
    <2>1. CASE CreateRead(r) \/ CancelRequestRead(r)
               \/ \E role \in Roles, to \in NextTripStatus : UpdateStatusRead(r, role, to)
      BY <2>1, RowsKept DEF CreateRead, CancelRequestRead, UpdateStatusRead
    <2>2. QED
      BY <1>2, <2>1, RowsVerifyPickupCode DEF RequestRead
  <1>3. ASSUME NEW d \in Drivers, DriverRead(d) PROVE RowInv'
    BY <1>3, RowsKept DEF DriverRead, GetOffers, GoOnlineRead, GoOfflineRead, Logout,
                          SuspendRead, ReactivateRead, OnboardingRead
  <1>4. ASSUME NEW d \in Drivers, NEW r \in Requests, DriverOnRequest(d, r) PROVE RowInv'
    <2>1. CASE DeclineOffer(d, r)
      <3>1. trip[r] = "NONE"
        BY <2>1, FreeOrDatedHasNoTrip DEF DeclineOffer, ReservedFor, LiveAfter
      <3>2. QED
        BY <2>1, <3>1, LeaseWriteKeeps DEF DeclineOffer, Unassign, TypeOK
    <2>2. CASE AcceptRead(d, r)
      BY <2>2, RowsKept DEF AcceptRead
    <2>3. QED
      BY <1>4, <2>1, <2>2 DEF DriverOnRequest
  <1>5. ASSUME NEW c \in calls, CallStep(c) PROVE RowInv'
    <2>1. CASE \/ DispatchClaim(c) \/ OfferClaim(c) \/ GoOfflineRelease(c)
               \/ \E r \in Requests, d \in Drivers : ExpireRow(c, <<r, d>>)
      BY <2>1, RowsLeaseStep
    <2>2. CASE CreateCommit(c)
      BY <2>2, RowsCreateCommit
    <2>3. CASE CancelRequestCommit(c)
      BY <2>3, RowsCancelCommit
    <2>4. CASE AcceptCommit(c)
      BY <2>4, RowsAcceptCommit
    <2>5. CASE UpdateStatusCommit(c)
      BY <2>5, RowsUpdateStatusCommit
    <2>6. CASE DispatchRead(c) \/ ExpireDone(c) \/ GoOnlineCommit(c) \/ GoOfflineCommit(c)
               \/ SetStatusCommit(c) \/ CallLost(c)
      BY <2>6, RowsKept DEF DispatchRead, ExpireDone, GoOnlineCommit, GoOfflineCommit,
                            SetStatusCommit, CallLost
    <2>7. QED
      BY <1>5, <2>1, <2>2, <2>3, <2>4, <2>5, <2>6 DEF CallStep
  <1>6. QED
    BY <1>1, <1>2, <1>3, <1>4, <1>5 DEF Next

\* The inductive invariant holds in every reachable state, for any number of
\* riders, drivers, requests and overlapping handlers.
THEOREM Invariance == Spec => []IInv
  <1>1. Init => IInv
    <2>1. Init => TypeOK
      BY DEF Init, TypeOK, RequestStatus, TripStatus, DriverStatus
    <2>2. Init => CallsCoherent /\ RowInv
      BY DEF Init, CallsCoherent, RowInv, AcceptedKeepsDriver, RiderSingleFlow, RequestTripAgree,
             CompletedWasStarted, ActiveRequest, ActiveTrip, RequestsOfSameRider
    <2>3. QED
      BY <2>1, <2>2 DEF IInv
  <1>2. IInv /\ [Next]_vars => IInv'
    <2> SUFFICES ASSUME TypeOK, CallsCoherent, RowInv, [Next]_vars PROVE IInv'
      BY DEF IInv
    <2>1. CASE Next
      <3>1. TypeOK'
        BY <2>1, TypeRead, TypeCallStep DEF Next
      <3>2. Stable
        BY Stability
      <3>3. CallsCoherent'
        <4>1. now' \in Nat /\ CompletedWasStarted
          BY <3>1 DEF TypeOK, RowInv
        <4>2. QED
          BY <2>1, <3>2, <4>1, CoherentKept, CoherentNew DEF CallsCoherent
      <3>4. RowInv'
        BY <2>1, RowsStep
      <3>5. QED
        BY <3>1, <3>3, <3>4 DEF IInv
    <2>2. CASE UNCHANGED vars
      <3>1. TypeOK' /\ CallsCoherent'
        BY <2>2 DEF vars, reqVars, tripVars, TypeOK, CallsCoherent, Coherent
      <3>2. RowInv'
        BY <2>2, RowsKept DEF vars
      <3>3. QED
        BY <3>1, <3>2 DEF IInv
    <2>3. QED
      BY <2>1, <2>2
  <1>3. QED
    BY <1>1, <1>2, PTL DEF Spec

\* An accepted request keeps its driver: no claim, sweep or release takes it away.
THEOREM AcceptedKeepsDriverAlways == Spec => []AcceptedKeepsDriver
  BY Invariance, PTL DEF IInv, RowInv

\* A rider never has two open requests or two live trips.
THEOREM RiderSingleFlowAlways == Spec => []RiderSingleFlow
  BY Invariance, PTL DEF IInv, RowInv

\* Requests and trips agree on whether the acceptance happened.
THEOREM RequestTripAgreeAlways == Spec => []RequestTripAgree
  BY Invariance, PTL DEF IInv, RowInv

\* A completed trip was started first.
THEOREM CompletedWasStartedAlways == Spec => []CompletedWasStarted
  BY Invariance, PTL DEF IInv, RowInv

-----------------------------------------------------------------------------
(* Dispatch implements the lease.                                           *)

\* The writes that give back or keep the reservation of one request.
LEMMA GiveBackStep ==
    ASSUME TypeOK, RowInv, NEW r \in Requests, expiresAt[r] # NoTime, Unassign(r),
           UNCHANGED <<tripVars, now>>
    PROVE  Lease!GiveBack(r)
  <1>1. trip[r] = "NONE"
    BY FreeOrDatedHasNoTrip
  <1>2. ~TripExists[r] /\ TripExists' = TripExists
    BY <1>1 DEF TripExists, tripVars
  <1>3. QED
    BY <1>2 DEF Unassign, Lease!GiveBack, tripVars

\* A claim made with a clock read at or before now is a grant.
LEMMA GrantStep ==
    ASSUME TypeOK, RowInv, NEW r \in Requests, NEW d \in Drivers, NEW t \in Nat, t <= now,
           assigned[r] = NoDriver \/ ExpiredBefore(r, t),
           assigned' = [assigned EXCEPT ![r] = d],
           expiresAt' = [expiresAt EXCEPT ![r] = t + Window],
           UNCHANGED <<tripVars, now>>
    PROVE  Lease!Grant(r, d)
  <1>1. trip[r] = "NONE"
    BY FreeOrDatedHasNoTrip DEF ExpiredBefore
  <1>2. ~TripExists[r] /\ TripExists' = TripExists
    BY <1>1 DEF TripExists, tripVars
  <1>3. assigned[r] = NoDriver \/ Lease!Overdue(r)
    BY DEF ExpiredBefore, Lease!Overdue, TypeOK, NoTime
  <1>4. t \in 0..now
    BY DEF TypeOK
  <1>5. QED
    BY <1>2, <1>3, <1>4 DEF Lease!Grant, tripVars

\* Steps that touch neither reservations nor the existence of trips.
LEMMA LeaseStutter ==
    ASSUME TypeOK, UNCHANGED <<assigned, expiresAt, tripDriver, now>>,
           \A r \in Requests : trip[r] = "NONE" <=> trip'[r] = "NONE"
    PROVE  UNCHANGED Lease!leaseVars
  BY DEF Lease!leaseVars, TripExists

LEMMA LeaseCallStep ==
    ASSUME IInv, NEW c \in calls, CallStep(c)
    PROVE  [Lease!LeaseNext]_(Lease!leaseVars)
  <1> USE DEF IInv, tripVars
  <1>c. c \in Call /\ Coherent(c)
    BY DEF TypeOK, CallsCoherent
  <1>1. CASE \/ CreateCommit(c) \/ DispatchRead(c) \/ CancelRequestCommit(c) \/ ExpireDone(c)
             \/ GoOnlineCommit(c) \/ GoOfflineCommit(c) \/ SetStatusCommit(c) \/ CallLost(c)
    BY <1>1, LeaseStutter DEF CreateCommit, DispatchRead, CancelRequestCommit, ExpireDone,
       GoOnlineCommit, GoOfflineCommit, SetStatusCommit, CallLost, reqVars
  <1>2. CASE DispatchClaim(c)
    <2>1. /\ c.req \in Requests /\ c.drv \in Drivers
          /\ c.at \in Nat /\ c.at <= now
      BY <1>2, <1>c, CallShape DEF DispatchClaim, ProactiveCall, Coherent
    <2>2. Lease!Grant(c.req, c.drv)
      BY <1>2, <2>1, GrantStep DEF DispatchClaim
    <2>3. QED
      BY <2>1, <2>2 DEF Lease!LeaseNext
  <1>3. ASSUME NEW r \in Requests, NEW d \in Drivers, ExpireRow(c, <<r, d>>)
        PROVE  [Lease!LeaseNext]_(Lease!leaseVars)
    <2>1. CASE ReleaseMatches(<<r, d>>, c.at)
      <3>1. Lease!GiveBack(r)
        BY <1>3, <2>1, GiveBackStep DEF ExpireRow, ReleaseMatches, ExpiredBefore
      <3>2. QED
        BY <3>1 DEF Lease!LeaseNext
    <2>2. CASE ~ReleaseMatches(<<r, d>>, c.at)
      BY <1>3, <2>2, LeaseStutter DEF ExpireRow
    <2>3. QED
      BY <2>1, <2>2
  <1>4. CASE OfferClaim(c)
    <2>1. /\ c.reqs \subseteq Requests /\ c.drv \in Drivers
          /\ c.at \in Nat /\ c.at <= now
      BY <1>4, <1>c, CallShape DEF OfferClaim, ClaimCall, Coherent
    <2>2. PICK r \in c.reqs :
             IF ClaimMatches(r, c.at)
             THEN /\ assigned' = [assigned EXCEPT ![r] = c.drv]
                  /\ expiresAt' = [expiresAt EXCEPT ![r] = c.at + Window]
             ELSE UNCHANGED <<assigned, expiresAt>>
      BY <1>4 DEF OfferClaim
    <2>3. CASE ClaimMatches(r, c.at)
      <3>1. Lease!Grant(r, c.drv)
        BY <1>4, <2>1, <2>2, <2>3, GrantStep DEF OfferClaim, ClaimMatches
      <3>2. QED
        BY <2>1, <3>1 DEF Lease!LeaseNext
    <2>4. CASE ~ClaimMatches(r, c.at)
      BY <1>4, <2>2, <2>4, LeaseStutter DEF OfferClaim
    <2>5. QED
      BY <2>3, <2>4
  <1>5. CASE AcceptCommit(c)
    <2>1. c.req \in Requests /\ assigned[c.req] = c.drv /\ c.drv # NoDriver
      BY <1>5, <1>c, CallShape, NoDriverAssumption DEF AcceptCommit, AcceptCall, ReservedFor
    <2>2. ~TripExists[c.req] /\ TripExists' = [TripExists EXCEPT ![c.req] = TRUE]
      BY <1>5, <2>1 DEF AcceptCommit, TripExists, TypeOK
    <2>3. Lease!Take(c.req)
      BY <1>5, <2>1, <2>2 DEF AcceptCommit, Lease!Take
    <2>4. QED
      BY <2>1, <2>3 DEF Lease!LeaseNext
  <1>6. CASE UpdateStatusCommit(c)
    <2>1. c.req \in Requests /\ c.to # "NONE" /\ trip[c.req] # "NONE"
      BY <1>6, <1>c, CallShape DEF UpdateStatusCommit, StatusCall, NextTripStatus, Coherent
    <2>2. QED
      BY <1>6, <2>1, LeaseStutter DEF UpdateStatusCommit, TypeOK
  <1>7. CASE GoOfflineRelease(c)
    <2>1. c.reqs \subseteq Requests
      BY <1>7, <1>c, CallShape DEF GoOfflineRelease, ClaimCall
    <2>2. PICK r \in c.reqs :
             IF assigned[r] = c.drv /\ LiveAfter(r, c.at)
             THEN Unassign(r)
             ELSE UNCHANGED <<assigned, expiresAt>>
      BY <1>7 DEF GoOfflineRelease
    <2>3. CASE assigned[r] = c.drv /\ LiveAfter(r, c.at)
      <3>1. Lease!GiveBack(r)
        BY <1>7, <2>1, <2>2, <2>3, GiveBackStep DEF GoOfflineRelease, LiveAfter
      <3>2. QED
        BY <2>1, <3>1 DEF Lease!LeaseNext
    <2>4. CASE ~(assigned[r] = c.drv /\ LiveAfter(r, c.at))
      BY <1>7, <2>2, <2>4, LeaseStutter DEF GoOfflineRelease
    <2>5. QED
      BY <2>3, <2>4
  <1>8. QED
    BY <1>1, <1>2, <1>3, <1>4, <1>5, <1>6, <1>7 DEF CallStep

LEMMA LeaseStep ==
    ASSUME IInv, [Next]_vars
    PROVE  [Lease!LeaseNext]_(Lease!leaseVars)
  <1> USE DEF IInv, reqVars, tripVars
  <1>1. CASE Tick
    <2>1. TripExists' = TripExists
      BY <1>1 DEF Tick, TripExists
    <2>2. Lease!Advance
      BY <1>1, <2>1 DEF Tick, Lease!Advance
    <2>3. QED
      BY <2>2 DEF Lease!LeaseNext
  <1>2. CASE SweepRead \/ UNCHANGED vars
    BY <1>2, LeaseStutter DEF SweepRead, vars
  <1>3. ASSUME NEW r \in Requests, RequestRead(r) PROVE [Lease!LeaseNext]_(Lease!leaseVars)
    <2>1. CASE VerifyPickupCode(r)
      BY <2>1, LeaseStutter DEF VerifyPickupCode, TypeOK
    <2>2. CASE CreateRead(r) \/ CancelRequestRead(r)
               \/ \E role \in Roles, to \in NextTripStatus : UpdateStatusRead(r, role, to)
      BY <2>2, LeaseStutter DEF CreateRead, CancelRequestRead, UpdateStatusRead
    <2>3. QED
      BY <1>3, <2>1, <2>2 DEF RequestRead
  <1>4. ASSUME NEW d \in Drivers, DriverRead(d) PROVE [Lease!LeaseNext]_(Lease!leaseVars)
    BY <1>4, LeaseStutter DEF DriverRead, GetOffers, GoOnlineRead, GoOfflineRead, Logout,
       SuspendRead, ReactivateRead, OnboardingRead
  <1>5. ASSUME NEW d \in Drivers, NEW r \in Requests, DriverOnRequest(d, r)
        PROVE  [Lease!LeaseNext]_(Lease!leaseVars)
    <2>1. CASE DeclineOffer(d, r)
      <3>1. Lease!GiveBack(r)
        BY <2>1, GiveBackStep DEF DeclineOffer, ReservedFor, LiveAfter
      <3>2. QED
        BY <3>1 DEF Lease!LeaseNext
    <2>2. CASE AcceptRead(d, r)
      BY <2>2, LeaseStutter DEF AcceptRead
    <2>3. QED
      BY <1>5, <2>1, <2>2 DEF DriverOnRequest
  <1>6. ASSUME NEW c \in calls, CallStep(c) PROVE [Lease!LeaseNext]_(Lease!leaseVars)
    BY <1>6, LeaseCallStep
  <1>7. QED
    BY <1>1, <1>2, <1>3, <1>4, <1>5, <1>6 DEF Next

\* Every step of the handlers is a grant, a return, a taking or a tick of the
\* lease, or leaves the lease alone: offers, sweeps and acceptances implement it.
THEOREM LeaseRefinement == Spec => ImplementsLease
  <1>1. Init => Lease!LeaseInit
    BY DEF Init, Lease!LeaseInit, TripExists
  <1>2. IInv /\ [Next]_vars => [Lease!LeaseNext]_(Lease!leaseVars)
    BY LeaseStep
  <1>3. QED
    BY <1>1, <1>2, Invariance, PTL DEF Spec, ImplementsLease, Lease!LeaseSpec

\* No step of the lease leaves an item held without a deadline.
LEMMA DatedStep ==
    ASSUME TypeOK, Lease!Dated, [Lease!LeaseNext]_(Lease!leaseVars)
    PROVE  Lease!Dated'
  <1> USE BoundsAssumption, NoDriverAssumption DEF Lease!Dated, TypeOK, NoTime
  <1>1. CASE Lease!Advance
    BY <1>1 DEF Lease!Advance
  <1>2. ASSUME NEW r \in Requests, Lease!GiveBack(r) PROVE Lease!Dated'
    BY <1>2 DEF Lease!GiveBack
  <1>3. ASSUME NEW r \in Requests, Lease!Take(r) PROVE Lease!Dated'
    <2>1. /\ TripExists' = [TripExists EXCEPT ![r] = TRUE]
          /\ expiresAt' = [expiresAt EXCEPT ![r] = NoTime]
          /\ UNCHANGED <<assigned, now>>
      BY <1>3 DEF Lease!Take
    <2>2. \A q \in Requests : TripExists'[q] = IF q = r THEN TRUE ELSE TripExists[q]
      BY <2>1 DEF TripExists
    <2>3. QED
      BY <2>1, <2>2
  <1>4. ASSUME NEW r \in Requests, NEW d \in Drivers, Lease!Grant(r, d) PROVE Lease!Dated'
    <2>1. PICK at \in 0..now : expiresAt' = [expiresAt EXCEPT ![r] = at + Window]
      BY <1>4 DEF Lease!Grant
    <2>2. at + Window # NoTime /\ at + Window <= now + Window /\ d # NoDriver
      BY <2>1
    <2>3. QED
      BY <1>4, <2>1, <2>2 DEF Lease!Grant
  <1>5. CASE UNCHANGED Lease!leaseVars
    BY <1>5 DEF Lease!leaseVars
  <1>6. QED
    BY <1>1, <1>2, <1>3, <1>4, <1>5 DEF Lease!LeaseNext

\* A request reserved for a driver who never answers can be taken back: its reservation
\* has a deadline (only an acceptance writes NULL), at most Window away.  What remains
\* for ExpiredReservationEnds is that a sweep comes.
THEOREM ReservationsAreDated == Spec => []Lease!Dated
  <1>1. Lease!LeaseInit => Lease!Dated
    BY DEF Lease!LeaseInit, Lease!Dated
  <1>2. TypeOK /\ Lease!Dated /\ [Lease!LeaseNext]_(Lease!leaseVars) => Lease!Dated'
    BY DatedStep
  <1>3. QED
    BY <1>1, <1>2, TypeCorrect, LeaseRefinement, PTL DEF ImplementsLease, Lease!LeaseSpec

\* A live or accepted reservation is never replaced by somebody else's.
THEOREM LeaseNotStolenAlways == Spec => LeaseNotStolen
  <1> DEFINE Kept(r) == assigned[r] # NoDriver /\ (expiresAt[r] = NoTime \/ expiresAt[r] >= now)
                          => assigned'[r] \in {assigned[r], NoDriver}
  <1>1. ASSUME IInv, [Next]_vars, NEW r \in Requests
        PROVE  Kept(r)
    <2>1. CASE Lease!LeaseNext
      <3>1. CASE Lease!Advance
        BY <3>1 DEF Lease!Advance
      <3>2. ASSUME NEW q \in Requests, Lease!GiveBack(q) \/ Lease!Take(q) PROVE Kept(r)
        BY <1>1, <3>2 DEF Lease!GiveBack, Lease!Take, IInv, TypeOK
      <3>3. ASSUME NEW q \in Requests, NEW d \in Drivers, Lease!Grant(q, d) PROVE Kept(r)
        BY <1>1, <3>3 DEF Lease!Grant, Lease!Overdue, IInv, TypeOK, NoTime
      <3>4. QED
        BY <2>1, <3>1, <3>2, <3>3 DEF Lease!LeaseNext
    <2>2. CASE UNCHANGED Lease!leaseVars
      BY <2>2 DEF Lease!leaseVars
    <2>3. QED
      BY <1>1, <2>1, <2>2, LeaseStep
  <1>2. IInv /\ [Next]_vars => [\A r \in Requests : Kept(r)]_vars
    BY <1>1
  <1>3. QED
    BY <1>2, Invariance, PTL DEF Spec, LeaseNotStolen

\* A trip appears once per request, for the holder of its reservation, and keeps
\* its driver.
THEOREM TripForHolderOnlyAlways == Spec => TripForHolderOnly
  <1> DEFINE Holder(r) ==
        IF trip[r] = "NONE"
        THEN trip'[r] # "NONE" => /\ trip'[r] = "MATCHED" /\ tripDriver'[r] = assigned[r]
                                  /\ AcceptedInTime(r)
        ELSE trip'[r] # "NONE" /\ tripDriver'[r] = tripDriver[r]
  <1>1. ASSUME IInv, Next, NEW r \in Requests
        PROVE  Holder(r)
    <2> USE <1>1 DEF IInv, tripVars, reqVars
    <2>1. CASE UNCHANGED tripVars
      BY <2>1
    <2>2. ASSUME NEW q \in Requests, VerifyPickupCode(q) PROVE Holder(r)
      BY <2>2 DEF VerifyPickupCode, TypeOK
    <2>3. ASSUME NEW q \in Requests, RequestRead(q) PROVE Holder(r)
      BY <2>1, <2>2, <2>3 DEF RequestRead, CreateRead, CancelRequestRead, UpdateStatusRead
    <2>4. ASSUME NEW d \in Drivers,
                 DriverRead(d) \/ \E q \in Requests : DriverOnRequest(d, q)
          PROVE  Holder(r)
      BY <2>1, <2>4 DEF DriverRead, DriverOnRequest, GetOffers, GoOnlineRead, GoOfflineRead, Logout,
         SuspendRead, ReactivateRead, OnboardingRead, DeclineOffer, AcceptRead
    <2>5. ASSUME NEW c \in calls, CallStep(c) PROVE Holder(r)
      <3>c. c \in Call /\ Coherent(c)
        BY DEF TypeOK, CallsCoherent
      <3>1. CASE AcceptCommit(c)
        <4>1. c.req \in Requests /\ c.drv \in Drivers
          BY <3>1, <3>c, CallShape DEF AcceptCommit, AcceptCall
        <4>2. assigned[c.req] = c.drv /\ LiveAfter(c.req, c.at) /\ c.op = "accept"
          BY <3>1 DEF AcceptCommit, ReservedFor
        <4>3. CASE r = c.req
          <5>1. trip'[r] = "MATCHED" /\ tripDriver'[r] = assigned[r] /\ trip[r] = "NONE"
            BY <3>1, <4>1, <4>2, <4>3 DEF AcceptCommit, TypeOK
          <5> QED BY <4>2, <4>3, <5>1 DEF AcceptedInTime
        <4>4. CASE r # c.req
          BY <3>1, <4>1, <4>4 DEF AcceptCommit, TypeOK
        <4>5. QED
          BY <4>3, <4>4
      <3>2. CASE UpdateStatusCommit(c)
        <4>1. c.req \in Requests /\ c.to # "NONE" /\ trip[c.req] # "NONE"
          BY <3>2, <3>c, CallShape DEF UpdateStatusCommit, StatusCall, NextTripStatus, Coherent
        <4>2. QED
          BY <3>2, <4>1 DEF UpdateStatusCommit, TypeOK
      <3>3. CASE ~AcceptCommit(c) /\ ~UpdateStatusCommit(c)
        <4>1. UNCHANGED tripVars
          BY <2>5, <3>3 DEF CallStep, CreateCommit, DispatchRead, DispatchClaim, CancelRequestCommit,
             ExpireRow, ExpireDone, OfferClaim, GoOnlineCommit, GoOfflineRelease, GoOfflineCommit,
             SetStatusCommit, CallLost
        <4>2. QED
          BY <2>1, <4>1
      <3>4. QED
        BY <3>1, <3>2, <3>3
    <2>6. CASE Tick \/ SweepRead
      BY <2>1, <2>6 DEF Tick, SweepRead
    <2>7. QED
      BY <2>3, <2>4, <2>5, <2>6 DEF Next
  <1>2. IInv /\ [Next]_vars => [\A r \in Requests : Holder(r)]_vars
    BY <1>1
  <1>3. QED
    BY <1>2, Invariance, PTL DEF Spec, TripForHolderOnly
=============================================================================
