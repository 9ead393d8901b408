------------------------ MODULE RealtimeStreamProofs ------------------------
(***************************************************************************)
(* Theorems about RealtimeStream, for any numbers of sockets, runs of the  *)
(* effect, events and loads, and any number of remembered ids.             *)
(*                                                                         *)
(* The invariant has two independent parts.  Links: a run that has not     *)
(* begun has no socket and no timer, so a new run starts from nothing      *)
(* whatever the earlier ones left.  Events: a remembered id and a late     *)
(* date are those of an event that asked for a load, which is still to     *)
(* come or read every commit published before it, or else of one whose     *)
(* type the screen does not list.                                          *)
(***************************************************************************)
EXTENDS RealtimeStream, SequenceTheorems, TLAPS

\* What an effect leaves behind belongs to a run that has begun.
LinksInv ==
    /\ run <= lastRun
    /\ \A s \in Sockets :
          /\ socket[s].run <= lastRun
          /\ socket[s].run = 0 => socket[s] = Closed
    /\ \A r \in Runs : r > lastRun => timers[r] = 0
    /\ ~mounted => isCleaningUp /\ run = 0

\* What the hook remembers is about events that were published.
EventsInv ==
    /\ attempted <= row
    /\ \A p \in published : p.id <= row /\ p.at < clock
    /\ \A e \in Entities : latestEventAt[e] < clock
    /\ \A n \in Nat : Seen(n) => \E p \in published : p.id = n
    /\ \A p, q \in published : p.id = q.id => p = q

-----------------------------------------------------------------------------
(* Types.                                                                  *)

\* The queue of remembered ids holds the new one, those it held, and no other.
LEMMA Remembered ==
    ASSUME NEW n \in Nat, TypeOK
    PROVE  /\ Remember(n) \in Seq(Nat) /\ Len(Remember(n)) <= SeenLimit
           /\ \A i \in DOMAIN Remember(n) :
                 Remember(n)[i] = n
                 \/ \E j \in DOMAIN seenEventIds : seenEventIds[j] = Remember(n)[i]
<1> DEFINE ids == Append(seenEventIds, n)
<1> USE StreamAssumption
<1>1. seenEventIds \in Seq(Nat) /\ Len(seenEventIds) <= SeenLimit
  BY DEF TypeOK
<1>2. /\ ids \in Seq(Nat) /\ Len(ids) = Len(seenEventIds) + 1
      /\ \A i \in 1..Len(ids) :
            ids[i] = IF i <= Len(seenEventIds) THEN seenEventIds[i] ELSE n
  BY <1>1
<1>3. Len(seenEventIds) \in Nat /\ DOMAIN seenEventIds = 1..Len(seenEventIds)
  BY <1>1
<1>4. \A i \in DOMAIN ids :
         ids[i] = n \/ \E j \in DOMAIN seenEventIds : seenEventIds[j] = ids[i]
  BY <1>2, <1>3
<1>5. /\ Tail(ids) \in Seq(Nat) /\ Len(Tail(ids)) = Len(ids) - 1
      /\ \A i \in DOMAIN Tail(ids) : i + 1 \in DOMAIN ids /\ Tail(ids)[i] = ids[i + 1]
  <2>1. ids # <<>>
    BY <1>2, <1>3
  <2> QED BY <2>1, <1>2, <1>3
<1> HIDE DEF ids
<1>6. Remember(n) = IF Len(ids) > SeenLimit THEN Tail(ids) ELSE ids
  BY DEF Remember, ids
<1> QED BY <1>1, <1>2, <1>3, <1>4, <1>5, <1>6

Event == [id : Nat, entity : Entities, at : Nat, listed : BOOLEAN]

SocketRow == [run : 0..MaxRuns, state : SocketState]

\* The sockets after a cleanup are typed.
LEMMA CleanupTypes ==
    ASSUME TypeOK
    PROVE  ClosedByCleanup \in [Sockets -> SocketRow]
  BY DEF TypeOK, ClosedByCleanup, SocketRow, SocketState

\* The sockets after a connection are typed.
LEMMA ConnectTypes ==
    ASSUME NEW r \in Runs, NEW f \in [Sockets -> SocketRow], Connect(r, f)
    PROVE  socket' \in [Sockets -> SocketRow]
<1>1. [run |-> r, state |-> "CONNECTING"] \in SocketRow
  BY StreamAssumption DEF Runs, SocketState, SocketRow
<1>2. PICK s \in Sockets : socket' = [f EXCEPT ![s] = [run |-> r, state |-> "CONNECTING"]]
  BY DEF Connect
<1> QED BY <1>1, <1>2

LEMMA TypeInit == Init => TypeOK
<1> SUFFICES ASSUME Init PROVE TypeOK
  OBVIOUS
<1> USE StreamAssumption DEF Init
<1>1. Closed \in SocketRow
  BY DEF Closed, SocketRow, SocketState
<1>2. socket \in [Sockets -> SocketRow]
  BY <1>1
<1>3. seenEventIds \in Seq(Nat) /\ Len(seenEventIds) <= SeenLimit
  OBVIOUS
<1>4. load \in [Loads -> Int] /\ timers \in [Runs -> Nat] /\ latestEventAt \in [Entities -> Nat]
  BY DEF Idle
<1>5. /\ row \in Nat /\ clock \in Nat /\ shown \in Nat /\ attempted \in Nat
      /\ run \in 0..MaxRuns /\ lastRun \in 0..MaxRuns /\ reconnectTimer \in 0..MaxRuns
  OBVIOUS
<1>6. /\ published \subseteq [id : Nat, entity : Entities, at : Nat, listed : BOOLEAN]
      /\ wire \subseteq Sockets \X published
  OBVIOUS
<1>7. /\ mounted \in BOOLEAN /\ isCleaningUp \in BOOLEAN
      /\ flushTimer \in BOOLEAN /\ inFlight \in BOOLEAN
  BY Zenon
<1> QED BY <1>2, <1>3, <1>4, <1>5, <1>6, <1>7 DEF TypeOK, SocketRow

LEMMA TypeStep == TypeOK /\ [Next]_vars => TypeOK'
<1> SUFFICES ASSUME TypeOK, [Next]_vars PROVE TypeOK'
  OBVIOUS
<1> USE StreamAssumption DEF SocketRow
<1>1. CASE UNCHANGED vars
  BY <1>1 DEF TypeOK, vars, wires, refs, links, memory, screen
<1>2. CASE Commit
  BY <1>2 DEF TypeOK, Commit, wires, refs, links, memory, screen
<1>3. ASSUME NEW n \in 1..row, NEW e \in Entities, Publish(n, e) PROVE TypeOK'
  <2>1. PICK at \in clock..(clock + Skew), listed \in BOOLEAN, R \in SUBSET OpenSockets :
           LET p == [id |-> n, entity |-> e, at |-> at, listed |-> listed]
           IN  published' = published \cup {p} /\ wire' = wire \cup {<<s, p>> : s \in R}
    <3>1. PICK at \in clock..(clock + Skew), listed \in {TRUE, n \notin Unlisted},
               R \in SUBSET OpenSockets :
             LET p == [id |-> n, entity |-> e, at |-> at, listed |-> listed]
             IN  published' = published \cup {p} /\ wire' = wire \cup {<<s, p>> : s \in R}
      BY <1>3 DEF Publish
    <3>2. listed \in BOOLEAN
      OBVIOUS
    <3> QED BY <3>1, <3>2, Zenon
  <2>2. [id |-> n, entity |-> e, at |-> at, listed |-> listed] \in Event
    BY DEF TypeOK, Event
  <2>3. R \subseteq Sockets
    BY DEF OpenSockets
  <2>4. published' \subseteq Event
    BY <2>1, <2>2 DEF TypeOK, Event
  <2>5. wire' \subseteq Sockets \X published'
    BY <2>1, <2>3 DEF TypeOK
  <2> QED BY <1>3, <2>4, <2>5 DEF TypeOK, Event, Publish, refs, links, memory, screen
<1>4. CASE StartEffect
  <2>1. lastRun + 1 \in Runs
    BY <1>4 DEF TypeOK, StartEffect, Runs
  <2>2. socket' \in [Sockets -> SocketRow]
    BY <1>4, <2>1, CleanupTypes, ConnectTypes DEF StartEffect
  <2>3. timers' \in [Runs -> Nat] /\ latestEventAt' \in [Entities -> Nat]
    BY <1>4 DEF TypeOK, StartEffect, ClearTimers, ForgetEvents, memory
  <2>4. seenEventIds' \in Seq(Nat) /\ Len(seenEventIds') <= SeenLimit
    <3>1. CASE run # 0
      BY <1>4, <3>1 DEF StartEffect, ForgetEvents
    <3>2. CASE run = 0
      BY <1>4, <3>2 DEF TypeOK, StartEffect, memory
    <3> QED BY <3>1, <3>2
  <2>5. /\ flushTimer' \in BOOLEAN /\ isCleaningUp' \in BOOLEAN
        /\ inFlight' \in BOOLEAN /\ mounted' \in BOOLEAN
    BY <1>4, Zenon DEF TypeOK, StartEffect, ClearTimers, CleaningUpInNewRun, screen, memory
  <2>6. reconnectTimer' \in 0..MaxRuns
    BY <1>4 DEF TypeOK, StartEffect, ClearTimers
  <2>7. run' \in 0..MaxRuns /\ lastRun' \in 0..MaxRuns
    BY <1>4, <2>1 DEF StartEffect, Runs
  <2> QED BY <1>4, <2>2, <2>3, <2>4, <2>5, <2>6, <2>7
          DEF TypeOK, StartEffect, wires, screen
<1>5. CASE StopEffect
  <2>1. socket' \in [Sockets -> SocketRow]
    BY <1>5, CleanupTypes DEF StopEffect
  <2>2. timers' \in [Runs -> Nat] /\ latestEventAt' \in [Entities -> Nat]
    BY <1>5 DEF TypeOK, StopEffect, ClearTimers, ForgetEvents
  <2>3. seenEventIds' \in Seq(Nat) /\ Len(seenEventIds') <= SeenLimit
    BY <1>5 DEF TypeOK, StopEffect, ClearTimers, ForgetEvents
  <2>4. /\ flushTimer' \in BOOLEAN /\ isCleaningUp' \in BOOLEAN
        /\ inFlight' \in BOOLEAN /\ mounted' \in BOOLEAN
    BY <1>5, Zenon DEF TypeOK, StopEffect, ClearTimers, screen
  <2>5. reconnectTimer' \in 0..MaxRuns /\ run' \in 0..MaxRuns
    BY <1>5 DEF TypeOK, StopEffect, ClearTimers
  <2> QED BY <1>5, <2>1, <2>2, <2>3, <2>4, <2>5 DEF TypeOK, StopEffect, wires, screen
<1>6. ASSUME NEW s \in Sockets, Opens(s) PROVE TypeOK'
  <2>1. socket' \in [Sockets -> SocketRow]
    BY <1>6 DEF TypeOK, Opens, SocketState
  <2> QED BY <1>6, <2>1 DEF TypeOK, Opens, wires, memory, screen
<1>7. ASSUME NEW s \in Sockets, Closes(s) PROVE TypeOK'
  <2>1. socket' \in [Sockets -> SocketRow]
    BY <1>7 DEF TypeOK, Closes, Closed, SocketState
  <2>2. timers' \in [Runs -> Nat] /\ reconnectTimer' \in 0..MaxRuns
    <3>1. timers \in [Runs -> Nat] /\ reconnectTimer \in 0..MaxRuns /\ socket[s].run \in 0..MaxRuns
      BY <1>7 DEF TypeOK
    <3>2. CASE ScheduleReconnect(socket[s].run)
      <4>1. timers' = [timers EXCEPT ![socket[s].run] = timers[socket[s].run] + 1]
            /\ reconnectTimer' = socket[s].run
        BY <3>2 DEF ScheduleReconnect
      <4>2. \A r \in Runs : timers[r] + 1 \in Nat
        BY <3>1
      <4> QED BY <3>1, <4>1, <4>2
    <3> QED BY <1>7, <3>1, <3>2 DEF Closes
  <2>3. wire' \subseteq Sockets \X published'
    BY <1>7 DEF TypeOK, Closes
  <2> QED BY <1>7, <2>1, <2>2, <2>3 DEF TypeOK, Closes, memory, screen
<1>8. ASSUME NEW r \in Runs, ReconnectTimerFires(r) PROVE TypeOK'
  <2>1. socket' \in [Sockets -> SocketRow]
    BY <1>8, CleanupTypes, ConnectTypes DEF ReconnectTimerFires, TypeOK
  <2> QED BY <1>8, <2>1
          DEF TypeOK, ReconnectTimerFires, wires, refs, memory, screen
<1>9. ASSUME NEW s \in Sockets, NEW x \in wire, Receives(s, x[2]) PROVE TypeOK'
  <2>1. x[2] \in published /\ x[2] \in Event
    BY DEF TypeOK, Event
  <2>2. seenEventIds' \in Seq(Nat) /\ Len(seenEventIds') <= SeenLimit
    BY <1>9, <2>1, Remembered DEF Receives, TypeOK, Event
  <2>3. latestEventAt' \in [Entities -> Nat]
    BY <1>9, <2>1 DEF Receives, TypeOK, Event
  <2>4. flushTimer' \in BOOLEAN
    <3>1. x[2].listed \in BOOLEAN
      BY <2>1 DEF Event
    <3>2. flushTimer' = flushTimer \/ flushTimer' = (flushTimer \/ x[2].listed)
      BY <1>9 DEF Receives
    <3> QED BY <3>1, <3>2, Zenon DEF TypeOK
  <2> QED BY <1>9, <2>2, <2>3, <2>4 DEF TypeOK, Receives, refs, links, screen
<1>10. CASE RunRefresh
  <2>1. load' \in [Loads -> Int]
    BY <1>10 DEF TypeOK, RunRefresh, Unread, Poll, Loads
  <2> QED BY <1>10, <2>1 DEF TypeOK, RunRefresh, wires, refs, links, memory
<1>11. ASSUME NEW l \in Loads, LoadStep(l) PROVE TypeOK'
  <2>1. CASE FlushTimerFires(l)
    <3>1. load' \in [Loads -> Int]
      BY <2>1 DEF TypeOK, FlushTimerFires, Unread
    <3> QED BY <2>1, <3>1 DEF TypeOK, FlushTimerFires, wires, refs, links
  <2>2. CASE LoadReads(l)
    BY <2>2 DEF TypeOK, LoadReads, wires, refs, links, memory
  <2>3. CASE LoadAnswers(l)
    BY <2>3 DEF TypeOK, LoadAnswers, Idle, wires, refs, links, memory
  <2>4. CASE LoadFails(l)
    BY <2>4 DEF TypeOK, LoadFails, InFlightAfterFailure, Idle, wires, refs, links, memory
  <2> QED BY <1>11, <2>1, <2>2, <2>3, <2>4 DEF LoadStep
<1> QED BY <1>1, <1>2, <1>3, <1>4, <1>5, <1>6, <1>7, <1>8, <1>9, <1>10, <1>11
        DEF Next, SocketStep

\* The refs, sockets, events and loads keep their types.
THEOREM TypeCorrect == Spec => []TypeOK
  BY TypeInit, TypeStep, PTL DEF Spec

-----------------------------------------------------------------------------
(* Links.                                                                  *)

LinkInv == TypeOK /\ LinksInv /\ OneLinkPerRun

\* A connection gives the free socket it takes to its run, and no other socket.
LEMMA Connected ==
    ASSUME NEW r, NEW f, f \in [Sockets -> SocketRow], Connect(r, f)
    PROVE  \E s \in Sockets :
              /\ socket[s] = Closed
              /\ \A t \in Sockets :
                    /\ t # s => socket'[t] = f[t]
                    /\ t = s => socket'[t] = [run |-> r, state |-> "CONNECTING"]
  BY DEF Connect

\* A cleanup leaves the sockets with their runs, and free ones free.
LEMMA CleanedUp ==
    ASSUME TypeOK, LinksInv, NEW s \in Sockets
    PROVE  /\ ClosedByCleanup[s].run = socket[s].run
           /\ socket[s] = Closed <=> socket[s].run = 0
           /\ ClosedByCleanup[s] = Closed <=> socket[s] = Closed
  BY DEF TypeOK, LinksInv, ClosedByCleanup, Closed, SocketState

LEMMA LinkInit == Init => LinksInv /\ OneLinkPerRun
  BY StreamAssumption DEF Init, LinksInv, OneLinkPerRun, Closed, Runs

LEMMA LinkStep == LinkInv /\ [Next]_vars => (LinksInv /\ OneLinkPerRun)'
<1> SUFFICES ASSUME LinkInv, [Next]_vars PROVE (LinksInv /\ OneLinkPerRun)'
  OBVIOUS
<1> DEFINE Goal == (LinksInv /\ OneLinkPerRun)'
<1> USE StreamAssumption DEF LinkInv
<1>1. ASSUME UNCHANGED <<links, isCleaningUp>> PROVE Goal
  BY <1>1 DEF LinksInv, OneLinkPerRun, links
<1>2. CASE StartEffect
  <2> DEFINE q == lastRun + 1
  <2>1. q \in Runs /\ lastRun' = q /\ run' = q /\ mounted' = mounted /\ mounted
    BY <1>2 DEF StartEffect, Runs, TypeOK
  <2>2. \A r \in Runs : timers'[r] = timers[r] \/ timers'[r] = 0
    BY <1>2 DEF StartEffect, ClearTimers, memory
  <2>3. \A r \in Runs : timers[r] \in Nat
    BY DEF TypeOK
  <2>4. timers'[q] = 0
    BY <2>1, <2>2 DEF LinksInv, TypeOK
  <2>5. PICK s \in Sockets :
           /\ socket[s] = Closed
           /\ \A t \in Sockets :
                 /\ t # s => socket'[t] = ClosedByCleanup[t]
                 /\ t = s => socket'[t] = [run |-> q, state |-> "CONNECTING"]
    BY <1>2, CleanupTypes, Connected DEF StartEffect
  <2>6. \A t \in Sockets : socket'[t].run = IF t = s THEN q ELSE socket[t].run
    BY <2>5, CleanedUp
  <2>7. \A t \in Sockets : socket[t].run <= lastRun /\ socket[t].run # q
    BY DEF LinksInv, TypeOK
  <2>8. OneLinkPerRun'
    BY <2>2, <2>3, <2>4, <2>6, <2>7 DEF OneLinkPerRun
  <2>9. \A t \in Sockets : /\ socket'[t].run <= q
                           /\ socket'[t].run = 0 => socket'[t] = Closed
    <3> SUFFICES ASSUME NEW t \in Sockets
                 PROVE  /\ socket'[t].run <= q
                        /\ socket'[t].run = 0 => socket'[t] = Closed
      OBVIOUS
    <3>1. socket[t].run \in Nat /\ lastRun \in Nat /\ q > 0
      BY DEF TypeOK
    <3>2. CASE t = s
      BY <2>6, <3>1, <3>2
    <3>3. CASE t # s
      BY <2>5, <2>6, <2>7, <3>1, <3>3, CleanedUp
    <3> QED BY <3>2, <3>3
  <2>10. \A r \in Runs : r > q => timers'[r] = 0
    BY <2>2, <2>1 DEF LinksInv, Runs, TypeOK
  <2> QED BY <2>1, <2>8, <2>9, <2>10 DEF LinksInv, Runs
<1>3. CASE StopEffect
  <2>1. /\ run' = 0 /\ lastRun' = lastRun /\ isCleaningUp'
        /\ \A r \in Runs : timers'[r] = timers[r] \/ timers'[r] = 0
        /\ socket' = ClosedByCleanup
    BY <1>3 DEF StopEffect, ClearTimers
  <2>2. \A t \in Sockets : /\ socket'[t].run = socket[t].run
                           /\ socket'[t] = Closed <=> socket[t] = Closed
    BY <2>1, CleanedUp
  <2>3. lastRun \in Nat /\ \A r \in Runs : timers[r] \in Nat
    BY DEF TypeOK
  <2> QED BY <2>1, <2>2, <2>3 DEF LinksInv, OneLinkPerRun
<1>4. ASSUME NEW s \in Sockets, Opens(s) PROVE Goal
  <2>1. \A t \in Sockets : socket'[t].run = socket[t].run
    BY <1>4 DEF Opens, TypeOK
  <2>2. \A t \in Sockets : socket[t].run # 0 \/ socket'[t] = socket[t]
    BY <1>4 DEF Opens, TypeOK, LinksInv, Closed
  <2> QED BY <1>4, <2>1, <2>2 DEF Opens, LinksInv, OneLinkPerRun
<1>5. ASSUME NEW s \in Sockets, Closes(s) PROVE Goal
  <2> DEFINE q == socket[s].run
  <2>1. q \in Runs /\ q <= lastRun
    BY <1>5 DEF Closes, LinksInv, TypeOK, Runs
  <2>2. timers[q] = 0 /\ \A t \in Sockets : socket[t].run = q => t = s
    BY <2>1 DEF OneLinkPerRun
  <2>3. \A t \in Sockets : socket'[t] = IF t = s THEN Closed ELSE socket[t]
    BY <1>5 DEF Closes, TypeOK
  <2>4. \A r \in Runs : timers'[r] = timers[r] \/ (r = q /\ timers'[r] = 1)
    BY <1>5, <2>2 DEF Closes, ScheduleReconnect, TypeOK
  <2>5. OneLinkPerRun'
    BY <2>2, <2>3, <2>4 DEF OneLinkPerRun, Closed, Runs
  <2>6. \A r \in Runs : r > lastRun => timers'[r] = 0
    BY <2>1, <2>4 DEF LinksInv, TypeOK, Runs
  <2>7. UNCHANGED <<run, lastRun, mounted, isCleaningUp>>
    BY <1>5 DEF Closes
  <2>8. \A t \in Sockets : /\ socket'[t].run <= lastRun
                           /\ socket'[t].run = 0 => socket'[t] = Closed
    BY <2>3 DEF LinksInv, TypeOK, Closed
  <2> QED BY <2>5, <2>6, <2>7, <2>8 DEF LinksInv
<1>6. ASSUME NEW r \in Runs, ReconnectTimerFires(r) PROVE Goal
  <2>1. timers[r] = 1 /\ \A q \in Runs : timers'[q] = IF q = r THEN 0 ELSE timers[q]
    BY <1>6 DEF ReconnectTimerFires, OneLinkPerRun, TypeOK
  <2>2. r <= lastRun /\ \A t \in Sockets : socket[t].run # r
    BY <2>1 DEF LinksInv, OneLinkPerRun, TypeOK, Runs
  <2>3. UNCHANGED <<run, lastRun, mounted, isCleaningUp>>
    BY <1>6 DEF ReconnectTimerFires, refs
  <2>4. CASE UNCHANGED socket
    BY <2>1, <2>2, <2>3, <2>4 DEF LinksInv, OneLinkPerRun
  <2>5. CASE Connect(r, socket)
    <3>1. PICK s \in Sockets :
             /\ socket[s] = Closed
             /\ \A t \in Sockets :
                   /\ t # s => socket'[t] = socket[t]
                   /\ t = s => socket'[t] = [run |-> r, state |-> "CONNECTING"]
      BY <2>5, Connected DEF TypeOK, SocketRow
    <3>2. \A t \in Sockets : socket'[t].run = IF t = s THEN r ELSE socket[t].run
      BY <3>1
    <3>3. OneLinkPerRun'
      BY <2>1, <2>2, <3>2 DEF OneLinkPerRun
    <3>4. \A t \in Sockets : /\ socket'[t].run <= lastRun
                             /\ socket'[t].run = 0 => socket'[t] = Closed
      BY <2>2, <3>1, <3>2 DEF LinksInv, Runs
    <3> QED BY <2>1, <2>3, <3>3, <3>4 DEF LinksInv
  <2> QED BY <1>6, <2>4, <2>5 DEF ReconnectTimerFires
<1>7. ASSUME Commit \/ RunRefresh \/ (\E l \in Loads : LoadStep(l))
             \/ (\E n \in 1..row, e \in Entities : Publish(n, e))
             \/ (\E s \in Sockets, x \in wire : Receives(s, x[2]))
      PROVE  UNCHANGED <<links, isCleaningUp>>
  BY <1>7 DEF Commit, RunRefresh, LoadStep, FlushTimerFires, LoadReads, LoadAnswers,
              LoadFails, Publish, Receives, refs
<1>8. CASE UNCHANGED vars
  BY <1>1, <1>8 DEF vars, refs
<1> QED BY <1>1, <1>2, <1>3, <1>4, <1>5, <1>6, <1>7, <1>8 DEF Next, SocketStep

\* The part of the invariant about sockets and timers.
THEOREM LinksHold == Spec => []LinkInv
<1>1. Init => LinkInv
  BY TypeInit, LinkInit DEF LinkInv
<1>2. LinkInv /\ [Next]_vars => LinkInv'
  BY TypeStep, LinkStep DEF LinkInv
<1> QED BY <1>1, <1>2, PTL DEF Spec

\* No run of the effect has two sockets, or a socket and a timer that opens one.
THEOREM OneLinkPerRunAlways == Spec => []OneLinkPerRun
<1>1. LinkInv => OneLinkPerRun
  BY DEF LinkInv
<1> QED BY <1>1, LinksHold, PTL

\* While the effect runs, its run has a live socket or a timer that will open one, and
\* the flag that makes timers give up is down: no cleanup and no closure of an earlier
\* run takes the connection from it.  What remains for StaysConnected is that the
\* timer fires and the socket opens.
CurrentRunLinked ==
    run # 0 =>
        /\ ~isCleaningUp
        /\ \A s \in Sockets : socket[s].run = run => socket[s].state \in {"CONNECTING", "OPEN"}
        /\ timers[run] > 0 \/ \E s \in Sockets : socket[s].run = run

LEMMA LinkedStep ==
    ASSUME LinkInv, CurrentRunLinked, [Next]_vars
    PROVE  CurrentRunLinked'
<1> USE StreamAssumption DEF LinkInv
<1>1. ASSUME UNCHANGED <<run, isCleaningUp, timers, socket>> PROVE CurrentRunLinked'
  BY <1>1 DEF CurrentRunLinked
<1>2. CASE StartEffect
  <2> DEFINE q == lastRun + 1
  <2>1. run' = q /\ q # 0 /\ ~isCleaningUp'
    BY <1>2 DEF StartEffect, CleaningUpInNewRun, TypeOK
  <2>2. PICK s \in Sockets :
           /\ socket[s] = Closed
           /\ \A t \in Sockets :
                 /\ t # s => socket'[t] = ClosedByCleanup[t]
                 /\ t = s => socket'[t] = [run |-> q, state |-> "CONNECTING"]
    BY <1>2, CleanupTypes, Connected DEF StartEffect
  <2>3. ASSUME NEW t \in Sockets, t # s PROVE socket'[t].run # q
    <3>1. socket'[t].run = socket[t].run
      BY <2>2, <2>3, CleanedUp
    <3>2. socket[t].run <= lastRun /\ socket[t].run \in Nat /\ lastRun \in Nat
      BY DEF LinksInv, TypeOK
    <3> QED BY <3>1, <3>2
  <2>4. socket'[s].run = q /\ socket'[s].state = "CONNECTING"
    BY <2>2
  <2> QED BY <2>1, <2>3, <2>4 DEF CurrentRunLinked
<1>3. CASE StopEffect
  BY <1>3 DEF StopEffect, CurrentRunLinked
<1>4. ASSUME NEW s \in Sockets, Opens(s) PROVE CurrentRunLinked'
  <2>1. \A t \in Sockets : /\ socket'[t].run = socket[t].run
                           /\ socket'[t].state = IF t = s THEN "OPEN" ELSE socket[t].state
    BY <1>4 DEF Opens, TypeOK
  <2>2. UNCHANGED <<run, isCleaningUp, timers>>
    BY <1>4 DEF Opens
  <2> QED BY <2>1, <2>2 DEF CurrentRunLinked
<1>5. ASSUME NEW s \in Sockets, Closes(s) PROVE CurrentRunLinked'
  <2> SUFFICES ASSUME run # 0 PROVE CurrentRunLinked'
    BY <1>5 DEF Closes, CurrentRunLinked
  <2>1. ~isCleaningUp /\ UNCHANGED <<run, isCleaningUp>>
    BY <1>5 DEF Closes, CurrentRunLinked
  <2>2. timers' = [timers EXCEPT ![socket[s].run] = @ + 1]
    BY <1>5, <2>1 DEF Closes, ScheduleReconnect
  <2>3. \A t \in Sockets : socket'[t] = IF t = s THEN Closed ELSE socket[t]
    BY <1>5 DEF Closes, TypeOK
  <2>4. run \in Runs /\ \A r \in Runs : timers[r] \in Nat
    BY DEF TypeOK, Runs
  <2>5. CASE socket[s].run = run
    <3>1. timers'[run] > 0
      BY <2>2, <2>4, <2>5 DEF TypeOK
    <3>2. \A t \in Sockets : t = s => socket'[t].run # run
      BY <2>3 DEF Closed
    <3> QED BY <2>1, <2>3, <3>1, <3>2 DEF CurrentRunLinked
  <2>6. CASE socket[s].run # run
    <3>1. timers'[run] = timers[run]
      BY <2>2, <2>4, <2>6 DEF TypeOK
    <3>2. \A t \in Sockets : t = s => socket'[t].run # run
      BY <2>3 DEF Closed
    <3> QED BY <2>1, <2>3, <2>6, <3>1, <3>2 DEF CurrentRunLinked
  <2> QED BY <2>5, <2>6
<1>6. ASSUME NEW r \in Runs, ReconnectTimerFires(r) PROVE CurrentRunLinked'
  <2> SUFFICES ASSUME run # 0 PROVE CurrentRunLinked'
    BY <1>6 DEF ReconnectTimerFires, CurrentRunLinked
  <2>1. ~isCleaningUp /\ UNCHANGED <<run, isCleaningUp>>
    BY <1>6 DEF ReconnectTimerFires, CurrentRunLinked, refs
  <2>2. PICK s \in Sockets :
           /\ socket[s] = Closed
           /\ \A t \in Sockets :
                 /\ t # s => socket'[t] = socket[t]
                 /\ t = s => socket'[t] = [run |-> r, state |-> "CONNECTING"]
    BY <1>6, <2>1, Connected DEF ReconnectTimerFires, Reconnects, TypeOK, SocketRow
  <2>3. socket[s].run # run
    BY <2>2 DEF Closed
  <2>4. run \in Runs /\ (r # run => timers'[run] = timers[run])
    BY <1>6 DEF ReconnectTimerFires, TypeOK, Runs
  <2>5. \A t \in Sockets : socket[t].run = run => t # s /\ socket'[t] = socket[t]
    BY <2>2, <2>3
  <2>6. timers'[run] > 0 \/ \E t \in Sockets : socket'[t].run = run
    <3>1. CASE r = run
      BY <2>2, <3>1
    <3>2. CASE r # run
      BY <2>4, <2>5, <3>2 DEF CurrentRunLinked
    <3> QED BY <3>1, <3>2
  <2>7. \A t \in Sockets :
           socket'[t].run = run => socket'[t].state \in {"CONNECTING", "OPEN"}
    BY <2>2, <2>5 DEF CurrentRunLinked
  <2> QED BY <2>1, <2>6, <2>7 DEF CurrentRunLinked
<1>7. ASSUME Commit \/ RunRefresh \/ (\E l \in Loads : LoadStep(l))
             \/ (\E n \in 1..row, e \in Entities : Publish(n, e))
             \/ (\E s \in Sockets, x \in wire : Receives(s, x[2]))
      PROVE  UNCHANGED <<links, isCleaningUp>>
  BY <1>7 DEF Commit, RunRefresh, LoadStep, FlushTimerFires, LoadReads, LoadAnswers,
              LoadFails, Publish, Receives, refs
<1>8. CASE UNCHANGED vars
  BY <1>1, <1>8 DEF vars, refs, links
<1> QED BY <1>1, <1>2, <1>3, <1>4, <1>5, <1>6, <1>7, <1>8 DEF Next, SocketStep, links

\* A screen that has a session is connected, or has what it needs to connect.
THEOREM CurrentRunLinkedAlways == Spec => []CurrentRunLinked
<1>1. Init => CurrentRunLinked
  BY DEF Init, CurrentRunLinked
<1>2. LinkInv /\ CurrentRunLinked /\ [Next]_vars => CurrentRunLinked'
  BY LinkedStep
<1> QED BY <1>1, <1>2, LinksHold, PTL DEF Spec

\* inFlightRef is up exactly while the timer's load runs: a load that failed, or was
\* answered, never keeps the next one from starting.
PollNotStuck == inFlight <=> load[Poll] # Idle

\* So the loads that ScreenCatchesUp counts on are never shut out.
THEOREM PollNotStuckAlways == Spec => []PollNotStuck
<1> USE StreamAssumption DEF PollNotStuck
<1>1. Init => PollNotStuck
  BY DEF Init, Loads, Poll
<1>2. TypeOK /\ PollNotStuck /\ [Next]_vars => PollNotStuck'
  <2> SUFFICES ASSUME TypeOK, PollNotStuck, [Next]_vars PROVE PollNotStuck'
    OBVIOUS
  <2>1. Poll \in Loads /\ load \in [Loads -> Int]
    BY DEF Loads, Poll, TypeOK
  <2>2. CASE UNCHANGED <<load, inFlight>>
    BY <2>2
  <2>3. CASE RunRefresh
    BY <2>1, <2>3 DEF RunRefresh, Unread, Idle
  <2>4. ASSUME NEW l \in Loads, FlushTimerFires(l) PROVE PollNotStuck'
    BY <2>1, <2>4 DEF FlushTimerFires
  <2>5. ASSUME NEW l \in Loads, LoadReads(l) PROVE PollNotStuck'
    <3>1. load[l] # Idle /\ row # Idle
      BY <2>5 DEF LoadReads, Unread, Idle, TypeOK
    <3> QED BY <2>1, <2>5, <3>1 DEF LoadReads
  <2>6. ASSUME NEW l \in Loads, LoadAnswers(l) PROVE PollNotStuck'
    BY <2>1, <2>6 DEF LoadAnswers
  <2>7. ASSUME NEW l \in Loads, LoadFails(l) PROVE PollNotStuck'
    BY <2>1, <2>7 DEF LoadFails, InFlightAfterFailure
  <2>8. ASSUME \/ Commit \/ StartEffect \/ StopEffect
               \/ \E n \in 1..row, e \in Entities : Publish(n, e)
               \/ \E s \in Sockets : SocketStep(s)
               \/ \E r \in Runs : ReconnectTimerFires(r)
        PROVE  UNCHANGED <<load, inFlight>>
    BY <2>8 DEF Commit, StartEffect, StopEffect, Publish, SocketStep, Opens, Closes,
                Receives, ReconnectTimerFires, screen
  <2>9. CASE UNCHANGED vars
    BY <2>2, <2>9 DEF vars, screen
  <2> QED BY <2>2, <2>3, <2>4, <2>5, <2>6, <2>7, <2>8, <2>9 DEF Next, LoadStep
<1> QED BY <1>1, <1>2, TypeCorrect, PTL DEF Spec

\* No timer that outlives the screen opens a socket.
THEOREM QuietAfterUnmountAlways == Spec => QuietAfterUnmount
<1> DEFINE Quiet == \A s \in Sockets : socket[s] = Closed => socket'[s] = Closed
<1>1. LinkInv /\ [Next]_vars /\ ~mounted => Quiet
  <2> SUFFICES ASSUME LinkInv, [Next]_vars, ~mounted PROVE Quiet
    OBVIOUS
  <2>1. isCleaningUp /\ run = 0 /\ socket \in [Sockets -> SocketRow]
    BY DEF LinkInv, LinksInv, TypeOK, SocketRow
  <2>2. ASSUME NEW s \in Sockets, Opens(s) \/ Closes(s) PROVE Quiet
    <3>1. CASE Opens(s)
      <4>1. socket[s] # Closed
        BY <3>1 DEF Opens, Closed
      <4> QED BY <2>1, <3>1, <4>1 DEF Opens
    <3>2. CASE Closes(s)
      BY <2>1, <3>2 DEF Closes
    <3> QED BY <2>2, <3>1, <3>2
  <2>3. ASSUME NEW r \in Runs, ReconnectTimerFires(r) PROVE Quiet
    BY <2>1, <2>3 DEF ReconnectTimerFires, Reconnects
  <2>4. ~StartEffect /\ ~StopEffect
    BY <2>1 DEF StartEffect, StopEffect
  <2>5. ASSUME Commit \/ RunRefresh \/ (\E l \in Loads : LoadStep(l))
               \/ (\E n \in 1..row, e \in Entities : Publish(n, e))
               \/ (\E s \in Sockets, x \in wire : Receives(s, x[2]))
        PROVE  Quiet
    BY <2>5 DEF Commit, RunRefresh, LoadStep, FlushTimerFires, LoadReads, LoadAnswers,
                LoadFails, Publish, Receives, links
  <2>6. CASE UNCHANGED vars
    BY <2>6 DEF vars, links
  <2> QED BY <2>2, <2>3, <2>4, <2>5, <2>6 DEF Next, SocketStep
<1> QED BY <1>1, LinksHold, PTL DEF Spec, QuietAfterUnmount

-----------------------------------------------------------------------------
(* Events.                                                                 *)

EventInv == TypeOK /\ EventsInv /\ IgnoredIsLoaded

LEMMA EventInit == Init => EventsInv /\ IgnoredIsLoaded
  BY DEF Init, EventsInv, IgnoredIsLoaded, Seen

\* A state whose memory is that of the state before, or empty, keeps the invariant
\* if no commit that was to be loaded is forgotten.
LEMMA MemoryKept ==
    ASSUME EventInv,
           row' \in Nat, row' >= row, attempted' <= row',
           UNCHANGED <<published, clock>>,
           \/ UNCHANGED <<seenEventIds, latestEventAt>>
              /\ \A n \in Nat : n <= row /\ Loaded(n) => Loaded(n)'
           \/ ForgetEvents
    PROVE  (EventsInv /\ IgnoredIsLoaded)'
<1> USE DEF EventInv
<1>1. \A p \in published : p.id \in Nat /\ p.id <= row /\ p.at \in Nat /\ p.entity \in Entities
  BY DEF TypeOK, EventsInv
<1>2. row \in Nat /\ clock \in Nat
  BY DEF TypeOK
<1>3. CASE ForgetEvents
  <2>1. \A n : ~Seen(n)'
    BY <1>3 DEF ForgetEvents, Seen
  <2>2. \A p \in published : ~Late(p)'
    BY <1>1, <1>3 DEF ForgetEvents, Late
  <2>3. \A e \in Entities : latestEventAt'[e] = 0 /\ latestEventAt[e] < clock
                            /\ latestEventAt[e] \in Nat
    BY <1>3 DEF ForgetEvents, EventsInv, TypeOK
  <2> QED BY <1>1, <1>2, <2>1, <2>2, <2>3 DEF EventsInv, IgnoredIsLoaded
<1>4. CASE UNCHANGED <<seenEventIds, latestEventAt>>
           /\ \A n \in Nat : n <= row /\ Loaded(n) => Loaded(n)'
  <2>1. \A n : Seen(n)' <=> Seen(n)
    BY <1>4 DEF Seen
  <2>2. \A p : (Late(p)' <=> Late(p)) /\ (Masked(p) => Masked(p)')
    BY <1>4 DEF Late, Masked
  <2> QED BY <1>1, <1>2, <1>4, <2>1, <2>2 DEF EventsInv, IgnoredIsLoaded
<1> QED BY <1>3, <1>4

\* An event that is published is new to every hook, and none is late for it.
LEMMA PublishKeeps ==
    ASSUME Skew = 0, EventInv, NEW n \in 1..row, NEW e \in Entities, Publish(n, e)
    PROVE  (EventsInv /\ IgnoredIsLoaded)'
<1> USE DEF EventInv
<1>0. PICK p : /\ published' = published \cup {p}
               /\ p.id = n /\ p.entity = e /\ p.at = clock
  <2>1. PICK at \in clock..(clock + Skew), listed \in {TRUE, n \notin Unlisted} :
           published' = published \cup {[id |-> n, entity |-> e, at |-> at, listed |-> listed]}
    BY DEF Publish
  <2>2. at = clock
    BY DEF TypeOK
  <2> DEFINE p == [id |-> n, entity |-> e, at |-> at, listed |-> listed]
  <2>3. published' = published \cup {p} /\ p.id = n /\ p.entity = e /\ p.at = clock
    BY <2>1, <2>2
  <2> HIDE DEF p
  <2> QED BY <2>3
<1>1. /\ clock' = clock + 1
      /\ UNCHANGED <<row, seenEventIds, latestEventAt, flushTimer, load, attempted>>
      /\ \A q \in published : q.id # n
  BY DEF Publish, memory, screen
<1>2. row \in Nat /\ clock \in Nat /\ n \in Nat /\ latestEventAt \in [Entities -> Nat]
  BY DEF TypeOK
<1>3. ~Seen(n) /\ ~Late(p)
  BY <1>0, <1>1, <1>2 DEF EventsInv, Late
<1>4. /\ \A m : (Seen(m)' <=> Seen(m)) /\ (Loaded(m)' <=> Loaded(m))
      /\ \A q : (Late(q)' <=> Late(q)) /\ (Masked(q) => Masked(q)')
  BY <1>0, <1>1 DEF Seen, Late, Loaded, Masked
<1>5. EventsInv'
  <2>2. \A q \in published : q.id <= row /\ q.at < clock /\ q.at \in Nat
    BY DEF EventsInv, TypeOK
  <2>3. \A q \in published' : q.id <= row' /\ q.at < clock'
    BY <1>0, <1>1, <1>2, <2>2
  <2>4. \A f \in Entities : latestEventAt'[f] < clock'
    BY <1>1, <1>2 DEF EventsInv
  <2>5. \A m \in Nat : Seen(m)' => \E q \in published' : q.id = m
    BY <1>0, <1>4 DEF EventsInv
  <2>6. \A q, x \in published' : q.id = x.id => q = x
    BY <1>0, <1>1 DEF EventsInv
  <2> QED BY <1>1, <2>3, <2>4, <2>5, <2>6 DEF EventsInv
<1>6. IgnoredIsLoaded'
  BY <1>0, <1>3, <1>4 DEF IgnoredIsLoaded
<1> QED BY <1>5, <1>6

\* An event that is received asks for a load, or is ignored as it was to be already, or
\* masks those before it.
LEMMA ReceiveKeeps ==
    ASSUME EventInv, NEW s \in Sockets, NEW x \in wire, Receives(s, x[2])
    PROVE  (EventsInv /\ IgnoredIsLoaded)'
<1> USE DEF EventInv
<1> DEFINE p == x[2]
<1>1. p \in published /\ p \in Event
  BY DEF TypeOK, Event
<1>2. UNCHANGED <<row, published, clock, load, attempted>>
  BY DEF Receives, screen
<1>3. \A n : Seen(n)' => Seen(n) \/ n = p.id
  <2>1. CASE seenEventIds' = seenEventIds
    BY <2>1 DEF Seen
  <2>2. CASE seenEventIds' = Remember(p.id)
    BY <1>1, <2>2, Remembered DEF Seen, Event
  <2> QED BY <2>1, <2>2 DEF Receives
<1>4. \A e \in Entities : latestEventAt'[e] < clock
  <2>1. p.at < clock
    BY <1>1 DEF EventsInv
  <2> QED BY <1>1, <2>1 DEF Receives, EventsInv, TypeOK
<1>5. EventsInv'
  BY <1>1, <1>2, <1>3, <1>4 DEF EventsInv
<1>7. \A q : Masked(q)' <=> Masked(q)
  BY <1>2 DEF Masked
<1>8. \A q \in published : q.id = p.id => q = p
  BY <1>1 DEF EventsInv
<1>6. IgnoredIsLoaded'
  <2>1. CASE Seen(p.id) \/ Late(p)
    <3>1. UNCHANGED <<latestEventAt, flushTimer>>
      BY <2>1 DEF Receives
    <3>2. \A q : (Late(q)' <=> Late(q)) /\ (Loaded(q.id)' <=> Loaded(q.id))
      BY <1>2, <3>1 DEF Late, Loaded
    <3>3. p.listed => Loaded(p.id) \/ Masked(p)
      BY <1>1, <2>1 DEF IgnoredIsLoaded
    <3> QED BY <1>2, <1>3, <1>7, <1>8, <3>2, <3>3 DEF IgnoredIsLoaded
  <2>2. CASE ~(Seen(p.id) \/ Late(p)) /\ p.listed
    <3>1. flushTimer'
      BY <2>2 DEF Receives
    <3> QED BY <3>1 DEF IgnoredIsLoaded, Loaded
  <2>3. CASE ~(Seen(p.id) \/ Late(p)) /\ ~p.listed
    <3>1. latestEventAt' = [latestEventAt EXCEPT ![p.entity] = p.at]
      BY <2>3 DEF Receives
    <3>2. \A n : Loaded(n) => Loaded(n)'
      BY <1>2, <2>3 DEF Receives, Loaded
    <3>3. ASSUME NEW q \in published, q.listed, Late(q)' PROVE Late(q) \/ Masked(q)
      <4>1. q.entity \in Entities /\ latestEventAt \in [Entities -> Nat]
        BY DEF TypeOK
      <4>2. CASE q.entity = p.entity
        <5>1. q.at < p.at
          BY <3>1, <3>3, <4>1, <4>2 DEF Late
        <5>2. p.at > q.at
          BY <1>1, <5>1 DEF Event, TypeOK
        <5> QED BY <1>1, <2>3, <4>2, <5>2 DEF Masked
      <4>3. CASE q.entity # p.entity
        BY <3>1, <3>3, <4>1, <4>3 DEF Late
      <4> QED BY <4>2, <4>3
    <3>4. ASSUME NEW q \in published, q.listed, Seen(q.id)' PROVE Seen(q.id)
      BY <1>3, <1>8, <2>3, <3>4
    <3> QED BY <1>2, <1>7, <3>2, <3>3, <3>4 DEF IgnoredIsLoaded
  <2> QED BY <2>1, <2>2, <2>3
<1> QED BY <1>5, <1>6

LEMMA EventStep ==
    Skew = 0 /\ EventInv /\ [Next]_vars => (EventsInv /\ IgnoredIsLoaded)'
<1> SUFFICES ASSUME Skew = 0, EventInv, [Next]_vars PROVE (EventsInv /\ IgnoredIsLoaded)'
  OBVIOUS
<1>0. row \in Nat /\ attempted \in Nat /\ attempted <= row
  BY DEF EventInv, EventsInv, TypeOK
<1>1. CASE Commit
  <2>1. \A n : Loaded(n)' <=> Loaded(n)
    BY <1>1 DEF Commit, Loaded, memory, screen
  <2> QED BY <1>0, <1>1, <2>1, MemoryKept DEF Commit, wires, memory, screen
<1>2. ASSUME (\E s \in Sockets : Opens(s) \/ Closes(s))
             \/ (\E r \in Runs : ReconnectTimerFires(r))
      PROVE  (EventsInv /\ IgnoredIsLoaded)'
  <2>1. UNCHANGED <<row, published, clock, memory, screen>>
    BY <1>2 DEF Opens, Closes, ReconnectTimerFires, wires
  <2>2. \A n : Loaded(n)' <=> Loaded(n)
    BY <2>1 DEF Loaded, memory, screen
  <2> QED BY <1>0, <2>1, <2>2, MemoryKept DEF memory, screen
<1>3. ASSUME StartEffect \/ StopEffect PROVE (EventsInv /\ IgnoredIsLoaded)'
  <2>1. UNCHANGED <<row, published, clock, screen>>
    BY <1>3 DEF StartEffect, StopEffect, wires
  <2>2. CASE ForgetEvents
    BY <1>0, <2>1, <2>2, MemoryKept DEF screen
  <2>3. CASE UNCHANGED memory
    <3>1. \A n : Loaded(n)' <=> Loaded(n)
      BY <2>1, <2>3 DEF Loaded, memory, screen
    <3> QED BY <1>0, <2>1, <2>3, <3>1, MemoryKept DEF memory, screen
  <2> QED BY <1>3, <2>2, <2>3 DEF StartEffect, StopEffect
<1>4. CASE RunRefresh
  <2>1. \A n : Loaded(n) => Loaded(n)'
    BY <1>4 DEF RunRefresh, Loaded, EventInv, TypeOK, memory, Loads, Poll
  <2> QED BY <1>0, <1>4, <2>1, MemoryKept DEF RunRefresh, wires, memory
<1>5. ASSUME NEW l \in Loads, LoadStep(l) PROVE (EventsInv /\ IgnoredIsLoaded)'
  <2>1. load \in [Loads -> Int]
    BY DEF EventInv, TypeOK
  <2>2. CASE FlushTimerFires(l)
    <3>1. load'[l] = Unread
      BY <2>1, <2>2 DEF FlushTimerFires
    <3> QED BY <1>0, <2>2, <3>1, MemoryKept DEF FlushTimerFires, Loaded, wires
  <2>3. CASE LoadReads(l)
    <3>1. \A n \in Nat : n <= row => Loaded(n)'
      BY <1>0, <2>3 DEF LoadReads, Loaded
    <3> QED BY <1>0, <2>3, <3>1, MemoryKept DEF LoadReads, wires, memory
  <2>4. CASE LoadAnswers(l)
    <3>1. \A k \in Loads : load[k] = Unread => k # l /\ load'[k] = Unread
      BY <2>1, <2>4 DEF LoadAnswers, Unread
    <3>2. \A n : Loaded(n) => Loaded(n)'
      BY <2>4, <3>1 DEF LoadAnswers, Loaded, memory
    <3> QED BY <1>0, <2>4, <3>2, MemoryKept DEF LoadAnswers, wires, memory
  <2>5. CASE LoadFails(l)
    <3>1. CASE load[l] = Unread
      <4>1. attempted' = row /\ \A n \in Nat : n <= row => Loaded(n)'
        BY <1>0, <2>5, <3>1 DEF LoadFails, Loaded
      <4> QED BY <1>0, <2>5, <4>1, MemoryKept DEF LoadFails, wires, memory
    <3>2. CASE load[l] # Unread
      <4>1. \A k \in Loads : load[k] = Unread => load'[k] = Unread
        BY <2>1, <2>5, <3>2 DEF LoadFails
      <4>2. attempted' = attempted /\ \A n : Loaded(n) => Loaded(n)'
        BY <2>5, <3>2, <4>1 DEF LoadFails, Loaded, memory
      <4> QED BY <1>0, <2>5, <4>2, MemoryKept DEF LoadFails, wires, memory
    <3> QED BY <3>1, <3>2
  <2> QED BY <1>5, <2>2, <2>3, <2>4, <2>5 DEF LoadStep
<1>6. CASE UNCHANGED vars
  <2>1. UNCHANGED <<row, published, clock, memory, screen>>
    BY <1>6 DEF vars, wires
  <2>2. \A n : Loaded(n)' <=> Loaded(n)
    BY <2>1 DEF Loaded, memory, screen
  <2> QED BY <1>0, <2>1, <2>2, MemoryKept DEF memory, screen
<1> QED BY <1>1, <1>2, <1>3, <1>4, <1>5, <1>6, PublishKeeps, ReceiveKeeps
        DEF Next, SocketStep

\* With one clock for all instances of the API, no listed event is ignored for nothing
\* but one that a later event of another type made late.
THEOREM IgnoredIsLoadedAlways == Skew = 0 /\ Spec => []IgnoredIsLoaded
<1> SUFFICES ASSUME Skew = 0 PROVE Spec => []IgnoredIsLoaded
  OBVIOUS
<1>1. Init => EventInv
  BY TypeInit, EventInit DEF EventInv
<1>2. EventInv /\ [Next]_vars => EventInv'
  BY TypeStep, EventStep DEF EventInv
<1>3. EventInv => IgnoredIsLoaded
  BY DEF EventInv
<1> QED BY <1>1, <1>2, <1>3, PTL DEF Spec
=============================================================================
