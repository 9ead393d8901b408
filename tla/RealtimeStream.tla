--------------------------- MODULE RealtimeStream ---------------------------
(***************************************************************************)
(* One screen of a mobile application kept up to date: the events that the *)
(* API publishes (realtime.service.ts, realtime.gateway.ts), the hook that *)
(* receives them over WebSockets (use-websocket-realtime-stream.ts), and   *)
(* the loads over HTTP that an event or a timer starts                     *)
(* (use-live-refresh.ts).                                                  *)
(*                                                                         *)
(* The rows a screen shows are a counter of their commits.  An event only  *)
(* asks for a load, and only if its type is in the screen's list; what the *)
(* hook remembers of it does not depend on that.  The hook's effect        *)
(* runs again whenever the session's token changes; the closures of an     *)
(* earlier run live on in its sockets and timers, and share the refs of    *)
(* the component with the later ones.  The heartbeat's interval only sends *)
(* pings, which the gateway answers and nothing reads: it is left out.     *)
(***************************************************************************)
EXTENDS Integers, Sequences

CONSTANTS Entities,     \* trips and requests that events are about
          Sockets,      \* identities of sockets, used again once closed
          SeenLimit,    \* event ids that the hook remembers
          Skew,         \* how far the clock of an API instance may be ahead
          MaxRuns,      \* bound on runs of the effect
          MaxRow,       \* bound on commits
          Unlisted,     \* commits whose event may have a type the screen does not list
          MaxLoads      \* bound on loads started by events, at a time

ASSUME StreamAssumption ==
    /\ SeenLimit \in Nat \ {0} /\ Skew \in Nat
    /\ MaxRuns \in Nat /\ MaxRow \in Nat /\ MaxLoads \in Nat

VARIABLES
    row,            \* commits so far
    clock,          \* of the API
    published,      \* events: [id, entity, at, listed]
    wire,           \* events on their way to a socket
    mounted,        \* the screen exists
    run,            \* the current run of the effect, 0 if it has no token
    lastRun,
    isCleaningUp,
    socket,         \* [run, state] of each socket
    timers,         \* of each run, its pending reconnections
    reconnectTimer, \* the run whose timer the ref holds, or 0
    seenEventIds,
    latestEventAt,  \* of each entity
    flushTimer,     \* an update is about to be passed to the screen
    load,           \* of each load, what it read
    inFlight,       \* the timer's load is not over
    shown,          \* commits the screen shows
    attempted       \* history: commits before the end of the last read or failure

wires == <<published, clock, wire>>
refs == <<isCleaningUp, reconnectTimer>>
links == <<socket, timers, run, lastRun, mounted>>
memory == <<seenEventIds, latestEventAt, flushTimer>>
screen == <<load, inFlight, shown, attempted>>
vars == <<row, wires, refs, links, memory, screen>>

Runs == 1..MaxRuns
SocketState == {"NONE", "CONNECTING", "OPEN", "CLOSING"}
Closed == [run |-> 0, state |-> "NONE"]

\* What a load may hold instead of the commits it read.
Idle == -2
Unread == -1
Poll == 0
Loads == 0..MaxLoads

Init ==
    /\ row = 0 /\ clock = 1 /\ published = {} /\ wire = {}
    /\ mounted = TRUE /\ run = 0 /\ lastRun = 0
    /\ isCleaningUp = FALSE
    /\ socket = [s \in Sockets |-> Closed]
    /\ timers = [r \in Runs |-> 0] /\ reconnectTimer = 0
    /\ seenEventIds = <<>> /\ latestEventAt = [e \in Entities |-> 0]
    /\ flushTimer = FALSE
    /\ load = [l \in Loads |-> Idle]
    /\ inFlight = FALSE /\ shown = 0 /\ attempted = 0

-----------------------------------------------------------------------------
(* The API.                                                                *)

Commit ==
    /\ row < MaxRow
    /\ row' = row + 1
    /\ UNCHANGED <<wires, refs, links, memory, screen>>

OpenSockets == {s \in Sockets : socket[s].state = "OPEN"}

\* After its commit, at once or long after, or never if the process dies.  The
\* notification reaches any of the sockets: the others' instances lose it, or
\* have not seen their subscription yet.  A type that the screen does not list is, in
\* both applications, a pickup code that was verified, an alarm or a position.
Publish(n, e) ==
    /\ \A p \in published : p.id # n
    /\ clock' = clock + 1
    /\ \E at \in clock..(clock + Skew), listed \in {TRUE, n \notin Unlisted},
          R \in SUBSET OpenSockets :
          LET p == [id |-> n, entity |-> e, at |-> at, listed |-> listed]
          IN  /\ published' = published \cup {p}
              /\ wire' = wire \cup {<<s, p>> : s \in R}
    /\ UNCHANGED <<row, refs, links, memory, screen>>

-----------------------------------------------------------------------------
(* The hook's sockets.                                                     *)

\* connect() of run r, given the sockets as they are by then.
Connect(r, sockets) ==
    \E s \in Sockets :
        /\ socket[s] = Closed
        /\ socket' = [sockets EXCEPT ![s] = [run |-> r, state |-> "CONNECTING"]]

\* The socket of a run, closed by its cleanup.
ClosedByCleanup ==
    [s \in Sockets |-> IF run # 0 /\ socket[s].run = run
                       THEN [socket[s] EXCEPT !.state = "CLOSING"]
                       ELSE socket[s]]

\* clearTimers(): only the timer that the ref holds.
ClearTimers ==
    /\ flushTimer' = FALSE
    /\ timers' = [r \in Runs |-> IF r = reconnectTimer THEN 0 ELSE timers[r]]
    /\ reconnectTimer' = 0

ForgetNothing == UNCHANGED <<seenEventIds, latestEventAt>>  \* (mutant)

ForgetEvents ==
    /\ seenEventIds' = <<>>
    /\ latestEventAt' = [e \in Entities |-> 0]

\* (mutant) a new run leaves isCleaningUp as the cleanup set it
FlagOfNewRun == run # 0

\* isCleaningUp once a new run of the effect has begun.
CleaningUpInNewRun == FALSE

\* The effect runs, after the cleanup of the run before it, if there is one.
StartEffect ==
    /\ mounted /\ lastRun < MaxRuns
    /\ run' = lastRun + 1 /\ lastRun' = lastRun + 1
    /\ IF run # 0
       THEN ClearTimers /\ ForgetEvents
       ELSE UNCHANGED <<memory, timers, reconnectTimer>>
    /\ isCleaningUp' = CleaningUpInNewRun
    /\ Connect(lastRun + 1, ClosedByCleanup)
    /\ UNCHANGED <<row, wires, mounted, screen>>

\* The token is gone, or the screen is.
StopEffect ==
    /\ run # 0 /\ run' = 0
    /\ mounted' \in {FALSE, TRUE}
    /\ ClearTimers /\ ForgetEvents
    /\ isCleaningUp' = TRUE
    /\ socket' = ClosedByCleanup
    /\ UNCHANGED <<row, wires, lastRun, screen>>

\* onopen
Opens(s) ==
    /\ socket[s].state = "CONNECTING"
    /\ socket' = [socket EXCEPT ![s].state = "OPEN"]
    /\ UNCHANGED <<row, wires, isCleaningUp, reconnectTimer, timers, run, lastRun,
                   mounted, memory, screen>>

\* (mutant) an error schedules a reconnection of its own before the close
ScheduleTwice(r) ==
    /\ timers' = [timers EXCEPT ![r] = @ + 2]
    /\ reconnectTimer' = r

\* scheduleReconnect()
ScheduleReconnect(r) ==
    /\ timers' = [timers EXCEPT ![r] = @ + 1]
    /\ reconnectTimer' = r

\* onclose, of a close() or of a loss of the network.
Closes(s) ==
    /\ socket[s] # Closed
    /\ socket' = [socket EXCEPT ![s] = Closed]
    /\ wire' = {x \in wire : x[1] # s}
    /\ IF isCleaningUp
       THEN UNCHANGED <<timers, reconnectTimer>>
       ELSE ScheduleReconnect(socket[s].run)
    /\ UNCHANGED <<row, published, clock, isCleaningUp, run, lastRun, mounted,
                   memory, screen>>

\* (mutant) a timer does not ask whether the hook was cleaned up
AlwaysReconnects == TRUE

Reconnects == ~isCleaningUp

ReconnectTimerFires(r) ==
    /\ timers[r] > 0
    /\ timers' = [timers EXCEPT ![r] = @ - 1]
    /\ IF Reconnects THEN Connect(r, socket) ELSE UNCHANGED socket
    /\ UNCHANGED <<row, wires, refs, run, lastRun, mounted, memory, screen>>

-----------------------------------------------------------------------------
(* Events.                                                                 *)

Seen(n) == \E i \in DOMAIN seenEventIds : seenEventIds[i] = n

Remember(n) ==
    LET ids == Append(seenEventIds, n)
    IN  IF Len(ids) > SeenLimit THEN Tail(ids) ELSE ids

Late(p) == p.at < latestEventAt[p.entity]

\* onmessage, shouldAcceptRealtimeEvent() and scheduleUpdate()
Receives(s, p) ==
    /\ socket[s].state \in {"OPEN", "CLOSING"}
    /\ <<s, p>> \in wire
    /\ wire' = wire \ {<<s, p>>}
    /\ seenEventIds' = IF Seen(p.id) THEN seenEventIds ELSE Remember(p.id)
    /\ IF Seen(p.id) \/ Late(p)
       THEN UNCHANGED <<latestEventAt, flushTimer>>
       ELSE /\ latestEventAt' = [latestEventAt EXCEPT ![p.entity] = p.at]
            /\ flushTimer' = (flushTimer \/ p.listed)
    /\ UNCHANGED <<row, published, clock, refs, links, screen>>

\* The screen starts a load.
FlushTimerFires(l) ==
    /\ flushTimer /\ flushTimer' = FALSE
    /\ l # Poll /\ load[l] = Idle
    /\ load' = [load EXCEPT ![l] = Unread]
    /\ UNCHANGED <<row, wires, refs, links, seenEventIds, latestEventAt, inFlight,
                   shown, attempted>>

-----------------------------------------------------------------------------
(* Loads.                                                                  *)

\* runRefresh() of useLiveRefresh, on mount and at each interval
RunRefresh ==
    /\ mounted /\ ~inFlight
    /\ inFlight' = TRUE
    /\ load' = [load EXCEPT ![Poll] = Unread]
    /\ UNCHANGED <<row, wires, refs, links, memory, shown, attempted>>

LoadReads(l) ==
    /\ load[l] = Unread
    /\ load' = [load EXCEPT ![l] = row]
    /\ attempted' = row
    /\ UNCHANGED <<row, wires, refs, links, memory, inFlight, shown>>

LoadAnswers(l) ==
    /\ load[l] >= 0
    /\ shown' = load[l]
    /\ load' = [load EXCEPT ![l] = Idle]
    /\ inFlight' = (inFlight /\ l # Poll)
    /\ UNCHANGED <<row, wires, refs, links, memory, attempted>>

StaysInFlight(l) == inFlight  \* (mutant) inFlightRef is not reset in a finally

InFlightAfterFailure(l) == inFlight /\ l # Poll

\* The last of its retries fails or runs out of time.
LoadFails(l) ==
    /\ load[l] # Idle
    /\ load' = [load EXCEPT ![l] = Idle]
    /\ inFlight' = InFlightAfterFailure(l)
    /\ attempted' = IF load[l] = Unread THEN row ELSE attempted
    /\ UNCHANGED <<row, wires, refs, links, memory, shown>>

-----------------------------------------------------------------------------
SocketStep(s) ==
    \/ Opens(s)
    \/ Closes(s)
    \/ \E x \in wire : Receives(s, x[2])

LoadStep(l) ==
    \/ FlushTimerFires(l)
    \/ LoadReads(l)
    \/ LoadAnswers(l)
    \/ LoadFails(l)

Next ==
    \/ Commit
    \/ \E n \in 1..row, e \in Entities : Publish(n, e)
    \/ StartEffect
    \/ StopEffect
    \/ \E s \in Sockets : SocketStep(s)
    \/ \E r \in Runs : ReconnectTimerFires(r)
    \/ RunRefresh
    \/ \E l \in Loads : LoadStep(l)

Spec == Init /\ [][Next]_vars

\* Timers fire, sockets that are asked to close do, and a load ends: the client
\* aborts it after a time.  The network is not down for ever: sockets that are
\* opened again and again open, and loads that are tried again and again succeed.
Fairness ==
    /\ WF_vars(RunRefresh)
    /\ \A l \in Loads : WF_vars(FlushTimerFires(l))
    /\ \A l \in Loads : WF_vars(LoadReads(l) \/ LoadAnswers(l) \/ LoadFails(l))
    /\ SF_vars(LoadReads(Poll)) /\ SF_vars(LoadAnswers(Poll))
    /\ \A r \in Runs :
          /\ WF_vars(ReconnectTimerFires(r))
          /\ SF_vars(\E s \in Sockets : socket[s].run = r /\ Opens(s))
    /\ \A s \in Sockets : WF_vars(socket[s].state = "CLOSING" /\ Closes(s))

FairSpec == Spec /\ Fairness

-----------------------------------------------------------------------------
(* Properties.                                                             *)

\* Types of the refs, the sockets, the events and the loads.
TypeOK ==
    /\ row \in Nat /\ clock \in Nat /\ shown \in Nat /\ attempted \in Nat
    /\ published \subseteq [id : Nat, entity : Entities, at : Nat, listed : BOOLEAN]
    /\ wire \subseteq Sockets \X published
    /\ mounted \in BOOLEAN /\ isCleaningUp \in BOOLEAN
    /\ flushTimer \in BOOLEAN /\ inFlight \in BOOLEAN
    /\ run \in 0..MaxRuns /\ lastRun \in 0..MaxRuns /\ reconnectTimer \in 0..MaxRuns
    /\ socket \in [Sockets -> [run : 0..MaxRuns, state : SocketState]]
    /\ timers \in [Runs -> Nat]
    /\ seenEventIds \in Seq(Nat) /\ Len(seenEventIds) <= SeenLimit
    /\ latestEventAt \in [Entities -> Nat]
    /\ load \in [Loads -> Int]

\* Each run of the effect has at most one socket, or one timer that will open it,
\* however its closures, the refs they share and the later runs interleave.
OneLinkPerRun ==
    \A r \in Runs :
        /\ timers[r] <= 1
        /\ \A s, t \in Sockets : socket[s].run = r /\ socket[t].run = r => s = t
        /\ \A s \in Sockets : socket[s].run = r => timers[r] = 0

\* Once the screen is gone no socket is opened, although timers whose ref was
\* overwritten are never cleared and sockets of earlier runs are never closed.
QuietAfterUnmount ==
    [][~mounted => \A s \in Sockets : socket[s] = Closed => socket'[s] = Closed]_vars

\* A load that reads commit n is still to come, or was made, and may have failed.
Loaded(n) ==
    flushTimer \/ attempted >= n \/ \E l \in Loads : load[l] = Unread

\* An event of another type, which asks for no load, is later than p.
Masked(p) ==
    \E q \in published : ~q.listed /\ q.entity = p.entity /\ q.at > p.at

\* Doc 17: duplicates and events out of order are ignored.  Whatever listed event the
\* hook ignores was, or will be, loaded for another event's sake: through two sockets, a
\* reconnection or a cleanup that drops the pending update, none is ignored for nothing,
\* but for those that a later event of a type the screen does not list made late.
IgnoredIsLoaded ==
    \A p \in published :
        p.listed /\ (Seen(p.id) \/ Late(p)) => Loaded(p.id) \/ Masked(p)

\* Doc 17: the API remains the source of truth.  Events may all be lost: the screen
\* still ends up showing the last commit, whatever answers come late.
ScreenCatchesUp == <>[](mounted => shown = row)

\* While the effect runs, its socket is open again and again.
StaysConnected ==
    []<>(run # 0 => \E s \in Sockets : socket[s].run = run /\ socket[s].state = "OPEN")
=============================================================================
