------------------------------ MODULE Sessions ------------------------------
(***************************************************************************)
(* The sessions of one account: the rows of user_sessions that sign-in,    *)
(* refresh and sign-out write (auth.service.ts), the guard that accepts an *)
(* access token, and the restores by which the applications use and renew  *)
(* the tokens in a device's storage (packages/api/src/auth.ts and lib/     *)
(* auth.ts of the rider and driver applications).                          *)
(*                                                                         *)
(* A session stands for its two tokens, which only the device that asked   *)
(* for it receives.  Every screen, hook and background task of an          *)
(* application restores the session by itself before it calls the API:     *)
(* several restores run on a device at once, and its loads are slots.      *)
(***************************************************************************)
EXTENDS FiniteSets, Integers

CONSTANTS Devices,
          Loads,        \* <<device, slot>>: what may run on a device at a time
          Pollers,      \* the loads that a timer starts again and again
          Driver,       \* TRUE if the account is a driver's
          MaxSessions   \* bound on sessions ever opened

ASSUME SessionsAssumption ==
    /\ Loads \subseteq Devices \X Nat /\ Pollers \subseteq Loads
    /\ Driver \in BOOLEAN /\ MaxSessions \in Nat

VARIABLES
    opened,     \* sessions opened so far: they are 1..opened
    session,    \* the row of each, as its state
    effective,  \* those opened by a sign-in that ended the others, or is about to
    active,     \* users.is_active
    stored,     \* the session whose tokens each device's storage holds, 0 if none
    load,       \* of each slot, where it stands and the session it holds
    orphans,    \* refreshes on the server whose client no longer waits
    killed      \* history: killed during a refresh, storage not written since

rows == <<opened, session, effective, active>>
vars == <<rows, stored, load, orphans, killed>>

Session == 1..MaxSessions

\* A session is open until it is revoked ("SPENT" if by its own refresh).  Its access
\* token expires, and later its refresh token.
Open == {"FRESH", "EXPIRED", "LAPSED"}
State == Open \cup {"NONE", "SPENT", "REVOKED"}

Step == {"idle", "me", "refresh", "rotate", "store", "check", "work", "signOut",
         "forget", "signIn", "revokeOthers"}
Purpose == {"load", "signOut", "signIn", "clear", "gone"}
Load == [step : Step, for : Purpose, holds : 0..MaxSessions]

Idle == [step |-> "idle", for |-> "load", holds |-> 0]

DeviceOf(l) == l[1]

Init ==
    /\ opened = 0
    /\ session = [s \in Session |-> "NONE"] /\ effective = {}
    /\ active = TRUE
    /\ stored = [d \in Devices |-> 0]
    /\ load = [l \in Loads |-> Idle]
    /\ orphans = {}
    /\ killed = [d \in Devices |-> FALSE]

Goto(l, step) == load' = [load EXCEPT ![l].step = step]
Receives(l, step, s) ==
    load' = [load EXCEPT ![l] = [step |-> step, for |-> load[l].for, holds |-> s]]
Done(l) == load' = [load EXCEPT ![l] = Idle]

-----------------------------------------------------------------------------
(* The server.                                                             *)

\* The guard of every call that needs a session.
Accepted(s) == session[s] = "FRESH" /\ active

\* A refresh token that was used, revoked or has lapsed ends every session.
Refreshable(s) == session[s] \in {"FRESH", "EXPIRED"}

OpenSessions == {s \in Session : session[s] \in Open}

Revoke(S) == session' = [s \in Session |-> IF s \in S THEN "REVOKED" ELSE session[s]]

\* The rows with a new one.
Opens(sessions) ==
    /\ opened < MaxSessions
    /\ opened' = opened + 1
    /\ session' = [sessions EXCEPT ![opened + 1] = "FRESH"]
    /\ UNCHANGED active

\* A refresh writes its session by id, whatever it has become since it was read.
Rotates(s) ==
    /\ Opens([session EXCEPT ![s] = "SPENT"])
    /\ UNCHANGED effective

\* Time passes.  The dates of a revoked session are not looked at.
Grow(s) ==
    /\ session[s] \in {"FRESH", "EXPIRED"}
    /\ session' = [session EXCEPT ![s] = IF @ = "FRESH" THEN "EXPIRED" ELSE "LAPSED"]
    /\ UNCHANGED <<opened, effective, active, stored, load, orphans, killed>>

\* Calls that no screen of the applications makes: sign-out of a given session or of
\* all, and the deletion of the account.
EndSessions(S, deletes) ==
    /\ \E s \in Session : Accepted(s)
    /\ Revoke(S)
    /\ active' = ~deletes
    /\ UNCHANGED <<opened, effective, stored, load, orphans, killed>>

\* The transaction of a refresh that nobody waits for any more.
OrphanEnds(s) ==
    /\ orphans' = orphans \ {s}
    /\ Rotates(s) \/ UNCHANGED rows
    /\ UNCHANGED <<stored, load, killed>>

-----------------------------------------------------------------------------
(* restorePersistedSession and what follows it.                            *)

Start(l, purpose) ==
    /\ load[l].step = "idle" /\ stored[DeviceOf(l)] # 0
    /\ load' = [load EXCEPT ![l] =
                  [step |-> "me", for |-> purpose, holds |-> stored[DeviceOf(l)]]]
    /\ UNCHANGED <<rows, stored, orphans, killed>>

\* Where a restored session is used.
Restored(l) == Goto(l, IF load[l].for = "signOut" THEN "signOut" ELSE "work")

\* fetchCurrentUser with the stored token is accepted, refused, or not answered.
MeAccepted(l) ==
    /\ load[l].step = "me" /\ Accepted(load[l].holds)
    /\ Restored(l)
    /\ UNCHANGED <<rows, stored, orphans, killed>>

MeRefused(l) ==
    /\ load[l].step = "me" /\ ~Accepted(load[l].holds)
    /\ Goto(l, "refresh")
    /\ UNCHANGED <<rows, stored, orphans, killed>>

\* The tokens stay; a sign-out clears them all the same.
MeLost(l) ==
    /\ load[l].step = "me"
    /\ IF load[l].for = "signOut" THEN Goto(l, "forget") ELSE Done(l)
    /\ UNCHANGED <<rows, stored, orphans, killed>>

\* (mutant) the client gives up without forgetting the refused tokens
KeepsTokens(l) == Done(l)

Forgets(l) == Goto(l, "forget")

\* refreshSession reads the session of the token.
RefreshRead(l) ==
    /\ load[l].step = "refresh"
    /\ IF Refreshable(load[l].holds)
       THEN /\ IF active THEN Goto(l, "rotate") ELSE Forgets(l)
            /\ UNCHANGED session
       ELSE Revoke(OpenSessions) /\ Forgets(l)
    /\ UNCHANGED <<opened, effective, active, stored, orphans, killed>>

RefreshLost(l) ==
    /\ load[l].step = "refresh"
    /\ Forgets(l)
    /\ UNCHANGED <<rows, stored, orphans, killed>>

\* The answer arrives, or is lost.
RefreshCommit(l) ==
    /\ load[l].step = "rotate"
    /\ Rotates(load[l].holds)
    /\ Receives(l, "store", opened + 1) \/ Forgets(l)
    /\ UNCHANGED <<stored, orphans, killed>>

\* The request is aborted by its timeout, and the server goes on with it or not.
RefreshTimeout(l) ==
    /\ load[l].step = "rotate"
    /\ Forgets(l)
    /\ orphans' \in {orphans, orphans \cup {load[l].holds}}
    /\ UNCHANGED <<rows, stored, killed>>

\* (mutant) the tokens of a refresh are kept in memory only
MemoryOnly(l) ==
    stored' = [stored EXCEPT ![DeviceOf(l)] =
                 IF load[l].for = "signIn" THEN load[l].holds ELSE @]

\* persistAuthSession
Persists(l) == stored' = [stored EXCEPT ![DeviceOf(l)] = load[l].holds]

Store(l) ==
    /\ load[l].step = "store"
    /\ Persists(l)
    /\ IF load[l].for = "signIn" THEN Done(l) ELSE Goto(l, "check")
    /\ killed' = [killed EXCEPT ![DeviceOf(l)] = FALSE]
    /\ UNCHANGED <<rows, orphans>>

\* The second fetchCurrentUser: any failure of it forgets the tokens.
CheckAccepted(l) ==
    /\ load[l].step = "check" /\ Accepted(load[l].holds)
    /\ Restored(l)
    /\ UNCHANGED <<rows, stored, orphans, killed>>

CheckFails(l) ==
    /\ load[l].step = "check"
    /\ Forgets(l)
    /\ UNCHANGED <<rows, stored, orphans, killed>>

\* The screen's own calls: a refused one clears the storage (session-feedback.ts).
WorkRefused(l) ==
    /\ load[l].step = "work" /\ ~Accepted(load[l].holds)
    /\ Forgets(l)
    /\ UNCHANGED <<rows, stored, orphans, killed>>

WorkEnds(l) ==
    /\ load[l].step = "work"
    /\ Done(l)
    /\ UNCHANGED <<rows, stored, orphans, killed>>

\* The sign-out call takes effect, or it is refused or lost.
SignOut(l) ==
    /\ load[l].step = "signOut"
    /\ Forgets(l)
    /\ \/ Accepted(load[l].holds) /\ Revoke({load[l].holds})
       \/ UNCHANGED session
    /\ UNCHANGED <<opened, effective, active, stored, orphans, killed>>

\* removeItem.  The error goes up to the screen, which removes again, and so does
\* the finally of a sign-out.
Forget(l) ==
    /\ load[l].step = "forget"
    /\ stored' = [stored EXCEPT ![DeviceOf(l)] = 0]
    /\ killed' = [killed EXCEPT ![DeviceOf(l)] = FALSE]
    /\ \/ load[l].for # "clear" /\ load' = [load EXCEPT ![l].for = "clear"]
       \/ load[l].for # "signOut" /\ Done(l)
    /\ UNCHANGED <<rows, orphans>>

-----------------------------------------------------------------------------
(* Sign-in, by password or by a code.                                      *)

SignInRead(l) ==
    /\ load[l].step = "idle" /\ stored[DeviceOf(l)] = 0 /\ active
    /\ load' = [load EXCEPT ![l] = [step |-> "signIn", for |-> "signIn", holds |-> 0]]
    /\ UNCHANGED <<rows, stored, orphans, killed>>

SignInCreate(l) ==
    /\ load[l].step = "signIn"
    /\ Opens(session) /\ effective' = effective \cup {opened + 1}
    /\ Receives(l, IF Driver THEN "revokeOthers" ELSE "store", opened + 1)
    /\ UNCHANGED <<stored, orphans, killed>>

\* (mutant) the date is compared the wrong way round
OtherExpired(s) == {t \in Session : t # s /\ session[t] = "EXPIRED"}

\* revokeOtherActiveSessions: those whose access token has not expired.
OtherActive(s) == {t \in Session : t # s /\ session[t] = "FRESH"}

SignInRevoke(l) ==
    /\ load[l].step = "revokeOthers"
    /\ Revoke(OtherActive(load[l].holds))
    /\ IF load[l].for = "gone" THEN Done(l) ELSE Goto(l, "store")
    /\ UNCHANGED <<opened, effective, active, stored, orphans, killed>>

\* The sign-in is refused or fails, or its answer is lost.
SignInFails(l) ==
    /\ \/ load[l].step = "signIn"
       \/ load[l].step = "store" /\ load[l].for = "signIn"
    /\ Done(l)
    /\ UNCHANGED <<rows, stored, orphans, killed>>

\* The revocation is a statement of its own, after the transaction that opened the
\* session: it fails, or the server ends before it.  Both sessions stay, and nothing
\* takes it up again.
RevokeFails(l) ==
    /\ load[l].step = "revokeOthers"
    /\ Done(l)
    /\ effective' = effective \ {load[l].holds}
    /\ UNCHANGED <<opened, session, active, stored, orphans, killed>>

\* A refresh whose token may be spent, and is in the storage still.
Renews(l) ==
    \/ load[l].step \in {"rotate", "forget"}
    \/ load[l].step = "store" /\ load[l].for # "signIn"

\* The system ends the application: what the server does for it goes on.
Kill(d) ==
    /\ \E l \in Loads : DeviceOf(l) = d /\ load[l].step # "idle"
    /\ load' = [l \in Loads |->
                  IF DeviceOf(l) # d THEN load[l]
                  ELSE IF load[l].step = "revokeOthers"
                       THEN [step |-> "revokeOthers", for |-> "gone", holds |-> load[l].holds]
                  ELSE Idle]
    /\ orphans' = orphans \cup
                  {load[l].holds : l \in {k \in Loads : DeviceOf(k) = d /\ load[k].step = "rotate"}}
    /\ killed' = [killed EXCEPT ![d] = @ \/ \E l \in Loads : DeviceOf(l) = d /\ Renews(l)]
    /\ UNCHANGED <<rows, stored>>

-----------------------------------------------------------------------------
Answer(l) ==
    \/ MeAccepted(l) \/ MeRefused(l) \/ MeLost(l)
    \/ RefreshRead(l) \/ RefreshLost(l) \/ RefreshCommit(l) \/ RefreshTimeout(l)
    \/ Store(l) \/ CheckAccepted(l) \/ CheckFails(l)
    \/ WorkRefused(l) \/ WorkEnds(l) \/ SignOut(l) \/ Forget(l)
    \/ SignInCreate(l) \/ SignInRevoke(l) \/ RevokeFails(l)
    \/ SignInFails(l)

Next ==
    \/ \E s \in Session : Grow(s)
    \/ \E S \in {OpenSessions} \cup {{s} : s \in OpenSessions} : EndSessions(S, FALSE)
    \/ EndSessions(OpenSessions, TRUE)
    \/ \E s \in orphans : OrphanEnds(s)
    \/ \E l \in Loads : \/ \E purpose \in {"load", "signOut"} : Start(l, purpose)
                        \/ SignInRead(l)
                        \/ Answer(l)
    \/ \E d \in Devices : Kill(d)

Spec == Init /\ [][Next]_vars

\* A poller's requests end, by an answer or by their timeout, and its timer starts it
\* again and again: not every load of it is lost, or killed before it ends.  Nothing is
\* assumed of the other loads.
FairSpec ==
    /\ Spec
    /\ \A l \in Pollers :
          /\ WF_vars(Answer(l))
          /\ SF_vars(Start(l, "load"))
          /\ SF_vars(MeRefused(l))
          /\ SF_vars(RefreshRead(l) \/ RefreshLost(l))
          /\ SF_vars(Forget(l))

-----------------------------------------------------------------------------
(* Properties.                                                             *)

\* Types of the rows, the storage and the loads.
TypeOK ==
    /\ opened \in 0..MaxSessions
    /\ session \in [Session -> State] /\ effective \subseteq Session
    /\ active \in BOOLEAN
    /\ stored \in [Devices -> 0..MaxSessions]
    /\ load \in [Loads -> Load]
    /\ orphans \subseteq Session
    /\ killed \in [Devices -> BOOLEAN]

\* Though restores run at once, give up and come back late, a device never settles on
\* tokens that its own refresh used up (which would end the account's sessions when
\* they are next used), unless the application is killed in the middle.
SpentIsReplaced ==
    \A d \in Devices :
        stored[d] # 0 /\ ~killed[d] =>
            \/ session[stored[d]] # "SPENT"
            \/ \E l \in Loads : DeviceOf(l) = d /\ Renews(l)

\* Of two sign-ins of a driver that both ended the others they found, however they
\* overlapped, one was found by the other: both are accepted only while one of them has
\* its revocation to come, also when the application is gone.  A sign-in whose
\* revocation failed ends nothing, and sessions whose access token has expired are not
\* ended at all.
SignInTakesOver ==
    Driver =>
        \A s, t \in effective :
            s # t /\ Accepted(s) /\ Accepted(t)
            => \E l \in Loads : load[l].step = "revokeOthers" /\ load[l].holds \in {s, t}

\* A device whose session was ended elsewhere finds out: where a timer loads, dead
\* tokens do not stay, whatever the loads beside it do.
DeadTokensForgotten ==
    \A l \in Pollers, s \in Session :
        stored[DeviceOf(l)] = s /\ session[s] \notin Open ~> stored[DeviceOf(l)] # s
=============================================================================
