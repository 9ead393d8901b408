--------------------------- MODULE SessionsProofs ---------------------------
(***************************************************************************)
(* Theorems about Sessions, for any devices, any numbers of loads on each, *)
(* and any number of sessions.                                             *)
(*                                                                         *)
(* What makes concurrent restores harmless to the storage is that tokens   *)
(* come from one answer only: those a load is about to store are held by   *)
(* nothing else, so no refresh can have used them (Hands).  The invariant  *)
(* about spent tokens must also count the refreshes on the server whose    *)
(* client is gone, which spend their token later (EndangeredIsReplaced).   *)
(***************************************************************************)
EXTENDS Sessions, TLAPS

\* Sessions are opened in their order, and what is held was opened.
Known ==
    /\ \A s \in Session : s > opened => session[s] = "NONE"
    /\ effective \subseteq 1..opened /\ orphans \subseteq 1..opened
    /\ \A d \in Devices : stored[d] <= opened
    /\ \A l \in Loads :
          IF load[l].step \in {"idle", "signIn"}
          THEN load[l].holds = 0
          ELSE load[l].holds \in 1..opened
    /\ \A l \in Loads : load[l].for = "signIn" => load[l].step \in {"signIn", "revokeOthers", "store"}

\* A device holds tokens of its own.
Owned ==
    /\ \A d, e \in Devices : stored[d] = stored[e] /\ stored[d] # 0 => d = e
    /\ \A l \in Loads, d \in Devices :
          load[l].holds = stored[d] /\ stored[d] # 0 => DeviceOf(l) = d

InHand(l) == load[l].step \in {"store", "revokeOthers"}

\* New tokens, until they are stored, are in one hand.
Hands ==
    \A l \in Loads :
        InHand(l) =>
            /\ session[load[l].holds] # "SPENT"
            /\ load[l].holds \notin orphans
            /\ \A d \in Devices : stored[d] # load[l].holds
            /\ \A k \in Loads : load[k].holds = load[l].holds => k = l

Endangered(s) == session[s] = "SPENT" \/ s \in orphans

EndangeredIsReplaced ==
    \A d \in Devices :
        stored[d] # 0 /\ ~killed[d] /\ Endangered(stored[d]) =>
            \E l \in Loads : DeviceOf(l) = d /\ Renews(l)

\* A load on a device is on one of the devices.
LEMMA LoadDevice == \A l \in Loads : DeviceOf(l) \in Devices
  BY SessionsAssumption DEF DeviceOf

Coherent == TypeOK /\ Known

-----------------------------------------------------------------------------
(* Types.                                                                  *)

LEMMA CoherentInit == Init => Coherent
  BY SessionsAssumption
     DEF Init, Coherent, TypeOK, Known, State, Open, Session, Load, Idle, Step, Purpose

\* What a step of a slot leaves there.
LEMMA SlotTypes ==
    ASSUME TypeOK, NEW l \in Loads
    PROVE  /\ \A step \in Step :
                 Goto(l, step) =>
                    /\ load' \in [Loads -> Load]
                    /\ load'[l].step = step /\ load'[l].for = load[l].for
                    /\ load'[l].holds = load[l].holds
                    /\ \A k \in Loads : k # l => load'[k] = load[k]
           /\ Done(l) =>
                /\ load' \in [Loads -> Load]
                /\ load'[l].step = "idle" /\ load'[l].for = "load" /\ load'[l].holds = 0
                /\ \A k \in Loads : k # l => load'[k] = load[k]
<1>1. load \in [Loads -> Load] /\ load[l] \in Load
  BY DEF TypeOK
<1>2. ASSUME NEW step \in Step, Goto(l, step)
      PROVE  /\ load' \in [Loads -> Load]
             /\ load'[l].step = step /\ load'[l].for = load[l].for
             /\ load'[l].holds = load[l].holds
             /\ \A k \in Loads : k # l => load'[k] = load[k]
  BY <1>1, <1>2 DEF Goto, Load
<1>3. Idle \in Load
  BY SessionsAssumption DEF Idle, Load, Step, Purpose
<1> QED BY <1>1, <1>2, <1>3 DEF Done, Idle

\* A new session is the next one, and no other row becomes open.
LEMMA OpensTypes ==
    ASSUME TypeOK, Known, NEW s \in Session \cup {0},
           Opens([session EXCEPT ![s] = "SPENT"]) \/ Opens(session)
    PROVE  /\ opened' = opened + 1 /\ opened' \in Session /\ active' = active
           /\ session' \in [Session -> State]
           /\ session'[opened'] = "FRESH"
           /\ \A t \in Session : t # opened' => session'[t] \in {session[t], "SPENT"}
           /\ \A t \in Session : t # opened' /\ t # s => session'[t] = session[t]
<1>1. opened \in Nat /\ opened < MaxSessions /\ opened' = opened + 1 /\ active' = active
  BY SessionsAssumption DEF Opens, TypeOK
<1>2. opened' \in Session
  BY <1>1, SessionsAssumption DEF Session
<1>3. session \in [Session -> State] /\ {"FRESH", "SPENT"} \subseteq State
  BY DEF TypeOK, State, Open
<1>4. CASE session' = [[session EXCEPT ![s] = "SPENT"] EXCEPT ![opened + 1] = "FRESH"]
  BY <1>1, <1>2, <1>3, <1>4
<1>5. CASE session' = [session EXCEPT ![opened + 1] = "FRESH"]
  BY <1>1, <1>2, <1>3, <1>5
<1> QED BY <1>1, <1>2, <1>4, <1>5 DEF Opens

LEMMA RevokeTypes ==
    ASSUME TypeOK, NEW S, Revoke(S)
    PROVE  /\ session' \in [Session -> State]
           /\ \A t \in Session : session'[t] = IF t \in S THEN "REVOKED" ELSE session[t]
  BY DEF Revoke, TypeOK, State

LEMMA CoherentStep == Coherent /\ [Next]_vars => Coherent'
<1> SUFFICES ASSUME Coherent, [Next]_vars PROVE Coherent'
  OBVIOUS
<1> USE SessionsAssumption, LoadDevice DEF Coherent
<1>1. ASSUME NEW s \in Session, Grow(s) PROVE Coherent'
  BY <1>1 DEF Grow, TypeOK, Known, State, Open, Session
<1>2. ASSUME NEW S \in SUBSET OpenSessions, NEW deletes \in BOOLEAN, EndSessions(S, deletes)
      PROVE  Coherent'
  <2>1. session' \in [Session -> State]
        /\ \A t \in Session : session'[t] = IF t \in S THEN "REVOKED" ELSE session[t]
    BY <1>2, RevokeTypes DEF EndSessions
  <2> QED BY <1>2, <2>1 DEF EndSessions, OpenSessions, Open, TypeOK, Known, Session
<1>3. ASSUME NEW s \in orphans, OrphanEnds(s) PROVE Coherent'
  <2>1. s \in Session
    BY DEF TypeOK
  <2>2. CASE Rotates(s)
    <3>1. Opens([session EXCEPT ![s] = "SPENT"]) /\ effective' = effective
      BY <2>2 DEF Rotates
    <3>2. /\ opened' = opened + 1 /\ opened' \in Session /\ active' = active
          /\ session' \in [Session -> State]
          /\ \A t \in Session : t # opened' /\ t # s => session'[t] = session[t]
      BY <2>1, <3>1, OpensTypes
    <3>3. s \in 1..opened
      BY DEF Known
    <3> QED BY <1>3, <2>1, <3>1, <3>2, <3>3 DEF OrphanEnds, TypeOK, Known, Session
  <2>3. CASE UNCHANGED rows
    BY <1>3, <2>3 DEF OrphanEnds, rows, TypeOK, Known, Session
  <2> QED BY <1>3, <2>2, <2>3 DEF OrphanEnds
<1>4. ASSUME NEW l \in Loads, NEW purpose \in {"load", "signOut"}, Start(l, purpose)
      PROVE  Coherent'
  <2>1. stored[DeviceOf(l)] \in 1..opened /\ opened \in 0..MaxSessions
    BY <1>4 DEF Start, TypeOK, Known
  <2> QED BY <1>4, <2>1 DEF Start, rows, TypeOK, Known, Load, Step, Purpose
<1>5. ASSUME NEW l \in Loads, SignInRead(l) PROVE Coherent'
  BY <1>5 DEF SignInRead, rows, TypeOK, Known, Load, Step, Purpose
<1>6. ASSUME NEW l \in Loads,
             MeAccepted(l) \/ MeRefused(l) \/ MeLost(l) \/ RefreshLost(l)
             \/ CheckAccepted(l) \/ CheckFails(l) \/ WorkRefused(l) \/ WorkEnds(l)
             \/ SignInFails(l)
      PROVE  Coherent'
  <2>1. /\ (\E step \in Step \ {"idle", "signIn", "store", "revokeOthers"} :
               Goto(l, step) /\ load[l].step \in {"me", "refresh", "check", "work"})
           \/ Done(l)
        /\ UNCHANGED <<rows, stored, orphans, killed>>
    BY <1>6 DEF MeAccepted, MeRefused, MeLost, RefreshLost, CheckAccepted, CheckFails,
                WorkRefused, WorkEnds, SignInFails, Restored, Forgets, Step
  <2>2. CASE Done(l)
    BY <2>1, <2>2, SlotTypes DEF rows, TypeOK, Known
  <2>3. ASSUME NEW step \in Step \ {"idle", "signIn", "store", "revokeOthers"},
               Goto(l, step), load[l].step \in {"me", "refresh", "check", "work"}
        PROVE  Coherent'
    <3>1. /\ load' \in [Loads -> Load]
          /\ load'[l].step = step /\ load'[l].for = load[l].for
          /\ load'[l].holds = load[l].holds
          /\ \A k \in Loads : k # l => load'[k] = load[k]
      BY <2>3, SlotTypes
    <3> QED BY <2>1, <2>3, <3>1 DEF rows, TypeOK, Known
  <2> QED BY <2>1, <2>2, <2>3
<1>7. ASSUME NEW l \in Loads, RefreshRead(l) PROVE Coherent'
  <2>1. /\ \E step \in {"rotate", "forget"} : Goto(l, step)
        /\ load[l].step = "refresh"
        /\ session' = session \/ Revoke(OpenSessions)
        /\ UNCHANGED <<opened, effective, active, stored, orphans, killed>>
    BY <1>7 DEF RefreshRead, Forgets
  <2>2. /\ session' \in [Session -> State]
        /\ \A t \in Session : session[t] = "NONE" => session'[t] = "NONE"
    BY <2>1, RevokeTypes DEF OpenSessions, Open, TypeOK
  <2> QED BY <2>1, <2>2, SlotTypes DEF TypeOK, Known, Step
<1>8. ASSUME NEW l \in Loads, RefreshCommit(l) PROVE Coherent'
  <2>1. load[l].step = "rotate" /\ load[l].holds \in 1..opened /\ load[l] \in Load
        /\ load[l].for # "signIn"
    BY <1>8 DEF RefreshCommit, Known, TypeOK
  <2>2. load[l].holds \in Session /\ opened \in 0..MaxSessions
    BY <2>1 DEF TypeOK, Session
  <2>3. /\ opened' = opened + 1 /\ opened' \in Session /\ active' = active
        /\ session' \in [Session -> State]
        /\ \A t \in Session : t # opened' /\ t # load[l].holds => session'[t] = session[t]
    BY <1>8, <2>2, OpensTypes DEF RefreshCommit, Rotates
  <2>4. /\ load' \in [Loads -> Load]
        /\ \A k \in Loads : k # l => load'[k] = load[k]
        /\ load'[l].step \in {"store", "forget"} /\ load'[l].for = load[l].for
        /\ load'[l].holds \in {load[l].holds, opened'}
    <3>1. CASE Receives(l, "store", opened + 1)
      BY <2>1, <2>3, <3>1 DEF Receives, TypeOK, Load, Step, Session
    <3>2. CASE Goto(l, "forget")
      BY <3>2, SlotTypes DEF Step
    <3> QED BY <1>8, <3>1, <3>2 DEF RefreshCommit, Forgets
  <2>5. UNCHANGED <<effective, stored, orphans, killed>>
    BY <1>8 DEF RefreshCommit, Rotates
  <2>6. TypeOK'
    BY <2>2, <2>3, <2>4, <2>5 DEF TypeOK, Session
  <2>7. /\ \A t \in Session : t > opened' => session'[t] = "NONE"
        /\ effective' \subseteq 1..opened' /\ orphans' \subseteq 1..opened'
        /\ \A d \in Devices : stored'[d] <= opened'
    BY <2>1, <2>2, <2>3, <2>5 DEF TypeOK, Known, Session
  <2>8. \A k \in Loads :
           /\ IF load'[k].step \in {"idle", "signIn"}
              THEN load'[k].holds = 0
              ELSE load'[k].holds \in 1..opened'
           /\ load'[k].for = "signIn" => load'[k].step \in {"signIn", "revokeOthers", "store"}
    <3>1. load'[l].holds \in 1..opened'
      BY <2>1, <2>2, <2>3, <2>4 DEF Session
    <3>2. \A k \in Loads : load[k].holds \in 1..opened => load[k].holds \in 1..opened'
      BY <2>2, <2>3
    <3> QED BY <2>1, <2>4, <3>1, <3>2 DEF Known
  <2> QED BY <2>6, <2>7, <2>8 DEF Known
<1>9. ASSUME NEW l \in Loads, RefreshTimeout(l) PROVE Coherent'
  <2>1. /\ load[l].step = "rotate" /\ Goto(l, "forget") /\ UNCHANGED <<rows, stored, killed>>
        /\ orphans' \in {orphans, orphans \cup {load[l].holds}}
    BY <1>9 DEF RefreshTimeout, Forgets
  <2>2. load[l].holds \in 1..opened /\ load[l].holds \in Session
    BY <2>1 DEF Known, TypeOK, Session
  <2>3. orphans' \subseteq 1..opened /\ orphans' \subseteq Session
    BY <2>1, <2>2 DEF Known, TypeOK
  <2> QED BY <2>1, <2>3, SlotTypes DEF rows, TypeOK, Known, Step
<1>10. ASSUME NEW l \in Loads, Store(l) PROVE Coherent'
  <2>1. (Goto(l, "check") /\ load[l].for # "signIn") \/ Done(l)
    BY <1>10 DEF Store
  <2>2. load[l].step = "store" /\ load[l].holds \in 1..opened /\ opened \in 0..MaxSessions
    BY <1>10 DEF Store, Known, TypeOK
  <2>3. /\ stored' = [stored EXCEPT ![DeviceOf(l)] = load[l].holds]
        /\ killed' = [killed EXCEPT ![DeviceOf(l)] = FALSE]
        /\ UNCHANGED <<rows, orphans>>
    BY <1>10 DEF Store, Persists
  <2> QED BY <2>1, <2>2, <2>3, SlotTypes DEF rows, TypeOK, Known, Step
<1>11. ASSUME NEW l \in Loads, SignOut(l) PROVE Coherent'
  <2>1. /\ Goto(l, "forget") /\ load[l].step = "signOut"
        /\ session' = session \/ (Accepted(load[l].holds) /\ Revoke({load[l].holds}))
        /\ UNCHANGED <<opened, effective, active, stored, orphans, killed>>
    BY <1>11 DEF SignOut, Forgets
  <2>2. /\ session' \in [Session -> State]
        /\ \A t \in Session : session[t] = "NONE" => session'[t] = "NONE"
    BY <2>1, RevokeTypes DEF Accepted, TypeOK
  <2> QED BY <2>1, <2>2, SlotTypes DEF TypeOK, Known, Step
<1>12. ASSUME NEW l \in Loads, Forget(l) PROVE Coherent'
  <2>1. /\ load[l].step = "forget" /\ load[l] \in Load
        /\ load' = [load EXCEPT ![l].for = "clear"] \/ Done(l)
        /\ stored' = [stored EXCEPT ![DeviceOf(l)] = 0]
        /\ killed' = [killed EXCEPT ![DeviceOf(l)] = FALSE]
        /\ UNCHANGED <<rows, orphans>>
    BY <1>12 DEF Forget, TypeOK
  <2>2. CASE load' = [load EXCEPT ![l].for = "clear"]
    BY <2>1, <2>2 DEF rows, TypeOK, Known, Load, Purpose
  <2>3. CASE Done(l)
    BY <2>1, <2>3, SlotTypes DEF rows, TypeOK, Known
  <2> QED BY <2>1, <2>2, <2>3
<1>13. ASSUME NEW l \in Loads, SignInCreate(l) PROVE Coherent'
  <2>1. /\ load[l].step = "signIn" /\ load[l] \in Load /\ opened \in 0..MaxSessions
        /\ 0 \in Session \cup {0}
    BY <1>13 DEF SignInCreate, TypeOK
  <2>2. /\ opened' = opened + 1 /\ opened' \in Session /\ active' = active
        /\ session' \in [Session -> State]
        /\ \A t \in Session : t # opened' /\ t # 0 => session'[t] = session[t]
    BY <1>13, <2>1, OpensTypes DEF SignInCreate
  <2>3. /\ load' \in [Loads -> Load]
        /\ \A k \in Loads : k # l => load'[k] = load[k]
        /\ load'[l].step \in {"store", "revokeOthers"} /\ load'[l].holds = opened'
    BY <1>13, <2>1, <2>2 DEF SignInCreate, Receives, TypeOK, Load, Step, Session
  <2>4. effective' = effective \cup {opened'} /\ UNCHANGED <<stored, orphans, killed>>
    BY <1>13, <2>2 DEF SignInCreate
  <2>5. TypeOK'
    BY <2>2, <2>3, <2>4 DEF TypeOK, Session
  <2>6. /\ \A t \in Session : t > opened' => session'[t] = "NONE"
        /\ effective' \subseteq 1..opened' /\ orphans' \subseteq 1..opened'
        /\ \A d \in Devices : stored'[d] <= opened'
    BY <2>1, <2>2, <2>4 DEF TypeOK, Known, Session
  <2>7. \A k \in Loads :
           /\ IF load'[k].step \in {"idle", "signIn"}
              THEN load'[k].holds = 0
              ELSE load'[k].holds \in 1..opened'
           /\ load'[k].for = "signIn" => load'[k].step \in {"signIn", "revokeOthers", "store"}
    <3>1. load'[l].holds \in 1..opened'
      BY <2>1, <2>2, <2>3 DEF Session
    <3>2. \A k \in Loads : load[k].holds \in 1..opened => load[k].holds \in 1..opened'
      BY <2>1, <2>2
    <3> QED BY <2>1, <2>3, <3>1, <3>2 DEF Known
  <2> QED BY <2>5, <2>6, <2>7 DEF Known
<1>14. ASSUME NEW l \in Loads, SignInRevoke(l) PROVE Coherent'
  <2>1. /\ Goto(l, "store") \/ Done(l)
        /\ load[l].step = "revokeOthers"
        /\ Revoke(OtherActive(load[l].holds))
        /\ UNCHANGED <<opened, effective, active, stored, orphans, killed>>
    BY <1>14 DEF SignInRevoke
  <2>2. /\ session' \in [Session -> State]
        /\ \A t \in Session : session[t] = "NONE" => session'[t] = "NONE"
    BY <2>1, RevokeTypes DEF OtherActive, TypeOK
  <2> QED BY <2>1, <2>2, SlotTypes DEF TypeOK, Known, Step
<1>15. ASSUME NEW d \in Devices, Kill(d) PROVE Coherent'
  <2>1. \A l \in Loads :
           /\ load'[l] \in Load
           /\ load'[l] = Idle
              \/ /\ load'[l].step = load[l].step /\ load'[l].holds = load[l].holds
                 /\ load'[l].for \in {load[l].for, "gone"}
    <3> TAKE l \in Loads
    <3>1. load[l] \in Load
      BY DEF TypeOK
    <3>2. CASE load'[l] = load[l]
      BY <3>1, <3>2
    <3>3. CASE load'[l] = Idle
      BY <3>3 DEF Idle, Load, Step, Purpose
    <3>4. CASE /\ load[l].step = "revokeOthers"
               /\ load'[l] = [step |-> "revokeOthers", for |-> "gone", holds |-> load[l].holds]
      BY <3>1, <3>4 DEF Load, Step, Purpose
    <3> QED BY <1>15, <3>2, <3>3, <3>4 DEF Kill
  <2>2. load' \in [Loads -> Load]
    BY <1>15, <2>1 DEF Kill
  <2>3. \A l \in Loads : load[l].step = "rotate" => load[l].holds \in 1..opened
    BY DEF Known
  <2>4. orphans' \subseteq 1..opened /\ orphans' \subseteq Session
    BY <1>15, <2>3 DEF Kill, Known, TypeOK, Session
  <2>5. killed' \in [Devices -> BOOLEAN] /\ UNCHANGED <<rows, stored>>
    BY <1>15 DEF Kill, TypeOK
  <2> QED BY <2>1, <2>2, <2>4, <2>5 DEF rows, TypeOK, Known, Idle
<1>16. CASE UNCHANGED vars
  BY <1>16 DEF vars, rows, TypeOK, Known
<1>17. \A s \in OpenSessions : {s} \in SUBSET OpenSessions
  OBVIOUS
<1>18. ASSUME NEW l \in Loads, RevokeFails(l) PROVE Coherent'
  BY <1>18, SlotTypes DEF RevokeFails, TypeOK, Known
<1> QED
  BY <1>1, <1>2, <1>3, <1>4, <1>5, <1>6, <1>7, <1>8, <1>9, <1>10, <1>11, <1>12,
     <1>13, <1>14, <1>15, <1>16, <1>17, <1>18 DEF Next, Answer

\* Every handler keeps the rows, the storage and the loads well-typed.
THEOREM TypeCorrect == Spec => []TypeOK
<1>1. Coherent => TypeOK
  BY DEF Coherent
<1> QED BY <1>1, CoherentInit, CoherentStep, PTL DEF Spec

THEOREM AlwaysCoherent == Spec => []Coherent
  BY CoherentInit, CoherentStep, PTL DEF Spec

-----------------------------------------------------------------------------
(* The tokens in the storage.                                              *)

TokensInv == Owned /\ Hands /\ EndangeredIsReplaced

LEMMA TokensInit == Init => TokensInv
  BY DEF Init, Idle, TokensInv, Owned, Hands, InHand, EndangeredIsReplaced

\* A step of one slot that writes neither the storage nor a new session.
Moves(l) ==
    /\ UNCHANGED <<opened, active, stored, orphans, killed>>
    /\ effective' \subseteq effective
    /\ \A t \in Session : session'[t] = "SPENT" => session[t] = "SPENT"
    /\ \A t \in Session : session'[t] = "FRESH" => session[t] = "FRESH"
    /\ \A k \in Loads : k # l => load'[k] = load[k]
    /\ load'[l].holds \in {load[l].holds, 0}
    /\ InHand(l)' => InHand(l) /\ load'[l].holds = load[l].holds
    /\ Renews(l) => Renews(l)'

LEMMA MoveKeeps ==
    ASSUME Coherent, TokensInv, NEW l \in Loads, Moves(l)
    PROVE  TokensInv'
<1> USE DEF Coherent, TokensInv
<1>1. Owned'
  BY DEF Moves, Owned
<1>2. \A k \in Loads : InHand(k)' => InHand(k) /\ load'[k].holds = load[k].holds
  BY DEF Moves, InHand
<1>3. \A k \in Loads : InHand(k) => load[k].holds \in Session /\ load[k].holds # 0
  <2>1. opened \in 0..MaxSessions
    BY DEF TypeOK
  <2>2. \A k \in Loads : InHand(k) => load[k].holds \in 1..opened
    BY DEF InHand, Known
  <2> QED BY <2>1, <2>2, SessionsAssumption DEF Session
<1>4. Hands'
  BY <1>2, <1>3 DEF Moves, Hands
<1>5. \A k \in Loads : Renews(k) => Renews(k)'
  BY DEF Moves, Renews
<1>6. \A d \in Devices : stored[d] # 0 => stored[d] \in Session
  BY DEF TypeOK, Session
<1>7. EndangeredIsReplaced'
  BY <1>5, <1>6 DEF Moves, EndangeredIsReplaced, Endangered
<1> QED BY <1>1, <1>4, <1>7

LEMMA SlotMoves ==
    ASSUME Coherent, NEW l \in Loads,
           \/ MeAccepted(l) \/ MeRefused(l) \/ MeLost(l)
           \/ RefreshRead(l) \/ RefreshLost(l)
           \/ CheckAccepted(l) \/ CheckFails(l) \/ WorkRefused(l) \/ WorkEnds(l)
           \/ SignOut(l) \/ SignInRevoke(l) \/ RevokeFails(l) \/ SignInFails(l)
    PROVE  Moves(l)
<1> USE DEF Coherent
<1>1. CASE RefreshRead(l) \/ SignOut(l) \/ SignInRevoke(l)
  <2>1. \/ session' = session
        \/ \E S : Revoke(S)
    BY <1>1 DEF RefreshRead, SignOut, SignInRevoke
  <2>2. \A t \in Session : session'[t] # session[t] => session'[t] = "REVOKED"
    BY <2>1, RevokeTypes
  <2>3. \/ /\ load[l].step = "refresh"
           /\ Goto(l, "rotate") \/ Goto(l, "forget")
        \/ load[l].step = "signOut" /\ Goto(l, "forget")
        \/ /\ load[l].step = "revokeOthers"
           /\ Goto(l, "store") \/ Done(l)
    BY <1>1 DEF RefreshRead, SignOut, SignInRevoke, Forgets
  <2>4. UNCHANGED <<opened, effective, active, stored, orphans, killed>>
    BY <1>1 DEF RefreshRead, SignOut, SignInRevoke
  <2> QED BY <2>2, <2>3, <2>4, SlotTypes DEF Moves, InHand, Renews, Step
<1>2. CASE \/ MeAccepted(l) \/ MeRefused(l) \/ MeLost(l) \/ RefreshLost(l)
           \/ CheckAccepted(l) \/ CheckFails(l) \/ WorkRefused(l) \/ WorkEnds(l)
           \/ SignInFails(l)
  <2>1. /\ \/ load[l].step \in {"me", "refresh", "check", "work", "signIn"}
           \/ load[l].step = "store" /\ load[l].for = "signIn"
        /\ \/ Done(l)
           \/ /\ load[l].step # "store"
              /\ \/ Goto(l, "signOut") \/ Goto(l, "work")
                 \/ Goto(l, "refresh") \/ Goto(l, "forget")
        /\ UNCHANGED <<rows, stored, orphans, killed>>
    <3>1. CASE MeAccepted(l) \/ CheckAccepted(l)
      BY <3>1 DEF MeAccepted, CheckAccepted, Restored
    <3>2. CASE MeRefused(l) \/ MeLost(l) \/ RefreshLost(l)
      BY <3>2 DEF MeRefused, MeLost, RefreshLost, Forgets
    <3>3. CASE CheckFails(l) \/ WorkRefused(l) \/ WorkEnds(l)
      BY <3>3 DEF CheckFails, WorkRefused, WorkEnds, Forgets
    <3>4. CASE SignInFails(l)
      BY <3>4 DEF SignInFails
    <3> QED BY <1>2, <3>1, <3>2, <3>3, <3>4
  <2>2. CASE Done(l)
    BY <2>1, <2>2, SlotTypes DEF rows, Moves, InHand, Renews
  <2>3. ASSUME NEW step \in {"signOut", "work", "refresh", "forget"}, Goto(l, step),
               load[l].step # "store"
        PROVE  Moves(l)
    <3>1. step \in Step
      BY DEF Step
    <3>2. /\ load'[l].step = step /\ load'[l].holds = load[l].holds
          /\ \A k \in Loads : k # l => load'[k] = load[k]
      BY <2>3, <3>1, SlotTypes
    <3> QED BY <2>1, <2>3, <3>2 DEF rows, Moves, InHand, Renews
  <2> QED BY <2>1, <2>2, <2>3
<1>3. CASE RevokeFails(l)
  BY <1>3, SlotTypes DEF RevokeFails, Moves, InHand, Renews
<1> QED BY <1>1, <1>2, <1>3

\* Nothing that is held, stored or at work on the server is the next session.
LEMMA NextIsNew ==
    ASSUME Coherent
    PROVE  /\ opened \in Nat /\ opened + 1 \notin orphans /\ opened + 1 \notin effective
           /\ \A d \in Devices : stored[d] # opened + 1
           /\ \A l \in Loads : load[l].holds # opened + 1
<1>1. opened \in Nat
  BY SessionsAssumption DEF Coherent, TypeOK
<1>2. \A d \in Devices : stored[d] \in Nat
  BY SessionsAssumption DEF Coherent, TypeOK
<1> QED BY <1>1, <1>2 DEF Coherent, Known

LEMMA OrphanKeeps ==
    ASSUME Coherent, TokensInv, NEW s \in orphans, OrphanEnds(s)
    PROVE  TokensInv'
<1> USE DEF Coherent, TokensInv
<1>1. s \in Session /\ orphans' = orphans \ {s} /\ UNCHANGED <<stored, load, killed>>
  BY DEF OrphanEnds, TypeOK
<1>2. CASE UNCHANGED rows
  BY <1>1, <1>2 DEF rows, Owned, Hands, InHand, EndangeredIsReplaced, Endangered, Renews
<1>3. CASE Rotates(s)
  <2>1. \A t \in Session : t # opened + 1 /\ t # s => session'[t] = session[t]
    BY <1>1, <1>3, OpensTypes DEF Rotates
  <2>2. Owned'
    BY <1>1 DEF Owned
  <2>3. \A l \in Loads : InHand(l) => load[l].holds \in Session /\ load[l].holds # s
    <3>1. \A l \in Loads : InHand(l) => load[l].holds \in 1..opened /\ load[l].holds # s
      BY DEF InHand, Known, Hands
    <3>2. opened \in 0..MaxSessions
      BY DEF TypeOK
    <3> QED BY <3>1, <3>2, SessionsAssumption DEF Session
  <2>4. Hands'
    BY <1>1, <2>1, <2>3, NextIsNew DEF Hands, InHand
  <2>5. \A d \in Devices :
           stored[d] # 0 => stored[d] \in Session /\ (Endangered(stored[d])' => Endangered(stored[d]))
    BY <1>1, <2>1, NextIsNew DEF Endangered, TypeOK, Session
  <2>6. EndangeredIsReplaced'
    BY <1>1, <2>5 DEF EndangeredIsReplaced, Endangered, Renews
  <2> QED BY <2>2, <2>4, <2>6
<1> QED BY <1>2, <1>3 DEF OrphanEnds

\* A slot that takes tokens from the storage, or none.
LEMMA StartKeeps ==
    ASSUME Coherent, TokensInv, NEW l \in Loads,
           (\E purpose \in {"load", "signOut"} : Start(l, purpose)) \/ SignInRead(l)
    PROVE  TokensInv'
<1> USE LoadDevice DEF Coherent, TokensInv
<1>1. /\ UNCHANGED <<rows, stored, orphans, killed>>
      /\ load[l].step = "idle" /\ load'[l].step \in {"me", "signIn"}
      /\ load'[l].holds \in {0, stored[DeviceOf(l)]}
      /\ \A k \in Loads : k # l => load'[k] = load[k]
  BY DEF Start, SignInRead, TypeOK
<1>2. Owned'
  BY <1>1 DEF Owned
<1>3. \A k \in Loads : InHand(k) => load[k].holds # 0
  <2>1. \A k \in Loads : InHand(k) => load[k].holds \in 1..opened
    BY DEF InHand, Known
  <2> QED BY <2>1
<1>4. Hands'
  BY <1>1, <1>3 DEF Hands, InHand, rows
<1>5. EndangeredIsReplaced'
  BY <1>1 DEF EndangeredIsReplaced, Endangered, Renews, rows
<1> QED BY <1>2, <1>4, <1>5

\* The answer of a refresh is in one hand, and its client will write the storage.
LEMMA RefreshKeeps ==
    ASSUME Coherent, TokensInv, NEW l \in Loads, RefreshCommit(l) \/ RefreshTimeout(l)
    PROVE  TokensInv'
<1> USE LoadDevice DEF Coherent, TokensInv
<1> DEFINE s == load[l].holds
<1>1. /\ load[l].step = "rotate" /\ load[l].for # "signIn"
      /\ s \in Session /\ s # 0 /\ s <= opened /\ opened \in Nat
  <2>1. load[l].step = "rotate" /\ load[l].for # "signIn" /\ s \in 1..opened
    BY DEF RefreshCommit, RefreshTimeout, Known
  <2>2. opened \in 0..MaxSessions
    BY DEF TypeOK
  <2> QED BY <2>1, <2>2, SessionsAssumption DEF Session
<1>2. /\ orphans' \subseteq orphans \cup {s} /\ UNCHANGED <<stored, killed>>
      /\ \A t \in Session : t # opened + 1 /\ t # s => session'[t] = session[t]
  <2>1. CASE RefreshCommit(l)
    BY <1>1, <2>1, OpensTypes DEF RefreshCommit, Rotates
  <2>2. CASE RefreshTimeout(l)
    BY <2>2 DEF RefreshTimeout, rows
  <2> QED BY <2>1, <2>2
<1>3. /\ \A k \in Loads : k # l => load'[k] = load[k]
      /\ \/ load'[l].step = "forget" /\ load'[l].holds = s
         \/ /\ load'[l].step = "store" /\ load'[l].holds = opened + 1
            /\ load'[l].for = load[l].for
            /\ session'[opened + 1] = "FRESH" /\ orphans' = orphans
  <2>1. CASE Goto(l, "forget")
    BY <2>1, SlotTypes DEF Step
  <2>2. CASE RefreshCommit(l) /\ Receives(l, "store", opened + 1)
    <3>1. opened' = opened + 1 /\ session'[opened'] = "FRESH" /\ orphans' = orphans
      BY <1>1, <2>2, OpensTypes DEF RefreshCommit, Rotates
    <3> QED BY <2>2, <3>1 DEF Receives, TypeOK
  <2> QED BY <2>1, <2>2 DEF RefreshCommit, RefreshTimeout, Forgets
<1> HIDE DEF s
<1>4. Owned'
  BY <1>2, <1>3, NextIsNew DEF Owned, s
<1>5. \A k \in Loads :
         InHand(k) => k # l /\ load[k].holds \in Session /\ load[k].holds # s
  <2>1. \A k \in Loads : InHand(k) => k # l /\ load[k].holds \in 1..opened
    BY <1>1 DEF InHand, Known
  <2>2. opened \in 0..MaxSessions
    BY DEF TypeOK
  <2>3. \A k \in Loads : InHand(k) => load[k].holds \in Session
    BY <2>1, <2>2, SessionsAssumption DEF Session
  <2> QED BY <2>1, <2>3 DEF Hands, s
<1>6. Hands'
  <2> SUFFICES ASSUME NEW k \in Loads, InHand(k)'
               PROVE  /\ session'[load'[k].holds] # "SPENT"
                      /\ load'[k].holds \notin orphans'
                      /\ \A d \in Devices : stored'[d] # load'[k].holds
                      /\ \A j \in Loads : load'[j].holds = load'[k].holds => j = k
    BY DEF Hands
  <2>1. CASE k = l
    BY <1>2, <1>3, <2>1, NextIsNew DEF InHand
  <2>2. CASE k # l
    <3>1. InHand(k) /\ load'[k] = load[k]
      BY <1>3, <2>2 DEF InHand
    <3> QED BY <1>2, <1>3, <1>5, <2>2, <3>1, NextIsNew DEF Hands, s
  <2> QED BY <2>1, <2>2
<1>7. \A k \in Loads : Renews(k) => Renews(k)'
  BY <1>1, <1>3 DEF Renews
<1>8. Renews(l)'
  BY <1>1, <1>3 DEF Renews
<1>9. EndangeredIsReplaced'
  <2> SUFFICES ASSUME NEW d \in Devices, stored'[d] # 0, ~killed'[d], Endangered(stored[d])'
               PROVE  \E k \in Loads : DeviceOf(k) = d /\ Renews(k)'
    BY <1>2 DEF EndangeredIsReplaced, Endangered
  <2>1. stored[d] \in Session /\ stored[d] # opened + 1 /\ stored[d] # 0 /\ ~killed[d]
    BY <1>2, NextIsNew DEF TypeOK, Session
  <2>2. CASE stored[d] = s
    BY <1>8, <2>1, <2>2 DEF Owned, s
  <2>3. CASE stored[d] # s
    BY <1>2, <1>7, <2>1, <2>3 DEF EndangeredIsReplaced, Endangered
  <2> QED BY <2>2, <2>3
<1> QED BY <1>4, <1>6, <1>9

\* Tokens written to the storage leave the hand they were in.
LEMMA StoreKeeps ==
    ASSUME Coherent, TokensInv, NEW l \in Loads, Store(l)
    PROVE  TokensInv'
<1> USE LoadDevice DEF Coherent, TokensInv
<1> DEFINE n == load[l].holds
           d == DeviceOf(l)
<1>1. /\ load[l].step = "store" /\ InHand(l) /\ n \in 1..opened /\ d \in Devices
      /\ stored' = [stored EXCEPT ![d] = n] /\ killed' = [killed EXCEPT ![d] = FALSE]
      /\ UNCHANGED <<rows, orphans>>
  BY DEF Store, Persists, Known, InHand
<1>2. stored \in [Devices -> 0..MaxSessions] /\ killed \in [Devices -> BOOLEAN]
  BY DEF TypeOK
<1>3. /\ load'[l].step \in {"check", "idle"} /\ load'[l].holds \in {n, 0}
      /\ \A k \in Loads : k # l => load'[k] = load[k]
  BY SlotTypes DEF Store, Step
<1>4. /\ stored'[d] = n /\ ~killed'[d]
      /\ \A e \in Devices : e # d => stored'[e] = stored[e] /\ killed'[e] = killed[e]
  BY <1>1, <1>2
<1>5. /\ session'[n] # "SPENT" /\ n \notin orphans' /\ \A e \in Devices : stored[e] # n
      /\ \A k \in Loads : load[k].holds = n => k = l
  BY <1>1 DEF Hands, rows
<1>6. Owned'
  <2>1. \A e, f \in Devices : stored'[e] = stored'[f] /\ stored'[e] # 0 => e = f
    BY <1>4, <1>5 DEF Owned
  <2>2. \A k \in Loads, e \in Devices :
           load'[k].holds = stored'[e] /\ stored'[e] # 0 => DeviceOf(k) = e
    <3> SUFFICES ASSUME NEW k \in Loads, NEW e \in Devices,
                        load'[k].holds = stored'[e], stored'[e] # 0
                 PROVE  DeviceOf(k) = e
      OBVIOUS
    <3>1. CASE e = d
      BY <1>3, <1>4, <1>5, <3>1
    <3>2. CASE e # d
      BY <1>1, <1>3, <1>4, <1>5, <3>2 DEF Owned
    <3> QED BY <3>1, <3>2
  <2> QED BY <2>1, <2>2 DEF Owned
<1>7. Hands'
  <2> SUFFICES ASSUME NEW k \in Loads, InHand(k)'
               PROVE  /\ session'[load'[k].holds] # "SPENT"
                      /\ load'[k].holds \notin orphans'
                      /\ \A e \in Devices : stored'[e] # load'[k].holds
                      /\ \A j \in Loads : load'[j].holds = load'[k].holds => j = k
    BY DEF Hands
  <2>1. k # l /\ InHand(k) /\ load'[k] = load[k]
    BY <1>3 DEF InHand
  <2>2. load[k].holds # n /\ load[k].holds # 0
    <3>1. load[k].holds \in 1..opened
      BY <2>1 DEF InHand, Known
    <3> QED BY <1>5, <2>1, <3>1
  <2> QED BY <1>1, <1>3, <1>4, <2>1, <2>2 DEF Hands, rows
<1>8. EndangeredIsReplaced'
  <2> SUFFICES ASSUME NEW e \in Devices, stored'[e] # 0, ~killed'[e],
                      session'[stored'[e]] = "SPENT" \/ stored'[e] \in orphans'
               PROVE  \E k \in Loads : DeviceOf(k) = e /\ Renews(k)'
    BY DEF EndangeredIsReplaced, Endangered
  <2>1. e # d
    BY <1>4, <1>5
  <2>2. PICK k \in Loads : DeviceOf(k) = e /\ Renews(k)
    BY <1>1, <1>4, <2>1 DEF EndangeredIsReplaced, Endangered, rows
  <2> QED BY <1>3, <2>1, <2>2 DEF Renews
<1> QED BY <1>6, <1>7, <1>8

LEMMA ForgetKeeps ==
    ASSUME Coherent, TokensInv, NEW l \in Loads, Forget(l)
    PROVE  TokensInv'
<1> USE LoadDevice DEF Coherent, TokensInv
<1> DEFINE d == DeviceOf(l)
<1>1. /\ load[l].step = "forget" /\ load[l] \in Load /\ d \in Devices
      /\ stored' = [stored EXCEPT ![d] = 0] /\ killed' = [killed EXCEPT ![d] = FALSE]
      /\ UNCHANGED <<rows, orphans>>
  BY DEF Forget, TypeOK
<1>2. stored \in [Devices -> 0..MaxSessions] /\ killed \in [Devices -> BOOLEAN]
  BY DEF TypeOK
<1>3. /\ ~InHand(l)' /\ load'[l].holds \in {load[l].holds, 0}
      /\ \A k \in Loads : k # l => load'[k] = load[k]
  <2>1. CASE load' = [load EXCEPT ![l].for = "clear"]
    BY <1>1, <2>1 DEF InHand, Load, TypeOK
  <2>2. CASE Done(l)
    BY <2>2, SlotTypes DEF InHand
  <2> QED BY <2>1, <2>2 DEF Forget
<1>4. /\ stored'[d] = 0
      /\ \A e \in Devices : e # d => stored'[e] = stored[e] /\ killed'[e] = killed[e]
  BY <1>1, <1>2
<1>5. Owned'
  BY <1>3, <1>4 DEF Owned
<1>6. Hands'
  <2> SUFFICES ASSUME NEW k \in Loads, InHand(k)'
               PROVE  /\ session'[load'[k].holds] # "SPENT"
                      /\ load'[k].holds \notin orphans'
                      /\ \A e \in Devices : stored'[e] # load'[k].holds
                      /\ \A j \in Loads : load'[j].holds = load'[k].holds => j = k
    BY DEF Hands
  <2>1. k # l /\ InHand(k) /\ load'[k] = load[k]
    BY <1>3 DEF InHand
  <2>2. load[k].holds # 0
    <3>1. load[k].holds \in 1..opened
      BY <2>1 DEF InHand, Known
    <3> QED BY <3>1
  <2> QED BY <1>1, <1>3, <1>4, <2>1, <2>2 DEF Hands, rows
<1>7. EndangeredIsReplaced'
  <2> SUFFICES ASSUME NEW e \in Devices, stored'[e] # 0, ~killed'[e],
                      session'[stored'[e]] = "SPENT" \/ stored'[e] \in orphans'
               PROVE  \E k \in Loads : DeviceOf(k) = e /\ Renews(k)'
    BY DEF EndangeredIsReplaced, Endangered
  <2>1. e # d
    BY <1>4
  <2>2. PICK k \in Loads : DeviceOf(k) = e /\ Renews(k)
    BY <1>1, <1>4, <2>1 DEF EndangeredIsReplaced, Endangered, rows
  <2> QED BY <1>3, <2>1, <2>2 DEF Renews
<1> QED BY <1>5, <1>6, <1>7

LEMMA SignInKeeps ==
    ASSUME Coherent, TokensInv, NEW l \in Loads, SignInCreate(l)
    PROVE  TokensInv'
<1> USE LoadDevice DEF Coherent, TokensInv
<1>1. /\ load[l].step = "signIn" /\ UNCHANGED <<stored, orphans, killed>>
      /\ load[l] \in Load /\ opened \in 0..MaxSessions /\ 0 \in Session \cup {0}
  BY DEF SignInCreate, TypeOK
<1>2. /\ session'[opened + 1] = "FRESH"
      /\ \A t \in Session : t # opened + 1 => session'[t] = session[t]
  <2>1. /\ opened' = opened + 1 /\ session'[opened'] = "FRESH"
        /\ \A t \in Session : t # opened' /\ t # 0 => session'[t] = session[t]
    BY <1>1, OpensTypes DEF SignInCreate
  <2> QED BY <2>1, SessionsAssumption DEF Session
<1>3. /\ load'[l].step \in {"store", "revokeOthers"} /\ load'[l].for = load[l].for
      /\ load'[l].holds = opened + 1
      /\ \A k \in Loads : k # l => load'[k] = load[k]
  BY DEF SignInCreate, Receives, TypeOK
<1>4. Owned'
  BY <1>1, <1>3, NextIsNew DEF Owned
<1>5. Hands'
  <2> SUFFICES ASSUME NEW k \in Loads, InHand(k)'
               PROVE  /\ session'[load'[k].holds] # "SPENT"
                      /\ load'[k].holds \notin orphans'
                      /\ \A e \in Devices : stored'[e] # load'[k].holds
                      /\ \A j \in Loads : load'[j].holds = load'[k].holds => j = k
    BY DEF Hands
  <2>1. CASE k = l
    BY <1>1, <1>2, <1>3, <2>1, NextIsNew
  <2>2. CASE k # l
    <3>1. InHand(k) /\ load'[k] = load[k]
      BY <1>3, <2>2 DEF InHand
    <3>2. load[k].holds \in 1..opened
      BY <3>1 DEF InHand, Known
    <3>3. load[k].holds \in Session /\ load[k].holds # opened + 1
      BY <1>1, <3>2, SessionsAssumption DEF Session
    <3> QED BY <1>1, <1>2, <1>3, <3>1, <3>3 DEF Hands
  <2> QED BY <2>1, <2>2
<1>6. EndangeredIsReplaced'
  <2> SUFFICES ASSUME NEW d \in Devices, stored'[d] # 0, ~killed'[d],
                      session'[stored'[d]] = "SPENT" \/ stored'[d] \in orphans'
               PROVE  \E k \in Loads : DeviceOf(k) = d /\ Renews(k)'
    BY DEF EndangeredIsReplaced, Endangered
  <2>1. stored[d] \in Session /\ stored[d] # opened + 1
    BY <1>1, NextIsNew DEF TypeOK, Session
  <2>2. PICK k \in Loads : DeviceOf(k) = d /\ Renews(k)
    BY <1>1, <1>2, <2>1 DEF EndangeredIsReplaced, Endangered
  <2>3. k # l
    BY <1>1, <2>2 DEF Renews
  <2> QED BY <1>3, <2>2, <2>3 DEF Renews
<1> QED BY <1>4, <1>5, <1>6

\* A refresh that the end of its application leaves on the server is remembered.
LEMMA KillKeeps ==
    ASSUME Coherent, TokensInv, NEW d \in Devices, Kill(d)
    PROVE  TokensInv'
<1> USE LoadDevice DEF Coherent, TokensInv
<1>1. /\ UNCHANGED <<rows, stored>>
      /\ orphans' = orphans \cup
            {load[l].holds : l \in {k \in Loads : DeviceOf(k) = d /\ load[k].step = "rotate"}}
      /\ killed \in [Devices -> BOOLEAN]
      /\ killed' = [killed EXCEPT ![d] = @ \/ \E l \in Loads : DeviceOf(l) = d /\ Renews(l)]
  BY DEF Kill, TypeOK
<1>2. \A l \in Loads :
         /\ DeviceOf(l) # d => load'[l] = load[l]
         /\ load'[l].holds \in {load[l].holds, 0}
         /\ InHand(l)' => InHand(l) /\ load'[l].holds = load[l].holds
  BY DEF Kill, Idle, InHand
<1>3. Owned'
  BY <1>1, <1>2 DEF Owned
<1>4. \A l \in Loads : InHand(l) => load[l].holds \in 1..opened /\ load[l].step # "rotate"
  BY DEF InHand, Known
<1>5. Hands'
  <2> SUFFICES ASSUME NEW k \in Loads, InHand(k)'
               PROVE  /\ session'[load'[k].holds] # "SPENT"
                      /\ load'[k].holds \notin orphans'
                      /\ \A e \in Devices : stored'[e] # load'[k].holds
                      /\ \A j \in Loads : load'[j].holds = load'[k].holds => j = k
    BY DEF Hands
  <2>1. /\ InHand(k) /\ load'[k].holds = load[k].holds /\ load[k].holds # 0
        /\ load[k].step # "rotate"
    BY <1>2, <1>4
  <2>2. \A j \in Loads : load[j].holds = load[k].holds => j = k
    BY <2>1 DEF Hands
  <2>3. load[k].holds \notin orphans'
    BY <1>1, <2>1, <2>2 DEF Hands
  <2> QED BY <1>1, <1>2, <2>1, <2>2, <2>3 DEF Hands, rows
<1>6. EndangeredIsReplaced'
  <2> SUFFICES ASSUME NEW e \in Devices, stored'[e] # 0, ~killed'[e],
                      session'[stored'[e]] = "SPENT" \/ stored'[e] \in orphans'
               PROVE  \E k \in Loads : DeviceOf(k) = e /\ Renews(k)'
    BY DEF EndangeredIsReplaced, Endangered
  <2>1. stored[e] # 0 /\ ~killed[e]
    BY <1>1
  <2>2. Endangered(stored[e]) \/ \E l \in Loads : /\ DeviceOf(l) = d /\ load[l].step = "rotate"
                                                 /\ load[l].holds = stored[e]
    BY <1>1 DEF Endangered, rows
  <2>3. \E k \in Loads : DeviceOf(k) = e /\ Renews(k)
    BY <2>1, <2>2 DEF EndangeredIsReplaced, Owned, Renews
  <2>4. e # d
    BY <1>1, <2>3
  <2> QED BY <1>2, <2>3, <2>4 DEF Renews
<1> QED BY <1>3, <1>5, <1>6

LEMMA TokensStep == Coherent /\ TokensInv /\ [Next]_vars => TokensInv'
<1> SUFFICES ASSUME Coherent, TokensInv, [Next]_vars PROVE TokensInv'
  OBVIOUS
<1>1. ASSUME /\ UNCHANGED <<stored, load, orphans, killed>>
             /\ \A t \in Session : session'[t] = "SPENT" => session[t] = "SPENT"
      PROVE  TokensInv'
  <2>1. Owned'
    BY <1>1 DEF TokensInv, Owned
  <2>2. \A l \in Loads : InHand(l) => load[l].holds \in Session
    <3>1. \A l \in Loads : InHand(l) => load[l].holds \in 1..opened
      BY DEF Coherent, InHand, Known
    <3>2. opened \in 0..MaxSessions
      BY DEF Coherent, TypeOK
    <3> QED BY <3>1, <3>2, SessionsAssumption DEF Session
  <2>3. Hands'
    BY <1>1, <2>2 DEF TokensInv, Hands, InHand
  <2>4. \A d \in Devices : stored[d] # 0 => stored[d] \in Session
    BY DEF Coherent, TypeOK, Session
  <2>5. EndangeredIsReplaced'
    BY <1>1, <2>4 DEF TokensInv, EndangeredIsReplaced, Endangered, Renews
  <2> QED BY <2>1, <2>3, <2>5 DEF TokensInv
<1>2. ASSUME NEW s \in Session, Grow(s) PROVE TokensInv'
  <2>1. \A t \in Session : session'[t] = "SPENT" => session[t] = "SPENT"
    BY <1>2 DEF Grow, Coherent, TypeOK
  <2> QED BY <1>1, <1>2, <2>1 DEF Grow
<1>3. ASSUME NEW S, NEW deletes, EndSessions(S, deletes) PROVE TokensInv'
  <2>1. \A t \in Session : session'[t] = "SPENT" => session[t] = "SPENT"
    BY <1>3, RevokeTypes DEF EndSessions, Coherent
  <2> QED BY <1>1, <1>3, <2>1 DEF EndSessions
<1>4. CASE UNCHANGED vars
  BY <1>1, <1>4 DEF vars, rows
<1>5. ASSUME NEW l \in Loads, Answer(l) PROVE TokensInv'
  BY <1>5, MoveKeeps, SlotMoves, RefreshKeeps, StoreKeeps, ForgetKeeps, SignInKeeps DEF Answer
<1> QED
  BY <1>2, <1>3, <1>4, <1>5, OrphanKeeps, StartKeeps, KillKeeps DEF Next

\* A device never settles on tokens that its own refresh used up, however many loads
\* it runs and however late their answers come.
THEOREM SpentIsReplacedAlways == Spec => []SpentIsReplaced
<1>1. TokensInv => SpentIsReplaced
  BY DEF TokensInv, EndangeredIsReplaced, Endangered, SpentIsReplaced
<1> QED BY <1>1, TokensInit, TokensStep, AlwaysCoherent, PTL DEF Spec

-----------------------------------------------------------------------------
(* Sign-ins of a driver.                                                   *)

\* A step that accepts no other signed-in session, and ends no sign-in.
LEMMA TakeOverKept ==
    ASSUME SignInTakesOver, active' => active,
           \A s \in effective' : session'[s] = "FRESH" => s \in effective /\ session[s] = "FRESH",
           \A l \in Loads : load[l].step = "revokeOthers" =>
               load'[l].step = "revokeOthers" /\ load'[l].holds = load[l].holds
    PROVE  SignInTakesOver'
  BY DEF SignInTakesOver, Accepted

LEMMA TakeOverStep == Coherent /\ SignInTakesOver /\ [Next]_vars => SignInTakesOver'
<1> SUFFICES ASSUME Coherent, SignInTakesOver, [Next]_vars PROVE SignInTakesOver'
  OBVIOUS
<1> USE DEF Coherent
<1>1. effective \subseteq Session
  BY DEF TypeOK
<1>2. ASSUME NEW s \in Session, Grow(s) PROVE SignInTakesOver'
  BY <1>1, <1>2, TakeOverKept DEF Grow, TypeOK
<1>3. ASSUME NEW S, NEW deletes \in BOOLEAN, EndSessions(S, deletes) PROVE SignInTakesOver'
  BY <1>1, <1>3, TakeOverKept, RevokeTypes DEF EndSessions, Accepted
<1>4. ASSUME NEW s \in Session, Rotates(s)
      PROVE  /\ active' = active
             /\ \A t \in effective' : session'[t] = "FRESH" => t \in effective /\ session[t] = "FRESH"
  <2>1. effective' = effective /\ active' = active
        /\ \A t \in Session : t # opened + 1 => session'[t] \in {session[t], "SPENT"}
    BY <1>4, OpensTypes DEF Rotates
  <2> QED BY <1>1, <2>1, NextIsNew
<1>5. ASSUME NEW s \in orphans, OrphanEnds(s) PROVE SignInTakesOver'
  <2>1. s \in Session /\ UNCHANGED load
    BY <1>5 DEF OrphanEnds, TypeOK
  <2>2. /\ active' = active
        /\ \A t \in effective' : session'[t] = "FRESH" => t \in effective /\ session[t] = "FRESH"
    BY <1>4, <1>5, <2>1 DEF OrphanEnds, rows
  <2> QED BY <2>1, <2>2, TakeOverKept
<1>6. ASSUME NEW l \in Loads,
             (\E purpose \in {"load", "signOut"} : Start(l, purpose)) \/ SignInRead(l)
      PROVE  SignInTakesOver'
  <2>1. load[l].step = "idle" /\ UNCHANGED rows
    BY <1>6 DEF Start, SignInRead
  <2>2. \A k \in Loads : k # l => load'[k] = load[k]
    BY <1>6 DEF Start, SignInRead, TypeOK
  <2>3. \A k \in Loads : load[k].step = "revokeOthers" => k # l
    BY <2>1
  <2> QED BY <2>1, <2>2, <2>3, TakeOverKept DEF rows
<1>7. ASSUME NEW l \in Loads,
             \/ MeAccepted(l) \/ MeRefused(l) \/ MeLost(l)
             \/ RefreshRead(l) \/ RefreshLost(l)
             \/ CheckAccepted(l) \/ CheckFails(l) \/ WorkRefused(l) \/ WorkEnds(l)
             \/ SignOut(l) \/ SignInFails(l)
      PROVE  SignInTakesOver'
  <2>1. Moves(l)
    BY <1>7, SlotMoves
  <2>2. load[l].step # "revokeOthers"
    BY <1>7 DEF MeAccepted, MeRefused, MeLost, RefreshRead, RefreshLost, CheckAccepted,
                CheckFails, WorkRefused, WorkEnds, SignOut, SignInFails
  <2> QED BY <1>1, <2>1, <2>2, TakeOverKept DEF Moves
<1>8. ASSUME NEW l \in Loads, RefreshCommit(l) PROVE SignInTakesOver'
  <2>1. load[l].step = "rotate" /\ load[l].holds \in 1..opened /\ opened \in 0..MaxSessions
    BY <1>8 DEF RefreshCommit, Known, TypeOK
  <2>2. load[l].holds \in Session
    BY <2>1, SessionsAssumption DEF Session
  <2>3. \A k \in Loads : k # l => load'[k] = load[k]
    BY <1>8 DEF RefreshCommit, Receives, Forgets, Goto, TypeOK
  <2> QED BY <1>4, <1>8, <2>1, <2>2, <2>3, TakeOverKept DEF RefreshCommit
<1>9. ASSUME NEW l \in Loads, RefreshTimeout(l) \/ Store(l) \/ Forget(l)
      PROVE  SignInTakesOver'
  <2>1. load[l].step # "revokeOthers" /\ UNCHANGED rows
    BY <1>9 DEF RefreshTimeout, Store, Forget
  <2>2. \A k \in Loads : k # l => load'[k] = load[k]
    BY <1>9 DEF RefreshTimeout, Store, Forget, Forgets, Goto, Done, TypeOK
  <2> QED BY <2>1, <2>2, TakeOverKept DEF rows
<1>10. ASSUME NEW l \in Loads, SignInCreate(l) PROVE SignInTakesOver'
  <2>1. /\ load[l].step = "signIn" /\ 0 \in Session \cup {0}
        /\ effective' = effective \cup {opened + 1}
    BY <1>10 DEF SignInCreate
  <2>2. /\ active' = active
        /\ \A t \in Session : t # opened + 1 => session'[t] \in {session[t], "SPENT"}
    BY <1>10, <2>1, OpensTypes DEF SignInCreate
  <2>3. /\ Driver => load'[l].step = "revokeOthers" /\ load'[l].holds = opened + 1
        /\ \A k \in Loads : k # l => load'[k] = load[k]
    BY <1>10 DEF SignInCreate, Receives, TypeOK
  <2> SUFFICES ASSUME Driver, NEW s \in effective', NEW t \in effective', s # t,
                      Accepted(s)', Accepted(t)'
               PROVE  \E k \in Loads : load'[k].step = "revokeOthers" /\ load'[k].holds \in {s, t}
    BY DEF SignInTakesOver
  <2>4. CASE s = opened + 1 \/ t = opened + 1
    BY <2>3, <2>4
  <2>5. CASE s # opened + 1 /\ t # opened + 1
    <3>1. s \in effective /\ t \in effective /\ Accepted(s) /\ Accepted(t)
      BY <1>1, <2>1, <2>2, <2>5 DEF Accepted
    <3>2. PICK k \in Loads : load[k].step = "revokeOthers" /\ load[k].holds \in {s, t}
      BY <3>1 DEF SignInTakesOver
    <3> QED BY <2>1, <2>3, <3>2
  <2> QED BY <2>4, <2>5
<1>11. ASSUME NEW l \in Loads, SignInRevoke(l) PROVE SignInTakesOver'
  <2>1. /\ Revoke(OtherActive(load[l].holds)) /\ effective' = effective /\ active' = active
    BY <1>11 DEF SignInRevoke
  <2>2. \A s \in Session : session'[s] = "FRESH" => s = load[l].holds
    BY <2>1, RevokeTypes DEF OtherActive
  <2> QED BY <1>1, <2>1, <2>2 DEF SignInTakesOver, Accepted
<1>12. ASSUME NEW d \in Devices, Kill(d) PROVE SignInTakesOver'
  <2>1. \A l \in Loads : load[l].step = "revokeOthers" =>
           load'[l].step = "revokeOthers" /\ load'[l].holds = load[l].holds
    BY <1>12 DEF Kill
  <2> QED BY <1>12, <2>1, TakeOverKept DEF Kill, rows
<1>13. CASE UNCHANGED vars
  BY <1>13, TakeOverKept DEF vars, rows
<1>14. ASSUME NEW l \in Loads, RevokeFails(l) PROVE SignInTakesOver'
  <2>1. /\ load[l].step = "revokeOthers" /\ UNCHANGED <<session, active>>
        /\ effective' = effective \ {load[l].holds}
        /\ \A k \in Loads : k # l => load'[k] = load[k]
    BY <1>14, SlotTypes DEF RevokeFails
  <2> SUFFICES ASSUME Driver, NEW s \in effective', NEW t \in effective', s # t,
                      Accepted(s)', Accepted(t)'
               PROVE  \E k \in Loads : load'[k].step = "revokeOthers" /\ load'[k].holds \in {s, t}
    BY DEF SignInTakesOver
  <2>2. Accepted(s) /\ Accepted(t) /\ s \in effective /\ t \in effective
    BY <2>1 DEF Accepted
  <2>3. PICK k \in Loads : load[k].step = "revokeOthers" /\ load[k].holds \in {s, t}
    BY <2>2 DEF SignInTakesOver
  <2>4. k # l
    BY <2>1, <2>3
  <2> QED BY <2>1, <2>3, <2>4
<1> QED
  BY <1>2, <1>3, <1>5, <1>6, <1>7, <1>8, <1>9, <1>10, <1>11, <1>12, <1>13, <1>14 DEF Next, Answer

\* However sign-ins of a driver overlap, of two that ended the others they found one
\* was found by the other.
THEOREM SignInTakesOverAlways == Spec => []SignInTakesOver
<1>1. Init => SignInTakesOver
  BY DEF Init, SignInTakesOver
<1> QED BY <1>1, TakeOverStep, AlwaysCoherent, PTL DEF Spec

-----------------------------------------------------------------------------
(* Sessions that ended.                                                    *)

Ended(s) == session[s] \in {"SPENT", "REVOKED"}

\* A session that was revoked or used up, and an account that was deleted, stay so: a
\* refresh that read the row before and writes it by id, even long after its client is
\* gone, opens another session at most.
EndedIsFinal ==
    [][/\ ~active => ~active'
       /\ \A s \in Session : Ended(s) => Ended(s)']_vars

\* What a step may do to the sessions there are.
LEMMA SessionWrites ==
    ASSUME Coherent, NEW S \in SUBSET Session, NEW s \in Session, Ended(s),
           \/ Revoke(S)
           \/ \E t \in Session : Opens([session EXCEPT ![t] = "SPENT"])
           \/ Opens(session)
           \/ UNCHANGED session
    PROVE  Ended(s)'
<1> USE DEF Ended
<1>1. session \in [Session -> State] /\ (s <= opened) /\ opened \in Nat /\ s \in Nat
  BY SessionsAssumption DEF Coherent, TypeOK, Known, Session
<1>2. CASE Revoke(S)
  BY <1>2 DEF Revoke
<1>3. ASSUME NEW t \in Session, Opens([session EXCEPT ![t] = "SPENT"]) PROVE Ended(s)'
  BY <1>1, <1>3 DEF Opens
<1>4. CASE Opens(session)
  BY <1>1, <1>4 DEF Opens
<1> QED BY <1>2, <1>3, <1>4

\* However refreshes, sign-ins and revocations interleave, nothing that ended is taken
\* up again.
THEOREM EndedIsFinalAlways == Spec => EndedIsFinal
<1> DEFINE Final == /\ ~active => ~active'
                    /\ \A s \in Session : Ended(s) => Ended(s)'
<1>1. ASSUME Coherent, [Next]_vars PROVE Final
  <2> USE <1>1
  <2>1. ASSUME NEW S \in SUBSET Session,
               \/ Revoke(S)
               \/ \E t \in Session : Opens([session EXCEPT ![t] = "SPENT"])
               \/ Opens(session)
               \/ UNCHANGED session
        PROVE  \A s \in Session : Ended(s) => Ended(s)'
    BY <2>1, SessionWrites
  <2>2. ASSUME NEW s \in Session, Grow(s) PROVE Final
    BY <2>2 DEF Grow, Ended, Coherent, TypeOK
  <2>3. ASSUME NEW S \in SUBSET Session, NEW deletes \in BOOLEAN, EndSessions(S, deletes)
        PROVE  Final
    BY <2>1, <2>3 DEF EndSessions, Accepted
  <2>4. ASSUME NEW s \in orphans, OrphanEnds(s) PROVE Final
    <3>1. s \in Session
      BY DEF Coherent, TypeOK
    <3>2. UNCHANGED active
      BY <2>4 DEF OrphanEnds, Rotates, Opens, rows
    <3>3. UNCHANGED session \/ Opens([session EXCEPT ![s] = "SPENT"])
      BY <2>4 DEF OrphanEnds, Rotates, rows
    <3> QED BY <2>1, <3>1, <3>2, <3>3
  <2>5. ASSUME NEW l \in Loads, RefreshCommit(l) PROVE Final
    <3>1. load[l].holds \in Session
      <4>1. load[l].step = "rotate"
        BY <2>5 DEF RefreshCommit
      <4>2. load[l].holds \in 1..opened /\ opened \in 0..MaxSessions
        BY <4>1 DEF Coherent, Known, TypeOK
      <4> QED BY <4>2, SessionsAssumption DEF Session
    <3>2. UNCHANGED active /\ Opens([session EXCEPT ![load[l].holds] = "SPENT"])
      BY <2>5 DEF RefreshCommit, Rotates, Opens
    <3> QED BY <2>1, <3>1, <3>2
  <2>6. ASSUME NEW l \in Loads, SignInCreate(l) PROVE Final
    <3>1. UNCHANGED active /\ Opens(session)
      BY <2>6 DEF SignInCreate, Opens
    <3> QED BY <2>1, <3>1
  <2>7. ASSUME NEW l \in Loads, RefreshRead(l) \/ SignInRevoke(l) \/ SignOut(l) \/ RevokeFails(l)
        PROVE  Final
    <3>1. UNCHANGED active
      BY <2>7 DEF RefreshRead, SignInRevoke, SignOut, RevokeFails
    <3>2. PICK S : Revoke(S) \/ UNCHANGED session
      BY <2>7 DEF RefreshRead, SignInRevoke, SignOut, RevokeFails
    <3>3. Revoke(S) => Revoke(S \cap Session)
      BY DEF Revoke
    <3> QED BY <2>1, <3>1, <3>2, <3>3
  <2>8. ASSUME \/ UNCHANGED vars
               \/ \E d \in Devices : Kill(d)
               \/ \E l \in Loads :
                     \/ \E purpose \in {"load", "signOut"} : Start(l, purpose)
                     \/ SignInRead(l) \/ MeAccepted(l) \/ MeRefused(l) \/ MeLost(l)
                     \/ RefreshLost(l) \/ RefreshTimeout(l) \/ Store(l)
                     \/ CheckAccepted(l) \/ CheckFails(l) \/ WorkRefused(l) \/ WorkEnds(l)
                     \/ Forget(l) \/ SignInFails(l)
        PROVE  Final
    <3>1. UNCHANGED rows
      BY <2>8 DEF vars, Kill, Start, SignInRead, MeAccepted, MeRefused, MeLost,
                  RefreshLost, RefreshTimeout, Store, CheckAccepted, CheckFails,
                  WorkRefused, WorkEnds, Forget, SignInFails
    <3> QED BY <2>1, <3>1 DEF rows
  <2>9. /\ OpenSessions \in SUBSET Session
        /\ \A s \in OpenSessions : {s} \in SUBSET Session
    BY DEF OpenSessions
  <2> QED BY <2>2, <2>3, <2>4, <2>5, <2>6, <2>7, <2>8, <2>9 DEF Next, Answer
<1>2. Coherent /\ [Next]_vars => [Final]_vars
  BY <1>1
<1> QED BY <1>2, AlwaysCoherent, PTL DEF Spec, EndedIsFinal
=============================================================================
