----------------------------- MODULE WorkQueue -----------------------------
(***************************************************************************)
(* What the job queue promises, without rows, tickets, batches or dates:   *)
(* each item is leased to one worker at a time.  Only its holder's own run *)
(* decides how an item ends, and an item is taken from a lease only once   *)
(* the lease is Term old, whether its holder is lost or merely slow.       *)
(***************************************************************************)
EXTENDS Integers

CONSTANTS Items, Staff, Term, Never

VARIABLES
    state,      \* of each item
    holder,     \* the workers that may end it: none or one
    outcome,    \* how the holder's run ended, none or one of Outcome
    since,      \* when it was leased
    clock

queueVars == <<state, holder, outcome, since, clock>>

Outcome == {"returned", "threw"}

QueueInit ==
    /\ state = [i \in Items |-> "NONE"]
    /\ holder = [i \in Items |-> {}]
    /\ outcome = [i \in Items |-> {}]
    /\ since = [i \in Items |-> Never]
    /\ clock = 0

\* An item that is not in the queue may be submitted, again or for the first time.
Submit(i) ==
    /\ state[i] \in {"NONE", "SUCCEEDED", "DEAD_LETTER"}
    /\ state' = [state EXCEPT ![i] = "PENDING"]
    /\ UNCHANGED <<holder, outcome, since, clock>>

Lease(w, B) ==
    /\ \A i \in B : state[i] = "PENDING"
    /\ state' = [i \in Items |-> IF i \in B THEN "RUNNING" ELSE state[i]]
    /\ holder' = [i \in Items |-> IF i \in B THEN {w} ELSE holder[i]]
    /\ since' = [i \in Items |-> IF i \in B THEN clock ELSE since[i]]
    /\ UNCHANGED <<outcome, clock>>

\* The holder's run ends, or turns out to have failed after all.
Run(w, i, o) ==
    /\ holder[i] = {w} /\ outcome[i] \in {{}, {"returned"}}
    /\ outcome[i] = {"returned"} => o = "threw"
    /\ outcome' = [outcome EXCEPT ![i] = {o}]
    /\ UNCHANGED <<state, holder, since, clock>>

Release(i, s) ==
    /\ state' = [state EXCEPT ![i] = s]
    /\ holder' = [holder EXCEPT ![i] = {}]
    /\ outcome' = [outcome EXCEPT ![i] = {}]
    /\ since' = [since EXCEPT ![i] = Never]
    /\ UNCHANGED clock

\* The holder ends the item as its run did.
Succeed(w, i) == holder[i] = {w} /\ outcome[i] = {"returned"} /\ Release(i, "SUCCEEDED")

Fail(w, i) ==
    /\ holder[i] = {w} /\ outcome[i] = {"threw"}
    /\ \E s \in {"PENDING", "DEAD_LETTER"} : Release(i, s)

\* A worker is lost with all it holds: the items stay leased.
Lose(w) ==
    /\ holder' = [i \in Items |-> holder[i] \ {w}]
    /\ outcome' = [i \in Items |-> IF w \in holder[i] THEN {} ELSE outcome[i]]
    /\ UNCHANGED <<state, since, clock>>

\* Leases that are too old are taken back.
Reclaim(B) ==
    /\ \A i \in B : state[i] = "RUNNING" /\ since[i] + Term <= clock
    /\ state' = [i \in Items |-> IF i \in B THEN "PENDING" ELSE state[i]]
    /\ holder' = [i \in Items |-> IF i \in B THEN {} ELSE holder[i]]
    /\ outcome' = [i \in Items |-> IF i \in B THEN {} ELSE outcome[i]]
    /\ since' = [i \in Items |-> IF i \in B THEN Never ELSE since[i]]
    /\ UNCHANGED clock

Advance ==
    /\ clock' = clock + 1
    /\ UNCHANGED <<state, holder, outcome, since>>

QueueNext ==
    \/ Advance
    \/ \E i \in Items : Submit(i)
    \/ \E w \in Staff, i \in Items, o \in Outcome : Run(w, i, o)
    \/ \E w \in Staff, i \in Items : Succeed(w, i) \/ Fail(w, i)
    \/ \E w \in Staff, B \in SUBSET Items : Lease(w, B)
    \/ \E w \in Staff : Lose(w)
    \/ \E B \in SUBSET Items : Reclaim(B)

QueueSpec == QueueInit /\ [][QueueNext]_queueVars
=============================================================================
