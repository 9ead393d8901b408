----------------------------- MODULE OfferLease -----------------------------
(***************************************************************************)
(* What dispatch promises about a ride request offered to drivers, without *)
(* queries, handlers or sweeps: a lease per item.  It is granted while     *)
(* free or overdue, may be given back at any time, and its holder may take *)
(* the item, once and for good.                                            *)
(***************************************************************************)
EXTENDS Integers

CONSTANTS Items, Holders, Nobody, Term, Never

VARIABLES
    holder,     \* who the item is offered to
    deadline,   \* when the offer runs out
    taken,      \* the item was taken
    owner,      \* by whom
    clock

leaseVars == <<holder, deadline, taken, owner, clock>>

Overdue(i) == deadline[i] # Never /\ deadline[i] < clock

LeaseInit ==
    /\ holder = [i \in Items |-> Nobody]
    /\ deadline = [i \in Items |-> Never]
    /\ taken = [i \in Items |-> FALSE]
    /\ owner = [i \in Items |-> Nobody]
    /\ clock = 0

Grant(i, h) ==
    /\ ~taken[i]
    /\ holder[i] = Nobody \/ Overdue(i)
    /\ holder' = [holder EXCEPT ![i] = h]
    /\ \E at \in 0..clock : deadline' = [deadline EXCEPT ![i] = at + Term]
    /\ UNCHANGED <<taken, owner, clock>>

GiveBack(i) ==
    /\ ~taken[i]
    /\ holder' = [holder EXCEPT ![i] = Nobody]
    /\ deadline' = [deadline EXCEPT ![i] = Never]
    /\ UNCHANGED <<taken, owner, clock>>

Take(i) ==
    /\ ~taken[i] /\ holder[i] # Nobody
    /\ taken' = [taken EXCEPT ![i] = TRUE]
    /\ owner' = [owner EXCEPT ![i] = holder[i]]
    /\ deadline' = [deadline EXCEPT ![i] = Never]
    /\ UNCHANGED <<holder, clock>>

Advance ==
    /\ clock' = clock + 1
    /\ UNCHANGED <<holder, deadline, taken, owner>>

LeaseNext ==
    \/ Advance
    \/ \E i \in Items : GiveBack(i) \/ Take(i)
    \/ \E i \in Items, h \in Holders : Grant(i, h)

LeaseSpec == LeaseInit /\ [][LeaseNext]_leaseVars

\* An item that is held and not taken has a deadline, at most a term ahead, and no other
\* item has one: whoever holds it, it is free again once time has passed.
Dated ==
    \A i \in Items :
        /\ deadline[i] # Never <=> holder[i] # Nobody /\ ~taken[i]
        /\ deadline[i] # Never => deadline[i] <= clock + Term
=============================================================================
