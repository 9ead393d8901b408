----------------------------- MODULE DriverWallet -----------------------------
(***************************************************************************)
(* A driver's wallet: credited with the driver's share of each payment,    *)
(* lowered by refunds (payments.service.ts) and by payouts, raised by      *)
(* recoveries (admin-driver-payouts.service.ts) and by compensations       *)
(* (admin-support.service.ts).                                             *)
(*                                                                         *)
(* The share is what the platform's commission leaves of the fare, and the *)
(* commission depends on the day it is computed: Orbi takes less in the    *)
(* first days of a driver.                                                 *)
(* A database transaction is one step, at its last write; what a handler   *)
(* read or computed before it is in its record of calls.  Payments has the *)
(* details of how a payment succeeds and is refunded.                      *)
(***************************************************************************)
EXTENDS FiniteSets, Integers

CONSTANTS Rides,        \* payments of trips of this driver
          Payouts,      \* ids of payouts
          Recoveries,   \* idempotency keys of recovery adjustments
          Tickets,      \* support tickets of rider cancellations
          Amount,       \* the fare of a ride, the amount asked for by a recovery
                        \* or granted by a ticket
          MaxCalls      \* bound on handlers in flight

ASSUME WalletAssumption ==
    /\ Amount \in [Rides \cup Recoveries \cup Tickets -> Nat \ {0}]
    /\ MaxCalls \in Nat

VARIABLES
    rate,       \* the commission today, in percent of the fare
    payment,    \* of each ride: "NONE", "SUCCEEDED" or "REFUNDED"
    payout,     \* driver_payouts: [status, amount]
    balance,    \* wallets.balance
    entry,      \* wallet_transactions: signed amount by reference, 0 if none
    calls,      \* handlers in flight
    takenBack   \* history: the total of the refunds' reversals

vars == <<rate, payment, payout, balance, entry, calls, takenBack>>

PaymentStatus == {"NONE", "SUCCEEDED", "REFUNDED"}
PayoutStatus == {"NONE", "PREPARED", "PAID"}

Reference == {"credit", "reversal"} \X Rides \cup {"payout"} \X Payouts
                 \cup {"recovery"} \X Recoveries \cup {"compensation"} \X Tickets

CreditCall == [op : {"credit"}, of : Rides, amount : Int]
RefundCall == [op : {"refund"}, of : Rides, amount : Int]
PrepareCall == [op : {"prepare"}, amount : Int]
PayCall == [op : {"pay"}, of : Payouts]
RecoverCall == [op : {"recover"}, of : Recoveries, amount : Int]
Call == CreditCall \cup RefundCall \cup PrepareCall \cup PayCall \cup RecoverCall

Begin(c) == Cardinality(calls) < MaxCalls /\ calls' = calls \cup {c}

\* Any handler may have a twin that holds the same, left where it was.
Finish(c) == calls' \in {calls \ {c}, calls}

\* The handler goes on as d.
GoesOn(c, d) == \E others \in {calls \ {c}, calls} : calls' = others \cup {d}

Post(ref, amount) ==
    /\ entry' = [entry EXCEPT ![ref] = amount]
    /\ balance' = balance + amount

\* Percent of the fare, for a driver of at most 30 days and after.
OnboardingRate == 10
StandardRate == 12

\* Rounded down to francs, then to a multiple of 10.
Commission(fare, percent) == (((fare * percent) \div 100) \div 10) * 10

Share(fare, percent) == fare - Commission(fare, percent)

Init ==
    /\ rate \in {OnboardingRate, StandardRate}
    /\ payment = [r \in Rides |-> "NONE"]
    /\ payout = [p \in Payouts |-> [status |-> "NONE", amount |-> 0]]
    /\ balance = 0
    /\ entry = [r \in Reference |-> 0]
    /\ calls = {}
    /\ takenBack = 0

-----------------------------------------------------------------------------
(* Time and payments.                                                      *)

FirstDaysEnd ==
    /\ rate = OnboardingRate /\ rate' = StandardRate
    /\ UNCHANGED <<payment, payout, balance, entry, calls, takenBack>>

PaymentSucceeds(r) ==
    /\ payment[r] = "NONE"
    /\ payment' = [payment EXCEPT ![r] = "SUCCEEDED"]
    /\ UNCHANGED <<rate, payout, balance, entry, calls, takenBack>>

\* The share is computed from the attempt, before the transaction; the payment may have
\* been refunded since it succeeded.
CreditRead(r) ==
    /\ payment[r] # "NONE"
    /\ Begin([op |-> "credit", of |-> r, amount |-> Share(Amount[r], rate)])
    /\ UNCHANGED <<rate, payment, payout, balance, entry, takenBack>>

\* (mutant) a replayed event credits again
NeverCredited(r) == FALSE

Credited(r) == entry[<<"credit", r>>] # 0

CreditCommit(c) ==
    /\ c.op = "credit"
    /\ IF Credited(c.of)
       THEN UNCHANGED <<balance, entry>>
       ELSE Post(<<"credit", c.of>>, c.amount)
    /\ Finish(c)
    /\ UNCHANGED <<rate, payment, payout, takenBack>>

\* No amount yet.
RefundRead(r) ==
    /\ payment[r] = "SUCCEEDED"
    /\ Begin([op |-> "refund", of |-> r, amount |-> 0])
    /\ UNCHANGED <<rate, payment, payout, balance, entry, takenBack>>

\* What a refund takes back is computed again, on the day of the refund, before the
\* transaction reads whether there is a credit.
WithShare(c) == [c EXCEPT !.amount = Share(Amount[c.of], rate)]

RefundShares(c) ==
    /\ c.op = "refund" /\ c.amount = 0
    /\ GoesOn(c, WithShare(c))
    /\ UNCHANGED <<rate, payment, payout, balance, entry, takenBack>>

Reverses(r) == Credited(r) /\ entry[<<"reversal", r>>] = 0

RefundCommit(c) ==
    /\ c.op = "refund" /\ c.amount > 0
    /\ payment' = [payment EXCEPT ![c.of] = "REFUNDED"]
    /\ IF Reverses(c.of)
       THEN /\ Post(<<"reversal", c.of>>, -c.amount)
            /\ takenBack' = takenBack + c.amount
       ELSE UNCHANGED <<balance, entry, takenBack>>
    /\ Finish(c)
    /\ UNCHANGED <<rate, payout>>

-----------------------------------------------------------------------------
(* Payouts.                                                                *)

Prepared == {p \in Payouts : payout[p].status = "PREPARED"}

PrepareRead ==
    /\ balance > 0 /\ Prepared = {}
    /\ Begin([op |-> "prepare", amount |-> balance])
    /\ UNCHANGED <<rate, payment, payout, balance, entry, takenBack>>

\* (mutant) preparedLockKey is not unique
NoLock == TRUE

\* preparedLockKey is unique while a payout is prepared.
LockFree == Prepared = {}

PrepareCommit(c) ==
    /\ c.op = "prepare"
    /\ IF LockFree
       THEN \E p \in Payouts :
               /\ payout[p].status = "NONE"
               /\ payout' = [payout EXCEPT ![p] = [status |-> "PREPARED", amount |-> c.amount]]
       ELSE UNCHANGED payout
    /\ Finish(c)
    /\ UNCHANGED <<rate, payment, balance, entry, takenBack>>

\* (mutant) the balance is not compared with the amount of the payout
AnyBalance(p) == TRUE

Covered(p) == balance >= payout[p].amount

PayRead(p) ==
    /\ payout[p].status = "PREPARED" /\ Covered(p)
    /\ Begin([op |-> "pay", of |-> p])
    /\ UNCHANGED <<rate, payment, payout, balance, entry, takenBack>>

\* The unique reference of the entry aborts a second payment of the payout.
PayCommit(c) ==
    /\ c.op = "pay"
    /\ IF entry[<<"payout", c.of>>] # 0
       THEN UNCHANGED <<payout, balance, entry>>
       ELSE /\ payout' = [payout EXCEPT ![c.of].status = "PAID"]
            /\ Post(<<"payout", c.of>>, -payout[c.of].amount)
    /\ Finish(c)
    /\ UNCHANGED <<rate, payment, takenBack>>

-----------------------------------------------------------------------------
(* Recoveries and compensations.                                           *)

\* (mutant) all that was asked is recorded
AllAsked(k) == Amount[k]

\* At most what the wallet owes is recorded, as the balance was when read.
Recovered(k) == IF Amount[k] < -balance THEN Amount[k] ELSE -balance

RecoverRead(k) ==
    /\ balance < 0 /\ entry[<<"recovery", k>>] = 0
    /\ Begin([op |-> "recover", of |-> k, amount |-> Recovered(k)])
    /\ UNCHANGED <<rate, payment, payout, balance, entry, takenBack>>

RecoverCommit(c) ==
    /\ c.op = "recover"
    /\ IF entry[<<"recovery", c.of>>] # 0
       THEN UNCHANGED <<balance, entry>>
       ELSE Post(<<"recovery", c.of>>, c.amount)
    /\ Finish(c)
    /\ UNCHANGED <<rate, payment, payout, takenBack>>

Compensate(t) ==
    /\ entry[<<"compensation", t>>] = 0
    /\ Post(<<"compensation", t>>, Amount[t])
    /\ UNCHANGED <<rate, payment, payout, calls, takenBack>>

\* The process dies, or the database makes the handler throw.
CallLost(c) ==
    /\ Finish(c)
    /\ UNCHANGED <<rate, payment, payout, balance, entry, takenBack>>

-----------------------------------------------------------------------------
RideStep(r) == PaymentSucceeds(r) \/ CreditRead(r) \/ RefundRead(r)

CallStep(c) ==
    \/ CreditCommit(c)
    \/ RefundShares(c)
    \/ RefundCommit(c)
    \/ PrepareCommit(c)
    \/ PayCommit(c)
    \/ RecoverCommit(c)
    \/ CallLost(c)

Next ==
    \/ FirstDaysEnd
    \/ \E r \in Rides : RideStep(r)
    \/ PrepareRead
    \/ \E p \in Payouts : PayRead(p)
    \/ \E k \in Recoveries : RecoverRead(k)
    \/ \E t \in Tickets : Compensate(t)
    \/ \E c \in calls : CallStep(c)

Spec == Init /\ [][Next]_vars

-----------------------------------------------------------------------------
(* Properties.                                                             *)

\* Types of the rows and the handlers.
TypeOK ==
    /\ rate \in {OnboardingRate, StandardRate}
    /\ payment \in [Rides -> PaymentStatus]
    /\ payout \in [Payouts -> [status : PayoutStatus, amount : Int]]
    /\ balance \in Int /\ takenBack \in Int
    /\ entry \in [Reference -> Int]
    /\ calls \subseteq Call

Account == INSTANCE LedgerAccount

\* However credits, refunds, payouts and recoveries interleave, the balance moves only
\* with a new entry and by its amount: nothing is credited, paid or recovered twice.
ImplementsLedgerAccount == Account!Spec

\* payment-strategy.md: "A prepared payout locks that wallet against duplicate
\* preparations".  A payout is PAID if and only if the wallet was debited for it.
PayoutsMatch ==
    /\ \A p, q \in Prepared : p = q
    /\ \A p \in Payouts :
          /\ payout[p].status # "NONE" => payout[p].amount > 0
          /\ entry[<<"payout", p>>] =
                IF payout[p].status = "PAID" THEN -payout[p].amount ELSE 0

\* payment-strategy.md: a wallet becomes negative when a payout was paid before a
\* refund.  Nothing else makes it owe: no interleaving of payouts pays out more than
\* was earned, and what the driver owes is at most what refunds took back.
OwesOnlyRefunds == balance + takenBack >= 0

\* Two recoveries may be computed from one balance and correct the wallet by more than it
\* owed.  However they interleave with refunds and payouts, each is at most what was
\* asked, and at most what refunds had taken back by then.
RecoveryBounded ==
    \A k \in Recoveries :
        entry[<<"recovery", k>>] <= Amount[k] /\ entry[<<"recovery", k>>] <= takenBack

\* payment-strategy.md: a refund decrements "the wallet by the original driver payout
\* amount".  The code computes the share again on the day of the refund, so the reversal
\* of a credit of the first days leaves a part of it.
ReversalIsOriginal ==
    \A r \in Rides :
        entry[<<"reversal", r>>] # 0 => entry[<<"reversal", r>>] = -entry[<<"credit", r>>]
=============================================================================
