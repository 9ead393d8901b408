------------------------------ MODULE Payments ------------------------------
(***************************************************************************)
(* Payment attempts: payments.service.ts with its callers, the webhook     *)
(* endpoint, the reconciliation sweep, the refund verification job and the *)
(* operators' endpoints.                                                   *)
(*                                                                         *)
(* An attempt is one row of payment_attempts.  A handler in flight is a    *)
(* record of calls that holds what it read; handlers that hold the same,   *)
(* such as those of an event delivered twice, are one record.  A database  *)
(* transaction is one step, at its last write; where it reads earlier than *)
(* it writes, the read is a step before.                                   *)
(* Providers may send any event any number of times, in any order and      *)
(* late, but never declare a payment failed once they took the money.      *)
(* Amounts, currencies, signatures and references are left out: a webhook  *)
(* with a wrong one is recorded and changes nothing else.                  *)
(***************************************************************************)
EXTENDS FiniteSets, Naturals

CONSTANTS Requests,
          Attempts,         \* (user, idempotency key) pairs
          RequestOf,        \* the ride request each attempt pays
          WalletAttempts,   \* attempts of channel WALLET
          ProviderRefunds,  \* PAYMENTS_REFUND_MODE = provider
          EventsOf,         \* the events a provider may send about each attempt
          BatchSize,        \* attempts one run of the sweep takes
          Crashes,          \* TRUE if a handler may die between two steps
          MaxCalls          \* bound on handlers in flight

Event == {"PENDING", "SUCCEEDED", "FAILED", "CANCELLED"}

ASSUME AttemptsAssumption ==
    /\ RequestOf \in [Attempts -> Requests] /\ WalletAttempts \subseteq Attempts
    /\ ProviderRefunds \in BOOLEAN /\ Crashes \in BOOLEAN
    /\ EventsOf \in [Attempts -> SUBSET Event]
    /\ MaxCalls \in Nat /\ BatchSize \in Nat

VARIABLES
    status,     \* of each attempt, "NONE" before its row exists
    older,      \* of each attempt, those created before it that a provider settles
    ledger,     \* wallet_transactions: the entries of each attempt
    ride,       \* the request and its trip, as far as payments look at them
    sent,       \* the events the provider sent about each attempt
    calls       \* handlers in flight

vars == <<status, older, ledger, ride, sent, calls>>

AttemptStatus == {"NONE", "INITIATED", "PENDING", "SUCCEEDED", "FAILED", "CANCELLED",
                  "REFUND_PENDING", "REFUNDED"}
Refunding == {"REFUND_PENDING", "REFUNDED"}
RideStatus == {"REQUESTED", "CANCELLED", "TRIP", "TRIP_CANCELLED", "COMPLETED"}
Entry == {"debit", "credit", "reversal", "refund"}

AttemptCall == [op : {"checkout", "dispatch", "credit"}, att : Attempts]
ReconcileCall == [op : {"reconcile"}, att : Attempts, event : Event]
RefundCall == [op : {"refund", "finalize"}, att : Attempts, trip : BOOLEAN]
Call == AttemptCall \cup ReconcileCall \cup RefundCall

HasTrip(a) == ride[RequestOf[a]] \in {"TRIP", "TRIP_CANCELLED", "COMPLETED"}
Payable(a) == ride[RequestOf[a]] \in {"REQUESTED", "COMPLETED"}

OutOfOrder(current, next) ==
    \/ current = "SUCCEEDED" /\ next # "SUCCEEDED"
    \/ current \in {"FAILED", "CANCELLED"} /\ next = "PENDING"
    \/ current \in Refunding

Begin(c) == Cardinality(calls) < MaxCalls /\ calls' = calls \cup {c}

\* When a handler goes on, another that holds the same may be left where it was.
Repeatable(c) == c.op \in {"checkout", "reconcile", "refund", "finalize"}
Rest(c) == {calls \ {c}} \cup (IF Repeatable(c) THEN {calls} ELSE {})

Finish(c) == calls' \in Rest(c)
Continue(c, d) == \E rest \in Rest(c) : calls' = rest \cup {d}

Init ==
    /\ status = [a \in Attempts |-> "NONE"]
    /\ older = [a \in Attempts |-> {}]
    /\ ledger = [a \in Attempts |-> {}]
    /\ ride = [r \in Requests |-> "REQUESTED"]
    /\ sent = [a \in Attempts |-> {}]
    /\ calls = {}

\* The ride goes on beside its payments (RideLifecycle has the details).
RideMoves(r) ==
    /\ \E to \in RideStatus :
          /\ \/ ride[r] = "REQUESTED" /\ to \in {"CANCELLED", "TRIP"}
             \/ ride[r] = "TRIP" /\ to \in {"TRIP_CANCELLED", "COMPLETED"}
          /\ ride' = [ride EXCEPT ![r] = to]
    /\ UNCHANGED <<status, older, ledger, sent, calls>>

-----------------------------------------------------------------------------
(* Checkout.                                                               *)

CheckoutRead(a) ==
    /\ status[a] = "NONE" /\ Payable(a)
    /\ Begin([op |-> "checkout", att |-> a])
    /\ UNCHANGED <<status, older, ledger, ride, sent>>

\* The unique idempotency key lets one of several checkouts insert the row.
CheckoutCreate(c) ==
    /\ c.op = "checkout"
    /\ IF status[c.att] # "NONE"
       THEN Finish(c) /\ UNCHANGED <<status, older, ledger>>
       ELSE IF c.att \in WalletAttempts
       THEN /\ status' = [status EXCEPT ![c.att] = "SUCCEEDED"]
            /\ ledger' = [ledger EXCEPT ![c.att] = @ \cup {"debit"}]
            /\ Continue(c, [op |-> "credit", att |-> c.att])
            /\ UNCHANGED older
       ELSE /\ status' = [status EXCEPT ![c.att] = "INITIATED"]
            /\ older' = [older EXCEPT ![c.att] =
                            {a \in Attempts \ WalletAttempts : status[a] # "NONE"}]
            /\ Continue(c, [op |-> "dispatch", att |-> c.att])
            /\ UNCHANGED ledger
    /\ UNCHANGED <<ride, sent>>

\* A provider Orbi calls itself leaves the attempt PENDING, whether the call is
\* accepted or not; a provider the rider is redirected to leaves it as it is.
Dispatch(c) ==
    /\ c.op = "dispatch"
    /\ \/ UNCHANGED status
       \/ status[c.att] = "INITIATED" /\ status' = [status EXCEPT ![c.att] = "PENDING"]
    /\ Finish(c)
    /\ UNCHANGED <<older, ledger, ride, sent>>

-----------------------------------------------------------------------------
(* Reconciliation of the provider's events, received, polled or replayed.  *)

ProviderSends(a, e) ==
    /\ a \notin WalletAttempts /\ status[a] # "NONE" /\ e \in EventsOf[a]
    /\ "SUCCEEDED" \in sent[a] => e = "PENDING"
    /\ sent' = [sent EXCEPT ![a] = @ \cup {e}]
    /\ UNCHANGED <<status, older, ledger, ride, calls>>

ReconcileRead(a, e) ==
    /\ e \in sent[a]
    /\ ~OutOfOrder(status[a], e)
    /\ Begin([op |-> "reconcile", att |-> a, event |-> e])
    /\ UNCHANGED <<status, older, ledger, ride, sent>>

\* (mutant) the update is not restricted to attempts that are not being refunded
AlwaysOpen(a) == TRUE

OpenToEvents(a) == status[a] \notin Refunding

\* (mutant) the ledger is written for every event
AnyEvent(e) == TRUE

CreditsDriver(e) == e = "SUCCEEDED"

ReconcileWrite(c) ==
    /\ c.op = "reconcile"
    /\ IF OpenToEvents(c.att)
       THEN /\ status' = [status EXCEPT ![c.att] = c.event]
            /\ IF CreditsDriver(c.event)
               THEN Continue(c, [op |-> "credit", att |-> c.att])
               ELSE Finish(c)
       ELSE Finish(c) /\ UNCHANGED status
    /\ UNCHANGED <<older, ledger, ride, sent>>

\* recordSuccessfulPaymentLedgerIfNeeded: once per attempt, if there is a driver.
\* It does not look at the status again.
CreditDriver(c) ==
    /\ c.op = "credit"
    /\ IF HasTrip(c.att)
       THEN ledger' = [ledger EXCEPT ![c.att] = @ \cup {"credit"}]
       ELSE UNCHANGED ledger
    /\ Finish(c)
    /\ UNCHANGED <<status, older, ride, sent>>

\* The provider, asked about an attempt, answers with what it sent, and with its last
\* word once it has been paid.
Poll(a) ==
    \E e \in sent[a] :
        /\ "SUCCEEDED" \in sent[a] => e = "SUCCEEDED"
        /\ ReconcileRead(a, e)

Open(a) == status[a] \in {"INITIATED", "PENDING"}

\* The sweep takes the oldest open attempts only.  An attempt must also have reached
\* an age; since that lets none pass an older one, it is left out.
InBatch(a) == Open(a) /\ Cardinality({b \in older[a] : Open(b)}) < BatchSize

\* (mutant) the sweep forgets the attempts a provider has acknowledged
SweepPollInitiated(a) == status[a] = "INITIATED" /\ InBatch(a) /\ Poll(a)

SweepPoll(a) == InBatch(a) /\ Poll(a)

-----------------------------------------------------------------------------
(* Refunds.                                                                *)

\* (mutant) an attempt need not be SUCCEEDED to be refunded
RefundReadOpen(a) ==
    /\ status[a] \in {"PENDING", "SUCCEEDED"}
    /\ Begin([op |-> "refund", att |-> a, trip |-> HasTrip(a)])
    /\ UNCHANGED <<status, older, ledger, ride, sent>>

RefundRead(a) ==
    /\ status[a] = "SUCCEEDED"
    /\ Begin([op |-> "refund", att |-> a, trip |-> HasTrip(a)])
    /\ UNCHANGED <<status, older, ledger, ride, sent>>

\* (mutant) a refund to the rider's wallet may wait for a provider
AnyRefundOutcome(a) == Refunding

RefundOutcome(a) ==
    IF ProviderRefunds /\ a \notin WalletAttempts THEN Refunding ELSE {"REFUNDED"}

Reversal(c) == IF c.trip /\ "credit" \in ledger[c.att] THEN {"reversal"} ELSE {}

RiderRefund(c) == IF c.att \in WalletAttempts THEN {"refund"} ELSE {}

\* The provider answered; the transaction commits.  A second refund entry of the
\* rider's wallet would break the unique reference, which aborts the transaction.
RefundCommit(c, to) ==
    /\ c.op = "refund" /\ to \in RefundOutcome(c.att)
    /\ IF "refund" \in ledger[c.att] /\ c.att \in WalletAttempts
       THEN UNCHANGED <<status, ledger>>
       ELSE /\ status' = [status EXCEPT ![c.att] = to]
            /\ IF to = "REFUNDED"
               THEN ledger' = [ledger EXCEPT ![c.att] = @ \cup Reversal(c) \cup RiderRefund(c)]
               ELSE UNCHANGED ledger
    /\ Finish(c)
    /\ UNCHANGED <<older, ride, sent>>

\* The provider's refund is processed: by webhook, or polled by the job.
FinalizeRead(a) ==
    /\ status[a] = "REFUND_PENDING"
    /\ Begin([op |-> "finalize", att |-> a, trip |-> HasTrip(a)])
    /\ UNCHANGED <<status, older, ledger, ride, sent>>

FinalizeCommit(c) ==
    /\ c.op = "finalize"
    /\ status' = [status EXCEPT ![c.att] = "REFUNDED"]
    /\ ledger' = [ledger EXCEPT ![c.att] = @ \cup Reversal(c)]
    /\ Finish(c)
    /\ UNCHANGED <<older, ride, sent>>

\* The process dies, or the database or the provider makes the handler throw.
CallLost(c) ==
    /\ Crashes
    /\ Finish(c)
    /\ UNCHANGED <<status, older, ledger, ride, sent>>

-----------------------------------------------------------------------------
AttemptStep(a) ==
    \/ CheckoutRead(a)
    \/ RefundRead(a)
    \/ FinalizeRead(a)

EventStep(a, e) == ProviderSends(a, e) \/ ReconcileRead(a, e)

CallStep(c) ==
    \/ CheckoutCreate(c)
    \/ Dispatch(c)
    \/ ReconcileWrite(c)
    \/ CreditDriver(c)
    \/ RefundCommit(c, "REFUNDED")
    \/ RefundCommit(c, "REFUND_PENDING")
    \/ FinalizeCommit(c)

Next ==
    \/ \E r \in Requests : RideMoves(r)
    \/ \E a \in Attempts : AttemptStep(a)
    \/ \E a \in Attempts, e \in Event : EventStep(a, e)
    \/ \E c \in calls : CallStep(c)
    \/ \E c \in calls : CallLost(c)

Spec == Init /\ [][Next]_vars

\* A handler that does not die goes on, to the last of those that hold the same.
\* The sweep is repeated: an attempt that is in its batch again and again is polled,
\* and not every answer that brings good news is lost.
FairSpec ==
    /\ Spec
    /\ \A c \in Call : WF_vars(c \in calls /\ CallStep(c) /\ c \notin calls')
    /\ \A a \in Attempts \ WalletAttempts :
          LET c == [op |-> "reconcile", att |-> a, event |-> "SUCCEEDED"] IN
          SF_vars(SweepPoll(a)) /\ SF_vars(c \in calls /\ ReconcileWrite(c))

-----------------------------------------------------------------------------
(* Properties.                                                             *)

\* Types of the rows and the handlers.
TypeOK ==
    /\ status \in [Attempts -> AttemptStatus]
    /\ older \in [Attempts -> SUBSET Attempts]
    /\ ledger \in [Attempts -> SUBSET Entry]
    /\ ride \in [Requests -> RideStatus]
    /\ sent \in [Attempts -> SUBSET Event]
    /\ calls \subseteq Call

Received(a) == "SUCCEEDED" \in sent[a] \/ "debit" \in ledger[a]

Abstract == INSTANCE PaymentLedger WITH
    received <- {a \in Attempts : Received(a)},
    hasDriver <- {a \in Attempts : HasTrip(a)}

\* However events, refunds and crashes interleave, the wallets see only what the
\* ledger promises: no credit without money and driver, no reversal without credit.
ImplementsLedger == Abstract!Spec

\* An attempt that counts as paid or refunded was paid.
PaidWasReceived ==
    \A a \in Attempts : status[a] \in {"SUCCEEDED"} \cup Refunding => Received(a)

\* A payment by wallet has one debit, and a refund entry if and only if it is
\* REFUNDED: concurrent refunds and retries of checkout do not part them.
WalletEntriesMatch ==
    \A a \in WalletAttempts :
        /\ status[a] # "NONE" <=> "debit" \in ledger[a]
        /\ status[a] = "REFUNDED" <=> "refund" \in ledger[a]

\* A late event never takes an attempt out of its refund.
RefundNotRevived ==
    [][\A a \in Attempts : status[a] \in Refunding => status'[a] \in Refunding]_vars

\* The sweep's comment: "sans ce sweep, une PaymentAttempt reste bloquee".  With it, an
\* attempt the provider was paid for does not stay in the batch, though no webhook
\* arrives and handlers die: it is settled, or an older one was set back to PENDING by
\* a late write.  An attempt outside the batch may wait for ever: nothing takes out of
\* it those the provider never decides.
OpenIsSettled ==
    \A a \in Attempts \ WalletAttempts : (InBatch(a) /\ Received(a)) ~> ~InBatch(a)

\* 15-payment-security-and-reconciliation.md: "Refund inverse le credit chauffeur".
\* Once no handler is at work on it, a refunded attempt has no credit left.
RefundReversesCredit ==
    \A a \in Attempts :
        (status[a] = "REFUNDED" /\ "credit" \in ledger[a] /\ \A c \in calls : c.att # a)
            => "reversal" \in ledger[a]
=============================================================================
