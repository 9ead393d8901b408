----------------------------- MODULE RiderWallet -----------------------------
(***************************************************************************)
(* A rider's wallet: filled by deposits at the mobile money provider       *)
(* (wallet-topup.service.ts and the provider's webhook in                  *)
(* payments.service.ts), emptied by wallet payments, filled again by their *)
(* refunds.                                                                *)
(*                                                                         *)
(* A top-up is named by its deposit id, which the code derives from the    *)
(* rider and the idempotency key: two requests with one key are the same   *)
(* member of TopUps.  A database transaction is one step, at its last      *)
(* write; what a handler read before it is in its record of calls.         *)
(* The provider settles each deposit once, and repeats its webhook until   *)
(* one is answered; about some it also sends one before.  The wallet's row *)
(* exists.                                                                 *)
(***************************************************************************)
EXTENDS FiniteSets, Integers

CONSTANTS TopUps,
          Payments,     \* wallet checkouts, each with its attempt
          Amount,       \* of each top-up and each payment
          Sandbox,      \* top-ups asked for while no provider token is configured
          Early,        \* top-ups of which a webhook also tells before they are settled
          Crashes,      \* TRUE if a handler may die between two steps
          MaxCalls      \* bound on handlers in flight

ASSUME WalletAssumption ==
    /\ TopUps \cap Payments = {}
    /\ Amount \in [TopUps \cup Payments -> Nat \ {0}]
    /\ Sandbox \subseteq TopUps /\ Early \subseteq TopUps
    /\ Crashes \in BOOLEAN /\ MaxCalls \in Nat

VARIABLES
    topUp,      \* status of each top-up, "NONE" before its row exists
    deposit,    \* the deposit at the provider
    attempt,    \* status of each wallet payment
    balance,    \* wallets.balance
    entry,      \* wallet_transactions: signed amount by reference, 0 if none
    calls       \* handlers in flight

vars == <<topUp, deposit, attempt, balance, entry, calls>>

TopUpStatus == {"NONE", "INITIATED", "PENDING", "COMPLETED", "FAILED"}
DepositStatus == {"NONE", "OPEN", "REJECTED", "PAID", "UNPAID"}
AttemptStatus == {"NONE", "SUCCEEDED", "REFUNDED"}
Answer == {"PENDING", "FAILED"}

\* A top-up is credited under its deposit id, a payment debited under its
\* transaction reference and refunded under that of its attempt.
Reference == {"credit"} \X TopUps \cup {"debit", "refund"} \X Payments

TopUpCall == [op : {"create", "deposit"}, of : TopUps]
WebhookCall == [op : {"reconcile"}, of : TopUps, completed : BOOLEAN]
AnswerCall == [op : {"answer"}, of : TopUps, status : Answer]
RefundCall == [op : {"refund"}, of : Payments]
Call == TopUpCall \cup WebhookCall \cup AnswerCall \cup RefundCall

Begin(c) == Cardinality(calls) < MaxCalls /\ calls' = calls \cup {c}

\* When a handler goes on, another that holds the same may be left where it was.
Repeatable(c) == c.op \in {"create", "reconcile", "refund"}
Rest(c) == {calls \ {c}} \cup (IF Repeatable(c) THEN {calls} ELSE {})

Finish(c) == calls' \in Rest(c)
Continue(c, d) == \E rest \in Rest(c) : calls' = rest \cup {d}

Post(ref, amount) ==
    /\ entry' = [entry EXCEPT ![ref] = amount]
    /\ balance' = balance + amount

Init ==
    /\ topUp = [t \in TopUps |-> "NONE"]
    /\ deposit = [t \in TopUps |-> "NONE"]
    /\ attempt = [p \in Payments |-> "NONE"]
    /\ balance = 0
    /\ entry = [r \in Reference |-> 0]
    /\ calls = {}

-----------------------------------------------------------------------------
(* The rider asks for a top-up.                                            *)

\* A request that finds the row of its key returns it and does nothing.
TopUpRead(t) ==
    /\ topUp[t] = "NONE"
    /\ Begin([op |-> "create", of |-> t])
    /\ UNCHANGED <<topUp, deposit, attempt, balance, entry>>

\* (mutant) the insert replaces the row of a concurrent request
UpsertKey(t) == TRUE

\* The unique deposit id lets one of several requests insert the row.
KeyIsFree(t) == topUp[t] = "NONE"

\* The request that inserted the row goes on to the provider, if there is one.
AskProvider(t) ==
    IF t \in Sandbox THEN [op |-> "answer", of |-> t, status |-> "PENDING"]
                     ELSE [op |-> "deposit", of |-> t]

TopUpCreate(c) ==
    /\ c.op = "create"
    /\ IF KeyIsFree(c.of)
       THEN /\ topUp' = [topUp EXCEPT ![c.of] = "INITIATED"]
            /\ Continue(c, AskProvider(c.of))
       ELSE Finish(c) /\ UNCHANGED topUp
    /\ UNCHANGED <<deposit, attempt, balance, entry>>

\* (mutant) an answer that is not final counts as a failure
AnswerNotFinal(t, taken) == [op |-> "answer", of |-> t, status |-> "FAILED"]

\* The provider's answer, as the row will show it.
AnswerTo(t, taken) ==
    [op |-> "answer", of |-> t, status |-> IF taken THEN "PENDING" ELSE "FAILED"]

\* The provider takes the deposit or rejects it.  The call may still fail: then the
\* handler ends and the row stays INITIATED.
CallProvider(c, taken) ==
    /\ c.op = "deposit"
    /\ deposit' = [deposit EXCEPT ![c.of] = IF taken THEN "OPEN" ELSE "REJECTED"]
    /\ Continue(c, AnswerTo(c.of, taken)) \/ Finish(c)
    /\ UNCHANGED <<topUp, attempt, balance, entry>>

ProviderUnreachable(c) ==
    /\ c.op = "deposit"
    /\ Finish(c)
    /\ UNCHANGED <<topUp, deposit, attempt, balance, entry>>

\* The answer is written by id, whatever the status has become.
WriteAnswer(c) ==
    /\ c.op = "answer"
    /\ topUp' = [topUp EXCEPT ![c.of] = c.status]
    /\ Finish(c)
    /\ UNCHANGED <<deposit, attempt, balance, entry>>

-----------------------------------------------------------------------------
(* The provider settles the deposit and sends its webhook.                 *)

ProviderSettles(t, paid) ==
    /\ deposit[t] = "OPEN"
    /\ deposit' = [deposit EXCEPT ![t] = IF paid THEN "PAID" ELSE "UNPAID"]
    /\ UNCHANGED <<topUp, attempt, balance, entry, calls>>

\* (mutant) a webhook that comes before the row is PENDING is taken for a replay
OpenOnceAnswered == {"PENDING"}

OpenStatus == {"INITIATED", "PENDING"}

\* What webhooks say of a deposit: that it is completed, or anything else.  One that
\* was sent before the provider settled may be late, or replayed by an operator.
Told(t, completed) ==
    IF completed THEN deposit[t] = "PAID"
    ELSE deposit[t] = "UNPAID" \/ (t \in Early /\ deposit[t] \in {"OPEN", "PAID"})

ReconcileRead(t, completed) ==
    /\ Told(t, completed) /\ topUp[t] \in OpenStatus
    /\ Begin([op |-> "reconcile", of |-> t, completed |-> completed])
    /\ UNCHANGED <<topUp, deposit, attempt, balance, entry>>

\* (mutant) only a status of COMPLETED tells that the top-up was credited
NeverPosted(t) == FALSE

\* The entry's reference is unique in the wallet: a second one aborts the transaction.
AlreadyPosted(t) == entry[<<"credit", t>>] # 0

\* Whatever does not say that the deposit is completed makes the top-up FAILED.
ReconcileWrite(c) ==
    /\ c.op = "reconcile"
    /\ IF topUp[c.of] \notin OpenStatus
       THEN UNCHANGED <<topUp, balance, entry>>
       ELSE IF ~c.completed
       THEN topUp' = [topUp EXCEPT ![c.of] = "FAILED"] /\ UNCHANGED <<balance, entry>>
       ELSE IF AlreadyPosted(c.of)
       THEN UNCHANGED <<topUp, balance, entry>>
       ELSE /\ topUp' = [topUp EXCEPT ![c.of] = "COMPLETED"]
            /\ Post(<<"credit", c.of>>, Amount[c.of])
    /\ Finish(c)
    /\ UNCHANGED <<deposit, attempt>>

-----------------------------------------------------------------------------
(* The rider pays with the wallet and is refunded.                         *)

\* (mutant) the debit is not conditional on the balance
AnyBalance(p) == TRUE

Covered(p) == balance >= Amount[p]

\* One transaction debits, writes the entry and inserts the attempt; the attempt's
\* unique idempotency key aborts it for a checkout that was already made.
Pay(p) ==
    /\ attempt[p] = "NONE" /\ Covered(p)
    /\ attempt' = [attempt EXCEPT ![p] = "SUCCEEDED"]
    /\ Post(<<"debit", p>>, -Amount[p])
    /\ UNCHANGED <<topUp, deposit, calls>>

RefundRead(p) ==
    /\ attempt[p] = "SUCCEEDED"
    /\ Begin([op |-> "refund", of |-> p])
    /\ UNCHANGED <<topUp, deposit, attempt, balance, entry>>

\* The unique reference aborts a second refund that read the attempt before the first.
AlreadyRefunded(p) == entry[<<"refund", p>>] # 0

RefundCommit(c) ==
    /\ c.op = "refund"
    /\ IF AlreadyRefunded(c.of)
       THEN UNCHANGED <<attempt, balance, entry>>
       ELSE /\ attempt' = [attempt EXCEPT ![c.of] = "REFUNDED"]
            /\ Post(<<"refund", c.of>>, Amount[c.of])
    /\ Finish(c)
    /\ UNCHANGED <<topUp, deposit>>

\* The process dies, or the database makes the handler throw.
CallLost(c) ==
    /\ Crashes
    /\ Finish(c)
    /\ UNCHANGED <<topUp, deposit, attempt, balance, entry>>

-----------------------------------------------------------------------------
TopUpStep(t) ==
    \/ TopUpRead(t)
    \/ \E completed \in BOOLEAN : ReconcileRead(t, completed)
    \/ \E paid \in BOOLEAN : ProviderSettles(t, paid)

PaymentStep(p) == Pay(p) \/ RefundRead(p)

CallStep(c) ==
    \/ TopUpCreate(c)
    \/ \E taken \in BOOLEAN : CallProvider(c, taken)
    \/ ProviderUnreachable(c)
    \/ WriteAnswer(c)
    \/ ReconcileWrite(c)
    \/ RefundCommit(c)

Next ==
    \/ \E t \in TopUps : TopUpStep(t)
    \/ \E p \in Payments : PaymentStep(p)
    \/ \E c \in calls : CallStep(c)
    \/ \E c \in calls : CallLost(c)

Spec == Init /\ [][Next]_vars

\* A handler that does not die goes on.  The provider repeats the webhook of a settled
\* deposit until it is answered, and not every delivery of it is lost.  Where an earlier
\* webhook may have made the top-up FAILED, the settling one may be answered in vain.
FairSpec ==
    /\ Spec
    /\ \A c \in Call : WF_vars(c \in calls /\ CallStep(c) /\ c \notin calls')
    /\ \A t \in TopUps \ Early :
          LET c == [op |-> "reconcile", of |-> t, completed |-> TRUE] IN
          SF_vars(ReconcileRead(t, TRUE)) /\ SF_vars(c \in calls /\ ReconcileWrite(c))

-----------------------------------------------------------------------------
(* Properties.                                                             *)

\* Types of the rows and the handlers.
TypeOK ==
    /\ topUp \in [TopUps -> TopUpStatus]
    /\ deposit \in [TopUps -> DepositStatus]
    /\ attempt \in [Payments -> AttemptStatus]
    /\ balance \in Int
    /\ entry \in [Reference -> Int]
    /\ calls \subseteq Call

Account == INSTANCE LedgerAccount

\* However webhooks, retries, payments and refunds interleave, the balance moves only
\* with a new entry and by its amount: nothing is credited or refunded twice.
ImplementsLedgerAccount == Account!Spec

\* The rider's money: the wallet never goes below zero, and it holds no franc that
\* was not paid at the provider.
CreditIsPaid ==
    /\ balance >= 0
    /\ \A t \in TopUps :
          entry[<<"credit", t>>] # 0 =>
              deposit[t] = "PAID" /\ entry[<<"credit", t>>] = Amount[t]

\* COMPLETED means credited, also when the answer of the provider's call is written
\* after its webhook; FAILED means that the provider keeps no money, unless a webhook
\* told of the deposit before it was settled (payments.service.ts:2585 makes the top-up
\* FAILED for it).  The converse does not hold: the answer makes a COMPLETED row PENDING.
StatusIsTrue ==
    \A t \in TopUps :
        /\ topUp[t] = "COMPLETED" => entry[<<"credit", t>>] # 0
        /\ topUp[t] = "FAILED" => deposit[t] \in {"REJECTED", "UNPAID"} \/ t \in Early

\* A retry of the rider's request never asks the provider for a second deposit.
OneDeposit ==
    \A c \in calls : c.op = "deposit" => deposit[c.of] = "NONE"

\* A payment has one debit, and a refund if and only if its attempt is REFUNDED.
PaymentEntriesMatch ==
    \A p \in Payments :
        /\ entry[<<"debit", p>>] = IF attempt[p] = "NONE" THEN 0 ELSE -Amount[p]
        /\ entry[<<"refund", p>>] = IF attempt[p] = "REFUNDED" THEN Amount[p] ELSE 0

\* Money the provider took is credited in the end, though calls time out, handlers
\* die and webhooks come before the answer they are about.  It is not where a webhook
\* told of the deposit before it was settled: the top-up it made FAILED is never
\* credited, since the webhook of the payment is then taken for a replay
\* (payments.service.ts:2481).
PaidIsCredited ==
    \A t \in TopUps \ Early : deposit[t] = "PAID" ~> entry[<<"credit", t>>] # 0
=============================================================================
