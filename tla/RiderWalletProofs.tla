-------------------------- MODULE RiderWalletProofs --------------------------
(***************************************************************************)
(* Theorems about RiderWallet, for every set of top-ups and payments, any  *)
(* amounts, with or without crashes and for any number of handlers.        *)
(*                                                                         *)
(* A handler acts on what it read, so the invariant says what is still     *)
(* true when it writes (CallsJustified): above all that a deposit call in  *)
(* flight is the only one its key will ever make, that an answer of FAILED *)
(* is about a deposit the provider rejected, and that a webhook which does *)
(* not say completed is of an unpaid deposit or one told of early.         *)
(***************************************************************************)
EXTENDS RiderWallet, FiniteSetTheorems, WellFoundedInduction, TLAPS

Justified(c) ==
    /\ c.op \in {"deposit", "answer"} => topUp[c.of] # "NONE"
    /\ c.op = "deposit" => deposit[c.of] = "NONE"
    /\ c.op = "answer" /\ c.status = "FAILED" => deposit[c.of] = "REJECTED"
    /\ c.op = "reconcile" =>
          IF c.completed THEN deposit[c.of] = "PAID"
          ELSE deposit[c.of] = "UNPAID" \/ c.of \in Early
    /\ c.op = "refund" => attempt[c.of] # "NONE"

CallsJustified == \A c \in calls : Justified(c)

\* The provider is asked for a deposit after its row exists.
RowBeforeDeposit == \A t \in TopUps : topUp[t] = "NONE" => deposit[t] = "NONE"

\* The inductive invariant.
IInv ==
    /\ TypeOK
    /\ CallsJustified
    /\ RowBeforeDeposit
    /\ CreditIsPaid
    /\ StatusIsTrue
    /\ PaymentEntriesMatch

\* The fields of a handler in flight.
LEMMA CallFields ==
    ASSUME NEW c \in Call
    PROVE  /\ c.op \in {"create", "deposit", "reconcile", "answer", "refund"}
           /\ c.op = "refund" <=> c.of \in Payments
           /\ c.op # "refund" <=> c.of \in TopUps
           /\ c.op = "answer" => c.status \in Answer
           /\ c.op = "reconcile" => c.completed \in BOOLEAN
  BY WalletAssumption DEF Call, TopUpCall, WebhookCall, AnswerCall, RefundCall

\* The handlers the actions start.
LEMMA CallsMade ==
    /\ \A t \in TopUps :
          /\ \A op \in {"create", "deposit"} : [op |-> op, of |-> t] \in Call
          /\ \A b \in BOOLEAN : [op |-> "reconcile", of |-> t, completed |-> b] \in Call
          /\ \A s \in Answer : [op |-> "answer", of |-> t, status |-> s] \in Call
    /\ \A p \in Payments : [op |-> "refund", of |-> p] \in Call
    /\ \A t \in TopUps : /\ AskProvider(t) \in Call
                         /\ \A taken \in BOOLEAN : AnswerTo(t, taken) \in Call
  BY DEF AskProvider, AnswerTo, Answer, Call, TopUpCall, WebhookCall, AnswerCall, RefundCall

\* A handler that ends leaves no new one, one that goes on its continuation only.
LEMMA CallsLeft ==
    ASSUME NEW c
    PROVE  /\ Finish(c) => calls' \subseteq calls
           /\ \A d : Continue(c, d) => calls' \subseteq calls \cup {d}
  BY DEF Finish, Continue, Rest

\* A handler that nobody repeats is gone once it went on.
LEMMA CallGone ==
    ASSUME NEW c, ~Repeatable(c)
    PROVE  /\ Finish(c) => c \notin calls'
           /\ \A d : d # c /\ Continue(c, d) => c \notin calls'
  BY DEF Finish, Continue, Rest

\* References of different kinds or rows differ.
LEMMA References ==
    /\ \A t \in TopUps : <<"credit", t>> \in Reference
    /\ \A p \in Payments : <<"debit", p>> \in Reference /\ <<"refund", p>> \in Reference
  BY DEF Reference

\* The initial states satisfy the invariant.
LEMMA InitInv == Init => IInv
<1> SUFFICES ASSUME Init PROVE IInv
  OBVIOUS
<1> USE WalletAssumption
<1>1. TypeOK
  BY DEF Init, TypeOK, TopUpStatus, DepositStatus, AttemptStatus
<1>2. CallsJustified /\ RowBeforeDeposit /\ StatusIsTrue
  BY DEF Init, CallsJustified, RowBeforeDeposit, StatusIsTrue
<1>3. CreditIsPaid /\ PaymentEntriesMatch
  BY References DEF Init, CreditIsPaid, PaymentEntriesMatch
<1> QED BY <1>1, <1>2, <1>3 DEF IInv

-----------------------------------------------------------------------------
(* Types.                                                                  *)

\* Every operation keeps the variables well-typed.
LEMMA StepType == ASSUME TypeOK, [Next]_vars PROVE TypeOK'
<1> USE WalletAssumption, References DEF TypeOK
<1>1. ASSUME NEW t \in TopUps,
             TopUpRead(t) \/ \E b \in BOOLEAN : ReconcileRead(t, b)
      PROVE  TypeOK'
  BY <1>1, CallsMade DEF TopUpRead, ReconcileRead, Begin
<1>2. ASSUME NEW t \in TopUps, NEW paid \in BOOLEAN, ProviderSettles(t, paid) PROVE TypeOK'
  BY <1>2 DEF ProviderSettles, DepositStatus
<1>3. ASSUME NEW p \in Payments, Pay(p) PROVE TypeOK'
  <2>1. balance' \in Int /\ -Amount[p] \in Int
    BY <1>3 DEF Pay, Post
  <2>2. entry' \in [Reference -> Int]
    BY <1>3, <2>1 DEF Pay, Post
  <2>3. attempt' \in [Payments -> AttemptStatus]
    BY <1>3 DEF Pay, AttemptStatus
  <2> QED BY <1>3, <2>1, <2>2, <2>3 DEF Pay
<1>4. ASSUME NEW p \in Payments, RefundRead(p) PROVE TypeOK'
  BY <1>4, CallsMade DEF RefundRead, Begin
<1>5. ASSUME NEW c \in calls, TopUpCreate(c) PROVE TypeOK'
  <2>1. c.of \in TopUps
    BY <1>5, CallFields DEF TopUpCreate
  <2>2. calls' \subseteq Call
    <3>1. AskProvider(c.of) \in Call
      BY <2>1, CallsMade
    <3>2. Finish(c) \/ Continue(c, AskProvider(c.of))
      BY <1>5 DEF TopUpCreate
    <3> QED BY <3>1, <3>2, CallsLeft
  <2> QED BY <1>5, <2>1, <2>2 DEF TopUpCreate, TopUpStatus
<1>6. ASSUME NEW c \in calls, NEW taken \in BOOLEAN, CallProvider(c, taken) PROVE TypeOK'
  <2>1. c.of \in TopUps
    BY <1>6, CallFields DEF CallProvider
  <2>2. calls' \subseteq Call
    <3>1. AnswerTo(c.of, taken) \in Call
      BY <2>1, CallsMade
    <3>2. Finish(c) \/ Continue(c, AnswerTo(c.of, taken))
      BY <1>6 DEF CallProvider
    <3> QED BY <3>1, <3>2, CallsLeft
  <2> QED BY <1>6, <2>1, <2>2 DEF CallProvider, DepositStatus
<1>7. ASSUME NEW c \in calls, ProviderUnreachable(c) \/ CallLost(c) PROVE TypeOK'
  BY <1>7, CallsLeft DEF ProviderUnreachable, CallLost
<1>8. ASSUME NEW c \in calls, WriteAnswer(c) PROVE TypeOK'
  BY <1>8, CallsLeft, CallFields DEF WriteAnswer, Answer, TopUpStatus
<1>9. ASSUME NEW c \in calls, ReconcileWrite(c) PROVE TypeOK'
  <2>1. c.of \in TopUps
    BY <1>9, CallFields DEF ReconcileWrite
  <2> QED BY <1>9, <2>1, CallsLeft DEF ReconcileWrite, Post, TopUpStatus
<1>10. ASSUME NEW c \in calls, RefundCommit(c) PROVE TypeOK'
  <2>1. c.of \in Payments
    BY <1>10, CallFields DEF RefundCommit
  <2> QED BY <1>10, <2>1, CallsLeft DEF RefundCommit, Post, AttemptStatus
<1>11. CASE UNCHANGED vars
  BY <1>11 DEF vars
<1> QED BY <1>1, <1>2, <1>3, <1>4, <1>5, <1>6, <1>7, <1>8, <1>9, <1>10, <1>11
    DEF Next, TopUpStep, PaymentStep, CallStep

\* Every reachable state is well-typed.
THEOREM TypeCorrect == Spec => []TypeOK
<1>1. Init => TypeOK
  BY InitInv DEF IInv
<1> QED BY <1>1, StepType, PTL DEF Spec

-----------------------------------------------------------------------------
(* The invariant.                                                          *)

\* What a step does to the rows; the handlers are left out.
RowsKept == UNCHANGED <<topUp, deposit, attempt, balance, entry>>
RowStep ==
    \/ RowsKept
    \/ \E t \in TopUps :
          \/ /\ topUp[t] = "NONE" /\ topUp' = [topUp EXCEPT ![t] = "INITIATED"]
             /\ UNCHANGED <<deposit, attempt, balance, entry>>
          \/ /\ deposit[t] = "NONE" /\ topUp[t] # "NONE"
             /\ \E s \in {"OPEN", "REJECTED"} : deposit' = [deposit EXCEPT ![t] = s]
             /\ UNCHANGED <<topUp, attempt, balance, entry>>
          \/ /\ deposit[t] = "OPEN"
             /\ \E s \in {"PAID", "UNPAID"} : deposit' = [deposit EXCEPT ![t] = s]
             /\ UNCHANGED <<topUp, attempt, balance, entry>>
          \/ /\ topUp[t] # "NONE"
             /\ \/ topUp' = [topUp EXCEPT ![t] = "PENDING"]
                \/ /\ topUp' = [topUp EXCEPT ![t] = "FAILED"]
                   /\ deposit[t] \in {"REJECTED", "UNPAID"} \/ t \in Early
             /\ UNCHANGED <<deposit, attempt, balance, entry>>
          \/ /\ topUp[t] # "NONE" /\ deposit[t] = "PAID" /\ entry[<<"credit", t>>] = 0
             /\ topUp' = [topUp EXCEPT ![t] = "COMPLETED"]
             /\ Post(<<"credit", t>>, Amount[t])
             /\ UNCHANGED <<deposit, attempt>>
    \/ \E p \in Payments :
          \/ Pay(p)
          \/ /\ attempt[p] = "SUCCEEDED" /\ attempt' = [attempt EXCEPT ![p] = "REFUNDED"]
             /\ entry[<<"refund", p>>] = 0 /\ Post(<<"refund", p>>, Amount[p])
             /\ UNCHANGED <<topUp, deposit>>

\* Every step is one of these.
LEMMA RowSteps == ASSUME IInv, [Next]_vars PROVE RowStep
<1> USE WalletAssumption DEF IInv, TypeOK
<1>1. ASSUME NEW c \in calls, TopUpCreate(c) PROVE RowStep
  <2>1. c.of \in TopUps
    BY <1>1, CallFields DEF TopUpCreate
  <2> QED BY <1>1, <2>1 DEF TopUpCreate, KeyIsFree, RowStep, RowsKept
<1>2. ASSUME NEW c \in calls, NEW taken \in BOOLEAN, CallProvider(c, taken) PROVE RowStep
  <2>1. c.of \in TopUps /\ deposit[c.of] = "NONE" /\ topUp[c.of] # "NONE"
    BY <1>2, CallFields DEF CallProvider, CallsJustified, Justified
  <2>2. \E s \in {"OPEN", "REJECTED"} : deposit' = [deposit EXCEPT ![c.of] = s]
    BY <1>2 DEF CallProvider
  <2>3. UNCHANGED <<topUp, attempt, balance, entry>>
    BY <1>2 DEF CallProvider
  <2> QED BY <2>1, <2>2, <2>3 DEF RowStep
<1>3. ASSUME NEW c \in calls, WriteAnswer(c) PROVE RowStep
  <2>1. /\ c.of \in TopUps /\ topUp[c.of] # "NONE"
        /\ c.status = "PENDING" \/ (c.status = "FAILED" /\ deposit[c.of] = "REJECTED")
    BY <1>3, CallFields DEF WriteAnswer, CallsJustified, Justified, Answer
  <2> QED BY <1>3, <2>1 DEF WriteAnswer, RowStep
<1>4. ASSUME NEW c \in calls, ReconcileWrite(c) PROVE RowStep
  <2>1. /\ c.of \in TopUps
        /\ IF c.completed THEN deposit[c.of] = "PAID"
           ELSE deposit[c.of] = "UNPAID" \/ c.of \in Early
    BY <1>4, CallFields DEF ReconcileWrite, CallsJustified, Justified
  <2>2. CASE topUp[c.of] \notin OpenStatus \/ (c.completed /\ AlreadyPosted(c.of))
    BY <1>4, <2>1, <2>2 DEF ReconcileWrite, RowStep, RowsKept
  <2>3. CASE topUp[c.of] \in OpenStatus /\ ~c.completed
    BY <1>4, <2>1, <2>3 DEF ReconcileWrite, RowStep, OpenStatus
  <2>4. CASE topUp[c.of] \in OpenStatus /\ c.completed /\ ~AlreadyPosted(c.of)
    <3>1. /\ topUp[c.of] # "NONE" /\ entry[<<"credit", c.of>>] = 0
          /\ topUp' = [topUp EXCEPT ![c.of] = "COMPLETED"]
          /\ Post(<<"credit", c.of>>, Amount[c.of])
          /\ UNCHANGED <<deposit, attempt>>
      BY <1>4, <2>4 DEF ReconcileWrite, OpenStatus, AlreadyPosted
    <3> QED BY <2>1, <2>4, <3>1 DEF RowStep
  <2> QED BY <2>1, <2>2, <2>3, <2>4
<1>5. ASSUME NEW c \in calls, RefundCommit(c) PROVE RowStep
  <2>1. c.of \in Payments /\ attempt[c.of] # "NONE"
    BY <1>5, CallFields DEF RefundCommit, CallsJustified, Justified
  <2>2. CASE AlreadyRefunded(c.of)
    BY <1>5, <2>2 DEF RefundCommit, RowStep, RowsKept
  <2>3. CASE ~AlreadyRefunded(c.of)
    <3>1. attempt[c.of] = "SUCCEEDED"
      BY <2>1, <2>3 DEF AlreadyRefunded, PaymentEntriesMatch, AttemptStatus
    <3> QED BY <1>5, <2>1, <2>3, <3>1 DEF RefundCommit, AlreadyRefunded, RowStep
  <2> QED BY <2>2, <2>3
<1>6. ASSUME NEW t \in TopUps, NEW paid \in BOOLEAN, ProviderSettles(t, paid) PROVE RowStep
  BY <1>6 DEF ProviderSettles, RowStep
<1>7. CASE \/ UNCHANGED vars
           \/ \E t \in TopUps : TopUpRead(t) \/ \E b \in BOOLEAN : ReconcileRead(t, b)
           \/ \E p \in Payments : RefundRead(p)
           \/ \E c \in calls : ProviderUnreachable(c) \/ CallLost(c)
  BY <1>7 DEF vars, TopUpRead, ReconcileRead, RefundRead, ProviderUnreachable, CallLost,
     RowStep, RowsKept
<1>8. CASE \E p \in Payments : Pay(p)
  BY <1>8 DEF RowStep
<1> QED BY <1>1, <1>2, <1>3, <1>4, <1>5, <1>6, <1>7, <1>8
    DEF Next, TopUpStep, PaymentStep, CallStep

\* The rows of the top-ups follow the provider.
LEMMA StepRows == ASSUME IInv, [Next]_vars PROVE RowBeforeDeposit' /\ StatusIsTrue'
<1> USE WalletAssumption, References DEF IInv, TypeOK, RowBeforeDeposit, StatusIsTrue
<1>1. RowStep
  BY RowSteps
<1>2. CASE RowsKept
  BY <1>2 DEF RowsKept
<1>3. ASSUME NEW t \in TopUps,
             \/ topUp[t] = "NONE" /\ topUp' = [topUp EXCEPT ![t] = "INITIATED"]
             \/ topUp[t] # "NONE" /\ topUp' = [topUp EXCEPT ![t] = "PENDING"]
             \/ /\ topUp[t] # "NONE" /\ topUp' = [topUp EXCEPT ![t] = "FAILED"]
                /\ deposit[t] \in {"REJECTED", "UNPAID"} \/ t \in Early,
             UNCHANGED <<deposit, attempt, balance, entry>>
      PROVE  RowBeforeDeposit' /\ StatusIsTrue'
  BY <1>3
<1>4. ASSUME NEW t \in TopUps, NEW s,
             \/ deposit[t] = "NONE" /\ topUp[t] # "NONE"
             \/ deposit[t] = "OPEN",
             deposit' = [deposit EXCEPT ![t] = s],
             UNCHANGED <<topUp, attempt, balance, entry>>
      PROVE  RowBeforeDeposit' /\ StatusIsTrue'
  BY <1>4
<1>5. ASSUME NEW t \in TopUps, topUp[t] # "NONE",
             topUp' = [topUp EXCEPT ![t] = "COMPLETED"],
             Post(<<"credit", t>>, Amount[t]), UNCHANGED <<deposit, attempt>>
      PROVE  RowBeforeDeposit' /\ StatusIsTrue'
  <2>1. \A u \in TopUps : entry'[<<"credit", u>>] = IF u = t THEN Amount[t] ELSE entry[<<"credit", u>>]
    BY <1>5 DEF Post
  <2> QED BY <1>5, <2>1
<1>6. ASSUME NEW r \in Reference, NEW x, \A t \in TopUps : r # <<"credit", t>>,
             Post(r, x), UNCHANGED <<topUp, deposit>>
      PROVE  RowBeforeDeposit' /\ StatusIsTrue'
  BY <1>6 DEF Post
<1>7. ASSUME NEW p \in Payments,
             \/ Pay(p)
             \/ Post(<<"refund", p>>, Amount[p]) /\ UNCHANGED <<topUp, deposit>>
      PROVE  RowBeforeDeposit' /\ StatusIsTrue'
  BY <1>6, <1>7 DEF Pay
<1> QED BY <1>1, <1>2, <1>3, <1>4, <1>5, <1>7 DEF RowStep

\* The money in the wallet was paid, and no debit exceeds it.
LEMMA StepPaid == ASSUME IInv, [Next]_vars PROVE CreditIsPaid'
<1> USE WalletAssumption, References DEF IInv, TypeOK, CreditIsPaid
<1>1. RowStep
  BY RowSteps
<1>2. CASE UNCHANGED <<balance, entry, deposit>>
  BY <1>2
<1>3. ASSUME NEW t \in TopUps, NEW s, deposit[t] \in {"NONE", "OPEN"},
             deposit' = [deposit EXCEPT ![t] = s], UNCHANGED <<balance, entry>>
      PROVE  CreditIsPaid'
  BY <1>3
<1>4. ASSUME NEW t \in TopUps, deposit[t] = "PAID",
             Post(<<"credit", t>>, Amount[t]), UNCHANGED deposit
      PROVE  CreditIsPaid'
  <2>1. \A u \in TopUps : entry'[<<"credit", u>>] = IF u = t THEN Amount[t] ELSE entry[<<"credit", u>>]
    BY <1>4 DEF Post
  <2>2. balance' >= 0
    BY <1>4 DEF Post
  <2> QED BY <1>4, <2>1, <2>2
<1>5. ASSUME NEW p \in Payments,
             \/ Pay(p)
             \/ Post(<<"refund", p>>, Amount[p]) /\ UNCHANGED deposit
      PROVE  CreditIsPaid'
  <2>1. \A u \in TopUps : entry'[<<"credit", u>>] = entry[<<"credit", u>>]
    BY <1>5 DEF Pay, Post
  <2>2. balance' >= 0 /\ UNCHANGED deposit
    BY <1>5 DEF Pay, Post, Covered
  <2> QED BY <2>1, <2>2
<1> QED BY <1>1, <1>2, <1>3, <1>4, <1>5 DEF RowStep, RowsKept

\* Each payment has the entries of its status.
LEMMA StepEntries == ASSUME IInv, [Next]_vars PROVE PaymentEntriesMatch'
<1> USE WalletAssumption, References DEF IInv, TypeOK, PaymentEntriesMatch
<1>1. RowStep
  BY RowSteps
<1>2. CASE UNCHANGED <<attempt, entry>>
  BY <1>2
<1>3. ASSUME NEW t \in TopUps, Post(<<"credit", t>>, Amount[t]), UNCHANGED attempt
      PROVE  PaymentEntriesMatch'
  BY <1>3 DEF Post
<1>4. ASSUME NEW p \in Payments, Pay(p) PROVE PaymentEntriesMatch'
  <2>1. \A q \in Payments :
           /\ entry'[<<"debit", q>>] = IF q = p THEN -Amount[p] ELSE entry[<<"debit", q>>]
           /\ entry'[<<"refund", q>>] = entry[<<"refund", q>>]
           /\ attempt'[q] = IF q = p THEN "SUCCEEDED" ELSE attempt[q]
    BY <1>4 DEF Pay, Post
  <2> QED BY <1>4, <2>1 DEF Pay
<1>5. ASSUME NEW p \in Payments, attempt[p] = "SUCCEEDED",
             attempt' = [attempt EXCEPT ![p] = "REFUNDED"], Post(<<"refund", p>>, Amount[p])
      PROVE  PaymentEntriesMatch'
  <2>1. \A q \in Payments :
           /\ entry'[<<"debit", q>>] = entry[<<"debit", q>>]
           /\ entry'[<<"refund", q>>] = IF q = p THEN Amount[p] ELSE entry[<<"refund", q>>]
           /\ attempt'[q] = IF q = p THEN "REFUNDED" ELSE attempt[q]
    BY <1>5 DEF Post
  <2> QED BY <1>5, <2>1
<1> QED BY <1>1, <1>2, <1>3, <1>4, <1>5 DEF RowStep, RowsKept

\* A handler still in flight after a step is as justified as it was.
LEMMA JustifiedKept ==
    ASSUME IInv, [Next]_vars, NEW c \in calls, c \in calls'
    PROVE  Justified(c)'
<1> USE WalletAssumption DEF IInv, TypeOK
<1> c \in Call /\ Justified(c)
  BY DEF CallsJustified
<1>1. RowStep
  BY RowSteps
<1>2. \A t \in TopUps : topUp[t] # "NONE" => topUp'[t] # "NONE"
  BY <1>1 DEF RowStep, RowsKept, Pay
<1>3. \A t \in TopUps : deposit[t] \in {"REJECTED", "PAID", "UNPAID"} => deposit'[t] = deposit[t]
  BY <1>1 DEF RowStep, RowsKept, Pay
<1>4. \A p \in Payments : attempt[p] # "NONE" => attempt'[p] # "NONE"
  BY <1>1 DEF RowStep, RowsKept, Pay
<1>5. CASE c.op = "deposit"
  <2>1. c.of \in TopUps /\ deposit[c.of] = "NONE"
    BY <1>5, CallFields DEF Justified
  <2>2. ASSUME NEW d \in calls, NEW taken \in BOOLEAN, CallProvider(d, taken), d.of = c.of
        PROVE  FALSE
    <3>1. d = c
      BY <1>5, <2>2 DEF CallProvider, Call, TopUpCall, WebhookCall, AnswerCall, RefundCall
    <3>2. ~Repeatable(c)
      BY <1>5 DEF Repeatable
    <3>3. Continue(c, AnswerTo(c.of, taken)) \/ Finish(c)
      BY <2>2, <3>1 DEF CallProvider
    <3>4. AnswerTo(c.of, taken) # c
      BY <1>5 DEF AnswerTo
    <3> QED BY <3>2, <3>3, <3>4, CallGone
  <2>3. ASSUME NEW d \in calls, NEW taken \in BOOLEAN, CallProvider(d, taken), d.of # c.of
        PROVE  deposit'[c.of] = "NONE"
    BY <2>1, <2>3 DEF CallProvider
  <2>4. ASSUME NEW t \in TopUps, NEW paid \in BOOLEAN, ProviderSettles(t, paid)
        PROVE  deposit'[c.of] = "NONE"
    BY <2>1, <2>4 DEF ProviderSettles
  <2>5. ASSUME UNCHANGED deposit PROVE deposit'[c.of] = "NONE"
    BY <2>1, <2>5
  <2>6. \/ UNCHANGED deposit
        \/ \E d \in calls, taken \in BOOLEAN : CallProvider(d, taken)
        \/ \E t \in TopUps, paid \in BOOLEAN : ProviderSettles(t, paid)
    BY DEF Next, vars, TopUpStep, TopUpRead, ReconcileRead, PaymentStep, Pay, RefundRead,
       CallStep, TopUpCreate, ProviderUnreachable, WriteAnswer, ReconcileWrite,
       RefundCommit, CallLost
  <2>7. deposit'[c.of] = "NONE"
    BY <2>2, <2>3, <2>4, <2>5, <2>6
  <2> QED BY <1>2, <1>5, <2>1, <2>7 DEF Justified
<1>6. CASE c.op \in {"create", "answer", "reconcile"}
  <2>1. c.of \in TopUps
    BY <1>6, CallFields
  <2> QED BY <1>2, <1>3, <1>6, <2>1 DEF Justified
<1>7. CASE c.op = "refund"
  BY <1>4, <1>7, CallFields DEF Justified
<1> QED BY <1>5, <1>6, <1>7, CallFields

\* The handlers of the next state are justified in it.
LEMMA StepJustified == ASSUME IInv, [Next]_vars PROVE CallsJustified'
<1> USE WalletAssumption DEF IInv, TypeOK
<1>1. SUFFICES ASSUME NEW d \in calls', d \notin calls PROVE Justified(d)'
  BY JustifiedKept DEF CallsJustified
<1>2. ASSUME NEW t \in TopUps,
             TopUpRead(t) \/ \E b \in BOOLEAN : ReconcileRead(t, b)
      PROVE  Justified(d)'
  BY <1>1, <1>2 DEF TopUpRead, ReconcileRead, Told, Begin, Justified
<1>3. ASSUME NEW p \in Payments, RefundRead(p) PROVE Justified(d)'
  BY <1>1, <1>3 DEF RefundRead, Begin, Justified
<1>4. ASSUME NEW c \in calls, TopUpCreate(c) PROVE Justified(d)'
  <2>1. c.of \in TopUps
    BY <1>4, CallFields DEF TopUpCreate
  <2>2. /\ topUp[c.of] = "NONE" /\ topUp'[c.of] = "INITIATED" /\ deposit' = deposit
        /\ d = AskProvider(c.of)
    BY <1>1, <1>4, <2>1, CallsLeft DEF TopUpCreate, KeyIsFree
  <2>3. deposit[c.of] = "NONE"
    BY <2>1, <2>2 DEF RowBeforeDeposit
  <2> QED BY <2>2, <2>3 DEF Justified, AskProvider
<1>5. ASSUME NEW c \in calls, NEW taken \in BOOLEAN, CallProvider(c, taken) PROVE Justified(d)'
  <2>1. c.of \in TopUps /\ topUp[c.of] # "NONE"
    BY <1>5, CallFields DEF CallProvider, CallsJustified, Justified
  <2>3. d = AnswerTo(c.of, taken)
    BY <1>1, <1>5, CallsLeft DEF CallProvider
  <2>4. ~taken => deposit'[c.of] = "REJECTED"
    BY <1>5, <2>1 DEF CallProvider
  <2>5. topUp' = topUp
    BY <1>5 DEF CallProvider
  <2> QED BY <2>1, <2>3, <2>4, <2>5 DEF Justified, AnswerTo
<1>6. \/ \E t \in TopUps : TopUpRead(t) \/ \E b \in BOOLEAN : ReconcileRead(t, b)
      \/ \E p \in Payments : RefundRead(p)
      \/ \E c \in calls : TopUpCreate(c) \/ \E taken \in BOOLEAN : CallProvider(c, taken)
  BY <1>1, CallsLeft
  DEF Next, vars, TopUpStep, ProviderSettles, PaymentStep, Pay, CallStep,
      ProviderUnreachable, WriteAnswer, ReconcileWrite, RefundCommit, CallLost
<1> QED BY <1>2, <1>3, <1>4, <1>5, <1>6

\* The invariant holds in every reachable state.
THEOREM InvariantHolds == Spec => []IInv
<1>1. IInv /\ [Next]_vars => IInv'
  <2> SUFFICES ASSUME IInv, [Next]_vars PROVE IInv'
    OBVIOUS
  <2>1. TypeOK'
    BY StepType DEF IInv
  <2> QED BY <2>1, StepRows, StepPaid, StepEntries, StepJustified DEF IInv
<1> QED BY <1>1, InitInv, PTL DEF Spec

-----------------------------------------------------------------------------
(* The theorems.                                                           *)

\* The balance is never negative and every credit was paid at the provider.
THEOREM CreditIsPaidAlways == Spec => []CreditIsPaid
<1>1. IInv => CreditIsPaid
  BY DEF IInv
<1> QED BY <1>1, InvariantHolds, PTL

\* A row that says COMPLETED was credited, one that says FAILED was not paid, unless a
\* webhook told of its deposit before it was settled.
THEOREM StatusIsTrueAlways == Spec => []StatusIsTrue
<1>1. IInv => StatusIsTrue
  BY DEF IInv
<1> QED BY <1>1, InvariantHolds, PTL

\* No key asks the provider for a deposit twice.
THEOREM OneDepositAlways == Spec => []OneDeposit
<1>1. IInv => OneDeposit
  BY DEF IInv, CallsJustified, Justified, OneDeposit
<1> QED BY <1>1, InvariantHolds, PTL

\* Each wallet payment has one debit, and a refund if and only if it is REFUNDED.
THEOREM PaymentEntriesMatchAlways == Spec => []PaymentEntriesMatch
<1>1. IInv => PaymentEntriesMatch
  BY DEF IInv
<1> QED BY <1>1, InvariantHolds, PTL

\* The wallet is an account: every step posts one new entry or leaves it alone.
THEOREM WalletIsAnAccount == Spec => ImplementsLedgerAccount
<1>1. Init => Account!Init
  BY DEF Init, Account!Init
<1>2. IInv /\ [Next]_vars => [Account!Next]_(Account!vars)
  <2> SUFFICES ASSUME IInv, [Next]_vars PROVE [Account!Next]_(Account!vars)
    OBVIOUS
  <2> USE WalletAssumption, References DEF IInv, TypeOK
  <2>1. RowStep
    BY RowSteps
  <2>2. CASE UNCHANGED <<balance, entry>>
    BY <2>2 DEF Account!vars
  <2>3. ASSUME NEW r \in Reference, NEW x \in Int, x # 0, entry[r] = 0, Post(r, x)
        PROVE  Account!Next
    <3>1. entry'[r] = x
      BY <2>3 DEF Post
    <3> QED BY <2>3, <3>1 DEF Post, Account!Next, Account!Post
  <2>4. ASSUME NEW p \in Payments, Pay(p) PROVE Account!Next
    <3>1. entry[<<"debit", p>>] = 0
      BY <2>4 DEF Pay, PaymentEntriesMatch
    <3>2. -Amount[p] \in Int /\ -Amount[p] # 0
      OBVIOUS
    <3>3. Post(<<"debit", p>>, -Amount[p])
      BY <2>4 DEF Pay
    <3> QED BY <2>3, <3>1, <3>2, <3>3
  <2>5. \A x \in TopUps \cup Payments : Amount[x] \in Int /\ Amount[x] # 0
    OBVIOUS
  <2> QED BY <2>1, <2>2, <2>3, <2>4, <2>5 DEF RowStep, RowsKept
<1> QED BY <1>1, <1>2, InvariantHolds, PTL DEF Spec, ImplementsLedgerAccount, Account!Spec
-----------------------------------------------------------------------------
(* The balance is the sum of the entries.                                  *)

Added == \E T \in Account!Totals : T[Reference] = balance

\* There is no more than one way to add up finitely many entries: a smallest set on
\* which two totals differ would lose an element and differ still.
LEMMA OneTotal ==
    ASSUME IsFiniteSet(Reference), NEW T \in Account!Totals, NEW U \in Account!Totals
    PROVE  T[Reference] = U[Reference]
<1> DEFINE Differ == {A \in FiniteSubsetsOf(Reference) : T[A] # U[A]}
<1>1. SUFFICES ASSUME T[Reference] # U[Reference] PROVE FALSE
  OBVIOUS
<1>2. Reference \in Differ
  BY <1>1 DEF FiniteSubsetsOf
<1>3. IsWellFoundedOn(StrictSubsetOrdering(Reference), FiniteSubsetsOf(Reference))
  BY FS_StrictSubsetOrderingWellFounded
<1>4. PICK A \in Differ : \A B \in Differ : <<B, A>> \notin StrictSubsetOrdering(Reference)
  <2>1. Differ \subseteq FiniteSubsetsOf(Reference) /\ Differ # {}
    BY <1>2
  <2> HIDE DEF Differ
  <2> QED BY <1>3, <2>1, WFMin
<1>5. A \subseteq Reference /\ IsFiniteSet(A) /\ T[A] # U[A]
  BY DEF FiniteSubsetsOf
<1>6. A # {}
  BY <1>5 DEF Account!Totals
<1>7. PICK r \in A : TRUE
  BY <1>6
<1> DEFINE B == A \ {r}
<1>8. B \in SUBSET Reference /\ r \in Reference \ B /\ A = B \cup {r}
  BY <1>5, <1>7
<1>9. T[B] # U[B]
  <2>1. T[A] = T[B] + entry[r] /\ U[A] = U[B] + entry[r]
    BY <1>8 DEF Account!Totals
  <2> QED BY <1>5, <2>1
<1>10. IsFiniteSet(B)
  BY <1>5, FS_RemoveElement
<1>11. B \in Differ
  BY <1>8, <1>9, <1>10 DEF FiniteSubsetsOf
<1>12. <<B, A>> \in StrictSubsetOrdering(Reference)
  BY <1>5, <1>7, <1>8 DEF StrictSubsetOrdering
<1> QED BY <1>4, <1>11, <1>12

\* A new entry adds its amount to the total of every set it is in.
LEMMA AddedStep ==
    ASSUME entry \in [Reference -> Int], entry' \in [Reference -> Int],
           Added, [Account!Next]_(Account!vars)
    PROVE  Added'
<1>1. PICK T \in Account!Totals : T[Reference] = balance
  BY DEF Added
<1>2. CASE UNCHANGED Account!vars
  BY <1>2 DEF Account!vars, Added, Account!Totals
<1>3. ASSUME NEW r \in Reference, Account!Post(r) PROVE Added'
  <2> DEFINE U == [A \in SUBSET Reference |-> IF r \in A THEN T[A] + entry'[r] ELSE T[A]]
  <2>1. /\ entry[r] = 0 /\ entry'[r] \in Int /\ balance' = balance + entry'[r]
        /\ \A s \in Reference \ {r} : entry'[s] = entry[s]
    BY <1>3 DEF Account!Post
  <2>2. T \in [SUBSET Reference -> Int] /\ \A s \in Reference : entry[s] \in Int
    BY DEF Account!Totals
  <2>3. U \in [SUBSET Reference -> Int] /\ U[{}] = 0
    BY <2>1, <2>2 DEF Account!Totals
  <2>4. ASSUME NEW A \in SUBSET Reference, NEW s \in Reference \ A
        PROVE  U[A \cup {s}] = U[A] + entry'[s]
    <3>1. T[A \cup {s}] = T[A] + entry[s] /\ A \cup {s} \in SUBSET Reference
      BY DEF Account!Totals
    <3>2. T[A] \in Int /\ entry[s] \in Int
      BY <2>2
    <3>3. CASE s = r
      BY <2>1, <3>1, <3>2, <3>3
    <3>4. CASE s # r
      BY <2>1, <3>1, <3>2, <3>4
    <3> QED BY <3>3, <3>4
  <2>5. U \in Account!Totals'
    BY <2>3, <2>4 DEF Account!Totals
  <2>6. U[Reference] = balance'
    BY <1>1, <2>1
  <2> QED BY <2>5, <2>6 DEF Added
<1> QED BY <1>2, <1>3 DEF Account!Next

\* The balance that the code keeps by increments is at any time the sum of the wallet's
\* entries, however its handlers interleave.
THEOREM BalanceIsTotalAlways ==
    ASSUME IsFiniteSet(Reference)
    PROVE  Spec => []Account!BalanceIsTotal
<1>1. Init => Added
  <2> SUFFICES ASSUME Init PROVE Added
    OBVIOUS
  <2> DEFINE T == [A \in SUBSET Reference |-> 0]
  <2>1. T \in Account!Totals /\ T[Reference] = balance
    BY DEF Init, Account!Totals
  <2> QED BY <2>1 DEF Added
<1>2. IInv /\ IInv' /\ [Account!Next]_(Account!vars) /\ Added => Added'
  BY AddedStep DEF IInv, TypeOK
<1>3. Added => Account!BalanceIsTotal
  BY OneTotal DEF Added, Account!BalanceIsTotal
<1> QED
  BY <1>1, <1>2, <1>3, InvariantHolds, WalletIsAnAccount, PTL
  DEF Spec, ImplementsLedgerAccount, Account!Spec

-----------------------------------------------------------------------------
(* What the other components rely on.                                      *)

\* A deposit that the provider took and nobody credited has an open row, unless a webhook
\* told of it early: its webhook, or a repetition, is never taken for a replay.
PaidIsOpen ==
    \A t \in TopUps \ Early :
        deposit[t] = "PAID" /\ entry[<<"credit", t>>] = 0 => topUp[t] \in OpenStatus

\* What remains for PaidIsCredited is that a webhook arrives and its handler ends.
THEOREM PaidIsOpenAlways == Spec => []PaidIsOpen
<1>1. IInv => PaidIsOpen
  BY DEF IInv, TypeOK, TopUpStatus, RowBeforeDeposit, StatusIsTrue, PaidIsOpen, OpenStatus
<1> QED BY <1>1, InvariantHolds, PTL

\* The wallet's side of the entries that Payments abstracts.
Paid == {p \in Payments : attempt[p] # "NONE"}
PaymentEntries ==
    [p \in Payments |-> {k \in {"debit", "refund"} : entry[<<k, p>>] # 0}]

PaymentSide == INSTANCE PaymentLedger
               WITH Attempts <- Payments, received <- Paid, hasDriver <- {},
                    ledger <- PaymentEntries

\* Seen from the payments it makes, the wallet behaves as Payments assumes: it posts the
\* debit and the refund of a payment in the order of PaymentLedger, each once.
THEOREM PaymentSideIsLedger == Spec => PaymentSide!Spec
<1>1. Init => PaymentSide!Init
  BY DEF Init, PaymentSide!Init, Paid, PaymentEntries, Reference
<1>2. ASSUME IInv, [Next]_vars PROVE [PaymentSide!Next]_(PaymentSide!vars)
  <2> USE <1>2, WalletAssumption, References DEF IInv, TypeOK
  <2>1. RowStep
    BY RowSteps
  <2>2. CASE UNCHANGED <<attempt, entry>>
    BY <2>2 DEF PaymentSide!vars, Paid, PaymentEntries
  <2>3. ASSUME NEW t \in TopUps, Post(<<"credit", t>>, Amount[t]), UNCHANGED attempt
        PROVE  UNCHANGED PaymentSide!vars
    <3>1. \A p \in Payments, k \in {"debit", "refund"} : entry'[<<k, p>>] = entry[<<k, p>>]
      BY <2>3 DEF Post
    <3> QED BY <2>3, <3>1 DEF PaymentSide!vars, Paid, PaymentEntries
  <2>4. ASSUME NEW p \in Payments, NEW k \in {"debit", "refund"}, NEW x \in Int, x # 0,
               Post(<<k, p>>, x)
        PROVE  PaymentEntries' = [PaymentEntries EXCEPT ![p] = @ \cup {k}]
    <3>1. \A q \in Payments, j \in {"debit", "refund"} :
             entry'[<<j, q>>] = IF j = k /\ q = p THEN x ELSE entry[<<j, q>>]
      BY <2>4 DEF Post
    <3>2. \A q \in Payments :
             PaymentEntries'[q] =
                IF q = p THEN PaymentEntries[q] \cup {k} ELSE PaymentEntries[q]
      BY <2>4, <3>1 DEF PaymentEntries
    <3> QED BY <3>2 DEF PaymentEntries
  <2>5. ASSUME NEW p \in Payments, Pay(p) PROVE PaymentSide!Next
    <3>1. attempt[p] = "NONE" /\ attempt' = [attempt EXCEPT ![p] = "SUCCEEDED"]
      BY <2>5 DEF Pay
    <3>2. Paid' = Paid \cup {p} /\ p \notin Paid
      BY <3>1 DEF Paid
    <3>3. PaymentEntries' = [PaymentEntries EXCEPT ![p] = @ \cup {"debit"}]
      <4>1. -Amount[p] \in Int /\ -Amount[p] # 0
        OBVIOUS
      <4>2. Post(<<"debit", p>>, -Amount[p])
        BY <2>5 DEF Pay
      <4> QED BY <2>4, <4>1, <4>2
    <3>4. PaymentSide!Debit(p)
      BY <3>2, <3>3 DEF PaymentSide!Debit, PaymentSide!Post
    <3> QED BY <3>4 DEF PaymentSide!Next
  <2>6. ASSUME NEW p \in Payments, attempt[p] = "SUCCEEDED",
               attempt' = [attempt EXCEPT ![p] = "REFUNDED"],
               Post(<<"refund", p>>, Amount[p])
        PROVE  PaymentSide!Next
    <3>1. Paid' = Paid
      BY <2>6 DEF Paid
    <3>2. PaymentEntries' = [PaymentEntries EXCEPT ![p] = @ \cup {"refund"}]
      <4>1. Amount[p] \in Int /\ Amount[p] # 0
        OBVIOUS
      <4> QED BY <2>4, <2>6, <4>1
    <3>3. "debit" \in PaymentEntries[p]
      BY <2>6 DEF PaymentEntries, PaymentEntriesMatch
    <3>4. PaymentSide!Refund(p, {"refund"})
      BY <3>1, <3>2, <3>3 DEF PaymentSide!Refund, PaymentSide!Post
    <3>5. {"refund"} \in SUBSET PaymentSide!Entry
      BY DEF PaymentSide!Entry
    <3> QED BY <3>4, <3>5 DEF PaymentSide!Next
  <2> QED BY <2>1, <2>2, <2>3, <2>5, <2>6 DEF RowStep, RowsKept
<1> QED BY <1>1, <1>2, InvariantHolds, PTL DEF Spec, PaymentSide!Spec
=============================================================================
