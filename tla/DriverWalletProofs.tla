-------------------------- MODULE DriverWalletProofs --------------------------
(***************************************************************************)
(* Theorems about DriverWallet, for every set of rides, payouts, recoveries *)
(* and tickets, any amounts and any number of handlers.                     *)
(*                                                                         *)
(* What the driver may owe is bounded by following balance + takenBack,     *)
(* which refunds do not change and only payouts lower.  A payout is paid on *)
(* a balance read before, so the invariant says that this read still covers *)
(* the payout while it is PREPARED (PaysCovered): only the payout itself    *)
(* could have lowered the sum since, because no other is prepared.          *)
(***************************************************************************)
EXTENDS DriverWallet, FiniteSetTheorems, WellFoundedInduction, TLAPS

Fares == {n \in Nat : n > 0}

\* The share of a fare, on a day of either rate.
IsShare(x, fare) == x \in {Share(fare, OnboardingRate), Share(fare, StandardRate)}

\* What credits and refunds move is a share of their ride.
AmountsShared ==
    /\ \A c \in calls : c.op = "credit" => IsShare(c.amount, Amount[c.of])
    /\ \A c \in calls : c.op = "refund" /\ c.amount # 0 => IsShare(c.amount, Amount[c.of])
    /\ \A r \in Rides : entry[<<"credit", r>>] # 0 => IsShare(entry[<<"credit", r>>], Amount[r])

\* What a refund leaves of the credit it reverses.
LeftAfterRefund(r) == entry[<<"credit", r>>] + entry[<<"reversal", r>>]

\* A reversal takes back the credit, but for less than 2 % of the fare and one step
\* either way.
ReversalNearCredit ==
    \A r \in Rides :
        entry[<<"reversal", r>>] # 0 =>
            /\ payment[r] = "REFUNDED"
            /\ entry[<<"reversal", r>>] < 0 /\ entry[<<"credit", r>>] # 0
            /\ -(Amount[r] + 500) <= 50 * LeftAfterRefund(r)
            /\ 50 * LeftAfterRefund(r) <= Amount[r] + 500

AmountsPositive == \A c \in calls : c.op \in {"prepare", "recover"} => c.amount > 0

PaysCovered ==
    \A c \in calls : c.op = "pay" =>
        /\ payout[c.of].status # "NONE"
        /\ payout[c.of].status = "PREPARED" => balance + takenBack >= payout[c.of].amount

TakenBackNat == takenBack >= 0

\* The inductive invariant.
IInv ==
    /\ TypeOK
    /\ TakenBackNat
    /\ AmountsShared
    /\ AmountsPositive
    /\ PaysCovered
    /\ PayoutsMatch
    /\ OwesOnlyRefunds
    /\ ReversalNearCredit

-----------------------------------------------------------------------------
(* The commission.                                                         *)

\* The share is positive, at most the fare, and falls after the first days, by less
\* than 2 % of the fare and one step of rounding.
THEOREM ShareBounds ==
    ASSUME NEW fare \in Fares
    PROVE  LET first == Share(fare, OnboardingRate)  later == Share(fare, StandardRate) IN
           /\ first \in Fares /\ later \in Fares
           /\ later <= first /\ first <= fare
           /\ 50 * (first - later) <= fare + 500
<1>1. fare \in Nat /\ fare > 0
  BY DEF Fares
<1> DEFINE a == (fare * 10) \div 100
           b == (fare * 12) \div 100
           m == a \div 10
           n == b \div 10
<1>2. /\ a \in Int /\ b \in Int
      /\ 100 * a <= fare * 10 /\ fare * 10 < 100 * a + 100
      /\ 100 * b <= fare * 12 /\ fare * 12 < 100 * b + 100
  BY <1>1
<1> HIDE DEF a, b
<1>3. /\ m \in Int /\ n \in Int
      /\ 10 * m <= a /\ a < 10 * m + 10 /\ 10 * n <= b /\ b < 10 * n + 10
  BY <1>2
<1>4. /\ Share(fare, OnboardingRate) = fare - m * 10
      /\ Share(fare, StandardRate) = fare - n * 10
  BY DEF Share, Commission, OnboardingRate, StandardRate, a, b
<1> HIDE DEF m, n
<1>5. a <= b /\ m <= n /\ 10 * n < fare /\ 0 <= m
  BY <1>1, <1>2, <1>3
<1>6. 50 * (n * 10 - m * 10) <= fare + 500
  BY <1>1, <1>2, <1>3
<1>7. fare - m * 10 \in Fares /\ fare - n * 10 \in Fares
  BY <1>1, <1>3, <1>5 DEF Fares
<1>8. /\ fare - n * 10 <= fare - m * 10 /\ fare - m * 10 <= fare
      /\ 50 * ((fare - m * 10) - (fare - n * 10)) <= fare + 500
  BY <1>1, <1>3, <1>5, <1>6
<1> QED BY <1>4, <1>7, <1>8

\* The commission is a whole number of steps of 10 francs, and with the driver's share
\* it makes up the fare.
THEOREM FareIsSplit ==
    ASSUME NEW fare \in Nat, NEW percent \in {OnboardingRate, StandardRate}
    PROVE  /\ Commission(fare, percent) + Share(fare, percent) = fare
           /\ Commission(fare, percent) % 10 = 0
           /\ 0 <= Commission(fare, percent)
           /\ 100 * Commission(fare, percent) <= 12 * fare
<1> DEFINE a == (fare * percent) \div 100
           m == a \div 10
<1>1. percent \in {10, 12}
  BY DEF OnboardingRate, StandardRate
<1>2. a \in Int /\ a >= 0 /\ 100 * a <= fare * 12
  BY <1>1
<1> HIDE DEF a
<1>3. m \in Int /\ m >= 0 /\ 10 * m <= a
  BY <1>2
<1>4. Commission(fare, percent) = m * 10
  BY DEF Commission, a
<1> HIDE DEF m
<1>5. (m * 10) % 10 = 0
  BY <1>3
<1> QED BY <1>2, <1>3, <1>4, <1>5 DEF Share

-----------------------------------------------------------------------------
(* Handlers and types.                                                     *)

\* The fields of a handler in flight.
LEMMA CallFields ==
    ASSUME NEW c \in Call
    PROVE  /\ c.op \in {"credit", "refund", "prepare", "pay", "recover"}
           /\ c.op \in {"credit", "refund"} => c.of \in Rides
           /\ c.op = "pay" => c.of \in Payouts
           /\ c.op = "recover" => c.of \in Recoveries
           /\ c.op \in {"credit", "refund", "prepare", "recover"} => c.amount \in Int
  BY DEF Call, CreditCall, RefundCall, PrepareCall, PayCall, RecoverCall

\* The handlers the actions start.
LEMMA CallsMade ==
    /\ \A r \in Rides, x \in Int : /\ [op |-> "credit", of |-> r, amount |-> x] \in Call
                                 /\ [op |-> "refund", of |-> r, amount |-> x] \in Call
    /\ \A x \in Int : [op |-> "prepare", amount |-> x] \in Call
    /\ \A p \in Payouts : [op |-> "pay", of |-> p] \in Call
    /\ \A k \in Recoveries, x \in Int : [op |-> "recover", of |-> k, amount |-> x] \in Call
  BY DEF Call, CreditCall, RefundCall, PrepareCall, PayCall, RecoverCall

\* The wallet has a reference for every row that posts to it.
LEMMA References ==
    /\ \A r \in Rides : <<"credit", r>> \in Reference /\ <<"reversal", r>> \in Reference
    /\ \A p \in Payouts : <<"payout", p>> \in Reference
    /\ \A k \in Recoveries : <<"recovery", k>> \in Reference
    /\ \A t \in Tickets : <<"compensation", t>> \in Reference
  BY DEF Reference

\* The amounts are fares, and the shares of fares are whole positive numbers.
LEMMA Amounts ==
    /\ \A x \in Rides \cup Recoveries \cup Tickets : Amount[x] \in Fares
    /\ \A r \in Rides : /\ Share(Amount[r], OnboardingRate) \in Fares
                        /\ Share(Amount[r], StandardRate) \in Fares
<1>1. \A x \in Rides \cup Recoveries \cup Tickets : Amount[x] \in Fares
  BY WalletAssumption DEF Fares
<1>2. ASSUME NEW r \in Rides
      PROVE  /\ Share(Amount[r], OnboardingRate) \in Fares
             /\ Share(Amount[r], StandardRate) \in Fares
  BY <1>1, ShareBounds
<1> QED BY <1>1, <1>2

\* The initial states satisfy the invariant.
LEMMA InitInv == Init => IInv
<1> SUFFICES ASSUME Init PROVE IInv
  OBVIOUS
<1>1. TypeOK
  <2>1. payout \in [Payouts -> [status : PayoutStatus, amount : Int]]
    BY DEF Init, PayoutStatus
  <2>2. payment \in [Rides -> PaymentStatus] /\ entry \in [Reference -> Int]
    BY DEF Init, PaymentStatus
  <2>3. balance \in Int /\ takenBack \in Int /\ calls \subseteq Call
    BY DEF Init
  <2>4. rate \in {OnboardingRate, StandardRate}
    BY DEF Init
  <2> QED BY <2>1, <2>2, <2>3, <2>4 DEF TypeOK
<1>2. TakenBackNat /\ AmountsPositive /\ PaysCovered /\ OwesOnlyRefunds
  BY DEF Init, TakenBackNat, AmountsPositive, PaysCovered, OwesOnlyRefunds
<1>5. AmountsShared
  BY References DEF Init, AmountsShared
<1>3. PayoutsMatch
  BY References DEF Init, PayoutsMatch, Prepared
<1>4. ReversalNearCredit
  BY References DEF Init, ReversalNearCredit
<1> QED BY <1>1, <1>2, <1>3, <1>4, <1>5 DEF IInv

\* A posted entry keeps the balance and the entries whole numbers.
LEMMA PostType ==
    ASSUME TypeOK, NEW ref \in Reference, NEW x \in Int, Post(ref, x)
    PROVE  balance' \in Int /\ entry' \in [Reference -> Int]
  BY DEF TypeOK, Post

\* A refund that has computed the share is the same refund.
LEMMA RefundWithShare ==
    ASSUME TypeOK, NEW c \in calls, c.op = "refund"
    PROVE  /\ WithShare(c) \in Call /\ WithShare(c).op = "refund" /\ WithShare(c).of = c.of
           /\ WithShare(c).amount = Share(Amount[c.of], rate)
           /\ IsShare(WithShare(c).amount, Amount[c.of])
<1>1. c \in RefundCall
  BY DEF TypeOK, Call, CreditCall, RefundCall, PrepareCall, PayCall, RecoverCall
<1>2. c.of \in Rides
  BY <1>1 DEF RefundCall
<1>3. Share(Amount[c.of], rate) \in Int
  BY <1>2, Amounts DEF TypeOK, Fares
<1>4. WithShare(c) \in RefundCall /\ WithShare(c).of = c.of
      /\ WithShare(c).amount = Share(Amount[c.of], rate)
  BY <1>1, <1>3 DEF WithShare, RefundCall
<1> QED BY <1>4 DEF Call, RefundCall, IsShare, TypeOK

\* Every operation keeps the variables well-typed.
LEMMA StepType == ASSUME TypeOK, [Next]_vars PROVE TypeOK'
<1> USE DEF TypeOK
<1>1. CASE FirstDaysEnd
  BY <1>1 DEF FirstDaysEnd
<1>2. ASSUME NEW r \in Rides, PaymentSucceeds(r) PROVE TypeOK'
  BY <1>2 DEF PaymentSucceeds, PaymentStatus
<1>3. ASSUME NEW r \in Rides, CreditRead(r) PROVE TypeOK'
  <2>1. Share(Amount[r], rate) \in Int
    BY Amounts DEF Fares
  <2> QED BY <1>3, <2>1, CallsMade DEF CreditRead, Begin
<1>4. ASSUME NEW r \in Rides, RefundRead(r) PROVE TypeOK'
  <2>1. [op |-> "refund", of |-> r, amount |-> 0] \in Call
    BY DEF Call, RefundCall
  <2> QED BY <1>4, <2>1 DEF RefundRead, Begin
<1>5. CASE PrepareRead
  BY <1>5, CallsMade DEF PrepareRead, Begin
<1>6. ASSUME NEW p \in Payouts, PayRead(p) PROVE TypeOK'
  BY <1>6, CallsMade DEF PayRead, Begin
<1>7. ASSUME NEW k \in Recoveries, RecoverRead(k) PROVE TypeOK'
  <2>1. Recovered(k) \in Int
    BY Amounts DEF Recovered, Fares
  <2>2. calls' = calls \cup {[op |-> "recover", of |-> k, amount |-> Recovered(k)]}
    BY <1>7 DEF RecoverRead, Begin
  <2>3. calls' \subseteq Call
    BY <2>1, <2>2, CallsMade
  <2> QED BY <1>7, <2>3 DEF RecoverRead
<1>8. ASSUME NEW t \in Tickets, Compensate(t) PROVE TypeOK'
  <2>1. Amount[t] \in Int
    BY Amounts DEF Fares
  <2> QED BY <1>8, <2>1, PostType, References DEF Compensate
<1>9. ASSUME NEW c \in calls, CallStep(c) PROVE TypeOK'
  <2>0. ASSUME RefundShares(c) PROVE calls' \subseteq Call
    BY <2>0, RefundWithShare DEF RefundShares, GoesOn
  <2>1. calls' \subseteq Call
    BY <1>9, <2>0
    DEF CallStep, CreditCommit, RefundCommit, PrepareCommit, PayCommit, RecoverCommit,
        CallLost, Finish
  <2>2. CASE CreditCommit(c)
    BY <1>9, <2>1, <2>2, CallFields, References, PostType DEF CreditCommit
  <2>3. CASE RefundCommit(c)
    <3>1. c.of \in Rides
      BY <2>3, CallFields DEF RefundCommit
    <3>2. c.amount \in Int /\ -c.amount \in Int
      BY <2>3, CallFields DEF RefundCommit
    <3>3. balance' \in Int /\ entry' \in [Reference -> Int]
      BY <2>3, <3>1, <3>2, References, PostType DEF RefundCommit
    <3>4. takenBack' \in Int
      BY <2>3, <3>2 DEF RefundCommit
    <3>5. payment' \in [Rides -> PaymentStatus]
      BY <2>3, <3>1 DEF RefundCommit, PaymentStatus
    <3> QED BY <2>1, <2>3, <3>3, <3>4, <3>5 DEF RefundCommit
  <2>4. CASE PrepareCommit(c)
    <3>1. c.amount \in Int
      BY <2>4, CallFields DEF PrepareCommit
    <3> QED BY <2>1, <2>4, <3>1 DEF PrepareCommit, PayoutStatus
  <2>5. CASE PayCommit(c)
    <3>1. c.of \in Payouts
      BY <2>5, CallFields DEF PayCommit
    <3>2. -payout[c.of].amount \in Int
      BY <3>1
    <3>3. balance' \in Int /\ entry' \in [Reference -> Int]
      BY <2>5, <3>1, <3>2, References, PostType DEF PayCommit
    <3>4. payout' \in [Payouts -> [status : PayoutStatus, amount : Int]]
      BY <2>5, <3>1 DEF PayCommit, PayoutStatus
    <3> QED BY <2>1, <2>5, <3>3, <3>4 DEF PayCommit
  <2>6. CASE RecoverCommit(c)
    BY <1>9, <2>1, <2>6, CallFields, References, PostType DEF RecoverCommit
  <2>7. CASE CallLost(c)
    BY <2>1, <2>7 DEF CallLost
  <2>8. CASE RefundShares(c)
    BY <2>1, <2>8 DEF RefundShares
  <2> QED BY <1>9, <2>2, <2>3, <2>4, <2>5, <2>6, <2>7, <2>8 DEF CallStep
<1>10. CASE UNCHANGED vars
  BY <1>10 DEF vars
<1> QED BY <1>1, <1>2, <1>3, <1>4, <1>5, <1>6, <1>7, <1>8, <1>9, <1>10 DEF Next, RideStep

\* Every reachable state is well-typed.
THEOREM TypeCorrect == Spec => []TypeOK
<1>1. Init => TypeOK
  BY InitInv DEF IInv
<1> QED BY <1>1, StepType, PTL DEF Spec

-----------------------------------------------------------------------------
(* What a step does to the rows.                                           *)

WalletKept == UNCHANGED <<payout, balance, entry, takenBack>>

\* An amount that does not come from a refund or a payout.
Raises(ref, x) ==
    /\ entry[ref] = 0 /\ x > 0 /\ Post(ref, x)
    /\ UNCHANGED <<payout, takenBack>>

RowStep ==
    \/ WalletKept
    \/ \E r \in Rides, x \in Int :
          Raises(<<"credit", r>>, x) /\ IsShare(x, Amount[r]) /\ UNCHANGED <<rate, payment>>
    \/ \E k \in Recoveries, x \in Int :
          Raises(<<"recovery", k>>, x) /\ UNCHANGED <<rate, payment>>
    \/ \E t \in Tickets, x \in Int :
          Raises(<<"compensation", t>>, x) /\ UNCHANGED <<rate, payment>>
    \/ \E r \in Rides, x \in Int :
          /\ Credited(r) /\ entry[<<"reversal", r>>] = 0
          /\ IsShare(x, Amount[r]) /\ x > 0
          /\ Post(<<"reversal", r>>, -x)
          /\ takenBack' = takenBack + x
          /\ payment' = [payment EXCEPT ![r] = "REFUNDED"]
          /\ UNCHANGED <<rate, payout>>
    \/ \E p \in Payouts, x \in Int :
          /\ Prepared = {} /\ payout[p].status = "NONE" /\ x > 0
          /\ payout' = [payout EXCEPT ![p] = [status |-> "PREPARED", amount |-> x]]
          /\ UNCHANGED <<balance, entry, takenBack, payment, rate>>
    \/ \E p \in Payouts :
          /\ payout[p].status = "PREPARED" /\ payout[p].amount > 0
          /\ entry[<<"payout", p>>] = 0
          /\ balance + takenBack >= payout[p].amount
          /\ payout' = [payout EXCEPT ![p].status = "PAID"]
          /\ Post(<<"payout", p>>, -payout[p].amount)
          /\ UNCHANGED <<takenBack, payment, rate>>

\* A share is a positive whole number, and today's is one.
LEMMA Shares ==
    ASSUME TypeOK, NEW r \in Rides
    PROVE  /\ IsShare(Share(Amount[r], rate), Amount[r])
           /\ \A x : IsShare(x, Amount[r]) => x \in Int /\ x > 0
  BY Amounts DEF TypeOK, IsShare, Fares

\* Every step is one of these.
LEMMA RowSteps == ASSUME IInv, [Next]_vars PROVE RowStep
<1> TypeOK
  BY DEF IInv
<1>1. ASSUME NEW c \in calls, CreditCommit(c) PROVE RowStep
  <2>1. c.of \in Rides /\ c.op = "credit"
    BY <1>1, CallFields DEF CreditCommit, TypeOK
  <2>2. IsShare(c.amount, Amount[c.of])
    BY <2>1 DEF IInv, AmountsShared
  <2>3. c.amount \in Int /\ c.amount > 0
    BY <2>1, <2>2, Shares
  <2>4. CASE Credited(c.of)
    BY <1>1, <2>4 DEF CreditCommit, RowStep, WalletKept
  <2>5. CASE ~Credited(c.of)
    <3>1. Raises(<<"credit", c.of>>, c.amount) /\ UNCHANGED <<rate, payment>>
      BY <1>1, <2>3, <2>5 DEF CreditCommit, Credited, Raises
    <3> QED BY <2>1, <2>2, <2>3, <3>1 DEF RowStep
  <2> QED BY <2>4, <2>5
<1>2. ASSUME NEW c \in calls, RefundCommit(c) PROVE RowStep
  <2>1. c.of \in Rides /\ c.amount \in Int /\ c.amount > 0
    BY <1>2, CallFields DEF RefundCommit, TypeOK
  <2>2. IsShare(c.amount, Amount[c.of])
    BY <1>2, <2>1 DEF RefundCommit, IInv, AmountsShared
  <2> QED BY <1>2, <2>1, <2>2 DEF RefundCommit, Reverses, RowStep, WalletKept
<1>3. ASSUME NEW c \in calls, PrepareCommit(c) PROVE RowStep
  <2>1. c.amount \in Int /\ c.amount > 0
    BY <1>3, CallFields DEF PrepareCommit, IInv, AmountsPositive, TypeOK
  <2>2. CASE LockFree
    BY <1>3, <2>1, <2>2 DEF PrepareCommit, LockFree, RowStep
  <2>3. CASE ~LockFree
    BY <1>3, <2>3 DEF PrepareCommit, RowStep, WalletKept
  <2> QED BY <2>2, <2>3
<1>4. ASSUME NEW c \in calls, PayCommit(c) PROVE RowStep
  <2>1. c.of \in Payouts /\ payout[c.of].status # "NONE"
    BY <1>4, CallFields DEF PayCommit, IInv, PaysCovered, TypeOK
  <2>2. CASE entry[<<"payout", c.of>>] # 0
    BY <1>4, <2>2 DEF PayCommit, RowStep, WalletKept
  <2>3. CASE entry[<<"payout", c.of>>] = 0
    <3>1. payout[c.of].amount \in Int /\ payout[c.of].amount > 0
      BY <2>1 DEF IInv, PayoutsMatch, TypeOK
    <3>2. -payout[c.of].amount # 0
      BY <3>1
    <3>3. payout[c.of].status = "PREPARED"
      BY <2>1, <2>3, <3>2 DEF IInv, PayoutsMatch, TypeOK, PayoutStatus
    <3>4. balance + takenBack >= payout[c.of].amount
      BY <1>4, <3>3 DEF PayCommit, IInv, PaysCovered
    <3> QED BY <1>4, <2>1, <2>3, <3>1, <3>3, <3>4 DEF PayCommit, RowStep
  <2> QED BY <2>2, <2>3
<1>5. ASSUME NEW c \in calls, RecoverCommit(c) PROVE RowStep
  <2>1. c.of \in Recoveries /\ c.amount \in Int /\ c.amount > 0
    BY <1>5, CallFields DEF RecoverCommit, IInv, AmountsPositive, TypeOK
  <2>2. CASE entry[<<"recovery", c.of>>] # 0
    BY <1>5, <2>2 DEF RecoverCommit, RowStep, WalletKept
  <2>3. CASE entry[<<"recovery", c.of>>] = 0
    <3>1. Raises(<<"recovery", c.of>>, c.amount) /\ UNCHANGED <<rate, payment>>
      BY <1>5, <2>1, <2>3 DEF RecoverCommit, Raises
    <3> QED BY <2>1, <3>1 DEF RowStep
  <2> QED BY <2>2, <2>3
<1>6. ASSUME NEW t \in Tickets, Compensate(t) PROVE RowStep
  <2>1. Amount[t] \in Int /\ Amount[t] > 0
    BY Amounts DEF Fares
  <2>2. Raises(<<"compensation", t>>, Amount[t]) /\ UNCHANGED <<rate, payment>>
    BY <1>6, <2>1 DEF Compensate, Raises
  <2> QED BY <2>1, <2>2 DEF RowStep
<1>7. CASE \/ UNCHANGED vars \/ FirstDaysEnd \/ PrepareRead
           \/ \E r \in Rides : RideStep(r)
           \/ \E p \in Payouts : PayRead(p)
           \/ \E k \in Recoveries : RecoverRead(k)
           \/ \E c \in calls : CallLost(c) \/ RefundShares(c)
  BY <1>7 DEF RefundShares, vars, FirstDaysEnd, PrepareRead, RideStep, PaymentSucceeds, CreditRead,
     RefundRead, PayRead, RecoverRead, CallLost, RowStep, WalletKept
<1> QED BY <1>1, <1>2, <1>3, <1>4, <1>5, <1>6, <1>7 DEF Next, CallStep

\* A refunded payment stays refunded.
LEMMA StaysRefunded ==
    ASSUME TypeOK, [Next]_vars
    PROVE  \A r \in Rides : payment[r] = "REFUNDED" => payment'[r] = "REFUNDED"
<1> USE DEF TypeOK
<1>1. ASSUME NEW r \in Rides, PaymentSucceeds(r)
      PROVE  \A q \in Rides : payment[q] = "REFUNDED" => payment'[q] = "REFUNDED"
  BY <1>1 DEF PaymentSucceeds
<1>2. ASSUME NEW c \in calls, RefundCommit(c)
      PROVE  \A q \in Rides : payment[q] = "REFUNDED" => payment'[q] = "REFUNDED"
  BY <1>2 DEF RefundCommit
<1>3. CASE UNCHANGED payment
  BY <1>3
<1> QED BY <1>1, <1>2, <1>3
    DEF Next, vars, FirstDaysEnd, RideStep, CreditRead, RefundRead, PrepareRead, PayRead,
        RecoverRead, Compensate, CallStep, CreditCommit, RefundShares, PrepareCommit, PayCommit,
        RecoverCommit, CallLost

-----------------------------------------------------------------------------
(* The invariant.                                                          *)

\* What the driver owes stays covered by what refunds took back.
LEMMA StepOwes == ASSUME IInv, [Next]_vars PROVE OwesOnlyRefunds'
<1> USE DEF IInv, TypeOK, OwesOnlyRefunds
<1>1. RowStep
  BY RowSteps
<1>2. CASE WalletKept
  BY <1>2 DEF WalletKept
<1>3. ASSUME NEW ref \in Reference, NEW x \in Int, Raises(ref, x) PROVE OwesOnlyRefunds'
  BY <1>3 DEF Raises, Post
<1>4. ASSUME NEW r \in Rides, NEW x \in Int, Post(<<"reversal", r>>, -x),
             takenBack' = takenBack + x
      PROVE  OwesOnlyRefunds'
  BY <1>4 DEF Post
<1>5. CASE UNCHANGED <<balance, takenBack>>
  BY <1>5
<1>6. ASSUME NEW p \in Payouts, balance + takenBack >= payout[p].amount,
             Post(<<"payout", p>>, -payout[p].amount), UNCHANGED takenBack
      PROVE  OwesOnlyRefunds'
  <2>1. payout[p].amount \in Int
    OBVIOUS
  <2> QED BY <1>6, <2>1 DEF Post
<1> QED BY <1>1, <1>2, <1>3, <1>4, <1>5, <1>6, References DEF RowStep

\* One payout is prepared at a time, and each has the entry of its status.
LEMMA StepPayouts == ASSUME IInv, [Next]_vars PROVE PayoutsMatch'
<1> USE DEF IInv, TypeOK, PayoutsMatch, Prepared
<1>1. RowStep
  BY RowSteps
<1>2. CASE UNCHANGED <<payout, entry>>
  BY <1>2
<1>3. ASSUME NEW ref \in Reference, \A p \in Payouts : ref # <<"payout", p>>,
             NEW x, Post(ref, x), UNCHANGED payout
      PROVE  PayoutsMatch'
  <2>1. \A p \in Payouts : entry'[<<"payout", p>>] = entry[<<"payout", p>>]
    BY <1>3, References DEF Post
  <2> QED BY <1>3, <2>1
<1>4. ASSUME NEW p \in Payouts, NEW x \in Int, Prepared = {}, payout[p].status = "NONE", x > 0,
             payout' = [payout EXCEPT ![p] = [status |-> "PREPARED", amount |-> x]],
             UNCHANGED entry
      PROVE  PayoutsMatch'
  <2>1. \A q \in Payouts : payout'[q] = IF q = p THEN [status |-> "PREPARED", amount |-> x]
                                                  ELSE payout[q]
    BY <1>4
  <2>2. entry[<<"payout", p>>] = 0
    BY <1>4
  <2> QED BY <1>4, <2>1, <2>2
<1>5. ASSUME NEW p \in Payouts, payout[p].status = "PREPARED", payout[p].amount > 0,
             payout' = [payout EXCEPT ![p].status = "PAID"],
             Post(<<"payout", p>>, -payout[p].amount)
      PROVE  PayoutsMatch'
  <2>1. \A q \in Payouts :
           /\ payout'[q].status = IF q = p THEN "PAID" ELSE payout[q].status
           /\ payout'[q].amount = payout[q].amount
    BY <1>5
  <2>2. \A q \in Payouts : entry'[<<"payout", q>>] =
                              IF q = p THEN -payout[p].amount ELSE entry[<<"payout", q>>]
    BY <1>5, References DEF Post
  <2> QED BY <1>5, <2>1, <2>2
<1>6. ASSUME NEW r \in Rides, NEW x \in Int, Post(<<"reversal", r>>, -x), UNCHANGED payout
      PROVE  PayoutsMatch'
  BY <1>3, <1>6, References
<1>7. ASSUME NEW ref \in Reference, \A p \in Payouts : ref # <<"payout", p>>,
             NEW x, Raises(ref, x)
      PROVE  PayoutsMatch'
  BY <1>3, <1>7 DEF Raises
<1> QED BY <1>1, <1>2, <1>4, <1>5, <1>6, <1>7, References DEF RowStep, WalletKept

\* The reversal and the credit are both shares of the fare.
LEMMA StepReversal == ASSUME IInv, [Next]_vars PROVE ReversalNearCredit'
<1> USE DEF IInv, TypeOK, ReversalNearCredit, LeftAfterRefund
<1>1. RowStep
  BY RowSteps
<1>2. \A r \in Rides : payment[r] = "REFUNDED" => payment'[r] = "REFUNDED"
  BY StaysRefunded
<1>3. ASSUME \A r \in Rides : /\ entry'[<<"credit", r>>] = entry[<<"credit", r>>]
                              /\ entry'[<<"reversal", r>>] = entry[<<"reversal", r>>]
      PROVE  ReversalNearCredit'
  BY <1>2, <1>3
<1>4. ASSUME NEW ref \in Reference, NEW x, Post(ref, x),
             \A r \in Rides : ref # <<"credit", r>> /\ ref # <<"reversal", r>>
      PROVE  ReversalNearCredit'
  <2>1. \A r \in Rides : /\ entry'[<<"credit", r>>] = entry[<<"credit", r>>]
                         /\ entry'[<<"reversal", r>>] = entry[<<"reversal", r>>]
    BY <1>4, References DEF Post
  <2> QED BY <1>3, <2>1
<1>5. ASSUME NEW r \in Rides, NEW x \in Int, Raises(<<"credit", r>>, x)
      PROVE  ReversalNearCredit'
  <2>1. \A q \in Rides :
           /\ entry'[<<"credit", q>>] = IF q = r THEN x ELSE entry[<<"credit", q>>]
           /\ entry'[<<"reversal", q>>] = entry[<<"reversal", q>>]
    BY <1>5, References DEF Raises, Post
  <2>2. entry[<<"reversal", r>>] = 0
    BY <1>5 DEF Raises
  <2> QED BY <1>2, <2>1, <2>2
<1>6. ASSUME NEW r \in Rides, NEW back \in Int, Credited(r), back > 0,
             entry[<<"reversal", r>>] = 0, IsShare(back, Amount[r]),
             Post(<<"reversal", r>>, -back), payment' = [payment EXCEPT ![r] = "REFUNDED"]
      PROVE  ReversalNearCredit'
  <2> DEFINE first == Share(Amount[r], OnboardingRate)
             later == Share(Amount[r], StandardRate)
             credit == entry[<<"credit", r>>]
  <2>1. Amount[r] \in Fares
    BY Amounts
  <2>2. /\ first \in Fares /\ later \in Fares /\ later <= first
        /\ 50 * (first - later) <= Amount[r] + 500
    BY <2>1, ShareBounds
  <2>3. credit \in {first, later} /\ credit # 0
    BY <1>6, References DEF Credited, AmountsShared, IsShare
  <2>4. back \in {first, later}
    BY <1>6 DEF IsShare
  <2>5. credit \in Int /\ credit + -back \in {0, first - later, later - first}
    BY <2>2, <2>3, <2>4 DEF Fares
  <2> HIDE DEF first, later
  <2>6. /\ -(Amount[r] + 500) <= 50 * (credit + -back)
        /\ 50 * (credit + -back) <= Amount[r] + 500
    BY <2>1, <2>2, <2>5 DEF Fares
  <2>7. \A q \in Rides :
           /\ entry'[<<"credit", q>>] = entry[<<"credit", q>>]
           /\ entry'[<<"reversal", q>>] = IF q = r THEN -back ELSE entry[<<"reversal", q>>]
           /\ q = r => payment'[q] = "REFUNDED"
    <3>1. payment'[r] = "REFUNDED"
      BY <1>6
    <3>2. \A q \in Rides : /\ <<"credit", q>> \in Reference /\ <<"reversal", q>> \in Reference
                           /\ <<"credit", q>> # <<"reversal", r>>
      BY References
    <3>3. entry' = [entry EXCEPT ![<<"reversal", r>>] = -back]
      BY <1>6 DEF Post
    <3>4. \A q \in Rides : /\ entry'[<<"credit", q>>] = entry[<<"credit", q>>]
                           /\ entry'[<<"reversal", q>>] =
                                 IF q = r THEN -back ELSE entry[<<"reversal", q>>]
      BY <3>2, <3>3
    <3> QED BY <3>1, <3>4
  <2>8. -back < 0
    BY <1>6
  <2> QED BY <1>2, <2>3, <2>6, <2>7, <2>8
<1>7. ASSUME NEW p \in Payouts, NEW x, Post(<<"payout", p>>, x) PROVE ReversalNearCredit'
  BY <1>4, <1>7, References
<1>8. ASSUME NEW ref \in Reference, NEW x \in Int, Raises(ref, x),
             \A r \in Rides : ref # <<"credit", r>> /\ ref # <<"reversal", r>>
      PROVE  ReversalNearCredit'
  BY <1>4, <1>8 DEF Raises
<1>9. CASE UNCHANGED entry
  BY <1>3, <1>9
<1> HIDE DEF IInv, TypeOK, ReversalNearCredit, LeftAfterRefund
<1> QED BY <1>1, <1>5, <1>6, <1>7, <1>8, <1>9, References DEF RowStep, WalletKept

\* The handlers a step may add, with what they hold.
LEMMA NewCalls ==
    ASSUME TypeOK, [Next]_vars, NEW d \in calls', d \notin calls
    PROVE  /\ d.op = "credit" => IsShare(d.amount, Amount[d.of])
           /\ d.op = "refund" /\ d.amount # 0 => IsShare(d.amount, Amount[d.of])
           /\ d.op \in {"prepare", "recover"} => d.amount > 0
           /\ d.op = "pay" => /\ payout[d.of].status = "PREPARED" /\ Covered(d.of)
                              /\ UNCHANGED <<payout, balance, takenBack>>
<1> USE DEF TypeOK, Begin
<1>1. CASE PrepareRead
  BY <1>1 DEF PrepareRead
<1>2. ASSUME NEW r \in Rides, CreditRead(r) \/ RefundRead(r)
      PROVE  /\ d.op \in {"credit", "refund"}
             /\ d.op = "credit" => IsShare(d.amount, Amount[d.of])
             /\ d.op = "refund" => d.amount = 0
  BY <1>2 DEF CreditRead, RefundRead, IsShare
<1>6. ASSUME NEW c \in calls, RefundShares(c)
      PROVE  d.op = "refund" /\ IsShare(d.amount, Amount[d.of])
  <2>1. d = WithShare(c) /\ c.op = "refund"
    BY <1>6 DEF RefundShares, GoesOn
  <2> QED BY <2>1, RefundWithShare
<1>3. ASSUME NEW p \in Payouts, PayRead(p)
      PROVE  /\ d.op = "pay" /\ payout[d.of].status = "PREPARED" /\ Covered(d.of)
             /\ UNCHANGED <<payout, balance, takenBack>>
  BY <1>3 DEF PayRead
<1>4. ASSUME NEW k \in Recoveries, RecoverRead(k) PROVE d.op = "recover" /\ d.amount > 0
  <2>1. Recovered(k) > 0
    BY <1>4, Amounts DEF RecoverRead, Recovered, Fares
  <2>2. d = [op |-> "recover", of |-> k, amount |-> Recovered(k)]
    BY <1>4 DEF RecoverRead
  <2> QED BY <2>1, <2>2
<1>5. \/ PrepareRead
      \/ \E r \in Rides : CreditRead(r) \/ RefundRead(r)
      \/ \E p \in Payouts : PayRead(p)
      \/ \E k \in Recoveries : RecoverRead(k)
      \/ \E c \in calls : RefundShares(c)
  BY DEF Next, vars, FirstDaysEnd, RideStep, PaymentSucceeds, Compensate, CallStep,
     CreditCommit, RefundCommit, PrepareCommit, PayCommit, RecoverCommit, CallLost, Finish
<1> QED BY <1>1, <1>2, <1>3, <1>4, <1>5, <1>6

\* Recorded and prepared amounts are positive.
LEMMA StepPositive == ASSUME IInv, [Next]_vars PROVE AmountsPositive'
  BY NewCalls DEF IInv, AmountsPositive

\* Credits and refunds move shares of their rides.
LEMMA StepShared == ASSUME IInv, [Next]_vars PROVE AmountsShared'
<1> USE DEF IInv, AmountsShared
<1> TypeOK /\ calls \subseteq Call
  BY DEF TypeOK
<1>1. ASSUME NEW c \in calls', c.op = "credit" \/ (c.op = "refund" /\ c.amount # 0)
      PROVE  IsShare(c.amount, Amount[c.of])
  <2>1. CASE c \in calls
    BY <1>1, <2>1
  <2>2. CASE c \notin calls
    BY <1>1, <2>2, NewCalls
  <2> QED BY <2>1, <2>2
<1>2. ASSUME NEW r \in Rides, entry'[<<"credit", r>>] # 0
      PROVE  IsShare(entry'[<<"credit", r>>], Amount[r])
  <2>1. CASE entry'[<<"credit", r>>] = entry[<<"credit", r>>]
    BY <1>2, <2>1
  <2>2. CASE entry'[<<"credit", r>>] # entry[<<"credit", r>>]
    <3>1. PICK x \in Int : Raises(<<"credit", r>>, x) /\ IsShare(x, Amount[r])
      BY <2>2, RowSteps, References DEF RowStep, WalletKept, Raises, Post, TypeOK
    <3>2. entry'[<<"credit", r>>] = x
      BY <3>1, References DEF Raises, Post, TypeOK
    <3> QED BY <3>1, <3>2
  <2> QED BY <2>1, <2>2
<1> QED BY <1>1, <1>2 DEF IsShare

\* A payment of a prepared payout in flight is covered.
LEMMA StepCovered == ASSUME IInv, [Next]_vars PROVE PaysCovered'
<1> USE DEF IInv, TypeOK
<1> calls' \subseteq Call
  BY StepType DEF TypeOK
<1> SUFFICES ASSUME NEW c \in calls', c.op = "pay"
             PROVE  /\ payout'[c.of].status # "NONE"
                    /\ payout'[c.of].status = "PREPARED" =>
                          balance' + takenBack' >= payout'[c.of].amount
  BY DEF PaysCovered
<1> c.of \in Payouts
  BY CallFields
<1>1. CASE c \notin calls
  <2>1. /\ payout[c.of].status = "PREPARED" /\ Covered(c.of)
        /\ UNCHANGED <<payout, balance, takenBack>>
    BY <1>1, NewCalls
  <2>2. takenBack >= 0
    BY DEF TakenBackNat
  <2> QED BY <2>1, <2>2 DEF Covered
<1>2. CASE c \in calls
  <2>1. /\ payout[c.of].status # "NONE"
        /\ payout[c.of].status = "PREPARED" => balance + takenBack >= payout[c.of].amount
    BY <1>2 DEF PaysCovered
  <2>2. CASE WalletKept \/ UNCHANGED <<payout, balance, takenBack>>
    BY <2>1, <2>2 DEF WalletKept
  <2>3. ASSUME NEW ref \in Reference, NEW x \in Int, Raises(ref, x)
        PROVE  /\ payout' = payout /\ balance' + takenBack' >= balance + takenBack
    BY <2>3 DEF Raises, Post
  <2>4. ASSUME NEW r \in Rides, NEW x \in Int, Post(<<"reversal", r>>, -x),
               takenBack' = takenBack + x
        PROVE  balance' + takenBack' = balance + takenBack
    BY <2>4 DEF Post
  <2>5. ASSUME NEW p \in Payouts, NEW x \in Int, payout[p].status = "NONE",
               payout' = [payout EXCEPT ![p] = [status |-> "PREPARED", amount |-> x]],
               UNCHANGED <<balance, takenBack>>
        PROVE  /\ payout'[c.of].status # "NONE"
               /\ payout'[c.of].status = "PREPARED" =>
                     balance' + takenBack' >= payout'[c.of].amount
    <3>1. p # c.of
      BY <2>1, <2>5
    <3> QED BY <2>1, <2>5, <3>1
  <2>6. ASSUME NEW p \in Payouts, payout[p].status = "PREPARED",
               payout' = [payout EXCEPT ![p].status = "PAID"]
        PROVE  payout'[c.of].status \notin {"NONE", "PREPARED"}
    <3>1. CASE p = c.of
      BY <2>6, <3>1
    <3>2. CASE p # c.of
      BY <2>1, <2>6, <3>2 DEF PayoutsMatch, Prepared, PayoutStatus
    <3> QED BY <3>1, <3>2
  <2>8. RowStep
    BY RowSteps
  <2> DEFINE Goal == /\ payout'[c.of].status # "NONE"
                     /\ payout'[c.of].status = "PREPARED" =>
                           balance' + takenBack' >= payout'[c.of].amount
  <2>9. ASSUME NEW r \in Rides, NEW x \in Int, Post(<<"reversal", r>>, -x),
               takenBack' = takenBack + x, UNCHANGED payout
        PROVE  Goal
    BY <2>1, <2>4, <2>9
  <2>10. ASSUME WalletKept PROVE Goal
    BY <2>2, <2>10
  <2>11. ASSUME NEW ref \in Reference, NEW x \in Int, Raises(ref, x) PROVE Goal
    <3>1. payout' = payout /\ balance' + takenBack' >= balance + takenBack
      BY <2>3, <2>11
    <3>2. balance' \in Int /\ takenBack' \in Int
      BY StepType
    <3>3. payout[c.of].amount \in Int
      OBVIOUS
    <3>4. payout[c.of].status = "PREPARED" => balance' + takenBack' >= payout[c.of].amount
      <4>1. \A a, b, n \in Int : a >= b /\ b >= n => a >= n
        OBVIOUS
      <4>2. balance' + takenBack' \in Int /\ balance + takenBack \in Int
        BY <3>2
      <4> QED BY <2>1, <3>1, <3>3, <4>1, <4>2
    <3> QED BY <2>1, <3>1, <3>4
  <2>12. ASSUME NEW p \in Payouts, NEW x \in Int, payout[p].status = "NONE",
                payout' = [payout EXCEPT ![p] = [status |-> "PREPARED", amount |-> x]],
                UNCHANGED <<balance, takenBack>>
         PROVE  Goal
    BY <2>5, <2>12
  <2>13. ASSUME NEW p \in Payouts, payout[p].status = "PREPARED",
                payout' = [payout EXCEPT ![p].status = "PAID"]
         PROVE  Goal
    BY <2>6, <2>13
  <2> HIDE DEF Goal
  <2>14. Goal
    BY <2>8, <2>9, <2>10, <2>11, <2>12, <2>13, References DEF RowStep
  <2> QED BY <2>14 DEF Goal
<1> QED BY <1>1, <1>2

\* What refunds took back only grows.
LEMMA StepTakenBack == ASSUME IInv, [Next]_vars PROVE TakenBackNat'
<1>1. RowStep
  BY RowSteps
<1>2. \/ takenBack' = takenBack
      \/ \E x \in Int : x > 0 /\ takenBack' = takenBack + x
  BY <1>1 DEF RowStep, WalletKept, Raises
<1> QED BY <1>2 DEF IInv, TypeOK, TakenBackNat

\* The invariant holds in every reachable state.
THEOREM InvariantHolds == Spec => []IInv
<1>1. IInv /\ [Next]_vars => IInv'
  <2> SUFFICES ASSUME IInv, [Next]_vars PROVE IInv'
    OBVIOUS
  <2>1. TypeOK'
    BY StepType DEF IInv
  <2> QED BY <2>1, StepTakenBack, StepShared, StepPositive, StepCovered, StepPayouts,
             StepOwes, StepReversal
      DEF IInv
<1> QED BY <1>1, InitInv, PTL DEF Spec

-----------------------------------------------------------------------------
(* The theorems.                                                           *)

\* One payout is prepared at a time, and a payout is PAID if and only if it was debited.
THEOREM PayoutsMatchAlways == Spec => []PayoutsMatch
<1>1. IInv => PayoutsMatch
  BY DEF IInv
<1> QED BY <1>1, InvariantHolds, PTL

\* The driver never owes more than refunds took back.
THEOREM OwesOnlyRefundsAlways == Spec => []OwesOnlyRefunds
<1>1. IInv => OwesOnlyRefunds
  BY DEF IInv
<1> QED BY <1>1, InvariantHolds, PTL

\* What a refund computes again differs from the credit by less than 2 % of the fare and
\* one rounding step: so much is the disagreement of ReversalIsOriginal worth.
THEOREM ReversalNearCreditAlways == Spec => []ReversalNearCredit
<1>1. IInv => ReversalNearCredit
  BY DEF IInv
<1> QED BY <1>1, InvariantHolds, PTL

\* The wallet is an account: every step posts one new entry or leaves it alone.
THEOREM WalletIsAnAccount == Spec => ImplementsLedgerAccount
<1>1. Init => Account!Init
  BY DEF Init, Account!Init
<1>2. IInv /\ [Next]_vars => [Account!Next]_(Account!vars)
  <2> SUFFICES ASSUME IInv, [Next]_vars PROVE [Account!Next]_(Account!vars)
    OBVIOUS
  <2> USE DEF IInv, TypeOK
  <2>1. RowStep
    BY RowSteps
  <2>2. CASE UNCHANGED <<balance, entry>>
    BY <2>2 DEF Account!vars
  <2>3. ASSUME NEW ref \in Reference, NEW x \in Int, x # 0, entry[ref] = 0, Post(ref, x)
        PROVE  Account!Next
    <3>1. entry'[ref] = x
      BY <2>3 DEF Post
    <3> QED BY <2>3, <3>1 DEF Post, Account!Next, Account!Post
  <2>4. ASSUME NEW ref \in Reference, NEW x \in Int, Raises(ref, x) PROVE Account!Next
    BY <2>3, <2>4 DEF Raises
  <2>5. ASSUME NEW r \in Rides, NEW x \in Int, x > 0, entry[<<"reversal", r>>] = 0,
               Post(<<"reversal", r>>, -x)
        PROVE  Account!Next
    <3>1. -x \in Int /\ -x # 0
      BY <2>5
    <3> QED BY <2>3, <2>5, <3>1, References
  <2>6. ASSUME NEW p \in Payouts, payout[p].amount > 0, entry[<<"payout", p>>] = 0,
               Post(<<"payout", p>>, -payout[p].amount)
        PROVE  Account!Next
    <3>1. payout[p].amount \in Int
      OBVIOUS
    <3>2. -payout[p].amount \in Int /\ -payout[p].amount # 0
      BY <2>6, <3>1
    <3> QED BY <2>3, <2>6, <3>2, References
  <2> QED BY <2>1, <2>2, <2>4, <2>5, <2>6, References DEF RowStep, WalletKept
<1> QED BY <1>1, <1>2, InvariantHolds, PTL DEF Spec, ImplementsLedgerAccount, Account!Spec
-----------------------------------------------------------------------------
(* The balance is the sum of the entries.                                  *)

Added == \E T \in Account!Totals : T[Reference] = balance

\* There is no more than one way to add up finitely many entries: a smallest set on
\* which two totals differ would lose an element and differ still.
LEMMA OneTotal ==
    ASSUME IsFiniteSet(Reference), NEW T \in Account!Totals, NEW U \in Account!Totals
    PROVE  T[Reference] = U[Reference]
<1> DEFINE Differ == {A \in FiniteSubsetsOf(Reference) : T[A] # U[A]}
<1>1. SUFFICES ASSUME T[Reference] # U[Reference] PROVE FALSE
  OBVIOUS
<1>2. Reference \in Differ
  BY <1>1 DEF FiniteSubsetsOf
<1>3. IsWellFoundedOn(StrictSubsetOrdering(Reference), FiniteSubsetsOf(Reference))
  BY FS_StrictSubsetOrderingWellFounded
<1>4. PICK A \in Differ : \A B \in Differ : <<B, A>> \notin StrictSubsetOrdering(Reference)
  <2>1. Differ \subseteq FiniteSubsetsOf(Reference) /\ Differ # {}
    BY <1>2
  <2> HIDE DEF Differ
  <2> QED BY <1>3, <2>1, WFMin
<1>5. A \subseteq Reference /\ IsFiniteSet(A) /\ T[A] # U[A]
  BY DEF FiniteSubsetsOf
<1>6. A # {}
  BY <1>5 DEF Account!Totals
<1>7. PICK r \in A : TRUE
  BY <1>6
<1> DEFINE B == A \ {r}
<1>8. B \in SUBSET Reference /\ r \in Reference \ B /\ A = B \cup {r}
  BY <1>5, <1>7
<1>9. T[B] # U[B]
  <2>1. T[A] = T[B] + entry[r] /\ U[A] = U[B] + entry[r]
    BY <1>8 DEF Account!Totals
  <2> QED BY <1>5, <2>1
<1>10. IsFiniteSet(B)
  BY <1>5, FS_RemoveElement
<1>11. B \in Differ
  BY <1>8, <1>9, <1>10 DEF FiniteSubsetsOf
<1>12. <<B, A>> \in StrictSubsetOrdering(Reference)
  BY <1>5, <1>7, <1>8 DEF StrictSubsetOrdering
<1> QED BY <1>4, <1>11, <1>12

\* A new entry adds its amount to the total of every set it is in.
LEMMA AddedStep ==
    ASSUME entry \in [Reference -> Int], entry' \in [Reference -> Int],
           Added, [Account!Next]_(Account!vars)
    PROVE  Added'
<1>1. PICK T \in Account!Totals : T[Reference] = balance
  BY DEF Added
<1>2. CASE UNCHANGED Account!vars
  BY <1>2 DEF Account!vars, Added, Account!Totals
<1>3. ASSUME NEW r \in Reference, Account!Post(r) PROVE Added'
  <2> DEFINE U == [A \in SUBSET Reference |-> IF r \in A THEN T[A] + entry'[r] ELSE T[A]]
  <2>1. /\ entry[r] = 0 /\ entry'[r] \in Int /\ balance' = balance + entry'[r]
        /\ \A s \in Reference \ {r} : entry'[s] = entry[s]
    BY <1>3 DEF Account!Post
  <2>2. T \in [SUBSET Reference -> Int] /\ \A s \in Reference : entry[s] \in Int
    BY DEF Account!Totals
  <2>3. U \in [SUBSET Reference -> Int] /\ U[{}] = 0
    BY <2>1, <2>2 DEF Account!Totals
  <2>4. ASSUME NEW A \in SUBSET Reference, NEW s \in Reference \ A
        PROVE  U[A \cup {s}] = U[A] + entry'[s]
    <3>1. T[A \cup {s}] = T[A] + entry[s] /\ A \cup {s} \in SUBSET Reference
      BY DEF Account!Totals
    <3>2. T[A] \in Int /\ entry[s] \in Int
      BY <2>2
    <3>3. CASE s = r
      BY <2>1, <3>1, <3>2, <3>3
    <3>4. CASE s # r
      BY <2>1, <3>1, <3>2, <3>4
    <3> QED BY <3>3, <3>4
  <2>5. U \in Account!Totals'
    BY <2>3, <2>4 DEF Account!Totals
  <2>6. U[Reference] = balance'
    BY <1>1, <2>1
  <2> QED BY <2>5, <2>6 DEF Added
<1> QED BY <1>2, <1>3 DEF Account!Next

\* The balance that the code keeps by increments is at any time the sum of the wallet's
\* entries, however its handlers interleave.
THEOREM BalanceIsTotalAlways ==
    ASSUME IsFiniteSet(Reference)
    PROVE  Spec => []Account!BalanceIsTotal
<1>1. Init => Added
  <2> SUFFICES ASSUME Init PROVE Added
    OBVIOUS
  <2> DEFINE T == [A \in SUBSET Reference |-> 0]
  <2>1. T \in Account!Totals /\ T[Reference] = balance
    BY DEF Init, Account!Totals
  <2> QED BY <2>1 DEF Added
<1>2. IInv /\ IInv' /\ [Account!Next]_(Account!vars) /\ Added => Added'
  BY AddedStep DEF IInv, TypeOK
<1>3. Added => Account!BalanceIsTotal
  BY OneTotal DEF Added, Account!BalanceIsTotal
<1> QED
  BY <1>1, <1>2, <1>3, InvariantHolds, WalletIsAnAccount, PTL
  DEF Spec, ImplementsLedgerAccount, Account!Spec

-----------------------------------------------------------------------------
(* Recoveries.                                                             *)

\* RecoveryBounded of the amount a handler is about to record.
RecoversBounded ==
    \A c \in calls : c.op = "recover" => c.amount <= Amount[c.of] /\ c.amount <= takenBack

LEMMA StepRecovery ==
    ASSUME IInv, RecoveryBounded, RecoversBounded, [Next]_vars
    PROVE  RecoveryBounded' /\ RecoversBounded'
<1> USE DEF IInv, TypeOK
<1>0. takenBack' >= takenBack /\ takenBack' \in Int
  <2>1. \/ takenBack' = takenBack
        \/ \E x \in Int : x > 0 /\ takenBack' = takenBack + x
    BY RowSteps DEF RowStep, WalletKept, Raises
  <2> QED BY <2>1
<1>1. ASSUME NEW d \in calls', d.op = "recover"
      PROVE  d.amount <= Amount[d.of] /\ d.amount <= takenBack'
  <2>0. d \in Call
    BY StepType
  <2>1. d.of \in Recoveries /\ d.amount \in Int
    BY <1>1, <2>0, CallFields
  <2>2. CASE d \in calls
    BY <1>0, <1>1, <2>1, <2>2 DEF RecoversBounded
  <2>3. CASE d \notin calls
    <3>1. PICK k \in Recoveries : RecoverRead(k)
      <4>1. ~PrepareRead
        BY <1>1, <2>3 DEF PrepareRead, Begin
      <4>2. \A r \in Rides : ~CreditRead(r) /\ ~RefundRead(r)
        BY <1>1, <2>3 DEF CreditRead, RefundRead, Begin
      <4>3. \A p \in Payouts : ~PayRead(p)
        BY <1>1, <2>3 DEF PayRead, Begin
      <4>5. \A c \in calls : ~RefundShares(c)
        BY <1>1, <2>3, RefundWithShare DEF RefundShares, GoesOn
      <4>4. \/ PrepareRead
            \/ \E r \in Rides : CreditRead(r) \/ RefundRead(r)
            \/ \E p \in Payouts : PayRead(p)
            \/ \E k \in Recoveries : RecoverRead(k)
            \/ \E c \in calls : RefundShares(c)
        BY <2>3
        DEF Next, vars, FirstDaysEnd, RideStep, PaymentSucceeds, Compensate, CallStep,
            CreditCommit, RefundCommit, PrepareCommit, PayCommit, RecoverCommit, CallLost,
            Finish
      <4> QED BY <4>1, <4>2, <4>3, <4>4, <4>5
    <3>2. d = [op |-> "recover", of |-> k, amount |-> Recovered(k)]
      BY <2>3, <3>1 DEF RecoverRead, Begin
    <3>3. Recovered(k) <= Amount[k] /\ Recovered(k) <= takenBack
      BY Amounts DEF OwesOnlyRefunds, Recovered, Fares
    <3>4. takenBack' = takenBack
      BY <3>1 DEF RecoverRead
    <3> QED BY <3>2, <3>3, <3>4
  <2> QED BY <2>2, <2>3
<1>2. ASSUME NEW k \in Recoveries
      PROVE  entry'[<<"recovery", k>>] <= Amount[k] /\ entry'[<<"recovery", k>>] <= takenBack'
  <2>1. entry[<<"recovery", k>>] \in Int /\ <<"recovery", k>> \in Reference
    BY References
  <2>2. CASE entry'[<<"recovery", k>>] = entry[<<"recovery", k>>]
    BY <1>0, <2>1, <2>2 DEF RecoveryBounded
  <2>3. CASE entry'[<<"recovery", k>>] # entry[<<"recovery", k>>]
    <3>1. PICK c \in calls : RecoverCommit(c) /\ c.of = k /\ entry'[<<"recovery", k>>] = c.amount
      BY <2>1, <2>3, CallFields, References
      DEF Next, vars, FirstDaysEnd, RideStep, PaymentSucceeds, CreditRead, RefundRead,
          PrepareRead, PayRead, RecoverRead, Compensate, CallStep, CreditCommit, RefundShares,
          RefundCommit, PrepareCommit, PayCommit, RecoverCommit, CallLost, Post
    <3>2. c.op = "recover" /\ UNCHANGED takenBack
      BY <3>1 DEF RecoverCommit
    <3> QED BY <3>1, <3>2 DEF RecoversBounded
  <2> QED BY <2>2, <2>3
<1> QED BY <1>1, <1>2 DEF RecoveryBounded, RecoversBounded

\* However many operators record recoveries at once, none corrects the wallet by more
\* than the reversals that can have made it negative.
THEOREM RecoveryBoundedAlways == Spec => []RecoveryBounded
<1>1. Init => RecoveryBounded /\ RecoversBounded
  BY References, Amounts DEF Init, RecoveryBounded, RecoversBounded, Fares
<1>2. IInv /\ RecoveryBounded /\ RecoversBounded /\ [Next]_vars
          => RecoveryBounded' /\ RecoversBounded'
  BY StepRecovery
<1> QED BY <1>1, <1>2, InvariantHolds, PTL DEF Spec
-----------------------------------------------------------------------------
(* The driver's side of the payments' entries.                             *)

RidePaid == {r \in Rides : payment[r] # "NONE"}
RideEntries == [r \in Rides |-> {k \in {"credit", "reversal"} : entry[<<k, r>>] # 0}]

\* Here every ride has its driver.
RideSide == INSTANCE PaymentLedger
            WITH Attempts <- Rides, received <- RidePaid, hasDriver <- Rides,
                 ledger <- RideEntries

\* A credit or a refund in flight is about a payment that was made.
AboutPaid == \A c \in calls : c.op \in {"credit", "refund"} => c.of \in RidePaid

LEMMA StepAboutPaid == ASSUME TypeOK, AboutPaid, [Next]_vars PROVE AboutPaid'
<1> USE DEF TypeOK, RidePaid
<1>1. \A r \in Rides : r \in RidePaid => r \in RidePaid'
  <2>1. ASSUME NEW r \in Rides, PaymentSucceeds(r) PROVE RidePaid \subseteq RidePaid'
    BY <2>1 DEF PaymentSucceeds
  <2>2. ASSUME NEW c \in calls, RefundCommit(c) PROVE RidePaid \subseteq RidePaid'
    BY <2>2 DEF RefundCommit
  <2>3. CASE UNCHANGED payment
    BY <2>3
  <2> QED BY <2>1, <2>2, <2>3
      DEF Next, vars, FirstDaysEnd, RideStep, CreditRead, RefundRead, PrepareRead, PayRead,
          RecoverRead, Compensate, CallStep, CreditCommit, RefundShares, PrepareCommit, PayCommit,
          RecoverCommit, CallLost
<1>2. ASSUME NEW d \in calls', d \notin calls, d.op \in {"credit", "refund"}
      PROVE  d.of \in RidePaid
  <2>6. ASSUME NEW c \in calls, RefundShares(c) PROVE d.of \in RidePaid
    BY <1>2, <2>6, RefundWithShare DEF RefundShares, GoesOn, AboutPaid
  <2>1. ASSUME NEW r \in Rides, CreditRead(r) \/ RefundRead(r) PROVE d.of \in RidePaid
    BY <1>2, <2>1 DEF CreditRead, RefundRead, Begin
  <2>2. ~PrepareRead
    BY <1>2 DEF PrepareRead, Begin
  <2>3. \A p \in Payouts : ~PayRead(p)
    BY <1>2 DEF PayRead, Begin
  <2>4. \A k \in Recoveries : ~RecoverRead(k)
    BY <1>2 DEF RecoverRead, Begin
  <2>5. \/ PrepareRead
        \/ \E r \in Rides : CreditRead(r) \/ RefundRead(r)
        \/ \E p \in Payouts : PayRead(p)
        \/ \E k \in Recoveries : RecoverRead(k)
        \/ \E c \in calls : RefundShares(c)
    BY <1>2
    DEF Next, vars, FirstDaysEnd, RideStep, PaymentSucceeds, Compensate, CallStep,
        CreditCommit, RefundCommit, PrepareCommit, PayCommit, RecoverCommit, CallLost, Finish
  <2> QED BY <2>1, <2>2, <2>3, <2>4, <2>5, <2>6
<1> QED BY <1>1, <1>2 DEF AboutPaid

\* An entry of another kind is none of the ledger's.
LEMMA OtherEntry ==
    ASSUME TypeOK, NEW k \in {"payout", "recovery", "compensation"}, NEW x, NEW amount \in Int,
           Post(<<k, x>>, amount)
    PROVE  RideEntries' = RideEntries
<1>1. \A r \in Rides, j \in {"credit", "reversal"} : entry'[<<j, r>>] = entry[<<j, r>>]
  BY References DEF Post, TypeOK
<1> QED BY <1>1 DEF RideEntries

\* One of a ride adds its kind to the ride's.
LEMMA RideEntry ==
    ASSUME TypeOK, NEW r \in Rides, NEW k \in {"credit", "reversal"}, NEW amount \in Int,
           amount # 0, Post(<<k, r>>, amount)
    PROVE  RideEntries' = [RideEntries EXCEPT ![r] = @ \cup {k}]
<1>1. \A q \in Rides, j \in {"credit", "reversal"} :
         entry'[<<j, q>>] = IF j = k /\ q = r THEN amount ELSE entry[<<j, q>>]
  BY References DEF Post, TypeOK
<1>2. \A q \in Rides : RideEntries'[q] =
                          IF q = r THEN RideEntries[q] \cup {k} ELSE RideEntries[q]
  BY <1>1 DEF RideEntries
<1> QED BY <1>2 DEF RideEntries

\* With PaymentSideIsLedger of the rider's wallet: both wallets post what a payment may
\* leave in PaymentLedger, each entry once and in its order.
THEOREM RideSideIsLedger == Spec => [][RideSide!Next]_(RideSide!vars)
<1>1. Init => AboutPaid
  BY DEF Init, AboutPaid
<1>2. ASSUME IInv, AboutPaid, [Next]_vars PROVE [RideSide!Next]_(RideSide!vars)
  <2> USE <1>2 DEF IInv
  <2>1. CASE UNCHANGED <<payment, entry>>
    BY <2>1 DEF RideSide!vars, RidePaid, RideEntries
  <2>2. ASSUME NEW r \in Rides, PaymentSucceeds(r) PROVE RideSide!Next
    <3>1. RidePaid' = RidePaid \cup {r} /\ RideEntries' = RideEntries
      BY <2>2 DEF PaymentSucceeds, RidePaid, RideEntries, TypeOK
    <3> QED BY <3>1 DEF RideSide!Next, RideSide!Receive
  <2>3. ASSUME NEW c \in calls, CreditCommit(c) PROVE [RideSide!Next]_(RideSide!vars)
    <3>1. c.of \in Rides /\ c.of \in RidePaid /\ c.op = "credit" /\ RidePaid' = RidePaid
      BY <2>3, CallFields DEF CreditCommit, AboutPaid, RidePaid, TypeOK
    <3>2. c.amount \in Int /\ c.amount # 0
      BY <3>1, Shares DEF AmountsShared
    <3>3. CASE Credited(c.of)
      BY <2>1, <2>3, <3>3 DEF CreditCommit
    <3>4. CASE ~Credited(c.of)
      <4>1. RideEntries' = [RideEntries EXCEPT ![c.of] = @ \cup {"credit"}]
        BY <2>3, <3>1, <3>2, <3>4, RideEntry DEF CreditCommit
      <4>2. RideSide!Credit(c.of)
        BY <3>1, <4>1 DEF RideSide!Credit, RideSide!Post
      <4> QED BY <3>1, <4>2 DEF RideSide!Next
    <3> QED BY <3>3, <3>4
  <2>4. ASSUME NEW c \in calls, RefundCommit(c) PROVE [RideSide!Next]_(RideSide!vars)
    <3>1. c.of \in Rides /\ c.of \in RidePaid
      BY <2>4, CallFields DEF RefundCommit, AboutPaid, TypeOK
    <3>2. RidePaid' = RidePaid
      BY <2>4, <3>1 DEF RefundCommit, RidePaid, TypeOK
    <3>3. CASE ~Reverses(c.of)
      BY <2>4, <3>2, <3>3 DEF RefundCommit, RideSide!vars, RideEntries
    <3>4. CASE Reverses(c.of)
      <4>0. c.amount \in Int /\ c.amount > 0
        BY <2>4, CallFields DEF RefundCommit, TypeOK
      <4>1. -c.amount \in Int /\ -c.amount # 0
        BY <4>0
      <4>2. RideEntries' = [RideEntries EXCEPT ![c.of] = @ \cup {"reversal"}]
        BY <2>4, <3>1, <3>4, <4>1, RideEntry DEF RefundCommit
      <4>3. "credit" \in RideEntries[c.of]
        BY <3>1, <3>4 DEF Reverses, Credited, RideEntries
      <4>4. RideSide!Refund(c.of, {"reversal"})
        BY <3>2, <4>2, <4>3 DEF RideSide!Refund, RideSide!Post
      <4>5. {"reversal"} \in SUBSET RideSide!Entry
        BY DEF RideSide!Entry
      <4> QED BY <3>1, <4>4, <4>5 DEF RideSide!Next
    <3> QED BY <3>3, <3>4
  <2>5. ASSUME NEW c \in calls, PayCommit(c) PROVE [RideSide!Next]_(RideSide!vars)
    <3>1. c.of \in Payouts /\ -payout[c.of].amount \in Int
      BY <2>5, CallFields DEF PayCommit, TypeOK
    <3>2. RideEntries' = RideEntries
      BY <2>5, <3>1, OtherEntry DEF PayCommit, RideEntries
    <3> QED BY <2>5, <3>2 DEF PayCommit, RideSide!vars, RidePaid
  <2>6. ASSUME NEW c \in calls, RecoverCommit(c) PROVE [RideSide!Next]_(RideSide!vars)
    <3>1. c.amount \in Int
      BY <2>6, CallFields DEF RecoverCommit, TypeOK
    <3>2. RideEntries' = RideEntries
      BY <2>6, <3>1, OtherEntry DEF RecoverCommit, RideEntries
    <3> QED BY <2>6, <3>2 DEF RecoverCommit, RideSide!vars, RidePaid
  <2>7. ASSUME NEW t \in Tickets, Compensate(t) PROVE [RideSide!Next]_(RideSide!vars)
    <3>1. Amount[t] \in Int
      BY Amounts DEF Fares
    <3>2. RideEntries' = RideEntries
      BY <2>7, <3>1, OtherEntry DEF Compensate
    <3> QED BY <2>7, <3>2 DEF Compensate, RideSide!vars, RidePaid
  <2> QED BY <2>1, <2>2, <2>3, <2>4, <2>5, <2>6, <2>7
      DEF Next, vars, FirstDaysEnd, RideStep, CreditRead, RefundRead, PrepareRead, PayRead,
          RecoverRead, CallStep, RefundShares, PrepareCommit, CallLost
<1>3. TypeOK /\ AboutPaid /\ [Next]_vars => AboutPaid'
  BY StepAboutPaid
<1>4. IInv => TypeOK
  BY DEF IInv
<1> QED BY <1>1, <1>2, <1>3, <1>4, InvariantHolds, PTL DEF Spec
=============================================================================
