--------------------------- MODULE PaymentsProofs ---------------------------
(***************************************************************************)
(* Theorems about Payments, for every set of requests and attempts, both   *)
(* refund modes, with or without crashes and for any number of handlers.   *)
(*                                                                         *)
(* What an attempt is worth is decided by handlers that act on what they   *)
(* read, so the invariant says why each handler in flight was entitled to  *)
(* start (CallsJustified) and that the provider never speaks of an attempt *)
(* paid by wallet (WalletIsInternal).  With these, PaidWasReceived and     *)
(* WalletEntriesMatch are inductive, and every step is one of the ledger.  *)
(***************************************************************************)
EXTENDS Payments, TLAPS

\* A handler at work has the reason to act that its reads gave it.
Justified(c) ==
    /\ c.op \in {"credit", "refund", "finalize"} => Received(c.att)
    /\ c.op = "reconcile" => c.event \in sent[c.att]
    /\ c.op \in {"dispatch", "reconcile", "finalize"} => c.att \notin WalletAttempts

CallsJustified == \A c \in calls : Justified(c)

\* An attempt paid by wallet is settled inside Orbi, and only such an attempt is.
WalletIsInternal ==
    \A a \in Attempts :
        /\ a \in WalletAttempts =>
              sent[a] = {} /\ status[a] \in {"NONE", "SUCCEEDED", "REFUNDED"}
        /\ "debit" \in ledger[a] => a \in WalletAttempts

\* The inductive invariant.
IInv ==
    /\ TypeOK
    /\ CallsJustified
    /\ WalletIsInternal
    /\ PaidWasReceived
    /\ WalletEntriesMatch

\* The fields of a handler in flight.
LEMMA CallFields ==
    ASSUME NEW c \in Call
    PROVE  /\ c.att \in Attempts
           /\ c.op \in {"checkout", "dispatch", "credit", "reconcile", "refund", "finalize"}
           /\ c.op = "reconcile" => c.event \in Event
  BY DEF Call, AttemptCall, ReconcileCall, RefundCall

\* The handlers the actions start.
LEMMA CallsMade ==
    ASSUME NEW a \in Attempts
    PROVE  /\ \A op \in {"checkout", "dispatch", "credit"} : [op |-> op, att |-> a] \in Call
           /\ \A e \in Event : [op |-> "reconcile", att |-> a, event |-> e] \in Call
           /\ \A op \in {"refund", "finalize"}, t \in BOOLEAN :
                 [op |-> op, att |-> a, trip |-> t] \in Call
  BY DEF Call, AttemptCall, ReconcileCall, RefundCall

\* A handler that ends leaves no new one, one that goes on its continuation only.
LEMMA CallsLeft ==
    ASSUME NEW c
    PROVE  /\ Finish(c) => calls' \subseteq calls
           /\ \A d : Continue(c, d) => calls' \subseteq calls \cup {d}
  BY DEF Finish, Continue, Rest

\* The initial states satisfy the invariant.
LEMMA InitInv == Init => IInv
<1> SUFFICES ASSUME Init PROVE IInv
  OBVIOUS
<1>1. TypeOK
  BY AttemptsAssumption DEF Init, TypeOK, AttemptStatus, RideStatus
<1>2. CallsJustified /\ WalletIsInternal /\ PaidWasReceived /\ WalletEntriesMatch
  BY AttemptsAssumption
  DEF Init, CallsJustified, WalletIsInternal, PaidWasReceived, WalletEntriesMatch, Refunding
<1> QED BY <1>1, <1>2 DEF IInv

-----------------------------------------------------------------------------
(* Types.                                                                  *)

\* A refund posts entries of the two kinds a refund may have.
LEMMA RefundEntries ==
    ASSUME NEW c \in Call
    PROVE  Reversal(c) \subseteq {"reversal"} /\ RiderRefund(c) \subseteq {"refund"}
  BY DEF Reversal, RiderRefund

\* Every operation keeps the variables well-typed.
LEMMA StepType == ASSUME TypeOK, [Next]_vars PROVE TypeOK'
<1> USE AttemptsAssumption DEF TypeOK
<1>1. ASSUME NEW r \in Requests, RideMoves(r) PROVE TypeOK'
  BY <1>1 DEF RideMoves
<1>2. ASSUME NEW a \in Attempts, CheckoutRead(a) PROVE TypeOK'
  BY <1>2, CallsMade DEF CheckoutRead, Begin
<1>3. ASSUME NEW a \in Attempts, RefundRead(a) \/ FinalizeRead(a) PROVE TypeOK'
  <2>1. HasTrip(a) \in BOOLEAN
    BY DEF HasTrip
  <2> QED BY <1>3, <2>1, CallsMade DEF RefundRead, FinalizeRead, Begin
<1>4. ASSUME NEW a \in Attempts, NEW e \in Event, ProviderSends(a, e) PROVE TypeOK'
  BY <1>4 DEF ProviderSends
<1>5. ASSUME NEW a \in Attempts, NEW e \in Event, ReconcileRead(a, e) PROVE TypeOK'
  BY <1>5, CallsMade DEF ReconcileRead, Begin
<1>6. ASSUME NEW c \in calls, CallStep(c) PROVE TypeOK'
  <2> c \in Call /\ c.att \in Attempts
    BY CallFields
  <2>1. calls' \subseteq Call
    <3>1. \A op \in {"credit", "dispatch"} : [op |-> op, att |-> c.att] \in Call
      BY CallsMade
    <3>2. CASE CheckoutCreate(c)
      <4>1. Finish(c) \/ \E op \in {"credit", "dispatch"} : Continue(c, [op |-> op, att |-> c.att])
        BY <3>2 DEF CheckoutCreate
      <4>2. CASE Finish(c)
        BY <4>2, CallsLeft
      <4>3. ASSUME NEW op \in {"credit", "dispatch"}, Continue(c, [op |-> op, att |-> c.att])
            PROVE  calls' \subseteq Call
        <5>1. calls' \subseteq calls \cup {[op |-> op, att |-> c.att]}
          BY <4>3, CallsLeft
        <5> QED BY <3>1, <5>1
      <4> QED BY <4>1, <4>2, <4>3
    <3>3. CASE ReconcileWrite(c)
      BY <3>1, <3>3, CallsLeft DEF ReconcileWrite
    <3>4. CASE \/ Dispatch(c) \/ CreditDriver(c) \/ FinalizeCommit(c)
               \/ \E to \in Refunding : RefundCommit(c, to)
      BY <3>4, CallsLeft DEF Dispatch, CreditDriver, RefundCommit, FinalizeCommit
    <3> QED BY <1>6, <3>2, <3>3, <3>4 DEF CallStep, Refunding
  <2>2. status' \in [Attempts -> AttemptStatus]
    <3>1. c.op = "reconcile" => c.event \in AttemptStatus
      BY CallFields DEF Event, AttemptStatus
    <3> QED BY <1>6, <3>1
        DEF CallStep, CheckoutCreate, Dispatch, ReconcileWrite, CreditDriver, RefundCommit,
            FinalizeCommit, AttemptStatus
  <2>3. ledger' \in [Attempts -> SUBSET Entry]
    BY <1>6, RefundEntries
    DEF CallStep, CheckoutCreate, Dispatch, ReconcileWrite, CreditDriver, RefundCommit,
        FinalizeCommit, Entry
  <2>4. UNCHANGED <<ride, sent>>
    BY <1>6
    DEF CallStep, CheckoutCreate, Dispatch, ReconcileWrite, CreditDriver, RefundCommit,
        FinalizeCommit
  <2>5. older' \in [Attempts -> SUBSET Attempts]
    <3>1. UNCHANGED older
          \/ \E S \in SUBSET Attempts : older' = [older EXCEPT ![c.att] = S]
      BY <1>6
      DEF CallStep, CheckoutCreate, Dispatch, ReconcileWrite, CreditDriver, RefundCommit,
          FinalizeCommit
    <3> QED BY <3>1
  <2> QED BY <2>1, <2>2, <2>3, <2>4, <2>5
<1>7. ASSUME NEW c \in calls, CallLost(c) PROVE TypeOK'
  BY <1>7, CallsLeft DEF CallLost
<1>8. CASE UNCHANGED vars
  BY <1>8 DEF vars
<1> QED BY <1>1, <1>2, <1>3, <1>4, <1>5, <1>6, <1>7, <1>8
    DEF Next, AttemptStep, EventStep

\* Every reachable state is well-typed.
THEOREM TypeCorrect == Spec => []TypeOK
<1>1. Init => TypeOK
  BY InitInv DEF IInv
<1> QED BY <1>1, StepType, PTL DEF Spec

-----------------------------------------------------------------------------
(* The invariant.                                                          *)

\* The provider's events and the wallets' entries only accumulate.
LEMMA RecordsGrow ==
    ASSUME TypeOK, [Next]_vars, NEW a \in Attempts
    PROVE  sent[a] \subseteq sent'[a] /\ ledger[a] \subseteq ledger'[a]
<1> USE DEF TypeOK
<1>1. ASSUME NEW b \in Attempts, NEW e \in Event, ProviderSends(b, e)
      PROVE  sent[a] \subseteq sent'[a] /\ ledger[a] \subseteq ledger'[a]
  BY <1>1 DEF ProviderSends
<1>2. ASSUME NEW c \in calls, CallStep(c)
      PROVE  sent[a] \subseteq sent'[a] /\ ledger[a] \subseteq ledger'[a]
  <2>1. c.att \in Attempts
    BY CallFields
  <2> QED BY <1>2, <2>1
      DEF CallStep, CheckoutCreate, Dispatch, ReconcileWrite, CreditDriver, RefundCommit,
          FinalizeCommit
<1>3. CASE \/ UNCHANGED vars
           \/ \E r \in Requests : RideMoves(r)
           \/ \E b \in Attempts : AttemptStep(b)
           \/ \E b \in Attempts, e \in Event : ReconcileRead(b, e)
           \/ \E c \in calls : CallLost(c)
  BY <1>3 DEF vars, RideMoves, AttemptStep, CheckoutRead, RefundRead, FinalizeRead,
     ReconcileRead, CallLost
<1> QED BY <1>1, <1>2, <1>3 DEF Next, EventStep

\* A handler that was justified stays so.
LEMMA JustifiedKept ==
    ASSUME TypeOK, [Next]_vars, NEW c \in Call, Justified(c)
    PROVE  Justified(c)'
<1>1. c.att \in Attempts
  BY CallFields
<1>2. sent[c.att] \subseteq sent'[c.att] /\ ledger[c.att] \subseteq ledger'[c.att]
  BY <1>1, RecordsGrow
<1> QED BY <1>2 DEF Justified, Received

\* The handlers of the next state are justified in it.
LEMMA StepJustified == ASSUME IInv, [Next]_vars PROVE CallsJustified'
<1> USE AttemptsAssumption
<1> TypeOK /\ calls \subseteq Call
  BY DEF IInv, TypeOK
<1>1. \A c \in calls : Justified(c)'
  BY JustifiedKept DEF IInv, CallsJustified
<1>2. SUFFICES ASSUME NEW d \in calls', d \notin calls PROVE Justified(d)'
  BY <1>1 DEF CallsJustified
<1>3. ASSUME NEW a \in Attempts, CheckoutRead(a) PROVE Justified(d)'
  BY <1>2, <1>3 DEF CheckoutRead, Begin, Justified
<1>4. ASSUME NEW a \in Attempts, RefundRead(a) PROVE Justified(d)'
  <2>1. d = [op |-> "refund", att |-> a, trip |-> HasTrip(a)] /\ UNCHANGED <<sent, ledger>>
    BY <1>2, <1>4 DEF RefundRead, Begin
  <2>2. Received(a)
    BY <1>4 DEF RefundRead, IInv, PaidWasReceived
  <2> QED BY <2>1, <2>2 DEF Justified, Received
<1>5. ASSUME NEW a \in Attempts, FinalizeRead(a) PROVE Justified(d)'
  <2>1. d = [op |-> "finalize", att |-> a, trip |-> HasTrip(a)] /\ UNCHANGED <<sent, ledger>>
    BY <1>2, <1>5 DEF FinalizeRead, Begin
  <2>2. Received(a) /\ a \notin WalletAttempts
    BY <1>5 DEF FinalizeRead, IInv, PaidWasReceived, WalletIsInternal, Refunding
  <2> QED BY <2>1, <2>2 DEF Justified, Received
<1>6. ASSUME NEW a \in Attempts, NEW e \in Event, ReconcileRead(a, e) PROVE Justified(d)'
  <2>1. /\ d = [op |-> "reconcile", att |-> a, event |-> e]
        /\ UNCHANGED <<sent, ledger>> /\ e \in sent[a]
    BY <1>2, <1>6 DEF ReconcileRead, Begin
  <2>2. a \notin WalletAttempts
    BY <2>1 DEF IInv, WalletIsInternal
  <2> QED BY <2>1, <2>2 DEF Justified, Received
<1>7. ASSUME NEW c \in calls, CheckoutCreate(c) PROVE Justified(d)'
  <2>1. c.att \in Attempts
    BY CallFields
  <2>2. CASE c.att \in WalletAttempts
    <3>1. /\ Continue(c, [op |-> "credit", att |-> c.att])
          /\ ledger' = [ledger EXCEPT ![c.att] = @ \cup {"debit"}]
      BY <1>2, <1>7, <2>2, CallsLeft DEF CheckoutCreate
    <3>2. d = [op |-> "credit", att |-> c.att]
      BY <1>2, <3>1, CallsLeft
    <3>3. "debit" \in ledger'[c.att]
      BY <2>1, <3>1 DEF TypeOK
    <3> QED BY <3>2, <3>3 DEF Justified, Received
  <2>3. CASE c.att \notin WalletAttempts
    <3>1. d = [op |-> "dispatch", att |-> c.att]
      BY <1>2, <1>7, <2>3, CallsLeft DEF CheckoutCreate
    <3> QED BY <2>3, <3>1 DEF Justified
  <2> QED BY <2>2, <2>3
<1>8. ASSUME NEW c \in calls, ReconcileWrite(c) PROVE Justified(d)'
  <2>1. /\ d = [op |-> "credit", att |-> c.att] /\ CreditsDriver(c.event)
        /\ c.op = "reconcile" /\ UNCHANGED sent
    BY <1>2, <1>8, CallsLeft DEF ReconcileWrite
  <2>2. "SUCCEEDED" \in sent[c.att]
    BY <2>1 DEF CreditsDriver, IInv, CallsJustified, Justified
  <2> QED BY <2>1, <2>2 DEF Justified, Received
<1>9. \/ \E a \in Attempts : CheckoutRead(a) \/ RefundRead(a) \/ FinalizeRead(a)
      \/ \E a \in Attempts, e \in Event : ReconcileRead(a, e)
      \/ \E c \in calls : CheckoutCreate(c) \/ ReconcileWrite(c)
  BY <1>2, CallsLeft
  DEF Next, vars, RideMoves, AttemptStep, EventStep, ProviderSends, CallStep, Dispatch,
      CreditDriver, RefundCommit, FinalizeCommit, CallLost
<1> QED BY <1>3, <1>4, <1>5, <1>6, <1>7, <1>8, <1>9

\* A handler writes the status and the entries of its own attempt only.
LEMMA OwnAttemptOnly ==
    ASSUME TypeOK, NEW c \in calls, CallStep(c)
    PROVE  /\ UNCHANGED <<ride, sent>>
           /\ \A a \in Attempts \ {c.att} : status'[a] = status[a] /\ ledger'[a] = ledger[a]
  BY CallFields
  DEF CallStep, CheckoutCreate, Dispatch, ReconcileWrite, CreditDriver, RefundCommit,
      FinalizeCommit, TypeOK

\* A step that is not a handler's write leaves rows and entries alone, and only
\* attempts outside the wallet hear of the provider.
LEMMA OtherSteps ==
    ASSUME TypeOK, [Next]_vars
    PROVE  \/ \E c \in calls : CallStep(c)
           \/ /\ UNCHANGED <<status, ledger>>
              /\ \A a \in WalletAttempts : sent'[a] = sent[a]
<1>1. ASSUME NEW a \in Attempts, NEW e \in Event, ProviderSends(a, e)
      PROVE  UNCHANGED <<status, ledger>> /\ \A b \in WalletAttempts : sent'[b] = sent[b]
  BY <1>1, AttemptsAssumption DEF ProviderSends, TypeOK
<1> QED BY <1>1
    DEF Next, vars, RideMoves, AttemptStep, CheckoutRead, RefundRead, FinalizeRead,
        EventStep, ReconcileRead, CallLost

\* What a handler that passed its reads knows of an attempt paid by wallet.
LEMMA WalletHandler ==
    ASSUME IInv, NEW c \in calls, c.att \in WalletAttempts
    PROVE  /\ c.op \in {"checkout", "credit", "refund"}
           /\ c.op \in {"credit", "refund"} =>
                 status[c.att] \in {"SUCCEEDED", "REFUNDED"} /\ "debit" \in ledger[c.att]
           /\ sent[c.att] = {}
           /\ RefundOutcome(c.att) = {"REFUNDED"}
<1>1. c \in Call /\ Justified(c) /\ c.att \in Attempts
  BY CallFields DEF IInv, TypeOK, CallsJustified
<1>2. c.op \in {"checkout", "credit", "refund"}
  BY <1>1, CallFields DEF Justified
<1>3. sent[c.att] = {} /\ status[c.att] \in {"NONE", "SUCCEEDED", "REFUNDED"}
  BY <1>1 DEF IInv, WalletIsInternal
<1>4. c.op \in {"credit", "refund"} => "debit" \in ledger[c.att]
  BY <1>1, <1>3 DEF Justified, Received
<1>5. "debit" \in ledger[c.att] => status[c.att] # "NONE"
  BY <1>1 DEF IInv, WalletEntriesMatch
<1> QED BY <1>2, <1>3, <1>4, <1>5 DEF RefundOutcome

\* The wallet's attempts stay inside Orbi.
LEMMA StepInternal == ASSUME IInv, [Next]_vars PROVE WalletIsInternal'
<1> TypeOK
  BY DEF IInv
<1>1. CASE /\ UNCHANGED <<status, ledger>>
           /\ \A a \in WalletAttempts : sent'[a] = sent[a]
  BY <1>1 DEF IInv, WalletIsInternal
<1>2. ASSUME NEW c \in calls, CallStep(c) PROVE WalletIsInternal'
  <2> DEFINE a == c.att
  <2>1. c \in Call /\ a \in Attempts
    BY CallFields DEF TypeOK
  <2>2. UNCHANGED sent /\ \A b \in Attempts \ {a} : status'[b] = status[b] /\ ledger'[b] = ledger[b]
    BY <1>2, OwnAttemptOnly
  <2>3. ASSUME a \in WalletAttempts PROVE status'[a] \in {"NONE", "SUCCEEDED", "REFUNDED"}
    BY <1>2, <2>1, <2>3, WalletHandler
    DEF CallStep, CheckoutCreate, Dispatch, ReconcileWrite, CreditDriver, RefundCommit,
        FinalizeCommit, IInv, WalletIsInternal, TypeOK
  <2>4. "debit" \in ledger'[a] => "debit" \in ledger[a] \/ a \in WalletAttempts
    BY <1>2, <2>1, RefundEntries
    DEF CallStep, CheckoutCreate, Dispatch, ReconcileWrite, CreditDriver, RefundCommit,
        FinalizeCommit, TypeOK
  <2> QED BY <2>1, <2>2, <2>3, <2>4 DEF IInv, WalletIsInternal
<1> QED BY <1>1, <1>2, OtherSteps

\* What counts as paid was paid.
LEMMA StepPaid == ASSUME IInv, [Next]_vars PROVE PaidWasReceived'
<1> TypeOK
  BY DEF IInv
<1>1. \A a \in Attempts : Received(a) => Received(a)'
  BY RecordsGrow DEF Received
<1>2. CASE UNCHANGED status
  BY <1>1, <1>2 DEF IInv, PaidWasReceived
<1>3. ASSUME NEW c \in calls, CallStep(c) PROVE PaidWasReceived'
  <2> DEFINE a == c.att
  <2>1. c \in Call /\ a \in Attempts /\ Justified(c)
    BY CallFields DEF IInv, TypeOK, CallsJustified
  <2>2. \A b \in Attempts \ {a} : status'[b] = status[b]
    BY <1>3, OwnAttemptOnly
  <2>3. ASSUME status'[a] \in {"SUCCEEDED"} \cup Refunding, status'[a] # status[a]
        PROVE  Received(a)'
    <3>1. CASE CheckoutCreate(c)
      BY <2>1, <2>3, <3>1 DEF CheckoutCreate, Received, Refunding, TypeOK
    <3>2. CASE ReconcileWrite(c)
      <4>1. c.op = "reconcile" /\ status'[a] = c.event /\ UNCHANGED sent
        BY <2>1, <2>3, <3>2 DEF ReconcileWrite, TypeOK
      <4>2. c.event = "SUCCEEDED"
        BY <2>1, <2>3, <4>1, CallFields DEF Refunding, Event
      <4> QED BY <2>1, <4>1, <4>2 DEF Justified, Received
    <3>3. CASE RefundCommit(c, "REFUNDED") \/ RefundCommit(c, "REFUND_PENDING")
      BY <1>1, <2>1, <3>3 DEF RefundCommit, Justified
    <3>4. CASE FinalizeCommit(c)
      BY <1>1, <2>1, <3>4 DEF FinalizeCommit, Justified
    <3>5. CASE Dispatch(c) \/ CreditDriver(c)
      BY <2>1, <2>3, <3>5 DEF Dispatch, CreditDriver, Refunding, TypeOK
    <3> QED BY <1>3, <3>1, <3>2, <3>3, <3>4, <3>5 DEF CallStep
  <2> QED BY <1>1, <2>1, <2>2, <2>3 DEF IInv, PaidWasReceived
<1> QED BY <1>2, <1>3, OtherSteps

\* The wallet's entries follow the status.
LEMMA StepEntries == ASSUME IInv, [Next]_vars PROVE WalletEntriesMatch'
<1> USE AttemptsAssumption
<1> TypeOK /\ WalletEntriesMatch
  BY DEF IInv
<1>1. CASE UNCHANGED <<status, ledger>>
  BY <1>1 DEF WalletEntriesMatch
<1>2. ASSUME NEW c \in calls, CallStep(c) PROVE WalletEntriesMatch'
  <2> DEFINE a == c.att
  <2>1. c \in Call /\ a \in Attempts
    BY CallFields DEF TypeOK
  <2>2. \A b \in Attempts \ {a} : status'[b] = status[b] /\ ledger'[b] = ledger[b]
    BY <1>2, OwnAttemptOnly
  <2>3. ASSUME a \in WalletAttempts
        PROVE  /\ status'[a] # "NONE" <=> "debit" \in ledger'[a]
               /\ status'[a] = "REFUNDED" <=> "refund" \in ledger'[a]
    <3>1. /\ c.op \in {"checkout", "credit", "refund"}
          /\ c.op \in {"credit", "refund"} =>
                status[a] \in {"SUCCEEDED", "REFUNDED"} /\ "debit" \in ledger[a]
          /\ RefundOutcome(a) = {"REFUNDED"}
      BY <2>3, WalletHandler
    <3>2. /\ status[a] # "NONE" <=> "debit" \in ledger[a]
          /\ status[a] = "REFUNDED" <=> "refund" \in ledger[a]
      BY <2>3 DEF WalletEntriesMatch
    <3>3. CASE CheckoutCreate(c)
      <4>1. CASE status[a] # "NONE"
        BY <3>2, <3>3, <4>1 DEF CheckoutCreate
      <4>2. CASE status[a] = "NONE"
        <5>1. status' = [status EXCEPT ![a] = "SUCCEEDED"]
              /\ ledger' = [ledger EXCEPT ![a] = @ \cup {"debit"}]
          BY <2>3, <3>3, <4>2 DEF CheckoutCreate
        <5>2. status'[a] = "SUCCEEDED" /\ ledger'[a] = ledger[a] \cup {"debit"}
          BY <2>1, <5>1 DEF TypeOK
        <5> QED BY <3>2, <4>2, <5>2
      <4> QED BY <4>1, <4>2
    <3>4. CASE CreditDriver(c)
      <4>1. ledger'[a] = ledger[a] \/ ledger'[a] = ledger[a] \cup {"credit"}
        BY <2>1, <3>4 DEF CreditDriver, TypeOK
      <4> QED BY <3>2, <3>4, <4>1 DEF CreditDriver
    <3>5. CASE RefundCommit(c, "REFUNDED")
      <4>1. CASE "refund" \in ledger[a]
        BY <2>3, <3>2, <3>5, <4>1 DEF RefundCommit
      <4>2. CASE "refund" \notin ledger[a]
        <5>1. /\ status' = [status EXCEPT ![a] = "REFUNDED"]
              /\ ledger' = [ledger EXCEPT ![a] = @ \cup Reversal(c) \cup {"refund"}]
          BY <2>3, <3>5, <4>2 DEF RefundCommit, RiderRefund
        <5>2. status'[a] = "REFUNDED" /\ "debit" \in ledger'[a] /\ "refund" \in ledger'[a]
          BY <2>1, <3>1, <3>5, <5>1 DEF RefundCommit, TypeOK
        <5> QED BY <5>2
      <4> QED BY <4>1, <4>2
    <3>6. ~(Dispatch(c) \/ ReconcileWrite(c) \/ FinalizeCommit(c)
            \/ RefundCommit(c, "REFUND_PENDING"))
      BY <3>1 DEF Dispatch, ReconcileWrite, FinalizeCommit, RefundCommit
    <3> QED BY <1>2, <3>3, <3>4, <3>5, <3>6 DEF CallStep
  <2> QED BY <2>1, <2>2, <2>3 DEF WalletEntriesMatch
<1> QED BY <1>1, <1>2, OtherSteps

\* Every reachable state satisfies the inductive invariant.
THEOREM Invariance == Spec => []IInv
<1>1. ASSUME IInv, [Next]_vars PROVE IInv'
  <2>1. TypeOK'
    BY <1>1, StepType DEF IInv
  <2> QED BY <1>1, <2>1, StepJustified, StepInternal, StepPaid, StepEntries DEF IInv
<1> QED BY <1>1, InitInv, PTL DEF Spec

\* No interleaving of events, refunds and crashes makes an unpaid attempt count as
\* paid or refunded.
THEOREM PaidWasReceivedAlways == Spec => []PaidWasReceived
<1>1. IInv => PaidWasReceived
  BY DEF IInv
<1> QED BY <1>1, Invariance, PTL

\* The rider's wallet is debited once for every payment by wallet and given back
\* exactly what was refunded.
THEOREM WalletEntriesMatchAlways == Spec => []WalletEntriesMatch
<1>1. IInv => WalletEntriesMatch
  BY DEF IInv
<1> QED BY <1>1, Invariance, PTL

\* Reconciliation never takes an attempt out of its refund.
THEOREM RefundNotRevivedAlways == Spec => RefundNotRevived
<1>1. ASSUME IInv, [Next]_vars
      PROVE  [\A a \in Attempts : status[a] \in Refunding => status'[a] \in Refunding]_vars
  <2> TypeOK
    BY <1>1 DEF IInv
  <2>1. ASSUME NEW c \in calls, CallStep(c),
               NEW a \in Attempts, status[a] \in Refunding
        PROVE  status'[a] \in Refunding
    <3>1. CASE a # c.att
      BY <2>1, <3>1, OwnAttemptOnly
    <3>2. CASE a = c.att
      BY <2>1, <3>2
      DEF CallStep, CheckoutCreate, Dispatch, ReconcileWrite, CreditDriver, RefundCommit,
          FinalizeCommit, OpenToEvents, Refunding, TypeOK
    <3> QED BY <3>1, <3>2
  <2> QED BY <1>1, <2>1, OtherSteps
<1> QED BY <1>1, Invariance, PTL DEF Spec, RefundNotRevived

-----------------------------------------------------------------------------
(* Refinement.                                                             *)

\* The payments whose money arrived, and those whose ride was taken, as the
\* abstract ledger sees them.
Paid == {a \in Attempts : Received(a)}
Taken == {a \in Attempts : HasTrip(a)}

\* Initially nothing was received, taken or posted.
LEMMA InitRefines == Init => Abstract!Init
  BY AttemptsAssumption DEF Init, Abstract!Init, Received, HasTrip

\* The ride only ever gains a driver.
LEMMA TakenGrows ==
    ASSUME TypeOK, NEW r \in Requests, RideMoves(r)
    PROVE  Taken \subseteq Taken'
  BY AttemptsAssumption DEF Taken, HasTrip, RideMoves, TypeOK

\* Every step is a step of the ledger, or leaves it alone.
LEMMA StepRefines == ASSUME IInv, [Next]_vars PROVE [Abstract!Next]_(Abstract!vars)
<1> USE AttemptsAssumption
<1> TypeOK
  BY DEF IInv
<1>1. ASSUME UNCHANGED <<ledger, ride, sent>> PROVE UNCHANGED Abstract!vars
  BY <1>1 DEF Abstract!vars, Received, HasTrip
<1>2. ASSUME NEW r \in Requests, RideMoves(r) PROVE Abstract!Next
  <2>1. Abstract!Taken(Taken')
    <3>1. Taken' = Taken \cup Taken'
      BY <1>2, TakenGrows
    <3>2. Paid' = Paid
      BY <1>2 DEF Paid, Received, RideMoves
    <3> QED BY <1>2, <3>1, <3>2 DEF Abstract!Taken, Taken, Paid, RideMoves
  <2> QED BY <2>1 DEF Abstract!Next, Taken
<1>3. ASSUME NEW a \in Attempts, NEW e \in Event, ProviderSends(a, e)
      PROVE  [Abstract!Next]_(Abstract!vars)
  <2>1. UNCHANGED <<ledger, ride>> /\ Taken' = Taken
    BY <1>3 DEF ProviderSends, Taken, HasTrip
  <2>2. sent'[a] = sent[a] \cup {e} /\ \A b \in Attempts \ {a} : sent'[b] = sent[b]
    BY <1>3 DEF ProviderSends, TypeOK
  <2>3. CASE e = "SUCCEEDED"
    <3>1. Paid' = Paid \cup {a}
      BY <2>1, <2>2, <2>3 DEF Paid, Received
    <3>2. Abstract!Receive(a)
      BY <2>1, <3>1 DEF Abstract!Receive, Paid, Taken
    <3> QED BY <3>2 DEF Abstract!Next
  <2>4. CASE e # "SUCCEEDED"
    <3>1. Paid' = Paid
      BY <2>1, <2>2, <2>4 DEF Paid, Received
    <3> QED BY <2>1, <3>1 DEF Abstract!vars, Paid, Taken
  <2> QED BY <2>3, <2>4
<1>4. ASSUME NEW c \in calls, CallStep(c) PROVE [Abstract!Next]_(Abstract!vars)
  <2> DEFINE a == c.att
  <2>1. c \in Call /\ a \in Attempts /\ Justified(c)
    BY CallFields DEF IInv, TypeOK, CallsJustified
  <2>2. UNCHANGED <<ride, sent>> /\ Taken' = Taken
    BY <1>4, OwnAttemptOnly DEF Taken, HasTrip
  <2>3. CASE UNCHANGED ledger
    BY <1>1, <2>2, <2>3
  <2>4. CASE CheckoutCreate(c)
    <3>1. CASE status[a] = "NONE" /\ a \in WalletAttempts
      <4>1. ledger' = [ledger EXCEPT ![a] = @ \cup {"debit"}]
        BY <2>4, <3>1 DEF CheckoutCreate
      <4>2. ~Received(a)
        BY <2>1, <3>1 DEF IInv, WalletIsInternal, WalletEntriesMatch, Received
      <4>3. Paid' = Paid \cup {a}
        BY <2>1, <2>2, <4>1 DEF Paid, Received, TypeOK
      <4>4. Abstract!Debit(a)
        BY <2>1, <2>2, <4>1, <4>2, <4>3 DEF Abstract!Debit, Abstract!Post, Paid, Taken
      <4> QED BY <2>1, <4>4 DEF Abstract!Next
    <3>2. CASE ~(status[a] = "NONE" /\ a \in WalletAttempts)
      BY <2>3, <2>4, <3>2 DEF CheckoutCreate
    <3> QED BY <3>1, <3>2
  <2>5. CASE CreditDriver(c)
    <3>1. CASE HasTrip(a)
      <4>1. ledger' = [ledger EXCEPT ![a] = @ \cup {"credit"}] /\ Received(a)
        BY <2>1, <2>5, <3>1 DEF CreditDriver, Justified
      <4>2. Paid' = Paid
        BY <2>1, <2>2, <4>1 DEF Paid, Received, TypeOK
      <4>3. Abstract!Credit(a)
        BY <2>1, <2>2, <3>1, <4>1, <4>2 DEF Abstract!Credit, Abstract!Post, Paid, Taken
      <4> QED BY <2>1, <4>3 DEF Abstract!Next
    <3>2. CASE ~HasTrip(a)
      BY <2>3, <2>5, <3>2 DEF CreditDriver
    <3> QED BY <3>1, <3>2
  <2>6. ASSUME NEW entries \in SUBSET {"reversal", "refund"},
               ledger' = [ledger EXCEPT ![a] = @ \cup entries],
               "reversal" \in entries => "credit" \in ledger[a],
               "refund" \in entries => "debit" \in ledger[a]
        PROVE  Abstract!Next
    <3>1. Paid' = Paid
      BY <2>1, <2>2, <2>6 DEF Paid, Received, TypeOK
    <3>2. Abstract!Refund(a, entries)
      BY <2>1, <2>2, <2>6, <3>1 DEF Abstract!Refund, Abstract!Post, Paid, Taken
    <3>3. entries \in SUBSET Abstract!Entry
      BY DEF Abstract!Entry
    <3> QED BY <2>1, <3>2, <3>3 DEF Abstract!Next
  <2>7. CASE RefundCommit(c, "REFUNDED")
    <3>1. CASE ledger' = [ledger EXCEPT ![a] = @ \cup Reversal(c) \cup RiderRefund(c)]
      <4>1. "refund" \in RiderRefund(c) => "debit" \in ledger[a]
        BY <2>7, WalletHandler DEF RiderRefund, RefundCommit
      <4>2. "reversal" \in Reversal(c) => "credit" \in ledger[a]
        BY DEF Reversal
      <4>3. ledger' = [ledger EXCEPT ![a] = @ \cup (Reversal(c) \cup RiderRefund(c))]
        BY <3>1, <2>1 DEF TypeOK
      <4>4. /\ Reversal(c) \cup RiderRefund(c) \in SUBSET {"reversal", "refund"}
            /\ "reversal" \in Reversal(c) \cup RiderRefund(c) => "credit" \in ledger[a]
            /\ "refund" \in Reversal(c) \cup RiderRefund(c) => "debit" \in ledger[a]
        BY <2>1, <4>1, <4>2, RefundEntries
      <4> QED BY <2>6, <4>3, <4>4
    <3> QED BY <2>3, <2>7, <3>1 DEF RefundCommit
  <2>8. CASE FinalizeCommit(c)
    <3>1. "reversal" \in Reversal(c) => "credit" \in ledger[a]
      BY DEF Reversal
    <3> QED BY <2>1, <2>6, <2>8, <3>1, RefundEntries DEF FinalizeCommit
  <2>9. CASE RefundCommit(c, "REFUND_PENDING") \/ Dispatch(c) \/ ReconcileWrite(c)
    BY <2>3, <2>9 DEF RefundCommit, Dispatch, ReconcileWrite
  <2> QED BY <1>4, <2>4, <2>5, <2>7, <2>8, <2>9 DEF CallStep
<1>5. CASE \/ UNCHANGED vars
           \/ \E b \in Attempts : AttemptStep(b)
           \/ \E b \in Attempts, e \in Event : ReconcileRead(b, e)
           \/ \E c \in calls : CallLost(c)
  BY <1>1, <1>5 DEF vars, AttemptStep, CheckoutRead, RefundRead, FinalizeRead,
     ReconcileRead, CallLost
<1> QED BY <1>2, <1>3, <1>4, <1>5 DEF Next, EventStep

\* Payments keep the promise of PaymentLedger: no credit without money and driver,
\* no reversal without credit, nothing given back that was not taken.
THEOREM ImplementsLedgerAlways == Spec => ImplementsLedger
  BY InitRefines, StepRefines, Invariance, PTL DEF Spec, ImplementsLedger, Abstract!Spec

\* The order of the ledger's entries never creates money.
LEMMA LedgerConserves ==
    ASSUME Abstract!TypeOK, Abstract!Conserved, [Abstract!Next]_(Abstract!vars)
    PROVE  Abstract!TypeOK' /\ Abstract!Conserved'
<1>0. /\ Paid \subseteq Attempts /\ Taken \subseteq Attempts
      /\ ledger \in [Attempts -> SUBSET Entry]
  BY DEF Abstract!TypeOK, Abstract!Entry, Entry, Paid, Taken
<1>1. ASSUME NEW a \in Attempts, NEW entries \in SUBSET Entry,
             ledger' = [ledger EXCEPT ![a] = @ \cup entries],
             Paid \subseteq Paid', Taken \subseteq Taken',
             "credit" \in entries => a \in Paid \cap Taken,
             "debit" \in entries => a \in Paid',
             "reversal" \in entries => "credit" \in ledger[a],
             "refund" \in entries => "debit" \in ledger[a]
      PROVE  Abstract!TypeOK' /\ Abstract!Conserved'
  <2>1. \A b \in Attempts : ledger'[b] = IF b = a THEN ledger[b] \cup entries ELSE ledger[b]
    BY <1>0, <1>1
  <2>2. Abstract!Conserved'
    BY <1>1, <2>1 DEF Abstract!Conserved, Paid, Taken
  <2>3. ledger' \in [Attempts -> SUBSET Entry]
    BY <1>0, <1>1
  <2> QED BY <2>2, <2>3 DEF Abstract!TypeOK, Abstract!Entry, Entry
<1>2. CASE UNCHANGED ledger /\ Paid \subseteq Paid' /\ Taken \subseteq Taken'
  <2>1. Abstract!Conserved'
    BY <1>2 DEF Abstract!Conserved, Paid, Taken
  <2> QED BY <1>0, <1>2, <2>1 DEF Abstract!TypeOK, Abstract!Entry, Entry
<1>3. ASSUME NEW a \in Attempts, Abstract!Receive(a) \/ Abstract!Debit(a) \/ Abstract!Credit(a)
      PROVE  Abstract!TypeOK' /\ Abstract!Conserved'
  <2>1. CASE Abstract!Receive(a)
    BY <1>2, <2>1 DEF Abstract!Receive, Paid, Taken
  <2>2. CASE Abstract!Debit(a)
    BY <1>1, <2>2 DEF Abstract!Debit, Abstract!Post, Paid, Taken, Entry
  <2>3. CASE Abstract!Credit(a)
    BY <1>1, <2>3 DEF Abstract!Credit, Abstract!Post, Paid, Taken, Entry
  <2> QED BY <1>3, <2>1, <2>2, <2>3
<1>4. ASSUME NEW a \in Attempts, NEW entries \in SUBSET Abstract!Entry, Abstract!Refund(a, entries)
      PROVE  Abstract!TypeOK' /\ Abstract!Conserved'
  BY <1>1, <1>4 DEF Abstract!Refund, Abstract!Post, Paid, Taken, Entry, Abstract!Entry
<1>5. ASSUME NEW S \in SUBSET Attempts, Abstract!Taken(S)
      PROVE  Abstract!TypeOK' /\ Abstract!Conserved'
  BY <1>2, <1>5 DEF Abstract!Taken, Paid, Taken
<1>6. CASE UNCHANGED Abstract!vars
  BY <1>2, <1>6 DEF Abstract!vars, Paid, Taken
<1> QED BY <1>3, <1>4, <1>5, <1>6 DEF Abstract!Next

\* However events, refunds and crashes interleave: no driver is credited for money that
\* was not received, no credit is reversed that was not made, and the rider's wallet is
\* given back nothing it did not pay.
THEOREM MoneyConservedAlways == Spec => []Abstract!Conserved
<1>1. Abstract!Init => Abstract!TypeOK /\ Abstract!Conserved
  BY DEF Abstract!Init, Abstract!TypeOK, Abstract!Conserved
<1>2. Abstract!TypeOK /\ Abstract!Conserved /\ [Abstract!Next]_(Abstract!vars)
          => Abstract!TypeOK' /\ Abstract!Conserved'
  BY LedgerConserves
<1> QED BY <1>1, <1>2, ImplementsLedgerAlways, PTL DEF ImplementsLedger, Abstract!Spec
=============================================================================
