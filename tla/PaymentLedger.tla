--------------------------- MODULE PaymentLedger ---------------------------
(***************************************************************************)
(* What payments promise to the wallets: each payment leaves at most one   *)
(* entry of each kind, in an order that never creates money.  The driver   *)
(* is credited only for money Orbi received and only if there is a driver, *)
(* that credit is taken back at most once, and only a debit of the rider's *)
(* wallet is given back to it.                                             *)
(***************************************************************************)
CONSTANTS Attempts

VARIABLES received,     \* payments whose money Orbi has
          hasDriver,    \* payments whose ride was taken by a driver
          ledger        \* the entries each payment has left in the wallets

vars == <<received, hasDriver, ledger>>

Entry == {"debit", "credit", "reversal", "refund"}

TypeOK ==
    /\ received \subseteq Attempts /\ hasDriver \subseteq Attempts
    /\ ledger \in [Attempts -> SUBSET Entry]

Init ==
    /\ received = {} /\ hasDriver = {}
    /\ ledger = [a \in Attempts |-> {}]

Post(a, entries) == ledger' = [ledger EXCEPT ![a] = @ \cup entries]

\* The provider confirms a payment.
Receive(a) ==
    /\ received' = received \cup {a}
    /\ UNCHANGED <<hasDriver, ledger>>

\* The rider's wallet pays: the debit is the receipt.
Debit(a) ==
    /\ a \notin received
    /\ received' = received \cup {a} /\ Post(a, {"debit"})
    /\ UNCHANGED hasDriver

\* A driver accepts the ride, which may have several payments.
Taken(S) ==
    /\ hasDriver' = hasDriver \cup S
    /\ UNCHANGED <<received, ledger>>

Credit(a) ==
    /\ a \in received \cap hasDriver
    /\ Post(a, {"credit"})
    /\ UNCHANGED <<received, hasDriver>>

\* A refund takes back a credit that was made and gives back a debit that was made.
Refund(a, entries) ==
    /\ entries \subseteq {"reversal", "refund"}
    /\ "reversal" \in entries => "credit" \in ledger[a]
    /\ "refund" \in entries => "debit" \in ledger[a]
    /\ Post(a, entries)
    /\ UNCHANGED <<received, hasDriver>>

Next ==
    \/ \E a \in Attempts : Receive(a) \/ Debit(a) \/ Credit(a)
    \/ \E a \in Attempts, entries \in SUBSET Entry : Refund(a, entries)
    \/ \E S \in SUBSET Attempts : Taken(S)

Spec == Init /\ [][Next]_vars

\* So the entries of a payment never create money: a credit or a debit stands for money
\* Orbi has, a reversal for a credit, a refund for a debit.
Conserved ==
    \A a \in Attempts :
        /\ "credit" \in ledger[a] => a \in received \cap hasDriver
        /\ "debit" \in ledger[a] => a \in received
        /\ "reversal" \in ledger[a] => "credit" \in ledger[a]
        /\ "refund" \in ledger[a] => "debit" \in ledger[a]
=============================================================================
