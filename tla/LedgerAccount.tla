---------------------------- MODULE LedgerAccount ----------------------------
(***************************************************************************)
(* What a wallet promises: its balance moves only with the ledger.         *)
(* wallet_transactions holds at most one entry per (wallet, reference),    *)
(* entries are never changed, and wallets.balance, which the code keeps    *)
(* beside them by increments and decrements, moves by exactly the amount   *)
(* of the entry written with it.                                           *)
(***************************************************************************)
EXTENDS Integers

CONSTANT Reference

VARIABLES
    balance,    \* wallets.balance
    entry       \* the signed amount of each reference's entry, 0 if it has none

vars == <<balance, entry>>

Init == balance = 0 /\ entry = [r \in Reference |-> 0]

Post(r) ==
    /\ entry[r] = 0 /\ entry'[r] # 0
    /\ entry' = [entry EXCEPT ![r] = entry'[r]]
    /\ balance' = balance + entry'[r]

Next == \E r \in Reference : Post(r)

Spec == Init /\ [][Next]_vars

\* The functions that add up entries: over no references 0, and over one more
\* reference the amount of its entry more.
Totals ==
    {T \in [SUBSET Reference -> Int] :
        /\ T[{}] = 0
        /\ \A A \in SUBSET Reference :
              \A r \in Reference \ A : T[A \cup {r}] = T[A] + entry[r]}

\* The balance is the sum of all entries.
BalanceIsTotal == Totals # {} /\ \A T \in Totals : T[Reference] = balance
=============================================================================
