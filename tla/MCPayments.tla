----------------------------- MODULE MCPayments -----------------------------
(* Small instances of Payments for TLC.                                     *)
EXTENDS Payments

CONSTANTS ride1, card, momo, wallet

OneRide == [a \in Attempts |-> ride1]

\* One provider sends anything (FAILED stands for CANCELLED, which is handled alike),
\* the other at most declares a failure.
Providers ==
    [a \in Attempts |-> IF a = momo THEN {"FAILED"} ELSE Event \ {"CANCELLED"}]
=============================================================================
