---------------------------- MODULE MCRiderWallet ----------------------------
(* Bounded instance of RiderWallet for TLC: top-ups and payments of amounts  *)
(* such that no single top-up covers both payments; one more top-up is asked *)
(* for in the sandbox.                                                       *)
EXTENDS RiderWallet

CONSTANTS small, large, sandbox, cheap, dear

MCAmount == [x \in TopUps \cup Payments |-> IF x \in {large, dear} THEN 3 ELSE 2]
=============================================================================
