---------------------------- MODULE MCDriverWallet ----------------------------
(* Bounded instance of DriverWallet for TLC: fares whose share differs between *)
(* the two rates, a recovery of part of the debt and one of more than it.      *)
EXTENDS DriverWallet

CONSTANTS short, long, some, all

MCAmount == [x \in Rides \cup Recoveries \cup Tickets |->
                CASE x = short -> 500 [] x = long -> 900 [] x = some -> 100
                  [] x = all -> 2000 [] OTHER -> 300]
=============================================================================
