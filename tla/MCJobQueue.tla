---------------------------- MODULE MCJobQueue ----------------------------
(* Small instances of JobQueue for TLC.                                    *)
EXTENDS JobQueue

CONSTANTS sweep, notify, w1, w2

\* The sweep may be retried once before it is dead-lettered, the other job may not.
Attempts == [j \in Jobs |-> IF j = sweep THEN 2 ELSE 1]
=============================================================================
