-------------------------- MODULE MCScheduledRides --------------------------
(* Small instances of ScheduledRides for TLC.                              *)
EXTENDS ScheduledRides

CONSTANTS ride1, ride2, rider1

OneRider == [r \in Rides |-> rider1]
=============================================================================
