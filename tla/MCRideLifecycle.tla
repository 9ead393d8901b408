-------------------------- MODULE MCRideLifecycle --------------------------
(* Small instances of RideLifecycle for TLC.                               *)
EXTENDS RideLifecycle, TLC

CONSTANTS r1, r2, q1, q2, d1, d2

\* Two requests of one rider: the single-flow rules and their indexes.
SameRider == [r \in {q1, q2} |-> r1]

OneRequest == [r \in {q1} |-> r1]

\* Two requests of two riders: two trips compete for the drivers.
TwoRiders == [r \in {q1, q2} |-> IF r = q1 THEN r1 ELSE r2]

DriverSymmetry == Permutations({d1, d2})
RequestDriverSymmetry == Permutations({d1, d2}) \cup Permutations({q1, q2})
=============================================================================
