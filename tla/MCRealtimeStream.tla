-------------------------- MODULE MCRealtimeStream --------------------------
(* Bounded instance of RealtimeStream for TLC.                             *)
EXTENDS RealtimeStream

CONSTANTS s1, s2, trip
=============================================================================
