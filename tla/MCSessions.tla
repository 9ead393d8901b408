----------------------------- MODULE MCSessions -----------------------------
(* Bounded instance of Sessions for TLC: a driver's telephone, on which two  *)
(* loads may run at once, and a second device.                               *)
EXTENDS Sessions

CONSTANTS phone, tablet

MCPollers == {<<phone, 1>>}
MCLoads == {<<phone, 1>>, <<phone, 2>>, <<tablet, 1>>}
=============================================================================
