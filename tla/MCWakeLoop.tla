----------------------------- MODULE MCWakeLoop -----------------------------
(* A small instance of WakeLoop.  The limits 5 and 180 become 2 and 4: the  *)
(* minutes then suffice for a normal tick, a replay, a forward jump, a step *)
(* back and a resync in each direction.                                     *)
EXTENDS WakeLoopInv

MCOffsets == {0, 3}
=============================================================================
