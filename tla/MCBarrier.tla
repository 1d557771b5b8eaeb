------------------------------ MODULE MCBarrier ------------------------------
(* The phase barrier on small instances. *)
EXTENDS BarrierProofs
=============================================================================
