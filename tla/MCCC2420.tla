------------------------------ MODULE MCCC2420 ------------------------------
(* Instances of CC2420FSM for TLC: one time unit is four symbols (64 us). *)
EXTENDS CC2420Props, TLC
=============================================================================
