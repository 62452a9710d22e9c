------------------------------- MODULE MCMote -------------------------------
(* Mote with interchangeable packets                                        *)
EXTENDS Mote, TLC

Symmetry == Permutations(Packets)

=============================================================================
