------------------------------- MODULE MCTrex -------------------------------
(* trex.device with two operators over the two types of Dcep's data sources. *)
EXTENDS TrexProps, TLC

CONSTANTS CthenB, BthenC, p1, p2, t1, t2, irq
OneOp == <<CthenB>>
TwoOps == <<CthenB, BthenC>>
First == CthenB :> "C" @@ BthenC :> "B"
Second == CthenB :> "B" @@ BthenC :> "C"
Kinds == {"B", "C"}
Ids == 1..12
OneRoots == p1 :> 1 @@ t1 :> 3 @@ t2 :> 4 @@ irq :> 5
Roots == p1 :> 1 @@ p2 :> 2 @@ t1 :> 3 @@ t2 :> 4 @@ irq :> 5
=============================================================================
