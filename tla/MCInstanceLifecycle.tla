------------------------- MODULE MCInstanceLifecycle -------------------------
(***************************************************************************)
(* Small configurations for TLC: one model with an instance that may be    *)
(* started again twice, one model with two instances, and two models with  *)
(* one each; starting p1 or p2 again always fails.                         *)
(***************************************************************************)
EXTENDS InstanceLifecycle, TLC

CONSTANTS p1, p2, p3

MCFleets == {<<<<p3>>>>, <<<<p1, p2>>>>, <<<<p1>>, <<p2>>>>}
MCRestarts == (p1 :> 0) @@ (p2 :> 0) @@ (p3 :> 2)

MCOneSlot == {<<<<p3>>>>}
MCTwice == p3 :> 2
=============================================================================
