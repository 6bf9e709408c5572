------------------------------ MODULE MCServing ------------------------------
(***************************************************************************)
(* Small instances of Serving for TLC: two models with one instance each,  *)
(* so that batches and streams compete for them; more requests than the    *)
(* queue holds, so that it can fill up; batches of requests for different  *)
(* models.                                                                 *)
(***************************************************************************)
EXTENDS Serving, TLC

CONSTANTS mA, mB, a1, b1

MCInstModel == (a1 :> mA) @@ (b1 :> mB)
MCInitialPool == (mA :> <<a1>>) @@ (mB :> <<b1>>)

Symmetry == Permutations(Requests)
=============================================================================
