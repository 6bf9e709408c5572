---------------------------- MODULE MCSelfHealing ----------------------------
(***************************************************************************)
(* One model with one instance, a0, which a restart replaces by a1.        *)
(***************************************************************************)
EXTENDS SelfHealing, TLC

CONSTANTS mA, a0, a1

MCInstModel == [i \in Instances |-> mA]
MCInitialPool == mA :> <<a0>>
MCPort == [i \in Instances |-> 8081]
=============================================================================
