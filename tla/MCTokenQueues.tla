---------------------------- MODULE MCTokenQueues ----------------------------
(***************************************************************************)
(* Clients of three priorities, of which the least urgent is the last that *)
(* GetBatch looks at, and one of a priority it does not look at.           *)
(***************************************************************************)
EXTENDS TokenQueues, TLC

CONSTANTS c1, c2, c3, c4, c5

MCPhase == [c \in Clients |-> IF c \in {c1, c2, c3} THEN "prompt" ELSE "generation"]
MCPriority == (c1 :> 0) @@ (c2 :> 0) @@ (c3 :> 0) @@ (c4 :> 10) @@ (c5 :> -1)
=============================================================================
