----------------------------- MODULE MCKVCache -----------------------------
(***************************************************************************)
(* Two prompts with different keys: the file of k1 just fits into the      *)
(* cache, the one of k2 is too large for it.                               *)
(***************************************************************************)
EXTENDS KVCache, TLC

CONSTANTS k1, k2

MCSizeOf == (k1 :> 1) @@ (k2 :> 2)
=============================================================================
