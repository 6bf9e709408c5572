----------------------------- MODULE Supervision -----------------------------
(***************************************************************************)
(* What Init, the health checker and Stop promise of the llama.cpp         *)
(* processes, with objects, pools, goroutines and channels left out: each  *)
(* configured slot is started once before the program serves, and again    *)
(* only while it serves and only when the slot has no live process;        *)
(* nothing is started when the start has failed or the program has ended,  *)
(* and it ends only with no live process left (scheduler.go:53-140,        *)
(* 232-267).                                                               *)
(***************************************************************************)
EXTENDS Naturals

CONSTANT Slots

VARIABLES wanted,  \* the slots of the configuration
          stage,   \* what the program has come to
          starts,  \* the successful starts of a slot, numbered from 0
          live     \* the slots that have a live process

supervisionVars == <<wanted, stage, starts, live>>

SupervisionInit == /\ wanted \in SUBSET Slots
                   /\ stage = "starting"
                   /\ starts = [s \in Slots |-> {}]
                   /\ live = {}

FirstStart(s) == /\ stage = "starting"
                 /\ s \in wanted \ live
                 /\ starts[s] = {}
                 /\ starts' = [starts EXCEPT ![s] = {0}]
                 /\ live' = live \cup {s}
                 /\ UNCHANGED <<wanted, stage>>

\* Init returns, and the API is started.
Serve == /\ stage = "starting"
         /\ \A s \in Slots : starts[s] # {} <=> s \in wanted
         /\ stage' = "serving"
         /\ UNCHANGED <<wanted, starts, live>>

StartAgain(s) == /\ stage = "serving"
                 /\ s \notin live
                 /\ \E n \in starts[s] : /\ starts[s] = 0 .. n
                                         /\ starts' = [starts EXCEPT ![s] = 0 .. n + 1]
                 /\ live' = live \cup {s}
                 /\ UNCHANGED <<wanted, stage>>

\* By itself, or because it is stopped.
Die(s) == /\ stage # "ended"
          /\ s \in live
          /\ live' = live \ {s}
          /\ UNCHANGED <<wanted, stage, starts>>

Fail == /\ stage = "starting"
        /\ stage' = "failed"
        /\ UNCHANGED <<wanted, starts, live>>

End == /\ stage = "serving"
       /\ live = {}
       /\ stage' = "ended"
       /\ UNCHANGED <<wanted, starts, live>>

SupervisionNext == \/ \E s \in Slots : FirstStart(s) \/ StartAgain(s) \/ Die(s)
                   \/ Serve \/ Fail \/ End

SupervisionSpec == SupervisionInit /\ [][SupervisionNext]_supervisionVars
=============================================================================
