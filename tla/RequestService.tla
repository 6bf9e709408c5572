---------------------------- MODULE RequestService ----------------------------
(***************************************************************************)
(* What the serving path promises to the handler of a non-streaming        *)
(* request, with queues, batches and instances left out: a request that    *)
(* was asked gets at most one reply, the handler returns exactly that      *)
(* reply or gives up, and a reply that comes after it gave up changes      *)
(* nothing for it (server.go:216-234, scheduler.go:269-281).  The queue of *)
(* multimodal tasks answers those who submit them likewise                 *)
(* (manager.go:83-124).                                                    *)
(***************************************************************************)
CONSTANT Requests

VARIABLES state,  \* what the handler has come to
          reply   \* the reply the service has produced, if any

abstractVars == <<state, reply>>

ServiceInit == /\ state = [r \in Requests |-> "idle"]
               /\ reply = [r \in Requests |-> "empty"]

Ask(r) == /\ state[r] = "idle"
          /\ state' = [state EXCEPT ![r] = "waiting"]
          /\ UNCHANGED reply

\* The service decides the outcome, once, whether or not the handler still waits.
Produce(r, outcome) == /\ state[r] \in {"waiting", "timeout"}
                       /\ reply[r] = "empty"
                       /\ reply' = [reply EXCEPT ![r] = outcome]
                       /\ UNCHANGED state

\* The handler returns the outcome the service decided.
Deliver(r) == /\ state[r] = "waiting"
              /\ \/ reply[r] = "ok" /\ state' = [state EXCEPT ![r] = "answered"]
                 \/ reply[r] = "error" /\ state' = [state EXCEPT ![r] = "failed"]
              /\ UNCHANGED reply

GiveUp(r) == /\ state[r] = "waiting"
             /\ state' = [state EXCEPT ![r] = "timeout"]
             /\ UNCHANGED reply

ServiceNext == \E r \in Requests : \/ Ask(r)
                                   \/ \E outcome \in {"ok", "error"} : Produce(r, outcome)
                                   \/ Deliver(r)
                                   \/ GiveUp(r)

ServiceSpec == ServiceInit /\ [][ServiceNext]_abstractVars
=============================================================================
