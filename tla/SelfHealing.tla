----------------------------- MODULE SelfHealing -----------------------------
(***************************************************************************)
(* Serving composed with the health checker of                             *)
(* internal/scheduler/scheduler.go: what a restart does to requests,       *)
(* batches and streams that are using the instance.                        *)
(*                                                                         *)
(* restartInstance clears Busy of an object that may be in use, stops it,  *)
(* and adds a new object for the same port to the pool; the stopped one    *)
(* stays there.  So a process may serve two batches at once, through two   *)
(* objects, and what its users hold is no longer exclusive.                *)
(*                                                                         *)
(* InstanceLifecycle has the processes in detail.  Here one answers or     *)
(* does not, a second Stop of an object ends the program, and Complete may *)
(* end with content or an error whenever it is running, as in Serving.     *)
(***************************************************************************)
EXTENDS Serving

CONSTANTS Port  \* the port of an object; objects in no initial pool replace others

ASSUME PortAssumption == DOMAIN Port = Instances

VARIABLES process,  \* the process an object started
          ready,    \* LlamaInstance.Ready
          stopped,  \* objects whose StopCh is closed
          restart,  \* the goroutine restartInstance of an object
          second    \* a second one, which a later tick started

healthVars == <<process, ready, stopped, restart, second>>
healingVars == <<vars, healthVars>>

Members == UNION {Range(pool[m]) : m \in Models}
Initial == UNION {Range(InitialPool[m]) : m \in Models}

HealingTypeOK ==
    /\ TypeOK
    /\ process \in [Instances -> {"none", "loading", "up"}]
    /\ ready \in SUBSET Members
    /\ stopped \in SUBSET Members
    /\ restart \in [Instances -> {"none", "spawned", "released", "stopped"}]
    /\ second \in [Instances -> {"none", "spawned", "released"}]
    /\ \A i \in Instances : /\ process[i] # "none" => i \in Members \ stopped
                            /\ restart[i] # "none" => i \in Members
                            /\ restart[i] = "stopped" => i \in stopped

\* StartAll has waited for every instance.
HealingInit == /\ Init
               /\ process = [i \in Instances |-> IF i \in Initial THEN "up" ELSE "none"]
               /\ ready = Initial
               /\ stopped = {}
               /\ restart = [i \in Instances |-> "none"]
               /\ second = [i \in Instances |-> "none"]

PortAnswers(i) == \E j \in Instances : Port[j] = Port[i] /\ process[j] = "up"

-----------------------------------------------------------------------------
(* llama.cpp processes, and waitForReady *)

ProcessDies(i) == /\ process[i] # "none"
                  /\ process' = [process EXCEPT ![i] = "none"]
                  /\ UNCHANGED <<vars, ready, stopped, restart, second>>

ProcessLoads(i) == /\ process[i] = "loading" /\ ~PortAnswers(i)
                   /\ process' = [process EXCEPT ![i] = "up"]
                   /\ UNCHANGED <<vars, ready, stopped, restart, second>>

\* waitForReady's health check is answered by whoever has the port.
BecomesReady(i) == /\ i \in Members \ (ready \cup stopped)
                   /\ PortAnswers(i)
                   /\ ready' = ready \cup {i}
                   /\ UNCHANGED <<vars, process, stopped, restart, second>>

-----------------------------------------------------------------------------
(* checkHealth and restartInstance *)

IsHealthy(i) == i \in ready /\ PortAnswers(i)

\* A tick that finds i unhealthy starts one more restart of it.
CheckHealth(i) ==
    /\ Alive
    /\ i \in Members
    /\ ~IsHealthy(i)
    /\ IF restart[i] = "none" /\ i \notin stopped
       THEN restart' = [restart EXCEPT ![i] = "spawned"] /\ UNCHANGED second
       ELSE /\ second[i] = "none"
            /\ second' = [second EXCEPT ![i] = "spawned"]
            /\ UNCHANGED restart
    /\ UNCHANGED <<vars, process, ready, stopped>>

\* Faulty: a restart frees the whole pool.
ClearAll(i) == /\ busy' = [j \in Instances |-> FALSE]
               /\ UNCHANGED <<batcherVars, pool, handlerVars, loopVars, running, worker, mu,
                              streamVars, phase>>

\* Busy is cleared, whoever is using the object.
ClearBusy(i) == /\ Release(InstModel[i], i)
                /\ UNCHANGED <<batcherVars, handlerVars, loopVars, running, worker, mu,
                               streamVars, phase>>

-----------------------------------------------------------------------------
(* Faulty variants of the restart: each breaks a property (README). *)

\* A restart that takes the batches of the instance with it.
ReleaseAndDrop(i) ==
    /\ Alive
    /\ restart[i] = "spawned"
    /\ Release(InstModel[i], i)
    /\ running' = {b \in running : b.inst # i}
    /\ restart' = [restart EXCEPT ![i] = "released"]
    /\ UNCHANGED <<batcherVars, handlerVars, loopVars, worker, mu,
                   streamVars, phase, process, ready, stopped, second>>

-----------------------------------------------------------------------------
\* s.modelPools.Release
RestartRelease(i) == /\ Alive
                     /\ restart[i] = "spawned"
                     /\ ClearBusy(i)
                     /\ restart' = [restart EXCEPT ![i] = "released"]
                     /\ UNCHANGED <<process, ready, stopped, second>>

\* inst.Stop
RestartStop(i) == /\ Alive
                  /\ restart[i] = "released"
                  /\ stopped' = stopped \cup {i}
                  /\ process' = [process EXCEPT ![i] = "none"]
                  /\ restart' = [restart EXCEPT ![i] = "stopped"]
                  /\ UNCHANGED <<vars, ready, second>>

\* StartInstance, at once or in the retry: a new object joins the pool.
RestartStart(i, j) ==
    /\ Alive
    /\ restart[i] = "stopped"
    /\ j \notin Members /\ Port[j] = Port[i] /\ InstModel[j] = InstModel[i]
    /\ pool' = [pool EXCEPT ![InstModel[i]] = Append(@, j)]
    /\ process' = [process EXCEPT ![j] = "loading"]
    /\ restart' = [restart EXCEPT ![i] = "none"]
    /\ UNCHANGED <<batcherVars, busy, handlerVars, loopVars, running, worker, mu,
                   streamVars, phase, ready, stopped, second>>

\* StartInstance fails twice.
RestartFails(i) == /\ Alive
                   /\ restart[i] = "stopped"
                   /\ restart' = [restart EXCEPT ![i] = "none"]
                   /\ UNCHANGED <<vars, process, ready, stopped, second>>

\* The second restart of an object clears Busy again ...
SecondRelease(i) == /\ Alive
                    /\ second[i] = "spawned"
                    /\ ClearBusy(i)
                    /\ second' = [second EXCEPT ![i] = "released"]
                    /\ UNCHANGED <<process, ready, stopped, restart>>

\* ... and closes its StopCh again, which ends the program.
SecondStop(i) == /\ Alive
                 /\ second[i] = "released" /\ i \in stopped
                 /\ phase' = "down"
                 /\ UNCHANGED <<batcherVars, poolVars, handlerVars, loopVars, running,
                                worker, mu, streamVars, healthVars>>

-----------------------------------------------------------------------------
Restart(i) == \/ RestartRelease(i) \/ RestartStop(i)
              \/ \E j \in Instances : RestartStart(i, j)
              \/ RestartFails(i)
              \/ SecondRelease(i) \/ SecondStop(i)

ServingStep == Next /\ UNCHANGED healthVars

HealingNext == \/ ServingStep
               \/ \E i \in Instances :
                     \/ Alive /\ (ProcessDies(i) \/ ProcessLoads(i) \/ BecomesReady(i))
                     \/ CheckHealth(i)
                     \/ Restart(i)

\* Users of one object can now take its mutex again and again while a worker waits
\* for it; Go hands the mutex over to one that has waited.
MutexFairness == \A r \in Requests : SF_vars(\E b \in running : r \in b.reqs
                                                               /\ LockInstance(b, r))

\* Fairness of the serving path only: nothing below relies on a restart.
HealingSpec == HealingInit /\ [][HealingNext]_healingVars /\ Fairness /\ MutexFairness

-----------------------------------------------------------------------------
(* Properties; those of Serving that do not depend on leases are proved again *)

\* An object no restart has touched is leased to one user at most and is busy just
\* then, also when it replaces one that still has users, on whose port it is
\* (scheduler.go:233, 265).
LeaseUntilRestart ==
    \A i \in Instances :
        i \in stopped \/ restart[i] = "released" \/ second[i] = "released" \/ LeasedOnce(i)

\* A restart that takes the lease from under a batch leaves its requests with their
\* workers, which answer them, unless the program stops, or a stream that was given
\* the same object holds its mutex for a client that does not read: a restart is the
\* only way to such a wait (scheduler.go:233, runner.go:187, 261, server.go:56).
AnsweredUnlessStalled ==
    \A r \in Requests :
        InService(r) ~> \/ ~InService(r)
                        \/ phase \in {"stopping", "down"}
                        \/ \E b \in running, s \in Streams :
                              /\ r \in b.reqs
                              /\ uses[s] = b.inst /\ stream[s] = "stalled"
=============================================================================
