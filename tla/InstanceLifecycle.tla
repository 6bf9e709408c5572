-------------------------- MODULE InstanceLifecycle --------------------------
(***************************************************************************)
(* The life of the llama.cpp instances of all models: Init with StartAll   *)
(* for one model after another, the goroutine waitForReady of each         *)
(* instance, the health checker and the restarts it starts, and Stop with  *)
(* StopAll (internal/runner/runner.go, internal/scheduler/scheduler.go).   *)
(*                                                                         *)
(* A slot is what a restart keeps: ID and port.  (Not the GPU: restarts    *)
(* pass the field GPUID, which StartInstance never sets, and so 0.  Which  *)
(* GPU a process uses is left out.)  Every start of a slot makes a new     *)
(* LlamaInstance object <<slot, generation>>, with a process, channels and *)
(* a flag Ready of its own; all the objects of a slot share its port.      *)
(* Times are abstracted: a timer may fire at any moment after it was set.  *)
(*                                                                         *)
(* Assumed of a configuration: its models have different names.  Nothing   *)
(* in the code checks it.  Pools and runners are kept by name, so of two   *)
(* models with one name the second would replace the runner of the first,  *)
(* whose processes nobody would stop.  Here a model is its place in the    *)
(* configuration.                                                          *)
(***************************************************************************)
EXTENDS Naturals, Sequences

CONSTANTS Slots,       \* instances that a configuration may ask for
          Fleets,      \* configurations: a sequence of models, each one of its slots
          MaxRestarts, \* bound: how often a slot is started again, per slot
          MaxPending   \* bound: restart goroutines counted per object

ASSUME LifecycleAssumption ==
    /\ Fleets \subseteq Seq(Seq(Slots))
    /\ \A f \in Fleets : \A m, n \in DOMAIN f : \A i \in DOMAIN f[m], j \in DOMAIN f[n] :
          f[m][i] = f[n][j] => m = n /\ i = j
    /\ MaxRestarts \in [Slots -> Nat]
    /\ MaxPending \in Nat \ {0}

Models == UNION {DOMAIN f : f \in Fleets}
Objects == UNION {{s} \X (0 .. MaxRestarts[s]) : s \in Slots}
First(s) == <<s, 0>>

VARIABLES fleet,      \* the configuration: it does not change
          port,       \* of the slots, counted from BasePort
          proc,       \* Cmd: the process of an object
          ready,      \* LlamaInstance.Ready
          stopClosed, \* StopCh is closed
          waiter,     \* where the object's waitForReady goroutine is
          members,    \* Pool.instances of each model
          due,        \* the models whose pool this checkHealth has not come to
          todo,       \* its copy of a pool, from the instance it is at
          pending,    \* restartInstance goroutines that have not called Stop
          restarter,  \* where the one that has called Stop is
          phase,      \* main: starting, up, stopping its instances, gone
          model,      \* the model main is at
          at,         \* index in it of the instance main is at
          total,      \* Init's totalInstances
          left,       \* the models whose StopAll is still to come
          killing,    \* main is inside Stop of that instance
          panicked    \* close of a closed channel: the program has crashed

procVars == <<proc, ready, stopClosed, waiter>>
healthVars == <<due, todo, pending, restarter>>
loopVars == <<model, at, total, left>>
mainVars == <<fleet, port, phase, loopVars, killing>>
vars == <<procVars, members, healthVars, mainVars, panicked>>

\* "crashed": it ended by itself; "reaped": so it did, and Cmd.Wait has set
\* ProcessState, for which Exited() holds; "killed": ended by a signal and waited for.
ProcStates    == {"none", "loading", "serving", "hung", "crashed", "reaped", "killed"}
LiveProc      == {"loading", "serving", "hung"}
WaiterStates  == {"none", "poll", "check", "returned"}
RestartStates == {"none", "stopping", "starting", "retrying", "restarted", "gaveup"}
Restarting    == {"stopping", "starting", "retrying"}
PhaseStates   == {"starting", "cleanup", "waiting", "up", "closing", "stopping",
                  "down", "failed"}

TypeOK == /\ fleet \in Fleets
          /\ port \in [Slots -> Nat]
          /\ proc \in [Objects -> ProcStates]
          /\ ready \in [Objects -> BOOLEAN]
          /\ stopClosed \in [Objects -> BOOLEAN]
          /\ waiter \in [Objects -> WaiterStates]
          /\ members \in [Models -> Seq(Objects)]
          /\ due \in SUBSET DOMAIN fleet
          /\ todo \in Seq(Objects)
          /\ pending \in [Objects -> 0 .. MaxPending]
          /\ restarter \in [Objects -> RestartStates]
          /\ phase \in PhaseStates
          /\ model \in 1 .. Len(fleet) + 1
          /\ at \in Nat \ {0}
          /\ total \in Nat
          /\ left \in SUBSET DOMAIN fleet
          /\ killing \in BOOLEAN
          /\ panicked \in BOOLEAN

Init == /\ fleet \in Fleets
        /\ port = [s \in Slots |-> 0]
        /\ proc = [o \in Objects |-> "none"]
        /\ ready = [o \in Objects |-> FALSE]
        /\ stopClosed = [o \in Objects |-> FALSE]
        /\ waiter = [o \in Objects |-> "none"]
        /\ members = [m \in Models |-> <<>>]
        /\ due = {}
        /\ todo = <<>>
        /\ pending = [o \in Objects |-> 0]
        /\ restarter = [o \in Objects |-> "none"]
        /\ phase = "starting"
        /\ model = 1
        /\ at = 1
        /\ total = 0
        /\ left = {}
        /\ killing = FALSE
        /\ panicked = FALSE

\* Nothing of the program runs after a panic or after main has returned.
Running == ~panicked /\ phase \notin {"down", "failed"}

\* GET /health on the port of slot s is answered 200, by whichever object's process.
PortAnswers(s) == \E o \in Objects : port[o[1]] = port[s] /\ proc[o] = "serving"

\* The GET does not return: the process has the port and says nothing.
PortHangs(s) == ~PortAnswers(s) /\ \E o \in Objects : port[o[1]] = port[s] /\ proc[o] = "hung"

Created(o) == waiter[o] # "none"

\* Main is at an instance of its model.
InModel == model <= Len(fleet) /\ at <= Len(fleet[model])
Current == First(fleet[model][at])

\* The instances that StartAll returned join the pool of their model.
JoinPool == /\ members' = [members EXCEPT ![model] =
                              @ \o [k \in DOMAIN fleet[model] |-> First(fleet[model][k])]]
            /\ total' = total + Len(fleet[model])
            /\ model' = model + 1
            /\ at' = 1
            /\ phase' = "starting"
            /\ UNCHANGED <<procVars, healthVars, fleet, port, left, killing, panicked>>

\* n is the next object of the slot of o.
NextObject(o, n) == /\ n[1] = o[1]
                    /\ ~Created(n)
                    /\ \A g \in 0 .. n[2] - 1 : Created(<<o[1], g>>)

ModelOf(s) == CHOOSE m \in DOMAIN fleet : \E k \in DOMAIN fleet[m] : fleet[m][k] = s

\* StartInstance succeeds: process o runs and "go inst.waitForReady()" has started.
StartInstance(o) == /\ proc' = [proc EXCEPT ![o] = "loading"]
                    /\ waiter' = [waiter EXCEPT ![o] = "poll"]
                    /\ UNCHANGED <<ready, stopClosed>>

-----------------------------------------------------------------------------
(* Faulty variants of the definitions below: each breaks a property (README). *)

\* Stop that ends the goroutine and not the process.
KillNothing(o) == UNCHANGED <<proc, ready, stopClosed, waiter>>

\* A health check that trusts Ready.
HealthyOnceReady(o) == ready[o]

\* The client of the health check without its timeout.
CheckWithoutTimeout == /\ Running
                       /\ todo # <<>>
                       /\ LET o == Head(todo)
                          IN /\ ready[o] => ~PortHangs(o[1])
                             /\ pending' = [pending EXCEPT ![o] =
                                   IF (ready[o] /\ PortAnswers(o[1])) \/ @ = MaxPending
                                   THEN @ ELSE @ + 1]
                       /\ todo' = Tail(todo)
                       /\ UNCHANGED <<procVars, members, due, restarter, mainVars, panicked>>

\* The retry of a restart that does not add its instance to the pool.
RetryWithoutAdd(o, n) == /\ Running
                         /\ restarter[o] \in {"starting", "retrying"}
                         /\ NextObject(o, n)
                         /\ StartInstance(n)
                         /\ IF restarter[o] = "retrying" THEN UNCHANGED members
                            ELSE members' = [members EXCEPT ![ModelOf(o[1])] = Append(@, n)]
                         /\ restarter' = [restarter EXCEPT ![o] = "restarted"]
                         /\ UNCHANGED <<due, todo, pending, mainVars, panicked>>

\* StartAll that returns as soon as the processes run.
AwaitNothing == phase = "waiting" /\ JoinPool

\* Waiting for the goroutine to return instead of for a timer.
AwaitTheWaiter == /\ phase = "waiting" /\ InModel
                  /\ ~ready[Current]
                  /\ waiter[Current] = "returned"
                  /\ phase' = "failed"
                  /\ UNCHANGED <<procVars, members, healthVars, fleet, port, loopVars, killing,
                                 panicked>>

\* A StartAll that returns its error at once.
FailWithoutCleanup == /\ phase = "starting" /\ InModel
                      /\ phase' = "failed"
                      /\ UNCHANGED <<procVars, members, healthVars, fleet, port, loopVars,
                                     killing, panicked>>

\* A StopAll that is off by one.
AllButTheLast == InModel /\ at < Len(fleet[model]) /\ Created(Current)

-----------------------------------------------------------------------------
(* The llama.cpp processes (environment) *)

Load(o) == /\ proc[o] = "loading"
           /\ proc' = [proc EXCEPT ![o] = "serving"]

Hang(o) == /\ proc[o] = "serving"
           /\ proc' = [proc EXCEPT ![o] = "hung"]

Crash(o) == /\ proc[o] \in LiveProc
            /\ proc' = [proc EXCEPT ![o] = "crashed"]

Process(o) == /\ Running
              /\ Load(o) \/ Hang(o) \/ Crash(o)
              /\ UNCHANGED <<ready, stopClosed, waiter, members, healthVars, mainVars,
                             panicked>>

-----------------------------------------------------------------------------
(* LlamaInstance.Stop *)

\* Stop begins with close(StopCh), which panics if the channel is closed.
CloseStopCh(o) == /\ stopClosed' = [stopClosed EXCEPT ![o] = TRUE]
                  /\ panicked' = stopClosed[o]
                  /\ UNCHANGED <<proc, ready, waiter>>

\* The rest of Stop, after at most 5 seconds: Kill and Wait.
\* A process that ended by itself did so by exiting or by a signal of its own.
KillProcess(o) == /\ \/ /\ proc[o] = "crashed"
                        /\ \E end \in {"reaped", "killed"} :
                              proc' = [proc EXCEPT ![o] = end]
                     \/ /\ proc[o] # "crashed"
                        /\ proc' = [proc EXCEPT ![o] = "killed"]
                  /\ UNCHANGED <<ready, stopClosed, waiter>>

-----------------------------------------------------------------------------
(* waitForReady.  It closes DoneCh when it returns, except when it sees that *)
(* the process exited; Stop, the only reader, waits for DoneCh or 5 seconds, *)
(* so whether it is closed only shortens that wait, and it is left out.      *)

WaiterReturns(o) == waiter' = [waiter EXCEPT ![o] = "returned"]

\* ProcessState says that the process exited.
WaiterSeesExit(o) == /\ waiter[o] = "poll"
                     /\ proc[o] = "reaped"
                     /\ WaiterReturns(o)
                     /\ UNCHANGED ready

WaiterSeesReady(o) == /\ waiter[o] = "poll"
                      /\ proc[o] # "reaped"
                      /\ PortAnswers(o[1])
                      /\ ready' = [ready EXCEPT ![o] = TRUE]
                      /\ WaiterReturns(o)

\* The GET failed, or was not answered 200.  It has no timeout.
WaiterSeesNothing(o) == /\ waiter[o] = "poll"
                        /\ proc[o] # "reaped"
                        /\ ~PortAnswers(o[1]) /\ ~PortHangs(o[1])
                        /\ waiter' = [waiter EXCEPT ![o] = "check"]
                        /\ UNCHANGED ready

\* 120 seconds have passed, or StopCh is closed.
WaiterGivesUp(o) == /\ waiter[o] = "check"
                    /\ WaiterReturns(o)
                    /\ UNCHANGED ready

\* Neither: sleep 500 ms and try again.
WaiterSleeps(o) == /\ waiter[o] = "check"
                   /\ ~stopClosed[o]
                   /\ waiter' = [waiter EXCEPT ![o] = "poll"]
                   /\ UNCHANGED ready

Waiter(o) == /\ Running
             /\ \/ WaiterSeesExit(o)
                \/ WaiterSeesReady(o)
                \/ WaiterSeesNothing(o)
                \/ WaiterGivesUp(o)
                \/ WaiterSleeps(o)
             /\ UNCHANGED <<proc, stopClosed, members, healthVars, mainVars, panicked>>

-----------------------------------------------------------------------------
(* The health checker: one pass over a copy of the pool at every tick *)

\* The GET goes to the port: a stopped object is healthy again once another
\* process answers there, since Ready is never reset.
IsHealthy(o) == ready[o] /\ PortAnswers(o[1])

HealthTick == /\ Running
              /\ phase \in {"up", "closing"}
              /\ due = {} /\ todo = <<>>
              /\ due' = DOMAIN fleet
              /\ UNCHANGED <<procVars, members, todo, pending, restarter, mainVars, panicked>>

\* The pools come in the random order of a Go map, each copied when it is reached.
CheckPool(m) == /\ Running
                /\ m \in due /\ todo = <<>>
                /\ due' = due \ {m}
                /\ todo' = members[m]
                /\ UNCHANGED <<procVars, members, pending, restarter, mainVars, panicked>>

\* An unhealthy instance gets a restart goroutine, also if it has one already.
CheckHealth == /\ Running
               /\ todo # <<>>
               /\ LET o == Head(todo)
                  IN pending' = [pending EXCEPT ![o] =
                        IF IsHealthy(o) \/ @ = MaxPending THEN @ ELSE @ + 1]
               /\ todo' = Tail(todo)
               /\ UNCHANGED <<procVars, members, due, restarter, mainVars, panicked>>

-----------------------------------------------------------------------------
(* restartInstance(o) *)

\* Release and the first half of Stop.
RestartStop(o) == /\ Running
                  /\ pending[o] > 0
                  /\ pending' = [pending EXCEPT ![o] = @ - 1]
                  /\ CloseStopCh(o)
                  /\ restarter' = [restarter EXCEPT ![o] =
                                     IF stopClosed[o] THEN @ ELSE "stopping"]
                  /\ UNCHANGED <<members, due, todo, mainVars>>

RestartKill(o) == /\ Running
                  /\ restarter[o] = "stopping"
                  /\ KillProcess(o)
                  /\ restarter' = [restarter EXCEPT ![o] = "starting"]
                  /\ UNCHANGED <<members, due, todo, pending, mainVars, panicked>>

\* StartInstance succeeds, at the first try or 5 seconds after it failed; the
\* new object joins the pool, which still has the old one.
RestartStart(o, n) == /\ Running
                      /\ restarter[o] \in {"starting", "retrying"}
                      /\ NextObject(o, n)
                      /\ StartInstance(n)
                      /\ members' = [members EXCEPT ![ModelOf(o[1])] = Append(@, n)]
                      /\ restarter' = [restarter EXCEPT ![o] = "restarted"]
                      /\ UNCHANGED <<due, todo, pending, mainVars, panicked>>

\* It fails: there is one retry.
RestartFails(o) == /\ Running
                   /\ restarter[o] \in {"starting", "retrying"}
                   /\ restarter' = [restarter EXCEPT ![o] =
                                      IF @ = "starting" THEN "retrying" ELSE "gaveup"]
                   /\ UNCHANGED <<procVars, members, due, todo, pending, mainVars, panicked>>

-----------------------------------------------------------------------------
(* main: Init (StartAll of each model), then Stop (StopAll of each) *)

\* StartAll starts the instances of a model; when there are no more models, Init returns.
StartNext == /\ phase = "starting"
             /\ \/ /\ InModel
                   /\ StartInstance(Current)
                   /\ port' = [port EXCEPT ![fleet[model][at]] = total + at - 1]
                   /\ at' = at + 1
                   /\ UNCHANGED <<phase, model, total>>
                \/ /\ ~InModel
                   /\ at' = 1
                   /\ phase' = IF model <= Len(fleet) THEN "waiting" ELSE "up"
                   /\ UNCHANGED <<procVars, port, model, total>>
             /\ UNCHANGED <<members, healthVars, fleet, left, killing, panicked>>

\* An instance does not start: those of its model before it are stopped, and main gives
\* up.  Those of other models are left running.
StartFails == /\ phase = "starting" /\ InModel
              /\ at' = 1
              /\ phase' = "cleanup"
              /\ UNCHANGED <<procVars, members, healthVars, fleet, port, model, total, left,
                             killing, panicked>>

\* StartAll polls Ready of one instance after another; then they join the pool.
AwaitReady == /\ phase = "waiting"
              /\ \/ /\ InModel /\ ready[Current]
                    /\ at' = at + 1
                    /\ UNCHANGED <<procVars, members, healthVars, fleet, port, phase, model,
                                   total, left, killing, panicked>>
                 \/ ~InModel /\ JoinPool

\* 120 seconds have passed: main gives up and leaves the processes running.
AwaitTimeout == /\ phase = "waiting" /\ InModel
                /\ ~ready[Current]
                /\ phase' = "failed"
                /\ UNCHANGED <<procVars, members, healthVars, fleet, port, loopVars, killing,
                               panicked>>

\* Scheduler.Stop: close stopCh ...
Stop == /\ Running
        /\ phase = "up"
        /\ phase' = "closing"
        /\ UNCHANGED <<procVars, members, healthVars, fleet, port, loopVars, killing, panicked>>

\* ... wait for the health checker to end its pass ...
LoopsEnd == /\ Running
            /\ phase = "closing"
            /\ due = {} /\ todo = <<>>
            /\ phase' = "stopping"
            /\ left' = DOMAIN fleet
            /\ UNCHANGED <<procVars, members, healthVars, fleet, port, model, at, total,
                           killing, panicked>>

\* The instances that StartAll made, not those that replaced them.
MoreToStop == InModel /\ Created(Current)

\* ... and StopAll of the runners, which are kept in a map.
StopRunner(m) == /\ Running
                 /\ phase = "stopping" /\ ~killing
                 /\ ~MoreToStop
                 /\ m \in left
                 /\ left' = left \ {m}
                 /\ model' = m
                 /\ at' = 1
                 /\ UNCHANGED <<procVars, members, healthVars, fleet, port, phase, total,
                                killing, panicked>>

\* StopAll, and the cleanup of StartAll: Stop of one instance after another.
MainClose == /\ Running
             /\ phase \in {"cleanup", "stopping"}
             /\ ~killing
             /\ MoreToStop
             /\ CloseStopCh(Current)
             /\ killing' = TRUE
             /\ UNCHANGED <<members, healthVars, fleet, port, phase, loopVars>>

MainKill == /\ Running
            /\ killing
            /\ KillProcess(Current)
            /\ killing' = FALSE
            /\ at' = at + 1
            /\ UNCHANGED <<members, healthVars, fleet, port, phase, model, total, left, panicked>>

MainDone == /\ Running
            /\ phase \in {"cleanup", "stopping"}
            /\ ~killing
            /\ ~MoreToStop /\ left = {}
            /\ phase' = IF phase = "cleanup" THEN "failed" ELSE "down"
            /\ UNCHANGED <<procVars, members, healthVars, fleet, port, loopVars, killing,
                           panicked>>

-----------------------------------------------------------------------------
Processes == \E o \in Objects : Process(o)
Waiters == \E o \in Objects : Waiter(o)
HealthChecker == HealthTick \/ (\E m \in Models : CheckPool(m)) \/ CheckHealth
Restarts == \E o \in Objects : \/ RestartStop(o)
                               \/ RestartKill(o)
                               \/ \E n \in Objects : RestartStart(o, n)
                               \/ RestartFails(o)
Main == \/ StartNext \/ StartFails \/ AwaitReady \/ AwaitTimeout
        \/ Stop \/ LoopsEnd \/ (\E m \in Models : StopRunner(m))
        \/ MainClose \/ MainKill \/ MainDone

\* The program has crashed or ended.
Ended == ~Running /\ UNCHANGED vars

Next == Processes \/ Waiters \/ HealthChecker \/ Restarts \/ Main \/ Ended

Spec == Init /\ [][Next]_vars

\* Every goroutine of the program runs on; a GET that hangs does not return, and
\* nothing makes a process load, recover or crash, or the operator stop it.  Go's
\* select chooses at random, so the checker cannot prefer its ticker for ever.
Fairness == /\ \A o \in Objects :
                  /\ WF_vars(Waiter(o))
                  /\ WF_vars(RestartStop(o))
                  /\ WF_vars(RestartKill(o))
                  /\ WF_vars((\E n \in Objects : RestartStart(o, n)) \/ RestartFails(o))
            /\ WF_vars(HealthTick)
            /\ WF_vars((\E m \in Models : CheckPool(m)) \/ CheckHealth)
            /\ WF_vars(StartNext \/ StartFails)
            /\ WF_vars(AwaitReady \/ AwaitTimeout)
            /\ SF_vars(LoopsEnd)
            /\ WF_vars(\E m \in Models : StopRunner(m))
            /\ WF_vars(MainClose)
            /\ WF_vars(MainKill)
            /\ WF_vars(MainDone)

FairSpec == Spec /\ Fairness

-----------------------------------------------------------------------------
(* Properties *)

\* No two processes ever listen on one port: the models' ports do not overlap, the
\* process of a slot is dead before it is started again, and no two restarts of a slot
\* overlap (scheduler.go:79-91, 232-267).
OneProcessPerPort ==
    \A o, p \in Objects :
        /\ port[o[1]] = port[p[1]]
        /\ \/ proc[o] \in LiveProc /\ proc[p] \in LiveProc
           \/ restarter[o] \in Restarting /\ restarter[p] \in Restarting
        => o = p

\* When Init returns, and the API starts to serve, every instance has answered
\* its health check: nothing that is not ready is in a pool before the first
\* restart (runner.go:407-421, scheduler.go:84-88).
FirstMembersReady ==
    \A m \in Models : \A k \in DOMAIN members[m] :
        members[m][k][2] = 0 => ready[members[m][k]]

\* While the API serves, every instance that was started, by StartAll, by a restart or
\* by its retry, is in the pool of its model and in no other, and just once: outside of
\* its pool no request would reach it and no check would see it die, and twice there it
\* would be restarted twice at a tick (scheduler.go:87, 245-266).
EachInItsPool ==
    phase \in {"up", "closing", "stopping", "down"} =>
        \A m \in DOMAIN fleet :
            /\ \A o \in Objects :
                  (\E k \in DOMAIN members[m] : members[m][k] = o)
                    <=> Created(o) /\ \E k \in DOMAIN fleet[m] : fleet[m][k] = o[1]
            /\ \A j, k \in DOMAIN members[m] : members[m][j] = members[m][k] => j = k

\* A shutdown that completes leaves no llama.cpp process behind, whatever state
\* it was in (scheduler.go:122-140).  A shutdown after a restart does not complete:
\* StopAll stops the first objects only, and their channels are closed (NoDoubleClose).
CleanShutdown ==
    phase = "down" => \A o \in Objects : proc[o] \notin LiveProc

\* A failed StartInstance in StartAll leaves no process of its model behind, as the
\* instances started before it are stopped (runner.go:395-400); those of the models
\* before it go on without the program (scheduler.go:80).
CleanFailedStart ==
    phase = "failed" /\ (\E k \in DOMAIN fleet[model] : ~Created(First(fleet[model][k])))
        => \A o \in Objects : (\E k \in DOMAIN fleet[model] : fleet[model][k] = o[1])
                              => proc[o] \notin LiveProc

\* What becomes of processes and slots is what Supervision promises: every slot of the
\* configuration is started before the API serves, a slot is started again only when
\* its process is dead, nothing starts once starting has failed, and the program ends
\* with no process left (scheduler.go:53-140, 232-267, runner.go:386-423).
Supervisor == INSTANCE Supervision
                WITH wanted <- UNION {{fleet[m][k] : k \in DOMAIN fleet[m]} : m \in DOMAIN fleet},
                     stage <- CASE phase \in {"starting", "waiting"} -> "starting"
                                [] phase \in {"up", "closing", "stopping"} -> "serving"
                                [] phase \in {"cleanup", "failed"} -> "failed"
                                [] phase = "down" -> "ended",
                     starts <- [s \in Slots |-> {g \in 0 .. MaxRestarts[s] : Created(<<s, g>>)}],
                     live <- {o[1] : o \in {p \in Objects : proc[p] \in LiveProc}}
ImplementsSupervision == Supervisor!SupervisionSpec

\* o is the object its slot was last started as.
Newest(o) == Created(o) /\ \A p \in Objects : p[1] = o[1] /\ Created(p) => p[2] <= o[2]

\* An instance whose process dies is noticed: its slot is started again, unless
\* starting it fails twice, the program stops, or it has crashed (MaxRestarts
\* bounds the generations; scheduler.go:220-267).
DeathIsNoticed ==
    \A o \in Objects : o[2] < MaxRestarts[o[1]] =>
        (phase = "up" /\ proc[o] = "crashed" /\ Newest(o)
            ~> ~Newest(o) \/ restarter[o] = "gaveup" \/ phase # "up" \/ panicked)

\* Neither Init nor Stop hangs, even if a waitForReady goroutine does: both wait
\* with timers only (runner.go:372-375, 407-419).
StartCompletes == phase = "starting" ~> phase \in {"up", "failed"}
StopCompletes == phase = "closing" ~> phase = "down" \/ panicked

\* FIXES_SUMMARY.md:305 "修复通道重复关闭问题" (closing a channel twice: fixed).
NoDoubleClose == ~panicked
=============================================================================
