---------------------- MODULE InstanceLifecycle_proofs ----------------------
(***************************************************************************)
(* For every configuration, number of restarts and of pending goroutines:  *)
(* the types of InstanceLifecycle, one process per port, ready instances   *)
(* in the pools, nothing left behind by a shutdown that completes or by a  *)
(* failed start, and that all of it together does what Supervision says.   *)
(***************************************************************************)
EXTENDS InstanceLifecycle, SequenceTheorems, TLAPS

USE DEF procVars, healthVars, loopVars, mainVars

-----------------------------------------------------------------------------
(* Objects and places *)

\* An object is its slot and its generation; earlier generations are objects too.
LEMMA ObjectFacts ==
    ASSUME NEW o \in Objects
    PROVE  /\ o[1] \in Slots /\ o[2] \in Nat /\ o = <<o[1], o[2]>>
           /\ First(o[1]) \in Objects
           /\ \A g \in 0 .. o[2] : <<o[1], g>> \in Objects
           /\ \A p \in Objects : p[1] = o[1] /\ p[2] = o[2] => p = o
<1>1. \A p \in Objects : \E s \in Slots : p \in {s} \X (0 .. MaxRestarts[s])
  BY DEF Objects
<1>2. \A p \in Objects : /\ p[1] \in Slots /\ p = <<p[1], p[2]>>
                         /\ p[2] \in 0 .. MaxRestarts[p[1]]
  BY <1>1
<1>3. \A s \in Slots : MaxRestarts[s] \in Nat
  BY LifecycleAssumption
<1>4. \A s \in Slots : \A g \in 0 .. MaxRestarts[s] : <<s, g>> \in Objects
  BY DEF Objects
<1> QED
  BY <1>2, <1>3, <1>4 DEF First

LEMMA FirstIsObject == ASSUME NEW s \in Slots
                       PROVE  First(s) \in Objects /\ First(s)[1] = s /\ First(s)[2] = 0
<1>1. MaxRestarts[s] \in Nat
  BY LifecycleAssumption
<1> QED
  BY <1>1 DEF First, Objects

\* The places of a configuration hold different slots.
LEMMA Places ==
    ASSUME fleet \in Fleets
    PROVE  /\ \A m \in DOMAIN fleet : m \in Models /\ fleet[m] \in Seq(Slots)
           /\ \A m \in DOMAIN fleet : \A k \in DOMAIN fleet[m] : fleet[m][k] \in Slots
           /\ \A m, n \in DOMAIN fleet : \A i \in DOMAIN fleet[m], j \in DOMAIN fleet[n] :
                 fleet[m][i] = fleet[n][j] => m = n /\ i = j
           /\ DOMAIN fleet = 1 .. Len(fleet) /\ Len(fleet) \in Nat
           /\ \A m \in DOMAIN fleet : DOMAIN fleet[m] = 1 .. Len(fleet[m]) /\ Len(fleet[m]) \in Nat
<1>1. fleet \in Seq(Seq(Slots))
  BY LifecycleAssumption
<1>2. \A m \in DOMAIN fleet : fleet[m] \in Seq(Slots)
  BY <1>1
<1>3. \A m \in DOMAIN fleet : m \in Models
  BY DEF Models
<1>4. \A m \in DOMAIN fleet : \A k \in DOMAIN fleet[m] : fleet[m][k] \in Slots
  BY <1>2
<1> QED
  BY <1>1, <1>2, <1>3, <1>4, LifecycleAssumption

\* Main is at a first object.
LEMMA CurrentIsObject ==
    ASSUME TypeOK, InModel
    PROVE  /\ model \in DOMAIN fleet /\ at \in DOMAIN fleet[model]
           /\ fleet[model][at] \in Slots
           /\ Current \in Objects /\ Current[1] = fleet[model][at] /\ Current[2] = 0
           /\ Current = First(fleet[model][at])
<1>1. model \in DOMAIN fleet /\ at \in DOMAIN fleet[model]
  BY Places DEF TypeOK, InModel
<1> QED
  BY <1>1, Places, FirstIsObject DEF TypeOK, Current

-----------------------------------------------------------------------------
(* The inductive invariant, in parts *)

Alive(o) == proc[o] \in LiveProc

\* Whether main has a use for the k-th instance of model m of the configuration.
IsPlace(m, k) == m \in DOMAIN fleet /\ k \in DOMAIN fleet[m]
Place(m, k) == First(fleet[m][k])

\* What is not created has done nothing, what is being replaced is dead, and all
\* the generations of a slot before a created one have been replaced.
Generations ==
    \A o \in Objects :
        /\ Created(o) \/ (proc[o] = "none" /\ restarter[o] = "none" /\ pending[o] = 0)
        /\ restarter[o] # "none" => stopClosed[o]
        /\ restarter[o] \in {"starting", "retrying", "restarted", "gaveup"} => ~Alive(o)
        /\ \A p \in Objects : p[1] = o[1] /\ p[2] < o[2] /\ Created(o)
                             => Created(p) /\ restarter[p] = "restarted"

\* Pools, and the copy that the health checker works on, hold created objects.
PoolsCreated ==
    /\ \A m \in Models : \A k \in DOMAIN members[m] : Created(members[m][k])
    /\ \A k \in DOMAIN todo : Created(todo[k])

\* The health checker and the restarts begin when Init has returned.
QuietUntilUp ==
    phase \in {"starting", "waiting", "cleanup", "failed"} =>
        /\ due = {} /\ todo = <<>>
        /\ \A o \in Objects : pending[o] = 0 /\ restarter[o] = "none"

\* Init creates the instances in the order of the configuration.
Progress ==
    /\ phase \in {"waiting", "cleanup", "failed"} => model \in DOMAIN fleet
    /\ phase = "starting" /\ model \in DOMAIN fleet => at <= Len(fleet[model]) + 1
    /\ \A m, k : IsPlace(m, k) =>
          /\ phase = "starting" =>
                (Created(Place(m, k)) <=> m < model \/ (m = model /\ k < at))
          /\ phase = "waiting" => (Created(Place(m, k)) <=> m <= model)
          /\ phase = "cleanup" /\ m = model /\ Created(Place(m, k)) =>
                \A j \in DOMAIN fleet[m] : j < k => Created(Place(m, j))
          /\ phase \in {"up", "closing", "stopping", "down"} => Created(Place(m, k))
    /\ \A o \in Objects : Created(o) => \E m, k : IsPlace(m, k) /\ fleet[m][k] = o[1]

\* Ports are given out in ascending order.
Ports ==
    \A o \in Objects : Created(o) =>
        /\ phase = "starting" => port[o[1]] + 1 < total + at
        /\ phase = "waiting" => port[o[1]] < total + Len(fleet[model])
        /\ \A p \in Objects : Created(p) /\ port[p[1]] = port[o[1]] => p[1] = o[1]

\* Init passes over an instance once it is ready, and readiness is never reset.
AwaitedAreReady ==
    phase = "waiting" =>
        \A k \in DOMAIN fleet[model] : k < at => ready[Place(model, k)]

\* What main has stopped stays dead, and nobody replaces it.
Closed(o) == Created(o) /\ (panicked \/ (stopClosed[o] /\ restarter[o] = "none"))

Passed(m, k) == /\ phase \in {"cleanup", "stopping"}
                /\ phase = "cleanup" => m = model
                /\ phase = "stopping" => m \notin left
                /\ m = model => k < at

Stops ==
    /\ killing => phase \in {"cleanup", "stopping"} /\ InModel /\ Closed(Current)
    /\ \A m, k : IsPlace(m, k) /\ Passed(m, k) => Closed(Place(m, k)) /\ ~Alive(Place(m, k))

-----------------------------------------------------------------------------
(* Type correctness *)

LEMMA TypeInit == Init => TypeOK
<1> SUFFICES ASSUME Init PROVE TypeOK
  OBVIOUS
<1>1. <<>> \in Seq(Objects)
  OBVIOUS
<1>2. model \in 1 .. Len(fleet) + 1
  BY Places DEF Init
<1>3. 0 \in 0 .. MaxPending
  BY LifecycleAssumption
<1>4. /\ fleet \in Fleets /\ port \in [Slots -> Nat] /\ members \in [Models -> Seq(Objects)]
      /\ todo \in Seq(Objects) /\ due \in SUBSET DOMAIN fleet /\ left \in SUBSET DOMAIN fleet
  BY <1>1 DEF Init
<1>5. /\ proc \in [Objects -> ProcStates] /\ ready \in [Objects -> BOOLEAN]
      /\ stopClosed \in [Objects -> BOOLEAN] /\ waiter \in [Objects -> WaiterStates]
      /\ restarter \in [Objects -> RestartStates] /\ phase \in PhaseStates
      /\ pending \in [Objects -> 0 .. MaxPending]
  BY <1>3 DEF Init, ProcStates, WaiterStates, RestartStates, PhaseStates
<1>6. at \in Nat \ {0} /\ total \in Nat
  BY DEF Init
<1>7. killing \in BOOLEAN /\ panicked \in BOOLEAN
  BY Zenon DEF Init
<1> QED
  BY <1>2, <1>4, <1>5, <1>6, <1>7 DEF TypeOK

\* The head of a list of objects is one.
LEMMA HeadAndTail ==
    ASSUME NEW S, NEW q \in Seq(S), q # <<>>
    PROVE  /\ Head(q) \in S /\ Tail(q) \in Seq(S)
           /\ Head(q) = q[1] /\ 1 \in DOMAIN q
           /\ \A k \in DOMAIN Tail(q) : k + 1 \in DOMAIN q /\ Tail(q)[k] = q[k + 1]
<1>1. Len(q) \in Nat \ {0} /\ DOMAIN q = 1 .. Len(q)
  OBVIOUS
<1>2. DOMAIN Tail(q) = 1 .. Len(q) - 1 /\ Head(q) = q[1]
  BY HeadTailProperties
<1> QED
  BY <1>1, <1>2, HeadTailProperties

LEMMA TypeStep == ASSUME TypeOK, Progress, [Next]_vars PROVE TypeOK'
<1> USE DEF TypeOK, ProcStates, WaiterStates, RestartStates, PhaseStates
<1>1. ASSUME NEW o \in Objects, Process(o) PROVE TypeOK'
  BY <1>1 DEF Process, Load, Hang, Crash
<1>2. ASSUME NEW o \in Objects, Waiter(o) PROVE TypeOK'
  BY <1>2 DEF Waiter, WaiterSeesExit, WaiterSeesReady, WaiterSeesNothing, WaiterGivesUp,
              WaiterSleeps, WaiterReturns
<1>3. CASE HealthTick
  BY <1>3 DEF HealthTick
<1>4. ASSUME NEW m \in Models, CheckPool(m) PROVE TypeOK'
  BY <1>4 DEF CheckPool
<1>5. CASE CheckHealth
  <2>1. Head(todo) \in Objects /\ Tail(todo) \in Seq(Objects)
    BY <1>5, HeadAndTail DEF CheckHealth
  <2>2. pending' \in [Objects -> 0 .. MaxPending]
    BY <1>5, <2>1, LifecycleAssumption DEF CheckHealth
  <2> QED
    BY <1>5, <2>1, <2>2 DEF CheckHealth
<1>6. ASSUME NEW o \in Objects, RestartStop(o) PROVE TypeOK'
  <2>1. pending' \in [Objects -> 0 .. MaxPending]
    BY <1>6, LifecycleAssumption DEF RestartStop
  <2> QED
    BY <1>6, <2>1 DEF RestartStop, CloseStopCh
<1>7. ASSUME NEW o \in Objects, RestartKill(o) PROVE TypeOK'
  BY <1>7 DEF RestartKill, KillProcess
<1>8. ASSUME NEW o \in Objects, NEW n \in Objects, RestartStart(o, n) PROVE TypeOK'
  <2>1. \A m \in Models : Append(members[m], n) \in Seq(Objects)
    OBVIOUS
  <2>2. members' \in [Models -> Seq(Objects)]
    BY <1>8, <2>1 DEF RestartStart
  <2> QED
    BY <1>8, <2>2 DEF RestartStart, StartInstance
<1>9. ASSUME NEW o \in Objects, RestartFails(o) PROVE TypeOK'
  BY <1>9 DEF RestartFails
<1>10. CASE StartNext
  <2>1. CASE InModel
    <3>1. total + at - 1 \in Nat /\ at + 1 \in Nat \ {0}
      OBVIOUS
    <3>2. port' \in [Slots -> Nat] /\ at' \in Nat \ {0}
      BY <1>10, <2>1, <3>1 DEF StartNext
    <3>3. proc' \in [Objects -> ProcStates] /\ waiter' \in [Objects -> WaiterStates]
      BY <1>10, <2>1 DEF StartNext, StartInstance
    <3> QED
      BY <1>10, <2>1, <3>2, <3>3 DEF StartNext, StartInstance
  <2>2. CASE ~InModel
    <3>1. at' = 1 /\ phase' \in PhaseStates
      BY <1>10, <2>2 DEF StartNext
    <3> QED
      BY <1>10, <2>2, <3>1 DEF StartNext
  <2> QED
    BY <2>1, <2>2
<1>11. CASE StartFails
  BY <1>11 DEF StartFails
<1>12. CASE AwaitTimeout
  BY <1>12 DEF AwaitTimeout
<1>13. CASE AwaitReady
  <2>1. CASE InModel
    <3>1. at + 1 \in Nat \ {0}
      OBVIOUS
    <3> QED
      BY <1>13, <2>1, <3>1 DEF AwaitReady, JoinPool
  <2>2. CASE JoinPool
    <3>1. model \in DOMAIN fleet /\ model \in Models /\ Len(fleet[model]) \in Nat
          /\ model + 1 \in 1 .. Len(fleet) + 1
      BY <1>13, Places DEF AwaitReady, Progress
    <3> DEFINE new == [k \in DOMAIN fleet[model] |-> First(fleet[model][k])]
    <3>2. new \in Seq(Objects)
      <4>1. \A k \in 1 .. Len(fleet[model]) : First(fleet[model][k]) \in Objects
        BY <3>1, Places, FirstIsObject
      <4>2. DOMAIN fleet[model] = 1 .. Len(fleet[model])
        BY <3>1, Places
      <4> QED
        BY <3>1, <4>1, <4>2
    <3>3. members[model] \o new \in Seq(Objects)
      BY <3>1, <3>2
    <3>4. members' = [members EXCEPT ![model] = members[model] \o new]
      BY <2>2, <3>1 DEF JoinPool
    <3> HIDE DEF new
    <3>5. members' \in [Models -> Seq(Objects)]
      BY <3>1, <3>3, <3>4
    <3>6. total' \in Nat
      BY <2>2, <3>1 DEF JoinPool
    <3> QED
      BY <2>2, <3>1, <3>5, <3>6 DEF JoinPool
  <2> QED
    BY <1>13, <2>1, <2>2 DEF AwaitReady
<1>14. CASE Stop
  BY <1>14 DEF Stop
<1>15. CASE LoopsEnd
  BY <1>15 DEF LoopsEnd
<1>16. ASSUME NEW m \in Models, StopRunner(m) PROVE TypeOK'
  <2>1. model' \in 1 .. Len(fleet) + 1
    BY <1>16, Places DEF StopRunner
  <2> QED
    BY <1>16, <2>1 DEF StopRunner
<1>17. CASE MainClose
  BY <1>17, CurrentIsObject DEF MainClose, MoreToStop, CloseStopCh
<1>18. CASE MainKill
  <2>1. at + 1 \in Nat \ {0}
    OBVIOUS
  <2>2. proc' \in [Objects -> ProcStates]
    BY <1>18 DEF MainKill, KillProcess
  <2> QED
    BY <1>18, <2>1, <2>2 DEF MainKill, KillProcess
<1>19. CASE MainDone
  BY <1>19 DEF MainDone
<1>20. CASE UNCHANGED vars
  BY <1>20 DEF vars
<1> QED
  BY <1>1, <1>2, <1>3, <1>4, <1>5, <1>6, <1>7, <1>8, <1>9, <1>10, <1>11, <1>12, <1>13, <1>14,
     <1>15, <1>16, <1>17, <1>18, <1>19, <1>20
     DEF Next, Processes, Waiters, HealthChecker, Restarts, Main, Ended

-----------------------------------------------------------------------------
(* What a step can change *)

IInv == /\ TypeOK
        /\ Generations
        /\ PoolsCreated
        /\ QuietUntilUp
        /\ Progress
        /\ Ports
        /\ AwaitedAreReady
        /\ Stops
        /\ FirstMembersReady
        /\ CleanShutdown
        /\ CleanFailedStart

Starts(o) == \/ StartNext /\ InModel /\ o = Current
             \/ \E r \in Objects : RestartStart(r, o)

RestartMoves(o) == \/ RestartStop(o) /\ ~stopClosed[o]
                   \/ RestartKill(o)
                   \/ RestartFails(o)
                   \/ \E n \in Objects : RestartStart(o, n)

Frames(o) ==
    /\ Created(o) => Created(o)'
    /\ Created(o)' => Created(o) \/ Starts(o)
    /\ Alive(o)' => Alive(o) \/ Starts(o)
    /\ proc'[o] # proc[o] => Created(o)'
    /\ ready[o] => ready'[o]
    /\ stopClosed[o] => stopClosed'[o]
    /\ restarter'[o] # restarter[o] => RestartMoves(o)
    /\ pending'[o] # pending[o] => RestartStop(o) \/ (CheckHealth /\ o = Head(todo))

LEMMA Frame == ASSUME IInv, [Next]_vars, NEW o \in Objects PROVE Frames(o)
<1> USE DEF IInv, TypeOK, Created, Alive, LiveProc, ProcStates, Frames
<1>1. ASSUME NEW p \in Objects, Process(p) PROVE Frames(o)
  BY <1>1 DEF Process, Load, Hang, Crash, Generations
<1>2. ASSUME NEW p \in Objects, Waiter(p) PROVE Frames(o)
  BY <1>2 DEF Waiter, WaiterSeesExit, WaiterSeesReady, WaiterSeesNothing, WaiterGivesUp,
              WaiterSleeps, WaiterReturns
<1>3. CASE HealthTick
  BY <1>3 DEF HealthTick
<1>4. ASSUME NEW m \in Models, CheckPool(m) PROVE Frames(o)
  BY <1>4 DEF CheckPool
<1>5. CASE CheckHealth
  BY <1>5 DEF CheckHealth
<1>6. ASSUME NEW p \in Objects, RestartStop(p) PROVE Frames(o)
  BY <1>6 DEF RestartStop, CloseStopCh, RestartMoves
<1>7. ASSUME NEW p \in Objects, RestartKill(p) PROVE Frames(o)
  <2>1. /\ UNCHANGED <<ready, stopClosed, waiter, pending>>
        /\ o # p => proc'[o] = proc[o] /\ restarter'[o] = restarter[o]
        /\ ~Alive(p)' /\ Created(p)
    BY <1>7 DEF RestartKill, KillProcess, Generations
  <2>2. restarter'[o] # restarter[o] => RestartMoves(o)
    BY <1>7, <2>1 DEF RestartMoves
  <2> QED
    BY <2>1, <2>2
<1>8. ASSUME NEW p \in Objects, NEW n \in Objects, RestartStart(p, n) PROVE Frames(o)
  <2>1. Created(n)' /\ (o = n \/ (waiter'[o] = waiter[o] /\ proc'[o] = proc[o]))
    BY <1>8 DEF RestartStart, StartInstance
  <2>2. UNCHANGED <<ready, stopClosed, pending>>
    BY <1>8 DEF RestartStart, StartInstance
  <2>3. restarter'[o] = restarter[o] \/ o = p
    BY <1>8 DEF RestartStart
  <2> QED
    BY <1>8, <2>1, <2>2, <2>3 DEF Starts, RestartMoves
<1>9. ASSUME NEW p \in Objects, RestartFails(p) PROVE Frames(o)
  BY <1>9 DEF RestartFails, RestartMoves
<1>10. CASE StartNext
  <2>1. CASE InModel
    BY <1>10, <2>1, CurrentIsObject DEF StartNext, StartInstance, Starts
  <2>2. CASE ~InModel
    BY <1>10, <2>2 DEF StartNext
  <2> QED
    BY <2>1, <2>2
<1>11. CASE StartFails \/ AwaitTimeout \/ Stop \/ LoopsEnd \/ MainDone
  <2>1. UNCHANGED <<procVars, pending, restarter>>
    BY <1>11 DEF StartFails, AwaitTimeout, Stop, LoopsEnd, MainDone
  <2> QED
    BY <2>1
<1>12. CASE AwaitReady
  BY <1>12 DEF AwaitReady, JoinPool
<1>13. ASSUME NEW m \in Models, StopRunner(m) PROVE Frames(o)
  BY <1>13 DEF StopRunner
<1>14. CASE MainClose
  BY <1>14 DEF MainClose, CloseStopCh
<1>15. CASE MainKill
  BY <1>15, CurrentIsObject DEF MainKill, KillProcess, Stops, Closed
<1>16. CASE UNCHANGED vars
  BY <1>16 DEF vars
<1> QED
  BY <1>1, <1>2, <1>3, <1>4, <1>5, <1>6, <1>7, <1>8, <1>9, <1>10, <1>11, <1>12, <1>13, <1>14,
     <1>15, <1>16
     DEF Next, Processes, Waiters, HealthChecker, Restarts, Main, Ended

\* A restart makes the generation after its own, which no one had created.
LEMMA RestartMakesNext ==
    ASSUME IInv, NEW o \in Objects, NEW n \in Objects, RestartStart(o, n)
    PROVE  /\ Created(o) /\ ~Created(n)
           /\ n[1] = o[1] /\ n[2] = o[2] + 1 /\ n # o
<1>1. /\ restarter[o] \in {"starting", "retrying"}
      /\ n[1] = o[1] /\ ~Created(n) /\ \A g \in 0 .. n[2] - 1 : Created(<<o[1], g>>)
  BY DEF RestartStart, NextObject
<1>2. Created(o)
  BY <1>1 DEF IInv, Generations
<1>3. o[2] \in Nat /\ n[2] \in Nat /\ \A g \in 0 .. n[2] : <<o[1], g>> \in Objects
  BY <1>1, ObjectFacts
<1>4. n[2] # o[2]
  BY <1>1, <1>2, ObjectFacts
<1>5. ~(n[2] < o[2])
  BY <1>1, <1>2 DEF IInv, Generations
<1>6. ~(n[2] > o[2] + 1)
  <2> SUFFICES ASSUME n[2] > o[2] + 1 PROVE FALSE
    OBVIOUS
  <2> DEFINE q == <<o[1], o[2] + 1>>
  <2>1. q \in Objects /\ Created(q)
    BY <1>1, <1>3
  <2>2. q[1] = o[1] /\ q[2] = o[2] + 1
    OBVIOUS
  <2> HIDE DEF q
  <2>3. restarter[o] = "restarted"
    BY <1>3, <2>1, <2>2 DEF IInv, Generations
  <2> QED
    BY <1>1, <2>3
<1> QED
  BY <1>1, <1>2, <1>3, <1>4, <1>5, <1>6

\* StartAll makes first generations, which no one had created.
LEMMA StartAllMakesFirst ==
    ASSUME IInv, StartNext, InModel
    PROVE  ~Created(Current) /\ Current \in Objects /\ Current[2] = 0
<1>1. /\ model \in DOMAIN fleet /\ at \in DOMAIN fleet[model]
      /\ Current = Place(model, at) /\ Current \in Objects /\ Current[2] = 0
  BY CurrentIsObject DEF IInv, Place
<1>2. phase = "starting" /\ ~(model < model) /\ ~(at < at)
  BY <1>1 DEF StartNext, IInv, TypeOK
<1> QED
  BY <1>1, <1>2 DEF IInv, Progress, IsPlace

LEMMA NewIsNew == ASSUME IInv, NEW o \in Objects, Starts(o) PROVE ~Created(o)
  BY StartAllMakesFirst, RestartMakesNext DEF Starts

-----------------------------------------------------------------------------
(* Each part of the invariant is preserved *)

LEMMA GenerationsStep == ASSUME IInv, [Next]_vars PROVE Generations'
<1> SUFFICES ASSUME NEW o \in Objects
             PROVE  /\ Created(o)' \/ (proc'[o] = "none" /\ restarter'[o] = "none"
                                       /\ pending'[o] = 0)
                    /\ restarter'[o] # "none" => stopClosed'[o]
                    /\ restarter'[o] \in {"starting", "retrying", "restarted", "gaveup"}
                          => ~Alive(o)'
                    /\ \A p \in Objects : p[1] = o[1] /\ p[2] < o[2] /\ Created(o)'
                                         => Created(p)' /\ restarter'[p] = "restarted"
  BY DEF Generations
<1> USE DEF IInv
<1>0. \A p \in Objects : Frames(p)
  BY Frame
<1>1. ASSUME NEW p \in Objects, RestartMoves(p)
      PROVE  Created(p) /\ restarter[p] # "restarted" /\ restarter[p] # "gaveup"
  BY <1>1, RestartMakesNext
     DEF RestartMoves, RestartStop, RestartKill, RestartFails, RestartStart, Generations
<1>2. Created(o)' \/ (proc'[o] = "none" /\ restarter'[o] = "none" /\ pending'[o] = 0)
  <2>1. CheckHealth => Created(Head(todo))
    BY HeadAndTail DEF CheckHealth, PoolsCreated, TypeOK
  <2>2. RestartStop(o) => Created(o)
    BY DEF RestartStop, Generations, TypeOK
  <2> QED
    BY <1>0, <1>1, <2>1, <2>2 DEF Frames, Generations
<1>3. restarter'[o] # "none" => stopClosed'[o]
  <2>1. RestartStop(o) => stopClosed'[o]
    BY DEF RestartStop, CloseStopCh, TypeOK
  <2>2. RestartKill(o) \/ RestartFails(o) \/ (\E n \in Objects : RestartStart(o, n))
        => restarter[o] # "none"
    BY DEF RestartKill, RestartFails, RestartStart
  <2> QED
    BY <1>0, <2>1, <2>2 DEF Frames, Generations, RestartMoves
<1>4. ASSUME restarter'[o] \in {"starting", "retrying", "restarted", "gaveup"}
      PROVE  ~Alive(o)'
  <2>1. CASE restarter'[o] = restarter[o]
    BY <1>0, <1>4, <2>1, NewIsNew DEF Frames, Generations
  <2>2. CASE RestartStop(o) /\ ~stopClosed[o]
    BY <1>4, <2>2 DEF RestartStop, TypeOK
  <2>3. CASE RestartKill(o)
    BY <2>3 DEF RestartKill, KillProcess, Alive, LiveProc, TypeOK
  <2>4. CASE RestartFails(o)
    BY <2>4 DEF RestartFails, Generations, Alive
  <2>5. ASSUME NEW n \in Objects, RestartStart(o, n) PROVE ~Alive(o)'
    <3>1. proc'[o] = proc[o]
      BY <2>5, RestartMakesNext DEF RestartStart, StartInstance, TypeOK
    <3> QED
      BY <2>5, <3>1 DEF RestartStart, Generations, Alive
  <2> QED
    BY <1>0, <2>1, <2>2, <2>3, <2>4, <2>5 DEF Frames, RestartMoves
<1>5. ASSUME NEW p \in Objects, p[1] = o[1], p[2] < o[2], Created(o)'
      PROVE  Created(p)' /\ restarter'[p] = "restarted"
  <2>1. ASSUME NEW q \in Objects, Created(q), p[1] = q[1], p[2] < q[2]
        PROVE  Created(p)' /\ restarter'[p] = "restarted"
    BY <1>0, <1>1, <2>1 DEF Generations, Frames
  <2>2. CASE StartNext /\ InModel /\ o = Current
    BY <1>5, <2>2, StartAllMakesFirst, ObjectFacts
  <2>3. ASSUME NEW r \in Objects, RestartStart(r, o)
        PROVE  Created(p)' /\ restarter'[p] = "restarted"
    <3>1. Created(r) /\ o[1] = r[1] /\ o[2] = r[2] + 1
      BY <2>3, RestartMakesNext
    <3>2. p[2] = r[2] \/ p[2] < r[2]
      BY <1>5, <3>1, ObjectFacts
    <3>3. CASE p[2] = r[2]
      <4>1. p = r
        BY <1>5, <3>1, <3>3, ObjectFacts
      <4>2. restarter'[r] = "restarted"
        BY <2>3 DEF RestartStart, TypeOK
      <4> QED
        BY <1>0, <3>1, <4>1, <4>2 DEF Frames
    <3> QED
      BY <1>5, <2>1, <3>1, <3>2, <3>3
  <2> QED
    BY <1>0, <1>5, <2>1, <2>2, <2>3 DEF Frames, Starts
<1> QED
  BY <1>2, <1>3, <1>4, <1>5

LEMMA MembersFrame ==
    ASSUME [Next]_vars
    PROVE  /\ members' # members => \/ AwaitReady /\ ~InModel /\ JoinPool
                                    \/ \E o, n \in Objects : RestartStart(o, n)
           /\ todo' # todo => CheckHealth \/ \E m \in Models : CheckPool(m)
<1>1. CASE Processes \/ Waiters
  BY <1>1 DEF Processes, Process, Waiters, Waiter
<1>2. CASE HealthChecker
  BY <1>2 DEF HealthChecker, HealthTick, CheckPool, CheckHealth
<1>3. CASE Restarts
  BY <1>3 DEF Restarts, RestartStop, RestartKill, RestartStart, RestartFails
<1>4. CASE Main /\ ~AwaitReady
  BY <1>4 DEF Main, StartNext, StartFails, AwaitTimeout, Stop, LoopsEnd, StopRunner, MainClose,
              MainKill, MainDone
<1>5. CASE AwaitReady
  BY <1>5 DEF AwaitReady, JoinPool
<1>6. CASE Ended \/ UNCHANGED vars
  BY <1>6 DEF Ended, vars
<1> QED
  BY <1>1, <1>2, <1>3, <1>4, <1>5, <1>6 DEF Next

\* Every member of a pool has been created, and is ready if StartAll made it.
GoodMember(o) == o \in Objects /\ Created(o) /\ (o[2] = 0 => ready[o])
StillGood(o) == o \in Objects /\ waiter'[o] # "none" /\ (o[2] = 0 => ready'[o])

LEMMA PoolsStep ==
    ASSUME IInv, [Next]_vars
    PROVE  PoolsCreated' /\ FirstMembersReady'
<1> USE DEF IInv
<1>0. \A o \in Objects : Frames(o)
  BY Frame
<1>1. \A o : GoodMember(o) => StillGood(o)
  BY <1>0 DEF Frames, GoodMember, StillGood, Created
<1>2. \A m \in Models : \A k \in DOMAIN members[m] : GoodMember(members[m][k])
  <2> SUFFICES ASSUME NEW m \in Models, NEW k \in DOMAIN members[m]
               PROVE  GoodMember(members[m][k])
    OBVIOUS
  <2>1. members[m] \in Seq(Objects)
    BY DEF TypeOK
  <2>2. members[m][k] \in Objects
    BY <2>1
  <2> QED
    BY <2>2 DEF PoolsCreated, FirstMembersReady, GoodMember
<1>3. \A m \in Models : \A k \in DOMAIN members'[m] : StillGood(members'[m][k])
  <2>1. CASE members' = members
    BY <1>1, <1>2, <2>1
  <2>2. CASE AwaitReady /\ ~InModel /\ JoinPool
    <3> DEFINE new == [k \in DOMAIN fleet[model] |-> First(fleet[model][k])]
    <3>1. model \in DOMAIN fleet /\ model \in Models
      BY <2>2, Places DEF AwaitReady, Progress, TypeOK
    <3>2. DOMAIN fleet[model] = 1 .. Len(fleet[model]) /\ Len(fleet[model]) \in Nat
      BY <3>1, Places DEF TypeOK
    <3>3. \A k \in DOMAIN fleet[model] : GoodMember(new[k])
      <4> SUFFICES ASSUME NEW k \in DOMAIN fleet[model] PROVE GoodMember(Place(model, k))
        BY DEF Place
      <4>1. Place(model, k) \in Objects
        BY <3>1, Places, FirstIsObject DEF Place, TypeOK
      <4>2. Created(Place(model, k))
        BY <2>2, <3>1 DEF AwaitReady, Progress, IsPlace, TypeOK
      <4>3. k < at
        BY <2>2, <3>1, <3>2 DEF InModel, TypeOK
      <4>4. ready[Place(model, k)]
        BY <2>2, <4>3 DEF AwaitReady, AwaitedAreReady
      <4> QED
        BY <4>1, <4>2, <4>4 DEF GoodMember
    <3>4. \A k \in DOMAIN fleet[model] : StillGood(new[k])
      <4> SUFFICES ASSUME NEW k \in DOMAIN fleet[model] PROVE StillGood(new[k])
        OBVIOUS
      <4>1. fleet' = fleet /\ model \in DOMAIN fleet
        BY <2>2, <3>1 DEF JoinPool
      <4> QED
        BY <1>1, <3>3, <4>1
    <3>5. new \in Seq(Objects) /\ members[model] \in Seq(Objects)
      <4>1. \A k \in 1 .. Len(fleet[model]) : new[k] \in Objects
        BY <3>2, <3>3 DEF GoodMember
      <4> QED
        BY <3>1, <3>2, <4>1 DEF TypeOK
    <3>6. members' = [members EXCEPT ![model] = members[model] \o new]
      BY <2>2 DEF JoinPool
    <3> HIDE DEF new
    <3>7. \A k \in DOMAIN (members[model] \o new) :
             \/ k \in DOMAIN members[model] /\ (members[model] \o new)[k] = members[model][k]
             \/ \E j \in DOMAIN new : (members[model] \o new)[k] = new[j]
      BY <3>5
    <3> SUFFICES ASSUME NEW m \in Models, NEW k \in DOMAIN members'[m]
                 PROVE  StillGood(members'[m][k])
      OBVIOUS
    <3>8. CASE m = model
      <4>1. members'[m] = members[model] \o new
        BY <3>6, <3>8 DEF TypeOK
      <4>2. DOMAIN new = DOMAIN fleet[model]
        BY DEF new
      <4> QED
        BY <1>1, <1>2, <3>1, <3>4, <3>7, <4>1, <4>2
    <3>9. CASE m # model
      <4>1. members'[m] = members[m]
        BY <3>6, <3>9 DEF TypeOK
      <4> QED
        BY <1>1, <1>2, <4>1
    <3> QED
      BY <3>8, <3>9
  <2>3. ASSUME NEW o \in Objects, NEW n \in Objects, RestartStart(o, n)
        PROVE  \A m \in Models : \A k \in DOMAIN members'[m] : StillGood(members'[m][k])
    <3>1. n[2] # 0
      BY <2>3, RestartMakesNext, ObjectFacts
    <3>2. Created(n)'
      BY <2>3 DEF RestartStart, StartInstance, Created, TypeOK
    <3>3. StillGood(n)
      BY <3>1, <3>2 DEF StillGood, Created
    <3> SUFFICES ASSUME NEW m \in Models, NEW k \in DOMAIN members'[m]
                 PROVE  StillGood(members'[m][k])
      OBVIOUS
    <3>4. members'[m] = members[m] \/ members'[m] = Append(members[m], n)
      BY <2>3 DEF RestartStart, TypeOK
    <3>5. members[m] \in Seq(Objects)
      BY DEF TypeOK
    <3>6. members'[m][k] = n \/ (k \in DOMAIN members[m] /\ members'[m][k] = members[m][k])
      BY <3>4, <3>5
    <3> QED
      BY <1>1, <1>2, <3>3, <3>6
  <2> QED
    BY <2>1, <2>2, <2>3, MembersFrame
<1>4. \A k \in DOMAIN todo' : waiter'[todo'[k]] # "none"
  <2>1. CASE todo' = todo
    <3>1. \A k \in DOMAIN todo : todo[k] \in Objects /\ Created(todo[k])
      BY DEF PoolsCreated, TypeOK
    <3> QED
      BY <1>0, <2>1, <3>1 DEF Frames, Created
  <2>2. ASSUME NEW m \in Models, CheckPool(m) PROVE \A k \in DOMAIN todo' : waiter'[todo'[k]] # "none"
    BY <1>1, <1>2, <2>2 DEF CheckPool, StillGood
  <2>3. CASE CheckHealth
    <3>1. todo' = Tail(todo) /\ todo \in Seq(Objects) /\ todo # <<>>
      BY <2>3 DEF CheckHealth, TypeOK
    <3>2. \A k \in DOMAIN todo : todo[k] \in Objects /\ Created(todo[k])
      BY DEF PoolsCreated, TypeOK
    <3> QED
      BY <1>0, <3>1, <3>2, HeadAndTail DEF Frames, Created
  <2> QED
    BY <2>1, <2>2, <2>3, MembersFrame
<1> QED
  BY <1>3, <1>4 DEF PoolsCreated, FirstMembersReady, StillGood, Created

LEMMA MainFrame ==
    ASSUME [Next]_vars
    PROVE  /\ fleet' = fleet
           /\ Main \/ UNCHANGED <<port, phase, loopVars, killing>>
<1>1. CASE Processes \/ Waiters
  BY <1>1 DEF Processes, Process, Waiters, Waiter
<1>2. CASE HealthChecker
  BY <1>2 DEF HealthChecker, HealthTick, CheckPool, CheckHealth
<1>3. CASE Restarts
  BY <1>3 DEF Restarts, RestartStop, RestartKill, RestartStart, RestartFails
<1>4. CASE Main
  BY <1>4 DEF Main, StartNext, StartFails, AwaitReady, JoinPool, AwaitTimeout, Stop, LoopsEnd,
              StopRunner, MainClose, MainKill, MainDone
<1>5. CASE Ended \/ UNCHANGED vars
  BY <1>5 DEF Ended, vars
<1> QED
  BY <1>1, <1>2, <1>3, <1>4, <1>5 DEF Next

QuietPhases == {"starting", "waiting", "cleanup", "failed"}

LEMMA QuietStep == ASSUME IInv, [Next]_vars PROVE QuietUntilUp'
<1> SUFFICES ASSUME phase' \in QuietPhases
             PROVE  /\ due' = {} /\ todo' = <<>>
                    /\ \A o \in Objects : pending'[o] = 0 /\ restarter'[o] = "none"
  BY DEF QuietUntilUp, QuietPhases
<1> USE DEF IInv
<1>1. phase \in QuietPhases
  <2>1. CASE Main
    BY <2>1 DEF Main, StartNext, StartFails, AwaitReady, JoinPool, AwaitTimeout, Stop, LoopsEnd,
                StopRunner, MainClose, MainKill, MainDone, QuietPhases
  <2> QED
    BY <2>1, MainFrame
<1>2. /\ due = {} /\ todo = <<>>
      /\ \A o \in Objects : pending[o] = 0 /\ restarter[o] = "none"
  BY <1>1 DEF QuietUntilUp, QuietPhases
<1>3. ~HealthChecker /\ ~Restarts
  BY <1>1, <1>2 DEF HealthChecker, HealthTick, CheckPool, CheckHealth, QuietPhases,
                    Restarts, RestartStop, RestartKill, RestartStart, RestartFails
<1>4. CASE Main
  BY <1>2, <1>4 DEF Main, StartNext, StartFails, AwaitReady, JoinPool, AwaitTimeout, Stop,
                    LoopsEnd, StopRunner, MainClose, MainKill, MainDone
<1>5. CASE Processes \/ Waiters \/ Ended \/ UNCHANGED vars
  BY <1>2, <1>5 DEF Processes, Process, Waiters, Waiter, Ended, vars
<1> QED
  BY <1>3, <1>4, <1>5 DEF Next

\* The restarts run after Init.
LEMMA RestartIsLate ==
    ASSUME IInv, NEW o \in Objects, NEW n \in Objects, RestartStart(o, n)
    PROVE  phase \in {"up", "closing", "stopping"} /\ UNCHANGED <<port, phase, loopVars, killing>>
<1>1. phase \notin QuietPhases
  BY DEF RestartStart, IInv, QuietUntilUp, QuietPhases
<1>2. phase # "down"
  BY DEF RestartStart, Running
<1> QED
  BY <1>1, <1>2 DEF RestartStart, IInv, TypeOK, PhaseStates, QuietPhases

LEMMA PortsStep == ASSUME IInv, [Next]_vars PROVE Ports'
<1> USE DEF IInv
<1>0. \A o \in Objects : Frames(o) /\ o[1] \in Slots
  BY Frame, ObjectFacts
<1>1. CASE \E r, n \in Objects : RestartStart(r, n)
  <2> PICK r \in Objects, n \in Objects : RestartStart(r, n)
    BY <1>1
  <2>1. /\ phase \notin {"starting", "waiting"} /\ UNCHANGED <<port, phase>>
        /\ Created(r) /\ n[1] = r[1]
    BY RestartIsLate, RestartMakesNext
  <2>2. \A o \in Objects : waiter'[o] # "none" => Created(o) \/ o = n
    BY DEF RestartStart, StartInstance, TypeOK, Created
  <2> QED
    BY <2>1, <2>2 DEF Ports, Created
<1>2. CASE StartNext /\ InModel
  <2> DEFINE s == fleet[model][at]
  <2>1. /\ phase = "starting" /\ phase' = "starting" /\ total' = total /\ at' = at + 1
        /\ port' = [port EXCEPT ![s] = total + at - 1]
        /\ waiter' = [waiter EXCEPT ![Current] = "poll"]
        /\ Current[1] = s /\ s \in Slots
    BY <1>2, CurrentIsObject DEF StartNext, StartInstance
  <2> HIDE DEF s
  <2>2. /\ port'[s] = total + at - 1
        /\ \A z \in Slots : z # s => port'[z] = port[z]
        /\ \A o \in Objects : waiter'[o] # "none" => Created(o) \/ o[1] = s
    BY <2>1 DEF TypeOK, Created
  <2>3. total \in Nat /\ at \in Nat /\ \A z \in Slots : port[z] \in Nat
    BY DEF TypeOK
  <2>4. \A o \in Objects : waiter'[o] # "none" /\ o[1] # s => port[o[1]] + 1 < total + at
    BY <2>1, <2>2 DEF Ports
  <2>5. \A o \in Objects : waiter'[o] # "none" =>
          port'[o[1]] + 1 < total' + at' /\ (o[1] # s => port'[o[1]] # port'[s])
    BY <1>0, <2>1, <2>2, <2>3, <2>4
  <2>6. \A o, p \in Objects : /\ waiter'[o] # "none" /\ waiter'[p] # "none"
                              /\ port'[o[1]] = port'[p[1]]
                              => p[1] = o[1]
    BY <1>0, <2>2, <2>5 DEF Ports
  <2> QED
    BY <2>1, <2>5, <2>6 DEF Ports, Created
<1>3. ASSUME ~(\E r, n \in Objects : RestartStart(r, n)), ~(StartNext /\ InModel)
      PROVE  Ports'
  <2>1. \A o \in Objects : waiter'[o] # "none" => Created(o)
    BY <1>0, <1>3 DEF Frames, Starts, Created
  <2>2. port' = port /\ fleet' = fleet
    <3>1. CASE Main
      BY <1>3, <3>1 DEF Main, StartNext, StartFails, AwaitReady, JoinPool, AwaitTimeout, Stop,
                        LoopsEnd, StopRunner, MainClose, MainKill, MainDone
    <3> QED
      BY <3>1, MainFrame
  <2>3. \A o \in Objects : Created(o) =>
            /\ phase' = "starting" => port[o[1]] + 1 < total' + at'
            /\ phase' = "waiting" => port[o[1]] < total' + Len(fleet[model'])
    <3> SUFFICES ASSUME NEW o \in Objects, Created(o)
                 PROVE  /\ phase' = "starting" => port[o[1]] + 1 < total' + at'
                        /\ phase' = "waiting" => port[o[1]] < total' + Len(fleet[model'])
      OBVIOUS
    <3>0. port[o[1]] \in Nat /\ total \in Nat /\ at \in Nat
      BY <1>0 DEF TypeOK
    <3>1. CASE UNCHANGED <<port, phase, loopVars, killing>>
      BY <3>1 DEF Ports
    <3>2. CASE StartNext
      <4>1. /\ phase = "starting" /\ phase' \in {"waiting", "up"} /\ total' = total
            /\ model' = model /\ ~InModel /\ (phase' = "waiting" => model <= Len(fleet))
        BY <1>3, <3>2 DEF StartNext
      <4>2. ASSUME phase' = "waiting" PROVE port[o[1]] < total + Len(fleet[model])
        <5>1. model \in DOMAIN fleet /\ Len(fleet[model]) \in Nat
          BY <4>1, <4>2, Places DEF TypeOK
        <5>2. at <= Len(fleet[model]) + 1 /\ port[o[1]] + 1 < total + at
          BY <4>1, <5>1 DEF Progress, Ports
        <5> QED
          BY <3>0, <5>1, <5>2
      <4> QED
        BY <4>1, <4>2
    <3>3. CASE AwaitReady /\ InModel /\ ~JoinPool
      <4>1. phase = "waiting" /\ phase' = "waiting" /\ total' = total /\ model' = model
        BY <3>3 DEF AwaitReady
      <4> QED
        BY <4>1 DEF Ports
    <3>4. CASE AwaitReady /\ JoinPool
      <4>1. /\ phase = "waiting" /\ phase' = "starting" /\ at' = 1
            /\ total' = total + Len(fleet[model])
        BY <3>4 DEF AwaitReady, JoinPool
      <4>2. model \in DOMAIN fleet /\ Len(fleet[model]) \in Nat
        BY <4>1, Places DEF TypeOK, Progress
      <4>3. port[o[1]] < total + Len(fleet[model])
        BY <4>1 DEF Ports
      <4> QED
        BY <3>0, <4>1, <4>2, <4>3
    <3>5. CASE Main /\ ~StartNext /\ ~AwaitReady
      <4>1. phase' \notin {"starting", "waiting"}
        BY <3>5 DEF Main, StartFails, AwaitTimeout, Stop, LoopsEnd, StopRunner, MainClose,
                    MainKill, MainDone, Stops
      <4> QED
        BY <4>1
    <3> QED
      BY <3>1, <3>2, <3>3, <3>4, <3>5, MainFrame DEF AwaitReady
  <2> QED
    BY <2>1, <2>2, <2>3 DEF Ports, Created
<1> QED
  BY <1>1, <1>2, <1>3

LEMMA PlaceIsObject ==
    ASSUME TypeOK, NEW m, NEW k, IsPlace(m, k)
    PROVE  /\ Place(m, k) \in Objects /\ Place(m, k)[1] = fleet[m][k] /\ Place(m, k)[2] = 0
           /\ m \in 1 .. Len(fleet) /\ k \in 1 .. Len(fleet[m])
           /\ Len(fleet[m]) \in Nat /\ Len(fleet) \in Nat
  BY Places, FirstIsObject DEF TypeOK, IsPlace, Place

LEMMA CurrentIsPlace ==
    ASSUME TypeOK, InModel
    PROVE  /\ IsPlace(model, at) /\ Current = Place(model, at)
           /\ \A m, k : IsPlace(m, k) /\ Place(m, k) = Current => m = model /\ k = at
<1>1. IsPlace(model, at) /\ Current = Place(model, at)
  BY CurrentIsObject DEF IsPlace, Place
<1>2. ASSUME NEW m, NEW k, IsPlace(m, k), Place(m, k) = Place(model, at)
      PROVE  m = model /\ k = at
  <2>1. fleet[m][k] = fleet[model][at]
    BY <1>1, <1>2, PlaceIsObject
  <2>2. /\ m \in DOMAIN fleet /\ k \in DOMAIN fleet[m]
        /\ model \in DOMAIN fleet /\ at \in DOMAIN fleet[model]
    BY <1>1, <1>2 DEF IsPlace
  <2> QED
    BY <2>1, <2>2, Places DEF TypeOK
<1> QED
  BY <1>1, <1>2

\* The model main is at is one of the configuration when it is needed, and its place
\* in it is at most one too far.
LEMMA BoundsStep ==
    ASSUME IInv, [Next]_vars
    PROVE  /\ phase' \in {"waiting", "cleanup", "failed"} => model' \in DOMAIN fleet
           /\ phase' = "starting" /\ model' \in DOMAIN fleet => at' <= Len(fleet[model']) + 1
<1> USE DEF IInv
<1>1. CASE UNCHANGED <<port, phase, loopVars, killing>>
  BY <1>1 DEF Progress
<1>2. CASE StartNext
  <2>1. CASE InModel
    BY <1>2, <2>1, CurrentIsPlace, PlaceIsObject DEF StartNext, InModel, TypeOK, PhaseStates
  <2>2. CASE ~InModel
    BY <1>2, <2>2, Places DEF StartNext, TypeOK
  <2> QED
    BY <2>1, <2>2
<1>3. CASE AwaitReady
  <2>1. CASE phase' = "waiting"
    BY <1>3, <2>1 DEF AwaitReady, JoinPool, Progress
  <2>2. CASE phase' = "starting" /\ at' = 1
    BY <2>2, Places, MainFrame DEF TypeOK
  <2> QED
    BY <1>3, <2>1, <2>2 DEF AwaitReady, JoinPool
<1>4. CASE StartFails \/ AwaitTimeout
  BY <1>4, CurrentIsObject DEF StartFails, AwaitTimeout
<1>5. CASE Stop \/ LoopsEnd \/ \E m \in Models : StopRunner(m)
  BY <1>5 DEF Stop, LoopsEnd, StopRunner
<1>6. CASE MainClose \/ MainKill \/ MainDone
  <2>1. phase \in {"cleanup", "stopping"} /\ model' = model
    BY <1>6 DEF MainClose, MainKill, MainDone, Stops
  <2>2. phase' # "starting" /\ (phase' \in {"waiting", "cleanup", "failed"} => phase = "cleanup")
    BY <1>6, <2>1 DEF MainClose, MainKill, MainDone
  <2> QED
    BY <2>1, <2>2 DEF Progress
<1> QED
  BY <1>1, <1>2, <1>3, <1>4, <1>5, <1>6, MainFrame DEF Main

PlaceProgress(m, k) ==
    /\ phase = "starting" => (Created(Place(m, k)) <=> m < model \/ (m = model /\ k < at))
    /\ phase = "waiting" => (Created(Place(m, k)) <=> m <= model)
    /\ phase = "cleanup" /\ m = model /\ Created(Place(m, k)) =>
          \A j \in DOMAIN fleet[m] : j < k => Created(Place(m, j))
    /\ phase \in {"up", "closing", "stopping", "down"} => Created(Place(m, k))

LEMMA PlaceProgressStep ==
    ASSUME IInv, [Next]_vars, NEW m, NEW k, IsPlace(m, k)
    PROVE  PlaceProgress(m, k)'
<1> USE DEF IInv
<1> DEFINE Made(j) == waiter'[Place(m, j)] # "none"
<1>0. /\ fleet' = fleet
      /\ PlaceProgress(m, k)
      /\ \A j \in DOMAIN fleet[m] : PlaceProgress(m, j) /\ Frames(Place(m, j))
      /\ k \in DOMAIN fleet[m]
  BY MainFrame, Frame, PlaceIsObject DEF Progress, PlaceProgress, IsPlace
<1>1. \A j \in DOMAIN fleet[m] : Place(m, j)' = Place(m, j)
  BY <1>0 DEF Place
<1>2. /\ \A j \in DOMAIN fleet[m] : Created(Place(m, j)) => Made(j)
      /\ \A j \in DOMAIN fleet[m] : Made(j) => Created(Place(m, j)) \/ Starts(Place(m, j))
  BY <1>0, <1>1 DEF Frames, Created
<1>3. /\ m \in Nat /\ k \in Nat /\ Len(fleet[m]) \in Nat /\ Len(fleet) \in Nat
      /\ m <= Len(fleet) /\ k <= Len(fleet[m]) /\ k >= 1
      /\ model \in Nat /\ at \in Nat
      /\ \A j \in DOMAIN fleet[m] : j \in Nat /\ Place(m, j) \in Objects
  <2>1. m \in 1 .. Len(fleet) /\ k \in 1 .. Len(fleet[m]) /\ Len(fleet) \in Nat
        /\ Len(fleet[m]) \in Nat
    BY PlaceIsObject
  <2>2. ASSUME NEW j \in DOMAIN fleet[m] PROVE j \in Nat /\ Place(m, j) \in Objects
    <3>1. IsPlace(m, j)
      BY DEF IsPlace
    <3> QED
      BY <3>1, PlaceIsObject
  <2>3. model \in Nat /\ at \in Nat
    BY <2>1 DEF TypeOK
  <2> QED
    BY <2>1, <2>2, <2>3
<1> SUFFICES /\ phase' = "starting" => (Made(k) <=> m < model' \/ (m = model' /\ k < at'))
             /\ phase' = "waiting" => (Made(k) <=> m <= model')
             /\ phase' = "cleanup" /\ m = model' /\ Made(k) =>
                   \A j \in DOMAIN fleet[m] : j < k => Made(j)
             /\ phase' \in {"up", "closing", "stopping", "down"} => Made(k)
  BY <1>0, <1>1 DEF PlaceProgress, Created
<1> HIDE DEF Made
<1>4. CASE \E r, n \in Objects : RestartStart(r, n)
  <2>1. phase \in {"up", "closing", "stopping"} /\ phase' = phase
    BY <1>4, RestartIsLate
  <2> QED
    BY <1>0, <1>2, <2>1 DEF PlaceProgress
<1>5. CASE StartNext /\ InModel
  <2>1. /\ phase = "starting" /\ phase' = "starting" /\ model' = model /\ at' = at + 1
        /\ waiter' = [waiter EXCEPT ![Current] = "poll"]
    BY <1>5 DEF StartNext, StartInstance
  <2>2. Made(k) <=> Created(Place(m, k)) \/ Place(m, k) = Current
    BY <2>1, PlaceIsObject DEF Made, Created, TypeOK
  <2>3. Place(m, k) = Current <=> m = model /\ k = at
    BY <1>5, CurrentIsPlace
  <2> QED
    BY <1>0, <1>3, <2>1, <2>2, <2>3 DEF PlaceProgress
<1>6. ASSUME ~(\E r, n \in Objects : RestartStart(r, n)), ~(StartNext /\ InModel)
      PROVE  /\ phase' = "starting" => (Made(k) <=> m < model' \/ (m = model' /\ k < at'))
             /\ phase' = "waiting" => (Made(k) <=> m <= model')
             /\ phase' = "cleanup" /\ m = model' /\ Made(k) =>
                   \A j \in DOMAIN fleet[m] : j < k => Made(j)
             /\ phase' \in {"up", "closing", "stopping", "down"} => Made(k)
  <2>1. \A j \in DOMAIN fleet[m] : Made(j) <=> Created(Place(m, j))
    BY <1>2, <1>3, <1>6 DEF Starts
  <2>2. CASE UNCHANGED <<port, phase, loopVars, killing>>
    BY <1>0, <2>1, <2>2 DEF PlaceProgress
  <2>3. CASE StartNext
    <3>1. /\ phase = "starting" /\ phase' = (IF model <= Len(fleet) THEN "waiting" ELSE "up")
          /\ model' = model /\ ~InModel
      BY <1>6, <2>3 DEF StartNext
    <3>2. Created(Place(m, k)) <=> m < model \/ (m = model /\ k < at)
      BY <1>0, <3>1 DEF PlaceProgress
    <3>3. m = model => k < at
      BY <1>3, <3>1 DEF InModel
    <3> QED
      BY <1>0, <1>3, <2>1, <3>1, <3>2, <3>3
  <2>4. CASE AwaitReady /\ ~JoinPool
    BY <1>0, <2>1, <2>4 DEF AwaitReady, PlaceProgress
  <2>5. CASE AwaitReady /\ JoinPool
    <3>1. phase = "waiting" /\ phase' = "starting" /\ model' = model + 1 /\ at' = 1
      BY <2>5 DEF AwaitReady, JoinPool
    <3> QED
      BY <1>0, <1>3, <2>1, <3>1 DEF PlaceProgress
  <2>6. CASE StartFails
    <3>1. phase = "starting" /\ phase' = "cleanup" /\ model' = model
      BY <2>6 DEF StartFails
    <3>2. \A j \in DOMAIN fleet[m] :
             Created(Place(m, j)) <=> m < model \/ (m = model /\ j < at)
      BY <1>0, <3>1 DEF PlaceProgress
    <3> QED
      BY <1>0, <1>3, <2>1, <3>1, <3>2
  <2>7. CASE AwaitTimeout
    BY <2>7 DEF AwaitTimeout
  <2>8. CASE Stop \/ LoopsEnd \/ \E r \in Models : StopRunner(r)
    <3>1. phase \in {"up", "closing", "stopping"} /\ phase' \in {"closing", "stopping"}
      BY <2>8 DEF Stop, LoopsEnd, StopRunner
    <3> QED
      BY <1>0, <2>1, <3>1 DEF PlaceProgress
  <2>9. CASE MainClose \/ MainKill \/ MainDone
    <3>1. phase \in {"cleanup", "stopping"} /\ model' = model
      BY <2>9 DEF MainClose, MainKill, MainDone, Stops
    <3>2. phase' \in {phase, "failed"} \/ (phase = "stopping" /\ phase' = "down")
      BY <2>9, <3>1 DEF MainClose, MainKill, MainDone
    <3> QED
      BY <1>0, <2>1, <3>1, <3>2 DEF PlaceProgress
  <2> QED
    BY <2>2, <2>3, <2>4, <2>5, <2>6, <2>7, <2>8, <2>9, MainFrame DEF Main
<1> QED
  BY <1>4, <1>5, <1>6

LEMMA ProgressStep == ASSUME IInv, [Next]_vars PROVE Progress'
<1>1. fleet' = fleet
  BY MainFrame
<1>2. \A m, k : IsPlace(m, k)' => PlaceProgress(m, k)'
  BY <1>1, PlaceProgressStep DEF IsPlace
<1>3. \A o \in Objects : Created(o)' => \E m, k : IsPlace(m, k) /\ fleet[m][k] = o[1]
  <2> SUFFICES ASSUME NEW o \in Objects, Created(o)'
               PROVE  \E m, k : IsPlace(m, k) /\ fleet[m][k] = o[1]
    OBVIOUS
  <2>1. CASE Created(o)
    BY <2>1 DEF IInv, Progress
  <2>2. CASE StartNext /\ InModel /\ o = Current
    BY <2>2, CurrentIsObject DEF IInv, IsPlace
  <2>3. ASSUME NEW r \in Objects, RestartStart(r, o)
        PROVE  \E m, k : IsPlace(m, k) /\ fleet[m][k] = o[1]
    BY <2>3, RestartMakesNext DEF IInv, Progress
  <2> QED
    BY <2>1, <2>2, <2>3, Frame DEF Frames, Starts
<1> QED
  BY <1>1, <1>2, <1>3, BoundsStep DEF Progress, PlaceProgress, IsPlace

LEMMA AwaitedStep == ASSUME IInv, [Next]_vars PROVE AwaitedAreReady'
<1> USE DEF IInv
<1> SUFFICES ASSUME phase' = "waiting", NEW k \in DOMAIN fleet[model'], k < at'
             PROVE  ready'[Place(model', k)]
  <2>1. fleet' = fleet
    BY MainFrame
  <2> QED
    BY <2>1 DEF AwaitedAreReady, Place
<1>1. model' \in DOMAIN fleet /\ IsPlace(model', k)
  BY BoundsStep DEF IsPlace
<1>2. Place(model', k) \in Objects /\ k \in Nat /\ k >= 1
  BY <1>1, PlaceIsObject
<1>3. ready[Place(model', k)] => ready'[Place(model', k)]
  <2>1. \A o \in Objects : ready[o] => ready'[o]
    BY Frame DEF Frames
  <2> QED
    BY <1>2, <2>1
<1>4. CASE UNCHANGED <<port, phase, loopVars, killing>>
  BY <1>3, <1>4 DEF AwaitedAreReady
<1>5. CASE StartNext
  BY <1>2, <1>5 DEF StartNext
<1>6. CASE AwaitReady
  <2>1. /\ phase = "waiting" /\ InModel /\ ready[Current]
        /\ at' = at + 1 /\ model' = model
    BY <1>6 DEF AwaitReady, JoinPool
  <2>2. k < at \/ k = at
    BY <1>2, <2>1 DEF TypeOK
  <2>3. k = at => Place(model', k) = Current
    BY <2>1, CurrentIsPlace
  <2>4. k < at => ready[Place(model', k)]
    BY <2>1 DEF AwaitedAreReady
  <2> QED
    BY <1>3, <2>1, <2>2, <2>3, <2>4
<1>7. CASE Main /\ ~StartNext /\ ~AwaitReady
  BY <1>7 DEF Main, StartFails, AwaitTimeout, Stop, LoopsEnd, StopRunner, MainClose, MainKill,
              MainDone, Stops
<1> QED
  BY <1>4, <1>5, <1>6, <1>7, MainFrame

\* What main closed stays closed, and what was dead then stays dead.
LEMMA ClosedStays ==
    ASSUME IInv, [Next]_vars, NEW o \in Objects, Closed(o)
    PROVE  Closed(o)' /\ (Alive(o)' => Alive(o))
<1> USE DEF IInv
<1>1. Frames(o) /\ Created(o)
  BY Frame DEF Closed
<1>2. ~Starts(o)
  BY <1>1, NewIsNew
<1>3. panicked => panicked'
  <2>1. CASE HealthChecker \/ Main
    BY <2>1 DEF HealthChecker, HealthTick, CheckPool, CheckHealth, Main, StartNext, StartFails,
                AwaitReady, JoinPool, AwaitTimeout, Stop, LoopsEnd, StopRunner, MainClose,
                MainKill, MainDone, Running
  <2>2. CASE Restarts
    BY <2>2 DEF Restarts, RestartStop, RestartKill, RestartStart, RestartFails, Running
  <2>3. CASE Processes \/ Waiters \/ Ended \/ UNCHANGED vars
    BY <2>3 DEF Processes, Process, Waiters, Waiter, Ended, vars
  <2> QED
    BY <2>1, <2>2, <2>3 DEF Next
<1>4. stopClosed[o] /\ restarter[o] = "none" => stopClosed'[o] /\ restarter'[o] = "none"
  BY <1>1 DEF Frames, RestartMoves, RestartKill, RestartFails, RestartStart
<1> QED
  BY <1>1, <1>2, <1>3, <1>4 DEF Frames, Closed, Created

LEMMA KillingStep ==
    ASSUME IInv, [Next]_vars, killing'
    PROVE  phase' \in {"cleanup", "stopping"} /\ InModel' /\ Closed(Current)'
<1> USE DEF IInv
<1>1. CASE UNCHANGED <<port, phase, loopVars, killing>>
  <2>1. phase \in {"cleanup", "stopping"} /\ InModel /\ Closed(Current) /\ Current \in Objects
    BY <1>1, CurrentIsObject DEF Stops
  <2>2. Closed(Current)' /\ fleet' = fleet
    <3>1. \A o \in Objects : Closed(o) => Closed(o)'
      BY ClosedStays
    <3>2. Current' = Current
      BY <1>1, MainFrame DEF Current
    <3> QED
      BY <2>1, <3>1, <3>2, MainFrame DEF Closed, Created
  <2> QED
    BY <1>1, <2>1, <2>2 DEF InModel
<1>2. CASE MainClose
  <2>1. /\ phase' = phase /\ phase \in {"cleanup", "stopping"} /\ InModel /\ Created(Current)
        /\ UNCHANGED <<fleet, model, at, waiter, restarter>>
        /\ Current \in Objects
    BY <1>2, CurrentIsObject DEF MainClose, MoreToStop, CloseStopCh
  <2>2. stopClosed'[Current] /\ panicked' = stopClosed[Current]
    BY <1>2, <2>1 DEF MainClose, CloseStopCh, TypeOK
  <2>3. ~stopClosed[Current] => restarter[Current] = "none"
    BY <2>1 DEF Generations
  <2>4. Current' = Current
    BY <2>1 DEF Current
  <2> QED
    BY <2>1, <2>2, <2>3, <2>4 DEF Closed, Created, InModel
<1>3. CASE Main /\ ~MainClose
  BY <1>3 DEF Main, StartNext, StartFails, AwaitReady, JoinPool, AwaitTimeout, Stop, LoopsEnd,
              StopRunner, MainKill, MainDone, Stops
<1> QED
  BY <1>1, <1>2, <1>3, MainFrame

\* Main has done all of its model when there is no more to stop.
LEMMA NoMoreToStop ==
    ASSUME IInv, phase = "stopping", ~MoreToStop, NEW m, NEW k, IsPlace(m, k), m = model
    PROVE  k < at
<1>1. InModel => Created(Current)
  BY CurrentIsPlace DEF IInv, Progress
<1>2. k <= Len(fleet[m]) /\ m <= Len(fleet) /\ k \in Nat /\ Len(fleet[m]) \in Nat
  BY PlaceIsObject DEF IInv
<1> QED
  BY <1>1, <1>2 DEF MoreToStop, InModel, IInv, TypeOK

LEMMA PassedStep ==
    ASSUME IInv, [Next]_vars, NEW m, NEW k, IsPlace(m, k), Passed(m, k)'
    PROVE  \/ Passed(m, k)
           \/ MainKill /\ m = model /\ k = at
<1> USE DEF IInv
<1>1. k \in Nat /\ k >= 1 /\ m \in DOMAIN fleet
  BY PlaceIsObject DEF IsPlace
<1>2. CASE UNCHANGED <<port, phase, loopVars, killing>>
  BY <1>2 DEF Passed
<1>3. CASE StartFails
  BY <1>1, <1>3 DEF StartFails, Passed
<1>4. CASE LoopsEnd
  BY <1>1, <1>4 DEF LoopsEnd, Passed
<1>5. ASSUME NEW n \in Models, StopRunner(n) PROVE Passed(m, k)
  <2>1. /\ phase = "stopping" /\ phase' = "stopping" /\ ~MoreToStop
        /\ left' = left \ {n} /\ model' = n /\ at' = 1
    BY <1>5 DEF StopRunner
  <2>2. m # n /\ m \notin left
    BY <1>1, <2>1 DEF Passed
  <2>3. m = model => k < at
    BY <2>1, NoMoreToStop
  <2> QED
    BY <2>1, <2>2, <2>3 DEF Passed
<1>6. CASE MainClose
  BY <1>6 DEF MainClose, Passed
<1>7. CASE MainKill
  BY <1>1, <1>7 DEF MainKill, Passed, TypeOK
<1>8. CASE StartNext \/ AwaitReady \/ AwaitTimeout \/ Stop \/ MainDone
  BY <1>8 DEF StartNext, AwaitReady, JoinPool, AwaitTimeout, Stop, MainDone, Passed
<1> QED
  BY <1>2, <1>3, <1>4, <1>5, <1>6, <1>7, <1>8, MainFrame DEF Main

LEMMA StopsStep == ASSUME IInv, [Next]_vars PROVE Stops'
<1> USE DEF IInv
<1>1. fleet' = fleet
  BY MainFrame
<1>2. ASSUME NEW m, NEW k, IsPlace(m, k), Passed(m, k)'
      PROVE  Closed(Place(m, k))' /\ ~Alive(Place(m, k))'
  <2> DEFINE o == Place(m, k)
  <2>1. o \in Objects /\ o' = o
    BY <1>1, <1>2, PlaceIsObject DEF Place
  <2> HIDE DEF o
  <2>2. CASE Passed(m, k)
    <3>1. Closed(o) /\ ~Alive(o)
      BY <1>2, <2>2 DEF Stops, o
    <3>2. \A p \in Objects : Closed(p) /\ ~Alive(p) => Closed(p)' /\ ~Alive(p)'
      BY ClosedStays
    <3> QED
      BY <2>1, <3>1, <3>2 DEF o, Closed, Created, Alive
  <2>3. CASE MainKill /\ m = model /\ k = at
    <3>1. InModel /\ Closed(Current) /\ o = Current
      BY <2>3, CurrentIsPlace DEF MainKill, Stops, o
    <3>2. \A p \in Objects : Closed(p) => Closed(p)'
      BY ClosedStays
    <3>3. proc'[o] \notin LiveProc
      BY <2>1, <2>3, <3>1 DEF MainKill, KillProcess, LiveProc, TypeOK
    <3> QED
      BY <2>1, <3>1, <3>2, <3>3 DEF o, Closed, Created, Alive
  <2> QED
    BY <1>2, <2>2, <2>3, PassedStep
<1> QED
  BY <1>1, <1>2, KillingStep DEF Stops, IsPlace

\* An object that is not the first of its slot replaced a first one.
LEMMA FirstOrReplaced ==
    ASSUME IInv, NEW o \in Objects, Created(o), NEW m, NEW k, IsPlace(m, k), fleet[m][k] = o[1]
    PROVE  o = Place(m, k) \/ restarter[Place(m, k)] = "restarted"
<1>1. /\ Place(m, k) \in Objects /\ Place(m, k)[1] = o[1] /\ Place(m, k)[2] = 0
      /\ o[2] \in Nat
  BY PlaceIsObject, ObjectFacts DEF IInv
<1>2. CASE o[2] = 0
  BY <1>1, <1>2, ObjectFacts
<1>3. CASE o[2] > 0
  BY <1>1, <1>3 DEF IInv, Generations
<1> QED
  BY <1>1, <1>2, <1>3

\* What lives has been created.
LEMMA AliveIsCreated == ASSUME IInv, NEW o \in Objects, Alive(o) PROVE Created(o)
  BY DEF IInv, Generations, Alive, LiveProc

\* Once the program has ended its processes are as it left them.
LEMMA EndedStays ==
    ASSUME IInv, [Next]_vars, phase \in {"down", "failed"}
    PROVE  UNCHANGED vars
<1>1. ~Running
  BY DEF Running
<1>2. ~Processes /\ ~Waiters /\ ~HealthChecker /\ ~Restarts
  BY <1>1 DEF Processes, Process, Waiters, Waiter, HealthChecker, HealthTick, CheckPool,
              CheckHealth, Restarts, RestartStop, RestartKill, RestartStart, RestartFails
<1>3. ~Main
  BY <1>1 DEF Main, StartNext, StartFails, AwaitReady, AwaitTimeout, Stop, LoopsEnd, StopRunner,
              MainClose, MainKill, MainDone
<1> QED
  BY <1>2, <1>3 DEF Next, Ended

LEMMA CleanStep == ASSUME IInv, [Next]_vars PROVE CleanShutdown' /\ CleanFailedStart'
<1> USE DEF IInv
<1>0. fleet' = fleet
  BY MainFrame
<1>1. CASE phase \in {"down", "failed"}
  BY <1>1, EndedStays DEF vars, CleanShutdown, CleanFailedStart, First, Created
<1>2. CASE MainDone
  <2>1. /\ ~panicked /\ ~MoreToStop /\ left = {} /\ UNCHANGED <<proc, waiter, model>>
        /\ phase' = (IF phase = "cleanup" THEN "failed" ELSE "down")
        /\ phase \in {"cleanup", "stopping"}
    BY <1>2 DEF MainDone, Running
  <2>2. ASSUME phase' = "down", NEW o \in Objects, Alive(o) PROVE FALSE
    <3>1. phase = "stopping" /\ Created(o)
      BY <2>1, <2>2, AliveIsCreated
    <3>2. PICK m, k : IsPlace(m, k) /\ fleet[m][k] = o[1]
      BY <3>1 DEF Progress
    <3>3. Passed(m, k)
      BY <2>1, <3>1, <3>2, NoMoreToStop DEF Passed
    <3>4. Closed(Place(m, k)) /\ ~Alive(Place(m, k))
      BY <3>2, <3>3 DEF Stops
    <3> QED
      BY <2>1, <2>2, <3>1, <3>2, <3>4, FirstOrReplaced DEF Closed
  <2>3. ASSUME phase' = "failed", NEW o \in Objects, Alive(o),
               NEW k \in DOMAIN fleet[model], fleet[model][k] = o[1]
        PROVE  FALSE
    <3>1. phase = "cleanup" /\ Created(o) /\ model \in DOMAIN fleet /\ IsPlace(model, k)
      BY <2>1, <2>3, AliveIsCreated DEF Progress, IsPlace
    <3>2. o = Place(model, k)
      <4>1. Place(model, k) \in Objects
        BY <3>1, PlaceIsObject
      <4>2. restarter[Place(model, k)] = "none"
        BY <3>1, <4>1 DEF QuietUntilUp
      <4> QED
        BY <2>3, <3>1, <4>2, FirstOrReplaced
    <3>3. k < at
      <4> SUFFICES ASSUME ~(k < at) PROVE FALSE
        OBVIOUS
      <4>1. /\ k \in 1 .. Len(fleet[model]) /\ Len(fleet[model]) \in Nat
            /\ model \in 1 .. Len(fleet) /\ Len(fleet) \in Nat
        BY <3>1, PlaceIsObject
      <4>2. InModel /\ at <= k
        BY <4>1 DEF InModel, TypeOK
      <4>3. ~Created(Current) /\ Current = Place(model, at) /\ at \in DOMAIN fleet[model]
        BY <2>1, <4>2, CurrentIsPlace DEF MoreToStop, IsPlace
      <4>4. at < k
        BY <3>1, <3>2, <4>1, <4>2, <4>3 DEF TypeOK
      <4> QED
        BY <3>1, <3>2, <4>3, <4>4 DEF Progress
    <3>4. Passed(model, k)
      BY <3>1, <3>3 DEF Passed
    <3> QED
      BY <2>3, <3>1, <3>2, <3>4 DEF Stops
  <2> QED
    BY <1>0, <2>1, <2>2, <2>3 DEF CleanShutdown, CleanFailedStart, Alive
<1>3. CASE AwaitTimeout
  <2>1. /\ phase = "waiting" /\ phase' = "failed" /\ UNCHANGED <<waiter, model>>
        /\ model \in DOMAIN fleet /\ model \in Nat
    BY <1>3, Places DEF AwaitTimeout, Progress, TypeOK
  <2>2. \A k \in DOMAIN fleet[model] : Created(First(fleet[model][k]))
    BY <2>1 DEF Progress, IsPlace, Place
  <2> QED
    BY <1>0, <2>1, <2>2 DEF CleanShutdown, CleanFailedStart, Created
<1>4. CASE phase \notin {"down", "failed"} /\ ~MainDone /\ ~AwaitTimeout
  <2>1. phase' \notin {"down", "failed"}
    <3>1. CASE Main
      BY <1>4, <3>1 DEF Main, StartNext, StartFails, AwaitReady, JoinPool, Stop, LoopsEnd,
                        StopRunner, MainClose, MainKill
    <3> QED
      BY <1>4, <3>1, MainFrame
  <2> QED
    BY <2>1 DEF CleanShutdown, CleanFailedStart
<1> QED
  BY <1>1, <1>2, <1>3, <1>4

-----------------------------------------------------------------------------
(* The theorems *)

LEMMA InvInit == Init => IInv
<1> SUFFICES ASSUME Init PROVE IInv
  OBVIOUS
<1>1. TypeOK
  BY TypeInit
<1>2. /\ \A o \in Objects : /\ ~Created(o) /\ proc[o] = "none" /\ restarter[o] = "none"
                            /\ pending[o] = 0
      /\ phase = "starting" /\ due = {} /\ todo = <<>> /\ model = 1 /\ at = 1 /\ ~killing
      /\ \A m \in Models : members[m] = <<>>
  BY DEF Init, Created
<1>3. Generations /\ QuietUntilUp /\ Ports /\ AwaitedAreReady
  BY <1>2 DEF Generations, QuietUntilUp, Ports, AwaitedAreReady, Alive, LiveProc
<1>4. PoolsCreated /\ FirstMembersReady
  BY <1>2 DEF PoolsCreated, FirstMembersReady
<1>5. Stops /\ CleanShutdown /\ CleanFailedStart
  BY <1>2 DEF Stops, Passed, CleanShutdown, CleanFailedStart
<1>6. Progress
  <2>1. \A m \in DOMAIN fleet : Len(fleet[m]) \in Nat
    BY <1>1, Places DEF TypeOK
  <2>2. ASSUME NEW m, NEW k, IsPlace(m, k)
        PROVE  ~Created(Place(m, k)) /\ ~(m < 1) /\ ~(k < 1)
    BY <1>1, <1>2, <2>2, PlaceIsObject
  <2> QED
    BY <1>2, <2>1, <2>2 DEF Progress
<1> QED
  BY <1>1, <1>3, <1>4, <1>5, <1>6 DEF IInv

\* The invariant holds for every configuration, number of restarts and of pending
\* restart goroutines (scheduler.go:53-267, runner.go:204-489).
THEOREM LifecycleInvariance == Spec => []IInv
<1>1. IInv /\ [Next]_vars => IInv'
  <2> SUFFICES ASSUME IInv, [Next]_vars PROVE IInv'
    OBVIOUS
  <2>1. TypeOK'
    BY TypeStep DEF IInv
  <2> QED
    BY <2>1, GenerationsStep, PoolsStep, QuietStep, ProgressStep, PortsStep, AwaitedStep,
       StopsStep, CleanStep DEF IInv
<1> QED
  BY InvInit, <1>1, PTL DEF Spec

\* Every variable of the life of the instances keeps its type.
THEOREM LifecycleTypeCorrect == Spec => []TypeOK
<1>1. IInv => TypeOK
  BY DEF IInv
<1> QED
  BY <1>1, LifecycleInvariance, PTL

\* No two llama.cpp processes ever have the same port (OneProcessPerPort), nor do two
\* restarts of an instance overlap (scheduler.go:79-91, 232-267): created slots have
\* ports of their own, and only the newest object of a slot lives or is being replaced.
THEOREM PortsAreExclusive == Spec => []OneProcessPerPort
<1>1. ASSUME IInv, NEW o \in Objects, NEW p \in Objects, port[o[1]] = port[p[1]],
             \/ proc[o] \in LiveProc /\ proc[p] \in LiveProc
             \/ restarter[o] \in Restarting /\ restarter[p] \in Restarting
      PROVE  o = p
  <2>1. Created(o) /\ Created(p)
    BY <1>1, AliveIsCreated DEF IInv, Generations, Alive, Restarting
  <2>2. restarter[o] # "restarted" /\ restarter[p] # "restarted"
    BY <1>1 DEF IInv, Generations, Alive, Restarting
  <2>3. o[1] = p[1]
    BY <1>1, <2>1 DEF IInv, Ports
  <2>4. \A q, r \in Objects : /\ Created(r) /\ restarter[q] # "restarted"
                              /\ q[1] = r[1]
                              => ~(q[2] < r[2])
    BY <1>1 DEF IInv, Generations
  <2>5. o[2] \in Nat /\ p[2] \in Nat
    BY ObjectFacts
  <2>6. o[2] = p[2]
    BY <2>1, <2>2, <2>3, <2>4, <2>5
  <2> QED
    BY <2>3, <2>6, ObjectFacts
<1>2. IInv => OneProcessPerPort
  BY <1>1 DEF OneProcessPerPort
<1> QED
  BY <1>2, LifecycleInvariance, PTL

\* Nothing that was not ready is in a pool before the first restart
\* (FirstMembersReady; runner.go:407-421).
THEOREM MembersWereReady == Spec => []FirstMembersReady
<1>1. IInv => FirstMembersReady
  BY DEF IInv
<1> QED
  BY <1>1, LifecycleInvariance, PTL

\* A shutdown that completes leaves no process behind (CleanShutdown,
\* scheduler.go:122-140): each instance that StartAll made is closed first, so that a
\* restart of it panics, and no generation after it can have been created.
THEOREM ShutdownIsClean == Spec => []CleanShutdown
<1>1. IInv => CleanShutdown
  BY DEF IInv
<1> QED
  BY <1>1, LifecycleInvariance, PTL

\* The cleanup of a StartAll that failed leaves no process of its model behind
\* (CleanFailedStart, runner.go:395-400).
THEOREM FailedStartIsClean == Spec => []CleanFailedStart
<1>1. IInv => CleanFailedStart
  BY DEF IInv
<1> QED
  BY <1>1, LifecycleInvariance, PTL

-----------------------------------------------------------------------------
(* InstanceLifecycle implements Supervision *)

WantedSlots == UNION {{fleet[m][k] : k \in DOMAIN fleet[m]} : m \in DOMAIN fleet}
Stage == CASE phase \in {"starting", "waiting"} -> "starting"
           [] phase \in {"up", "closing", "stopping"} -> "serving"
           [] phase \in {"cleanup", "failed"} -> "failed"
           [] phase = "down" -> "ended"
StartsOf(s) == {g \in 0 .. MaxRestarts[s] : Created(<<s, g>>)}
StartsOfAll == [s \in Slots |-> StartsOf(s)]
LiveSlots == {o[1] : o \in {p \in Objects : proc[p] \in LiveProc}}

\* The numbers that the starts of a slot may have.
LEMMA Numbers ==
    ASSUME NEW s \in Slots, NEW g
    PROVE  g \in 0 .. MaxRestarts[s] <=> <<s, g>> \in Objects
<1>1. ASSUME <<s, g>> \in Objects PROVE g \in 0 .. MaxRestarts[s]
  <2>1. PICK t \in Slots : <<s, g>> \in {t} \X (0 .. MaxRestarts[t])
    BY <1>1 DEF Objects
  <2>2. s \in {t} /\ g \in 0 .. MaxRestarts[t]
    BY <2>1
  <2> QED
    BY <2>2
<1>2. ASSUME g \in 0 .. MaxRestarts[s] PROVE <<s, g>> \in Objects
  BY <1>2 DEF Objects
<1> QED
  BY <1>1, <1>2

\* What the abstract variables are.
LEMMA Abstract ==
    /\ \A s : s \in WantedSlots <=> \E m, k : IsPlace(m, k) /\ fleet[m][k] = s
    /\ \A s : s \in LiveSlots <=> \E o \in Objects : o[1] = s /\ Alive(o)
    /\ \A s \in Slots : \A g : g \in StartsOf(s) <=> <<s, g>> \in Objects /\ Created(<<s, g>>)
<1>1. \A s : s \in WantedSlots <=> \E m, k : IsPlace(m, k) /\ fleet[m][k] = s
  BY DEF WantedSlots, IsPlace
<1>2. \A s : s \in LiveSlots <=> \E o \in Objects : o[1] = s /\ Alive(o)
  BY DEF LiveSlots, Alive
<1>3. ASSUME NEW s \in Slots, NEW g
      PROVE  g \in StartsOf(s) <=> <<s, g>> \in Objects /\ Created(<<s, g>>)
  BY Numbers DEF StartsOf, Created
<1> QED
  BY <1>1, <1>2, <1>3

\* A step after which everybody who was created is, and nobody else, leaves the starts
\* of every slot as they were.
LEMMA SameStarts ==
    ASSUME \A o \in Objects : Created(o)' <=> Created(o), NEW s \in Slots
    PROVE  StartsOf(s)' = StartsOf(s)
<1>1. \A g \in 0 .. MaxRestarts[s] : Created(<<s, g>>)' <=> Created(<<s, g>>)
  BY Numbers
<1> QED
  BY <1>1 DEF StartsOf, Created

LEMMA SameWanted == fleet' = fleet => WantedSlots' = WantedSlots
BY DEF WantedSlots

LEMMA StageAlone == phase' = phase => Stage' = Stage
BY DEF Stage

\* The step that Supervision makes when the process of o may have ended.
LEMMA DeathStep ==
    ASSUME NEW o \in Objects, phase # "down", phase \in PhaseStates,
           UNCHANGED <<fleet, phase, waiter>>,
           \A p \in Objects : p # o => proc'[p] = proc[p],
           Alive(o)' => Alive(o)
    PROVE  [Supervisor!SupervisionNext]_(Supervisor!supervisionVars)
<1>1. WantedSlots' = WantedSlots /\ Stage' = Stage /\ StartsOfAll' = StartsOfAll
  <2>1. \A s \in Slots : StartsOf(s)' = StartsOf(s)
    BY DEF StartsOf, Created
  <2> QED
    BY <2>1, SameWanted, StageAlone DEF StartsOfAll
<1>2. Stage # "ended"
  BY DEF Stage, PhaseStates
<1>3. \A p \in Objects : p # o => (Alive(p)' <=> Alive(p))
  BY DEF Alive
<1>4. \A s : s # o[1] => (s \in LiveSlots' <=> s \in LiveSlots)
  BY <1>3 DEF LiveSlots, Alive
<1>5. o[1] \in LiveSlots' => o[1] \in LiveSlots
  BY <1>3 DEF LiveSlots, Alive
<1>6. LiveSlots' = LiveSlots \/ (o[1] \in LiveSlots /\ LiveSlots' = LiveSlots \ {o[1]})
  BY <1>4, <1>5
<1>7. CASE LiveSlots' = LiveSlots
  BY <1>1, <1>7 DEF Supervisor!supervisionVars, WantedSlots, Stage, StartsOfAll, StartsOf,
                    LiveSlots
<1>8. CASE o[1] \in LiveSlots /\ LiveSlots' = LiveSlots \ {o[1]}
  <2>1. o[1] \in Slots
    BY ObjectFacts
  <2>2. Supervisor!Die(o[1])
    BY <1>1, <1>2, <1>8 DEF Supervisor!Die, WantedSlots, Stage, StartsOfAll, StartsOf, LiveSlots
  <2> QED
    BY <2>1, <2>2 DEF Supervisor!SupervisionNext
<1> QED
  BY <1>6, <1>7, <1>8

\* The step of a goroutine that neither starts nor ends a process.
LEMMA QuietAbstractStep ==
    ASSUME UNCHANGED <<fleet, proc>>, Stage' = Stage,
           \A o \in Objects : Created(o)' <=> Created(o)
    PROVE  UNCHANGED Supervisor!supervisionVars
<1>1. WantedSlots' = WantedSlots /\ LiveSlots' = LiveSlots
  BY SameWanted DEF LiveSlots
<1>2. StartsOfAll' = StartsOfAll
  BY SameStarts DEF StartsOfAll
<1> QED
  BY <1>1, <1>2 DEF Supervisor!supervisionVars, WantedSlots, Stage, StartsOfAll, StartsOf,
                    LiveSlots

\* What a new object does to the starts and to the live slots.
LEMMA NewObject ==
    ASSUME TypeOK, NEW n \in Objects, StartInstance(n)
    PROVE  /\ StartsOfAll' = [StartsOfAll EXCEPT ![n[1]] = StartsOf(n[1]) \cup {n[2]}]
           /\ LiveSlots' = LiveSlots \cup {n[1]}
<1>1. /\ Created(n)' /\ \A o \in Objects : o # n => (Created(o)' <=> Created(o))
      /\ Alive(n)' /\ \A o \in Objects : o # n => (Alive(o)' <=> Alive(o))
  BY DEF StartInstance, TypeOK, Created, Alive, LiveProc
<1>2. /\ n[1] \in Slots /\ n = <<n[1], n[2]>>
      /\ \A s \in Slots : \A g : <<s, g>> = n <=> s = n[1] /\ g = n[2]
  BY ObjectFacts
<1>3. ASSUME NEW s \in Slots, NEW g
      PROVE  g \in StartsOf(s)' <=> g \in StartsOf(s) \/ (s = n[1] /\ g = n[2])
  <2>1. g \in StartsOf(s)' <=> <<s, g>> \in Objects /\ Created(<<s, g>>)'
    BY Numbers DEF StartsOf, Created
  <2> QED
    BY <1>1, <1>2, <2>1, Abstract
<1>4. \A s \in Slots : s # n[1] => StartsOf(s)' = StartsOf(s)
  <2>1. \A s \in Slots : s # n[1] => \A g : g \in StartsOf(s)' <=> g \in StartsOf(s)
    BY <1>3
  <2> QED
    BY <2>1 DEF StartsOf
<1>5. StartsOf(n[1])' = StartsOf(n[1]) \cup {n[2]}
  <2>1. \A g : g \in StartsOf(n[1])' <=> g \in StartsOf(n[1]) \cup {n[2]}
    BY <1>2, <1>3
  <2> QED
    BY <2>1
<1>6. LiveSlots' = LiveSlots \cup {n[1]}
  BY <1>1 DEF LiveSlots, Alive
<1>7. StartsOfAll' = [StartsOfAll EXCEPT ![n[1]] = StartsOf(n[1]) \cup {n[2]}]
  BY <1>2, <1>4, <1>5 DEF StartsOfAll
<1> QED
  BY <1>6, <1>7

\* StartAll makes the first start of a slot that has had none.
LEMMA FirstStartStep ==
    ASSUME IInv, StartNext, InModel
    PROVE  \E s \in Slots : Supervisor!FirstStart(s)
<1>0. Current[1] \in Slots
  BY CurrentIsObject DEF IInv
<1> PICK s \in Slots : s = Current[1]
  BY <1>0
<1>1. /\ Current \in Objects /\ Current[1] = s /\ Current[2] = 0 /\ ~Created(Current)
      /\ IsPlace(model, at) /\ fleet[model][at] = s
  BY StartAllMakesFirst, CurrentIsObject, CurrentIsPlace DEF IInv
<1>2. /\ phase = "starting" /\ UNCHANGED <<fleet, phase>> /\ StartInstance(Current)
  BY DEF StartNext
<1>3. \A o \in Objects : o[1] = s => ~Created(o)
  <2>1. \A o \in Objects : o[2] \in Nat
    BY ObjectFacts
  <2>2. ASSUME NEW o \in Objects, o[1] = s, o[2] = 0 PROVE o = Current
    BY <1>1, <2>2, ObjectFacts
  <2> QED
    BY <1>1, <2>1, <2>2 DEF IInv, Generations
<1>4. StartsOf(s) = {}
  <2>1. \A g : g \in StartsOf(s) => FALSE
    BY <1>1, <1>3, Abstract
  <2> QED
    BY <2>1
<1>5. s \in WantedSlots /\ s \notin LiveSlots /\ Stage = "starting"
  BY <1>1, <1>2, <1>3, Abstract, AliveIsCreated DEF Stage
<1>6. WantedSlots' = WantedSlots /\ Stage' = Stage
  BY <1>2, SameWanted, StageAlone
<1>7. StartsOfAll' = [StartsOfAll EXCEPT ![s] = {0}] /\ LiveSlots' = LiveSlots \cup {s}
  BY <1>1, <1>2, <1>4, NewObject DEF IInv
<1>8. Supervisor!FirstStart(s)
  BY <1>1, <1>4, <1>5, <1>6, <1>7
     DEF Supervisor!FirstStart, WantedSlots, Stage, StartsOfAll, StartsOf, LiveSlots
<1> QED
  BY <1>1, <1>8

\* A restart starts a slot whose earlier processes are all dead.
LEMMA StartAgainStep ==
    ASSUME IInv, NEW o \in Objects, NEW n \in Objects, RestartStart(o, n)
    PROVE  \E s \in Slots : Supervisor!StartAgain(s)
<1> DEFINE s == o[1]
<1>1. /\ Created(o) /\ ~Created(n) /\ n[1] = s /\ n[2] = o[2] + 1
      /\ s \in Slots /\ o[2] \in Nat
  BY RestartMakesNext, ObjectFacts
<1>2. /\ restarter[o] \in {"starting", "retrying"} /\ StartInstance(n) /\ fleet' = fleet
      /\ phase \in {"up", "closing", "stopping"} /\ phase' = phase
  BY RestartIsLate, MainFrame DEF RestartStart
<1>3. ASSUME NEW p \in Objects, p[1] = s
      PROVE  /\ Created(p) <=> p[2] <= o[2]
             /\ ~Alive(p)
  <2>1. p[2] \in Nat
    BY ObjectFacts
  <2>2. CASE p[2] < o[2]
    BY <1>1, <1>3, <2>1, <2>2 DEF IInv, Generations
  <2>3. CASE p[2] = o[2]
    <3>1. p = o
      BY <1>3, <2>3, ObjectFacts
    <3> QED
      BY <1>1, <1>2, <2>3, <3>1 DEF IInv, Generations
  <2>4. CASE p[2] > o[2]
    <3>1. ~Created(p)
      <4>1. CASE p[2] = n[2]
        BY <1>1, <1>3, <4>1, ObjectFacts
      <4>2. CASE p[2] > n[2]
        BY <1>1, <1>3, <4>2 DEF IInv, Generations
      <4> QED
        BY <1>1, <2>1, <2>4, <4>1, <4>2
    <3> QED
      BY <1>1, <2>1, <2>4, <3>1, AliveIsCreated
  <2> QED
    BY <1>1, <2>1, <2>2, <2>3, <2>4
<1>4. StartsOf(s) = 0 .. o[2]
  <2>1. ASSUME NEW g \in StartsOf(s) PROVE g \in 0 .. o[2]
    <3>1. <<s, g>> \in Objects /\ Created(<<s, g>>)
      BY <1>1, <2>1, Abstract
    <3>2. <<s, g>>[1] = s /\ <<s, g>>[2] = g
      OBVIOUS
    <3>3. g \in Nat /\ g <= o[2]
      BY <1>3, <3>1, <3>2, ObjectFacts
    <3> QED
      BY <1>1, <3>3
  <2>2. ASSUME NEW g \in 0 .. o[2] PROVE g \in StartsOf(s)
    <3>1. <<s, g>> \in Objects
      BY <2>2, ObjectFacts
    <3>2. <<s, g>>[1] = s /\ <<s, g>>[2] = g /\ g <= o[2]
      BY <1>1
    <3> QED
      BY <1>1, <1>3, <3>1, <3>2, Abstract
  <2> QED
    BY <2>1, <2>2
<1>5. s \notin LiveSlots /\ Stage = "serving"
  BY <1>2, <1>3, Abstract DEF Stage
<1>6. WantedSlots' = WantedSlots /\ Stage' = Stage
  BY <1>2, SameWanted, StageAlone
<1>7. /\ StartsOfAll' = [StartsOfAll EXCEPT ![s] = StartsOf(s) \cup {o[2] + 1}]
      /\ LiveSlots' = LiveSlots \cup {s}
  BY <1>1, <1>2, NewObject DEF IInv
<1>8. StartsOfAll' = [StartsOfAll EXCEPT ![s] = 0 .. o[2] + 1]
  <2>1. StartsOf(s) \cup {o[2] + 1} = 0 .. o[2] + 1
    BY <1>1, <1>4
  <2> QED
    BY <1>7, <2>1
<1> HIDE DEF s
<1>9. o[2] \in StartsOf(s) /\ StartsOfAll[s] = StartsOf(s)
  BY <1>1, <1>4 DEF StartsOfAll
<1>10. Supervisor!StartAgain(s)
  <2>1. \E k \in StartsOfAll[s] : /\ StartsOfAll[s] = 0 .. k
                                  /\ StartsOfAll' = [StartsOfAll EXCEPT ![s] = 0 .. k + 1]
    BY <1>4, <1>8, <1>9
  <2> QED
    BY <1>5, <1>6, <1>7, <2>1
       DEF Supervisor!StartAgain, WantedSlots, Stage, StartsOfAll, StartsOf, LiveSlots
<1> QED
  BY <1>1, <1>10

\* Init returns when it has started every slot of the configuration, and no other.
LEMMA ServeStep ==
    ASSUME IInv, StartNext, ~InModel, phase' = "up"
    PROVE  Supervisor!Serve
<1>1. /\ phase = "starting" /\ UNCHANGED <<fleet, proc, waiter>>
      /\ model > Len(fleet)
  BY Places DEF StartNext, procVars, IInv, TypeOK
<1>2. ASSUME NEW s \in Slots PROVE StartsOf(s) # {} <=> s \in WantedSlots
  <2>1. ASSUME NEW g \in StartsOf(s) PROVE s \in WantedSlots
    <3>1. <<s, g>> \in Objects /\ Created(<<s, g>>) /\ <<s, g>>[1] = s
      BY <2>1, Abstract
    <3> QED
      BY <3>1, Abstract DEF IInv, Progress
  <2>2. ASSUME s \in WantedSlots PROVE 0 \in StartsOf(s)
    <3>1. PICK m, k : IsPlace(m, k) /\ fleet[m][k] = s
      BY <2>2, Abstract
    <3>2. m < model
      BY <1>1, <3>1, PlaceIsObject DEF IInv, TypeOK
    <3>3. Created(Place(m, k)) /\ Place(m, k) = <<s, 0>> /\ Place(m, k) \in Objects
      BY <1>1, <3>1, <3>2, PlaceIsObject DEF IInv, Progress, Place, First
    <3> QED
      BY <3>3, Abstract
  <2> QED
    BY <2>1, <2>2
<1>3. WantedSlots' = WantedSlots /\ StartsOfAll' = StartsOfAll /\ LiveSlots' = LiveSlots
  BY <1>1 DEF WantedSlots, StartsOfAll, StartsOf, Created, LiveSlots
<1>4. Stage = "starting" /\ Stage' = "serving"
  BY <1>1 DEF Stage
<1>5. \A s \in Slots : StartsOfAll[s] # {} <=> s \in WantedSlots
  BY <1>2 DEF StartsOfAll
<1> QED
  BY <1>3, <1>4, <1>5 DEF Supervisor!Serve, WantedSlots, Stage, StartsOfAll, StartsOf, LiveSlots

\* The end of a shutdown, and of an Init that fails.
LEMMA EndStep ==
    ASSUME IInv, StartFails \/ AwaitTimeout \/ MainDone
    PROVE  [Supervisor!SupervisionNext]_(Supervisor!supervisionVars)
<1>1. UNCHANGED <<fleet, proc, waiter>>
  BY DEF StartFails, AwaitTimeout, MainDone, procVars
<1>2. WantedSlots' = WantedSlots /\ StartsOfAll' = StartsOfAll /\ LiveSlots' = LiveSlots
  BY <1>1 DEF WantedSlots, StartsOfAll, StartsOf, Created, LiveSlots
<1>3. CASE StartFails \/ AwaitTimeout
  <2>1. Stage = "starting" /\ Stage' = "failed"
    BY <1>3 DEF StartFails, AwaitTimeout, Stage
  <2>2. Supervisor!Fail
    BY <1>2, <2>1 DEF Supervisor!Fail, WantedSlots, Stage, StartsOfAll, StartsOf, LiveSlots
  <2> QED
    BY <2>2 DEF Supervisor!SupervisionNext
<1>4. CASE MainDone /\ phase = "cleanup"
  <2>1. Stage' = Stage
    BY <1>4 DEF MainDone, Stage
  <2> QED
    BY <1>2, <2>1
       DEF Supervisor!supervisionVars, WantedSlots, Stage, StartsOfAll, StartsOf, LiveSlots
<1>5. CASE MainDone /\ phase = "stopping"
  <2>1. phase' = "down" /\ Stage = "serving" /\ Stage' = "ended"
    BY <1>5 DEF MainDone, Stage
  <2>2. CleanShutdown'
    <3>1. [Next]_vars
      BY <1>5 DEF Next, Main
    <3> QED
      BY <3>1, CleanStep
  <2>3. LiveSlots = {}
    BY <1>1, <2>1, <2>2 DEF CleanShutdown, LiveSlots
  <2>4. Supervisor!End
    BY <1>2, <2>1, <2>3 DEF Supervisor!End, WantedSlots, Stage, StartsOfAll, StartsOf, LiveSlots
  <2> QED
    BY <2>4 DEF Supervisor!SupervisionNext
<1> QED
  BY <1>3, <1>4, <1>5 DEF MainDone

\* Every step of the program is one of Supervision, or none.
LEMMA SupervisionStep ==
    ASSUME IInv, [Next]_vars
    PROVE  [Supervisor!SupervisionNext]_(Supervisor!supervisionVars)
<1> USE DEF IInv
<1>1. ASSUME NEW o \in Objects, Process(o) \/ RestartKill(o)
      PROVE  [Supervisor!SupervisionNext]_(Supervisor!supervisionVars)
  BY <1>1, DeathStep
     DEF Process, Load, Hang, Crash, RestartKill, KillProcess, Running, TypeOK, Alive, LiveProc
<1>2. ASSUME MainKill
      PROVE  [Supervisor!SupervisionNext]_(Supervisor!supervisionVars)
  <2>1. Current \in Objects
    BY <1>2, CurrentIsObject DEF MainKill, Stops
  <2>2. PICK o \in Objects : o = Current
    BY <2>1
  <2> QED
    BY <1>2, <2>2, DeathStep DEF MainKill, KillProcess, Running, TypeOK, Alive, LiveProc
<1>3. CASE StartNext
  <2>1. CASE InModel
    BY <1>3, <2>1, FirstStartStep DEF Supervisor!SupervisionNext
  <2>2. CASE ~InModel /\ phase' = "up"
    BY <1>3, <2>2, ServeStep DEF Supervisor!SupervisionNext
  <2>3. CASE ~InModel /\ phase' = "waiting"
    BY <1>3, <2>3, QuietAbstractStep DEF StartNext, procVars, Stage, Created
  <2> QED
    BY <1>3, <2>1, <2>2, <2>3 DEF StartNext
<1>4. ASSUME NEW o \in Objects, NEW n \in Objects, RestartStart(o, n)
      PROVE  [Supervisor!SupervisionNext]_(Supervisor!supervisionVars)
  BY <1>4, StartAgainStep DEF Supervisor!SupervisionNext
<1>5. CASE StartFails \/ AwaitTimeout \/ MainDone
  BY <1>5, EndStep
<1>6. ASSUME NEW o \in Objects, Waiter(o) \/ RestartStop(o) \/ RestartFails(o)
      PROVE  UNCHANGED Supervisor!supervisionVars
  <2>1. fleet' = fleet /\ phase' = phase /\ proc' = proc
    BY <1>6 DEF Waiter, RestartStop, RestartFails, CloseStopCh
  <2>2. \A p \in Objects : Created(p)' <=> Created(p)
    BY <1>6 DEF Waiter, WaiterSeesExit, WaiterSeesReady, WaiterSeesNothing, WaiterGivesUp,
                WaiterSleeps, WaiterReturns, RestartStop, RestartFails, CloseStopCh, Created,
                TypeOK
  <2> QED
    BY <2>1, <2>2, QuietAbstractStep, StageAlone
<1>7. CASE HealthChecker
  <2>1. UNCHANGED <<fleet, phase, proc, waiter>>
    BY <1>7 DEF HealthChecker, HealthTick, CheckPool, CheckHealth
  <2> QED
    BY <2>1, QuietAbstractStep, StageAlone DEF Created
<1>8. CASE AwaitReady \/ Stop \/ LoopsEnd \/ (\E m \in Models : StopRunner(m)) \/ MainClose
  <2>1. UNCHANGED <<fleet, proc, waiter>> /\ Stage' = Stage
    BY <1>8 DEF AwaitReady, JoinPool, Stop, LoopsEnd, StopRunner, MainClose, CloseStopCh, Stage
  <2> QED
    BY <2>1, QuietAbstractStep DEF Created
<1>9. CASE Ended \/ UNCHANGED vars
  <2>1. UNCHANGED <<fleet, phase, proc, waiter>>
    BY <1>9 DEF Ended, vars
  <2> QED
    BY <2>1, QuietAbstractStep, StageAlone DEF Created
<1> QED
  BY <1>1, <1>2, <1>3, <1>4, <1>5, <1>6, <1>7, <1>8, <1>9
     DEF Next, Processes, Waiters, Restarts, Main

\* The instances' lives implement Supervision: whatever processes, waiters, health checks
\* and restarts do, a slot is started before the API serves, started again only when
\* nothing of it lives, and nothing lives when the program ends (scheduler.go:53-140,
\* 232-267).
THEOREM LifecycleSupervised == Spec => ImplementsSupervision
<1>1. Init => Supervisor!SupervisionInit
  <2> SUFFICES ASSUME Init PROVE Supervisor!SupervisionInit
    OBVIOUS
  <2>1. WantedSlots \in SUBSET Slots
    BY Places, Abstract DEF Init, IsPlace
  <2>2. \A o \in Objects : ~Created(o) /\ ~Alive(o)
    BY DEF Init, Created, Alive, LiveProc
  <2>3. StartsOfAll = [s \in Slots |-> {}] /\ LiveSlots = {} /\ Stage = "starting"
    <3>1. ASSUME NEW s \in Slots PROVE StartsOf(s) = {}
      <4>1. \A g : g \notin StartsOf(s)
        BY <2>2, Abstract
      <4> QED
        BY <4>1
    <3>2. LiveSlots = {}
      BY <2>2, Abstract
    <3> QED
      BY <3>1, <3>2 DEF StartsOfAll, Stage, Init
  <2> QED
    BY <2>1, <2>3
       DEF Supervisor!SupervisionInit, WantedSlots, Stage, StartsOfAll, StartsOf, LiveSlots
<1>2. IInv /\ [Next]_vars => [Supervisor!SupervisionNext]_(Supervisor!supervisionVars)
  BY SupervisionStep
<1> QED
  BY <1>1, <1>2, LifecycleInvariance, PTL
     DEF Spec, ImplementsSupervision, Supervisor!SupervisionSpec
=============================================================================
