-------------------------- MODULE SelfHealing_proofs --------------------------
(***************************************************************************)
(* Restarts take away that leases are exclusive.  These proofs say what    *)
(* they leave intact, for every set of requests, streams, models and       *)
(* instances: a restart touches Busy, the pool and processes, CoreInv of   *)
(* Serving_proofs speaks of none of them but by their types, and what is   *)
(* done to one object leaves the leases of the others alone.               *)
(***************************************************************************)
EXTENDS SelfHealing, Serving_proofs

HealingInv == CoreInv /\ HealingTypeOK /\ LeaseUntilRestart

\* Busy of i has been cleared by a restart, or is not reliable any more since.
Touched(i) == i \in stopped \/ restart[i] = "released" \/ second[i] = "released"

USE DEF BatcherTypeOK, PoolTypeOK, batcherVars, poolVars, handlerVars, loopVars,
        streamVars, healthVars

-----------------------------------------------------------------------------
(* Which part of the state the two halves of the program touch *)

RequestVars == <<queue, waited, client, name, chan, loop, batch, running, worker, mu,
                 stream, uses>>

\* A step of the program is one of the serving path, or one of the health checker,
\* a restart or a process, which changes nothing of a request or a stream.
LEMMA HealingFrame ==
    ASSUME [HealingNext]_healingVars
    PROVE  \/ [Next]_vars /\ UNCHANGED healthVars
           \/ /\ UNCHANGED RequestVars
              /\ \E i \in Instances :
                    \/ ProcessDies(i) \/ ProcessLoads(i) \/ BecomesReady(i)
                    \/ CheckHealth(i) \/ Restart(i)
<1>1. CASE UNCHANGED healingVars
  BY <1>1 DEF healingVars
<1>2. CASE ServingStep
  BY <1>2 DEF ServingStep
<1>3. ASSUME NEW i \in Instances,
             \/ ProcessDies(i) \/ ProcessLoads(i) \/ BecomesReady(i)
             \/ CheckHealth(i) \/ Restart(i)
      PROVE  UNCHANGED RequestVars
  BY <1>3 DEF RequestVars, vars, ProcessDies, ProcessLoads, BecomesReady, CheckHealth,
              Restart, RestartRelease, RestartStop, RestartStart, RestartFails,
              SecondRelease, SecondStop, ClearBusy
<1> QED
  BY <1>1, <1>2, <1>3 DEF HealingNext

-----------------------------------------------------------------------------
(* Type correctness *)

\* StartAll's instances are members of a pool, with a process that answers.
LEMMA HealingTypeInit == HealingInit => HealingTypeOK
<1> SUFFICES ASSUME HealingInit PROVE HealingTypeOK
  OBVIOUS
<1>1. TypeOK /\ pool = InitialPool
  BY TypeInit DEF HealingInit, Init, PoolInit
<1>2. Members = Initial
  BY <1>1 DEF Members, Initial
<1> QED
  BY <1>1, <1>2 DEF HealingInit, HealingTypeOK

\* An object joins the members of the pool that it is added to.
LEMMA JoinPool ==
    ASSUME NEW m \in Models, NEW j,
           Range(pool'[m]) = Range(pool[m]) \cup {j},
           \A k \in Models : k # m => pool'[k] = pool[k]
    PROVE  Members' = Members \cup {j}
<1>1. \A k \in Models : k # m => Range(pool'[k]) = Range(pool[k])
  OBVIOUS
<1> QED
  BY <1>1 DEF Members

\* A restart's new object is a member of the pool from its start on, and no object
\* ever leaves the pool.
LEMMA HealingTypeStep ==
    ASSUME TypeOK, HealingTypeOK, NEW i \in Instances,
           UNCHANGED RequestVars,
           \/ ProcessDies(i) \/ ProcessLoads(i) \/ BecomesReady(i)
           \/ CheckHealth(i) \/ Restart(i)
    PROVE  HealingTypeOK'
<1> USE DEF HealingTypeOK, TypeOK, RequestVars
<1>1. ASSUME pool' = pool PROVE Members' = Members
  BY <1>1 DEF Members
<1>2. CASE ProcessDies(i) \/ ProcessLoads(i)
  BY <1>1, <1>2 DEF ProcessDies, ProcessLoads, vars
<1>3. CASE BecomesReady(i)
  BY <1>1, <1>3 DEF BecomesReady, vars
<1>4. CASE CheckHealth(i)
  BY <1>1, <1>4 DEF CheckHealth, vars
<1>5. CASE RestartRelease(i) \/ SecondRelease(i)
  BY <1>1, <1>5 DEF RestartRelease, SecondRelease, ClearBusy, Release
<1>6. CASE RestartStop(i)
  BY <1>1, <1>6 DEF RestartStop, vars
<1>7. ASSUME NEW j \in Instances, RestartStart(i, j)
      PROVE  HealingTypeOK'
  <2>1. /\ j \notin Members
        /\ pool' = [pool EXCEPT ![InstModel[i]] = Append(@, j)]
        /\ process' = [process EXCEPT ![j] = "loading"]
        /\ restart' = [restart EXCEPT ![i] = "none"]
        /\ UNCHANGED <<busy, phase, ready, stopped, second>>
    BY <1>7 DEF RestartStart
  <2>2. InstModel[i] \in Models
    BY PoolAssumption
  <2>3. PoolTypeOK'
    BY <2>1, <2>2, AppendMembers
  <2>4. Members' = Members \cup {j}
    <3>1. pool'[InstModel[i]] = Append(pool[InstModel[i]], j)
      BY <2>1, <2>2
    <3>2. Range(pool'[InstModel[i]]) = Range(pool[InstModel[i]]) \cup {j}
      BY <2>2, <3>1, AppendMembers
    <3>3. \A m \in Models : m # InstModel[i] => pool'[m] = pool[m]
      BY <2>1
    <3> QED
      BY <2>2, <3>2, <3>3, JoinPool
  <2> QED
    BY <2>1, <2>3, <2>4
<1>8. CASE RestartFails(i)
  BY <1>1, <1>8 DEF RestartFails, vars
<1>9. CASE SecondStop(i)
  BY <1>1, <1>9 DEF SecondStop, PhaseStates
<1> QED
  BY <1>2, <1>3, <1>4, <1>5, <1>6, <1>7, <1>8, <1>9 DEF Restart

-----------------------------------------------------------------------------
(* Leases *)

\* A restart that has cleared Busy goes on to Stop, and nobody forgets that it was
\* called; what a restart does to one object leaves the leases of others alone.
LEMMA UntouchedStep ==
    ASSUME HealingTypeOK, NEW j \in Instances, ~Touched(j)', NEW i \in Instances,
           UNCHANGED RequestVars,
           \/ ProcessDies(i) \/ ProcessLoads(i) \/ BecomesReady(i)
           \/ CheckHealth(i) \/ Restart(i)
    PROVE  ~Touched(j) /\ busy'[j] = busy[j]
<1> USE DEF Touched, HealingTypeOK, TypeOK
<1>1. CASE ProcessDies(i) \/ ProcessLoads(i) \/ BecomesReady(i)
  BY <1>1 DEF ProcessDies, ProcessLoads, BecomesReady, vars
<1>2. CASE CheckHealth(i)
  BY <1>2 DEF CheckHealth, vars
<1>3. CASE RestartRelease(i) \/ SecondRelease(i)
  BY <1>3 DEF RestartRelease, SecondRelease, ClearBusy, Release
<1>4. CASE RestartStop(i)
  BY <1>4 DEF RestartStop, vars
<1>5. ASSUME NEW k \in Instances, RestartStart(i, k)
      PROVE  ~Touched(j) /\ busy'[j] = busy[j]
  BY <1>5 DEF RestartStart
<1>6. CASE RestartFails(i) \/ SecondStop(i)
  BY <1>6 DEF RestartFails, SecondStop, vars
<1> QED
  BY <1>1, <1>2, <1>3, <1>4, <1>5, <1>6 DEF Restart

-----------------------------------------------------------------------------
(* Invariance *)

\* A restart leaves everything CoreInv speaks of alone, and the leases of objects
\* that no restart has touched.
LEMMA HealingInvStep == HealingInv /\ [HealingNext]_healingVars => HealingInv'
<1> SUFFICES ASSUME HealingInv, [HealingNext]_healingVars
             PROVE  HealingInv'
  OBVIOUS
<1>1. CoreInv /\ HealingTypeOK /\ TypeOK /\ LocalState
  BY DEF HealingInv, HealingTypeOK, CoreInv
<1>2. \A j \in Instances : Touched(j) \/ LeasedOnce(j)
  BY DEF HealingInv, LeaseUntilRestart, Touched
<1>3. CASE [Next]_vars /\ UNCHANGED healthVars
  <2>1. CoreInv' /\ TypeOK'
    BY <1>1, <1>3, CoreStep DEF CoreInv
  <2>2. Members' = Members
    BY <1>3, PoolFrame DEF Members
  <2>3. HealingTypeOK'
    BY <1>1, <1>3, <2>1, <2>2 DEF HealingTypeOK
  <2>4. \A j \in Instances : Touched(j)' <=> Touched(j)
    BY <1>3 DEF Touched
  <2>5. \A j \in Instances : Touched(j)' \/ LeasedOnce(j)'
    BY <1>1, <1>2, <1>3, <2>4, LeaseStep
  <2> QED
    BY <2>1, <2>3, <2>5 DEF HealingInv, LeaseUntilRestart, Touched
<1>4. ASSUME UNCHANGED RequestVars,
             NEW i \in Instances,
             \/ ProcessDies(i) \/ ProcessLoads(i) \/ BecomesReady(i)
             \/ CheckHealth(i) \/ Restart(i)
      PROVE  HealingInv'
  <2>1. HealingTypeOK' /\ TypeOK'
    BY <1>1, <1>4, HealingTypeStep DEF HealingTypeOK
  <2>2. (SendNeverBlocks /\ OnePlace /\ LocalState /\ MutexInsideLease)'
    BY <1>1, <1>4
       DEF CoreInv, RequestVars, SendNeverBlocks, InService, OnePlace, LocalState,
           MutexInsideLease
  <2>3. ASSUME NEW j \in Instances, ~Touched(j)'
        PROVE  LeasedOnce(j)'
    <3>1. ~Touched(j) /\ busy'[j] = busy[j]
      BY <1>1, <1>4, <2>3, UntouchedStep
    <3> QED
      BY <1>2, <1>4, <3>1 DEF LeasedOnce, RequestVars
  <2> QED
    BY <2>1, <2>2, <2>3 DEF HealingInv, CoreInv, LeaseUntilRestart, Touched
<1> QED
  BY <1>3, <1>4, HealingFrame

\* What HealingInv says holds whatever processes and the health checker do.
THEOREM HealingInvariance == HealingSpec => []HealingInv
<1>1. HealingInit => HealingInv
  <2>1. HealingInit => LeaseUntilRestart
    BY ServingAssumption
       DEF HealingInit, Init, PoolInit, LeaseUntilRestart, LeasedOnce
  <2> QED
    BY <2>1, CoreInit, HealingTypeInit DEF HealingInit, HealingInv
<1> QED
  BY <1>1, HealingInvStep, PTL DEF HealingSpec

\* Every variable keeps its type; stopped objects have no process and no object
\* that was ever started or restarted leaves the pool.
THEOREM HealingTypeCorrect == HealingSpec => []HealingTypeOK
<1>1. HealingInv => HealingTypeOK
  BY DEF HealingInv
<1> QED
  BY <1>1, HealingInvariance, PTL

\* No send of a response ever blocks, also of a batch whose instance is restarted
\* under it, or that shares it with another batch (scheduler.go:172, 193, 233).
THEOREM ResponsesNeverBlockInRestarts == HealingSpec => []SendNeverBlocks
<1>1. HealingInv => SendNeverBlocks
  BY DEF HealingInv, CoreInv
<1> QED
  BY <1>1, HealingInvariance, PTL

\* An instance that several batches and streams have at once is used by one of them
\* at a time (runner.go:187, 261; scheduler.go:233).
THEOREM CriticalSectionsInRestarts == HealingSpec => []MutexInsideLease
<1>1. HealingInv => MutexInsideLease
  BY DEF HealingInv, CoreInv
<1> QED
  BY <1>1, HealingInvariance, PTL

\* An object no restart has touched is leased to one user at most and busy just then,
\* also a new one on the port of an object that still has users (scheduler.go:233, 265).
THEOREM LeasesAreExclusiveUntilRestart == HealingSpec => []LeaseUntilRestart
<1>1. HealingInv => LeaseUntilRestart
  BY DEF HealingInv
<1> QED
  BY <1>1, HealingInvariance, PTL

\* A request is in one place at a time, also while its instance is restarted or is
\* shared with another batch.
THEOREM RequestsInOnePlaceInRestarts == HealingSpec => []OnePlace
<1>1. HealingInv => OnePlace
  BY DEF HealingInv, CoreInv
<1> QED
  BY <1>1, HealingInvariance, PTL

-----------------------------------------------------------------------------
(* Pools, requests and the service *)

\* A restart adds the new object to the pool of the model it was started for.
LEMMA PoolsHealingStep ==
    ASSUME HealingInv, PoolsInv, [HealingNext]_healingVars
    PROVE  PoolsInv'
<1>1. CASE [Next]_vars
  BY <1>1, PoolsStep DEF HealingInv
<1>2. ASSUME UNCHANGED RequestVars,
             NEW i \in Instances,
             \/ ProcessDies(i) \/ ProcessLoads(i) \/ BecomesReady(i)
             \/ CheckHealth(i) \/ Restart(i)
      PROVE  PoolsInv'
  <2>1. LeasedFromRightPool'
    BY <1>2 DEF PoolsInv, LeasedFromRightPool, PoolAsked, RequestVars, PoolFor
  <2>2. CASE pool' = pool
    BY <2>1, <2>2 DEF PoolsInv, OwnPools
  <2>3. ASSUME NEW j \in Instances, RestartStart(i, j)
        PROVE  OwnPools'
    <3>1. /\ InstModel[i] \in Models /\ InstModel[j] = InstModel[i]
          /\ pool \in [Models -> Seq(Instances)]
          /\ pool' = [pool EXCEPT ![InstModel[i]] = Append(@, j)]
      BY <2>3, PoolAssumption DEF RestartStart, HealingInv, CoreInv, TypeOK
    <3>2. ASSUME NEW m \in Models, NEW n \in DOMAIN pool'[m]
          PROVE  InstModel[pool'[m][n]] = m
      <4>1. CASE m # InstModel[i]
        BY <3>1, <3>2, <4>1 DEF PoolsInv, OwnPools
      <4>2. CASE m = InstModel[i]
        <5>1. pool[m] \in Seq(Instances) /\ pool'[m] = Append(pool[m], j)
          BY <3>1, <4>2
        <5>2. pool'[m][n] = j \/ (n \in DOMAIN pool[m] /\ pool'[m][n] = pool[m][n])
          BY <3>2, <5>1
        <5> QED
          BY <3>1, <4>2, <5>2 DEF PoolsInv, OwnPools
      <4> QED
        BY <4>1, <4>2
    <3> QED
      BY <3>2 DEF OwnPools
  <2>4. pool' = pool \/ \E j \in Instances : RestartStart(i, j)
    BY <1>2 DEF ProcessDies, ProcessLoads, BecomesReady, CheckHealth, Restart, vars,
                RestartRelease, RestartStop, RestartFails, SecondRelease, SecondStop,
                ClearBusy, Release
  <2> QED
    BY <2>1, <2>2, <2>3, <2>4 DEF PoolsInv
<1> QED
  BY <1>1, <1>2, HealingFrame

\* Every batch and every stream has an object of the model it is to have, also one that
\* a restart has added to the pool (scheduler.go:265, model_pool.go:42-64).
THEOREM LeasesFromRightPoolInRestarts == HealingSpec => []LeasedFromRightPool
<1>1. HealingInit => PoolsInv
  BY PoolsInit DEF HealingInit
<1>2. HealingInv /\ PoolsInv /\ [HealingNext]_healingVars => PoolsInv'
  BY PoolsHealingStep
<1>3. PoolsInv => LeasedFromRightPool
  BY DEF PoolsInv
<1> QED
  BY <1>1, <1>2, <1>3, HealingInvariance, PTL DEF HealingSpec

\* A restart under a batch loses none of its requests: each stays in service until its
\* response is in RespCh or its handler has returned it (scheduler.go:233, 184-196).
THEOREM NothingLostInRestarts == HealingSpec => NothingAcceptedIsLost
<1>1. HealingInv /\ [HealingNext]_healingVars =>
         [\A r \in Requests :
             InService(r) \/ chan[r] # "empty" =>
                 \/ InService(r)'
                 \/ chan'[r] # "empty"
                 \/ client'[r] \in {"answered", "failed"}]_vars
  <2> SUFFICES ASSUME HealingInv, [HealingNext]_healingVars,
                      NEW r \in Requests, InService(r) \/ chan[r] # "empty"
               PROVE  \/ InService(r)'
                      \/ chan'[r] # "empty"
                      \/ client'[r] \in {"answered", "failed"}
    OBVIOUS
  <2>1. CASE [Next]_vars
    BY <2>1, NothingLostStep DEF HealingInv
  <2>2. CASE UNCHANGED RequestVars
    BY <2>2 DEF RequestVars, InService
  <2> QED
    BY <2>1, <2>2, HealingFrame
<1> QED
  BY <1>1, HealingInvariance, PTL DEF HealingSpec, NothingAcceptedIsLost

\* With restarts too, the serving path implements RequestService.
THEOREM RefinementInRestarts == HealingSpec => ImplementsService
<1>1. HealingInit => Service!ServiceInit
  BY RefinementInit DEF HealingInit
<1>2. HealingInv /\ [HealingNext]_healingVars => [Service!ServiceNext]_(Service!abstractVars)
  <2> SUFFICES ASSUME HealingInv, [HealingNext]_healingVars
               PROVE  [Service!ServiceNext]_(Service!abstractVars)
    OBVIOUS
  <2>1. CASE [Next]_vars
    BY <2>1, RefinementStep DEF HealingInv
  <2>2. CASE UNCHANGED RequestVars
    BY <2>2 DEF RequestVars, Service!abstractVars
  <2> QED
    BY <2>1, <2>2, HealingFrame
<1> QED
  BY <1>1, <1>2, HealingInvariance, PTL DEF HealingSpec, ImplementsService, Service!ServiceSpec
=============================================================================
