---------------------------- MODULE Serving_proofs ----------------------------
(***************************************************************************)
(* Proofs about Serving, for every set of requests, streams, models and    *)
(* instances and every queue and batch size.  The inductive invariant is   *)
(* the conjunction of the invariants that TLC checks on a small instance.  *)
(* CoreInv is the part that does not depend on leases being exclusive, for *)
(* use where they are not (SelfHealing_proofs).                            *)
(***************************************************************************)
EXTENDS Serving, QueueLemmas

CoreInv == /\ TypeOK
           /\ SendNeverBlocks
           /\ OnePlace
           /\ LocalState
           /\ MutexInsideLease

IInv == CoreInv /\ ExclusiveLease

-----------------------------------------------------------------------------
(* Type correctness *)

USE DEF BatcherTypeOK, PoolTypeOK, batcherVars, poolVars, handlerVars, loopVars,
        streamVars

\* The initial state is well typed.
LEMMA TypeInit == Init => TypeOK
<1> SUFFICES ASSUME Init PROVE TypeOK
  OBVIOUS
<1>1. BatcherTypeOK /\ PoolTypeOK
  <2>1. Len(queue) <= QueueSize
    BY BatcherAssumption, QueueLengths DEF Init, BatcherInit
  <2> QED
    BY <2>1, PoolAssumption, EmptySeq DEF Init, BatcherInit, PoolInit
<1>2. name \in [Requests -> Names] /\ batch \in Seq(Requests) /\ Len(batch) <= QueueSize
  BY PoolAssumption, BatcherAssumption, EmptySeq DEF Init
<1>3. /\ client \in [Requests -> ClientStates]
      /\ chan \in [Requests -> ChanStates]
      /\ worker \in [Requests -> WorkerStates]
      /\ loop \in LoopStates
      /\ phase \in PhaseStates
  BY DEF Init, ClientStates, ChanStates, WorkerStates, LoopStates, PhaseStates
<1>4. /\ running \in SUBSET Batches
      /\ mu \in [Instances -> Requests \cup Streams \cup {Unlocked}]
      /\ stream \in [Streams -> StreamStates]
      /\ uses \in [Streams -> Instances \cup {NoInstance}]
  BY DEF Init, StreamStates
<1> QED
  BY <1>1, <1>2, <1>3, <1>4 DEF TypeOK

\* A batch has an instance and consists of requests.
LEMMA BatchTypes ==
    ASSUME TypeOK, NEW b \in running
    PROVE  b.inst \in Instances /\ b.reqs \subseteq Requests
  BY DEF TypeOK, Batches

\* A release needs an instance to release: a finished stream has one.
LEMMA TypeStep == TypeOK /\ LocalState /\ [Next]_vars => TypeOK'
<1> SUFFICES ASSUME TypeOK, LocalState, [Next]_vars
             PROVE  TypeOK'
  OBVIOUS
<1> USE DEF TypeOK, ClientStates, ChanStates, LoopStates, WorkerStates, StreamStates,
            PhaseStates, Batches
<1>1. CASE Clock
  BY <1>1 DEF Clock, MaxWaitElapses
<1>2. ASSUME NEW r \in Requests, NEW n \in Names, Submit(r, n)
      PROVE  TypeOK'
  <2>1. CASE Len(queue) >= QueueSize
    BY <1>2, <2>1 DEF Submit, Add
  <2>2. CASE ~(Len(queue) >= QueueSize)
    <3>1. /\ queue' \in Seq(Requests) /\ Len(queue') = Len(queue) + 1
          /\ Len(queue) \in Nat
      BY <1>2, <2>2, AppendMembers, QueueLengths DEF Submit, Add
    <3>2. BatcherTypeOK'
      BY <1>2, <2>2, <3>1, BatcherAssumption DEF Submit, Add
    <3> QED
      BY <1>2, <3>2 DEF Submit
  <2> QED
    BY <2>1, <2>2
<1>3. ASSUME NEW r \in Requests, Receive(r) \/ Timeout(r)
      PROVE  TypeOK'
  BY <1>3 DEF Receive, Timeout
<1>4. CASE Flush
  <2>1. BatcherTypeOK'
    <3>1. Len(queue') <= QueueSize
      BY <1>4, QueueLengths, BatcherAssumption DEF Flush, TakeAll
    <3> QED
      BY <1>4, <3>1, EmptySeq DEF Flush, TakeAll
  <2> QED
    BY <1>4, <2>1 DEF Flush, TakeAll
<1>5. ASSUME NEW i \in Instances, Dispatch(i)
      PROVE  TypeOK'
  <2>1. Head(batch) \in Requests /\ Range(batch) \subseteq Requests
    BY <1>5, TailMembers, MembersInSet DEF Dispatch, LocalState
  <2>2. batch' \in Seq(Requests) /\ Len(batch') <= QueueSize
    BY <1>5, EmptySeq, BatcherAssumption DEF Dispatch
  <2>3. running' \subseteq Batches
    BY <1>5, <2>1 DEF Dispatch
  <2> QED
    BY <1>5, <2>2, <2>3 DEF Dispatch, GetFree
<1>6. CASE DispatchNone \/ LoopExit
  BY <1>6 DEF DispatchNone, LoopExit
<1>7. CASE Reject
  <2>1. batch' \in Seq(Requests) /\ Len(batch') <= QueueSize
    BY <1>7, TailMembers, QueueLengths, BatcherAssumption DEF Reject, LocalState
  <2> QED
    BY <1>7, <2>1 DEF Reject
<1>8. ASSUME NEW b \in running, NEW r \in b.reqs,
             \/ LockInstance(b, r)
             \/ \E outcome \in {"ok", "error"} : Finish(b, r, outcome)
      PROVE  TypeOK'
  <2>1. b.inst \in Instances /\ r \in Requests
    BY BatchTypes
  <2>2. CASE LockInstance(b, r)
    BY <2>1, <2>2 DEF LockInstance
  <2>3. ASSUME NEW outcome \in {"ok", "error"}, Finish(b, r, outcome)
        PROVE  TypeOK'
    BY <2>1, <2>3 DEF Finish
  <2> QED
    BY <1>8, <2>2, <2>3
<1>9. ASSUME NEW r \in Requests, Send(r)
      PROVE  TypeOK'
  BY <1>9 DEF Send
<1>10. ASSUME NEW b \in running, EndBatch(b)
       PROVE  TypeOK'
  BY <1>10 DEF EndBatch, Release
<1>11. ASSUME NEW s \in Streams, NEW i \in Instances, StreamAcquire(s, i)
       PROVE  TypeOK'
  BY <1>11 DEF StreamAcquire, GetFree
<1>12. ASSUME NEW s \in Streams, StreamLock(s) \/ StreamStall(s) \/ StreamEnd(s) \/ StreamRelease(s)
       PROVE  TypeOK'
  BY <1>12 DEF StreamLock, StreamStall, StreamEnd, StreamRelease, Release
<1>13. CASE Stop \/ Exit
  BY <1>13 DEF Stop, Exit
<1>14. CASE UNCHANGED vars
  BY <1>14 DEF vars
<1> QED
  BY <1>1, <1>2, <1>3, <1>4, <1>5, <1>6, <1>7, <1>8, <1>9, <1>10, <1>11, <1>12, <1>13,
     <1>14, PoolAssumption
     DEF Next, Handlers, ChatCompletion, Completion, SchedulerLoop, Workers,
         StreamHandlers, Shutdown, Terminated

\* Dispatch and Reject empty the loop's batch when they leave it; a worker exists
\* from its dispatch on.
LEMMA LocalStateStep ==
    TypeOK /\ SendNeverBlocks /\ OnePlace /\ LocalState /\ [Next]_vars => LocalState'
<1> SUFFICES ASSUME TypeOK, SendNeverBlocks, OnePlace, LocalState, [Next]_vars
             PROVE  LocalState'
  OBVIOUS
<1> USE DEF TypeOK, SendNeverBlocks, InService, OnePlace, LocalState
<1>1. CASE Clock
  BY <1>1 DEF Clock, MaxWaitElapses
<1>2. ASSUME NEW r \in Requests, NEW n \in Names, Submit(r, n)
      PROVE  LocalState'
  BY <1>2, AppendMembers DEF Submit, Add
<1>3. ASSUME NEW r \in Requests, Receive(r) \/ Timeout(r)
      PROVE  LocalState'
  BY <1>3 DEF Receive, Timeout
<1>4. CASE Flush
  BY <1>4, NoMembers DEF Flush, TakeAll, MustFlush
<1>5. ASSUME NEW i \in Instances, Dispatch(i)
      PROVE  LocalState'
  <2>1. PICK c : /\ c.first = Head(batch) /\ c.inst = i /\ c.reqs = Range(batch)
                 /\ running' = running \cup {c}
    BY <1>5 DEF Dispatch
  <2>2. worker' = [q \in Requests |-> IF q \in Range(batch) THEN "start" ELSE worker[q]]
    BY <1>5 DEF Dispatch
  <2>3. Range(batch) \subseteq Requests /\ Head(batch) \in Range(batch)
    BY <1>5, MembersInSet, TailMembers DEF Dispatch
  <2>4. \A b \in running' : b.first \in b.reqs /\ \A r \in b.reqs : worker'[r] # "none"
    BY <2>1, <2>2, <2>3, BatchTypes
  <2>5. batch' = <<>> /\ loop' = "select" /\ UNCHANGED <<client, chan, stream, uses>>
    BY <1>5 DEF Dispatch
  <2>6. ASSUME NEW r \in Requests, client[r] = "idle"
        PROVE  worker'[r] = "none" /\ chan[r] = "empty"
    BY <2>2, <2>6
  <2> QED
    BY <2>4, <2>5, <2>6
<1>6. CASE DispatchNone \/ LoopExit
  BY <1>6 DEF DispatchNone, LoopExit
<1>7. CASE Reject
  BY <1>7, TailMembers, NoMembers DEF Reject
<1>8. ASSUME NEW b \in running, NEW r \in b.reqs, LockInstance(b, r)
      PROVE  LocalState'
  BY <1>8, BatchTypes DEF LockInstance
<1>9. ASSUME NEW b \in running, NEW r \in b.reqs, NEW outcome \in {"ok", "error"},
             Finish(b, r, outcome)
      PROVE  LocalState'
  BY <1>9, BatchTypes DEF Finish
<1>10. ASSUME NEW r \in Requests, Send(r)
       PROVE  LocalState'
  BY <1>10 DEF Send
<1>11. ASSUME NEW b \in running, EndBatch(b)
       PROVE  LocalState'
  BY <1>11, BatchTypes DEF EndBatch, Release
<1>12. ASSUME NEW s \in Streams, NEW i \in Instances, StreamAcquire(s, i)
       PROVE  LocalState'
  BY <1>12, ServingAssumption DEF StreamAcquire, GetFree
<1>13. ASSUME NEW s \in Streams, StreamLock(s) \/ StreamStall(s) \/ StreamEnd(s) \/ StreamRelease(s)
       PROVE  LocalState'
  BY <1>13 DEF StreamLock, StreamStall, StreamEnd, StreamRelease, Release
<1>14. CASE Stop \/ Exit
  BY <1>14 DEF Stop, Exit
<1>15. CASE UNCHANGED vars
  BY <1>15 DEF vars
<1> QED
  BY <1>1, <1>2, <1>3, <1>4, <1>5, <1>6, <1>7, <1>8, <1>9, <1>10, <1>11, <1>12, <1>13,
     <1>14, <1>15, PoolAssumption
     DEF Next, Handlers, ChatCompletion, Completion, SchedulerLoop, Workers,
         StreamHandlers, Shutdown, Terminated

\* A response goes out when the request leaves service: that a request is in one
\* place only is why nobody is left to send a second one.
LEMMA SendNeverBlocksStep ==
    TypeOK /\ SendNeverBlocks /\ OnePlace /\ LocalState /\ [Next]_vars => SendNeverBlocks'
<1> SUFFICES ASSUME TypeOK, SendNeverBlocks, OnePlace, LocalState, [Next]_vars
             PROVE  SendNeverBlocks'
  OBVIOUS
<1> USE DEF TypeOK, SendNeverBlocks, InService, OnePlace, LocalState
<1>1. CASE Clock
  BY <1>1 DEF Clock, MaxWaitElapses
<1>2. ASSUME NEW r \in Requests, NEW n \in Names, Submit(r, n)
      PROVE  SendNeverBlocks'
  BY <1>2, AppendMembers DEF Submit, Add
<1>3. ASSUME NEW r \in Requests, Receive(r) \/ Timeout(r)
      PROVE  SendNeverBlocks'
  BY <1>3 DEF Receive, Timeout
<1>4. CASE Flush
  BY <1>4, NoMembers DEF Flush, TakeAll, MustFlush
<1>5. ASSUME NEW i \in Instances, Dispatch(i)
      PROVE  SendNeverBlocks'
  BY <1>5, NoMembers DEF Dispatch, GetFree
<1>6. CASE DispatchNone \/ LoopExit
  BY <1>6 DEF DispatchNone, LoopExit
<1>7. CASE Reject
  BY <1>7, TailMembers, NoMembers DEF Reject
<1>8. ASSUME NEW b \in running, NEW r \in b.reqs, LockInstance(b, r)
      PROVE  SendNeverBlocks'
  BY <1>8, BatchTypes DEF LockInstance
<1>9. ASSUME NEW b \in running, NEW r \in b.reqs, NEW outcome \in {"ok", "error"},
             Finish(b, r, outcome)
      PROVE  SendNeverBlocks'
  BY <1>9, BatchTypes DEF Finish
<1>10. ASSUME NEW r \in Requests, Send(r)
       PROVE  SendNeverBlocks'
  BY <1>10 DEF Send
<1>11. ASSUME NEW b \in running, EndBatch(b)
       PROVE  SendNeverBlocks'
  BY <1>11, BatchTypes DEF EndBatch, Release
<1>12. ASSUME NEW s \in Streams, NEW i \in Instances, StreamAcquire(s, i)
       PROVE  SendNeverBlocks'
  BY <1>12, ServingAssumption DEF StreamAcquire, GetFree
<1>13. ASSUME NEW s \in Streams, StreamLock(s) \/ StreamStall(s) \/ StreamEnd(s) \/ StreamRelease(s)
       PROVE  SendNeverBlocks'
  BY <1>13 DEF StreamLock, StreamStall, StreamEnd, StreamRelease, Release
<1>14. CASE Stop \/ Exit
  BY <1>14 DEF Stop, Exit
<1>15. CASE UNCHANGED vars
  BY <1>15 DEF vars
<1> QED
  BY <1>1, <1>2, <1>3, <1>4, <1>5, <1>6, <1>7, <1>8, <1>9, <1>10, <1>11, <1>12, <1>13,
     <1>14, <1>15, PoolAssumption
     DEF Next, Handlers, ChatCompletion, Completion, SchedulerLoop, Workers,
         StreamHandlers, Shutdown, Terminated

\* A request enters the queue when nobody knows it, and every later move takes it
\* out of the place it was in.
LEMMA OnePlaceStep ==
    TypeOK /\ SendNeverBlocks /\ OnePlace /\ LocalState /\ [Next]_vars => OnePlace'
<1> SUFFICES ASSUME TypeOK, SendNeverBlocks, OnePlace, LocalState, [Next]_vars
             PROVE  OnePlace'
  OBVIOUS
<1> USE DEF TypeOK, SendNeverBlocks, InService, OnePlace, LocalState
<1>1. CASE Clock
  BY <1>1 DEF Clock, MaxWaitElapses
<1>2. ASSUME NEW r \in Requests, NEW n \in Names, Submit(r, n)
      PROVE  OnePlace'
  <2>1. UNCHANGED <<batch, running, worker>>
    BY <1>2 DEF Submit
  <2>2. CASE queue' = queue
    BY <2>1, <2>2
  <2>3. CASE queue' = Append(queue, r)
    <3>1. client[r] = "idle"
      BY <1>2 DEF Submit
    <3>2. worker[r] = "none" /\ r \notin Range(queue) \cup Range(batch)
      BY <3>1
    <3>3. IsInjective(queue') /\ Range(queue') = Range(queue) \cup {r}
      BY <2>3, <3>2, AppendMembers
    <3> QED
      BY <2>1, <3>2, <3>3
  <2> QED
    BY <1>2, <2>2, <2>3 DEF Submit, Add
<1>3. ASSUME NEW r \in Requests, Receive(r) \/ Timeout(r)
      PROVE  OnePlace'
  BY <1>3 DEF Receive, Timeout
<1>4. CASE Flush
  BY <1>4, NoMembers DEF Flush, TakeAll, MustFlush
<1>5. ASSUME NEW i \in Instances, Dispatch(i)
      PROVE  OnePlace'
  <2>1. PICK c : c.inst = i /\ c.reqs = Range(batch) /\ running' = running \cup {c}
    BY <1>5 DEF Dispatch
  <2>2. worker' = [q \in Requests |-> IF q \in Range(batch) THEN "start" ELSE worker[q]]
    BY <1>5 DEF Dispatch
  <2>3. Range(batch) \subseteq Requests /\ Range(queue) \subseteq Requests
    BY MembersInSet
  <2>4. batch' = <<>> /\ queue' = queue
    BY <1>5 DEF Dispatch
  <2>5. /\ IsInjective(queue') /\ IsInjective(batch')
        /\ Range(queue') \cap Range(batch') = {}
        /\ \A r \in Range(queue') \cup Range(batch') : worker'[r] = "none"
    BY <2>2, <2>3, <2>4, NoMembers
  <2>6. ASSUME NEW b \in running PROVE b.reqs \cap Range(batch) = {}
    BY <2>6
  <2>7. \A b, d \in running' : b.reqs \cap d.reqs # {} => b = d
    BY <2>1, <2>6
  <2>8. ASSUME NEW r \in Requests, worker'[r] \in {"start", "holding", "ok", "error"}
        PROVE  \E b \in running' : r \in b.reqs
    BY <2>1, <2>2, <2>8
  <2> QED
    BY <2>5, <2>7, <2>8
<1>6. CASE DispatchNone \/ LoopExit
  BY <1>6 DEF DispatchNone, LoopExit
<1>7. CASE Reject
  BY <1>7, TailMembers, NoMembers DEF Reject
<1>8. ASSUME NEW b \in running, NEW r \in b.reqs, LockInstance(b, r)
      PROVE  OnePlace'
  BY <1>8, BatchTypes DEF LockInstance
<1>9. ASSUME NEW b \in running, NEW r \in b.reqs, NEW outcome \in {"ok", "error"},
             Finish(b, r, outcome)
      PROVE  OnePlace'
  BY <1>9, BatchTypes DEF Finish
<1>10. ASSUME NEW r \in Requests, Send(r)
       PROVE  OnePlace'
  BY <1>10 DEF Send
<1>11. ASSUME NEW b \in running, EndBatch(b)
       PROVE  OnePlace'
  BY <1>11, BatchTypes DEF EndBatch, Release
<1>12. ASSUME NEW s \in Streams, NEW i \in Instances, StreamAcquire(s, i)
       PROVE  OnePlace'
  BY <1>12, ServingAssumption DEF StreamAcquire, GetFree
<1>13. ASSUME NEW s \in Streams, StreamLock(s) \/ StreamStall(s) \/ StreamEnd(s) \/ StreamRelease(s)
       PROVE  OnePlace'
  BY <1>13 DEF StreamLock, StreamStall, StreamEnd, StreamRelease, Release
<1>14. CASE Stop \/ Exit
  BY <1>14 DEF Stop, Exit
<1>15. CASE UNCHANGED vars
  BY <1>15 DEF vars
<1> QED
  BY <1>1, <1>2, <1>3, <1>4, <1>5, <1>6, <1>7, <1>8, <1>9, <1>10, <1>11, <1>12, <1>13,
     <1>14, <1>15, PoolAssumption
     DEF Next, Handlers, ChatCompletion, Completion, SchedulerLoop, Workers,
         StreamHandlers, Shutdown, Terminated

-----------------------------------------------------------------------------
(* Leases and critical sections *)

\* Only four actions give an instance to somebody or take it away.
LEMMA LeaseFrame ==
    ASSUME [Next]_vars
    PROVE  \/ UNCHANGED <<running, uses, busy>>
           \/ \E i \in Instances : Dispatch(i)
           \/ \E b \in running : EndBatch(b)
           \/ \E s \in Streams, i \in Instances : StreamAcquire(s, i)
           \/ \E s \in Streams : StreamRelease(s)
BY PoolAssumption
   DEF Next, Handlers, ChatCompletion, Completion, SchedulerLoop, Workers, StreamHandlers,
       Shutdown, Terminated, vars, Clock, Submit, Receive, Timeout, Flush, DispatchNone,
       Reject, LoopExit, LockInstance, Finish, Send, StreamLock, StreamStall, StreamEnd, Stop, Exit

\* GetFree finds an instance that is not busy, so nobody has it; whoever releases
\* an instance is the one who had it.
LEMMA LeaseStep ==
    ASSUME TypeOK, LocalState, NEW j \in Instances, LeasedOnce(j), [Next]_vars
    PROVE  LeasedOnce(j)'
<1> USE DEF TypeOK
<1>1. CASE UNCHANGED <<running, uses, busy>>
  BY <1>1 DEF LeasedOnce
<1>2. ASSUME NEW i \in Instances, Dispatch(i)
      PROVE  LeasedOnce(j)'
  <2>1. PICK c : c.inst = i /\ running' = running \cup {c}
    BY <1>2 DEF Dispatch
  <2>2. ~busy[i] /\ busy' = [busy EXCEPT ![i] = TRUE] /\ uses' = uses
    BY <1>2 DEF Dispatch, GetFree, FirstFree
  <2> QED
    BY <2>1, <2>2 DEF LeasedOnce
<1>3. ASSUME NEW b \in running, EndBatch(b)
      PROVE  LeasedOnce(j)'
  <2>1. /\ running' = running \ {b} /\ uses' = uses
        /\ busy' = [busy EXCEPT ![b.inst] = FALSE]
    BY <1>3, BatchTypes, PoolAssumption DEF EndBatch, Release
  <2>2. b.inst \in Instances
    BY BatchTypes
  <2> QED
    BY <2>1, <2>2 DEF LeasedOnce
<1>4. ASSUME NEW s \in Streams, NEW i \in Instances, StreamAcquire(s, i)
      PROVE  LeasedOnce(j)'
  <2>1. /\ ~busy[i] /\ busy' = [busy EXCEPT ![i] = TRUE] /\ running' = running
        /\ uses' = [uses EXCEPT ![s] = i] /\ stream[s] = "idle"
    BY <1>4 DEF StreamAcquire, GetFree, FirstFree
  <2>2. uses[s] # j
    BY <2>1, ServingAssumption DEF LocalState
  <2> QED
    BY <2>1, <2>2 DEF LeasedOnce
<1>5. ASSUME NEW s \in Streams, StreamRelease(s)
      PROVE  LeasedOnce(j)'
  <2>1. /\ stream[s] = "finished"
        /\ uses' = [uses EXCEPT ![s] = NoInstance] /\ running' = running
    BY <1>5 DEF StreamRelease
  <2>2. uses[s] \in Instances /\ NoInstance # j
    BY <2>1, ServingAssumption DEF LocalState
  <2>3. busy' = [busy EXCEPT ![uses[s]] = FALSE]
    BY <1>5, <2>2, PoolAssumption DEF StreamRelease, Release
  <2> QED
    BY <2>1, <2>2, <2>3 DEF LeasedOnce
<1> QED
  BY <1>1, <1>2, <1>3, <1>4, <1>5, LeaseFrame

\* A worker holds the instance of the one batch that it belongs to.
LEMMA MutexStep ==
    CoreInv /\ [Next]_vars => MutexInsideLease'
<1> SUFFICES ASSUME CoreInv, [Next]_vars
             PROVE  MutexInsideLease'
  OBVIOUS
<1> USE DEF CoreInv, TypeOK
<1>1. CASE UNCHANGED <<mu, running, worker, uses, stream>>
  BY <1>1 DEF MutexInsideLease
<1>2. ASSUME NEW i \in Instances, Dispatch(i)
      PROVE  MutexInsideLease'
  <2>1. PICK c : c.reqs = Range(batch) /\ running' = running \cup {c}
    BY <1>2 DEF Dispatch
  <2>2. /\ worker' = [q \in Requests |-> IF q \in Range(batch) THEN "start" ELSE worker[q]]
        /\ UNCHANGED <<mu, uses, stream>>
    BY <1>2 DEF Dispatch
  <2>3. Range(batch) \subseteq Requests
    BY MembersInSet
  <2>4. \A r \in Requests : worker'[r] = "holding" <=> worker[r] = "holding"
    BY <2>2 DEF OnePlace
  <2>5. \A r \in Requests : worker'[r] = "holding" => r \notin c.reqs
    BY <2>1, <2>2
  <2> QED
    BY <2>1, <2>2, <2>4, <2>5 DEF MutexInsideLease
<1>3. ASSUME NEW b \in running, NEW r \in b.reqs, LockInstance(b, r)
      PROVE  MutexInsideLease'
  <2>1. b.inst \in Instances /\ r \in Requests
    BY BatchTypes
  <2>2. /\ worker[r] = "start" /\ mu[b.inst] = Unlocked
        /\ mu' = [mu EXCEPT ![b.inst] = r] /\ worker' = [worker EXCEPT ![r] = "holding"]
        /\ UNCHANGED <<running, uses, stream>>
    BY <1>3 DEF LockInstance
  <2>3. \A c \in running : r \in c.reqs => c = b
    BY DEF OnePlace
  <2>4. \A q \in Requests : q # r =>
            ~ \E c \in running : c.inst = b.inst /\ q \in c.reqs /\ worker[q] = "holding"
    <3>1. \A q \in Requests : mu[b.inst] # q
      BY <2>2, ServingAssumption
    <3> QED
      BY <2>1, <3>1 DEF MutexInsideLease
  <2>5. \A s \in Streams : ~(uses[s] = b.inst /\ stream[s] \in {"streaming", "stalled"})
    <3>1. \A s \in Streams : mu[b.inst] # s
      BY <2>2, ServingAssumption
    <3> QED
      BY <2>1, <3>1 DEF MutexInsideLease
  <2>6. ASSUME NEW i \in Instances, NEW q \in Requests
        PROVE  mu'[i] = q <=> \E c \in running : /\ c.inst = i /\ q \in c.reqs
                                                 /\ worker'[q] = "holding"
    BY <2>1, <2>2, <2>3, <2>4, <2>6 DEF MutexInsideLease
  <2>7. ASSUME NEW i \in Instances, NEW s \in Streams
        PROVE  mu'[i] = s <=> uses[s] = i /\ stream[s] \in {"streaming", "stalled"}
    BY <2>1, <2>2, <2>5, <2>7, ServingAssumption DEF MutexInsideLease
  <2> QED
    BY <2>2, <2>6, <2>7 DEF MutexInsideLease
<1>4. ASSUME NEW b \in running, NEW r \in b.reqs, NEW outcome \in {"ok", "error"},
             Finish(b, r, outcome)
      PROVE  MutexInsideLease'
  <2>1. b.inst \in Instances /\ r \in Requests
    BY BatchTypes
  <2>2. /\ worker[r] = "holding"
        /\ mu' = [mu EXCEPT ![b.inst] = Unlocked] /\ worker' = [worker EXCEPT ![r] = outcome]
        /\ UNCHANGED <<running, uses, stream>>
    BY <1>4 DEF Finish
  <2>3. mu[b.inst] = r
    BY <2>1, <2>2 DEF MutexInsideLease
  <2>4. \A c \in running : r \in c.reqs => c = b
    BY DEF OnePlace
  <2>5. \A q \in Requests : q # r =>
            ~ \E c \in running : c.inst = b.inst /\ q \in c.reqs /\ worker[q] = "holding"
    BY <2>1, <2>3 DEF MutexInsideLease
  <2>6. \A s \in Streams : ~(uses[s] = b.inst /\ stream[s] \in {"streaming", "stalled"})
    BY <2>1, <2>3, ServingAssumption DEF MutexInsideLease
  <2>7. ASSUME NEW i \in Instances, NEW q \in Requests
        PROVE  mu'[i] = q <=> \E c \in running : /\ c.inst = i /\ q \in c.reqs
                                                 /\ worker'[q] = "holding"
    <3>1. CASE q = r
      <4>1. worker'[q] # "holding"
        BY <2>1, <2>2, <3>1
      <4>2. i # b.inst => mu[i] # r
        BY <2>1, <2>2, <2>4 DEF MutexInsideLease
      <4> QED
        BY <2>1, <2>2, <3>1, <4>1, <4>2, ServingAssumption
    <3>2. CASE q # r
      <4>1. worker'[q] = worker[q]
        BY <2>2, <3>2
      <4>2. CASE i = b.inst
        BY <2>1, <2>2, <2>5, <3>2, <4>1, <4>2, ServingAssumption
      <4>3. CASE i # b.inst
        BY <2>2, <4>1, <4>3 DEF MutexInsideLease
      <4> QED
        BY <4>2, <4>3
    <3> QED
      BY <3>1, <3>2
  <2>8. ASSUME NEW i \in Instances, NEW s \in Streams
        PROVE  mu'[i] = s <=> uses[s] = i /\ stream[s] \in {"streaming", "stalled"}
    BY <2>1, <2>2, <2>3, <2>6, <2>8, ServingAssumption DEF MutexInsideLease
  <2> QED
    BY <2>2, <2>7, <2>8 DEF MutexInsideLease
<1>5. ASSUME NEW r \in Requests, Send(r)
      PROVE  MutexInsideLease'
  BY <1>5 DEF Send, MutexInsideLease
<1>6. ASSUME NEW b \in running, EndBatch(b)
      PROVE  MutexInsideLease'
  BY <1>6 DEF EndBatch, MutexInsideLease
<1>7. ASSUME NEW s \in Streams, NEW i \in Instances, StreamAcquire(s, i)
      PROVE  MutexInsideLease'
  <2>1. /\ stream[s] = "idle" /\ stream' = [stream EXCEPT ![s] = "acquired"]
        /\ uses' = [uses EXCEPT ![s] = i]
        /\ UNCHANGED <<mu, running, worker>>
    BY <1>7 DEF StreamAcquire
  <2>2. \A j \in Instances : mu[j] # s
    BY <2>1 DEF MutexInsideLease
  <2> QED
    BY <2>1, <2>2 DEF MutexInsideLease
<1>8. ASSUME NEW s \in Streams, StreamLock(s)
      PROVE  MutexInsideLease'
  <2>1. /\ stream[s] = "acquired" /\ mu[uses[s]] = Unlocked
        /\ stream' = [stream EXCEPT ![s] = "streaming"] /\ mu' = [mu EXCEPT ![uses[s]] = s]
        /\ UNCHANGED <<running, worker, uses>>
    BY <1>8 DEF StreamLock
  <2>2. uses[s] \in Instances
    BY <2>1 DEF LocalState
  <2>3. ASSUME NEW r \in Requests
        PROVE  ~ \E b \in running : b.inst = uses[s] /\ r \in b.reqs /\ worker[r] = "holding"
    <3>1. mu[uses[s]] # r
      BY <2>1, <2>3, ServingAssumption
    <3> QED
      BY <2>2, <2>3, <3>1 DEF MutexInsideLease
  <2>4. \A t \in Streams : ~(uses[t] = uses[s] /\ stream[t] \in {"streaming", "stalled"})
    BY <2>1, <2>2, ServingAssumption DEF MutexInsideLease
  <2>5. ASSUME NEW i \in Instances, NEW r \in Requests
        PROVE  mu'[i] = r <=> \E b \in running : /\ b.inst = i /\ r \in b.reqs
                                                 /\ worker[r] = "holding"
    BY <2>1, <2>2, <2>3, <2>5, ServingAssumption DEF MutexInsideLease
  <2>6. ASSUME NEW i \in Instances, NEW t \in Streams
        PROVE  mu'[i] = t <=> uses[t] = i /\ stream'[t] \in {"streaming", "stalled"}
    BY <2>1, <2>2, <2>4, <2>6, ServingAssumption DEF MutexInsideLease
  <2> QED
    BY <2>1, <2>5, <2>6 DEF MutexInsideLease
<1>9. ASSUME NEW s \in Streams, StreamEnd(s)
      PROVE  MutexInsideLease'
  <2>1. /\ stream[s] \in {"streaming", "stalled"}
        /\ stream' = [stream EXCEPT ![s] = "finished"]
        /\ mu' = [mu EXCEPT ![uses[s]] = Unlocked]
        /\ UNCHANGED <<running, worker, uses>>
    BY <1>9 DEF StreamEnd
  <2>2. uses[s] \in Instances /\ mu[uses[s]] = s
    BY <2>1 DEF LocalState, MutexInsideLease
  <2>3. ASSUME NEW i \in Instances, NEW r \in Requests
        PROVE  mu'[i] = r <=> \E b \in running : /\ b.inst = i /\ r \in b.reqs
                                                 /\ worker[r] = "holding"
    BY <2>1, <2>2, <2>3, ServingAssumption DEF MutexInsideLease
  <2>4. ASSUME NEW i \in Instances, NEW t \in Streams
        PROVE  mu'[i] = t <=> uses[t] = i /\ stream'[t] \in {"streaming", "stalled"}
    BY <2>1, <2>2, <2>4, ServingAssumption DEF MutexInsideLease
  <2> QED
    BY <2>1, <2>3, <2>4 DEF MutexInsideLease
<1>10. ASSUME NEW s \in Streams, StreamRelease(s)
       PROVE  MutexInsideLease'
  <2>1. /\ stream[s] = "finished"
        /\ stream' = [stream EXCEPT ![s] = "idle"]
        /\ uses' = [uses EXCEPT ![s] = NoInstance]
        /\ UNCHANGED <<mu, running, worker>>
    BY <1>10 DEF StreamRelease
  <2> QED
    BY <2>1 DEF MutexInsideLease
<1>11. ASSUME NEW s \in Streams, StreamStall(s)
       PROVE  MutexInsideLease'
  <2>1. /\ stream[s] = "streaming"
        /\ stream' = [stream EXCEPT ![s] = "stalled"]
        /\ UNCHANGED <<mu, running, worker, uses>>
    BY <1>11 DEF StreamStall
  <2> QED
    BY <2>1 DEF MutexInsideLease
<1>12. \/ UNCHANGED <<mu, running, worker, uses, stream>>
       \/ \E i \in Instances : Dispatch(i)
       \/ \E b \in running : \E r \in b.reqs :
             \/ LockInstance(b, r)
             \/ \E outcome \in {"ok", "error"} : Finish(b, r, outcome)
       \/ \E r \in Requests : Send(r)
       \/ \E b \in running : EndBatch(b)
       \/ \E s \in Streams : \/ \E i \in Instances : StreamAcquire(s, i)
                             \/ StreamLock(s) \/ StreamStall(s) \/ StreamEnd(s) \/ StreamRelease(s)
  BY PoolAssumption
     DEF Next, Handlers, ChatCompletion, Completion, SchedulerLoop, Workers,
         StreamHandlers, Shutdown, Terminated, vars, Clock, Submit, Receive, Timeout,
         Flush, DispatchNone, Reject, LoopExit, Stop, Exit
<1> QED
  BY <1>1, <1>2, <1>3, <1>4, <1>5, <1>6, <1>7, <1>8, <1>9, <1>10, <1>11, <1>12

-----------------------------------------------------------------------------
(* Invariance *)

\* Nothing is queued or locked initially.
LEMMA CoreInit == Init => CoreInv
<1> SUFFICES ASSUME Init PROVE CoreInv
  OBVIOUS
<1>1. TypeOK
  BY TypeInit
<1>2. SendNeverBlocks /\ OnePlace /\ LocalState
  BY NoMembers
     DEF Init, BatcherInit, SendNeverBlocks, InService, OnePlace, LocalState
<1>3. MutexInsideLease
  BY ServingAssumption DEF Init, MutexInsideLease
<1> QED
  BY <1>1, <1>2, <1>3 DEF CoreInv

\* No step of the serving path breaks what does not depend on leases.
LEMMA CoreStep == CoreInv /\ [Next]_vars => CoreInv'
BY TypeStep, SendNeverBlocksStep, OnePlaceStep, LocalStateStep, MutexStep DEF CoreInv

\* All of it holds initially: nothing is leased either.
LEMMA InvInit == Init => IInv
BY CoreInit, ServingAssumption DEF Init, PoolInit, IInv, ExclusiveLease, LeasedOnce

\* And no step of a handler, the loop, a worker, a stream or main breaks it.
LEMMA InvStep == IInv /\ [Next]_vars => IInv'
BY CoreStep, LeaseStep DEF IInv, CoreInv, ExclusiveLease

\* The inductive invariant holds of every reachable state, for every number of
\* requests, streams and instances.
THEOREM Invariance == Spec => []IInv
BY InvInit, InvStep, PTL DEF Spec

\* Every variable always has its type.
THEOREM TypeCorrect == Spec => []TypeOK
<1>1. IInv => TypeOK
  BY DEF IInv, CoreInv
<1> QED
  BY <1>1, Invariance, PTL

\* Neither the scheduler loop nor a worker ever blocks in the send of a response
\* (scheduler.go:172, 193), and no request is responded to twice.
THEOREM ResponsesNeverBlock == Spec => []SendNeverBlocks
<1>1. IInv => SendNeverBlocks
  BY DEF IInv, CoreInv
<1> QED
  BY <1>1, Invariance, PTL

\* No request is ever in two batches, or in a batch and still in the queue.
THEOREM RequestsInOnePlace == Spec => []OnePlace
<1>1. IInv => OnePlace
  BY DEF IInv, CoreInv
<1> QED
  BY <1>1, Invariance, PTL

\* An instance is never leased to two batches, two streams, or one of each.
THEOREM LeasesAreExclusive == Spec => []ExclusiveLease
<1>1. IInv => ExclusiveLease
  BY DEF IInv
<1> QED
  BY <1>1, Invariance, PTL

\* The mutex of an instance is held by one of those who leased it.
THEOREM CriticalSectionsInsideLeases == Spec => []MutexInsideLease
<1>1. IInv => MutexInsideLease
  BY DEF IInv, CoreInv
<1> QED
  BY <1>1, Invariance, PTL

-----------------------------------------------------------------------------
(* Models and pools *)

\* The members of a pool are objects of its model, also those a restart has added.
OwnPools == \A m \in Models : \A n \in DOMAIN pool[m] : InstModel[pool[m][n]] = m

PoolsInv == OwnPools /\ LeasedFromRightPool

\* The serving path never changes the pool.
LEMMA PoolFrame == [Next]_vars => pool' = pool
BY PoolAssumption
   DEF Next, Handlers, ChatCompletion, Completion, SchedulerLoop, Workers, StreamHandlers,
       Shutdown, Terminated, vars, Clock, Submit, Receive, Timeout, Flush, Dispatch,
       DispatchNone, Reject, LoopExit, LockInstance, Finish, Send, EndBatch, StreamAcquire,
       StreamLock, StreamStall, StreamEnd, StreamRelease, Stop, Exit, GetFree, Release

\* GetFree finds a member of the pool of the model it is asked for.
LEMMA FreeOfModel ==
    ASSUME OwnPools, NEW m \in Models, NEW i \in Instances, GetFree(m, i)
    PROVE  InstModel[i] = m
BY DEF OwnPools, GetFree, FirstFree

\* A name falls back to a model that there is.
LEMMA PoolForModel == \A n : PoolFor(n) \in Models
BY PoolAssumption DEF PoolFor

LEMMA PoolsInit == Init => PoolsInv
BY PoolAssumption DEF Init, PoolInit, PoolsInv, OwnPools, LeasedFromRightPool

\* The names of requests that have a worker are fixed, and so are the pools.
LEMMA PoolsStep == CoreInv /\ PoolsInv /\ [Next]_vars => PoolsInv'
<1> SUFFICES ASSUME CoreInv, PoolsInv, [Next]_vars PROVE PoolsInv'
  OBVIOUS
<1>1. OwnPools'
  BY PoolFrame DEF PoolsInv, OwnPools
<1>2. \A b \in running : \A r \in b.reqs : r \in Requests /\ client[r] # "idle"
  BY BatchTypes DEF CoreInv, LocalState
<1>3. \A r \in Requests : client[r] # "idle" => name'[r] = name[r]
  <2>1. ASSUME NEW q \in Requests, NEW n \in Names, Submit(q, n), NEW r \in Requests,
               client[r] # "idle"
        PROVE  name'[r] = name[r]
    BY <2>1 DEF Submit, CoreInv, TypeOK
  <2>2. (\E q \in Requests, n \in Names : Submit(q, n)) \/ name' = name
    BY PoolAssumption
       DEF Next, Handlers, ChatCompletion, Completion, SchedulerLoop, Workers,
           StreamHandlers, Shutdown, Terminated, vars, Clock, Receive, Timeout, Flush,
           Dispatch, DispatchNone, Reject, LoopExit, LockInstance, Finish, Send, EndBatch,
           StreamAcquire, StreamLock, StreamStall, StreamEnd, StreamRelease, Stop, Exit
  <2> QED
    BY <2>1, <2>2
<1> DEFINE model(n) == PoolFor(IF n = NoName THEN DefaultName ELSE n)
<1>4. \A b \in running : InstModel[b.inst] = model(name'[b.first])
  <2>1. \A b \in running : b.first \in b.reqs
    BY DEF CoreInv, LocalState
  <2> QED
    BY <1>2, <1>3, <2>1 DEF PoolsInv, LeasedFromRightPool, PoolAsked
<1>5. \A s \in Streams : uses[s] # NoInstance => InstModel[uses[s]] = PoolFor(DefaultName)
  BY DEF PoolsInv, LeasedFromRightPool
<1>6. LeasedFromRightPool'
  <2>1. CASE UNCHANGED <<running, uses, busy>>
    BY <1>4, <1>5, <2>1 DEF LeasedFromRightPool, PoolAsked, PoolFor
  <2>2. ASSUME NEW i \in Instances, Dispatch(i) PROVE LeasedFromRightPool'
    <3>1. PICK c : c.inst = i /\ c.first = Head(batch) /\ running' = running \cup {c}
      BY <2>2 DEF Dispatch
    <3>2. name' = name /\ uses' = uses
      BY <2>2 DEF Dispatch
    <3>3. InstModel[i] = model(name'[Head(batch)])
      BY <2>2, <3>2, FreeOfModel, PoolForModel DEF Dispatch, BatchModel, PoolAsked, PoolsInv
    <3> QED
      BY <1>4, <1>5, <3>1, <3>2, <3>3 DEF LeasedFromRightPool, PoolAsked, PoolFor
  <2>3. ASSUME NEW b \in running, EndBatch(b) PROVE LeasedFromRightPool'
    BY <1>4, <1>5, <2>3 DEF EndBatch, LeasedFromRightPool, PoolAsked, PoolFor
  <2>4. ASSUME NEW s \in Streams, NEW i \in Instances, StreamAcquire(s, i)
        PROVE  LeasedFromRightPool'
    <3>1. InstModel[i] = PoolFor(DefaultName) /\ uses' = [uses EXCEPT ![s] = i] /\ running' = running
      BY <2>4, FreeOfModel, PoolForModel DEF StreamAcquire, PoolsInv
    <3> QED
      BY <1>4, <1>5, <3>1 DEF LeasedFromRightPool, PoolAsked, PoolFor, CoreInv, TypeOK
  <2>5. ASSUME NEW s \in Streams, StreamRelease(s) PROVE LeasedFromRightPool'
    BY <1>4, <1>5, <2>5 DEF StreamRelease, LeasedFromRightPool, PoolAsked, PoolFor, CoreInv, TypeOK
  <2> QED
    BY <2>1, <2>2, <2>3, <2>4, <2>5, LeaseFrame
<1> QED
  BY <1>1, <1>6 DEF PoolsInv

\* Every batch and every stream has an instance of the model it is to have, fallback to
\* the default model included.
THEOREM LeasesFromRightPool == Spec => []LeasedFromRightPool
<1>1. Init => PoolsInv
  BY PoolsInit
<1>2. Spec => []CoreInv
  <2>1. IInv => CoreInv
    BY DEF IInv
  <2> QED
    BY <2>1, Invariance, PTL
<1>3. PoolsInv => LeasedFromRightPool
  BY DEF PoolsInv
<1> QED
  BY <1>1, <1>2, <1>3, PoolsStep, PTL DEF Spec

-----------------------------------------------------------------------------
(* What a step does to the requests *)

\* Only these actions move a request, a response or a handler.
LEMMA RequestFrame ==
    ASSUME [Next]_vars
    PROVE  \/ UNCHANGED <<queue, batch, worker, client, chan>>
           \/ \E r \in Requests : \/ \E n \in Names : Submit(r, n)
                                  \/ Receive(r)
                                  \/ Timeout(r)
                                  \/ Send(r)
           \/ Flush
           \/ \E i \in Instances : Dispatch(i)
           \/ Reject
           \/ \E b \in running : \E r \in b.reqs :
                 \/ LockInstance(b, r)
                 \/ \E outcome \in {"ok", "error"} : Finish(b, r, outcome)
BY PoolAssumption
   DEF Next, Handlers, ChatCompletion, Completion, SchedulerLoop, Workers, StreamHandlers,
       Shutdown, Terminated, vars, Clock, MaxWaitElapses, DispatchNone, LoopExit, EndBatch,
       StreamAcquire, StreamLock, StreamStall, StreamEnd, StreamRelease, Stop, Exit

\* No step makes an accepted request disappear.
LEMMA NothingLostStep ==
    ASSUME CoreInv, [Next]_vars, NEW r \in Requests, InService(r) \/ chan[r] # "empty"
    PROVE  \/ InService(r)'
           \/ chan'[r] # "empty"
           \/ client'[r] \in {"answered", "failed"}
<1> DEFINE Kept == \/ InService(r)'
                   \/ chan'[r] # "empty"
                   \/ client'[r] \in {"answered", "failed"}
<1> USE DEF CoreInv, TypeOK, InService
<1>1. CASE UNCHANGED <<queue, batch, worker, client, chan>>
  BY <1>1
<1>2. ASSUME NEW q \in Requests, NEW n \in Names, Submit(q, n)
      PROVE  Kept
  BY <1>2, AppendMembers DEF Submit, Add
<1>3. ASSUME NEW q \in Requests, Receive(q)
      PROVE  Kept
  BY <1>3 DEF Receive
<1>4. ASSUME NEW q \in Requests, Timeout(q)
      PROVE  Kept
  BY <1>4 DEF Timeout
<1>5. ASSUME NEW q \in Requests, Send(q)
      PROVE  Kept
  BY <1>5 DEF Send
<1>6. CASE Flush
  BY <1>6, NoMembers DEF Flush, TakeAll, LocalState
<1>7. ASSUME NEW i \in Instances, Dispatch(i)
      PROVE  Kept
  BY <1>7 DEF Dispatch
<1>8. CASE Reject
  <2>1. batch # <<>> /\ batch \in Seq(Requests) /\ IsInjective(batch)
    BY <1>8 DEF Reject, LocalState, OnePlace
  <2>2. Range(batch) = Range(Tail(batch)) \cup {Head(batch)} /\ Head(batch) \in Requests
    BY <2>1, TailMembers, MembersInSet
  <2> QED
    BY <1>8, <2>2 DEF Reject
<1>9. ASSUME NEW b \in running, NEW q \in b.reqs,
             \/ LockInstance(b, q)
             \/ \E outcome \in {"ok", "error"} : Finish(b, q, outcome)
      PROVE  Kept
  BY <1>9, BatchTypes DEF LockInstance, Finish
<1> QED
  BY <1>1, <1>2, <1>3, <1>4, <1>5, <1>6, <1>7, <1>8, <1>9, RequestFrame

\* An accepted request is never lost: it stays in service until its response is in
\* RespCh or its handler has returned it.
THEOREM NothingLost == Spec => NothingAcceptedIsLost
<1>1. IInv /\ [Next]_vars =>
         [\A r \in Requests :
             InService(r) \/ chan[r] # "empty" =>
                 \/ InService(r)'
                 \/ chan'[r] # "empty"
                 \/ client'[r] \in {"answered", "failed"}]_vars
  BY NothingLostStep DEF IInv
<1> QED
  BY <1>1, Invariance, PTL DEF Spec, NothingAcceptedIsLost

-----------------------------------------------------------------------------
(* Serving implements RequestService *)

\* Initially no handler has asked and no reply has been produced.
LEMMA RefinementInit == Init => Service!ServiceInit
BY DEF Init, Service!ServiceInit

\* Every step maps to one of the service: Submit asks, Reject and Send produce,
\* Receive delivers, Timeout gives up; every other step stutters.
LEMMA RefinementStep ==
    CoreInv /\ [Next]_vars => [Service!ServiceNext]_(Service!abstractVars)
<1> DEFINE reply == [r \in Requests |-> IF client[r] = "answered" THEN "ok"
                                        ELSE IF client[r] = "failed" THEN "error"
                                        ELSE chan[r]]
<1> SUFFICES ASSUME CoreInv, [Next]_vars
             PROVE  Service!ServiceNext \/ UNCHANGED <<client, reply>>
  BY DEF Service!abstractVars
<1> USE DEF CoreInv, TypeOK
<1>1. CASE UNCHANGED <<client, chan>>
  BY <1>1
<1>2. ASSUME NEW r \in Requests, NEW n \in Names, Submit(r, n)
      PROVE  Service!Ask(r)
  BY <1>2 DEF Submit, Service!Ask
<1>3. ASSUME NEW r \in Requests, Receive(r)
      PROVE  Service!Deliver(r)
  <2>1. /\ client[r] = "waiting" /\ chan[r] \in {"ok", "error"}
        /\ client' = [client EXCEPT ![r] = IF chan[r] = "ok" THEN "answered" ELSE "failed"]
        /\ chan' = [chan EXCEPT ![r] = "empty"]
    BY <1>3 DEF Receive, ChanStates
  <2>2. reply[r] = chan[r]
    BY <2>1
  <2>3. reply' = reply
    BY <2>1
  <2> QED
    BY <2>1, <2>2, <2>3 DEF Service!Deliver
<1>4. ASSUME NEW r \in Requests, Timeout(r)
      PROVE  Service!GiveUp(r)
  BY <1>4 DEF Timeout, Service!GiveUp
<1>5. ASSUME NEW r \in Requests, NEW outcome \in {"ok", "error"},
             InService(r), client' = client, chan' = [chan EXCEPT ![r] = outcome]
      PROVE  Service!Produce(r, outcome)
  <2>1. chan[r] = "empty" /\ client[r] \in {"waiting", "timeout"}
    BY <1>5 DEF SendNeverBlocks
  <2>2. reply[r] = "empty" /\ reply' = [reply EXCEPT ![r] = outcome]
    BY <1>5, <2>1
  <2> QED
    BY <1>5, <2>1, <2>2 DEF Service!Produce
<1>6. ASSUME NEW r \in Requests, Send(r)
      PROVE  \E outcome \in {"ok", "error"} : Service!Produce(r, outcome)
  BY <1>5, <1>6 DEF Send, InService
<1>7. CASE Reject
  <2>1. Head(batch) \in Range(batch) /\ Head(batch) \in Requests
    BY <1>7, TailMembers, MembersInSet DEF Reject, LocalState
  <2>2. Service!Produce(Head(batch), "error")
    BY <1>5, <1>7, <2>1 DEF Reject, InService
  <2> QED
    BY <2>1, <2>2 DEF Service!ServiceNext
<1>8. CASE \/ Flush
           \/ \E i \in Instances : Dispatch(i)
           \/ \E b \in running : \E r \in b.reqs :
                 \/ LockInstance(b, r)
                 \/ \E outcome \in {"ok", "error"} : Finish(b, r, outcome)
  BY <1>1, <1>8 DEF Flush, Dispatch, LockInstance, Finish
<1> QED
  BY <1>1, <1>2, <1>3, <1>4, <1>6, <1>7, <1>8, RequestFrame DEF Service!ServiceNext

\* A handler of the real program sees what RequestService promises: at most one
\* reply, delivered unchanged, and none after it gave up.
THEOREM Refinement == Spec => ImplementsService
<1>1. IInv => CoreInv
  BY DEF IInv
<1> QED
  BY <1>1, RefinementInit, RefinementStep, Invariance, PTL
     DEF Spec, ImplementsService, Service!ServiceSpec
=============================================================================
