------------------------------- MODULE Serving -------------------------------
(***************************************************************************)
(* The serving path of the program: the HTTP handlers of                   *)
(* internal/api/server.go, the scheduler loop and the batch goroutines of  *)
(* internal/scheduler/scheduler.go, the critical section of an instance    *)
(* (internal/runner/runner.go), over the batcher and the model pools.      *)
(*                                                                         *)
(*   a handler     Submit -> queue ... chan -> Receive, or Timeout         *)
(*   the loop      Flush -> Dispatch -> (go handleBatch | Reject ...)      *)
(*   a batch       one worker per request: Lock -> Finish -> Send; EndBatch*)
(*   a stream      Acquire -> Lock -> (Stall) -> End -> Release, and again *)
(*   main          Stop -> (LoopExit) -> Exit                              *)
(*                                                                         *)
(* The health checker is not part of this module: pool only changes when   *)
(* it restarts an instance, so here pool stays as Init left it.            *)
(***************************************************************************)
EXTENDS Batcher, ModelPool

CONSTANTS Streams,     \* handlers that stream: one HTTP request after another,
                       \* or one WebSocket connection
          NoInstance,  \* nil *LlamaInstance
          Unlocked     \* the holder of a free LlamaInstance.Mu

ASSUME ServingAssumption == /\ NoInstance \notin Instances
                            /\ Unlocked \notin Requests \cup Streams
                            /\ Requests \cap Streams = {}

VARIABLES client,   \* the handler of a non-streaming request
          name,     \* the model name it passed to Submit (batcher.Request.ID)
          chan,     \* its RespCh, a channel with a buffer of one
          loop,     \* where runScheduler is
          batch,    \* processBatch's local variable batch
          running,  \* the handleBatch goroutines
          worker,   \* the goroutine handleBatch started for a request
          mu,       \* LlamaInstance.Mu
          stream,   \* where a streaming handler is
          uses,     \* its local variable inst
          phase     \* how far main has come with the shutdown

handlerVars == <<client, name, chan>>
loopVars    == <<loop, batch>>
streamVars  == <<stream, uses>>
vars == <<queue, waited, pool, busy, client, name, chan, loop, batch, running,
          worker, mu, stream, uses, phase>>

ClientStates == {"idle", "waiting", "answered", "failed", "timeout"}
ChanStates   == {"empty", "ok", "error"}
LoopStates   == {"select", "dispatch", "reject", "exited"}
WorkerStates == {"none", "start", "holding", "ok", "error", "done"}
StreamStates == {"idle", "acquired", "streaming", "stalled", "finished"}
PhaseStates  == {"up", "stopping", "down"}
Batches      == [first : Requests, inst : Instances, reqs : SUBSET Requests]

TypeOK == /\ BatcherTypeOK
          /\ PoolTypeOK
          /\ client \in [Requests -> ClientStates]
          /\ name \in [Requests -> Names]
          /\ chan \in [Requests -> ChanStates]
          /\ loop \in LoopStates
          /\ batch \in Seq(Requests) /\ Len(batch) <= QueueSize
          /\ running \in SUBSET Batches
          /\ worker \in [Requests -> WorkerStates]
          /\ mu \in [Instances -> Requests \cup Streams \cup {Unlocked}]
          /\ stream \in [Streams -> StreamStates]
          /\ uses \in [Streams -> Instances \cup {NoInstance}]
          /\ phase \in PhaseStates

Init == /\ BatcherInit
        /\ PoolInit
        /\ client = [r \in Requests |-> "idle"]
        /\ name = [r \in Requests |-> NoName]
        /\ chan = [r \in Requests |-> "empty"]
        /\ loop = "select"
        /\ batch = <<>>
        /\ running = {}
        /\ worker = [r \in Requests |-> "none"]
        /\ mu = [i \in Instances |-> Unlocked]
        /\ stream = [s \in Streams |-> "idle"]
        /\ uses = [s \in Streams |-> NoInstance]
        /\ phase = "up"

\* Once main has returned nothing runs.
Alive == phase # "down"

\* The pool processBatch asks for a request: a blank name means "default".
PoolAsked(r) == PoolFor(IF name[r] = NoName THEN DefaultName ELSE name[r])

-----------------------------------------------------------------------------
(* Faulty variants of the definitions below: each breaks a property (README). *)

\* The handler treats its timer like an error response.
TimeoutAsError(r) == /\ client[r] = "waiting"
                     /\ client' = [client EXCEPT ![r] = "failed"]
                     /\ UNCHANGED <<batcherVars, poolVars, name, chan, loopVars,
                                    running, worker, mu, streamVars, phase>>

\* RespCh without a buffer: the send needs a handler that still waits.
RejectUnbuffered ==
    /\ loop = "reject"
    /\ client[Head(batch)] = "waiting"
    /\ chan' = [chan EXCEPT ![Head(batch)] = "error"]
    /\ batch' = Tail(batch)
    /\ loop' = IF Len(batch) = 1 THEN "select" ELSE "reject"
    /\ UNCHANGED <<batcherVars, poolVars, client, name, running, worker, mu,
                   streamVars, phase>>

\* Complete without Mu.Lock.
LockNothing(b, r) ==
    /\ worker[r] = "start"
    /\ mu' = [mu EXCEPT ![b.inst] = r]
    /\ worker' = [worker EXCEPT ![r] = "holding"]
    /\ UNCHANGED <<batcherVars, poolVars, handlerVars, loopVars, running,
                   streamVars, phase>>

\* An error path that responds without ending the worker.
SendAndGoOn(r) == /\ worker[r] \in {"ok", "error"}
                  /\ chan[r] = "empty"
                  /\ chan' = [chan EXCEPT ![r] = worker[r]]
                  /\ UNCHANGED <<batcherVars, poolVars, client, name, loopVars, running,
                                 worker, mu, streamVars, phase>>

\* handleBatch releases under the name it was asked for, which may have no pool.
EndBatchAsDefault(b) == /\ Alive
                        /\ \A r \in b.reqs : worker[r] = "done"
                        /\ running' = running \ {b}
                        /\ Release(DefaultName, b.inst)
                        /\ UNCHANGED <<batcherVars, handlerVars, loopVars, worker, mu,
                                       streamVars, phase>>

\* processBatch asks for the model of the last request.
LastRequestModel == PoolAsked(batch[Len(batch)])

-----------------------------------------------------------------------------
(* Non-streaming handlers *)

\* Scheduler.Submit.  A handler that was called before Stop closed the listener
\* may come to it while the program is stopping.
Submit(r, n) == /\ Alive
                /\ client[r] = "idle"
                /\ client' = [client EXCEPT ![r] = "waiting"]
                /\ name' = [name EXCEPT ![r] = n]
                /\ Add(r)
                /\ UNCHANGED <<poolVars, chan, loopVars, running, worker, mu,
                               streamVars, phase>>

\* POST /v1/chat/completions passes the model name the client sent.
ChatCompletion(r) == \E n \in Names : Submit(r, n)

\* POST /v1/completions always passes "default".
Completion(r) == Submit(r, DefaultName)

\* The handler's select takes the response from RespCh.
Receive(r) == /\ Alive
              /\ client[r] = "waiting"
              /\ chan[r] # "empty"
              /\ client' = [client EXCEPT ![r] = IF chan[r] = "ok" THEN "answered"
                                                                   ELSE "failed"]
              /\ chan' = [chan EXCEPT ![r] = "empty"]
              /\ UNCHANGED <<batcherVars, poolVars, name, loopVars, running, worker,
                             mu, streamVars, phase>>

\* The handler's select takes the 30 minute timer: 504.  The request stays
\* wherever it is; whoever answers it later writes to a channel nobody reads.
Timeout(r) == /\ Alive
              /\ client[r] = "waiting"
              /\ client' = [client EXCEPT ![r] = "timeout"]
              /\ UNCHANGED <<batcherVars, poolVars, name, chan, loopVars, running,
                             worker, mu, streamVars, phase>>

-----------------------------------------------------------------------------
(* The scheduler loop *)

\* A tick at which Flush returns a batch.  (At any other tick nothing changes.)
Flush == /\ loop = "select"
         /\ MustFlush
         /\ batch' = queue
         /\ loop' = "dispatch"
         /\ TakeAll
         /\ UNCHANGED <<poolVars, handlerVars, running, worker, mu, streamVars, phase>>

\* The model a batch goes to is the one its FIRST request names.
BatchModel == PoolAsked(Head(batch))

\* GetFree found an instance: "go handleBatch(inst, batch)".
Dispatch(i) ==
    /\ loop = "dispatch"
    /\ GetFree(BatchModel, i)
    /\ running' = running \cup {[first |-> Head(batch), inst |-> i, reqs |-> Range(batch)]}
    /\ worker' = [r \in Requests |-> IF r \in Range(batch) THEN "start" ELSE worker[r]]
    /\ batch' = <<>>
    /\ loop' = "select"
    /\ UNCHANGED <<batcherVars, handlerVars, mu, streamVars, phase>>

\* GetFree returned nil: every request of the batch is to get an error.
DispatchNone == /\ loop = "dispatch"
                /\ NoneFree(BatchModel)
                /\ loop' = "reject"
                /\ UNCHANGED <<batcherVars, poolVars, handlerVars, batch, running,
                               worker, mu, streamVars, phase>>

\* One iteration of the loop that sends "no available instances".  The send
\* blocks the scheduler loop while the channel is full.
Reject ==
    /\ loop = "reject"
    /\ chan[Head(batch)] = "empty"
    /\ chan' = [chan EXCEPT ![Head(batch)] = "error"]
    /\ batch' = Tail(batch)
    /\ loop' = IF Len(batch) = 1 THEN "select" ELSE "reject"
    /\ UNCHANGED <<batcherVars, poolVars, client, name, running, worker, mu,
                   streamVars, phase>>

\* runScheduler's select takes stopCh.
LoopExit == /\ loop = "select"
            /\ phase = "stopping"
            /\ loop' = "exited"
            /\ UNCHANGED <<batcherVars, poolVars, handlerVars, batch, running, worker,
                           mu, streamVars, phase>>

-----------------------------------------------------------------------------
(* handleBatch: batch b, and its goroutine for request r *)

\* LlamaInstance.Complete acquires Mu.
LockInstance(b, r) ==
    /\ Alive
    /\ worker[r] = "start"
    /\ mu[b.inst] = Unlocked
    /\ mu' = [mu EXCEPT ![b.inst] = r]
    /\ worker' = [worker EXCEPT ![r] = "holding"]
    /\ UNCHANGED <<batcherVars, poolVars, handlerVars, loopVars, running,
                   streamVars, phase>>

\* Complete returns: content, or an error (not ready, the POST failed or timed
\* out, the body is not JSON).  Its deferred call releases Mu.
Finish(b, r, outcome) ==
    /\ Alive
    /\ worker[r] = "holding"
    /\ mu' = [mu EXCEPT ![b.inst] = Unlocked]
    /\ worker' = [worker EXCEPT ![r] = outcome]
    /\ UNCHANGED <<batcherVars, poolVars, handlerVars, loopVars, running,
                   streamVars, phase>>

\* The worker sends the response, and is done.
Send(r) == /\ Alive
           /\ worker[r] \in {"ok", "error"}
           /\ chan[r] = "empty"
           /\ chan' = [chan EXCEPT ![r] = worker[r]]
           /\ worker' = [worker EXCEPT ![r] = "done"]
           /\ UNCHANGED <<batcherVars, poolVars, client, name, loopVars, running, mu,
                          streamVars, phase>>

\* wg.Wait returns, and the deferred Release gives the instance back.
EndBatch(b) == /\ Alive
               /\ \A r \in b.reqs : worker[r] = "done"
               /\ running' = running \ {b}
               /\ Release(InstModel[b.inst], b.inst)
               /\ UNCHANGED <<batcherVars, handlerVars, loopVars, worker, mu,
                              streamVars, phase>>

-----------------------------------------------------------------------------
(* Streaming handlers: GetFreeInstance, CompleteStream, ReleaseInstance.  A *)
(* handler that finds no instance reports it and changes nothing.           *)

\* The model the client named is ignored: the pool is always that of "default".
StreamAcquire(s, i) ==
    /\ Alive
    /\ stream[s] = "idle"
    /\ GetFree(PoolFor(DefaultName), i)
    /\ stream' = [stream EXCEPT ![s] = "acquired"]
    /\ uses' = [uses EXCEPT ![s] = i]
    /\ UNCHANGED <<batcherVars, handlerVars, loopVars, running, worker, mu, phase>>

StreamLock(s) == /\ Alive
                 /\ stream[s] = "acquired"
                 /\ mu[uses[s]] = Unlocked
                 /\ mu' = [mu EXCEPT ![uses[s]] = s]
                 /\ stream' = [stream EXCEPT ![s] = "streaming"]
                 /\ UNCHANGED <<batcherVars, poolVars, handlerVars, loopVars, running,
                                worker, uses, phase>>

\* The client stops reading: onToken's write blocks inside CompleteStream, with Mu
\* held.  WriteTimeout is 0 and a WebSocket has no deadline, so nothing bounds it.
StreamStall(s) == /\ Alive
                  /\ stream[s] = "streaming"
                  /\ stream' = [stream EXCEPT ![s] = "stalled"]
                  /\ UNCHANGED <<batcherVars, poolVars, handlerVars, loopVars, running,
                                 worker, mu, uses, phase>>

\* CompleteStream returns, at the end of the stream or with an error; also when a
\* stalled client reads on or goes away.
StreamEnd(s) == /\ Alive
                /\ stream[s] \in {"streaming", "stalled"}
                /\ mu' = [mu EXCEPT ![uses[s]] = Unlocked]
                /\ stream' = [stream EXCEPT ![s] = "finished"]
                /\ UNCHANGED <<batcherVars, poolVars, handlerVars, loopVars, running,
                               worker, uses, phase>>

StreamRelease(s) == /\ Alive
                    /\ stream[s] = "finished"
                    /\ Release(InstModel[uses[s]], uses[s])
                    /\ stream' = [stream EXCEPT ![s] = "idle"]
                    /\ uses' = [uses EXCEPT ![s] = NoInstance]
                    /\ UNCHANGED <<batcherVars, handlerVars, loopVars, running, worker,
                                   mu, phase>>

-----------------------------------------------------------------------------
(* main, after a signal *)

\* server.Stop closes the listener: no new HTTP requests, while handlers and
\* WebSockets run on.  Scheduler.Stop then closes stopCh and waits for the loops.
Stop == /\ phase = "up"
        /\ phase' = "stopping"
        /\ UNCHANGED <<batcherVars, poolVars, handlerVars, loopVars, running,
                       worker, mu, streamVars>>

\* The loops are gone: the runners are stopped, main returns, and with it
\* every goroutine that is left.
Exit == /\ phase = "stopping"
        /\ loop = "exited"
        /\ phase' = "down"
        /\ UNCHANGED <<batcherVars, poolVars, handlerVars, loopVars, running,
                       worker, mu, streamVars>>

-----------------------------------------------------------------------------
Clock == /\ Alive
         /\ MaxWaitElapses
         /\ UNCHANGED <<poolVars, handlerVars, loopVars, running, worker, mu,
                        streamVars, phase>>

Handlers == \E r \in Requests : \/ ChatCompletion(r)
                                \/ Completion(r)
                                \/ Receive(r)
                                \/ Timeout(r)

SchedulerLoop == \/ Flush
                 \/ \E i \in Instances : Dispatch(i)
                 \/ DispatchNone
                 \/ Reject
                 \/ LoopExit

Workers == \/ \E b \in running : \E r \in b.reqs :
                 \/ LockInstance(b, r)
                 \/ \E outcome \in {"ok", "error"} : Finish(b, r, outcome)
           \/ \E r \in Requests : Send(r)
           \/ \E b \in running : EndBatch(b)

StreamHandlers == \E s \in Streams : \/ \E i \in Instances : StreamAcquire(s, i)
                                     \/ StreamLock(s)
                                     \/ StreamStall(s)
                                     \/ StreamEnd(s)
                                     \/ StreamRelease(s)

Shutdown == Stop \/ Exit

\* The process has exited.
Terminated == phase = "down" /\ UNCHANGED vars

Next == \/ Clock \/ Handlers \/ SchedulerLoop \/ Workers \/ StreamHandlers \/ Shutdown
        \/ Terminated

Spec == Init /\ [][Next]_vars

-----------------------------------------------------------------------------
(* Fairness: what the code runs without waiting for anything outside it.    *)

\* The handler's select always ends: RespCh or its timer.
Handler(r) == Receive(r) \/ Timeout(r)

\* Complete ends: Go's mutex is handed over in turn, and the POST has a timeout.
Completing(r) == \E b \in running : /\ r \in b.reqs
                                    /\ \/ LockInstance(b, r)
                                       \/ \E outcome \in {"ok", "error"} :
                                              Finish(b, r, outcome)

\* CompleteStream ends while the client reads: llama.cpp's stream is bounded by
\* max_tokens and by the timeout of the POST.  A stalled one need not.
StreamGoesOn(s) == stream[s] = "streaming" /\ StreamEnd(s)

\* Nothing makes a client ask, or read, or the operator stop the program; all else
\* that has been started is run to its end by the Go scheduler and the timers.
Fairness ==
    /\ WF_vars(Clock)
    /\ WF_vars(Flush)
    /\ WF_vars(DispatchNone \/ \E i \in Instances : Dispatch(i))
    /\ WF_vars(Reject)
    /\ WF_vars(LoopExit)
    /\ WF_vars(Exit)
    /\ \A r \in Requests : /\ WF_vars(Handler(r))
                           /\ WF_vars(Completing(r))
                           /\ WF_vars(Send(r))
    /\ WF_vars(\E b \in running : EndBatch(b))
    /\ \A s \in Streams : /\ WF_vars(StreamLock(s))
                          /\ WF_vars(StreamGoesOn(s))
                          /\ WF_vars(StreamRelease(s))

FairSpec == Spec /\ Fairness

-----------------------------------------------------------------------------
(* Properties *)

\* Some part of the program has accepted r and has yet to respond to it.
InService(r) == \/ r \in Range(queue) \cup Range(batch)
                \/ worker[r] \in {"start", "holding", "ok", "error"}

\* Whoever is going to respond to a request finds RespCh empty, and its handler
\* has not returned with a response: so the send (scheduler.go:172, 193) never
\* blocks, not even when the handler has timed out, and no request is
\* responded to twice.
SendNeverBlocks ==
    \A r \in Requests : InService(r) => /\ chan[r] = "empty"
                                       /\ client[r] \in {"waiting", "timeout"}

\* A request is in at most one place of the queue, the batch being dispatched
\* and the batches being handled, and its worker belongs to a batch that waits
\* for it (batcher.go:65-66 hands over the slice and starts a new one).
OnePlace ==
    /\ IsInjective(queue)
    /\ IsInjective(batch)
    /\ Range(queue) \cap Range(batch) = {}
    /\ \A r \in Range(queue) \cup Range(batch) : worker[r] = "none"
    /\ \A b, c \in running : b.reqs \cap c.reqs # {} => b = c
    /\ \A r \in Requests : worker[r] \in {"start", "holding", "ok", "error"} =>
                              \E b \in running : r \in b.reqs

\* The local state of the goroutines: the loop has a batch exactly while it is
\* dispatching or rejecting it, a stream has an instance exactly while it is not
\* idle, the requests of a batch, its first among them, have a worker, and a request
\* nobody has submitted has left no trace.
LocalState ==
    /\ loop \in {"dispatch", "reject"} <=> batch # <<>>
    /\ \A s \in Streams : stream[s] = "idle" <=> uses[s] = NoInstance
    /\ \A b \in running : b.first \in b.reqs /\ \A r \in b.reqs : worker[r] # "none"
    /\ \A r \in Requests : client[r] = "idle" => worker[r] = "none" /\ chan[r] = "empty"

\* i is busy exactly while a batch or a stream has it, and there is only one.
LeasedOnce(i) ==
    /\ \A b, c \in running : b.inst = i /\ c.inst = i => b = c
    /\ \A s, t \in Streams : uses[s] = i /\ uses[t] = i => s = t
    /\ \A b \in running, s \in Streams : ~(b.inst = i /\ uses[s] = i)
    /\ busy[i] <=> (\E b \in running : b.inst = i) \/ (\E s \in Streams : uses[s] = i)

\* Busy is an exclusive lease: an instance is busy exactly while one batch or
\* one stream has it, never two of them, however handlers and the scheduler loop
\* interleave, and whoever gives it back names a pool that there is: otherwise
\* Release would change nothing and Busy would stay (pool.go:26-37,
\* model_pool.go:57-64, scheduler.go:184, server.go:198).
ExclusiveLease == \A i \in Instances : LeasedOnce(i)

\* Whoever is inside the critical section of an instance has leased it, and
\* there is only one of them (runner.go:187, 261).
MutexInsideLease ==
    \A i \in Instances :
        /\ \A r \in Requests :
              mu[i] = r <=> \E b \in running : /\ b.inst = i
                                             /\ r \in b.reqs
                                             /\ worker[r] = "holding"
        /\ \A s \in Streams :
              mu[i] = s <=> uses[s] = i /\ stream[s] \in {"streaming", "stalled"}

\* A batch runs on an instance of the model its FIRST request asks for, or of the
\* default model when there is no such pool or no name, also when the requests of
\* one batch name different models; a stream's is always the default model's
\* (scheduler.go:164-169, model_pool.go:42-55).
LeasedFromRightPool ==
    /\ \A b \in running : InstModel[b.inst] = PoolAsked(b.first)
    /\ \A s \in Streams : uses[s] # NoInstance =>
           InstModel[uses[s]] = PoolFor(DefaultName)

\* A request that was accepted is never lost: from one step to the next it stays
\* in service, or its response is in RespCh, or its handler has returned it.
NothingAcceptedIsLost ==
    [][\A r \in Requests :
          InService(r) \/ chan[r] # "empty" =>
              \/ InService(r)'
              \/ chan'[r] # "empty"
              \/ client'[r] \in {"answered", "failed"}]_vars

\* Every accepted request is responded to, unless the program is being stopped:
\* the loop then exits with requests still queued (scheduler.go:150-151).
AcceptedIsAnswered ==
    \A r \in Requests :
        InService(r) ~> ~InService(r) \/ phase \in {"stopping", "down"}

\* A leased instance comes back to its pool, whatever Complete returned, unless a
\* streaming client stops reading: it keeps the instance for as long as it likes
\* (server.go:56, 257-264, runner.go:261-262).
InstanceComesBack ==
    \A i \in Instances :
        busy[i] ~> \/ ~busy[i]
                   \/ phase = "down"
                   \/ \E s \in Streams : uses[s] = i /\ stream[s] = "stalled"

\* Scheduler.Stop does not hang in wg.Wait (scheduler.go:133).
StopCompletes == phase = "stopping" ~> phase = "down"

\* The serving path implements the request service its handlers rely on.
Service == INSTANCE RequestService
             WITH state <- client,
                  reply <- [r \in Requests |-> IF client[r] = "answered" THEN "ok"
                                               ELSE IF client[r] = "failed" THEN "error"
                                               ELSE chan[r]]
ImplementsService == Service!ServiceSpec

\* README.md:109 "max_batch_size: 512    # 最大批大小" (the largest batch).
BatchWithinLimit == Len(batch) <= MaxBatchSize

\* README.md:11 "多模型支持" and STREAMING_API_GUIDE.md:32: the model a request
\* names is the model that serves it.
ServedByNamedModel ==
    \A b \in running : \A r \in b.reqs :
        name[r] \in Models => InstModel[b.inst] = name[r]
=============================================================================
