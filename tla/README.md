# gollama: models, checks and proofs

gollama is a Go server that puts an OpenAI-like HTTP API in front of a set of
`llama.cpp` processes. It queues requests, sends them in batches to a free process,
streams, watches the processes and starts dead ones again; beside that it makes images and
videos with ComfyUI and FFmpeg, and it has an installer. This directory models what is hard
to test about it: who may use an instance when, what becomes of a request whatever
interleaves with it, how processes live and die, whose files are whose, and what a server
makes of what an installation left.

Paths in this file are relative to the repository root; `scheduler.go:169` and the like
mean the file of that name under `internal/`, `cmd/setup/main.go` is called by its path.

## 1. Inventory

| component | source | state it keeps | operations |
|---|---|---|---|
| HTTP API | `internal/api/server.go` | none between requests; each handler has a response channel or a leased instance | non-streaming chat/completion, streaming chat/completion (flag and own endpoints), WebSocket loop, `/health`, `/stats`, `/models`, four multimodal endpoints |
| Scheduler, batching loop | `internal/scheduler/scheduler.go` | `stopCh`, `wg`; the batch being dispatched | `Submit`, `processBatch` at every tick, `handleBatch` goroutines, `GetFreeInstance`, `ReleaseInstance`, `Stop` |
| Scheduler, health checker | same | goroutines `restartInstance` in flight | `checkHealth` at every tick, `restartInstance` with one retry |
| Batcher | `internal/batcher/batcher.go` | `queue`, `lastFlush` | `Add`, `Flush` (`ForceFlush` has no caller) |
| Pools | `internal/pool/pool.go`, `model_pool.go` | per model a list of instances; `Busy` of each | `GetFree`, `Release`, `Add` (`ReleaseToAny`, `GetByID` have no caller) |
| Runner, instances | `internal/runner/runner.go` | process, `Ready`, `Busy`, `Mu`, `StopCh`, `DoneCh` | `StartInstance`, `waitForReady`, `IsHealthy`, `Complete`, `CompleteStream`, `Stop`, `StartAll`, `StopAll` |
| KV cache manager | `internal/runner/kv_cache.go` | map from hash to cache file, last use, size | `Get`, `Set`, `cleanup` every 30 s, `Stop` |
| Token schedulers | `internal/batcher/token_scheduler.go` | prompt and generation queues with their last flushes; queues by priority | `Add`, `GetPromptBatch`, `GetGenerationBatch`, `GetBatch`; nothing in the program uses them |
| Multimodal manager | `internal/multimodal/manager.go`, `config.go` | the services it has, task channel, task table | `SubmitTask`, `processTask`, `cleanupOldTasks`, direct calls by handlers |
| ComfyUI client | `internal/multimodal/comfy.go` | none | HTTP calls, polling with a timeout, workflow construction |
| FFmpeg wrapper | `internal/multimodal/ffmpeg.go` | temporary files | one external process per call |
| GPU manager | `internal/gpu/gpu.go` | list of GPUs | `Start` with detection by `nvidia-smi`, then `wmic`, then the configuration; `refresh` every 5 s; three choices among the GPUs |
| Configuration | `internal/config/config.go`, `preset.go` | none | defaults of `Load`, choice of a preset, what it fills in |
| Server program | `cmd/server/main.go` | none | load, preset, `Init`, `Start`, serve, signal, `Stop` |
| Setup program | `cmd/setup/main.go` | files: installed programs, `configs/config.yaml` | check, ask, download, unpack or clone, rename, write the configuration |

How they interact. A non-streaming handler calls `Submit`, which `Add`s a request with
a fresh one-place channel to the batcher, and then waits for that channel or 30 minutes.
The scheduler loop `Flush`es the batcher at every tick, takes a free instance of the
model its *first* request names, and starts a goroutine `handleBatch`; that one starts a
worker per request, each of which calls `Complete` (under the instance's mutex) and sends
the response; when all are done the instance is released. Streaming handlers bypass the
queue: they take a free instance of the default pool, call `CompleteStream` and release
it. A client that stops reading keeps the instance meanwhile: tokens are written to it inside
`CompleteStream`, and the server has no write timeout (`server.go:56`).
So three kinds of goroutines compete for `Busy`, and workers compete for `Mu`. The
health checker looks at a copy of every pool and starts a goroutine per unhealthy
instance, which stops the object, starts a process on the same port and adds the new
object to the pool. `main` closes the listener, then stops the loops, then the processes.
Media calls of handlers and of the task worker share files and no lock. Setup and server meet
only in files: the main file of each program and the configuration.

What is hard here: the order of handlers, loop, workers, streams and restarts; a timer
racing a late answer; a send that might block; a queue at its limit; processes that
crash, hang or load slowly at any moment; goroutines nobody waits for; a shutdown in the
middle of all that. The list, at the lines where each one bites, is `hazards` in
`PROJECT.json`.

What makes each part correct:

* API, scheduler, batcher: an accepted request gets exactly one answer, in time or
  late, and the answer never blocks whoever sends it; a request is in one place at a time.
* Pools, instances: `Busy` is an exclusive lease, `Mu` is only taken inside it, it comes
  back, to the pool it came from, and batches have instances of the model they are to have.
* Runner, health checker: one process per port, each instance in its pool once, dead ones are
  noticed, nothing is left running after a clean stop, nothing hangs.
* KV cache: an entry without a file does not stay, sizes stay bounded.
* Multimodal: a task is found under its ID until it is old and is answered, a call has its
  own frames, directories do not pile up, one call's failure is not another's.
* Token schedulers: first come first served within a queue and a priority, nothing twice.
* GPU manager: the choice is the best of what qualifies.
* Configuration and setup: what the user set is what instances are started with; a failed or cut-off
  run of setup is healed by a later one; what setup writes is what a server can start from.

## 2. Plan

| step | modules | state |
|---|---|---|
| 1 | `Batcher`, `ModelPool`, `Serving`, `MCServing`: the serving path | done, checked and proved |
| 2 | `RequestService`: what a handler relies on; `Serving` implements it | done, checked and proved |
| 3 | `InstanceLifecycle`, `MCInstanceLifecycle`: several models, ports, readiness, restarts, shutdown | done, checked and proved |
| 4 | `QueueLemmas`, `Serving_proofs`: the invariants of the serving path for every instance | done |
| 5 | `SelfHealing`, `MCSelfHealing`, `SelfHealing_proofs`: `Serving` composed with restarts (a restart clears `Busy` of an instance in use, the old object stays in the pool) | done, checked and proved |
| 6 | `KVCache`, `MCKVCache`: `Get`, `Set`, `cleanup`, with `Get` split where it lets go of the lock | done, checked; types proved |
| 7 | `MediaJobs`, `MediaTasks`, `MCMediaTasks`: services, task queue and table, worker, direct calls, shared files | done, checked and proved |
| 8 | `TokenQueues`, `MCTokenQueues`, `TokenQueues_proofs`: both token schedulers | done, checked and proved |
| 9 | `Configuration`, `Setup`, `GPUManager`, `Deployment`, `MCDeployment`: from the installer to a server that serves | done, checked and proved |
| 10 | `InstanceLifecycle_proofs`, `KVCache_proofs`, `MediaTasks_proofs`, `Deployment_proofs` | done |
| 11 | `Supervision`: what Init, the health checker and Stop promise of processes; `InstanceLifecycle` implements it; `MediaTasks` implements `RequestService` | done, checked and proved |

Worth doing next: a lock service for the leases of instances, which `ModelPool` with its users
implements without restarts and not with them; a table in which a task has one life, for
`MediaTasks`; the processes of `SelfHealing` as an abstraction of those of `InstanceLifecycle`.

Composition: `Serving` extends `Batcher` and `ModelPool`; `SelfHealing` extends `Serving`;
`MediaTasks` extends `MediaJobs`; `Deployment` extends `Setup`, which extends `Configuration`,
and `GPUManager`. `Serving` and `MediaTasks` have an instance of `RequestService`, `InstanceLifecycle` has
one of `Supervision`. `InstanceLifecycle`, `KVCache` and `TokenQueues` stand alone: `SelfHealing` has
the first one's processes in a simpler form, and in `Deployment` it is the step `StartModel`.

## 3. Modules

### Batcher, ModelPool, Serving

`Batcher` has the queue and one bit of time: whether `MaxWaitMs` has passed since the last
flush. `ModelPool` has the pools (`pool`) and the `Busy` flags (`busy`). Their methods run
under their mutexes, so each is one operator that constrains the next state, and `Serving`
conjoins it with the rest of the goroutine's step.

`Serving` has the goroutines. Per non-streaming request: the handler (`client`), the model
name it passed (`name`), the response channel (`chan`), the worker that completes it
(`worker`). The scheduler loop is `loop` with its local `batch`; `running` is the set of
`handleBatch` goroutines; `mu` is who holds each instance's mutex; `stream` and `uses` are
the streaming handlers; `phase` is how far `main` has come. A batch keeps its first request (`first`),
whose name decides where it goes. The table shows the code behind
the actions; `map` in `PROJECT.json` has the lines.

| action | code |
|---|---|
| `ChatCompletion`, `Completion` | the two handlers up to and with `Submit`/`Add`; a full queue drops the request and tells nobody |
| `Receive`, `Timeout` | the handler's `select`; both may be possible at once |
| `Flush` | a tick at which `Batcher.Flush` returns a batch |
| `Dispatch`, `DispatchNone`, `Reject` | `GetFree` by the first request's model; `go handleBatch`; or one send of an error after another *by the loop itself* |
| `LockInstance`, `Finish`, `Send`, `EndBatch` | a worker's `Complete` and its send; `wg.Wait` and the deferred release |
| `StreamAcquire`, `StreamLock`, `StreamStall`, `StreamEnd`, `StreamRelease` | the five streaming paths, which differ in wording only; in `StreamStall` the client stops reading, and may go on, or not |
| `Stop`, `LoopExit`, `Exit` | `server.Stop` and `Scheduler.Stop`; handlers and workers run on until `main` returns |

Abstractions: contents of prompts and answers are left out; `Complete` ends with content
or an error, at any time; a request is a model value that is submitted once; a stream
that finds no instance reports it and changes nothing, so it is not a step; the ticks at
which `Flush` returns nothing change nothing either.

### RequestService

Four actions: a handler asks, the service produces an outcome, once, the handler returns
that outcome, or gives up. `ImplementsService` maps `client` to the handler's state and the
channel (or, once returned, the result) to the outcome. `TasksImplementService` maps the worker's task likewise: who
submits one asks, its call's outcome is what is produced, and the response delivers it.

### Supervision

Six actions on the slots: a first start, before the program serves; the moment it serves, when each configured slot has been
started and no other; a start again, only while it serves and only of a slot without a live process; a death; a
start that fails; the end, with nothing alive. `ImplementsSupervision` maps the phases of main to four stages,
the created objects of a slot to its starts, which must be numbered without gaps, and the slots of objects with a live process to `live`.
Which process answers, who waits for it and who decides to start it again is what `InstanceLifecycle` adds.

### InstanceLifecycle

The instances of one model or several, `fleet`: a sequence of models, each a sequence of slots.
Models are told apart by their names: of two with one name the scheduler keeps the second's runner
and pool only (`scheduler.go:76`), and such configurations are left out.
A *slot* is what survives a restart, ID and port; every start makes a new object
`<<slot, generation>>` with process, `Ready`, `StopCh` and waiter of its own. Ports are given out
as in `Init` and `StartAll`: from the number of instances that earlier models have (`total`). Processes
load, hang and crash by themselves. All objects of a slot share its port, so a health check of a
stopped object is answered by its successor (`PortAnswers`). The module has `waitForReady` with
its exits, the health checker with its copy of one pool after another, `restartInstance` with
`Stop` in two halves (closing the channel; kill and wait) and the retry, `StartAll` with both of
its failures, and `StopAll` of the runners in any order. When `StartAll` of a model fails, `Init` returns
and `main` ends; the models before it are not stopped (`CleanFailedStart` says what is).
`DoneCh` is left out: `Stop` waits for it or 5 seconds, so it decides only how long that takes. So is the GPU: `StartInstance`
is given one but never sets the field `GPUID`, so a restart (`scheduler.go:244`) passes GPU 0 whatever the first start had.

### SelfHealing

`Serving` and, beside it, `runHealthChecker`, `restartInstance` and the processes. `pool` now
changes: a restart appends an object for the same port (`Port`) to the pool and leaves the
stopped one there. What a restart does is in three steps, as in the code: `RestartRelease`
clears `Busy`, whoever has the object; `RestartStop` closes `StopCh` and kills; `RestartStart`
adds the new object (`RestartFails` if it cannot be started, twice). Every tick that finds the object
unhealthy starts one more restart; the model has two per object (`restart`, `second`), and the
`Stop` of the later one panics on the closed channel (`SecondStop`), which ends the program as it
does in `InstanceLifecycle`. A third would only do the same.

What is simpler than the code: a process answers or does not; `Complete` may end either way
whenever it runs, as in `Serving`, whatever the process does, which only adds behaviours; the
shutdown of `Serving` has no `StopAll`. Two objects on one port may both take requests
(the old one is in the pool, and its `Ready` is never reset), so the process behind them may
have two users; the model keeps objects apart, as the code does.

### KVCache

A caller is one `Complete` from `Get` to `Set`. `Get` is four steps: it looks up an entry
under the read lock (`Lookup`), and then, without it, compares its age, looks for its file
(`RemoveEntry` on either failure), and refreshes it. So the map may have another entry, or
none, under the same key by then; entries are objects with an age of their own. `Set` builds
an entry (`MakeEntry`) and inserts it under the lock (`Insert`); `Complete` calls it only if the
file is there. `Cleanup` is the whole handler: at most one eviction, then what has expired.
Files come and go from outside (`FileChanges`). The ages of entries nobody can reach are
reset, which no step can see.

### MediaJobs, MediaTasks

`MediaJobs` is one call of the manager, step by step: queue a prompt at ComfyUI, poll, download
the images one by one, then `ImagesToVideo` (make a directory named after the second, copy the frames,
run ffmpeg, remove the directory) and `VideoWithAudio`. Any number of calls run at once on shared
files: `frame` are the downloads, `temp` the directories' contents, `video` the results. A file's
content is the call whose frame it is; a video is the sequence of frames that ffmpeg reads. `VideoFile` is
the file a video of a second is named, `Output` and `WithAudio` those of a composition: its `output_name` is the client's choice, and may be
left blank, so several calls may write one file (`ffmpeg.go:55`). A file that no running call is to use any more is forgotten.
`services` are the ones the configuration enables, every choice of them: a call whose first
service is missing fails at once, and `GenerateVideo` without FFmpeg dereferences nil after its
downloads (`NilFFmpeg`), which `net/http` recovers for a handler and nobody for the worker.
`met` is history: the calls that used the same files as another at the same time, be it downloads, the directory or the video.

`MediaTasks` is who calls: handlers directly, and the worker for tasks. A task is made
(its ID is the current second), registered in the table, and sent; a channel with
`QueueSize` places gives an unbuffered send when it is zero, as in the shipped
configuration. The worker, if there is one (`HasWorker`), takes, works, cleans the table and answers.
`CleanupOldTasks` ranges over the table without the mutex; a `Register` or `GetTask` at that moment may
end the program (`alive`), since Go's runtime aborts when it notices.

### TokenQueues

Both schedulers of `token_scheduler.go`, one of which (`kind`) is used. Every method holds the
mutex from beginning to end, so each is one step: `Add`, `GetPhaseBatch` (`GetPromptBatch` and
`GetGenerationBatch`, which hand out a whole queue when it is long enough or has waited long
enough), `GetBatch` (the first `maxBatch` of the first priority from 0 to 10 that has any). `before` is
history: which of two queued requests came first. Clients and whoever asks for
batches are the users the interface is made for.

### Configuration, Setup, GPUManager, Deployment

`Configuration` is what a file says, and what `Load` and a preset make of it. Of a setting the
model keeps who made it (user, default, preset, nobody), not its number: the code's only question about one
is whether it is zero. The settings that other code divides by, makes a ticker of or ranges over
are apart: the batcher's, the interval of health checks, `gpu_ids`, the models.

`Setup` is the installer, which a user may run again and again, cut off at any moment, and have
fail anywhere. A program is the file that the check looks for and the rest of its files, each absent,
truncated or whole. `CreateFile` and `CopyFile` are the two halves of writing one. Between them a failed copy
removes it (`CopyFails`), but a failed `file.Open` leaves the file that has just been created, empty (`OpenFails`).
ComfyUI is cloned or unpacked next door and renamed, by what there is on the machine (`way`). To FFmpeg and ComfyUI there may be no way (`"none"`):
FFmpeg has no URL without `.env` or on macOS, and on Linux its archive is a `tar.xz`, which is not unpacked as a zip, while the check looks for an `.exe`;
ComfyUI's URLs are empty in the shipped `.env`.
`own` is a `llama-server` of the user's, in `llama.cpp/` or in the project's directory, both of which
the check accepts. The configuration is emptied and then written, with the name of the binary
that is there then; a run that cannot write it reaches its end all the same and says "Setup Complete!", which the
history `written` tells from one that could. `hurt` is history: the files that a cut-off or a failed `file.Open` has spoiled.

`GPUManager` is the list of GPUs, its replacement every five seconds, and `GetFreeGPU`, `GetLeastUsedGPU`
and `GetCoolestGPU` as loops over it, whose bodies (`MoreFree`, `LessUsed`, `Cooler`) are definitions of their own. A tool's output is a list of GPUs, none, or no answer. The monitor
asks for fewer columns than `Start`, so utilization and temperature are zero after its first turn.

`Deployment` puts them in a row: setup, then a server that loads, applies a preset, starts the GPU
manager and the models one by one, and starts its tickers. A division by zero in `assignGPUIDs`
and a ticker without an interval end it as a panic, what the code checks for as "fatal". Instances
that do not come up and a binary that is not there are one action, `StartModelFails`. `Given` is what a model's instances are
started with: of the section `llama` only the binary and `generation_batch`, the rest from the model's entry (`scheduler.go:66-73`).

### Faulty variants

Each module has, in a section before its actions, variants of single definitions with a
plausible bug (a dropped guard, a forgotten reset, an off-by-one). `mutants` in
`PROJECT.json` says which property each must break: putting the variant in place of the
definition makes TLC report exactly that property violated, so no property holds
for want of anything that could go wrong.

## 4. Runs

| run | configuration | what it shows |
|---|---|---|
| `serving_safety` | `MCServing.cfg` | eight properties of the serving path, among them the refinement |
| `serving_live` | `MCServing_live.cfg` | accepted requests are answered, instances come back, a shutdown ends |
| `lifecycle` | `MCInstanceLifecycle.cfg` | each instance in its pool once, one process per port, only ready instances at first, nothing left behind; the refinement of `Supervision`; a death is noticed, neither start nor stop hangs |
| `self_healing` | `MCSelfHealing.cfg` | what restarts leave intact: other objects' leases, and answers but for stalled streams |
| `kvcache` | `MCKVCache.cfg` | that the cache comes back under its limit, that entries without a file vanish |
| `media` | `MCMediaTasks.cfg` | frames of a video, directories left behind, the table of tasks, what ends the program, that tasks are answered, and once |
| `token_queues` | `MCTokenQueues.cfg` | order and completeness of the queues, that nobody is overtaken, and that requests are handed out |
| `deployment` | `MCDeployment.cfg` | what failed and cut-off runs of setup leave, what heals, and what a server makes of it |
| `batch_limit` | `MCServing_batch_limit.cfg` | *violated*: a batch larger than `max_batch_size` |
| `model_routing` | `MCServing_model_routing.cfg` | *violated*: a request served by another model than it names |
| `double_close` | `MCInstanceLifecycle_double_close.cfg` | *violated*: `StopCh` is closed twice |
| `kvcache_automatic` | `MCKVCache_automatic.cfg` | *violated*: an answered prompt that is not cached |

Properties of the serving path. `SendNeverBlocks`: whoever owes a response finds the channel
empty, and the handler has not returned a response, so the buffer of one is enough even
after a timeout. `OnePlace`: no request is in two batches. `ExclusiveLease`, `MutexInsideLease`:
`Busy` is a lease and the mutex is inside it. `Release` looks its pool up by the instance's model and does not
fall back to the default as `GetFree` does, so a release under the name that was asked for would leave `Busy` set, which
`ExclusiveLease` excludes. `LeasedFromRightPool`: a batch has an instance of the model that its *first* request names, or of the default model for
a blank or unknown name, whoever else is in it; a stream has one of the default model.
`NothingAcceptedIsLost`: an action property, per request. `AcceptedIsAnswered` holds although streams may stall:
a batch that finds no free instance is answered with errors. `InstanceComesBack` does not, and excepts them: a client that stops reading
keeps its instance.

Properties of processes. `EachInItsPool`: whatever starts an object, `StartAll`, a restart or its retry five seconds
later, puts it in the pool of its model, once; out of it no request would reach it and no check would see it die. `OneProcessPerPort` is not obvious: nothing keeps two restarts
of a slot apart but the panic of the second and the order of kill and start, and the ports of
models depend on how many instances the models before them have. `CleanShutdown`, which is proved and which `ImplementsSupervision` includes, is about shutdowns
that complete: after any restart `StopAll` closes a channel again and the program panics
(`double_close`), so the restarted process is left behind by the panic, not by a completed shutdown.
`ImplementsSupervision` adds what is between the states: which steps may start a process at all, and in which order a
slot's processes come. A slot is not started again while its old process lives, although the health checker starts
restarts without asking whether one runs, and main goes on to stop instances while restarts are under way.

Properties under restarts. `ExclusiveLease` and `InstanceComesBack` are gone: a restart gives the
instance away while it is in use, and what its users then release may be somebody else's lease.
`LeaseUntilRestart` says how far this goes: only to the object that is restarted.
`AcceptedIsAnswered` does not survive as it is: after a restart a batch may be given an object that a stream has, and wait for
the mutex of a stream whose client does not read. `AnsweredUnlessStalled` says that this is the only way: a request is answered unless the
program stops or a stalled stream shares its batch's object.
That `SendNeverBlocks`, `MutexInsideLease` and `ImplementsService` survive is proved (section 5).

Properties of the cache. `SizeConverges` is not obvious, as a cleanup evicts only one entry however far
the cache is above its limit, and a hit makes an entry young. `GhostsVanish`: a file that is
removed between `Set`'s look at it and the insertion leaves an entry without a file; it expires,
whether or not anybody asks for it again.

Properties of media calls. `OwnFrames`: a video has the frames of its own call, in order, unless the call met another
at the same files, the video's own among them; earlier calls of the same second or the same name, longer ones and failed ones leave nothing behind that gets into it.
For calls that met, the code promises nothing, and the run has videos of mixed frames: two compositions that leave
`output_name` blank meet at one file. `TempsRemoved`:
no directory is left without a call that uses it. `FoundUntilOld`: the ID of a registered task finds a task until it is old, itself
or one made in the same second, which has taken its place; the entry goes only when the task it was for is old.
`DiesInWorkerOnly`: a handler's panic leaves everything else alone, and the program dies only of the worker's.
`SubmittedIsAnswered`: no way a task ends skips its response, as long as the program lives and has a worker.
`TasksImplementService`: a task has one outcome, decided once, and its response carries that one.

Properties of the token schedulers. `KeptInOrder`: each queue has just the requests of its phase or priority
that nobody has been given, in the order of their arrival. `NoneOvertaken`: who is left when another is handed out is less urgent, or came
later, or is of the other phase, or of a priority that is never looked at. `HandedOut` has two exceptions, which are the code's: more urgent requests that
keep coming, and a priority outside 0 to 10, which is accepted and never looked at.

Properties of a deployment. `TruncatedOnlyWhenHurt`: a half-written file, which the next check would take for an installed
program, is left by a cut-off or by a failed `file.Open` of that very file; no other error does, in this run or a later
one. `GetsInstalled`: whatever went wrong before, a
missing program is installed in the end, except FFmpeg and ComfyUI where there is no way to them, and ComfyUI once it stands in its own way.
`SetupServes`: a run that has written the configuration has named in it a binary that is there if one is, also after
earlier failed runs, and nothing in it makes a server panic; of a run that could not write it nothing is claimed. `UserWins`: what
each model's instances are started with is what the user has set, and where that is blank, what the preset gives, if there is a
preset; the batcher gets the user's numbers or `Load`'s defaults, and a preset's never, because `Load` comes first
(`config.go:119-127`). `ChoosesBest`: from any list of GPUs, also one the monitor has
stripped of its measures, each choice is the first of the best that qualify, or none. The program has the choices and calls none of them:
instances get GPUs in turn.

### Bounds

`MCServing.cfg` has three requests, a queue of two, batches of two, one stream, two models with
one instance each. Three requests fill the queue and still leave one that is dropped, or make
a second batch while the first runs; one instance per model makes batches and streams compete;
the names are the second model, "default" (the fallback) and the empty string. Requests are
symmetric. Three million distinct states. `MCServing_live.cfg` has two requests
and no symmetry (190 thousand states). The violated runs set `MaxBatchSize = 1`.

`MCInstanceLifecycle.cfg` has three configurations: one model with an instance that may be started again
twice, so that a restarted object dies too; one model with two instances, which is what it takes for `StartAll` to fail
in the middle; two models with one each, for `Init` to fail at the second and for ports to be counted on.
164 thousand states. `MaxPending` bounds the number of restart goroutines an object has
waiting: two are what it takes to close a channel twice, and only `double_close` needs that. `MaxRestarts`
bounds the generations; at the bound a restart can still fail, so no goroutine is stuck by it
(`DeathIsNoticed` is stated below the bound).

`MCSelfHealing.cfg` has one request, one stream and one object that can be replaced once: a batch and a
stream are two users that a restart can bring together, on one object or on two with one port. 704
thousand states.

`MCKVCache.cfg` has two calls and two keys, one with a file that fits the limit exactly and one with a file
that is too large for it; an age has three values: just used, older, too old. 524 thousand states, two
minutes. With two calls every step of `Get` has another call, the cleanup and a change of the files
to interleave with.

`MCMediaTasks.cfg` has two tasks, a video and a composition, and a handler, which makes a video or a composition with audio;
two frames, two seconds, no place in the queue, and every choice of services: two frames are what a mixed or a left-over video needs, and
two seconds are what tells "in the same second" from "not". Both compositions leave their output name blank. The constraint `OneHandler` lets
one handler call, and a composition of its begin and end in the first second; what it cuts off are steps without fairness
(a call's beginning, the clock, the handler), so it takes nothing from `SubmittedIsAnswered`. A video and a composition of a handler, each beside a
task of either kind, are all the pairs that can meet. 559 thousand states, two and a half minutes.

`MCTokenQueues.cfg` has five clients and batches of two: three requests of one priority are one more than a
batch, one is of the last priority that is looked at and one of none that is. Four thousand states.

`MCDeployment.cfg` has all three programs, four configurations of the user's (the repository's, a sparse one,
one with a single model and an empty list of GPUs, one that names no preset there is), three lists of GPUs
with ties, and `MaxSetbacks = 2`: failures, cut-offs and refusals in any order, enough for a cut-off and a failure after it, or the other way round. 238 thousand states.

Deadlock is checked in every run: a program that has ended stutters by `Terminated` or `Ended`.
The cache always has its cleanup and its clock, a token scheduler its clock, and setup can always be run again.

### Fairness

Weak fairness of what the Go scheduler and timers bring about: a handler's `select` ends (its
timer does, if nothing else), the loop's steps, `Complete` (the mutex is handed over in turn and
the POST has a timeout of 30 minutes), sends, releases, the clock, the steps of a shutdown that
was begun. A stream ends by itself only while its client reads (`StreamGoesOn`): llama.cpp's stream is bounded, but nothing bounds
the write to a client that does not read, as `WriteTimeout` is 0 and the WebSocket has no deadline. No fairness of clients, of the operator's signal, of streams being asked for, or
of anything a llama.cpp process does: loading, recovering and crashing. In
`InstanceLifecycle` the end of the health checker's loop has strong fairness, because Go's `select`
chooses at random between `stopCh` and the ticker when both are ready. A GET without a timeout
that hangs is simply not enabled, so no fairness makes it return.

`SelfHealing` has the fairness of `Serving` and strong fairness of a worker's `Mu.Lock`: several
streams and batches may come and go on one object there, and Go's mutex is handed
to one that has waited for more than a millisecond. It has none of a restart or a process, so
`AnsweredUnlessStalled` does not rely on any.

`KVCache`: the ticker, time, and the steps of calls that have begun. Nobody need ask, and no file need appear.
A `Complete` that missed ends (its POST has a timeout), but nothing makes it end with content.

`MediaTasks`: tasks that have begun and the worker go on, and a submitter gets its
turn (strong fairness of `Enqueue`, because senders on a Go channel queue up). The calls of handlers need
not go on: no task waits for them. That a task goes on is the one assumption that depends on configuration: `WaitForCompletion` ends by ComfyUI's
answer or by the configured `timeout`, and each HTTP call by the same; a configuration that leaves
`timeout` at zero has no such bound, and then a ComfyUI that never answers blocks the worker for ever.

`TokenQueues`: somebody asks for batches again and again, and the clock goes on. Nobody need add anything,
or reply.

`Deployment`: a run of setup goes on, somebody runs setup again and again, and no server is left running meanwhile.
What goes wrong is bounded by `MaxSetbacks`, so only liveness relies on it ending. That a download goes on is an
assumption: the GETs of `cmd/setup/main.go:365`, `508` and `569` have no timeout, and a server that stops sending blocks the
run until its user cuts it off. Nothing makes the user edit or the server start.

## 5. Proofs

`Serving_proofs` proves, for every set of requests, streams, models and instances and every
queue and batch size:

* `Invariance`: `IInv`, that is `CoreInv` (`TypeOK`, `SendNeverBlocks`, `OnePlace`, `LocalState`,
  `MutexInsideLease`) and `ExclusiveLease`, is invariant; and, as corollaries `TypeCorrect`,
  `ResponsesNeverBlock`, `RequestsInOnePlace`, `LeasesAreExclusive` and
  `CriticalSectionsInsideLeases`, each of them is.
* `LeasesFromRightPool`: `LeasedFromRightPool`; `NothingLost`: `NothingAcceptedIsLost`.
* `Refinement`: `Serving` implements `RequestService`.

`SelfHealing_proofs` proves of the program with restarts:

* `HealingInvariance`: `HealingInv`, that is `CoreInv`, `HealingTypeOK` and `LeaseUntilRestart`, is
  invariant; `HealingTypeCorrect`, `ResponsesNeverBlockInRestarts`, `CriticalSectionsInRestarts` and
  `LeasesAreExclusiveUntilRestart` are its corollaries.
* `RequestsInOnePlaceInRestarts` (`OnePlace`), `LeasesFromRightPoolInRestarts` (`LeasedFromRightPool`) and
  `NothingLostInRestarts` (`NothingAcceptedIsLost`): what they say of the serving path holds with restarts too.
* `RefinementInRestarts`: `SelfHealing` implements `RequestService`.

`InstanceLifecycle_proofs` proves, for every set of configurations, every number of slots and restarts:

* `LifecycleInvariance`: `IInv` is invariant; and as corollaries `LifecycleTypeCorrect` (`TypeOK`),
  `PortsAreExclusive` (`OneProcessPerPort`), `MembersWereReady` (`FirstMembersReady`), `ShutdownIsClean`
  (`CleanShutdown`) and `FailedStartIsClean` (`CleanFailedStart`).
* `LifecycleSupervised`: `InstanceLifecycle` implements `Supervision`.

`MediaTasks_proofs` proves, for every set of calls and tasks, any number of frames,
seconds and places in the queue, and any names of the videos, the same or blank ones too:

* `TaskInvariance`: `TaskInv`, with `DirectoriesAreRemoved` (`TempsRemoved`), `TasksAreFound`
  (`FoundUntilOld`) and `OnlyTheWorkerEndsIt` (`DiesInWorkerOnly`);
* `FrameInvariance`: `FrameInv`, with `MediaTypeCorrect` (`TypeOK`) and `FramesAreOwn` (`OwnFrames`);
* `TasksRefineService`: `MediaTasks` implements `RequestService` (`TasksImplementService`).

`TokenQueues_proofs` proves, for every set of clients, their phases and priorities, and every size of batches:

* `QueuesInvariance`: `QueuesInv` is invariant, with `QueuesTypeCorrect` (`TypeOK`) and `QueuesKeptInOrder` (`KeptInOrder`);
* `NobodyOvertaken`: `NoneOvertaken`.

`Deployment_proofs` proves `DeploymentInvariance`, with `DeploymentTypeCorrect` (`TypeOK`), `TruncatedFilesWereHurt`
(`TruncatedOnlyWhenHurt`), `SetupIsServed` (`SetupServes`) and `UsersSettingsWin` (`UserWins`), for any
programs, configurations, lists of GPUs, presets and number of setbacks, and `BestGPUsAreChosen` (`ChoosesBest`), for a
list of any length. `KVCache_proofs` proves
`CacheTypeCorrect` (`TypeOK`), for any numbers of callers and keys.

Assumptions: those that the modules state about their constants (`BatcherAssumption`, `PoolAssumption`,
`ServingAssumption`, `TokenAssumption`, `PortAssumption`, `LifecycleAssumption`, `CacheAssumption`, `JobsAssumption`, `TasksAssumption`,
`ConfigurationAssumption`, `SetupAssumption`, `GPUAssumption`); TLC evaluates each of them in the runs of its module.
No proof uses fairness.

### The serving path

The argument. That a send never blocks is not inductive alone: a second worker of the same
request would send a second response. It needs that a request is in one place (`OnePlace`),
which in turn needs that a request nobody has submitted has left no trace and that the loop has
a batch only while it dispatches it (`LocalState`). That a request enters the queue
at most once is the only use of `client[r] = "idle"`. Exclusive leases follow, instance by instance
(`LeaseStep`), from `GetFree` finding an instance that is not busy, hence not leased, and from a
release being done by the one who holds the lease; `LeaseFrame` says that only four actions touch
leases. The mutex is inside the lease because a batch keeps its instance until all its
workers are done; that the lease is exclusive is not needed, so it is not in `CoreInv`. `NothingLost`
and `Refinement` are step lemmas over `CoreInv`: an action that takes a request out of service is the
one that fills its channel. For `LeasedFromRightPool` the pools need to hold objects of their own model only
(`OwnPools`), which a restart's new object keeps up. `QueueLemmas` has the facts about `Append`, `Tail`, pieces and injective
sequences that these proofs cite, and those about loops of section "Deployment".

### Restarts

`HealingFrame` splits a step into one of `Serving`, for which the lemmas above are cited,
and one that leaves requests and streams alone (`RequestVars`). What is left to show is
the types, where a new object joins its pool (`JoinPool`), and the leases: `UntouchedStep` says that a step
after which an object is still untouched by restarts has not changed its `Busy`. That is why the
properties hold for a stream or a batch that loses its lease half way. The queue, the batches and the channels are
among `RequestVars`, so nothing is lost; a new object joins the pool of its model.

### The instances' lives

None of the five properties is inductive. That ports are exclusive needs `Ports` (the ports of created
objects of different slots differ, and all are below the one `Init` is at) and `Generations`: all objects of a
slot before the newest have been replaced, hence killed, and an object that is being replaced is dead, so only the newest can live. `Progress` says
which objects `Init` has created when it is at instance `at` of `model`; `PoolsCreated`, that pools and the
health checker's copies hold created objects; `QuietUntilUp`, that there is no restart before `Init` has returned.
`AwaitedAreReady` is what `FirstMembersReady` needs of the loop that waits, and `Stops` what `CleanShutdown` and
`CleanFailedStart` need of `StopAll` and of the cleanup: what main has passed over is dead. A restart of an
instance makes `StopAll` panic on its first object, which is why a shutdown that completes has only first objects to stop.

The refinement of `Supervision` is a lemma for each kind of step. `DeathStep` is about a step that can only end one process,
`QuietAbstractStep` about one that does neither end nor start any. `FirstStartStep` and `StartAgainStep` need `Generations`: main
creates the first object of a slot that has none, and a restart of `o` makes the generation after the last, when all others
have been replaced and `o` itself is dead. `ServeStep` is `Progress`, `EndStep` is `CleanShutdown`.

### Media calls

`TaskInv` has in it that a call keeps to the services it began with (`AsBegun`) and that only the worker's task goes on
(`OneAtATime`): who dies where follows. `FrameInv` adds how far each call has come (`Counts`), that calls which use the
same files have met (`HaveMet`), and, for a call that has met no other, what is in each of its files at each state
(`Frames`). A step of another call (`OthersFrames`) cannot change a file of such a call without having met it;
its own step (`OwnStep`) builds the directory frame by frame. A new directory is empty because directories
are removed by the last call that uses them (`TempsRemoved`). `OwnSequence` computes what ffmpeg reads of such a directory,
`SequenceType` what it reads of any (the least and the greatest element of a set come from the library's `WFMin`).

For the refinement, `AnswerInv` ties a task's answer to its status: the queue has each task once at most, what is in it (`Queued`) has not been begun, the worker's
is the only one between outcome and answer, and none that was answered is ever worked on again.

### The token schedulers

`KeptInOrder` with the types and `Unused` (the queues of the scheduler that is not used are empty) is inductive. A request that is added
comes after all that wait (`JoinsInOrder`); what stays in a queue when a batch is cut off its head (`Cut`, `RestInOrder`) or when other
queues change (`StaysInOrder`) keeps its order. `NoneOvertaken` follows in each state: the batch is a piece of the queue from its beginning.

### Deployment

`OnlyWhileWritten` is `TruncatedOnlyWhenHurt` for the directory that is written (`ComfyUI-temp` is
renamed), `Binaries` the first half of `SetupServes`. `ConfigurationsAgree` keeps what a server read, what it has made of it and where it
is in step; that presets and defaults fill settings field by field (`DefaultsFields`, `PresetFields`) gives `UserWins`.

`ChoosesBest` is about loops of any length. `StepByStep` of `QueueLemmas` goes from each number to the next, by the least counterexample
(`WFMin`), so it takes a set and no operator; with it `PassExists` shows that a loop's intermediate results exist, and
`PassKeepsFirst` that a loop which replaces its result only by something better (`Keeps`) ends with the first of the best. The three
loops of the GPU manager are shown to be such. `ChoosesBest` asks for one place before which all
are worse, and not for the least index of the chosen GPU: a list may have one GPU twice.

### The cache

That `Set` finds an entry nobody uses (`SomeEntryIsFree`) is a count: the map and the other callers together
use fewer entries than there are.

### Only model-checked

All liveness: the prover has no rule for fairness. The properties of the violated runs, which are false, and `EachInItsPool`. Every other state invariant, action property and
refinement that a passing run checks is proved. The other way round, the types of `InstanceLifecycle`, `TokenQueues` and `SelfHealing` and `CleanShutdown`
are proved and no run of their own checks them.

## 6. Findings

* `scheduler.go:164`: a batch goes to the model of its first request; documents promise
  several models (README.md:11) selected by `model` (STREAMING_API_GUIDE.md:32).
* `batcher.go:65`: a flush takes the whole queue, so a batch can exceed `max_batch_size`
  (README.md:109) when `queue_size` is larger; the shipped configuration has it smaller.
* `runner.go:371`: an object that is stopped twice panics; the pool keeps stopped objects, so the
  next health check or `StopAll` does it. FIXES_SUMMARY.md:305 counts this as fixed; its lines 89-101 are about the channels of
  `gpu.go` and `scheduler.go`, and `Stop` of an instance was left as it is.
* `runner.go:251`: after a miss `Set` is called only if the cache file exists already, and nothing in the
  program writes one; README.md:12 promises that prompts are cached automatically.

Seen while modelling, and no run of its own, since nothing in the repository states the opposite in a form a
property could have, or because an exception in a property already names it:

* `cmd/setup/main.go:547`: `os.Rename` of ComfyUI onto a directory that exists fails, its error is dropped, and the
  run says that ComfyUI is installed (an exception in `GetsInstalled`).
* A `llama-server` truncated by a cut-off run counts as installed from then on (`cmd/setup/main.go:197`), and so does the empty
  one that a failed `file.Open` leaves (line 670).
* `cmd/setup/main.go:112`: a run that could not write the configuration says "Setup Complete!" too.
* `server.go:56`: a streaming client that stops reading keeps an instance for as long as it likes.
* `scheduler.go:244`: a restarted instance is given GPU 0, since nothing stores the one it had.
* `scheduler.go:76`: of two models with one name, the first one's processes are never stopped.
* `cmd/setup/main.go:199`: a `llama-server` in the project's directory counts as installed, but the configuration names
  one in `llama.cpp/` (`SetupServes` speaks of those).
* `cmd/setup/main.go:365`, the download of llama.cpp, has no timeout; FIXES_SUMMARY.md:36 says ten minutes. Only the
  client of FFmpeg's download (line 394) has one.
* `LLAMA_CPP_DOWNLOAD_LINUX` and `..._MAC` of `.env` reach `downloadURL` (`cmd/setup/main.go:327`), which both
  branches then overwrite with a URL of a Windows build (lines 349, 353 and 358); the shipped `.env` leaves the URLs of ComfyUI empty, and then it is not installed.
* Setup writes its configuration over one that the user has edited.
* The setting `scheduling` (README.md:75) is read and never used: GPUs are given out in turn.
* `Load` gives the batcher its defaults before a preset is applied, so a preset's batcher settings never count.
* The monitor's list of GPUs has no utilization and no temperature (README.md:294 shows 75 percent), so after five
  seconds `GetLeastUsedGPU` and `GetCoolestGPU` take the first.
* `runner.go:412`: an instance that is not ready in time makes `StartAll` return and leaves all its processes;
  `scheduler.go:80`: so does `Init` with the models before one that fails. `CleanFailedStart` excludes both.

## 7. Not modelled

Formatting of prompts and responses, SSE parsing, bodies of requests, `/health`, `/stats` and `/models`, contents of
workflows, logging: they change no state and no property is about them. These operations without a caller are left out:
`ForceFlush`, `ReleaseToAny`, `GetByID`, `GetQueue`, the FFmpeg wrapper's other operations, the `Stop` of the GPU and of the multimodal
manager. Four without a caller are modelled, because they have an interface with behaviour worth checking and the code
keeps state for them: the token schedulers, `SubmitTask` with `GetTask` (whose worker the program does start), and the GPU manager's three choices. `GetStats` and `GetAll` only read.

Of the setup program: the detection of GPU and CUDA, which picks a URL and a number; macOS, where
the installer leaves nothing in the project. Of the GPU manager: the parsing of what the tools print. Of the configuration:
YAML, and the numbers in the presets.

Of the modelled components: the files of single images, which no call reads and which two calls of one second
overwrite; `DoneCh`, which decides only how long `Stop` takes. The second in `ImagesToVideo`'s directory name and the one in the name of the video are
read a moment apart and are one in the model. The loop may end with requests in the queue (`scheduler.go:150`): their handlers wait until
`main` returns, by design of `Stop`, and `AcceptedIsAnswered` excepts them. Two models of one name and the GPU an instance uses (see
`InstanceLifecycle`) are outside of the model. Keys of the cache are model values, so two prompts
with one hash do not occur; the cache would then hold the file of the other.
