----------------------------- MODULE MediaTasks -----------------------------
(***************************************************************************)
(* internal/multimodal/manager.go: the handlers of the HTTP API, which     *)
(* call the manager directly, and the task queue with its one worker.  In  *)
(* the program nobody submits tasks yet, so the submitters are whoever     *)
(* uses SubmitTask as it is meant to be used.                              *)
(*                                                                         *)
(* A task is found in a table under its ID, the second it was made in.     *)
(* cleanupOldTasks goes through that table without the mutex; in Go a      *)
(* write to a map that is being gone through may end the program.          *)
(***************************************************************************)
EXTENDS MediaJobs

CONSTANTS Tasks,     \* the jobs that are tasks; handlers do the others
          QueueSize  \* ComfyUIConfig.QueueSize

ASSUME TasksAssumption == Tasks \subseteq Jobs /\ QueueSize \in Nat

VARIABLES alive,   \* the program has not been ended by its runtime
          submit,  \* where the submitter of a task is
          id,      \* the task's ID
          table,   \* Manager.tasks
          queue,   \* Manager.queue, with the task a waiting worker is being handed
          worker,  \* what processQueue does
          cur,     \* its task
          status,  \* Task.Status
          old,     \* the tasks completed more than maxCompletedAge ago
          resp     \* the tasks with a response in their ResponseCh

taskVars == <<alive, submit, id, table, queue, worker, cur, status, old, resp>>
vars == <<jobVars, taskVars>>

Over == {"completed", "failed"}

TypeOK == /\ MediaTypeOK
          /\ alive \in BOOLEAN
          /\ submit \in [Tasks -> {"none", "made", "sending", "sent"}]
          /\ id \in [Tasks -> Seconds]
          /\ table \in [Seconds -> Tasks \cup {NoJob}]
          /\ queue \in Seq(Tasks) /\ Len(queue) <= QueueSize + 1
          /\ worker \in {"waiting", "working", "cleaning", "answering"}
          /\ cur \in Tasks \cup {NoJob}
          /\ (cur = NoJob) = (worker = "waiting")
          /\ status \in [Tasks -> {"pending", "processing"} \cup Over]
          /\ old \in SUBSET {t \in Tasks : status[t] \in Over}
          /\ resp \in SUBSET Tasks

Init == /\ MediaInit
        /\ alive = TRUE
        /\ submit = [t \in Tasks |-> "none"]
        /\ id = [t \in Tasks |-> 0]
        /\ table = [s \in Seconds |-> NoJob]
        /\ queue = <<>>
        /\ worker = "waiting"
        /\ cur = NoJob
        /\ status = [t \in Tasks |-> "pending"]
        /\ old = {}
        /\ resp = {}

-----------------------------------------------------------------------------
(* Users of the manager *)

\* handleImageGenerate, handleVideoGenerate, handleComposeVideo, handleUpscaleImage
Handle(j) == j \notin Tasks /\ Begin(j) /\ UNCHANGED taskVars

NewTask(t) == /\ submit[t] = "none"
              /\ submit' = [submit EXCEPT ![t] = "made"]
              /\ id' = [id EXCEPT ![t] = clock]
              /\ UNCHANGED <<jobVars, alive, table, queue, worker, cur, status, old, resp>>

\* The first half of SubmitTask.  The mutex does not keep cleanupOldTasks out.
Register(t) ==
    /\ submit[t] = "made"
    /\ \/ /\ submit' = [submit EXCEPT ![t] = "sending"]
          /\ table' = [table EXCEPT ![id[t]] = t]
          /\ UNCHANGED alive
       \/ /\ worker = "cleaning"
          /\ alive' = FALSE
          /\ UNCHANGED <<submit, table>>
    /\ UNCHANGED <<jobVars, id, queue, worker, cur, status, old, resp>>

\* Faulty: tasks that are appended to a slice.
NoBound == Len(queue) + 1

\* Start starts no worker if there is nothing it could do.
HasWorker == services # {}

\* The second half: room is the buffer of the channel and a receiver that waits.
Room == QueueSize + (IF worker = "waiting" /\ HasWorker THEN 1 ELSE 0)

Enqueue(t) == /\ submit[t] = "sending"
              /\ Len(queue) < Room
              /\ submit' = [submit EXCEPT ![t] = "sent"]
              /\ queue' = Append(queue, t)
              /\ UNCHANGED <<jobVars, alive, id, table, worker, cur, status, old, resp>>

\* Faulty: finished tasks are removed whatever their age.
OldOrNot == {s \in Seconds : table[s] # NoJob /\ status[table[s]] \in Over}

\* The entries that are due: of tasks that were over more than maxCompletedAge ago.
OldEntries == {s \in Seconds : table[s] # NoJob /\ status[table[s]] \in Over
                               /\ table[s] \in old}

\* GetTask changes nothing, but it reads the map that cleanupOldTasks deletes from.
GetTask == /\ worker = "cleaning" /\ OldEntries # {}
           /\ alive' = FALSE
           /\ UNCHANGED <<jobVars, submit, id, table, queue, worker, cur, status, old, resp>>

-----------------------------------------------------------------------------
(* Faulty variants of the definitions below: each breaks a property (README). *)

\* Calls that are made outside net/http, which recovers.
NobodyRecovers(j) == NilFFmpeg(j)

\* A failed task keeps the status it had.
CompleteSuccessOnly ==
    /\ worker = "working" /\ Finished(cur)
    /\ status' = IF pc[cur] = "done" THEN [status EXCEPT ![cur] = "completed"] ELSE status
    /\ worker' = "cleaning"
    /\ UNCHANGED <<jobVars, alive, submit, id, table, queue, cur, old, resp>>

\* A failed task is given no response.
AnswerSuccessOnly == /\ worker = "answering"
                     /\ resp' = IF status[cur] = "completed" THEN resp \cup {cur} ELSE resp
                     /\ worker' = "waiting"
                     /\ cur' = NoJob
                     /\ UNCHANGED <<jobVars, alive, submit, id, table, queue, status, old>>

-----------------------------------------------------------------------------
(* processQueue *)

Take == /\ HasWorker /\ worker = "waiting" /\ queue # <<>>
        /\ cur' = Head(queue)
        /\ queue' = Tail(queue)
        /\ worker' = "working"
        /\ status' = [status EXCEPT ![Head(queue)] = "processing"]
        /\ Begin(Head(queue))
        /\ UNCHANGED <<alive, submit, id, table, old, resp>>

Complete == /\ worker = "working" /\ Finished(cur)
            /\ status' = [status EXCEPT ![cur] = IF pc[cur] = "done" THEN "completed"
                                                                     ELSE "failed"]
            /\ worker' = "cleaning"
            /\ UNCHANGED <<jobVars, alive, submit, id, table, queue, cur, old, resp>>

CleanupOldTasks == /\ worker = "cleaning"
                   /\ table' = [s \in Seconds |-> IF s \in OldEntries THEN NoJob ELSE table[s]]
                   /\ worker' = "answering"
                   /\ UNCHANGED <<jobVars, alive, submit, id, queue, cur, status, old, resp>>

Answer == /\ worker = "answering"
          /\ resp' = resp \cup {cur}
          /\ worker' = "waiting"
          /\ cur' = NoJob
          /\ UNCHANGED <<jobVars, alive, submit, id, table, queue, status, old>>

-----------------------------------------------------------------------------
\* The next second in which something happens may be many minutes away.
Tick == /\ clock < MaxSecond
        /\ clock' = clock + 1
        /\ old' \in {old, {t \in Tasks : status[t] \in Over}}
        /\ UNCHANGED <<services, pc, count, got, sec, fileVars, met>>
        /\ UNCHANGED <<alive, submit, id, table, queue, worker, cur, status, resp>>

\* net/http recovers the panic of a handler; one of the worker ends the program.
EndsProgram(j) == NilFFmpeg(j) /\ j \in Tasks

Job(j) == /\ JobStep(j)
          /\ alive' = ~EndsProgram(j)
          /\ UNCHANGED <<submit, id, table, queue, worker, cur, status, old, resp>>

Worker == Take \/ Complete \/ CleanupOldTasks \/ Answer

\* Everybody is done, or the program has died, or nobody serves the queue.
Ended == /\ \/ ~alive \/ ~HasWorker
            \/ /\ \A j \in Jobs : Finished(j)
               /\ worker = "waiting" /\ clock = MaxSecond
         /\ UNCHANGED vars

Next == \/ /\ alive
           /\ \/ \E j \in Jobs : Handle(j) \/ Job(j)
              \/ \E t \in Tasks : NewTask(t) \/ Register(t) \/ Enqueue(t)
              \/ GetTask \/ Worker \/ Tick
        \/ Ended

Spec == Init /\ [][Next]_vars

\* Tasks and the worker go on: ComfyUI's answers are waited for with a timeout, if the
\* configuration has one, and ffmpeg ends.  Nothing makes anybody ask, and no task waits
\* for the calls of handlers.
Fairness == /\ WF_vars(alive /\ Worker)
            /\ \A t \in Tasks : WF_vars(alive /\ Job(t)) /\ WF_vars(alive /\ Register(t))
            /\ \A t \in Tasks : SF_vars(alive /\ Enqueue(t))

FairSpec == Spec /\ Fairness

-----------------------------------------------------------------------------
(* Properties *)

\* The ID of a registered task finds a task, from its registration until long after its
\* end: the task itself, or one that was made in the same second (config.go:137) and has
\* taken its place; the entry goes only when the task it was for is old.
FoundUntilOld ==
    \A t \in Tasks : submit[t] \in {"sending", "sent"} =>
        \E u \in Tasks : /\ submit[u] \in {"sending", "sent"} /\ id[u] = id[t]
                         /\ table[id[t]] = u \/ u \in old

\* No call can end the program but the worker's: a handler that fails, or panics, leaves
\* every other call and every task alone.  The program dies in the worker only, of a
\* video without ffmpeg, or of its going through the table (manager.go:126, 211).
DiesInWorkerOnly ==
    [][alive /\ ~alive' => \/ worker = "cleaning"
                          \/ /\ worker = "working" /\ Kind[cur] = "video"
                             /\ services = {"comfyui"}]_vars

\* A submitted task ends and has its response, whatever the tasks before it came to,
\* unless the program dies or neither service is enabled: then there is no worker, and
\* SubmitTask does not return once the queue is full (manager.go:53).
SubmittedIsAnswered ==
    \A t \in Tasks : submit[t] = "made" ~> t \in resp \/ ~alive \/ ~HasWorker

\* What there is for whoever submitted a task: the response on its channel, of which only
\* the status says whether it is one of a success.
Outcome(t) == IF t \notin resp THEN "empty"
              ELSE IF status[t] = "completed" THEN "ok"
              ELSE IF status[t] = "failed" THEN "error"
              ELSE status[t]

\* The queue and its worker implement, for the tasks that SubmitTask has sent, the service
\* that the handlers of texts have: at most one response to each, only to what was sent,
\* once its outcome is decided, which no later step changes (manager.go:83-124, 291-297).
Submission == INSTANCE RequestService
                WITH Requests <- Tasks,
                     state <- [t \in Tasks |-> IF submit[t] = "sent" THEN "waiting" ELSE "idle"],
                     reply <- [t \in Tasks |-> Outcome(t)]
TasksImplementService == Submission!ServiceSpec

=============================================================================
