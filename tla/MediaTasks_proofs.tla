-------------------------- MODULE MediaTasks_proofs --------------------------
(***************************************************************************)
(* For all jobs, tasks, frames, seconds and queue sizes: directories do    *)
(* not pile up (TempsRemoved), a task is found under its ID                *)
(* (FoundUntilOld), and what ends the program (DiesInWorkerOnly); then the *)
(* types, and that the video of a call that met no other has the frames of *)
(* the call (OwnFrames); and that who submits a task gets one answer, the  *)
(* outcome of its call, as RequestService promises.                        *)
(***************************************************************************)
EXTENDS MediaTasks, QueueLemmas

-----------------------------------------------------------------------------
(* The invariant *)

\* The part of the types that the proofs need.
WeakTypes == /\ services \in SUBSET {"comfyui", "ffmpeg"}
             /\ clock \in Seconds
             /\ pc \in [Jobs -> JobStates]
             /\ sec \in [Jobs -> Seconds]
             /\ submit \in [Tasks -> {"none", "made", "sending", "sent"}]
             /\ id \in [Tasks -> Seconds]
             /\ DOMAIN table = Seconds
             /\ queue \in Seq(Tasks)
             /\ status \in [Tasks -> {"pending", "processing"} \cup Over]
             /\ old \subseteq Tasks

\* A call that goes on has the service it began with, and makes videos or not.
AsBegun == \A j \in Jobs :
    /\ pc[j] \notin {"idle", "done", "failed"} => Needs(j) \in services
    /\ pc[j] \in {"prompt", "poll", "download"} => Kind[j] # "compose"
    /\ pc[j] = "mkdir" => IsVideo(j)

\* The worker's task is the only one that goes on; only what is over is old.
OneAtATime == \A t \in Tasks :
    /\ pc[t] \notin {"idle", "done", "failed"} => worker = "working" /\ cur = t
    /\ pc[t] = "idle" => status[t] \notin Over
    /\ t \in old => status[t] \in Over

\* The steps of a call, its beginning among them.
Step(j) == Begin(j) \/ JobStep(j)

-----------------------------------------------------------------------------
(* What a step of a call does to it and to the others *)

LEMMA StepMoves ==
    ASSUME WeakTypes, NEW j \in Jobs, Step(j)
    PROVE  /\ \E state \in JobStates \ {"idle"} : pc' = [pc EXCEPT ![j] = state]
           /\ \E s \in Seconds : sec' = [sec EXCEPT ![j] = s]
           /\ pc[j] \notin {"done", "failed"}
           /\ services' = services
<1> USE DEF WeakTypes, JobStates
<1>1. sec[j] \in Seconds /\ (sec' = sec => sec' = [sec EXCEPT ![j] = sec[j]])
  OBVIOUS
<1>z. 0 \in Seconds
  BY JobsAssumption DEF Seconds
<1>2. CASE Begin(j)
  BY <1>1, <1>2 DEF Begin, Goto
<1>3. CASE QueuePrompt(j)
  BY <1>1, <1>z, <1>3 DEF QueuePrompt, Goto, Fail, Return
<1>4. CASE WaitForCompletion(j)
  BY <1>1, <1>z, <1>4 DEF WaitForCompletion, Goto, Fail, Return
<1>5. CASE DownloadImage(j)
  BY <1>1, <1>z, <1>5 DEF DownloadImage, Goto, Fail, Return
<1>6. CASE MakeWorkDir(j)
  BY <1>6 DEF MakeWorkDir, Goto
<1>7. CASE MakeWorkDirPanics(j)
  BY <1>z, <1>7 DEF MakeWorkDirPanics, NilFFmpeg, Fail, Return, Goto
<1>8. CASE CopyFrame(j)
  BY <1>1, <1>8 DEF CopyFrame, CopyGoesOn, Goto
<1>9. CASE Encode(j)
  BY <1>1, <1>9 DEF Encode, Goto
<1>10. CASE RemoveWorkDir(j)
  BY <1>1, <1>z, <1>10 DEF RemoveWorkDir, Return, Goto
<1>11. CASE AddAudio(j)
  BY <1>1, <1>z, <1>11 DEF AddAudio, Return, Goto
<1> QED
  BY <1>2, <1>3, <1>4, <1>5, <1>6, <1>7, <1>8, <1>9, <1>10, <1>11 DEF Step, JobStep

LEMMA StepTypes ==
    ASSUME WeakTypes, NEW j \in Jobs, Step(j)
    PROVE  /\ pc' \in [Jobs -> JobStates] /\ sec' \in [Jobs -> Seconds]
           /\ services' = services
<1>1. PICK state \in JobStates : pc' = [pc EXCEPT ![j] = state]
  BY StepMoves
<1>2. PICK s \in Seconds : sec' = [sec EXCEPT ![j] = s]
  BY StepMoves
<1> QED
  BY <1>1, <1>2, StepMoves DEF WeakTypes

\* A directory is there as long as a call that uses it.
LEMMA StepKeepsDirs ==
    ASSUME WeakTypes, TempsRemoved, NEW j \in Jobs, Step(j)
    PROVE  TempsRemoved'
<1> SUFFICES ASSUME NEW s \in dirs'
             PROVE  \E k \in Jobs : pc'[k] \in Copying /\ sec'[k] = s
  BY DEF TempsRemoved, UsingDir
<1>1. \A k \in Jobs \ {j} : pc'[k] = pc[k] /\ sec'[k] = sec[k]
  BY StepMoves DEF WeakTypes
<1>2. CASE MakeWorkDir(j) /\ s = clock
  <2>1. pc'[j] = "copy" /\ sec'[j] = s
    BY <1>2 DEF MakeWorkDir, Goto, WeakTypes
  <2> QED
    BY <2>1 DEF Copying
<1>3. CASE ~(MakeWorkDir(j) /\ s = clock)
  <2>1. s \in dirs
    BY <1>3 DEF Step, JobStep, Begin, QueuePrompt, WaitForCompletion, DownloadImage, MakeWorkDir,
                MakeWorkDirPanics, CopyFrame, Encode, RemoveWorkDir, AddAudio, Fail, fileVars
  <2>2. PICK k \in Jobs : pc[k] \in Copying /\ sec[k] = s
    BY <2>1 DEF TempsRemoved, UsingDir
  <2>3. CASE k # j
    BY <1>1, <2>2, <2>3
  <2>4. CASE k = j /\ (CopyFrame(j) \/ Encode(j))
    <3>1. pc'[j] \in Copying /\ sec'[j] = sec[j]
      BY <2>2, <2>4 DEF CopyFrame, CopyGoesOn, Encode, Goto, Copying, WeakTypes
    <3> QED
      BY <2>2, <2>4, <3>1
  <2>5. CASE k = j /\ RemoveWorkDir(j)
    BY <2>2, <2>5 DEF RemoveWorkDir
  <2> QED
    BY <2>2, <2>3, <2>4, <2>5
       DEF Step, JobStep, Begin, QueuePrompt, WaitForCompletion, DownloadImage, MakeWorkDir,
           MakeWorkDirPanics, NilFFmpeg, AddAudio, Copying
<1> QED
  BY <1>2, <1>3

\* A call keeps to what it began as.
LEMMA StepAsBegun ==
    ASSUME WeakTypes, AsBegun, NEW j \in Jobs, Step(j)
    PROVE  AsBegun'
<1>1. services' = services /\ \A k \in Jobs \ {j} : pc'[k] = pc[k]
  BY StepMoves DEF WeakTypes
<1>2. /\ pc'[j] \notin {"idle", "done", "failed"} => Needs(j) \in services
      /\ pc'[j] \in {"prompt", "poll", "download"} => Kind[j] # "compose"
      /\ pc'[j] = "mkdir" => IsVideo(j)
  <2> USE DEF AsBegun, WeakTypes, IsVideo
  <2>1. CASE Begin(j)
    BY <2>1 DEF Begin, Goto
  <2>2. CASE QueuePrompt(j)
    BY <2>2 DEF QueuePrompt, Goto, Fail, Return
  <2>3. CASE WaitForCompletion(j)
    BY <2>3 DEF WaitForCompletion, Goto, Fail, Return
  <2>4. CASE DownloadImage(j)
    BY <2>4 DEF DownloadImage, Goto, Fail, Return
  <2>5. CASE MakeWorkDir(j)
    BY <2>5 DEF MakeWorkDir, Goto
  <2>6. CASE MakeWorkDirPanics(j)
    BY <2>6 DEF MakeWorkDirPanics, NilFFmpeg, Fail, Return, Goto
  <2>7. CASE CopyFrame(j)
    BY <2>7 DEF CopyFrame, CopyGoesOn, Goto
  <2>8. CASE Encode(j)
    BY <2>8 DEF Encode, Goto
  <2>9. CASE RemoveWorkDir(j)
    BY <2>9 DEF RemoveWorkDir, Return, Goto
  <2>10. CASE AddAudio(j)
    BY <2>10 DEF AddAudio, Return, Goto
  <2> QED
    BY <2>1, <2>2, <2>3, <2>4, <2>5, <2>6, <2>7, <2>8, <2>9, <2>10 DEF Step, JobStep
<1> QED
  BY <1>1, <1>2 DEF AsBegun, Needs, IsVideo

\* A call that goes on had begun and was not over.
LEMMA JobStepGoesOn == ASSUME NEW j \in Jobs, JobStep(j)
                       PROVE  pc[j] \notin {"idle", "done", "failed"}
BY DEF JobStep, QueuePrompt, WaitForCompletion, DownloadImage, MakeWorkDir, MakeWorkDirPanics,
       NilFFmpeg, CopyFrame, Encode, RemoveWorkDir, AddAudio

-----------------------------------------------------------------------------
(* The tasks and their worker *)

TaskInv == WeakTypes /\ AsBegun /\ OneAtATime /\ TempsRemoved /\ FoundUntilOld

LEMMA TaskInit == Init => TaskInv
<1> SUFFICES ASSUME Init PROVE TaskInv
  OBVIOUS
<1>1. WeakTypes
  BY JobsAssumption DEF Init, MediaInit, WeakTypes, JobStates, Seconds
<1>2. AsBegun /\ TempsRemoved /\ FoundUntilOld
  BY TasksAssumption DEF Init, MediaInit, AsBegun, TempsRemoved, FoundUntilOld
<1>3. OneAtATime
  BY TasksAssumption DEF Init, MediaInit, OneAtATime, Over
<1> QED
  BY <1>1, <1>2, <1>3 DEF TaskInv

\* What is found stays, as long as the table, the IDs and who is old do.
LEMMA FoundFrame ==
    ASSUME FoundUntilOld, UNCHANGED <<submit, id, table>>, old \subseteq old'
    PROVE  FoundUntilOld'
BY DEF FoundUntilOld

\* No step of a call is one of a task, but of the worker's.
LEMMA CallStep ==
    ASSUME TaskInv, NEW j \in Jobs,
           \/ Handle(j)
           \/ Job(j)
    PROVE  TaskInv'
<1> USE DEF TaskInv
<1>1. Step(j) /\ UNCHANGED <<submit, id, table, queue, worker, cur, status, old, resp>>
  BY DEF Handle, Job, Step, taskVars
<1>2. clock' = clock
  BY DEF Handle, Job, JobStep, Begin, QueuePrompt, WaitForCompletion, DownloadImage, MakeWorkDir,
         MakeWorkDirPanics, CopyFrame, Encode, RemoveWorkDir, AddAudio, Fail
<1>3. WeakTypes'
  BY <1>1, <1>2, StepTypes DEF WeakTypes
<1>4. AsBegun' /\ TempsRemoved'
  BY <1>1, StepAsBegun, StepKeepsDirs
<1>5. OneAtATime'
  <2>1. j \in Tasks => pc[j] \notin {"idle", "done", "failed"}
    BY JobStepGoesOn DEF Handle, Job
  <2>2. pc'[j] # "idle" /\ \A k \in Jobs \ {j} : pc'[k] = pc[k]
    BY <1>1, StepMoves DEF WeakTypes
  <2> QED
    BY <1>1, <2>1, <2>2, TasksAssumption DEF OneAtATime
<1>6. FoundUntilOld'
  BY <1>1, FoundFrame
<1> QED
  BY <1>3, <1>4, <1>5, <1>6

LEMMA SubmitterStep ==
    ASSUME TaskInv, NEW t \in Tasks, NewTask(t) \/ Register(t) \/ Enqueue(t)
    PROVE  TaskInv'
<1> USE DEF TaskInv
<1>1. UNCHANGED <<jobVars, worker, cur, status, old>>
  BY DEF NewTask, Register, Enqueue
<1>2. AsBegun' /\ TempsRemoved' /\ OneAtATime'
  BY <1>1 DEF jobVars, fileVars, AsBegun, TempsRemoved, UsingDir, OneAtATime
<1>3. WeakTypes' /\ FoundUntilOld'
  <2>1. CASE NewTask(t)
    BY <1>1, <2>1 DEF NewTask, WeakTypes, FoundUntilOld, jobVars
  <2>2. CASE Register(t)
    <3>1. WeakTypes'
      BY <1>1, <2>2 DEF Register, WeakTypes, jobVars
    <3>2. CASE UNCHANGED <<submit, table>>
      BY <2>2, <3>2, <1>1, FoundFrame, <3>1 DEF Register
    <3>3. CASE table' = [table EXCEPT ![id[t]] = t]
      BY <1>1, <2>2, <3>1, <3>3 DEF Register, WeakTypes, FoundUntilOld
    <3> QED
      BY <2>2, <3>2, <3>3 DEF Register
  <2>3. CASE Enqueue(t)
    BY <1>1, <2>3 DEF Enqueue, WeakTypes, FoundUntilOld, jobVars
  <2> QED
    BY <2>1, <2>2, <2>3
<1> QED
  BY <1>2, <1>3

LEMMA WorkerStep ==
    ASSUME TaskInv, Worker
    PROVE  TaskInv'
<1> USE DEF TaskInv
<1>1. CASE Take
  <2> DEFINE t == Head(queue)
  <2>1. t \in Tasks /\ t \in Jobs /\ Step(t) /\ queue' \in Seq(Tasks)
    BY <1>1, TasksAssumption DEF Take, WeakTypes, Step
  <2>2. pc[t] = "idle" /\ worker' = "working" /\ cur' = t /\ worker = "waiting"
    BY <1>1 DEF Take, Begin
  <2>3. UNCHANGED <<clock, submit, id, table, old>> /\ status' = [status EXCEPT ![t] = "processing"]
    BY <1>1 DEF Take, Begin
  <2> HIDE DEF t
  <2>4. WeakTypes'
    BY <2>1, <2>3, StepTypes DEF WeakTypes, Over
  <2>5. AsBegun' /\ TempsRemoved'
    BY <2>1, StepAsBegun, StepKeepsDirs
  <2>6. OneAtATime'
    <3>1. pc'[t] # "idle" /\ \A k \in Jobs \ {t} : pc'[k] = pc[k]
      BY <2>1, StepMoves DEF WeakTypes
    <3>2. t \notin old
      BY <2>1, <2>2 DEF OneAtATime
    <3> QED
      BY <2>1, <2>2, <2>3, <3>1, <3>2, TasksAssumption DEF OneAtATime, WeakTypes
  <2>7. FoundUntilOld'
    BY <2>3, FoundFrame
  <2> QED
    BY <2>4, <2>5, <2>6, <2>7
<1>2. CASE Complete
  <2>1. AsBegun' /\ TempsRemoved' /\ FoundUntilOld'
    BY <1>2, FoundFrame DEF Complete, jobVars, fileVars, AsBegun, TempsRemoved, UsingDir
  <2>2. WeakTypes'
    BY <1>2 DEF Complete, jobVars, WeakTypes, Over
  <2>3. OneAtATime'
    BY <1>2 DEF Complete, Finished, jobVars, WeakTypes, OneAtATime, Over
  <2> QED
    BY <2>1, <2>2, <2>3
<1>3. CASE CleanupOldTasks
  <2>1. AsBegun' /\ TempsRemoved' /\ WeakTypes'
    BY <1>3 DEF CleanupOldTasks, jobVars, fileVars, AsBegun, TempsRemoved, UsingDir, WeakTypes
  <2>2. OneAtATime'
    BY <1>3 DEF CleanupOldTasks, jobVars, OneAtATime
  <2>3. FoundUntilOld'
    BY <1>3 DEF CleanupOldTasks, OldEntries, FoundUntilOld, WeakTypes
  <2> QED
    BY <2>1, <2>2, <2>3
<1>4. CASE Answer
  <2>1. AsBegun' /\ TempsRemoved' /\ WeakTypes' /\ FoundUntilOld'
    BY <1>4, FoundFrame
       DEF Answer, jobVars, fileVars, AsBegun, TempsRemoved, UsingDir, WeakTypes
  <2>2. OneAtATime'
    BY <1>4 DEF Answer, jobVars, OneAtATime
  <2> QED
    BY <2>1, <2>2
<1> QED
  BY <1>1, <1>2, <1>3, <1>4 DEF Worker

LEMMA TickStep == ASSUME TaskInv, Tick PROVE TaskInv'
<1> USE DEF TaskInv
<1>1. AsBegun' /\ TempsRemoved'
  BY DEF Tick, fileVars, AsBegun, TempsRemoved, UsingDir
<1>2. clock' \in Seconds
  BY JobsAssumption DEF Tick, WeakTypes, Seconds
<1>3. WeakTypes'
  BY <1>2 DEF Tick, WeakTypes
<1>4. OneAtATime' /\ old \subseteq old'
  <2>1. old \subseteq {t \in Tasks : status[t] \in Over}
    BY DEF OneAtATime, WeakTypes
  <2> QED
    BY <2>1 DEF Tick, OneAtATime
<1>5. FoundUntilOld'
  BY <1>4, FoundFrame DEF Tick
<1> QED
  BY <1>1, <1>3, <1>4, <1>5

\* What a call keeps to, one task at a time, directories and the table, together.
THEOREM TaskInvariance == Spec => []TaskInv
<1>1. TaskInv /\ [Next]_vars => TaskInv'
  <2> SUFFICES ASSUME TaskInv, [Next]_vars PROVE TaskInv'
    OBVIOUS
  <2>1. CASE UNCHANGED vars
    BY <2>1 DEF vars, jobVars, taskVars, fileVars, TaskInv, WeakTypes, AsBegun, OneAtATime,
                TempsRemoved, UsingDir, FoundUntilOld
  <2>2. CASE GetTask
    BY <2>2 DEF GetTask, jobVars, fileVars, TaskInv, WeakTypes, AsBegun, OneAtATime,
                TempsRemoved, UsingDir, FoundUntilOld
  <2> QED
    BY <2>1, <2>2, CallStep, SubmitterStep, WorkerStep, TickStep DEF Next, Ended
<1> QED
  BY <1>1, TaskInit, PTL DEF Spec

\* No directory of frames is left without a call that uses it (ffmpeg.go:44-52).
THEOREM DirectoriesAreRemoved == Spec => []TempsRemoved
BY TaskInvariance, PTL DEF TaskInv

\* A task is found under its ID until it is old, but for a second one of the same second.
THEOREM TasksAreFound == Spec => []FoundUntilOld
BY TaskInvariance, PTL DEF TaskInv

\* Nothing ends the program but the worker: its way through the table, or a video without
\* ffmpeg (manager.go:126, 211).
THEOREM OnlyTheWorkerEndsIt == Spec => DiesInWorkerOnly
<1>1. ASSUME TaskInv, [Next]_vars, alive, ~alive'
      PROVE  \/ worker = "cleaning"
             \/ worker = "working" /\ Kind[cur] = "video" /\ services = {"comfyui"}
  <2>1. CASE worker = "cleaning"
    BY <2>1
  <2>2. CASE worker # "cleaning"
    <3>1. PICK j \in Jobs : Job(j) /\ EndsProgram(j)
      BY <1>1, <2>2
         DEF Next, Ended, vars, taskVars, Handle, NewTask, Register, Enqueue, GetTask, Worker,
             Take, Complete, CleanupOldTasks, Answer, Tick, Job
    <3>2. j \in Tasks /\ pc[j] = "mkdir" /\ "ffmpeg" \notin services
      BY <3>1 DEF EndsProgram, NilFFmpeg
    <3>3. worker = "working" /\ cur = j
      BY <1>1, <3>2 DEF TaskInv, OneAtATime
    <3>4. Kind[j] = "video" /\ "comfyui" \in services
      BY <1>1, <3>2 DEF TaskInv, AsBegun, IsVideo, Needs
    <3> QED
      BY <1>1, <3>2, <3>3, <3>4 DEF TaskInv, WeakTypes
  <2> QED
    BY <2>1, <2>2
<1>2. TaskInv /\ [Next]_vars =>
         [alive /\ ~alive' => \/ worker = "cleaning"
                              \/ /\ worker = "working" /\ Kind[cur] = "video"
                                 /\ services = {"comfyui"}]_vars
  BY <1>1
<1> QED
  BY <1>2, TaskInvariance, PTL DEF Spec, DiesInWorkerOnly


-----------------------------------------------------------------------------
(* The invariant *)

\* How far a call has come with its frames.
Counts == \A j \in Jobs :
    /\ pc[j] \in {"idle", "prompt", "poll"} => got[j] = 0
    /\ pc[j] \in {"download", "copy"} => got[j] < count[j]
    /\ pc[j] \in {"mkdir", "copy", "encode"} => count[j] > 0
    /\ pc[j] \in {"idle", "done", "failed"} => count[j] = 0 /\ got[j] = 0

\* Calls that use the same files have met.
SameFrames(j, k) == j \in UsingFrames /\ k \in UsingFrames
SameDir(j, k) == pc[j] \in Copying /\ pc[k] \in Copying /\ sec[j] = sec[k]
SameFile(j, k) == \E f \in Files : j \in UsingFile(f) /\ k \in UsingFile(f)
Same(j, k) == SameFrames(j, k) \/ SameDir(j, k) \/ SameFile(j, k)

HaveMet == \A j, k \in Jobs : j # k /\ Same(j, k) => j \in met

\* The first n frames are those of j, and there is no other.
First(n, j) == [i \in Indices |-> IF i < n THEN j ELSE NoJob]

\* What is in the files of a call that has met no other.
Frames(j) ==
    /\ Kind[j] = "video" /\ pc[j] = "download" => \A i \in Indices : i < got[j] => frame[i] = j
    /\ Kind[j] = "video" /\ pc[j] \in {"mkdir", "copy"} =>
          \A i \in Indices : i < count[j] => frame[i] = j
    /\ pc[j] = "copy" => temp[sec[j]] = First(got[j], j)
    /\ pc[j] = "encode" => temp[sec[j]] = First(count[j], j)
    /\ pc[j] \in {"remove", "audio"} => video[OutputFile(j)] = [i \in 1 .. count[j] |-> j]

OwnFiles == /\ \A j \in Jobs \ met : Frames(j)
            /\ \A j \in Jobs : pc[j] = "audio" => j \in Audio

FrameInv == TaskInv /\ TypeOK /\ Counts /\ HaveMet /\ OwnFiles

-----------------------------------------------------------------------------
(* What ffmpeg finds *)

LEMMA GreatestOne == ASSUME NEW n \in Nat, NEW S \in SUBSET (0 .. n), S # {}
                     PROVE  \E x \in S : \A y \in S : x >= y
<1> DEFINE T == {n - x : x \in S}
<1>1. T \in SUBSET Nat /\ T # {}
  <2>1. \A x \in S : n - x \in Nat
    OBVIOUS
  <2>2. PICK x \in S : TRUE
    OBVIOUS
  <2>3. n - x \in T
    BY <2>2
  <2> QED
    BY <2>1, <2>3
<1>2. PICK t \in T : \A u \in T : t <= u
  BY <1>1, LeastOne
<1>3. PICK x \in S : t = n - x
  BY <1>2
<1>4. \A y \in S : n - x <= n - y
  BY <1>2, <1>3
<1> QED
  BY <1>4

\* What there is from the first frame to the first gap, which may be anybody's.
LEMMA SequenceType ==
    ASSUME MediaTypeOK, NEW s \in Seconds, temp[s] # NoFrames
    PROVE  FrameSequence(s) \in Seq(Jobs) /\ Len(FrameSequence(s)) <= MaxFrames
<1> DEFINE present == {i \in Indices : temp[s][i] # NoJob}
           first == Min(present)
           run == {i \in present : first .. i \subseteq present}
           last == Max(run)
<1>0. MaxFrames \in Nat \ {0} /\ Indices = 0 .. MaxFrames - 1
  BY JobsAssumption DEF Indices
<1>1. temp[s] \in [Indices -> Jobs \cup {NoJob}]
  BY DEF MediaTypeOK
<1>2. present \in SUBSET Nat /\ present # {}
  BY <1>0, <1>1 DEF NoFrames
<1>3. first \in present /\ \A i \in present : first <= i
  BY <1>2, LeastOne DEF Min
<1> HIDE DEF first
<1>4. run \in SUBSET (0 .. MaxFrames - 1) /\ run # {}
  <2>1. first .. first \subseteq present
    BY <1>0, <1>3
  <2>2. first \in run
    BY <1>3, <2>1
  <2> QED
    BY <1>0, <2>2
<1>5. last \in run
  <2>1. MaxFrames - 1 \in Nat
    BY <1>0
  <2> QED
    BY <1>4, <2>1, GreatestOne DEF Max
<1> HIDE DEF last
<1>6. first \in 0 .. MaxFrames - 1 /\ last \in first .. MaxFrames - 1 /\ first .. last \subseteq present
  BY <1>0, <1>3, <1>5
<1> DEFINE found == [i \in 1 .. last - first + 1 |-> temp[s][first + i - 1]]
<1>7. FrameSequence(s) = found
  BY DEF FrameSequence, first, last
<1>8. \A i \in 1 .. last - first + 1 : temp[s][first + i - 1] \in Jobs
  <2> SUFFICES ASSUME NEW i \in 1 .. last - first + 1 PROVE temp[s][first + i - 1] \in Jobs
    OBVIOUS
  <2>1. first + i - 1 \in first .. last
    BY <1>0, <1>6
  <2>2. first + i - 1 \in present
    BY <1>6, <2>1
  <2> QED
    BY <1>1, <2>2
<1>9. last - first + 1 \in Nat /\ last - first + 1 <= MaxFrames
  BY <1>0, <1>6
<1> QED
  BY <1>7, <1>8, <1>9

\* Of a call's own frames it makes the call's own video.
LEMMA OwnSequence ==
    ASSUME NEW s \in Seconds, NEW j \in Jobs, NEW n \in 1 .. MaxFrames, temp[s] = First(n, j)
    PROVE  FrameSequence(s) = [i \in 1 .. n |-> j]
<1> DEFINE present == {i \in Indices : temp[s][i] # NoJob}
           first == Min(present)
           run == {i \in present : first .. i \subseteq present}
           last == Max(run)
<1>0. MaxFrames \in Nat \ {0} /\ Indices = 0 .. MaxFrames - 1 /\ j # NoJob
  BY JobsAssumption DEF Indices
<1>1. present = 0 .. n - 1
  BY <1>0 DEF First
<1>2. first = 0
  <2>1. 0 \in present /\ \A i \in present : 0 <= i
    BY <1>0, <1>1
  <2>2. \A x \in present : (\A i \in present : x <= i) => x = 0
    BY <1>0, <1>1
  <2> QED
    BY <2>1, <2>2 DEF Min
<1>3. run = 0 .. n - 1
  <2> HIDE DEF first, present
  <2>1. \A i \in 0 .. n - 1 : 0 .. i \subseteq 0 .. n - 1
    OBVIOUS
  <2> QED
    BY <1>1, <1>2, <2>1
<1>4. last = n - 1
  <2>1. n - 1 \in run /\ \A i \in run : n - 1 >= i
    BY <1>0, <1>3
  <2>2. \A x \in run : (\A i \in run : x >= i) => x = n - 1
    BY <1>0, <1>3
  <2> QED
    BY <2>1, <2>2 DEF Max
<1>5. FrameSequence(s) = [i \in 1 .. last - first + 1 |-> temp[s][first + i - 1]]
  BY DEF FrameSequence
<1> HIDE DEF first, last
<1>6. last - first + 1 = n /\ \A i \in 1 .. n : first + i - 1 = i - 1
  BY <1>0, <1>2, <1>4
<1>7. \A i \in 1 .. n : temp[s][i - 1] = j
  BY <1>0 DEF First
<1> QED
  BY <1>5, <1>6, <1>7

-----------------------------------------------------------------------------
(* Types: of what calls remember, and of the files *)

CallTypes ==
    /\ services \in SUBSET {"comfyui", "ffmpeg"}
    /\ clock \in Seconds
    /\ pc \in [Jobs -> JobStates]
    /\ count \in [Jobs -> 0 .. MaxFrames]
    /\ got \in [Jobs -> 0 .. MaxFrames]
    /\ \A j \in Jobs : got[j] <= count[j]
    /\ sec \in [Jobs -> Seconds]
    /\ met \in SUBSET Jobs

FileTypes ==
    /\ frame \in [Indices -> Jobs \cup {NoJob}]
    /\ dirs \in SUBSET Seconds
    /\ temp \in [Seconds -> [Indices -> Jobs \cup {NoJob}]]
    /\ \A s \in Seconds \ dirs : temp[s] = NoFrames
    /\ DOMAIN video = Files
    /\ \A f \in Files : video[f] \in Seq(Jobs) /\ Len(video[f]) <= MaxFrames

LEMMA TypesInTwo == MediaTypeOK <=> CallTypes /\ FileTypes
BY DEF MediaTypeOK, CallTypes, FileTypes

\* A call that goes on to another state, with n frames of which g are got.
LEMMA CallMoves ==
    ASSUME CallTypes, Counts, UNCHANGED <<services, clock>>, met' \in SUBSET Jobs,
           NEW j \in Jobs, NEW state \in JobStates, NEW n \in 0 .. MaxFrames, NEW g \in 0 .. n,
           NEW t \in Seconds,
           pc' = [pc EXCEPT ![j] = state], sec' = [sec EXCEPT ![j] = t],
           count' = [count EXCEPT ![j] = n], got' = [got EXCEPT ![j] = g],
           state \in {"idle", "prompt", "poll"} => g = 0,
           state \in {"download", "copy"} => g < n,
           state \in {"mkdir", "copy", "encode"} => n > 0,
           state \in {"idle", "done", "failed"} => n = 0 /\ g = 0
    PROVE  CallTypes' /\ Counts'
<1>0. MaxFrames \in Nat
  BY JobsAssumption
<1>1. g \in 0 .. MaxFrames
  BY <1>0
<1>2. /\ \A k \in Jobs \ {j} : pc'[k] = pc[k] /\ count'[k] = count[k] /\ got'[k] = got[k]
      /\ pc'[j] = state /\ count'[j] = n /\ got'[j] = g
  BY DEF CallTypes
<1>3. CallTypes'
  <2>1. \A k \in Jobs : got'[k] <= count'[k]
    BY <1>0, <1>2 DEF CallTypes
  <2> QED
    BY <1>1, <2>1 DEF CallTypes
<1>4. Counts'
  BY <1>2 DEF Counts
<1> QED
  BY <1>3, <1>4

\* A call that goes on to another state, with the same frames.
LEMMA CallGoes ==
    ASSUME CallTypes, Counts, UNCHANGED <<services, clock, count, got, sec>>, met' \in SUBSET Jobs,
           NEW j \in Jobs, NEW state \in JobStates, pc' = [pc EXCEPT ![j] = state],
           state \in {"idle", "prompt", "poll"} => got[j] = 0,
           state \in {"download", "copy"} => got[j] < count[j],
           state \in {"mkdir", "copy", "encode"} => count[j] > 0,
           state \in {"idle", "done", "failed"} => count[j] = 0 /\ got[j] = 0
    PROVE  CallTypes' /\ Counts'
<1> DEFINE n == count[j]
           g == got[j]
           t == sec[j]
<1>1. n \in 0 .. MaxFrames /\ g \in 0 .. n /\ t \in Seconds
  BY JobsAssumption DEF CallTypes
<1>2. count' = [count EXCEPT ![j] = n] /\ got' = [got EXCEPT ![j] = g] /\ sec' = [sec EXCEPT ![j] = t]
  BY DEF CallTypes
<1>3. /\ state \in {"idle", "prompt", "poll"} => g = 0
      /\ state \in {"download", "copy"} => g < n
      /\ state \in {"mkdir", "copy", "encode"} => n > 0
      /\ state \in {"idle", "done", "failed"} => n = 0 /\ g = 0
  OBVIOUS
<1> HIDE DEF n, g, t
<1> QED
  BY <1>1, <1>2, <1>3, CallMoves

LEMMA CallReturns ==
    ASSUME CallTypes, Counts, UNCHANGED <<services, clock>>, NEW j \in Jobs,
           NEW state \in {"done", "failed"}, Return(j, state)
    PROVE  CallTypes' /\ Counts'
<1>1. 0 \in 0 .. MaxFrames /\ 0 \in 0 .. 0 /\ 0 \in Seconds /\ state \in JobStates
  BY JobsAssumption DEF Seconds, JobStates
<1>2. met' \in SUBSET Jobs
  BY DEF Return, CallTypes
<1> QED
  BY <1>1, <1>2, CallMoves DEF Return, Goto

LEMMA StepCallTypes ==
    ASSUME CallTypes, Counts, NEW j \in Jobs, Step(j)
    PROVE  CallTypes' /\ Counts'
<1>0. MaxFrames \in Nat \ {0} /\ 0 \in Seconds /\ clock \in Seconds /\ services' = services /\ clock' = clock
  <2>1. services' = services /\ clock' = clock
    BY DEF Step, JobStep, Begin, QueuePrompt, WaitForCompletion, DownloadImage, MakeWorkDir,
           MakeWorkDirPanics, CopyFrame, Encode, RemoveWorkDir, AddAudio, Fail
  <2> QED
    BY <2>1, JobsAssumption DEF Seconds, CallTypes
<1>1. /\ count[j] \in 0 .. MaxFrames /\ got[j] \in 0 .. count[j] /\ sec[j] \in Seconds
      /\ count = [count EXCEPT ![j] = count[j]] /\ got = [got EXCEPT ![j] = got[j]]
      /\ sec = [sec EXCEPT ![j] = sec[j]] /\ pc = [pc EXCEPT ![j] = pc[j]]
      /\ pc[j] \in JobStates
  BY <1>0 DEF CallTypes
<1>2. \A others \in SUBSET Jobs : Meets(j, others) => met' \in SUBSET Jobs
  BY DEF Meets, CallTypes
<1>3. met' \in SUBSET Jobs
  <2>1. Return(j, "done") \/ Return(j, "failed") => met' \in SUBSET Jobs
    BY DEF Return, CallTypes
  <2>2. /\ UsingFrames \in SUBSET Jobs /\ UsingDir(clock) \in SUBSET Jobs
        /\ \A f : UsingFile(f) \in SUBSET Jobs
    BY DEF UsingFrames, UsingDir, UsingFile
  <2>3. met' = met => met' \in SUBSET Jobs
    BY DEF CallTypes
  <2>4. Kind[j] # "video" => {} \in SUBSET Jobs
    OBVIOUS
  <2> QED
    BY <1>2, <2>1, <2>2, <2>3
       DEF Step, JobStep, Begin, QueuePrompt, WaitForCompletion, DownloadImage, MakeWorkDir,
           MakeWorkDirPanics, CopyFrame, CopyGoesOn, Encode, RemoveWorkDir, AddAudio, Fail
<1>4. CASE Fail(j)
  BY <1>0, <1>4, CallReturns DEF Fail
<1>5. CASE Begin(j)
  <2>1. pc[j] = "idle" /\ got[j] = 0 /\ count[j] = 0
    BY <1>5 DEF Begin, Counts
  <2>2. sec' = sec /\ got' = got
    BY <1>5 DEF Begin
  <2>3. CASE count' = count /\ (pc' = [pc EXCEPT ![j] = "failed"] \/ pc' = [pc EXCEPT ![j] = "prompt"])
    <3>1. PICK state \in {"failed", "prompt"} : pc' = [pc EXCEPT ![j] = state]
      BY <2>3
    <3> QED
      BY <1>0, <1>3, <2>1, <2>2, <2>3, <3>1, CallGoes DEF JobStates
  <2>4. CASE pc' = [pc EXCEPT ![j] = "mkdir"] /\ \E n \in 1 .. MaxFrames : count' = [count EXCEPT ![j] = n]
    <3>1. PICK n \in 1 .. MaxFrames : count' = [count EXCEPT ![j] = n]
      BY <2>4
    <3>2. n \in 0 .. MaxFrames /\ got[j] \in 0 .. n /\ n > 0 /\ "mkdir" \in JobStates
      BY <1>0, <2>1 DEF JobStates
    <3> QED
      BY <1>0, <1>1, <1>3, <2>2, <2>4, <3>1, <3>2, CallMoves
  <2> QED
    BY <1>5, <2>3, <2>4 DEF Begin, Goto
<1>6. CASE QueuePrompt(j) /\ ~Fail(j)
  <2>1. pc[j] = "prompt" /\ got[j] = 0 /\ "poll" \in JobStates /\ pc' = [pc EXCEPT ![j] = "poll"]
    BY <1>6 DEF QueuePrompt, Counts, Goto, JobStates
  <2> QED
    BY <1>0, <1>3, <1>6, <2>1, CallGoes DEF QueuePrompt
<1>7. CASE WaitForCompletion(j) /\ ~Fail(j)
  <2>1. pc[j] = "poll" /\ got[j] = 0 /\ "download" \in JobStates /\ pc' = [pc EXCEPT ![j] = "download"]
    BY <1>7 DEF WaitForCompletion, Counts, Goto, JobStates
  <2>2. PICK n \in 1 .. MaxFrames : count' = [count EXCEPT ![j] = n]
    BY <1>0, <1>7 DEF WaitForCompletion
  <2>3. n \in 0 .. MaxFrames /\ got[j] \in 0 .. n /\ n > 0
    BY <1>0, <2>1
  <2>4. got' = [got EXCEPT ![j] = got[j]] /\ sec' = [sec EXCEPT ![j] = sec[j]]
    BY <1>1, <1>7 DEF WaitForCompletion
  <2>5. got[j] < n
    BY <2>1, <2>3
  <2> QED
    BY <1>0, <1>1, <1>3, <2>1, <2>2, <2>3, <2>4, <2>5, CallMoves
<1>8. CASE DownloadImage(j) /\ ~Fail(j)
  <2>1. CASE Kind[j] # "video"
    BY <1>0, <1>8, <2>1, CallReturns DEF DownloadImage
  <2>2. CASE Kind[j] = "video"
    <3>1. pc[j] = "download" /\ got[j] < count[j]
      BY <1>8 DEF DownloadImage, Counts
    <3>2. got[j] + 1 \in 0 .. count[j] /\ count[j] > 0
      BY <1>0, <1>1, <3>1
    <3>3. /\ got' = [got EXCEPT ![j] = got[j] + 1] /\ UNCHANGED <<count, sec>>
          /\ IF got[j] + 1 < count[j] THEN pc' = pc ELSE pc' = [pc EXCEPT ![j] = "mkdir"]
      BY <1>8, <2>2 DEF DownloadImage, Goto
    <3>4. CASE got[j] + 1 < count[j]
      <4>1. pc' = [pc EXCEPT ![j] = "download"] /\ "download" \in JobStates
        BY <1>1, <3>1, <3>3, <3>4
      <4>2. count' = [count EXCEPT ![j] = count[j]] /\ sec' = [sec EXCEPT ![j] = sec[j]]
        BY <1>1, <3>3
      <4> DEFINE n == count[j]
                 g == got[j] + 1
                 t == sec[j]
      <4>3. n \in 0 .. MaxFrames /\ g \in 0 .. n /\ t \in Seconds /\ g < n /\ n > 0
        BY <1>1, <3>2, <3>4
      <4>4. got' = [got EXCEPT ![j] = g] /\ count' = [count EXCEPT ![j] = n] /\ sec' = [sec EXCEPT ![j] = t]
        BY <3>3, <4>2
      <4> HIDE DEF n, g, t
      <4> QED
        BY <1>0, <1>3, <4>1, <4>3, <4>4, CallMoves
    <3>5. CASE ~(got[j] + 1 < count[j])
      <4>1. pc' = [pc EXCEPT ![j] = "mkdir"] /\ "mkdir" \in JobStates
        BY <3>3, <3>5 DEF JobStates
      <4>2. count' = [count EXCEPT ![j] = count[j]] /\ sec' = [sec EXCEPT ![j] = sec[j]]
        BY <1>1, <3>3
      <4> DEFINE n == count[j]
                 g == got[j] + 1
                 t == sec[j]
      <4>3. n \in 0 .. MaxFrames /\ g \in 0 .. n /\ t \in Seconds /\ n > 0
        BY <1>1, <3>2
      <4>4. got' = [got EXCEPT ![j] = g] /\ count' = [count EXCEPT ![j] = n] /\ sec' = [sec EXCEPT ![j] = t]
        BY <3>3, <4>2
      <4> HIDE DEF n, g, t
      <4> QED
        BY <1>0, <1>3, <4>1, <4>3, <4>4, CallMoves
    <3> QED
      BY <3>4, <3>5
  <2> QED
    BY <2>1, <2>2
<1>9. CASE MakeWorkDir(j)
  <2>1. count[j] > 0 /\ 0 \in 0 .. count[j] /\ "copy" \in JobStates
    BY <1>1, <1>9 DEF MakeWorkDir, Counts, JobStates
  <2> QED
    BY <1>0, <1>1, <1>3, <1>9, <2>1, CallMoves DEF MakeWorkDir, Goto
<1>10. CASE CopyFrame(j)
  <2>1. pc[j] = "copy" /\ got[j] < count[j] /\ count[j] > 0
    BY <1>10 DEF CopyFrame, Counts
  <2>2. CASE got' = [got EXCEPT ![j] = got[j] + 1]
    <3>1. got[j] + 1 \in 0 .. count[j] /\ got[j] + 1 # got[j]
      BY <1>0, <1>1, <2>1
    <3>2. got'[j] = got[j] + 1
      BY <2>2 DEF CallTypes
    <3>3. /\ UNCHANGED <<count, sec>>
          /\ IF got[j] + 1 < count[j] THEN pc' = pc ELSE pc' = [pc EXCEPT ![j] = "encode"]
      BY <1>10, <3>1, <3>2 DEF CopyFrame, CopyGoesOn, Goto
    <3>4. CASE got[j] + 1 < count[j]
      <4>1. pc' = [pc EXCEPT ![j] = "copy"] /\ "copy" \in JobStates
        BY <1>1, <2>1, <3>3, <3>4
      <4>2. count' = [count EXCEPT ![j] = count[j]] /\ sec' = [sec EXCEPT ![j] = sec[j]]
        BY <1>1, <3>3
      <4> DEFINE n == count[j]
                 g == got[j] + 1
                 t == sec[j]
      <4>3. n \in 0 .. MaxFrames /\ g \in 0 .. n /\ t \in Seconds /\ g < n /\ n > 0
        BY <1>1, <2>1, <3>1, <3>4
      <4>4. got' = [got EXCEPT ![j] = g] /\ count' = [count EXCEPT ![j] = n] /\ sec' = [sec EXCEPT ![j] = t]
        BY <2>2, <4>2
      <4> HIDE DEF n, g, t
      <4> QED
        BY <1>0, <1>3, <4>1, <4>3, <4>4, CallMoves
    <3>5. CASE ~(got[j] + 1 < count[j])
      <4>1. pc' = [pc EXCEPT ![j] = "encode"] /\ "encode" \in JobStates
        BY <3>3, <3>5 DEF JobStates
      <4>2. count' = [count EXCEPT ![j] = count[j]] /\ sec' = [sec EXCEPT ![j] = sec[j]]
        BY <1>1, <3>3
      <4> DEFINE n == count[j]
                 g == got[j] + 1
                 t == sec[j]
      <4>3. n \in 0 .. MaxFrames /\ g \in 0 .. n /\ t \in Seconds /\ n > 0
        BY <1>1, <2>1, <3>1
      <4>4. got' = [got EXCEPT ![j] = g] /\ count' = [count EXCEPT ![j] = n] /\ sec' = [sec EXCEPT ![j] = t]
        BY <2>2, <4>2
      <4> HIDE DEF n, g, t
      <4> QED
        BY <1>0, <1>3, <4>1, <4>3, <4>4, CallMoves
    <3> QED
      BY <3>4, <3>5
  <2>3. CASE pc' = [pc EXCEPT ![j] = "abort"] /\ UNCHANGED <<count, got, sec>>
    BY <1>0, <1>3, <2>3, CallGoes DEF JobStates
  <2> QED
    BY <1>10, <2>2, <2>3 DEF CopyFrame, CopyGoesOn, Goto
<1>11. CASE Encode(j)
  <2>1. PICK state \in {"remove", "abort"} : pc' = [pc EXCEPT ![j] = state]
    BY <1>11 DEF Encode, Goto
  <2>2. UNCHANGED <<count, got, sec>>
    BY <1>11 DEF Encode
  <2> QED
    BY <1>0, <1>3, <2>1, <2>2, CallGoes DEF JobStates
<1>12. CASE RemoveWorkDir(j)
  <2>1. CASE pc' = [pc EXCEPT ![j] = "audio"] /\ UNCHANGED <<count, got, sec>>
    BY <1>0, <1>3, <2>1, CallGoes DEF JobStates
  <2>2. CASE Return(j, "done") \/ Return(j, "failed")
    BY <1>0, <2>2, CallReturns
  <2> QED
    BY <1>12, <2>1, <2>2 DEF RemoveWorkDir, Goto
<1>13. CASE AddAudio(j)
  BY <1>0, <1>13, CallReturns DEF AddAudio
<1>14. CASE MakeWorkDirPanics(j)
  BY <1>4, <1>14 DEF MakeWorkDirPanics
<1> QED
  BY <1>4, <1>5, <1>6, <1>7, <1>8, <1>9, <1>10, <1>11, <1>12, <1>13, <1>14 DEF Step, JobStep

LEMMA OutputFiles == ASSUME CallTypes, NEW j \in Jobs PROVE OutputFile(j) \in Files
<1>1. sec[j] \in Seconds
  BY DEF CallTypes
<1> QED
  BY <1>1, JobsAssumption DEF OutputFile

\* A video that is written.
LEMMA VideoTypes ==
    ASSUME FileTypes, NEW name \in Files, NEW content \in Seq(Jobs), Len(content) <= MaxFrames,
           video' = video \/ video' = [video EXCEPT ![name] = content]
    PROVE  /\ DOMAIN video' = Files
           /\ \A f \in Files : video'[f] \in Seq(Jobs) /\ Len(video'[f]) <= MaxFrames
BY DEF FileTypes

\* One that is not, by an ffmpeg that fails.
LEMMA SpoiledTypes ==
    ASSUME FileTypes, NEW name \in Files, NEW files \in Spoiled(name)
    PROVE  /\ DOMAIN files = Files
           /\ \A f \in Files : files[f] \in Seq(Jobs) /\ Len(files[f]) <= MaxFrames
<1>1. <<>> \in Seq(Jobs) /\ Len(<<>>) <= MaxFrames
  BY JobsAssumption
<1> QED
  BY <1>1 DEF Spoiled, FileTypes

LEMMA LeaveTypes ==
    ASSUME NEW j \in Jobs, NEW files, LeaveFiles(j, files),
           \A f \in Files : files[f] \in Seq(Jobs) /\ Len(files[f]) <= MaxFrames
    PROVE  /\ DOMAIN video' = Files
           /\ \A f \in Files : video'[f] \in Seq(Jobs) /\ Len(video'[f]) <= MaxFrames
<1>1. <<>> \in Seq(Jobs) /\ Len(<<>>) <= MaxFrames
  BY JobsAssumption
<1> QED
  BY <1>1 DEF LeaveFiles

LEMMA StepFileTypes ==
    ASSUME CallTypes, FileTypes, Counts, NEW j \in Jobs, Step(j)
    PROVE  FileTypes'
<1>0. MaxFrames \in Nat \ {0} /\ Indices = 0 .. MaxFrames - 1 /\ sec[j] \in Seconds /\ clock \in Seconds
  BY JobsAssumption DEF Indices, CallTypes
<1>1. pc[j] \in {"download", "copy"} => got[j] \in Indices
  <2>1. got[j] \in 0 .. MaxFrames /\ count[j] \in 0 .. MaxFrames
    BY DEF CallTypes
  <2>2. pc[j] \in {"download", "copy"} => got[j] < count[j]
    BY DEF Counts
  <2> QED
    BY <1>0, <2>1, <2>2
<1>2. CASE UNCHANGED fileVars
  BY <1>2 DEF fileVars, FileTypes
<1>3. CASE DownloadImage(j) /\ ~UNCHANGED fileVars
  <2>1. pc[j] = "download" /\ frame' = [frame EXCEPT ![got[j]] = j] /\ UNCHANGED <<dirs, temp, video>>
    BY <1>3 DEF DownloadImage, Fail
  <2>2. frame' \in [Indices -> Jobs \cup {NoJob}]
    BY <1>1, <2>1 DEF FileTypes
  <2> QED
    BY <2>1, <2>2 DEF FileTypes
<1>4. CASE MakeWorkDir(j)
  BY <1>0, <1>4 DEF MakeWorkDir, FileTypes
<1>5. CASE CopyFrame(j) /\ ~UNCHANGED fileVars
  <2> DEFINE content == IF Kind[j] = "video" THEN frame[got[j]] ELSE j
  <2>1. /\ pc[j] = "copy" /\ sec[j] \in dirs /\ UNCHANGED <<frame, dirs, video>>
        /\ temp' = [temp EXCEPT ![sec[j]][got[j]] = content]
    BY <1>5 DEF CopyFrame
  <2>2. content \in Jobs \cup {NoJob}
    BY <1>1, <2>1 DEF FileTypes
  <2> HIDE DEF content
  <2>3. temp' \in [Seconds -> [Indices -> Jobs \cup {NoJob}]]
    BY <1>0, <1>1, <2>1, <2>2 DEF FileTypes
  <2>4. \A s \in Seconds \ dirs' : temp'[s] = NoFrames
    BY <2>1 DEF FileTypes
  <2> QED
    BY <2>1, <2>3, <2>4 DEF FileTypes
<1>6. CASE Encode(j) /\ ~UNCHANGED fileVars
  <2>1. UNCHANGED <<frame, dirs, temp>> /\ OutputFile(j) \in Files
    BY <1>6, OutputFiles DEF Encode
  <2>2. temp[sec[j]] # NoFrames => /\ FrameSequence(sec[j]) \in Seq(Jobs)
                                  /\ Len(FrameSequence(sec[j])) <= MaxFrames
    BY <1>0, SequenceType, TypesInTwo
  <2>3. /\ DOMAIN video' = Files
        /\ \A f \in Files : video'[f] \in Seq(Jobs) /\ Len(video'[f]) <= MaxFrames
    BY <1>6, <2>1, <2>2, VideoTypes, SpoiledTypes DEF Encode
  <2> QED
    BY <2>1, <2>3 DEF FileTypes
<1>7. CASE RemoveWorkDir(j)
  <2>1. /\ dirs' = dirs \ {sec[j]} /\ temp' = [temp EXCEPT ![sec[j]] = NoFrames] /\ frame' = frame
        /\ video' = video \/ LeaveFiles(j, video)
    BY <1>7 DEF RemoveWorkDir
  <2>2. NoFrames \in [Indices -> Jobs \cup {NoJob}]
    BY DEF NoFrames
  <2>3. /\ DOMAIN video' = Files
        /\ \A f \in Files : video'[f] \in Seq(Jobs) /\ Len(video'[f]) <= MaxFrames
    BY <2>1, LeaveTypes DEF FileTypes
  <2>4. temp' \in [Seconds -> [Indices -> Jobs \cup {NoJob}]]
    BY <2>1, <2>2 DEF FileTypes
  <2>5. \A s \in Seconds \ dirs' : temp'[s] = NoFrames
    BY <1>0, <2>1 DEF FileTypes
  <2> QED
    BY <2>1, <2>3, <2>4, <2>5 DEF FileTypes
<1>8. CASE AddAudio(j)
  <2>1. WithAudio[j] \in Files /\ Output[j] \in Files /\ UNCHANGED <<frame, dirs, temp>>
    BY <1>8, JobsAssumption DEF AddAudio
  <2>2. PICK files : /\ LeaveFiles(j, files)
                     /\ \/ files \in Spoiled(WithAudio[j])
                        \/ files = [video EXCEPT ![WithAudio[j]] = video[Output[j]]]
    BY <1>8 DEF AddAudio
  <2>3. \A f \in Files : files[f] \in Seq(Jobs) /\ Len(files[f]) <= MaxFrames
    BY <2>1, <2>2, SpoiledTypes DEF FileTypes
  <2> QED
    BY <2>1, <2>2, <2>3, LeaveTypes DEF FileTypes
<1> QED
  BY <1>2, <1>3, <1>4, <1>5, <1>6, <1>7, <1>8
     DEF Step, JobStep, Begin, QueuePrompt, WaitForCompletion, DownloadImage, CopyFrame, Encode,
         MakeWorkDirPanics, Fail, fileVars

-----------------------------------------------------------------------------
(* Meetings *)

\* Who has met others is known to have until it returns.
LEMMA MetStays ==
    ASSUME CallTypes, NEW j \in Jobs, Step(j), NEW i \in Jobs, i \in met,
           i = j => pc'[j] \notin {"done", "failed"}
    PROVE  i \in met'
<1>1. ~(\E state \in {"done", "failed"} : Return(j, state)) \/ i # j
  BY DEF Return, Goto, CallTypes
<1>2. \A others : Meets(j, others) => i \in met'
  BY DEF Meets
<1>3. \A state \in {"done", "failed"} : Return(j, state) => i \in met'
  BY <1>1 DEF Return
<1>4. CASE Begin(j) \/ QueuePrompt(j) \/ WaitForCompletion(j) \/ DownloadImage(j)
  BY <1>2, <1>3, <1>4 DEF Begin, QueuePrompt, WaitForCompletion, DownloadImage, Fail
<1>5. CASE MakeWorkDir(j) \/ MakeWorkDirPanics(j) \/ CopyFrame(j) \/ Encode(j)
  BY <1>2, <1>3, <1>5 DEF MakeWorkDir, MakeWorkDirPanics, CopyFrame, CopyGoesOn, Encode, Fail
<1>6. CASE RemoveWorkDir(j) \/ AddAudio(j)
  BY <1>2, <1>3, <1>6 DEF RemoveWorkDir, AddAudio
<1> QED
  BY <1>4, <1>5, <1>6 DEF Step, JobStep

\* A call that comes to files that others use.
LEMMA Arrivals ==
    ASSUME CallTypes, AsBegun, NEW j \in Jobs, Step(j)
    PROVE  /\ j \in UsingFrames' => j \in UsingFrames \/ Meets(j, UsingFrames)
           /\ pc'[j] \in Copying => \/ pc[j] \in Copying /\ sec'[j] = sec[j]
                                    \/ Meets(j, UsingDir(clock)) /\ sec'[j] = clock
           /\ \A f \in Files : j \in UsingFile(f)' => \/ j \in UsingFile(f) /\ pc'[j] \notin {"done", "failed"}
                                                     \/ Meets(j, UsingFile(f))
<1> USE DEF UsingFrames, Copying, UsingFile, OutputFile
<1>1. CASE Begin(j)
  BY <1>1 DEF Begin, Goto, CallTypes
<1>2. CASE QueuePrompt(j)
  BY <1>2 DEF QueuePrompt, Fail, Return, Goto, CallTypes
<1>3. CASE WaitForCompletion(j)
  BY <1>3 DEF WaitForCompletion, Fail, Return, Goto, CallTypes
<1>4. CASE DownloadImage(j)
  BY <1>4 DEF DownloadImage, Fail, Return, Goto, CallTypes
<1>5. CASE MakeWorkDir(j)
  BY <1>5 DEF MakeWorkDir, Goto, CallTypes
<1>6. CASE MakeWorkDirPanics(j)
  BY <1>6 DEF MakeWorkDirPanics, Fail, Return, Goto, CallTypes
<1>7. CASE CopyFrame(j)
  <2>1. pc[j] = "copy" /\ sec'[j] = sec[j]
    BY <1>7 DEF CopyFrame, Goto, CallTypes
  <2>2. pc'[j] \in {"copy", "abort"} \/ (pc'[j] = "encode" /\ Meets(j, UsingFile(OutputFile(j))))
    BY <1>7, <2>1 DEF CopyFrame, CopyGoesOn, Goto, CallTypes
  <2>3. OutputFile(j)' = OutputFile(j)
    BY <2>1
  <2>4. pc'[j] = "copy" => (j \in UsingFrames' => j \in UsingFrames)
    BY <2>1
  <2>5. pc'[j] \in {"copy", "abort"} => \A f \in Files : j \notin UsingFile(f)'
    OBVIOUS
  <2>6. pc'[j] = "encode" => \A f \in Files : j \in UsingFile(f)' => f = OutputFile(j)
    BY <2>3 DEF UsingFile
  <2> QED
    BY <2>1, <2>2, <2>4, <2>5, <2>6
<1>8. CASE Encode(j)
  BY <1>8 DEF Encode, Goto, CallTypes
<1>9. CASE RemoveWorkDir(j)
  <2>1. CASE pc'[j] \in {"done", "failed"}
    BY <2>1
  <2>2. CASE pc'[j] \notin {"done", "failed"}
    <3>1. /\ pc[j] = "remove" /\ pc'[j] = "audio" /\ sec' = sec
          /\ Meets(j, UsingFile(WithAudio[j]))
      BY <1>9, <2>2 DEF RemoveWorkDir, Return, Goto, CallTypes
    <3>2. OutputFile(j)' = OutputFile(j)
      BY <3>1
    <3>3. \A f \in Files : j \in UsingFile(f)' => f \in {OutputFile(j), WithAudio[j]}
      BY <3>1, <3>2 DEF UsingFile
    <3>4. j \in UsingFile(OutputFile(j))
      BY <3>1, OutputFiles DEF UsingFile
    <3> QED
      BY <3>1, <3>3, <3>4
  <2> QED
    BY <2>1, <2>2
<1>10. CASE AddAudio(j)
  BY <1>10 DEF AddAudio, Return, Goto, CallTypes
<1> QED
  BY <1>1, <1>2, <1>3, <1>4, <1>5, <1>6, <1>7, <1>8, <1>9, <1>10 DEF Step, JobStep

LEMMA OthersStay ==
    ASSUME WeakTypes, NEW j \in Jobs, Step(j), NEW k \in Jobs, k # j
    PROVE  pc'[k] = pc[k] /\ sec'[k] = sec[k]
BY StepMoves DEF WeakTypes

LEMMA StepHaveMet ==
    ASSUME WeakTypes, AsBegun, CallTypes, HaveMet, NEW j \in Jobs, Step(j)
    PROVE  HaveMet'
<1>1. ASSUME NEW k \in Jobs, k # j, SameFrames(j, k)'
      PROVE  j \in met' /\ k \in met'
  <2>1. /\ j \in UsingFrames' /\ k \in UsingFrames' /\ k \in UsingFrames
        /\ pc'[j] \notin {"done", "failed"}
    BY <1>1, OthersStay DEF SameFrames, UsingFrames
  <2>2. CASE j \in UsingFrames
    BY <1>1, <2>1, <2>2, MetStays DEF HaveMet, Same, SameFrames
  <2>3. CASE Meets(j, UsingFrames)
    BY <1>1, <2>1, <2>3 DEF Meets
  <2> QED
    BY <2>1, <2>2, <2>3, Arrivals
<1>2. ASSUME NEW k \in Jobs, k # j, SameDir(j, k)'
      PROVE  j \in met' /\ k \in met'
  <2>1. /\ pc'[j] \in Copying /\ pc[k] \in Copying /\ sec'[j] = sec[k]
        /\ pc'[j] \notin {"done", "failed"}
    BY <1>2, OthersStay DEF SameDir, Copying
  <2>2. CASE pc[j] \in Copying /\ sec'[j] = sec[j]
    BY <1>2, <2>1, <2>2, MetStays DEF HaveMet, Same, SameDir
  <2>3. CASE Meets(j, UsingDir(clock)) /\ sec'[j] = clock
    <3>1. k \in UsingDir(clock) \ {j}
      BY <1>2, <2>1, <2>3 DEF UsingDir
    <3> QED
      BY <2>3, <3>1 DEF Meets
  <2> QED
    BY <2>1, <2>2, <2>3, Arrivals
<1>3. ASSUME NEW k \in Jobs, k # j, SameFile(j, k)'
      PROVE  j \in met' /\ k \in met'
  <2>1. PICK f \in Files : j \in UsingFile(f)' /\ k \in UsingFile(f)'
    BY <1>3 DEF SameFile
  <2>2. k \in UsingFile(f)
    BY <1>3, <2>1, OthersStay DEF UsingFile, OutputFile
  <2>3. CASE j \in UsingFile(f) /\ pc'[j] \notin {"done", "failed"}
    BY <1>3, <2>2, <2>3, MetStays DEF HaveMet, Same, SameFile
  <2>4. CASE Meets(j, UsingFile(f))
    BY <1>3, <2>2, <2>4 DEF Meets
  <2> QED
    BY <2>1, <2>3, <2>4, Arrivals
<1>4. ASSUME NEW k \in Jobs, NEW l \in Jobs, k # l, k # j, l # j, Same(k, l)'
      PROVE  k \in met'
  <2>1. Same(k, l)
    BY <1>4, OthersStay
       DEF Same, SameFrames, SameDir, SameFile, UsingFrames, UsingFile, OutputFile
  <2> QED
    BY <1>4, <2>1, MetStays DEF HaveMet
<1>5. ASSUME NEW k \in Jobs, NEW l \in Jobs, k # l, Same(k, l)'
      PROVE  k \in met'
  <2>1. Same(l, k)'
    BY <1>5 DEF Same, SameFrames, SameDir, SameFile
  <2> QED
    BY <1>1, <1>2, <1>3, <1>4, <1>5, <2>1 DEF Same
<1> QED
  BY <1>5 DEF HaveMet, Same, SameFrames, SameDir, SameFile

-----------------------------------------------------------------------------
(* Whose frames are where *)

LEMMA OthersKeep ==
    ASSUME CallTypes, NEW j \in Jobs, Step(j), NEW k \in Jobs, k # j
    PROVE  pc'[k] = pc[k] /\ sec'[k] = sec[k] /\ count'[k] = count[k] /\ got'[k] = got[k]
<1> USE DEF CallTypes
<1>1. CASE Begin(j)
  BY <1>1 DEF Begin, Goto
<1>2. CASE QueuePrompt(j) \/ MakeWorkDirPanics(j) \/ AddAudio(j)
  BY <1>2 DEF QueuePrompt, MakeWorkDirPanics, AddAudio, Fail, Return, Goto
<1>3. CASE WaitForCompletion(j)
  BY <1>3 DEF WaitForCompletion, Fail, Return, Goto
<1>4. CASE DownloadImage(j)
  BY <1>4 DEF DownloadImage, Fail, Return, Goto
<1>5. CASE MakeWorkDir(j)
  BY <1>5 DEF MakeWorkDir, Goto
<1>6. CASE CopyFrame(j) \/ Encode(j)
  BY <1>6 DEF CopyFrame, CopyGoesOn, Encode, Goto
<1>7. CASE RemoveWorkDir(j)
  BY <1>7 DEF RemoveWorkDir, Return, Goto
<1> QED
  BY <1>1, <1>2, <1>3, <1>4, <1>5, <1>6, <1>7 DEF Step, JobStep

\* A call does not touch the files of one that it has not met.
LEMMA OthersFrames ==
    ASSUME WeakTypes, CallTypes, FileTypes, HaveMet, OwnFiles, NEW j \in Jobs, Step(j),
           NEW k \in Jobs, k # j, k \notin met'
    PROVE  Frames(k)'
<1>1. k \notin met /\ Frames(k)
  BY MetStays DEF OwnFiles
<1>2. pc'[k] = pc[k] /\ sec'[k] = sec[k] /\ count'[k] = count[k] /\ got'[k] = got[k]
  BY OthersKeep
<1>3. ~SameFrames(k, j) /\ ~SameDir(k, j) /\ ~SameFile(k, j)
  BY <1>1 DEF HaveMet, Same
<1>4. k \in UsingFrames => frame' = frame
  <2>1. frame' = frame \/ (DownloadImage(j) /\ j \in UsingFrames)
    BY DEF Step, JobStep, Begin, QueuePrompt, WaitForCompletion, DownloadImage, MakeWorkDir,
           MakeWorkDirPanics, CopyFrame, Encode, RemoveWorkDir, AddAudio, Fail, fileVars, UsingFrames
  <2> QED
    BY <1>3, <2>1 DEF SameFrames
<1>5. pc[k] \in {"copy", "encode"} => temp'[sec[k]] = temp[sec[k]]
  <2>1. temp' = temp \/ CopyFrame(j) \/ RemoveWorkDir(j)
    BY DEF Step, JobStep, Begin, QueuePrompt, WaitForCompletion, DownloadImage, MakeWorkDir,
           MakeWorkDirPanics, Encode, AddAudio, Fail, fileVars
  <2>2. CASE CopyFrame(j) \/ RemoveWorkDir(j)
    <3>1. pc[j] \in Copying
      BY <2>2 DEF CopyFrame, RemoveWorkDir, Copying
    <3>2. pc[k] \in {"copy", "encode"} => sec[k] # sec[j]
      BY <1>3, <3>1 DEF SameDir, Copying
    <3>3. sec[k] # sec[j] => temp'[sec[k]] = temp[sec[k]]
      BY <2>2 DEF CopyFrame, RemoveWorkDir, FileTypes, CallTypes, fileVars
    <3> QED
      BY <3>2, <3>3
  <2> QED
    BY <2>1, <2>2
<1>6. pc[k] \in {"remove", "audio"} => video'[OutputFile(k)] = video[OutputFile(k)]
  <2> SUFFICES ASSUME pc[k] \in {"remove", "audio"}
               PROVE  video'[OutputFile(k)] = video[OutputFile(k)]
    OBVIOUS
  <2>0. PICK f \in Files : f = OutputFile(k)
    BY OutputFiles
  <2> SUFFICES video'[f] = video[f]
    BY <2>0
  <2>1. k \in UsingFile(f)
    BY <2>0 DEF UsingFile
  <2>2. j \notin UsingFile(f)
    BY <1>3, <2>1 DEF SameFile
  <2>3. \A files : LeaveFiles(j, files) => video'[f] = files[f]
    BY <2>1 DEF LeaveFiles
  <2>4. CASE video' = video
    BY <2>4
  <2>5. CASE Encode(j)
    <3>1. f # OutputFile(j)
      BY <2>2, <2>5 DEF UsingFile, Encode
    <3> QED
      BY <2>5, <3>1 DEF Encode, Spoiled, FileTypes
  <2>6. CASE RemoveWorkDir(j)
    BY <2>3, <2>6 DEF RemoveWorkDir
  <2>7. CASE AddAudio(j)
    <3>1. f # WithAudio[j]
      BY <2>2, <2>7 DEF UsingFile, AddAudio
    <3>2. PICK files : /\ LeaveFiles(j, files)
                       /\ \/ files \in Spoiled(WithAudio[j])
                          \/ files = [video EXCEPT ![WithAudio[j]] = video[Output[j]]]
      BY <2>7 DEF AddAudio
    <3>3. files[f] = video[f]
      BY <3>1, <3>2 DEF Spoiled, FileTypes
    <3> QED
      BY <2>3, <3>2, <3>3
  <2> QED
    BY <2>4, <2>5, <2>6, <2>7
       DEF Step, JobStep, Begin, QueuePrompt, WaitForCompletion, DownloadImage, MakeWorkDir,
           MakeWorkDirPanics, CopyFrame, Fail, fileVars
<1>7. OutputFile(k)' = OutputFile(k)
  BY <1>2 DEF OutputFile
<1> QED
  BY <1>1, <1>2, <1>4, <1>5, <1>6, <1>7 DEF Frames, UsingFrames

\* The frames with the next one.
LEMMA OneMore == ASSUME NEW n \in Indices, NEW j \in Jobs
                 PROVE  [First(n, j) EXCEPT ![n] = j] = First(n + 1, j)
<1>1. n \in Nat /\ \A i \in Indices : i \in Nat
  BY JobsAssumption DEF Indices
<1>2. \A i \in Indices : [First(n, j) EXCEPT ![n] = j][i] = First(n + 1, j)[i]
  <2> TAKE i \in Indices
  <2>1. First(n + 1, j)[i] = IF i < n + 1 THEN j ELSE NoJob
    BY DEF First
  <2>2. [First(n, j) EXCEPT ![n] = j][i] = IF i = n THEN j ELSE IF i < n THEN j ELSE NoJob
    BY DEF First
  <2>3. i < n + 1 <=> i = n \/ i < n
    BY <1>1
  <2> QED
    BY <2>1, <2>2, <2>3
<1> QED
  BY <1>2 DEF First

\* What a call that has met no other does to its own files.
LEMMA OwnStep ==
    ASSUME WeakTypes, AsBegun, TempsRemoved, CallTypes, FileTypes, Counts, OwnFiles,
           NEW j \in Jobs, Step(j), j \notin met', pc'[j] \notin {"done", "failed"}
    PROVE  Frames(j)'
<1>0. /\ j \notin met /\ Frames(j)
      /\ MaxFrames \in Nat \ {0} /\ Indices = 0 .. MaxFrames - 1
      /\ count[j] \in 0 .. MaxFrames /\ got[j] \in 0 .. MaxFrames /\ sec[j] \in Seconds
  BY MetStays, JobsAssumption DEF OwnFiles, Indices, CallTypes
<1>1. CASE Begin(j) \/ QueuePrompt(j)
  <2>1. pc'[j] \in {"poll", "prompt"} \/ (pc'[j] = "mkdir" /\ Kind[j] = "compose")
    BY <1>1 DEF Begin, QueuePrompt, Fail, Return, Goto, CallTypes
  <2> QED
    BY <2>1 DEF Frames
<1>2. CASE WaitForCompletion(j)
  <2>1. pc'[j] = "download" /\ got'[j] = 0
    BY <1>2 DEF WaitForCompletion, Fail, Return, Goto, CallTypes, Counts
  <2> QED
    BY <1>0, <2>1 DEF Frames
<1>3. CASE DownloadImage(j)
  <2>1. /\ Kind[j] = "video" /\ pc[j] = "download" /\ count'[j] = count[j] /\ got'[j] = got[j] + 1
        /\ frame' = [frame EXCEPT ![got[j]] = j]
        /\ IF got[j] + 1 < count[j] THEN pc'[j] = "download" ELSE pc'[j] = "mkdir"
    BY <1>3 DEF DownloadImage, Fail, Return, Goto, CallTypes
  <2>2. got[j] < count[j] /\ \A i \in Indices : i < got[j] => frame[i] = j
    BY <1>0, <2>1 DEF Counts, Frames
  <2>3. \A i \in Indices : i < got[j] + 1 => frame'[i] = j
    BY <1>0, <2>1, <2>2 DEF FileTypes
  <2>4. pc'[j] = "mkdir" => count[j] = got[j] + 1
    BY <1>0, <2>1, <2>2
  <2> QED
    BY <2>1, <2>3, <2>4 DEF Frames
<1>4. CASE MakeWorkDir(j)
  <2>1. /\ pc[j] = "mkdir" /\ pc'[j] = "copy" /\ got'[j] = 0 /\ sec'[j] = clock /\ clock \in Seconds
        /\ UNCHANGED <<count, frame, temp>> /\ Meets(j, UsingDir(clock))
    BY <1>4 DEF MakeWorkDir, Goto, CallTypes
  <2>2. UsingDir(clock) = {}
    BY <2>1 DEF Meets, UsingDir, Copying
  <2>3. temp[clock] = NoFrames
    BY <2>1, <2>2 DEF TempsRemoved, FileTypes
  <2>4. NoFrames = First(0, j)
    BY <1>0 DEF NoFrames, First
  <2> QED
    BY <1>0, <2>1, <2>3, <2>4 DEF Frames
<1>5. CASE CopyFrame(j)
  <2> DEFINE s == sec[j]
             n == got[j]
  <2>1. CASE pc'[j] = "abort"
    BY <2>1 DEF Frames
  <2>2. CASE pc'[j] # "abort"
    <3>1. /\ pc[j] = "copy" /\ count' = count /\ sec' = sec /\ got'[j] = n + 1 /\ frame' = frame
          /\ temp' = [temp EXCEPT ![s][n] = IF Kind[j] = "video" THEN frame[n] ELSE j]
          /\ IF n + 1 < count[j] THEN pc'[j] = "copy" ELSE pc'[j] = "encode"
      BY <1>5, <2>2 DEF CopyFrame, CopyGoesOn, Goto, CallTypes
    <3>2. n < count[j] /\ n \in Indices /\ temp[s] = First(n, j)
      <4>1. n < count[j] /\ temp[s] = First(n, j)
        BY <1>0, <3>1 DEF Counts, Frames
      <4> QED
        BY <1>0, <4>1
    <3>3. Kind[j] = "video" => frame[n] = j
      BY <1>0, <3>1, <3>2 DEF Frames
    <3>4. temp'[s] = [First(n, j) EXCEPT ![n] = j]
      <4>1. temp' = [temp EXCEPT ![s][n] = j]
        BY <3>1, <3>3
      <4>2. s \in DOMAIN temp
        BY <1>0 DEF FileTypes
      <4>3. temp'[s] = [temp[s] EXCEPT ![n] = j]
        BY <4>1, <4>2
      <4> QED
        BY <3>2, <4>3
    <3>5. [First(n, j) EXCEPT ![n] = j] = First(n + 1, j)
      BY <3>2, OneMore
    <3>6. pc'[j] = "encode" => count[j] = n + 1
      BY <1>0, <3>1, <3>2
    <3>7. Kind[j] = "video" => \A i \in Indices : i < count[j] => frame[i] = j
      BY <1>0, <3>1 DEF Frames
    <3> QED
      BY <3>1, <3>4, <3>5, <3>6, <3>7 DEF Frames
  <2> QED
    BY <2>1, <2>2
<1>6. CASE Encode(j)
  <2>1. CASE pc'[j] = "abort"
    BY <2>1 DEF Frames
  <2>2. CASE pc'[j] # "abort"
    <3>1. /\ pc[j] = "encode" /\ pc'[j] = "remove" /\ count' = count /\ sec' = sec
          /\ video' = [video EXCEPT ![OutputFile(j)] = FrameSequence(sec[j])]
      BY <1>6, <2>2 DEF Encode, Goto, CallTypes
    <3>2. count[j] \in 1 .. MaxFrames /\ temp[sec[j]] = First(count[j], j)
      BY <1>0, <3>1 DEF Counts, Frames
    <3>3. FrameSequence(sec[j]) = [i \in 1 .. count[j] |-> j]
      BY <1>0, <3>2, OwnSequence
    <3>4. OutputFile(j)' = OutputFile(j) /\ video'[OutputFile(j)] = FrameSequence(sec[j])
      BY <3>1, OutputFiles DEF OutputFile, FileTypes
    <3> QED
      BY <3>1, <3>3, <3>4 DEF Frames
  <2> QED
    BY <2>1, <2>2
<1>7. CASE RemoveWorkDir(j)
  <2>1. pc[j] = "remove" /\ pc'[j] = "audio" /\ UNCHANGED <<count, sec, video>>
    BY <1>7 DEF RemoveWorkDir, Return, Goto, CallTypes
  <2>2. OutputFile(j)' = OutputFile(j)
    BY <2>1 DEF OutputFile
  <2> QED
    BY <1>0, <2>1, <2>2 DEF Frames
<1>8. CASE MakeWorkDirPanics(j) \/ AddAudio(j)
  BY <1>8 DEF MakeWorkDirPanics, AddAudio, Fail, Return, Goto, CallTypes
<1> QED
  BY <1>1, <1>2, <1>3, <1>4, <1>5, <1>6, <1>7, <1>8 DEF Step, JobStep

LEMMA StepOwnFiles ==
    ASSUME WeakTypes, AsBegun, TempsRemoved, CallTypes, FileTypes, Counts, HaveMet, OwnFiles,
           NEW j \in Jobs, Step(j)
    PROVE  OwnFiles'
<1>1. \A k \in Jobs \ {j} : k \notin met' => Frames(k)'
  BY OthersFrames
<1>2. j \notin met' => Frames(j)'
  <2>1. CASE pc'[j] \in {"done", "failed"}
    BY <2>1 DEF Frames
  <2> QED
    BY <2>1, OwnStep
<1>3. \A k \in Jobs : pc'[k] = "audio" => k \in Audio
  <2>1. \A k \in Jobs \ {j} : pc'[k] = "audio" => k \in Audio
    BY OthersKeep DEF OwnFiles
  <2>2. pc'[j] = "audio" => j \in Audio
    BY DEF Step, JobStep, Begin, QueuePrompt, WaitForCompletion, DownloadImage, MakeWorkDir,
           MakeWorkDirPanics, CopyFrame, CopyGoesOn, Encode, RemoveWorkDir, AddAudio, Fail, Return,
           Goto, CallTypes, OwnFiles
  <2> QED
    BY <2>1, <2>2
<1> QED
  BY <1>1, <1>2, <1>3 DEF OwnFiles

-----------------------------------------------------------------------------
(* All steps *)

\* What the other steps leave alone: the clock moves, the rest stays.
LEMMA FilesFrame ==
    ASSUME CallTypes, FileTypes, Counts, HaveMet, OwnFiles, clock' \in Seconds,
           UNCHANGED <<services, pc, count, got, sec, fileVars, met>>
    PROVE  CallTypes' /\ FileTypes' /\ Counts' /\ HaveMet' /\ OwnFiles'
<1>1. CallTypes' /\ Counts'
  BY DEF CallTypes, Counts
<1>2. FileTypes'
  BY DEF FileTypes, fileVars
<1>3. HaveMet'
  BY DEF HaveMet, Same, SameFrames, SameDir, SameFile, UsingFrames, UsingFile, OutputFile
<1>4. OwnFiles'
  BY DEF OwnFiles, Frames, OutputFile, fileVars
<1> QED
  BY <1>1, <1>2, <1>3, <1>4

\* What TypeOK says of the tasks.
TaskTypes ==
    /\ alive \in BOOLEAN
    /\ submit \in [Tasks -> {"none", "made", "sending", "sent"}]
    /\ id \in [Tasks -> Seconds]
    /\ table \in [Seconds -> Tasks \cup {NoJob}]
    /\ queue \in Seq(Tasks) /\ Len(queue) <= QueueSize + 1
    /\ worker \in {"waiting", "working", "cleaning", "answering"}
    /\ cur \in Tasks \cup {NoJob}
    /\ (cur = NoJob) = (worker = "waiting")
    /\ status \in [Tasks -> {"pending", "processing"} \cup Over]
    /\ old \in SUBSET {t \in Tasks : status[t] \in Over}
    /\ resp \in SUBSET Tasks

LEMMA TypesInThree == TypeOK <=> CallTypes /\ FileTypes /\ TaskTypes
BY TypesInTwo DEF TypeOK, TaskTypes

LEMMA TaskTypesStep ==
    ASSUME TaskInv, TaskTypes, [Next]_vars
    PROVE  TaskTypes'
<1>0. NoJob \notin Tasks /\ QueueSize \in Nat /\ clock \in Seconds
  BY JobsAssumption, TasksAssumption DEF TaskInv, WeakTypes
<1>1. CASE UNCHANGED taskVars
  BY <1>1 DEF taskVars, TaskTypes
<1>2. ASSUME NEW j \in Jobs, Job(j) PROVE TaskTypes'
  BY <1>2 DEF Job, TaskTypes
<1>3. ASSUME NEW t \in Tasks, NewTask(t) PROVE TaskTypes'
  BY <1>0, <1>3 DEF NewTask, TaskTypes
<1>4. ASSUME NEW t \in Tasks, Register(t) PROVE TaskTypes'
  BY <1>0, <1>4 DEF Register, TaskTypes
<1>5. ASSUME NEW t \in Tasks, Enqueue(t) PROVE TaskTypes'
  <2>1. queue' \in Seq(Tasks) /\ Len(queue') <= QueueSize + 1
    BY <1>0, <1>5 DEF Enqueue, TaskTypes, Room
  <2> QED
    BY <1>5, <2>1 DEF Enqueue, TaskTypes
<1>6. CASE GetTask
  BY <1>6 DEF GetTask, TaskTypes
<1>7. CASE Take
  <2>1. Head(queue) \in Tasks /\ queue' \in Seq(Tasks) /\ Len(queue') <= QueueSize + 1
    BY <1>0, <1>7 DEF Take, TaskTypes
  <2>2. Head(queue) \notin old
    BY <1>7, <2>1 DEF Take, Begin, TaskInv, OneAtATime
  <2> QED
    BY <1>0, <1>7, <2>1, <2>2 DEF Take, TaskTypes
<1>8. CASE Complete
  BY <1>0, <1>8 DEF Complete, TaskTypes, Over
<1>9. CASE CleanupOldTasks
  BY <1>0, <1>9 DEF CleanupOldTasks, TaskTypes
<1>10. CASE Answer
  BY <1>0, <1>10 DEF Answer, TaskTypes
<1>11. CASE Tick
  BY <1>11 DEF Tick, TaskTypes
<1> QED
  BY <1>1, <1>2, <1>3, <1>4, <1>5, <1>6, <1>7, <1>8, <1>9, <1>10, <1>11
     DEF Next, Ended, Handle, Worker, vars

LEMMA FrameInit == Init => FrameInv
<1> SUFFICES ASSUME Init PROVE FrameInv
  OBVIOUS
<1>0. MaxFrames \in Nat \ {0} /\ 0 \in Seconds
  BY JobsAssumption DEF Seconds
<1>1. CallTypes
  BY <1>0 DEF Init, MediaInit, CallTypes, JobStates
<1>2. FileTypes
  <2>1. NoFrames \in [Indices -> Jobs \cup {NoJob}] /\ <<>> \in Seq(Jobs) /\ Len(<<>>) <= MaxFrames
    BY <1>0 DEF NoFrames
  <2> QED
    BY <2>1 DEF Init, MediaInit, FileTypes
<1>3. TaskTypes
  BY <1>0, TasksAssumption, JobsAssumption DEF Init, TaskTypes
<1>4. Counts /\ HaveMet /\ OwnFiles
  BY DEF Init, MediaInit, Counts, HaveMet, Same, SameFrames, SameDir, SameFile, UsingFrames,
         UsingFile, Copying, OwnFiles, Frames
<1> QED
  BY <1>1, <1>2, <1>3, <1>4, TaskInit, TypesInThree DEF FrameInv

\* Types, meetings, and whose frames are in the files of calls that met no other, together:
\* those of the frames, of the directories, and of the videos they are to name the same.
THEOREM FrameInvariance == Spec => []FrameInv
<1>1. FrameInv /\ [Next]_vars /\ TaskInv' => FrameInv'
  <2> SUFFICES ASSUME FrameInv, [Next]_vars, TaskInv' PROVE FrameInv'
    OBVIOUS
  <2>1. /\ TaskInv /\ WeakTypes /\ AsBegun /\ TempsRemoved
        /\ CallTypes /\ FileTypes /\ TaskTypes /\ Counts /\ HaveMet /\ OwnFiles
    BY TypesInThree DEF FrameInv, TaskInv
  <2>2. TaskTypes'
    BY <2>1, TaskTypesStep
  <2>3. CallTypes' /\ FileTypes' /\ Counts' /\ HaveMet' /\ OwnFiles'
    <3>1. ASSUME NEW j \in Jobs, Step(j)
          PROVE  CallTypes' /\ FileTypes' /\ Counts' /\ HaveMet' /\ OwnFiles'
      BY <2>1, <3>1, StepCallTypes, StepFileTypes, StepHaveMet, StepOwnFiles
    <3>2. \/ \E j \in Jobs : Step(j)
          \/ UNCHANGED <<services, pc, count, got, sec, fileVars, met>> /\ clock' \in Seconds
      <4>1. CASE Take
        <5>1. Head(queue) \in Jobs
          BY <2>1, <4>1, TasksAssumption DEF Take, TaskTypes
        <5> QED
          BY <4>1, <5>1 DEF Take, Step
      <4>2. clock' = clock => clock' \in Seconds
        BY <2>1 DEF CallTypes
      <4>3. CASE Tick
        <5>1. clock' \in Seconds
          BY <2>1, <4>3, JobsAssumption DEF Tick, CallTypes, Seconds
        <5> QED
          BY <4>3, <5>1 DEF Tick
      <4>4. CASE Complete \/ CleanupOldTasks \/ Answer \/ GetTask
        BY <4>2, <4>4 DEF Complete, CleanupOldTasks, Answer, GetTask, jobVars
      <4>5. CASE \E t \in Tasks : NewTask(t) \/ Register(t) \/ Enqueue(t)
        BY <4>2, <4>5 DEF NewTask, Register, Enqueue, jobVars
      <4>6. CASE \E j \in Jobs : Handle(j) \/ Job(j)
        BY <4>6 DEF Handle, Job, Step
      <4>7. CASE UNCHANGED vars
        BY <4>2, <4>7 DEF vars, jobVars
      <4> QED
        BY <4>1, <4>3, <4>4, <4>5, <4>6, <4>7 DEF Next, Ended, Worker
    <3> QED
      BY <2>1, <3>1, <3>2, FilesFrame
  <2>4. TypeOK'
    BY <2>2, <2>3 DEF TypeOK, MediaTypeOK, CallTypes, FileTypes, TaskTypes
  <2> QED
    BY <2>3, <2>4 DEF FrameInv
<1> QED
  BY <1>1, FrameInit, TaskInvariance, PTL DEF Spec

\* The types of calls, files and tasks.
THEOREM MediaTypeCorrect == Spec => []TypeOK
BY FrameInvariance, PTL DEF FrameInv

\* A video has all frames of its own request and no other, unless another call used the
\* same files meanwhile, the video's own among them if two are to name it the same, and
\* whatever earlier calls left behind (ffmpeg.go:44-80, manager.go:207-211).
THEOREM FramesAreOwn == Spec => OwnFrames
<1> DEFINE Own == \A j \in Jobs : pc[j] # "done" /\ pc'[j] = "done" /\ IsVideo(j) /\ j \notin met =>
                     video[OutputFile(j)] = [i \in 1 .. count[j] |-> j]
<1>1. ASSUME FrameInv, [Next]_vars, NEW j \in Jobs, pc[j] # "done", pc'[j] = "done", IsVideo(j),
             j \notin met
      PROVE  video[OutputFile(j)] = [i \in 1 .. count[j] |-> j]
  <2>1. CallTypes /\ AsBegun /\ TaskTypes /\ Frames(j) /\ WeakTypes
    BY <1>1, TypesInThree DEF FrameInv, TaskInv, OwnFiles
  <2>2. Step(j)
    <3>1. PICK k \in Jobs : Step(k) /\ (k = j \/ pc'[j] = pc[j])
      <4>1. \A k \in Jobs : Step(k) => k = j \/ pc'[j] = pc[j]
        BY <1>1, <2>1, OthersStay
      <4>2. CASE Take
        <5>1. Head(queue) \in Jobs
          BY <2>1, <4>2, TasksAssumption DEF Take, TaskTypes
        <5> QED
          BY <4>1, <4>2, <5>1 DEF Take, Step
      <4>3. CASE \E k \in Jobs : Handle(k) \/ Job(k)
        BY <4>1, <4>3 DEF Handle, Job, Step
      <4> QED
        BY <1>1, <4>2, <4>3
           DEF Next, Ended, Worker, Complete, CleanupOldTasks, Answer, GetTask, Tick, NewTask,
               Register, Enqueue, jobVars, vars
    <3> QED
      BY <1>1, <3>1
  <2>3. pc[j] \in {"remove", "audio"}
    BY <1>1, <2>1, <2>2
       DEF Step, JobStep, Begin, QueuePrompt, WaitForCompletion, DownloadImage, MakeWorkDir,
           MakeWorkDirPanics, CopyFrame, CopyGoesOn, Encode, RemoveWorkDir, AddAudio, Fail, Return,
           Goto, CallTypes, AsBegun, IsVideo
  <2> QED
    BY <2>1, <2>3 DEF Frames
<1>2. FrameInv /\ [Next]_vars => [Own]_jobVars
  BY <1>1
<1> QED
  BY <1>2, FrameInvariance, PTL DEF Spec, OwnFrames

-----------------------------------------------------------------------------
(* The queue and its worker implement RequestService *)

\* A task is sent once, goes through the queue and the worker once, and has its response
\* once its status is decided.
Queued(t) == t \in Range(queue)

AnswerInv ==
    /\ IsInjective(queue)
    /\ \A t \in Tasks : Queued(t) \/ submit[t] # "sent" => pc[t] = "idle"
    /\ \A t \in Tasks : Queued(t) => submit[t] = "sent"
    /\ worker # "waiting" => /\ cur \in Tasks /\ pc[cur] # "idle" /\ cur \notin resp
                             /\ worker # "working" => status[cur] \in Over
    /\ \A t \in resp : t \in Tasks /\ pc[t] # "idle" /\ status[t] \in Over

LEMMA AnswerInit == Init => AnswerInv
BY NoMembers, TasksAssumption DEF Init, MediaInit, AnswerInv, Queued

\* A step of a call leaves its task begun, and the others where they were.
LEMMA AnswerCallStep ==
    ASSUME TaskInv, AnswerInv, NEW j \in Jobs, Handle(j) \/ Job(j)
    PROVE  AnswerInv'
<1>1. Step(j) /\ UNCHANGED <<submit, queue, worker, cur, status, resp>>
  BY DEF Handle, Job, Step, taskVars
<1>2. pc'[j] # "idle" /\ \A k \in Jobs \ {j} : pc'[k] = pc[k]
  BY <1>1, StepMoves DEF TaskInv, WeakTypes
<1>3. j \in Tasks => pc[j] # "idle"
  BY JobStepGoesOn DEF Handle, Job
<1> QED
  BY <1>1, <1>2, <1>3, TasksAssumption DEF AnswerInv, Queued

LEMMA AnswerStep == TaskInv /\ AnswerInv /\ [Next]_vars => AnswerInv'
<1> SUFFICES ASSUME TaskInv, AnswerInv, [Next]_vars PROVE AnswerInv'
  OBVIOUS
<1>1. CASE UNCHANGED <<pc, submit, queue, worker, cur, status, resp>>
  BY <1>1 DEF AnswerInv, Queued
<1>2. ASSUME NEW t \in Tasks, NewTask(t) \/ Register(t) PROVE AnswerInv'
  <2>1. submit[t] # "sent" /\ UNCHANGED <<pc, queue, worker, cur, status, resp>>
    BY <1>2 DEF NewTask, Register, jobVars
  <2>2. \A u \in Tasks : submit'[u] = "sent" <=> submit[u] = "sent"
    BY <1>2 DEF NewTask, Register, TaskInv, WeakTypes
  <2> QED
    BY <2>1, <2>2 DEF AnswerInv, Queued
<1>3. ASSUME NEW t \in Tasks, Enqueue(t) PROVE AnswerInv'
  <2>1. /\ submit[t] = "sending" /\ submit' = [submit EXCEPT ![t] = "sent"]
        /\ queue' = Append(queue, t) /\ queue \in Seq(Tasks)
        /\ UNCHANGED <<pc, worker, cur, status, resp>>
    BY <1>3 DEF Enqueue, jobVars, TaskInv, WeakTypes
  <2>2. ~Queued(t) /\ pc[t] = "idle"
    BY <2>1 DEF AnswerInv
  <2>3. IsInjective(queue') /\ \A u \in Tasks : Queued(u)' <=> Queued(u) \/ u = t
    BY <2>1, <2>2, AppendMembers DEF AnswerInv, Queued
  <2>4. \A u \in Tasks : submit'[u] = "sent" <=> submit[u] = "sent" \/ u = t
    BY <2>1 DEF TaskInv, WeakTypes
  <2> QED
    BY <2>1, <2>2, <2>3, <2>4 DEF AnswerInv
<1>4. CASE Take
  <2> DEFINE t == Head(queue)
  <2>1. /\ worker' = "working" /\ cur' = t /\ queue' = Tail(queue) /\ Begin(t)
        /\ queue \in Seq(Tasks) /\ queue # <<>>
        /\ status' = [status EXCEPT ![t] = "processing"] /\ UNCHANGED <<submit, resp>>
    BY <1>4 DEF Take, TaskInv, WeakTypes
  <2>2. Queued(t) /\ t \in Tasks /\ t \in Jobs
    BY <2>1, TailMembers, MembersInSet, TasksAssumption DEF Queued
  <2>3. IsInjective(queue') /\ \A u \in Tasks : Queued(u)' <=> Queued(u) /\ u # t
    BY <2>1, TailMembers DEF AnswerInv, Queued
  <2> HIDE DEF t
  <2>4. pc[t] = "idle" /\ submit[t] = "sent" /\ t \notin resp
    BY <2>2 DEF AnswerInv
  <2>5. pc'[t] # "idle" /\ \A k \in Jobs \ {t} : pc'[k] = pc[k]
    BY <2>1, <2>2, StepMoves DEF TaskInv, WeakTypes, Step
  <2>6. \A u \in resp : u \in Tasks /\ u \in Jobs /\ u # t /\ status'[u] = status[u]
    BY <2>1, <2>4, TasksAssumption DEF AnswerInv, TaskInv, WeakTypes
  <2> QED
    BY <2>1, <2>2, <2>3, <2>4, <2>5, <2>6, TasksAssumption DEF AnswerInv
<1>5. CASE Complete
  <2>1. /\ worker = "working" /\ worker' = "cleaning" /\ UNCHANGED <<pc, submit, queue, cur, resp>>
        /\ cur \in Tasks /\ cur \notin resp
        /\ \E end \in Over : status' = [status EXCEPT ![cur] = end]
    BY <1>5 DEF Complete, jobVars, AnswerInv, Over
  <2>2. status'[cur] \in Over /\ \A u \in Tasks \ {cur} : status'[u] = status[u]
    BY <2>1 DEF TaskInv, WeakTypes
  <2> QED
    BY <2>1, <2>2 DEF AnswerInv, Queued
<1>6. CASE CleanupOldTasks
  BY <1>6 DEF CleanupOldTasks, jobVars, AnswerInv, Queued
<1>7. CASE Answer
  BY <1>7 DEF Answer, jobVars, AnswerInv, Queued
<1>8. CASE GetTask \/ Tick \/ Ended \/ UNCHANGED vars
  BY <1>1, <1>8 DEF GetTask, Tick, Ended, vars, jobVars, taskVars
<1> QED
  BY <1>2, <1>3, <1>4, <1>5, <1>6, <1>7, <1>8, AnswerCallStep DEF Next, Worker

\* Enqueue asks and Answer produces; every other step stutters.
LEMMA SubmissionStep ==
    TaskInv /\ AnswerInv /\ [Next]_vars => [Submission!ServiceNext]_(Submission!abstractVars)
<1> DEFINE state == [t \in Tasks |-> IF submit[t] = "sent" THEN "waiting" ELSE "idle"]
           reply == [t \in Tasks |-> Outcome(t)]
<1> SUFFICES ASSUME TaskInv, AnswerInv, [Next]_vars
             PROVE  Submission!ServiceNext \/ UNCHANGED <<state, reply>>
  BY DEF Submission!abstractVars
<1>1. ASSUME UNCHANGED resp, \A t \in resp : status'[t] = status[t] PROVE UNCHANGED reply
  BY <1>1 DEF Outcome
<1>2. ASSUME \A t \in Tasks : submit'[t] = "sent" <=> submit[t] = "sent" PROVE UNCHANGED state
  BY <1>2
<1> HIDE DEF reply
<1>3. CASE UNCHANGED <<submit, resp, status>>
  BY <1>1, <1>2, <1>3
<1>4. ASSUME NEW t \in Tasks, NewTask(t) \/ Register(t) PROVE UNCHANGED <<state, reply>>
  <2>1. \A u \in Tasks : submit'[u] = "sent" <=> submit[u] = "sent"
    BY <1>4 DEF NewTask, Register, TaskInv, WeakTypes
  <2>2. UNCHANGED <<resp, status>>
    BY <1>4 DEF NewTask, Register
  <2> QED
    BY <1>1, <1>2, <2>1, <2>2
<1>5. ASSUME NEW t \in Tasks, Enqueue(t) PROVE Submission!Ask(t)
  <2>1. submit[t] = "sending" /\ submit' = [submit EXCEPT ![t] = "sent"]
    BY <1>5 DEF Enqueue
  <2>2. state[t] = "idle" /\ state' = [state EXCEPT ![t] = "waiting"]
    BY <2>1 DEF TaskInv, WeakTypes
  <2>3. UNCHANGED reply
    BY <1>1, <1>5 DEF Enqueue
  <2> QED
    BY <2>2, <2>3 DEF Submission!Ask, reply
<1>6. CASE Take
  <2>1. Queued(Head(queue)) /\ Head(queue) \in Tasks
    BY <1>6, TailMembers, MembersInSet DEF Take, TaskInv, WeakTypes, Queued
  <2>2. Head(queue) \notin resp
    BY <2>1 DEF AnswerInv
  <2>3. UNCHANGED <<submit, resp>> /\ \A t \in resp : status'[t] = status[t]
    BY <1>6, <2>2 DEF Take, AnswerInv, TaskInv, WeakTypes
  <2> QED
    BY <1>1, <1>2, <2>3
<1>7. CASE Complete
  <2>1. UNCHANGED <<submit, resp>> /\ \A t \in resp : status'[t] = status[t]
    BY <1>7 DEF Complete, AnswerInv, TaskInv, WeakTypes
  <2> QED
    BY <1>1, <1>2, <2>1
<1>8. CASE Answer
  <2>1. /\ cur \in Tasks /\ pc[cur] # "idle" /\ cur \notin resp /\ status[cur] \in Over
        /\ resp' = resp \cup {cur} /\ UNCHANGED <<submit, status>>
    BY <1>8 DEF Answer, AnswerInv
  <2> DEFINE outcome == IF status[cur] = "completed" THEN "ok" ELSE "error"
  <2>2. state[cur] = "waiting" /\ UNCHANGED state
    BY <2>1 DEF AnswerInv
  <2>3. reply[cur] = "empty" /\ reply' = [reply EXCEPT ![cur] = outcome]
    BY <2>1 DEF reply, Outcome, Over
  <2>4. Submission!Produce(cur, outcome)
    BY <2>2, <2>3 DEF Submission!Produce, reply
  <2> QED
    BY <2>1, <2>4 DEF Submission!ServiceNext
<1>9. CASE \/ CleanupOldTasks \/ GetTask \/ Tick \/ Ended \/ UNCHANGED vars
           \/ \E j \in Jobs : Handle(j) \/ Job(j)
  BY <1>3, <1>9 DEF CleanupOldTasks, GetTask, Tick, Ended, vars, taskVars, Handle, Job
<1> QED
  BY <1>4, <1>5, <1>6, <1>7, <1>8, <1>9 DEF Next, Worker, Submission!ServiceNext

\* Whoever submits tasks sees, however many, how large the queue and how often the ID is
\* the same, what RequestService promises (manager.go:83-124, 291-297).
THEOREM TasksRefineService == Spec => TasksImplementService
<1>1. Init => Submission!ServiceInit
  BY TasksAssumption DEF Init, Submission!ServiceInit, Outcome
<1>2. Spec => []AnswerInv
  BY AnswerInit, AnswerStep, TaskInvariance, PTL DEF Spec
<1> QED
  BY <1>1, <1>2, SubmissionStep, TaskInvariance, PTL
     DEF Spec, TasksImplementService, Submission!ServiceSpec
=============================================================================
