------------------------------ MODULE MediaJobs ------------------------------
(***************************************************************************)
(* What one call of GenerateImage, UpscaleImage, GenerateVideo or          *)
(* ComposeVideo does (internal/multimodal/manager.go, with comfy.go and    *)
(* ffmpeg.go), step by step, beside other calls.  Nothing locks the files: *)
(* every video has its frames downloaded to the same frame_%05d.png, every *)
(* call of ImagesToVideo copies them to a directory named after the second *)
(* it began in, and removes that directory at its end, and the video is    *)
(* named after the second too, or as the client of ComposeVideo likes: two *)
(* of them may choose one name, or leave it blank.                         *)
(*                                                                         *)
(* A file's content is the job whose frame it is: frames stay at their     *)
(* index.  Writing one file, one ffmpeg and RemoveAll are one step each.   *)
(* The files of single images are left out, since no call reads them, and  *)
(* so is a video that no running call is to write or to use any more:      *)
(* ffmpeg is told to overwrite.  The images that a client of ComposeVideo  *)
(* names are his own.                                                      *)
(***************************************************************************)
EXTENDS Naturals, Sequences, FiniteSetsExt

CONSTANTS Jobs,       \* calls
          Kind,       \* what each is a call of
          Audio,      \* the ComposeVideo calls with an AudioPath
          MaxFrames,  \* bound on the frames of a video
          MaxSecond,  \* bound on the clock
          Files,      \* the video files
          VideoFile,  \* the one that is named after a second
          Output,     \* the one that a ComposeVideo call names by its OutputName
          WithAudio,  \* the one with the audio, named by OutputName + "_with_audio"
          NoJob

Seconds == 0 .. MaxSecond

ASSUME JobsAssumption == /\ Kind \in [Jobs -> {"image", "upscale", "video", "compose"}]
                         /\ Audio \subseteq {j \in Jobs : Kind[j] = "compose"}
                         /\ MaxFrames \in Nat \ {0} /\ MaxSecond \in Nat
                         /\ VideoFile \in [Seconds -> Files]
                         /\ Output \in [Jobs -> Files] /\ WithAudio \in [Jobs -> Files]
                         /\ NoJob \notin Jobs

VARIABLES services, \* those the configuration enables: comfyui, ffmpeg
          clock,  \* time.Now().Unix()
          pc,     \* where a job is
          count,  \* its frames
          got,    \* how many of them it has downloaded, or copied
          sec,    \* the second it named its directory and its video after
          frame,  \* the downloaded frame files
          dirs,   \* the temp_ directories there are
          temp,   \* the frames in each of them
          video,  \* the content of the video files that running calls use
          met     \* history: jobs that used the same files as another at the same time

fileVars == <<frame, dirs, temp, video>>
jobVars == <<services, clock, pc, count, got, sec, fileVars, met>>

Indices == 0 .. MaxFrames - 1
NoFrames == [i \in Indices |-> NoJob]

JobStates == {"idle", "prompt", "poll", "download", "mkdir", "copy", "encode", "remove",
              "abort", "audio", "done", "failed"}
Copying == {"copy", "encode", "remove", "abort"}

MediaTypeOK ==
    /\ services \in SUBSET {"comfyui", "ffmpeg"}
    /\ clock \in Seconds
    /\ pc \in [Jobs -> JobStates]
    /\ count \in [Jobs -> 0 .. MaxFrames]
    /\ got \in [Jobs -> 0 .. MaxFrames]
    /\ \A j \in Jobs : got[j] <= count[j]
    /\ sec \in [Jobs -> Seconds]
    /\ frame \in [Indices -> Jobs \cup {NoJob}]
    /\ dirs \in SUBSET Seconds
    /\ temp \in [Seconds -> [Indices -> Jobs \cup {NoJob}]]
    /\ \A s \in Seconds \ dirs : temp[s] = NoFrames
    /\ DOMAIN video = Files
    /\ \A f \in Files : video[f] \in Seq(Jobs) /\ Len(video[f]) <= MaxFrames
    /\ met \in SUBSET Jobs

MediaInit == /\ services \in SUBSET {"comfyui", "ffmpeg"}
             /\ clock = 0
             /\ pc = [j \in Jobs |-> "idle"]
             /\ count = [j \in Jobs |-> 0]
             /\ got = [j \in Jobs |-> 0]
             /\ sec = [j \in Jobs |-> 0]
             /\ frame = NoFrames
             /\ dirs = {}
             /\ temp = [s \in Seconds |-> NoFrames]
             /\ video = [f \in Files |-> <<>>]
             /\ met = {}

\* A job uses files together with others.
Meets(j, others) == met' = IF others \ {j} = {} THEN met ELSE met \cup others \cup {j}

\* Videos whose frames are on disk and not all copied yet.
UsingFrames == {j \in Jobs : Kind[j] = "video" /\ pc[j] \in {"download", "mkdir", "copy"}}
UsingDir(s) == {j \in Jobs : pc[j] \in Copying /\ sec[j] = s}

\* The file ImagesToVideo makes; and the calls that write such a file or have yet to use
\* or return what they wrote.
OutputFile(j) == IF Kind[j] = "video" THEN VideoFile[sec[j]] ELSE Output[j]
UsingFile(f) == {j \in Jobs : \/ pc[j] \in {"encode", "remove", "audio"} /\ OutputFile(j) = f
                              \/ pc[j] = "audio" /\ WithAudio[j] = f}

Goto(j, state) == pc' = [pc EXCEPT ![j] = state]

\* A call returns, and its variables are gone.
Return(j, state) == /\ Goto(j, state)
                    /\ count' = [count EXCEPT ![j] = 0]
                    /\ got' = [got EXCEPT ![j] = 0]
                    /\ sec' = [sec EXCEPT ![j] = 0]
                    /\ met' = met \ {j}

Fail(j) == Return(j, "failed") /\ UNCHANGED <<services, clock, fileVars>>

\* A frame has been copied; after the last one the video is written.
CopyGoesOn(j) == /\ got' = [got EXCEPT ![j] = @ + 1]
                 /\ IF got[j] + 1 < count[j]
                    THEN UNCHANGED <<pc, met>>
                    ELSE Goto(j, "encode") /\ Meets(j, UsingFile(OutputFile(j)))

-----------------------------------------------------------------------------
(* ComfyUI: GenerateImage, UpscaleImage and the first half of GenerateVideo *)

\* The service a call asks for first.
Needs(j) == IF Kind[j] = "compose" THEN "ffmpeg" ELSE "comfyui"

\* A call begins; ComposeVideo at once with the images it was given, if any.
Begin(j) == /\ pc[j] = "idle"
            /\ \/ /\ Needs(j) \notin services \/ Kind[j] = "compose"
                  /\ Goto(j, "failed") /\ UNCHANGED count
               \/ /\ Needs(j) \in services /\ Kind[j] = "compose"
                  /\ Goto(j, "mkdir")
                  /\ \E n \in 1 .. MaxFrames : count' = [count EXCEPT ![j] = n]
               \/ /\ Needs(j) \in services /\ Kind[j] # "compose"
                  /\ Goto(j, "prompt") /\ UNCHANGED count
            /\ UNCHANGED <<services, clock, got, sec, fileVars, met>>

\* QueuePrompt
QueuePrompt(j) == /\ pc[j] = "prompt"
                  /\ \/ /\ Goto(j, "poll")
                        /\ UNCHANGED <<services, clock, count, got, sec, fileVars, met>>
                     \/ Fail(j)

\* The last turn of WaitForCompletion, and GetOutputImages: the images are there, or
\* there was an error, no image, or no time left.
WaitForCompletion(j) ==
    /\ pc[j] = "poll"
    /\ \/ /\ Goto(j, "download")
          /\ \E n \in IF Kind[j] = "video" THEN 1 .. MaxFrames ELSE {1} :
                count' = [count EXCEPT ![j] = n]
          /\ Meets(j, IF Kind[j] = "video" THEN UsingFrames ELSE {})
          /\ UNCHANGED <<services, clock, got, sec, fileVars>>
       \/ Fail(j)

\* DownloadImage, of the one image or of the next frame.
DownloadImage(j) ==
    /\ pc[j] = "download"
    /\ \/ /\ Kind[j] # "video"
          /\ Return(j, "done")
          /\ UNCHANGED <<services, clock, fileVars>>
       \/ /\ Kind[j] = "video"
          /\ got' = [got EXCEPT ![j] = @ + 1]
          /\ frame' = [frame EXCEPT ![got[j]] = j]
          /\ IF got[j] + 1 < count[j] THEN UNCHANGED pc ELSE Goto(j, "mkdir")
          /\ UNCHANGED <<services, clock, count, sec, dirs, temp, video, met>>
       \/ Fail(j)

-----------------------------------------------------------------------------
(* Faulty variants of the definitions below: each breaks a property (README). *)

\* The directory is left for the next time.
KeepWorkDir(j) == /\ pc[j] \in {"remove", "abort"}
                  /\ IF pc[j] = "remove" /\ j \in Audio
                     THEN /\ Goto(j, "audio") /\ UNCHANGED <<count, got, sec>>
                          /\ Meets(j, UsingFile(WithAudio[j]))
                     ELSE Return(j, IF pc[j] = "abort" THEN "failed" ELSE "done")
                  /\ UNCHANGED <<services, clock, fileVars>>

\* The removal of the directory is deferred only once the frames are copied.
CopyBeforeDefer(j) ==
    /\ pc[j] = "copy"
    /\ \/ /\ sec[j] \in dirs
          /\ temp' = [temp EXCEPT ![sec[j]][got[j]] =
                         IF Kind[j] = "video" THEN frame[got[j]] ELSE j]
          /\ CopyGoesOn(j)
          /\ UNCHANGED <<services, clock, count, sec, frame, dirs, video>>
       \/ Fail(j)

-----------------------------------------------------------------------------
(* FFmpeg: ImagesToVideo, VideoWithAudio *)

\* The video and the directory get their names from the time.
MakeWorkDir(j) == /\ pc[j] = "mkdir" /\ "ffmpeg" \in services
                  /\ sec' = [sec EXCEPT ![j] = clock]
                  /\ dirs' = dirs \cup {clock}
                  /\ got' = [got EXCEPT ![j] = 0]
                  /\ Goto(j, "copy")
                  /\ Meets(j, UsingDir(clock))
                  /\ UNCHANGED <<services, clock, count, frame, temp, video>>

\* GenerateVideo does not ask whether there is an FFmpeg: the nil pointer panics.
NilFFmpeg(j) == pc[j] = "mkdir" /\ "ffmpeg" \notin services
MakeWorkDirPanics(j) == NilFFmpeg(j) /\ Fail(j)

\* copyFile of the next frame; it fails when the directory is gone, among others.
CopyFrame(j) ==
    /\ pc[j] = "copy"
    /\ \/ /\ sec[j] \in dirs
          /\ temp' = [temp EXCEPT ![sec[j]][got[j]] =
                         IF Kind[j] = "video" THEN frame[got[j]] ELSE j]
          /\ CopyGoesOn(j)
          /\ UNCHANGED <<services, clock, count, sec, frame, dirs, video>>
       \/ /\ Goto(j, "abort")
          /\ UNCHANGED <<services, clock, count, got, sec, fileVars, met>>

\* What ffmpeg finds in a directory: frames from the first there is to the first gap.
FrameSequence(s) ==
    LET present == {i \in Indices : temp[s][i] # NoJob}
        first == Min(present)
        last == Max({i \in present : first .. i \subseteq present})
    IN  [i \in 1 .. last - first + 1 |-> temp[s][first + i - 1]]

\* A file is written by an ffmpeg that ends well, or does not: then it is as it was, or
\* as good as empty.
Spoiled(f) == {video, [video EXCEPT ![f] = <<>>]}

\* j returns, its files are its client's, and of those the calls that go on use remain.
LeaveFiles(j, files) ==
    video' = [f \in Files |-> IF UsingFile(f) \ {j} = {} THEN <<>> ELSE files[f]]

\* ffmpeg; it fails when there is no frame, among others.
Encode(j) ==
    /\ pc[j] = "encode"
    /\ \/ /\ temp[sec[j]] # NoFrames
          /\ video' = [video EXCEPT ![OutputFile(j)] = FrameSequence(sec[j])]
          /\ Goto(j, "remove")
       \/ /\ video' \in Spoiled(OutputFile(j))
          /\ Goto(j, "abort")
    /\ UNCHANGED <<services, clock, count, got, sec, frame, dirs, temp, met>>

\* The deferred RemoveAll, and what the caller goes on to.
RemoveWorkDir(j) == /\ pc[j] \in {"remove", "abort"}
                    /\ dirs' = dirs \ {sec[j]}
                    /\ temp' = [temp EXCEPT ![sec[j]] = NoFrames]
                    /\ IF pc[j] = "remove" /\ j \in Audio
                       THEN /\ Goto(j, "audio") /\ UNCHANGED <<count, got, sec, video>>
                            /\ Meets(j, UsingFile(WithAudio[j]))
                       ELSE /\ Return(j, IF pc[j] = "abort" THEN "failed" ELSE "done")
                            /\ LeaveFiles(j, video)
                    /\ UNCHANGED <<services, clock, frame>>

\* VideoWithAudio: the frames of its video are those of the one it is given.
AddAudio(j) ==
    /\ pc[j] = "audio"
    /\ \/ /\ Return(j, "done")
          /\ LeaveFiles(j, [video EXCEPT ![WithAudio[j]] = video[Output[j]]])
       \/ /\ Return(j, "failed")
          /\ \E files \in Spoiled(WithAudio[j]) : LeaveFiles(j, files)
    /\ UNCHANGED <<services, clock, frame, dirs, temp>>

\* A job goes on by itself.
JobStep(j) == \/ QueuePrompt(j) \/ WaitForCompletion(j) \/ DownloadImage(j)
              \/ MakeWorkDir(j) \/ MakeWorkDirPanics(j) \/ CopyFrame(j) \/ Encode(j)
              \/ RemoveWorkDir(j) \/ AddAudio(j)

-----------------------------------------------------------------------------
(* Properties *)

Finished(j) == pc[j] \in {"done", "failed"}
IsVideo(j) == Kind[j] \in {"video", "compose"}

\* A video that is returned has all frames of its own request and no other, unless
\* another call used one of the call's files meanwhile, be it a frame, the directory, or
\* the video that both are to name the same: whatever came before in the same second or
\* under the same name, was longer or failed leaves nothing behind that gets into it
\* (ffmpeg.go:44-80, manager.go:207-211, 273-285).  Audio is added to this video at once.
OwnFrames ==
    [][\A j \in Jobs : pc[j] # "done" /\ pc'[j] = "done" /\ IsVideo(j) /\ j \notin met =>
          video[OutputFile(j)] = [i \in 1 .. count[j] |-> j]]_jobVars

\* Directories of frames do not pile up, however calls that share one interleave and
\* fail: each is there only while a call that made it is running.
TempsRemoved == \A s \in dirs : UsingDir(s) # {}
=============================================================================
