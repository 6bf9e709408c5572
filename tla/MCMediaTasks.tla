---------------------------- MODULE MCMediaTasks ----------------------------
(***************************************************************************)
(* Two tasks, a video and a composition, beside the call of a handler, a   *)
(* video or a composition with an audio track.  The compositions leave     *)
(* their output_name blank.                                                *)
(***************************************************************************)
EXTENDS MediaTasks, TLC

CONSTANTS h1, h2, t1, t2, video0, video1, blank, blank_audio

\* One handler calls, and if it is a composition, begins and ends in the first second.
OneHandler == \/ pc[h2] = "idle"
              \/ pc[h1] = "idle" /\ (clock = 0 \/ Finished(h2))

MCKind == (h1 :> "video") @@ (h2 :> "compose") @@ (t1 :> "video") @@ (t2 :> "compose")
MCVideoFile == (0 :> video0) @@ (1 :> video1)
MCOutput == [j \in Jobs |-> blank]
MCWithAudio == [j \in Jobs |-> blank_audio]
=============================================================================
