-------------------------------- MODULE Setup --------------------------------
(***************************************************************************)
(* cmd/setup/main.go: the installer.  A run checks which programs are      *)
(* there, by their main files; asks; downloads and unpacks those that are  *)
(* not; and writes the configuration.  No error stops it, its user may cut *)
(* it off at any moment, and then, or later anyhow, he runs it again.      *)
(*                                                                         *)
(* A program is its main file, which the check looks for, and the rest of  *)
(* its files.  "llama" and "ffmpeg" are unpacked in place.  ComfyUI is     *)
(* cloned by git, or unpacked to ComfyUI-temp and renamed.  llama.cpp's    *)
(* archive has a default; to the other two there may be no way: no URL in  *)
(* the environment, or a system for which the archive is not a zip or the  *)
(* main file that is looked for, an .exe, is not in it.                    *)
(***************************************************************************)
EXTENDS Configuration

CONSTANTS Programs,  \* those of the three that the instance has
          Edited,    \* the configurations its user may write
          MaxSetbacks \* bound on what goes wrong: failures, cut-offs, and refusals of the user

ASSUME SetupAssumption == /\ Programs \subseteq {"llama", "ffmpeg", "comfy"}
                          /\ "llama" \in Programs
                          /\ Edited \subseteq Configuration
                          /\ \A c \in Edited : c.from = "user"
                          /\ MaxSetbacks \in Nat

VARIABLES way,     \* how each program would be installed
          own,     \* where the user has put a llama-server of his own, if anywhere
          pc,      \* where the run is: "over" when it has reached its end
          todo,    \* the programs it has still to install
          left,    \* the files of the archive it has still to unpack
          open,    \* the one that is being written
          file,    \* the files of each program, and of ComfyUI-temp
          comfyDir, \* there is a directory ComfyUI
          config,  \* configs/config.yaml
          setbacks, \* how much has gone wrong
          hurt,    \* history: of which programs which files were still to come when the
                   \* unpacking was cut off, or could not be read from the archive
          written  \* history: the run that has reached its end wrote the configuration

setupVars == <<way, own, pc, todo, left, open, file, comfyDir, config, setbacks, hurt, written>>

Parts == {"main", "rest"}
Nothing == [part \in Parts |-> "none"]
Idle == pc \in {"idle", "over"}

\* getLlamaCppURL, getFFmpegURL, getComfyUIURL, and what the archives are.
Ways(p) == CASE p = "llama"  -> {"zip"}
             [] p = "ffmpeg" -> {"zip", "none"}
             [] p = "comfy"  -> {"git", "zip", "none"}
WaysToInstall == {w \in [Programs -> {"git", "zip", "none"}] :
                      \A p \in Programs : w[p] \in Ways(p)}

\* Faulty: the directory is looked for.
HasDirectory(p) == file[p] # Nothing \/ (p = "llama" /\ own # "none")

\* os.Stat of the paths of checkLlamaCpp, checkComfyUI, checkFFmpeg
Installed(p) == file[p]["main"] # "none" \/ (p = "llama" /\ own # "none")

\* The file that a configuration names is there.
Exists(binary) == \/ binary = "exe" /\ file["llama"]["main"] # "none"
                  \/ binary = "plain" /\ own = "llama.cpp"

SetupTypeOK ==
    /\ way \in WaysToInstall
    /\ own \in {"none", "llama.cpp", "project"}
    /\ pc \in {"idle", "over", "ask", "install", "unpack", "write"}
    /\ todo \in SUBSET Programs
    /\ left \in SUBSET Parts
    /\ open \in left \cup {"none"}
    /\ file \in [Programs \cup {"temp"} -> [Parts -> {"none", "truncated", "whole"}]]
    /\ comfyDir \in BOOLEAN
    /\ config \in Configuration
    /\ setbacks \in 0 .. MaxSetbacks
    /\ hurt \in SUBSET (Programs \X Parts)
    /\ written \in BOOLEAN /\ (written => pc = "over")
    /\ pc = "unpack" => todo # {}
    /\ pc # "unpack" => left = {}

SetupInit == /\ way \in WaysToInstall
             /\ own \in {"none", "llama.cpp", "project"}
             /\ pc = "idle"
             /\ todo = {} /\ left = {} /\ open = "none"
             /\ file = [p \in Programs \cup {"temp"} |-> Nothing]
             /\ comfyDir = FALSE
             /\ config \in Edited
             /\ setbacks = 0 /\ hurt = {} /\ written = FALSE

-----------------------------------------------------------------------------
(* main *)

Check == /\ Idle
         /\ todo' = {p \in Programs : ~Installed(p)}
         /\ pc' = IF todo' = {} THEN "install" ELSE "ask"
         /\ written' = FALSE
         /\ UNCHANGED <<way, own, left, open, file, comfyDir, config, setbacks, hurt>>

Yes == /\ pc = "ask" /\ pc' = "install"
       /\ UNCHANGED <<way, own, todo, left, open, file, comfyDir, config, setbacks, hurt,
                      written>>

\* Something goes wrong that may also go right.
Setback == setbacks < MaxSetbacks /\ setbacks' = setbacks + 1

No == /\ pc = "ask" /\ pc' = "install"
      /\ todo' = {}
      /\ Setback
      /\ UNCHANGED <<way, own, left, open, file, comfyDir, config, hurt, written>>

\* The program to be installed next.
At == IF "llama" \in todo THEN "llama" ELSE IF "ffmpeg" \in todo THEN "ffmpeg" ELSE "comfy"

\* Where its files go.
Target == IF At = "comfy" /\ way[At] = "zip" THEN "temp" ELSE At

Cloning == At = "comfy" /\ way[At] = "git"

\* There is a way; but git does not clone into a directory that has something in it.
Possible == /\ way[At] # "none"
            /\ Cloning => file["comfy"] = Nothing

\* The archive arrives whole, or git begins.
Download ==
    /\ pc = "install" /\ todo # {} /\ Possible
    /\ pc' = "unpack"
    /\ left' = Parts
    /\ comfyDir' = (comfyDir \/ Cloning)
    /\ UNCHANGED <<way, own, todo, open, file, config, setbacks, hurt, written>>

\* downloadLlamaCpp, downloadFFmpeg, downloadComfyUI return an error, which is dropped.
DownloadFails ==
    /\ pc = "install" /\ todo # {}
    /\ IF Possible THEN Setback ELSE UNCHANGED setbacks
    /\ todo' = todo \ {At}
    /\ comfyDir' = (comfyDir \/ Cloning)
    /\ UNCHANGED <<way, own, pc, left, open, file, config, hurt, written>>

-----------------------------------------------------------------------------
(* extractZip, and what git clone does *)

\* os.Create; git comes to the files that are looked for when it has all its objects.
CreateFile(part) ==
    /\ pc = "unpack" /\ open = "none" /\ part \in left
    /\ Cloning /\ part = "main" => left = {"main"}
    /\ open' = part
    /\ file' = [file EXCEPT ![Target][part] = "truncated"]
    /\ UNCHANGED <<way, own, pc, todo, left, comfyDir, config, setbacks, hurt, written>>

\* Of an entry that cannot be opened the file is there already, and stays, empty.
OpenFails == /\ open # "none" /\ ~Cloning
             /\ left' = left \ {open}
             /\ open' = "none"
             /\ hurt' = hurt \cup {<<At, open>>}
             /\ Setback
             /\ UNCHANGED <<way, own, pc, todo, file, comfyDir, config, written>>

\* A file that cannot be created is passed over.
CreateFails(part) ==
    /\ pc = "unpack" /\ open = "none" /\ part \in left /\ ~Cloning
    /\ left' = left \ {part}
    /\ Setback
    /\ UNCHANGED <<way, own, pc, todo, open, file, comfyDir, config, hurt, written>>

CopyFile == /\ open # "none"
            /\ file' = [file EXCEPT ![Target][open] = "whole"]
            /\ left' = left \ {open}
            /\ open' = "none"
            /\ UNCHANGED <<way, own, pc, todo, comfyDir, config, setbacks, hurt, written>>

\* Faulty: the file is not closed.
CopyFailsOpen == /\ open # "none" /\ ~Cloning
                 /\ Setback
                 /\ file' = [file EXCEPT ![Target][open] = "none"]
                 /\ left' = left \ {open}
                 /\ UNCHANGED <<way, own, pc, todo, open, comfyDir, config, hurt, written>>

\* Faulty: the file is left as it is.
CopyFailsQuietly == /\ open # "none" /\ ~Cloning
                    /\ left' = left \ {open}
                    /\ open' = "none"
                    /\ Setback
                    /\ UNCHANGED <<way, own, pc, todo, file, comfyDir, config, hurt, written>>

\* A file that cannot be written, or unpacked, is removed.
CopyFails == /\ open # "none" /\ ~Cloning
             /\ file' = [file EXCEPT ![Target][open] = "none"]
             /\ left' = left \ {open}
             /\ open' = "none"
             /\ Setback
             /\ UNCHANGED <<way, own, pc, todo, comfyDir, config, hurt, written>>

\* git removes what it has made when it fails.
CloneFails == /\ pc = "unpack" /\ Cloning /\ left # {}
              /\ file' = [file EXCEPT !["comfy"] = Nothing]
              /\ left' = {} /\ open' = "none"
              /\ pc' = "install"
              /\ todo' = todo \ {At}
              /\ Setback
              /\ UNCHANGED <<way, own, comfyDir, config, hurt, written>>

\* downloadComfyUIAsZip: os.Rename onto a directory that is there fails, unnoticed.
Unpacked ==
    /\ pc = "unpack" /\ left = {}
    /\ pc' = "install"
    /\ todo' = todo \ {At}
    /\ IF Target = "temp"
       THEN /\ file' = [file EXCEPT !["temp"] = Nothing,
                                    !["comfy"] = IF comfyDir THEN @ ELSE file["temp"]]
            /\ comfyDir' = TRUE
       ELSE UNCHANGED <<file, comfyDir>>
    /\ UNCHANGED <<way, own, left, open, config, setbacks, hurt, written>>

-----------------------------------------------------------------------------
(* createConfigFile *)

\* Faulty: the release's name for the binary, whatever there is.
AlwaysExe == "exe"

\* llamaPath: one of the two names under llama.cpp/, there or not.
BinaryName == IF file["llama"]["main"] # "none" THEN "exe" ELSE "plain"

\* os.WriteFile empties the file before it writes it.
TruncateConfig == /\ pc = "install" /\ todo = {}
                  /\ pc' = "write"
                  /\ config' = Empty
                  /\ UNCHANGED <<way, own, todo, left, open, file, comfyDir, setbacks, hurt,
                                 written>>

WriteConfig == /\ pc = "write"
               /\ pc' = "over"
               /\ config' = Written(BinaryName)
               /\ written' = TRUE
               /\ UNCHANGED <<way, own, todo, left, open, file, comfyDir, setbacks, hurt>>

\* There is no directory configs, or no room: the run says all the same that it is complete.
ConfigFails == /\ \/ pc = "install" /\ todo = {}
                  \/ pc = "write"
               /\ pc' = "over"
               /\ Setback
               /\ UNCHANGED <<way, own, todo, left, open, file, comfyDir, config, hurt, written>>

-----------------------------------------------------------------------------
\* The run is cut off, and what it was writing stays as it is.
CutOff == /\ ~Idle /\ Setback
          /\ hurt' = IF pc = "unpack" THEN hurt \cup ({At} \X left) ELSE hurt
          /\ pc' = "idle"
          /\ todo' = {} /\ left' = {} /\ open' = "none"
          /\ UNCHANGED <<way, own, file, comfyDir, config, written>>

\* The user edits the configuration.
EditConfig == /\ Idle
              /\ pc' = "idle"
              /\ config' \in Edited
              /\ written' = FALSE
              /\ UNCHANGED <<way, own, todo, left, open, file, comfyDir, setbacks, hurt>>

SetupStep == \/ Yes \/ No \/ Download \/ DownloadFails
             \/ \E part \in Parts : CreateFile(part) \/ CreateFails(part)
             \/ CopyFile \/ OpenFails \/ CopyFails \/ CloneFails \/ Unpacked
             \/ TruncateConfig \/ WriteConfig \/ ConfigFails

-----------------------------------------------------------------------------
(* Properties *)

\* A file is only ever left truncated by a run that was cut off before it had unpacked
\* the file, or could not open it in the archive: a failing creation or copy does not do
\* it, nor any number of runs after such failures.  Of a truncated file the next check
\* says that the program is installed (main.go:199, 664-682).
TruncatedOnlyWhenHurt ==
    \A p \in Programs, part \in Parts : <<p, part>> \notin hurt =>
        /\ file[p][part] = "truncated" => pc = "unpack" /\ At = p /\ open = part
        /\ p = "comfy" /\ file["temp"][part] = "truncated" => pc = "unpack" /\ open = part

\* Whatever went wrong in earlier runs, a program whose main file is missing gets it in
\* the end; but not one to which there is no way (main.go:806-832), nor ComfyUI once a
\* clone was cut off or an archive without main.py was renamed: then ComfyUI is in its
\* own way (main.go:524).
GetsInstalled ==
    \A p \in Programs : file[p]["main"] = "none" ~>
        \/ file[p]["main"] # "none"
        \/ p = "llama" /\ own # "none"
        \/ p # "llama" /\ way[p] = "none"
        \/ p = "comfy" /\ \/ way[p] = "git" /\ <<p, "main">> \in hurt
                          \/ way[p] = "zip" /\ comfyDir
=============================================================================
