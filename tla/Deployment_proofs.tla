-------------------------- MODULE Deployment_proofs --------------------------
(***************************************************************************)
(* For every set of programs, all configurations, GPUs and bounds: the     *)
(* types of Deployment, what is left truncated (TruncatedOnlyWhenHurt),    *)
(* what a configuration of setup's is good for (SetupServes), whose        *)
(* settings count (UserWins), and which GPU each loop over the list ends   *)
(* with (ChoosesBest).                                                     *)
(***************************************************************************)
EXTENDS Deployment, QueueLemmas

-----------------------------------------------------------------------------
(* The invariant *)

\* A program's files are written to a directory of its own; ComfyUI's to either of two.
Program(q) == IF q = "temp" THEN "comfy" ELSE q

\* A file is truncated only while it is written, unless it was still to come when the
\* unpacking of its program was cut off, or could not be opened in the archive.
OnlyWhileWritten ==
    \A q \in Programs \cup {"temp"}, part \in Parts : <<Program(q), part>> \notin hurt =>
        (file[q][part] = "truncated" => pc = "unpack" /\ Target = q /\ open = part)

\* What makes the server panic is not in a configuration of setup's.
Sound(c) == c.from = "setup" => /\ "blank" \notin {c.interval, c.batcher}
                                /\ c.gpuIDs # "empty"

Binaries == pc = "over" /\ written /\ (\E binary \in {"exe", "plain"} : Exists(binary)) => Exists(config.binary)

\* cfg is what Load and the preset have made of read.
Expected == LET loaded == Defaults(read)
            IN  IF HasPreset(loaded) THEN WithPreset(loaded) ELSE loaded

ConfigurationsAgree == /\ Sound(config) /\ Sound(read) /\ Sound(cfg)
                       /\ cfg.from = read.from
                       /\ server = "panicked" => read.from # "setup"
                       /\ server = "preset" => cfg = Defaults(read)
                       /\ server \in {"init", "serving"} => cfg = Expected
                       /\ server = "off" => next = 1

-----------------------------------------------------------------------------
(* The installer *)

\* While there is a program to install, At is one.
LEMMA AtIsToDo == ASSUME SetupTypeOK, todo # {}
                  PROVE  At \in todo /\ At \in Programs /\ At # "temp"
BY SetupAssumption DEF SetupTypeOK, At

\* The directory that is written to is one there is.
LEMMA TargetIsThere == ASSUME SetupTypeOK, pc = "unpack"
                       PROVE  /\ Target \in Programs \cup {"temp"}
                              /\ Program(Target) = At
                              /\ Cloning => Target = "comfy" /\ "comfy" \in Programs
<1>1. At \in Programs /\ At # "temp"
  BY AtIsToDo DEF SetupTypeOK
<1>2. Target = At \/ (Target = "temp" /\ At = "comfy")
  BY DEF Target
<1>3. Cloning => At = "comfy" /\ Target = At
  BY DEF Cloning, Target
<1> QED
  BY <1>1, <1>2, <1>3 DEF Program

\* The configurations that setup leaves are configurations.
LEMMA ConfigurationsOfSetup == /\ Empty \in Configuration
                               /\ Written(BinaryName) \in Configuration
<1>1. Empty \in Configuration
  BY DEF Empty, Configuration, Settings
<1>2. BinaryName \in {"exe", "plain"}
  BY DEF BinaryName
<1>3. <<[instances |-> 1, batch |-> "blank"]>> \in Seq([instances : Nat, batch : Settings])
  BY DEF Settings
<1>4. ASSUME NEW b \in {"exe", "plain"} PROVE Written(b) \in Configuration
  BY <1>3 DEF Written, Configuration, Settings
<1> QED
  BY <1>1, <1>2, <1>4

Contents == {"none", "truncated", "whole"}

LEMMA NothingIsContent == Nothing \in [Parts -> Contents]
BY DEF Nothing, Contents

LEMMA SetupInitTypeOK == SetupInit => SetupTypeOK
<1> SUFFICES ASSUME SetupInit PROVE SetupTypeOK
  OBVIOUS
<1>1. file \in [Programs \cup {"temp"} -> [Parts -> Contents]]
  BY NothingIsContent DEF SetupInit
<1>2. config \in Configuration /\ setbacks \in 0 .. MaxSetbacks
  BY SetupAssumption DEF SetupInit
<1> QED
  BY <1>1, <1>2 DEF SetupInit, SetupTypeOK, Contents

\* A program's files keep their type when one of them is created, written or removed.
LEMMA FileUpdate ==
    ASSUME SetupTypeOK, pc = "unpack", NEW part \in Parts, NEW content \in Contents
    PROVE  [file EXCEPT ![Target][part] = content] \in
               [Programs \cup {"temp"} -> [Parts -> Contents]]
BY TargetIsThere DEF SetupTypeOK, Contents

LEMMA SetupTypeStep ==
    ASSUME SetupTypeOK, Check \/ SetupStep \/ CutOff \/ EditConfig
    PROVE  SetupTypeOK'
<1>f. file \in [Programs \cup {"temp"} -> [Parts -> Contents]]
  BY DEF SetupTypeOK, Contents
<1>s. setbacks' \in 0 .. MaxSetbacks
  <2>1. CASE Setback
    BY <2>1, SetupAssumption DEF Setback, SetupTypeOK
  <2>2. CASE UNCHANGED setbacks
    BY <2>2 DEF SetupTypeOK
  <2> QED
    BY <2>1, <2>2 DEF Check, SetupStep, CutOff, EditConfig, Yes, No, Download, DownloadFails,
                      CreateFile, OpenFails, CreateFails, CopyFile, CopyFails, CloneFails,
                      Unpacked, TruncateConfig, WriteConfig, ConfigFails
<1>1. CASE Check
  BY <1>1, <1>s DEF Check, SetupTypeOK, Idle
<1>2. CASE Yes \/ No
  BY <1>2, <1>s DEF Yes, No, SetupTypeOK
<1>3. CASE Download
  BY <1>3, <1>s DEF Download, SetupTypeOK
<1>4. CASE DownloadFails
  BY <1>4, <1>s DEF DownloadFails, SetupTypeOK
<1>5. ASSUME NEW part \in Parts, CreateFile(part) PROVE SetupTypeOK'
  <2>1. file' \in [Programs \cup {"temp"} -> [Parts -> Contents]]
    BY <1>5, FileUpdate DEF CreateFile, Contents
  <2> QED
    BY <1>5, <1>s, <2>1 DEF CreateFile, SetupTypeOK, Contents
<1>6. ASSUME NEW part \in Parts, CreateFails(part) PROVE SetupTypeOK'
  BY <1>6, <1>s DEF CreateFails, SetupTypeOK
<1>7. CASE CopyFile \/ CopyFails
  <2>1. pc = "unpack" /\ open \in Parts
    BY <1>7 DEF CopyFile, CopyFails, SetupTypeOK
  <2>2. file' \in [Programs \cup {"temp"} -> [Parts -> Contents]]
    BY <1>7, <2>1, FileUpdate DEF CopyFile, CopyFails, Contents
  <2> QED
    BY <1>7, <1>s, <2>1, <2>2 DEF CopyFile, CopyFails, SetupTypeOK, Contents
<1>8. CASE CloneFails
  <2>1. file' \in [Programs \cup {"temp"} -> [Parts -> Contents]]
    BY <1>8, <1>f, TargetIsThere, NothingIsContent DEF CloneFails
  <2> QED
    BY <1>8, <1>s, <2>1 DEF CloneFails, SetupTypeOK, Contents
<1>9. CASE Unpacked
  <2>1. file' \in [Programs \cup {"temp"} -> [Parts -> Contents]]
    BY <1>9, <1>f, NothingIsContent DEF Unpacked
  <2> QED
    BY <1>9, <1>s, <2>1 DEF Unpacked, SetupTypeOK, Contents
<1>10. CASE TruncateConfig \/ WriteConfig \/ ConfigFails
  <2>1. CASE TruncateConfig
    <3>1. pc # "over" /\ ~written /\ written' = written
      BY <2>1 DEF TruncateConfig, SetupTypeOK
    <3> QED
      BY <2>1, <3>1, <1>s, ConfigurationsOfSetup DEF TruncateConfig, SetupTypeOK
  <2>2. CASE WriteConfig
    BY <2>2, <1>s, ConfigurationsOfSetup DEF WriteConfig, SetupTypeOK
  <2>3. CASE ConfigFails
    BY <2>3, <1>s DEF ConfigFails, SetupTypeOK
  <2> QED
    BY <1>10, <2>1, <2>2, <2>3
<1>11. CASE CutOff
  <2>1. hurt' \in SUBSET (Programs \X Parts)
    BY <1>11, AtIsToDo DEF CutOff, SetupTypeOK
  <2>2. ~written /\ written' = written
    BY <1>11 DEF CutOff, Idle, SetupTypeOK
  <2> QED
    BY <1>11, <1>s, <2>1, <2>2 DEF CutOff, SetupTypeOK
<1>12. CASE EditConfig
  <2>1. config' \in Configuration
    BY <1>12, SetupAssumption DEF EditConfig
  <2> QED
    BY <1>12, <1>s, <2>1 DEF EditConfig, SetupTypeOK, Idle
<1>13. CASE OpenFails
  <2>1. pc = "unpack" /\ open \in Parts
    BY <1>13 DEF OpenFails, SetupTypeOK
  <2>2. hurt' \in SUBSET (Programs \X Parts)
    BY <1>13, <2>1, AtIsToDo DEF OpenFails, SetupTypeOK
  <2> QED
    BY <1>13, <1>s, <2>1, <2>2 DEF OpenFails, SetupTypeOK
<1> QED
  BY <1>1, <1>2, <1>3, <1>4, <1>5, <1>6, <1>7, <1>8, <1>9, <1>10, <1>11, <1>12, <1>13
     DEF SetupStep

\* A file becomes truncated when it is created, and not any more before another is.
LEMMA TruncatedStep ==
    ASSUME SetupTypeOK, OnlyWhileWritten, Check \/ SetupStep \/ CutOff \/ EditConfig
    PROVE  OnlyWhileWritten'
<1> SUFFICES ASSUME NEW q \in Programs \cup {"temp"}, NEW part \in Parts,
                    <<Program(q), part>> \notin hurt', file'[q][part] = "truncated"
             PROVE  pc' = "unpack" /\ Target' = q /\ open' = part
  BY DEF OnlyWhileWritten
<1>h. <<Program(q), part>> \notin hurt
  BY DEF Check, SetupStep, CutOff, EditConfig, Yes, No, Download, DownloadFails, CreateFile,
         OpenFails, CreateFails, CopyFile, CopyFails, CloneFails, Unpacked, TruncateConfig, WriteConfig,
         ConfigFails
<1>t. file[q][part] = "truncated" => pc = "unpack" /\ Target = q /\ open = part
  BY <1>h DEF OnlyWhileWritten
<1>f. file \in [Programs \cup {"temp"} -> [Parts -> Contents]]
  BY DEF SetupTypeOK, Contents
<1>1. CASE pc # "unpack"
  BY <1>1, <1>t DEF Check, SetupStep, CutOff, EditConfig, Yes, No, Download, DownloadFails,
                    CreateFile, OpenFails, CreateFails, CopyFile, CopyFails, CloneFails,
                    Unpacked, TruncateConfig, WriteConfig, ConfigFails, SetupTypeOK, Idle
<1>2. ASSUME pc = "unpack", NEW p \in Parts, CreateFile(p)
      PROVE  pc' = "unpack" /\ Target' = q /\ open' = part
  <2>1. Target' = Target
    BY <1>2 DEF CreateFile, Target, At
  <2>2. file[q][part] # "truncated"
    BY <1>2, <1>t DEF CreateFile, Parts
  <2>3. q = Target /\ part = p
    BY <1>2, <1>f, <2>2, TargetIsThere DEF CreateFile
  <2> QED
    BY <1>2, <2>1, <2>3 DEF CreateFile
<1>3. ASSUME pc = "unpack", NEW p \in Parts, CreateFails(p) PROVE FALSE
  BY <1>3, <1>t DEF CreateFails, Parts
<1>4. ASSUME pc = "unpack", CopyFile \/ CopyFails PROVE FALSE
  <2>1. open \in Parts
    BY <1>4 DEF CopyFile, CopyFails, SetupTypeOK
  <2> QED
    BY <1>4, <1>f, <1>t, <2>1, TargetIsThere DEF CopyFile, CopyFails
<1>5. ASSUME pc = "unpack", CloneFails PROVE FALSE
  BY <1>5, <1>f, <1>t, TargetIsThere DEF CloneFails, Nothing
<1>6. ASSUME pc = "unpack", Unpacked PROVE FALSE
  <2>1. open \notin Parts
    BY <1>6 DEF Unpacked, SetupTypeOK, Parts
  <2>2. file[q][part] # "truncated"
    BY <1>t, <2>1
  <2>3. CASE UNCHANGED file
    BY <2>2, <2>3
  <2>4. CASE Target = "temp" /\ q = "temp"
    BY <1>6, <1>f, <2>4 DEF Unpacked, Nothing
  <2>5. CASE Target = "temp" /\ q # "temp"
    <3>1. file'[q] = file[q] \/ (q = "comfy" /\ file'[q] = file["temp"])
      BY <1>6, <1>f, <2>5 DEF Unpacked
    <3>2. Program("temp") = Program("comfy")
      BY DEF Program
    <3>3. file["temp"][part] = "truncated" => q # "comfy"
      BY <1>h, <2>1, <3>2 DEF OnlyWhileWritten
    <3> QED
      BY <2>2, <3>1, <3>3
  <2> QED
    BY <1>6, <2>3, <2>4, <2>5 DEF Unpacked
<1>7. ASSUME pc = "unpack", CutOff PROVE FALSE
  <2>1. open = part /\ part \in left /\ Program(q) = At
    BY <1>7, <1>t, TargetIsThere DEF CutOff, SetupTypeOK, Parts
  <2>2. hurt' = hurt \cup ({At} \X left)
    BY <1>7 DEF CutOff
  <2> QED
    BY <2>1, <2>2
<1>8. ASSUME pc = "unpack", OpenFails PROVE FALSE
  <2>1. open = part /\ Program(q) = At
    BY <1>8, <1>t, TargetIsThere DEF OpenFails
  <2> QED
    BY <1>8, <2>1 DEF OpenFails
<1> QED
  BY <1>1, <1>2, <1>3, <1>4, <1>5, <1>6, <1>7, <1>8
     DEF Check, SetupStep, EditConfig, Idle, Yes, No, Download, DownloadFails,
         TruncateConfig, WriteConfig, ConfigFails

\* After a run nothing changes but by another run or by the user.
LEMMA BinariesStep ==
    ASSUME SetupTypeOK, Binaries, Check \/ SetupStep \/ CutOff \/ EditConfig
    PROVE  Binaries'
<1>1. CASE WriteConfig
  <2>1. config'.binary = BinaryName /\ UNCHANGED <<file, own>>
    BY <1>1 DEF WriteConfig, Written
  <2> QED
    BY <2>1 DEF Binaries, Exists, BinaryName
<1>2. CASE ConfigFails
  BY <1>2 DEF ConfigFails, Binaries, SetupTypeOK
<1>3. CASE ~WriteConfig /\ ~ConfigFails
  <2>1. pc' # "over"
    BY <1>3 DEF Check, SetupStep, CutOff, EditConfig, Idle, Yes, No, Download, DownloadFails,
                CreateFile, OpenFails, CreateFails, CopyFile, CopyFails, CloneFails, Unpacked,
                TruncateConfig, SetupTypeOK
  <2> QED
    BY <2>1 DEF Binaries
<1> QED
  BY <1>1, <1>2, <1>3

\* Whoever writes a configuration, what setup writes is sound.
LEMMA SoundStep ==
    ASSUME Sound(config), Check \/ SetupStep \/ CutOff \/ EditConfig
    PROVE  Sound(config')
<1>1. Sound(Empty) /\ \A b : Sound(Written(b))
  BY DEF Sound, Empty, Written
<1>2. config' \in {config, Empty, Written(BinaryName)} \/ config' \in Edited
  BY DEF Check, SetupStep, CutOff, EditConfig, Yes, No, Download, DownloadFails, CreateFile,
         OpenFails, CreateFails, CopyFile, CopyFails, CloneFails, Unpacked, TruncateConfig,
         WriteConfig, ConfigFails
<1> QED
  BY <1>1, <1>2, SetupAssumption DEF Sound

-----------------------------------------------------------------------------
(* The server's configuration *)

LEMMA FillSettings == ASSUME NEW s \in Settings, NEW by \in Settings \ {"blank"}
                      PROVE  /\ Fill(s, by) \in Settings \ {"blank"}
                             /\ s # "blank" => Fill(s, by) = s
BY DEF Fill

\* What Load leaves alone, and what it fills in.
LEMMA DefaultsFields ==
    ASSUME NEW c \in Configuration
    PROVE  /\ Defaults(c) \in Configuration
           /\ Defaults(c).from = c.from
           /\ Defaults(c).interval = c.interval
           /\ Defaults(c).gpuIDs = c.gpuIDs
           /\ Defaults(c).llama = c.llama
           /\ Defaults(c).binary = c.binary
           /\ Defaults(c).memory = c.memory
           /\ Defaults(c).batcher = Fill(c.batcher, "default")
           /\ Defaults(c).models = ListedModels(c)
<1> DEFINE models == ListedModels(c)
           batcher == Fill(c.batcher, "default")
<1>1. models \in Seq([instances : Nat, batch : Settings])
  <2>1. c.llama \in Settings /\ c.models \in Seq([instances : Nat, batch : Settings])
    BY DEF Configuration
  <2>2. [instances |-> 2, batch |-> c.llama] \in [instances : Nat, batch : Settings]
    BY <2>1
  <2>3. ASSUME NEW M, NEW m \in M PROVE <<m>> \in Seq(M)
    OBVIOUS
  <2>4. <<[instances |-> 2, batch |-> c.llama]>> \in Seq([instances : Nat, batch : Settings])
    BY <2>2, <2>3
  <2> QED
    BY <2>1, <2>4 DEF ListedModels
<1>2. batcher \in Settings
  BY FillSettings DEF Configuration, Settings
<1>3. Defaults(c) = [c EXCEPT !.models = models, !.batcher = batcher]
  BY DEF Defaults, Configuration
<1> HIDE DEF models, batcher
<1>4. /\ Defaults(c) \in Configuration
      /\ Defaults(c).from = c.from
      /\ Defaults(c).interval = c.interval
      /\ Defaults(c).gpuIDs = c.gpuIDs
      /\ Defaults(c).llama = c.llama
      /\ Defaults(c).binary = c.binary
      /\ Defaults(c).memory = c.memory
      /\ Defaults(c).batcher = batcher
      /\ Defaults(c).models = models
  BY <1>1, <1>2, <1>3 DEF Configuration
<1> QED
  BY <1>4 DEF models, batcher

LEMMA PresetModelType ==
    ASSUME NEW model \in [instances : Nat, batch : Settings]
    PROVE  PresetModel(model) \in [instances : Nat, batch : Settings]
<1>1. Fill(model.batch, "preset") \in Settings
  BY FillSettings DEF Settings
<1>2. (IF model.instances = 0 THEN PresetInstances ELSE model.instances) \in Nat
  BY ConfigurationAssumption
<1> QED
  BY <1>1, <1>2 DEF PresetModel

\* What a preset leaves alone, and what it fills in.
LEMMA PresetFields ==
    ASSUME NEW c \in Configuration
    PROVE  /\ WithPreset(c) \in Configuration
           /\ WithPreset(c).from = c.from
           /\ WithPreset(c).interval = c.interval
           /\ WithPreset(c).gpuIDs = c.gpuIDs
           /\ WithPreset(c).memory = c.memory
           /\ WithPreset(c).binary = c.binary
           /\ WithPreset(c).auto = c.auto
           /\ WithPreset(c).batcher = Fill(c.batcher, "preset")
           /\ WithPreset(c).llama = Fill(c.llama, "preset")
           /\ Len(WithPreset(c).models) = Len(c.models)
           /\ DOMAIN WithPreset(c).models = DOMAIN c.models
           /\ \A i \in DOMAIN c.models : WithPreset(c).models[i] = PresetModel(c.models[i])
<1> DEFINE models == [i \in DOMAIN c.models |-> PresetModel(c.models[i])]
<1>1. WithPreset(c) = [c EXCEPT !.batcher = Fill(@, "preset"),
                                !.llama = Fill(@, "preset"), !.models = models]
  BY DEF WithPreset, Configuration
<1>2. \A i \in DOMAIN c.models : PresetModel(c.models[i]) \in [instances : Nat, batch : Settings]
  <2> SUFFICES ASSUME NEW i \in DOMAIN c.models
               PROVE  PresetModel(c.models[i]) \in [instances : Nat, batch : Settings]
    OBVIOUS
  <2>1. c.models \in Seq([instances : Nat, batch : Settings])
    BY DEF Configuration
  <2>2. ASSUME NEW M, NEW s \in Seq(M), NEW k \in DOMAIN s PROVE s[k] \in M
    OBVIOUS
  <2>3. c.models[i] \in [instances : Nat, batch : Settings]
    BY <2>1, <2>2
  <2> QED
    BY <2>3, PresetModelType
<1>3. models \in Seq([instances : Nat, batch : Settings]) /\ Len(models) = Len(c.models)
  BY <1>2 DEF Configuration
<1>4. Fill(c.batcher, "preset") \in Settings /\ Fill(c.llama, "preset") \in Settings
  BY FillSettings DEF Configuration, Settings
<1>5. /\ DOMAIN models = DOMAIN c.models
      /\ \A i \in DOMAIN c.models : models[i] = PresetModel(c.models[i])
  OBVIOUS
<1> HIDE DEF models
<1>6. WithPreset(c).models = models
  BY <1>1 DEF Configuration
<1> QED
  BY <1>1, <1>3, <1>4, <1>5, <1>6 DEF Configuration

\* What the server uses is sound if what it read is, and is filled in as UserWins says.
LEMMA ExpectedFields ==
    ASSUME read \in Configuration
    PROVE  /\ Expected \in Configuration
           /\ Expected.from = read.from
           /\ Sound(read) => Sound(Defaults(read)) /\ Sound(Expected)
<1>1. ASSUME NEW c \in Configuration, Sound(c) PROVE Sound(Defaults(c)) /\ Sound(WithPreset(c))
  <2>1. /\ Defaults(c).from = c.from /\ WithPreset(c).from = c.from
        /\ Defaults(c).interval = c.interval /\ WithPreset(c).interval = c.interval
        /\ Defaults(c).gpuIDs = c.gpuIDs /\ WithPreset(c).gpuIDs = c.gpuIDs
        /\ Defaults(c).batcher = Fill(c.batcher, "default")
        /\ WithPreset(c).batcher = Fill(c.batcher, "preset")
    BY DefaultsFields, PresetFields
  <2>2. Defaults(c).batcher # "blank" /\ WithPreset(c).batcher # "blank"
    BY <2>1 DEF Fill
  <2> QED
    BY <1>1, <2>1, <2>2 DEF Sound
<1>2. Defaults(read) \in Configuration /\ Defaults(read).from = read.from
  BY DefaultsFields
<1>3. /\ WithPreset(Defaults(read)) \in Configuration
      /\ WithPreset(Defaults(read)).from = read.from
  BY <1>2, PresetFields
<1> QED
  BY <1>1, <1>2, <1>3 DEF Expected

-----------------------------------------------------------------------------
(* The invariant holds *)

DeploymentInv == TypeOK /\ OnlyWhileWritten /\ Binaries /\ ConfigurationsAgree

LEMMA DeploymentInit == Init => DeploymentInv
<1> SUFFICES ASSUME Init PROVE DeploymentInv
  OBVIOUS
<1>1. SetupTypeOK /\ GPUTypeOK
  <2>1. <<>> \in Seq(GPU)
    OBVIOUS
  <2> QED
    BY <2>1, SetupInitTypeOK DEF Init, GPUInit, GPUTypeOK
<1>2. Empty \in Configuration /\ Empty.models = <<>> /\ Sound(Empty)
  BY ConfigurationsOfSetup DEF Empty, Sound
<1>3. TypeOK
  <2>1. next \in 1 .. Len(cfg.models) + 1
    BY <1>2 DEF Init
  <2> QED
    BY <1>1, <1>2, <2>1 DEF Init, TypeOK, Running, Idle, States, SetupInit, GPUInit
<1>4. OnlyWhileWritten
  BY DEF Init, SetupInit, OnlyWhileWritten, Nothing
<1>5. Binaries
  BY DEF Init, SetupInit, Binaries
<1>6. Sound(config)
  BY SetupAssumption DEF Init, SetupInit, Sound
<1>7. ConfigurationsAgree
  BY <1>2, <1>6 DEF Init, ConfigurationsAgree
<1> QED
  BY <1>3, <1>4, <1>5, <1>7 DEF DeploymentInv

\* Setup does nothing while the server runs.
LEMMA IdleSetup == SetupTypeOK /\ Idle => ~SetupStep
BY DEF SetupTypeOK, Idle, SetupStep, Yes, No, Download, DownloadFails, CreateFile, OpenFails,
       CreateFails, CopyFile, CopyFails, CloneFails, Unpacked, TruncateConfig, WriteConfig, ConfigFails

LEMMA SetupSide ==
    ASSUME DeploymentInv, BeginSetup \/ ContinueSetup \/ UserActs
    PROVE  DeploymentInv'
<1>1. Check \/ SetupStep \/ CutOff \/ EditConfig
  BY DEF BeginSetup, ContinueSetup, UserActs
<1>2. UNCHANGED <<gpuVars, serverVars>>
  BY DEF BeginSetup, ContinueSetup, UserActs
<1>3. ~Running
  BY IdleSetup DEF BeginSetup, ContinueSetup, UserActs, Running, DeploymentInv, TypeOK
<1>4. SetupTypeOK' /\ OnlyWhileWritten' /\ Binaries'
  BY <1>1, SetupTypeStep, TruncatedStep, BinariesStep DEF DeploymentInv, TypeOK
<1>5. TypeOK'
  BY <1>2, <1>3, <1>4
     DEF DeploymentInv, TypeOK, gpuVars, serverVars, GPUTypeOK, Running
<1>6. Sound(config')
  BY <1>1, SoundStep DEF DeploymentInv, ConfigurationsAgree
<1>7. ConfigurationsAgree'
  BY <1>2, <1>6 DEF DeploymentInv, ConfigurationsAgree, serverVars, Expected
<1> QED
  BY <1>4, <1>5, <1>7 DEF DeploymentInv

\* Whatever the tools print, the list is one of GPUs.
LEMMA DetectedAreGPUs ==
    /\ Detected \subseteq Seq(GPU)
    /\ \A list \in Outputs : Short(list) \in Seq(GPU)
<1> DEFINE Printed == [id : Nat, free : Measures, util : Measures, temp : Measures]
<1>1. Printed \subseteq GPU
  BY GPUAssumption DEF GPU
<1>2. ASSUME NEW A, NEW B, A \subseteq B, NEW s \in Seq(A) PROVE s \in Seq(B)
  BY <1>2
<1>3. Outputs \subseteq Seq(GPU)
  BY <1>1, <1>2, GPUAssumption
<1>4. ASSUME NEW list \in Seq(GPU) PROVE Short(list) \in Seq(GPU) /\ ByWmic(list) \in Seq(GPU)
  <2>1. ASSUME NEW i \in DOMAIN list
        PROVE  /\ [list[i] EXCEPT !.util = 0, !.temp = 0] \in GPU
               /\ [list[i] EXCEPT !.id = i - 1, !.util = 0, !.temp = 0] \in GPU
    <3>1. list[i] \in GPU /\ i - 1 \in Nat
      OBVIOUS
    <3> QED
      BY <3>1 DEF GPU
  <2>2. ASSUME NEW s, s = [i \in DOMAIN list |-> s[i]], \A i \in DOMAIN list : s[i] \in GPU
        PROVE  s \in Seq(GPU)
    BY <2>2
  <2>3. /\ Short(list) = [i \in DOMAIN list |-> Short(list)[i]]
        /\ \A i \in DOMAIN list : Short(list)[i] \in GPU
    BY <2>1 DEF Short
  <2>4. /\ ByWmic(list) = [i \in DOMAIN list |-> ByWmic(list)[i]]
        /\ \A i \in DOMAIN list : ByWmic(list)[i] \in GPU
    BY <2>1 DEF ByWmic
  <2> QED
    BY <2>2, <2>3, <2>4
<1>5. <<DefaultGPU>> \in Seq(GPU)
  BY GPUAssumption DEF DefaultGPU, GPU
<1> QED
  BY <1>3, <1>4, <1>5 DEF Detected

\* The server leaves the installer's state alone.
LEMMA ServerFrame ==
    ASSUME DeploymentInv, UNCHANGED setupVars
    PROVE  SetupTypeOK' /\ OnlyWhileWritten' /\ Binaries' /\ Sound(config') /\ Idle' = Idle
BY DEF DeploymentInv, TypeOK, ConfigurationsAgree, setupVars, SetupTypeOK, OnlyWhileWritten,
       Binaries, Target, At, Exists, Idle

\* The end of the program, by a panic only if the configuration is not setup's.
LEMMA EndStep ==
    ASSUME DeploymentInv, UNCHANGED setupVars, NEW state \in {"fatal", "panicked"}, End(state),
           UNCHANGED <<read, cfg, next>>, state = "panicked" => read.from # "setup"
    PROVE  DeploymentInv'
<1>1. <<>> \in Seq(GPU)
  OBVIOUS
<1>2. GPUTypeOK'
  BY <1>1 DEF GPUTypeOK, End, EndOfGPUs
<1>3. TypeOK'
  BY <1>2, ServerFrame DEF DeploymentInv, TypeOK, States, Running, End, EndOfGPUs
<1>4. ConfigurationsAgree'
  BY ServerFrame DEF DeploymentInv, ConfigurationsAgree, End
<1> QED
  BY <1>3, <1>4, ServerFrame DEF DeploymentInv

LEMMA ServerSide ==
    ASSUME DeploymentInv, Load \/ LoadFails \/ ServerStep \/ Monitor
    PROVE  DeploymentInv'
<1> USE DEF DeploymentInv
<1>0. UNCHANGED setupVars
  BY DEF Load, LoadFails, ServerStep, Monitor, ApplyPreset, ApplyPresetFails, StartModel,
         StartModelFails, Start, Shutdown
<1>f. SetupTypeOK' /\ OnlyWhileWritten' /\ Binaries' /\ Sound(config') /\ Idle' = Idle
  BY <1>0, ServerFrame
<1>1. CASE Load
  <2>1. config \in Configuration /\ next = 1 /\ server = "off"
    BY <1>1 DEF Load, TypeOK, SetupTypeOK, ConfigurationsAgree
  <2>2. cfg' \in Configuration /\ cfg'.from = read'.from /\ next \in 1 .. Len(cfg'.models) + 1
    <3>1. ASSUME NEW s, s \in Seq([instances : Nat, batch : Settings]) PROVE 1 \in 1 .. Len(s) + 1
      BY <3>1
    <3> QED
      BY <1>1, <2>1, <3>1, DefaultsFields DEF Load, Configuration
  <2>3. Sound(read') /\ Sound(cfg')
    <3>1. Sound(config) => Sound(Defaults(config))
      BY <2>1, DefaultsFields DEF Sound, Fill
    <3> QED
      BY <1>1, <3>1 DEF Load, ConfigurationsAgree
  <2>4. TypeOK'
    BY <1>1, <1>f, <2>1, <2>2 DEF Load, TypeOK, GPUTypeOK, gpuVars, States, Running
  <2>5. ConfigurationsAgree'
    BY <1>1, <1>f, <2>2, <2>3 DEF Load, ConfigurationsAgree
  <2> QED
    BY <1>f, <2>4, <2>5
<1>2. CASE LoadFails
  <2>1. TypeOK'
    BY <1>2, <1>f DEF LoadFails, TypeOK, GPUTypeOK, gpuVars, States, Running
  <2>2. ConfigurationsAgree'
    BY <1>2, <1>f DEF LoadFails, ConfigurationsAgree
  <2> QED
    BY <1>f, <2>1, <2>2
<1>3. CASE ApplyPreset
  <2>1. /\ server = "preset" /\ server' = "init" /\ read' = read /\ next' = next
        /\ cfg' = IF HasPreset(cfg) THEN WithPreset(cfg) ELSE cfg
    BY <1>3 DEF ApplyPreset
  <2>2. cfg' = Expected' /\ read \in Configuration
    BY <2>1 DEF Expected, ConfigurationsAgree, TypeOK
  <2>3. Expected' = Expected
    BY <2>1 DEF Expected
  <2>4. cfg' \in Configuration /\ cfg'.from = read.from /\ Sound(cfg')
    BY <2>2, <2>3, ExpectedFields DEF ConfigurationsAgree
  <2>5. Len(cfg'.models) = Len(cfg.models) /\ cfg'.auto = cfg.auto
    BY <2>1, PresetFields DEF TypeOK
  <2>6. GPUTypeOK' /\ (monitor' => cfg.auto)
    <3>1. CASE cfg.auto
      BY <1>3, <3>1, DetectedAreGPUs DEF ApplyPreset, StartGPUs, GPUTypeOK
    <3>2. CASE ~cfg.auto
      BY <1>3, <3>2 DEF ApplyPreset, gpuVars, GPUTypeOK, TypeOK
    <3> QED
      BY <3>1, <3>2
  <2>7. TypeOK'
    BY <1>f, <2>1, <2>2, <2>4, <2>5, <2>6 DEF TypeOK, States, Running
  <2>8. ConfigurationsAgree'
    BY <1>f, <2>1, <2>2, <2>4 DEF ConfigurationsAgree
  <2> QED
    BY <1>f, <2>7, <2>8
<1>4. CASE ApplyPresetFails
  BY <1>0, <1>4, EndStep DEF ApplyPresetFails
<1>5. CASE StartModel
  <2>1. next' \in 1 .. Len(cfg.models) + 1
    <3>1. cfg.models \in Seq([instances : Nat, batch : Settings])
      BY DEF TypeOK, Configuration
    <3> QED
      BY <1>5, <3>1 DEF StartModel, TypeOK
  <2>2. TypeOK'
    BY <1>5, <1>f, <2>1 DEF StartModel, TypeOK, GPUTypeOK, gpuVars, States, Running
  <2>3. ConfigurationsAgree'
    BY <1>5, <1>f DEF StartModel, ConfigurationsAgree, Expected
  <2> QED
    BY <1>f, <2>2, <2>3
<1>6. CASE StartModelFails
  <2>1. server = "init" /\ UNCHANGED <<read, cfg, next>>
    BY <1>6 DEF StartModelFails
  <2>2. DividesByZero(cfg.models[next]) => read.from # "setup"
    BY DEF DividesByZero, ConfigurationsAgree, Sound
  <2>3. CASE DividesByZero(cfg.models[next])
    BY <1>0, <1>6, <2>1, <2>2, <2>3, EndStep DEF StartModelFails
  <2>4. CASE ~DividesByZero(cfg.models[next])
    BY <1>0, <1>6, <2>1, <2>4, EndStep DEF StartModelFails
  <2> QED
    BY <2>3, <2>4
<1>7. CASE Start
  <2>1. CASE "blank" \in {cfg.batcher, cfg.interval}
    <3>1. read.from # "setup"
      BY <2>1 DEF ConfigurationsAgree, Sound
    <3> QED
      BY <1>0, <1>7, <2>1, <3>1, EndStep DEF Start
  <2>2. CASE "blank" \notin {cfg.batcher, cfg.interval}
    <3>1. TypeOK'
      BY <1>7, <1>f, <2>2 DEF Start, TypeOK, GPUTypeOK, gpuVars, States, Running
    <3>2. ConfigurationsAgree'
      BY <1>7, <1>f, <2>2 DEF Start, ConfigurationsAgree, Expected
    <3> QED
      BY <1>f, <3>1, <3>2
  <2> QED
    BY <2>1, <2>2
<1>8. CASE Shutdown
  <2>1. <<>> \in Seq(GPU)
    OBVIOUS
  <2>2. Empty \in Configuration /\ Empty.models = <<>> /\ Sound(Empty)
    BY ConfigurationsOfSetup DEF Empty, Sound
  <2>3. next' \in 1 .. Len(cfg'.models) + 1
    BY <1>8, <2>2 DEF Shutdown
  <2>4. TypeOK'
    BY <1>8, <1>f, <2>1, <2>2, <2>3
       DEF Shutdown, End, EndOfGPUs, TypeOK, GPUTypeOK, States, Running
  <2>5. ConfigurationsAgree'
    BY <1>8, <1>f, <2>2 DEF Shutdown, End, ConfigurationsAgree
  <2> QED
    BY <1>f, <2>4, <2>5
<1>9. CASE Monitor
  <2>1. GPUTypeOK'
    BY <1>9, DetectedAreGPUs DEF Monitor, Refresh, GPUTypeOK, TypeOK
  <2>2. TypeOK'
    BY <1>9, <1>f, <2>1 DEF Monitor, Refresh, serverVars, TypeOK, Running
  <2>3. ConfigurationsAgree'
    BY <1>9, <1>f DEF Monitor, serverVars, ConfigurationsAgree, Expected
  <2> QED
    BY <1>f, <2>2, <2>3
<1> QED
  BY <1>1, <1>2, <1>3, <1>4, <1>5, <1>6, <1>7, <1>8, <1>9 DEF ServerStep

\* Types, what is truncated, what setup wrote and whose settings count, together.
THEOREM DeploymentInvariance == Spec => []DeploymentInv
<1>1. Init => DeploymentInv
  BY DeploymentInit
<1>2. DeploymentInv /\ [Next]_vars => DeploymentInv'
  <2>1. ASSUME DeploymentInv, Next PROVE DeploymentInv'
    BY <2>1, SetupSide, ServerSide DEF Next
  <2>2. ASSUME DeploymentInv, UNCHANGED vars PROVE DeploymentInv'
    <3>1. UNCHANGED <<gpuVars, serverVars>> /\ UNCHANGED setupVars
      BY <2>2 DEF vars
    <3>2. TypeOK' /\ ConfigurationsAgree'
      BY <2>2, <3>1, ServerFrame
         DEF DeploymentInv, TypeOK, GPUTypeOK, gpuVars, serverVars, Running,
             ConfigurationsAgree, Expected
    <3> QED
      BY <2>2, <3>1, <3>2, ServerFrame DEF DeploymentInv
  <2> QED
    BY <2>1, <2>2
<1> QED
  BY <1>1, <1>2, PTL DEF Spec

\* Every step keeps the types of the installer, the GPU manager and the server.
THEOREM DeploymentTypeCorrect == Spec => []TypeOK
BY DeploymentInvariance, PTL DEF DeploymentInv

\* For any programs and any number of failures: a truncated file is left only by a run
\* that was cut off before it had the file, or that could not open it in the archive
\* (main.go:664-682); no failing creation or copy leaves one.
THEOREM TruncatedFilesWereHurt == Spec => []TruncatedOnlyWhenHurt
<1>1. DeploymentInv => TruncatedOnlyWhenHurt
  <2> SUFFICES ASSUME DeploymentInv, NEW p \in Programs, NEW part \in Parts,
                      <<p, part>> \notin hurt
               PROVE  /\ file[p][part] = "truncated" =>
                            pc = "unpack" /\ At = p /\ open = part
                      /\ p = "comfy" /\ file["temp"][part] = "truncated" =>
                            pc = "unpack" /\ open = part
    BY DEF TruncatedOnlyWhenHurt
  <2>1. p # "temp" /\ Program(p) = p /\ Program("temp") = "comfy"
    BY SetupAssumption DEF Program
  <2>2. file[p][part] = "truncated" => pc = "unpack" /\ Target = p /\ open = part
    BY <2>1 DEF DeploymentInv, OnlyWhileWritten
  <2>3. p = "comfy" /\ file["temp"][part] = "truncated" => pc = "unpack" /\ open = part
    BY <2>1 DEF DeploymentInv, OnlyWhileWritten
  <2>4. pc = "unpack" => Program(Target) = At
    BY TargetIsThere DEF DeploymentInv, TypeOK
  <2> QED
    BY <2>1, <2>2, <2>3, <2>4
<1> QED
  BY <1>1, DeploymentInvariance, PTL

\* The configuration that setup writes names the llama-server that is there, and no
\* server panics on it.
THEOREM SetupIsServed == Spec => []SetupServes
<1>1. DeploymentInv => SetupServes
  BY DEF DeploymentInv, Binaries, ConfigurationsAgree, SetupServes
<1> QED
  BY <1>1, DeploymentInvariance, PTL

\* For every configuration: what each model's instances are started with, and the batcher,
\* are the user's, and where he left a blank, exactly the preset's or Load's.
THEOREM UsersSettingsWin == Spec => []UserWins
<1>1. DeploymentInv => UserWins
  <2> SUFFICES ASSUME DeploymentInv, server \in {"init", "serving"} PROVE UserWins
    BY DEF UserWins
  <2> DEFINE loaded == Defaults(read)
             UsersBatch(i) == IF read.models # <<>> THEN read.models[i].batch ELSE read.llama
             UsersInstances(i) == IF read.models # <<>> THEN read.models[i].instances ELSE 2
             By(setting) == IF HasPreset(read) THEN Fill(setting, "preset") ELSE setting
  <2>1. read \in Configuration /\ loaded \in Configuration /\ cfg = Expected
    BY DefaultsFields DEF DeploymentInv, TypeOK, ConfigurationsAgree
  <2>2. /\ loaded.llama = read.llama /\ loaded.memory = read.memory
        /\ loaded.binary = read.binary
        /\ loaded.batcher = Fill(read.batcher, "default")
        /\ loaded.models = ListedModels(read)
    BY <2>1, DefaultsFields
  <2>3. HasPreset(read) <=> HasPreset(loaded)
    BY <2>2 DEF HasPreset
  <2>4. read.models \in Seq([instances : Nat, batch : Settings])
    BY <2>1 DEF Configuration
  <2>5. /\ Len(loaded.models) = IF read.models = <<>> /\ read.single THEN 1 ELSE Len(read.models)
        /\ \A i \in DOMAIN loaded.models : loaded.models[i].batch = UsersBatch(i)
        /\ \A i \in DOMAIN loaded.models : loaded.models[i].instances = UsersInstances(i)
    <3>1. CASE read.models = <<>> /\ read.single
      <4>1. loaded.models = <<[instances |-> 2, batch |-> read.llama]>>
        BY <2>2, <3>1 DEF ListedModels
      <4> QED
        BY <3>1, <4>1
    <3>2. CASE ~(read.models = <<>> /\ read.single)
      <4>1. loaded.models = read.models
        BY <2>2, <3>2 DEF ListedModels
      <4>2. read.models = <<>> => DOMAIN read.models = {}
        OBVIOUS
      <4> QED
        BY <3>2, <4>1, <4>2
    <3> QED
      BY <3>1, <3>2
  <2> HIDE DEF loaded
  <2>6. /\ cfg.llama = By(read.llama) /\ cfg.binary = read.binary
        /\ cfg.batcher = Fill(read.batcher, "default")
        /\ Len(cfg.models) = Len(loaded.models) /\ DOMAIN cfg.models = DOMAIN loaded.models
    <3>1. CASE ~HasPreset(read)
      <4>1. cfg = loaded
        BY <2>1, <2>3, <3>1 DEF Expected, loaded
      <4> QED
        BY <2>2, <3>1, <4>1
    <3>2. CASE HasPreset(read)
      <4>1. cfg = WithPreset(loaded)
        BY <2>1, <2>3, <3>2 DEF Expected, loaded
      <4>2. /\ cfg.llama = Fill(loaded.llama, "preset") /\ cfg.binary = loaded.binary
            /\ cfg.batcher = Fill(loaded.batcher, "preset")
            /\ Len(cfg.models) = Len(loaded.models) /\ DOMAIN cfg.models = DOMAIN loaded.models
        BY <2>1, <4>1, PresetFields
      <4>3. Fill(Fill(read.batcher, "default"), "preset") = Fill(read.batcher, "default")
        BY DEF Fill
      <4> QED
        BY <2>2, <3>2, <4>2, <4>3
    <3> QED
      BY <3>1, <3>2
  <2>7. ASSUME NEW i \in DOMAIN cfg.models
        PROVE  /\ cfg.models[i].batch = By(UsersBatch(i))
               /\ cfg.models[i].instances = IF UsersInstances(i) > 0 \/ ~HasPreset(read)
                                            THEN UsersInstances(i) ELSE PresetInstances
    <3>1. i \in DOMAIN loaded.models
      BY <2>6
    <3>2. loaded.models[i].batch = UsersBatch(i) /\ loaded.models[i].instances = UsersInstances(i)
      BY <2>5, <3>1
    <3>3. CASE ~HasPreset(read)
      <4>1. cfg = loaded
        BY <2>1, <2>3, <3>3 DEF Expected, loaded
      <4> QED
        BY <3>2, <3>3, <4>1
    <3>4. CASE HasPreset(read)
      <4>1. cfg = WithPreset(loaded)
        BY <2>1, <2>3, <3>4 DEF Expected, loaded
      <4>2. cfg.models[i] = PresetModel(loaded.models[i])
        BY <2>1, <3>1, <4>1, PresetFields
      <4>3. loaded.models[i].instances \in Nat
        <5>1. loaded.models \in Seq([instances : Nat, batch : Settings])
          BY <2>1 DEF Configuration
        <5>2. ASSUME NEW M, NEW s \in Seq(M), NEW k \in DOMAIN s PROVE s[k] \in M
          OBVIOUS
        <5>3. loaded.models[i] \in [instances : Nat, batch : Settings]
          BY <3>1, <5>1, <5>2
        <5> QED
          BY <5>3
      <4>4. /\ cfg.models[i].batch = Fill(loaded.models[i].batch, "preset")
            /\ cfg.models[i].instances = IF loaded.models[i].instances = 0 THEN PresetInstances
                                         ELSE loaded.models[i].instances
        BY <4>2 DEF PresetModel
      <4> QED
        BY <3>2, <3>4, <4>3, <4>4
    <3> QED
      BY <3>3, <3>4
  <2>8. ASSUME NEW i \in DOMAIN cfg.models
        PROVE  /\ Given(cfg.models[i]).binary = read.binary
               /\ Given(cfg.models[i]).generation = By(read.llama)
               /\ Given(cfg.models[i]).batch = By(UsersBatch(i))
               /\ Given(cfg.models[i]).instances =
                     IF UsersInstances(i) > 0 \/ ~HasPreset(read)
                     THEN UsersInstances(i) ELSE PresetInstances
    BY <2>6, <2>7 DEF Given
  <2>9. \A s : By(s) = CASE s # "blank" -> s
                         [] s = "blank" /\ HasPreset(read) -> "preset"
                         [] OTHER -> "blank"
    BY DEF Fill
  <2>10. Fill(read.batcher, "default") =
             IF read.batcher # "blank" THEN read.batcher ELSE "default"
    BY DEF Fill
  <2> HIDE DEF UsersBatch, UsersInstances, By
  <2>11. Len(cfg.models) = IF ~(read.models # <<>>) /\ read.single THEN 1 ELSE Len(read.models)
    BY <2>5, <2>6
  <2> QED
    BY <2>6, <2>8, <2>9, <2>10, <2>11 DEF UserWins, UsersBatch, UsersInstances
<1> QED
  BY <1>1, DeploymentInvariance, PTL
-----------------------------------------------------------------------------
(* The choices of a GPU *)

\* GetFreeGPU: the first of those with the most memory free.
LEMMA FreeGPUIsFirst ==
    ASSUME gpus \in Seq(GPU), NEW limit \in Nat
    PROVE  FirstBest(GetFreeGPU(limit), {g \in Listed : g.free >= limit /\ g.free > 0}, LAMBDA g, h : g.free > h.free)
<1> DEFINE n == Len(gpus)
           best == CHOOSE f : f = [i \in 0 .. n |->
                       IF i = 0 THEN NoGPU ELSE MoreFree(f[i - 1], gpus[i], limit)]
           step == [i \in 1 .. n |-> [b \in GPU |-> MoreFree(b, gpus[i], limit)]]
<1>1. /\ n \in Nat /\ DOMAIN gpus = 1 .. n /\ \A i \in 1 .. n : gpus[i] \in GPU
      /\ NoGPU \in GPU
  <2>1. NoGPU \in GPU
    BY DEF NoGPU, GPU
  <2> QED
    BY <2>1
<1>2. GetFreeGPU(limit) = best[n]
  BY DEF GetFreeGPU
<1> HIDE DEF n, best
<1>3. ASSUME NEW i \in 1 .. n, NEW b \in GPU PROVE MoreFree(b, gpus[i], limit) \in GPU
  <2>1. gpus[i] \in GPU
    BY <1>1
  <2> QED
    BY <2>1 DEF MoreFree, NoGPU, GPU
<1>4. best = [i \in 0 .. n |-> IF i = 0 THEN NoGPU ELSE MoreFree(best[i - 1], gpus[i], limit)]
  <2>1. step \in [1 .. n -> [GPU -> GPU]]
    BY <1>3
  <2> HIDE DEF step
  <2>2. HasPass(n, GPU, NoGPU, step)
    BY <1>1, <2>1, PassExists
  <2>3. PICK f \in [0 .. n -> GPU] : f[0] = NoGPU /\ \A i \in 1 .. n : f[i] = step[i][f[i - 1]]
    BY <2>2 DEF HasPass
  <2>4. ASSUME NEW i \in 1 .. n PROVE f[i] = MoreFree(f[i - 1], gpus[i], limit)
    <3>1. f[i - 1] \in GPU
      BY <1>1
    <3> QED
      BY <2>3, <3>1 DEF step
  <2>5. f = [i \in 0 .. n |-> IF i = 0 THEN NoGPU ELSE MoreFree(f[i - 1], gpus[i], limit)]
    BY <1>1, <2>3, <2>4
  <2> QED
    BY <2>5 DEF best
<1>5. best[0] = NoGPU /\ \A i \in 1 .. n : best[i] = MoreFree(best[i - 1], gpus[i], limit)
  BY <1>1, <1>4
<1>6. \A i \in 0 .. n : best[i] \in GPU
  <2> DEFINE T == {i \in 0 .. n : best[i] \in GPU}
  <2>1. 0 \in T
    BY <1>1, <1>5
  <2>2. ASSUME NEW i \in 1 .. n, i - 1 \in T PROVE i \in T
    BY <1>1, <1>3, <1>5, <2>2
  <2> HIDE DEF T
  <2>3. 0 .. n \subseteq T
    BY <1>1, <2>1, <2>2, StepByStep
  <2> QED
    BY <2>3 DEF T
<1> DEFINE ok == {i \in 1 .. n : gpus[i].free >= limit}
           key == [i \in 1 .. n |-> 0 - gpus[i].free]
           m == [i \in 0 .. n |-> 0 - best[i].free]
           s == [i \in 0 .. n |-> best[i]]
           fits == {i \in ok : key[i] < m[0]}
           candidates == {g \in Listed : g.free >= limit /\ g.free > 0}
<1>7. /\ key \in [1 .. n -> Int] /\ ok \in SUBSET (1 .. n)
      /\ m[0] = 0 /\ s[0] = NoGPU /\ s[n] = GetFreeGPU(limit)
  BY <1>1, <1>2, <1>5 DEF NoGPU, GPU
<1>8. Keeps(n, ok, key, gpus, m, s)
  <2>1. ASSUME NEW i \in 1 .. n
        PROVE  IF i \in ok /\ key[i] < m[i - 1] THEN m[i] = key[i] /\ s[i] = gpus[i]
               ELSE m[i] = m[i - 1] /\ s[i] = s[i - 1]
    <3>1. /\ i - 1 \in 0 .. n /\ i \in 0 .. n
          /\ best[i - 1] \in GPU /\ gpus[i] \in GPU /\ best[i] = MoreFree(best[i - 1], gpus[i], limit)
      BY <1>1, <1>5, <1>6
    <3>2. gpus[i].free \in Nat /\ best[i - 1].free \in Nat
      BY <3>1 DEF NoGPU, GPU
    <3>3. /\ i \in ok <=> gpus[i].free >= limit
          /\ key[i] = 0 - gpus[i].free /\ m[i - 1] = 0 - best[i - 1].free /\ m[i] = 0 - best[i].free
          /\ s[i] = best[i] /\ s[i - 1] = best[i - 1]
      BY <3>1
    <3> HIDE DEF ok, key, m, s
    <3> QED
      BY <3>1, <3>2, <3>3 DEF MoreFree
  <2> QED
    BY <2>1 DEF Keeps
<1>9. \A k \in DOMAIN gpus : k \in fits <=> gpus[k] \in candidates
  BY <1>1, <1>7 DEF Listed, NoGPU, GPU
<1>10. FirstLeast(s[n], fits, key, gpus, NoGPU)
  <2>1. n \in Nat /\ ok \in SUBSET (1 .. n) /\ key \in [1 .. n -> Int] /\ m[0] \in Int
    BY <1>1, <1>7
  <2> HIDE DEF ok, key, m, s
  <2>2. FirstLeast(s[n], {i \in ok : key[i] < m[0]}, key, gpus, s[0])
    BY <1>8, <2>1, PassKeepsFirst
  <2> QED
    BY <1>7, <2>2
<1>11. \A g \in candidates : \E k \in fits : g = gpus[k]
  BY <1>9 DEF Listed
<1>12. ASSUME NEW j \in fits, NEW k \in fits
       PROVE  key[j] < key[k] <=> gpus[j].free > gpus[k].free
  <2>1. gpus[j].free \in Nat /\ gpus[k].free \in Nat
    BY <1>1 DEF GPU
  <2>2. key[j] = 0 - gpus[j].free /\ key[k] = 0 - gpus[k].free
    OBVIOUS
  <2> HIDE DEF key
  <2> QED
    BY <2>1, <2>2
<1> HIDE DEF fits, key, s
<1>13. CASE s[n] = NoGPU /\ fits = {}
  BY <1>7, <1>11, <1>13 DEF FirstBest
<1>14. CASE \E j \in fits : /\ s[n] = gpus[j]
                            /\ \A k \in fits : key[j] <= key[k] /\ (k < j => key[j] < key[k])
  <2>1. PICK j \in fits : /\ s[n] = gpus[j]
                          /\ \A k \in fits : key[j] <= key[k] /\ (k < j => key[j] < key[k])
    BY <1>14
  <2>2. j \in 1 .. n /\ j \in DOMAIN gpus /\ \A k \in fits : key[k] \in Int
    BY <1>1, <1>7 DEF fits
  <2>3. gpus[j] \in candidates
    BY <1>9, <2>2
  <2>4. ASSUME NEW g \in candidates PROVE ~(g.free > gpus[j].free)
    <3>1. PICK k \in fits : g = gpus[k]
      BY <1>11
    <3>2. ~(key[k] < key[j])
      BY <2>1, <2>2
    <3> QED
      BY <1>12, <3>1, <3>2
  <2>5. ASSUME NEW k \in 1 .. j - 1, gpus[k] \in candidates PROVE gpus[j].free > gpus[k].free
    <3>1. k \in DOMAIN gpus /\ k < j
      BY <1>1, <2>2
    <3> QED
      BY <1>9, <1>12, <2>1, <2>5, <3>1
  <2> HIDE DEF candidates
  <2>6. candidates # {}
    BY <2>3
  <2> QED
    BY <1>7, <2>1, <2>2, <2>3, <2>4, <2>5, <2>6 DEF FirstBest, candidates
<1> QED
  BY <1>10, <1>13, <1>14 DEF FirstLeast

\* What the loops of the other two keep.
Choice == [min : Nat, gpu : GPU]

\* GetLeastUsedGPU: the first of those that are used least.
LEMMA LeastUsedGPUIsFirst ==
    ASSUME gpus \in Seq(GPU)
    PROVE  FirstBest(GetLeastUsedGPU, {g \in Listed : g.util < 100}, LAMBDA g, h : g.util < h.util)
<1> DEFINE n == Len(gpus)
           best == CHOOSE f : f = [i \in 0 .. n |->
                       IF i = 0 THEN NoChoice ELSE LessUsed(f[i - 1], gpus[i])]
           step == [i \in 1 .. n |-> [b \in Choice |-> LessUsed(b, gpus[i])]]
<1>1. /\ n \in Nat /\ DOMAIN gpus = 1 .. n /\ \A i \in 1 .. n : gpus[i] \in GPU
      /\ NoChoice \in Choice
  <2>1. NoChoice \in Choice
    BY DEF NoChoice, NoGPU, Choice, GPU
  <2> QED
    BY <2>1
<1>2. GetLeastUsedGPU = best[n].gpu
  BY DEF GetLeastUsedGPU
<1> HIDE DEF n, best
<1>3. ASSUME NEW i \in 1 .. n, NEW b \in Choice PROVE LessUsed(b, gpus[i]) \in Choice
  <2>1. gpus[i] \in GPU
    BY <1>1
  <2> QED
    BY <2>1 DEF LessUsed, NoChoice, NoGPU, Choice, GPU
<1>4. best = [i \in 0 .. n |-> IF i = 0 THEN NoChoice ELSE LessUsed(best[i - 1], gpus[i])]
  <2>1. step \in [1 .. n -> [Choice -> Choice]]
    BY <1>3
  <2> HIDE DEF step
  <2>2. HasPass(n, Choice, NoChoice, step)
    BY <1>1, <2>1, PassExists
  <2>3. PICK f \in [0 .. n -> Choice] : f[0] = NoChoice /\ \A i \in 1 .. n : f[i] = step[i][f[i - 1]]
    BY <2>2 DEF HasPass
  <2>4. ASSUME NEW i \in 1 .. n PROVE f[i] = LessUsed(f[i - 1], gpus[i])
    <3>1. f[i - 1] \in Choice
      BY <1>1
    <3> QED
      BY <2>3, <3>1 DEF step
  <2>5. f = [i \in 0 .. n |-> IF i = 0 THEN NoChoice ELSE LessUsed(f[i - 1], gpus[i])]
    BY <1>1, <2>3, <2>4
  <2> QED
    BY <2>5 DEF best
<1>5. best[0] = NoChoice /\ \A i \in 1 .. n : best[i] = LessUsed(best[i - 1], gpus[i])
  BY <1>1, <1>4
<1>6. \A i \in 0 .. n : best[i] \in Choice
  <2> DEFINE T == {i \in 0 .. n : best[i] \in Choice}
  <2>1. 0 \in T
    BY <1>1, <1>5
  <2>2. ASSUME NEW i \in 1 .. n, i - 1 \in T PROVE i \in T
    BY <1>1, <1>3, <1>5, <2>2
  <2> HIDE DEF T
  <2>3. 0 .. n \subseteq T
    BY <1>1, <2>1, <2>2, StepByStep
  <2> QED
    BY <2>3 DEF T
<1> DEFINE ok == 1 .. n
           key == [i \in 1 .. n |-> gpus[i].util]
           m == [i \in 0 .. n |-> best[i].min]
           s == [i \in 0 .. n |-> best[i].gpu]
           fits == {i \in ok : key[i] < m[0]}
           candidates == {g \in Listed : g.util < 100}
<1>7. /\ key \in [1 .. n -> Int] /\ ok \in SUBSET (1 .. n)
      /\ m[0] = 100 /\ s[0] = NoGPU /\ s[n] = GetLeastUsedGPU
  BY <1>1, <1>2, <1>5 DEF NoChoice, NoGPU, Choice, GPU
<1>8. Keeps(n, ok, key, gpus, m, s)
  <2>1. ASSUME NEW i \in 1 .. n
        PROVE  IF i \in ok /\ key[i] < m[i - 1] THEN m[i] = key[i] /\ s[i] = gpus[i]
               ELSE m[i] = m[i - 1] /\ s[i] = s[i - 1]
    <3>1. /\ i - 1 \in 0 .. n /\ i \in 0 .. n
          /\ best[i - 1] \in Choice /\ gpus[i] \in GPU /\ best[i] = LessUsed(best[i - 1], gpus[i])
      BY <1>1, <1>5, <1>6
    <3>2. gpus[i].util \in Nat /\ best[i - 1].min \in Nat
      BY <3>1 DEF NoChoice, NoGPU, Choice, GPU
    <3>3. /\ i \in ok <=> TRUE
          /\ key[i] = gpus[i].util /\ m[i - 1] = best[i - 1].min /\ m[i] = best[i].min
          /\ s[i] = best[i].gpu /\ s[i - 1] = best[i - 1].gpu
      BY <3>1
    <3> HIDE DEF ok, key, m, s
    <3> QED
      BY <3>1, <3>2, <3>3 DEF LessUsed
  <2> QED
    BY <2>1 DEF Keeps
<1>9. \A k \in DOMAIN gpus : k \in fits <=> gpus[k] \in candidates
  BY <1>1, <1>7 DEF Listed, NoChoice, NoGPU, Choice, GPU
<1>10. FirstLeast(s[n], fits, key, gpus, NoGPU)
  <2>1. n \in Nat /\ ok \in SUBSET (1 .. n) /\ key \in [1 .. n -> Int] /\ m[0] \in Int
    BY <1>1, <1>7
  <2> HIDE DEF ok, key, m, s
  <2>2. FirstLeast(s[n], {i \in ok : key[i] < m[0]}, key, gpus, s[0])
    BY <1>8, <2>1, PassKeepsFirst
  <2> QED
    BY <1>7, <2>2
<1>11. \A g \in candidates : \E k \in fits : g = gpus[k]
  BY <1>9 DEF Listed
<1>12. ASSUME NEW j \in fits, NEW k \in fits
       PROVE  key[j] < key[k] <=> gpus[j].util < gpus[k].util
  <2>1. gpus[j].util \in Nat /\ gpus[k].util \in Nat
    BY <1>1 DEF GPU
  <2>2. key[j] = gpus[j].util /\ key[k] = gpus[k].util
    OBVIOUS
  <2> HIDE DEF key
  <2> QED
    BY <2>1, <2>2
<1> HIDE DEF fits, key, s
<1>13. CASE s[n] = NoGPU /\ fits = {}
  BY <1>7, <1>11, <1>13 DEF FirstBest
<1>14. CASE \E j \in fits : /\ s[n] = gpus[j]
                            /\ \A k \in fits : key[j] <= key[k] /\ (k < j => key[j] < key[k])
  <2>1. PICK j \in fits : /\ s[n] = gpus[j]
                          /\ \A k \in fits : key[j] <= key[k] /\ (k < j => key[j] < key[k])
    BY <1>14
  <2>2. j \in 1 .. n /\ j \in DOMAIN gpus /\ \A k \in fits : key[k] \in Int
    BY <1>1, <1>7 DEF fits
  <2>3. gpus[j] \in candidates
    BY <1>9, <2>2
  <2>4. ASSUME NEW g \in candidates PROVE ~(g.util < gpus[j].util)
    <3>1. PICK k \in fits : g = gpus[k]
      BY <1>11
    <3>2. ~(key[k] < key[j])
      BY <2>1, <2>2
    <3> QED
      BY <1>12, <3>1, <3>2
  <2>5. ASSUME NEW k \in 1 .. j - 1, gpus[k] \in candidates PROVE gpus[j].util < gpus[k].util
    <3>1. k \in DOMAIN gpus /\ k < j
      BY <1>1, <2>2
    <3> QED
      BY <1>9, <1>12, <2>1, <2>5, <3>1
  <2> HIDE DEF candidates
  <2>6. candidates # {}
    BY <2>3
  <2> QED
    BY <1>7, <2>1, <2>2, <2>3, <2>4, <2>5, <2>6 DEF FirstBest, candidates
<1> QED
  BY <1>10, <1>13, <1>14 DEF FirstLeast

\* GetCoolestGPU: the first of those that are coolest.
LEMMA CoolestGPUIsFirst ==
    ASSUME gpus \in Seq(GPU), NEW limit \in Nat
    PROVE  FirstBest(GetCoolestGPU(limit), {g \in Listed : g.temp < limit /\ g.temp < 100}, LAMBDA g, h : g.temp < h.temp)
<1> DEFINE n == Len(gpus)
           best == CHOOSE f : f = [i \in 0 .. n |->
                       IF i = 0 THEN NoChoice ELSE Cooler(f[i - 1], gpus[i], limit)]
           step == [i \in 1 .. n |-> [b \in Choice |-> Cooler(b, gpus[i], limit)]]
<1>1. /\ n \in Nat /\ DOMAIN gpus = 1 .. n /\ \A i \in 1 .. n : gpus[i] \in GPU
      /\ NoChoice \in Choice
  <2>1. NoChoice \in Choice
    BY DEF NoChoice, NoGPU, Choice, GPU
  <2> QED
    BY <2>1
<1>2. GetCoolestGPU(limit) = best[n].gpu
  BY DEF GetCoolestGPU
<1> HIDE DEF n, best
<1>3. ASSUME NEW i \in 1 .. n, NEW b \in Choice PROVE Cooler(b, gpus[i], limit) \in Choice
  <2>1. gpus[i] \in GPU
    BY <1>1
  <2> QED
    BY <2>1 DEF Cooler, NoChoice, NoGPU, Choice, GPU
<1>4. best = [i \in 0 .. n |-> IF i = 0 THEN NoChoice ELSE Cooler(best[i - 1], gpus[i], limit)]
  <2>1. step \in [1 .. n -> [Choice -> Choice]]
    BY <1>3
  <2> HIDE DEF step
  <2>2. HasPass(n, Choice, NoChoice, step)
    BY <1>1, <2>1, PassExists
  <2>3. PICK f \in [0 .. n -> Choice] : f[0] = NoChoice /\ \A i \in 1 .. n : f[i] = step[i][f[i - 1]]
    BY <2>2 DEF HasPass
  <2>4. ASSUME NEW i \in 1 .. n PROVE f[i] = Cooler(f[i - 1], gpus[i], limit)
    <3>1. f[i - 1] \in Choice
      BY <1>1
    <3> QED
      BY <2>3, <3>1 DEF step
  <2>5. f = [i \in 0 .. n |-> IF i = 0 THEN NoChoice ELSE Cooler(f[i - 1], gpus[i], limit)]
    BY <1>1, <2>3, <2>4
  <2> QED
    BY <2>5 DEF best
<1>5. best[0] = NoChoice /\ \A i \in 1 .. n : best[i] = Cooler(best[i - 1], gpus[i], limit)
  BY <1>1, <1>4
<1>6. \A i \in 0 .. n : best[i] \in Choice
  <2> DEFINE T == {i \in 0 .. n : best[i] \in Choice}
  <2>1. 0 \in T
    BY <1>1, <1>5
  <2>2. ASSUME NEW i \in 1 .. n, i - 1 \in T PROVE i \in T
    BY <1>1, <1>3, <1>5, <2>2
  <2> HIDE DEF T
  <2>3. 0 .. n \subseteq T
    BY <1>1, <2>1, <2>2, StepByStep
  <2> QED
    BY <2>3 DEF T
<1> DEFINE ok == {i \in 1 .. n : gpus[i].temp < limit}
           key == [i \in 1 .. n |-> gpus[i].temp]
           m == [i \in 0 .. n |-> best[i].min]
           s == [i \in 0 .. n |-> best[i].gpu]
           fits == {i \in ok : key[i] < m[0]}
           candidates == {g \in Listed : g.temp < limit /\ g.temp < 100}
<1>7. /\ key \in [1 .. n -> Int] /\ ok \in SUBSET (1 .. n)
      /\ m[0] = 100 /\ s[0] = NoGPU /\ s[n] = GetCoolestGPU(limit)
  BY <1>1, <1>2, <1>5 DEF NoChoice, NoGPU, Choice, GPU
<1>8. Keeps(n, ok, key, gpus, m, s)
  <2>1. ASSUME NEW i \in 1 .. n
        PROVE  IF i \in ok /\ key[i] < m[i - 1] THEN m[i] = key[i] /\ s[i] = gpus[i]
               ELSE m[i] = m[i - 1] /\ s[i] = s[i - 1]
    <3>1. /\ i - 1 \in 0 .. n /\ i \in 0 .. n
          /\ best[i - 1] \in Choice /\ gpus[i] \in GPU /\ best[i] = Cooler(best[i - 1], gpus[i], limit)
      BY <1>1, <1>5, <1>6
    <3>2. gpus[i].temp \in Nat /\ best[i - 1].min \in Nat
      BY <3>1 DEF NoChoice, NoGPU, Choice, GPU
    <3>3. /\ i \in ok <=> gpus[i].temp < limit
          /\ key[i] = gpus[i].temp /\ m[i - 1] = best[i - 1].min /\ m[i] = best[i].min
          /\ s[i] = best[i].gpu /\ s[i - 1] = best[i - 1].gpu
      BY <3>1
    <3> HIDE DEF ok, key, m, s
    <3> QED
      BY <3>1, <3>2, <3>3 DEF Cooler
  <2> QED
    BY <2>1 DEF Keeps
<1>9. \A k \in DOMAIN gpus : k \in fits <=> gpus[k] \in candidates
  BY <1>1, <1>7 DEF Listed, NoChoice, NoGPU, Choice, GPU
<1>10. FirstLeast(s[n], fits, key, gpus, NoGPU)
  <2>1. n \in Nat /\ ok \in SUBSET (1 .. n) /\ key \in [1 .. n -> Int] /\ m[0] \in Int
    BY <1>1, <1>7
  <2> HIDE DEF ok, key, m, s
  <2>2. FirstLeast(s[n], {i \in ok : key[i] < m[0]}, key, gpus, s[0])
    BY <1>8, <2>1, PassKeepsFirst
  <2> QED
    BY <1>7, <2>2
<1>11. \A g \in candidates : \E k \in fits : g = gpus[k]
  BY <1>9 DEF Listed
<1>12. ASSUME NEW j \in fits, NEW k \in fits
       PROVE  key[j] < key[k] <=> gpus[j].temp < gpus[k].temp
  <2>1. gpus[j].temp \in Nat /\ gpus[k].temp \in Nat
    BY <1>1 DEF GPU
  <2>2. key[j] = gpus[j].temp /\ key[k] = gpus[k].temp
    OBVIOUS
  <2> HIDE DEF key
  <2> QED
    BY <2>1, <2>2
<1> HIDE DEF fits, key, s
<1>13. CASE s[n] = NoGPU /\ fits = {}
  BY <1>7, <1>11, <1>13 DEF FirstBest
<1>14. CASE \E j \in fits : /\ s[n] = gpus[j]
                            /\ \A k \in fits : key[j] <= key[k] /\ (k < j => key[j] < key[k])
  <2>1. PICK j \in fits : /\ s[n] = gpus[j]
                          /\ \A k \in fits : key[j] <= key[k] /\ (k < j => key[j] < key[k])
    BY <1>14
  <2>2. j \in 1 .. n /\ j \in DOMAIN gpus /\ \A k \in fits : key[k] \in Int
    BY <1>1, <1>7 DEF fits
  <2>3. gpus[j] \in candidates
    BY <1>9, <2>2
  <2>4. ASSUME NEW g \in candidates PROVE ~(g.temp < gpus[j].temp)
    <3>1. PICK k \in fits : g = gpus[k]
      BY <1>11
    <3>2. ~(key[k] < key[j])
      BY <2>1, <2>2
    <3> QED
      BY <1>12, <3>1, <3>2
  <2>5. ASSUME NEW k \in 1 .. j - 1, gpus[k] \in candidates PROVE gpus[j].temp < gpus[k].temp
    <3>1. k \in DOMAIN gpus /\ k < j
      BY <1>1, <2>2
    <3> QED
      BY <1>9, <1>12, <2>1, <2>5, <3>1
  <2> HIDE DEF candidates
  <2>6. candidates # {}
    BY <2>3
  <2> QED
    BY <1>7, <2>1, <2>2, <2>3, <2>4, <2>5, <2>6 DEF FirstBest, candidates
<1> QED
  BY <1>10, <1>13, <1>14 DEF FirstLeast

\* For any GPUs and any limit, each choice is the first of the best that qualify
\* (gpu.go:478-536).
THEOREM BestGPUsAreChosen == Spec => []ChoosesBest
<1>1. DeploymentInv => ChoosesBest
  <2> SUFFICES ASSUME DeploymentInv, NEW limit \in Measures
               PROVE  /\ FirstBest(GetFreeGPU(limit), {g \in Listed : g.free >= limit /\ g.free > 0},
                                   LAMBDA g, h : g.free > h.free)
                      /\ FirstBest(GetLeastUsedGPU, {g \in Listed : g.util < 100},
                                   LAMBDA g, h : g.util < h.util)
                      /\ FirstBest(GetCoolestGPU(limit), {g \in Listed : g.temp < limit /\ g.temp < 100},
                                   LAMBDA g, h : g.temp < h.temp)
    BY DEF ChoosesBest
  <2>1. gpus \in Seq(GPU) /\ limit \in Nat
    BY GPUAssumption DEF DeploymentInv, TypeOK, GPUTypeOK
  <2> QED
    BY <2>1, FreeGPUIsFirst, LeastUsedGPUIsFirst, CoolestGPUIsFirst
<1> QED
  BY <1>1, DeploymentInvariance, PTL
=============================================================================
