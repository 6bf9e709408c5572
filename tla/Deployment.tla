----------------------------- MODULE Deployment -----------------------------
(***************************************************************************)
(* From the installer to a server that serves: setup writes the            *)
(* configuration, unless the user does; cmd/server/main.go reads it, fills *)
(* what is blank, and makes a scheduler (internal/scheduler/scheduler.go), *)
(* whose Init starts the GPU manager and the instances, and whose Start    *)
(* starts the tickers.  Setup and the server run one after the other.      *)
(***************************************************************************)
EXTENDS Setup, GPUManager

VARIABLES server, \* what main does, or came to
          read,   \* history: the configuration file as it was read
          cfg,    \* cfg in main
          next    \* the model Init is at

serverVars == <<server, read, cfg, next>>
vars == <<setupVars, gpuVars, serverVars>>

States == {"off", "load", "preset", "init", "serving", "fatal", "panicked"}
Running == server \in {"load", "preset", "init", "serving"}

TypeOK == /\ SetupTypeOK /\ GPUTypeOK
          /\ read \in Configuration /\ cfg \in Configuration
          /\ server \in States
          /\ Running => Idle
          /\ monitor => cfg.auto /\ server \in {"init", "serving"}
          /\ next \in 1 .. Len(cfg.models) + 1
          /\ server = "serving" => next = Len(cfg.models) + 1

Init == /\ SetupInit /\ GPUInit
        /\ server = "off"
        /\ read = Empty /\ cfg = Empty /\ next = 1

-----------------------------------------------------------------------------
(* main *)

\* The program ends, and with it its goroutines and their variables.
End(state) == /\ server' = state
              /\ EndOfGPUs

Load == /\ server = "off" /\ Idle
        /\ server' = "preset"
        /\ read' = config
        /\ cfg' = Defaults(config)
        /\ UNCHANGED <<setupVars, gpuVars, next>>

\* The file is not there, or not YAML.
LoadFails == /\ server = "off" /\ Idle
             /\ server' = "fatal"
             /\ UNCHANGED <<setupVars, gpuVars, read, cfg, next>>

ApplyPreset == /\ server = "preset" /\ cfg.memory # "unknown"
               /\ server' = "init"
               /\ cfg' = IF HasPreset(cfg) THEN WithPreset(cfg) ELSE cfg
               /\ IF cfg.auto THEN StartGPUs ELSE UNCHANGED gpuVars
               /\ UNCHANGED <<setupVars, read, next>>

\* GetPresetByName finds none.
ApplyPresetFails == /\ server = "preset" /\ cfg.memory = "unknown"
                    /\ End("fatal")
                    /\ UNCHANGED <<setupVars, read, cfg, next>>

\* What the instances of a model are started with: of llama's settings only the binary and
\* generation_batch.
Given(model) == [binary |-> cfg.binary, generation |-> cfg.llama,
                 batch |-> model.batch, instances |-> model.instances]

\* assignGPUIDs divides by the length of the list for each instance.
DividesByZero(model) == cfg.auto /\ cfg.gpuIDs = "empty" /\ model.instances > 0

\* One turn of Init: the instances of a model come up.
StartModel == /\ server = "init" /\ next <= Len(cfg.models)
              /\ ~DividesByZero(cfg.models[next])
              /\ LET given == Given(cfg.models[next])
                 IN  given.instances > 0 => Exists(given.binary)
              /\ next' = next + 1
              /\ UNCHANGED <<setupVars, gpuVars, server, read, cfg>>

\* They do not, or their program is not there.
StartModelFails == /\ server = "init" /\ next <= Len(cfg.models)
                   /\ cfg.models[next].instances > 0
                   /\ End(IF DividesByZero(cfg.models[next]) THEN "panicked" ELSE "fatal")
                   /\ UNCHANGED <<setupVars, read, cfg, next>>

\* Start: NewTicker panics when it is given no time.
Start == /\ server = "init" /\ next = Len(cfg.models) + 1
         /\ IF "blank" \in {cfg.batcher, cfg.interval}
            THEN End("panicked")
            ELSE server' = "serving" /\ UNCHANGED gpuVars
         /\ UNCHANGED <<setupVars, read, cfg, next>>

\* main ends after a signal, or its end is noticed.
Shutdown == /\ server \in {"serving", "fatal", "panicked"}
            /\ End("off")
            /\ read' = Empty /\ cfg' = Empty /\ next' = 1
            /\ UNCHANGED setupVars

-----------------------------------------------------------------------------
BeginSetup == server = "off" /\ Check /\ UNCHANGED <<gpuVars, serverVars>>

ContinueSetup == SetupStep /\ UNCHANGED <<gpuVars, serverVars>>

UserActs == server = "off" /\ (CutOff \/ EditConfig) /\ UNCHANGED <<gpuVars, serverVars>>

Monitor == Refresh /\ UNCHANGED <<setupVars, serverVars>>

ServerStep == \/ ApplyPreset \/ ApplyPresetFails
              \/ StartModel \/ StartModelFails \/ Start \/ Shutdown

Next == \/ BeginSetup \/ ContinueSetup \/ UserActs
        \/ Load \/ LoadFails \/ ServerStep \/ Monitor

Spec == Init /\ [][Next]_vars

\* Runs of setup go on, there is one again and again, and no server is left running.
Fairness == /\ WF_vars(ContinueSetup)
            /\ SF_vars(BeginSetup)
            /\ WF_vars(ServerStep)

FairSpec == Spec /\ Fairness

-----------------------------------------------------------------------------
(* Properties *)

\* After a run of setup that has written the configuration, that names a llama-server
\* that is there if there is one in llama.cpp/, whatever earlier runs left; and a server
\* that read a configuration of setup's never panics (scheduler.go:105, 145, 207).  A run
\* that could not write it reaches its end too, and says no less (main.go:112, 116).
SetupServes ==
    /\ pc = "over" /\ written /\ (\E binary \in {"exe", "plain"} : Exists(binary)) =>
          Exists(config.binary)
    /\ server = "panicked" => read.from # "setup"

\* Through Load and the preset what the user has set is what each model's instances are
\* started with.  A setting that he left blank comes from the preset, if there is one, and
\* stays blank if there is none; of llama's settings only generation_batch counts once
\* models are listed.  The batcher never gets a preset's numbers: Load's defaults are there
\* first (config.go:119-127, before preset.go:267-275).
UserWins ==
    LET Comes(setting, users) == setting = CASE users # "blank" -> users
                                         [] users = "blank" /\ HasPreset(read) -> "preset"
                                         [] OTHER -> "blank"
        ByModel == read.models # <<>>
        UsersBatch(i) == IF ByModel THEN read.models[i].batch ELSE read.llama
        UsersInstances(i) == IF ByModel THEN read.models[i].instances ELSE 2
    IN  server \in {"init", "serving"} =>
          /\ cfg.batcher = IF read.batcher # "blank" THEN read.batcher ELSE "default"
          /\ Len(cfg.models) = IF ~ByModel /\ read.single THEN 1 ELSE Len(read.models)
          /\ \A i \in DOMAIN cfg.models : LET given == Given(cfg.models[i]) IN
                /\ given.binary = read.binary
                /\ Comes(given.generation, read.llama)
                /\ Comes(given.batch, UsersBatch(i))
                /\ IF UsersInstances(i) > 0 \/ ~HasPreset(read)
                   THEN given.instances = UsersInstances(i)
                   ELSE given.instances = PresetInstances
=============================================================================
