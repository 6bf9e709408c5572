--------------------------- MODULE Configuration ---------------------------
(***************************************************************************)
(* What a configuration file says (internal/config/config.go), and what    *)
(* Load and ApplyPresetToConfig (preset.go) make of it.  Of a setting it   *)
(* is told who made it: the "user", a "default" of Load, a "preset" for    *)
(* the GPU's memory, or nobody, and then it is "blank", Go's zero.         *)
(***************************************************************************)
EXTENDS Naturals, Sequences

CONSTANTS PresetInstances \* MaxInstances of the preset that is used

ASSUME ConfigurationAssumption == PresetInstances \in Nat \ {0}

Settings == {"user", "default", "preset", "blank"}

\* What a file says.  binary is one of the two names that llama-server may have in
\* llama.cpp/; single, that llama.model is given; memory, which preset is asked for: by
\* its name, by a memory size or as the best.  batcher stands for the three numbers of
\* BatcherConfig, llama for the four of LlamaConfig, batch for context_size, gpu_layers
\* and batch_size of a model.
Configuration ==
    [from : {"setup", "user", "nobody"}, binary : {"exe", "plain", "blank"}, single : BOOLEAN,
     llama : Settings, batcher : Settings, interval : Settings,
     memory : {"named", "unknown", "sized", "best", "none"},
     auto : BOOLEAN, gpuIDs : {"nil", "empty", "some"},
     models : Seq([instances : Nat, batch : Settings])]

\* The empty file.
Empty == [from |-> "nobody", binary |-> "blank", single |-> FALSE,
          llama |-> "blank", batcher |-> "blank", interval |-> "blank",
          memory |-> "none", auto |-> FALSE, gpuIDs |-> "nil", models |-> <<>>]

\* Faulty: the ticker of the health checks gets no interval.
NoInterval(binary) ==
    [from |-> "setup", binary |-> binary, single |-> FALSE,
     llama |-> "user", batcher |-> "user", interval |-> "blank",
     memory |-> "sized", auto |-> TRUE, gpuIDs |-> "some",
     models |-> <<[instances |-> 1, batch |-> "blank"]>>]

\* What setup writes, with the name of a binary.
Written(binary) ==
    [from |-> "setup", binary |-> binary, single |-> FALSE,
     llama |-> "user", batcher |-> "user", interval |-> "user",
     memory |-> "sized", auto |-> TRUE, gpuIDs |-> "some",
     models |-> <<[instances |-> 1, batch |-> "blank"]>>]

-----------------------------------------------------------------------------
\* Faulty: what there is already is not asked for.
Overwrite(setting, by) == by

\* if setting == 0 { setting = by }
Fill(setting, by) == IF setting = "blank" THEN by ELSE setting

\* One model is made of llama's settings when none is listed.
ListedModels(c) == IF c.models = <<>> /\ c.single
                   THEN <<[instances |-> 2, batch |-> c.llama]>>
                   ELSE c.models

\* The last steps of Load.
Defaults(c) == [c EXCEPT !.models = ListedModels(c), !.batcher = Fill(@, "default")]

\* ApplyPresetToConfig, when there is a preset; and what it does to a model.
PresetModel(model) ==
    [instances |-> IF model.instances = 0 THEN PresetInstances ELSE model.instances,
     batch |-> Fill(model.batch, "preset")]

WithPreset(c) == [c EXCEPT !.batcher = Fill(@, "preset"),
                           !.llama = Fill(@, "preset"),
                           !.models = [i \in DOMAIN @ |-> PresetModel(@[i])]]

\* ApplyMemoryPreset finds one; an unknown name is an error.
HasPreset(c) == c.memory \in {"named", "sized", "best"}
=============================================================================
