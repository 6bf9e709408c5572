----------------------------- MODULE GPUManager -----------------------------
(***************************************************************************)
(* internal/gpu/gpu.go: the list of GPUs that the server has, which Start  *)
(* detects and the monitor replaces every five seconds, and the choices    *)
(* that are made from it.  What nvidia-smi and wmic say is a list of GPUs, *)
(* empty if no line of it can be read, or nothing at all: the tool is not  *)
(* there or fails, wherever it is looked for.  Whoever reads or replaces   *)
(* the list holds the mutex.                                               *)
(*                                                                         *)
(* Start asks nvidia-smi for nine columns and the monitor for five: the    *)
(* monitor's GPUs have a utilization and a temperature of zero.            *)
(***************************************************************************)
EXTENDS Naturals, SequencesExt

CONSTANTS Outputs,      \* lists that the tools may print
          Measures,     \* memory, utilization and temperature that GPUs may have
          ConfigMemory  \* GPUManager.configMemoryGB

ASSUME GPUAssumption == /\ Outputs \subseteq
                              Seq([id : Nat, free : Measures, util : Measures, temp : Measures])
                        /\ 0 \in Measures /\ Measures \subseteq Nat
                        /\ ConfigMemory \in Nat

VARIABLES gpus,    \* GPUManager.gpus
          monitor  \* the goroutine is running

gpuVars == <<gpus, monitor>>

NoGPU == [id |-> 0, free |-> 0, util |-> 0, temp |-> 0]

\* Free memory in GB.
DefaultGPU == [id |-> 0, free |-> IF ConfigMemory > 0 THEN ConfigMemory ELSE 8,
               util |-> 0, temp |-> 45]

GPU == [id : Nat, free : Nat, util : Nat, temp : Nat]

GPUTypeOK == /\ monitor \in BOOLEAN
             /\ gpus \in Seq(GPU)
             /\ ~monitor => gpus = <<>>

GPUInit == gpus = <<>> /\ monitor = FALSE

\* The GPUs of wmic get the numbers from 0, and no measures but their memory.
ByWmic(list) == [i \in DOMAIN list |-> [list[i] EXCEPT !.id = i - 1, !.util = 0, !.temp = 0]]

\* The five columns.
Short(list) == [i \in DOMAIN list |-> [list[i] EXCEPT !.util = 0, !.temp = 0]]

\* DetectGPUs: nvidia-smi, on Windows then wmic, and at last one GPU out of the configuration.
Detected == Outputs \cup {ByWmic(list) : list \in Outputs \ {<<>>}} \cup {<<DefaultGPU>>}

StartGPUs == /\ ~monitor
             /\ gpus' \in Detected
             /\ monitor' = TRUE

\* refresh: the list stays when no nvidia-smi answers.
Refresh == /\ monitor
           /\ gpus' \in {Short(list) : list \in Outputs} \cup {gpus}
           /\ UNCHANGED monitor

EndOfGPUs == gpus' = <<>> /\ monitor' = FALSE

-----------------------------------------------------------------------------
(* The choices: one pass over the list, which keeps the best so far *)

\* Faulty: a later one of the same measure is taken.
LaterFree(best, gpu, minMemory) ==
    IF gpu.free >= minMemory /\ gpu.free >= best.free THEN gpu ELSE best

\* The body of GetFreeGPU's loop.
MoreFree(best, gpu, minMemory) ==
    IF gpu.free >= minMemory /\ gpu.free > best.free THEN gpu ELSE best

GetFreeGPU(minMemory) ==
    LET best[i \in 0 .. Len(gpus)] ==
            IF i = 0 THEN NoGPU ELSE MoreFree(best[i - 1], gpus[i], minMemory)
    IN  best[Len(gpus)]

\* A choice with the measure it has to beat.
NoChoice == [min |-> 100, gpu |-> NoGPU]

LessUsed(best, gpu) == IF gpu.util < best.min THEN [min |-> gpu.util, gpu |-> gpu] ELSE best

GetLeastUsedGPU ==
    LET best[i \in 0 .. Len(gpus)] ==
            IF i = 0 THEN NoChoice ELSE LessUsed(best[i - 1], gpus[i])
    IN  best[Len(gpus)].gpu

Cooler(best, gpu, maxTemp) ==
    IF gpu.temp < best.min /\ gpu.temp < maxTemp THEN [min |-> gpu.temp, gpu |-> gpu] ELSE best

GetCoolestGPU(maxTemp) ==
    LET best[i \in 0 .. Len(gpus)] ==
            IF i = 0 THEN NoChoice ELSE Cooler(best[i - 1], gpus[i], maxTemp)
    IN  best[Len(gpus)].gpu

-----------------------------------------------------------------------------
(* Properties *)

Listed == {gpus[i] : i \in DOMAIN gpus}

\* gpu is the first of the list among those, if any, that are best by a measure.
FirstBest(gpu, candidates, Better(_, _)) ==
    IF candidates = {} THEN gpu = NoGPU
    ELSE /\ gpu \in candidates
         /\ \A g \in candidates : ~Better(g, gpu)
         /\ \E i \in DOMAIN gpus : /\ gpus[i] = gpu
                                   /\ \A k \in 1 .. i - 1 :
                                         gpus[k] \in candidates => Better(gpu, gpus[k])

\* Each choice, from any list that can come about, is the first of the best GPUs that
\* qualify, and none only if none does: no GPU with memory free, none below full
\* utilization, or none below the limit and 100 degrees.
ChoosesBest ==
    \A limit \in Measures :
        /\ FirstBest(GetFreeGPU(limit), {g \in Listed : g.free >= limit /\ g.free > 0},
                     LAMBDA g, h : g.free > h.free)
        /\ FirstBest(GetLeastUsedGPU, {g \in Listed : g.util < 100},
                     LAMBDA g, h : g.util < h.util)
        /\ FirstBest(GetCoolestGPU(limit), {g \in Listed : g.temp < limit /\ g.temp < 100},
                     LAMBDA g, h : g.temp < h.temp)
=============================================================================
