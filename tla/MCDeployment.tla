---------------------------- MODULE MCDeployment ----------------------------
(***************************************************************************)
(* All three programs to be installed.  Configurations of the user: the    *)
(* one in the repository, one with nothing but what a preset does not      *)
(* give, one with a single model and an empty list of GPUs, and one with   *)
(* the name of a preset that there is not.                                 *)
(***************************************************************************)
EXTENDS Deployment, TLC

MCShipped == [Written("exe") EXCEPT !.from = "user"]

MCSparse == [Empty EXCEPT !.from = "user", !.binary = "plain", !.interval = "user",
                            !.memory = "best",
                            !.models = <<[instances |-> 0, batch |-> "blank"],
                                         [instances |-> 1, batch |-> "user"]>>]

MCSingle == [Empty EXCEPT !.from = "user", !.binary = "plain", !.single = TRUE,
                            !.interval = "user", !.auto = TRUE, !.gpuIDs = "empty"]

MCUnknown == [MCShipped EXCEPT !.memory = "unknown"]

MCEdited == {MCShipped, MCSparse, MCSingle, MCUnknown}

\* Two GPUs that differ, or tie, in each measure.
MCGPU(n, free, util, temp) == [id |-> n, free |-> free, util |-> util, temp |-> temp]
MCOutputs == {<<>>,
              <<MCGPU(0, 4, 100, 60), MCGPU(1, 8, 30, 60)>>,
              <<MCGPU(0, 8, 30, 45), MCGPU(1, 8, 30, 60), MCGPU(2, 8, 0, 45)>>}
MCMeasures == {0, 4, 8, 30, 45, 60, 100}
=============================================================================
