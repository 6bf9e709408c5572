------------------------------ MODULE ModelPool ------------------------------
(***************************************************************************)
(* internal/pool: one Pool of llama.cpp instances per configured model.    *)
(* An instance is taken by setting its Busy flag and given back by         *)
(* clearing it; both happen under the mutex of its pool, so each is one    *)
(* step.  A pool keeps no record of WHO took an instance.                  *)
(***************************************************************************)
EXTENDS Naturals, Sequences, Functions

CONSTANTS Models,        \* the names of the configured models
          DefaultModel,  \* the model whose pool is ModelPool.defaultPool
          Names,         \* the model names a client may send
          DefaultName,   \* the string "default"
          NoName,        \* the empty string: the client named no model
          Instances,     \* the *LlamaInstance objects
          InstModel,     \* LlamaInstance.Model
          InitialPool    \* Pool.instances of each model once Init has returned

\* At least one model is configured (config.go:104-117 adds one when only the
\* llama section names a model file) and StartAll returned distinct instances.
ASSUME PoolAssumption ==
    /\ DefaultModel \in Models
    /\ {DefaultName, NoName} \subseteq Names
    /\ InstModel \in [Instances -> Models]
    /\ InitialPool \in [Models -> Seq(Instances)]
    /\ \A m \in Models : \A n \in DOMAIN InitialPool[m] :
           InstModel[InitialPool[m][n]] = m

VARIABLES pool,    \* Pool.instances, per model
          busy     \* LlamaInstance.Busy

poolVars == <<pool, busy>>

PoolTypeOK == /\ pool \in [Models -> Seq(Instances)]
              /\ busy \in [Instances -> BOOLEAN]

PoolInit == /\ pool = InitialPool
            /\ busy = [i \in Instances |-> FALSE]

\* The pool GetFree looks in: an unknown model name falls back to the default.
PoolFor(n) == IF n \in Models THEN n ELSE DefaultModel

\* Every member of m's pool is taken: GetFree returns nil.
NoneFree(m) == \A k \in DOMAIN pool[m] : busy[pool[m][k]]

-----------------------------------------------------------------------------
(* Faulty variants of FirstFree and Release: each breaks a property (README). *)

\* A scan that does not look at Busy.
AnyMember(m, i) == \E k \in DOMAIN pool[m] : pool[m][k] = i

\* An early return that skips ReleaseInstance.
ForgetRelease(n, i) == UNCHANGED poolVars

-----------------------------------------------------------------------------
\* Pool.GetFree's scan: i is the first member, in order, that is not busy.
FirstFree(m, i) ==
    \E k \in DOMAIN pool[m] :
        /\ pool[m][k] = i
        /\ ~busy[i]
        /\ \A j \in 1 .. k - 1 : busy[pool[m][j]]

\* ModelPool.GetFree when it finds an instance.
GetFree(m, i) == /\ FirstFree(m, i)
                 /\ busy' = [busy EXCEPT ![i] = TRUE]
                 /\ UNCHANGED pool

\* ModelPool.Release: clears Busy whoever holds the instance.  A name without a
\* pool does NOT fall back to the default, as in GetFree: nothing is cleared.
Release(n, i) == /\ busy' = IF n \in Models THEN [busy EXCEPT ![i] = FALSE] ELSE busy
                 /\ UNCHANGED pool
=============================================================================
