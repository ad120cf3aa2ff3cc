--------------------------- MODULE MCRunLifecycle ---------------------------
(***************************************************************************)
(* One directory and two starts in it, with one process beside them in     *)
(* each behaviour: a stop, retention, or a second start, which is taken    *)
(* without faults.                                                         *)
(***************************************************************************)
EXTENDS RunLifecycle

VARIABLE part   \* which of them

vars == <<lifecycleVars, part>>

First == CHOOSE l \in Launchers : TRUE

\* A lost runner beside the runner of a later start: bounded to its first step.
OneLive == Cardinality({g \in Generations : Live(g)}) <= 1

PartInit == LifecycleInit /\ part \in {"stopped", "retained", "started"}

PartNext ==
    /\ \/ StartStep(First)
       \/ \E g \in Generations : RunnerStep(g)
       \/ part = "stopped" /\ StopStep
       \/ part = "retained" /\ RetainStep
       \/ part = "started" /\ \E l \in Launchers : StartStep(l)
       \/ part = "started" /\ \E g \in Generations : PidStep(g)
    /\ part = "started" => faults' = 0
    /\ UNCHANGED part

PartSpec == PartInit /\ [][PartNext]_vars
=============================================================================
