----------------------------- MODULE MCServices -----------------------------
(***************************************************************************)
(* Control services on bounded instances: the Controls of a Run under any  *)
(* interleaving of their senders and services, and the locker service,     *)
(* whose Controls are given.  They share no state, so a behaviour is one   *)
(* of the part that was chosen at the start.                               *)
(***************************************************************************)
EXTENDS RunControls, ResourceLocker, TLC

CONSTANTS t1, t2, r1, r2

\* One task needs both resources.
MCNeeds == [t \in Tasks |-> IF t = t1 THEN {r1, r2} ELSE {r2}]

Symmetric == Permutations(Calls \ LocalCalls) \cup Permutations(Services)

VARIABLE part

ServicesInit == ControlsInit /\ LockerInit /\ part \in {"controls", "locker"}

ServicesNext ==
    /\ UNCHANGED part
    /\ \/ part = "controls" /\ ControlsNext /\ UNCHANGED lockerVars
       \/ part = "locker" /\ LockerNext /\ UNCHANGED controlVars

ServicesSpec == ServicesInit /\ [][ServicesNext]_<<part, controlVars, lockerVars>>
=============================================================================
