-------------------------- MODULE FileMutationLock --------------------------
(***************************************************************************)
(* The cross-process lock of lib/file-state.ts for one path.  The lock is  *)
(* a directory with the token of its owner inside, published complete by   *)
(* one rename and taken away by another.  It is only taken away inside a   *)
(* removal boundary, a second directory of the same kind, by its owner or  *)
(* by whoever finds the owner dead.  The boundary of a dead process has no *)
(* boundary around it: any contender takes it away.                        *)
(*                                                                         *)
(* Every read and every rename is a step.  A process makes one attempt at  *)
(* a time, so it stands for its token; that a later attempt of the same    *)
(* process has another token is not used.  A process that died is not seen *)
(* again.  Clocks are left out: a grace period, a poll and a deadline may  *)
(* be over or not over whenever they are looked at.                        *)
(***************************************************************************)
EXTENDS Naturals, FiniteSets

CONSTANTS
    Processes,      \* processes that want the lock
    Nobody          \* not a process

ASSUME LockAssumption == Nobody \notin Processes

VARIABLES
    lock,           \* owner of the lock directory, or Nobody
    boundary,       \* owner of the .reclaim directory, or Nobody
    alive,          \* processes that have not died
    pc,             \* where each process is
    goal,           \* why it removes the lock: "reclaim" or "release"
    seen,           \* the dead owner it read last
    orphaned        \* history: a process died as the owner of the boundary

lockVars == <<lock, boundary, alive, pc, goal, seen, orphaned>>

Labels == {"idle", "try", "hold", "enter", "seenBoundary", "dropBoundary",
           "inside", "seenLock", "dropLock", "leave", "leaving"}

LockInit ==
    /\ lock = Nobody /\ boundary = Nobody
    /\ alive = Processes
    /\ pc = [p \in Processes |-> "idle"]
    /\ goal = [p \in Processes |-> "reclaim"]
    /\ seen = [p \in Processes |-> Nobody]
    /\ orphaned = FALSE

-----------------------------------------------------------------------------
\* p goes from one label to another.
Moves(p, from, to) ==
    /\ p \in alive /\ pc[p] = from
    /\ pc' = [pc EXCEPT ![p] = to]

\* The call is over.
Returns(p, from) ==
    /\ Moves(p, from, "idle")
    /\ goal' = [goal EXCEPT ![p] = "reclaim"]

Stays(p, from, to) == Moves(p, from, to) /\ UNCHANGED goal

\* The removal boundary is left, or was not entered: a contender tries again or
\* has reached its deadline, an owner is done.
Resume(p, from) ==
    \/ goal[p] = "reclaim" /\ Stays(p, from, "try")
    \/ Returns(p, from)

\* withRemovalBoundary returned false: an owner goes on until its own deadline,
\* and then leaves its lock behind.
Refused(p, from) ==
    \/ goal[p] = "reclaim" /\ Stays(p, from, "try")
    \/ goal[p] = "release" /\ Stays(p, from, "enter")
    \/ Returns(p, from)

-----------------------------------------------------------------------------
(* Acquiring and releasing.                                                *)

Begin(p) ==
    /\ Moves(p, "idle", "try")
    /\ UNCHANGED <<lock, boundary, alive, goal, seen, orphaned>>

\* Renaming the prepared directory succeeds where there is none.
Publish(p) ==
    /\ lock = Nobody
    /\ Moves(p, "try", "hold")
    /\ lock' = p
    /\ UNCHANGED <<boundary, alive, goal, seen, orphaned>>

Contend(p) ==
    /\ lock # Nobody
    /\ Moves(p, "try", "enter")
    /\ UNCHANGED <<lock, boundary, alive, goal, seen, orphaned>>

Release(p) ==
    /\ Moves(p, "hold", "enter")
    /\ goal' = [goal EXCEPT ![p] = "release"]
    /\ UNCHANGED <<lock, boundary, alive, seen, orphaned>>

-----------------------------------------------------------------------------
(* The removal boundary.                                                   *)

EnterBoundary(p) ==
    /\ boundary = Nobody
    /\ Moves(p, "enter", "inside")
    /\ boundary' = p
    /\ UNCHANGED <<lock, alive, goal, seen, orphaned>>

BoundaryBusy(p) ==
    /\ boundary # Nobody
    /\ Refused(p, "enter")
    /\ UNCHANGED <<lock, boundary, alive, seen, orphaned>>

\* Mutant: its age is enough.
SeeDeadBoundaryByAge(p) ==
    /\ boundary # Nobody
    /\ Moves(p, "enter", "seenBoundary")
    /\ seen' = [seen EXCEPT ![p] = boundary]
    /\ UNCHANGED <<lock, boundary, alive, goal, orphaned>>

\* tryReclaimRemovalBoundary reads a token whose owner is dead ...
SeeDeadBoundary(p) ==
    /\ boundary \in Processes \ alive
    /\ Moves(p, "enter", "seenBoundary")
    /\ seen' = [seen EXCEPT ![p] = boundary]
    /\ UNCHANGED <<lock, boundary, alive, goal, orphaned>>

\* ... reads it again ...
ConfirmBoundary(p) ==
    /\ \/ boundary = seen[p] /\ Stays(p, "seenBoundary", "dropBoundary")
       \/ boundary # seen[p] /\ Refused(p, "seenBoundary")
    /\ seen' = [seen EXCEPT ![p] = Nobody]
    /\ UNCHANGED <<lock, boundary, alive, orphaned>>

\* ... and renames what is there by then.
DropBoundary(p) ==
    /\ Refused(p, "dropBoundary")
    /\ boundary' = Nobody
    /\ UNCHANGED <<lock, alive, seen, orphaned>>

-----------------------------------------------------------------------------
(* Inside the boundary.                                                    *)

\* Mutant: contenders leave the lock alone.
SeeLockOwn(p) ==
    /\ goal[p] = "release" /\ lock = p
    /\ Moves(p, "inside", "seenLock")
    /\ seen' = [seen EXCEPT ![p] = lock]
    /\ UNCHANGED <<lock, boundary, alive, goal, orphaned>>

\* An owner finds its token, a contender one of a dead process.
SeeLock(p) ==
    /\ lock \in IF goal[p] = "release" THEN {p} ELSE Processes \ alive
    /\ Moves(p, "inside", "seenLock")
    /\ seen' = [seen EXCEPT ![p] = lock]
    /\ UNCHANGED <<lock, boundary, alive, goal, orphaned>>

\* There is no lock, or nothing to do about it: a process that is gone may still
\* look alive for a while.
LeaveLock(p) ==
    /\ goal[p] = "release" => lock # p
    /\ Moves(p, "inside", "leave")
    /\ UNCHANGED <<lock, boundary, alive, goal, seen, orphaned>>

ConfirmLock(p) ==
    /\ Moves(p, "seenLock", IF lock = seen[p] THEN "dropLock" ELSE "leave")
    /\ seen' = [seen EXCEPT ![p] = Nobody]
    /\ UNCHANGED <<lock, boundary, alive, goal, orphaned>>

DropLock(p) ==
    /\ Moves(p, "dropLock", "leave")
    /\ lock' = Nobody
    /\ UNCHANGED <<boundary, alive, goal, seen, orphaned>>

\* removeLockBoundary of one's own boundary: its token is read ...
Leave(p) ==
    /\ \/ boundary = p /\ Stays(p, "leave", "leaving")
       \/ boundary # p /\ Resume(p, "leave")
    /\ UNCHANGED <<lock, boundary, alive, seen, orphaned>>

\* ... and then it is renamed.
DropOwn(p) ==
    /\ Resume(p, "leaving")
    /\ boundary' = Nobody
    /\ UNCHANGED <<lock, alive, seen, orphaned>>

-----------------------------------------------------------------------------
Die(p) ==
    /\ p \in alive
    /\ alive' = alive \ {p}
    /\ orphaned' = (orphaned \/ boundary = p)
    /\ pc' = [pc EXCEPT ![p] = "idle"]
    /\ goal' = [goal EXCEPT ![p] = "reclaim"]
    /\ seen' = [seen EXCEPT ![p] = Nobody]
    /\ UNCHANGED <<lock, boundary>>

Step(p) ==
    \/ Begin(p) \/ Publish(p) \/ Contend(p) \/ Release(p)
    \/ EnterBoundary(p) \/ BoundaryBusy(p)
    \/ SeeDeadBoundary(p) \/ ConfirmBoundary(p) \/ DropBoundary(p)
    \/ SeeLock(p) \/ LeaveLock(p) \/ ConfirmLock(p) \/ DropLock(p)
    \/ Leave(p) \/ DropOwn(p)

LockNext == \E p \in Processes : Step(p) \/ Die(p)

LockSpec == LockInit /\ [][LockNext]_lockVars

(* A process that lives goes on and comes back for the lock; one that is   *)
(* gone does not look alive for ever.                                      *)
LockFairness ==
    \A p \in Processes :
        /\ WF_lockVars(Step(p))
        /\ SF_lockVars(SeeDeadBoundary(p))
        /\ SF_lockVars(SeeLock(p))

FairLockSpec == LockSpec /\ LockFairness

-----------------------------------------------------------------------------
(* Properties.                                                             *)

LockTypeOK ==
    /\ lock \in Processes \cup {Nobody} /\ boundary \in Processes \cup {Nobody}
    /\ alive \in SUBSET Processes
    /\ pc \in [Processes -> Labels]
    /\ goal \in [Processes -> {"reclaim", "release"}]
    /\ seen \in [Processes -> Processes \cup {Nobody}]
    /\ orphaned \in BOOLEAN

\* Between the return of acquireFileMutationLock and the call of its release.
Holders == {p \in alive : pc[p] = "hold"}

(* As long as no process has died inside a removal boundary, whoever holds *)
(* the lock still has its directory: no interleaving of contenders,        *)
(* reclaimers, a late owner and deaths elsewhere takes it away.            *)
HolderOwns == ~orphaned => \A p \in Holders : lock = p

\* Two processes never hold the lock together.
MutualExclusion == \A p, q \in Holders : p = q

(* A lock whose owner died is taken away as long as somebody wants it, and *)
(* even if its owner, or a reclaimer, died inside the boundary.            *)
DeadLockGoes ==
    \A p \in Processes : (lock = p /\ p \notin alive) ~> (lock # p \/ alive = {})
=============================================================================
