---------------------------- MODULE MCStateFiles ----------------------------
(***************************************************************************)
(* The delivery journal under any order of its calls, and the file         *)
(* mutation lock each of these calls is made under, on bounded instances.  *)
(* They share no state, so a behaviour is one of the part that was chosen  *)
(* at the start.                                                           *)
(***************************************************************************)
EXTENDS DeliveryJournalMachine, FileMutationLock

CONSTANTS p1, p2, p3

CONSTANT MaxBatches     \* bound on the batches ever admitted

Three == {p1, p2, p3}

\* Two generations of one Run and one of another, one of them seen with two
\* statuses: a batch may not hold both.
MCMembers == {[run |-> "a", generation |-> 1, status |-> "exited"],
              [run |-> "a", generation |-> 1, status |-> "done"],
              [run |-> "a", generation |-> 2, status |-> "done"],
              [run |-> "b", generation |-> 1, status |-> "failed"]}

VARIABLE part

PartInit ==
    /\ MachineInit /\ LockInit
    /\ part \in {"journal", "lock"}

JournalCalls ==
    \/ lastId < MaxBatches /\ \E M \in SUBSET Members : Admit(M)
    \/ LaterCalls

PartNext ==
    /\ UNCHANGED part
    /\ \/ part = "journal" /\ JournalCalls /\ UNCHANGED lockVars
       \/ part = "lock" /\ LockNext /\ UNCHANGED machineVars

PartSpec ==
    /\ PartInit /\ [][PartNext]_<<part, machineVars, lockVars>>
    /\ LockFairness
=============================================================================
