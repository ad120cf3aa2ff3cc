----------------------------- MODULE LockProofs -----------------------------
(***************************************************************************)
(* TLAPS proofs about locks and leases.  FileMutationLock: for any number  *)
(* of processes, and for deaths anywhere but inside a removal boundary,    *)
(* the lock excludes.  ResourceLocker: for any tasks, resources and        *)
(* owners, and any number of deaths, restarts and snapshots, no task is    *)
(* assigned twice or forgotten, and no lease leaves its owner unless a     *)
(* death or a snapshot took it away.                                       *)
(***************************************************************************)
EXTENDS FileMutationLock, ResourceLocker, SequenceTheorems, WellFoundedInduction, TLAPS

-----------------------------------------------------------------------------
(* The file lock: the inductive invariant.                                 *)

Inside == {"inside", "seenLock", "dropLock", "leave", "leaving"}

\* The boundary belongs to a live process, which alone is inside, and nobody is
\* taking it away.
BoundaryHeld ==
    /\ boundary # Nobody => boundary \in alive
    /\ \A p \in alive : pc[p] \in Inside => boundary = p
    /\ \A p \in alive : pc[p] \notin {"seenBoundary", "dropBoundary"}

\* What p saw of the lock is still so, and it may take it away.
MayDrop(p) ==
    /\ lock # Nobody
    /\ pc[p] = "seenLock" => seen[p] = lock
    /\ lock = p \/ lock \notin alive

DroppersMay == \A p \in alive : pc[p] \in {"seenLock", "dropLock"} => MayDrop(p)

HoldersOwn == \A p \in alive : pc[p] = "hold" => lock = p

LockIInv ==
    /\ LockTypeOK
    /\ ~orphaned => BoundaryHeld /\ DroppersMay /\ HoldersOwn

-----------------------------------------------------------------------------
LEMMA LockInitially == LockInit => LockIInv
  BY LockAssumption DEF LockInit, LockIInv, LockTypeOK, Labels, BoundaryHeld, Inside,
     DroppersMay, HoldersOwn

LEMMA LockTyped ==
    ASSUME LockTypeOK, NEW p \in Processes, Step(p) \/ Die(p)
    PROVE  LockTypeOK'
  <1> USE DEF LockTypeOK, Labels
  <1>1. CASE Begin(p) \/ Publish(p) \/ Contend(p) \/ Release(p) \/ EnterBoundary(p)
    BY <1>1 DEF Begin, Publish, Contend, Release, EnterBoundary, Moves
  <1>2. CASE BoundaryBusy(p) \/ ConfirmBoundary(p) \/ DropBoundary(p)
    BY <1>2 DEF BoundaryBusy, ConfirmBoundary, DropBoundary, Refused, Stays, Returns, Moves
  <1>3. CASE SeeDeadBoundary(p) \/ SeeLock(p) \/ LeaveLock(p)
    BY <1>3 DEF SeeDeadBoundary, SeeLock, LeaveLock, Moves
  <1>4. CASE ConfirmLock(p) \/ DropLock(p)
    BY <1>4 DEF ConfirmLock, DropLock, Moves
  <1>5. CASE Leave(p) \/ DropOwn(p)
    BY <1>5 DEF Leave, DropOwn, Resume, Stays, Returns, Moves
  <1>6. CASE Die(p)
    BY <1>6 DEF Die
  <1> QED
    BY <1>1, <1>2, <1>3, <1>4, <1>5, <1>6 DEF Step

\* Steps that leave both directories, the processes and what they saw alone.
LEMMA LockWalks ==
    ASSUME LockIInv, ~orphaned, NEW p \in Processes,
           Begin(p) \/ Contend(p) \/ Release(p) \/ BoundaryBusy(p) \/ LeaveLock(p) \/ Leave(p)
    PROVE  BoundaryHeld' /\ DroppersMay' /\ HoldersOwn'
  <1> USE DEF LockIInv, LockTypeOK, Inside, BoundaryHeld, DroppersMay, MayDrop, HoldersOwn
  <1>1. CASE Begin(p) \/ Contend(p) \/ Release(p)
    BY <1>1 DEF Begin, Contend, Release, Moves
  <1>2. CASE BoundaryBusy(p)
    BY <1>2 DEF BoundaryBusy, Refused, Stays, Returns, Moves
  <1>3. CASE LeaveLock(p)
    BY <1>3 DEF LeaveLock, Moves
  <1>4. CASE Leave(p)
    BY <1>4 DEF Leave, Resume, Stays, Returns, Moves
  <1> QED
    BY <1>1, <1>2, <1>3, <1>4

LEMMA LockPublished ==
    ASSUME LockIInv, ~orphaned, NEW p \in Processes, Publish(p)
    PROVE  BoundaryHeld' /\ DroppersMay' /\ HoldersOwn'
  BY LockAssumption DEF LockIInv, LockTypeOK, Inside, BoundaryHeld, DroppersMay, MayDrop,
     HoldersOwn, Publish, Moves

LEMMA BoundarySteps ==
    ASSUME LockIInv, ~orphaned, NEW p \in Processes,
           \/ EnterBoundary(p) \/ SeeDeadBoundary(p) \/ ConfirmBoundary(p)
           \/ DropBoundary(p) \/ DropOwn(p)
    PROVE  BoundaryHeld' /\ DroppersMay' /\ HoldersOwn'
  <1> USE DEF LockIInv, LockTypeOK, Inside, BoundaryHeld, DroppersMay, MayDrop, HoldersOwn
  <1>1. CASE EnterBoundary(p)
    BY <1>1, LockAssumption DEF EnterBoundary, Moves
  \* No dead process owns the boundary, so nobody sees one or acts on it.
  <1>2. CASE SeeDeadBoundary(p) \/ ConfirmBoundary(p) \/ DropBoundary(p)
    <2>1. boundary \notin Processes \ alive
      BY LockAssumption
    <2>2. ~SeeDeadBoundary(p)
      BY <2>1 DEF SeeDeadBoundary
    <2>3. pc[p] \notin {"seenBoundary", "dropBoundary"} \/ p \notin alive
      OBVIOUS
    <2>4. ~ConfirmBoundary(p) /\ ~DropBoundary(p)
      BY <2>3 DEF ConfirmBoundary, DropBoundary, Refused, Stays, Returns, Moves
    <2> QED
      BY <1>2, <2>2, <2>4
  <1>3. CASE DropOwn(p)
    BY <1>3, LockAssumption DEF DropOwn, Resume, Stays, Returns, Moves
  <1> QED
    BY <1>1, <1>2, <1>3

LEMMA RemovalSteps ==
    ASSUME LockIInv, ~orphaned, NEW p \in Processes,
           SeeLock(p) \/ ConfirmLock(p) \/ DropLock(p)
    PROVE  BoundaryHeld' /\ DroppersMay' /\ HoldersOwn'
  <1> USE DEF LockIInv, LockTypeOK, Inside, BoundaryHeld, DroppersMay, MayDrop, HoldersOwn
  <1>1. CASE SeeLock(p)
    BY <1>1, LockAssumption DEF SeeLock, Moves
  <1>2. CASE ConfirmLock(p)
    BY <1>2 DEF ConfirmLock, Moves
  <1>3. CASE DropLock(p)
    BY <1>3 DEF DropLock, Moves
  <1> QED
    BY <1>1, <1>2, <1>3

LEMMA Deaths ==
    ASSUME LockIInv, ~orphaned', NEW p \in Processes, Die(p)
    PROVE  BoundaryHeld' /\ DroppersMay' /\ HoldersOwn'
  BY DEF LockIInv, LockTypeOK, Inside, BoundaryHeld, DroppersMay, MayDrop, HoldersOwn, Die

LEMMA LockStep == LockIInv /\ [LockNext]_lockVars => LockIInv'
  <1> SUFFICES ASSUME LockIInv, [LockNext]_lockVars PROVE LockIInv'
    OBVIOUS
  <1>1. CASE UNCHANGED lockVars
    BY <1>1 DEF lockVars, LockIInv, LockTypeOK, BoundaryHeld, DroppersMay, MayDrop, HoldersOwn
  <1>2. ASSUME NEW p \in Processes, Step(p) \/ Die(p) PROVE LockIInv'
    <2>1. LockTypeOK'
      BY <1>2, LockTyped DEF LockIInv
    <2>2. ASSUME ~orphaned' PROVE ~orphaned
      BY <1>2, <2>2 DEF Step, Die, Begin, Publish, Contend, Release, EnterBoundary,
         BoundaryBusy, SeeDeadBoundary, ConfirmBoundary, DropBoundary, SeeLock, LeaveLock,
         ConfirmLock, DropLock, Leave, DropOwn, LockIInv, LockTypeOK
    <2>3. ASSUME ~orphaned' PROVE BoundaryHeld' /\ DroppersMay' /\ HoldersOwn'
      BY <1>2, <2>2, <2>3, LockWalks, LockPublished, BoundarySteps, RemovalSteps, Deaths
         DEF Step
    <2> QED
      BY <2>1, <2>3 DEF LockIInv
  <1> QED
    BY <1>1, <1>2 DEF LockNext

LEMMA LockInvariant == LockSpec => []LockIInv
  BY LockInitially, LockStep, PTL DEF LockSpec

(* The two directories always name a process or nobody, and every process  *)
(* is at a step of acquireFileMutationLock or of its release               *)
(* (lib/file-state.ts).                                                    *)
THEOREM LockTypeCorrect == LockSpec => []LockTypeOK
<1>1. LockIInv => LockTypeOK
  BY DEF LockIInv
<1> QED
  BY <1>1, LockInvariant, PTL

(* Whoever holds the lock owns its directory, whatever contenders,         *)
(* reclaimers, late owners and deaths outside a removal boundary do        *)
(* (lib/file-state.ts tryReclaimMutationLock).                             *)
THEOREM HolderKeepsLock == LockSpec => []HolderOwns
<1>1. LockIInv => HolderOwns
  BY DEF LockIInv, HoldersOwn, HolderOwns, Holders
<1> QED
  BY <1>1, LockInvariant, PTL

(* So two processes never hold it together before a process has died       *)
(* inside a removal boundary (lib/file-state.ts acquireFileMutationLock).  *)
THEOREM LockExcludes == LockSpec => [](~orphaned => MutualExclusion)
<1>1. LockIInv => (~orphaned => MutualExclusion)
  BY DEF LockIInv, HoldersOwn, MutualExclusion, Holders
<1> QED
  BY <1>1, LockInvariant, PTL

-----------------------------------------------------------------------------
(* Sequences.                                                              *)

\* nextTask: a set of positions has a first one.
LEMMA MinInSet ==
    ASSUME NEW S, S \subseteq Nat, S # {}
    PROVE  Min(S) \in S
  <1>1. \E x \in S : \A y \in S : ~ (<<y, x>> \in OpToRel(<, Nat))
    BY NatLessThanWellFounded, WFMin
  <1>2. PICK x \in S : \A y \in S : ~ (<<y, x>> \in OpToRel(<, Nat))
    BY <1>1
  <1>3. \A y \in S : x <= y
    <2>1. ASSUME NEW y \in S, y < x PROVE FALSE
      <3>1. <<y, x>> \in OpToRel(<, Nat)
        <4>1. <<y, x>> \in Nat \X Nat
          OBVIOUS
        <4> QED
          BY <4>1, <2>1 DEF OpToRel
      <3> QED
        BY <3>1, <1>2
    <2> QED
      BY <2>1
  <1> QED
    BY <1>3 DEF Min

\* The queue without one task.
LEMMA RemoveAtProperties ==
    ASSUME NEW T, NEW s \in Seq(T), NEW i \in 1..Len(s), IsInjective(s)
    PROVE  /\ RemoveAt(s, i) \in Seq(T) /\ IsInjective(RemoveAt(s, i))
           /\ Range(RemoveAt(s, i)) = Range(s) \ {s[i]}
  <1> DEFINE r == RemoveAt(s, i)
  <1>1. /\ r \in Seq(T) /\ Len(r) = Len(s) - 1
        /\ \A j \in 1..Len(r) : r[j] = IF j < i THEN s[j] ELSE s[j + 1]
    <2> DEFINE before == SubSeq(s, 1, i - 1)
               after == SubSeq(s, i + 1, Len(s))
    <2>1. before \in Seq(T) /\ Len(before) = i - 1 /\ \A j \in 1..(i - 1) : before[j] = s[j]
      OBVIOUS
    <2>2. /\ after \in Seq(T) /\ Len(after) = Len(s) - i
          /\ \A j \in 1..(Len(s) - i) : after[j] = s[i + j]
      OBVIOUS
    <2>3. r = before \o after
      BY DEF RemoveAt
    <2> HIDE DEF before, after, r
    <2>4. /\ r \in Seq(T) /\ Len(r) = Len(s) - 1
          /\ \A j \in 1..Len(r) : r[j] = IF j <= i - 1 THEN before[j] ELSE after[j - (i - 1)]
      <3>1. /\ r \in Seq(T) /\ Len(r) = Len(before) + Len(after)
            /\ \A j \in 1..(Len(before) + Len(after)) :
                  r[j] = IF j <= Len(before) THEN before[j] ELSE after[j - Len(before)]
        BY <2>1, <2>2, <2>3, ConcatProperties, Zenon
      <3>2. Len(s) \in Nat /\ (i - 1) + (Len(s) - i) = Len(s) - 1
        BY LenProperties
      <3> QED
        BY <2>1, <2>2, <3>1, <3>2
    <2>5. ASSUME NEW j \in 1..Len(r) PROVE r[j] = IF j < i THEN s[j] ELSE s[j + 1]
      <3>1. CASE j < i
        BY <3>1, <2>1, <2>4
      <3>2. CASE j >= i
        <4>1. j - (i - 1) \in 1..(Len(s) - i) /\ i + (j - (i - 1)) = j + 1
          BY <3>2, <2>4
        <4> QED
          BY <3>2, <4>1, <2>2, <2>4
      <3>3. j < i \/ j >= i
        BY <2>4, LenProperties
      <3> QED
        BY <3>1, <3>2, <3>3
    <2> QED
      BY <2>4, <2>5
  <1> HIDE DEF r
  <1>2. DOMAIN r = 1..(Len(s) - 1) /\ DOMAIN s = 1..Len(s)
    BY <1>1
  <1>3. IsInjective(r)
    <2> SUFFICES ASSUME NEW a \in 1..Len(r), NEW b \in 1..Len(r), r[a] = r[b]
                 PROVE  a = b
      BY <1>1, <1>2 DEF IsInjective
    <2> DEFINE at(j) == IF j < i THEN j ELSE j + 1
    <2>1. at(a) \in DOMAIN s /\ at(b) \in DOMAIN s /\ s[at(a)] = s[at(b)]
      BY <1>1, <1>2
    <2>2. at(a) = at(b)
      BY <2>1 DEF IsInjective
    <2> QED
      BY <2>2, <1>1
  <1>4. \A j \in DOMAIN r : r[j] \in Range(s) \ {s[i]}
    BY <1>1, <1>2, SMTT(20) DEF IsInjective, Range
  <1>5. ASSUME NEW x \in Range(s), x # s[i] PROVE x \in Range(r)
    <2>1. PICK j \in 1..Len(s) : s[j] = x /\ j # i
      BY <1>5, <1>2 DEF Range
    <2>2. CASE j < i
      BY <2>1, <2>2, <1>1, <1>2 DEF Range
    <2>3. CASE j > i
      <3>1. j - 1 \in DOMAIN r /\ r[j - 1] = s[j]
        BY <2>3, <1>1, <1>2
      <3> QED
        BY <3>1, <2>1 DEF Range
    <2> QED
      BY <2>1, <2>2, <2>3
  <1>6. Range(r) = Range(s) \ {s[i]}
    <2>1. Range(r) \subseteq Range(s) \ {s[i]}
      BY <1>4 DEF Range
    <2> QED
      BY <2>1, <1>5
  <1> QED
    BY <1>1, <1>3, <1>6 DEF r

\* The queue with one task more.
LEMMA AppendedProperties ==
    ASSUME NEW T, NEW s \in Seq(T), NEW x \in T, x \notin Range(s), IsInjective(s)
    PROVE  /\ Append(s, x) \in Seq(T) /\ IsInjective(Append(s, x))
           /\ Range(Append(s, x)) = Range(s) \cup {x}
  <1> DEFINE r == Append(s, x)
  <1>1. /\ r \in Seq(T) /\ Len(r) = Len(s) + 1 /\ Len(s) \in Nat
        /\ DOMAIN r = 1..(Len(s) + 1) /\ DOMAIN s = 1..Len(s)
        /\ r[Len(s) + 1] = x /\ \A j \in 1..Len(s) : r[j] = s[j]
    OBVIOUS
  <1> HIDE DEF r
  <1>2. \A j \in 1..Len(s) : s[j] \in Range(s) /\ s[j] # x
    BY <1>1 DEF Range
  <1>3. IsInjective(r)
    BY <1>1, <1>2 DEF IsInjective
  <1>4. Range(r) = Range(s) \cup {x}
    BY <1>1 DEF Range
  <1> QED
    BY <1>1, <1>3, <1>4 DEF r
-----------------------------------------------------------------------------
(* The inductive invariant.                                                *)

Queues(e) == e.at = "queue"
Assigns(e) == e.at = "trace" /\ e.what = "assigned"

\* A queue that a handler still has to write: it leaves out no task but the one
\* that the handler will assign, and takes up none that is gone.
Writable(q) ==
    /\ q \in Seq(Tasks) /\ IsInjective(q)
    /\ Range(q) \cap (assigned \cup lost \cup InHand) = {}
    /\ Range(queue) \subseteq Range(q) \cup InHand

\* A handler writes the queue once at most, and before it assigns a task.
InOrder ==
    \A i, j \in DOMAIN todo :
        /\ Queues(todo[i]) /\ Queues(todo[j]) => i = j
        /\ Assigns(todo[i]) /\ Assigns(todo[j]) => i = j
        /\ Queues(todo[i]) /\ Assigns(todo[j]) => i < j
        /\ todo[i].at = "exit" => i = Len(todo)

TasksSorted ==
    /\ queue \in Seq(Tasks) /\ IsInjective(queue)
    /\ enqueued = Range(queue) \cup InHand \cup assigned \cup lost
    /\ assigned \cap lost = {}
    /\ (Range(queue) \cup InHand) \cap (assigned \cup lost) = {}
    /\ \A i \in DOMAIN todo : Queues(todo[i]) => Writable(todo[i].to)
    /\ (\A i \in DOMAIN todo : ~Queues(todo[i])) => Range(queue) \cap InHand = {}

LockerIInv ==
    /\ \E E : todo \in Seq(E)
    /\ ~up => todo = <<>>
    /\ InOrder
    /\ \A i \in DOMAIN todo : Assigns(todo[i]) => todo[i].task \in Tasks
    /\ TasksSorted

LEMMA LockerInitially == LockerInit => LockerIInv
  <1> SUFFICES ASSUME LockerInit PROVE LockerIInv
    OBVIOUS
  <1>1. todo = <<>> /\ queue = <<>> /\ DOMAIN todo = {} /\ DOMAIN queue = {}
    BY DEF LockerInit
  <1>2. todo \in Seq({}) /\ queue \in Seq(Tasks)
    BY <1>1
  <1>3. InHand = {} /\ Range(queue) = {}
    BY <1>1 DEF InHand, Range
  <1> QED
    BY <1>1, <1>2, <1>3 DEF LockerInit, LockerIInv, InOrder, TasksSorted, IsInjective

\* What the invariant says of the tasks is what the property says.
LEMMA SortedIsAccounted == TasksSorted => TasksAccounted
  <1> SUFFICES ASSUME TasksSorted PROVE TasksAccounted
    OBVIOUS
  <1>1. Range(queue) \subseteq enqueued /\ IsInjective(queue)
    BY DEF TasksSorted
  <1>2. ASSUME NEW t \in enqueued
        PROVE  \E here \in DOMAIN Places :
                   \A place \in DOMAIN Places : t \in Places[place] <=> place = here
    <2>1. /\ DOMAIN Places = {"waiting", "inHand", "assigned", "lost"}
          /\ Places["waiting"] = Range(queue) \ InHand /\ Places["inHand"] = InHand
          /\ Places["assigned"] = assigned /\ Places["lost"] = lost
      BY DEF Places
    <2>2. CASE t \in InHand
      BY <2>1, <2>2 DEF TasksSorted
    <2>3. CASE t \in Range(queue) \ InHand
      BY <2>1, <2>3 DEF TasksSorted
    <2>4. CASE t \in assigned
      BY <2>1, <2>4 DEF TasksSorted
    <2>5. CASE t \in lost
      BY <2>1, <2>5 DEF TasksSorted
    <2> QED
      BY <2>2, <2>3, <2>4, <2>5 DEF TasksSorted
  <1> QED
    BY <1>1, <1>2 DEF TasksAccounted

-----------------------------------------------------------------------------
(* What a handler decides.                                                 *)

LEMMA NothingInHand == todo = <<>> => InHand = {} /\ DOMAIN todo = {}
  BY DEF InHand

LEMMA KindsOfEffects ==
    /\ \A q : LET e == WriteQueue(q) IN e.at = "queue" /\ e.to = q
    /\ \A l : WriteLocks(l).at = "locks"
    /\ Remark.at = "trace" /\ Remark.what = "remark"
    /\ \A what, rs, lease, t :
          LET e == Announce(what, rs, lease, t)
          IN  e.at = "trace" /\ e.what = what /\ e.task = t
    /\ [at |-> "exit"].at = "exit"
  BY DEF WriteQueue, WriteLocks, Remark, Announce

LEMMA TwoEffects ==
    ASSUME NEW a, NEW b, todo' = <<a, b>>
    PROVE  /\ \E E : todo' \in Seq(E)
           /\ DOMAIN todo' = 1..2 /\ Len(todo') = 2 /\ todo'[1] = a /\ todo'[2] = b
  <1>1. todo' \in Seq({a, b})
    OBVIOUS
  <1>2. DOMAIN todo' = 1..2 /\ Len(todo') = 2 /\ todo'[1] = a /\ todo'[2] = b
    OBVIOUS
  <1> QED
    BY <1>1, <1>2, Zenon

LEMMA ThreeEffects ==
    ASSUME NEW a, NEW b, NEW c, todo' = <<a, b, c>>
    PROVE  /\ \E E : todo' \in Seq(E)
           /\ DOMAIN todo' = 1..3 /\ Len(todo') = 3
           /\ todo'[1] = a /\ todo'[2] = b /\ todo'[3] = c
  <1>1. todo' \in Seq({a, b, c})
    OBVIOUS
  <1>2. /\ DOMAIN todo' = 1..3 /\ Len(todo') = 3
        /\ todo'[1] = a /\ todo'[2] = b /\ todo'[3] = c
    OBVIOUS
  <1> QED
    BY <1>1, <1>2, Zenon

\* A handler that takes a new list of effects, which write the queue q if any.
LEMMA PlanKeeps ==
    ASSUME LockerIInv, todo = <<>>, up',
           UNCHANGED <<queue, assigned, enqueued, lost>>,
           \E E : todo' \in Seq(E), InOrder',
           \A i \in DOMAIN todo' : Assigns(todo'[i]) => todo'[i].task \in Tasks,
           NEW q \in Seq(Tasks), IsInjective(q),
           Range(q) \cap (assigned \cup lost \cup InHand') = {},
           Range(queue) \subseteq Range(q) \cup InHand', InHand' \subseteq Range(queue),
           \A i \in DOMAIN todo' : Queues(todo'[i]) => todo'[i].to = q,
           InHand' # {} => \E i \in DOMAIN todo' : Queues(todo'[i])
    PROVE  LockerIInv'
  <1>1. /\ enqueued = Range(queue) \cup assigned \cup lost /\ assigned \cap lost = {}
        /\ Range(queue) \cap (assigned \cup lost) = {}
        /\ queue \in Seq(Tasks) /\ IsInjective(queue)
    BY NothingInHand DEF LockerIInv, TasksSorted
  <1>2. Range(queue)' = Range(queue)
    OBVIOUS
  <1>3. \A i \in DOMAIN todo' : Queues(todo[i])' => Writable(todo[i].to)'
    BY <1>2 DEF Writable, Queues
  <1>4. (\A i \in DOMAIN todo : ~Queues(todo[i]))' => Range(queue)' \cap InHand' = {}
    BY DEF Queues
  <1>5. TasksSorted'
    BY <1>1, <1>2, <1>3, <1>4 DEF TasksSorted
  <1>6. \A i \in DOMAIN todo' : Assigns(todo[i])' => todo'[i].task \in Tasks
    BY DEF Assigns
  <1> QED
    BY <1>5, <1>6 DEF LockerIInv

\* A list that assigns nothing and leaves the queue as it is.
LEMMA IdlePlanKeeps ==
    ASSUME LockerIInv, todo = <<>>, up',
           UNCHANGED <<queue, assigned, enqueued, lost>>,
           \E E : todo' \in Seq(E), InOrder',
           \A i \in DOMAIN todo' :
               ~Assigns(todo'[i]) /\ (Queues(todo'[i]) => todo'[i].to = queue)
    PROVE  LockerIInv'
  <1>1. InHand' = {}
    BY DEF InHand, Assigns
  <1>2. queue \in Seq(Tasks) /\ IsInjective(queue) /\ Range(queue) \cap (assigned \cup lost) = {}
    BY DEF LockerIInv, TasksSorted
  <1> QED
    BY <1>1, <1>2, PlanKeeps

\* The leases are read and written in all of these.
IdleHandler(l) ==
    \/ \E r \in Resources, o \in Owners : Decide(Acquire(l, r, o)) \/ Decide(Renew(l, r, o))
    \/ \E r \in Resources : Decide(ReleaseLease(l, r))
    \/ Decide(SettleTask(l)) \/ Decide(StopLocker(l))
    \/ \E o \in Owners : FreeTasks(l) = {} /\ Decide(ClaimTask(l, o))

LEMMA IdleHandlersKeep ==
    ASSUME LockerIInv, NEW l, IdleHandler(l)
    PROVE  LockerIInv'
  <1>1. todo = <<>> /\ up /\ UNCHANGED <<queue, up, assigned, enqueued, lost>>
    BY DEF IdleHandler, Decide
  <1> DEFINE Idle(e) == ~Assigns(e) /\ (Queues(e) => e.to = queue)
  <1>2. \/ \E a, b : /\ todo' = <<a, b>>
                     /\ Idle(a) /\ Idle(b) /\ ~Queues(a) /\ ~Queues(b) /\ a.at # "exit"
        \/ \E a, b, c : /\ todo' = <<a, b, c>>
                        /\ Idle(a) /\ Idle(b) /\ Idle(c)
                        /\ a.at # "exit" /\ b.at # "exit" /\ c.at # "exit"
                        /\ ~Queues(b) /\ (Queues(a) => ~Queues(c))
    <2> USE KindsOfEffects DEF Assigns, Queues, Decide
    <2>1. CASE \E r \in Resources, o \in Owners : Decide(Acquire(l, r, o))
      BY <2>1 DEF Acquire
    <2>2. CASE \E r \in Resources, o \in Owners : Decide(Renew(l, r, o))
      BY <2>2 DEF Renew
    <2>3. CASE \E r \in Resources : Decide(ReleaseLease(l, r))
      BY <2>3 DEF ReleaseLease
    <2>4. CASE Decide(SettleTask(l))
      BY <2>4 DEF SettleTask
    <2>5. CASE Decide(StopLocker(l))
      BY <2>5 DEF StopLocker
    <2>6. CASE \E o \in Owners : FreeTasks(l) = {} /\ Decide(ClaimTask(l, o))
      BY <2>6 DEF ClaimTask
    <2> QED
      BY <2>1, <2>2, <2>3, <2>4, <2>5, <2>6 DEF IdleHandler
  <1>3. /\ \E E : todo' \in Seq(E)
        /\ InOrder'
        /\ \A i \in DOMAIN todo' : Idle(todo'[i])
    <2>1. CASE \E a, b : /\ todo' = <<a, b>>
                         /\ Idle(a) /\ Idle(b) /\ ~Queues(a) /\ ~Queues(b) /\ a.at # "exit"
      <3>1. PICK a, b : /\ todo' = <<a, b>>
                        /\ Idle(a) /\ Idle(b) /\ ~Queues(a) /\ ~Queues(b) /\ a.at # "exit"
        BY <2>1
      <3> QED
        BY <3>1, TwoEffects DEF InOrder, Queues, Assigns
    <2>2. CASE \E a, b, c : /\ todo' = <<a, b, c>>
                            /\ Idle(a) /\ Idle(b) /\ Idle(c)
                            /\ a.at # "exit" /\ b.at # "exit" /\ c.at # "exit"
                            /\ ~Queues(b) /\ (Queues(a) => ~Queues(c))
      <3>1. PICK a, b, c : /\ todo' = <<a, b, c>>
                           /\ Idle(a) /\ Idle(b) /\ Idle(c)
                           /\ a.at # "exit" /\ b.at # "exit" /\ c.at # "exit"
                           /\ ~Queues(b) /\ (Queues(a) => ~Queues(c))
        BY <2>2
      <3>2. /\ \E E : todo' \in Seq(E)
            /\ DOMAIN todo' = 1..3 /\ Len(todo') = 3
            /\ todo'[1] = a /\ todo'[2] = b /\ todo'[3] = c
        BY <3>1, ThreeEffects
      <3>3. \A i \in 1..3 : Idle(todo'[i]) /\ todo'[i].at # "exit"
        <4>1. \A i \in 1..3 : i = 1 \/ i = 2 \/ i = 3
          OBVIOUS
        <4> HIDE DEF Idle
        <4> QED
          BY <3>1, <3>2, <4>1
      <3>4. \A i, j \in 1..3 : Queues(todo'[i]) /\ Queues(todo'[j]) => i = j
        BY <3>1, <3>2
      <3>5. InOrder'
        BY <3>2, <3>3, <3>4 DEF InOrder, Queues, Assigns
      <3> QED
        BY <3>2, <3>3, <3>5
    <2> QED
      BY <1>2, <2>1, <2>2
  <1> QED
    BY <1>1, <1>3, IdlePlanKeeps

LEMMA EnqueueKeeps ==
    ASSUME LockerIInv, NEW l, NEW t \in Tasks \ (enqueued \cup Range(queue)),
           Decide(Enqueue(l, t))
    PROVE  LockerIInv'
  <1> DEFINE q == Append(queue, t)
  <1>1. /\ todo = <<>> /\ up /\ UNCHANGED <<queue, up, assigned, enqueued, lost>>
        /\ todo' = <<WriteQueue(q), WriteLocks(l), Remark>>
    BY DEF Decide, Enqueue
  <1>2. /\ queue \in Seq(Tasks) /\ IsInjective(queue)
        /\ Range(queue) \cap (assigned \cup lost) = {}
        /\ assigned \cup lost \subseteq enqueued
    BY DEF LockerIInv, TasksSorted
  <1>3. q \in Seq(Tasks) /\ IsInjective(q) /\ Range(q) = Range(queue) \cup {t}
    BY <1>2, AppendedProperties
  <1> HIDE DEF q
  <1>4. /\ \E E : todo' \in Seq(E)
        /\ DOMAIN todo' = 1..3 /\ Len(todo') = 3
        /\ todo'[1] = WriteQueue(q) /\ todo'[2] = WriteLocks(l) /\ todo'[3] = Remark
    BY <1>1, ThreeEffects
  <1>5. /\ \A i \in 1..3 : ~Assigns(todo'[i]) /\ todo'[i].at # "exit"
        /\ \A i \in 1..3 : Queues(todo'[i]) => i = 1 /\ todo'[i].to = q
    BY <1>4, KindsOfEffects DEF Assigns, Queues
  <1>6. InOrder'
    BY <1>4, <1>5 DEF InOrder, Assigns, Queues
  <1>7. InHand' = {}
    BY <1>4, <1>5 DEF InHand, Assigns
  <1> QED
    BY <1>1, <1>2, <1>3, <1>4, <1>5, <1>6, <1>7, PlanKeeps

LEMMA ClaimKeeps ==
    ASSUME LockerIInv, NEW l, NEW o \in Owners, FreeTasks(l) # {}, Decide(ClaimTask(l, o))
    PROVE  LockerIInv'
  <1> DEFINE i == Min(FreeTasks(l))
             t == queue[i]
             q == RemoveAt(queue, i)
  <1>1. /\ queue \in Seq(Tasks) /\ IsInjective(queue)
        /\ Range(queue) \cap (assigned \cup lost) = {}
    BY DEF LockerIInv, TasksSorted
  <1>2. i \in 1..Len(queue)
    <2>1. FreeTasks(l) \subseteq 1..Len(queue)
      BY <1>1 DEF FreeTasks
    <2>2. i \in FreeTasks(l)
      BY <2>1, MinInSet
    <2> QED
      BY <2>1, <2>2
  <1>3. t \in Tasks /\ t \in Range(queue)
    BY <1>1, <1>2 DEF Range
  <1>4. q \in Seq(Tasks) /\ IsInjective(q) /\ Range(q) = Range(queue) \ {t}
    BY <1>1, <1>2, RemoveAtProperties
  <1>5. PICK m, e :
            /\ todo' = <<WriteQueue(q), WriteLocks(m), e>>
            /\ e.at = "trace" /\ e.what = "assigned" /\ e.task = t
    <2> DEFINE m == [r \in Resources |-> IF r \in Needs[t] THEN Lease(o) ELSE l[r]]
               e == Announce("assigned", Needs[t], Lease(o), t)
    <2>1. todo' = <<WriteQueue(q), WriteLocks(m), e>>
      BY DEF Decide, ClaimTask
    <2>2. e.at = "trace" /\ e.what = "assigned" /\ e.task = t
      BY KindsOfEffects
    <2> HIDE DEF m, e
    <2> QED
      BY <2>1, <2>2
  <1>6. todo = <<>> /\ up /\ UNCHANGED <<queue, up, assigned, enqueued, lost>>
    BY DEF Decide
  <1> HIDE DEF i, t, q
  <1>7. /\ \E E : todo' \in Seq(E)
        /\ DOMAIN todo' = 1..3 /\ Len(todo') = 3
        /\ todo'[1] = WriteQueue(q) /\ todo'[2] = WriteLocks(m) /\ todo'[3] = e
    BY <1>5, ThreeEffects
  <1>8. /\ \A j \in 1..3 : todo'[j].at # "exit"
        /\ \A j \in 1..3 : Assigns(todo'[j]) <=> j = 3
        /\ \A j \in 1..3 : Queues(todo'[j]) <=> j = 1
        /\ todo'[1].to = q
    BY <1>5, <1>7, KindsOfEffects DEF Assigns, Queues
  <1>9. InOrder'
    BY <1>7, <1>8 DEF InOrder, Assigns, Queues
  <1>10. InHand' = {t}
    BY <1>3, <1>5, <1>7, <1>8 DEF InHand, Assigns
  <1>11. /\ Range(q) \cap (assigned \cup lost \cup InHand') = {}
         /\ Range(queue) \subseteq Range(q) \cup InHand' /\ InHand' \subseteq Range(queue)
    BY <1>1, <1>3, <1>4, <1>10
  <1>12. \A j \in DOMAIN todo' : Queues(todo'[j]) => todo'[j].to = q
    BY <1>7, <1>8
  <1>13. \E j \in DOMAIN todo' : Queues(todo'[j])
    <2>1. 1 \in DOMAIN todo' /\ Queues(todo'[1])
      BY <1>7, <1>8
    <2> QED
      BY <2>1, Zenon
  <1>14. \A j \in DOMAIN todo' : Assigns(todo'[j]) => todo'[j].task \in Tasks
    BY <1>3, <1>5, <1>7, <1>8
  <1> QED
    BY <1>4, <1>6, <1>7, <1>9, <1>11, <1>12, <1>13, <1>14, PlanKeeps

\* Whatever the Control asks for.
LEMMA HandleKeeps == LockerIInv /\ Handle => LockerIInv'
  <1> SUFFICES ASSUME LockerIInv, Handle PROVE LockerIInv'
    OBVIOUS
  <1> DEFINE l == Unexpired(locks)
  <1>1. CASE IdleHandler(l)
    BY <1>1, IdleHandlersKeep
  <1>2. CASE \E o \in Owners : FreeTasks(l) # {} /\ Decide(ClaimTask(l, o))
    BY <1>2, ClaimKeeps
  <1>3. CASE \E t \in Tasks \ (enqueued \cup Range(queue)) : Decide(Enqueue(l, t))
    BY <1>3, EnqueueKeeps
  <1> QED
    BY <1>1, <1>2, <1>3 DEF Handle, IdleHandler

-----------------------------------------------------------------------------
(* The effects, and what may happen to the service.                        *)

LEMMA FirstAndRest ==
    ASSUME NEW E, todo \in Seq(E), todo # <<>>, todo' = Tail(todo)
    PROVE  /\ todo' \in Seq(E) /\ Len(todo) \in Nat /\ Len(todo') = Len(todo) - 1
           /\ DOMAIN todo = 1..Len(todo) /\ DOMAIN todo' = 1..(Len(todo) - 1)
           /\ 1 \in DOMAIN todo /\ Head(todo) = todo[1]
           /\ \A i \in DOMAIN todo' : i + 1 \in DOMAIN todo /\ todo'[i] = todo[i + 1]
           /\ \A j \in DOMAIN todo : j = 1 \/ (j - 1 \in DOMAIN todo' /\ todo'[j - 1] = todo[j])
  <1>1. /\ todo' \in Seq(E) /\ Len(todo) \in Nat /\ Len(todo) > 0
        /\ Len(todo') = Len(todo) - 1 /\ Head(todo) = todo[1]
        /\ DOMAIN todo = 1..Len(todo) /\ DOMAIN todo' = 1..(Len(todo) - 1)
        /\ \A i \in 1..(Len(todo) - 1) : todo'[i] = todo[i + 1]
    OBVIOUS
  <1>2. \A j \in 2..Len(todo) : todo'[j - 1] = todo[j]
    BY <1>1
  <1> QED
    BY <1>1, <1>2

LEMMA EffectKeeps == LockerIInv /\ Effect => LockerIInv'
  <1> SUFFICES ASSUME LockerIInv, Effect PROVE LockerIInv'
    OBVIOUS
  <1> DEFINE e == todo[1]
  <1>1. PICK E : todo \in Seq(E)
    BY DEF LockerIInv
  <1>2. todo # <<>> /\ todo' = Tail(todo)
    BY DEF Effect
  <1>3. /\ todo' \in Seq(E) /\ Len(todo) \in Nat /\ Len(todo') = Len(todo) - 1
        /\ DOMAIN todo = 1..Len(todo) /\ DOMAIN todo' = 1..(Len(todo) - 1)
        /\ 1 \in DOMAIN todo /\ Head(todo) = todo[1]
        /\ \A i \in DOMAIN todo' : i + 1 \in DOMAIN todo /\ todo'[i] = todo[i + 1]
        /\ \A j \in DOMAIN todo : j = 1 \/ (j - 1 \in DOMAIN todo' /\ todo'[j - 1] = todo[j])
    BY <1>1, <1>2, FirstAndRest
  <1>4. /\ queue' = IF Queues(e) THEN e.to ELSE queue
        /\ up' = (e.at # "exit")
        /\ enqueued' = IF Queues(e) THEN enqueued \cup Range(e.to) ELSE enqueued
        /\ assigned' = IF Assigns(e) THEN assigned \cup {e.task} ELSE assigned
        /\ lost' = lost
    BY <1>3 DEF Effect, Queues, Assigns
  <1>5. InOrder /\ TasksSorted
    BY DEF LockerIInv
  <1>6. \A i \in DOMAIN todo : Assigns(todo[i]) => todo[i].task \in Tasks
    BY DEF LockerIInv
  <1>7. ~up' => todo' = <<>>
    <2>1. ASSUME e.at = "exit" PROVE todo' = <<>>
      <3>1. Len(todo) = 1
        BY <2>1, <1>3, <1>5 DEF InOrder
      <3> QED
        BY <3>1, <1>3
    <2> QED
      BY <2>1, <1>4
  <1>8. InOrder'
    <2> SUFFICES ASSUME NEW i \in DOMAIN todo', NEW j \in DOMAIN todo'
                 PROVE  /\ Queues(todo'[i]) /\ Queues(todo'[j]) => i = j
                        /\ Assigns(todo'[i]) /\ Assigns(todo'[j]) => i = j
                        /\ Queues(todo'[i]) /\ Assigns(todo'[j]) => i < j
                        /\ todo'[i].at = "exit" => i = Len(todo')
      BY DEF InOrder, Queues, Assigns
    <2>1. /\ i \in Int /\ j \in Int
          /\ i + 1 \in DOMAIN todo /\ j + 1 \in DOMAIN todo
          /\ todo'[i] = todo[i + 1] /\ todo'[j] = todo[j + 1]
      BY <1>3
    <2>2. /\ Queues(todo'[i]) /\ Queues(todo'[j]) => i + 1 = j + 1
          /\ Assigns(todo'[i]) /\ Assigns(todo'[j]) => i + 1 = j + 1
          /\ Queues(todo'[i]) /\ Assigns(todo'[j]) => i + 1 < j + 1
          /\ todo'[i].at = "exit" => i + 1 = Len(todo)
      BY <2>1, <1>5 DEF InOrder
    <2> QED
      BY <2>1, <2>2, <1>3
  <1>9. \A i \in DOMAIN todo' : Assigns(todo'[i]) => todo'[i].task \in Tasks
    BY <1>3, <1>6
  <1>10. InHand = InHand' \cup (IF Assigns(e) THEN {e.task} ELSE {})
    <2>1. ASSUME NEW t \in InHand, t \notin InHand' PROVE Assigns(e) /\ t = e.task
      <3>1. PICK j \in DOMAIN todo : Assigns(todo[j]) /\ todo[j].task = t
        BY <2>1 DEF InHand, Assigns
      <3>2. j - 1 \notin DOMAIN todo' \/ todo'[j - 1] # todo[j]
        BY <2>1, <3>1 DEF InHand, Assigns
      <3> QED
        BY <3>1, <3>2, <1>3
    <2>2. InHand' \subseteq InHand
      BY <1>3 DEF InHand
    <2>3. Assigns(e) => e.task \in InHand
      BY <1>3, <1>6 DEF InHand, Assigns
    <2> QED
      BY <2>1, <2>2, <2>3
  <1>11. TasksSorted'
    <2> HIDE DEF e
    <2>1. CASE Assigns(e)
      <3>1. ~Queues(e) /\ queue' = queue /\ enqueued' = enqueued
        BY <2>1, <1>4 DEF Queues, Assigns
      <3>2. \A i \in DOMAIN todo : ~Queues(todo[i]) /\ (Assigns(todo[i]) => i = 1)
        BY <2>1, <1>3, <1>5 DEF InOrder, e
      <3>3. \A i \in DOMAIN todo' : ~Queues(todo'[i]) /\ ~Assigns(todo'[i])
        BY <3>2, <1>3
      <3>4. InHand' = {} /\ InHand = {e.task}
        BY <3>3, <2>1, <1>10 DEF InHand, Assigns
      <3>5. Range(queue) \cap InHand = {}
        BY <3>2, <1>5 DEF TasksSorted
      <3> QED
        BY <2>1, <3>1, <3>3, <3>4, <3>5, <1>4, <1>5 DEF TasksSorted, Queues
    <2>2. CASE Queues(e)
      <3>1. ~Assigns(e) /\ queue' = e.to /\ enqueued' = enqueued \cup Range(e.to)
        BY <2>2, <1>4 DEF Queues, Assigns
      <3>2. \A i \in DOMAIN todo' : ~Queues(todo'[i])
        BY <2>2, <1>3, <1>5 DEF InOrder, e
      <3>3. Writable(e.to)
        BY <2>2, <1>3, <1>5 DEF TasksSorted, e
      <3>4. InHand' = InHand /\ assigned' = assigned
        BY <3>1, <1>4, <1>10
      <3> QED
        BY <3>1, <3>2, <3>3, <3>4, <1>4, <1>5 DEF TasksSorted, Writable, Queues
    <2>3. CASE ~Queues(e) /\ ~Assigns(e)
      <3>1. UNCHANGED <<queue, enqueued, assigned, lost>> /\ InHand' = InHand
        BY <2>3, <1>4, <1>10
      <3>2. \A i \in DOMAIN todo' : Queues(todo'[i]) => Writable(todo'[i].to)
        BY <1>3, <1>5 DEF TasksSorted
      <3>3. \A i \in DOMAIN todo' : Queues(todo[i])' => Writable(todo[i].to)'
        BY <3>1, <3>2 DEF Writable, Queues
      <3>4. (\A i \in DOMAIN todo' : ~Queues(todo'[i])) => Range(queue) \cap InHand = {}
        BY <2>3, <1>3, <1>5 DEF TasksSorted, e
      <3> QED
        BY <3>1, <3>3, <3>4, <1>5 DEF TasksSorted, Queues
    <2> QED
      BY <2>1, <2>2, <2>3
  <1> QED
    BY <1>3, <1>7, <1>8, <1>9, <1>11 DEF LockerIInv, Assigns

LEMMA DeathKeeps == LockerIInv /\ LockerDies => LockerIInv'
  <1> SUFFICES ASSUME LockerIInv, LockerDies PROVE LockerIInv'
    OBVIOUS
  <1>1. /\ todo' = <<>> /\ ~up' /\ lost' = lost \cup Unannounced
        /\ UNCHANGED <<queue, assigned, enqueued>>
    BY DEF LockerDies
  <1>2. DOMAIN todo' = {} /\ InHand' = {} /\ todo' \in Seq({})
    BY <1>1 DEF InHand
  <1>3. TasksSorted'
    BY <1>1, <1>2 DEF LockerIInv, TasksSorted, Unannounced
  <1> QED
    BY <1>1, <1>2, <1>3 DEF LockerIInv, InOrder

\* A start writes back the queue that it read.
LEMMA StartKeeps == LockerIInv /\ StartLocker => LockerIInv'
  <1> SUFFICES ASSUME LockerIInv, StartLocker PROVE LockerIInv'
    OBVIOUS
  <1>1. todo = <<>> /\ up' /\ UNCHANGED <<queue, assigned, enqueued, lost>>
    BY DEF StartLocker, LockerIInv
  <1>2. PICK l : todo' = <<WriteQueue(queue), WriteLocks(l), Remark>>
    BY DEF StartLocker
  <1>3. /\ \E E : todo' \in Seq(E)
        /\ DOMAIN todo' = 1..3 /\ Len(todo') = 3
        /\ todo'[1] = WriteQueue(queue) /\ todo'[2] = WriteLocks(l) /\ todo'[3] = Remark
    BY <1>2, ThreeEffects
  <1>4. /\ \A i \in 1..3 : ~Assigns(todo'[i]) /\ todo'[i].at # "exit"
        /\ \A i \in 1..3 : Queues(todo'[i]) => i = 1 /\ todo'[i].to = queue
    BY <1>3, KindsOfEffects DEF Assigns, Queues
  <1>5. InOrder'
    BY <1>3, <1>4 DEF InOrder, Assigns, Queues
  <1> QED
    BY <1>1, <1>3, <1>4, <1>5, IdlePlanKeeps

\* The snapshot writes leases, never tasks.
LEMMA OthersKeep ==
    ASSUME LockerIInv, UNCHANGED <<queue, up, todo, assigned, enqueued, lost>>
    PROVE  LockerIInv'
  <1>1. InHand' = InHand
    BY DEF InHand
  <1>2. TasksSorted'
    BY <1>1 DEF LockerIInv, TasksSorted, Writable, Queues
  <1>3. InOrder'
    BY DEF LockerIInv, InOrder, Queues, Assigns
  <1> QED
    BY <1>2, <1>3 DEF LockerIInv, Assigns

LEMMA LockerStepsKeep == LockerIInv /\ [LockerNext]_lockerVars => LockerIInv'
  <1> SUFFICES ASSUME LockerIInv, [LockerNext]_lockerVars PROVE LockerIInv'
    OBVIOUS
  <1>1. CASE Handle
    BY <1>1, HandleKeeps
  <1>2. CASE Effect
    BY <1>2, EffectKeeps
  <1>3. CASE LockerDies
    BY <1>3, DeathKeeps
  <1>4. CASE StartLocker
    BY <1>4, StartKeeps
  <1>5. CASE SnapshotRead \/ SnapshotWrite \/ Tick
    BY <1>5, OthersKeep DEF SnapshotRead, SnapshotWrite, Tick
  <1>6. CASE UNCHANGED lockerVars
    BY <1>6, OthersKeep DEF lockerVars
  <1> QED
    BY <1>1, <1>2, <1>3, <1>4, <1>5, <1>6 DEF LockerNext

\* handle, saveQueue, start: whatever the Controls, the deaths between two
\* writes and the restarts on the same files, a task written to the queue is
\* waiting there once, or in the hand of one claim, or assigned once, or was
\* taken out by a claim that died before it told anybody.
THEOREM TasksAreAccounted == LockerSpec => []TasksAccounted
  <1>1. LockerIInv => TasksAccounted
    BY SortedIsAccounted DEF LockerIInv
  <1> QED
    BY <1>1, LockerInitially, LockerStepsKeep, PTL DEF LockerSpec
-----------------------------------------------------------------------------
(* The leases.                                                             *)

Locks(e) == e.at = "locks"
Announces(e) == e.at = "trace" /\ e.what # "remark"

LeaseType == [owner : Owners, expiresAt : Nat]

\* What locks.json says of r when the handler in progress is over.
Kept(r, lease) ==
    /\ \A i \in DOMAIN todo : Locks(todo[i]) => todo[i].to[r] = lease
    /\ (\A i \in DOMAIN todo : ~Locks(todo[i])) => locks[r] = lease

\* The owner of g is about to hear of a newer lease.
Superseded(g) == \E i \in DOMAIN todo : Announces(todo[i]) /\ Supersedes(todo[i], g)

\* An announced lease is kept or about to be renewed, and one that is about to
\* be announced is kept, unless it has been taken away.
GrantsHeld ==
    /\ \A g \in grants \ taken :
           g.lease.expiresAt > clock => Kept(g.resource, g.lease) \/ Superseded(g)
    /\ \A i \in DOMAIN todo : Announces(todo[i]) =>
           \A r \in todo[i].resources :
               [resource |-> r, lease |-> todo[i].lease] \in taken \/ Kept(r, todo[i].lease)

GrantsTyped ==
    /\ clock \in Nat
    /\ grants \subseteq [resource : Resources, lease : LeaseType]
    /\ \A i \in DOMAIN todo : Announces(todo[i]) =>
           todo[i].resources \subseteq Resources /\ todo[i].lease \in LeaseType

GrantInv == LockerIInv /\ GrantsTyped /\ GrantsHeld


LEMMA AnnouncedLease ==
    /\ \A what, rs, lease, t :
          LET e == Announce(what, rs, lease, t)
          IN  /\ e.resources = rs /\ e.lease = lease
              /\ what # "remark" => Announces(e)
              /\ ~Locks(e)
    /\ \A l : LET e == WriteLocks(l) IN e.to = l /\ Locks(e) /\ ~Announces(e)
    /\ \A q : ~Locks(WriteQueue(q)) /\ ~Announces(WriteQueue(q))
    /\ ~Locks(Remark) /\ ~Announces(Remark)
    /\ ~Locks([at |-> "exit"]) /\ ~Announces([at |-> "exit"])
  BY DEF Announce, WriteLocks, WriteQueue, Remark, Announces, Locks

LEMMA LeaseTyped ==
    ASSUME clock \in Nat, NEW o \in Owners
    PROVE  Lease(o) \in LeaseType /\ Lease(o).owner = o
  BY LockerAssumption DEF Lease, LeaseType

\* A handler that leaves m in locks.json, where l is what it has read of it.
LEMMA LeasePlanKeeps ==
    ASSUME GrantInv, todo = <<>>, UNCHANGED <<locks, clock, taken>>,
           grants' \subseteq grants, NEW m,
           \E i \in DOMAIN todo' : Locks(todo'[i]),
           \A i \in DOMAIN todo' : Locks(todo'[i]) => todo'[i].to = m,
           \A i \in DOMAIN todo' : Announces(todo'[i]) =>
               /\ todo'[i].resources \subseteq Resources /\ todo'[i].lease \in LeaseType
               /\ \A r \in todo'[i].resources : m[r] = todo'[i].lease,
           \A g \in grants' :
               Unexpired(locks)[g.resource] = g.lease =>
                   \/ m[g.resource] = g.lease
                   \/ \E i \in DOMAIN todo' : Announces(todo'[i]) /\ Supersedes(todo'[i], g)
    PROVE  GrantsTyped' /\ GrantsHeld'
  <1>1. GrantsTyped'
    BY DEF GrantInv, GrantsTyped, Announces
  <1>2. \A r, lease : m[r] = lease => Kept(r, lease)'
    BY DEF Kept, Locks
  <1>3. ASSUME NEW g \in grants' \ taken', g.lease.expiresAt > clock'
        PROVE  Kept(g.resource, g.lease)' \/ Superseded(g)'
    <2>1. g \in grants \ taken /\ g.lease.expiresAt > clock
      BY <1>3
    <2>2. DOMAIN todo = {}
      BY NothingInHand
    <2>3. ~Superseded(g)
      BY <2>2 DEF Superseded
    <2>4. locks[g.resource] = g.lease
      BY <2>1, <2>2, <2>3 DEF GrantInv, GrantsHeld, Kept
    <2>5. g.resource \in Resources /\ g.lease \in LeaseType
      BY <2>1 DEF GrantInv, GrantsTyped
    <2>6. g.lease # Unleased
      BY <2>5, LockerAssumption DEF LeaseType
    <2>7. Unexpired(locks)[g.resource] = g.lease
      BY <2>1, <2>4, <2>5, <2>6 DEF Unexpired
    <2> QED
      BY <1>2, <2>7 DEF Superseded, Announces, Supersedes
  <1>4. \A i \in DOMAIN todo' : Announces(todo[i])' =>
            \A r \in todo'[i].resources : Kept(r, todo[i].lease)'
    BY <1>2 DEF Announces
  <1> QED
    BY <1>1, <1>3, <1>4 DEF GrantsHeld

\* Handlers that give no lease: what they write keeps every lease they read
\* but the one that is released.
LEMMA PlainHandlersKeepLeases ==
    ASSUME GrantInv, NEW l, l = Unexpired(locks),
           \/ UNCHANGED grants /\ Decide(SettleTask(l))
           \/ UNCHANGED grants /\ Decide(StopLocker(l))
           \/ UNCHANGED grants /\ \E t : Decide(Enqueue(l, t))
           \/ UNCHANGED grants /\ \E o : FreeTasks(l) = {} /\ Decide(ClaimTask(l, o))
           \/ UNCHANGED grants /\ Decide(<<Remark, WriteLocks(l)>>)
           \/ \E r \in Resources :
                  Decide(ReleaseLease(l, r)) /\ grants' = {g \in grants : g.resource # r}
    PROVE  GrantsTyped' /\ GrantsHeld'
  <1> DEFINE Fits(m) == \A g \in grants' : l[g.resource] = g.lease => m[g.resource] = g.lease
             Shape(m) ==
                 \/ todo' = <<Remark, WriteLocks(m)>>
                 \/ todo' = <<WriteLocks(m), Remark>>
                 \/ todo' = <<WriteLocks(m), [at |-> "exit"]>>
                 \/ \E q : todo' = <<Remark, WriteLocks(m), WriteQueue(q)>>
                 \/ \E q : todo' = <<WriteQueue(q), WriteLocks(m), Remark>>
  <1>1. todo = <<>> /\ UNCHANGED <<locks, clock, taken>> /\ grants' \subseteq grants
    BY DEF Decide
  <1>2. PICK m : Shape(m) /\ Fits(m)
    <2>1. CASE \E r \in Resources :
                   Decide(ReleaseLease(l, r)) /\ grants' = {g \in grants : g.resource # r}
      <3>1. PICK r \in Resources :
                Decide(ReleaseLease(l, r)) /\ grants' = {g \in grants : g.resource # r}
        BY <2>1
      <3> DEFINE m == [l EXCEPT ![r] = Unleased]
      <3>2. Shape(m)
        BY <3>1 DEF Decide, ReleaseLease
      <3>3. \A q : q # r => m[q] = l[q]
        BY DEF Unexpired
      <3>4. Fits(m)
        BY <3>1, <3>3
      <3> QED
        BY <3>2, <3>4
    <2>2. CASE ~ \E r \in Resources :
                   Decide(ReleaseLease(l, r)) /\ grants' = {g \in grants : g.resource # r}
      <3>1. Shape(l)
        BY <2>2 DEF Decide, SettleTask, StopLocker, Enqueue, ClaimTask
      <3> QED
        BY <3>1
    <2> QED
      BY <2>1, <2>2
  <1>3. /\ \E i \in DOMAIN todo' : Locks(todo'[i])
        /\ \A i \in DOMAIN todo' : ~Announces(todo'[i]) /\ (Locks(todo'[i]) => todo'[i].to = m)
    <2>1. CASE \E a, b : /\ todo' = <<a, b>> /\ ~Announces(a) /\ ~Announces(b)
                         /\ Locks(a) \/ Locks(b)
                         /\ (Locks(a) => a.to = m) /\ (Locks(b) => b.to = m)
      <3>1. PICK a, b : /\ todo' = <<a, b>> /\ ~Announces(a) /\ ~Announces(b)
                        /\ Locks(a) \/ Locks(b)
                        /\ (Locks(a) => a.to = m) /\ (Locks(b) => b.to = m)
        BY <2>1
      <3>2. DOMAIN todo' = 1..2 /\ todo'[1] = a /\ todo'[2] = b
        BY <3>1, TwoEffects
      <3>3. \A i \in 1..2 : i = 1 \/ i = 2
        OBVIOUS
      <3> HIDE DEF Fits, Shape
      <3> QED
        BY <3>1, <3>2, <3>3
    <2>2. CASE \E a, b, c : /\ todo' = <<a, b, c>>
                            /\ ~Announces(a) /\ ~Announces(b) /\ ~Announces(c)
                            /\ ~Locks(a) /\ Locks(b) /\ ~Locks(c) /\ b.to = m
      <3>1. PICK a, b, c : /\ todo' = <<a, b, c>>
                           /\ ~Announces(a) /\ ~Announces(b) /\ ~Announces(c)
                           /\ ~Locks(a) /\ Locks(b) /\ ~Locks(c) /\ b.to = m
        BY <2>2
      <3>2. DOMAIN todo' = 1..3 /\ todo'[1] = a /\ todo'[2] = b /\ todo'[3] = c
        BY <3>1, ThreeEffects
      <3>3. \A i \in 1..3 : i = 1 \/ i = 2 \/ i = 3
        OBVIOUS
      <3> HIDE DEF Fits, Shape
      <3> QED
        BY <3>1, <3>2, <3>3
    <2> QED
      BY <1>2, <2>1, <2>2, AnnouncedLease
  <1> QED
    BY <1>1, <1>2, <1>3, LeasePlanKeeps

\* Handlers that give a lease, of rs to o: they write it and announce it, in
\* whichever order.  A lease they supersede was o's or has expired.
LEMMA GivingHandlerKeepsLeases ==
    ASSUME GrantInv, NEW l, l = Unexpired(locks), NEW o \in Owners,
           NEW rs \in SUBSET Resources, NEW m, NEW e,
           todo = <<>>, UNCHANGED <<locks, clock, taken, grants>>,
           m = [r \in Resources |-> IF r \in rs THEN Lease(o) ELSE l[r]],
           Announces(e), ~Locks(e), e.resources = rs, e.lease = Lease(o),
           \A r \in rs : l[r] = Unleased \/ l[r].owner = o,
           \/ todo' = <<e, WriteLocks(m)>>
           \/ \E q : todo' = <<WriteQueue(q), WriteLocks(m), e>>
    PROVE  GrantsTyped' /\ GrantsHeld'
  <1>1. /\ \E i \in DOMAIN todo' : Locks(todo'[i])
        /\ \A i \in DOMAIN todo' : Locks(todo'[i]) => todo'[i].to = m
        /\ \E i \in DOMAIN todo' : todo'[i] = e
        /\ \A i \in DOMAIN todo' : Announces(todo'[i]) => todo'[i] = e
    <2>1. CASE todo' = <<e, WriteLocks(m)>>
      <3>1. DOMAIN todo' = 1..2 /\ todo'[1] = e /\ todo'[2] = WriteLocks(m)
        BY <2>1, TwoEffects
      <3>2. \A i \in 1..2 : i = 1 \/ i = 2
        OBVIOUS
      <3> QED
        BY <3>1, <3>2, AnnouncedLease
    <2>2. CASE \E q : todo' = <<WriteQueue(q), WriteLocks(m), e>>
      <3>1. PICK q : todo' = <<WriteQueue(q), WriteLocks(m), e>>
        BY <2>2
      <3>2. /\ DOMAIN todo' = 1..3 /\ todo'[1] = WriteQueue(q)
            /\ todo'[2] = WriteLocks(m) /\ todo'[3] = e
        BY <3>1, ThreeEffects
      <3>3. \A i \in 1..3 : i = 1 \/ i = 2 \/ i = 3
        OBVIOUS
      <3> QED
        BY <3>2, <3>3, AnnouncedLease
    <2> QED
      BY <2>1, <2>2
  <1>2. Lease(o) \in LeaseType /\ Lease(o).owner = o
    BY LeaseTyped DEF GrantInv, GrantsTyped
  <1>3. \A r \in Resources : r \in rs => m[r] = Lease(o)
    OBVIOUS
  <1>4. ASSUME NEW g \in grants', l[g.resource] = g.lease
        PROVE  m[g.resource] = g.lease \/ Supersedes(e, g)
    <2>1. g.resource \in Resources /\ g.lease \in LeaseType
      BY DEF GrantInv, GrantsTyped
    <2>2. g.lease # Unleased
      BY <2>1, LockerAssumption DEF LeaseType
    <2>3. CASE g.resource \in rs
      BY <1>2, <1>4, <2>2, <2>3 DEF Supersedes
    <2>4. CASE g.resource \notin rs
      BY <1>4, <2>1, <2>4
    <2> QED
      BY <2>3, <2>4
  <1>5. \A i \in DOMAIN todo' : Announces(todo'[i]) =>
            /\ todo'[i].resources \subseteq Resources /\ todo'[i].lease \in LeaseType
            /\ \A r \in todo'[i].resources : m[r] = todo'[i].lease
    BY <1>1, <1>2, <1>3
  <1>6. \A g \in grants' : Unexpired(locks)[g.resource] = g.lease =>
            \/ m[g.resource] = g.lease
            \/ \E i \in DOMAIN todo' : Announces(todo'[i]) /\ Supersedes(todo'[i], g)
    BY <1>1, <1>4
  <1> QED
    BY <1>1, <1>5, <1>6, LeasePlanKeeps
LEMMA HandlersKeepLeases ==
    ASSUME GrantInv, Handle
    PROVE  GrantsTyped' /\ GrantsHeld'
  <1> DEFINE l == Unexpired(locks)
  <1>1. CASE UNCHANGED grants /\ \E o \in Owners : FreeTasks(l) # {} /\ Decide(ClaimTask(l, o))
    <2>1. PICK o \in Owners : FreeTasks(l) # {} /\ Decide(ClaimTask(l, o))
      BY <1>1
    <2> DEFINE i == Min(FreeTasks(l))
               t == queue[i]
               m == [r \in Resources |-> IF r \in Needs[t] THEN Lease(o) ELSE l[r]]
               e == Announce("assigned", Needs[t], Lease(o), t)
    <2>2. queue \in Seq(Tasks)
      BY DEF GrantInv, LockerIInv, TasksSorted
    <2>3. i \in FreeTasks(l)
      <3>1. FreeTasks(l) \subseteq 1..Len(queue)
        BY <2>2 DEF FreeTasks
      <3> QED
        BY <2>1, <3>1, MinInSet
    <2>4. t \in Tasks /\ \A r \in Needs[t] : l[r] = Unleased
      BY <2>2, <2>3 DEF FreeTasks
    <2>5. Needs[t] \in SUBSET Resources
      BY <2>4, LockerAssumption
    <2>6. todo' = <<WriteQueue(RemoveAt(queue, i)), WriteLocks(m), e>>
      BY <2>1 DEF Decide, ClaimTask
    <2>7. todo = <<>> /\ UNCHANGED <<locks, clock, taken, grants>>
      BY <1>1, <2>1 DEF Decide
    <2>8. Announces(e) /\ ~Locks(e) /\ e.resources = Needs[t] /\ e.lease = Lease(o)
      BY AnnouncedLease
    <2>9. m = [r \in Resources |-> IF r \in Needs[t] THEN Lease(o) ELSE l[r]]
      OBVIOUS
    <2> HIDE DEF i, t, m, e, l
    <2> QED
      BY <2>4, <2>5, <2>6, <2>7, <2>8, <2>9, GivingHandlerKeepsLeases DEF l
  <1>2. ASSUME NEW r \in Resources, NEW o \in Owners, UNCHANGED grants,
               Decide(Acquire(l, r, o)) \/ Decide(Renew(l, r, o))
        PROVE  GrantsTyped' /\ GrantsHeld'
    <2> DEFINE m == [q \in Resources |-> IF q \in {r} THEN Lease(o) ELSE l[q]]
               e == Announce("granted", {r}, Lease(o), 0)
    <2>1. todo = <<>> /\ UNCHANGED <<locks, clock, taken, grants>>
      BY <1>2 DEF Decide
    <2>2. [l EXCEPT ![r] = Lease(o)] = m
      BY DEF Unexpired
    <2>3. CASE todo' = <<Remark, WriteLocks(l)>>
      <3>1. Decide(<<Remark, WriteLocks(l)>>)
        BY <1>2, <2>3 DEF Decide
      <3> QED
        BY <1>2, <3>1, PlainHandlersKeepLeases
    <2>4. CASE todo' # <<Remark, WriteLocks(l)>>
      <3>1. /\ todo' = <<e, WriteLocks(m)>>
            /\ l[r] = Unleased \/ l[r].owner = o
        BY <1>2, <2>2, <2>4 DEF Decide, Acquire, Renew
      <3>2. Announces(e) /\ ~Locks(e) /\ e.resources = {r} /\ e.lease = Lease(o)
        BY AnnouncedLease
      <3>3. \A q \in {r} : l[q] = Unleased \/ l[q].owner = o
        BY <3>1
      <3>4. {r} \in SUBSET Resources /\ m = [q \in Resources |-> IF q \in {r} THEN Lease(o) ELSE l[q]]
        OBVIOUS
      <3> HIDE DEF m, e, l
      <3> QED
        BY <2>1, <3>1, <3>2, <3>3, <3>4, GivingHandlerKeepsLeases DEF l
    <2> QED
      BY <2>3, <2>4
  <1>3. CASE ~(UNCHANGED grants /\ \E o \in Owners : FreeTasks(l) # {} /\ Decide(ClaimTask(l, o)))
    <2>1. \/ UNCHANGED grants /\ Decide(SettleTask(l))
          \/ UNCHANGED grants /\ Decide(StopLocker(l))
          \/ UNCHANGED grants /\ \E t : Decide(Enqueue(l, t))
          \/ UNCHANGED grants /\ \E o : FreeTasks(l) = {} /\ Decide(ClaimTask(l, o))
          \/ UNCHANGED grants /\ \E r \in Resources, o \in Owners :
                                     Decide(Acquire(l, r, o)) \/ Decide(Renew(l, r, o))
          \/ \E r \in Resources :
                 Decide(ReleaseLease(l, r)) /\ grants' = {g \in grants : g.resource # r}
      BY <1>3 DEF Handle
    <2> HIDE DEF l
    <2> QED
      BY <2>1, <1>2, PlainHandlersKeepLeases DEF l
  <1> QED
    BY <1>1, <1>3

\* An effect that only tells leaves the leases as they are.
LEMMA EffectsKeepLeases ==
    ASSUME GrantInv, Effect
    PROVE  GrantsTyped' /\ GrantsHeld'
  <1> DEFINE e == todo[1]
  <1>1. PICK E : todo \in Seq(E)
    BY DEF GrantInv, LockerIInv
  <1>2. todo # <<>> /\ todo' = Tail(todo)
    BY DEF Effect
  <1>3. /\ 1 \in DOMAIN todo /\ Head(todo) = todo[1]
        /\ \A i \in DOMAIN todo' : i + 1 \in DOMAIN todo /\ todo'[i] = todo[i + 1]
        /\ \A j \in DOMAIN todo : j = 1 \/ (j - 1 \in DOMAIN todo' /\ todo'[j - 1] = todo[j])
    BY <1>1, <1>2, FirstAndRest
  <1>4. /\ UNCHANGED <<clock, taken>>
        /\ locks' = IF Locks(e) THEN e.to ELSE locks
        /\ grants' = IF Announces(e)
                     THEN {g \in grants : ~Supersedes(e, g)}
                              \cup {[resource |-> r, lease |-> e.lease] : r \in e.resources}
                     ELSE grants
    BY <1>3 DEF Effect, Locks, Announces
  <1>5. ASSUME NEW r, NEW lease, Kept(r, lease) PROVE Kept(r, lease)'
    <2>1. \A i \in DOMAIN todo' : Locks(todo[i])' => todo'[i].to[r] = lease
      BY <1>3, <1>5 DEF Kept, Locks
    <2>2. ASSUME \A i \in DOMAIN todo' : ~Locks(todo'[i]) PROVE locks'[r] = lease
      <3>1. CASE Locks(e)
        BY <1>3, <1>4, <1>5, <3>1 DEF Kept
      <3>2. CASE ~Locks(e)
        <4>1. \A i \in DOMAIN todo : ~Locks(todo[i])
          BY <1>3, <2>2, <3>2
        <4> QED
          BY <1>4, <1>5, <3>2, <4>1 DEF Kept
      <3> QED
        BY <3>1, <3>2
    <2> QED
      BY <2>1, <2>2 DEF Kept, Locks
  <1>6. GrantsTyped'
    <2>1. Announces(e) => e.resources \subseteq Resources /\ e.lease \in LeaseType
      BY <1>3 DEF GrantInv, GrantsTyped
    <2>2. grants' \subseteq [resource : Resources, lease : LeaseType]
      BY <1>4, <2>1 DEF GrantInv, GrantsTyped
    <2>3. \A i \in DOMAIN todo' : Announces(todo[i])' =>
              todo'[i].resources \subseteq Resources /\ todo'[i].lease \in LeaseType
      BY <1>3 DEF GrantInv, GrantsTyped, Announces
    <2> QED
      BY <1>4, <2>2, <2>3 DEF GrantInv, GrantsTyped
  <1>7. ASSUME NEW g \in grants' \ taken', g.lease.expiresAt > clock'
        PROVE  Kept(g.resource, g.lease)' \/ Superseded(g)'
    <2>1. CASE g \in grants /\ ~(Announces(e) /\ Supersedes(e, g))
      <3>1. Kept(g.resource, g.lease) \/ Superseded(g)
        BY <1>4, <1>7, <2>1 DEF GrantInv, GrantsHeld
      <3>2. Superseded(g) => Superseded(g)'
        BY <1>3, <2>1 DEF Superseded, Announces, Supersedes
      <3> QED
        BY <1>5, <3>1, <3>2
    <2>2. CASE ~(g \in grants /\ ~(Announces(e) /\ Supersedes(e, g)))
      <3>1. Announces(e) /\ \E r \in e.resources : g = [resource |-> r, lease |-> e.lease]
        BY <1>4, <2>2
      <3>2. Kept(g.resource, g.lease)
        BY <1>3, <1>4, <1>7, <3>1 DEF GrantInv, GrantsHeld
      <3> QED
        BY <1>5, <3>2
    <2> QED
      BY <2>1, <2>2
  <1>8. \A i \in DOMAIN todo' : Announces(todo[i])' =>
            \A r \in todo'[i].resources :
                [resource |-> r, lease |-> todo'[i].lease] \in taken' \/ Kept(r, todo[i].lease)'
    <2> SUFFICES ASSUME NEW i \in DOMAIN todo', Announces(todo'[i]),
                        NEW r \in todo'[i].resources,
                        [resource |-> r, lease |-> todo'[i].lease] \notin taken'
                 PROVE  Kept(r, todo[i].lease)'
      BY DEF Announces
    <2>1. i + 1 \in DOMAIN todo /\ todo'[i] = todo[i + 1]
      BY <1>3
    <2>2. Kept(r, todo[i + 1].lease)
      BY <1>4, <2>1 DEF GrantInv, GrantsHeld
    <2>3. Kept(r, todo'[i].lease)
      BY <2>1, <2>2
    <2> HIDE DEF e
    <2> QED
      BY <2>3, <1>5
  <1> QED
    BY <1>6, <1>7, <1>8 DEF GrantsHeld

\* A death takes away what was announced and not written.
LEMMA DeathKeepsLeases ==
    ASSUME GrantInv, LockerDies
    PROVE  GrantsTyped' /\ GrantsHeld'
  <1>1. /\ todo' = <<>> /\ DOMAIN todo' = {} /\ taken' = taken \cup Unwritten
        /\ UNCHANGED <<locks, clock, grants>>
    BY DEF LockerDies
  <1>2. GrantsTyped'
    BY <1>1 DEF GrantInv, GrantsTyped
  <1>3. \A g \in grants' \ taken' : Kept(g.resource, g.lease)'
    BY <1>1 DEF Kept, Unwritten
  <1> QED
    BY <1>1, <1>2, <1>3 DEF GrantsHeld

LEMMA StartKeepsLeases ==
    ASSUME GrantInv, StartLocker
    PROVE  GrantsTyped' /\ GrantsHeld'
  <1> DEFINE m == Unexpired(locks)
  <1>1. todo = <<>> /\ UNCHANGED <<locks, clock, taken, grants>>
    BY DEF StartLocker, GrantInv, LockerIInv
  <1>2. /\ DOMAIN todo' = 1..3 /\ todo'[1] = WriteQueue(queue)
        /\ todo'[2] = WriteLocks(m) /\ todo'[3] = Remark
    BY ThreeEffects DEF StartLocker
  <1>3. \A i \in 1..3 : i = 1 \/ i = 2 \/ i = 3
    OBVIOUS
  <1>4. /\ \E i \in DOMAIN todo' : Locks(todo'[i])
        /\ \A i \in DOMAIN todo' : ~Announces(todo'[i]) /\ (Locks(todo'[i]) => todo'[i].to = m)
    BY <1>2, <1>3, AnnouncedLease
  <1> QED
    BY <1>1, <1>4, LeasePlanKeeps

\* A snapshot takes away what it writes over.
LEMMA SnapshotKeepsLeases ==
    ASSUME GrantInv, SnapshotWrite
    PROVE  GrantsTyped' /\ GrantsHeld'
  <1>1. /\ locks' = snapshot[1] /\ UNCHANGED <<clock, grants, todo>>
        /\ taken' = taken \cup {[resource |-> r, lease |-> locks[r]] :
                         r \in {r \in Resources : locks[r] \notin {Unleased, snapshot[1][r]}}}
    BY DEF SnapshotWrite
  <1>2. GrantsTyped'
    BY <1>1 DEF GrantInv, GrantsTyped, Announces
  <1>3. ASSUME NEW r \in Resources, NEW lease \in LeaseType, Kept(r, lease),
               [resource |-> r, lease |-> lease] \notin taken'
        PROVE  Kept(r, lease)'
    <2>1. lease # Unleased
      BY LockerAssumption DEF LeaseType
    <2>2. locks[r] = lease => locks'[r] = lease
      BY <1>1, <1>3, <2>1
    <2> QED
      BY <1>1, <1>3, <2>2 DEF Kept, Locks
  <1>4. ASSUME NEW g \in grants' \ taken', g.lease.expiresAt > clock'
        PROVE  Kept(g.resource, g.lease)' \/ Superseded(g)'
    <2>1. Kept(g.resource, g.lease) \/ Superseded(g)
      BY <1>1, <1>4 DEF GrantInv, GrantsHeld
    <2>2. g \in [resource : Resources, lease : LeaseType]
      BY <1>1 DEF GrantInv, GrantsTyped
    <2>3. /\ g.resource \in Resources /\ g.lease \in LeaseType
          /\ [resource |-> g.resource, lease |-> g.lease] \notin taken'
      BY <1>4, <2>2
    <2> QED
      BY <1>1, <1>3, <2>1, <2>2, <2>3 DEF Superseded, Announces, Supersedes
  <1>5. \A i \in DOMAIN todo' : Announces(todo[i])' =>
            \A r \in todo'[i].resources :
                [resource |-> r, lease |-> todo'[i].lease] \in taken' \/ Kept(r, todo[i].lease)'
    <2> SUFFICES ASSUME NEW i \in DOMAIN todo, Announces(todo[i]), NEW r \in todo[i].resources,
                        [resource |-> r, lease |-> todo[i].lease] \notin taken'
                 PROVE  Kept(r, todo[i].lease)'
      BY <1>1 DEF Announces
    <2>1. r \in Resources /\ todo[i].lease \in LeaseType
      BY DEF GrantInv, GrantsTyped
    <2>2. Kept(r, todo[i].lease)
      BY <1>1 DEF GrantInv, GrantsHeld
    <2>3. ASSUME NEW lease, lease = todo[i].lease PROVE Kept(r, lease)'
      BY <1>3, <2>1, <2>2, <2>3
    <2> QED
      BY <2>3, <1>1
  <1> QED
    BY <1>2, <1>4, <1>5 DEF GrantsHeld
LEMMA GrantSteps ==
    GrantInv /\ [LockerNext]_lockerVars => GrantInv'
  <1> SUFFICES ASSUME GrantInv, [LockerNext]_lockerVars PROVE GrantsTyped' /\ GrantsHeld'
    BY LockerStepsKeep DEF GrantInv
  <1>1. CASE Handle
    BY <1>1, HandlersKeepLeases
  <1>2. CASE Effect
    BY <1>2, EffectsKeepLeases
  <1>3. CASE LockerDies
    BY <1>3, DeathKeepsLeases
  <1>4. CASE StartLocker
    BY <1>4, StartKeepsLeases
  <1>5. CASE SnapshotWrite
    BY <1>5, SnapshotKeepsLeases
  <1>6. CASE SnapshotRead \/ Tick \/ UNCHANGED lockerVars
    <2>1. /\ UNCHANGED <<locks, todo, grants, taken>>
          /\ clock' = clock \/ clock' = clock + 1
      BY <1>6 DEF SnapshotRead, Tick, lockerVars
    <2>2. GrantsTyped'
      BY <2>1 DEF GrantInv, GrantsTyped, Announces
    <2>3. \A g \in grants : g.lease.expiresAt > clock' => g.lease.expiresAt > clock
      BY <2>1 DEF GrantInv, GrantsTyped, LeaseType
    <2>4. \A r, lease : Kept(r, lease) => Kept(r, lease)'
      BY <2>1 DEF Kept, Locks
    <2>5. \A g : Superseded(g) => Superseded(g)'
      BY <2>1 DEF Superseded, Announces, Supersedes
    <2>6. \A g \in grants' \ taken' :
              g.lease.expiresAt > clock' => Kept(g.resource, g.lease)' \/ Superseded(g)'
      BY <2>1, <2>3, <2>4, <2>5 DEF GrantInv, GrantsHeld
    <2>7. \A i \in DOMAIN todo' : Announces(todo[i])' =>
              \A r \in todo'[i].resources :
                  [resource |-> r, lease |-> todo'[i].lease] \in taken'
                      \/ Kept(r, todo[i].lease)'
      BY <2>1 DEF GrantInv, GrantsHeld, Announces, Kept, Locks
    <2> QED
      BY <2>2, <2>6, <2>7 DEF GrantsHeld
  <1> QED
    BY <1>1, <1>2, <1>3, <1>4, <1>5, <1>6 DEF LockerNext

\* acquire, claim, renew, release, cleanExpiredLocks, printSnapshot: whatever
\* the Controls, the deaths between the announcement of a lease and its write,
\* and the restarts, a lease that its owner was told of and that has not expired
\* is the one locks.json holds whenever no handler is in progress, unless a
\* death or a snapshot took it away; no other owner has the resource.
THEOREM GrantsAreAlwaysKept == LockerSpec => []GrantsAreKept
  <1>1. LockerInit => GrantInv
    <2> SUFFICES ASSUME LockerInit PROVE GrantsTyped /\ GrantsHeld
      BY LockerInitially DEF GrantInv
    <2>1. grants = {} /\ DOMAIN todo = {} /\ clock = 0
      BY DEF LockerInit
    <2> QED
      BY <2>1 DEF GrantsTyped, GrantsHeld
  <1>2. GrantInv => GrantsAreKept
    <2> SUFFICES ASSUME GrantInv, todo = <<>>, NEW g \in grants \ taken,
                        g.lease.expiresAt > clock
                 PROVE  locks[g.resource] = g.lease
      BY DEF GrantsAreKept
    <2>1. DOMAIN todo = {}
      BY NothingInHand
    <2> QED
      BY <2>1 DEF GrantInv, GrantsHeld, Kept, Superseded
  <1> QED
    BY <1>1, <1>2, GrantSteps, PTL DEF LockerSpec
=============================================================================
