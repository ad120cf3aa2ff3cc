--------------------------- MODULE ResourceLocker ---------------------------
(***************************************************************************)
(* The optional locker service, skills/actors/scripts/resource-locker.mjs: *)
(* a queue of tasks and a set of leases, kept in two files.  The service   *)
(* handles one Control at a time; a handler reads both files, decides, and *)
(* then writes the files and the Trace one after the other, so a handler   *)
(* is the list of effects it still has to have.  The service may die       *)
(* between two effects and is started again on the same files.  Another    *)
(* process, the snapshot, rewrites the leases without any lock.            *)
(*                                                                         *)
(* Which Controls are handled, and each at most once, is RunControls'; the *)
(* journal of the service, which nothing reads but the snapshot's output,  *)
(* is left out.  Time is a counter that moves at any moment.               *)
(***************************************************************************)
EXTENDS Naturals, Sequences, FiniteSets, SequencesExt

CONSTANTS
    Tasks, Resources, Owners,
    Needs,          \* the resources of each task
    LeaseTicks,     \* --lease-ms
    Unleased,
    MaxTime, MaxControls, MaxDeaths, MaxSnapshots    \* bounds

ASSUME LockerAssumption ==
    /\ Needs \in [Tasks -> SUBSET Resources]
    /\ LeaseTicks \in Nat \ {0}
    /\ Unleased \notin [owner : Owners, expiresAt : Nat]

VARIABLES
    queue,      \* queue.json: the tasks in order
    locks,      \* locks.json: the lease of each resource
    clock,
    up,         \* the service runs
    todo,       \* the effects its handler has still to have
    snapshot,   \* what a snapshot has read and not written back yet
    grants,     \* history: the leases announced to their owners and not released
    taken,      \* history: those a death or a snapshot took away from them
    assigned,   \* history: the tasks announced as assigned
    enqueued,   \* history: the tasks written to the queue
    lost,       \* history: tasks a death took out of the queue unannounced
    spent       \* bounds: Controls, deaths and snapshots so far

lockerVars == <<queue, locks, clock, up, todo, snapshot, grants, taken,
                assigned, enqueued, lost, spent>>

Lease(o) == [owner |-> o, expiresAt |-> clock + LeaseTicks]

NoSnapshot == <<>>

LockerInit ==
    /\ queue = <<>>
    /\ locks = [r \in Resources |-> Unleased]
    /\ clock = 0 /\ up = FALSE /\ todo = <<>> /\ snapshot = NoSnapshot
    /\ grants = {} /\ taken = {} /\ assigned = {} /\ enqueued = {} /\ lost = {}
    /\ spent = [controls |-> 0, deaths |-> 0, snapshots |-> 0]

-----------------------------------------------------------------------------
(* What a handler decides from the files it has read.                      *)

\* cleanExpiredLocks.
Unexpired(l) ==
    [r \in Resources |-> IF l[r] # Unleased /\ l[r].expiresAt > clock
                         THEN l[r] ELSE Unleased]

WriteQueue(q) == [at |-> "queue", to |-> q]
WriteLocks(l) == [at |-> "locks", to |-> l]
Announce(what, rs, lease, task) ==
    [at |-> "trace", what |-> what, resources |-> rs, lease |-> lease, task |-> task]
Remark == [at |-> "trace", what |-> "remark"]     \* nobody acts upon it

\* Mutant: one free resource is enough.
PartlyFree(l) ==
    {i \in DOMAIN queue : \E r \in Needs[queue[i]] : l[r] = Unleased}

\* nextTask: the first task none of whose resources is leased.
FreeTasks(l) ==
    {i \in DOMAIN queue : \A r \in Needs[queue[i]] : l[r] = Unleased}

\* Mutant: the task stays in the queue.
ClaimTaskKeeping(l, o) ==
    IF FreeTasks(l) = {} THEN <<WriteQueue(queue), WriteLocks(l), Remark>>
    ELSE LET t == queue[Min(FreeTasks(l))]
         IN  <<WriteQueue(queue),
               WriteLocks([r \in Resources |-> IF r \in Needs[t] THEN Lease(o) ELSE l[r]]),
               Announce("assigned", Needs[t], Lease(o), t)>>

ClaimTask(l, o) ==
    IF FreeTasks(l) = {} THEN <<WriteQueue(queue), WriteLocks(l), Remark>>
    ELSE LET i == Min(FreeTasks(l))
             t == queue[i]
         IN  <<WriteQueue(RemoveAt(queue, i)),
               WriteLocks([r \in Resources |-> IF r \in Needs[t] THEN Lease(o) ELSE l[r]]),
               Announce("assigned", Needs[t], Lease(o), t)>>

\* The Trace of acquire and renew precedes the write.
Acquire(l, r, o) ==
    IF l[r] # Unleased THEN <<Remark, WriteLocks(l)>>
    ELSE <<Announce("granted", {r}, Lease(o), 0),
           WriteLocks([l EXCEPT ![r] = Lease(o)])>>

Renew(l, r, o) ==
    IF l[r] = Unleased \/ l[r].owner # o THEN <<Remark, WriteLocks(l)>>
    ELSE <<Announce("granted", {r}, Lease(o), 0),
           WriteLocks([l EXCEPT ![r] = Lease(o)])>>

\* release asks for no owner.
ReleaseLease(l, r) == <<WriteLocks([l EXCEPT ![r] = Unleased]), Remark>>

Enqueue(l, t) == <<WriteQueue(Append(queue, t)), WriteLocks(l), Remark>>

\* complete and fail; the journal and the Trace come first.
SettleTask(l) == <<Remark, WriteLocks(l), WriteQueue(queue)>>

StopLocker(l) == <<WriteLocks(l), [at |-> "exit"]>>

-----------------------------------------------------------------------------
(* Steps.                                                                  *)

Decide(effects) ==
    /\ up /\ todo = <<>> /\ spent.controls < MaxControls
    /\ todo' = effects
    /\ spent' = [spent EXCEPT !.controls = @ + 1]
    /\ UNCHANGED <<queue, locks, clock, up, snapshot, taken, assigned, enqueued, lost>>

Handle ==
    LET l == Unexpired(locks)
    IN  \/ /\ \/ \E o \in Owners : Decide(ClaimTask(l, o))
              \/ \E r \in Resources, o \in Owners :
                     Decide(Acquire(l, r, o)) \/ Decide(Renew(l, r, o))
              \/ \E t \in Tasks \ (enqueued \cup Range(queue)) : Decide(Enqueue(l, t))
              \/ Decide(SettleTask(l))
              \/ Decide(StopLocker(l))
           /\ UNCHANGED grants
        \/ \E r \in Resources :
               \* whoever asks for it, the grant is over
               Decide(ReleaseLease(l, r)) /\ grants' = {g \in grants : g.resource # r}

\* An owner that hears of a new lease forgets its old one.
Supersedes(e, g) == g.resource \in e.resources /\ g.lease.owner = e.lease.owner

Effect ==
    /\ up /\ todo # <<>>
    /\ LET e == Head(todo)
       IN  /\ queue' = IF e.at = "queue" THEN e.to ELSE queue
           /\ locks' = IF e.at = "locks" THEN e.to ELSE locks
           /\ up' = (e.at # "exit")
           /\ enqueued' = IF e.at = "queue" THEN enqueued \cup Range(e.to) ELSE enqueued
           /\ IF e.at = "trace" /\ e.what # "remark"
              THEN /\ grants' = {g \in grants : ~Supersedes(e, g)}
                               \cup {[resource |-> r, lease |-> e.lease] : r \in e.resources}
                   /\ assigned' = IF e.what = "assigned" THEN assigned \cup {e.task}
                                  ELSE assigned
              ELSE UNCHANGED <<grants, assigned>>
    /\ todo' = Tail(todo)
    /\ UNCHANGED <<clock, snapshot, taken, lost, spent>>

\* The tasks and leases whose handler dies half done: a task that left the
\* queue before anybody knew, a lease announced before it was written.
Unannounced == {t \in enqueued : t \notin Range(queue) /\ t \notin assigned}
Unwritten == {g \in grants : locks[g.resource] # g.lease}

LockerDies ==
    /\ up /\ spent.deaths < MaxDeaths
    /\ up' = FALSE /\ todo' = <<>>
    /\ lost' = lost \cup Unannounced
    /\ taken' = taken \cup Unwritten
    /\ spent' = [spent EXCEPT !.deaths = @ + 1]
    /\ UNCHANGED <<queue, locks, clock, snapshot, grants, assigned, enqueued>>

\* A start reads both files and writes them back.
StartLocker ==
    /\ ~up
    /\ up' = TRUE
    /\ todo' = <<WriteQueue(queue), WriteLocks(Unexpired(locks)), Remark>>
    /\ UNCHANGED <<queue, locks, clock, snapshot, grants, taken, assigned, enqueued, lost, spent>>

\* printSnapshot: another process reads the leases, drops the expired ones and
\* writes the rest back.
SnapshotRead ==
    /\ snapshot = NoSnapshot /\ spent.snapshots < MaxSnapshots
    /\ snapshot' = <<Unexpired(locks)>>
    /\ spent' = [spent EXCEPT !.snapshots = @ + 1]
    /\ UNCHANGED <<queue, locks, clock, up, todo, grants, taken, assigned, enqueued, lost>>

SnapshotWrite ==
    /\ snapshot # NoSnapshot
    /\ locks' = snapshot[1]
    /\ taken' = taken \cup {[resource |-> r, lease |-> locks[r]] :
                             r \in {r \in Resources : locks[r] \notin {Unleased, snapshot[1][r]}}}
    /\ snapshot' = NoSnapshot
    /\ UNCHANGED <<queue, clock, up, todo, grants, assigned, enqueued, lost, spent>>

Tick ==
    /\ clock < MaxTime
    /\ clock' = clock + 1
    /\ UNCHANGED <<queue, locks, up, todo, snapshot, grants, taken, assigned, enqueued, lost, spent>>

LockerNext ==
    Handle \/ Effect \/ LockerDies \/ StartLocker \/ SnapshotRead \/ SnapshotWrite \/ Tick

LockerSpec == LockerInit /\ [][LockerNext]_lockerVars
-----------------------------------------------------------------------------
(* Properties.                                                             *)

\* Tasks a handler in progress will announce.
InHand == {t \in Tasks : \E i \in DOMAIN todo : /\ todo[i].at = "trace"
                                                /\ todo[i].what = "assigned"
                                                /\ todo[i].task = t}

Places ==
    [waiting |-> Range(queue) \ InHand, inHand |-> InHand, assigned |-> assigned, lost |-> lost]

\* handle: a task that was written to the queue is waiting there once, is on
\* its way to an owner, was announced to one owner, or was lost by a death
\* inside a claim; it is never two of these, whatever the deaths and restarts.
TasksAccounted ==
    /\ IsInjective(queue)
    /\ Range(queue) \subseteq enqueued
    /\ \A t \in enqueued :
           \E here \in DOMAIN Places :
               \A place \in DOMAIN Places : t \in Places[place] <=> place = here

\* acquire, claim, renew: a lease that was announced to its owner is the lease
\* in the file until it expires or is released, so no resource has two owners;
\* except that a death between the announcement and the write, or a snapshot
\* that writes back what it read before, takes the lease away unnoticed.
GrantsAreKept ==
    todo = <<>> =>
        \A g \in grants \ taken : g.lease.expiresAt > clock => locks[g.resource] = g.lease
=============================================================================
