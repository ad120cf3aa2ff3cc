--------------------------- MODULE RunGenerations ---------------------------
(***************************************************************************)
(* The durable state of Runs as the coordinator sees it: one state         *)
(* directory per Run, re-used by successive generations                    *)
(* (run_instance_id), written by the detached runner, by stopRun and by    *)
(* whoever starts or retains the Run.  lib/async-runs.ts,                  *)
(* lib/runs-status.ts, lib/runs-start.ts, scripts/async-runner.mjs.        *)
(*                                                                         *)
(* A Run is a state directory.  `generation' counts the starts in it, so   *)
(* that <<r, n>> is what the code calls an exact generation.  The status   *)
(* of a Run is never stored: buildRunStatus derives it from result.json,   *)
(* from the liveness of the recorded process and from the interruption     *)
(* the Trace records, in that order, and so does Status below.             *)
(***************************************************************************)
EXTENDS Naturals, Sequences, FiniteSets

CONSTANTS
    Runs,           \* state directories
    NoRun,          \* the parent of a top-level Run
    Parent,         \* delivery parent of each Run (NoRun for a top-level one)
    Silent,         \* Runs with notification_policy "silent"
    Codes,          \* outcomes a runner can record: subset of {"done", "failed"}
    Interruptions,  \* stops that can happen: subset of {"killed", "cancelled"}
    Events,         \* urgent (attention: "steer") Trace events, by id
    MaxGeneration,  \* bound on the starts in one directory
    TraceMax        \* bound on the events one Trace journal retains

ASSUME RunsAssumption ==
    /\ IsFiniteSet(Runs)
    /\ NoRun \notin Runs
    /\ Parent \in [Runs -> Runs \cup {NoRun}]
    /\ Silent \subseteq Runs
    /\ Codes \subseteq {"done", "failed"}
    /\ Interruptions \subseteq {"killed", "cancelled"}
    /\ MaxGeneration \in Nat
    /\ TraceMax \in Nat \ {0}

VARIABLES
    generation,     \* current generation of each directory, 0 before the first
    present,        \* the directory holds a run.json
    process,        \* "unborn" (pid 0 recorded), "live" or "dead"
    result,         \* result.json: "none" or an outcome
    cut,            \* run.kill / run.cancel in the Trace: "none" or a stop
    handled,        \* terminal-handled.json exists
    stopping,       \* stop in progress under the lifecycle lock, or "none"
    parentGeneration,   \* generation of the parent recorded in delivery_parent
    trace,          \* urgent events and presentation markers, oldest first
    published       \* event ids already appended somewhere (ids are unique)

runVars == <<generation, present, process, result, cut, handled, stopping,
             parentGeneration, trace, published>>

TerminalStatuses == {"done", "failed", "killed", "cancelled", "exited"}
Statuses == TerminalStatuses \cup {"running"}

\* Statuses shouldNotifyRunTransition lets into a completion batch.
NotifiedStatuses == {"done", "failed", "killed", "exited"}

\* One exact terminal record, as a completion batch member names it.
Member == [run : Runs, generation : 1 .. MaxGeneration,
           status : NotifiedStatuses]

\* One urgent event of one exact generation: what getRunSteerDeliveryId hashes.
Steer == [run : Runs, generation : 1 .. MaxGeneration, event : Events]

TraceItem == [kind : {"steer", "presented"}, event : Events]

RunsTypeOK ==
    /\ generation \in [Runs -> 0 .. MaxGeneration]
    /\ present \in [Runs -> BOOLEAN]
    /\ process \in [Runs -> {"unborn", "live", "dead"}]
    /\ result \in [Runs -> {"none", "done", "failed"}]
    /\ cut \in [Runs -> {"none", "killed", "cancelled"}]
    /\ handled \in [Runs -> BOOLEAN]
    /\ stopping \in [Runs -> {"none", "killed", "cancelled"}]
    /\ parentGeneration \in [Runs -> Nat]
    /\ trace \in [Runs -> Seq(TraceItem)]
    /\ published \in SUBSET Events

RunsInit ==
    /\ generation = [r \in Runs |-> 0]
    /\ present = [r \in Runs |-> FALSE]
    /\ process = [r \in Runs |-> "dead"]
    /\ result = [r \in Runs |-> "none"]
    /\ cut = [r \in Runs |-> "none"]
    /\ handled = [r \in Runs |-> FALSE]
    /\ stopping = [r \in Runs |-> "none"]
    /\ parentGeneration = [r \in Runs |-> 0]
    /\ trace = [r \in Runs |-> <<>>]
    /\ published = {}

-----------------------------------------------------------------------------
(* Derived status.                                                         *)

\* buildRunStatus, given the result that was read and the process state seen.
DeriveStatus(res, live, stop) ==
    IF res # "none" THEN res
    ELSE IF live THEN "running"
    ELSE IF stop # "none" THEN stop
    ELSE "exited"

Status(r) == DeriveStatus(result[r], process[r] = "live", cut[r])

Terminal(r) == present[r] /\ Status(r) # "running"

\* The last TraceMax items: appendRunTraceEvent keeps the newest suffix.
Newest(s) == IF Len(s) <= TraceMax THEN s
             ELSE SubSeq(s, Len(s) - TraceMax + 1, Len(s))

AppendTrace(r, item) == [trace EXCEPT ![r] = Newest(Append(@, item))]

InTrace(r, kind, e) ==
    \E i \in DOMAIN trace[r] : trace[r][i] = [kind |-> kind, event |-> e]

-----------------------------------------------------------------------------
(* Starting.  prepareStateDirForStart removes what the previous            *)
(* generation left: result, Trace and handled marker included.             *)

\* Neither assertNoActiveRunState nor prepareStateDirForStart object.
Startable(r) ==
    /\ stopping[r] = "none"
    /\ generation[r] < MaxGeneration
    /\ process[r] # "live"

FreshGeneration(r, proc) ==
    /\ generation' = [generation EXCEPT ![r] = @ + 1]
    /\ present' = [present EXCEPT ![r] = TRUE]
    /\ process' = [process EXCEPT ![r] = proc]
    /\ result' = [result EXCEPT ![r] = "none"]
    /\ cut' = [cut EXCEPT ![r] = "none"]
    /\ handled' = [handled EXCEPT ![r] = FALSE]
    /\ parentGeneration' = [parentGeneration EXCEPT ![r] =
            IF Parent[r] = NoRun THEN 0 ELSE generation[Parent[r]]]
    /\ trace' = [trace EXCEPT ![r] = <<>>]
    /\ UNCHANGED <<stopping, published>>

\* A top-level Run is started by the coordinator's own process, which does
\* nothing else until startRun returns.
StartTopLevel(r) ==
    /\ Startable(r)
    /\ FreshGeneration(r, "live")

\* A nested Run is started by an actor process that its parent's runner waits
\* for, or kills; the coordinator may look between the first run.json (pid 0)
\* and the second.
StartNested(r) ==
    /\ Startable(r)
    /\ FreshGeneration(r, "unborn")

SpawnNested(r) ==
    /\ process[r] = "unborn"
    /\ process' = [process EXCEPT ![r] = "live"]
    /\ UNCHANGED <<generation, present, result, cut, handled, stopping,
                   parentGeneration, trace, published>>

-----------------------------------------------------------------------------
(* The detached runner.                                                    *)

RunnerPublishSteer(r, e) ==
    /\ process[r] = "live" /\ result[r] = "none" /\ present[r]
    /\ e \notin published
    /\ published' = published \cup {e}
    /\ trace' = AppendTrace(r, [kind |-> "steer", event |-> e])
    /\ UNCHANGED <<generation, present, process, result, cut, handled,
                   stopping, parentGeneration>>

RunnerFinish(r, code) ==
    /\ process[r] = "live" /\ result[r] = "none" /\ present[r]
    /\ result' = [result EXCEPT ![r] = code]
    /\ UNCHANGED <<generation, present, process, cut, handled, stopping,
                   parentGeneration, trace, published>>

\* After its result, or instead of it (a crash, or the signal of a stop).
RunnerExit(r) ==
    /\ process[r] = "live"
    /\ process' = [process EXCEPT ![r] = "dead"]
    /\ UNCHANGED <<generation, present, result, cut, handled, stopping,
                   parentGeneration, trace, published>>

-----------------------------------------------------------------------------
(* stopRun holds the lifecycle lock from the signal to the records.        *)

\* The status is checked first.  The runner may finish, or be gone, before the
\* signal reaches it.
StopSignal(r, how) ==
    /\ stopping[r] = "none" /\ present[r] /\ Status(r) = "running"
    /\ stopping' = [stopping EXCEPT ![r] = how]
    /\ UNCHANGED <<generation, present, process, result, cut, handled,
                   parentGeneration, trace, published>>

\* Then the Trace event that makes the status killed or cancelled: SIGKILL has
\* ended the process by then, SIGTERM may leave it time to finish ...
StopRecord(r) ==
    /\ stopping[r] # "none" /\ cut[r] # stopping[r]
    /\ cut' = [cut EXCEPT ![r] = stopping[r]]
    /\ process' = IF stopping[r] = "killed" THEN [process EXCEPT ![r] = "dead"]
                  ELSE process
    /\ UNCHANGED <<generation, present, result, handled, stopping,
                   parentGeneration, trace, published>>

\* ... then the marker that keeps it out of completion batches.
StopHandled(r) ==
    /\ stopping[r] # "none" /\ cut[r] = stopping[r]
    /\ handled' = [handled EXCEPT ![r] = TRUE]
    /\ stopping' = [stopping EXCEPT ![r] = "none"]
    /\ UNCHANGED <<generation, present, process, result, cut,
                   parentGeneration, trace, published>>

\* The signal fails (the process is gone, or is not the recorded one any more)
\* and nothing is recorded; or the stopping process dies and its lock is reclaimed.
StopAbandoned(r) ==
    /\ stopping[r] # "none"
    /\ stopping' = [stopping EXCEPT ![r] = "none"]
    /\ UNCHANGED <<generation, present, process, result, cut, handled,
                   parentGeneration, trace, published>>

\* retainRun: archive and prune both take a terminal directory away, and with
\* run.json the record of a process that may still be on its way out.
RetainRun(r) ==
    /\ stopping[r] = "none" /\ Terminal(r)
    /\ present' = [present EXCEPT ![r] = FALSE]
    /\ process' = [process EXCEPT ![r] = "dead"]
    /\ result' = [result EXCEPT ![r] = "none"]
    /\ cut' = [cut EXCEPT ![r] = "none"]
    /\ handled' = [handled EXCEPT ![r] = FALSE]
    /\ trace' = [trace EXCEPT ![r] = <<>>]
    /\ UNCHANGED <<generation, stopping, parentGeneration, published>>
-----------------------------------------------------------------------------
(* Delivery lineage: which Run heads the tree a Run belongs to, and when   *)
(* that tree is complete.  observability.ts deliveryTreePosition.          *)

\* r itself and the Runs above it: the least set that holds r and the parent of
\* every Run in it.
Line(r) ==
    {a \in Runs : \A S \in SUBSET Runs :
        r \in S /\ (\A x \in S : Parent[x] \in S \cup {NoRun}) => a \in S}

Depth(r) == Cardinality(Line(r)) - 1

TreeRoot(r) == CHOOSE a \in Line(r) : Parent[a] = NoRun

\* What an observer reads of every directory: run.json, the derived status and
\* terminal-handled.json.
CurrentView ==
    [r \in Runs |-> [present |-> present[r], generation |-> generation[r],
                     parentGeneration |-> parentGeneration[r],
                     status |-> Status(r), handled |-> handled[r]]]

\* The recorded parent generations lead, through audible Runs that still
\* exist, to a top-level Run.
LinkedIn(view, r) ==
    \A a \in Line(r) : Parent[a] # NoRun =>
        /\ view[Parent[a]].present
        /\ view[Parent[a]].generation = view[a].parentGeneration
        /\ Parent[a] \notin Silent

\* Mutant: only the Run itself is looked at, not the tree it belongs to.
TreeRunningAlone(view, r) == view[r].present /\ view[r].status = "running"

\* A tree with a member still running delivers nothing.
TreeRunning(view, r) ==
    \E x \in Runs : /\ view[x].present /\ view[x].status = "running"
                    /\ LinkedIn(view, x) /\ TreeRoot(x) = TreeRoot(r)

\* What r's own record and tree demand of a Run to report.
Reportable(view, r) ==
    /\ view[r].status \in NotifiedStatuses
    /\ r \notin Silent
    /\ LinkedIn(view, r)
    /\ ~TreeRunning(view, r)

\* Mutant: terminal-handled.json is not looked at.
DeliverableAgain(view, r) == view[r].present /\ Reportable(view, r)

Deliverable(view, r) ==
    view[r].present /\ ~view[r].handled /\ Reportable(view, r)

\* collectRunCompletionBatchMembers over detectRunTransitions.
Candidates(view) ==
    {[run |-> r, generation |-> view[r].generation, status |-> view[r].status] :
        r \in {x \in Runs : Deliverable(view, x)}}
=============================================================================
