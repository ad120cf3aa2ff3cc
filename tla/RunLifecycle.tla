---------------------------- MODULE RunLifecycle ----------------------------
(***************************************************************************)
(* One Run state directory, file by file: startRun, the detached runner,   *)
(* stopRun and retainRun.  lib/async-runs.ts, lib/runs-start.ts,           *)
(* lib/runs-status.ts, lib/runs-control.ts, lib/runs-ownership.ts,         *)
(* lib/runs-retention.ts, scripts/async-runner.mjs.                        *)
(*                                                                         *)
(* Each of them writes several files, one after the other, and any write   *)
(* may be the last one: it throws, or its process dies.  What each still   *)
(* has to do is its `todo'.  Starts, stops and retention exclude each      *)
(* other by the lifecycle lock; the runner and whoever reads the status    *)
(* do not take it.                                                         *)
(*                                                                         *)
(* A generation is numbered, and so is its process.  Every piece of        *)
(* evidence carries the generation that produced it.  Texts, sessions,     *)
(* prompts and the audit of a review report (one more way to fail) are     *)
(* left out, and so is a pid that is taken over between the check of its   *)
(* identity and the signal.                                                *)
(***************************************************************************)
EXTENDS Naturals, Sequences, FiniteSets

CONSTANTS
    Launchers,      \* calls of startRun that may overlap
    Singleton,      \* the Run is one of a singleton Recipe
    Commands,       \* the commands of the template, by capture number
    Retries,        \* retry of each command
    Interruptions,  \* the stops that are asked for: "killed" or "cancelled"
    MaxGeneration,  \* bound: starts in the directory
    MaxFaults       \* bound: writes that throw, and deaths, in a behaviour

ASSUME LifecycleAssumption ==
    /\ {"nobody", "stop", "retain"} \cap Launchers = {}
    /\ Singleton \in BOOLEAN
    /\ Interruptions \subseteq {"killed", "cancelled"}
    /\ Retries \in Nat \ {0}
    /\ MaxGeneration \in Nat \ {0}
    /\ MaxFaults \in Nat

VARIABLES
    dir,        \* the files of the directory
    lock,       \* who holds the lifecycle lock
    launch,     \* the calls of startRun
    process,    \* "none", "unborn" (named in run.json, with pid 0), "live",
                \* "dead" or "recycled" (the pid is another's)
    runner,     \* the runner of each generation
    stop,       \* a call of stopRun
    retain,     \* a call of retainRun
    untracked,  \* history: runners that run.json stopped naming, or never did
    faults      \* writes that threw and processes that died

lifecycleVars ==
    <<dir, lock, launch, process, runner, stop, retain, untracked, faults>>

Generations == 1..MaxGeneration
Nobody == "nobody"
NoFile == [gen |-> 0]
Uncaptured == [n \in 1..Retries |-> 0]

-----------------------------------------------------------------------------
(* The directory.                                                          *)

EmptyDirectory ==
    [present |-> FALSE, marker |-> FALSE, tombstone |-> FALSE, run |-> NoFile,
     execution |-> NoFile, progress |-> NoFile, result |-> NoFile,
     handled |-> NoFile, trace |-> {},
     captures |-> [c \in Commands |-> Uncaptured]]

Traced(kind) == \E event \in dir.trace : event.kind = kind

\* verifyRunProcessIdentity, of the process run.json names.
Identity ==
    IF dir.run = NoFile \/ dir.run.pid = 0 THEN "dead_pid"
    ELSE IF process[dir.run.pid] \notin {"live", "recycled"} THEN "dead_pid"
    ELSE IF ~dir.run.proof THEN "unsupported_proof"
    ELSE IF process[dir.run.pid] = "live" THEN "valid" ELSE "owner_mismatch"

\* getInterruptedRunStatus: the last stop the Trace tells of.  Nothing is
\* cancelled after it was killed.
Interrupted ==
    IF Traced("killed") THEN "killed"
    ELSE IF Traced("cancelled") THEN "cancelled" ELSE "exited"

\* buildRunStatus.
Status ==
    IF dir.result # NoFile THEN dir.result.outcome
    ELSE IF Identity \in {"valid", "unsupported_proof"} THEN "running"
    ELSE Interrupted

\* writeJsonAtomic creates a directory that is gone; an append does not.
Writable(file) == dir.present \/ file \in {"execution", "progress", "result"}

\* Something is in the directory that claimRunStateDirectory did not write.
Occupied == [dir EXCEPT !.present = FALSE] # EmptyDirectory

-----------------------------------------------------------------------------
(* startRun.                                                               *)

\* prepareStateDirForStart removes the evidence of the generation before:
\* neither its captures nor its run.json, which is written over afterwards.
Removed == {"execution", "progress", "result", "handled", "trace"}

LaunchSteps ==
    <<"lock", "claim", "check", "prepare", "execution", "progress", "result",
      "handled", "trace", "run", "starting", "spawn", "pid", "start">>

Idle == [todo |-> <<>>, gen |-> 0]

\* readActiveOwnedRunState: a Run with a result is not active any more.
Active ==
    dir.run # NoFile /\ dir.result = NoFile /\ Identity = "valid"

\* ... and a live process whose identity cannot be proved refuses the start.
Unproved ==
    dir.run # NoFile /\ dir.result = NoFile
        /\ Identity \in {"owner_mismatch", "unsupported_proof"}

\* assertNoActiveRunState before the lock, of all but singletons.
CallStart(l) ==
    /\ launch[l] = Idle
    /\ Singleton \/ ~(Active \/ Unproved)
    /\ launch' = [launch EXCEPT ![l] =
            [Idle EXCEPT !.todo = LaunchSteps]]
    /\ dir' = [dir EXCEPT !.present = TRUE]
    /\ UNCHANGED <<lock, process, runner, stop, retain, untracked, faults>>

Launching(l, step) ==
    launch[l].todo # <<>> /\ Head(launch[l].todo) = step

StepDone(l) == launch' = [launch EXCEPT ![l].todo = Tail(@)]

LockDirectory(l) ==
    /\ Launching(l, "lock") /\ lock = Nobody
    /\ lock' = l
    /\ StepDone(l)
    /\ UNCHANGED <<dir, process, runner, stop, retain, untracked, faults>>

\* claimRunStateDirectory: the marker is there, or nothing else is.
Claimable == dir.marker \/ ~Occupied

Claim(l) ==
    /\ Launching(l, "claim") /\ Claimable
    /\ dir' = [dir EXCEPT !.present = TRUE, !.marker = TRUE]
    /\ StepDone(l)
    /\ UNCHANGED <<lock, process, runner, stop, retain, untracked, faults>>

CheckInactive(l) ==
    /\ Launching(l, "check") /\ ~Active /\ ~Unproved
    /\ StepDone(l)
    /\ UNCHANGED <<dir, lock, process, runner, stop, retain, untracked, faults>>

\* Mutant: a Run with a result is taken for over.
StartableByResult == dir.result # NoFile \/ Identity = "dead_pid"

\* Mutant: only a process that is proved to be the runner counts.
StartableUnlessValid == Identity # "valid"

\* prepareStateDirForStart looks at the process again, whatever the result.
Startable == Identity = "dead_pid"

Prepare(l) ==
    /\ Launching(l, "prepare") /\ Startable
    /\ StepDone(l)
    /\ UNCHANGED <<dir, lock, process, runner, stop, retain, untracked, faults>>

Emptied(file) == IF file = "trace" THEN {} ELSE NoFile

RemoveEvidence(l) ==
    \E file \in Removed :
        /\ Launching(l, file)
        /\ dir' = [dir EXCEPT ![file] = Emptied(file)]
        /\ StepDone(l)
        /\ UNCHANGED <<lock, process, runner, stop, retain, untracked, faults>>

\* The generations started so far, and the next one.
Started == {g \in Generations : process[g] # "none"}
NextGeneration == Cardinality(Started) + 1

\* run.json of the new generation, with pid 0.
WriteRun(l) ==
    /\ Launching(l, "run") /\ NextGeneration \in Generations
    /\ dir' = [dir EXCEPT !.run =
            [gen |-> NextGeneration, pid |-> 0, proof |-> FALSE]]
    /\ launch' = [launch EXCEPT ![l].todo = Tail(@), ![l].gen = NextGeneration]
    /\ process' = [process EXCEPT ![NextGeneration] = "unborn"]
    /\ UNCHANGED <<lock, runner, stop, retain, untracked, faults>>

WriteStarting(l) ==
    /\ Launching(l, "starting")
    /\ dir' = [dir EXCEPT !.progress =
            [gen |-> launch[l].gen, phase |-> "starting"]]
    /\ StepDone(l)
    /\ UNCHANGED <<lock, process, runner, stop, retain, untracked, faults>>

Log(kind) == [file |-> "trace", kind |-> kind]
File(file, state) == [file |-> file, state |-> state]

NotStarted == [c \in Commands |-> [state |-> "none", tries |-> 0, seen |-> Uncaptured]]

NoRunner == [todo |-> <<>>, phase |-> "over", commands |-> NotStarted, struck |-> FALSE]

\* What the runner begins with.
Boot == <<Log("run.runner.start"), File("progress", "running")>>

Spawn(l) ==
    /\ Launching(l, "spawn")
    /\ process' = [process EXCEPT ![launch[l].gen] = "live"]
    /\ runner' = [runner EXCEPT ![launch[l].gen] =
            [NoRunner EXCEPT !.todo = Boot, !.phase = "main"]]
    /\ StepDone(l)
    /\ UNCHANGED <<dir, lock, stop, retain, untracked, faults>>

\* run.json once more, with the pid, and with its identity if it can be read.
RecordPid(l) ==
    /\ Launching(l, "pid")
    /\ \E proof \in (IF process[launch[l].gen] = "live" THEN BOOLEAN ELSE {FALSE}) :
           dir' = [dir EXCEPT !.run.pid = launch[l].gen, !.run.proof = proof]
    /\ StepDone(l)
    /\ UNCHANGED <<lock, process, runner, stop, retain, untracked, faults>>

Traces(gen, kind) == dir.trace \cup {[gen |-> gen, kind |-> kind]}

LogStart(l) ==
    /\ Launching(l, "start")
    /\ dir' = [dir EXCEPT !.trace = Traces(launch[l].gen, "run.start")]
    /\ launch' = [launch EXCEPT ![l] = Idle]
    /\ lock' = Nobody
    /\ UNCHANGED <<process, runner, stop, retain, untracked, faults>>

\* Refused at a check.  A compatible active singleton is the answer itself
\* (reuseCompatibleSingletonRun), which changes nothing either.
StartEnds(l) ==
    /\ lock = l
    /\ \/ Launching(l, "claim") /\ ~Claimable
       \/ Launching(l, "check") /\ (Active \/ Unproved)
       \/ Launching(l, "prepare") /\ ~Startable
       \/ Launching(l, "run") /\ NextGeneration \notin Generations
    /\ launch' = [launch EXCEPT ![l] = Idle]
    /\ lock' = Nobody
    /\ UNCHANGED <<dir, process, runner, stop, retain, untracked, faults>>

\* A write throws and the lock is released, or the process dies and the lock
\* is reclaimed.  The runner of a start that stops before "pid" is on its own.
StartBreaks(l) ==
    /\ lock = l /\ faults < MaxFaults
    /\ untracked' = IF Launching(l, "pid") /\ process[launch[l].gen] = "live"
                    THEN untracked \cup {launch[l].gen} ELSE untracked
    /\ launch' = [launch EXCEPT ![l] = Idle]
    /\ lock' = Nobody
    /\ faults' = faults + 1
    /\ UNCHANGED <<dir, process, runner, stop, retain>>

-----------------------------------------------------------------------------
(* The detached runner.  What it does between two waits is one block of    *)
(* writes; its other commands run on meanwhile.                            *)

Live(g) == process[g] = "live"

\* observedExec writes the same three files before and after its command.
Block(kind) ==
    <<File("execution", "running"), Log(kind), File("progress", "running")>>

\* Mutant: the Trace is told before the result is there.
DoneBlockTraceFirst ==
    <<File("log", "stdout"), File("execution", "done"), File("progress", "done"),
      Log("run.done"), File("result", "done")>>

\* The end of the try block of runAsyncRunner, after the text on stdout.
DoneBlock ==
    <<File("log", "stdout"), File("execution", "done"), File("progress", "done"),
      File("result", "done"), Log("run.done")>>

\* Its catch block.
FailedBlock ==
    <<File("log", "stderr"), File("execution", "failed"), File("progress", "failed"),
      File("result", "failed"), Log("run.failed")>>

\* A write of the runner, on the files as they are.
Written(g, w) ==
    CASE w.file = "log" -> dir
      [] w.file = "trace" -> [dir EXCEPT !.trace = Traces(g, w.kind)]
      [] w.file = "execution" ->
            [dir EXCEPT !.present = TRUE, !.execution =
                [gen |-> g, state |-> w.state, commands |-> runner[g].commands]]
      [] w.file = "progress" ->
            [dir EXCEPT !.present = TRUE, !.progress = [gen |-> g, phase |-> w.state]]
      [] w.file = "result" ->
            [dir EXCEPT !.present = TRUE, !.result = [gen |-> g, outcome |-> w.state]]

\* A struck runner may still finish the write it is in.
RunnerWrites(g) ==
    /\ Live(g) /\ runner[g].todo # <<>> /\ Writable(Head(runner[g].todo).file)
    /\ dir' = Written(g, Head(runner[g].todo))
    /\ runner' = [runner EXCEPT ![g].todo = Tail(@)]
    /\ process' = IF runner[g].struck THEN [process EXCEPT ![g] = "dead"] ELSE process
    /\ UNCHANGED <<lock, launch, stop, retain, untracked, faults>>

\* A write throws: into the catch block, or out of it.
RunnerThrows(g) ==
    /\ Live(g) /\ ~runner[g].struck /\ runner[g].todo # <<>>
    /\ IF Writable(Head(runner[g].todo).file)
       THEN faults < MaxFaults /\ faults' = faults + 1
       ELSE UNCHANGED faults
    /\ IF runner[g].phase \in {"main", "done"}
       THEN /\ runner' = [runner EXCEPT ![g].phase = "over", ![g].todo = FailedBlock]
            /\ UNCHANGED process
       ELSE /\ process' = [process EXCEPT ![g] = "dead"]
            /\ UNCHANGED runner
    /\ UNCHANGED <<dir, lock, launch, stop, retain, untracked>>

Waiting(g) ==
    Live(g) /\ ~runner[g].struck /\ runner[g].todo = <<>> /\ runner[g].phase = "main"

CommandStarts(g, c) ==
    /\ Waiting(g) /\ runner[g].commands[c].state = "none"
    /\ runner' = [runner EXCEPT ![g].commands[c].state = "running",
                                ![g].todo = Block("command.start")]
    /\ UNCHANGED <<dir, lock, launch, process, stop, retain, untracked, faults>>

\* execCommandTemplate keeps the output of each attempt in a directory of its
\* own, by command and attempt.
CommandAttempt(g, c) ==
    /\ Waiting(g) /\ runner[g].commands[c].state = "running"
    /\ runner[g].commands[c].tries < Retries
    /\ LET n == runner[g].commands[c].tries + 1
       IN  /\ dir' = [dir EXCEPT !.present = TRUE, !.captures[c][n] = g]
           /\ runner' = [runner EXCEPT ![g].commands[c].tries = n]
    /\ UNCHANGED <<lock, launch, process, stop, retain, untracked, faults>>

\* commandEvidenceRecord lists the attempts that are on disk.
CommandEnds(g, c) ==
    /\ Waiting(g) /\ runner[g].commands[c].state = "running"
    /\ runner[g].commands[c].tries > 0
    /\ \E state \in {"done"} \cup
           (IF runner[g].commands[c].tries = Retries THEN {"failed"} ELSE {}) :
           runner' = [runner EXCEPT
                ![g].commands[c] = [@ EXCEPT !.state = state, !.seen = dir.captures[c]],
                ![g].todo = Block("command.done")]
    /\ UNCHANGED <<dir, lock, launch, process, stop, retain, untracked, faults>>

\* executeRegisteredTool returns, or throws what ends in the catch block.
TemplateEnds(g) ==
    /\ Waiting(g)
    /\ \A c \in Commands : runner[g].commands[c].state # "running"
    /\ \/ runner' = [runner EXCEPT ![g].phase = "done", ![g].todo = DoneBlock]
       \/ runner' = [runner EXCEPT ![g].phase = "over", ![g].todo = FailedBlock]
    /\ UNCHANGED <<dir, lock, launch, process, stop, retain, untracked, faults>>

RunnerExits(g) ==
    /\ Live(g) /\ runner[g].todo = <<>> /\ runner[g].phase \in {"done", "over"}
    /\ process' = [process EXCEPT ![g] = "dead"]
    /\ UNCHANGED <<dir, lock, launch, runner, stop, retain, untracked, faults>>

\* By the signal of a stop, or of anybody else.
RunnerDies(g) ==
    /\ Live(g)
    /\ \/ runner[g].struck /\ UNCHANGED faults
       \/ faults < MaxFaults /\ faults' = faults + 1
    /\ process' = [process EXCEPT ![g] = "dead"]
    /\ UNCHANGED <<dir, lock, launch, runner, stop, retain, untracked>>

\* Another process gets the pid, and ends.
PidIsTaken(g) ==
    /\ process[g] = "dead"
    /\ process' = [process EXCEPT ![g] = "recycled"]
    /\ UNCHANGED <<dir, lock, launch, runner, stop, retain, untracked, faults>>

PidIsFree(g) ==
    /\ process[g] = "recycled"
    /\ process' = [process EXCEPT ![g] = "dead"]
    /\ UNCHANGED <<dir, lock, launch, runner, stop, retain, untracked, faults>>

-----------------------------------------------------------------------------
(* stopRun, with SIGTERM (cancel) or SIGKILL (kill).                       *)

StopSteps ==
    <<"signal", "trace", "handled", "read", "execution", "progress">>

NoStop == [todo |-> <<>>, how |-> "none", gen |-> 0, read |-> NoFile]

Stopping(step) == stop.todo # <<>> /\ Head(stop.todo) = step

\* Mutant: the generation was looked at by the caller.
StoppableUnfenced(gen) ==
    dir.run # NoFile /\ Status = "running" /\ Identity = "valid"

\* What a stop of the generation its caller has seen demands, under the lock.
Stoppable(gen) ==
    /\ dir.run # NoFile /\ dir.run.gen = gen
    /\ Status = "running" /\ Identity = "valid"

\* A stop that is refused changes nothing.
CallStop(how, gen) ==
    /\ lock = Nobody /\ Stoppable(gen)
    /\ lock' = "stop"
    /\ stop' = [NoStop EXCEPT !.todo = StopSteps, !.how = how, !.gen = gen]
    /\ UNCHANGED <<dir, launch, process, runner, retain, untracked, faults>>

\* signalOwnedRunProcess: verified once more, then signalled.
StopSignals ==
    /\ Stopping("signal")
    /\ IF Identity = "valid"
       THEN /\ runner' = [runner EXCEPT ![dir.run.pid].struck = TRUE]
            /\ stop' = [stop EXCEPT !.todo = Tail(@)]
            /\ UNCHANGED lock
       ELSE stop' = NoStop /\ lock' = Nobody /\ UNCHANGED runner
    /\ UNCHANGED <<dir, launch, process, retain, untracked, faults>>

StopLogs ==
    /\ Stopping("trace")
    /\ dir' = [dir EXCEPT !.trace = Traces(stop.gen, stop.how)]
    /\ stop' = [stop EXCEPT !.todo = Tail(@)]
    /\ UNCHANGED <<lock, launch, process, runner, retain, untracked, faults>>

StopMarksHandled ==
    /\ Stopping("handled")
    /\ dir' = [dir EXCEPT !.handled = [gen |-> stop.gen]]
    /\ stop' = [stop EXCEPT !.todo = Tail(@)]
    /\ UNCHANGED <<lock, launch, process, runner, retain, untracked, faults>>

\* finalizeInterruptedExecution reads the manifest ...
StopReadsExecution ==
    /\ Stopping("read")
    /\ stop' = [stop EXCEPT !.todo = Tail(@), !.read = dir.execution]
    /\ UNCHANGED <<dir, lock, launch, process, runner, retain, untracked, faults>>

Ended(how, c, command) ==
    IF command.state = "running"
    THEN [command EXCEPT !.state = how, !.seen = dir.captures[c]] ELSE command

\* ... and ends the commands it still calls running.
StopWritesExecution ==
    /\ Stopping("execution")
    /\ dir' = IF stop.read = NoFile THEN dir
              ELSE [dir EXCEPT !.execution =
                    [gen |-> stop.read.gen, state |-> stop.how,
                     commands |-> [c \in Commands |->
                        Ended(stop.how, c, stop.read.commands[c])]]]
    /\ stop' = [stop EXCEPT !.todo = Tail(@)]
    /\ UNCHANGED <<lock, launch, process, runner, retain, untracked, faults>>

StopWritesProgress ==
    /\ Stopping("progress")
    /\ dir' = [dir EXCEPT !.progress = [gen |-> stop.gen, phase |-> stop.how]]
    /\ stop' = NoStop
    /\ lock' = Nobody
    /\ UNCHANGED <<launch, process, runner, retain, untracked, faults>>

StopBreaks ==
    /\ lock = "stop" /\ faults < MaxFaults
    /\ stop' = NoStop
    /\ lock' = Nobody
    /\ faults' = faults + 1
    /\ UNCHANGED <<dir, launch, process, runner, retain, untracked>>

-----------------------------------------------------------------------------
(* retainRun: archive renames a terminal directory away and leaves a       *)
(* tombstone; prune removes it.                                            *)

Retainable == dir.run # NoFile /\ dir.marker /\ Status # "running"

TakeAway(how) ==
    /\ lock = Nobody /\ retain = "none" /\ Retainable
    /\ dir' = EmptyDirectory
    /\ untracked' = untracked \cup {g \in Generations : Live(g) /\ dir.run.pid = g}
    /\ IF how = "archive"
       THEN retain' = "tombstone" /\ lock' = "retain" ELSE UNCHANGED <<retain, lock>>
    /\ UNCHANGED <<launch, process, runner, stop, faults>>

LeaveTombstone ==
    /\ retain = "tombstone"
    /\ dir' = [dir EXCEPT !.present = TRUE, !.tombstone = TRUE]
    /\ retain' = "none"
    /\ lock' = Nobody
    /\ UNCHANGED <<launch, process, runner, stop, untracked, faults>>

RetainBreaks ==
    /\ retain = "tombstone" /\ faults < MaxFaults
    /\ retain' = "none"
    /\ lock' = Nobody
    /\ faults' = faults + 1
    /\ UNCHANGED <<dir, launch, process, runner, stop, untracked>>

-----------------------------------------------------------------------------
LifecycleInit ==
    /\ dir = EmptyDirectory
    /\ lock = Nobody
    /\ launch = [l \in Launchers |-> Idle]
    /\ process = [g \in Generations |-> "none"]
    /\ runner = [g \in Generations |-> NoRunner]
    /\ stop = NoStop
    /\ retain = "none"
    /\ untracked = {}
    /\ faults = 0

StartStep(l) ==
    \/ CallStart(l) \/ LockDirectory(l) \/ Claim(l) \/ CheckInactive(l) \/ Prepare(l)
    \/ RemoveEvidence(l) \/ WriteRun(l) \/ WriteStarting(l) \/ Spawn(l)
    \/ RecordPid(l) \/ LogStart(l) \/ StartEnds(l) \/ StartBreaks(l)

RunnerStep(g) ==
    \/ RunnerWrites(g) \/ RunnerThrows(g) \/ TemplateEnds(g)
    \/ \E c \in Commands :
           CommandStarts(g, c) \/ CommandAttempt(g, c) \/ CommandEnds(g, c)
    \/ RunnerExits(g) \/ RunnerDies(g)

PidStep(g) == PidIsTaken(g) \/ PidIsFree(g)

StopStep ==
    \/ \E how \in Interruptions, gen \in Started : CallStop(how, gen)
    \/ StopSignals \/ StopLogs \/ StopMarksHandled
    \/ StopReadsExecution \/ StopWritesExecution \/ StopWritesProgress \/ StopBreaks

RetainStep ==
    \/ \E how \in {"archive", "prune"} : TakeAway(how)
    \/ LeaveTombstone \/ RetainBreaks

LifecycleNext ==
    \/ \E l \in Launchers : StartStep(l)
    \/ \E g \in Generations : RunnerStep(g) \/ PidStep(g)
    \/ StopStep \/ RetainStep

LifecycleSpec == LifecycleInit /\ [][LifecycleNext]_lifecycleVars

-----------------------------------------------------------------------------
(* Properties.                                                             *)

\* What is left of a list of steps: the last n of them.
Ending(steps, n) == SubSeq(steps, Len(steps) - n + 1, Len(steps))

Phases == {"starting", "running", "done", "failed", "killed", "cancelled"}

Kinds ==
    {"run.start", "run.runner.start", "command.start", "command.done", "run.done",
     "run.failed", "killed", "cancelled"}

\* The numbers a file may carry, 0 for none; what an attempt leaves, by number.
Numbers == {0} \cup Generations
Captures == [1..Retries -> Numbers]

CommandRecords ==
    [state: {"none", "running", "done", "failed", "killed", "cancelled"},
     tries: 0..Retries, seen: Captures]

Manifests ==
    {NoFile} \cup [gen: Generations, state: Phases, commands: [Commands -> CommandRecords]]

RunFiles == {NoFile} \cup [gen: Generations, pid: Numbers, proof: BOOLEAN]
ProgressFiles == {NoFile} \cup [gen: Generations, phase: Phases]
ResultFiles == {NoFile} \cup [gen: Generations, outcome: {"done", "failed"}]
HandledFiles == {NoFile} \cup [gen: Generations]

Directories ==
    [present: BOOLEAN, marker: BOOLEAN, tombstone: BOOLEAN, run: RunFiles,
     execution: Manifests, progress: ProgressFiles, result: ResultFiles,
     handled: HandledFiles, trace: SUBSET [gen: Generations, kind: Kinds],
     captures: [Commands -> Captures]]

\* The writes of a runner: between its commands, and at its end.
MainWrites ==
    {File("execution", "running"), File("progress", "running"),
     Log("run.runner.start"), Log("command.start"), Log("command.done")}

FinalWrites ==
    {File("log", "stdout"), File("log", "stderr"), Log("run.done"), Log("run.failed")}
        \cup {File(file, state) : file \in {"execution", "progress", "result"},
                                 state \in {"done", "failed"}}

AllWrites == MainWrites \cup FinalWrites

Runners ==
    [todo: Seq(AllWrites), phase: {"main", "done", "over"},
     commands: [Commands -> CommandRecords], struck: BOOLEAN]

\* The type invariant of the files of lib/async-runs.ts and of who works on them.
LifecycleTypeOK ==
    /\ dir \in Directories
    /\ lock \in {Nobody, "stop", "retain"} \cup Launchers
    /\ launch \in [Launchers ->
        [todo: {Ending(LaunchSteps, n) : n \in 0..14}, gen: Numbers]]
    /\ process \in [Generations -> {"none", "unborn", "live", "dead", "recycled"}]
    /\ runner \in [Generations -> Runners]
    /\ stop \in [todo: {Ending(StopSteps, n) : n \in 0..6},
                 how: {"none"} \cup Interruptions, gen: Numbers, read: Manifests]
    /\ retain \in {"none", "tombstone"}
    /\ untracked \subseteq Generations
    /\ faults \in 0..MaxFaults

\* Evidence in the directory of a Run, whoever read, stopped or started it in
\* between, is that of the generation run.json names, or was left by a runner
\* that nobody can find any more.
EvidenceIsOwn ==
    dir.run # NoFile =>
        LET known == {0, dir.run.gen} \cup untracked
        IN  /\ \A file \in {"execution", "progress", "result", "handled"} :
                   dir[file].gen \in known
            /\ \A event \in dir.trace : event.gen \in known

\* A Run that its Trace announces as done has no other result, whichever write
\* of the runner failed (scripts/async-runner.mjs: result.json, then run.done,
\* and a catch that overwrites the result).
AnnouncedIsRecorded ==
    untracked = {} =>
        /\ Traced("run.done") => dir.result = NoFile \/ dir.result.outcome = "done"
        /\ Traced("run.failed") => dir.result = NoFile \/ dir.result.outcome = "failed"

\* A live runner is named by run.json, so that it can be seen and stopped: but
\* for one whose start is about to record it, whose start broke off just then,
\* or whose directory was taken away when its result was there.
RunnersAreFound ==
    \A g \in Generations : Live(g) =>
        \/ dir.run # NoFile /\ dir.run.pid = g
        \/ \E l \in Launchers : launch[l].gen = g /\ Launching(l, "pid")
        \/ g \in untracked

\* docs/async-runs.md: a restart in the same directory clears all evidence of
\* the generation before.  No attempt that execution.json lists is an older
\* generation's.
AttemptsAreOwn ==
    untracked = {} /\ dir.execution # NoFile =>
        \A c \in Commands, n \in 1..Retries :
            dir.execution.commands[c].seen[n] \in {0, dir.execution.gen}
=============================================================================
