------------------------- MODULE RunLifecycleProofs -------------------------
(***************************************************************************)
(* One state directory, for any number of launchers, generations, commands *)
(* and faults: the types, the runner that can be found, the evidence that  *)
(* is its own, and the result its Trace announces.                         *)
(***************************************************************************)
EXTENDS RunLifecycle, SequenceTheorems, TLAPS

-----------------------------------------------------------------------------
(* What is left of a list of steps.                                        *)

LEMMA EndingSteps ==
    ASSUME NEW S, NEW s \in Seq(S), NEW n \in 0..Len(s)
    PROVE  /\ Ending(s, n) \in Seq(S)
           /\ Len(Ending(s, n)) = n
           /\ n = 0 <=> Ending(s, n) = <<>>
           /\ n # 0 => /\ Head(Ending(s, n)) = s[Len(s) - n + 1]
                       /\ Tail(Ending(s, n)) = Ending(s, n - 1)
<1> DEFINE t == Ending(s, n)
<1>1. t = [i \in 1..n |-> s[i + (Len(s) - n + 1) - 1]]
  BY DEF Ending
<1>2. t \in Seq(S) /\ Len(t) = n
  BY <1>1
<1>3. ASSUME n # 0
      PROVE  Head(t) = s[Len(s) - n + 1] /\ Tail(t) = Ending(s, n - 1)
  <2>1. Head(t) = s[Len(s) - n + 1]
    BY <1>1, <1>2, <1>3
  <2>2. Ending(s, n - 1) = [i \in 1..(n - 1) |-> s[i + (Len(s) - (n - 1) + 1) - 1]]
    BY <1>3 DEF Ending
  <2>3. /\ Tail(t) \in Seq(S) /\ Len(Tail(t)) = n - 1
        /\ \A i \in 1..(n - 1) : Tail(t)[i] = t[i + 1]
    <3> HIDE DEF t
    <3> QED
      BY <1>2, <1>3, HeadTailProperties
  <2>4. \A i \in 1..(n - 1) : t[i + 1] = s[i + (Len(s) - (n - 1) + 1) - 1]
    BY <1>1
  <2> QED
    BY <2>1, <2>2, <2>3, <2>4
<1> QED
  BY <1>2, <1>3

LEMMA EndingAll ==
    ASSUME NEW S, NEW s \in Seq(S)
    PROVE  Ending(s, Len(s)) = s
<1>1. Ending(s, Len(s)) = [i \in 1..Len(s) |-> s[i]]
  BY DEF Ending
<1> QED
  BY <1>1

\* What is left of a start and of a stop.
Left(l) == Len(launch[l].todo)
StopLeft == Len(stop.todo)

\* The steps of a start are all different: what it does next says where it is.
LEMMA LaunchEndings ==
    ASSUME NEW n \in 0..14
    PROVE  /\ Len(Ending(LaunchSteps, n)) = n
           /\ n = 0 <=> Ending(LaunchSteps, n) = <<>>
           /\ n # 0 => /\ Tail(Ending(LaunchSteps, n)) = Ending(LaunchSteps, n - 1)
                       /\ Head(Ending(LaunchSteps, n)) = LaunchSteps[15 - n]
<1> DEFINE S == {"lock", "claim", "check", "prepare", "execution", "progress", "result",
                 "handled", "trace", "run", "starting", "spawn", "pid", "start"}
<1>1. LaunchSteps \in Seq(S) /\ Len(LaunchSteps) = 14
  BY DEF LaunchSteps
<1> HIDE DEF S
<1>2. n \in 0..Len(LaunchSteps) /\ Len(LaunchSteps) - n + 1 = 15 - n
  BY <1>1
<1>3. /\ Len(Ending(LaunchSteps, n)) = n
      /\ n = 0 <=> Ending(LaunchSteps, n) = <<>>
      /\ n # 0 => /\ Head(Ending(LaunchSteps, n)) = LaunchSteps[Len(LaunchSteps) - n + 1]
                  /\ Tail(Ending(LaunchSteps, n)) = Ending(LaunchSteps, n - 1)
  BY <1>1, <1>2, EndingSteps
<1> QED
  BY <1>2, <1>3

LEMMA StopEndings ==
    ASSUME NEW n \in 0..6
    PROVE  /\ Len(Ending(StopSteps, n)) = n
           /\ n = 0 <=> Ending(StopSteps, n) = <<>>
           /\ n # 0 => /\ Tail(Ending(StopSteps, n)) = Ending(StopSteps, n - 1)
                       /\ Head(Ending(StopSteps, n)) = StopSteps[7 - n]
<1> DEFINE S == {"signal", "trace", "handled", "read", "execution", "progress"}
<1>1. StopSteps \in Seq(S) /\ Len(StopSteps) = 6
  BY DEF StopSteps
<1> HIDE DEF S
<1>2. n \in 0..Len(StopSteps) /\ Len(StopSteps) - n + 1 = 7 - n
  BY <1>1
<1>3. /\ Len(Ending(StopSteps, n)) = n
      /\ n = 0 <=> Ending(StopSteps, n) = <<>>
      /\ n # 0 => /\ Head(Ending(StopSteps, n)) = StopSteps[Len(StopSteps) - n + 1]
                  /\ Tail(Ending(StopSteps, n)) = Ending(StopSteps, n - 1)
  BY <1>1, <1>2, EndingSteps
<1> QED
  BY <1>2, <1>3

LEMMA LaunchPlaces ==
    ASSUME LifecycleTypeOK, NEW l \in Launchers
    PROVE  /\ Left(l) \in 0..14
           /\ launch[l].todo = Ending(LaunchSteps, Left(l))
           /\ Left(l) = 0 <=> launch[l].todo = <<>>
           /\ Left(l) # 0 => Tail(launch[l].todo) = Ending(LaunchSteps, Left(l) - 1)
           /\ Launching(l, "lock") <=> Left(l) = 14
           /\ Launching(l, "claim") <=> Left(l) = 13
           /\ Launching(l, "check") <=> Left(l) = 12
           /\ Launching(l, "prepare") <=> Left(l) = 11
           /\ Launching(l, "execution") <=> Left(l) = 10
           /\ Launching(l, "progress") <=> Left(l) = 9
           /\ Launching(l, "result") <=> Left(l) = 8
           /\ Launching(l, "handled") <=> Left(l) = 7
           /\ Launching(l, "trace") <=> Left(l) = 6
           /\ Launching(l, "run") <=> Left(l) = 5
           /\ Launching(l, "starting") <=> Left(l) = 4
           /\ Launching(l, "spawn") <=> Left(l) = 3
           /\ Launching(l, "pid") <=> Left(l) = 2
           /\ Launching(l, "start") <=> Left(l) = 1
<1>1. PICK n \in 0..14 : launch[l].todo = Ending(LaunchSteps, n)
  BY DEF LifecycleTypeOK
<1>2. /\ Left(l) = n
      /\ n = 0 <=> launch[l].todo = <<>>
      /\ n # 0 => /\ Tail(launch[l].todo) = Ending(LaunchSteps, n - 1)
                  /\ Head(launch[l].todo) = LaunchSteps[15 - n]
  BY <1>1, LaunchEndings DEF Left
<1>3. \A step : Launching(l, step) <=> n # 0 /\ LaunchSteps[15 - n] = step
  BY <1>2 DEF Launching
<1>4. /\ Left(l) \in 0..14
      /\ launch[l].todo = Ending(LaunchSteps, Left(l))
      /\ Left(l) = 0 <=> launch[l].todo = <<>>
      /\ Left(l) # 0 => Tail(launch[l].todo) = Ending(LaunchSteps, Left(l) - 1)
  BY <1>1, <1>2
<1> DEFINE m == 15 - n
<1>5. n # 0 => m \in 1..14 /\ n = 15 - m
  OBVIOUS
<1>6. m \in 1..14 =>
          /\ LaunchSteps[m] = "lock" <=> m = 1
          /\ LaunchSteps[m] = "claim" <=> m = 2
          /\ LaunchSteps[m] = "check" <=> m = 3
          /\ LaunchSteps[m] = "prepare" <=> m = 4
          /\ LaunchSteps[m] = "execution" <=> m = 5
          /\ LaunchSteps[m] = "progress" <=> m = 6
          /\ LaunchSteps[m] = "result" <=> m = 7
          /\ LaunchSteps[m] = "handled" <=> m = 8
          /\ LaunchSteps[m] = "trace" <=> m = 9
          /\ LaunchSteps[m] = "run" <=> m = 10
          /\ LaunchSteps[m] = "starting" <=> m = 11
          /\ LaunchSteps[m] = "spawn" <=> m = 12
          /\ LaunchSteps[m] = "pid" <=> m = 13
          /\ LaunchSteps[m] = "start" <=> m = 14
  BY DEF LaunchSteps
<1> HIDE DEF m
<1>7. \A step : Launching(l, step) <=> n # 0 /\ LaunchSteps[m] = step
  BY <1>3 DEF m
<1>8. CASE n = 0
  BY <1>2, <1>4, <1>7, <1>8
<1>9. CASE n # 0
  <2>1. /\ Launching(l, "lock") <=> m = 1
        /\ Launching(l, "claim") <=> m = 2
        /\ Launching(l, "check") <=> m = 3
        /\ Launching(l, "prepare") <=> m = 4
        /\ Launching(l, "execution") <=> m = 5
        /\ Launching(l, "progress") <=> m = 6
        /\ Launching(l, "result") <=> m = 7
        /\ Launching(l, "handled") <=> m = 8
        /\ Launching(l, "trace") <=> m = 9
        /\ Launching(l, "run") <=> m = 10
        /\ Launching(l, "starting") <=> m = 11
        /\ Launching(l, "spawn") <=> m = 12
        /\ Launching(l, "pid") <=> m = 13
        /\ Launching(l, "start") <=> m = 14
    BY <1>5, <1>6, <1>7, <1>9
  <2> QED
    BY <1>2, <1>4, <1>5, <1>9, <2>1, SMTT(20)
<1> QED
  BY <1>8, <1>9

LEMMA StopPlaces ==
    ASSUME LifecycleTypeOK
    PROVE  /\ StopLeft \in 0..6
           /\ StopLeft = 0 <=> stop.todo = <<>>
           /\ StopLeft # 0 => Tail(stop.todo) = Ending(StopSteps, StopLeft - 1)
           /\ \A step : Stopping(step) => StopLeft # 0
<1>1. PICK n \in 0..6 : stop.todo = Ending(StopSteps, n)
  BY DEF LifecycleTypeOK
<1> QED
  BY <1>1, StopEndings DEF StopLeft, Stopping

-----------------------------------------------------------------------------
(* Types.                                                                  *)

LEMMA DirectoryFields ==
    ASSUME NEW d \in Directories
    PROVE  /\ d.present \in BOOLEAN /\ d.marker \in BOOLEAN /\ d.tombstone \in BOOLEAN
           /\ d.run \in RunFiles /\ d.execution \in Manifests
           /\ d.progress \in ProgressFiles /\ d.result \in ResultFiles
           /\ d.handled \in HandledFiles /\ d.captures \in [Commands -> Captures]
           /\ d.trace \in SUBSET [gen: Generations, kind: Kinds]
BY DEF Directories

LEMMA DirectoryWrites ==
    ASSUME NEW d \in Directories
    PROVE  /\ \A b \in BOOLEAN : [d EXCEPT !.present = b] \in Directories
           /\ \A r \in RunFiles : [d EXCEPT !.run = r] \in Directories
           /\ \A e \in Manifests : [d EXCEPT !.execution = e] \in Directories
           /\ \A p \in ProgressFiles : [d EXCEPT !.progress = p] \in Directories
           /\ \A r \in ResultFiles : [d EXCEPT !.result = r] \in Directories
           /\ \A h \in HandledFiles : [d EXCEPT !.handled = h] \in Directories
           /\ \A t \in SUBSET [gen: Generations, kind: Kinds] :
                  [d EXCEPT !.trace = t] \in Directories
BY DEF Directories

LEMMA Emptying ==
    ASSUME NEW d \in Directories, NEW file \in Removed
    PROVE  /\ [d EXCEPT ![file] = Emptied(file)] \in Directories
           /\ [d EXCEPT ![file] = Emptied(file)].run = d.run
           /\ [d EXCEPT ![file] = Emptied(file)][file] = Emptied(file)
           /\ file = "result" => [d EXCEPT ![file] = Emptied(file)].result = NoFile
           /\ file # "result" => [d EXCEPT ![file] = Emptied(file)].result = d.result
<1>1. NoFile \in Manifests /\ NoFile \in ProgressFiles /\ NoFile \in ResultFiles
      /\ NoFile \in HandledFiles
  BY DEF Manifests, ProgressFiles, ResultFiles, HandledFiles
<1> QED
  BY <1>1 DEF Removed, Emptied, Directories

(* Who holds the lock, and what it then knows.                             *)

LocksOK ==
    /\ \A l \in Launchers : Left(l) \in 1..13 => lock = l
    /\ stop.todo # <<>> => lock = "stop"
    /\ retain = "tombstone" => lock = "retain"

\* A start that has written run.json is the one run.json is about ...
StartedOK ==
    \A l \in Launchers : Left(l) \in 1..4 =>
        /\ launch[l].gen \in Generations
        /\ dir.run # NoFile /\ dir.run.gen = launch[l].gen
        /\ Left(l) \in 2..4 => dir.run.pid = 0

\* ... and so is the generation a stop is at.
StoppedOK ==
    stop.todo # <<>> =>
        dir.run # NoFile /\ dir.run.gen = stop.gen /\ stop.how \in Interruptions

PidOK == dir.run # NoFile => dir.run.pid \in {0, dir.run.gen}

BaseInv == LifecycleTypeOK /\ LocksOK /\ StartedOK /\ StoppedOK /\ PidOK

LEMMA TypeFacts ==
    ASSUME LifecycleTypeOK
    PROVE  /\ dir \in Directories /\ dir.run \in RunFiles
           /\ \A l \in Launchers : launch[l].gen \in Numbers
           /\ \A g \in Generations : runner[g] \in Runners
           /\ Nobody \notin Launchers /\ "stop" \notin Launchers /\ "retain" \notin Launchers
           /\ Generations \subseteq Nat \ {0} /\ 0 \in Numbers
BY LifecycleAssumption DEF LifecycleTypeOK, Directories, Generations, Numbers, Nobody

LEMMA RunFileFields ==
    ASSUME LifecycleTypeOK, dir.run # NoFile
    PROVE  dir.run \in [gen: Generations, pid: Numbers, proof: BOOLEAN]
BY TypeFacts DEF RunFiles

\* A start takes its next step.
LEMMA LaunchMoves ==
    ASSUME LifecycleTypeOK, NEW l \in Launchers, Left(l) # 0, StepDone(l)
    PROVE  /\ launch' \in [Launchers ->
                  [todo: {Ending(LaunchSteps, n) : n \in 0..14}, gen: Numbers]]
           /\ Left(l)' = Left(l) - 1 /\ launch'[l].gen = launch[l].gen
           /\ \A m \in Launchers \ {l} : launch'[m] = launch[m] /\ Left(m)' = Left(m)
<1> DEFINE T == {Ending(LaunchSteps, n) : n \in 0..14}
           t == Ending(LaunchSteps, Left(l) - 1)
<1>1. Left(l) - 1 \in 0..14 /\ Tail(launch[l].todo) = t
  BY LaunchPlaces
<1>2. t \in T /\ Len(t) = Left(l) - 1
  BY <1>1, LaunchEndings
<1>3. launch \in [Launchers -> [todo: T, gen: Numbers]]
  BY DEF LifecycleTypeOK
<1>4. launch' = [launch EXCEPT ![l].todo = t]
  BY <1>1 DEF StepDone
<1> HIDE DEF T, t
<1>5. /\ launch' \in [Launchers -> [todo: T, gen: Numbers]]
      /\ launch'[l].todo = t /\ launch'[l].gen = launch[l].gen
      /\ \A m \in Launchers \ {l} : launch'[m] = launch[m]
  BY <1>2, <1>3, <1>4
<1> QED
  BY <1>2, <1>5 DEF Left, T

\* It is over.
LEMMA LaunchEnds ==
    ASSUME LifecycleTypeOK, NEW l \in Launchers, launch' = [launch EXCEPT ![l] = Idle]
    PROVE  /\ launch' \in [Launchers ->
                  [todo: {Ending(LaunchSteps, n) : n \in 0..14}, gen: Numbers]]
           /\ Left(l)' = 0
           /\ \A m \in Launchers \ {l} : launch'[m] = launch[m] /\ Left(m)' = Left(m)
<1> DEFINE T == {Ending(LaunchSteps, n) : n \in 0..14}
<1>1. <<>> \in T /\ Len(<<>>) = 0
  BY LaunchEndings
<1>2. launch \in [Launchers -> [todo: T, gen: Numbers]]
  BY DEF LifecycleTypeOK
<1> HIDE DEF T
<1>3. Idle \in [todo: T, gen: Numbers] /\ Idle.todo = <<>>
  BY <1>1, TypeFacts DEF Idle
<1>4. /\ launch' \in [Launchers -> [todo: T, gen: Numbers]]
      /\ launch'[l] = Idle
      /\ \A m \in Launchers \ {l} : launch'[m] = launch[m]
  BY <1>2, <1>3
<1> QED
  BY <1>1, <1>3, <1>4 DEF Left, T

LEMMA BaseFrame ==
    ASSUME BaseInv, LifecycleTypeOK', UNCHANGED <<launch, lock, stop, retain>>,
           dir'.run = dir.run
    PROVE  BaseInv'
BY DEF BaseInv, LocksOK, StartedOK, StoppedOK, PidOK, Left

LEMMA BaseMoves ==
    ASSUME BaseInv, LifecycleTypeOK', NEW l \in Launchers, StepDone(l),
           Left(l) \in 1..13, Left(l) # 5, UNCHANGED <<lock, stop, retain>>,
           \/ dir'.run = dir.run
           \/ /\ Left(l) = 2
              /\ dir'.run # NoFile /\ dir'.run.gen = dir.run.gen
              /\ dir'.run.pid = dir.run.gen
    PROVE  BaseInv'
<1>1. /\ lock = l /\ Left(l)' = Left(l) - 1 /\ launch'[l].gen = launch[l].gen
      /\ \A m \in Launchers \ {l} : launch'[m] = launch[m] /\ Left(m)' = Left(m)
  BY LaunchMoves DEF BaseInv, LocksOK
<1>2. stop.todo = <<>> /\ retain # "tombstone"
  BY <1>1, TypeFacts DEF BaseInv, LocksOK
<1>3. LocksOK'
  BY <1>1, <1>2 DEF BaseInv, LocksOK
<1>4. \A m \in Launchers \ {l} : Left(m) \notin 1..13
  BY <1>1 DEF BaseInv, LocksOK
<1>5. StartedOK'
  BY <1>1, <1>4 DEF BaseInv, StartedOK
<1>6. StoppedOK' /\ PidOK'
  BY <1>2 DEF BaseInv, StoppedOK, PidOK
<1> QED
  BY <1>3, <1>5, <1>6 DEF BaseInv

LEMMA BaseEnds ==
    ASSUME BaseInv, LifecycleTypeOK', NEW l \in Launchers, lock = l,
           launch' = [launch EXCEPT ![l] = Idle], UNCHANGED <<stop, retain>>,
           dir'.run = dir.run
    PROVE  BaseInv'
<1>1. /\ Left(l)' = 0
      /\ \A m \in Launchers \ {l} : launch'[m] = launch[m] /\ Left(m)' = Left(m)
  BY LaunchEnds DEF BaseInv
<1>2. stop.todo = <<>> /\ retain # "tombstone"
  BY TypeFacts DEF BaseInv, LocksOK
<1>3. \A m \in Launchers \ {l} : Left(m) \notin 1..13
  BY DEF BaseInv, LocksOK
<1>4. \A m \in Launchers : Left(m)' \notin 1..13
  BY <1>1, <1>3
<1> QED
  BY <1>2, <1>4 DEF BaseInv, LocksOK, StartedOK, StoppedOK, PidOK

LEMMA BaseInit == LifecycleInit => BaseInv
<1> SUFFICES ASSUME LifecycleInit PROVE BaseInv
  OBVIOUS
<1>1. /\ <<>> \in {Ending(LaunchSteps, n) : n \in 0..14} /\ Len(<<>>) = 0
      /\ <<>> \in {Ending(StopSteps, n) : n \in 0..6}
  BY LaunchEndings, StopEndings
<1>2. dir \in Directories
  <2>1. Uncaptured \in Captures
    BY LifecycleAssumption DEF Uncaptured, Captures, Numbers
  <2> QED
    BY <2>1 DEF LifecycleInit, EmptyDirectory, Directories, RunFiles, Manifests,
                ProgressFiles, ResultFiles, HandledFiles
<1>3. NoRunner \in Runners
  <2>1. NotStarted \in [Commands -> CommandRecords]
    BY LifecycleAssumption DEF NotStarted, CommandRecords, Uncaptured, Captures, Numbers
  <2>2. <<>> \in Seq(AllWrites)
    OBVIOUS
  <2> QED
    BY <2>1, <2>2 DEF NoRunner, Runners
<1>4. LifecycleTypeOK
  <2>1. launch \in [Launchers -> [todo: {Ending(LaunchSteps, n) : n \in 0..14},
                                  gen: Numbers]]
    BY <1>1 DEF LifecycleInit, Idle, Numbers
  <2>2. NoStop \in [todo: {Ending(StopSteps, n) : n \in 0..6},
                    how: {"none"} \cup Interruptions, gen: Numbers, read: Manifests]
    BY <1>1 DEF NoStop, Numbers, Manifests
  <2> QED
    BY <1>2, <1>3, <2>1, <2>2, LifecycleAssumption DEF LifecycleInit, LifecycleTypeOK
<1>5. \A l \in Launchers : Left(l) = 0
  BY <1>1 DEF LifecycleInit, Left, Idle
<1> QED
  BY <1>4, <1>5 DEF LifecycleInit, BaseInv, LocksOK, StartedOK, StoppedOK, PidOK, NoStop,
                    EmptyDirectory

\* Steps of a start that leave everything but dir, launch and the lock alone.
StartFrame == UNCHANGED <<process, runner, stop, retain, untracked, faults>>

LEMMA StartTypes ==
    ASSUME LifecycleTypeOK, StartFrame, dir' \in Directories,
           lock' \in {Nobody, "stop", "retain"} \cup Launchers,
           launch' \in [Launchers ->
               [todo: {Ending(LaunchSteps, n) : n \in 0..14}, gen: Numbers]]
    PROVE  LifecycleTypeOK'
BY DEF LifecycleTypeOK, StartFrame

LEMMA Events ==
    ASSUME LifecycleTypeOK, NEW gen \in Generations, NEW kind \in Kinds
    PROVE  Traces(gen, kind) \in SUBSET [gen: Generations, kind: Kinds]
BY TypeFacts DEF Traces, Directories

\* The lock is free: nobody is inside.
LEMMA NobodyInside ==
    ASSUME BaseInv, lock = Nobody
    PROVE  /\ \A l \in Launchers : Left(l) \in {0, 14}
           /\ stop.todo = <<>> /\ retain # "tombstone"
<1>1. \A l \in Launchers : Left(l) \in 0..14 /\ lock # l
  BY LaunchPlaces, TypeFacts DEF BaseInv
<1> QED
  BY <1>1 DEF BaseInv, LocksOK, Nobody

LEMMA BaseCalls ==
    ASSUME BaseInv, NEW l \in Launchers, CallStart(l)
    PROVE  BaseInv'
<1> DEFINE T == {Ending(LaunchSteps, n) : n \in 0..14}
<1>1. LaunchSteps \in T /\ Len(LaunchSteps) = 14
  <2>1. Len(LaunchSteps) = 14 /\ LaunchSteps = Ending(LaunchSteps, 14)
    BY DEF LaunchSteps, Ending
  <2> QED
    BY <2>1
<1>2. launch \in [Launchers -> [todo: T, gen: Numbers]]
  BY DEF BaseInv, LifecycleTypeOK
<1> HIDE DEF T
<1>3. [Idle EXCEPT !.todo = LaunchSteps] \in [todo: T, gen: Numbers]
  BY <1>1, TypeFacts DEF Idle, BaseInv
<1>4. /\ launch' \in [Launchers -> [todo: T, gen: Numbers]]
      /\ Left(l)' = 14
      /\ \A m \in Launchers \ {l} : launch'[m] = launch[m] /\ Left(m)' = Left(m)
  BY <1>1, <1>2, <1>3 DEF CallStart, Left, Idle
<1>5. dir' \in Directories /\ dir'.run = dir.run
  BY TypeFacts, DirectoryWrites DEF BaseInv, CallStart, Directories
<1>6. LifecycleTypeOK'
  BY <1>4, <1>5, StartTypes DEF T, CallStart, StartFrame, BaseInv, LifecycleTypeOK
<1>7. LocksOK' /\ StartedOK'
  BY <1>4, <1>5 DEF BaseInv, LocksOK, StartedOK, CallStart
<1> QED
  BY <1>5, <1>6, <1>7 DEF BaseInv, StoppedOK, PidOK, CallStart

LEMMA BaseLocks ==
    ASSUME BaseInv, NEW l \in Launchers, LockDirectory(l)
    PROVE  BaseInv'
<1>1. Left(l) = 14 /\ StepDone(l)
  BY LaunchPlaces DEF LockDirectory, BaseInv
<1>2. LifecycleTypeOK'
  BY <1>1, LaunchMoves, StartTypes
     DEF LockDirectory, BaseInv, StartFrame, LifecycleTypeOK
<1>3. /\ Left(l)' = 13
      /\ \A m \in Launchers \ {l} : Left(m)' \in {0, 14}
  BY <1>1, LaunchMoves, NobodyInside DEF LockDirectory, BaseInv
<1> QED
  BY <1>2, <1>3, NobodyInside
     DEF BaseInv, LocksOK, StartedOK, StoppedOK, PidOK, LockDirectory

LEMMA BaseWritesRun ==
    ASSUME BaseInv, NEW l \in Launchers, WriteRun(l)
    PROVE  BaseInv' /\ Left(l) = 5 /\ Left(l)' = 4
<1> DEFINE T == {Ending(LaunchSteps, n) : n \in 0..14}
           t == Ending(LaunchSteps, 4)
           file == [gen |-> NextGeneration, pid |-> 0, proof |-> FALSE]
<1>1. Left(l) = 5 /\ Tail(launch[l].todo) = t
  <2>1. Left(l) = 5
    BY LaunchPlaces DEF WriteRun, BaseInv
  <2>2. Left(l) # 0 /\ Left(l) - 1 = 4
    BY <2>1
  <2>3. Tail(launch[l].todo) = Ending(LaunchSteps, Left(l) - 1)
    BY <2>2, LaunchPlaces DEF BaseInv
  <2> QED
    BY <2>1, <2>2, <2>3
<1>2. t \in T /\ Len(t) = 4
  BY LaunchEndings
<1>3. launch \in [Launchers -> [todo: T, gen: Numbers]]
  BY DEF BaseInv, LifecycleTypeOK
<1>4. launch' = [launch EXCEPT ![l].todo = t, ![l].gen = NextGeneration]
  BY <1>1 DEF WriteRun
<1>5. NextGeneration \in Generations /\ NextGeneration \in Numbers
  BY DEF WriteRun, Numbers
<1> HIDE DEF T, t
<1>6. /\ launch' \in [Launchers -> [todo: T, gen: Numbers]]
      /\ launch'[l].todo = t /\ launch'[l].gen = NextGeneration
      /\ \A m \in Launchers \ {l} : launch'[m] = launch[m] /\ Left(m)' = Left(m)
  BY <1>2, <1>3, <1>4, <1>5 DEF Left
<1>7. Left(l)' = 4
  BY <1>2, <1>6 DEF Left
<1>8. file \in RunFiles /\ file # NoFile
  BY <1>5, TypeFacts DEF RunFiles, NoFile, BaseInv, Numbers
<1>9. dir' \in Directories /\ dir'.run = file
  BY <1>8, TypeFacts, DirectoryWrites DEF WriteRun, BaseInv, Directories
<1>10. LifecycleTypeOK'
  BY <1>5, <1>6, <1>9 DEF T, WriteRun, BaseInv, LifecycleTypeOK
<1>11. lock = l /\ (\A m \in Launchers \ {l} : Left(m) \notin 1..13)
       /\ stop.todo = <<>> /\ retain # "tombstone"
  BY <1>1, TypeFacts DEF BaseInv, LocksOK
<1>12. LocksOK'
  BY <1>6, <1>11 DEF LocksOK, WriteRun
<1>13. StartedOK'
  BY <1>5, <1>6, <1>7, <1>8, <1>9, <1>11 DEF StartedOK
<1> QED
  BY <1>1, <1>7, <1>8, <1>9, <1>10, <1>11, <1>12, <1>13 DEF BaseInv, StoppedOK, PidOK, WriteRun

LEMMA BaseStart ==
    ASSUME BaseInv, NEW l \in Launchers, StartStep(l)
    PROVE  BaseInv'
<1>1. CASE CallStart(l)
  BY <1>1, BaseCalls
<1>2. CASE LockDirectory(l)
  BY <1>2, BaseLocks
<1>3. CASE Claim(l)
  <2>1. dir' \in Directories /\ dir'.run = dir.run
    BY <1>3, TypeFacts DEF Claim, BaseInv, Directories
  <2>2. Left(l) = 13 /\ StepDone(l)
    BY <1>3, LaunchPlaces DEF Claim, BaseInv
  <2>3. LifecycleTypeOK'
    BY <1>3, <2>1, <2>2, LaunchMoves, StartTypes DEF Claim, BaseInv, StartFrame, LifecycleTypeOK
  <2> QED
    BY <1>3, <2>1, <2>2, <2>3, BaseMoves DEF Claim
<1>4. CASE CheckInactive(l) \/ Prepare(l)
  <2>1. Left(l) \in {11, 12} /\ StepDone(l)
    BY <1>4, LaunchPlaces DEF CheckInactive, Prepare, BaseInv
  <2>2. LifecycleTypeOK'
    BY <1>4, <2>1, LaunchMoves, StartTypes
       DEF CheckInactive, Prepare, BaseInv, StartFrame, LifecycleTypeOK
  <2> QED
    BY <1>4, <2>1, <2>2, BaseMoves DEF CheckInactive, Prepare
<1>5. CASE RemoveEvidence(l)
  <2>1. PICK file \in Removed :
            /\ Launching(l, file) /\ StepDone(l)
            /\ dir' = [dir EXCEPT ![file] = Emptied(file)]
            /\ UNCHANGED <<lock, process, runner, stop, retain, untracked, faults>>
    BY <1>5 DEF RemoveEvidence
  <2>2. dir' \in Directories /\ dir'.run = dir.run
    BY <2>1, TypeFacts, Emptying DEF BaseInv
  <2>3. Left(l) \in 6..10
    BY <2>1, LaunchPlaces DEF Removed, BaseInv
  <2>4. LifecycleTypeOK'
    BY <2>1, <2>2, <2>3, LaunchMoves, StartTypes DEF BaseInv, StartFrame, LifecycleTypeOK
  <2> QED
    BY <2>1, <2>2, <2>3, <2>4, BaseMoves
<1>6. CASE WriteRun(l)
  BY <1>6, BaseWritesRun
<1>7. CASE WriteStarting(l)
  <2>1. Left(l) = 4 /\ StepDone(l)
    BY <1>7, LaunchPlaces DEF WriteStarting, BaseInv
  <2>2. [gen |-> launch[l].gen, phase |-> "starting"] \in ProgressFiles
    BY <2>1 DEF BaseInv, StartedOK, ProgressFiles, Phases
  <2>3. dir' \in Directories /\ dir'.run = dir.run
    BY <1>7, <2>2, TypeFacts, DirectoryWrites DEF WriteStarting, BaseInv, Directories
  <2>4. LifecycleTypeOK'
    BY <1>7, <2>1, <2>3, LaunchMoves, StartTypes
       DEF WriteStarting, BaseInv, StartFrame, LifecycleTypeOK
  <2> QED
    BY <1>7, <2>1, <2>3, <2>4, BaseMoves DEF WriteStarting
<1>8. CASE Spawn(l)
  <2> DEFINE g == launch[l].gen
             r == [NoRunner EXCEPT !.todo = Boot, !.phase = "main"]
  <2>1. Left(l) = 3 /\ StepDone(l)
    BY <1>8, LaunchPlaces DEF Spawn, BaseInv
  <2>2. g \in Generations
    BY <2>1 DEF BaseInv, StartedOK
  <2>3. r \in Runners
    <3>1. NotStarted \in [Commands -> CommandRecords]
      BY LifecycleAssumption DEF NotStarted, CommandRecords, Uncaptured, Captures, Numbers
    <3>2. Boot \in Seq(AllWrites)
      BY DEF Boot, AllWrites, MainWrites
    <3> QED
      BY <3>1, <3>2 DEF NoRunner, Runners
  <2> HIDE DEF g, r
  <2>4. LifecycleTypeOK'
    BY <1>8, <2>1, <2>2, <2>3, LaunchMoves DEF Spawn, BaseInv, LifecycleTypeOK, g, r
  <2> QED
    BY <1>8, <2>1, <2>4, BaseMoves DEF Spawn
<1>9. CASE RecordPid(l)
  <2>1. Left(l) = 2 /\ StepDone(l)
    BY <1>9, LaunchPlaces DEF RecordPid, BaseInv
  <2>2. /\ launch[l].gen \in Generations /\ dir.run # NoFile
        /\ dir.run.gen = launch[l].gen
    BY <2>1 DEF BaseInv, StartedOK
  <2>3. PICK proof \in BOOLEAN :
            dir' = [dir EXCEPT !.run.pid = launch[l].gen, !.run.proof = proof]
    BY <1>9 DEF RecordPid
  <2> DEFINE file == [dir.run EXCEPT !.pid = launch[l].gen, !.proof = proof]
  <2>4. file \in RunFiles /\ file.gen = dir.run.gen /\ file.pid = launch[l].gen
    BY <2>2, RunFileFields DEF RunFiles, BaseInv, Numbers
  <2>5. dir' = [dir EXCEPT !.run = file]
    BY <2>3, TypeFacts, RunFileFields, <2>2 DEF BaseInv, Directories
  <2> HIDE DEF file
  <2>6. dir' \in Directories /\ dir'.run = file
    BY <2>4, <2>5, TypeFacts, DirectoryWrites DEF BaseInv, Directories
  <2>7. LifecycleTypeOK'
    BY <1>9, <2>1, <2>6, LaunchMoves, StartTypes
       DEF RecordPid, BaseInv, StartFrame, LifecycleTypeOK
  <2>8. file # NoFile
    BY <2>2, <2>4, TypeFacts DEF BaseInv, NoFile
  <2> QED
    BY <1>9, <2>1, <2>2, <2>4, <2>6, <2>7, <2>8, BaseMoves DEF RecordPid
<1>10. CASE LogStart(l)
  <2>1. Left(l) = 1 /\ lock = l
    BY <1>10, LaunchPlaces DEF LogStart, BaseInv, LocksOK
  <2>2. Traces(launch[l].gen, "run.start") \in SUBSET [gen: Generations, kind: Kinds]
    BY <2>1, Events DEF BaseInv, StartedOK, Kinds
  <2>3. dir' \in Directories /\ dir'.run = dir.run
    BY <1>10, <2>2, TypeFacts, DirectoryWrites DEF LogStart, BaseInv, Directories
  <2>4. LifecycleTypeOK'
    BY <1>10, <2>3, LaunchEnds, StartTypes DEF LogStart, BaseInv, StartFrame
  <2> QED
    BY <1>10, <2>1, <2>3, <2>4, BaseEnds DEF LogStart
<1>11. CASE StartEnds(l)
  <2>1. LifecycleTypeOK'
    BY <1>11, LaunchEnds, StartTypes DEF StartEnds, BaseInv, StartFrame, LifecycleTypeOK
  <2> QED
    BY <1>11, <2>1, BaseEnds DEF StartEnds
<1>12. CASE StartBreaks(l)
  <2>1. Launching(l, "pid") => launch[l].gen \in Generations
    BY LaunchPlaces DEF BaseInv, StartedOK
  <2>2. faults' \in 0..MaxFaults
    BY <1>12, LifecycleAssumption DEF StartBreaks, BaseInv, LifecycleTypeOK
  <2>3. LifecycleTypeOK'
    BY <1>12, <2>1, <2>2, LaunchEnds DEF StartBreaks, BaseInv, LifecycleTypeOK
  <2> QED
    BY <1>12, <2>3, BaseEnds DEF StartBreaks
<1> QED
  BY <1>1, <1>2, <1>3, <1>4, <1>5, <1>6, <1>7, <1>8, <1>9, <1>10, <1>11, <1>12 DEF StartStep
\* Steps of a runner that leave everything but dir, the process and itself alone.
RunnerFrame == UNCHANGED <<lock, launch, stop, retain, untracked>>

LEMMA RunnerTypes ==
    ASSUME BaseInv, RunnerFrame, dir' \in Directories, dir'.run = dir.run,
           process' \in [Generations -> {"none", "unborn", "live", "dead", "recycled"}],
           runner' \in [Generations -> Runners], faults' \in 0..MaxFaults
    PROVE  BaseInv'
BY BaseFrame DEF BaseInv, LifecycleTypeOK, RunnerFrame

\* What a runner writes has its place and its type.
LEMMA Writing ==
    ASSUME BaseInv, NEW g \in Generations, NEW w \in AllWrites
    PROVE  /\ Written(g, w) \in Directories /\ Written(g, w).run = dir.run
           /\ w.file # "result" => Written(g, w).result = dir.result
           /\ w.file = "result" => /\ w.state \in {"done", "failed"}
                                   /\ Written(g, w).result = [gen |-> g, outcome |-> w.state]
           /\ w.file # "trace" => Written(g, w).trace = dir.trace
           /\ w.file = "trace" => /\ w.kind \in Kinds
                                  /\ Written(g, w).trace = Traces(g, w.kind)
           /\ w.file # "execution" => Written(g, w).execution = dir.execution
           /\ w.file = "execution" => Written(g, w).execution.gen = g
           /\ w.file # "progress" => Written(g, w).progress = dir.progress
           /\ w.file = "progress" => Written(g, w).progress.gen = g
           /\ Written(g, w).handled = dir.handled
<1> DEFINE d == [dir EXCEPT !.present = TRUE]
<1>1. dir \in Directories /\ d \in Directories /\ runner[g].commands \in [Commands -> CommandRecords]
  BY TypeFacts, DirectoryWrites DEF BaseInv, Runners
<1>2. /\ d.run = dir.run /\ d.result = dir.result /\ d.trace = dir.trace
      /\ d.execution = dir.execution /\ d.progress = dir.progress /\ d.handled = dir.handled
  BY <1>1 DEF Directories
<1>3. \A e : /\ [dir EXCEPT !.present = TRUE, !.execution = e] = [d EXCEPT !.execution = e]
             /\ [dir EXCEPT !.present = TRUE, !.progress = e] = [d EXCEPT !.progress = e]
             /\ [dir EXCEPT !.present = TRUE, !.result = e] = [d EXCEPT !.result = e]
  BY <1>1 DEF Directories
<1> HIDE DEF d
<1>4. CASE w.file = "log"
  BY <1>1, <1>4 DEF Written
<1>5. CASE w.file = "trace"
  <2>1. w.kind \in Kinds
    BY <1>5 DEF AllWrites, MainWrites, FinalWrites, Log, File, Kinds
  <2>2. Traces(g, w.kind) \in SUBSET [gen: Generations, kind: Kinds]
    BY <2>1, Events DEF BaseInv
  <2> QED
    BY <1>1, <1>5, <2>1, <2>2, DirectoryWrites DEF Written, Directories
<1>6. CASE w.file = "execution"
  <2> DEFINE e == [gen |-> g, state |-> w.state, commands |-> runner[g].commands]
  <2>1. w.state \in Phases
    BY <1>6 DEF AllWrites, MainWrites, FinalWrites, Log, File, Phases
  <2>2. e \in Manifests
    BY <1>1, <2>1 DEF Manifests
  <2>3. Written(g, w) = [d EXCEPT !.execution = e]
    BY <1>3, <1>6 DEF Written
  <2>4. e.gen = g
    OBVIOUS
  <2> HIDE DEF e
  <2>5. /\ Written(g, w).execution = e
        /\ \A field \in {"run", "execution", "progress", "result", "trace", "handled"} :
               field # "execution" => Written(g, w)[field] = dir[field]
    BY <1>1, <1>2, <2>3 DEF Directories
  <2>6. Written(g, w) \in Directories
    BY <1>1, <2>2, <2>3, DirectoryWrites
  <2> QED
    BY <1>6, <2>4, <2>5, <2>6
<1>7. CASE w.file = "progress"
  <2> DEFINE e == [gen |-> g, phase |-> w.state]
  <2>1. w.state \in Phases
    BY <1>7 DEF AllWrites, MainWrites, FinalWrites, Log, File, Phases
  <2>2. e \in ProgressFiles
    BY <2>1 DEF ProgressFiles
  <2>3. Written(g, w) = [d EXCEPT !.progress = e]
    BY <1>3, <1>7 DEF Written
  <2>4. e.gen = g
    OBVIOUS
  <2> HIDE DEF e
  <2>5. /\ Written(g, w).progress = e
        /\ \A field \in {"run", "execution", "progress", "result", "trace", "handled"} :
               field # "progress" => Written(g, w)[field] = dir[field]
    BY <1>1, <1>2, <2>3 DEF Directories
  <2>6. Written(g, w) \in Directories
    BY <1>1, <2>2, <2>3, DirectoryWrites
  <2> QED
    BY <1>7, <2>4, <2>5, <2>6
<1>8. CASE w.file = "result"
  <2> DEFINE e == [gen |-> g, outcome |-> w.state]
  <2>1. w.state \in {"done", "failed"}
    BY <1>8 DEF AllWrites, MainWrites, FinalWrites, Log, File
  <2>2. e \in ResultFiles
    BY <2>1 DEF ResultFiles
  <2>3. Written(g, w) = [d EXCEPT !.result = e]
    BY <1>3, <1>8 DEF Written
  <2>4. e.gen = g
    OBVIOUS
  <2> HIDE DEF e
  <2>5. /\ Written(g, w).result = e
        /\ \A field \in {"run", "execution", "progress", "result", "trace", "handled"} :
               field # "result" => Written(g, w)[field] = dir[field]
    BY <1>1, <1>2, <2>3 DEF Directories
  <2>6. Written(g, w) \in Directories
    BY <1>1, <2>2, <2>3, DirectoryWrites
  <2> QED
    BY <1>8, <2>1, <2>5, <2>6 DEF e
<1>9. w.file \in {"log", "trace", "execution", "progress", "result"}
  BY DEF AllWrites, MainWrites, FinalWrites, Log, File
<1> QED
  BY <1>4, <1>5, <1>6, <1>7, <1>8, <1>9

\* The blocks of a runner, and what its exits do with the rest of one.
LEMMA Blocks ==
    /\ Block("command.start") \in Seq(MainWrites) /\ Block("command.done") \in Seq(MainWrites)
    /\ Boot \in Seq(MainWrites)
    /\ DoneBlock \in Seq(FinalWrites) /\ Len(DoneBlock) = 5
    /\ FailedBlock \in Seq(FinalWrites) /\ Len(FailedBlock) = 5
    /\ Seq(MainWrites) \subseteq Seq(AllWrites) /\ Seq(FinalWrites) \subseteq Seq(AllWrites)
<1>1. /\ Block("command.start") \in Seq(MainWrites)
      /\ Block("command.done") \in Seq(MainWrites) /\ Boot \in Seq(MainWrites)
  BY DEF Block, Boot, MainWrites
<1>2. DoneBlock \in Seq(FinalWrites) /\ Len(DoneBlock) = 5
  BY DEF DoneBlock, FinalWrites
<1>3. FailedBlock \in Seq(FinalWrites) /\ Len(FailedBlock) = 5
  BY DEF FailedBlock, FinalWrites
<1>4. Seq(MainWrites) \subseteq Seq(AllWrites) /\ Seq(FinalWrites) \subseteq Seq(AllWrites)
  BY SeqMonotonic DEF AllWrites
<1> QED
  BY <1>1, <1>2, <1>3, <1>4
LEMMA BaseRunner ==
    ASSUME BaseInv, NEW g \in Generations, RunnerStep(g) \/ PidStep(g)
    PROVE  BaseInv'
<1> DEFINE P == {"none", "unborn", "live", "dead", "recycled"}
<1>1. /\ dir \in Directories /\ process \in [Generations -> P]
      /\ runner \in [Generations -> Runners] /\ faults \in 0..MaxFaults
  BY TypeFacts DEF BaseInv, LifecycleTypeOK
<1>2. faults < MaxFaults => faults + 1 \in 0..MaxFaults
  BY <1>1, LifecycleAssumption
<1>3. \A s \in P : [process EXCEPT ![g] = s] \in [Generations -> P]
  BY <1>1
<1>4. \A r \in Runners : [runner EXCEPT ![g] = r] \in [Generations -> Runners]
  BY <1>1
<1>5. runner[g] \in Runners
  BY <1>1
<1>6. /\ runner[g].todo \in Seq(AllWrites)
      /\ runner[g].commands \in [Commands -> CommandRecords]
      /\ \A t \in Seq(AllWrites) : [runner[g] EXCEPT !.todo = t] \in Runners
      /\ \A t \in Seq(AllWrites), p \in {"main", "done", "over"} :
             [runner[g] EXCEPT !.phase = p, !.todo = t] \in Runners
      /\ \A t \in Seq(AllWrites), k \in [Commands -> CommandRecords] :
             [runner[g] EXCEPT !.commands = k, !.todo = t] \in Runners
      /\ \A k \in [Commands -> CommandRecords] : [runner[g] EXCEPT !.commands = k] \in Runners
  BY <1>5 DEF Runners
<1>7. /\ DoneBlock \in Seq(AllWrites) /\ FailedBlock \in Seq(AllWrites)
      /\ Block("command.start") \in Seq(AllWrites) /\ Block("command.done") \in Seq(AllWrites)
  BY Blocks
<1> HIDE DEF P
<1>8. CASE RunnerWrites(g)
  <2> DEFINE w == Head(runner[g].todo)
             t == Tail(runner[g].todo)
  <2>1. w \in AllWrites /\ t \in Seq(AllWrites)
    BY <1>6, <1>8, HeadTailProperties DEF RunnerWrites
  <2>2. dir' = Written(g, w) /\ runner' = [runner EXCEPT ![g] = [runner[g] EXCEPT !.todo = t]]
    BY <1>1, <1>8 DEF RunnerWrites
  <2>3. process' = [process EXCEPT ![g] = "dead"] \/ process' = process
    BY <1>8 DEF RunnerWrites
  <2> HIDE DEF w, t
  <2>4. dir' \in Directories /\ dir'.run = dir.run
    BY <2>1, <2>2, Writing
  <2>5. runner' \in [Generations -> Runners]
    BY <1>4, <1>6, <2>1, <2>2
  <2>6. process' \in [Generations -> P]
    BY <1>1, <1>3, <2>3 DEF P
  <2> QED
    BY <1>1, <1>8, <2>4, <2>5, <2>6, RunnerTypes DEF RunnerWrites, RunnerFrame, P
<1>9. CASE RunnerThrows(g)
  <2>1. \/ /\ runner' = [runner EXCEPT ![g] = [runner[g] EXCEPT !.phase = "over", !.todo = FailedBlock]]
           /\ process' = process
        \/ runner' = runner /\ process' = [process EXCEPT ![g] = "dead"]
    BY <1>1, <1>9 DEF RunnerThrows
  <2>2. runner' \in [Generations -> Runners] /\ process' \in [Generations -> P]
    <3>1. runner' \in [Generations -> Runners]
      BY <1>1, <1>4, <1>6, <1>7, <2>1
    <3>2. process' \in [Generations -> P]
      BY <1>1, <1>3, <2>1 DEF P
    <3> QED
      BY <3>1, <3>2
  <2>3. faults' \in 0..MaxFaults /\ dir' = dir
    BY <1>1, <1>2, <1>9 DEF RunnerThrows
  <2> QED
    BY <1>1, <1>9, <2>2, <2>3, RunnerTypes DEF RunnerThrows, RunnerFrame, P
<1>10. CASE TemplateEnds(g)
  <2>1. \/ runner' = [runner EXCEPT ![g] = [runner[g] EXCEPT !.phase = "done", !.todo = DoneBlock]]
        \/ runner' = [runner EXCEPT ![g] = [runner[g] EXCEPT !.phase = "over", !.todo = FailedBlock]]
    BY <1>1, <1>10 DEF TemplateEnds
  <2>2. runner' \in [Generations -> Runners]
    BY <1>4, <1>6, <1>7, <2>1
  <2> QED
    BY <1>1, <1>10, <2>2, RunnerTypes DEF TemplateEnds, RunnerFrame, P
<1>11. ASSUME NEW c \in Commands,
              CommandStarts(g, c) \/ CommandAttempt(g, c) \/ CommandEnds(g, c)
       PROVE  BaseInv'
  <2> DEFINE K == runner[g].commands
  <2>1. K \in [Commands -> CommandRecords] /\ K[c] \in CommandRecords
    BY <1>6
  <2>2. \A k \in CommandRecords : [K EXCEPT ![c] = k] \in [Commands -> CommandRecords]
    BY <2>1
  <2> HIDE DEF K
  <2>3. CASE CommandStarts(g, c)
    <3> DEFINE k == [K[c] EXCEPT !.state = "running"]
               L == [K EXCEPT ![c] = k]
    <3>1. k \in CommandRecords
      BY <2>1 DEF CommandRecords
    <3>2. L \in [Commands -> CommandRecords]
      BY <2>2, <3>1
    <3>3. runner' = [runner EXCEPT ![g] =
              [runner[g] EXCEPT !.commands = L, !.todo = Block("command.start")]]
      BY <1>1, <1>5, <2>1, <2>3 DEF CommandStarts, Runners, K
    <3> HIDE DEF L
    <3>4. runner' \in [Generations -> Runners]
      BY <1>4, <1>6, <1>7, <3>2, <3>3
    <3> QED
      BY <1>1, <2>3, <3>4, RunnerTypes DEF CommandStarts, RunnerFrame, P
  <2>4. CASE CommandAttempt(g, c)
    <3> DEFINE n == runner[g].commands[c].tries + 1
               k == [K[c] EXCEPT !.tries = n]
               L == [K EXCEPT ![c] = k]
    <3>1. n \in 1..Retries
      BY <2>1, <2>4, LifecycleAssumption DEF CommandAttempt, CommandRecords, K
    <3>2. k \in CommandRecords
      BY <2>1, <3>1, LifecycleAssumption DEF CommandRecords
    <3>3. L \in [Commands -> CommandRecords]
      BY <2>2, <3>2
    <3>4. runner' = [runner EXCEPT ![g] = [runner[g] EXCEPT !.commands = L]]
      BY <1>1, <1>5, <2>1, <2>4 DEF CommandAttempt, Runners, K
    <3> DEFINE d == [dir.captures EXCEPT ![c][n] = g]
    <3>5. d \in [Commands -> Captures]
      BY <1>1, <3>1 DEF Directories, Captures, Numbers
    <3>6. dir' = [dir EXCEPT !.present = TRUE, !.captures = d]
      BY <1>1, <2>4 DEF CommandAttempt, Directories
    <3> HIDE DEF L, d
    <3>7. dir' \in Directories /\ dir'.run = dir.run
      BY <1>1, <3>5, <3>6 DEF Directories
    <3>8. runner' \in [Generations -> Runners]
      BY <1>4, <1>6, <3>3, <3>4
    <3> QED
      BY <1>1, <2>4, <3>7, <3>8, RunnerTypes DEF CommandAttempt, RunnerFrame, P
  <2>5. CASE CommandEnds(g, c)
    <3>1. PICK state \in {"done", "failed"} :
              runner' = [runner EXCEPT
                  ![g].commands[c] = [@ EXCEPT !.state = state, !.seen = dir.captures[c]],
                  ![g].todo = Block("command.done")]
      BY <2>5 DEF CommandEnds
    <3> DEFINE k == [K[c] EXCEPT !.state = state, !.seen = dir.captures[c]]
               L == [K EXCEPT ![c] = k]
    <3>2. k \in CommandRecords
      BY <1>1, <2>1 DEF CommandRecords, Directories
    <3>3. L \in [Commands -> CommandRecords]
      BY <2>2, <3>2
    <3>4. runner' = [runner EXCEPT ![g] =
              [runner[g] EXCEPT !.commands = L, !.todo = Block("command.done")]]
      BY <1>1, <1>5, <2>1, <3>1 DEF Runners, K
    <3> HIDE DEF L
    <3>5. runner' \in [Generations -> Runners]
      BY <1>4, <1>6, <1>7, <3>3, <3>4
    <3> QED
      BY <1>1, <2>5, <3>5, RunnerTypes DEF CommandEnds, RunnerFrame, P
  <2> QED
    BY <1>11, <2>3, <2>4, <2>5
<1>12. CASE RunnerExits(g) \/ RunnerDies(g) \/ PidIsTaken(g) \/ PidIsFree(g)
  <2>1. process' \in [Generations -> P]
    BY <1>3, <1>12 DEF RunnerExits, RunnerDies, PidIsTaken, PidIsFree, P
  <2>2. faults' \in 0..MaxFaults
    BY <1>1, <1>2, <1>12 DEF RunnerExits, RunnerDies, PidIsTaken, PidIsFree
  <2> QED
    BY <1>1, <1>12, <2>1, <2>2, RunnerTypes
       DEF RunnerExits, RunnerDies, PidIsTaken, PidIsFree, RunnerFrame, P
<1> QED
  BY <1>8, <1>9, <1>10, <1>11, <1>12 DEF RunnerStep, PidStep

\* Steps of a stop; it takes its next step, or it is over.
StopFrame == UNCHANGED <<launch, process, runner, retain, untracked, faults>>

LEMMA StopMoves ==
    ASSUME LifecycleTypeOK, StopLeft # 0
    PROVE  \A read \in Manifests :
               LET s == [stop EXCEPT !.todo = Tail(@), !.read = read]
               IN  /\ s \in [todo: {Ending(StopSteps, n) : n \in 0..6},
                             how: {"none"} \cup Interruptions, gen: Numbers, read: Manifests]
                   /\ s.gen = stop.gen /\ s.how = stop.how /\ s.read = read
<1> DEFINE T == {Ending(StopSteps, n) : n \in 0..6}
<1>1. Tail(stop.todo) \in T
  <2>1. StopLeft - 1 \in 0..6 /\ Tail(stop.todo) = Ending(StopSteps, StopLeft - 1)
    BY StopPlaces
  <2> QED
    BY <2>1
<1> HIDE DEF T
<1>2. stop \in [todo: T, how: {"none"} \cup Interruptions, gen: Numbers, read: Manifests]
  BY DEF LifecycleTypeOK, T
<1>3. ASSUME NEW read \in Manifests
      PROVE  LET s == [stop EXCEPT !.todo = Tail(@), !.read = read]
             IN  /\ s \in [todo: T, how: {"none"} \cup Interruptions, gen: Numbers,
                           read: Manifests]
                 /\ s.gen = stop.gen /\ s.how = stop.how /\ s.read = read
  BY <1>1, <1>2, <1>3
<1> QED
  BY <1>3 DEF T

LEMMA StopTypes ==
    NoStop \in [todo: {Ending(StopSteps, n) : n \in 0..6},
                how: {"none"} \cup Interruptions, gen: Numbers, read: Manifests]
<1>1. <<>> \in {Ending(StopSteps, n) : n \in 0..6}
  BY StopEndings
<1> QED
  BY <1>1 DEF NoStop, Numbers, Manifests

\* A stop that goes on, and one that ends.
LEMMA BaseStops ==
    ASSUME BaseInv, lock = "stop", LifecycleTypeOK', dir'.run = dir.run,
           UNCHANGED <<launch, retain>>,
           \/ /\ lock' = lock /\ stop.todo # <<>>
              /\ stop'.gen = stop.gen /\ stop'.how = stop.how
           \/ lock' = Nobody /\ stop' = NoStop
    PROVE  BaseInv'
<1>1. \A l \in Launchers : Left(l)' = Left(l) /\ Left(l) \notin 1..13
  BY TypeFacts DEF BaseInv, LocksOK, Left
<1>2. retain # "tombstone"
  BY DEF BaseInv, LocksOK
<1>3. stop'.todo # <<>> => /\ lock' = "stop" /\ stop.todo # <<>>
                           /\ stop'.gen = stop.gen /\ stop'.how = stop.how
  BY DEF NoStop
<1>4. LocksOK' /\ StartedOK'
  BY <1>1, <1>2, <1>3 DEF LocksOK, StartedOK
<1> QED
  BY <1>3, <1>4 DEF BaseInv, StoppedOK, PidOK

LEMMA Endings ==
    ASSUME BaseInv, stop.todo # <<>>, stop.read # NoFile
    PROVE  [gen |-> stop.read.gen, state |-> stop.how,
            commands |-> [c \in Commands |-> Ended(stop.how, c, stop.read.commands[c])]]
               \in Manifests
<1>1. /\ stop.read \in [gen: Generations, state: Phases, commands: [Commands -> CommandRecords]]
      /\ stop.how \in {"killed", "cancelled"}
  BY LifecycleAssumption DEF BaseInv, LifecycleTypeOK, StoppedOK, Manifests
<1>2. \A c \in Commands : Ended(stop.how, c, stop.read.commands[c]) \in CommandRecords
  <2> TAKE c \in Commands
  <2> DEFINE k == stop.read.commands[c]
  <2>1. k \in CommandRecords /\ dir.captures[c] \in Captures
    BY <1>1, TypeFacts DEF BaseInv, Directories
  <2>2. [k EXCEPT !.state = stop.how, !.seen = dir.captures[c]] \in CommandRecords
    BY <1>1, <2>1 DEF CommandRecords
  <2> QED
    BY <2>1, <2>2 DEF Ended
<1>3. stop.how \in Phases
  BY <1>1 DEF Phases
<1> QED
  BY <1>1, <1>2, <1>3 DEF Manifests

LEMMA BaseStop ==
    ASSUME BaseInv, StopStep
    PROVE  BaseInv'
<1> DEFINE S == [todo: {Ending(StopSteps, n) : n \in 0..6},
                 how: {"none"} \cup Interruptions, gen: Numbers, read: Manifests]
           R == [Generations -> Runners]
<1>1. /\ dir \in Directories /\ stop \in S /\ NoStop \in S /\ runner \in R
      /\ Nobody \in {Nobody, "stop", "retain"} \cup Launchers
      /\ lock \in {Nobody, "stop", "retain"} \cup Launchers
  BY TypeFacts, StopTypes DEF BaseInv, LifecycleTypeOK
<1>2. ASSUME NEW step, Stopping(step)
      PROVE  /\ lock = "stop" /\ StopLeft # 0 /\ stop.todo # <<>>
             /\ stop.gen \in Generations /\ stop.how \in {"killed", "cancelled"}
  <2>1. stop.todo # <<>>
    BY <1>2 DEF Stopping
  <2>2. StopLeft # 0
    BY <2>1, StopPlaces DEF BaseInv
  <2>3. lock = "stop" /\ stop.gen \in Generations /\ stop.how \in {"killed", "cancelled"}
    BY <2>1, RunFileFields, LifecycleAssumption DEF BaseInv, LocksOK, StoppedOK
  <2> QED
    BY <2>1, <2>2, <2>3
<1>3. ASSUME NEW step, Stopping(step), NEW read \in Manifests
      PROVE  /\ [stop EXCEPT !.todo = Tail(@), !.read = read] \in S
             /\ [stop EXCEPT !.todo = Tail(@), !.read = read].gen = stop.gen
             /\ [stop EXCEPT !.todo = Tail(@), !.read = read].how = stop.how
  BY <1>2, <1>3, StopMoves DEF BaseInv
<1>4. ASSUME NEW step, Stopping(step)
      PROVE  /\ [stop EXCEPT !.todo = Tail(@)] \in S
             /\ [stop EXCEPT !.todo = Tail(@)].gen = stop.gen
             /\ [stop EXCEPT !.todo = Tail(@)].how = stop.how
  <2>1. stop.read \in Manifests
    BY <1>1
  <2>2. [stop EXCEPT !.todo = Tail(@)] = [stop EXCEPT !.todo = Tail(@), !.read = stop.read]
    BY <1>1
  <2> QED
    BY <1>3, <1>4, <2>1, <2>2
<1>5. ASSUME UNCHANGED <<launch, process, retain, untracked>>,
             dir' \in Directories, stop' \in S, runner' \in R,
             lock' \in {Nobody, "stop", "retain"} \cup Launchers, faults' \in 0..MaxFaults
      PROVE  LifecycleTypeOK'
  BY <1>5 DEF BaseInv, LifecycleTypeOK
<1>6. ASSUME NEW step, Stopping(step), UNCHANGED <<launch, process, retain, untracked, faults>>,
             dir' \in Directories, dir'.run = dir.run, runner' \in R,
             \/ lock' = lock /\ stop' \in S /\ stop'.gen = stop.gen /\ stop'.how = stop.how
             \/ lock' = Nobody /\ stop' = NoStop
      PROVE  BaseInv'
  <2>1. LifecycleTypeOK'
    BY <1>1, <1>5, <1>6 DEF BaseInv, LifecycleTypeOK
  <2> QED
    BY <1>2, <1>6, <2>1, BaseStops
<1> HIDE DEF S, R
<1>7. ASSUME NEW how \in Interruptions, NEW gen \in Started, CallStop(how, gen)
      PROVE  BaseInv'
  <2>1. StopSteps = Ending(StopSteps, 6)
    BY DEF StopSteps, Ending
  <2>2. gen \in Generations
    BY DEF Started
  <2>3. stop' \in S /\ stop'.gen = gen /\ stop'.how = how
    <3> DEFINE T == {Ending(StopSteps, n) : n \in 0..6}
    <3>1. StopSteps \in T
      BY <2>1
    <3> HIDE DEF T
    <3>2. stop' = [todo |-> StopSteps, how |-> how, gen |-> gen, read |-> NoFile]
      BY <1>7 DEF CallStop, NoStop
    <3>3. gen \in Numbers /\ NoFile \in Manifests
      BY <2>2 DEF Numbers, Manifests
    <3>4. stop' \in [todo: T, how: {"none"} \cup Interruptions, gen: Numbers, read: Manifests]
      BY <1>7, <3>1, <3>2, <3>3
    <3> QED
      BY <3>2, <3>4 DEF S, T
  <2>4. LifecycleTypeOK'
    BY <1>1, <1>5, <1>7, <2>3 DEF CallStop, BaseInv, LifecycleTypeOK, R
  <2>5. \A l \in Launchers : Left(l)' = Left(l) /\ Left(l) \in {0, 14} /\ retain # "tombstone"
    BY <1>7, NobodyInside DEF CallStop, Left
  <2> QED
    BY <1>7, <2>3, <2>4, <2>5, NobodyInside
       DEF CallStop, Stoppable, BaseInv, LocksOK, StartedOK, StoppedOK, PidOK
<1>8. CASE StopSignals
  <2>1. CASE Identity = "valid"
    <3>1. dir.run.pid \in Generations
      <4>1. dir.run # NoFile /\ dir.run.pid # 0
        BY <2>1 DEF Identity
      <4> QED
        BY <4>1, RunFileFields DEF BaseInv, Numbers
    <3>2. runner' = [runner EXCEPT ![dir.run.pid] = [runner[dir.run.pid] EXCEPT !.struck = TRUE]]
      BY <1>1, <1>8, <2>1, <3>1 DEF StopSignals, R
    <3>3. [runner[dir.run.pid] EXCEPT !.struck = TRUE] \in Runners
      BY <1>1, <3>1 DEF Runners, R
    <3>4. runner' \in R
      BY <1>1, <3>2, <3>3 DEF R
    <3> QED
      BY <1>1, <1>4, <1>6, <1>8, <2>1, <3>4 DEF StopSignals
  <2>2. CASE Identity # "valid"
    BY <1>1, <1>6, <1>8, <2>2 DEF StopSignals
  <2> QED
    BY <2>1, <2>2
<1>9. CASE StopLogs
  <2>1. Stopping("trace") /\ stop.how \in Kinds /\ stop.gen \in Generations
    BY <1>2, <1>9 DEF StopLogs, Kinds
  <2>2. Traces(stop.gen, stop.how) \in SUBSET [gen: Generations, kind: Kinds]
    BY <2>1, Events DEF BaseInv
  <2>3. dir' \in Directories /\ dir'.run = dir.run
    BY <1>1, <1>9, <2>2, DirectoryWrites DEF StopLogs, Directories
  <2> QED
    BY <1>1, <1>4, <1>6, <1>9, <2>1, <2>3 DEF StopLogs
<1>10. CASE StopMarksHandled
  <2>1. Stopping("handled") /\ [gen |-> stop.gen] \in HandledFiles
    BY <1>2, <1>10 DEF StopMarksHandled, HandledFiles
  <2>2. dir' \in Directories /\ dir'.run = dir.run
    BY <1>1, <1>10, <2>1, DirectoryWrites DEF StopMarksHandled, Directories
  <2> QED
    BY <1>1, <1>4, <1>6, <1>10, <2>1, <2>2 DEF StopMarksHandled
<1>11. CASE StopReadsExecution
  <2>1. Stopping("read") /\ dir.execution \in Manifests
    BY <1>1, <1>11 DEF StopReadsExecution, Directories
  <2> QED
    BY <1>1, <1>3, <1>6, <1>11, <2>1 DEF StopReadsExecution
<1>12. CASE StopWritesExecution
  <2>1. Stopping("execution")
    BY <1>12 DEF StopWritesExecution
  <2>2. dir' \in Directories /\ dir'.run = dir.run
    <3>1. CASE stop.read = NoFile
      BY <1>1, <1>12, <3>1 DEF StopWritesExecution
    <3>2. CASE stop.read # NoFile
      <4> DEFINE e == [gen |-> stop.read.gen, state |-> stop.how,
                       commands |-> [c \in Commands |->
                           Ended(stop.how, c, stop.read.commands[c])]]
      <4>1. e \in Manifests
        BY <1>2, <2>1, <3>2, Endings
      <4>2. dir' = [dir EXCEPT !.execution = e]
        BY <1>12, <3>2 DEF StopWritesExecution
      <4> HIDE DEF e
      <4> QED
        BY <1>1, <4>1, <4>2, DirectoryWrites DEF Directories
    <3> QED
      BY <3>1, <3>2
  <2> QED
    BY <1>1, <1>4, <1>6, <1>12, <2>1, <2>2 DEF StopWritesExecution
<1>13. CASE StopWritesProgress
  <2>1. /\ Stopping("progress")
        /\ [gen |-> stop.gen, phase |-> stop.how] \in ProgressFiles
    BY <1>2, <1>13 DEF StopWritesProgress, ProgressFiles, Phases
  <2>2. dir' \in Directories /\ dir'.run = dir.run
    BY <1>1, <1>13, <2>1, DirectoryWrites DEF StopWritesProgress, Directories
  <2> QED
    BY <1>1, <1>6, <1>13, <2>1, <2>2 DEF StopWritesProgress
<1>14. CASE StopBreaks
  <2>1. faults' \in 0..MaxFaults
    BY <1>14, LifecycleAssumption DEF StopBreaks, BaseInv, LifecycleTypeOK
  <2>2. LifecycleTypeOK'
    BY <1>1, <1>5, <1>14, <2>1 DEF StopBreaks
  <2> QED
    BY <1>14, <2>2, BaseStops DEF StopBreaks
<1> QED
  BY <1>7, <1>8, <1>9, <1>10, <1>11, <1>12, <1>13, <1>14 DEF StopStep

LEMMA BaseRetain ==
    ASSUME BaseInv, RetainStep
    PROVE  BaseInv'
<1>1. EmptyDirectory \in Directories
  <2>1. Uncaptured \in Captures
    BY LifecycleAssumption DEF Uncaptured, Captures, Numbers
  <2> QED
    BY <2>1 DEF EmptyDirectory, Directories, RunFiles, Manifests, ProgressFiles,
                ResultFiles, HandledFiles
<1>2. ASSUME NEW how, TakeAway(how) PROVE BaseInv'
  <2>1. LifecycleTypeOK'
    BY <1>1, <1>2 DEF TakeAway, BaseInv, LifecycleTypeOK
  <2>2. \A l \in Launchers : Left(l)' = Left(l) /\ Left(l) \in {0, 14}
    BY <1>2, NobodyInside DEF TakeAway, Left
  <2>3. dir'.run = NoFile /\ stop'.todo = <<>> /\ (retain' = "tombstone" => lock' = "retain")
    BY <1>2, NobodyInside DEF TakeAway, EmptyDirectory
  <2> QED
    BY <2>1, <2>2, <2>3 DEF BaseInv, LocksOK, StartedOK, StoppedOK, PidOK
<1>3. CASE LeaveTombstone \/ RetainBreaks
  <2>1. lock = "retain"
    BY <1>3 DEF LeaveTombstone, RetainBreaks, BaseInv, LocksOK
  <2>2. dir' \in Directories /\ dir'.run = dir.run /\ faults' \in 0..MaxFaults
    <3>1. dir \in Directories /\ faults \in 0..MaxFaults
      BY DEF BaseInv, LifecycleTypeOK
    <3>2. dir' \in Directories /\ dir'.run = dir.run
      BY <1>3, <3>1 DEF LeaveTombstone, RetainBreaks, Directories
    <3>3. faults' \in 0..MaxFaults
      BY <1>3, <3>1, LifecycleAssumption DEF LeaveTombstone, RetainBreaks
    <3> QED
      BY <3>2, <3>3
  <2>3. LifecycleTypeOK'
    BY <1>3, <2>2 DEF LeaveTombstone, RetainBreaks, BaseInv, LifecycleTypeOK
  <2>4. /\ \A l \in Launchers : Left(l)' = Left(l) /\ Left(l) \notin 1..13
        /\ stop'.todo = <<>> /\ retain' # "tombstone"
    BY <1>3, <2>1, TypeFacts DEF LeaveTombstone, RetainBreaks, BaseInv, LocksOK, Left
  <2> QED
    BY <1>3, <2>2, <2>3, <2>4
       DEF LeaveTombstone, RetainBreaks, BaseInv, LocksOK, StartedOK, StoppedOK, PidOK
<1> QED
  BY <1>2, <1>3 DEF RetainStep

LEMMA BaseSteps ==
    ASSUME BaseInv, [LifecycleNext]_lifecycleVars
    PROVE  BaseInv'
<1>1. CASE UNCHANGED lifecycleVars
  BY <1>1 DEF lifecycleVars, BaseInv, LifecycleTypeOK, LocksOK, StartedOK, StoppedOK, PidOK,
              Left
<1> QED
  BY <1>1, BaseStart, BaseRunner, BaseStop, BaseRetain DEF LifecycleNext

\* Whatever is written in whatever order, and wherever it breaks off, the files
\* of the directory, its lock, its starts, runners and stops keep their types
\* (lib/async-runs.ts, scripts/async-runner.mjs).
THEOREM LifecycleTypeCorrect == LifecycleSpec => []LifecycleTypeOK
<1>1. BaseInv => LifecycleTypeOK
  BY DEF BaseInv
<1> QED
  BY <1>1, BaseInit, BaseSteps, PTL DEF LifecycleSpec

-----------------------------------------------------------------------------
(* A live runner can be found.                                             *)

Found(g) ==
    \/ dir.run # NoFile /\ dir.run.pid = g
    \/ \E l \in Launchers : launch[l].gen = g /\ Left(l) = 2
    \/ g \in untracked

NoneFound == \A g \in Generations : Live(g) => g \in untracked

\* ... and there is none that could be while a start is past its checks and has
\* not started its own.
FoundInv ==
    /\ \A g \in Generations : Live(g) => Found(g)
    /\ \A l \in Launchers : Left(l) \in 3..10 => NoneFound

LEMMA FoundFrame ==
    ASSUME FoundInv, dir'.run = dir.run, launch' = launch, untracked \subseteq untracked',
           \A g \in Generations : Live(g)' => Live(g)
    PROVE  FoundInv'
BY DEF FoundInv, Found, NoneFound, Left

LEMMA FoundMoves ==
    ASSUME BaseInv, FoundInv, NEW l \in Launchers, StepDone(l), Left(l) \notin {0, 2, 3},
           dir'.run = dir.run, UNCHANGED <<process, untracked>>,
           Left(l) = 11 => NoneFound
    PROVE  FoundInv'
<1>1. /\ Left(l)' = Left(l) - 1 /\ Left(l) \in 0..14
      /\ \A m \in Launchers \ {l} : launch'[m] = launch[m] /\ Left(m)' = Left(m)
  BY LaunchMoves, LaunchPlaces DEF BaseInv
<1>2. \A g \in Generations : Live(g)' <=> Live(g)
  BY DEF Live
<1>3. ASSUME NEW g \in Generations, Live(g) PROVE Found(g)'
  <2>1. CASE \E m \in Launchers : launch[m].gen = g /\ Left(m) = 2
    BY <1>1, <2>1 DEF Found
  <2> QED
    BY <1>3, <2>1 DEF FoundInv, Found
<1>4. ASSUME NEW m \in Launchers, Left(m)' \in 3..10 PROVE NoneFound
  BY <1>1, <1>4 DEF FoundInv
<1> QED
  BY <1>2, <1>3, <1>4 DEF FoundInv, NoneFound

LEMMA FoundEnds ==
    ASSUME BaseInv, FoundInv, NEW l \in Launchers, launch' = [launch EXCEPT ![l] = Idle],
           dir'.run = dir.run, UNCHANGED process, untracked \subseteq untracked',
           Left(l) = 2 /\ Live(launch[l].gen) => launch[l].gen \in untracked'
    PROVE  FoundInv'
<1>1. /\ Left(l)' = 0
      /\ \A m \in Launchers \ {l} : launch'[m] = launch[m] /\ Left(m)' = Left(m)
  BY LaunchEnds DEF BaseInv
<1>2. \A g \in Generations : Live(g)' <=> Live(g)
  BY DEF Live
<1>3. ASSUME NEW g \in Generations, Live(g) PROVE Found(g)'
  <2>1. CASE \E m \in Launchers : launch[m].gen = g /\ Left(m) = 2
    BY <1>1, <1>3, <2>1 DEF Found
  <2> QED
    BY <1>3, <2>1 DEF FoundInv, Found
<1>4. ASSUME NEW m \in Launchers, Left(m)' \in 3..10 PROVE NoneFound
  BY <1>1, <1>4 DEF FoundInv
<1> QED
  BY <1>2, <1>3, <1>4 DEF FoundInv, NoneFound

LEMMA FoundStart ==
    ASSUME BaseInv, FoundInv, NEW l \in Launchers, StartStep(l)
    PROVE  FoundInv'
<1>0. \A g \in Generations : g # 0 /\ (UNCHANGED process => (Live(g)' <=> Live(g)))
  BY DEF Live, Generations
<1>1. CASE CallStart(l)
  <2>1. /\ Left(l)' = 14 /\ Left(l) = 0
        /\ \A m \in Launchers \ {l} : launch'[m] = launch[m] /\ Left(m)' = Left(m)
    <3>1. launch'[l].todo = LaunchSteps /\ launch[l].todo = <<>>
          /\ \A m \in Launchers \ {l} : launch'[m] = launch[m]
      BY <1>1 DEF CallStart, BaseInv, LifecycleTypeOK, Idle
    <3>2. Len(LaunchSteps) = 14 /\ Len(<<>>) = 0
      BY DEF LaunchSteps
    <3> QED
      BY <3>1, <3>2 DEF Left
  <2>2. dir'.run = dir.run
    BY <1>1, TypeFacts DEF CallStart, BaseInv, Directories
  <2>3. ASSUME NEW g \in Generations, Live(g) PROVE Found(g)'
    BY <1>1, <2>1, <2>2, <2>3 DEF FoundInv, Found, CallStart
  <2> QED
    BY <1>0, <1>1, <2>1, <2>3 DEF CallStart, FoundInv, NoneFound
<1>2. CASE LockDirectory(l) \/ CheckInactive(l)
  <2>1. Left(l) \in {12, 14} /\ StepDone(l)
    BY <1>2, LaunchPlaces DEF LockDirectory, CheckInactive, BaseInv
  <2> QED
    BY <1>2, <2>1, FoundMoves DEF LockDirectory, CheckInactive
<1>3. CASE Claim(l)
  <2>1. Left(l) = 13 /\ StepDone(l)
    BY <1>3, LaunchPlaces DEF Claim, BaseInv
  <2>2. dir'.run = dir.run
    BY <1>3, TypeFacts DEF Claim, BaseInv, Directories
  <2> QED
    BY <1>3, <2>1, <2>2, FoundMoves DEF Claim
<1>4. CASE Prepare(l)
  <2>1. Left(l) = 11 /\ StepDone(l) /\ lock = l
    BY <1>4, LaunchPlaces DEF Prepare, BaseInv, LocksOK
  <2>2. ASSUME NEW g \in Generations, Live(g), g \notin untracked PROVE FALSE
    <3>1. ~\E m \in Launchers : Left(m) = 2
      BY <2>1 DEF BaseInv, LocksOK
    <3>2. dir.run # NoFile /\ dir.run.pid = g
      BY <2>2, <3>1 DEF FoundInv, Found
    <3>3. Identity # "dead_pid"
      BY <1>0, <2>2, <3>2 DEF Identity, Live
    <3> QED
      BY <1>4, <3>3 DEF Prepare, Startable
  <2> QED
    BY <1>4, <2>1, <2>2, FoundMoves DEF Prepare, NoneFound
<1>5. CASE RemoveEvidence(l)
  <2>1. PICK file \in Removed :
            /\ Launching(l, file) /\ StepDone(l)
            /\ dir' = [dir EXCEPT ![file] = Emptied(file)]
            /\ UNCHANGED <<lock, process, runner, stop, retain, untracked, faults>>
    BY <1>5 DEF RemoveEvidence
  <2>2. dir'.run = dir.run
    BY <2>1, TypeFacts, Emptying DEF BaseInv
  <2>3. Left(l) \in 6..10
    BY <2>1, LaunchPlaces DEF Removed, BaseInv
  <2> QED
    BY <2>1, <2>2, <2>3, FoundMoves
<1>6. CASE WriteRun(l)
  <2>1. Left(l) = 5 /\ Left(l)' = 4
    BY <1>6, BaseWritesRun
  <2>2. NoneFound
    BY <2>1 DEF FoundInv
  <2>3. \A g \in Generations : Live(g)' => Live(g)
    BY <1>6 DEF WriteRun, BaseInv, LifecycleTypeOK, Live
  <2> QED
    BY <1>6, <2>2, <2>3 DEF WriteRun, FoundInv, Found, NoneFound
<1>7. CASE WriteStarting(l)
  <2>1. Left(l) = 4 /\ StepDone(l)
    BY <1>7, LaunchPlaces DEF WriteStarting, BaseInv
  <2>2. dir'.run = dir.run
    BY <1>7, TypeFacts DEF WriteStarting, BaseInv, Directories
  <2> QED
    BY <1>7, <2>1, <2>2, FoundMoves DEF WriteStarting
<1>8. CASE Spawn(l)
  <2>1. Left(l) = 3 /\ StepDone(l) /\ lock = l
    BY <1>8, LaunchPlaces DEF Spawn, BaseInv, LocksOK
  <2>2. /\ Left(l)' = 2 /\ launch'[l].gen = launch[l].gen
        /\ \A m \in Launchers \ {l} : Left(m)' = Left(m)
    BY <2>1, LaunchMoves DEF BaseInv
  <2>3. NoneFound
    BY <2>1 DEF FoundInv
  <2>4. \A g \in Generations : Live(g)' => Live(g) \/ g = launch[l].gen
    BY <1>8 DEF Spawn, BaseInv, LifecycleTypeOK, Live
  <2>5. \A m \in Launchers : Left(m)' \notin 3..10
    BY <2>1, <2>2 DEF BaseInv, LocksOK
  <2> QED
    BY <1>8, <2>2, <2>3, <2>4, <2>5 DEF Spawn, FoundInv, Found, NoneFound
<1>9. CASE RecordPid(l)
  <2>1. Left(l) = 2 /\ StepDone(l) /\ lock = l
    BY <1>9, LaunchPlaces DEF RecordPid, BaseInv, LocksOK
  <2>2. /\ dir.run # NoFile /\ dir.run.pid = 0 /\ launch[l].gen \in Generations
        /\ dir.run.gen = launch[l].gen
    BY <2>1 DEF BaseInv, StartedOK
  <2>3. PICK proof \in BOOLEAN :
            dir' = [dir EXCEPT !.run.pid = launch[l].gen, !.run.proof = proof]
    BY <1>9 DEF RecordPid
  <2>4. dir'.run = [dir.run EXCEPT !.pid = launch[l].gen, !.proof = proof]
    BY <2>3, TypeFacts DEF BaseInv, Directories
  <2>5. dir'.run.pid = launch[l].gen /\ dir'.run.gen # 0
    BY <2>2, <2>4, RunFileFields, TypeFacts DEF BaseInv
  <2>6. dir'.run # NoFile
    BY <2>5 DEF NoFile
  <2>7. /\ Left(l)' = 1
        /\ \A m \in Launchers \ {l} : launch'[m] = launch[m] /\ Left(m)' = Left(m)
    BY <2>1, LaunchMoves DEF BaseInv
  <2>8. \A m \in Launchers \ {l} : Left(m) \notin 1..13
    BY <2>1 DEF BaseInv, LocksOK
  <2>9. ASSUME NEW g \in Generations, Live(g) PROVE Found(g)'
    <3>1. g = launch[l].gen \/ g \in untracked
      BY <1>0, <2>2, <2>8, <2>9 DEF FoundInv, Found
    <3> QED
      BY <1>9, <2>5, <2>6, <3>1 DEF Found, RecordPid
  <2>10. \A m \in Launchers : Left(m)' \notin 3..10
    BY <2>7, <2>8
  <2> QED
    BY <1>0, <1>9, <2>9, <2>10 DEF RecordPid, FoundInv
<1>10. CASE LogStart(l)
  <2>1. Left(l) = 1
    BY <1>10, LaunchPlaces DEF LogStart, BaseInv
  <2>2. dir'.run = dir.run
    BY <1>10, TypeFacts DEF LogStart, BaseInv, Directories
  <2>3. /\ launch' = [launch EXCEPT ![l] = Idle] /\ UNCHANGED process
        /\ untracked \subseteq untracked' /\ Left(l) # 2
    BY <1>10, <2>1 DEF LogStart
  <2> QED
    BY <2>2, <2>3, FoundEnds
<1>11. CASE StartEnds(l)
  <2>1. Left(l) # 2
    BY <1>11, LaunchPlaces DEF StartEnds, BaseInv
  <2> QED
    BY <1>11, <2>1, FoundEnds DEF StartEnds
<1>12. CASE StartBreaks(l)
  <2>1. Left(l) = 2 /\ Live(launch[l].gen) => launch[l].gen \in untracked'
    BY <1>12, LaunchPlaces DEF StartBreaks, BaseInv, Live
  <2>2. untracked \subseteq untracked'
    BY <1>12 DEF StartBreaks
  <2> QED
    BY <1>12, <2>1, <2>2, FoundEnds DEF StartBreaks
<1> QED
  BY <1>1, <1>2, <1>3, <1>4, <1>5, <1>6, <1>7, <1>8, <1>9, <1>10, <1>11, <1>12 DEF StartStep

\* What the steps of a runner, of a stop and of the processes leave alone.
LEMMA QuietFiles ==
    ASSUME BaseInv,
           \/ StopStep \/ LeaveTombstone \/ RetainBreaks
           \/ \E g \in Generations : RunnerStep(g) \/ PidStep(g)
    PROVE  /\ dir'.run = dir.run /\ UNCHANGED <<launch, untracked>>
           /\ \A g \in Generations : Live(g)' => Live(g)
<1>1. dir \in Directories /\ process \in [Generations -> {"none", "unborn", "live", "dead", "recycled"}]
  BY DEF BaseInv, LifecycleTypeOK
<1>2. CASE StopStep
  BY <1>1, <1>2 DEF StopStep, CallStop, StopSignals, StopLogs, StopMarksHandled,
         StopReadsExecution, StopWritesExecution, StopWritesProgress, StopBreaks, Live,
         Directories
<1>3. CASE LeaveTombstone \/ RetainBreaks
  BY <1>1, <1>3 DEF LeaveTombstone, RetainBreaks, Directories, Live
<1>4. ASSUME NEW g \in Generations, RunnerWrites(g)
      PROVE  dir'.run = dir.run
  <2>1. Head(runner[g].todo) \in AllWrites
    BY <1>4, HeadTailProperties DEF RunnerWrites, BaseInv, LifecycleTypeOK, Runners
  <2> QED
    BY <1>4, <2>1, Writing DEF RunnerWrites
<1>5. ASSUME NEW g \in Generations, RunnerStep(g) \/ PidStep(g)
      PROVE  dir'.run = dir.run
  BY <1>1, <1>4, <1>5 DEF RunnerStep, PidStep, RunnerThrows, TemplateEnds, CommandStarts,
         CommandAttempt, CommandEnds, RunnerExits, RunnerDies, PidIsTaken, PidIsFree,
         Directories
<1>6. ASSUME NEW g \in Generations, RunnerStep(g) \/ PidStep(g)
      PROVE  /\ UNCHANGED <<launch, untracked>>
             /\ process' = process \/ \E s \in {"dead", "recycled"} :
                                          process' = [process EXCEPT ![g] = s]
  BY <1>6 DEF RunnerStep, PidStep, RunnerWrites, RunnerThrows, TemplateEnds, CommandStarts,
         CommandAttempt, CommandEnds, RunnerExits, RunnerDies, PidIsTaken, PidIsFree
<1>7. ASSUME NEW g \in Generations, RunnerStep(g) \/ PidStep(g)
      PROVE  \A h \in Generations : Live(h)' => Live(h)
  BY <1>1, <1>6, <1>7 DEF Live
<1> QED
  BY <1>2, <1>3, <1>5, <1>6, <1>7

LEMMA FoundInit == LifecycleInit => FoundInv
<1>1. LifecycleInit => \A l \in Launchers : Left(l) = 0
  <2>1. Len(<<>>) = 0
    OBVIOUS
  <2> QED
    BY <2>1 DEF LifecycleInit, Left, Idle
<1> QED
  BY <1>1 DEF LifecycleInit, FoundInv, Live

LEMMA FoundSteps ==
    ASSUME BaseInv, FoundInv, [LifecycleNext]_lifecycleVars
    PROVE  FoundInv'
<1>1. CASE UNCHANGED lifecycleVars
  BY <1>1, FoundFrame DEF lifecycleVars, Live
<1>2. ASSUME NEW how, TakeAway(how) PROVE FoundInv'
  <2>1. \A l \in Launchers : Left(l)' = Left(l) /\ Left(l) \in {0, 14}
    BY <1>2, NobodyInside DEF TakeAway, Left
  <2>2. \A g \in Generations : Live(g)' => g \in untracked'
    BY <1>2, <2>1 DEF TakeAway, FoundInv, Found, Live
  <2> QED
    BY <2>1, <2>2 DEF FoundInv, Found
<1> QED
  BY <1>1, <1>2, FoundStart, QuietFiles, FoundFrame DEF LifecycleNext, RetainStep

\* Every live runner is named by run.json, is about to be, or was lost in one of
\* the two ways the code has: startRun that breaks off before it records the pid,
\* retainRun that takes a directory whose result is there
\* (lib/async-runs.ts, lib/runs-retention.ts).
THEOREM RunnersAlwaysFound == LifecycleSpec => []RunnersAreFound
<1>1. BaseInv /\ FoundInv => RunnersAreFound
  BY LaunchPlaces DEF BaseInv, FoundInv, Found, RunnersAreFound
<1> QED
  BY <1>1, BaseInit, BaseSteps, FoundInit, FoundSteps, PTL DEF LifecycleSpec

-----------------------------------------------------------------------------
(* Evidence is that of the generation run.json names.                      *)

\* The generations a file has evidence of.
Gens(file) == IF file = "trace" THEN {event.gen : event \in dir.trace} ELSE {dir[file].gen}

\* Those it may have: the current one, and in a directory that a start has begun
\* to clear not even that.
Lost == {0} \cup untracked
Known == {dir.run.gen} \cup Lost

Cleared(file, first, last) ==
    \A l \in Launchers : Left(l) \in first..last => Gens(file) \subseteq Lost

OwnInv ==
    /\ \A file \in Removed : Gens(file) \subseteq Known
    /\ Cleared("execution", 3, 9) /\ Cleared("progress", 4, 8) /\ Cleared("result", 3, 7)
    /\ Cleared("handled", 3, 6) /\ Cleared("trace", 3, 5)
    /\ stop.todo # <<>> => stop.read.gen \in Known

\* A step that writes evidence of the generations G.
Adds(G) == \A file \in Removed : Gens(file)' \subseteq Gens(file) \cup G

LEMMA OwnFrame ==
    ASSUME OwnInv, NEW G, Adds(G), G \subseteq Known,
           \A l \in Launchers : Left(l)' \in 3..9 => Left(l)' = Left(l) /\ G \subseteq Lost,
           dir'.run.gen = dir.run.gen, untracked \subseteq untracked',
           stop'.todo # <<>> => stop'.read.gen \in Known
    PROVE  OwnInv'
<1>1. Known \subseteq Known' /\ Lost \subseteq Lost'
  BY DEF Known, Lost
<1>2. \A file \in Removed : Gens(file)' \subseteq Known'
  BY <1>1 DEF OwnInv, Adds
<1>3. ASSUME NEW file \in Removed, NEW l \in Launchers, Left(l)' \in 3..9,
             Gens(file) \subseteq Lost
      PROVE  Gens(file)' \subseteq Lost'
  BY <1>1, <1>3 DEF Adds
<1>4. /\ Cleared("execution", 3, 9)' /\ Cleared("progress", 4, 8)'
      /\ Cleared("result", 3, 7)' /\ Cleared("handled", 3, 6)' /\ Cleared("trace", 3, 5)'
  BY <1>3 DEF OwnInv, Cleared, Removed
<1> QED
  BY <1>1, <1>2, <1>4 DEF OwnInv

LEMMA AddsNothing ==
    ASSUME UNCHANGED <<dir.execution, dir.progress, dir.result, dir.handled, dir.trace>>
    PROVE  Adds({})
BY DEF Adds, Gens, Removed

LEMMA AddsEvent ==
    ASSUME LifecycleTypeOK, NEW gen, NEW kind,
           dir' = [dir EXCEPT !.trace = Traces(gen, kind)]
    PROVE  Adds({gen}) /\ dir'.run = dir.run
<1>1. /\ dir'.run = dir.run
      /\ UNCHANGED <<dir.execution, dir.progress, dir.result, dir.handled>>
      /\ dir'.trace = Traces(gen, kind)
  BY TypeFacts DEF Directories
<1> QED
  BY <1>1 DEF Adds, Gens, Removed, Traces

LEMMA OwnStart ==
    ASSUME BaseInv, FoundInv, OwnInv, NEW l \in Launchers, StartStep(l)
    PROVE  OwnInv'
<1>1. {} \subseteq Known /\ {} \subseteq Lost
  OBVIOUS
<1>2. ASSUME UNCHANGED <<dir, stop, untracked>>,
             \A m \in Launchers : Left(m)' \in 3..9 => Left(m)' = Left(m)
      PROVE  OwnInv'
  BY <1>1, <1>2, AddsNothing, OwnFrame DEF OwnInv
<1>3. ASSUME lock = l
      PROVE  \A m \in Launchers \ {l} : Left(m) \notin 1..13
  BY <1>3 DEF BaseInv, LocksOK
<1>4. CASE CallStart(l) \/ Claim(l)
  <2>1. UNCHANGED <<dir.run, dir.execution, dir.progress, dir.result, dir.handled, dir.trace>>
    BY <1>4, TypeFacts DEF CallStart, Claim, BaseInv, Directories
  <2>2. \A m \in Launchers : Left(m)' \in 3..9 => Left(m)' = Left(m)
    <3>1. CASE CallStart(l)
      <4>1. Left(l)' = 14 /\ (\A m \in Launchers \ {l} : Left(m)' = Left(m))
        <5>1. Len(LaunchSteps) = 14
          BY DEF LaunchSteps
        <5> QED
          BY <3>1, <5>1 DEF CallStart, BaseInv, LifecycleTypeOK, Idle, Left
      <4> QED
        BY <4>1
    <3>2. CASE Claim(l)
      <4>1. Left(l) = 13 /\ StepDone(l)
        BY <3>2, LaunchPlaces DEF Claim, BaseInv
      <4> QED
        BY <4>1, LaunchMoves DEF BaseInv
    <3> QED
      BY <1>4, <3>1, <3>2
  <2> QED
    BY <1>1, <1>4, <2>1, <2>2, AddsNothing, OwnFrame DEF CallStart, Claim, OwnInv
<1>5. CASE LockDirectory(l) \/ CheckInactive(l) \/ Prepare(l) \/ Spawn(l)
  <2>1. Left(l) \in {14, 12, 11, 3} /\ StepDone(l)
    BY <1>5, LaunchPlaces DEF LockDirectory, CheckInactive, Prepare, Spawn, BaseInv
  <2>2. \A m \in Launchers : Left(m)' \in 3..9 => Left(m)' = Left(m)
    BY <2>1, LaunchMoves DEF BaseInv
  <2> QED
    BY <1>2, <1>5, <2>2 DEF LockDirectory, CheckInactive, Prepare, Spawn
<1>6. CASE RemoveEvidence(l)
  <2>1. PICK file \in Removed :
            /\ Launching(l, file) /\ StepDone(l)
            /\ dir' = [dir EXCEPT ![file] = Emptied(file)]
            /\ UNCHANGED <<lock, process, runner, stop, retain, untracked, faults>>
    BY <1>6 DEF RemoveEvidence
  <2>2. /\ dir'.run = dir.run /\ dir'[file] = Emptied(file)
        /\ \A other \in Removed \ {file} : dir'[other] = dir[other]
    BY <2>1, TypeFacts DEF BaseInv, Directories, Removed
  <2>3. Known' = Known /\ Lost' = Lost /\ stop' = stop
    BY <2>1, <2>2 DEF Known, Lost
  <2>4. Gens(file)' \subseteq Lost /\ \A other \in Removed \ {file} : Gens(other)' = Gens(other)
    <3>1. CASE file = "trace"
      <4>1. dir'.trace = {}
        BY <2>2, <3>1 DEF Emptied
      <4>2. Gens(file)' = {}
        BY <3>1, <4>1 DEF Gens
      <4> QED
        BY <2>2, <3>1, <4>2 DEF Gens, Removed
    <3>2. CASE file # "trace"
      <4>1. Gens(file)' = {0}
        BY <2>2, <3>2 DEF Gens, Emptied, NoFile
      <4>2. dir'.trace = dir.trace
        BY <2>2, <3>2 DEF Removed
      <4> QED
        BY <2>2, <3>2, <4>1, <4>2 DEF Gens, Lost
    <3> QED
      BY <3>1, <3>2
  <2>5. /\ file = "execution" => Left(l)' = 9
        /\ file = "progress" => Left(l)' = 8
        /\ file = "result" => Left(l)' = 7
        /\ file = "handled" => Left(l)' = 6
        /\ file = "trace" => Left(l)' = 5
        /\ Left(l) \in 6..10 /\ Left(l)' = Left(l) - 1
        /\ \A m \in Launchers \ {l} : Left(m)' = Left(m)
    <3>1. Left(l) # 0
      BY <2>1, LaunchPlaces DEF BaseInv, Removed
    <3> QED
      BY <2>1, <3>1, LaunchPlaces, LaunchMoves DEF BaseInv, Removed
  <2>6. lock = l
    BY <2>5 DEF BaseInv, LocksOK
  <2>7. ASSUME NEW other \in Removed, NEW first \in 3..4, NEW last \in 5..9,
               Cleared(other, first, last), file = other => Left(l)' = last,
               file # other => Left(l)' # last
        PROVE  Cleared(other, first, last)'
    <3>1. SUFFICES ASSUME Left(l)' \in first..last PROVE Gens(other)' \subseteq Lost
      BY <1>3, <2>3, <2>5, <2>6 DEF Cleared
    <3>2. CASE file = other
      BY <2>4, <3>2
    <3>3. CASE file # other
      <4>1. Left(l) \in first..last
        BY <2>5, <2>7, <3>1, <3>3
      <4> QED
        BY <2>4, <2>7, <3>3, <4>1 DEF Cleared
    <3> QED
      BY <3>2, <3>3
  <2>8. /\ Cleared("execution", 3, 9)' /\ Cleared("progress", 4, 8)'
        /\ Cleared("result", 3, 7)' /\ Cleared("handled", 3, 6)' /\ Cleared("trace", 3, 5)'
    BY <2>5, <2>7 DEF OwnInv, Removed
  <2>9. Lost \subseteq Known
    BY DEF Known
  <2> QED
    BY <2>3, <2>4, <2>8, <2>9 DEF OwnInv
<1>7. CASE WriteRun(l)
  <2>1. Left(l) = 5 /\ Left(l)' = 4 /\ lock = l
    BY <1>7, BaseWritesRun DEF BaseInv, LocksOK
  <2>2. /\ UNCHANGED <<dir.execution, dir.progress, dir.result, dir.handled, dir.trace>>
        /\ untracked' = untracked /\ stop' = stop
    BY <1>7, TypeFacts DEF WriteRun, BaseInv, Directories
  <2>3. \A file \in Removed : Gens(file)' = Gens(file) /\ Gens(file) \subseteq Lost
    <3>1. \A file \in Removed : Gens(file)' = Gens(file)
      BY <2>2 DEF Gens, Removed
    <3>2. /\ Gens("execution") \subseteq Lost /\ Gens("progress") \subseteq Lost
          /\ Gens("result") \subseteq Lost /\ Gens("handled") \subseteq Lost
          /\ Gens("trace") \subseteq Lost
      BY <2>1 DEF OwnInv, Cleared
    <3> QED
      BY <3>1, <3>2 DEF Removed
  <2>4. stop.todo = <<>>
    BY <2>1, TypeFacts DEF BaseInv, LocksOK
  <2>5. Lost' = Lost /\ Lost' \subseteq Known'
    BY <2>2 DEF Lost, Known
  <2>6. \A file \in Removed : Gens(file)' \subseteq Lost'
    BY <2>3, <2>5
  <2> QED
    BY <2>2, <2>4, <2>5, <2>6 DEF OwnInv, Cleared, Removed
<1>8. CASE WriteStarting(l)
  <2>1. Left(l) = 4 /\ StepDone(l) /\ lock = l
    BY <1>8, LaunchPlaces DEF WriteStarting, BaseInv, LocksOK
  <2>2. /\ Left(l)' = 3 /\ \A m \in Launchers \ {l} : Left(m)' = Left(m)
    BY <2>1, LaunchMoves DEF BaseInv
  <2>3. /\ UNCHANGED <<dir.run, dir.execution, dir.result, dir.handled, dir.trace>>
        /\ dir'.progress.gen = launch[l].gen
        /\ untracked' = untracked /\ stop' = stop
    BY <1>8, TypeFacts DEF WriteStarting, BaseInv, Directories
  <2>4. dir.run.gen = launch[l].gen
    BY <2>1 DEF BaseInv, StartedOK
  <2>5. /\ \A file \in Removed \ {"progress"} : Gens(file)' = Gens(file)
        /\ Gens("progress")' \subseteq Known
    BY <2>3, <2>4 DEF Gens, Removed, Known
  <2>6. Known' = Known /\ Lost' = Lost
    BY <2>3 DEF Known, Lost
  <2>7. \A m \in Launchers \ {l} : Left(m)' \notin 1..13
    BY <1>3, <2>1, <2>2
  <2>8. /\ Cleared("execution", 3, 9)' /\ Cleared("progress", 4, 8)'
        /\ Cleared("result", 3, 7)' /\ Cleared("handled", 3, 6)' /\ Cleared("trace", 3, 5)'
    BY <2>1, <2>2, <2>5, <2>6, <2>7 DEF OwnInv, Cleared, Removed
  <2> QED
    BY <2>3, <2>5, <2>6, <2>8 DEF OwnInv
<1>9. CASE RecordPid(l)
  <2>1. Left(l) = 2 /\ StepDone(l)
    BY <1>9, LaunchPlaces DEF RecordPid, BaseInv
  <2>2. dir.run # NoFile
    BY <2>1 DEF BaseInv, StartedOK
  <2>3. /\ UNCHANGED <<dir.execution, dir.progress, dir.result, dir.handled, dir.trace>>
        /\ dir'.run.gen = dir.run.gen
    <3>1. PICK proof \in BOOLEAN :
              dir' = [dir EXCEPT !.run.pid = launch[l].gen, !.run.proof = proof]
      BY <1>9 DEF RecordPid
    <3>2. dir \in Directories /\ dir.run \in [gen: Generations, pid: Numbers, proof: BOOLEAN]
      BY <2>2, TypeFacts, RunFileFields DEF BaseInv
    <3>3. dir'.run = [dir.run EXCEPT !.pid = launch[l].gen, !.proof = proof]
      BY <3>1, <3>2 DEF Directories
    <3>4. dir'.run.gen = dir.run.gen
      BY <3>2, <3>3
    <3>5. UNCHANGED <<dir.execution, dir.progress, dir.result, dir.handled, dir.trace>>
      BY <3>1, <3>2 DEF Directories
    <3> QED
      BY <3>4, <3>5
  <2>4. \A m \in Launchers : Left(m)' \in 3..9 => Left(m)' = Left(m)
    BY <2>1, LaunchMoves DEF BaseInv
  <2> QED
    BY <1>1, <1>9, <2>3, <2>4, AddsNothing, OwnFrame DEF RecordPid, OwnInv
<1>10. CASE LogStart(l)
  <2>1. Left(l) = 1 /\ lock = l
    BY <1>10, LaunchPlaces DEF LogStart, BaseInv, LocksOK
  <2>2. dir.run.gen = launch[l].gen
    BY <2>1 DEF BaseInv, StartedOK
  <2>3. Adds({launch[l].gen}) /\ dir'.run = dir.run
    BY <1>10, AddsEvent DEF LogStart, BaseInv
  <2>4. \A m \in Launchers : Left(m)' \notin 3..9
    <3>1. Left(l)' = 0 /\ \A m \in Launchers \ {l} : Left(m)' = Left(m)
      BY <1>10, LaunchEnds DEF LogStart, BaseInv
    <3> QED
      BY <1>3, <2>1, <3>1
  <2>5. {launch[l].gen} \subseteq Known
    BY <2>2 DEF Known
  <2> QED
    BY <1>10, <2>3, <2>4, <2>5, OwnFrame DEF LogStart, OwnInv
<1>11. CASE StartEnds(l) \/ StartBreaks(l)
  <2>1. \A m \in Launchers : Left(m)' \in 3..9 => Left(m)' = Left(m)
    BY <1>11, LaunchEnds DEF StartEnds, StartBreaks, BaseInv
  <2>2. untracked \subseteq untracked' /\ dir' = dir /\ stop' = stop
    BY <1>11 DEF StartEnds, StartBreaks
  <2> QED
    BY <1>1, <2>1, <2>2, AddsNothing, OwnFrame DEF OwnInv
<1> QED
  BY <1>4, <1>5, <1>6, <1>7, <1>8, <1>9, <1>10, <1>11 DEF StartStep

LEMMA OwnRunner ==
    ASSUME BaseInv, FoundInv, OwnInv, NEW g \in Generations, RunnerStep(g) \/ PidStep(g)
    PROVE  OwnInv'
<1>1. /\ dir'.run = dir.run /\ UNCHANGED <<launch, untracked>>
      /\ \A l \in Launchers : Left(l)' = Left(l)
  BY QuietFiles DEF Left
<1>2. stop' = stop
  BY DEF RunnerStep, PidStep, RunnerWrites, RunnerThrows, TemplateEnds, CommandStarts,
         CommandAttempt, CommandEnds, RunnerExits, RunnerDies, PidIsTaken, PidIsFree
<1>3. CASE RunnerWrites(g)
  <2> DEFINE w == Head(runner[g].todo)
  <2>1. w \in AllWrites
    BY <1>3, HeadTailProperties DEF RunnerWrites, BaseInv, LifecycleTypeOK, Runners
  <2>2. dir' = Written(g, w) /\ Live(g)
    BY <1>3 DEF RunnerWrites
  <2> HIDE DEF w
  <2>3. Adds({g})
    <3>1. /\ dir'.execution = dir.execution \/ dir'.execution.gen = g
          /\ dir'.progress = dir.progress \/ dir'.progress.gen = g
          /\ dir'.handled = dir.handled
      BY <2>1, <2>2, Writing
    <3>2. dir'.result = dir.result \/ dir'.result.gen = g
      <4>1. dir'.result = dir.result \/ dir'.result = [gen |-> g, outcome |-> w.state]
        BY <2>1, <2>2, Writing
      <4> QED
        BY <4>1
    <3>3. dir'.trace = dir.trace \/ dir'.trace = Traces(g, w.kind)
      BY <2>1, <2>2, Writing
    <3>4. \A file \in Removed \ {"trace"} : Gens(file)' \subseteq Gens(file) \cup {g}
      BY <3>1, <3>2 DEF Gens, Removed
    <3>5. Gens("trace")' \subseteq Gens("trace") \cup {g}
      BY <3>3 DEF Gens, Traces
    <3> QED
      BY <3>4, <3>5 DEF Adds
  <2>4. g \in Known
    BY <2>2, TypeFacts DEF FoundInv, Found, Known, Lost, BaseInv, PidOK, StartedOK
  <2>5. \A l \in Launchers : Left(l) \in 3..9 => g \in Lost
    BY <2>2 DEF FoundInv, NoneFound, Lost
  <2> QED
    BY <1>1, <1>2, <2>3, <2>4, <2>5, OwnFrame DEF OwnInv
<1>4. CASE ~RunnerWrites(g)
  <2>1. UNCHANGED <<dir.execution, dir.progress, dir.result, dir.handled, dir.trace>>
    BY <1>4, TypeFacts
       DEF RunnerStep, PidStep, RunnerThrows, TemplateEnds, CommandStarts, CommandAttempt,
           CommandEnds, RunnerExits, RunnerDies, PidIsTaken, PidIsFree, BaseInv, Directories
  <2> QED
    BY <1>1, <1>2, <2>1, AddsNothing, OwnFrame DEF OwnInv
<1> QED
  BY <1>3, <1>4

LEMMA OwnStop ==
    ASSUME BaseInv, OwnInv, StopStep
    PROVE  OwnInv'
<1>1. /\ dir'.run = dir.run /\ UNCHANGED <<launch, untracked>>
      /\ \A l \in Launchers : Left(l)' = Left(l)
  BY QuietFiles DEF Left
<1>2. dir \in Directories /\ stop.read \in Manifests /\ 0 \in Known
  BY DEF BaseInv, LifecycleTypeOK, Known, Lost
<1>3. ASSUME NEW step, Stopping(step)
      PROVE  /\ \A l \in Launchers : Left(l) \notin 1..13
             /\ dir.run.gen = stop.gen /\ stop.gen \in Known /\ stop.read.gen \in Known
  <2>1. stop.todo # <<>>
    BY <1>3 DEF Stopping
  <2> QED
    BY <2>1, TypeFacts DEF BaseInv, LocksOK, StoppedOK, Known, OwnInv
<1>4. NoStop.todo = <<>>
  BY DEF NoStop
<1>5. ASSUME NEW how \in Interruptions, NEW gen \in Started, CallStop(how, gen)
      PROVE  OwnInv'
  <2>1. stop'.read = NoFile /\ NoFile.gen = 0 /\ dir' = dir
    BY <1>5 DEF CallStop, NoStop, NoFile
  <2> QED
    BY <1>1, <1>2, <2>1, AddsNothing, OwnFrame
<1>6. CASE StopSignals \/ StopBreaks
  <2>1. dir' = dir /\ (stop' = NoStop \/ (Stopping("signal") /\ stop'.read = stop.read))
    BY <1>6 DEF StopSignals, StopBreaks, BaseInv, LifecycleTypeOK
  <2> QED
    BY <1>1, <1>3, <1>4, <2>1, AddsNothing, OwnFrame
<1>7. CASE StopLogs
  <2>1. Stopping("trace") /\ stop'.read = stop.read
    BY <1>7 DEF StopLogs, BaseInv, LifecycleTypeOK
  <2>2. Adds({stop.gen})
    BY <1>7, AddsEvent DEF StopLogs, BaseInv
  <2> QED
    BY <1>1, <1>3, <2>1, <2>2, OwnFrame
<1>8. CASE StopMarksHandled
  <2>1. Stopping("handled") /\ stop'.read = stop.read
    BY <1>8 DEF StopMarksHandled, BaseInv, LifecycleTypeOK
  <2>2. /\ dir'.handled.gen = stop.gen
        /\ UNCHANGED <<dir.execution, dir.progress, dir.result, dir.trace>>
    BY <1>2, <1>8 DEF StopMarksHandled, Directories
  <2>3. Adds({stop.gen})
    BY <2>2 DEF Adds, Gens, Removed
  <2> QED
    BY <1>1, <1>3, <2>1, <2>3, OwnFrame
<1>9. CASE StopReadsExecution
  <2>1. Stopping("read") /\ stop'.read = dir.execution /\ dir' = dir
    BY <1>9 DEF StopReadsExecution, BaseInv, LifecycleTypeOK
  <2>2. dir.execution.gen \in Known
    BY DEF OwnInv, Gens, Removed
  <2> QED
    BY <1>1, <1>3, <2>1, <2>2, AddsNothing, OwnFrame
<1>10. CASE StopWritesExecution
  <2>1. Stopping("execution") /\ stop'.read = stop.read
    BY <1>10 DEF StopWritesExecution, BaseInv, LifecycleTypeOK
  <2>2. /\ dir' = dir \/ dir'.execution.gen = stop.read.gen
        /\ UNCHANGED <<dir.progress, dir.result, dir.handled, dir.trace>>
    BY <1>2, <1>10 DEF StopWritesExecution, Directories
  <2>3. Adds({stop.read.gen})
    BY <2>2 DEF Adds, Gens, Removed
  <2> QED
    BY <1>1, <1>3, <2>1, <2>3, OwnFrame
<1>11. CASE StopWritesProgress
  <2>1. Stopping("progress") /\ stop' = NoStop
    BY <1>11 DEF StopWritesProgress
  <2>2. /\ dir'.progress.gen = stop.gen
        /\ UNCHANGED <<dir.execution, dir.result, dir.handled, dir.trace>>
    BY <1>2, <1>11 DEF StopWritesProgress, Directories
  <2>3. Adds({stop.gen})
    BY <2>2 DEF Adds, Gens, Removed
  <2> QED
    BY <1>1, <1>3, <1>4, <2>1, <2>3, OwnFrame
<1> QED
  BY <1>5, <1>6, <1>7, <1>8, <1>9, <1>10, <1>11 DEF StopStep

LEMMA OwnRetain ==
    ASSUME BaseInv, OwnInv, RetainStep
    PROVE  OwnInv'
<1>1. ASSUME NEW how, TakeAway(how) PROVE OwnInv'
  <2>1. dir' = EmptyDirectory /\ launch' = launch /\ stop' = stop
    BY <1>1 DEF TakeAway
  <2>2. \A l \in Launchers : Left(l)' \notin 1..13
    <3>1. \A l \in Launchers : Left(l) \in {0, 14} /\ Left(l)' = Left(l)
      BY <1>1, <2>1, NobodyInside DEF TakeAway, Left
    <3> QED
      BY <3>1
  <2>3. stop'.todo = <<>>
    BY <1>1, NobodyInside DEF TakeAway
  <2>4. \A file \in Removed : Gens(file)' \subseteq {0}
    BY <2>1 DEF Gens, EmptyDirectory, NoFile, Removed
  <2> QED
    BY <2>2, <2>3, <2>4 DEF OwnInv, Cleared, Known, Lost
<1>2. CASE LeaveTombstone \/ RetainBreaks
  <2>1. /\ dir'.run = dir.run /\ UNCHANGED <<launch, untracked>>
        /\ \A l \in Launchers : Left(l)' = Left(l)
    BY <1>2, QuietFiles DEF Left
  <2>2. UNCHANGED <<dir.execution, dir.progress, dir.result, dir.handled, dir.trace>>
    BY <1>2, TypeFacts DEF LeaveTombstone, RetainBreaks, BaseInv, Directories
  <2>3. stop' = stop
    BY <1>2 DEF LeaveTombstone, RetainBreaks
  <2> QED
    BY <2>1, <2>2, <2>3, AddsNothing, OwnFrame DEF OwnInv
<1> QED
  BY <1>1, <1>2 DEF RetainStep

LEMMA OwnInit == LifecycleInit => OwnInv
<1>1. LifecycleInit => \A l \in Launchers : Left(l) = 0
  <2>1. Len(<<>>) = 0
    OBVIOUS
  <2> QED
    BY <2>1 DEF LifecycleInit, Left, Idle
<1>2. LifecycleInit => \A file \in Removed : Gens(file) \subseteq {0}
  BY DEF LifecycleInit, Gens, EmptyDirectory, NoFile, Removed
<1> QED
  BY <1>1, <1>2 DEF LifecycleInit, OwnInv, Cleared, Known, Lost, NoStop

LEMMA OwnSteps ==
    ASSUME BaseInv, FoundInv, OwnInv, [LifecycleNext]_lifecycleVars
    PROVE  OwnInv'
<1>1. CASE UNCHANGED lifecycleVars
  BY <1>1, AddsNothing, OwnFrame DEF lifecycleVars, OwnInv, Left
<1> QED
  BY <1>1, OwnStart, OwnRunner, OwnStop, OwnRetain DEF LifecycleNext

\* Whoever read, stopped or started it, and wherever that broke off, evidence in a
\* directory is of the generation run.json names or of a runner that was lost:
\* startRun clears the rest before it writes run.json, and until then no runner
\* that could be found is alive (lib/runs-start.ts, prepareStateDirForStart).
THEOREM EvidenceAlwaysOwn == LifecycleSpec => []EvidenceIsOwn
<1>1. OwnInv => EvidenceIsOwn
  BY DEF OwnInv, EvidenceIsOwn, Gens, Removed, Known, Lost
<1> QED
  BY <1>1, BaseInit, BaseSteps, FoundInit, FoundSteps, OwnInit, OwnSteps, PTL
     DEF LifecycleSpec

-----------------------------------------------------------------------------
(* What the Trace announces is recorded.                                   *)

\* The block a runner is in: one of its try block, or what is left of its end.
RunnersOK ==
    \A g \in Generations :
        /\ runner[g].phase = "main" => runner[g].todo \in Seq(MainWrites)
        /\ runner[g].phase = "done" =>
               /\ Len(runner[g].todo) \in 0..5
               /\ runner[g].todo = Ending(DoneBlock, Len(runner[g].todo))
        /\ runner[g].phase = "over" =>
               /\ Len(runner[g].todo) \in 0..5
               /\ runner[g].todo = Ending(FailedBlock, Len(runner[g].todo))

Unannounced == ~Traced("run.done") /\ ~Traced("run.failed")

Recorded(outcome) == dir.result # NoFile /\ dir.result.outcome = outcome

\* How far a runner has come is how far the files of its directory have.
Announces(phase, n) ==
    /\ phase = "main" => Unannounced /\ dir.result = NoFile
    /\ phase = "done" => /\ n >= 2 => dir.result = NoFile
                         /\ n <= 1 => Recorded("done")
                         /\ n >= 1 => Unannounced
                         /\ ~Traced("run.failed")
    /\ phase = "over" => /\ n <= 1 => Recorded("failed")
                         /\ n >= 1 => Unannounced
                         /\ ~Traced("run.done")

AnnouncedInv ==
    /\ AnnouncedIsRecorded
    /\ untracked = {} =>
           \A g \in Generations : Live(g) => Announces(runner[g].phase, Len(runner[g].todo))

LEMMA EndBlocks ==
    ASSUME NEW n \in 0..5
    PROVE  /\ Len(Ending(DoneBlock, n)) = n /\ Len(Ending(FailedBlock, n)) = n
           /\ n # 0 => /\ Tail(Ending(DoneBlock, n)) = Ending(DoneBlock, n - 1)
                       /\ Head(Ending(DoneBlock, n)) = DoneBlock[6 - n]
                       /\ Tail(Ending(FailedBlock, n)) = Ending(FailedBlock, n - 1)
                       /\ Head(Ending(FailedBlock, n)) = FailedBlock[6 - n]
           /\ Ending(DoneBlock, 5) = DoneBlock /\ Ending(FailedBlock, 5) = FailedBlock
           /\ Ending(FailedBlock, 0) = <<>> /\ Len(<<>>) = 0
<1>1. /\ DoneBlock \in Seq(FinalWrites) /\ Len(DoneBlock) = 5
      /\ FailedBlock \in Seq(FinalWrites) /\ Len(FailedBlock) = 5
  BY Blocks
<1>2. /\ n \in 0..Len(DoneBlock) /\ Len(DoneBlock) - n + 1 = 6 - n
      /\ n \in 0..Len(FailedBlock) /\ Len(FailedBlock) - n + 1 = 6 - n
      /\ 0 \in 0..Len(FailedBlock)
  BY <1>1
<1>3. /\ Len(Ending(DoneBlock, n)) = n
      /\ n # 0 => /\ Head(Ending(DoneBlock, n)) = DoneBlock[Len(DoneBlock) - n + 1]
                  /\ Tail(Ending(DoneBlock, n)) = Ending(DoneBlock, n - 1)
  BY <1>1, <1>2, EndingSteps
<1>4. /\ Len(Ending(FailedBlock, n)) = n
      /\ n # 0 => /\ Head(Ending(FailedBlock, n)) = FailedBlock[Len(FailedBlock) - n + 1]
                  /\ Tail(Ending(FailedBlock, n)) = Ending(FailedBlock, n - 1)
  BY <1>1, <1>2, EndingSteps
<1>5. Ending(FailedBlock, 0) = <<>> /\ Len(<<>>) = 0
  BY <1>1, <1>2, EndingSteps
<1>6. Ending(DoneBlock, 5) = DoneBlock /\ Ending(FailedBlock, 5) = FailedBlock
  <2>1. Ending(DoneBlock, Len(DoneBlock)) = DoneBlock
    BY <1>1, EndingAll
  <2>2. Ending(FailedBlock, Len(FailedBlock)) = FailedBlock
    BY <1>1, EndingAll
  <2> QED
    BY <1>1, <2>1, <2>2
<1> QED
  BY <1>2, <1>3, <1>4, <1>5, <1>6

\* What the n-th write from the end of a block does to result and announcement.
LEMMA EndWrites ==
    ASSUME NEW n \in 1..5
    PROVE  /\ n \in {3, 4, 5} => /\ DoneBlock[6 - n].file \notin {"result", "trace"}
                                 /\ FailedBlock[6 - n].file \notin {"result", "trace"}
           /\ n = 2 => /\ DoneBlock[6 - n].file = "result" /\ DoneBlock[6 - n].state = "done"
                       /\ FailedBlock[6 - n].file = "result"
                       /\ FailedBlock[6 - n].state = "failed"
           /\ n = 1 => /\ DoneBlock[6 - n].file = "trace" /\ DoneBlock[6 - n].kind = "run.done"
                       /\ FailedBlock[6 - n].file = "trace"
                       /\ FailedBlock[6 - n].kind = "run.failed"
<1>1. \A m \in 1..3 : /\ DoneBlock[m].file \notin {"result", "trace"}
                      /\ FailedBlock[m].file \notin {"result", "trace"}
  BY DEF DoneBlock, FailedBlock, File, Log
<1>2. /\ DoneBlock[4].file = "result" /\ DoneBlock[4].state = "done"
      /\ FailedBlock[4].file = "result" /\ FailedBlock[4].state = "failed"
  BY DEF DoneBlock, FailedBlock, File, Log
<1>3. /\ DoneBlock[5].file = "trace" /\ DoneBlock[5].kind = "run.done"
      /\ FailedBlock[5].file = "trace" /\ FailedBlock[5].kind = "run.failed"
  BY DEF DoneBlock, FailedBlock, File, Log
<1> QED
  BY <1>1, <1>2, <1>3

LEMMA RunnersFrame ==
    ASSUME RunnersOK,
           \A g \in Generations : /\ runner'[g].phase = runner[g].phase
                                  /\ runner'[g].todo = runner[g].todo
    PROVE  RunnersOK'
BY DEF RunnersOK

LEMMA RunnersBlock ==
    ASSUME LifecycleTypeOK, RunnersOK, NEW g \in Generations,
           \A h \in Generations \ {g} : runner'[h] = runner[h],
           \/ /\ runner'[g].phase = "main"
              /\ runner'[g].todo \in Seq(MainWrites)
           \/ runner'[g].phase = "done" /\ runner'[g].todo = DoneBlock
           \/ runner'[g].phase = "over" /\ runner'[g].todo = FailedBlock
    PROVE  RunnersOK'
<1>1. 5 \in 0..5
  OBVIOUS
<1>2. /\ Len(DoneBlock) = 5 /\ Len(FailedBlock) = 5
      /\ Ending(DoneBlock, 5) = DoneBlock /\ Ending(FailedBlock, 5) = FailedBlock
  BY <1>1, EndBlocks, Blocks
<1>3. ASSUME NEW h \in Generations
      PROVE  /\ runner'[h].phase = "main" => runner'[h].todo \in Seq(MainWrites)
             /\ runner'[h].phase = "done" =>
                    /\ Len(runner'[h].todo) \in 0..5
                    /\ runner'[h].todo = Ending(DoneBlock, Len(runner'[h].todo))
             /\ runner'[h].phase = "over" =>
                    /\ Len(runner'[h].todo) \in 0..5
                    /\ runner'[h].todo = Ending(FailedBlock, Len(runner'[h].todo))
  <2>1. CASE h = g
    BY <1>1, <1>2, <2>1
  <2>2. CASE h # g
    BY <2>2 DEF RunnersOK
  <2> QED
    BY <2>1, <2>2
<1> QED
  BY <1>3 DEF RunnersOK

\* What a runner writes next, and what is left then.
LEMMA RunnerNext ==
    ASSUME BaseInv, RunnersOK, NEW g \in Generations, runner[g].todo # <<>>
    PROVE  LET r == runner[g]
               w == Head(r.todo)
               n == Len(r.todo)
           IN  /\ w \in AllWrites /\ n \in Nat \ {0} /\ Len(Tail(r.todo)) = n - 1
               /\ r.phase \in {"main", "done", "over"}
               /\ r.phase = "main" => w \in MainWrites /\ Tail(r.todo) \in Seq(MainWrites)
               /\ r.phase = "done" => /\ n \in 1..5 /\ w = DoneBlock[6 - n]
                                      /\ Tail(r.todo) = Ending(DoneBlock, n - 1)
               /\ r.phase = "over" => /\ n \in 1..5 /\ w = FailedBlock[6 - n]
                                      /\ Tail(r.todo) = Ending(FailedBlock, n - 1)
<1> DEFINE r == runner[g]
           w == Head(r.todo)
           n == Len(r.todo)
<1>1. r.todo \in Seq(AllWrites) /\ r.phase \in {"main", "done", "over"} /\ r.todo # <<>>
  BY TypeFacts DEF BaseInv, Runners
<1> DEFINE todo == r.todo
<1>2. /\ r.phase = "main" => todo \in Seq(MainWrites)
      /\ r.phase = "done" => n \in 0..5 /\ todo = Ending(DoneBlock, n)
      /\ r.phase = "over" => n \in 0..5 /\ todo = Ending(FailedBlock, n)
  BY DEF RunnersOK
<1> HIDE DEF r
<1>3. w \in AllWrites /\ n \in Nat \ {0} /\ Len(Tail(todo)) = n - 1
  BY <1>1, HeadTailProperties, EmptySeq
<1>4. r.phase = "main" => w \in MainWrites /\ Tail(todo) \in Seq(MainWrites)
  BY <1>1, <1>2, HeadTailProperties
<1> HIDE DEF n, todo
<1>5. ASSUME r.phase = "done"
      PROVE  /\ n \in 1..5 /\ Head(todo) = DoneBlock[6 - n]
             /\ Tail(todo) = Ending(DoneBlock, n - 1)
  <2>1. n \in 0..5 /\ n # 0 /\ n \in 1..5 /\ todo = Ending(DoneBlock, n)
    BY <1>2, <1>3, <1>5
  <2> QED
    BY <2>1, EndBlocks
<1>6. ASSUME r.phase = "over"
      PROVE  /\ n \in 1..5 /\ Head(todo) = FailedBlock[6 - n]
             /\ Tail(todo) = Ending(FailedBlock, n - 1)
  <2>1. n \in 0..5 /\ n # 0 /\ n \in 1..5 /\ todo = Ending(FailedBlock, n)
    BY <1>2, <1>3, <1>6
  <2> QED
    BY <2>1, EndBlocks
<1> QED
  BY <1>1, <1>3, <1>4, <1>5, <1>6 DEF n, todo, r

LEMMA RunnersInit == LifecycleInit => RunnersOK
<1>1. 0 \in 0..5
  OBVIOUS
<1>2. Ending(FailedBlock, 0) = <<>> /\ Len(<<>>) = 0
  BY <1>1, EndBlocks
<1> QED
  BY <1>1, <1>2 DEF LifecycleInit, RunnersOK, NoRunner

\* A signal strikes a runner, which goes on with the write it is in.
LEMMA Striking ==
    ASSUME runner \in [Generations -> Runners], NEW p,
           runner' = runner \/ runner' = [runner EXCEPT ![p].struck = TRUE]
    PROVE  \A h \in Generations : /\ runner'[h].phase = runner[h].phase
                                  /\ runner'[h].todo = runner[h].todo
<1>1. ASSUME NEW h \in Generations, runner' = [runner EXCEPT ![p].struck = TRUE]
      PROVE  runner'[h].phase = runner[h].phase /\ runner'[h].todo = runner[h].todo
  <2>1. runner[h] \in Runners
    OBVIOUS
  <2>2. CASE h = p
    <3>1. runner'[h] = [runner[h] EXCEPT !.struck = TRUE]
      BY <1>1, <2>2
    <3> QED
      BY <2>1, <3>1 DEF Runners
  <2>3. CASE h # p
    BY <1>1, <2>3
  <2> QED
    BY <2>2, <2>3
<1> QED
  BY <1>1

LEMMA RunnersSteps ==
    ASSUME BaseInv, RunnersOK, [LifecycleNext]_lifecycleVars
    PROVE  RunnersOK'
<1>1. runner \in [Generations -> Runners]
  BY DEF BaseInv, LifecycleTypeOK
<1>2. ASSUME runner' = runner PROVE RunnersOK'
  BY <1>2, RunnersFrame
<1>3. ASSUME NEW l \in Launchers, Spawn(l) PROVE RunnersOK'
  <2> DEFINE g == launch[l].gen
  <2>1. g \in Generations
    BY <1>3, LaunchPlaces DEF Spawn, BaseInv, StartedOK
  <2> HIDE DEF g
  <2>2. /\ runner'[g].phase = "main" /\ runner'[g].todo = Boot
        /\ \A h \in Generations \ {g} : runner'[h] = runner[h]
    BY <1>1, <1>3, <2>1 DEF Spawn, NoRunner, g
  <2> QED
    BY <2>1, <2>2, Blocks, RunnersBlock DEF BaseInv
<1>4. ASSUME NEW l \in Launchers, StartStep(l), ~Spawn(l) PROVE RunnersOK'
  BY <1>2, <1>4
     DEF StartStep, CallStart, LockDirectory, Claim, CheckInactive, Prepare, RemoveEvidence,
         WriteRun, WriteStarting, RecordPid, LogStart, StartEnds, StartBreaks
<1>5. ASSUME NEW g \in Generations, RunnerWrites(g) PROVE RunnersOK'
  <2> DEFINE r == runner[g]
             n == Len(r.todo)
  <2>1. r.todo # <<>> /\ runner'[g].phase = r.phase /\ runner'[g].todo = Tail(r.todo)
        /\ \A h \in Generations \ {g} : runner'[h] = runner[h]
    BY <1>1, <1>5 DEF RunnerWrites, Runners
  <2>2. /\ n \in Nat \ {0} /\ Len(Tail(r.todo)) = n - 1
        /\ r.phase = "main" => Tail(r.todo) \in Seq(MainWrites)
        /\ r.phase = "done" => n \in 1..5 /\ Tail(r.todo) = Ending(DoneBlock, n - 1)
        /\ r.phase = "over" => n \in 1..5 /\ Tail(r.todo) = Ending(FailedBlock, n - 1)
    BY <2>1, RunnerNext
  <2> HIDE DEF r, n
  <2>3. n \in 1..5 => n - 1 \in 0..5
    OBVIOUS
  <2>4. ASSUME NEW h \in Generations
        PROVE  /\ runner'[h].phase = "main" => runner'[h].todo \in Seq(MainWrites)
               /\ runner'[h].phase = "done" =>
                      /\ Len(runner'[h].todo) \in 0..5
                      /\ runner'[h].todo = Ending(DoneBlock, Len(runner'[h].todo))
               /\ runner'[h].phase = "over" =>
                      /\ Len(runner'[h].todo) \in 0..5
                      /\ runner'[h].todo = Ending(FailedBlock, Len(runner'[h].todo))
    <3>1. CASE h = g
      BY <2>1, <2>2, <2>3, <3>1
    <3>2. CASE h # g
      BY <2>1, <3>2 DEF RunnersOK
    <3> QED
      BY <3>1, <3>2
  <2> QED
    BY <2>4 DEF RunnersOK
<1>6. ASSUME NEW g \in Generations, RunnerThrows(g) PROVE RunnersOK'
  <2>1. \/ runner' = runner
        \/ /\ runner'[g].phase = "over" /\ runner'[g].todo = FailedBlock
           /\ \A h \in Generations \ {g} : runner'[h] = runner[h]
    BY <1>1, <1>6 DEF RunnerThrows, Runners
  <2> QED
    BY <1>2, <2>1, RunnersBlock DEF BaseInv
<1>7. ASSUME NEW g \in Generations, TemplateEnds(g) PROVE RunnersOK'
  <2>1. /\ \/ runner'[g].phase = "done" /\ runner'[g].todo = DoneBlock
           \/ runner'[g].phase = "over" /\ runner'[g].todo = FailedBlock
        /\ \A h \in Generations \ {g} : runner'[h] = runner[h]
    BY <1>1, <1>7 DEF TemplateEnds, Runners
  <2> QED
    BY <2>1, RunnersBlock DEF BaseInv
<1>8. ASSUME NEW g \in Generations, NEW c \in Commands, CommandStarts(g, c) \/ CommandEnds(g, c)
      PROVE  RunnersOK'
  <2>1. /\ runner'[g].phase = "main"
        /\ runner'[g].todo \in {Block("command.start"), Block("command.done")}
        /\ \A h \in Generations \ {g} : runner'[h] = runner[h]
    BY <1>1, <1>8, ZenonT(40) DEF CommandStarts, CommandEnds, Waiting, Runners
  <2> QED
    BY <2>1, Blocks, RunnersBlock DEF BaseInv
<1>9. ASSUME NEW g \in Generations, NEW c \in Commands, CommandAttempt(g, c)
      PROVE  RunnersOK'
  <2>1. \A h \in Generations : /\ runner'[h].phase = runner[h].phase
                               /\ runner'[h].todo = runner[h].todo
    BY <1>1, <1>9 DEF CommandAttempt, Runners
  <2> QED
    BY <2>1, RunnersFrame
<1>10. ASSUME NEW g \in Generations, RunnerExits(g) \/ RunnerDies(g) \/ PidStep(g)
       PROVE  RunnersOK'
  BY <1>2, <1>10 DEF RunnerExits, RunnerDies, PidStep, PidIsTaken, PidIsFree
<1>11. CASE StopSignals
  <2>1. runner' = runner \/ runner' = [runner EXCEPT ![dir.run.pid].struck = TRUE]
    BY <1>11 DEF StopSignals
  <2> QED
    BY <1>1, <2>1, Striking, RunnersFrame
<1>12. ASSUME StopStep, ~StopSignals PROVE RunnersOK'
  BY <1>2, <1>12
     DEF StopStep, CallStop, StopLogs, StopMarksHandled, StopReadsExecution,
         StopWritesExecution, StopWritesProgress, StopBreaks
<1>13. CASE RetainStep \/ UNCHANGED lifecycleVars
  BY <1>2, <1>13 DEF RetainStep, TakeAway, LeaveTombstone, RetainBreaks, lifecycleVars
<1> QED
  BY <1>3, <1>4, <1>5, <1>6, <1>7, <1>8, <1>9, <1>10, <1>11, <1>12, <1>13
     DEF LifecycleNext, RunnerStep

\* Two live runners that both can be found are one.
LEMMA OneRunner ==
    ASSUME BaseInv, FoundInv, untracked = {}, NEW g \in Generations, NEW h \in Generations,
           Live(g), Live(h)
    PROVE  g = h
<1>1. g # 0 /\ h # 0
  BY TypeFacts DEF BaseInv
<1>2. Found(g) /\ Found(h)
  BY DEF FoundInv
<1>3. \A l \in Launchers : Left(l) = 2 => lock = l /\ dir.run.pid = 0
  BY DEF BaseInv, LocksOK, StartedOK
<1> QED
  BY <1>1, <1>2, <1>3 DEF Found

LEMMA AnnouncedFrame ==
    ASSUME AnnouncedInv, dir'.result = dir.result, untracked \subseteq untracked',
           Traced("run.done")' <=> Traced("run.done"),
           Traced("run.failed")' <=> Traced("run.failed"),
           \A g \in Generations : Live(g)' =>
               /\ Live(g) /\ runner'[g].phase = runner[g].phase
               /\ runner[g].phase = "main" \/ Len(runner'[g].todo) = Len(runner[g].todo)
    PROVE  AnnouncedInv'
<1>1. untracked' = {} => untracked = {}
  OBVIOUS
<1>2. Unannounced' <=> Unannounced
  BY DEF Unannounced
<1>3. AnnouncedIsRecorded'
  BY <1>1 DEF AnnouncedInv, AnnouncedIsRecorded
<1>4. ASSUME untracked' = {}, NEW g \in Generations, Live(g)'
      PROVE  Announces(runner[g].phase, Len(runner[g].todo))'
  <2> DEFINE phase == runner[g].phase
             n == Len(runner[g].todo)
             m == Len(runner'[g].todo)
  <2>1. Announces(phase, n) /\ runner'[g].phase = phase /\ (phase = "main" \/ m = n)
    BY <1>1, <1>4 DEF AnnouncedInv
  <2>2. /\ phase = "main" => Unannounced' /\ dir'.result = NoFile
        /\ phase = "done" => /\ m >= 2 => dir'.result = NoFile
                             /\ m <= 1 => Recorded("done")'
                             /\ m >= 1 => Unannounced'
                             /\ ~Traced("run.failed")'
        /\ phase = "over" => /\ m <= 1 => Recorded("failed")'
                             /\ m >= 1 => Unannounced'
                             /\ ~Traced("run.done")'
    BY <1>2, <2>1 DEF Announces, Recorded
  <2> QED
    BY <2>1, <2>2 DEF Announces
<1> QED
  BY <1>3, <1>4 DEF AnnouncedInv

\* A step of the one runner there is.
LEMMA AnnouncedStep ==
    ASSUME BaseInv, FoundInv, NEW g \in Generations, Live(g), untracked' = untracked,
           \A h \in Generations : Live(h)' => Live(h),
           untracked = {} => AnnouncedIsRecorded',
           untracked = {} /\ Live(g)' => Announces(runner[g].phase, Len(runner[g].todo))'
    PROVE  AnnouncedInv'
<1>1. AnnouncedIsRecorded'
  BY DEF AnnouncedIsRecorded
<1>2. ASSUME untracked' = {}, NEW h \in Generations, Live(h)'
      PROVE  Announces(runner[h].phase, Len(runner[h].todo))'
  <2>1. h = g
    BY <1>2, OneRunner
  <2> QED
    BY <1>2, <2>1
<1> QED
  BY <1>1, <1>2 DEF AnnouncedInv

LEMMA AnnouncedEvent ==
    ASSUME NEW gen, NEW kind, dir'.trace = Traces(gen, kind)
    PROVE  \A other : Traced(other)' <=> Traced(other) \/ other = kind
<1> DEFINE new == [gen |-> gen, kind |-> kind]
<1>1. dir'.trace = dir.trace \cup {new} /\ new.kind = kind
  BY DEF Traces
<1> HIDE DEF new
<1>2. ASSUME NEW other PROVE Traced(other)' <=> Traced(other) \/ other = kind
  <2>1. Traced(other)' <=> \E event \in dir'.trace : event.kind = other
    BY DEF Traced
  <2> QED
    BY <1>1, <2>1 DEF Traced
<1> QED
  BY <1>2

\* A write of a runner, from what it has still to write.
LEMMA AnnouncedWrites ==
    ASSUME BaseInv, FoundInv, RunnersOK, AnnouncedInv, NEW g \in Generations, RunnerWrites(g)
    PROVE  AnnouncedInv'
<1> DEFINE r == runner[g]
           w == Head(r.todo)
           n == Len(r.todo)
<1>1. /\ w \in AllWrites /\ n \in Nat \ {0} /\ Len(Tail(r.todo)) = n - 1
      /\ r.phase \in {"main", "done", "over"}
      /\ r.phase = "main" => w \in MainWrites
      /\ r.phase = "done" => n \in 1..5 /\ w = DoneBlock[6 - n]
      /\ r.phase = "over" => n \in 1..5 /\ w = FailedBlock[6 - n]
  BY RunnerNext DEF RunnerWrites
<1>2. /\ runner'[g].phase = r.phase /\ runner'[g].todo = Tail(r.todo)
      /\ \A h \in Generations \ {g} : runner'[h] = runner[h]
      /\ dir' = Written(g, w) /\ Live(g) /\ untracked' = untracked
  BY DEF RunnerWrites, BaseInv, LifecycleTypeOK, Runners
<1>3. \A h \in Generations : Live(h)' => Live(h)
  BY QuietFiles DEF RunnerStep
<1>4. /\ w.file # "result" => dir'.result = dir.result
      /\ w.file = "result" => dir'.result = [gen |-> g, outcome |-> w.state]
      /\ w.file # "trace" => dir'.trace = dir.trace
      /\ w.file = "trace" => dir'.trace = Traces(g, w.kind)
  BY <1>1, <1>2, Writing
<1>5. /\ w.file # "trace" => \A kind : Traced(kind)' <=> Traced(kind)
      /\ w.file = "trace" => \A kind : Traced(kind)' <=> Traced(kind) \/ kind = w.kind
  BY <1>4, AnnouncedEvent DEF Traced
<1>6. AnnouncedIsRecorded /\ (untracked = {} => Announces(r.phase, n))
  BY <1>2 DEF AnnouncedInv
<1>7. Len(runner'[g].todo) = n - 1
  BY <1>1, <1>2
<1> HIDE DEF r, w, n
<1>8. CASE r.phase = "main"
  <2>1. w.file # "result" /\ (w.file = "trace" => w.kind \notin {"run.done", "run.failed"})
    BY <1>1, <1>8 DEF MainWrites, File, Log
  <2>2. /\ dir'.result = dir.result
        /\ Traced("run.done")' <=> Traced("run.done")
        /\ Traced("run.failed")' <=> Traced("run.failed")
    BY <1>4, <1>5, <2>1
  <2>3. \A h \in Generations :
            /\ runner'[h].phase = runner[h].phase
            /\ runner[h].phase = "main" \/ Len(runner'[h].todo) = Len(runner[h].todo)
    BY <1>2, <1>8 DEF r
  <2> QED
    BY <1>2, <1>3, <2>2, <2>3, AnnouncedFrame
<1>9. CASE r.phase = "done"
  <2>1. n \in 1..5 /\ w = DoneBlock[6 - n]
    BY <1>1, <1>9
  <2>2. ASSUME untracked = {}, NEW m \in Nat, m = n - 1
        PROVE  AnnouncedIsRecorded' /\ Announces("done", m)'
    <3>1. /\ n >= 2 => dir.result = NoFile
          /\ n <= 1 => Recorded("done")
          /\ Unannounced
      BY <1>6, <1>9, <2>1, <2>2 DEF Announces
    <3>2. CASE n \in 3..5
      <4>1. w.file \notin {"result", "trace"}
        BY <2>1, <3>2, EndWrites
      <4>2. dir'.result = NoFile /\ Unannounced' /\ ~Traced("run.failed")'
        BY <1>4, <1>5, <3>1, <3>2, <4>1 DEF Unannounced
      <4> QED
        BY <2>1, <2>2, <3>2, <4>2 DEF AnnouncedIsRecorded, Unannounced, Announces
    <3>3. CASE n = 2
      <4>1. w.file = "result" /\ w.state = "done"
        BY <2>1, <3>3, EndWrites
      <4>2. Recorded("done")' /\ Unannounced' /\ ~Traced("run.failed")'
        BY <1>4, <1>5, <3>1, <4>1 DEF Unannounced, Recorded, NoFile
      <4> QED
        BY <2>1, <2>2, <3>3, <4>2 DEF AnnouncedIsRecorded, Unannounced, Announces
    <3>4. CASE n = 1
      <4>1. w.file = "trace" /\ w.kind = "run.done"
        BY <2>1, <3>4, EndWrites
      <4>2. Recorded("done")' /\ ~Traced("run.failed")'
        BY <1>4, <1>5, <3>1, <3>4, <4>1 DEF Unannounced, Recorded
      <4> QED
        BY <2>1, <2>2, <3>4, <4>2 DEF AnnouncedIsRecorded, Recorded, Announces
    <3> QED
      BY <2>1, <3>2, <3>3, <3>4
  <2>3. n - 1 \in Nat
    BY <2>1
  <2>4. untracked = {} => Announces(runner[g].phase, Len(runner[g].todo))'
    BY <1>2, <1>7, <1>9, <2>2, <2>3
  <2> QED
    BY <1>2, <1>3, <2>2, <2>3, <2>4, AnnouncedStep
<1>10. CASE r.phase = "over"
  <2>1. n \in 1..5 /\ w = FailedBlock[6 - n]
    BY <1>1, <1>10
  <2>2. ASSUME untracked = {}, NEW m \in Nat, m = n - 1
        PROVE  AnnouncedIsRecorded' /\ Announces("over", m)'
    <3>1. (n <= 1 => Recorded("failed")) /\ Unannounced
      BY <1>6, <1>10, <2>1, <2>2 DEF Announces
    <3>2. CASE n \in 3..5
      <4>1. w.file \notin {"result", "trace"}
        BY <2>1, <3>2, EndWrites
      <4>2. Unannounced' /\ ~Traced("run.done")'
        BY <1>4, <1>5, <3>1, <3>2, <4>1 DEF Unannounced
      <4> QED
        BY <2>1, <2>2, <3>2, <4>2 DEF AnnouncedIsRecorded, Unannounced, Announces
    <3>3. CASE n = 2
      <4>1. w.file = "result" /\ w.state = "failed"
        BY <2>1, <3>3, EndWrites
      <4>2. Recorded("failed")' /\ Unannounced' /\ ~Traced("run.done")'
        BY <1>4, <1>5, <3>1, <4>1 DEF Unannounced, Recorded, NoFile
      <4> QED
        BY <2>1, <2>2, <3>3, <4>2 DEF AnnouncedIsRecorded, Unannounced, Announces
    <3>4. CASE n = 1
      <4>1. w.file = "trace" /\ w.kind = "run.failed"
        BY <2>1, <3>4, EndWrites
      <4>2. Recorded("failed")' /\ ~Traced("run.done")'
        BY <1>4, <1>5, <3>1, <3>4, <4>1 DEF Unannounced, Recorded
      <4> QED
        BY <2>1, <2>2, <3>4, <4>2 DEF AnnouncedIsRecorded, Recorded, Announces
    <3> QED
      BY <2>1, <3>2, <3>3, <3>4
  <2>3. n - 1 \in Nat
    BY <2>1
  <2>4. untracked = {} => Announces(runner[g].phase, Len(runner[g].todo))'
    BY <1>2, <1>7, <1>10, <2>2, <2>3
  <2> QED
    BY <1>2, <1>3, <2>2, <2>3, <2>4, AnnouncedStep
<1> QED
  BY <1>1, <1>8, <1>9, <1>10

LEMMA AnnouncedRunner ==
    ASSUME BaseInv, FoundInv, RunnersOK, AnnouncedInv, NEW g \in Generations,
           RunnerStep(g) \/ PidStep(g)
    PROVE  AnnouncedInv'
<1>1. /\ untracked' = untracked /\ \A h \in Generations : Live(h)' => Live(h)
      /\ runner \in [Generations -> Runners] /\ dir \in Directories
  BY QuietFiles, TypeFacts DEF BaseInv, LifecycleTypeOK
<1>2. ASSUME dir'.result = dir.result, dir'.trace = dir.trace,
             \A h \in Generations :
                 /\ runner'[h].phase = runner[h].phase
                 /\ runner[h].phase = "main" \/ runner'[h].todo = runner[h].todo
      PROVE  AnnouncedInv'
  BY <1>1, <1>2, AnnouncedFrame DEF Traced
\* ... to the end of the try block, or into the catch block.
<1>3. ASSUME Live(g), dir' = dir, runner[g].phase \in {"main", "done"},
             runner[g].phase = "done" => runner[g].todo # <<>>,
             \/ runner[g].phase = "main" /\ runner'[g].phase = "done"
                    /\ runner'[g].todo = DoneBlock
             \/ runner'[g].phase = "over" /\ runner'[g].todo = FailedBlock
      PROVE  AnnouncedInv'
  <2>1. Len(DoneBlock) = 5 /\ Len(FailedBlock) = 5
    BY Blocks
  <2>2. AnnouncedIsRecorded /\ dir'.result = dir.result
        /\ \A kind : Traced(kind)' <=> Traced(kind)
    BY <1>3 DEF AnnouncedInv, Traced
  <2>3. ASSUME untracked = {}
        PROVE  Unannounced /\ (runner[g].phase = "main" => dir.result = NoFile)
    <3>1. Announces(runner[g].phase, Len(runner[g].todo))
      BY <1>3, <2>3 DEF AnnouncedInv
    <3>2. CASE runner[g].phase = "main"
      BY <3>1, <3>2 DEF Announces
    <3>3. CASE runner[g].phase = "done"
      <4>1. Len(runner[g].todo) >= 1
        BY <1>3, <3>3, RunnerNext
      <4> QED
        BY <3>1, <3>3, <4>1 DEF Announces
    <3> QED
      BY <1>3, <3>2, <3>3
  <2>4. AnnouncedIsRecorded'
    BY <1>1, <2>2 DEF AnnouncedIsRecorded
  <2>5. ASSUME untracked = {}
        PROVE  Announces(runner[g].phase, Len(runner[g].todo))'
    <3>1. Unannounced' /\ (runner[g].phase = "main" => dir'.result = NoFile)
      BY <2>2, <2>3, <2>5 DEF Unannounced
    <3>2. Len(runner'[g].todo) = 5
      BY <1>3, <2>1
    <3> QED
      BY <1>3, <3>1, <3>2 DEF Announces, Unannounced
  <2> QED
    BY <1>1, <1>3, <2>4, <2>5, AnnouncedStep
<1>4. CASE RunnerWrites(g)
  BY <1>4, AnnouncedWrites
<1>5. CASE RunnerThrows(g)
  <2>1. CASE runner[g].phase \in {"main", "done"}
    <3>1. /\ Live(g) /\ runner[g].todo # <<>> /\ dir' = dir
          /\ runner'[g].phase = "over" /\ runner'[g].todo = FailedBlock
      BY <1>1, <1>5, <2>1 DEF RunnerThrows, Runners
    <3> QED
      BY <1>3, <2>1, <3>1
  <2>2. CASE runner[g].phase \notin {"main", "done"}
    BY <1>2, <1>5, <2>2 DEF RunnerThrows
  <2> QED
    BY <2>1, <2>2
<1>6. CASE TemplateEnds(g)
  <2>1. /\ Live(g) /\ runner[g].phase = "main" /\ dir' = dir
        /\ \/ runner'[g].phase = "done" /\ runner'[g].todo = DoneBlock
           \/ runner'[g].phase = "over" /\ runner'[g].todo = FailedBlock
    BY <1>1, <1>6 DEF TemplateEnds, Waiting, Runners
  <2> QED
    BY <1>3, <2>1
<1>7. ASSUME NEW c \in Commands,
             CommandStarts(g, c) \/ CommandAttempt(g, c) \/ CommandEnds(g, c)
      PROVE  AnnouncedInv'
  <2>1. /\ runner[g].phase = "main"
        /\ \A h \in Generations \ {g} : runner'[h] = runner[h]
    BY <1>1, <1>7 DEF CommandStarts, CommandAttempt, CommandEnds, Waiting
  <2>2. runner'[g].phase = runner[g].phase
    <3>1. CASE CommandStarts(g, c) \/ CommandEnds(g, c)
      BY <1>1, <3>1 DEF CommandStarts, CommandEnds, Runners
    <3>2. CASE CommandAttempt(g, c)
      BY <1>1, <3>2 DEF CommandAttempt, Runners
    <3> QED
      BY <1>7, <3>1, <3>2
  <2>3. dir'.result = dir.result /\ dir'.trace = dir.trace
    BY <1>1, <1>7 DEF CommandStarts, CommandAttempt, CommandEnds, Directories
  <2> QED
    BY <1>2, <2>1, <2>2, <2>3
<1>8. CASE RunnerExits(g) \/ RunnerDies(g) \/ PidStep(g)
  BY <1>2, <1>8 DEF RunnerExits, RunnerDies, PidStep, PidIsTaken, PidIsFree
<1> QED
  BY <1>4, <1>5, <1>6, <1>7, <1>8 DEF RunnerStep

LEMMA AnnouncedStart ==
    ASSUME BaseInv, FoundInv, OwnInv, AnnouncedInv, NEW l \in Launchers, StartStep(l)
    PROVE  AnnouncedInv'
<1>1. dir \in Directories /\ runner \in [Generations -> Runners]
      /\ process \in [Generations -> {"none", "unborn", "live", "dead", "recycled"}]
  BY DEF BaseInv, LifecycleTypeOK
<1>2. ASSUME dir'.result = dir.result, untracked \subseteq untracked', runner' = runner,
             Traced("run.done")' <=> Traced("run.done"),
             Traced("run.failed")' <=> Traced("run.failed"),
             \A g \in Generations : Live(g)' => Live(g)
      PROVE  AnnouncedInv'
  BY <1>2, AnnouncedFrame
<1>3. CASE RemoveEvidence(l)
  <2>1. PICK file \in Removed :
            /\ Launching(l, file) /\ dir' = [dir EXCEPT ![file] = Emptied(file)]
            /\ UNCHANGED <<lock, process, runner, stop, retain, untracked, faults>>
    BY <1>3 DEF RemoveEvidence
  <2>2. Left(l) \in 6..10
    BY <2>1, LaunchPlaces DEF Removed, BaseInv
  <2>3. untracked = {} => \A g \in Generations : ~Live(g)'
    BY <2>1, <2>2 DEF FoundInv, NoneFound, Live
  <2>4. /\ dir'.result = dir.result \/ dir'.result = NoFile
        /\ dir'.trace = dir.trace \/ dir'.trace = {}
    BY <1>1, <2>1 DEF Removed, Emptied, Directories
  <2>5. \A kind : Traced(kind)' => Traced(kind)
    BY <2>4 DEF Traced
  <2>6. AnnouncedIsRecorded'
    BY <2>1, <2>4, <2>5 DEF AnnouncedInv, AnnouncedIsRecorded
  <2> QED
    BY <2>1, <2>3, <2>6 DEF AnnouncedInv
<1>4. CASE Spawn(l)
  <2>1. Left(l) = 3
    BY <1>4, LaunchPlaces DEF Spawn, BaseInv
  <2>2. PICK g \in Generations : g = launch[l].gen
    BY <2>1 DEF BaseInv, StartedOK
  <2>3. /\ runner'[g].phase = "main" /\ dir' = dir /\ untracked' = untracked
        /\ \A h \in Generations \ {g} : Live(h)' => Live(h)
    BY <1>1, <1>4, <2>2 DEF Spawn, NoRunner, Live
  <2>4. ASSUME untracked = {} PROVE dir.result = NoFile /\ dir.trace = {}
    <3>1. Gens("result") \subseteq {0} /\ Gens("trace") \subseteq {0}
      BY <2>1, <2>4 DEF OwnInv, Cleared, Lost
    <3>2. dir.result.gen = 0 /\ \A event \in dir.trace : event.gen = 0
      BY <3>1 DEF Gens
    <3>3. \A k \in Generations : k # 0
      BY TypeFacts DEF BaseInv
    <3>4. dir.result \in ResultFiles /\ dir.trace \in SUBSET [gen: Generations, kind: Kinds]
      BY <1>1, DirectoryFields
    <3>5. dir.result = NoFile
      BY <3>2, <3>3, <3>4 DEF ResultFiles
    <3>6. dir.trace = {}
      BY <3>2, <3>3, <3>4
    <3> QED
      BY <3>5, <3>6
  <2>5. untracked = {} => \A h \in Generations \ {g} : ~Live(h)'
    BY <2>1, <2>3 DEF FoundInv, NoneFound
  <2>6. AnnouncedIsRecorded'
    BY <2>3 DEF AnnouncedInv, AnnouncedIsRecorded, Traced
  <2>7. ASSUME untracked = {} PROVE Announces(runner[g].phase, Len(runner[g].todo))'
    <3>1. dir'.result = NoFile /\ ~Traced("run.done")' /\ ~Traced("run.failed")'
      BY <2>3, <2>4, <2>7 DEF Traced
    <3> QED
      BY <2>3, <3>1 DEF Announces, Unannounced
  <2> QED
    BY <2>2, <2>3, <2>5, <2>6, <2>7 DEF AnnouncedInv
<1>5. CASE LogStart(l)
  <2>1. dir'.result = dir.result /\ dir'.trace = Traces(launch[l].gen, "run.start")
    BY <1>1, <1>5 DEF LogStart, Directories
  <2>2. /\ Traced("run.done")' <=> Traced("run.done")
        /\ Traced("run.failed")' <=> Traced("run.failed")
    BY <2>1, AnnouncedEvent
  <2> QED
    BY <1>2, <1>5, <2>1, <2>2 DEF LogStart, Live
<1>6. CASE RecordPid(l)
  <2>1. PICK proof \in BOOLEAN :
            dir' = [dir EXCEPT !.run.pid = launch[l].gen, !.run.proof = proof]
    BY <1>6 DEF RecordPid
  <2>2. dir'.result = dir.result /\ dir'.trace = dir.trace
    BY <1>1, <2>1 DEF Directories
  <2> QED
    BY <1>2, <1>6, <2>2 DEF RecordPid, Live, Traced
<1>7. CASE \/ CallStart(l) \/ LockDirectory(l) \/ Claim(l) \/ CheckInactive(l) \/ Prepare(l)
           \/ WriteRun(l) \/ WriteStarting(l) \/ StartEnds(l) \/ StartBreaks(l)
  <2>1. dir'.result = dir.result /\ dir'.trace = dir.trace
    BY <1>1, <1>7 DEF CallStart, LockDirectory, Claim, CheckInactive, Prepare, WriteRun,
                     WriteStarting, StartEnds, StartBreaks, Directories
  <2>2. runner' = runner /\ untracked \subseteq untracked'
    BY <1>7 DEF CallStart, LockDirectory, Claim, CheckInactive, Prepare, WriteRun,
                WriteStarting, StartEnds, StartBreaks
  <2>3. \A g \in Generations : Live(g)' => Live(g)
    BY <1>1, <1>7 DEF CallStart, LockDirectory, Claim, CheckInactive, Prepare, WriteRun,
                     WriteStarting, StartEnds, StartBreaks, Live
  <2> QED
    BY <1>2, <2>1, <2>2, <2>3 DEF Traced
<1> QED
  BY <1>3, <1>4, <1>5, <1>6, <1>7 DEF StartStep

LEMMA AnnouncedInit == LifecycleInit => AnnouncedInv
BY DEF LifecycleInit, AnnouncedInv, AnnouncedIsRecorded, Traced, EmptyDirectory, Live

LEMMA AnnouncedSteps ==
    ASSUME BaseInv, FoundInv, OwnInv, RunnersOK, AnnouncedInv,
           [LifecycleNext]_lifecycleVars
    PROVE  AnnouncedInv'
<1>1. dir \in Directories /\ runner \in [Generations -> Runners]
  BY DEF BaseInv, LifecycleTypeOK
<1>2. ASSUME dir'.result = dir.result, untracked \subseteq untracked',
             \A g \in Generations : /\ runner'[g].phase = runner[g].phase
                                    /\ runner'[g].todo = runner[g].todo,
             Traced("run.done")' <=> Traced("run.done"),
             Traced("run.failed")' <=> Traced("run.failed"),
             \A g \in Generations : Live(g)' => Live(g)
      PROVE  AnnouncedInv'
  BY <1>2, AnnouncedFrame
<1>3. CASE StopSignals
  <2>1. runner' = runner \/ runner' = [runner EXCEPT ![dir.run.pid].struck = TRUE]
    BY <1>3 DEF StopSignals
  <2>2. \A g \in Generations : /\ runner'[g].phase = runner[g].phase
                               /\ runner'[g].todo = runner[g].todo
    BY <1>1, <2>1, Striking
  <2> QED
    BY <1>2, <1>3, <2>2 DEF StopSignals, Live, Traced
<1>4. CASE StopLogs
  <2>1. stop.how \in {"killed", "cancelled"}
    <3>1. stop.todo # <<>>
      BY <1>4 DEF StopLogs, Stopping
    <3> QED
      BY <3>1, LifecycleAssumption DEF BaseInv, StoppedOK
  <2>2. dir'.result = dir.result /\ dir'.trace = Traces(stop.gen, stop.how)
    BY <1>1, <1>4 DEF StopLogs, Directories
  <2>3. /\ Traced("run.done")' <=> Traced("run.done")
        /\ Traced("run.failed")' <=> Traced("run.failed")
    BY <2>1, <2>2, AnnouncedEvent
  <2> QED
    BY <1>2, <1>4, <2>2, <2>3 DEF StopLogs, Live
<1>5. CASE StopStep /\ ~StopSignals /\ ~StopLogs
  <2>1. dir'.result = dir.result /\ dir'.trace = dir.trace
    BY <1>1, <1>5 DEF StopStep, CallStop, StopMarksHandled, StopReadsExecution,
                     StopWritesExecution, StopWritesProgress, StopBreaks, Directories
  <2>2. runner' = runner /\ process' = process /\ untracked' = untracked
    BY <1>5 DEF StopStep, CallStop, StopMarksHandled, StopReadsExecution,
                StopWritesExecution, StopWritesProgress, StopBreaks
  <2> QED
    BY <1>2, <2>1, <2>2 DEF Live, Traced
<1>6. CASE LeaveTombstone \/ RetainBreaks \/ UNCHANGED lifecycleVars
  <2>1. dir'.result = dir.result /\ dir'.trace = dir.trace
    BY <1>1, <1>6 DEF LeaveTombstone, RetainBreaks, lifecycleVars, Directories
  <2> QED
    BY <1>2, <1>6, <2>1 DEF LeaveTombstone, RetainBreaks, lifecycleVars, Live, Traced
<1>7. ASSUME NEW how, TakeAway(how) PROVE AnnouncedInv'
  <2>1. ~Traced("run.done")' /\ ~Traced("run.failed")'
    BY <1>7 DEF TakeAway, EmptyDirectory, Traced
  <2>2. ASSUME untracked' = {}, NEW g \in Generations, Live(g)' PROVE FALSE
    <3>1. \A l \in Launchers : Left(l) \in {0, 14}
      BY <1>7, NobodyInside DEF TakeAway
    <3>2. Live(g)
      BY <1>7, <2>2 DEF TakeAway, Live
    <3>3. g \in untracked'
      BY <1>7, <3>1, <3>2 DEF TakeAway, FoundInv, Found
    <3> QED
      BY <2>2, <3>3
  <2> QED
    BY <2>1, <2>2 DEF AnnouncedInv, AnnouncedIsRecorded
<1> QED
  BY <1>3, <1>4, <1>5, <1>6, <1>7, AnnouncedStart, AnnouncedRunner
     DEF LifecycleNext, RetainStep

\* A Run whose Trace says it is done, or has failed, has no other result, wherever
\* a write of its runner throws or the runner dies: until a runner is lost the
\* directory has one live runner at most, and how much of its last block that one
\* has still to write says what result.json and the Trace have
\* (scripts/async-runner.mjs, runAsyncRunner).
THEOREM AnnouncedAlwaysRecorded == LifecycleSpec => []AnnouncedIsRecorded
<1>1. AnnouncedInv => AnnouncedIsRecorded
  BY DEF AnnouncedInv
<1> QED
  BY <1>1, BaseInit, BaseSteps, FoundInit, FoundSteps, OwnInit, OwnSteps, RunnersInit,
     RunnersSteps, AnnouncedInit, AnnouncedSteps, PTL DEF LifecycleSpec
=============================================================================
