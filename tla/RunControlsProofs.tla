-------------------------- MODULE RunControlsProofs --------------------------
(***************************************************************************)
(* Theorems about RunControls: type correctness, that no Control is        *)
(* handled twice, by a service of another generation or after its sender   *)
(* was told that it failed, and that the journal keeps its limits, for any *)
(* number of calls, services, restarts and any limits.                     *)
(*                                                                         *)
(* The argument needs one idea.  A Control is new until its record is      *)
(* appended; from then on its record only moves forward or disappears, and *)
(* nothing writes a record for it again.  Journal operations are therefore *)
(* summed up by Forward, and every step but the append, the claim and the  *)
(* recorded failure keeps the invariant for that reason alone.             *)
(***************************************************************************)
EXTENDS RunControls, FiniteSetTheorems, TLAPS

New(c) == caller[c].pc \in {"idle", "asked", "append"}

Unclaimed == {"queued", "delivered"}

Ran(c) == \E g \in Generations : <<c, g>> \in executed

\* A new Control has no record and no history.
NewIsBlank ==
    \A c \in Calls : New(c) =>
        control[c].status = "absent" /\ ~Ran(c) /\ c \notin refused

\* What can still be claimed was neither handled nor given up.
UnclaimedIsOpen ==
    \A c \in Calls : control[c].status \in Unclaimed => ~Ran(c) /\ c \notin refused

\* A record carries the generation its sender asked for.
RecordIsSenders ==
    \A c \in Calls : control[c].status # "absent" =>
        control[c].generation = caller[c].generation

SafeInv ==
    /\ NewIsBlank /\ UnclaimedIsOpen /\ RecordIsSenders
    /\ ExecutedOnce /\ NoStaleExecution /\ RefusedNeverRuns

-----------------------------------------------------------------------------
\* One record of the journal before and after an operation: kept, dropped or
\* moved on, but never made claimable or pending again and never given a
\* generation.
ForwardRecord(old, new) ==
    \/ new = old
    \/ new = Absent
    \/ /\ old.status # "absent" /\ new.status # "absent"
       /\ new.generation = old.generation
       /\ new.status \in Unclaimed => old.status \in Unclaimed
       /\ new.status \in PendingStatuses => old.status \in PendingStatuses

Forward(cs, ds) == \A c \in Calls : ForwardRecord(cs[c], ds[c])

\* No caller goes back to being new, and none changes its generation later.
CallersGoOn ==
    \A c \in Calls : /\ New(c)' => New(c)
                     /\ ~New(c) => caller'[c].generation = caller[c].generation

Quiet == UNCHANGED <<executed, repeated, refused>>

LEMMA AbsentType == Absent \in Record
  BY ControlsAssumption DEF Absent, Record, ControlStatuses, Generations

LEMMA CompactionKeeps ==
    ASSUME NEW cs \in [Calls -> Record], NEW ds \in Compactions(cs)
    PROVE  /\ ds \in [Calls -> Record]
           /\ \A c \in Calls : ds[c] = cs[c] \/ ds[c] = Absent
  <1>1. PICK D \in SUBSET TerminalControls(cs) :
            ds = [c \in Calls |-> IF c \in D THEN Absent ELSE cs[c]]
    BY DEF Compactions
  <1> QED
    BY <1>1, AbsentType

(* Every update of a record that a journal operation makes is a step      *)
(* forward, and so is the compaction that follows it.                      *)
LEMMA CompactionForward ==
    ASSUME NEW cs \in [Calls -> Record], NEW es \in [Calls -> Record],
           Forward(cs, es), NEW ds \in Compactions(es)
    PROVE  ds \in [Calls -> Record] /\ Forward(cs, ds)
  BY CompactionKeeps DEF Forward, ForwardRecord

LEMMA ForwardMark ==
    ASSUME NEW cs \in [Calls -> Record], NEW c \in Calls
    PROVE  /\ MarkDelivered(cs, c) \in [Calls -> Record]
           /\ Forward(cs, MarkDelivered(cs, c))
  BY DEF MarkDelivered, Touchable, Record, ControlStatuses, PendingStatuses,
         Forward, ForwardRecord, Unclaimed

LEMMA ForwardSettled ==
    ASSUME NEW cs \in [Calls -> Record], NEW c \in Calls, NEW o \in TerminalStatuses
    PROVE  /\ Settled(cs, c, o) \in [Calls -> Record]
           /\ Forward(cs, Settled(cs, c, o))
  BY DEF Settled, Touchable, Record, ControlStatuses, PendingStatuses,
         TerminalStatuses, Forward, ForwardRecord, Unclaimed

\* The two updates that take a record out of reach of a claim.
LEMMA ForwardLeaves ==
    ASSUME NEW cs \in [Calls -> Record], NEW c \in Calls,
           cs[c].status \in Unclaimed, NEW status \in {"claimed", "failed"}
    PROVE  /\ [cs EXCEPT ![c].status = status] \in [Calls -> Record]
           /\ Forward(cs, [cs EXCEPT ![c].status = status])
  BY DEF Record, ControlStatuses, PendingStatuses, TerminalStatuses,
         Forward, ForwardRecord, Unclaimed

LEMMA ForwardSame ==
    ASSUME NEW cs \in [Calls -> Record]
    PROVE  Forward(cs, cs)
  BY DEF Forward, ForwardRecord

-----------------------------------------------------------------------------
(* Type correctness.                                                       *)

LEMMA CompactionTyped ==
    ASSUME NEW cs \in [Calls -> Record],
           NEW es \in IF cs = control THEN {control} ELSE Compactions(cs)
    PROVE  es \in [Calls -> Record]
  BY CompactionKeeps

LEMMA InitTyped == ControlsInit => ControlsTypeOK
  <1> SUFFICES ASSUME ControlsInit PROVE ControlsTypeOK
    OBVIOUS
  <1> 0 \in Generations
    BY ControlsAssumption DEF Generations
  <1> QED
    BY AbsentType DEF ControlsInit, ControlsTypeOK, Caller, Steps, Service, Down

\* The frame of the steps of one caller; the journal is typed apart.
LEMMA CallTyped ==
    ASSUME ControlsTypeOK, NEW c \in Calls,
           Ask(c) \/ Enter(c) \/ ReadRun(c) \/ AppendControl(c) \/ FindEndpoint(c)
               \/ WriteWire(c) \/ RecordDelivered(c) \/ RecordFailed(c) \/ CallerDies(c)
    PROVE  ControlsTypeOK'
  <1> USE DEF ControlsTypeOK, Moves, Returns, Caller, Steps
  <1>1. CASE Ask(c)
    BY <1>1 DEF Ask
  <1>2. CASE Enter(c)
    BY <1>2 DEF Enter
  <1>3. CASE ReadRun(c)
    BY <1>3 DEF ReadRun
  <1>4. CASE AppendControl(c)
    <2>1. Admitted(control, c, caller[c].generation) \in [Calls -> Record]
      BY DEF Admitted, Record, ControlStatuses, PendingStatuses
    <2>2. control' \in [Calls -> Record]
      BY <1>4, <2>1, CompactionKeeps DEF AppendControl
    <2> QED
      BY <1>4, <2>2 DEF AppendControl
  <1>5. CASE FindEndpoint(c)
    BY <1>5 DEF FindEndpoint
  <1>6. CASE WriteWire(c)
    BY <1>6 DEF WriteWire
  <1>7. CASE RecordDelivered(c)
    <2>1. control' \in [Calls -> Record]
      BY <1>7, ForwardMark, CompactionKeeps DEF RecordDelivered
    <2> QED
      BY <1>7, <2>1 DEF RecordDelivered
  <1>8. CASE RecordFailed(c)
    <2>1. control' \in [Calls -> Record]
      BY <1>8, ForwardLeaves, CompactionKeeps DEF RecordFailed, Refusable, Unclaimed
    <2> QED
      BY <1>8, <2>1 DEF RecordFailed
  <1>9. CASE CallerDies(c)
    BY <1>9 DEF CallerDies
  <1> QED
    BY <1>1, <1>2, <1>3, <1>4, <1>5, <1>6, <1>7, <1>8, <1>9

LEMMA ClaimTyped ==
    ASSUME ControlsTypeOK, NEW s \in Services, NEW c \in Calls, Claim(s, c)
    PROVE  /\ control' \in [Calls -> Record]
           /\ service' \in [Services -> Service]
           /\ executed' \in SUBSET (Calls \X Generations)
           /\ repeated' \in SUBSET Calls
  <1>1. control' \in [Calls -> Record]
    BY ForwardLeaves, CompactionKeeps DEF Claim, Claimable, ControlsTypeOK, Unclaimed
  <1>2. service[s].generation \in Generations /\ service[s] \in Service
    BY DEF ControlsTypeOK, Service
  <1>3. service' \in [Services -> Service]
    BY <1>2 DEF Claim, ControlsTypeOK, Service
  <1>4. executed' \in SUBSET (Calls \X Generations)
    BY <1>2 DEF Claim, ControlsTypeOK
  <1>5. repeated' \in SUBSET Calls
    BY DEF Claim, ControlsTypeOK
  <1> QED
    BY <1>1, <1>3, <1>4, <1>5

\* A start that was let in has a generation left to give out.
StartBounded == lifecycle = "start" => runGeneration < MaxGeneration

LEMMA RunTyped ==
    ASSUME ControlsTypeOK, StartBounded, RunnerEnds \/ PrepareStart \/ PublishStart
    PROVE  ControlsTypeOK'
  <1>1. CASE RunnerEnds
    BY <1>1 DEF RunnerEnds, ControlsTypeOK
  <1>2. CASE PrepareStart
    BY <1>2, AbsentType, ControlsAssumption DEF PrepareStart, ControlsTypeOK, Generations
  <1>3. CASE PublishStart
    <2>1. runGeneration' \in Generations
      BY <1>3, ControlsAssumption DEF PublishStart, ControlsTypeOK, StartBounded, Generations
    <2> QED
      BY <1>3, <2>1 DEF PublishStart, ControlsTypeOK
  <1> QED
    BY <1>1, <1>2, <1>3

LEMMA ServiceTyped ==
    ASSUME ControlsTypeOK, NEW s \in Services,
           ServiceStarts(s) \/ ServiceReady(s) \/ ReadWire(s) \/ PollJournal(s)
               \/ ServiceSettles(s) \/ ServiceDies(s)
    PROVE  ControlsTypeOK'
  <1> service[s] \in Service /\ 0 \in Generations
    BY ControlsAssumption DEF ControlsTypeOK, Generations
  <1>1. CASE ServiceStarts(s)
    BY <1>1 DEF ServiceStarts, ControlsTypeOK, Service, Down
  <1>2. CASE ServiceReady(s)
    BY <1>2 DEF ServiceReady, ControlsTypeOK, Service
  <1>3. CASE ReadWire(s)
    <2>1. PICK c \in wire :
            /\ wire' = wire \ {c}
            /\ Claim(s, c) \/ UNCHANGED <<control, service, executed, repeated>>
      BY <1>3 DEF ReadWire
    <2>2. c \in Calls
      BY DEF ControlsTypeOK
    <2>3. CASE Claim(s, c)
      BY <1>3, <2>1, <2>2, <2>3, ClaimTyped DEF ReadWire, ControlsTypeOK
    <2>4. CASE UNCHANGED <<control, service, executed, repeated>>
      BY <1>3, <2>1, <2>4 DEF ReadWire, ControlsTypeOK
    <2> QED
      BY <2>1, <2>3, <2>4
  <1>4. CASE PollJournal(s)
    BY <1>4, ClaimTyped DEF PollJournal, ControlsTypeOK
  <1>5. CASE ServiceSettles(s)
    <2>1. service[s].doing \in Calls
      BY <1>5 DEF ServiceSettles, Service
    <2>2. control' \in [Calls -> Record]
      BY <1>5, <2>1, ForwardSettled, CompactionKeeps DEF ServiceSettles, ControlsTypeOK
    <2> QED
      BY <1>5, <2>2 DEF ServiceSettles, ControlsTypeOK, Service
  <1>6. CASE ServiceDies(s)
    BY <1>6 DEF ServiceDies, ControlsTypeOK, Service, Down
  <1> QED
    BY <1>1, <1>2, <1>3, <1>4, <1>5, <1>6

LEMMA BoundKept ==
    ASSUME ControlsTypeOK, StartBounded, ControlsNext
    PROVE  StartBounded'
  <1> USE DEF StartBounded, ControlsTypeOK
  <1>1. CASE \E c \in Calls : Enter(c) \/ AppendControl(c) \/ RecordDelivered(c)
                                  \/ RecordFailed(c) \/ CallerDies(c)
    BY <1>1 DEF Enter, AppendControl, RecordDelivered, RecordFailed, CallerDies, Returns
  <1>2. CASE \E c \in Calls : Ask(c) \/ ReadRun(c) \/ FindEndpoint(c) \/ WriteWire(c)
    BY <1>2 DEF Ask, ReadRun, FindEndpoint, WriteWire
  <1>3. CASE ServiceMoves
    BY <1>3 DEF ServiceMoves, ServiceStarts, ServiceReady, ReadWire, PollJournal,
                ServiceSettles, ServiceDies
  <1>4. CASE RunnerEnds \/ PrepareStart \/ PublishStart
    BY <1>4 DEF RunnerEnds, PrepareStart, PublishStart
  <1> QED
    BY <1>1, <1>2, <1>3, <1>4 DEF ControlsNext, CallMoves

TypeInv == ControlsTypeOK /\ StartBounded

LEMMA TypeInitially == ControlsInit => TypeInv
  BY InitTyped DEF TypeInv, StartBounded, ControlsInit

LEMMA TypeStep == TypeInv /\ [ControlsNext]_controlVars => TypeInv'
  <1> SUFFICES ASSUME TypeInv, [ControlsNext]_controlVars PROVE TypeInv'
    OBVIOUS
  <1>1. CASE ControlsNext
    BY <1>1, CallTyped, RunTyped, ServiceTyped, BoundKept
    DEF TypeInv, ControlsNext, CallMoves, ServiceMoves
  <1>2. CASE UNCHANGED controlVars
    BY <1>2 DEF TypeInv, StartBounded, ControlsTypeOK, controlVars
  <1> QED
    BY <1>1, <1>2

(* The variables keep their types: no interleaving of senders, services    *)
(* and starts writes a status, a generation or a caller the code does not  *)
(* know (lib/runs-controls.ts, lib/runs-start.ts).                         *)
THEOREM ControlsTypeCorrect == ControlsSpec => []ControlsTypeOK
  <1>1. ControlsSpec => []TypeInv
    BY TypeInitially, TypeStep, PTL DEF ControlsSpec
  <1> QED
    BY <1>1, PTL DEF TypeInv

-----------------------------------------------------------------------------
(* No Control is handled twice, late or after it was given up.             *)

LEMMA CallersFrame ==
    ASSUME ControlsTypeOK, UNCHANGED caller
    PROVE  CallersGoOn
  BY DEF CallersGoOn, New

LEMMA CallersMove ==
    ASSUME ControlsTypeOK, NEW c \in Calls,
           Ask(c) \/ Enter(c) \/ ReadRun(c) \/ AppendControl(c) \/ FindEndpoint(c)
               \/ WriteWire(c) \/ RecordDelivered(c) \/ RecordFailed(c) \/ CallerDies(c)
    PROVE  CallersGoOn
  <1> USE DEF ControlsTypeOK, CallersGoOn, New, Moves, Returns, Caller
  <1>1. CASE Ask(c)
    BY <1>1 DEF Ask
  <1>2. CASE Enter(c)
    BY <1>2 DEF Enter
  <1>3. CASE ReadRun(c)
    BY <1>3 DEF ReadRun
  <1>4. CASE AppendControl(c)
    BY <1>4 DEF AppendControl
  <1>5. CASE FindEndpoint(c)
    BY <1>5 DEF FindEndpoint
  <1>6. CASE WriteWire(c)
    BY <1>6 DEF WriteWire
  <1>7. CASE RecordDelivered(c)
    BY <1>7 DEF RecordDelivered
  <1>8. CASE RecordFailed(c)
    BY <1>8 DEF RecordFailed
  <1>9. CASE CallerDies(c)
    BY <1>9 DEF CallerDies
  <1> QED
    BY <1>1, <1>2, <1>3, <1>4, <1>5, <1>6, <1>7, <1>8, <1>9

\* The parts of the invariant that speak of records, after a step forward.
LEMMA ForwardKeeps ==
    ASSUME ControlsTypeOK, SafeInv, CallersGoOn, Forward(control, control'),
           control' \in [Calls -> Record]
    PROVE  /\ RecordIsSenders'
           /\ \A c \in Calls : /\ New(c)' => control'[c].status = "absent"
                               /\ control'[c].status \in Unclaimed
                                      => control[c].status \in Unclaimed
           /\ \A x \in executed : x[2] = caller'[x[1]].generation
  <1>1. \A c \in Calls : New(c) => control[c].status = "absent" /\ ~Ran(c)
    BY DEF SafeInv, NewIsBlank
  <1>2. ASSUME NEW c \in Calls
        PROVE  /\ control'[c].status # "absent" =>
                      control'[c].generation = caller'[c].generation
               /\ New(c)' => control'[c].status = "absent"
               /\ control'[c].status \in Unclaimed => control[c].status \in Unclaimed
    <2>1. ForwardRecord(control[c], control'[c])
      BY DEF Forward
    <2>2. /\ control[c].status # "absent" => control[c].generation = caller[c].generation
          /\ New(c)' => New(c)
          /\ ~New(c) => caller'[c].generation = caller[c].generation
      BY DEF SafeInv, RecordIsSenders, CallersGoOn
    <2>3. Absent.status = "absent"
      BY DEF Absent
    <2> QED
      BY <1>1, <2>1, <2>2, <2>3 DEF ForwardRecord, Unclaimed
  <1>3. ASSUME NEW x \in executed PROVE x[2] = caller'[x[1]].generation
    <2>1. x[1] \in Calls /\ x[2] \in Generations /\ x = <<x[1], x[2]>>
      BY DEF ControlsTypeOK
    <2>2. ~New(x[1])
      BY <1>1, <2>1 DEF Ran
    <2> QED
      BY <2>1, <2>2 DEF CallersGoOn, SafeInv, NoStaleExecution
  <1> QED
    BY <1>2, <1>3 DEF RecordIsSenders

\* Nothing is handled and nothing given up.
LEMMA QuietKeeps ==
    ASSUME ControlsTypeOK, SafeInv, CallersGoOn, Forward(control, control'),
           control' \in [Calls -> Record], Quiet
    PROVE  SafeInv'
  <1>1. \A c \in Calls : Ran(c)' <=> Ran(c)
    BY DEF Quiet, Ran
  <1>2. NewIsBlank'
    BY <1>1, ForwardKeeps DEF SafeInv, NewIsBlank, CallersGoOn, Quiet
  <1>3. UnclaimedIsOpen'
    BY <1>1, ForwardKeeps DEF SafeInv, UnclaimedIsOpen, Quiet
  <1>4. (ExecutedOnce /\ NoStaleExecution /\ RefusedNeverRuns)'
    BY ForwardKeeps DEF SafeInv, ExecutedOnce, NoStaleExecution, RefusedNeverRuns, Quiet
  <1> QED
    BY <1>2, <1>3, <1>4, ForwardKeeps DEF SafeInv

\* A new Control becomes a record; nothing else does.
LEMMA AppendKeeps ==
    ASSUME ControlsTypeOK, SafeInv, NEW c \in Calls, AppendControl(c)
    PROVE  SafeInv'
  <1>1. CASE ~Admissible(control, caller[c].generation)
    BY <1>1, CallersMove, ForwardSame, QuietKeeps
    DEF AppendControl, ControlsTypeOK, Quiet
  <1>2. CASE Admissible(control, caller[c].generation)
    <2> DEFINE appended == Admitted(control, c, caller[c].generation)
    <2>1. /\ control' \in Compactions(appended)
          /\ appended \in [Calls -> Record]
      BY <1>2 DEF AppendControl, Admitted, Record, ControlStatuses, PendingStatuses,
                  ControlsTypeOK, Caller
    <2>2. /\ control' \in [Calls -> Record]
          /\ \A d \in Calls : control'[d] = appended[d] \/ control'[d] = Absent
      BY <2>1, CompactionKeeps
    <2>3. /\ New(c) /\ ~New(c)'
          /\ caller'[c].generation = caller[c].generation
          /\ \A d \in Calls \ {c} : caller'[d] = caller[d]
      BY <1>2 DEF AppendControl, Moves, Returns, New, ControlsTypeOK, Caller
    <2>4. /\ Quiet
          /\ \A d \in Calls : Ran(d)' <=> Ran(d)
      BY DEF AppendControl, Quiet, Ran
    <2>5. ASSUME NEW d \in Calls
          PROVE  /\ New(d)' => control'[d].status = "absent" /\ ~Ran(d) /\ d \notin refused
                 /\ control'[d].status \in Unclaimed => ~Ran(d) /\ d \notin refused
                 /\ control'[d].status # "absent" =>
                        control'[d].generation = caller'[d].generation
      <3>1. Absent.status = "absent"
        BY DEF Absent
      <3>2. CASE d = c
        <4>1. appended[c].generation = caller[c].generation
          BY DEF Admitted, ControlsTypeOK
        <4>2. ~Ran(c) /\ c \notin refused
          BY <2>3 DEF SafeInv, NewIsBlank
        <4> QED
          BY <2>2, <2>3, <3>1, <3>2, <4>1, <4>2
      <3>3. CASE d # c
        <4>1. appended[d] = control[d]
          BY <3>3 DEF Admitted, ControlsTypeOK
        <4>2. New(d)' => New(d)
          BY <2>3, <3>3 DEF New
        <4> QED
          BY <2>2, <2>3, <3>1, <3>3, <4>1, <4>2
          DEF SafeInv, NewIsBlank, UnclaimedIsOpen, RecordIsSenders, Unclaimed
      <3> QED
        BY <3>2, <3>3
    <2>6. (NewIsBlank /\ UnclaimedIsOpen /\ RecordIsSenders)'
      BY <2>4, <2>5 DEF NewIsBlank, UnclaimedIsOpen, RecordIsSenders, Quiet
    <2>7. NoStaleExecution'
      <3> SUFFICES ASSUME NEW x \in executed
                   PROVE  x[2] = caller'[x[1]].generation
        BY <2>4 DEF NoStaleExecution, Quiet
      <3> x[1] \in Calls
        BY DEF ControlsTypeOK
      <3> QED
        BY <2>3 DEF SafeInv, NoStaleExecution
    <2>8. (ExecutedOnce /\ RefusedNeverRuns)'
      BY <2>4 DEF SafeInv, ExecutedOnce, RefusedNeverRuns, Quiet
    <2> QED
      BY <2>6, <2>7, <2>8 DEF SafeInv
  <1> QED
    BY <1>1, <1>2

\* A sender gives up only what can still be claimed, and that is then gone.
LEMMA RefusalKeeps ==
    ASSUME ControlsTypeOK, SafeInv, NEW c \in Calls, RecordFailed(c)
    PROVE  SafeInv'
  <1>1. CallersGoOn
    BY CallersMove
  <1>2. CASE ~Refusable(control, c)
    <2>1. UNCHANGED control /\ Quiet
      BY <1>2 DEF RecordFailed, Quiet
    <2> QED
      BY <1>1, <2>1, ForwardSame, QuietKeeps DEF ControlsTypeOK
  <1>3. CASE Refusable(control, c)
    <2> DEFINE failed == [control EXCEPT ![c].status = "failed"]
    <2>1. /\ control[c].status \in Unclaimed
          /\ control' \in Compactions(failed)
          /\ refused' = refused \cup {c}
          /\ UNCHANGED <<executed, repeated>>
      BY <1>3 DEF RecordFailed, Refusable, Unclaimed
    <2>2. failed \in [Calls -> Record] /\ Forward(control, failed)
      BY <2>1, ForwardLeaves DEF ControlsTypeOK
    <2>3. control' \in [Calls -> Record] /\ Forward(control, control')
      BY <2>1, <2>2, CompactionForward DEF ControlsTypeOK
    <2>4. control'[c].status \notin Unclaimed
      <3>1. control'[c] = failed[c] \/ control'[c] = Absent
        BY <2>1, <2>2, CompactionKeeps
      <3>2. failed[c].status = "failed"
        BY DEF ControlsTypeOK, Record
      <3>3. Absent.status = "absent"
        BY DEF Absent
      <3> HIDE DEF failed
      <3> QED
        BY <3>1, <3>2, <3>3 DEF Unclaimed
    <2>5. ~New(c) /\ ~New(c)' /\ ~Ran(c)
      <3>1. ~New(c)
        BY DEF RecordFailed, New
      <3> QED
        BY <1>1, <2>1, <3>1 DEF CallersGoOn, SafeInv, UnclaimedIsOpen
    <2>6. \A d \in Calls : Ran(d)' <=> Ran(d)
      BY <2>1 DEF Ran
    <2>7. /\ RecordIsSenders'
          /\ \A d \in Calls : /\ New(d)' => control'[d].status = "absent"
                              /\ control'[d].status \in Unclaimed
                                     => control[d].status \in Unclaimed
          /\ \A x \in executed : x[2] = caller'[x[1]].generation
      BY <1>1, <2>3, ForwardKeeps
    <2>8. NewIsBlank'
      BY <1>1, <2>1, <2>5, <2>6, <2>7 DEF SafeInv, NewIsBlank, CallersGoOn
    <2>9. UnclaimedIsOpen'
      BY <2>1, <2>4, <2>6, <2>7 DEF SafeInv, UnclaimedIsOpen
    <2>10. RefusedNeverRuns'
      <3> SUFFICES ASSUME NEW x \in executed PROVE x[1] \notin refused \cup {c}
        BY <2>1 DEF RefusedNeverRuns
      <3>1. x = <<x[1], x[2]>> /\ x[2] \in Generations
        BY DEF ControlsTypeOK
      <3> QED
        BY <2>5, <3>1 DEF SafeInv, RefusedNeverRuns, Ran
    <2>11. (ExecutedOnce /\ NoStaleExecution)'
      BY <2>1, <2>7 DEF SafeInv, ExecutedOnce, NoStaleExecution
    <2> QED
      BY <2>7, <2>8, <2>9, <2>10, <2>11 DEF SafeInv
  <1> QED
    BY <1>2, <1>3

\* A claim takes what was neither handled nor given up, and is fenced by the
\* generation of the service.
LEMMA ClaimKeeps ==
    ASSUME ControlsTypeOK, SafeInv, NEW s \in Services, NEW c \in Calls, Claim(s, c),
           UNCHANGED <<caller, refused>>
    PROVE  SafeInv'
  <1> DEFINE claimed == [control EXCEPT ![c].status = "claimed"]
             g == service[s].generation
  <1>1. CallersGoOn /\ \A d \in Calls : New(d)' <=> New(d)
    BY DEF CallersGoOn, New
  <1>2. /\ control[c].status \in Unclaimed
        /\ control[c].generation = g
        /\ control' \in Compactions(claimed)
        /\ executed' = executed \cup {<<c, g>>}
        /\ ~Ran(c) => repeated' = repeated
    BY DEF Claim, Claimable, Unclaimed, Ran
  <1>3. claimed \in [Calls -> Record] /\ Forward(control, claimed)
    BY <1>2, ForwardLeaves DEF ControlsTypeOK
  <1>4. control' \in [Calls -> Record] /\ Forward(control, control')
    BY <1>2, <1>3, CompactionForward DEF ControlsTypeOK
  <1>5. control'[c].status \notin Unclaimed
    <2>1. control'[c] = claimed[c] \/ control'[c] = Absent
      BY <1>2, <1>3, CompactionKeeps
    <2>2. claimed[c].status = "claimed"
      BY DEF ControlsTypeOK, Record
    <2>3. Absent.status = "absent"
      BY DEF Absent
    <2> HIDE DEF claimed
    <2> QED
      BY <2>1, <2>2, <2>3 DEF Unclaimed
  <1>6. ~New(c) /\ ~Ran(c) /\ c \notin refused
    BY <1>2 DEF SafeInv, NewIsBlank, UnclaimedIsOpen, Unclaimed
  <1>7. g = caller[c].generation
    BY <1>2 DEF SafeInv, RecordIsSenders, Unclaimed
  <1>8. \A d \in Calls : d # c => (Ran(d)' <=> Ran(d))
    BY <1>2 DEF Ran
  <1>9. /\ RecordIsSenders'
        /\ \A d \in Calls : /\ New(d)' => control'[d].status = "absent"
                            /\ control'[d].status \in Unclaimed
                                   => control[d].status \in Unclaimed
        /\ \A x \in executed : x[2] = caller'[x[1]].generation
    BY <1>1, <1>4, ForwardKeeps
  <1>10. NewIsBlank'
    BY <1>1, <1>6, <1>8, <1>9 DEF SafeInv, NewIsBlank
  <1>11. UnclaimedIsOpen'
    BY <1>5, <1>8, <1>9 DEF SafeInv, UnclaimedIsOpen
  <1>12. ExecutedOnce'
    BY <1>2, <1>6 DEF SafeInv, ExecutedOnce
  <1>13. NoStaleExecution'
    BY <1>2, <1>7, <1>9 DEF NoStaleExecution
  <1>14. RefusedNeverRuns'
    BY <1>2, <1>6 DEF SafeInv, RefusedNeverRuns
  <1> QED
    BY <1>9, <1>10, <1>11, <1>12, <1>13, <1>14 DEF SafeInv

LEMMA CallKeeps ==
    ASSUME ControlsTypeOK, SafeInv, CallMoves
    PROVE  SafeInv'
  <1>1. PICK c \in Calls :
            Ask(c) \/ Enter(c) \/ ReadRun(c) \/ AppendControl(c) \/ FindEndpoint(c)
                \/ WriteWire(c) \/ RecordDelivered(c) \/ RecordFailed(c) \/ CallerDies(c)
    BY DEF CallMoves
  <1>2. CallersGoOn
    BY <1>1, CallersMove
  <1>3. CASE Ask(c) \/ Enter(c) \/ ReadRun(c) \/ FindEndpoint(c) \/ WriteWire(c)
                 \/ CallerDies(c)
    <2>1. UNCHANGED control /\ Quiet
      BY <1>3 DEF Ask, Enter, ReadRun, FindEndpoint, WriteWire, CallerDies, Quiet
    <2> QED
      BY <1>2, <2>1, ForwardSame, QuietKeeps DEF ControlsTypeOK
  <1>4. CASE AppendControl(c)
    BY <1>4, AppendKeeps
  <1>5. CASE RecordDelivered(c)
    <2>1. Quiet /\ control' \in [Calls -> Record] /\ Forward(control, control')
      BY <1>5, ForwardMark, ForwardSame, CompactionForward
      DEF RecordDelivered, Quiet, ControlsTypeOK
    <2> QED
      BY <1>2, <2>1, QuietKeeps
  <1>6. CASE RecordFailed(c)
    BY <1>6, RefusalKeeps
  <1> QED
    BY <1>1, <1>3, <1>4, <1>5, <1>6

LEMMA ServiceKeeps ==
    ASSUME ControlsTypeOK, SafeInv, ServiceMoves
    PROVE  SafeInv'
  <1>1. PICK s \in Services :
            ServiceStarts(s) \/ ServiceReady(s) \/ ReadWire(s) \/ PollJournal(s)
                \/ ServiceSettles(s) \/ ServiceDies(s)
    BY DEF ServiceMoves
  <1>2. UNCHANGED <<caller, refused>>
    BY <1>1 DEF ServiceStarts, ServiceReady, ReadWire, PollJournal, ServiceSettles,
                ServiceDies
  <1>3. CASE ServiceStarts(s) \/ ServiceReady(s) \/ ServiceDies(s)
    <2>1. UNCHANGED control /\ Quiet
      BY <1>3 DEF ServiceStarts, ServiceReady, ServiceDies, Quiet
    <2> QED
      BY <1>2, <2>1, CallersFrame, ForwardSame, QuietKeeps DEF ControlsTypeOK
  <1>4. CASE ReadWire(s) \/ PollJournal(s)
    <2>1. CASE \E c \in Calls : Claim(s, c)
      BY <1>2, <2>1, ClaimKeeps
    <2>2. CASE UNCHANGED control /\ Quiet
      BY <1>2, <2>2, CallersFrame, ForwardSame, QuietKeeps DEF ControlsTypeOK
    <2> QED
      BY <1>2, <1>4, <2>1, <2>2 DEF ReadWire, PollJournal, Quiet, ControlsTypeOK
  <1>5. CASE ServiceSettles(s)
    <2>1. service[s].doing \in Calls
      BY <1>5 DEF ServiceSettles, ControlsTypeOK, Service
    <2>2. Quiet /\ control' \in [Calls -> Record] /\ Forward(control, control')
      BY <1>5, <2>1, ForwardSettled, ForwardSame, CompactionForward
      DEF ServiceSettles, Quiet, ControlsTypeOK
    <2> QED
      BY <1>2, <2>2, CallersFrame, QuietKeeps
  <1> QED
    BY <1>1, <1>3, <1>4, <1>5

LEMMA RunKeeps ==
    ASSUME ControlsTypeOK, SafeInv, RunnerEnds \/ PrepareStart \/ PublishStart
    PROVE  SafeInv'
  <1>1. UNCHANGED caller /\ Quiet
    BY DEF RunnerEnds, PrepareStart, PublishStart, Quiet
  <1>2. control' \in [Calls -> Record] /\ Forward(control, control')
    BY AbsentType, ForwardSame
    DEF RunnerEnds, PrepareStart, PublishStart, ControlsTypeOK, Forward, ForwardRecord
  <1> QED
    BY <1>1, <1>2, CallersFrame, QuietKeeps

LEMMA SafeInitially == ControlsInit => SafeInv
  BY DEF ControlsInit, SafeInv, NewIsBlank, UnclaimedIsOpen, RecordIsSenders, Absent,
         Ran, Unclaimed, ExecutedOnce, NoStaleExecution, RefusedNeverRuns

LEMMA SafeStep ==
    TypeInv /\ SafeInv /\ [ControlsNext]_controlVars => SafeInv'
  <1> SUFFICES ASSUME TypeInv, SafeInv, [ControlsNext]_controlVars PROVE SafeInv'
    OBVIOUS
  <1> ControlsTypeOK
    BY DEF TypeInv
  <1>1. CASE ControlsNext
    BY <1>1, CallKeeps, ServiceKeeps, RunKeeps DEF ControlsNext
  <1>2. CASE UNCHANGED controlVars
    BY <1>2 DEF controlVars, SafeInv, NewIsBlank, UnclaimedIsOpen, RecordIsSenders,
                New, Ran, ExecutedOnce, NoStaleExecution, RefusedNeverRuns
  <1> QED
    BY <1>1, <1>2

LEMMA AlwaysSafe == ControlsSpec => []SafeInv
  <1>1. ControlsInit => TypeInv /\ SafeInv
    BY TypeInitially, SafeInitially
  <1>2. (TypeInv /\ SafeInv) /\ [ControlsNext]_controlVars => (TypeInv /\ SafeInv)'
    BY TypeStep, SafeStep
  <1> QED
    BY <1>1, <1>2, PTL DEF ControlsSpec

(* No Control's handler starts twice: the claim is the only way to a       *)
(* handler, and after it no mark, refusal, restart or compaction makes the *)
(* record claimable again (runs-controls.ts claimRunControl).              *)
THEOREM HandledAtMostOnce == ControlsSpec => []ExecutedOnce
  BY AlwaysSafe, PTL DEF SafeInv

(* A service handles Controls of its own generation only, also when it     *)
(* outlives its Run or its endpoint is taken for the next one's.           *)
THEOREM HandledInGeneration == ControlsSpec => []NoStaleExecution
  BY AlwaysSafe, PTL DEF SafeInv

(* What a sender recorded as failed is never handled, though the endpoint  *)
(* may hold its message (runs-control-delivery.ts deliverRunControl).      *)
THEOREM RefusedIsFinal == ControlsSpec => []RefusedNeverRuns
  BY AlwaysSafe, PTL DEF SafeInv

-----------------------------------------------------------------------------
(* What is sent under the lifecycle lock does not outlive its generation.  *)

Sent == Calls \ LocalCalls

Holding(c) == c \in Sent /\ caller[c].pc \notin {"idle", "asked", "done"}

\* Whoever holds the lock holds it alone, and run.json still names the
\* generation it asked for.
HoldersAlone ==
    /\ \A c \in Calls : Holding(c) =>
           lifecycle = "send" /\ caller[c].generation = runGeneration
    /\ \A c, d \in Calls : Holding(c) /\ Holding(d) => c = d

\* A start that was let in has emptied the journal of sent Controls.
StartEmptied ==
    lifecycle = "start" => \A c \in Sent : control[c].status = "absent"

LockInv == HoldersAlone /\ StartEmptied /\ SentAreCurrent

\* The lock, run.json and the callers stay; records move forward.
LEMMA LockForward ==
    ASSUME ControlsTypeOK, LockInv, Forward(control, control'),
           UNCHANGED <<lifecycle, runGeneration>>,
           \A c \in Calls : Holding(c)' =>
               Holding(c) /\ caller'[c].generation = caller[c].generation
    PROVE  LockInv'
  <1>1. HoldersAlone'
    BY DEF LockInv, HoldersAlone
  <1>2. \A c \in Calls :
            /\ control[c].status = "absent" => control'[c].status = "absent"
            /\ control'[c].status \in PendingStatuses =>
                   /\ control[c].status \in PendingStatuses
                   /\ control'[c].generation = control[c].generation
    <2> SUFFICES ASSUME NEW c \in Calls
                 PROVE  /\ control[c].status = "absent" => control'[c].status = "absent"
                        /\ control'[c].status \in PendingStatuses =>
                              /\ control[c].status \in PendingStatuses
                              /\ control'[c].generation = control[c].generation
      OBVIOUS
    <2>1. ForwardRecord(control[c], control'[c])
      BY DEF Forward
    <2>2. Absent.status = "absent" /\ "absent" \notin PendingStatuses
      BY DEF Absent, PendingStatuses
    <2> QED
      BY <2>1, <2>2 DEF ForwardRecord
  <1>3. StartEmptied'
    BY <1>2 DEF LockInv, StartEmptied, Sent
  <1>4. SentAreCurrent'
    BY <1>2 DEF LockInv, SentAreCurrent, PendingControls
  <1> QED
    BY <1>1, <1>3, <1>4 DEF LockInv

\* A sender that holds the lock returns; records move forward.
LEMMA LockReturn ==
    ASSUME ControlsTypeOK, LockInv, Forward(control, control'),
           UNCHANGED runGeneration, NEW c \in Calls, Returns(c),
           caller[c].pc # "done"
    PROVE  LockInv'
  <1>1. /\ caller'[c].pc = "done"
        /\ \A d \in Calls \ {c} : caller'[d] = caller[d]
    BY DEF Returns, Moves, ControlsTypeOK, Caller
  <1>2. \A d \in Calls : Holding(d)' => Holding(d) /\ caller'[d] = caller[d] /\ d # c
    BY <1>1 DEF Holding
  <1>3. CASE UNCHANGED lifecycle
    BY <1>2, <1>3, LockForward
  <1>4. CASE lifecycle' = "free" /\ Holding(c)
    <2>1. HoldersAlone'
      BY <1>2, <1>4 DEF LockInv, HoldersAlone
    <2>2. StartEmptied'
      BY <1>4 DEF StartEmptied
    <2>3. SentAreCurrent'
      <3> SUFFICES ASSUME NEW d \in Sent, control'[d].status \in PendingStatuses
                   PROVE  control'[d].generation = runGeneration
        BY DEF SentAreCurrent, PendingControls, Sent
      <3>1. ForwardRecord(control[d], control'[d])
        BY DEF Forward, Sent
      <3>2. Absent.status \notin PendingStatuses
        BY DEF Absent, PendingStatuses
      <3> QED
        BY <3>1, <3>2 DEF ForwardRecord, LockInv, SentAreCurrent, PendingControls, Sent
    <2> QED
      BY <2>1, <2>2, <2>3 DEF LockInv
  <1>5. lifecycle' = lifecycle \/ (lifecycle' = "free" /\ Holding(c))
    BY DEF Returns, Holding, Sent
  <1> QED
    BY <1>3, <1>4, <1>5

LEMMA LockAppend ==
    ASSUME ControlsTypeOK, LockInv, NEW c \in Calls, AppendControl(c)
    PROVE  LockInv'
  <1>1. caller[c].pc = "append" /\ UNCHANGED runGeneration
    BY DEF AppendControl
  <1>2. CASE ~Admissible(control, caller[c].generation)
    BY <1>1, <1>2, ForwardSame, LockReturn DEF AppendControl, ControlsTypeOK
  <1>3. CASE Admissible(control, caller[c].generation)
    <2> DEFINE appended == Admitted(control, c, caller[c].generation)
    <2>1. /\ control' \in Compactions(appended)
          /\ appended \in [Calls -> Record]
      BY <1>3 DEF AppendControl, Admitted, Record, ControlStatuses, PendingStatuses,
                  ControlsTypeOK, Caller
    <2>2. \A d \in Calls : control'[d] = appended[d] \/ control'[d] = Absent
      BY <2>1, CompactionKeeps
    <2>3. \A d \in Calls : d # c => appended[d] = control[d]
      BY DEF Admitted, ControlsTypeOK
    <2>4. appended[c].generation = caller[c].generation
      BY DEF Admitted, ControlsTypeOK
    <2>5. /\ Absent.status = "absent" /\ "absent" \notin PendingStatuses
          /\ Absent.status \notin PendingStatuses
      BY DEF Absent, PendingStatuses
    <2> HIDE DEF appended
    <2>6. CASE c \in LocalCalls
      <3>1. /\ UNCHANGED lifecycle
            /\ \A d \in Calls : Holding(d)' =>
                   Holding(d) /\ caller'[d].generation = caller[d].generation
        BY <1>3, <2>6 DEF AppendControl, Returns, Moves, Holding, Sent, ControlsTypeOK
      <3>2. HoldersAlone'
        BY <1>1, <3>1 DEF LockInv, HoldersAlone
      <3>3. StartEmptied'
        BY <2>2, <2>3, <2>5, <2>6, <3>1 DEF LockInv, StartEmptied, Sent
      <3>4. SentAreCurrent'
        BY <1>1, <2>2, <2>3, <2>5, <2>6 DEF LockInv, SentAreCurrent, PendingControls
      <3> QED
        BY <3>2, <3>3, <3>4 DEF LockInv
    <2>7. CASE c \in Sent
      <3>1. Holding(c) /\ lifecycle = "send" /\ caller[c].generation = runGeneration
        BY <1>1, <2>7 DEF Holding, LockInv, HoldersAlone
      <3>2. /\ UNCHANGED lifecycle
            /\ \A d \in Calls : Holding(d)' =>
                   Holding(d) /\ caller'[d].generation = caller[d].generation
        BY <1>3, <2>7, <3>1 DEF AppendControl, Moves, Holding, Sent, ControlsTypeOK, Caller
      <3>3. HoldersAlone'
        BY <1>1, <3>2 DEF LockInv, HoldersAlone
      <3>4. StartEmptied'
        BY <3>1, <3>2 DEF StartEmptied
      <3>5. SentAreCurrent'
        BY <1>1, <2>2, <2>3, <2>4, <2>5, <3>1
        DEF LockInv, SentAreCurrent, PendingControls
      <3> QED
        BY <3>3, <3>4, <3>5 DEF LockInv
    <2> QED
      BY <2>6, <2>7 DEF Sent
  <1> QED
    BY <1>2, <1>3

LEMMA LockCalls ==
    ASSUME ControlsTypeOK, LockInv, CallMoves
    PROVE  LockInv'
  <1>1. PICK c \in Calls :
            Ask(c) \/ Enter(c) \/ ReadRun(c) \/ AppendControl(c) \/ FindEndpoint(c)
                \/ WriteWire(c) \/ RecordDelivered(c) \/ RecordFailed(c) \/ CallerDies(c)
    BY DEF CallMoves
  <1>2. CASE Ask(c)
    BY <1>2, ForwardSame, LockForward DEF Ask, Holding, ControlsTypeOK
  <1>3. CASE Enter(c)
    <2>1. CASE lifecycle' = "send"
      <3>1. /\ \A d \in Calls : ~Holding(d)
            /\ \A d \in Calls : Holding(d)' => d = c
            /\ caller'[c].generation = runGeneration
            /\ UNCHANGED <<control, runGeneration>>
        BY <1>3, <2>1 DEF Enter, Moves, Returns, Holding, LockInv, HoldersAlone,
                          ControlsTypeOK, Caller
      <3> QED
        BY <2>1, <3>1 DEF LockInv, HoldersAlone, StartEmptied, SentAreCurrent
    <2>2. CASE lifecycle' # "send"
      <3>1. Returns(c) /\ UNCHANGED <<control, runGeneration>> /\ caller[c].pc # "done"
        BY <1>3, <2>2 DEF Enter
      <3> QED
        BY <3>1, ForwardSame, LockReturn DEF ControlsTypeOK
    <2> QED
      BY <2>1, <2>2
  <1>4. CASE ReadRun(c)
    BY <1>4, ForwardSame, LockForward DEF ReadRun, Holding, Sent, ControlsTypeOK
  <1>5. CASE AppendControl(c)
    BY <1>5, LockAppend
  <1>6. CASE FindEndpoint(c) \/ WriteWire(c)
    BY <1>6, ForwardSame, LockForward
    DEF FindEndpoint, WriteWire, Moves, Holding, ControlsTypeOK, Caller
  <1>7. CASE RecordDelivered(c)
    <2>1. Forward(control, control')
      BY <1>7, ForwardMark, ForwardSame, CompactionForward
      DEF RecordDelivered, ControlsTypeOK
    <2>2. CASE Returns(c)
      BY <1>7, <2>1, <2>2, LockReturn DEF RecordDelivered
    <2>3. CASE Moves(c, "failing") /\ UNCHANGED lifecycle
      BY <1>7, <2>1, <2>3, LockForward
      DEF RecordDelivered, Moves, Holding, ControlsTypeOK, Caller
    <2> QED
      BY <1>7, <2>2, <2>3 DEF RecordDelivered
  <1>8. CASE RecordFailed(c)
    <2>1. Forward(control, control')
      <3> control \in [Calls -> Record]
        BY DEF ControlsTypeOK
      <3> DEFINE failed == [control EXCEPT ![c].status = "failed"]
      <3>1. CASE Refusable(control, c)
        <4>1. failed \in [Calls -> Record] /\ Forward(control, failed)
          BY <3>1, ForwardLeaves DEF Refusable, Unclaimed
        <4>2. control' \in Compactions(failed)
          BY <1>8, <3>1 DEF RecordFailed
        <4> QED
          BY <4>1, <4>2, CompactionForward
      <3>2. CASE ~Refusable(control, c)
        BY <1>8, <3>2, ForwardSame DEF RecordFailed
      <3> QED
        BY <3>1, <3>2
    <2> QED
      BY <1>8, <2>1, LockReturn DEF RecordFailed
  <1>9. CASE CallerDies(c)
    BY <1>9, ForwardSame, LockReturn DEF CallerDies, ControlsTypeOK
  <1> QED
    BY <1>1, <1>2, <1>3, <1>4, <1>5, <1>6, <1>7, <1>8, <1>9

LEMMA LockServices ==
    ASSUME ControlsTypeOK, LockInv, ServiceMoves
    PROVE  LockInv'
  <1>1. PICK s \in Services :
            ServiceStarts(s) \/ ServiceReady(s) \/ ReadWire(s) \/ PollJournal(s)
                \/ ServiceSettles(s) \/ ServiceDies(s)
    BY DEF ServiceMoves
  <1>2. UNCHANGED <<caller, lifecycle, runGeneration>>
    BY <1>1 DEF ServiceStarts, ServiceReady, ReadWire, PollJournal, ServiceSettles,
                ServiceDies
  <1>3. ASSUME NEW c \in Calls, Claim(s, c) PROVE Forward(control, control')
    BY <1>3, ForwardLeaves, CompactionForward
    DEF Claim, Claimable, Unclaimed, ControlsTypeOK
  <1>4. ASSUME ServiceSettles(s) PROVE Forward(control, control')
    BY <1>4, ForwardSettled, ForwardSame, CompactionForward
    DEF ServiceSettles, ControlsTypeOK, Service
  <1>5. Forward(control, control')
    BY <1>1, <1>3, <1>4, ForwardSame
    DEF ServiceStarts, ServiceReady, ReadWire, PollJournal, ServiceDies, ControlsTypeOK
  <1> QED
    BY <1>2, <1>5, LockForward DEF Holding

LEMMA LockRun ==
    ASSUME ControlsTypeOK, LockInv, RunnerEnds \/ PrepareStart \/ PublishStart
    PROVE  LockInv'
  <1>1. CASE RunnerEnds
    BY <1>1, ForwardSame, LockForward DEF RunnerEnds, Holding, ControlsTypeOK
  <1>2. CASE PrepareStart
    <2>1. \A c \in Calls : ~Holding(c) /\ ~Holding(c)'
      BY <1>2 DEF PrepareStart, LockInv, HoldersAlone, Holding
    <2>2. \A c \in Calls : control'[c].status = "absent"
      BY <1>2 DEF PrepareStart, Absent
    <2> QED
      BY <2>1, <2>2 DEF LockInv, HoldersAlone, StartEmptied, SentAreCurrent, Sent,
                        PendingControls, PendingStatuses
  <1>3. CASE PublishStart
    <2>1. \A c \in Calls : ~Holding(c) /\ ~Holding(c)'
      BY <1>3 DEF PublishStart, LockInv, HoldersAlone, Holding
    <2>2. lifecycle' = "free" /\ \A c \in Sent : control'[c].status = "absent"
      BY <1>3 DEF PublishStart, LockInv, StartEmptied
    <2> QED
      BY <2>1, <2>2 DEF LockInv, HoldersAlone, StartEmptied, SentAreCurrent, Sent,
                        PendingControls, PendingStatuses
  <1> QED
    BY <1>1, <1>2, <1>3

(* A Control sent under the lifecycle lock is pending only in the          *)
(* generation run.json names: checks, append, delivery and outcome on one  *)
(* side, the emptying of the journal and the new run.json on the other,    *)
(* exclude each other (async-runs.ts sendRunControl, startRun).            *)
THEOREM SentWithinGeneration == ControlsSpec => []SentAreCurrent
  <1>1. ControlsInit => TypeInv /\ LockInv
    BY TypeInitially
    DEF ControlsInit, LockInv, HoldersAlone, Holding, StartEmptied, SentAreCurrent,
        PendingControls, PendingStatuses, Absent
  <1>2. TypeInv /\ LockInv /\ [ControlsNext]_controlVars => (TypeInv /\ LockInv)'
    <2> SUFFICES ASSUME TypeInv, LockInv, [ControlsNext]_controlVars PROVE LockInv'
      BY TypeStep
    <2> ControlsTypeOK
      BY DEF TypeInv
    <2>1. CASE ControlsNext
      BY <2>1, LockCalls, LockServices, LockRun DEF ControlsNext
    <2>2. CASE UNCHANGED controlVars
      BY <2>2 DEF controlVars, LockInv, HoldersAlone, Holding, StartEmptied,
                  SentAreCurrent, PendingControls
    <2> QED
      BY <2>1, <2>2
  <1> QED
    BY <1>1, <1>2, PTL DEF ControlsSpec, LockInv
-----------------------------------------------------------------------------
(* The bounds of the journal.                                              *)

\* The sets the limits speak of are finite: only finitely many Controls have
\* been admitted, however many may be sent.
CapacityInv ==
    /\ IsFiniteSet(PendingControls(control))
    /\ IsFiniteSet(TerminalControls(control))
    /\ CapacityHeld

\* es is cs with another record for c.
OneRecord(cs, es, c) == \A d \in Calls \ {c} : es[d] = cs[d]

(* A compaction leaves no more terminal records than the limit, whatever   *)
(* it was given, and no pending record that was not there                  *)
(* (runs-controls.ts compactRunControls).                                  *)
LEMMA CompactionBounds ==
    ASSUME NEW es \in [Calls -> Record], NEW ds \in Compactions(es),
           IsFiniteSet(TerminalControls(es))
    PROVE  /\ PendingControls(ds) \subseteq PendingControls(es)
           /\ IsFiniteSet(TerminalControls(ds))
           /\ Cardinality(TerminalControls(ds)) <= TerminalLimit
  <1>1. PICK D \in SUBSET TerminalControls(es) :
            /\ ds = [c \in Calls |-> IF c \in D THEN Absent ELSE es[c]]
            /\ Cardinality(TerminalControls(es) \ D) =
                   IF Cardinality(TerminalControls(es)) <= TerminalLimit
                   THEN Cardinality(TerminalControls(es)) ELSE TerminalLimit
    BY DEF Compactions
  <1>2. Absent.status \notin PendingStatuses /\ Absent.status \notin TerminalStatuses
    BY DEF Absent, PendingStatuses, TerminalStatuses
  <1>3. \A c \in Calls : ds[c] = IF c \in D THEN Absent ELSE es[c]
    BY <1>1
  <1>4. PendingControls(ds) \subseteq PendingControls(es)
    BY <1>2, <1>3 DEF PendingControls
  <1>5. TerminalControls(ds) = TerminalControls(es) \ D
    BY <1>2, <1>3 DEF TerminalControls
  <1>6. IsFiniteSet(TerminalControls(es) \ D)
    BY FS_Subset
  <1>7. Cardinality(TerminalControls(es)) \in Nat /\ TerminalLimit \in Nat
    BY FS_CardinalityType, ControlsAssumption
  <1> QED
    BY <1>1, <1>4, <1>5, <1>6, <1>7

\* One record more can become terminal in an update.
LEMMA OneMoreTerminal ==
    ASSUME NEW cs \in [Calls -> Record], NEW es \in [Calls -> Record],
           NEW c \in Calls, OneRecord(cs, es, c), IsFiniteSet(TerminalControls(cs))
    PROVE  IsFiniteSet(TerminalControls(es))
  <1>1. TerminalControls(es) \subseteq TerminalControls(cs) \cup {c}
    BY DEF OneRecord, TerminalControls
  <1>2. IsFiniteSet(TerminalControls(cs) \cup {c})
    BY FS_AddElement
  <1> QED
    BY <1>1, <1>2, FS_Subset

\* What moves forward is not made pending.
LEMMA ForwardPending ==
    ASSUME NEW cs \in [Calls -> Record], NEW es \in [Calls -> Record], Forward(cs, es)
    PROVE  PendingControls(es) \subseteq PendingControls(cs)
  <1> SUFFICES ASSUME NEW c \in PendingControls(es) PROVE c \in PendingControls(cs)
    OBVIOUS
  <1>1. c \in Calls /\ ForwardRecord(cs[c], es[c])
    BY DEF PendingControls, Forward
  <1>2. Absent.status \notin PendingStatuses
    BY DEF Absent, PendingStatuses
  <1> QED
    BY <1>1, <1>2 DEF PendingControls, ForwardRecord

\* An update of a record that exists, and its compaction.
LEMMA CapacityForward ==
    ASSUME ControlsTypeOK, CapacityInv, NEW c \in Calls,
           NEW es \in [Calls -> Record], OneRecord(control, es, c),
           Forward(control, es),
           control' \in IF es = control THEN {control} ELSE Compactions(es)
    PROVE  CapacityInv'
  <1> control \in [Calls -> Record]
    BY DEF ControlsTypeOK
  <1>1. CASE es = control
    BY <1>1 DEF CapacityInv, CapacityHeld
  <1>2. CASE es # control
    <2>1. control' \in Compactions(es)
      BY <1>2
    <2>2. IsFiniteSet(TerminalControls(es))
      BY OneMoreTerminal DEF CapacityInv
    <2>3. /\ PendingControls(control') \subseteq PendingControls(es)
          /\ IsFiniteSet(TerminalControls(control'))
          /\ Cardinality(TerminalControls(control')) <= TerminalLimit
      BY <2>1, <2>2, CompactionBounds
    <2>4. PendingControls(control') \subseteq PendingControls(control)
      BY <2>3, ForwardPending
    <2>5. /\ IsFiniteSet(PendingControls(control'))
          /\ Cardinality(PendingControls(control')) <= Cardinality(PendingControls(control))
      BY <2>4, FS_Subset DEF CapacityInv
    <2>6. Cardinality(PendingControls(control')) <= PendingLimit
      BY <2>5, FS_CardinalityType, ControlsAssumption DEF CapacityInv, CapacityHeld
    <2> QED
      BY <2>3, <2>5, <2>6 DEF CapacityInv, CapacityHeld
  <1> QED
    BY <1>1, <1>2

LEMMA CapacityAppend ==
    ASSUME ControlsTypeOK, CapacityInv, NEW c \in Calls, AppendControl(c)
    PROVE  CapacityInv'
  <1>1. CASE ~Admissible(control, caller[c].generation)
    BY <1>1 DEF AppendControl, CapacityInv, CapacityHeld
  <1>2. CASE Admissible(control, caller[c].generation)
    <2> DEFINE appended == Admitted(control, c, caller[c].generation)
    <2>1. /\ control' \in Compactions(appended)
          /\ appended \in [Calls -> Record]
      BY <1>2 DEF AppendControl, Admitted, Record, ControlStatuses, PendingStatuses,
                  ControlsTypeOK, Caller
    <2>2. OneRecord(control, appended, c)
      BY DEF OneRecord, Admitted, ControlsTypeOK
    <2> HIDE DEF appended
    <2>3. IsFiniteSet(TerminalControls(appended))
      BY <2>1, <2>2, OneMoreTerminal DEF CapacityInv, ControlsTypeOK
    <2>4. /\ PendingControls(control') \subseteq PendingControls(appended)
          /\ IsFiniteSet(TerminalControls(control'))
          /\ Cardinality(TerminalControls(control')) <= TerminalLimit
      BY <2>1, <2>3, CompactionBounds
    <2>5. PendingControls(control') \subseteq PendingControls(control) \cup {c}
      BY <2>2, <2>4 DEF OneRecord, PendingControls
    <2>6. /\ IsFiniteSet(PendingControls(control) \cup {c})
          /\ Cardinality(PendingControls(control) \cup {c}) <=
                 Cardinality(PendingControls(control)) + 1
      BY FS_AddElement, FS_CardinalityType DEF CapacityInv
    <2>7. /\ IsFiniteSet(PendingControls(control'))
          /\ Cardinality(PendingControls(control')) <=
                 Cardinality(PendingControls(control) \cup {c})
      BY <2>5, <2>6, FS_Subset
    <2>8. Cardinality(PendingControls(control')) <= PendingLimit
      BY <1>2, <2>6, <2>7, FS_CardinalityType, ControlsAssumption
      DEF Admissible, CapacityInv
    <2> QED
      BY <2>4, <2>7, <2>8 DEF CapacityInv, CapacityHeld
  <1> QED
    BY <1>1, <1>2

LEMMA CapacityCalls ==
    ASSUME ControlsTypeOK, CapacityInv, CallMoves
    PROVE  CapacityInv'
  <1>1. PICK c \in Calls :
            Ask(c) \/ Enter(c) \/ ReadRun(c) \/ AppendControl(c) \/ FindEndpoint(c)
                \/ WriteWire(c) \/ RecordDelivered(c) \/ RecordFailed(c) \/ CallerDies(c)
    BY DEF CallMoves
  <1> control \in [Calls -> Record]
    BY DEF ControlsTypeOK
  <1>2. CASE AppendControl(c)
    BY <1>2, CapacityAppend
  <1>3. CASE UNCHANGED control
    BY <1>3 DEF CapacityInv, CapacityHeld
  <1>4. CASE RecordDelivered(c)
    <2>1. OneRecord(control, MarkDelivered(control, c), c)
      BY DEF OneRecord, MarkDelivered
    <2>2. CASE control' \in IF MarkDelivered(control, c) = control THEN {control}
                            ELSE Compactions(MarkDelivered(control, c))
      BY <2>1, <2>2, ForwardMark, CapacityForward
    <2> QED
      BY <1>3, <1>4, <2>2 DEF RecordDelivered
  <1>5. CASE RecordFailed(c)
    <2> DEFINE failed == [control EXCEPT ![c].status = "failed"]
    <2>1. CASE Refusable(control, c)
      <3>1. /\ failed \in [Calls -> Record] /\ Forward(control, failed)
            /\ OneRecord(control, failed, c)
        BY <2>1, ForwardLeaves DEF Refusable, Unclaimed, OneRecord
      <3>2. failed # control
        BY <2>1 DEF Refusable, Record
      <3>3. control' \in Compactions(failed)
        BY <1>5, <2>1 DEF RecordFailed
      <3> HIDE DEF failed
      <3> QED
        BY <3>1, <3>2, <3>3, CapacityForward
    <2>2. CASE ~Refusable(control, c)
      BY <1>3, <1>5, <2>2 DEF RecordFailed
    <2> QED
      BY <2>1, <2>2
  <1> QED
    BY <1>1, <1>2, <1>3, <1>4, <1>5
    DEF Ask, Enter, ReadRun, FindEndpoint, WriteWire, CallerDies

LEMMA CapacityServices ==
    ASSUME ControlsTypeOK, CapacityInv, ServiceMoves
    PROVE  CapacityInv'
  <1>1. PICK s \in Services :
            ServiceStarts(s) \/ ServiceReady(s) \/ ReadWire(s) \/ PollJournal(s)
                \/ ServiceSettles(s) \/ ServiceDies(s)
    BY DEF ServiceMoves
  <1> control \in [Calls -> Record] /\ wire \subseteq Calls
    BY DEF ControlsTypeOK
  <1>2. CASE UNCHANGED control
    BY <1>2 DEF CapacityInv, CapacityHeld
  <1>3. ASSUME NEW c \in Calls, Claim(s, c) PROVE CapacityInv'
    <2> DEFINE claimed == [control EXCEPT ![c].status = "claimed"]
    <2>1. /\ claimed \in [Calls -> Record] /\ Forward(control, claimed)
          /\ OneRecord(control, claimed, c)
      BY <1>3, ForwardLeaves DEF Claim, Claimable, Unclaimed, OneRecord
    <2>2. claimed # control
      BY <1>3 DEF Claim, Claimable, Record
    <2>3. control' \in Compactions(claimed)
      BY <1>3 DEF Claim
    <2> HIDE DEF claimed
    <2> QED
      BY <2>1, <2>2, <2>3, CapacityForward
  <1>4. CASE ServiceSettles(s)
    <2> DEFINE c == service[s].doing
    <2>1. c \in Calls
      BY <1>4 DEF ServiceSettles, ControlsTypeOK, Service
    <2>2. PICK outcome \in TerminalStatuses :
              control' \in IF Settled(control, c, outcome) = control THEN {control}
                           ELSE Compactions(Settled(control, c, outcome))
      BY <1>4 DEF ServiceSettles
    <2> HIDE DEF c
    <2>3. OneRecord(control, Settled(control, c, outcome), c)
      BY <2>1 DEF OneRecord, Settled
    <2> QED
      BY <2>1, <2>2, <2>3, ForwardSettled, CapacityForward
  <1> QED
    BY <1>1, <1>2, <1>3, <1>4
    DEF ServiceStarts, ServiceReady, ReadWire, PollJournal, ServiceDies

(* Whatever appends, claims, settles, fails or restarts, the journal never *)
(* holds more pending Controls than RUN_CONTROL_PENDING_LIMIT nor more     *)
(* settled ones than RUN_CONTROL_TERMINAL_LIMIT (runs-controls.ts          *)
(* decideRunControlAdmission, compactRunControls), for any number of       *)
(* senders, an infinite one included.                                      *)
THEOREM CapacityAlwaysHeld == ControlsSpec => []CapacityHeld
  <1>1. ControlsInit => TypeInv /\ CapacityInv
    <2> SUFFICES ASSUME ControlsInit PROVE CapacityInv
      BY TypeInitially
    <2>1. PendingControls(control) = {} /\ TerminalControls(control) = {}
      BY DEF ControlsInit, PendingControls, TerminalControls, Absent,
             PendingStatuses, TerminalStatuses
    <2> QED
      BY <2>1, FS_EmptySet, ControlsAssumption DEF CapacityInv, CapacityHeld
  <1>2. TypeInv /\ CapacityInv /\ [ControlsNext]_controlVars => (TypeInv /\ CapacityInv)'
    <2> SUFFICES ASSUME TypeInv, CapacityInv, [ControlsNext]_controlVars
                 PROVE  CapacityInv'
      BY TypeStep
    <2> ControlsTypeOK
      BY DEF TypeInv
    <2>1. CASE PrepareStart
      <3>1. PendingControls(control') = {} /\ TerminalControls(control') = {}
        BY <2>1 DEF PrepareStart, PendingControls, TerminalControls, Absent,
               PendingStatuses, TerminalStatuses
      <3> QED
        BY <3>1, FS_EmptySet, ControlsAssumption DEF CapacityInv, CapacityHeld
    <2>2. CASE UNCHANGED control
      BY <2>2 DEF CapacityInv, CapacityHeld
    <2> QED
      BY <2>1, <2>2, CapacityCalls, CapacityServices
      DEF ControlsNext, controlVars, RunnerEnds, PublishStart
  <1> QED
    BY <1>1, <1>2, PTL DEF ControlsSpec, CapacityInv
=============================================================================
