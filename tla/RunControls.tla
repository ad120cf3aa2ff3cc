----------------------------- MODULE RunControls -----------------------------
(***************************************************************************)
(* Actor Controls: durable requests to the service a Run carries.  One     *)
(* controls.jsonl per state directory, its admissions and transitions      *)
(* under the journal's file lock (lib/runs-controls.ts); the sender, which *)
(* holds the Run's lifecycle lock from the checks to the recorded outcome  *)
(* (lib/async-runs.ts, lib/runs-control-delivery.ts); the services, which  *)
(* claim what the endpoint or the journal brings them                      *)
(* (skills/actors, skills/music-player); and the restart of the directory. *)
(*                                                                         *)
(* Every journal operation is one locked read and one atomic replacement,  *)
(* so it is one step here.  The order of the records is left open: a poll  *)
(* may claim any record and a compaction may drop any surplus terminal one *)
(* where the code takes the first.                                         *)
(***************************************************************************)
EXTENDS Naturals, FiniteSets

CONSTANTS
    Calls,          \* attempts to send a Control; each makes its own id
    LocalCalls,     \* those made by a service's own command line
    NoCall,         \* not a call
    Services,       \* service processes
    Polls,          \* services also claim from the journal without a message
    PendingLimit,   \* RUN_CONTROL_PENDING_LIMIT
    TerminalLimit,  \* RUN_CONTROL_TERMINAL_LIMIT
    MaxGeneration   \* bound on the starts in the directory

ASSUME ControlsAssumption ==
    /\ LocalCalls \subseteq Calls
    /\ NoCall \notin Calls
    /\ Polls \in BOOLEAN
    /\ PendingLimit \in Nat
    /\ TerminalLimit \in Nat
    /\ MaxGeneration \in Nat

VARIABLES
    control,        \* controls.jsonl, by id
    runGeneration,  \* run_instance_id in run.json, 0 before the first start
    running,        \* buildRunStatus says running
    endpoint,       \* generation control-endpoint.json names, 0 without one
    lifecycle,      \* holder of the lifecycle lock: "free", "start" or "send"
    wire,           \* messages in the FIFO or pipe; its path outlives a restart
    caller,         \* the sender of each Control
    service,        \* the service processes
    executed,       \* history: <<Control, generation of the service>> handled
    repeated,       \* history: Controls whose handler started a second time
    refused         \* history: Controls a sender recorded as failed

controlVars == <<control, runGeneration, running, endpoint, lifecycle, wire,
                 caller, service, executed, repeated, refused>>

Generations == 0 .. MaxGeneration

PendingStatuses == {"queued", "delivered", "claimed"}
TerminalStatuses == {"handled", "failed"}
ControlStatuses == PendingStatuses \cup TerminalStatuses

\* stamped: the record has a delivered_at.
Record == [status : ControlStatuses \cup {"absent"}, generation : Generations,
           stamped : BOOLEAN]

Absent == [status |-> "absent", generation |-> 0, stamped |-> FALSE]

Steps == {"idle", "asked", "append", "endpoint", "write", "written", "failing", "done"}

Caller == [pc : Steps, generation : Generations]

\* A service knows the generation it started in; it is not up, up, ready once
\* it has published its endpoint, or busy with a Control.
Service == [up : BOOLEAN, ready : BOOLEAN, generation : Generations,
            doing : Calls \cup {NoCall}]

Down == [up |-> FALSE, ready |-> FALSE, generation |-> 0, doing |-> NoCall]

ControlsTypeOK ==
    /\ control \in [Calls -> Record]
    /\ runGeneration \in Generations
    /\ running \in BOOLEAN
    /\ endpoint \in Generations
    /\ lifecycle \in {"free", "start", "send"}
    /\ wire \in SUBSET Calls
    /\ caller \in [Calls -> Caller]
    /\ service \in [Services -> Service]
    /\ executed \in SUBSET (Calls \X Generations)
    /\ repeated \in SUBSET Calls
    /\ refused \in SUBSET Calls

ControlsInit ==
    /\ control = [c \in Calls |-> Absent]
    /\ runGeneration = 0
    /\ running = FALSE
    /\ endpoint = 0
    /\ lifecycle = "free"
    /\ wire = {}
    /\ caller = [c \in Calls |-> [pc |-> "idle", generation |-> 0]]
    /\ service = [s \in Services |-> Down]
    /\ executed = {} /\ repeated = {} /\ refused = {}

-----------------------------------------------------------------------------
(* The journal.                                                            *)

PendingControls(cs) == {c \in Calls : cs[c].status \in PendingStatuses}
TerminalControls(cs) == {c \in Calls : cs[c].status \in TerminalStatuses}

\* controlIntegrity of every record, as an operation of generation g sees it.
Consistent(cs, g) == \A c \in PendingControls(cs) : cs[c].generation = g

\* compactRunControls: every active record, a bounded tail of terminal ones.
Compactions(cs) ==
    {[c \in Calls |-> IF c \in dropped THEN Absent ELSE cs[c]] :
        dropped \in {D \in SUBSET TerminalControls(cs) :
                        Cardinality(TerminalControls(cs) \ D) =
                            IF Cardinality(TerminalControls(cs)) <= TerminalLimit
                            THEN Cardinality(TerminalControls(cs))
                            ELSE TerminalLimit}}

\* Mutant: the limit is passed by one.
AdmissibleOver(cs, g) ==
    Consistent(cs, g) /\ Cardinality(PendingControls(cs)) <= PendingLimit

\* decideRunControlAdmission.
Admissible(cs, g) ==
    Consistent(cs, g) /\ Cardinality(PendingControls(cs)) < PendingLimit

Admitted(cs, c, g) ==
    [cs EXCEPT ![c] = [status |-> "queued", generation |-> g, stamped |-> FALSE]]

\* updateRunControlStatusInStateDir and the update of claimRunControl change
\* nothing in a journal that is inconsistent or without the record.
Touchable(cs, c) ==
    cs[c].status # "absent" /\ Consistent(cs, cs[c].generation)

\* Mutant: the mark moves the record back whatever became of it.
MarkDeliveredAlways(cs, c) ==
    IF Touchable(cs, c) /\ ~cs[c].stamped
    THEN [cs EXCEPT ![c].stamped = TRUE, ![c].status = "delivered"]
    ELSE cs

\* Late evidence of a delivery is kept, the status of a record that went on is.
MarkDelivered(cs, c) ==
    IF Touchable(cs, c) /\ ~cs[c].stamped /\ cs[c].status # "delivered"
    THEN [cs EXCEPT ![c].stamped = TRUE,
                    ![c].status = IF @ = "queued" THEN "delivered" ELSE @]
    ELSE cs

\* Mutant: the sender may fail what a service has claimed.
RefusableClaimed(cs, c) ==
    Touchable(cs, c) /\ cs[c].status \in PendingStatuses

\* The sender fails only what no service has claimed.
Refusable(cs, c) ==
    Touchable(cs, c) /\ cs[c].status \in {"queued", "delivered"}

Settled(cs, c, outcome) ==
    IF Touchable(cs, c) /\ cs[c].status = "claimed"
    THEN [cs EXCEPT ![c].status = outcome] ELSE cs

\* Mutant: the generation of the record is not compared.
ClaimableAnyGeneration(cs, c, g) == cs[c].status \in {"queued", "delivered"}

\* claimRunControl, fenced by the generation of the service.
Claimable(cs, c, g) ==
    /\ cs[c].status \in {"queued", "delivered"}
    /\ cs[c].generation = g
    /\ Consistent(cs, g)

-----------------------------------------------------------------------------
(* Sending: sendRunControl around deliverRunControl.                       *)

Moves(c, label) == caller' = [caller EXCEPT ![c].pc = label]

\* The sender returns or throws, and lets the lock go if it holds it.
Returns(c) ==
    /\ Moves(c, "done")
    /\ lifecycle' = IF c \in LocalCalls \/ caller[c].pc \in {"idle", "asked"}
                    THEN lifecycle ELSE "free"

\* What a caller knows of the Run may be old when it gets the lock.  A command
\* line goes on only if the service looks available.
Ask(c) ==
    /\ caller[c].pc = "idle" /\ runGeneration # 0
    /\ c \in LocalCalls => running /\ endpoint = runGeneration
    /\ caller' = [caller EXCEPT ![c] = [pc |-> "asked", generation |-> runGeneration]]
    /\ UNCHANGED <<control, runGeneration, running, endpoint, lifecycle, wire,
                   service, executed, repeated, refused>>

Enter(c) ==
    /\ c \notin LocalCalls
    /\ caller[c].pc = "asked" /\ lifecycle = "free"
    /\ \/ /\ caller[c].generation = runGeneration /\ running
          /\ lifecycle' = "send" /\ Moves(c, "append")
       \/ /\ caller[c].generation # runGeneration \/ ~running
          /\ Returns(c)
    /\ UNCHANGED <<control, runGeneration, running, endpoint, wire, service,
                   executed, repeated, refused>>

\* A command line takes no lifecycle lock: it reads run.json once more.
ReadRun(c) ==
    /\ c \in LocalCalls /\ caller[c].pc = "asked"
    /\ caller' = [caller EXCEPT ![c] = [pc |-> "append", generation |-> runGeneration]]
    /\ UNCHANGED <<control, runGeneration, running, endpoint, lifecycle, wire,
                   service, executed, repeated, refused>>

\* A command line only appends.
AppendControl(c) ==
    /\ caller[c].pc = "append"
    /\ \/ /\ Admissible(control, caller[c].generation)
          /\ control' \in Compactions(Admitted(control, c, caller[c].generation))
          /\ IF c \in LocalCalls THEN Returns(c)
             ELSE Moves(c, "endpoint") /\ UNCHANGED lifecycle
       \/ /\ ~Admissible(control, caller[c].generation)
          /\ Returns(c) /\ UNCHANGED control
    /\ UNCHANGED <<runGeneration, running, endpoint, wire, service, executed,
                   repeated, refused>>

FindEndpoint(c) ==
    /\ caller[c].pc = "endpoint"
    /\ Moves(c, IF endpoint = caller[c].generation THEN "write" ELSE "failing")
    /\ UNCHANGED <<control, runGeneration, running, endpoint, lifecycle, wire,
                   service, executed, repeated, refused>>

\* A write needs a reader; a pipe may time out after it took the message.
WriteWire(c) ==
    /\ caller[c].pc = "write"
    /\ \/ /\ \E s \in Services : service[s].up
          /\ wire' = wire \cup {c}
          /\ \E label \in {"written", "failing"} : Moves(c, label)
       \/ /\ Moves(c, "failing") /\ UNCHANGED wire
    /\ UNCHANGED <<control, runGeneration, running, endpoint, lifecycle,
                   service, executed, repeated, refused>>

\* The journal's lock may not be free in time.
RecordDelivered(c) ==
    /\ caller[c].pc = "written"
    /\ \/ /\ control' \in IF MarkDelivered(control, c) = control THEN {control}
                          ELSE Compactions(MarkDelivered(control, c))
          /\ Returns(c)
       \/ /\ Moves(c, "failing") /\ UNCHANGED <<control, lifecycle>>
    /\ UNCHANGED <<runGeneration, running, endpoint, wire, service, executed,
                   repeated, refused>>

RecordFailed(c) ==
    /\ caller[c].pc = "failing"
    /\ \/ /\ Refusable(control, c)
          /\ control' \in Compactions([control EXCEPT ![c].status = "failed"])
          /\ refused' = refused \cup {c}
       \/ /\ ~Refusable(control, c)
          /\ UNCHANGED <<control, refused>>
    /\ Returns(c)
    /\ UNCHANGED <<runGeneration, running, endpoint, wire, service, executed, repeated>>

\* The sending process dies; its lock is reclaimed.
CallerDies(c) ==
    /\ caller[c].pc \notin {"idle", "done"}
    /\ Returns(c)
    /\ UNCHANGED <<control, runGeneration, running, endpoint, wire, service,
                   executed, repeated, refused>>

-----------------------------------------------------------------------------
(* The Run: its runner ends, and the directory is started again.           *)

RunnerEnds ==
    /\ running
    /\ running' = FALSE
    /\ UNCHANGED <<control, runGeneration, endpoint, lifecycle, wire, caller,
                   service, executed, repeated, refused>>

\* Mutant: the journal of the last generation stays.
PrepareStartKeeping ==
    /\ lifecycle = "free" /\ ~running /\ runGeneration < MaxGeneration
    /\ lifecycle' = "start"
    /\ endpoint' = 0
    /\ UNCHANGED <<control, runGeneration, running, wire, caller, service,
                   executed, repeated, refused>>

\* prepareStateDirForStart: run.json still names the last generation.
PrepareStart ==
    /\ lifecycle = "free" /\ ~running /\ runGeneration < MaxGeneration
    /\ lifecycle' = "start"
    /\ control' = [c \in Calls |-> Absent]
    /\ endpoint' = 0
    /\ UNCHANGED <<runGeneration, running, wire, caller, service, executed,
                   repeated, refused>>

PublishStart ==
    /\ lifecycle = "start"
    /\ lifecycle' = "free"
    /\ \/ runGeneration' = runGeneration + 1 /\ running' = TRUE
       \/ UNCHANGED <<runGeneration, running>>      \* the starter died
    /\ UNCHANGED <<control, endpoint, wire, caller, service, executed, repeated, refused>>

-----------------------------------------------------------------------------
(* The services.                                                           *)

\* Started by a runner; the runner may be gone, and the directory started
\* again, before the service reads run.json.
ServiceStarts(s) ==
    /\ ~service[s].up /\ runGeneration # 0
    /\ service' = [service EXCEPT ![s] =
            [Down EXCEPT !.up = TRUE, !.generation = runGeneration]]
    /\ UNCHANGED <<control, runGeneration, running, endpoint, lifecycle, wire,
                   caller, executed, repeated, refused>>

ServiceReady(s) ==
    /\ service[s].up /\ ~service[s].ready
    /\ service' = [service EXCEPT ![s].ready = TRUE]
    /\ endpoint' = service[s].generation
    /\ UNCHANGED <<control, runGeneration, running, lifecycle, wire, caller,
                   executed, repeated, refused>>

Idle(s) == service[s].ready /\ service[s].doing = NoCall

\* A claim that succeeds starts the handler.
Claim(s, c) ==
    /\ Claimable(control, c, service[s].generation)
    /\ control' \in Compactions([control EXCEPT ![c].status = "claimed"])
    /\ service' = [service EXCEPT ![s].doing = c]
    /\ executed' = executed \cup {<<c, service[s].generation>>}
    /\ repeated' = IF \E g \in Generations : <<c, g>> \in executed
                   THEN repeated \cup {c} ELSE repeated

\* A message whose record is gone, claimed, settled or of another generation
\* is dropped.
ReadWire(s) ==
    /\ Idle(s)
    /\ \E c \in wire :
           /\ wire' = wire \ {c}
           /\ \/ Claim(s, c)
              \/ /\ ~Claimable(control, c, service[s].generation)
                 /\ UNCHANGED <<control, service, executed, repeated>>
    /\ UNCHANGED <<runGeneration, running, endpoint, lifecycle, caller, refused>>

PollJournal(s) ==
    /\ Polls /\ Idle(s)
    /\ \E c \in Calls : Claim(s, c)
    /\ UNCHANGED <<runGeneration, running, endpoint, lifecycle, wire, caller, refused>>

\* The handler returns or throws.
ServiceSettles(s) ==
    LET c == service[s].doing
    IN  /\ c # NoCall
        /\ \E outcome \in TerminalStatuses :
               control' \in IF Settled(control, c, outcome) = control THEN {control}
                            ELSE Compactions(Settled(control, c, outcome))
        /\ service' = [service EXCEPT ![s].doing = NoCall]
        /\ UNCHANGED <<runGeneration, running, endpoint, lifecycle, wire, caller,
                       executed, repeated, refused>>

\* Unread messages go with the last reader.  A service that closes takes the
\* endpoint file away, whoever wrote it.
ServiceDies(s) ==
    /\ service[s].up
    /\ service' = [service EXCEPT ![s] = Down]
    /\ wire' = IF \E t \in Services \ {s} : service[t].up THEN wire ELSE {}
    /\ endpoint' \in {endpoint, 0}
    /\ UNCHANGED <<control, runGeneration, running, lifecycle, caller,
                   executed, repeated, refused>>

-----------------------------------------------------------------------------
CallMoves ==
    \E c \in Calls :
        \/ Ask(c) \/ Enter(c) \/ ReadRun(c) \/ AppendControl(c) \/ FindEndpoint(c)
        \/ WriteWire(c) \/ RecordDelivered(c) \/ RecordFailed(c) \/ CallerDies(c)

ServiceMoves ==
    \E s \in Services :
        \/ ServiceStarts(s) \/ ServiceReady(s) \/ ReadWire(s) \/ PollJournal(s)
        \/ ServiceSettles(s) \/ ServiceDies(s)

ControlsNext ==
    CallMoves \/ ServiceMoves \/ RunnerEnds \/ PrepareStart \/ PublishStart

ControlsSpec == ControlsInit /\ [][ControlsNext]_controlVars

-----------------------------------------------------------------------------
(* Properties.                                                             *)

(* No Control is handled twice, however its message, the poll of a second  *)
(* consumer, a late delivery mark, a failed send and a restart are ordered.*)
ExecutedOnce == repeated = {}

(* No service handles a Control of another generation: not one left over   *)
(* by a restart, and not one that reaches a service that outlived its Run. *)
NoStaleExecution == \A x \in executed : x[2] = caller[x[1]].generation

(* A Control whose delivery was recorded as failed is never handled, even  *)
(* if the endpoint took its message before the sender gave up.             *)
RefusedNeverRuns == \A x \in executed : x[1] \notin refused

(* Admission never lets more Controls be pending than the limit, whoever   *)
(* else appends, and no update leaves more settled ones than their tail.   *)
CapacityHeld ==
    /\ Cardinality(PendingControls(control)) <= PendingLimit
    /\ Cardinality(TerminalControls(control)) <= TerminalLimit

(* A Control sent under the lifecycle lock never outlives its generation   *)
(* as a pending record, however its sender, its service and the next start *)
(* are interrupted.                                                        *)
SentAreCurrent ==
    \A c \in PendingControls(control) \ LocalCalls :
        control[c].generation = runGeneration
=============================================================================
