----------------------------- MODULE RunDelivery -----------------------------
(***************************************************************************)
(* Coordinator delivery: how terminal Runs and urgent steers reach the     *)
(* model of the session that owns them.  The module composes               *)
(*   - the durable Run directories              (RunGenerations),          *)
(*   - the durable delivery journal             (DeliveryJournal),         *)
(*   - the event handlers of lib/run-ui-runtime.ts and the ordering of     *)
(*     lib/extension-runtime.ts, over lib/observability.ts and lib/pi.ts,  *)
(*   - the Pi host that runs the extension (external: its queue of         *)
(*     accepted messages dies with the process, its session file does not).*)
(*                                                                         *)
(* Every handler is synchronous JavaScript, so no host event and no other  *)
(* handler interleaves with one.  What does interleave, between any two of *)
(* a handler's durable writes, is the other processes - runners, nested    *)
(* actors, stops - and a crash.  A handler is therefore a sequence of      *)
(* steps, one per durable write or message, driven by co.pc.               *)
(***************************************************************************)
EXTENDS RunGenerations

CONSTANTS
    BatchMax, SteerMax, ReceiptLimit,   \* the journal's limits
    UnknownEvidence,    \* session evidence may be inconclusive
    SyncReads,          \* no other process moves while a collection reads the Runs
    Animation,          \* the status animation ticks
    MaxCrashes,         \* bound on crashes of the host process
    MaxReloads,         \* bound on session restarts inside a live host
    MaxFailures         \* bound on sendMessage failures

ASSUME DeliveryAssumption ==
    /\ BatchMax \in Nat \ {0} /\ SteerMax \in Nat /\ ReceiptLimit \in Nat \ {0}
    /\ UnknownEvidence \in BOOLEAN /\ SyncReads \in BOOLEAN /\ Animation \in BOOLEAN
    /\ MaxCrashes \in Nat /\ MaxReloads \in Nat /\ MaxFailures \in Nat

VARIABLES
    journal,    \* projection.json of the owner
    lastId,     \* batch ids issued (randomUUID): 1, 2, ...
    host,       \* the Pi host
    co,         \* the coordinator's memory, lost with the process
    taken,      \* history: <<batch id, member>> pairs Pi accepted
    acked,      \* history: members marked terminal-handled by delivery
    resent,     \* history: batches given to Pi while Pi already had them
    shown,      \* history: steers presented in the model's context
    budget      \* crashes, reloads and failures left

\* The journal's operators, and the machine this module implements.
INSTANCE DeliveryJournalMachine WITH Members <- Member, Steers <- Steer

ghosts == <<taken, acked, resent, shown>>
vars == <<runVars, journal, lastId, host, co, ghosts, budget>>

-----------------------------------------------------------------------------
(* The Pi host.  A message in queue was accepted by sendMessage but is not *)
(* yet a session entry; proposal is a turn_end entry not yet committed.    *)
(* A message is known by the delivery it carries.                          *)

Nothing == <<>>

HostInit == [up |-> FALSE, busy |-> FALSE, queue |-> {}, session |-> {},
             proposal |-> Nothing]

SessionSteers == {s \in Steer : SteerDelivery(s) \in host.session}

WithPi(d) == d \in host.queue \cup host.session \/ host.proposal = d

\* Mutant: the session is not looked at.
EvidenceBlind(d) == {"absent"}

\* inspectBoundedActiveSessionEntries: exact unless it runs into a bound.
Evidence(d) ==
    {IF d \in host.session THEN "present" ELSE "absent"}
        \cup IF UnknownEvidence THEN {"unknown"} ELSE {}

-----------------------------------------------------------------------------
(* The coordinator's memory.  fn is the handler that runs, pc its next     *)
(* step, back where a shared sub-procedure returns to.                     *)

Handlers == {"none", "start", "update", "timer", "settled", "turnEnd", "context",
             "shutdown"}

\* What was read of one directory; before it is derived, status is the result.
Unread == [present |-> FALSE, generation |-> 0, parentGeneration |-> 0,
           pid |-> FALSE, status |-> "none", handled |-> FALSE]

UnreadView == [r \in Runs |-> Unread]

Closed == [open |-> FALSE, armed |-> FALSE, recover |-> FALSE, seen |-> {},
           fn |-> "none", pc |-> "idle", back |-> "idle", todo |-> {},
           cur |-> Nothing, unacked |-> {}, unread |-> {},
           view |-> UnreadView, want |-> FALSE]

\* The handler returns: its locals are gone.
Idle(c) == [Closed EXCEPT !.open = c.open, !.armed = c.armed,
                          !.recover = c.recover, !.seen = c.seen]

\* close(): timers and flags go, the observation state stays.
Shut(c) == [Closed EXCEPT !.seen = c.seen]

\* An exception leaves the handler.  In start and in a timer callback it closes
\* the runtime; out of a host event it only reaches the host.
Abort(c) == IF c.fn \in {"start", "update", "timer"} THEN Shut(c) ELSE Idle(c)

Goto(c, label) == IF label = "idle" THEN Idle(c) ELSE [c EXCEPT !.pc = label]

At(label) == co.pc = label

\* Frame of a step that only moves the coordinator.
Coordinator(c) ==
    /\ co' = c
    /\ UNCHANGED <<runVars, journal, lastId, host, ghosts, budget>>

\* Frame of a step that replaces the journal.
Writes(j, c) ==
    /\ journal' = j /\ co' = c
    /\ UNCHANGED <<runVars, lastId, host, ghosts, budget>>

\* A call throws: sendMessage, or a lifecycle lock that is not free in time.
Fails(c) ==
    /\ budget.failures > 0
    /\ budget' = [budget EXCEPT !.failures = @ - 1]
    /\ co' = c
    /\ UNCHANGED <<runVars, journal, lastId, host, ghosts>>

Init ==
    /\ RunsInit
    /\ journal = EmptyJournal
    /\ lastId = 0
    /\ host = HostInit
    /\ co = Closed
    /\ taken = {} /\ acked = {} /\ resent = {} /\ shown = {}
    /\ budget = [crashes |-> MaxCrashes, reloads |-> MaxReloads,
                 failures |-> MaxFailures]

-----------------------------------------------------------------------------
(* Starting a handler.                                                     *)

\* A stop of an owned Run occupies the coordinator's process to its end.
OwnStopping == \E r \in Runs : Parent[r] = NoRun /\ stopping[r] # "none"

Free == host.up /\ co.fn = "none" /\ ~OwnStopping

Enter(c, handler, label) ==
    [c EXCEPT !.fn = handler, !.pc = label, !.todo = ActiveSteers(journal)]

\* Mutant: queued steers are taken for delivered after a restart.
StartedTrusting(c) ==
    Enter([Shut(c) EXCEPT !.open = TRUE], "start", "recoverBatch")

Started(c) ==
    Enter([Shut(c) EXCEPT !.open = TRUE, !.recover = TRUE],
          "start", "recoverBatch")

\* A new host process opens the session.
Launch ==
    /\ ~host.up
    /\ host' = [host EXCEPT !.up = TRUE]
    /\ co' = Started(co)
    /\ UNCHANGED <<runVars, journal, lastId, ghosts, budget>>

OwnRunning == {r \in Runs : Parent[r] = NoRun /\ present[r] /\ Status(r) = "running"}

\* The user ends the session of a live, quiet host, to open it again:
\* onSessionShutdown closes the runtime and kills the Runs the session owns.
Reload ==
    /\ Free /\ ~host.busy /\ host.proposal = Nothing
    /\ budget.reloads > 0
    /\ budget' = [budget EXCEPT !.reloads = @ - 1]
    /\ co' = [Shut(co) EXCEPT !.fn = "shutdown", !.pc = "teardown", !.unread = OwnRunning]
    /\ UNCHANGED <<runVars, journal, lastId, host, ghosts>>

\* teardownParentRuns: one kill after the other, each revalidated; one that is
\* not running any more is skipped.
TeardownOne(r) ==
    LET rest == [co EXCEPT !.unread = @ \ {r}]
    IN  \/ /\ StopSignal(r, "killed")
           /\ co' = rest
           /\ UNCHANGED <<journal, lastId, host, ghosts, budget>>
        \/ Status(r) # "running" /\ Coordinator(rest)

\* The session opens again, in the same extension instance or in a new one.
Teardown ==
    /\ At("teardown") /\ ~OwnStopping
    /\ \/ \E r \in co.unread : TeardownOne(r)
       \/ /\ co.unread = {}
          /\ \E memory \in {co, Closed} : Coordinator(Started(memory))

\* The watcher or the reconciliation loop calls update.
Update ==
    /\ Free /\ co.open
    /\ Coordinator(Enter(co, "update", "observe"))

\* scheduleCompletionFlush: the debounced timer fires.
TimerFlush ==
    /\ Free /\ co.open /\ co.armed
    /\ Coordinator(Enter([co EXCEPT !.armed = FALSE], "timer", "flush"))

-----------------------------------------------------------------------------
(* start(): finish what an earlier process presented.                      *)

Acknowledge(c, next) ==
    [c EXCEPT !.pc = "ack", !.unacked = journal.batch.members, !.back = next]

RecoverBatch ==
    /\ At("recoverBatch")
    /\ Coordinator(IF journal.batch.phase = "presented"
                   THEN Acknowledge(co, "recoverSteers")
                   ELSE Goto(co, "recoverSteers"))

FinishSteer(c, s, next) ==
    [c EXCEPT !.pc = "mark", !.cur = s, !.back = next, !.todo = @ \ {s}]

RecoverSteers ==
    LET presented == {s \in co.todo : journal.steers[s] = "presented"}
    IN  /\ At("recoverSteers")
        /\ \/ presented = {} /\ Coordinator(Goto(co, "observe"))
           \/ \E s \in presented :
                  Coordinator(FinishSteer(co, s, "recoverSteers"))

\* markRunSteerPresentationHandled, under the lifecycle lock of the Run.
MarkSteer ==
    LET s == co.cur
    IN  /\ At("mark")
        /\ \/ /\ stopping[s.run] = "none"
              /\ trace' = IF present[s.run] /\ generation[s.run] = s.generation
                          THEN AppendTrace(s.run, [kind |-> "presented", event |-> s.event])
                          ELSE trace
              /\ co' = Goto(co, "finish")
              /\ UNCHANGED <<generation, present, process, result, cut, handled,
                             stopping, parentGeneration, published,
                             journal, lastId, host, ghosts, budget>>
           \/ Fails(Abort(co))

FinalizeSteerStep ==
    /\ At("finish")
    /\ Writes(FinalizeSteer(journal, co.cur), Goto(co, co.back))

-----------------------------------------------------------------------------
(* update(): look at the Runs, admit new urgent events, arm the timer.     *)

\* Urgent events this owner is told about: those of its own, audible Runs.
RetainedSteers ==
    {s \in Steer : /\ present[s.run] /\ generation[s.run] = s.generation
                   /\ Parent[s.run] = NoRun /\ s.run \notin Silent
                   /\ InTrace(s.run, "steer", s.event)}

\* Mutant: the markers in the Trace are not looked at.
MarkedSteersIgnored == {}

MarkedSteers == {s \in RetainedSteers : InTrace(s.run, "presented", s.event)}

Observe ==
    /\ At("observe")
    /\ Coordinator([co EXCEPT
           !.pc = "admit",
           !.seen = RetainedSteers,
           !.todo = RetainedSteers \ (co.seen \cup MarkedSteers),
           !.want = journal.batch # NoBatch \/ Candidates(CurrentView) # {}])

\* The animation interval calls update without notify: the urgent events it is
\* the first to read are seen, and go no further.
AnimationTick ==
    /\ Animation /\ Free /\ co.open
    /\ Coordinator([co EXCEPT !.seen = RetainedSteers])

\* Mutant: at capacity the event counts as seen all the same.
AdmitOneForgetful(s) ==
    LET rest == [co EXCEPT !.todo = @ \ {s}]
    IN  IF CanAdmitSteer(journal, s) THEN Writes(AdmitSteer(journal, s), rest)
                                     ELSE Coordinator(rest)

\* Mutant: receipts and capacity are not looked at again.
AdmitOneUnfenced(s) ==
    Writes(AdmitSteer(journal, s), [co EXCEPT !.todo = @ \ {s}])

AdmitOne(s) ==
    LET rest == [co EXCEPT !.todo = @ \ {s}]
    IN  \/ /\ CanAdmitSteer(journal, s)
           /\ Writes(AdmitSteer(journal, s), rest)
        \/ /\ ~CanAdmitSteer(journal, s)
           /\ Coordinator(IF \/ journal.steers[s] # "absent"
                             \/ HasReceipt(journal, SteerDelivery(s))
                          THEN rest
                          ELSE [rest EXCEPT !.seen = @ \ {s}])

AdmitSteers ==
    /\ At("admit")
    /\ \/ \E s \in co.todo : AdmitOne(s)
       \/ /\ co.todo = {}
          /\ Coordinator([co EXCEPT !.pc = "flush", !.todo = ActiveSteers(journal)])

-----------------------------------------------------------------------------
(* flushSteers().                                                          *)

FlushOne(s) ==
    LET rest == [co EXCEPT !.todo = @ \ {s}]
        toSend == [rest EXCEPT !.pc = "send", !.cur = s]
        phase == journal.steers[s]
    IN  \/ phase = "presented" /\ Coordinator(FinishSteer(co, s, "flush"))
        \/ phase = "pending" /\ Coordinator(toSend)
        \/ phase = "queued" /\ ~co.recover /\ Coordinator(rest)
        \/ /\ phase = "queued" /\ co.recover
           /\ \E e \in Evidence(SteerDelivery(s)) :
                  IF e = "absent" THEN Writes(ResetSteer(journal, s), toSend)
                                  ELSE Coordinator(rest)

FlushDone ==
    LET done == [co EXCEPT !.recover = FALSE]
    IN  /\ co.todo = {}
        /\ Coordinator(
             IF co.fn \in {"start", "update"}
             THEN [Idle(done) EXCEPT !.armed = @ \/ (co.want /\ ~host.busy)]
             ELSE IF ActiveSteers(journal) # {} THEN Idle(done)
             ELSE Goto(done, "reconcile"))

FlushSteers ==
    /\ At("flush")
    /\ \/ \E s \in co.todo : FlushOne(s)
       \/ FlushDone

SendSteer ==
    /\ At("send")
    /\ \/ /\ host' = [host EXCEPT !.queue = @ \cup {SteerDelivery(co.cur)}]
          /\ co' = Goto(co, "sent")
          /\ UNCHANGED <<runVars, journal, lastId, ghosts, budget>>
       \/ Fails(Goto(co, "flush"))

SteerSent ==
    /\ At("sent")
    /\ Writes(QueueSteer(journal, co.cur), Goto(co, "flush"))

-----------------------------------------------------------------------------
(* reconcileCompletionBatch() and acceptCompletionBatch().                 *)

Accept(c, next) == [c EXCEPT !.pc = "queueBatch", !.back = next]

StartCollect(c) ==
    [c EXCEPT !.pc = "collect", !.unread = Runs, !.view = UnreadView]

ReconcileBatch ==
    LET batch == journal.batch
    IN  /\ At("reconcile")
        /\ \/ batch = NoBatch /\ Coordinator(StartCollect(co))
           \/ /\ batch.phase \in {"queued", "presented"}
              /\ Coordinator(Accept(co, "recollect"))
           \/ /\ batch.phase = "pending"
              /\ \E e \in Evidence(BatchDelivery(batch.id)) :
                     Coordinator(CASE e = "absent" -> Goto(co, "deliver")
                                   [] e = "present" -> Accept(co, "recollect")
                                   [] e = "unknown" -> Idle(co))

MarkBatchQueued ==
    /\ At("queueBatch")
    /\ Writes(QueueBatch(journal, journal.batch.id), Goto(co, "presentBatch"))

MarkBatchPresented ==
    /\ At("presentBatch")
    /\ Writes(PresentBatch(journal, journal.batch.id), Acknowledge(co, co.back))

\* Mutant: whatever generation is in the directory now.
SameRecordAnyGeneration(m) == present[m.run] /\ Status(m.run) = m.status

SameRecord(m) ==
    present[m.run] /\ generation[m.run] = m.generation /\ Status(m.run) = m.status

\* markRunTerminalNotificationHandled: only the generation and the status that
\* were delivered are acknowledged, under the lifecycle lock of the Run.
AckOne(m) ==
    \/ /\ stopping[m.run] = "none"
       /\ handled' = [handled EXCEPT ![m.run] = @ \/ SameRecord(m)]
       /\ acked' = IF SameRecord(m) THEN acked \cup {m} ELSE acked
       /\ co' = [co EXCEPT !.unacked = @ \ {m}]
       /\ UNCHANGED <<generation, present, process, result, cut, stopping,
                      parentGeneration, trace, published,
                      journal, lastId, host, taken, resent, shown, budget>>
    \/ Fails(Abort(co))

\* Mutant: the batch may be finalized before its members are acknowledged.
AckMembersLate ==
    /\ At("ack")
    /\ \/ \E m \in co.unacked : AckOne(m)
       \/ Writes(FinalizeBatch(journal, journal.batch.id), Goto(co, co.back))

AckMembers ==
    /\ At("ack")
    /\ \/ \E m \in co.unacked : AckOne(m)
       \/ /\ co.unacked = {}
          /\ Writes(FinalizeBatch(journal, journal.batch.id),
                    Goto(co, co.back))

\* Reconciliation acknowledged one batch; the next one is collected at once.
Recollect == At("recollect") /\ Coordinator(StartCollect(co))

-----------------------------------------------------------------------------
(* readRunDeliverySnapshot(): buildRunStatus reads run.json and            *)
(* result.json first, the process, the Trace and the handled marker after. *)

ReadResult(r) ==
    /\ At("collect")
    /\ Coordinator([co EXCEPT
           !.pc = "derive", !.cur = r, !.unread = @ \ {r},
           !.view[r] = [present |-> present[r], generation |-> generation[r],
                        parentGeneration |-> parentGeneration[r],
                        pid |-> process[r] # "unborn",
                        status |-> result[r], handled |-> FALSE]])

DeriveRead ==
    LET r == co.cur
        v == co.view[r]
        live == v.pid /\ process[r] = "live" /\ generation[r] = v.generation
    IN  /\ At("derive")
        /\ Coordinator([co EXCEPT
               !.pc = "collect", !.cur = Nothing,
               !.view[r].status = DeriveStatus(v.status, live, cut[r]),
               !.view[r].handled = handled[r]])

\* The first RUN_DELIVERY_BATCH_MAX_MEMBERS candidates, shallow Runs first.
Slices(C) ==
    {M \in SUBSET C :
        /\ Cardinality(M) = IF Cardinality(C) <= BatchMax
                            THEN Cardinality(C) ELSE BatchMax
        /\ \A m \in M, n \in C \ M : Depth(m.run) <= Depth(n.run)}

\* pendingCompletionBatch(): admit one immutable batch.
AdmitCompletions ==
    LET C == Candidates(co.view)
    IN  /\ At("collect") /\ co.unread = {}
        /\ \/ C = {} /\ Coordinator(Idle(co))
           \/ /\ C # {}
              /\ \E M \in Slices(C) :
                     /\ CanAdmitBatch(journal, lastId + 1, M)
                     /\ journal' = AdmitBatch(journal, lastId + 1, M)
              /\ lastId' = lastId + 1
              /\ co' = [Goto(co, "deliver") EXCEPT !.view = UnreadView]
              /\ UNCHANGED <<runVars, host, ghosts, budget>>

CollectCompletions == (\E r \in co.unread : ReadResult(r)) \/ AdmitCompletions

-----------------------------------------------------------------------------
(* Handing the batch over: a message when the host is idle, a proposed     *)
(* entry at the end of a turn.                                             *)

Accepted(batch) == {<<batch.id, m>> : m \in batch.members}

Resend(d) == IF WithPi(d) THEN resent \cup {d} ELSE resent

SendBatch ==
    LET batch == journal.batch
    IN  /\ At("deliver") /\ co.fn # "turnEnd" /\ ~host.busy
        /\ \/ /\ host' = [host EXCEPT !.queue = @ \cup {BatchDelivery(batch.id)}]
              /\ taken' = taken \cup Accepted(batch)
              /\ resent' = Resend(BatchDelivery(batch.id))
              /\ co' = Accept(co, "idle")
              /\ UNCHANGED <<runVars, journal, lastId, acked, shown, budget>>
           \/ Fails(Abort(co))

HoldBatch ==
    /\ At("deliver") /\ co.fn # "turnEnd" /\ host.busy
    /\ Coordinator(Idle(co))

ProposeBatch ==
    /\ At("deliver") /\ co.fn = "turnEnd"
    /\ host' = [host EXCEPT !.proposal = BatchDelivery(journal.batch.id)]
    /\ resent' = Resend(BatchDelivery(journal.batch.id))
    /\ co' = Idle(co)
    /\ UNCHANGED <<runVars, journal, lastId, taken, acked, shown, budget>>

-----------------------------------------------------------------------------
(* projectContext(): what the model is about to see is presented.          *)

ContextSteer(s) ==
    Coordinator([co EXCEPT !.pc = "ctxQueue", !.cur = s, !.todo = @ \ {s}])

\* Mutant: any active batch is taken for part of the context.
ContextNextTrusting ==
    LET inContext == co.todo \cap SessionSteers
    IN  /\ At("context")
        /\ \/ \E s \in inContext : ContextSteer(s)
           \/ /\ inContext = {}
              /\ Coordinator(IF journal.batch # NoBatch THEN Accept(co, "idle")
                                                      ELSE Idle(co))

ContextNext ==
    LET inContext == co.todo \cap SessionSteers
    IN  /\ At("context")
        /\ \/ \E s \in inContext : ContextSteer(s)
           \/ /\ inContext = {}
              /\ Coordinator(IF journal.batch # NoBatch
                                /\ BatchDelivery(journal.batch.id) \in host.session
                             THEN Accept(co, "idle") ELSE Idle(co))

ContextQueue ==
    /\ At("ctxQueue")
    /\ Writes(QueueSteer(journal, co.cur), Goto(co, "ctxPresent"))

ContextPresent ==
    /\ At("ctxPresent")
    /\ journal' = PresentSteer(journal, co.cur)
    /\ co' = [co EXCEPT !.pc = "mark", !.back = "context"]
    /\ shown' = shown \cup {co.cur}
    /\ UNCHANGED <<runVars, lastId, host, taken, acked, resent, budget>>

-----------------------------------------------------------------------------
(* The host's own moves.                                                   *)

Hosts(h, c) ==      \* frame
    /\ host' = h /\ co' = c
    /\ UNCHANGED <<runVars, journal, lastId, ghosts, budget>>

HostWork == Free /\ ~host.busy /\ Hosts([host EXCEPT !.busy = TRUE], co)

\* An accepted message becomes a session entry and a turn runs on it.
HostCommitMessage ==
    /\ Free
    /\ \E d \in host.queue :
           Hosts([host EXCEPT !.queue = @ \ {d}, !.session = @ \cup {d},
                              !.busy = TRUE], co)

HostContext ==
    /\ Free /\ co.open /\ host.busy
    /\ Coordinator(Enter(co, "context", "context"))

HostTurnEnd ==
    /\ Free /\ co.open /\ host.busy /\ host.queue = {} /\ host.proposal = Nothing
    /\ Coordinator(Enter(co, "turnEnd", "flush"))

HostCommitProposal ==
    /\ Free /\ host.proposal # Nothing
    /\ host' = [host EXCEPT !.proposal = Nothing,
                            !.session = @ \cup {host.proposal}]
    /\ taken' = taken \cup Accepted(journal.batch)
    /\ UNCHANGED <<runVars, journal, lastId, co, acked, resent, shown, budget>>

HostDropProposal ==
    /\ Free /\ host.proposal # Nothing
    /\ Hosts([host EXCEPT !.proposal = Nothing], co)

\* Mutant: agent_settled flushes nothing.
SettleSilently(again) ==
    /\ Free /\ host.busy /\ host.queue = {} /\ host.proposal = Nothing
    /\ Hosts([host EXCEPT !.busy = again], co)

\* Another extension may start work while agent_settled is dispatched.
Settle(again) ==
    /\ Free /\ host.busy /\ host.queue = {} /\ host.proposal = Nothing
    /\ Hosts([host EXCEPT !.busy = again],
             IF co.open THEN Enter(co, "settled", "flush") ELSE co)

HostSettle == \E again \in BOOLEAN : Settle(again)

HostCrash ==
    /\ host.up /\ budget.crashes > 0
    /\ budget' = [budget EXCEPT !.crashes = @ - 1]
    /\ host' = [HostInit EXCEPT !.session = host.session]
    /\ co' = Closed
    /\ stopping' = [r \in Runs |-> IF Parent[r] = NoRun THEN "none" ELSE stopping[r]]
    /\ UNCHANGED <<generation, present, process, result, cut, handled,
                   parentGeneration, trace, published, journal, lastId, ghosts>>

-----------------------------------------------------------------------------
(* Runs move.  Only the owner of a Run starts, stops and retains it: for a *)
(* top-level Run the coordinator's own process, between two handlers; for  *)
(* a nested one an actor of its parent, like a runner at any time.         *)

NotReading == SyncReads => ~At("collect") /\ ~At("derive")

RunsMove(A) ==
    /\ A
    /\ UNCHANGED <<journal, lastId, host, co, ghosts, budget>>

OwnMoves ==
    \E r \in Runs :
        /\ Parent[r] = NoRun
        /\ \/ Free /\ RunsMove(StartTopLevel(r))
           \/ Free /\ \E how \in Interruptions : RunsMove(StopSignal(r, how))
           \/ RunsMove(StopRecord(r))
           \/ cut[r] # stopping[r] /\ RunsMove(StopAbandoned(r))
           \/ RunsMove(StopHandled(r))
           \/ Free /\ RunsMove(RetainRun(r))

ActorWorks(r) == Parent[r] # NoRun /\ process[Parent[r]] = "live" /\ result[Parent[r]] = "none"

NestedMoves ==
    /\ NotReading
    /\ \E r \in Runs :
           \/ /\ ActorWorks(r)
              /\ \/ RunsMove(StartNested(r))
                 \/ RunsMove(SpawnNested(r))
                 \/ \E how \in Interruptions : RunsMove(StopSignal(r, how))
                 \/ RunsMove(StopRecord(r))
                 \/ RunsMove(StopHandled(r))
                 \/ RunsMove(RetainRun(r))
           \/ Parent[r] # NoRun /\ RunsMove(StopAbandoned(r))

RunnerMoves ==
    /\ NotReading
    /\ \E r \in Runs :
           \/ \E e \in Events : RunsMove(RunnerPublishSteer(r, e))
           \/ \E code \in Codes : RunsMove(RunnerFinish(r, code))
           \/ RunsMove(RunnerExit(r))

Handler ==
    \/ Teardown
    \/ RecoverBatch \/ RecoverSteers \/ MarkSteer \/ FinalizeSteerStep
    \/ Observe \/ AdmitSteers \/ FlushSteers \/ SendSteer \/ SteerSent
    \/ ReconcileBatch \/ MarkBatchQueued \/ MarkBatchPresented \/ AckMembers
    \/ Recollect \/ CollectCompletions \/ DeriveRead
    \/ SendBatch \/ HoldBatch \/ ProposeBatch
    \/ ContextNext \/ ContextQueue \/ ContextPresent

HostMoves ==
    \/ HostWork \/ HostCommitMessage \/ HostContext \/ HostTurnEnd
    \/ HostCommitProposal \/ HostDropProposal \/ HostSettle \/ HostCrash

Next ==
    \/ Launch \/ Reload \/ Update \/ TimerFlush \/ AnimationTick
    \/ Handler
    \/ HostMoves
    \/ OwnMoves \/ NestedMoves \/ RunnerMoves

Spec == Init /\ [][Next]_vars

(* JavaScript runs a handler to its end and timers that are armed fire;    *)
(* the host commits what it accepted, calls the model with its context and *)
(* comes to rest again and again; a stop ends.  Nobody has to reload, to   *)
(* start a Run or to give it an end.                                       *)
StopEnds ==
    \E r \in Runs : \/ Parent[r] = NoRun /\ RunsMove(StopRecord(r) \/ StopHandled(r))
                    \/ Parent[r] # NoRun /\ NotReading /\ RunsMove(StopAbandoned(r))

Fairness ==
    /\ WF_vars(Launch) /\ WF_vars(Handler)
    /\ SF_vars(Update) /\ SF_vars(TimerFlush)
    /\ SF_vars(HostCommitMessage) /\ SF_vars(HostContext)
    /\ SF_vars(HostCommitProposal \/ HostDropProposal)
    /\ SF_vars(Settle(FALSE))
    /\ WF_vars(StopEnds)

FairSpec == Spec /\ Fairness

\* The operator keeps prompting: a steer that entered the session in a turn the
\* operator aborted is shown in the next one.
AttendedSpec == FairSpec /\ SF_vars(HostWork)
-----------------------------------------------------------------------------
(* Properties.                                                             *)

CoordinatorState ==
    [open : BOOLEAN, armed : BOOLEAN, recover : BOOLEAN, seen : SUBSET Steer,
     fn : Handlers,
     pc : {"idle", "teardown", "recoverBatch", "recoverSteers", "mark", "finish", "observe",
           "admit", "flush", "send", "sent", "reconcile", "queueBatch",
           "presentBatch", "ack", "recollect", "collect", "derive", "deliver",
           "context", "ctxQueue", "ctxPresent"},
     back : {"idle", "recoverSteers", "flush", "recollect", "context"},
     todo : SUBSET Steer, cur : Steer \cup Runs \cup {Nothing},
     unacked : SUBSET Member, unread : SUBSET Runs,
     view : [Runs -> [present : BOOLEAN, generation : 0 .. MaxGeneration,
                      parentGeneration : Nat, pid : BOOLEAN,
                      status : Statuses \cup {"none"}, handled : BOOLEAN]],
     want : BOOLEAN]

Messages == {BatchDelivery(n) : n \in 1 .. lastId} \cup {SteerDelivery(s) : s \in Steer}

HostState ==
    [up : BOOLEAN, busy : BOOLEAN, queue : SUBSET Messages,
     session : SUBSET Messages, proposal : Messages \cup {Nothing}]

TypeOK ==
    /\ RunsTypeOK
    /\ journal \in Journals
    /\ lastId \in Nat
    /\ host \in HostState
    /\ co \in CoordinatorState
    /\ taken \subseteq (1 .. lastId) \X Member
    /\ acked \subseteq Member
    /\ resent \subseteq Messages
    /\ shown \subseteq Steer
    /\ budget \in [crashes : Nat, reloads : Nat, failures : Nat]

(* The coordinator implements the journal machine: whatever it does, and   *)
(* wherever it crashes between reading the journal and calling, each step  *)
(* is one call the journal accepts or none.  No step admits a steer the    *)
(* capacity or a receipt forbids, skips a phase, or reuses a batch id, so  *)
(* what DeliveryJournalProofs proves of the machine holds here.            *)
JournalImplemented == MachineSpec

(* A terminal Run is marked handled by delivery only for a record that Pi  *)
(* really accepted: no order of handlers, crashes, lock timeouts and       *)
(* recoveries acknowledges a completion the coordinator never got.         *)
AckedWasAccepted == \A m \in acked : \E n \in 1 .. lastId : <<n, m>> \in taken

(* A batch is never handed to Pi while Pi already holds it, in its queue,  *)
(* as a proposed entry or in the session file: retries and recoveries ask  *)
(* for session evidence first.                                             *)
NoDuplicateBatch == resent = {}

(* One exact terminal record (generation and status) is accepted in at     *)
(* most one batch, even when a Run is looked at while it finishes.         *)
RecordsOnce == \A t, u \in taken : t[2] = u[2] => t[1] = u[1]

(* One generation is accepted in either this batch or the next, never in   *)
(* both, whatever its status was read to be.                               *)
GenerationsOnce ==
    \A t, u \in taken :
        t[2].run = u[2].run /\ t[2].generation = u[2].generation => t = u

(* A Run and the descendants it started reach the coordinator together:    *)
(* with room in one batch for the Runs that report, no part of a tree is   *)
(* accepted early and no part comes in a second batch.                     *)
TreesTogether ==
    \A t, u \in taken :
        /\ Parent[t[2].run] = u[2].run
        /\ generation[t[2].run] = t[2].generation
        /\ parentGeneration[t[2].run] = u[2].generation
        => t[1] = u[1]

(* The handled marker of a directory speaks of its current generation: it  *)
(* was accepted, or a stop interrupted it.  A late acknowledgement of the  *)
(* generation before, or a marker left behind by a restart, would silence  *)
(* a completion that nobody was given.                                     *)
HandledIsAccounted ==
    \A r \in Runs : handled[r] =>
        \/ cut[r] # "none"
        \/ \E m \in acked : m.run = r /\ m.generation = generation[r]

(* A steer presented in the model's context is never sent again: not after *)
(* a crash in the middle of its acknowledgement, not with its receipt      *)
(* rotated out of the journal, not when a restart forgets it was seen.     *)
ShownNeverResent ==
    [][\A s \in shown : SteerDelivery(s) \in host'.queue
                            => SteerDelivery(s) \in host.queue]_vars

(* An urgent event the coordinator remembers as seen is being admitted, is *)
(* owed by the journal, was presented, or is gone with its Trace: none is  *)
(* forgotten between the observation and the durable journal.              *)
SeenIsOwed ==
    \A s \in co.seen \cap RetainedSteers :
        \/ journal.steers[s] # "absent"
        \/ s \in shown
        \/ co.pc = "admit" /\ s \in co.todo

\* r has a terminal record that its coordinator still has to be given.
Owed(r) == \E m \in Candidates(CurrentView) : m.run = r

(* Every terminal generation of a complete tree is in the end accepted and *)
(* acknowledged, or its directory is reused or retained, through crashes   *)
(* and whatever the host is busy with.                                     *)
CompletionsArrive == \A r \in Runs : Owed(r) ~> ~Owed(r)

(* Every urgent event of an owned Run is in the end presented, unless its  *)
(* Trace goes away: journal capacity, failed sends and crashes only delay. *)
SteersArrive ==
    \A s \in Steer : (s \in RetainedSteers) ~> (s \in shown \/ s \notin RetainedSteers)
=============================================================================
