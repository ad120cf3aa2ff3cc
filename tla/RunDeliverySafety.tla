-------------------------- MODULE RunDeliverySafety --------------------------
(***************************************************************************)
(* TLAPS proofs about RunDelivery, continued: a batch is never handed to   *)
(* Pi twice, a presented steer is never sent again, no urgent event is     *)
(* forgotten once it was seen, a handled marker speaks of its own          *)
(* generation, no generation is given to Pi in two batches, no terminal    *)
(* record in two, and a tree of Runs that fits one batch reaches Pi        *)
(* together - for any number of Runs, generations, urgent events, crashes, *)
(* reloads and failures.                                                   *)
(***************************************************************************)
EXTENDS RunDeliveryProofs, FiniteSetTheorems

-----------------------------------------------------------------------------
(* The memories the handlers build, field by field.                        *)

LEMMA ReturnFields ==
    ASSUME NEW c \in CoordinatorState
    PROVE  /\ Idle(c).fn = "none" /\ Idle(c).pc = "idle" /\ Idle(c).back = "idle"
           /\ Idle(c).todo = {} /\ Idle(c).seen = c.seen
           /\ Shut(c).fn = "none" /\ Shut(c).pc = "idle" /\ Shut(c).back = "idle"
           /\ Shut(c).todo = {} /\ Shut(c).seen = c.seen
           /\ Abort(c).fn = "none" /\ Abort(c).pc = "idle" /\ Abort(c).back = "idle"
           /\ Abort(c).todo = {} /\ Abort(c).seen = c.seen
BY DEF Idle, Shut, Abort, Closed

LEMMA GotoFields ==
    ASSUME NEW c \in CoordinatorState, NEW label
    PROVE  /\ label = "idle" => Goto(c, label) = Idle(c)
           /\ label # "idle" =>
                 /\ Goto(c, label).fn = c.fn /\ Goto(c, label).pc = label
                 /\ Goto(c, label).back = c.back /\ Goto(c, label).todo = c.todo
                 /\ Goto(c, label).cur = c.cur
           /\ Goto(c, label).seen = c.seen
BY ReturnFields DEF Goto, CoordinatorState

LEMMA EnterFields ==
    ASSUME NEW c \in CoordinatorState, NEW handler, NEW label
    PROVE  /\ Enter(c, handler, label).fn = handler
           /\ Enter(c, handler, label).pc = label
           /\ Enter(c, handler, label).back = c.back
           /\ Enter(c, handler, label).todo = ActiveSteers(journal)
           /\ Enter(c, handler, label).seen = c.seen
BY DEF Enter, CoordinatorState

LEMMA StartedFields ==
    ASSUME NEW c \in CoordinatorState
    PROVE  /\ Started(c).fn = "start" /\ Started(c).pc = "recoverBatch"
           /\ Started(c).back = "idle" /\ Started(c).todo = ActiveSteers(journal)
           /\ Started(c).seen = c.seen
<1> DEFINE d == [Shut(c) EXCEPT !.open = TRUE, !.recover = TRUE]
<1>1. Shut(c) \in CoordinatorState
  BY ReturnOK
<1>2. d \in CoordinatorState /\ d.back = Shut(c).back /\ d.seen = Shut(c).seen
  BY <1>1 DEF CoordinatorState
<1>3. Started(c) = Enter(d, "start", "recoverBatch")
  BY DEF Started
<1>4. Shut(c).back = "idle" /\ Shut(c).seen = c.seen
  BY ReturnFields
<1> HIDE DEF d
<1> QED
  BY <1>2, <1>3, <1>4, EnterFields

LEMMA CallFields ==
    ASSUME NEW c \in CoordinatorState, NEW s, NEW next
    PROVE  /\ FinishSteer(c, s, next).fn = c.fn /\ FinishSteer(c, s, next).pc = "mark"
           /\ FinishSteer(c, s, next).back = next /\ FinishSteer(c, s, next).cur = s
           /\ FinishSteer(c, s, next).todo = c.todo \ {s}
           /\ FinishSteer(c, s, next).seen = c.seen
           /\ Acknowledge(c, next).fn = c.fn /\ Acknowledge(c, next).pc = "ack"
           /\ Acknowledge(c, next).back = next /\ Acknowledge(c, next).todo = c.todo
           /\ Acknowledge(c, next).seen = c.seen
           /\ Accept(c, next).fn = c.fn /\ Accept(c, next).pc = "queueBatch"
           /\ Accept(c, next).back = next /\ Accept(c, next).todo = c.todo
           /\ Accept(c, next).seen = c.seen
           /\ StartCollect(c).fn = c.fn /\ StartCollect(c).pc = "collect"
           /\ StartCollect(c).back = c.back /\ StartCollect(c).todo = c.todo
           /\ StartCollect(c).seen = c.seen
BY DEF FinishSteer, Acknowledge, Accept, StartCollect, CoordinatorState

-----------------------------------------------------------------------------
(* Handing a batch over.                                                   *)

\* One handler runs at a time, and the context handler keeps to its own labels.
HandlerOK(c) ==
    /\ c.fn = "none" => c.pc = "idle" /\ c.back = "idle"
    /\ c.fn = "context" =>
           /\ c.pc \in {"context", "ctxQueue", "ctxPresent", "mark", "finish",
                        "queueBatch", "presentBatch", "ack"}
           /\ c.back \in {"idle", "context"}
    /\ (c.pc \in {"context", "ctxQueue", "ctxPresent"} \/ c.back = "context")
           => c.fn = "context"

\* What a handler knows of the host: nothing runs in a dead one, and a turn_end
\* handler runs in a busy one before anything is proposed.
HostOK ==
    /\ ~host.up => co.fn = "none"
    /\ co.fn = "turnEnd" => host.busy /\ host.proposal = Nothing
    /\ host.proposal # Nothing => host.busy

\* Where the batch is about to be handed over it is pending and the session does
\* not hold it; a pending batch is in Pi's queue only while its handler is about
\* to say so.
PendingOK ==
    /\ co.pc = "deliver" => /\ journal.batch.phase = "pending"
                            /\ BatchDelivery(journal.batch.id) \notin host.session
    /\ (journal.batch.phase = "pending" /\ co.pc # "queueBatch") =>
           BatchDelivery(journal.batch.id) \notin host.queue

HandoverInv == HandlerOK(co) /\ HostOK /\ PendingOK /\ NoDuplicateBatch

\* A step of the coordinator that hands nothing over.
LEMMA HandoverFrame ==
    ASSUME HandoverInv, NEW c, co' = c, HandlerOK(c),
           UNCHANGED <<host, resent>>, journal'.batch = journal.batch,
           c.fn # "none" => host.up,
           c.fn = "turnEnd" => co.fn = "turnEnd",
           c.pc # "deliver", co.pc # "queueBatch"
    PROVE  HandoverInv'
BY DEF HandoverInv, HandlerOK, HostOK, PendingOK, NoDuplicateBatch

\* In a handler, the host is up; between two, the coordinator is idle.
LEMMA HandlerFacts ==
    ASSUME IInv, HandoverInv
    PROVE  /\ co \in CoordinatorState /\ host \in HostState
           /\ co.pc # "idle" => co.fn # "none" /\ host.up
           /\ Free => co.pc = "idle" /\ co.back = "idle" /\ host.up
           /\ HandlerOK(co)
BY LocalFacts DEF IInv, TypeOK, HandoverInv, HandlerOK, HostOK, Free

LEMMA ReturnHandler ==
    ASSUME NEW c \in CoordinatorState
    PROVE  HandlerOK(Idle(c)) /\ HandlerOK(Shut(c)) /\ HandlerOK(Abort(c))
BY ReturnFields DEF HandlerOK

LEMMA HandoverStarts ==
    ASSUME IInv, HandoverInv, Update \/ TimerFlush \/ HostContext \/ HostTurnEnd \/ Reload
    PROVE  HandoverInv'
<1>1. /\ co \in CoordinatorState /\ Free /\ co.back = "idle" /\ host.up
      /\ co.pc = "idle"
  BY HandlerFacts DEF Update, TimerFlush, HostContext, HostTurnEnd, Reload
<1>2. CASE Update
  <2> DEFINE c == Enter(co, "update", "observe")
  <2>1. HandlerOK(c) /\ c.fn = "update" /\ c.pc = "observe"
    BY <1>1, EnterFields DEF HandlerOK
  <2> HIDE DEF c
  <2> QED
    BY <1>1, <1>2, <2>1, HandoverFrame DEF Update, Coordinator, ghosts, c
<1>3. CASE TimerFlush
  <2> DEFINE d == [co EXCEPT !.armed = FALSE]
             c == Enter(d, "timer", "flush")
  <2>1. d \in CoordinatorState /\ d.back = "idle"
    BY <1>1 DEF CoordinatorState
  <2> HIDE DEF d
  <2>2. HandlerOK(c) /\ c.fn = "timer" /\ c.pc = "flush"
    BY <2>1, EnterFields DEF HandlerOK
  <2> HIDE DEF c
  <2> QED
    BY <1>1, <1>3, <2>2, HandoverFrame DEF TimerFlush, Coordinator, ghosts, c, d
<1>4. CASE HostContext
  <2> DEFINE c == Enter(co, "context", "context")
  <2>1. HandlerOK(c) /\ c.fn = "context" /\ c.pc = "context"
    BY <1>1, EnterFields DEF HandlerOK
  <2> HIDE DEF c
  <2> QED
    BY <1>1, <1>4, <2>1, HandoverFrame DEF HostContext, Coordinator, ghosts, c
<1>5. CASE HostTurnEnd
  <2>1. /\ HandlerOK(Enter(co, "turnEnd", "flush"))
        /\ Enter(co, "turnEnd", "flush").fn = "turnEnd"
        /\ Enter(co, "turnEnd", "flush").pc = "flush"
    BY <1>1, EnterFields DEF HandlerOK
  <2>2. /\ co' = Enter(co, "turnEnd", "flush") /\ host.busy /\ host.proposal = Nothing
        /\ UNCHANGED <<host, journal, resent>>
    BY <1>5 DEF HostTurnEnd, Coordinator, ghosts
  <2> QED
    BY <1>1, <2>1, <2>2 DEF HandoverInv, HostOK, PendingOK, NoDuplicateBatch, HandlerOK
<1>6. CASE Reload
  <2> DEFINE c == [Shut(co) EXCEPT !.fn = "shutdown", !.pc = "teardown",
                                   !.unread = OwnRunning]
  <2>1. Shut(co) \in CoordinatorState /\ Shut(co).back = "idle"
    BY <1>1, ReturnOK, ReturnFields
  <2>2. HandlerOK(c) /\ c.fn = "shutdown" /\ c.pc = "teardown"
    BY <2>1 DEF HandlerOK, CoordinatorState
  <2> HIDE DEF c
  <2> QED
    BY <1>1, <1>6, <2>2, HandoverFrame DEF Reload, ghosts, c
<1> QED
  BY <1>2, <1>3, <1>4, <1>5, <1>6

LEMMA HandoverLaunch ==
    ASSUME IInv, HandoverInv, Launch
    PROVE  HandoverInv'
<1>1. co \in CoordinatorState /\ host \in HostState /\ co.fn = "none" /\ co.pc = "idle"
  BY HandlerFacts DEF Launch, HandoverInv, HostOK, HandlerOK
<1>2. HandlerOK(Started(co)) /\ Started(co).fn = "start" /\ Started(co).pc = "recoverBatch"
  BY <1>1, StartedFields DEF HandlerOK
<1>3. /\ co' = Started(co) /\ UNCHANGED <<journal, resent>>
      /\ host'.up /\ host'.queue = host.queue /\ host'.session = host.session
      /\ host'.busy = host.busy /\ host'.proposal = host.proposal
  BY <1>1 DEF Launch, ghosts, HostState
<1> QED
  BY <1>1, <1>2, <1>3 DEF HandoverInv, HostOK, PendingOK, NoDuplicateBatch

LEMMA HandoverTeardown ==
    ASSUME IInv, HandoverInv, Teardown
    PROVE  HandoverInv'
<1>1. /\ co \in CoordinatorState /\ co.pc = "teardown" /\ HandlerOK(co)
      /\ host.up /\ co.fn # "context"
  BY HandlerFacts DEF Teardown, At, HandlerOK
<1>2. ASSUME NEW r \in co.unread, TeardownOne(r) PROVE HandoverInv'
  <2> DEFINE rest == [co EXCEPT !.unread = @ \ {r}]
  <2>1. rest.fn = co.fn /\ rest.pc = co.pc /\ rest.back = co.back
    BY <1>1 DEF CoordinatorState
  <2>2. HandlerOK(rest)
    BY <1>1, <2>1 DEF HandlerOK
  <2>3. co' = rest /\ UNCHANGED <<journal, host, resent>>
    BY <1>2 DEF TeardownOne, Coordinator, ghosts
  <2> HIDE DEF rest
  <2> QED
    BY <1>1, <2>1, <2>2, <2>3, HandoverFrame
<1>3. ASSUME NEW memory \in {co, Closed}, Coordinator(Started(memory)) PROVE HandoverInv'
  <2>1. memory \in CoordinatorState
    BY <1>1, <1>3, ClosedOK
  <2>2. HandlerOK(Started(memory)) /\ Started(memory).fn = "start"
        /\ Started(memory).pc = "recoverBatch"
    BY <2>1, StartedFields DEF HandlerOK
  <2> QED
    BY <1>1, <1>3, <2>2, HandoverFrame DEF Coordinator, ghosts
<1> QED
  BY <1>2, <1>3 DEF Teardown

\* A step that leaves the handler where it is, or returns, or goes to a label
\* that hands nothing over.
LEMMA HandoverGoes ==
    ASSUME IInv, HandoverInv, NEW c, co' = c, co.pc \notin {"idle", "queueBatch"},
           UNCHANGED <<host, resent>>, journal'.batch = journal.batch,
           \/ c \in {Idle(co), Abort(co)}
           \/ c.fn = co.fn /\ c.pc # "deliver" /\ HandlerOK(c)
    PROVE  HandoverInv'
<1>1. co \in CoordinatorState /\ host.up
  BY HandlerFacts
<1>2. CASE c \in {Idle(co), Abort(co)}
  <2>1. HandlerOK(c) /\ c.fn = "none" /\ c.pc = "idle"
    BY <1>1, <1>2, ReturnHandler, ReturnFields
  <2> QED
    BY <2>1, HandoverFrame
<1>3. CASE c.fn = co.fn /\ c.pc # "deliver" /\ HandlerOK(c)
  BY <1>1, <1>3, HandoverFrame
<1> QED
  BY <1>2, <1>3

LEMMA HandoverWalks ==
    ASSUME IInv, HandoverInv,
           RecoverBatch \/ RecoverSteers \/ MarkSteer \/ FinalizeSteerStep \/ Observe
    PROVE  HandoverInv'
<1>1. co \in CoordinatorState /\ HandlerOK(co)
  BY HandlerFacts
<1>2. CASE RecoverBatch
  <2>1. co.pc = "recoverBatch" /\ UNCHANGED <<host, resent, journal>>
        /\ co' \in {Acknowledge(co, "recoverSteers"), Goto(co, "recoverSteers")}
    BY <1>2 DEF RecoverBatch, At, Coordinator, ghosts
  <2>2. co'.fn = co.fn /\ co'.pc # "deliver" /\ HandlerOK(co')
    BY <1>1, <2>1, CallFields, GotoFields DEF HandlerOK
  <2> QED
    BY <2>1, <2>2, HandoverGoes
<1>3. CASE RecoverSteers
  <2>1. /\ co.pc = "recoverSteers" /\ UNCHANGED <<host, resent, journal>>
        /\ co' = Goto(co, "observe") \/ \E s : co' = FinishSteer(co, s, "recoverSteers")
    BY <1>3 DEF RecoverSteers, At, Coordinator, ghosts
  <2>2. co'.fn = co.fn /\ co'.pc # "deliver" /\ HandlerOK(co')
    BY <1>1, <2>1, CallFields, GotoFields DEF HandlerOK
  <2> QED
    BY <2>1, <2>2, HandoverGoes
<1>4. CASE MarkSteer
  <2>1. /\ co.pc = "mark" /\ UNCHANGED <<host, resent, journal>>
        /\ co' \in {Goto(co, "finish"), Abort(co)}
    BY <1>4 DEF MarkSteer, At, Fails, ghosts
  <2>2. /\ Goto(co, "finish").fn = co.fn /\ Goto(co, "finish").pc # "deliver"
        /\ HandlerOK(Goto(co, "finish"))
    BY <1>1, <2>1, GotoFields DEF HandlerOK
  <2> QED
    BY <2>1, <2>2, HandoverGoes
<1>5. CASE FinalizeSteerStep
  <2>1. /\ co.pc = "finish" /\ UNCHANGED <<host, resent>>
        /\ journal'.batch = journal.batch /\ co' = Goto(co, co.back)
    <3>1. co.cur \in Steer /\ journal \in Journals
      BY <1>5, SteerLocals DEF FinalizeSteerStep, At, IInv, TypeOK
    <3> QED
      BY <1>5, <3>1, SteerCallType DEF FinalizeSteerStep, At, Writes, ghosts
  <2>2. co.back # "idle" => /\ Goto(co, co.back).fn = co.fn
                            /\ Goto(co, co.back).pc # "deliver"
                            /\ HandlerOK(Goto(co, co.back))
    BY <1>1, <2>1, GotoFields DEF HandlerOK, CoordinatorState
  <2>3. co.back = "idle" => co' = Idle(co)
    BY <2>1 DEF Goto
  <2> QED
    BY <2>1, <2>2, <2>3, HandoverGoes
<1>6. CASE Observe
  <2>1. /\ co.pc = "observe" /\ UNCHANGED <<host, resent, journal>>
        /\ co'.fn = co.fn /\ co'.pc = "admit" /\ co'.back = co.back
    BY <1>1, <1>6 DEF Observe, At, Coordinator, ghosts, CoordinatorState
  <2>2. HandlerOK(co')
    BY <1>1, <2>1 DEF HandlerOK
  <2> QED
    BY <2>1, <2>2, HandoverGoes
<1> QED
  BY <1>2, <1>3, <1>4, <1>5, <1>6

\* The calls for a steer leave the batch alone.
LEMMA SteerCallBatch ==
    ASSUME IInv, NEW s \in Steer
    PROVE  /\ AdmitSteer(journal, s).batch = journal.batch
           /\ QueueSteer(journal, s).batch = journal.batch
           /\ ResetSteer(journal, s).batch = journal.batch
           /\ PresentSteer(journal, s).batch = journal.batch
           /\ FinalizeSteer(journal, s).batch = journal.batch
BY SteerCallType DEF IInv, TypeOK

LEMMA HandoverSteers ==
    ASSUME IInv, HandoverInv,
           AdmitSteers \/ FlushSteers \/ SteerSent \/ ContextQueue \/ ContextPresent
    PROVE  HandoverInv'
<1>1. co \in CoordinatorState /\ HandlerOK(co) /\ journal \in Journals
  BY HandlerFacts DEF IInv, TypeOK
<1>2. CASE AdmitSteers
  <2>1. co.pc = "admit"
    BY <1>2 DEF AdmitSteers, At
  <2>2. ASSUME NEW s \in co.todo, AdmitOne(s) PROVE HandoverInv'
    <3> DEFINE rest == [co EXCEPT !.todo = @ \ {s}]
               again == [rest EXCEPT !.seen = @ \ {s}]
    <3>1. s \in Steer
      BY <1>1 DEF CoordinatorState
    <3>2. /\ rest.fn = co.fn /\ rest.pc = co.pc /\ rest.back = co.back
          /\ again.fn = co.fn /\ again.pc = co.pc /\ again.back = co.back
      BY <1>1 DEF CoordinatorState
    <3>3. /\ UNCHANGED <<host, resent>> /\ journal'.batch = journal.batch
          /\ co' \in {rest, again}
      BY <2>2, <3>1, SteerCallBatch DEF AdmitOne, Coordinator, Writes, ghosts
    <3> HIDE DEF rest, again
    <3>4. HandlerOK(rest) /\ HandlerOK(again)
      BY <1>1, <3>2 DEF HandlerOK
    <3> QED
      BY <2>1, <3>2, <3>3, <3>4, HandoverGoes
  <2>3. CASE Coordinator([co EXCEPT !.pc = "flush", !.todo = ActiveSteers(journal)])
    <3>1. co'.fn = co.fn /\ co'.pc = "flush" /\ co'.back = co.back
      BY <1>1, <2>3 DEF Coordinator, CoordinatorState
    <3>2. HandlerOK(co')
      BY <1>1, <2>1, <3>1 DEF HandlerOK
    <3> QED
      BY <2>1, <2>3, <3>1, <3>2, HandoverGoes DEF Coordinator, ghosts
  <2> QED
    BY <1>2, <2>2, <2>3 DEF AdmitSteers
<1>3. CASE FlushSteers
  <2>1. co.pc = "flush" /\ co.fn # "context"
    BY <1>1, <1>3 DEF FlushSteers, At, HandlerOK
  <2>2. ASSUME NEW s \in co.todo, FlushOne(s) PROVE HandoverInv'
    <3> DEFINE rest == [co EXCEPT !.todo = @ \ {s}]
               toSend == [rest EXCEPT !.pc = "send", !.cur = s]
    <3>1. s \in Steer
      BY <1>1 DEF CoordinatorState
    <3>2. /\ rest.fn = co.fn /\ rest.pc = co.pc /\ rest.back = co.back
          /\ toSend.fn = co.fn /\ toSend.pc = "send" /\ toSend.back = co.back
      BY <1>1 DEF CoordinatorState
    <3>3. /\ UNCHANGED <<host, resent>> /\ journal'.batch = journal.batch
          /\ co' \in {rest, toSend, FinishSteer(co, s, "flush")}
      BY <2>2, <3>1, SteerCallBatch DEF FlushOne, Coordinator, Writes, ghosts
    <3> HIDE DEF rest, toSend
    <3>4. HandlerOK(rest) /\ HandlerOK(toSend) /\ HandlerOK(FinishSteer(co, s, "flush"))
          /\ FinishSteer(co, s, "flush").fn = co.fn
          /\ FinishSteer(co, s, "flush").pc = "mark"
      BY <1>1, <2>1, <3>2, CallFields DEF HandlerOK
    <3> QED
      BY <2>1, <3>2, <3>3, <3>4, HandoverGoes
  <2>3. CASE FlushDone
    <3> DEFINE done == [co EXCEPT !.recover = FALSE]
               armed == [Idle(done) EXCEPT !.armed = @ \/ (co.want /\ ~host.busy)]
    <3>1. done \in CoordinatorState /\ done.fn = co.fn /\ done.back = co.back
      BY <1>1 DEF CoordinatorState
    <3>2. UNCHANGED <<host, resent, journal>>
          /\ co' \in {armed, Idle(done), Goto(done, "reconcile")}
      BY <2>3 DEF FlushDone, Coordinator, ghosts
    <3>3. armed.fn = Idle(done).fn /\ armed.pc = Idle(done).pc /\ armed.back = Idle(done).back
      BY <3>1, ReturnOK DEF CoordinatorState
    <3> HIDE DEF done, armed
    <3>4. HandlerOK(co') /\ co'.pc # "deliver" /\ co'.fn \in {"none", co.fn}
      BY <1>1, <2>1, <3>1, <3>2, <3>3, ReturnFields, GotoFields DEF HandlerOK
    <3> QED
      BY <2>1, <3>2, <3>4, HandoverFrame, HandlerFacts
  <2> QED
    BY <1>3, <2>2, <2>3 DEF FlushSteers
<1>4. CASE SteerSent
  <2>1. /\ co.pc = "sent" /\ UNCHANGED <<host, resent>>
        /\ journal'.batch = journal.batch /\ co' = Goto(co, "flush")
    <3>1. co.cur \in Steer
      BY <1>4, SteerLocals DEF SteerSent, At
    <3> QED
      BY <1>1, <1>4, <3>1, SteerCallBatch DEF SteerSent, At, Writes, ghosts
  <2>2. co'.fn = co.fn /\ co'.pc = "flush" /\ HandlerOK(co')
    BY <1>1, <2>1, GotoFields DEF HandlerOK
  <2> QED
    BY <2>1, <2>2, HandoverGoes
<1>5. CASE ContextQueue
  <2>1. /\ co.pc = "ctxQueue" /\ UNCHANGED <<host, resent>>
        /\ journal'.batch = journal.batch /\ co' = Goto(co, "ctxPresent")
    <3>1. co.cur \in Steer
      BY <1>5, SteerLocals DEF ContextQueue, At
    <3> QED
      BY <1>1, <1>5, <3>1, SteerCallBatch DEF ContextQueue, At, Writes, ghosts
  <2>2. co'.fn = co.fn /\ co'.pc = "ctxPresent" /\ HandlerOK(co')
    BY <1>1, <2>1, GotoFields DEF HandlerOK
  <2> QED
    BY <2>1, <2>2, HandoverGoes
<1>6. CASE ContextPresent
  <2>1. /\ co.pc = "ctxPresent" /\ UNCHANGED <<host, resent>>
        /\ journal'.batch = journal.batch
        /\ co'.fn = co.fn /\ co'.pc = "mark" /\ co'.back = "context"
    <3>1. co.cur \in Steer
      BY <1>6, SteerLocals DEF ContextPresent, At
    <3> QED
      BY <1>1, <1>6, <3>1, SteerCallBatch DEF ContextPresent, At, CoordinatorState
  <2>2. HandlerOK(co')
    BY <1>1, <2>1 DEF HandlerOK
  <2> QED
    BY <2>1, <2>2, HandoverGoes
<1> QED
  BY <1>2, <1>3, <1>4, <1>5, <1>6

LEMMA HandoverSendSteer ==
    ASSUME IInv, HandoverInv, SendSteer
    PROVE  HandoverInv'
<1>1. /\ co \in CoordinatorState /\ HandlerOK(co) /\ host \in HostState
      /\ co.pc = "send" /\ host.up
  BY HandlerFacts DEF SendSteer, At
<1>2. co' = Goto(co, "flush") \/ co' = Goto(co, "sent")
  BY DEF SendSteer, Fails
<1>3. co'.fn = co.fn /\ co'.pc \in {"flush", "sent"} /\ HandlerOK(co')
  BY <1>1, <1>2, GotoFields DEF HandlerOK
<1>4. CASE Fails(Goto(co, "flush"))
  BY <1>1, <1>3, <1>4, HandoverGoes DEF Fails, ghosts
<1>5. CASE ~Fails(Goto(co, "flush"))
  <2>1. /\ host' = [host EXCEPT !.queue = @ \cup {SteerDelivery(co.cur)}]
        /\ UNCHANGED <<journal, resent>>
    BY <1>5 DEF SendSteer, ghosts
  <2>2. BatchDelivery(journal.batch.id) # SteerDelivery(co.cur)
    BY DEF BatchDelivery, SteerDelivery
  <2> QED
    BY <1>1, <1>3, <2>1, <2>2
       DEF HandoverInv, HostOK, PendingOK, NoDuplicateBatch, HostState
<1> QED
  BY <1>4, <1>5

LEMMA HandoverBatch ==
    ASSUME IInv, HandoverInv,
           ReconcileBatch \/ MarkBatchQueued \/ MarkBatchPresented \/ AckMembers \/ Recollect
    PROVE  HandoverInv'
<1>1. /\ co \in CoordinatorState /\ HandlerOK(co) /\ journal.batch \in Batch
  BY HandlerFacts DEF IInv, TypeOK, Journals
<1>2. CASE ReconcileBatch
  <2>1. /\ co.pc = "reconcile" /\ co.fn # "context" /\ co.back # "context"
        /\ UNCHANGED <<host, resent, journal>>
    BY <1>1, <1>2 DEF ReconcileBatch, At, Coordinator, ghosts, HandlerOK
  <2>2. CASE co' \in {StartCollect(co), Accept(co, "recollect"), Idle(co)}
    <3>1. /\ HandlerOK(StartCollect(co)) /\ HandlerOK(Accept(co, "recollect"))
          /\ StartCollect(co).fn = co.fn /\ StartCollect(co).pc = "collect"
          /\ Accept(co, "recollect").fn = co.fn
          /\ Accept(co, "recollect").pc = "queueBatch"
      BY <1>1, <2>1, CallFields DEF HandlerOK
    <3> QED
      BY <2>1, <2>2, <3>1, HandoverGoes
  <2>3. CASE /\ journal.batch.phase = "pending" /\ co' = Goto(co, "deliver")
             /\ BatchDelivery(journal.batch.id) \notin host.session
    <3>1. co'.fn = co.fn /\ co'.pc = "deliver" /\ HandlerOK(co')
      BY <1>1, <2>1, <2>3, GotoFields DEF HandlerOK
    <3> QED
      BY <2>1, <2>3, <3>1 DEF HandoverInv, HostOK, PendingOK, NoDuplicateBatch
  <2>4. ASSUME journal.batch.phase = "pending",
               NEW e \in Evidence(BatchDelivery(journal.batch.id)),
               Coordinator(CASE e = "absent" -> Goto(co, "deliver")
                             [] e = "present" -> Accept(co, "recollect")
                             [] e = "unknown" -> Idle(co))
        PROVE  \/ co' \in {StartCollect(co), Accept(co, "recollect"), Idle(co)}
               \/ /\ journal.batch.phase = "pending" /\ co' = Goto(co, "deliver")
                  /\ BatchDelivery(journal.batch.id) \notin host.session
    <3>1. e \in {"absent", "present", "unknown"}
          /\ (e = "absent" => BatchDelivery(journal.batch.id) \notin host.session)
      BY <2>4 DEF Evidence
    <3> QED
      BY <2>4, <3>1 DEF Coordinator
  <2> QED
    BY <1>2, <2>2, <2>3, <2>4 DEF ReconcileBatch, Coordinator
<1>3. CASE MarkBatchQueued
  <2>1. /\ co.pc = "queueBatch" /\ UNCHANGED <<host, resent>>
        /\ journal' = QueueBatch(journal, journal.batch.id)
        /\ co' = Goto(co, "presentBatch")
    BY <1>3 DEF MarkBatchQueued, At, Writes, ghosts
  <2>2. co'.fn = co.fn /\ co'.pc = "presentBatch" /\ HandlerOK(co')
    BY <1>1, <2>1, GotoFields DEF HandlerOK
  <2>3. journal'.batch.phase # "pending"
    <3>1. journal.batch # NoBatch /\ journal \in Journals
      BY <2>1 DEF IInv, LocalOK, TypeOK
    <3> QED
      BY <1>1, <2>1, <3>1 DEF QueueBatch, IsActive, Journals, Batch
  <2> QED
    BY <2>1, <2>2, <2>3 DEF HandoverInv, HostOK, PendingOK, NoDuplicateBatch
<1>4. CASE MarkBatchPresented
  <2>1. /\ co.pc = "presentBatch" /\ UNCHANGED <<host, resent>>
        /\ journal' = PresentBatch(journal, journal.batch.id)
        /\ co' = Acknowledge(co, co.back)
    BY <1>4 DEF MarkBatchPresented, At, Writes, ghosts
  <2>2. co'.fn = co.fn /\ co'.pc = "ack" /\ HandlerOK(co')
    BY <1>1, <2>1, CallFields DEF HandlerOK
  <2>3. journal'.batch.phase # "pending"
    <3>1. journal.batch.phase \in {"queued", "presented"} /\ journal \in Journals
      BY <2>1 DEF IInv, LocalOK, TypeOK
    <3> QED
      BY <1>1, <2>1, <3>1 DEF PresentBatch, IsActive, Journals, Batch
  <2> QED
    BY <2>1, <2>2, <2>3 DEF HandoverInv, HostOK, PendingOK, NoDuplicateBatch
<1>5. CASE AckMembers
  <2>1. co.pc = "ack"
    BY <1>5 DEF AckMembers, At
  <2>2. ASSUME NEW m \in co.unacked, AckOne(m) PROVE HandoverInv'
    <3> DEFINE c == [co EXCEPT !.unacked = @ \ {m}]
    <3>1. c.fn = co.fn /\ c.pc = co.pc /\ c.back = co.back
      BY <1>1 DEF CoordinatorState
    <3>2. UNCHANGED <<host, resent, journal>> /\ co' \in {c, Abort(co)}
      BY <2>2 DEF AckOne, Fails, ghosts
    <3> HIDE DEF c
    <3>3. HandlerOK(c)
      BY <1>1, <3>1 DEF HandlerOK
    <3> QED
      BY <2>1, <3>1, <3>2, <3>3, HandoverGoes
  <2>3. CASE Writes(FinalizeBatch(journal, journal.batch.id), Goto(co, co.back))
    <3>1. /\ UNCHANGED <<host, resent>> /\ co' = Goto(co, co.back)
          /\ journal' = FinalizeBatch(journal, journal.batch.id)
      BY <2>3 DEF Writes, ghosts
    <3>2. /\ HandlerOK(co') /\ co'.fn \in {"none", co.fn} /\ co'.pc # "deliver"
          /\ co'.fn = "none" \/ co'.fn = co.fn
      <4>1. CASE co.back = "idle"
        BY <1>1, <3>1, <4>1, ReturnHandler, ReturnFields DEF Goto
      <4>2. CASE co.back # "idle"
        BY <1>1, <2>1, <3>1, <4>2, GotoFields DEF HandlerOK, CoordinatorState
      <4> QED
        BY <4>1, <4>2
    <3>3. journal'.batch.phase # "pending"
      <4>1. journal.batch.phase = "presented" /\ journal \in Journals
        BY <2>1 DEF IInv, LocalOK, TypeOK
      <4> QED
        BY <1>1, <3>1, <4>1 DEF FinalizeBatch, IsActive, Journals, NoBatch, Batch
    <3> QED
      BY <3>1, <3>2, <3>3, <2>1 DEF HandoverInv, HostOK, PendingOK, NoDuplicateBatch
  <2> QED
    BY <1>5, <2>2, <2>3 DEF AckMembers
<1>6. CASE Recollect
  <2>1. /\ co.pc = "recollect" /\ co' = StartCollect(co)
        /\ UNCHANGED <<host, resent, journal>>
    BY <1>6 DEF Recollect, At, Coordinator, ghosts
  <2>2. co'.fn = co.fn /\ co'.pc = "collect" /\ HandlerOK(co')
    BY <1>1, <2>1, CallFields DEF HandlerOK
  <2> QED
    BY <2>1, <2>2, HandoverGoes
<1> QED
  BY <1>2, <1>3, <1>4, <1>5, <1>6

LEMMA HandoverCollect ==
    ASSUME IInv, HandoverInv, CollectCompletions \/ DeriveRead
    PROVE  HandoverInv'
<1>1. /\ co \in CoordinatorState /\ HandlerOK(co) /\ host \in HostState
      /\ lastId \in Nat
  BY HandlerFacts DEF IInv, TypeOK
<1>2. ASSUME NEW r \in co.unread, ReadResult(r) PROVE HandoverInv'
  <2>1. /\ co.pc = "collect" /\ co'.fn = co.fn /\ co'.pc = "derive" /\ co'.back = co.back
        /\ UNCHANGED <<host, resent, journal>>
    BY <1>1, <1>2 DEF ReadResult, At, Coordinator, ghosts, CoordinatorState
  <2>2. HandlerOK(co')
    BY <1>1, <2>1 DEF HandlerOK
  <2> QED
    BY <2>1, <2>2, HandoverGoes
<1>3. CASE DeriveRead
  <2>1. /\ co.pc = "derive" /\ co'.fn = co.fn /\ co'.pc = "collect" /\ co'.back = co.back
        /\ UNCHANGED <<host, resent, journal>>
    BY <1>1, <1>3 DEF DeriveRead, At, Coordinator, ghosts, CoordinatorState
  <2>2. HandlerOK(co')
    BY <1>1, <2>1 DEF HandlerOK
  <2> QED
    BY <2>1, <2>2, HandoverGoes
<1>4. CASE AdmitCompletions
  <2>1. co.pc = "collect" /\ co.fn # "context" /\ co.back # "context"
    BY <1>1, <1>4 DEF AdmitCompletions, At, HandlerOK
  <2>2. CASE Coordinator(Idle(co))
    BY <2>1, <2>2, HandoverGoes DEF Coordinator, ghosts
  <2>3. ASSUME NEW M \in Slices(Candidates(co.view)),
               journal' = AdmitBatch(journal, lastId + 1, M),
               co' = [Goto(co, "deliver") EXCEPT !.view = UnreadView],
               UNCHANGED <<host, ghosts>>
        PROVE  HandoverInv'
    <3>1. journal'.batch = [id |-> lastId + 1, members |-> M, phase |-> "pending"]
      BY <2>3 DEF AdmitBatch, IInv, TypeOK, Journals
    <3>2. co'.fn = co.fn /\ co'.pc = "deliver" /\ co'.back = co.back
      BY <1>1, <2>3 DEF Goto, CoordinatorState
    <3>3. BatchDelivery(lastId + 1) \notin host.queue \cup host.session
      BY <1>1 DEF HostState, Messages, BatchDelivery, SteerDelivery
    <3>4. HandlerOK(co')
      BY <1>1, <2>1, <3>2 DEF HandlerOK
    <3> QED
      BY <2>1, <2>3, <3>1, <3>2, <3>3, <3>4
         DEF HandoverInv, HostOK, PendingOK, NoDuplicateBatch, ghosts
  <2> QED
    BY <1>4, <2>2, <2>3 DEF AdmitCompletions
<1> QED
  BY <1>2, <1>3, <1>4 DEF CollectCompletions

LEMMA HandoverDeliver ==
    ASSUME IInv, HandoverInv, SendBatch \/ HoldBatch \/ ProposeBatch
    PROVE  HandoverInv'
<1> DEFINE d == BatchDelivery(journal.batch.id)
<1>1. /\ co \in CoordinatorState /\ host \in HostState /\ HandlerOK(co)
      /\ co.pc = "deliver" /\ co.fn \notin {"none", "context"} /\ host.up
      /\ co.back # "context"
  BY HandlerFacts DEF SendBatch, HoldBatch, ProposeBatch, At, HandlerOK
<1>2. /\ journal.batch.phase = "pending" /\ d \notin host.session /\ d \notin host.queue
      /\ d # Nothing
  BY <1>1 DEF HandoverInv, PendingOK, Nothing, BatchDelivery
<1>3. CASE HoldBatch
  BY <1>1, <1>3, HandoverGoes DEF HoldBatch, Coordinator, ghosts
<1>4. CASE SendBatch /\ Fails(Abort(co))
  BY <1>1, <1>4, HandoverGoes DEF Fails, ghosts
<1>5. CASE SendBatch /\ ~Fails(Abort(co))
  <2>1. /\ ~host.busy /\ host' = [host EXCEPT !.queue = @ \cup {d}]
        /\ resent' = Resend(d) /\ co' = Accept(co, "idle") /\ journal' = journal
    BY <1>5 DEF SendBatch
  <2>2. co'.fn = co.fn /\ co'.pc = "queueBatch" /\ HandlerOK(co')
    BY <1>1, <2>1, CallFields DEF HandlerOK
  <2>3. ~WithPi(d)
    BY <1>2, <2>1 DEF WithPi, HandoverInv, HostOK
  <2> QED
    BY <1>1, <2>1, <2>2, <2>3
       DEF HandoverInv, HostOK, PendingOK, NoDuplicateBatch, Resend, HostState
<1>6. CASE ProposeBatch
  <2>1. /\ co.fn = "turnEnd" /\ host' = [host EXCEPT !.proposal = d]
        /\ resent' = Resend(d) /\ co' = Idle(co) /\ journal' = journal
    BY <1>6 DEF ProposeBatch
  <2>2. co'.fn = "none" /\ co'.pc = "idle" /\ HandlerOK(co')
    BY <1>1, <2>1, ReturnFields, ReturnHandler
  <2>3. ~WithPi(d)
    BY <1>2, <2>1 DEF WithPi, HandoverInv, HostOK
  <2> QED
    BY <1>1, <2>1, <2>2, <2>3
       DEF HandoverInv, HostOK, PendingOK, NoDuplicateBatch, Resend, HostState
<1> QED
  BY <1>3, <1>4, <1>5, <1>6

LEMMA HandoverContext ==
    ASSUME IInv, HandoverInv, ContextNext
    PROVE  HandoverInv'
<1>1. co \in CoordinatorState /\ HandlerOK(co) /\ co.pc = "context"
  BY HandlerFacts DEF ContextNext, At
<1>2. UNCHANGED <<host, resent, journal>>
  BY DEF ContextNext, ContextSteer, Coordinator, ghosts
<1>3. ASSUME NEW s, ContextSteer(s) PROVE HandoverInv'
  <2>1. co'.fn = co.fn /\ co'.pc = "ctxQueue" /\ co'.back = co.back
    BY <1>1, <1>3 DEF ContextSteer, Coordinator, CoordinatorState
  <2>2. HandlerOK(co')
    BY <1>1, <2>1 DEF HandlerOK
  <2> QED
    BY <1>1, <1>2, <2>1, <2>2, HandoverGoes
<1>4. CASE co' \in {Accept(co, "idle"), Idle(co)}
  <2>1. /\ Accept(co, "idle").fn = co.fn /\ Accept(co, "idle").back = "idle"
        /\ Accept(co, "idle").pc = "queueBatch" /\ co.fn = "context"
    BY <1>1, CallFields DEF HandlerOK
  <2>2. HandlerOK(Accept(co, "idle"))
    BY <2>1 DEF HandlerOK
  <2> QED
    BY <1>1, <1>2, <1>4, <2>1, <2>2, HandoverGoes
<1> QED
  BY <1>3, <1>4 DEF ContextNext, Coordinator

LEMMA HandoverHost ==
    ASSUME IInv, HandoverInv,
           \/ HostWork \/ HostCommitMessage \/ HostCommitProposal \/ HostDropProposal
           \/ HostSettle \/ HostCrash
    PROVE  HandoverInv'
<1>1. /\ co \in CoordinatorState /\ host \in HostState /\ HandlerOK(co)
      /\ Free => co.fn = "none" /\ co.pc = "idle" /\ co.back = "idle" /\ host.up
  BY HandlerFacts DEF Free
<1> USE DEF HandoverInv, HostOK, PendingOK, NoDuplicateBatch
<1>2. CASE HostWork
  BY <1>1, <1>2 DEF HostWork, Hosts, HostState, ghosts
<1>3. CASE HostCommitMessage
  BY <1>1, <1>3, ZenonT(40) DEF HostCommitMessage, Hosts, HostState, ghosts
<1>4. CASE HostCommitProposal
  BY <1>1, <1>4 DEF HostCommitProposal, HostState
<1>5. CASE HostDropProposal
  BY <1>1, <1>5 DEF HostDropProposal, Hosts, HostState, ghosts
<1>6. CASE HostSettle
  <2>1. PICK again \in BOOLEAN : Settle(again)
    BY <1>6 DEF HostSettle
  <2> DEFINE c == IF co.open THEN Enter(co, "settled", "flush") ELSE co
  <2>2. HandlerOK(c) /\ c.fn \in {"none", "settled"} /\ c.pc \in {"idle", "flush"}
    BY <1>1, <2>1, EnterFields DEF HandlerOK, Settle
  <2>3. /\ Free /\ host.proposal = Nothing /\ co' = c
        /\ host' = [host EXCEPT !.busy = again] /\ UNCHANGED <<journal, resent>>
    BY <2>1 DEF Settle, Hosts, ghosts
  <2> HIDE DEF c
  <2> QED
    BY <1>1, <2>2, <2>3 DEF HostState
<1>7. CASE HostCrash
  <2>1. Closed.fn = "none" /\ Closed.pc = "idle" /\ HandlerOK(Closed)
    BY DEF Closed, HandlerOK
  <2>2. /\ host'.queue = {} /\ host'.proposal = Nothing /\ co' = Closed
        /\ UNCHANGED <<journal, resent>>
    BY <1>7 DEF HostCrash, HostInit, Nothing, ghosts
  <2> QED
    BY <2>1, <2>2
<1> QED
  BY <1>2, <1>3, <1>4, <1>5, <1>6, <1>7

LEMMA HandoverInit ==
    ASSUME Init
    PROVE  HandoverInv
BY DEF Init, HandoverInv, HandlerOK, HostOK, PendingOK, NoDuplicateBatch, Closed, HostInit,
       EmptyJournal, NoBatch

LEMMA HandoverNext ==
    ASSUME IInv, HandoverInv, [Next]_vars
    PROVE  HandoverInv'
<1>1. CASE UNCHANGED <<journal, host, co, resent>>
  BY <1>1 DEF HandoverInv, HandlerOK, HostOK, PendingOK, NoDuplicateBatch
<1>2. CASE OwnMoves \/ NestedMoves \/ RunnerMoves
  BY <1>1, <1>2 DEF OwnMoves, NestedMoves, RunnerMoves, RunsMove, ghosts
<1>3. CASE AnimationTick
  <2>1. /\ co'.fn = co.fn /\ co'.pc = co.pc /\ co'.back = co.back
        /\ UNCHANGED <<journal, host, resent>>
    BY <1>3, LocalFacts DEF AnimationTick, Coordinator, CoordinatorState, IInv, ghosts
  <2> QED
    BY <2>1 DEF HandoverInv, HandlerOK, HostOK, PendingOK, NoDuplicateBatch
<1>4. CASE Launch \/ Reload \/ Update \/ TimerFlush
  BY <1>4, HandoverLaunch, HandoverStarts
<1>5. CASE Handler
  BY <1>5, HandoverTeardown, HandoverWalks, HandoverSteers, HandoverSendSteer,
     HandoverBatch, HandoverCollect, HandoverDeliver, HandoverContext DEF Handler
<1>6. CASE HostMoves
  BY <1>6, HandoverStarts, HandoverHost DEF HostMoves
<1> QED
  BY <1>1, <1>2, <1>3, <1>4, <1>5, <1>6 DEF Next, vars, ghosts

LEMMA HandoverHolds == Spec => [](IInv /\ HandoverInv)
<1>1. Init => IInv /\ HandoverInv
  BY InvariantInit, HandoverInit
<1>2. IInv /\ HandoverInv /\ [Next]_vars => (IInv /\ HandoverInv)'
  BY InvariantNext, HandoverNext
<1> QED
  BY <1>1, <1>2, PTL DEF Spec

(* No order of handlers, failed sends, lock timeouts, reloads and crashes  *)
(* hands Pi a batch that its queue, its proposed entry or the session      *)
(* already holds: flushRunCompletions asks for session evidence before it  *)
(* sends again (run-ui-runtime.ts reconcileCompletionBatch).               *)
THEOREM BatchNeverHandedTwice == Spec => []NoDuplicateBatch
<1>1. HandoverInv => NoDuplicateBatch
  BY DEF HandoverInv
<1> QED
  BY <1>1, HandoverHolds, PTL

-----------------------------------------------------------------------------
(* Handled markers.                                                        *)

markers == <<generation, cut, handled, acked>>

LEMMA MarkersUntouched ==
    ASSUME \/ Launch \/ Reload \/ Update \/ TimerFlush \/ AnimationTick
           \/ Teardown \/ RecoverBatch \/ RecoverSteers \/ MarkSteer \/ FinalizeSteerStep
           \/ Observe \/ AdmitSteers \/ FlushSteers \/ SendSteer \/ SteerSent
           \/ ReconcileBatch \/ MarkBatchQueued \/ MarkBatchPresented
           \/ Recollect \/ CollectCompletions \/ DeriveRead
           \/ SendBatch \/ HoldBatch \/ ProposeBatch
           \/ ContextNext \/ ContextQueue \/ ContextPresent
           \/ HostMoves
    PROVE  UNCHANGED markers
<1> USE DEF markers, runVars, ghosts, Coordinator, Writes, Fails, Hosts
<1>1. CASE Launch \/ Reload \/ Update \/ TimerFlush \/ AnimationTick
  BY <1>1 DEF Launch, Reload, Update, TimerFlush, AnimationTick
<1>2. CASE Teardown
  BY <1>2 DEF Teardown, TeardownOne, StopSignal
<1>3. CASE RecoverBatch \/ RecoverSteers \/ MarkSteer \/ FinalizeSteerStep \/ Observe
  BY <1>3 DEF RecoverBatch, RecoverSteers, MarkSteer, FinalizeSteerStep, Observe
<1>4. CASE AdmitSteers \/ FlushSteers \/ SendSteer \/ SteerSent
  BY <1>4 DEF AdmitSteers, AdmitOne, FlushSteers, FlushOne, FlushDone, SendSteer, SteerSent
<1>5. CASE ReconcileBatch \/ MarkBatchQueued \/ MarkBatchPresented \/ Recollect
  BY <1>5 DEF ReconcileBatch, MarkBatchQueued, MarkBatchPresented, Recollect
<1>6. CASE CollectCompletions \/ DeriveRead
  BY <1>6 DEF CollectCompletions, ReadResult, AdmitCompletions, DeriveRead
<1>7. CASE SendBatch \/ HoldBatch \/ ProposeBatch
  BY <1>7 DEF SendBatch, HoldBatch, ProposeBatch
<1>8. CASE ContextNext \/ ContextQueue \/ ContextPresent
  BY <1>8 DEF ContextNext, ContextSteer, ContextQueue, ContextPresent
<1>9. CASE HostMoves
  BY <1>9 DEF HostMoves, HostWork, HostCommitMessage, HostContext, HostTurnEnd,
              HostCommitProposal, HostDropProposal, HostSettle, Settle, HostCrash
<1> QED
  BY <1>1, <1>2, <1>3, <1>4, <1>5, <1>6, <1>7, <1>8, <1>9

LEMMA AcknowledgedRecord ==
    ASSUME IInv, HandledIsAccounted, AckMembers
    PROVE  HandledIsAccounted'
<1>1. co.unacked \subseteq Member
  BY LocalFacts DEF IInv, CoordinatorState
<1>2. ASSUME NEW m \in co.unacked, AckOne(m), ~Fails(Abort(co)) PROVE HandledIsAccounted'
  <2>1. m \in Member /\ m.run \in Runs
    BY <1>1, <1>2 DEF Member
  <2>2. /\ handled' = [handled EXCEPT ![m.run] = @ \/ SameRecord(m)]
        /\ acked' = IF SameRecord(m) THEN acked \cup {m} ELSE acked
        /\ UNCHANGED <<generation, cut>>
    BY <1>2 DEF AckOne
  <2>3. CASE ~SameRecord(m)
    <3>1. handled' = handled
      BY <2>1, <2>2, <2>3 DEF IInv, TypeOK, RunsTypeOK
    <3> QED
      BY <2>2, <2>3, <3>1 DEF HandledIsAccounted
  <2>4. CASE SameRecord(m)
    <3>1. generation[m.run] = m.generation /\ m \in acked' /\ acked \subseteq acked'
      BY <2>2, <2>4 DEF SameRecord
    <3>2. \A r \in Runs \ {m.run} : handled'[r] = handled[r]
      BY <2>1, <2>2 DEF IInv, TypeOK, RunsTypeOK
    <3> QED
      BY <2>2, <3>1, <3>2 DEF HandledIsAccounted
  <2> QED
    BY <2>3, <2>4
<1>3. CASE \/ Fails(Abort(co))
           \/ Writes(FinalizeBatch(journal, journal.batch.id), Goto(co, co.back))
  <2>1. UNCHANGED markers
    BY <1>3 DEF Fails, Writes, markers, runVars, ghosts
  <2> QED
    BY <2>1 DEF markers, HandledIsAccounted
<1> QED
  BY <1>2, <1>3 DEF AckMembers

LEMMA RunsAccounted ==
    ASSUME IInv, HandledIsAccounted, OwnMoves \/ NestedMoves \/ RunnerMoves
    PROVE  HandledIsAccounted'
<1> USE DEF IInv, TypeOK, RunsTypeOK, HandledIsAccounted
<1>1. acked' = acked
  BY DEF OwnMoves, NestedMoves, RunnerMoves, RunsMove, ghosts
<1>2. ASSUME NEW r \in Runs, NEW proc, FreshGeneration(r, proc) PROVE HandledIsAccounted'
  BY <1>1, <1>2 DEF FreshGeneration
<1>3. ASSUME NEW r \in Runs, StopRecord(r) PROVE HandledIsAccounted'
  BY <1>1, <1>3 DEF StopRecord
<1>4. ASSUME NEW r \in Runs, StopHandled(r) PROVE HandledIsAccounted'
  <2>1. \A x \in Runs \ {r} : handled'[x] = handled[x]
    BY <1>4 DEF StopHandled
  <2>2. cut[r] # "none" /\ UNCHANGED <<cut, generation>>
    BY <1>4 DEF StopHandled
  <2> QED
    BY <1>1, <2>1, <2>2
<1>5. ASSUME NEW r \in Runs, RetainRun(r) PROVE HandledIsAccounted'
  BY <1>1, <1>5 DEF RetainRun
<1>6. ASSUME NEW r \in Runs,
             \/ SpawnNested(r) \/ StopAbandoned(r) \/ RunnerExit(r)
             \/ \E how \in Interruptions : StopSignal(r, how)
             \/ \E e \in Events : RunnerPublishSteer(r, e)
             \/ \E code \in Codes : RunnerFinish(r, code)
      PROVE  HandledIsAccounted'
  <2>1. UNCHANGED <<generation, cut, handled>>
    BY <1>6 DEF SpawnNested, StopAbandoned, RunnerExit, StopSignal,
                RunnerPublishSteer, RunnerFinish
  <2> QED
    BY <1>1, <2>1
<1>7. CASE OwnMoves
  BY <1>2, <1>3, <1>4, <1>5, <1>6, <1>7 DEF OwnMoves, RunsMove, StartTopLevel
<1>8. CASE NestedMoves
  BY <1>2, <1>3, <1>4, <1>5, <1>6, <1>8 DEF NestedMoves, RunsMove, StartNested
<1>9. CASE RunnerMoves
  BY <1>6, <1>9 DEF RunnerMoves, RunsMove
<1> QED
  BY <1>7, <1>8, <1>9

LEMMA AccountedNext ==
    ASSUME IInv, HandledIsAccounted, [Next]_vars
    PROVE  HandledIsAccounted'
<1>1. CASE UNCHANGED markers
  BY <1>1 DEF markers, HandledIsAccounted
<1>2. CASE UNCHANGED vars
  BY <1>1, <1>2 DEF vars, markers, runVars, ghosts
<1>3. CASE OwnMoves \/ NestedMoves \/ RunnerMoves
  BY <1>3, RunsAccounted
<1>4. CASE AckMembers
  BY <1>4, AcknowledgedRecord
<1>5. CASE Next
  BY <1>1, <1>3, <1>4, <1>5, MarkersUntouched DEF Next, Handler
<1> QED
  BY <1>2, <1>5

(* The handled marker of a Run directory speaks of the generation that is  *)
(* in it: a stop interrupted that generation, or delivery acknowledged it. *)
(* prepareStateDirForStart, retainRun and the exact-generation check of    *)
(* markRunTerminalNotificationHandled leave no other (async-runs.ts).      *)
THEOREM HandledAlwaysAccounted == Spec => []HandledIsAccounted
<1>1. Init => HandledIsAccounted
  BY DEF Init, RunsInit, HandledIsAccounted
<1>2. IInv /\ HandledIsAccounted /\ [Next]_vars => HandledIsAccounted'
  BY AccountedNext
<1> QED
  BY <1>1, <1>2, InvariantHolds, PTL DEF Spec

-----------------------------------------------------------------------------
(* Urgent steers: what the Traces, the journal and the coordinator's       *)
(* memory say of one another.                                              *)

Item(kind, e) == [kind |-> kind, event |-> e]

\* Steers that the coordinator or its journal can name: their event was appended,
\* in a generation that was started.
Known(s) == s.event \in published /\ s.generation <= generation[s.run]

\* Wherever the Trace retains s, a presentation marker follows it.
Followed(s) ==
    present[s.run] /\ generation[s.run] = s.generation =>
        \A i \in DOMAIN trace[s.run] :
            trace[s.run][i] = Item("steer", s.event) =>
                \E k \in DOMAIN trace[s.run] :
                    k > i /\ trace[s.run][k] = Item("presented", s.event)

\* A Trace holds events that were published, and markers of steers that the
\* generation in its directory owed and the model was shown.
TraceOK ==
    \A r \in Runs, e \in Events :
        /\ InTrace(r, "steer", e) => e \in published
        /\ InTrace(r, "presented", e) =>
               [run |-> r, generation |-> generation[r], event |-> e] \in shown

\* The journal's presented steers and its receipts are of steers that were shown,
\* and a shown steer that left the journal has its marker.
ShownOK ==
    /\ \A s \in Steer : journal.steers[s] # "absent" \/ s \in shown => Known(s)
    /\ \A s \in shown : journal.steers[s] \in {"presented", "absent"}
    /\ \A s \in shown : journal.steers[s] = "absent" => Followed(s)
    /\ \A s \in Steer :
           journal.steers[s] = "presented" \/ HasReceipt(journal, SteerDelivery(s))
               => s \in shown

Hand == {"mark", "finish", "send", "sent", "ctxQueue", "ctxPresent"}

\* What the coordinator's memory c says of steers: one about to be acknowledged
\* was shown, one about to be sent or admitted was not, and those the context
\* handler still has to present are active.
SteerMemoryOK(c) ==
    /\ \A s \in c.todo : Known(s)
    /\ c.pc \in Hand => Known(c.cur)
    /\ c.pc \in {"mark", "finish"} => c.cur \in shown
    /\ c.pc = "finish" => Followed(c.cur)
    /\ c.pc = "send" => c.cur \notin shown
    /\ c.pc = "admit" => \A s \in c.todo \cap shown : journal.steers[s] # "absent"
    /\ c.fn = "context" =>
           /\ \A s \in c.todo : journal.steers[s] # "absent"
           /\ c.pc \in Hand => c.cur \notin c.todo /\ journal.steers[c.cur] # "absent"
    /\ c.pc = "ctxPresent" => journal.steers[c.cur] # "pending"

SteersInv == TraceOK /\ ShownOK /\ SteerMemoryOK(co)

-----------------------------------------------------------------------------
(* The Trace journal of a Run.                                             *)

\* Appending keeps a suffix and puts the new item last.
LEMMA NewestAppend ==
    ASSUME NEW q \in Seq(TraceItem), NEW x \in TraceItem
    PROVE  \E off \in Nat :
               /\ Newest(Append(q, x)) \in Seq(TraceItem)
               /\ Len(Newest(Append(q, x))) >= 1
               /\ Len(Newest(Append(q, x))) + off = Len(q) + 1
               /\ \A i \in 1 .. Len(Newest(Append(q, x))) :
                      Newest(Append(q, x))[i] = IF i + off = Len(q) + 1 THEN x
                                                ELSE q[i + off]
<1> DEFINE a == Append(q, x)
<1>1. /\ a \in Seq(TraceItem) /\ Len(a) = Len(q) + 1
      /\ \A i \in 1 .. Len(a) : a[i] = IF i = Len(q) + 1 THEN x ELSE q[i]
  OBVIOUS
<1> HIDE DEF a
<1> DEFINE Suffix(n, off) ==
              /\ n \in Seq(TraceItem) /\ Len(n) >= 1 /\ Len(n) + off = Len(q) + 1
              /\ \A i \in 1 .. Len(n) : n[i] = IF i + off = Len(q) + 1 THEN x ELSE q[i + off]
<1>2. CASE Len(a) <= TraceMax
  <2>1. Newest(a) = a
    BY <1>2 DEF Newest
  <2>2. Suffix(a, 0)
    BY <1>1
  <2> QED
    BY <2>1, <2>2 DEF a
<1>3. CASE Len(a) > TraceMax
  <2> DEFINE off == Len(a) - TraceMax
             n == SubSeq(a, off + 1, Len(a))
  <2>1. TraceMax \in Nat \ {0} /\ Len(a) \in Nat
    BY <1>1, RunsAssumption
  <2>2. off \in Nat /\ off + 1 >= 1
    BY <1>3, <2>1
  <2>3. /\ n \in Seq(TraceItem) /\ Len(n) = TraceMax
        /\ \A i \in 1 .. TraceMax : n[i] = a[i + off]
    BY <1>1, <1>3, <2>1
  <2>4. Newest(a) = n
    BY <1>1, <1>3, <2>1 DEF Newest
  <2>5. \A i \in 1 .. TraceMax : i + off \in 1 .. Len(a)
    BY <1>3, <2>1
  <2> HIDE DEF n
  <2>6. Len(n) >= 1 /\ Len(n) + off = Len(q) + 1
    BY <1>1, <2>1, <2>3
  <2> HIDE DEF off
  <2>7. \A i \in 1 .. Len(n) : n[i] = IF i + off = Len(q) + 1 THEN x ELSE q[i + off]
    BY <1>1, <2>3, <2>5
  <2> QED
    BY <2>2, <2>3, <2>4, <2>6, <2>7 DEF a
<1>4. TraceMax \in Nat /\ Len(a) \in Nat
  BY <1>1, RunsAssumption
<1>5. Len(a) <= TraceMax \/ Len(a) > TraceMax
  BY <1>4
<1> QED
  BY <1>2, <1>3, <1>5

\* What one appended item changes of what the Traces say.
LEMMA AppendFacts ==
    ASSUME RunsTypeOK, NEW r \in Runs, NEW x \in TraceItem,
           trace' = AppendTrace(r, x), UNCHANGED <<generation, present>>
    PROVE  /\ \A a \in Runs, kind \in {"steer", "presented"}, e \in Events :
                  InTrace(a, kind, e)' => \/ InTrace(a, kind, e)
                                          \/ a = r /\ x = Item(kind, e)
           /\ \A s \in Steer :
                  Followed(s) /\ (s.run # r \/ x # Item("steer", s.event)) => Followed(s)'
           /\ \A s \in Steer :
                  s.run = r /\ x = Item("presented", s.event) => Followed(s)'
<1> DEFINE q == trace[r]
           n == Newest(Append(q, x))
<1>1. q \in Seq(TraceItem) /\ Len(q) \in Nat
  BY DEF RunsTypeOK
<1>2. PICK off \in Nat :
          /\ n \in Seq(TraceItem) /\ Len(n) >= 1 /\ Len(n) + off = Len(q) + 1
          /\ \A i \in 1 .. Len(n) : n[i] = IF i + off = Len(q) + 1 THEN x ELSE q[i + off]
  BY <1>1, NewestAppend
<1>3. trace'[r] = n /\ \A a \in Runs \ {r} : trace'[a] = trace[a]
  BY DEF AppendTrace, RunsTypeOK
<1> HIDE DEF q, n
<1>4. /\ DOMAIN n = 1 .. Len(n) /\ DOMAIN q = 1 .. Len(q) /\ Len(n) \in Nat
      /\ n[Len(n)] = x
      /\ \A i \in DOMAIN n : i < Len(n) => i + off \in DOMAIN q /\ n[i] = q[i + off]
  BY <1>1, <1>2
<1>5. q = trace[r]
  BY DEF q
<1>6. ASSUME NEW a \in Runs, NEW kind, NEW e, InTrace(a, kind, e)'
      PROVE  InTrace(a, kind, e) \/ (a = r /\ x = Item(kind, e))
  <2>1. CASE a # r
    BY <1>3, <1>6, <2>1 DEF InTrace
  <2>2. CASE a = r
    <3>1. PICK i \in DOMAIN n : n[i] = Item(kind, e)
      BY <1>3, <1>6, <2>2 DEF InTrace, Item
    <3>2. CASE i = Len(n)
      BY <1>4, <2>2, <3>1, <3>2
    <3>3. CASE i # Len(n)
      <4>1. i < Len(n)
        BY <1>4, <3>1, <3>3
      <4>2. i + off \in DOMAIN q /\ q[i + off] = Item(kind, e)
        BY <1>4, <3>1, <4>1
      <4> QED
        BY <1>5, <2>2, <4>2 DEF InTrace, Item
    <3> QED
      BY <3>2, <3>3
  <2> QED
    BY <2>1, <2>2
<1>7. ASSUME NEW s \in Steer, Followed(s), s.run # r \/ x # Item("steer", s.event)
      PROVE  Followed(s)'
  <2>1. s.run \in Runs
    BY DEF Steer
  <2>2. CASE s.run # r
    BY <1>3, <1>7, <2>1, <2>2 DEF Followed
  <2>3. CASE s.run = r
    <3>1. SUFFICES ASSUME present[r], generation[r] = s.generation, NEW i \in DOMAIN n,
                          n[i] = Item("steer", s.event)
                   PROVE  \E k \in DOMAIN n : k > i /\ n[k] = Item("presented", s.event)
      BY <1>3, <2>3 DEF Followed
    <3>2. i < Len(n) /\ i \in Nat
      BY <1>4, <1>7, <2>3, <3>1
    <3>3. i + off \in DOMAIN q /\ q[i + off] = Item("steer", s.event)
      BY <1>4, <3>1, <3>2
    <3>4. PICK k \in DOMAIN q : k > i + off /\ q[k] = Item("presented", s.event)
      BY <1>5, <1>7, <2>3, <3>1, <3>3 DEF Followed
    <3>5. k - off \in DOMAIN n /\ k - off > i /\ k - off < Len(n)
      BY <1>1, <1>2, <1>4, <3>2, <3>3, <3>4
    <3>6. n[k - off] = q[k - off + off] /\ k - off + off = k
      BY <1>4, <3>2, <3>4, <3>5
    <3> QED
      BY <3>4, <3>5, <3>6
  <2> QED
    BY <2>2, <2>3
<1>8. ASSUME NEW s \in Steer, s.run = r, x = Item("presented", s.event)
      PROVE  Followed(s)'
  <2>1. SUFFICES ASSUME NEW i \in DOMAIN n, n[i] = Item("steer", s.event)
                 PROVE  \E k \in DOMAIN n : k > i /\ n[k] = Item("presented", s.event)
    BY <1>3, <1>8 DEF Followed
  <2>2. i # Len(n)
    BY <1>4, <1>8, <2>1 DEF Item
  <2>3. Len(n) > i /\ Len(n) \in DOMAIN n
    BY <1>2, <1>4, <2>1, <2>2
  <2> QED
    BY <1>4, <1>8, <2>3
<1> QED
  BY <1>6, <1>7, <1>8

-----------------------------------------------------------------------------
(* Steps that leave the Traces and the steers of the journal alone.        *)

steerVars == <<generation, present, trace, published, shown>>

\* No steer of the journal moves, and no receipt of a steer appears.
SteersStay ==
    /\ journal'.steers = journal.steers
    /\ \A s \in Steer :
           HasReceipt(journal', SteerDelivery(s)) => HasReceipt(journal, SteerDelivery(s))

LEMMA SteersFrame ==
    ASSUME SteersInv, NEW c, SteerMemoryOK(c), co' = c, UNCHANGED steerVars, SteersStay
    PROVE  SteersInv'
<1> USE DEF steerVars, SteersStay
<1>1. \A s : Known(s)' <=> Known(s)
  BY DEF Known
<1>2. \A s : Followed(s)' <=> Followed(s)
  BY DEF Followed
<1>3. TraceOK'
  BY DEF SteersInv, TraceOK, InTrace
<1>4. ShownOK'
  BY <1>1, <1>2 DEF SteersInv, ShownOK
<1>5. SteerMemoryOK(co)'
  BY <1>1, <1>2 DEF SteerMemoryOK
<1> QED
  BY <1>3, <1>4, <1>5 DEF SteersInv

LEMMA SameJournal ==
    ASSUME journal' = journal
    PROVE  SteersStay
BY DEF SteersStay

\* A memory at a label that claims nothing of a steer: what it lists is active, or
\* was listed before.
LEMMA AwayMemory ==
    ASSUME SteersInv, NEW c, c.pc \notin Hand \cup {"admit"},
           \/ c.todo \subseteq ActiveSteers(journal)
           \/ c.todo \subseteq co.todo /\ (c.fn = "context" => co.fn = "context")
    PROVE  SteerMemoryOK(c)
BY DEF SteersInv, ShownOK, SteerMemoryOK, ActiveSteers, Hand

LEMMA SameMemory ==
    ASSUME SteersInv, NEW c, c.fn = co.fn, c.pc = co.pc, c.todo = co.todo, c.cur = co.cur
    PROVE  SteerMemoryOK(c)
BY DEF SteersInv, SteerMemoryOK

LEMMA ReturnMemory ==
    ASSUME SteersInv, co \in CoordinatorState, NEW c,
           c \in {Idle(co), Shut(co), Abort(co), Closed}
    PROVE  SteerMemoryOK(c)
<1>1. c.pc = "idle" /\ c.todo = {}
  BY ReturnFields DEF Closed
<1> QED
  BY <1>1, AwayMemory DEF Hand

LEMMA SteersStarts ==
    ASSUME IInv, SteersInv,
           \/ Launch \/ Reload \/ Update \/ TimerFlush \/ AnimationTick
           \/ HostContext \/ HostTurnEnd
    PROVE  SteersInv'
<1>1. co \in CoordinatorState
  BY LocalFacts DEF IInv
<1>2. SteersStay /\ UNCHANGED steerVars
  <2>1. journal' = journal /\ UNCHANGED steerVars
    BY DEF Launch, Reload, Update, TimerFlush, AnimationTick, HostContext, HostTurnEnd,
           Coordinator, runVars, ghosts, steerVars
  <2> QED
    BY <2>1, SameJournal
<1>3. CASE Launch
  <2>1. SteerMemoryOK(Started(co))
    BY <1>1, StartedFields, AwayMemory DEF Hand
  <2> QED
    BY <1>2, <1>3, <2>1, SteersFrame DEF Launch
<1>4. CASE Reload
  <2> DEFINE c == [Shut(co) EXCEPT !.fn = "shutdown", !.pc = "teardown",
                                   !.unread = OwnRunning]
  <2>1. Shut(co) \in CoordinatorState /\ Shut(co).todo = {}
    BY <1>1, ReturnOK, ReturnFields
  <2>2. c.pc = "teardown" /\ c.todo = {}
    BY <2>1 DEF CoordinatorState
  <2> HIDE DEF c
  <2>3. SteerMemoryOK(c)
    BY <2>2, AwayMemory DEF Hand
  <2> QED
    BY <1>2, <1>4, <2>3, SteersFrame DEF Reload, c
<1>5. ASSUME NEW d \in CoordinatorState, NEW fn, NEW pc \in {"observe", "flush", "context"},
             co' = Enter(d, fn, pc)
      PROVE  SteersInv'
  <2>1. SteerMemoryOK(Enter(d, fn, pc))
    BY EnterFields, AwayMemory DEF Hand
  <2> QED
    BY <1>2, <1>5, <2>1, SteersFrame
<1>6. CASE Update \/ HostContext \/ HostTurnEnd
  BY <1>1, <1>5, <1>6 DEF Update, HostContext, HostTurnEnd, Coordinator
<1>7. CASE TimerFlush
  <2>1. [co EXCEPT !.armed = FALSE] \in CoordinatorState
    BY <1>1 DEF CoordinatorState
  <2> QED
    BY <1>5, <1>7, <2>1 DEF TimerFlush, Coordinator
<1>8. CASE AnimationTick
  <2>1. co'.fn = co.fn /\ co'.pc = co.pc /\ co'.todo = co.todo /\ co'.cur = co.cur
    BY <1>1, <1>8 DEF AnimationTick, Coordinator, CoordinatorState
  <2> QED
    BY <1>2, <2>1, SameMemory, SteersFrame
<1> QED
  BY <1>3, <1>4, <1>6, <1>7, <1>8

LEMMA SteersHost ==
    ASSUME IInv, SteersInv,
           \/ HostWork \/ HostCommitMessage \/ HostCommitProposal \/ HostDropProposal
           \/ HostSettle \/ HostCrash
    PROVE  SteersInv'
<1>1. co \in CoordinatorState
  BY LocalFacts DEF IInv
<1>2. SteersStay /\ UNCHANGED steerVars
  <2>1. journal' = journal /\ UNCHANGED steerVars
    BY DEF HostWork, HostCommitMessage, HostCommitProposal, HostDropProposal, HostSettle,
           Settle, HostCrash, Hosts, runVars, ghosts, steerVars
  <2> QED
    BY <2>1, SameJournal
<1>3. CASE co' \in {co, Closed}
  <2>1. SteerMemoryOK(co) /\ SteerMemoryOK(Closed)
    BY <1>1, ReturnMemory DEF SteersInv
  <2> QED
    BY <1>2, <1>3, <2>1, SteersFrame
<1>4. CASE co' = Enter(co, "settled", "flush")
  <2>1. SteerMemoryOK(Enter(co, "settled", "flush"))
    BY <1>1, EnterFields, AwayMemory DEF Hand
  <2> QED
    BY <1>2, <1>4, <2>1, SteersFrame
<1> QED
  BY <1>3, <1>4 DEF HostWork, HostCommitMessage, HostCommitProposal, HostDropProposal,
                    HostSettle, Settle, HostCrash, Hosts

LEMMA SteersTeardown ==
    ASSUME IInv, SteersInv, Teardown
    PROVE  SteersInv'
<1>1. co \in CoordinatorState
  BY LocalFacts DEF IInv
<1>2. SteersStay /\ UNCHANGED steerVars
  <2>1. journal' = journal /\ UNCHANGED steerVars
    BY DEF Teardown, TeardownOne, StopSignal, Coordinator, runVars, ghosts, steerVars
  <2> QED
    BY <2>1, SameJournal
<1>3. ASSUME NEW r \in co.unread, TeardownOne(r) PROVE SteersInv'
  <2>1. co'.fn = co.fn /\ co'.pc = co.pc /\ co'.todo = co.todo /\ co'.cur = co.cur
    BY <1>1, <1>3 DEF TeardownOne, Coordinator, CoordinatorState
  <2> QED
    BY <1>2, <2>1, SameMemory, SteersFrame
<1>4. ASSUME NEW memory \in {co, Closed}, Coordinator(Started(memory)) PROVE SteersInv'
  <2>1. memory \in CoordinatorState
    BY <1>1, <1>4, ClosedOK
  <2>2. SteerMemoryOK(Started(memory))
    BY <2>1, StartedFields, AwayMemory DEF Hand
  <2> QED
    BY <1>2, <1>4, <2>2, SteersFrame DEF Coordinator
<1> QED
  BY <1>3, <1>4 DEF Teardown

\* Remembering a delivery makes no other receipt.
LEMMA RememberOld ==
    ASSUME NEW q \in Seq(Deliveries), NEW d \in Deliveries,
           NEW i \in DOMAIN Remember(q, d)
    PROVE  Remember(q, d)[i] = d \/ \E k \in DOMAIN q : Remember(q, d)[i] = q[k]
<1> DEFINE w == Without(q, d)
           a == Append(w, d)
<1>1. w \in Seq(Deliveries) /\ \A k \in DOMAIN w : \E m \in DOMAIN q : w[k] = q[m]
  <2>1. CASE \E k \in DOMAIN q : q[k] = d
    <3> DEFINE at == CHOOSE k \in DOMAIN q : q[k] = d
               f == [k \in 1 .. Len(q) - 1 |-> IF k < at THEN q[k] ELSE q[k + 1]]
    <3>1. at \in 1 .. Len(q)
      BY <2>1
    <3>2. w = f
      BY <2>1 DEF Without
    <3> HIDE DEF at
    <3>3. f \in Seq(Deliveries) /\ DOMAIN f = 1 .. Len(q) - 1
      BY <3>1
    <3>4. ASSUME NEW k \in 1 .. Len(q) - 1 PROVE \E m \in DOMAIN q : f[k] = q[m]
      <4>1. k \in DOMAIN q /\ k + 1 \in DOMAIN q
        BY <3>4
      <4>2. f[k] = q[k] \/ f[k] = q[k + 1]
        BY <3>4
      <4> QED
        BY <4>1, <4>2
    <3> QED
      BY <3>2, <3>3, <3>4
  <2> QED
    BY <2>1 DEF Without
<1> HIDE DEF w
<1>2. /\ a \in Seq(Deliveries) /\ Len(a) \in Nat
      /\ \A k \in DOMAIN a : a[k] = d \/ \E m \in DOMAIN q : a[k] = q[m]
  <2>1. a \in Seq(Deliveries) /\ Len(a) = Len(w) + 1 /\ DOMAIN a = 1 .. Len(w) + 1
    BY <1>1
  <2>2. \A k \in DOMAIN a : k = Len(w) + 1 \/ k \in DOMAIN w
    BY <1>1, <2>1
  <2>3. a[Len(w) + 1] = d /\ \A k \in DOMAIN w : a[k] = w[k]
    BY <1>1
  <2> QED
    BY <1>1, <2>1, <2>2, <2>3
<1> HIDE DEF a
<1>3. Remember(q, d) = NewestReceipts(a)
  BY DEF Remember, a, w
<1>4. CASE Len(a) <= ReceiptLimit
  BY <1>2, <1>3, <1>4 DEF NewestReceipts
<1>5. CASE Len(a) > ReceiptLimit
  <2> DEFINE from == Len(a) - ReceiptLimit + 1
  <2>1. Remember(q, d) = SubSeq(a, from, Len(a)) /\ from \in 1 .. Len(a)
    BY <1>2, <1>3, <1>5, DeliveryAssumption DEF NewestReceipts
  <2> HIDE DEF from
  <2>2. i \in 1 .. (Len(a) - from + 1) /\ Remember(q, d)[i] = a[i + from - 1]
    BY <1>2, <2>1
  <2>3. i + from - 1 \in DOMAIN a
    BY <1>2, <2>1, <2>2
  <2> QED
    BY <1>2, <2>2, <2>3
<1> QED
  BY <1>2, <1>4, <1>5, DeliveryAssumption

\* The calls for the batch leave the steers and their receipts alone.
LEMMA BatchCallSteers ==
    ASSUME journal \in Journals, NEW id, NEW M,
           journal' \in {AdmitBatch(journal, id, M), QueueBatch(journal, journal.batch.id),
                         PresentBatch(journal, journal.batch.id),
                         FinalizeBatch(journal, journal.batch.id)}
    PROVE  SteersStay
<1> DEFINE d == BatchDelivery(journal.batch.id)
<1>1. journal.receipts \in Seq(Deliveries) /\ d \in Deliveries
  BY DEF Journals, Batch, BatchDelivery, Deliveries
<1>2. /\ journal'.steers = journal.steers
      /\ \/ journal'.receipts = journal.receipts
         \/ journal'.receipts = Remember(journal.receipts, d)
  BY DEF AdmitBatch, QueueBatch, PresentBatch, FinalizeBatch, Journals
<1>3. ASSUME NEW s \in Steer, HasReceipt(journal', SteerDelivery(s))
      PROVE  HasReceipt(journal, SteerDelivery(s))
  <2>1. SteerDelivery(s) # d
    BY DEF SteerDelivery, BatchDelivery
  <2>2. CASE journal'.receipts = journal.receipts
    BY <1>3, <2>2 DEF HasReceipt
  <2>3. CASE journal'.receipts = Remember(journal.receipts, d)
    BY <1>1, <1>3, <2>1, <2>3, RememberOld DEF HasReceipt
  <2> QED
    BY <1>2, <2>2, <2>3
<1> QED
  BY <1>2, <1>3 DEF SteersStay

LEMMA SteersBatch ==
    ASSUME IInv, SteersInv,
           \/ RecoverBatch \/ ReconcileBatch \/ MarkBatchQueued \/ MarkBatchPresented
           \/ AckMembers \/ Recollect
    PROVE  SteersInv'
<1>1. co \in CoordinatorState /\ journal \in Journals
  BY LocalFacts DEF IInv, TypeOK
<1>2. ASSUME NEW c, c.pc \notin Hand \cup {"admit"}, c.todo \subseteq co.todo,
             c.fn \in {"none", co.fn}, co' = c, SteersStay, UNCHANGED steerVars
      PROVE  SteersInv'
  <2>1. SteerMemoryOK(c)
    BY <1>2, AwayMemory
  <2> QED
    BY <1>2, <2>1, SteersFrame
<1>3. /\ Idle(co).pc = "idle" /\ Idle(co).todo = {} /\ Idle(co).fn = "none"
      /\ Abort(co).pc = "idle" /\ Abort(co).todo = {} /\ Abort(co).fn = "none"
  BY <1>1, ReturnFields
<1>4. ASSUME NEW label \in {"recoverSteers", "flush", "recollect", "context", "idle",
                            "deliver", "presentBatch"}
      PROVE  /\ Goto(co, label).pc = label /\ Goto(co, label).todo \subseteq co.todo
             /\ Goto(co, label).fn \in {"none", co.fn}
  BY <1>1, <1>3, GotoFields
<1>5. CASE RecoverBatch
  <2>1. /\ SteersStay /\ UNCHANGED steerVars
        /\ co' \in {Acknowledge(co, "recoverSteers"), Goto(co, "recoverSteers")}
    BY <1>5, SameJournal DEF RecoverBatch, Coordinator, runVars, ghosts, steerVars
  <2> QED
    BY <1>1, <1>2, <1>4, <2>1, CallFields DEF Hand
<1>6. CASE ReconcileBatch
  <2>1. SteersStay /\ UNCHANGED steerVars
    <3>1. journal' = journal /\ UNCHANGED steerVars
      BY <1>6 DEF ReconcileBatch, Coordinator, runVars, ghosts, steerVars
    <3> QED
      BY <3>1, SameJournal
  <2>2. co' \in {StartCollect(co), Accept(co, "recollect"), Goto(co, "deliver"), Idle(co)}
    <3>1. ASSUME NEW e \in Evidence(BatchDelivery(journal.batch.id)),
                 Coordinator(CASE e = "absent" -> Goto(co, "deliver")
                               [] e = "present" -> Accept(co, "recollect")
                               [] e = "unknown" -> Idle(co))
          PROVE  co' \in {Accept(co, "recollect"), Goto(co, "deliver"), Idle(co)}
      <4>1. e \in {"absent", "present", "unknown"}
        BY <3>1 DEF Evidence
      <4> QED
        BY <3>1, <4>1 DEF Coordinator
    <3> QED
      BY <1>6, <3>1 DEF ReconcileBatch, Coordinator
  <2> QED
    BY <1>1, <1>2, <1>3, <1>4, <2>1, <2>2, CallFields DEF Hand
<1>7. CASE MarkBatchQueued
  <2>1. SteersStay /\ UNCHANGED steerVars /\ co' = Goto(co, "presentBatch")
    BY <1>1, <1>7, BatchCallSteers
       DEF MarkBatchQueued, Writes, runVars, ghosts, steerVars
  <2> QED
    BY <1>2, <1>4, <2>1 DEF Hand
<1>8. CASE MarkBatchPresented
  <2>1. SteersStay /\ UNCHANGED steerVars /\ co' = Acknowledge(co, co.back)
    BY <1>1, <1>8, BatchCallSteers
       DEF MarkBatchPresented, Writes, runVars, ghosts, steerVars
  <2> QED
    BY <1>1, <1>2, <2>1, CallFields DEF Hand
<1>9. ASSUME NEW m \in co.unacked, AckOne(m) PROVE SteersInv'
  <2> DEFINE c == [co EXCEPT !.unacked = @ \ {m}]
  <2>1. journal' = journal /\ UNCHANGED steerVars /\ co' \in {c, Abort(co)}
    BY <1>9 DEF AckOne, Fails, runVars, ghosts, steerVars
  <2>2. c.fn = co.fn /\ c.pc = co.pc /\ c.todo = co.todo /\ c.cur = co.cur
    BY <1>1 DEF CoordinatorState
  <2> HIDE DEF c
  <2>3. SteerMemoryOK(c) /\ SteerMemoryOK(Abort(co))
    BY <1>1, <2>2, SameMemory, ReturnMemory
  <2> QED
    BY <2>1, <2>3, SameJournal, SteersFrame
<1>10. CASE Writes(FinalizeBatch(journal, journal.batch.id), Goto(co, co.back))
  <2>1. SteersStay /\ UNCHANGED steerVars /\ co' = Goto(co, co.back)
    BY <1>1, <1>10, BatchCallSteers DEF Writes, runVars, ghosts, steerVars
  <2>2. co.back \in {"recoverSteers", "flush", "recollect", "context", "idle"}
    BY <1>1 DEF CoordinatorState
  <2> QED
    BY <1>2, <1>4, <2>1, <2>2 DEF Hand
<1>11. CASE Recollect
  <2>1. journal' = journal /\ UNCHANGED steerVars /\ co' = StartCollect(co)
    BY <1>11 DEF Recollect, Coordinator, runVars, ghosts, steerVars
  <2> QED
    BY <1>1, <1>2, <2>1, CallFields, SameJournal DEF Hand
<1> QED
  BY <1>5, <1>6, <1>7, <1>8, <1>9, <1>10, <1>11 DEF AckMembers

LEMMA SteersCollect ==
    ASSUME IInv, SteersInv,
           CollectCompletions \/ DeriveRead \/ SendBatch \/ HoldBatch \/ ProposeBatch
    PROVE  SteersInv'
<1>1. co \in CoordinatorState /\ journal \in Journals
  BY LocalFacts DEF IInv, TypeOK
<1>2. UNCHANGED steerVars
  BY DEF CollectCompletions, ReadResult, AdmitCompletions, DeriveRead, SendBatch, HoldBatch,
         ProposeBatch, Fails, Coordinator, runVars, ghosts, steerVars
<1>3. CASE co' \in {Idle(co), Abort(co)} /\ journal' = journal
  BY <1>1, <1>2, <1>3, ReturnMemory, SameJournal, SteersFrame
<1>4. ASSUME co'.pc \notin Hand \cup {"admit"}, co'.todo = co.todo, co'.fn = co.fn,
             SteersStay
      PROVE  SteersInv'
  BY <1>2, <1>4, AwayMemory, SteersFrame
<1>5. ASSUME NEW r \in co.unread, ReadResult(r) PROVE SteersInv'
  BY <1>1, <1>4, <1>5, SameJournal DEF ReadResult, Coordinator, CoordinatorState, Hand
<1>6. CASE DeriveRead
  BY <1>1, <1>4, <1>6, SameJournal DEF DeriveRead, Coordinator, CoordinatorState, Hand
<1>7. ASSUME NEW M, journal' = AdmitBatch(journal, lastId + 1, M),
             co' = [Goto(co, "deliver") EXCEPT !.view = UnreadView]
      PROVE  SteersInv'
  <2>1. SteersStay
    BY <1>1, <1>7, BatchCallSteers
  <2>2. co'.pc = "deliver" /\ co'.todo = co.todo /\ co'.fn = co.fn
    BY <1>1, <1>7 DEF Goto, CoordinatorState
  <2> QED
    BY <1>4, <2>1, <2>2 DEF Hand
<1>8. CASE AdmitCompletions
  BY <1>3, <1>7, <1>8 DEF AdmitCompletions, Coordinator
<1>9. CASE HoldBatch \/ ProposeBatch \/ Fails(Abort(co))
  BY <1>3, <1>9 DEF HoldBatch, ProposeBatch, Coordinator, Fails
<1>10. CASE co' = Accept(co, "idle") /\ journal' = journal
  BY <1>1, <1>4, <1>10, CallFields, SameJournal DEF Hand
<1> QED
  BY <1>5, <1>6, <1>8, <1>9, <1>10 DEF CollectCompletions, SendBatch

-----------------------------------------------------------------------------
(* Steps that move a steer.                                                *)

\* A steer that was not shown is admitted, queued or taken back.
LEMMA SteerMoves ==
    ASSUME IInv, SteersInv, NEW s \in Steer, s \notin shown, Known(s),
           NEW ph \in {"pending", "queued"}, journal' = [journal EXCEPT !.steers[s] = ph],
           UNCHANGED steerVars
    PROVE  /\ TraceOK' /\ ShownOK'
           /\ journal'.steers[s] = ph
           /\ \A t \in Steer \ {s} : journal'.steers[t] = journal.steers[t]
           /\ \A t : Known(t)' <=> Known(t)
           /\ \A t : Followed(t)' <=> Followed(t)
<1> USE DEF steerVars
<1>1. /\ journal'.steers[s] = ph /\ journal'.receipts = journal.receipts
      /\ \A t \in Steer \ {s} : journal'.steers[t] = journal.steers[t]
  BY DEF IInv, TypeOK, Journals
<1>2. \A t : Known(t)' <=> Known(t)
  BY DEF Known
<1>3. \A t : Followed(t)' <=> Followed(t)
  BY DEF Followed
<1>4. TraceOK'
  BY DEF SteersInv, TraceOK, InTrace
<1>5. shown \subseteq Steer
  BY DEF IInv, TypeOK
<1>6. ShownOK'
  BY <1>1, <1>2, <1>3, <1>5 DEF SteersInv, ShownOK, HasReceipt
<1> QED
  BY <1>1, <1>2, <1>3, <1>4, <1>6

LEMMA SteerHandFacts ==
    ASSUME IInv, SteersInv
    PROVE  /\ co \in CoordinatorState /\ journal \in Journals
           /\ co.pc \in Hand => co.cur \in Steer
           /\ shown \subseteq Steer /\ co.todo \subseteq Steer
BY SteerLocals DEF IInv, TypeOK, Hand, CoordinatorState

LEMMA RecoverSteersKeeps ==
    ASSUME IInv, HandoverInv, SteersInv, RecoverSteers
    PROVE  SteersInv'
<1>1. /\ co \in CoordinatorState /\ co.todo \subseteq Steer /\ co.pc = "recoverSteers"
      /\ co.fn # "context"
  BY SteerHandFacts DEF RecoverSteers, At, HandoverInv, HandlerOK
<1>2. SteersStay /\ UNCHANGED steerVars
  <2>1. journal' = journal /\ UNCHANGED steerVars
    BY DEF RecoverSteers, Coordinator, runVars, ghosts, steerVars
  <2> QED
    BY <2>1, SameJournal
<1>3. CASE co' = Goto(co, "observe")
  <2>1. SteerMemoryOK(Goto(co, "observe"))
    BY <1>1, GotoFields, AwayMemory DEF Hand
  <2> QED
    BY <1>2, <1>3, <2>1, SteersFrame
<1>4. ASSUME NEW s \in co.todo, journal.steers[s] = "presented",
             co' = FinishSteer(co, s, "recoverSteers")
      PROVE  SteersInv'
  <2> DEFINE c == FinishSteer(co, s, "recoverSteers")
  <2>1. c.fn = co.fn /\ c.pc = "mark" /\ c.cur = s /\ c.todo \subseteq co.todo
    BY <1>1, CallFields
  <2>2. s \in shown /\ Known(s)
    BY <1>1, <1>4 DEF SteersInv, ShownOK
  <2> HIDE DEF c
  <2>3. SteerMemoryOK(c)
    BY <1>1, <2>1, <2>2 DEF SteersInv, SteerMemoryOK
  <2> QED
    BY <1>2, <1>4, <2>3, SteersFrame DEF c
<1> QED
  BY <1>3, <1>4 DEF RecoverSteers, Coordinator

LEMMA ObserveKeeps ==
    ASSUME IInv, HandoverInv, SteersInv, Observe
    PROVE  SteersInv'
<1> DEFINE c == [co EXCEPT !.pc = "admit", !.seen = RetainedSteers,
                           !.todo = RetainedSteers \ (co.seen \cup MarkedSteers),
                           !.want = journal.batch # NoBatch \/ Candidates(CurrentView) # {}]
<1>1. co \in CoordinatorState /\ co.fn # "context"
  BY SteerHandFacts DEF Observe, At, HandoverInv, HandlerOK
<1>2. journal' = journal /\ UNCHANGED steerVars /\ co' = c
  BY DEF Observe, Coordinator, runVars, ghosts, steerVars
<1>3. /\ c.fn = co.fn /\ c.pc = "admit"
      /\ c.todo = RetainedSteers \ (co.seen \cup MarkedSteers)
  BY <1>1 DEF CoordinatorState
<1> HIDE DEF c
<1>4. ASSUME NEW s \in RetainedSteers PROVE Known(s)
  <2>1. /\ s.run \in Runs /\ s.event \in Events /\ generation[s.run] = s.generation
        /\ s.generation \in 1 .. MaxGeneration /\ InTrace(s.run, "steer", s.event)
    BY DEF RetainedSteers, Steer
  <2>2. s.generation <= generation[s.run]
    BY <2>1, RunsAssumption
  <2>3. s.event \in published
    BY <2>1 DEF SteersInv, TraceOK
  <2> QED
    BY <2>2, <2>3 DEF Known
<1>5. ASSUME NEW s \in RetainedSteers, s \in shown, journal.steers[s] = "absent"
      PROVE  s \in MarkedSteers
  <2>1. Followed(s)
    BY <1>5 DEF SteersInv, ShownOK
  <2>2. PICK i \in DOMAIN trace[s.run] : trace[s.run][i] = Item("steer", s.event)
    BY DEF RetainedSteers, InTrace, Item
  <2>3. \E k \in DOMAIN trace[s.run] : trace[s.run][k] = Item("presented", s.event)
    BY <2>1, <2>2 DEF Followed, RetainedSteers
  <2> QED
    BY <2>3 DEF MarkedSteers, InTrace, Item
<1>6. SteerMemoryOK(c)
  BY <1>1, <1>3, <1>4, <1>5 DEF SteerMemoryOK, Hand
<1> QED
  BY <1>2, <1>6, SameJournal, SteersFrame

LEMMA AdmitSteersKeeps ==
    ASSUME IInv, HandoverInv, SteersInv, AdmitSteers
    PROVE  SteersInv'
<1>1. /\ co \in CoordinatorState /\ journal \in Journals /\ co.todo \subseteq Steer
      /\ co.pc = "admit" /\ co.fn # "context" /\ co.pc \notin Hand
  BY SteerHandFacts DEF AdmitSteers, At, HandoverInv, HandlerOK, Hand
<1>2. ASSUME NEW s \in co.todo, AdmitOne(s) PROVE SteersInv'
  <2> DEFINE rest == [co EXCEPT !.todo = @ \ {s}]
             again == [rest EXCEPT !.seen = @ \ {s}]
  <2>1. /\ rest.fn = co.fn /\ rest.pc = "admit" /\ rest.todo = co.todo \ {s}
        /\ again.fn = co.fn /\ again.pc = "admit" /\ again.todo = co.todo \ {s}
    BY <1>1 DEF CoordinatorState
  <2>2. UNCHANGED steerVars /\ co' \in {rest, again}
    BY <1>2 DEF AdmitOne, Writes, Coordinator, runVars, ghosts, steerVars
  <2> HIDE DEF rest, again
  <2>3. CASE journal' = journal
    <3>1. SteerMemoryOK(rest) /\ SteerMemoryOK(again)
      BY <1>1, <2>1 DEF SteersInv, SteerMemoryOK, Hand
    <3> QED
      BY <2>2, <2>3, <3>1, SameJournal, SteersFrame
  <2>4. CASE CanAdmitSteer(journal, s) /\ journal' = AdmitSteer(journal, s)
    <3>1. Known(s) /\ s \notin shown /\ s \in Steer
      BY <1>1, <2>4 DEF SteersInv, SteerMemoryOK, CanAdmitSteer
    <3>2. /\ TraceOK' /\ ShownOK' /\ journal'.steers[s] = "pending"
          /\ \A t \in Steer \ {s} : journal'.steers[t] = journal.steers[t]
          /\ \A t : Known(t)' <=> Known(t)
      BY <2>2, <2>4, <3>1, SteerMoves DEF AdmitSteer
    <3>3. co'.fn # "context" /\ co'.pc = "admit" /\ co'.todo = co.todo \ {s}
      BY <1>1, <2>1, <2>2
    <3>4. SteerMemoryOK(co)'
      BY <1>1, <2>2, <3>2, <3>3 DEF SteersInv, SteerMemoryOK, steerVars, Hand
    <3> QED
      BY <3>2, <3>4 DEF SteersInv
  <2> QED
    BY <1>2, <2>3, <2>4 DEF AdmitOne, Writes, Coordinator
<1>3. CASE Coordinator([co EXCEPT !.pc = "flush", !.todo = ActiveSteers(journal)])
  <2> DEFINE c == [co EXCEPT !.pc = "flush", !.todo = ActiveSteers(journal)]
  <2>1. c.pc = "flush" /\ c.todo = ActiveSteers(journal)
    BY <1>1 DEF CoordinatorState
  <2>2. journal' = journal /\ UNCHANGED steerVars /\ co' = c
    BY <1>3 DEF Coordinator, runVars, ghosts, steerVars
  <2> HIDE DEF c
  <2>3. SteerMemoryOK(c)
    BY <2>1, AwayMemory DEF Hand
  <2> QED
    BY <2>2, <2>3, SameJournal, SteersFrame
<1> QED
  BY <1>2, <1>3 DEF AdmitSteers

LEMMA FlushSteersKeeps ==
    ASSUME IInv, HandoverInv, SteersInv, FlushSteers
    PROVE  SteersInv'
<1>1. /\ co \in CoordinatorState /\ journal \in Journals /\ co.todo \subseteq Steer
      /\ co.pc = "flush" /\ co.fn # "context"
  BY SteerHandFacts DEF FlushSteers, At, HandoverInv, HandlerOK
<1>2. UNCHANGED steerVars
  BY DEF FlushSteers, FlushOne, FlushDone, Writes, Coordinator, runVars, ghosts, steerVars
<1>3. ASSUME NEW s \in co.todo, FlushOne(s) PROVE SteersInv'
  <2> DEFINE rest == [co EXCEPT !.todo = @ \ {s}]
             toSend == [rest EXCEPT !.pc = "send", !.cur = s]
  <2>1. /\ rest.fn = co.fn /\ rest.pc = "flush" /\ rest.todo = co.todo \ {s}
        /\ toSend.fn = co.fn /\ toSend.pc = "send" /\ toSend.todo = co.todo \ {s}
        /\ toSend.cur = s
    BY <1>1 DEF CoordinatorState
  <2>2. s \in Steer /\ Known(s)
    BY <1>1 DEF SteersInv, SteerMemoryOK
  <2> HIDE DEF rest, toSend
  <2>3. CASE journal.steers[s] = "presented" /\ Coordinator(FinishSteer(co, s, "flush"))
    <3> DEFINE c == FinishSteer(co, s, "flush")
    <3>1. c.fn = co.fn /\ c.pc = "mark" /\ c.cur = s /\ c.todo \subseteq co.todo
      BY <1>1, CallFields
    <3>2. s \in shown
      BY <2>2, <2>3 DEF SteersInv, ShownOK
    <3> HIDE DEF c
    <3>3. SteerMemoryOK(c)
      BY <1>1, <2>2, <3>1, <3>2 DEF SteersInv, SteerMemoryOK
    <3> QED
      BY <1>2, <2>3, <3>3, SameJournal, SteersFrame DEF Coordinator, c
  <2>4. CASE Coordinator(rest)
    <3>1. SteerMemoryOK(rest)
      BY <1>1, <2>1, AwayMemory DEF Hand
    <3> QED
      BY <1>2, <2>4, <3>1, SameJournal, SteersFrame DEF Coordinator
  <2>5. CASE journal.steers[s] \in {"pending", "queued"}
    <3>1. s \notin shown
      BY <2>5 DEF SteersInv, ShownOK
    <3>2. CASE Coordinator(toSend)
      <4>1. SteerMemoryOK(toSend)
        BY <1>1, <2>1, <2>2, <3>1 DEF SteersInv, SteerMemoryOK
      <4> QED
        BY <1>2, <3>2, <4>1, SameJournal, SteersFrame DEF Coordinator
    <3>3. CASE journal.steers[s] = "queued" /\ Writes(ResetSteer(journal, s), toSend)
      <4>1. journal' = [journal EXCEPT !.steers[s] = "pending"] /\ co' = toSend
        BY <3>3 DEF Writes, ResetSteer
      <4>2. /\ TraceOK' /\ ShownOK'
            /\ \A t : Known(t)' <=> Known(t)
        BY <1>2, <2>2, <3>1, <4>1, SteerMoves
      <4>3. SteerMemoryOK(co)'
        BY <1>1, <1>2, <2>1, <2>2, <3>1, <4>1, <4>2
           DEF SteersInv, SteerMemoryOK, steerVars
      <4> QED
        BY <4>2, <4>3 DEF SteersInv
    <3> QED
      BY <1>3, <2>4, <2>5, <3>2, <3>3 DEF FlushOne, rest, toSend
  <2> QED
    BY <1>3, <2>3, <2>4, <2>5 DEF FlushOne, rest, toSend
<1>4. CASE FlushDone
  <2> DEFINE done == [co EXCEPT !.recover = FALSE]
             armed == [Idle(done) EXCEPT !.armed = @ \/ (co.want /\ ~host.busy)]
  <2>1. done \in CoordinatorState /\ done.fn = co.fn /\ done.todo = co.todo
    BY <1>1 DEF CoordinatorState
  <2>2. journal' = journal /\ co' \in {armed, Idle(done), Goto(done, "reconcile")}
    BY <1>4 DEF FlushDone, Coordinator
  <2>3. armed.pc = Idle(done).pc /\ armed.todo = Idle(done).todo
    BY <2>1, ReturnOK DEF CoordinatorState
  <2> HIDE DEF done, armed
  <2>4. co'.pc \in {"idle", "reconcile"} /\ co'.todo \subseteq co.todo
        /\ (co'.fn # "context" \/ co'.todo = {})
    <3>1. CASE co' \in {armed, Idle(done)}
      BY <2>1, <2>3, <3>1, ReturnFields
    <3>2. CASE co' = Goto(done, "reconcile")
      BY <1>1, <2>1, <3>2, GotoFields
    <3> QED
      BY <2>2, <3>1, <3>2
  <2>5. SteerMemoryOK(co')
    BY <2>4, AwayMemory DEF Hand
  <2> QED
    BY <1>2, <2>2, <2>5, SameJournal, SteersFrame
<1> QED
  BY <1>3, <1>4 DEF FlushSteers

LEMMA SendSteerKeeps ==
    ASSUME IInv, HandoverInv, SteersInv, SendSteer \/ SteerSent
    PROVE  SteersInv'
<1>1. /\ co \in CoordinatorState /\ journal \in Journals /\ co.cur \in Steer
      /\ co.pc \in {"send", "sent"} /\ co.fn # "context"
  BY SteerHandFacts DEF SendSteer, SteerSent, At, HandoverInv, HandlerOK, Hand
<1>2. UNCHANGED steerVars
  BY DEF SendSteer, SteerSent, Fails, Writes, runVars, ghosts, steerVars
<1>3. SteerMemoryOK(Goto(co, "flush")) /\ SteerMemoryOK(Goto(co, "sent"))
  <2>1. SteerMemoryOK(Goto(co, "flush"))
    BY <1>1, GotoFields, AwayMemory DEF Hand
  <2>2. /\ Goto(co, "sent").fn = co.fn /\ Goto(co, "sent").pc = "sent"
        /\ Goto(co, "sent").todo = co.todo /\ Goto(co, "sent").cur = co.cur
    BY <1>1, GotoFields
  <2>3. SteerMemoryOK(Goto(co, "sent"))
    BY <1>1, <2>2 DEF SteersInv, SteerMemoryOK, Hand
  <2> QED
    BY <2>1, <2>3
<1>4. CASE journal' = journal /\ co' \in {Goto(co, "flush"), Goto(co, "sent")}
  BY <1>2, <1>3, <1>4, SameJournal, SteersFrame
<1>5. CASE SendSteer
  BY <1>4, <1>5 DEF SendSteer, Fails
<1>6. CASE SteerSent /\ journal.steers[co.cur] = "pending"
  <2>1. /\ journal' = [journal EXCEPT !.steers[co.cur] = "queued"]
        /\ co' = Goto(co, "flush")
    BY <1>6 DEF SteerSent, Writes, QueueSteer
  <2>2. co.cur \notin shown /\ Known(co.cur)
    BY <1>1, <1>6 DEF SteersInv, ShownOK
  <2>3. TraceOK' /\ ShownOK' /\ \A t : Known(t)' <=> Known(t)
    BY <1>1, <1>2, <2>1, <2>2, SteerMoves
  <2>4. co'.fn # "context" /\ co'.pc = "flush" /\ co'.todo = co.todo
    BY <1>1, <2>1, GotoFields
  <2>5. SteerMemoryOK(co)'
    BY <2>3, <2>4 DEF SteersInv, SteerMemoryOK, Hand
  <2> QED
    BY <2>3, <2>5 DEF SteersInv
<1>7. CASE SteerSent /\ journal.steers[co.cur] # "pending"
  BY <1>4, <1>7 DEF SteerSent, Writes, QueueSteer
<1> QED
  BY <1>5, <1>6, <1>7 DEF SendSteer, SteerSent

LEMMA ContextKeeps ==
    ASSUME IInv, HandoverInv, SteersInv, ContextNext \/ ContextQueue
    PROVE  SteersInv'
<1>1. /\ co \in CoordinatorState /\ journal \in Journals /\ co.todo \subseteq Steer
      /\ co.fn = "context"
      /\ \A s \in co.todo : journal.steers[s] # "absent"
  BY SteerHandFacts
     DEF ContextNext, ContextQueue, At, HandoverInv, HandlerOK, SteersInv, SteerMemoryOK
<1>2. UNCHANGED steerVars
  BY DEF ContextNext, ContextSteer, ContextQueue, Writes, Coordinator, runVars, ghosts,
         steerVars
<1>3. ASSUME NEW s \in co.todo, ContextSteer(s) PROVE SteersInv'
  <2> DEFINE c == [co EXCEPT !.pc = "ctxQueue", !.cur = s, !.todo = @ \ {s}]
  <2>1. c.fn = co.fn /\ c.pc = "ctxQueue" /\ c.cur = s /\ c.todo = co.todo \ {s}
    BY <1>1 DEF CoordinatorState
  <2>2. co' = c /\ journal' = journal
    BY <1>3 DEF ContextSteer, Coordinator
  <2> HIDE DEF c
  <2>3. SteerMemoryOK(c)
    BY <1>1, <2>1 DEF SteersInv, SteerMemoryOK
  <2> QED
    BY <1>2, <2>2, <2>3, SameJournal, SteersFrame
<1>4. CASE co' \in {Accept(co, "idle"), Idle(co)} /\ journal' = journal
  <2>1. SteerMemoryOK(Accept(co, "idle")) /\ SteerMemoryOK(Idle(co))
    BY <1>1, CallFields, AwayMemory, ReturnMemory DEF Hand
  <2> QED
    BY <1>2, <1>4, <2>1, SameJournal, SteersFrame
<1>5. CASE ContextNext
  BY <1>3, <1>4, <1>5 DEF ContextNext, Coordinator
<1>6. CASE ContextQueue
  <2> DEFINE s == co.cur
  <2>1. /\ s \in Steer /\ Known(s) /\ s \notin co.todo /\ journal.steers[s] # "absent"
        /\ co' = Goto(co, "ctxPresent")
    BY <1>1, <1>6, SteerHandFacts
       DEF ContextQueue, At, Writes, SteersInv, SteerMemoryOK, Hand
  <2>2. /\ co'.fn = "context" /\ co'.pc = "ctxPresent" /\ co'.todo = co.todo /\ co'.cur = s
    BY <1>1, <2>1, GotoFields
  <2> HIDE DEF s
  <2>3. CASE journal.steers[s] = "pending"
    <3>1. journal' = [journal EXCEPT !.steers[s] = "queued"]
      BY <1>6, <2>3 DEF ContextQueue, Writes, QueueSteer, s
    <3>2. s \notin shown
      BY <2>1, <2>3 DEF SteersInv, ShownOK
    <3>3. /\ TraceOK' /\ ShownOK' /\ journal'.steers[s] = "queued"
          /\ \A t \in Steer \ {s} : journal'.steers[t] = journal.steers[t]
          /\ \A t : Known(t)' <=> Known(t)
      BY <1>2, <2>1, <3>1, <3>2, SteerMoves
    <3>4. SteerMemoryOK(co)'
      BY <1>1, <2>1, <2>2, <3>3 DEF SteersInv, SteerMemoryOK, Hand
    <3> QED
      BY <3>3, <3>4 DEF SteersInv
  <2>4. CASE journal.steers[s] # "pending"
    <3>1. journal' = journal
      BY <1>6, <2>4 DEF ContextQueue, Writes, QueueSteer, s
    <3>2. SteerMemoryOK(co')
      BY <1>1, <2>1, <2>2, <2>4 DEF SteersInv, SteerMemoryOK, Hand
    <3> QED
      BY <1>2, <3>1, <3>2, SameJournal, SteersFrame
  <2> QED
    BY <2>3, <2>4
<1> QED
  BY <1>5, <1>6

LEMMA PresentKeeps ==
    ASSUME IInv, HandoverInv, SteersInv, ContextPresent
    PROVE  SteersInv'
<1> DEFINE s == co.cur
<1>1. /\ co \in CoordinatorState /\ journal \in Journals /\ co.todo \subseteq Steer
      /\ s \in Steer /\ co.fn = "context" /\ co.pc = "ctxPresent"
      /\ shown \subseteq Steer
  BY SteerHandFacts DEF ContextPresent, At, HandoverInv, HandlerOK, Hand
<1>2. /\ Known(s) /\ s \notin co.todo /\ journal.steers[s] \in {"queued", "presented"}
      /\ \A t \in co.todo : journal.steers[t] # "absent"
  <2>1. journal.steers[s] \in Phases \cup {"absent"}
    BY <1>1 DEF Journals
  <2> QED
    BY <1>1, <2>1 DEF SteersInv, SteerMemoryOK, Hand, Phases
<1>3. /\ journal' = PresentSteer(journal, s) /\ shown' = shown \cup {s}
      /\ UNCHANGED <<generation, present, trace, published>>
      /\ co'.fn = co.fn /\ co'.pc = "mark" /\ co'.cur = s /\ co'.todo = co.todo
  BY <1>1 DEF ContextPresent, runVars, CoordinatorState
<1> HIDE DEF s
<1>4. /\ journal'.steers[s] = "presented" /\ journal'.receipts = journal.receipts
      /\ \A t \in Steer \ {s} : journal'.steers[t] = journal.steers[t]
  BY <1>1, <1>2, <1>3 DEF PresentSteer, Journals
<1>5. \A t : (Known(t)' <=> Known(t)) /\ (Followed(t)' <=> Followed(t))
  BY <1>3 DEF Known, Followed
<1>6. TraceOK'
  BY <1>3 DEF SteersInv, TraceOK, InTrace
<1>7. ShownOK'
  BY <1>1, <1>2, <1>3, <1>4, <1>5 DEF SteersInv, ShownOK, HasReceipt
<1>8. SteerMemoryOK(co)'
  BY <1>1, <1>2, <1>3, <1>4, <1>5 DEF SteersInv, SteerMemoryOK, Hand
<1> QED
  BY <1>6, <1>7, <1>8 DEF SteersInv

LEMMA MarkSteerKeeps ==
    ASSUME IInv, HandoverInv, SteersInv, MarkSteer
    PROVE  SteersInv'
<1>0. PICK s \in Steer : s = co.cur
  BY SteerHandFacts DEF MarkSteer, At, Hand
<1> DEFINE x == Item("presented", s.event)
<1>1. /\ co \in CoordinatorState /\ co.todo \subseteq Steer
      /\ co.pc = "mark" /\ s \in shown /\ shown \subseteq Steer /\ Known(s)
      /\ RunsTypeOK
  BY <1>0, SteerHandFacts
     DEF MarkSteer, At, Hand, SteersInv, SteerMemoryOK, IInv, TypeOK
<1>2. CASE Fails(Abort(co))
  <2>1. journal' = journal /\ UNCHANGED steerVars /\ co' = Abort(co)
    BY <1>2 DEF Fails, runVars, ghosts, steerVars
  <2> QED
    BY <1>1, <2>1, ReturnMemory, SameJournal, SteersFrame
<1>3. CASE ~Fails(Abort(co))
  <2>1. /\ trace' = IF present[s.run] /\ generation[s.run] = s.generation
                    THEN AppendTrace(s.run, x) ELSE trace
        /\ co' = Goto(co, "finish")
        /\ UNCHANGED <<generation, present, published, shown, journal>>
    BY <1>0, <1>3 DEF MarkSteer, ghosts, Item
  <2>2. s.run \in Runs /\ s.event \in Events /\ x \in TraceItem /\ x # Item("steer", s.event)
        /\ \A e \in Events : x # Item("steer", e)
    BY <1>1 DEF Steer, TraceItem, Item
  <2>3. s = [run |-> s.run, generation |-> s.generation, event |-> s.event]
    BY <1>1 DEF Steer
  <2>4. x = Item("presented", s.event)
    OBVIOUS
  <2> HIDE DEF x
  <2>5. /\ co'.fn = co.fn /\ co'.pc = "finish" /\ co'.todo = co.todo /\ co'.cur = s
    BY <1>0, <1>1, <2>1, GotoFields
  <2>6. \A t : Known(t)' <=> Known(t)
    BY <2>1 DEF Known
  <2>7. /\ \A t \in Steer : Followed(t) => Followed(t)'
        /\ Followed(s)'
        /\ TraceOK'
    <3>1. CASE present[s.run] /\ generation[s.run] = s.generation
      <4>1. trace' = AppendTrace(s.run, x) /\ UNCHANGED <<generation, present>>
        BY <2>1, <3>1
      <4>2. /\ \A a \in Runs, kind \in {"steer", "presented"}, e \in Events :
                   InTrace(a, kind, e)' => \/ InTrace(a, kind, e)
                                           \/ a = s.run /\ x = Item(kind, e)
            /\ \A t \in Steer :
                   Followed(t) /\ (t.run # s.run \/ x # Item("steer", t.event))
                       => Followed(t)'
            /\ \A t \in Steer :
                   t.run = s.run /\ x = Item("presented", t.event) => Followed(t)'
        BY <1>1, <2>2, <4>1, AppendFacts
      <4>3. \A t \in Steer : x # Item("steer", t.event)
        BY <2>4 DEF Item
      <4>4. \A e \in Events : x = Item("presented", e) => e = s.event
        BY <2>4 DEF Item
      <4>5. TraceOK'
        <5>1. [run |-> s.run, generation |-> generation[s.run], event |-> s.event] \in shown
          BY <1>1, <2>3, <3>1
        <5>2. UNCHANGED <<generation, published, shown>>
          BY <2>1
        <5>3. ASSUME NEW a \in Runs, NEW e \in Events, InTrace(a, "steer", e)'
              PROVE  e \in published
          BY <2>2, <4>2, <5>3 DEF SteersInv, TraceOK
        <5>4. ASSUME NEW a \in Runs, NEW e \in Events, InTrace(a, "presented", e)'
              PROVE  [run |-> a, generation |-> generation[a], event |-> e] \in shown
          BY <4>2, <4>4, <5>1, <5>4 DEF SteersInv, TraceOK
        <5> QED
          BY <5>2, <5>3, <5>4 DEF TraceOK
      <4> QED
        BY <1>1, <2>4, <4>2, <4>3, <4>5
    <3>2. CASE ~(present[s.run] /\ generation[s.run] = s.generation)
      <4>1. trace' = trace
        BY <2>1, <3>2
      <4>2. \A t : Followed(t)' <=> Followed(t)
        BY <2>1, <4>1 DEF Followed
      <4>3. Followed(s)
        BY <3>2 DEF Followed
      <4>4. TraceOK'
        BY <2>1, <4>1 DEF SteersInv, TraceOK, InTrace
      <4> QED
        BY <4>2, <4>3, <4>4
    <3> QED
      BY <3>1, <3>2
  <2>8. ShownOK'
    BY <1>1, <2>1, <2>6, <2>7 DEF SteersInv, ShownOK
  <2>9. SteerMemoryOK(co)'
    <3>1. co.fn = "context" => /\ \A t \in co.todo : journal.steers[t] # "absent"
                               /\ s \notin co.todo /\ journal.steers[s] # "absent"
      BY <1>0, <1>1 DEF SteersInv, SteerMemoryOK, Hand
    <3>2. \A t \in co.todo : Known(t)
      BY DEF SteersInv, SteerMemoryOK
    <3> QED
      BY <1>1, <2>1, <2>5, <2>6, <2>7, <3>1, <3>2 DEF SteerMemoryOK, Hand
  <2> QED
    BY <2>7, <2>8, <2>9 DEF SteersInv
<1> QED
  BY <1>2, <1>3

LEMMA FinalizeKeeps ==
    ASSUME IInv, HandoverInv, SteersInv, FinalizeSteerStep
    PROVE  SteersInv'
<1> DEFINE s == co.cur
           d == SteerDelivery(s)
<1>1. /\ co \in CoordinatorState /\ journal \in Journals /\ co.todo \subseteq Steer
      /\ s \in Steer /\ co.pc = "finish" /\ s \in shown /\ shown \subseteq Steer
      /\ Followed(s) /\ Known(s)
  BY SteerHandFacts DEF FinalizeSteerStep, At, Hand, SteersInv, SteerMemoryOK
<1>2. co.fn = "context" => s \notin co.todo /\ \A t \in co.todo : journal.steers[t] # "absent"
  BY <1>1 DEF SteersInv, SteerMemoryOK, Hand
<1>3. /\ journal' = FinalizeSteer(journal, s) /\ co' = Goto(co, co.back)
      /\ UNCHANGED <<generation, present, trace, published, shown>>
  BY DEF FinalizeSteerStep, Writes, runVars, ghosts
<1>4. /\ co.back \in {"idle", "recoverSteers", "flush", "recollect", "context"}
      /\ co'.pc = co.back /\ co'.todo \subseteq co.todo /\ co'.fn \in {"none", co.fn}
  <2>1. CASE co.back = "idle"
    BY <1>1, <1>3, <2>1, ReturnFields, GotoFields
  <2>2. CASE co.back # "idle"
    BY <1>1, <1>3, <2>2, GotoFields DEF CoordinatorState
  <2> QED
    BY <2>1, <2>2
<1>5. \A t : (Known(t)' <=> Known(t)) /\ (Followed(t)' <=> Followed(t))
  BY <1>3 DEF Known, Followed
<1>6. TraceOK'
  BY <1>3 DEF SteersInv, TraceOK, InTrace
<1>7. journal.receipts \in Seq(Deliveries) /\ d \in Deliveries
  BY <1>1 DEF Journals, SteerDelivery, Deliveries
<1> HIDE DEF s, d
<1>8. /\ journal'.steers[s] \in {journal.steers[s], "absent"}
      /\ journal'.steers[s] # "presented"
      /\ \A t \in Steer \ {s} : journal'.steers[t] = journal.steers[t]
      /\ journal'.receipts \in {journal.receipts, Remember(journal.receipts, d)}
  BY <1>1, <1>3 DEF FinalizeSteer, Journals, d
<1>9. \A t \in Steer : HasReceipt(journal', SteerDelivery(t)) => t \in shown
  <2>1. SUFFICES ASSUME NEW t \in Steer, t # s, HasReceipt(journal', SteerDelivery(t))
                 PROVE  HasReceipt(journal, SteerDelivery(t))
    BY <1>1 DEF SteersInv, ShownOK
  <2>2. SteerDelivery(t) # d
    BY <2>1 DEF SteerDelivery, d
  <2>3. CASE journal'.receipts = journal.receipts
    BY <2>1, <2>3 DEF HasReceipt
  <2>4. CASE journal'.receipts = Remember(journal.receipts, d)
    BY <1>7, <2>1, <2>2, <2>4, RememberOld DEF HasReceipt
  <2> QED
    BY <1>8, <2>3, <2>4
<1>10. ShownOK'
  BY <1>1, <1>3, <1>5, <1>8, <1>9 DEF SteersInv, ShownOK
<1>11. SteerMemoryOK(co)'
  BY <1>1, <1>2, <1>4, <1>5, <1>8 DEF SteersInv, SteerMemoryOK, Hand
<1> QED
  BY <1>6, <1>10, <1>11 DEF SteersInv

-----------------------------------------------------------------------------
(* Runs move under the coordinator.                                        *)

\* Every Run keeps its Trace and its generation, or loses the Trace.
TracesStay ==
    /\ published' = published
    /\ \A r \in Runs :
           /\ generation[r] <= generation'[r]
           /\ \/ trace'[r] = <<>>
              \/ /\ trace'[r] = trace[r] /\ generation'[r] = generation[r]
                 /\ present'[r] = present[r]

LEMMA RunsEvolve ==
    ASSUME RunsTypeOK, OwnMoves \/ NestedMoves \/ RunnerMoves
    PROVE  TracesStay \/ \E r \in Runs, e \in Events : RunnerPublishSteer(r, e)
<1>1. \A r \in Runs : generation[r] \in Nat
  BY RunsAssumption DEF RunsTypeOK
<1>2. ASSUME UNCHANGED <<generation, present, trace, published>> PROVE TracesStay
  BY <1>1, <1>2 DEF TracesStay
<1>3. ASSUME NEW r \in Runs, NEW proc, FreshGeneration(r, proc) PROVE TracesStay
  BY <1>1, <1>3 DEF FreshGeneration, TracesStay, RunsTypeOK
<1>4. ASSUME NEW r \in Runs, RetainRun(r) PROVE TracesStay
  BY <1>1, <1>4 DEF RetainRun, TracesStay, RunsTypeOK
<1>5. ASSUME NEW r \in Runs,
             \/ SpawnNested(r) \/ StopAbandoned(r) \/ RunnerExit(r)
             \/ StopRecord(r) \/ StopHandled(r)
             \/ \E how \in Interruptions : StopSignal(r, how)
             \/ \E code \in Codes : RunnerFinish(r, code)
      PROVE  TracesStay
  <2>1. UNCHANGED <<generation, present, trace, published>>
    BY <1>5 DEF SpawnNested, StopAbandoned, RunnerExit, StopRecord, StopHandled, StopSignal,
                RunnerFinish
  <2> QED
    BY <1>2, <2>1
<1>6. CASE OwnMoves
  BY <1>3, <1>4, <1>5, <1>6 DEF OwnMoves, RunsMove, StartTopLevel
<1>7. CASE NestedMoves
  BY <1>3, <1>4, <1>5, <1>7 DEF NestedMoves, RunsMove, StartNested
<1>8. CASE RunnerMoves
  BY <1>5, <1>8 DEF RunnerMoves, RunsMove
<1> QED
  BY <1>6, <1>7, <1>8

LEMMA RunsKeepSteers ==
    ASSUME IInv, SteersInv, OwnMoves \/ NestedMoves \/ RunnerMoves
    PROVE  SteersInv'
<1>1. UNCHANGED <<journal, co, shown>>
  BY DEF OwnMoves, NestedMoves, RunnerMoves, RunsMove, ghosts
<1>2. /\ RunsTypeOK /\ shown \subseteq Steer /\ co.todo \subseteq Steer
      /\ co.pc \in Hand => co.cur \in Steer
  BY SteerHandFacts DEF IInv, TypeOK
<1>3. \A s \in Steer : /\ s.run \in Runs /\ s.event \in Events
                       /\ s.generation \in Nat /\ generation[s.run] \in Nat
  BY <1>2, RunsAssumption DEF Steer, RunsTypeOK
<1>4. ASSUME TraceOK', \A s \in Steer : Known(s) => Known(s)',
             \A s \in Steer : Known(s) /\ Followed(s) => Followed(s)'
      PROVE  SteersInv'
  <2>1. ShownOK'
    BY <1>1, <1>2, <1>4 DEF SteersInv, ShownOK
  <2>2. SteerMemoryOK(co)'
    BY <1>1, <1>2, <1>4 DEF SteersInv, ShownOK, SteerMemoryOK, Hand
  <2> QED
    BY <1>4, <2>1, <2>2 DEF SteersInv
<1>5. CASE TracesStay
  <2>1. TraceOK'
    BY <1>1, <1>5 DEF TracesStay, SteersInv, TraceOK, InTrace
  <2>2. \A s \in Steer : Known(s) => Known(s)'
    <3>1. SUFFICES ASSUME NEW s \in Steer, Known(s) PROVE Known(s)'
      OBVIOUS
    <3>2. generation[s.run] <= generation'[s.run] /\ generation'[s.run] \in Nat
      <4>1. RunsTypeOK'
        BY RunMoves DEF IInv, TypeOK
      <4> QED
        BY <1>3, <1>5, <4>1, RunsAssumption DEF TracesStay, RunsTypeOK
    <3> QED
      BY <1>3, <1>5, <3>1, <3>2 DEF TracesStay, Known
  <2>3. ASSUME NEW s \in Steer, Followed(s) PROVE Followed(s)'
    <3>1. CASE trace'[s.run] = <<>>
      <4>1. DOMAIN trace'[s.run] = {}
        BY <3>1
      <4> QED
        BY <4>1 DEF Followed
    <3>2. CASE trace'[s.run] # <<>>
      BY <1>3, <1>5, <2>3, <3>2 DEF TracesStay, Followed
    <3> QED
      BY <3>1, <3>2
  <2> QED
    BY <1>4, <2>1, <2>2, <2>3
<1>6. ASSUME NEW r \in Runs, NEW e \in Events, RunnerPublishSteer(r, e)
      PROVE  SteersInv'
  <2> DEFINE x == Item("steer", e)
  <2>1. /\ e \notin published /\ published' = published \cup {e}
        /\ trace' = AppendTrace(r, x) /\ UNCHANGED <<generation, present>>
    BY <1>6 DEF RunnerPublishSteer, Item
  <2>2. x \in TraceItem
    BY DEF Item, TraceItem
  <2>3. x = Item("steer", e)
    OBVIOUS
  <2> HIDE DEF x
  <2>4. /\ \A a \in Runs, kind \in {"steer", "presented"}, f \in Events :
               InTrace(a, kind, f)' => \/ InTrace(a, kind, f)
                                       \/ a = r /\ x = Item(kind, f)
        /\ \A s \in Steer :
               Followed(s) /\ (s.run # r \/ x # Item("steer", s.event)) => Followed(s)'
    BY <1>2, <2>1, <2>2, AppendFacts
  <2>5. \A f \in Events : /\ x # Item("presented", f)
                          /\ x = Item("steer", f) => f = e
    BY <2>3 DEF Item
  <2>6. TraceOK'
    <3>1. ASSUME NEW a \in Runs, NEW f \in Events, InTrace(a, "steer", f)'
          PROVE  f \in published'
      BY <2>1, <2>4, <2>5, <3>1 DEF SteersInv, TraceOK
    <3>2. ASSUME NEW a \in Runs, NEW f \in Events, InTrace(a, "presented", f)'
          PROVE  [run |-> a, generation |-> generation[a], event |-> f] \in shown
      BY <2>4, <2>5, <3>2 DEF SteersInv, TraceOK
    <3> QED
      BY <1>1, <2>1, <3>1, <3>2 DEF TraceOK
  <2>7. \A s \in Steer : Known(s) => Known(s)'
    BY <2>1 DEF Known
  <2>8. \A s \in Steer : Known(s) /\ Followed(s) => Followed(s)'
    BY <1>3, <2>1, <2>4, <2>5 DEF Known
  <2> QED
    BY <1>4, <2>6, <2>7, <2>8
<1> QED
  BY <1>2, <1>5, <1>6, RunsEvolve

LEMMA SteersNext ==
    ASSUME IInv, HandoverInv, SteersInv, [Next]_vars
    PROVE  SteersInv'
<1>1. CASE UNCHANGED vars
  <2>1. journal' = journal /\ co' = co /\ UNCHANGED steerVars
    BY <1>1 DEF vars, runVars, ghosts, steerVars
  <2> QED
    BY <2>1, SameJournal, SteersFrame DEF SteersInv
<1>2. CASE Launch \/ Reload \/ Update \/ TimerFlush \/ AnimationTick
  BY <1>2, SteersStarts
<1>3. CASE Handler
  BY <1>3, SteersTeardown, SteersBatch, SteersCollect, RecoverSteersKeeps, ObserveKeeps,
     AdmitSteersKeeps, FlushSteersKeeps, SendSteerKeeps, ContextKeeps, PresentKeeps,
     MarkSteerKeeps, FinalizeKeeps DEF Handler
<1>4. CASE HostMoves
  BY <1>4, SteersStarts, SteersHost DEF HostMoves
<1>5. CASE OwnMoves \/ NestedMoves \/ RunnerMoves
  BY <1>5, RunsKeepSteers
<1> QED
  BY <1>1, <1>2, <1>3, <1>4, <1>5 DEF Next

LEMMA SteersInit ==
    ASSUME Init
    PROVE  SteersInv
<1>1. TraceOK
  BY DEF Init, RunsInit, TraceOK, InTrace
<1>2. ShownOK
  BY DEF Init, EmptyJournal, ShownOK, HasReceipt
<1>3. SteerMemoryOK(co)
  BY DEF Init, Closed, SteerMemoryOK, Hand
<1> QED
  BY <1>1, <1>2, <1>3 DEF SteersInv

LEMMA SteersHold == Spec => [](IInv /\ HandoverInv /\ SteersInv)
<1>1. Init => IInv /\ HandoverInv /\ SteersInv
  BY InvariantInit, HandoverInit, SteersInit
<1>2. IInv /\ HandoverInv /\ SteersInv /\ [Next]_vars => (IInv /\ HandoverInv /\ SteersInv)'
  BY InvariantNext, HandoverNext, SteersNext
<1> QED
  BY <1>1, <1>2, PTL DEF Spec

-----------------------------------------------------------------------------
(* What was shown is not sent again.                                       *)

QueueKeepsShown ==
    \A s \in shown : SteerDelivery(s) \in host'.queue => SteerDelivery(s) \in host.queue

LEMMA QueueStep ==
    ASSUME IInv, SteersInv, [Next]_vars
    PROVE  QueueKeepsShown
<1>1. co \in CoordinatorState /\ host \in HostState
  BY LocalFacts DEF IInv, TypeOK
<1>2. CASE host' = host
  BY <1>2 DEF QueueKeepsShown
<1>3. CASE SendSteer
  <2>1. host' = host \/ host'.queue = host.queue \cup {SteerDelivery(co.cur)}
    BY <1>1, <1>3 DEF SendSteer, Fails, HostState
  <2>2. co.cur \notin shown
    BY <1>3 DEF SendSteer, At, SteersInv, SteerMemoryOK
  <2>3. \A s \in shown : SteerDelivery(s) # SteerDelivery(co.cur)
    BY <2>2 DEF SteerDelivery
  <2> QED
    BY <2>1, <2>3 DEF QueueKeepsShown
<1>4. CASE SendBatch
  <2>1. \/ host' = host
        \/ host'.queue = host.queue \cup {BatchDelivery(journal.batch.id)}
    BY <1>1, <1>4 DEF SendBatch, Fails, HostState
  <2>2. \A s \in shown : SteerDelivery(s) # BatchDelivery(journal.batch.id)
    BY DEF SteerDelivery, BatchDelivery
  <2> QED
    BY <2>1, <2>2 DEF QueueKeepsShown
<1>5. CASE Launch \/ ProposeBatch \/ HostMoves
  <2>1. host' = host \/ host'.queue \subseteq host.queue
    BY <1>1, <1>5
       DEF Launch, ProposeBatch, HostMoves, HostWork, HostCommitMessage, HostContext,
           HostTurnEnd, HostCommitProposal, HostDropProposal, HostSettle, Settle, HostCrash,
           HostInit, Hosts, Coordinator, HostState
  <2> QED
    BY <2>1 DEF QueueKeepsShown
<1>6. CASE Reload \/ Update \/ TimerFlush \/ AnimationTick \/ UNCHANGED vars
  BY <1>2, <1>6 DEF Reload, Update, TimerFlush, AnimationTick, Coordinator, vars
<1>7. CASE OwnMoves \/ NestedMoves \/ RunnerMoves
  BY <1>2, <1>7 DEF OwnMoves, NestedMoves, RunnerMoves, RunsMove
<1>8. CASE Handler /\ ~SendSteer /\ ~SendBatch /\ ~ProposeBatch
  <2>1. host' = host
    BY <1>8
       DEF Handler, Teardown, TeardownOne, RecoverBatch, RecoverSteers, MarkSteer,
           FinalizeSteerStep, Observe, AdmitSteers, AdmitOne, FlushSteers, FlushOne, FlushDone,
           SteerSent, ReconcileBatch, MarkBatchQueued, MarkBatchPresented, AckMembers, AckOne,
           Recollect, CollectCompletions, ReadResult, AdmitCompletions, DeriveRead, HoldBatch,
           ContextNext, ContextSteer, ContextQueue, ContextPresent, Coordinator, Writes, Fails
  <2> QED
    BY <1>2, <2>1
<1> QED
  BY <1>3, <1>4, <1>5, <1>6, <1>7, <1>8 DEF Next

(* A steer that was presented in the model's context is never given to Pi  *)
(* again: not after a crash between its presentation and its marker or its *)
(* receipt, not when its receipt is rotated out of the journal, not when a *)
(* restart forgets that it was seen (run-ui-runtime.ts flushSteers,        *)
(* admitSteers; async-runs.ts markRunSteerPresentationHandled).            *)
THEOREM ShownIsNeverResent == Spec => ShownNeverResent
<1>1. IInv /\ HandoverInv /\ SteersInv /\ [Next]_vars => [QueueKeepsShown]_vars
  BY QueueStep
<1> QED
  BY <1>1, SteersHold, PTL DEF Spec, ShownNeverResent, QueueKeepsShown

-----------------------------------------------------------------------------
(* What was seen is owed.                                                  *)

SeenInv ==
    /\ \A s \in co.seen : s.event \in published
    /\ SeenIsOwed

\* An active steer stays active, or was shown.
ActiveOrShown ==
    \A s \in Steer : journal.steers[s] # "absent" =>
                         journal'.steers[s] # "absent" \/ s \in shown'

\* No Trace retains an urgent event it did not retain, unless it is a new one.
NoOldEvent == \A s \in Steer : s \in RetainedSteers' => s \in RetainedSteers
                                                        \/ s.event \notin published

LEMMA SeenFrame ==
    ASSUME SeenInv, co'.seen \subseteq co.seen, co.seen \subseteq Steer,
           co.pc = "admit" => co' = co,
           published \subseteq published', shown \subseteq shown', ActiveOrShown, NoOldEvent
    PROVE  SeenInv'
BY DEF SeenInv, SeenIsOwed, ActiveOrShown, NoOldEvent

LEMMA SameTraces ==
    ASSUME UNCHANGED <<generation, present, trace>>
    PROVE  NoOldEvent
BY DEF NoOldEvent, RetainedSteers, InTrace

LEMMA SteersStayActive ==
    ASSUME journal'.steers = journal.steers
    PROVE  ActiveOrShown
BY DEF ActiveOrShown

\* Steps that leave the Traces and the steers of the journal alone, other than at
\* the admit label.
LEMMA SeenQuiet ==
    ASSUME IInv, SeenInv, UNCHANGED steerVars, journal'.steers = journal.steers,
           co'.seen \subseteq co.seen, co.pc # "admit"
    PROVE  SeenInv'
<1>1. co.seen \subseteq Steer
  BY LocalFacts DEF IInv, CoordinatorState
<1>2. NoOldEvent /\ ActiveOrShown
  BY SameTraces, SteersStayActive DEF steerVars
<1> QED
  BY <1>1, <1>2, SeenFrame DEF steerVars

LEMMA SeenStarts ==
    ASSUME IInv, HandoverInv, SeenInv,
           \/ Launch \/ Reload \/ Update \/ TimerFlush
           \/ HostWork \/ HostCommitMessage \/ HostContext \/ HostTurnEnd
           \/ HostCommitProposal \/ HostDropProposal \/ HostSettle \/ HostCrash
    PROVE  SeenInv'
<1>1. co \in CoordinatorState
  BY LocalFacts DEF IInv
<1>2. HostCrash \/ co.pc = "idle"
  BY HandlerFacts
     DEF Launch, Reload, Update, TimerFlush, HostWork, HostCommitMessage, HostContext,
         HostTurnEnd, HostCommitProposal, HostDropProposal, HostSettle, Settle,
         HandoverInv, HostOK, HandlerOK
<1>3. journal' = journal /\ UNCHANGED steerVars
  BY DEF Launch, Reload, Update, TimerFlush, HostWork, HostCommitMessage, HostContext,
         HostTurnEnd, HostCommitProposal, HostDropProposal, HostSettle, Settle, HostCrash,
         Hosts, Coordinator, runVars, ghosts, steerVars
<1>4. CASE co' = co
  BY <1>1, <1>2, <1>3, <1>4, SeenQuiet DEF HostCrash, SeenInv, SeenIsOwed, Closed
<1>5. CASE HostCrash
  BY <1>5 DEF HostCrash, Closed, SeenInv, SeenIsOwed
<1>6. CASE Launch
  BY <1>1, <1>2, <1>3, <1>5, <1>6, StartedFields, SeenQuiet DEF Launch
<1>7. CASE Reload
  <2>1. co'.seen = co.seen
    <3>1. Shut(co) \in CoordinatorState /\ Shut(co).seen = co.seen
      BY <1>1, ReturnOK, ReturnFields
    <3> QED
      BY <1>7, <3>1 DEF Reload, CoordinatorState
  <2> QED
    BY <1>2, <1>3, <1>5, <2>1, SeenQuiet
<1>8. CASE Update \/ TimerFlush \/ HostContext \/ HostTurnEnd
  <2>1. co'.seen = co.seen
    <3> DEFINE d == [co EXCEPT !.armed = FALSE]
    <3>1. d \in CoordinatorState /\ d.seen = co.seen
      BY <1>1 DEF CoordinatorState
    <3>2. TimerFlush => co' = Enter(d, "timer", "flush")
      BY DEF TimerFlush, Coordinator
    <3> HIDE DEF d
    <3>3. TimerFlush => co'.seen = co.seen
      BY <3>1, <3>2, EnterFields
    <3>4. Update \/ HostContext \/ HostTurnEnd => co'.seen = co.seen
      BY <1>1, EnterFields DEF Update, HostContext, HostTurnEnd, Coordinator
    <3> QED
      BY <1>8, <3>3, <3>4
  <2> QED
    BY <1>2, <1>3, <1>5, <2>1, SeenQuiet
<1>9. CASE HostSettle
  <2>1. co' = co \/ co' = Enter(co, "settled", "flush")
    BY <1>9 DEF HostSettle, Settle, Hosts
  <2>2. co'.seen = co.seen
    BY <1>1, <2>1, EnterFields
  <2> QED
    BY <1>2, <1>3, <1>5, <2>2, SeenQuiet
<1>10. CASE HostWork \/ HostCommitMessage \/ HostCommitProposal \/ HostDropProposal
  BY <1>4, <1>10 DEF HostWork, HostCommitMessage, HostCommitProposal, HostDropProposal, Hosts
<1> QED
  BY <1>5, <1>6, <1>7, <1>8, <1>9, <1>10

LEMMA SeenBatch ==
    ASSUME IInv, HandoverInv, SeenInv,
           \/ Teardown \/ RecoverBatch \/ RecoverSteers \/ SendSteer
           \/ ReconcileBatch \/ MarkBatchQueued \/ MarkBatchPresented \/ AckMembers
           \/ Recollect \/ CollectCompletions \/ DeriveRead
           \/ SendBatch \/ HoldBatch \/ ProposeBatch \/ ContextNext
    PROVE  SeenInv'
<1>1. co \in CoordinatorState /\ journal \in Journals
  BY LocalFacts DEF IInv, TypeOK
<1>2. co.pc # "admit"
  BY DEF Teardown, RecoverBatch, RecoverSteers, SendSteer, ReconcileBatch, MarkBatchQueued,
         MarkBatchPresented, AckMembers, Recollect, CollectCompletions, ReadResult,
         AdmitCompletions, DeriveRead, SendBatch, HoldBatch, ProposeBatch, ContextNext, At
<1>3. UNCHANGED steerVars /\ journal'.steers = journal.steers
  <2>1. UNCHANGED steerVars
    BY DEF Teardown, TeardownOne, StopSignal, RecoverBatch, RecoverSteers, SendSteer,
           ReconcileBatch, MarkBatchQueued, MarkBatchPresented, AckMembers, AckOne,
           Recollect, CollectCompletions, ReadResult, AdmitCompletions, DeriveRead,
           SendBatch, HoldBatch, ProposeBatch, ContextNext, ContextSteer,
           Fails, Writes, Coordinator, runVars, ghosts, steerVars
  <2>2. \/ journal' = journal
        \/ \E id, M : journal' \in {AdmitBatch(journal, id, M),
                                    QueueBatch(journal, journal.batch.id),
                                    PresentBatch(journal, journal.batch.id),
                                    FinalizeBatch(journal, journal.batch.id)}
    BY DEF Teardown, TeardownOne, RecoverBatch, RecoverSteers, SendSteer,
           ReconcileBatch, MarkBatchQueued, MarkBatchPresented, AckMembers, AckOne,
           Recollect, CollectCompletions, ReadResult, AdmitCompletions, DeriveRead,
           SendBatch, HoldBatch, ProposeBatch, ContextNext, ContextSteer,
           Fails, Writes, Coordinator
  <2> QED
    BY <1>1, <2>1, <2>2, BatchCallSteers DEF SteersStay
<1>4. co'.seen \subseteq co.seen
  <2>1. Idle(co).seen = co.seen /\ Abort(co).seen = co.seen
    BY <1>1, ReturnFields
  <2>2. \A label : Goto(co, label).seen = co.seen
    BY <1>1, GotoFields
  <2>3. \A s, next : /\ FinishSteer(co, s, next).seen = co.seen
                     /\ Acknowledge(co, next).seen = co.seen
                     /\ Accept(co, next).seen = co.seen
                     /\ StartCollect(co).seen = co.seen
    BY <1>1, CallFields
  <2>4. CASE Teardown
    <3>1. ASSUME NEW r, TeardownOne(r) PROVE co'.seen = co.seen
      BY <1>1, <3>1 DEF TeardownOne, Coordinator, CoordinatorState
    <3>2. ASSUME NEW memory, memory = co \/ memory = Closed, Coordinator(Started(memory))
          PROVE  co'.seen \subseteq co.seen
      <4>1. Closed.seen = {}
        BY DEF Closed
      <4>2. memory \in CoordinatorState /\ memory.seen \subseteq co.seen
        BY <1>1, <3>2, <4>1, ClosedOK
      <4> QED
        BY <3>2, <4>2, StartedFields DEF Coordinator
    <3> QED
      BY <2>4, <3>1, <3>2 DEF Teardown
  <2>5. CASE RecoverBatch \/ RecoverSteers \/ SendSteer
    BY <2>2, <2>3, <2>5 DEF RecoverBatch, RecoverSteers, SendSteer, Fails, Coordinator
  <2>6. CASE ReconcileBatch
    <3>1. ASSUME NEW e \in Evidence(BatchDelivery(journal.batch.id)),
                 Coordinator(CASE e = "absent" -> Goto(co, "deliver")
                               [] e = "present" -> Accept(co, "recollect")
                               [] e = "unknown" -> Idle(co))
          PROVE  co'.seen = co.seen
      <4>1. e \in {"absent", "present", "unknown"}
        BY <3>1 DEF Evidence
      <4> QED
        BY <2>1, <2>2, <2>3, <3>1, <4>1 DEF Coordinator
    <3> QED
      BY <2>3, <2>6, <3>1 DEF ReconcileBatch, Coordinator
  <2>7. CASE MarkBatchQueued \/ MarkBatchPresented \/ Recollect
    BY <2>2, <2>3, <2>7 DEF MarkBatchQueued, MarkBatchPresented, Recollect, Writes, Coordinator
  <2>8. CASE AckMembers
    <3>1. \A m : [co EXCEPT !.unacked = @ \ {m}].seen = co.seen
      BY <1>1 DEF CoordinatorState
    <3> QED
      BY <2>1, <2>2, <2>8, <3>1 DEF AckMembers, AckOne, Fails, Writes
  <2>9. CASE CollectCompletions
    <3>1. ASSUME NEW r, ReadResult(r) PROVE co'.seen = co.seen
      BY <1>1, <3>1 DEF ReadResult, Coordinator, CoordinatorState
    <3>2. CASE AdmitCompletions
      <4>1. co' \in {Idle(co), [Goto(co, "deliver") EXCEPT !.view = UnreadView]}
        BY <3>2 DEF AdmitCompletions, Coordinator
      <4>2. [Goto(co, "deliver") EXCEPT !.view = UnreadView].seen = co.seen
        BY <1>1 DEF Goto, CoordinatorState
      <4> QED
        BY <2>1, <4>1, <4>2
    <3> QED
      BY <2>9, <3>1, <3>2 DEF CollectCompletions
  <2>10. CASE DeriveRead
    BY <1>1, <2>10 DEF DeriveRead, Coordinator, CoordinatorState
  <2>11. CASE SendBatch \/ HoldBatch \/ ProposeBatch
    BY <2>1, <2>3, <2>11 DEF SendBatch, HoldBatch, ProposeBatch, Fails, Coordinator
  <2>12. CASE ContextNext
    <3>1. ASSUME NEW s, ContextSteer(s) PROVE co'.seen = co.seen
      BY <1>1, <3>1 DEF ContextSteer, Coordinator, CoordinatorState
    <3> QED
      BY <2>1, <2>3, <2>12, <3>1 DEF ContextNext, Coordinator
  <2> QED
    BY <2>4, <2>5, <2>6, <2>7, <2>8, <2>9, <2>10, <2>11, <2>12
<1> QED
  BY <1>2, <1>3, <1>4, SeenQuiet

LEMMA SeenObserve ==
    ASSUME IInv, SteersInv, SeenInv, Observe
    PROVE  SeenInv'
<1>1. co \in CoordinatorState /\ co.pc = "observe"
  BY LocalFacts DEF Observe, At, IInv
<1>2. /\ journal' = journal /\ UNCHANGED steerVars
      /\ co'.pc = "admit" /\ co'.seen = RetainedSteers
      /\ co'.todo = RetainedSteers \ (co.seen \cup MarkedSteers)
  BY <1>1 DEF Observe, Coordinator, runVars, ghosts, steerVars, CoordinatorState
<1>3. RetainedSteers' = RetainedSteers
  BY <1>2 DEF RetainedSteers, InTrace, steerVars
<1>4. ASSUME NEW s \in RetainedSteers
      PROVE  /\ s.event \in published
             /\ s \in MarkedSteers => s \in shown
  <2>1. /\ s.run \in Runs /\ s.event \in Events /\ generation[s.run] = s.generation
        /\ InTrace(s.run, "steer", s.event)
        /\ s = [run |-> s.run, generation |-> s.generation, event |-> s.event]
    BY DEF RetainedSteers, Steer
  <2> QED
    BY <2>1 DEF SteersInv, TraceOK, MarkedSteers
<1> QED
  BY <1>1, <1>2, <1>3, <1>4 DEF SeenInv, SeenIsOwed, steerVars

LEMMA SeenAdmit ==
    ASSUME IInv, SteersInv, SeenInv, AdmitSteers
    PROVE  SeenInv'
<1>1. /\ co \in CoordinatorState /\ co.pc = "admit" /\ journal \in Journals
      /\ co.todo \subseteq Steer /\ co.seen \subseteq Steer
  BY LocalFacts DEF AdmitSteers, At, IInv, TypeOK, CoordinatorState
<1>2. UNCHANGED steerVars
  BY DEF AdmitSteers, AdmitOne, Writes, Coordinator, runVars, ghosts, steerVars
<1>3. RetainedSteers' = RetainedSteers
  BY <1>2 DEF RetainedSteers, InTrace, steerVars
<1>4. ASSUME NEW s \in co.todo, AdmitOne(s) PROVE SeenInv'
  <2> DEFINE rest == [co EXCEPT !.todo = @ \ {s}]
             again == [rest EXCEPT !.seen = @ \ {s}]
  <2>1. /\ rest.pc = "admit" /\ rest.todo = co.todo \ {s} /\ rest.seen = co.seen
        /\ again.pc = "admit" /\ again.todo = co.todo \ {s} /\ again.seen = co.seen \ {s}
    BY <1>1 DEF CoordinatorState
  <2> HIDE DEF rest, again
  <2>2. CASE journal' = AdmitSteer(journal, s) /\ co' = rest
    <3>1. /\ journal'.steers[s] # "absent"
          /\ \A t \in Steer \ {s} : journal'.steers[t] = journal.steers[t]
      BY <1>1, <2>2 DEF AdmitSteer, Journals
    <3> QED
      BY <1>1, <1>2, <1>3, <2>1, <2>2, <3>1 DEF SeenInv, SeenIsOwed, steerVars
  <2>3. CASE /\ journal' = journal /\ co' = rest
             /\ journal.steers[s] # "absent" \/ HasReceipt(journal, SteerDelivery(s))
    <3>1. journal.steers[s] # "absent" \/ s \in shown
      BY <1>1, <2>3 DEF SteersInv, ShownOK
    <3> QED
      BY <1>1, <1>2, <1>3, <2>1, <2>3, <3>1 DEF SeenInv, SeenIsOwed, steerVars
  <2>4. CASE journal' = journal /\ co' = again
    BY <1>1, <1>2, <1>3, <2>1, <2>4 DEF SeenInv, SeenIsOwed, steerVars
  <2> QED
    BY <1>4, <2>2, <2>3, <2>4 DEF AdmitOne, Writes, Coordinator, rest, again
<1>5. CASE /\ co.todo = {}
           /\ Coordinator([co EXCEPT !.pc = "flush", !.todo = ActiveSteers(journal)])
  <2>1. co'.seen = co.seen /\ journal' = journal
    BY <1>1, <1>5 DEF Coordinator, CoordinatorState
  <2> QED
    BY <1>2, <1>3, <1>5, <2>1 DEF SeenInv, SeenIsOwed, steerVars
<1> QED
  BY <1>4, <1>5 DEF AdmitSteers

LEMMA SeenSteers ==
    ASSUME IInv, SteersInv, SeenInv,
           \/ FlushSteers \/ SteerSent \/ ContextQueue \/ ContextPresent
           \/ MarkSteer \/ FinalizeSteerStep
    PROVE  SeenInv'
<1>1. /\ co \in CoordinatorState /\ journal \in Journals
      /\ co.todo \subseteq Steer /\ co.seen \subseteq Steer
      /\ co.pc \in Hand => co.cur \in Steer
      /\ RunsTypeOK
  BY SteerHandFacts DEF IInv, TypeOK, CoordinatorState
<1>2. co.pc # "admit"
  BY DEF FlushSteers, SteerSent, ContextQueue, ContextPresent, MarkSteer, FinalizeSteerStep,
         At
<1>3. co'.seen = co.seen
  <2>1. Abort(co).seen = co.seen /\ \A label : Goto(co, label).seen = co.seen
    BY <1>1, ReturnFields, GotoFields
  <2>2. \A s, next : FinishSteer(co, s, next).seen = co.seen
    BY <1>1, CallFields
  <2>3. ASSUME NEW s, FlushOne(s) PROVE co'.seen = co.seen
    <3> DEFINE rest == [co EXCEPT !.todo = @ \ {s}]
               toSend == [rest EXCEPT !.pc = "send", !.cur = s]
    <3>1. rest.seen = co.seen /\ toSend.seen = co.seen
      BY <1>1 DEF CoordinatorState
    <3>2. co' \in {rest, toSend, FinishSteer(co, s, "flush")}
      BY <2>3 DEF FlushOne, Writes, Coordinator
    <3> HIDE DEF rest, toSend
    <3> QED
      BY <2>2, <3>1, <3>2
  <2>4. ASSUME FlushDone PROVE co'.seen = co.seen
    <3> DEFINE done == [co EXCEPT !.recover = FALSE]
               armed == [Idle(done) EXCEPT !.armed = @ \/ (co.want /\ ~host.busy)]
    <3>1. done \in CoordinatorState /\ done.seen = co.seen
      BY <1>1 DEF CoordinatorState
    <3>2. co' \in {armed, Idle(done), Goto(done, "reconcile")}
      BY <2>4 DEF FlushDone, Coordinator
    <3>3. armed.seen = Idle(done).seen
      BY <3>1, ReturnOK DEF CoordinatorState
    <3> HIDE DEF done, armed
    <3> QED
      BY <3>1, <3>2, <3>3, ReturnFields, GotoFields
  <2>5. ContextPresent => co'.seen = co.seen
    BY <1>1 DEF ContextPresent, CoordinatorState
  <2> QED
    BY <2>1, <2>3, <2>4, <2>5
       DEF FlushSteers, SteerSent, ContextQueue, MarkSteer, FinalizeSteerStep, Fails, Writes
<1>4. published' = published /\ shown \subseteq shown'
  BY DEF FlushSteers, FlushOne, FlushDone, SteerSent, ContextQueue, ContextPresent,
         MarkSteer, FinalizeSteerStep, Fails, Writes, Coordinator, runVars, ghosts
<1>5. ActiveOrShown
  <2>1. ASSUME NEW s \in Steer,
               journal' \in {QueueSteer(journal, s), ResetSteer(journal, s),
                             PresentSteer(journal, s)}
        PROVE  ActiveOrShown
    BY <1>1, <2>1 DEF QueueSteer, ResetSteer, PresentSteer, Journals, ActiveOrShown
  <2>2. CASE FlushSteers
    <3>1. journal' = journal \/ \E s \in co.todo : journal' = ResetSteer(journal, s)
      BY <2>2 DEF FlushSteers, FlushOne, FlushDone, Writes, Coordinator
    <3> QED
      BY <1>1, <2>1, <3>1, SteersStayActive
  <2>3. CASE SteerSent \/ ContextQueue \/ ContextPresent
    <3>1. co.cur \in Steer
      BY <1>1, <2>3 DEF SteerSent, ContextQueue, ContextPresent, At, Hand
    <3> QED
      BY <2>1, <2>3, <3>1 DEF SteerSent, ContextQueue, ContextPresent, Writes
  <2>4. CASE MarkSteer
    BY <2>4, SteersStayActive DEF MarkSteer, Fails
  <2>5. CASE FinalizeSteerStep
    <3>1. co.cur \in Steer /\ co.cur \in shown /\ journal' = FinalizeSteer(journal, co.cur)
      BY <1>1, <2>5 DEF FinalizeSteerStep, At, Hand, Writes, SteersInv, SteerMemoryOK
    <3>2. \A t \in Steer \ {co.cur} : journal'.steers[t] = journal.steers[t]
      BY <1>1, <3>1 DEF FinalizeSteer, Journals
    <3> QED
      BY <1>4, <3>1, <3>2 DEF ActiveOrShown
  <2> QED
    BY <2>2, <2>3, <2>4, <2>5
<1>6. NoOldEvent
  <2>1. CASE MarkSteer /\ ~Fails(Abort(co))
    <3> DEFINE x == Item("presented", co.cur.event)
    <3>1. /\ trace' = trace \/ trace' = AppendTrace(co.cur.run, x)
          /\ UNCHANGED <<generation, present>>
      BY <2>1 DEF MarkSteer, Item
    <3>2. co.cur.run \in Runs /\ x \in TraceItem /\ \A e \in Events : x # Item("steer", e)
      BY <1>1, <2>1 DEF MarkSteer, At, Hand, Steer, Item, TraceItem
    <3>3. CASE trace' = trace
      BY <3>1, <3>3, SameTraces
    <3>4. CASE trace' = AppendTrace(co.cur.run, x)
      <4> HIDE DEF x
      <4>1. \A a \in Runs, e \in Events : InTrace(a, "steer", e)' => InTrace(a, "steer", e)
        BY <1>1, <3>1, <3>2, <3>4, AppendFacts
      <4> QED
        BY <3>1, <4>1 DEF NoOldEvent, RetainedSteers, Steer
    <3> QED
      BY <3>1, <3>3, <3>4
  <2>2. CASE ~MarkSteer \/ Fails(Abort(co))
    <3>1. UNCHANGED <<generation, present, trace>>
      BY <2>2 DEF FlushSteers, FlushOne, FlushDone, SteerSent, ContextQueue, ContextPresent,
             FinalizeSteerStep, Fails, Writes, Coordinator, runVars
    <3> QED
      BY <3>1, SameTraces
  <2> QED
    BY <2>1, <2>2
<1> QED
  BY <1>1, <1>2, <1>3, <1>4, <1>5, <1>6, SeenFrame

LEMMA SeenRuns ==
    ASSUME IInv, SeenInv, OwnMoves \/ NestedMoves \/ RunnerMoves
    PROVE  SeenInv'
<1>1. UNCHANGED <<journal, co, shown>> /\ RunsTypeOK /\ co.seen \subseteq Steer
  BY LocalFacts DEF OwnMoves, NestedMoves, RunnerMoves, RunsMove, ghosts, IInv, TypeOK,
                    CoordinatorState
<1>2. CASE TracesStay
  <2>1. ASSUME NEW s \in Steer, s \in RetainedSteers' PROVE s \in RetainedSteers
    <3>1. s.run \in Runs /\ trace'[s.run] # <<>>
      BY <2>1 DEF RetainedSteers, InTrace, Steer
    <3>2. /\ trace'[s.run] = trace[s.run] /\ generation'[s.run] = generation[s.run]
          /\ present'[s.run] = present[s.run]
      BY <1>2, <3>1 DEF TracesStay
    <3> QED
      BY <2>1, <3>2 DEF RetainedSteers, InTrace
  <2>2. NoOldEvent
    BY <2>1 DEF NoOldEvent
  <2> QED
    BY <1>1, <1>2, <2>2, SteersStayActive, SeenFrame DEF TracesStay
<1>3. ASSUME NEW r \in Runs, NEW e \in Events, RunnerPublishSteer(r, e) PROVE SeenInv'
  <2> DEFINE x == Item("steer", e)
  <2>1. /\ e \notin published /\ published' = published \cup {e}
        /\ trace' = AppendTrace(r, x) /\ UNCHANGED <<generation, present>>
    BY <1>3 DEF RunnerPublishSteer, Item
  <2>2. x \in TraceItem /\ \A f \in Events : x = Item("steer", f) => f = e
    BY DEF Item, TraceItem
  <2> HIDE DEF x
  <2>3. \A a \in Runs, f \in Events :
            InTrace(a, "steer", f)' => InTrace(a, "steer", f) \/ f = e
    BY <1>1, <2>1, <2>2, AppendFacts
  <2>4. NoOldEvent
    BY <2>1, <2>3 DEF NoOldEvent, RetainedSteers, Steer
  <2> QED
    BY <1>1, <2>1, <2>4, SteersStayActive, SeenFrame
<1> QED
  BY <1>1, <1>2, <1>3, RunsEvolve

LEMMA SeenNext ==
    ASSUME ~Animation, IInv, HandoverInv, SteersInv, SeenInv, [Next]_vars
    PROVE  SeenInv'
<1>1. CASE UNCHANGED vars
  BY <1>1 DEF vars, runVars, ghosts, SeenInv, SeenIsOwed, RetainedSteers, InTrace
<1>2. CASE Launch \/ Reload \/ Update \/ TimerFlush \/ HostMoves
  BY <1>2, SeenStarts DEF HostMoves
<1>3. CASE Handler
  BY <1>3, SeenBatch, SeenObserve, SeenAdmit, SeenSteers DEF Handler
<1>4. CASE OwnMoves \/ NestedMoves \/ RunnerMoves
  BY <1>4, SeenRuns
<1> QED
  BY <1>1, <1>2, <1>3, <1>4 DEF Next, AnimationTick

(* Where the status animation does not tick, an urgent event that the      *)
(* coordinator remembers as seen is being admitted, is active in the       *)
(* journal, was presented, or is gone with its Trace: neither a full       *)
(* journal nor a crash forgets it between the observation and the durable  *)
(* admission.  With the animation the claim is false (run-ui-runtime.ts    *)
(* updates from the interval without admitting what it read).              *)
THEOREM SeenIsAlwaysOwed == ASSUME ~Animation PROVE Spec => []SeenIsOwed
<1>1. Init => SeenInv
  BY DEF Init, Closed, SeenInv, SeenIsOwed
<1>2. IInv /\ HandoverInv /\ SteersInv /\ SeenInv /\ [Next]_vars => SeenInv'
  BY SeenNext
<1>3. SeenInv => SeenIsOwed
  BY DEF SeenInv
<1> QED
  BY <1>1, <1>2, <1>3, SteersHold, PTL DEF Spec

-----------------------------------------------------------------------------
(* The tree a Run belongs to.                                              *)

LEMMA LineFacts ==
    ASSUME NEW r \in Runs
    PROVE  /\ r \in Line(r) /\ Line(r) \subseteq Runs
           /\ \A a \in Line(r) : Parent[a] \in Line(r) \cup {NoRun}
<1>1. ASSUME NEW a \in Line(r) PROVE Parent[a] \in Line(r) \cup {NoRun}
  <2>1. a \in Runs /\ Parent[a] \in Runs \cup {NoRun}
    BY RunsAssumption DEF Line
  <2>2. ASSUME NEW S \in SUBSET Runs, r \in S,
               \A x \in S : Parent[x] \in S \cup {NoRun}
        PROVE  Parent[a] \in S \cup {NoRun}
    BY <2>2 DEF Line
  <2> QED
    BY <2>1, <2>2 DEF Line
<1> QED
  BY <1>1 DEF Line

\* What holds r and every parent of what it holds, holds the Runs above r.
LEMMA LineLeast ==
    ASSUME NEW r \in Runs, NEW S \in SUBSET Runs, r \in S,
           \A x \in S : Parent[x] \in S \cup {NoRun}
    PROVE  Line(r) \subseteq S
BY DEF Line

LEMMA LineUpwards ==
    ASSUME NEW r \in Runs, NEW a \in Line(r)
    PROVE  a \in Runs /\ Line(a) \subseteq Line(r)
BY LineFacts, LineLeast

\* What is above r is the parent of another Run of its line.
LEMMA LineChild ==
    ASSUME NEW r \in Runs, NEW a \in Line(r), a # r
    PROVE  \E b \in Line(r) : b # a /\ Parent[b] = a
<1> SUFFICES ASSUME \A b \in Line(r) \ {a} : Parent[b] # a PROVE FALSE
  OBVIOUS
<1> DEFINE S == Line(r) \ {a}
<1>1. S \in SUBSET Runs /\ r \in S
  BY LineFacts
<1>2. \A x \in S : Parent[x] \in S \cup {NoRun}
  BY LineFacts
<1> QED
  BY <1>1, <1>2, LineLeast

LEMMA LineOfChild ==
    ASSUME NEW d \in Runs, Parent[d] # NoRun
    PROVE  Parent[d] \in Runs /\ Line(d) = {d} \cup Line(Parent[d])
<1>1. Parent[d] \in Runs /\ Parent[d] \in Line(d) /\ d \in Line(d)
  BY LineFacts, RunsAssumption
<1>2. {d} \cup Line(Parent[d]) \subseteq Line(d)
  BY <1>1, LineUpwards
<1>3. Line(d) \subseteq {d} \cup Line(Parent[d])
  <2> DEFINE S == {d} \cup Line(Parent[d])
  <2>1. S \in SUBSET Runs /\ d \in S
    BY <1>1, LineFacts
  <2>2. \A x \in S : Parent[x] \in S \cup {NoRun}
    BY <1>1, LineFacts
  <2> QED
    BY <2>1, <2>2, LineLeast
<1> QED
  BY <1>1, <1>2, <1>3

LEMMA SameTop ==
    ASSUME NEW r \in Runs, NEW a \in Line(r), NEW x \in Line(r), Parent[x] = NoRun
    PROVE  x \in Line(a)
<1> DEFINE S == {y \in Line(r) : x \in Line(y)}
<1>1. S \in SUBSET Runs /\ r \in S
  BY LineFacts
<1>2. ASSUME NEW y \in S PROVE Parent[y] \in S \cup {NoRun}
  <2>1. y \in Runs /\ y \in Line(r) /\ x \in Line(y)
    BY LineFacts
  <2>2. CASE Parent[y] # NoRun
    BY <2>1, <2>2, LineOfChild, LineFacts
  <2> QED
    BY <2>2
<1>3. Line(r) \subseteq S
  BY <1>1, <1>2, LineLeast
<1> QED
  BY <1>3

LEMMA SameTreeRoot ==
    ASSUME NEW r \in Runs, NEW a \in Line(r)
    PROVE  TreeRoot(a) = TreeRoot(r)
<1>1. \A x : (x \in Line(a) /\ Parent[x] = NoRun) <=> (x \in Line(r) /\ Parent[x] = NoRun)
  BY SameTop, LineUpwards
<1> QED
  BY <1>1, Zenon DEF TreeRoot

-----------------------------------------------------------------------------
(* Runs at rest, and Runs that will not report any more.                   *)

\* A Run that another step of its own, of its stop or of its actor may change.
Moving(y) ==
    \/ Status(y) = "running"
    \/ IF Parent[y] = NoRun THEN stopping[y] # "none" ELSE ActorWorks(y)

Starts(x) ==
    /\ \E proc : FreshGeneration(x, proc)
    /\ Parent[x] # NoRun => ActorWorks(x)

\* Runs go on, but no directory changes hands, and what does not move stays.
Drifts ==
    /\ UNCHANGED <<generation, present, parentGeneration>>
    /\ \A y \in Runs :
           /\ handled[y] => handled'[y]
           /\ result[y] # "none" => result'[y] = result[y]
           /\ \/ Moving(y)
              \/ Status(y)' = Status(y) /\ stopping'[y] \in {stopping[y], "none"}

RunsStepOK == Drifts \/ \E x \in Runs : Starts(x) \/ RetainRun(x)

\* No Run was started under a generation its parent has yet to reach.
OriginOK ==
    \A r \in Runs : Parent[r] # NoRun => parentGeneration[r] <= generation[Parent[r]]

\* Somewhere above r a Run is gone, or is another one than the one that started
\* what is below it.
Unlinked(r) ==
    \E a \in Line(r) : /\ Parent[a] # NoRun
                       /\ \/ ~present[Parent[a]]
                          \/ generation[Parent[a]] # parentGeneration[a]

\* The directory holds another generation than m, or nothing, or leads nowhere.
Past(m) == generation[m.run] # m.generation \/ ~present[m.run] \/ Unlinked(m.run)

\* Nothing on the line of r moves.
AtRest(r) ==
    \A a \in Line(r) : Terminal(a) /\ (Parent[a] = NoRun => stopping[a] = "none")

\* r has nothing to report while it is this generation of r.
Mute(r) ==
    \/ ~present[r] \/ handled[r] \/ r \in Silent \/ Unlinked(r)
    \/ AtRest(r) /\ Status(r) = "cancelled"

LEMMA LocalsDrift ==
    ASSUME RunsTypeOK, UNCHANGED <<generation, present, process, result, cut, stopping,
                                   parentGeneration>>,
           \A y \in Runs : handled[y] => handled'[y]
    PROVE  Drifts
BY DEF Drifts, Status, DeriveStatus

LEMMA RunDrifts ==
    ASSUME RunsTypeOK, NEW r \in Runs,
           \/ SpawnNested(r) /\ Parent[r] # NoRun /\ ActorWorks(r)
           \/ StopRecord(r) /\ (Parent[r] # NoRun => ActorWorks(r))
           \/ StopHandled(r) \/ StopAbandoned(r) \/ RunnerExit(r)
           \/ \E how \in Interruptions : StopSignal(r, how)
           \/ \E e \in Events : RunnerPublishSteer(r, e)
           \/ \E code \in Codes : RunnerFinish(r, code)
    PROVE  Drifts
<1> USE DEF RunsTypeOK
<1>1. CASE SpawnNested(r) /\ Parent[r] # NoRun /\ ActorWorks(r)
  BY <1>1 DEF SpawnNested, Drifts, Moving, Status, DeriveStatus
<1>2. CASE StopRecord(r) /\ (Parent[r] # NoRun => ActorWorks(r))
  <2>1. Moving(r)
    BY <1>2 DEF StopRecord, Moving
  <2>2. \A y \in Runs \ {r} : cut'[y] = cut[y] /\ process'[y] = process[y]
    BY <1>2 DEF StopRecord
  <2> QED
    BY <1>2, <2>1, <2>2 DEF StopRecord, Drifts, Status, DeriveStatus
<1>3. CASE StopHandled(r) \/ StopAbandoned(r)
  BY <1>3 DEF StopHandled, StopAbandoned, Drifts, Status, DeriveStatus
<1>4. CASE RunnerExit(r)
  BY <1>4 DEF RunnerExit, Drifts, Moving, Status, DeriveStatus
<1>5. CASE \E how \in Interruptions : StopSignal(r, how)
  BY <1>5 DEF StopSignal, Drifts, Moving, Status, DeriveStatus
<1>6. CASE \E e \in Events : RunnerPublishSteer(r, e)
  BY <1>6 DEF RunnerPublishSteer, Drifts, Status, DeriveStatus
<1>7. CASE \E code \in Codes : RunnerFinish(r, code)
  BY <1>7 DEF RunnerFinish, Drifts, Moving, Status, DeriveStatus
<1> QED
  BY <1>1, <1>2, <1>3, <1>4, <1>5, <1>6, <1>7

LEMMA RunsDrift ==
    ASSUME RunsTypeOK, OwnMoves \/ NestedMoves \/ RunnerMoves
    PROVE  RunsStepOK
<1>1. CASE OwnMoves
  BY <1>1, RunDrifts DEF OwnMoves, RunsMove, StartTopLevel, Starts, RunsStepOK
<1>2. CASE NestedMoves
  BY <1>2, RunDrifts DEF NestedMoves, RunsMove, StartNested, Starts, RunsStepOK, ActorWorks
<1>3. CASE RunnerMoves
  BY <1>3, RunDrifts DEF RunnerMoves, RunsMove, RunsStepOK
<1> QED
  BY <1>1, <1>2, <1>3

LEMMA NextDrifts ==
    ASSUME IInv, [Next]_vars
    PROVE  RunsStepOK
<1> USE DEF RunsStepOK
<1>1. RunsTypeOK
  BY DEF IInv, TypeOK
<1>2. CASE UNCHANGED runVars
  BY <1>1, <1>2, LocalsDrift DEF runVars
<1>3. CASE OwnMoves \/ NestedMoves \/ RunnerMoves
  BY <1>1, <1>3, RunsDrift
<1>4. CASE HostCrash
  <2>1. \A y \in Runs : stopping'[y] \in {stopping[y], "none"}
    BY <1>4 DEF HostCrash
  <2> QED
    BY <1>4, <2>1 DEF HostCrash, Drifts, Status, DeriveStatus
<1>5. CASE Teardown /\ ~UNCHANGED runVars
  <2>1. PICK r \in co.unread : StopSignal(r, "killed")
    BY <1>5 DEF Teardown, TeardownOne, Coordinator
  <2>2. r \in Runs
    BY LocalFacts DEF IInv, CoordinatorState
  <2> QED
    BY <1>1, <2>1, <2>2
       DEF StopSignal, Drifts, Moving, Status, DeriveStatus, RunsTypeOK
<1>6. CASE MarkSteer
  BY <1>1, <1>2, <1>6, LocalsDrift DEF MarkSteer, Fails
<1>7. CASE AckMembers
  <2>1. CASE UNCHANGED runVars
    BY <1>2, <2>1
  <2>2. ASSUME NEW m \in co.unacked, AckOne(m), ~UNCHANGED runVars PROVE RunsStepOK
    <3>1. handled' = [handled EXCEPT ![m.run] = @ \/ SameRecord(m)]
          /\ UNCHANGED <<generation, present, process, result, cut, stopping,
                         parentGeneration>>
      BY <2>2 DEF AckOne, Fails
    <3> QED
      BY <1>1, <3>1, LocalsDrift DEF RunsTypeOK
  <2> QED
    BY <1>7, <2>1, <2>2 DEF AckMembers, Writes
<1>8. CASE \/ Launch \/ Reload \/ Update \/ TimerFlush \/ AnimationTick
           \/ RecoverBatch \/ RecoverSteers \/ FinalizeSteerStep
           \/ Observe \/ AdmitSteers \/ FlushSteers \/ SendSteer \/ SteerSent
           \/ ReconcileBatch \/ MarkBatchQueued \/ MarkBatchPresented
           \/ Recollect \/ CollectCompletions \/ DeriveRead
           \/ SendBatch \/ HoldBatch \/ ProposeBatch
           \/ ContextNext \/ ContextQueue \/ ContextPresent
           \/ (HostMoves /\ ~HostCrash)
  <2> USE DEF Coordinator, Writes, Fails, Hosts
  <2>1. CASE Launch \/ Reload \/ Update \/ TimerFlush \/ AnimationTick
    BY <1>2, <2>1 DEF Launch, Reload, Update, TimerFlush, AnimationTick
  <2>2. CASE RecoverBatch \/ RecoverSteers \/ FinalizeSteerStep \/ Observe
    BY <1>2, <2>2 DEF RecoverBatch, RecoverSteers, FinalizeSteerStep, Observe
  <2>3. CASE AdmitSteers \/ FlushSteers \/ SendSteer \/ SteerSent
    BY <1>2, <2>3
       DEF AdmitSteers, AdmitOne, FlushSteers, FlushOne, FlushDone, SendSteer, SteerSent
  <2>4. CASE ReconcileBatch \/ MarkBatchQueued \/ MarkBatchPresented \/ Recollect
    BY <1>2, <2>4 DEF ReconcileBatch, MarkBatchQueued, MarkBatchPresented, Recollect
  <2>5. CASE CollectCompletions \/ DeriveRead
    BY <1>2, <2>5 DEF CollectCompletions, ReadResult, AdmitCompletions, DeriveRead
  <2>6. CASE SendBatch \/ HoldBatch \/ ProposeBatch
    BY <1>2, <2>6 DEF SendBatch, HoldBatch, ProposeBatch
  <2>7. CASE ContextNext \/ ContextQueue \/ ContextPresent
    BY <1>2, <2>7 DEF ContextNext, ContextSteer, ContextQueue, ContextPresent
  <2>8. CASE HostMoves /\ ~HostCrash
    BY <1>2, <2>8 DEF HostMoves, HostWork, HostCommitMessage, HostContext, HostTurnEnd,
                      HostCommitProposal, HostDropProposal, HostSettle, Settle
  <2> QED
    BY <1>8, <2>1, <2>2, <2>3, <2>4, <2>5, <2>6, <2>7, <2>8
<1>9. CASE UNCHANGED vars
  BY <1>2, <1>9 DEF vars
<1>10. CASE Next
  BY <1>2, <1>3, <1>4, <1>5, <1>6, <1>7, <1>8, <1>10 DEF Next, Handler
<1> QED
  BY <1>9, <1>10

\* What a start or the retention of x leaves alone.
LEMMA OneChanges ==
    ASSUME RunsTypeOK, NEW x \in Runs, Starts(x) \/ RetainRun(x)
    PROVE  /\ \A y \in Runs \ {x} :
                  /\ generation'[y] = generation[y] /\ present'[y] = present[y]
                  /\ parentGeneration'[y] = parentGeneration[y]
                  /\ handled'[y] = handled[y] /\ Status(y)' = Status(y)
           /\ stopping' = stopping
           /\ Starts(x) => /\ generation'[x] = generation[x] + 1
                           /\ parentGeneration'[x] =
                                  IF Parent[x] = NoRun THEN 0 ELSE generation[Parent[x]]
           /\ RetainRun(x) => /\ generation' = generation /\ ~present'[x]
                              /\ parentGeneration' = parentGeneration
BY DEF RunsTypeOK, Starts, FreshGeneration, RetainRun, Status, DeriveStatus

LEMMA OriginStays ==
    ASSUME RunsTypeOK, OriginOK, RunsStepOK
    PROVE  OriginOK'
<1>1. CASE Drifts
  BY <1>1 DEF Drifts, OriginOK
<1>2. ASSUME NEW x \in Runs, Starts(x) \/ RetainRun(x) PROVE OriginOK'
  <2> SUFFICES ASSUME NEW r \in Runs, Parent[r] # NoRun
               PROVE  parentGeneration'[r] <= generation'[Parent[r]]
    BY DEF OriginOK
  <2>1. Parent[r] \in Runs /\ parentGeneration[r] <= generation[Parent[r]]
    BY RunsAssumption DEF OriginOK
  <2>2. \A y \in Runs : generation[y] \in Nat /\ parentGeneration[y] \in Nat
    BY RunsAssumption DEF RunsTypeOK
  <2>3. generation'[Parent[r]] \in {generation[Parent[r]], generation[Parent[r]] + 1}
    BY <1>2, <2>1, OneChanges
  <2>4. parentGeneration'[r] \in {parentGeneration[r], generation[Parent[r]]}
    BY <1>2, <2>1, OneChanges
  <2> QED
    BY <2>1, <2>2, <2>3, <2>4
<1> QED
  BY <1>1, <1>2 DEF RunsStepOK

\* The Run above that starts again, or goes, cuts r off.
LEMMA UpsetUnlinks ==
    ASSUME RunsTypeOK, OriginOK, NEW r \in Runs, NEW x \in Line(r), x # r,
           Starts(x) \/ RetainRun(x)
    PROVE  Unlinked(r)'
<1>1. PICK b \in Line(r) : b # x /\ Parent[b] = x
  BY LineChild
<1>2. x \in Runs /\ b \in Runs /\ x # NoRun
  BY LineUpwards, RunsAssumption
<1>3. parentGeneration'[b] = parentGeneration[b] /\ parentGeneration[b] <= generation[x]
  BY <1>1, <1>2, OneChanges DEF OriginOK
<1>4. generation[x] \in Nat /\ parentGeneration[b] \in Nat
  BY <1>2, RunsAssumption DEF RunsTypeOK
<1>5. ~present'[x] \/ generation'[x] # parentGeneration'[b]
  BY <1>2, <1>3, <1>4, OneChanges
<1> QED
  BY <1>1, <1>2, <1>5 DEF Unlinked

\* A change elsewhere leaves the line of r as it was.
LEMMA ElsewhereKeeps ==
    ASSUME RunsTypeOK, NEW r \in Runs, NEW x \in Runs \ Line(r),
           Starts(x) \/ RetainRun(x)
    PROVE  /\ Unlinked(r)' = Unlinked(r) /\ AtRest(r)' = AtRest(r)
           /\ generation'[r] = generation[r] /\ present'[r] = present[r]
           /\ parentGeneration'[r] = parentGeneration[r]
           /\ handled'[r] = handled[r] /\ Status(r)' = Status(r)
<1>1. \A a \in Line(r) : a \in Runs \ {x} /\ Parent[a] \in (Runs \ {x}) \cup {NoRun}
  BY LineFacts
<1>2. r \in Runs \ {x}
  BY LineFacts
<1>3. \A a \in Line(r) :
          /\ Status(a)' = Status(a) /\ present'[a] = present[a]
          /\ parentGeneration'[a] = parentGeneration[a] /\ stopping'[a] = stopping[a]
  BY <1>1, OneChanges
<1>4. \A a \in Line(r) : Parent[a] # NoRun =>
          /\ present'[Parent[a]] = present[Parent[a]]
          /\ generation'[Parent[a]] = generation[Parent[a]]
  BY <1>1, OneChanges
<1>5. Unlinked(r)' = Unlinked(r)
  BY <1>3, <1>4 DEF Unlinked
<1>6. AtRest(r)' = AtRest(r)
  BY <1>3 DEF AtRest, Terminal
<1> QED
  BY <1>2, <1>5, <1>6, OneChanges

\* What is at rest stays so while directories keep their generations.
LEMMA RestDrifts ==
    ASSUME RunsTypeOK, NEW r \in Runs, AtRest(r), Drifts
    PROVE  AtRest(r)' /\ Status(r)' = Status(r)
<1>1. ASSUME NEW a \in Line(r)
      PROVE  /\ Status(a)' = Status(a) /\ present'[a] = present[a]
             /\ stopping'[a] \in {stopping[a], "none"}
  <2>1. a \in Runs /\ Parent[a] \in Line(r) \cup {NoRun}
    BY LineFacts
  <2>2. Terminal(a) /\ (Parent[a] = NoRun => stopping[a] = "none")
    BY DEF AtRest
  <2>3. ~ActorWorks(a)
    <3> SUFFICES ASSUME ActorWorks(a) PROVE FALSE
      OBVIOUS
    <3>1. Parent[a] \in Line(r) /\ Terminal(Parent[a])
      BY <2>1 DEF ActorWorks, AtRest
    <3> QED
      BY <3>1 DEF ActorWorks, Terminal, Status, DeriveStatus
  <2>4. ~Moving(a)
    BY <2>2, <2>3 DEF Moving, Terminal
  <2> QED
    BY <2>1, <2>4 DEF Drifts
<1>2. r \in Line(r)
  BY LineFacts
<1> QED
  BY <1>1, <1>2 DEF AtRest, Terminal

LEMMA UnlinkedStays ==
    ASSUME RunsTypeOK, OriginOK, RunsStepOK, NEW r \in Runs, Unlinked(r), ~Starts(r)
    PROVE  Unlinked(r)'
<1>1. CASE Drifts
  BY <1>1 DEF Drifts, Unlinked
<1>2. ASSUME NEW x \in Runs, Starts(x) \/ RetainRun(x) PROVE Unlinked(r)'
  <2>1. CASE x \in Line(r) /\ x # r
    BY <1>2, <2>1, UpsetUnlinks
  <2>2. CASE x \notin Line(r)
    BY <1>2, <2>2, ElsewhereKeeps
  <2>3. CASE x = r
    <3>1. RetainRun(r)
      BY <1>2, <2>3
    <3>2. generation' = generation /\ parentGeneration' = parentGeneration
          /\ \A y \in Runs : present'[y] => present[y]
      BY <3>1, OneChanges
    <3>3. \A a \in Line(r) : Parent[a] # NoRun => Parent[a] \in Runs
      BY LineFacts
    <3> QED
      BY <3>2, <3>3 DEF Unlinked
  <2> QED
    BY <2>1, <2>2, <2>3
<1> QED
  BY <1>1, <1>2 DEF RunsStepOK

-----------------------------------------------------------------------------
(* What is given: the records Pi accepted, and those of the batch the      *)
(* journal holds.                                                          *)

Given == taken \cup Accepted(journal.batch)

\* m is what its directory says, and will say.
Settled(m) == AtRest(m.run) /\ SameRecord(m)

\* No batch will name the generation of m again.
Spent(m) == handled[m.run] \/ Past(m)

\* Batch k gave generation g of x.
GaveIn(k, x, g) == \E t \in Given : t[1] = k /\ t[2].run = x /\ t[2].generation = g

LEMMA SpentStays ==
    ASSUME RunsTypeOK, OriginOK, RunsStepOK, NEW m \in Member,
           m.generation <= generation[m.run]
    PROVE  /\ m.generation <= generation'[m.run]
           /\ Starts(m.run) => generation'[m.run] # m.generation
           /\ Past(m) => Past(m)'
           /\ Spent(m) => Spent(m)'
<1>1. /\ m.run \in Runs /\ m.generation \in Nat /\ generation[m.run] \in Nat
  BY RunsAssumption DEF Member, RunsTypeOK
<1>2. /\ m.generation <= generation'[m.run]
      /\ Starts(m.run) => generation'[m.run] = generation[m.run] + 1
      /\ generation'[m.run] \in {generation[m.run], generation[m.run] + 1}
  <2>1. CASE Drifts
    <3>1. ~Starts(m.run)
      BY <1>1, <2>1 DEF Drifts, Starts, FreshGeneration, RunsTypeOK
    <3> QED
      BY <1>1, <2>1, <3>1 DEF Drifts
  <2>2. ASSUME NEW x \in Runs, Starts(x) \/ RetainRun(x)
        PROVE  /\ generation'[m.run] \in {generation[m.run], generation[m.run] + 1}
               /\ Starts(m.run) => generation'[m.run] = generation[m.run] + 1
    BY <1>1, <2>2, OneChanges
  <2> QED
    BY <1>1, <2>1, <2>2 DEF RunsStepOK
<1>3. Starts(m.run) => generation'[m.run] # m.generation
  BY <1>1, <1>2
<1>4. ASSUME Past(m) PROVE Past(m)'
  <2>1. CASE Starts(m.run)
    BY <1>3, <2>1 DEF Past
  <2>2. CASE generation[m.run] # m.generation
    BY <1>1, <1>2, <2>2 DEF Past
  <2>3. CASE ~present[m.run] /\ ~Starts(m.run)
    <3>1. ~present'[m.run]
      <4>1. CASE Drifts
        BY <2>3, <4>1 DEF Drifts
      <4>2. ASSUME NEW x \in Runs, Starts(x) \/ RetainRun(x) PROVE ~present'[m.run]
        BY <1>1, <2>3, <4>2, OneChanges
      <4> QED
        BY <4>1, <4>2 DEF RunsStepOK
    <3> QED
      BY <3>1 DEF Past
  <2>4. CASE Unlinked(m.run) /\ ~Starts(m.run)
    BY <1>1, <2>4, UnlinkedStays DEF Past
  <2> QED
    BY <1>4, <2>1, <2>2, <2>3, <2>4 DEF Past
<1>5. ASSUME handled[m.run] PROVE Spent(m)'
  <2>1. CASE Drifts
    BY <1>1, <1>5, <2>1 DEF Drifts, Spent
  <2>2. ASSUME NEW x \in Runs, Starts(x) \/ RetainRun(x) PROVE Spent(m)'
    <3>1. CASE x # m.run
      BY <1>1, <1>5, <2>2, <3>1, OneChanges DEF Spent
    <3>2. CASE x = m.run
      BY <1>1, <1>3, <2>2, <3>2, OneChanges DEF Spent, Past
    <3> QED
      BY <3>1, <3>2
  <2> QED
    BY <2>1, <2>2 DEF RunsStepOK
<1> QED
  BY <1>2, <1>3, <1>4, <1>5 DEF Spent

LEMMA SettledStays ==
    ASSUME RunsTypeOK, OriginOK, RunsStepOK, NEW m \in Member,
           m.generation <= generation[m.run], Settled(m)
    PROVE  Past(m)' \/ Settled(m)'
<1>1. m.run \in Runs /\ m.run \in Line(m.run)
  BY LineFacts DEF Member
<1>2. CASE Drifts
  <2>1. AtRest(m.run)' /\ Status(m.run)' = Status(m.run)
    BY <1>1, <1>2, RestDrifts DEF Settled
  <2> QED
    BY <1>2, <2>1 DEF Drifts, Settled, SameRecord
<1>3. ASSUME NEW x \in Runs, Starts(x) \/ RetainRun(x) PROVE Past(m)' \/ Settled(m)'
  <2>1. CASE x = m.run
    BY <1>1, <1>3, <2>1, SpentStays, OneChanges DEF Past
  <2>2. CASE x # m.run /\ x \in Line(m.run)
    BY <1>1, <1>3, <2>2, UpsetUnlinks DEF Past
  <2>3. CASE x \notin Line(m.run)
    BY <1>1, <1>3, <2>3, ElsewhereKeeps DEF Settled, SameRecord
  <2> QED
    BY <2>1, <2>2, <2>3
<1> QED
  BY <1>2, <1>3 DEF RunsStepOK

LEMMA MuteStays ==
    ASSUME RunsTypeOK, OriginOK, RunsStepOK, NEW r \in Runs, Mute(r), ~Starts(r)
    PROVE  Mute(r)'
<1>1. CASE Unlinked(r)
  BY <1>1, UnlinkedStays DEF Mute
<1>2. CASE r \in Silent
  BY <1>2 DEF Mute
<1>3. CASE Drifts
  <2>1. CASE ~present[r] \/ handled[r]
    BY <1>3, <2>1 DEF Drifts, Mute
  <2>2. CASE AtRest(r) /\ Status(r) = "cancelled"
    BY <1>3, <2>2, RestDrifts DEF Mute
  <2> QED
    BY <1>1, <1>2, <2>1, <2>2 DEF Mute
<1>4. ASSUME NEW x \in Runs, Starts(x) \/ RetainRun(x), ~Unlinked(r) PROVE Mute(r)'
  <2>1. CASE x = r
    BY <1>4, <2>1, OneChanges DEF Mute
  <2>2. CASE x # r /\ x \in Line(r)
    BY <1>4, <2>2, UpsetUnlinks DEF Mute
  <2>3. CASE x \notin Line(r)
    BY <1>4, <2>3, ElsewhereKeeps DEF Mute
  <2> QED
    BY <2>1, <2>2, <2>3
<1> QED
  BY <1>1, <1>3, <1>4 DEF RunsStepOK

\* A Run that starts below one that is gone or cut off is cut off itself.
LEMMA StartsUnlinked ==
    ASSUME RunsTypeOK, OriginOK, NEW d \in Runs, Starts(d), Parent[d] # NoRun,
           ~present[Parent[d]] \/ Unlinked(Parent[d])
    PROVE  Unlinked(d)'
<1>1. /\ Parent[d] \in Runs /\ d \in Line(d) /\ Line(Parent[d]) \subseteq Line(d)
      /\ generation[d] \in Nat
  BY LineOfChild, LineFacts, RunsAssumption DEF RunsTypeOK
<1>2. CASE Parent[d] = d
  BY <1>1, <1>2, OneChanges DEF Unlinked
<1>3. CASE Parent[d] # d /\ ~present[Parent[d]]
  BY <1>1, <1>3, OneChanges DEF Unlinked
<1>4. CASE Parent[d] # d /\ Unlinked(Parent[d])
  <2>1. Unlinked(Parent[d])'
    BY <1>1, <1>4, UpsetUnlinks, ElsewhereKeeps
  <2> QED
    BY <1>1, <2>1 DEF Unlinked
<1> QED
  BY <1>2, <1>3, <1>4

-----------------------------------------------------------------------------
(* What the coordinator knows of the Runs while it reads them, and what is *)
(* given while it does anything else.                                      *)

\* No stop of an owned Run is under way in a handler, or in a host that is down.
QuietOK == co.pc \notin {"idle", "teardown"} \/ ~host.up => ~OwnStopping

\* Of the directories read since the collection began, the view is still true.
ReadOK ==
    /\ co.pc \in {"collect", "derive"} => \A r \in Runs \ co.unread :
           /\ co.view[r].present = present[r]
           /\ co.view[r].generation = generation[r]
           /\ co.view[r].parentGeneration = parentGeneration[r]
           /\ (co.pc = "collect" \/ r # co.cur) =>
                  co.view[r].status = Status(r) /\ co.view[r].handled = handled[r]
    /\ co.pc = "derive" => /\ co.cur \notin co.unread
                           /\ co.view[co.cur].status = result[co.cur]
                           /\ co.view[co.cur].pid <=> process[co.cur] # "unborn"

MemoryOK == QuietOK /\ (SyncReads => ReadOK)

\* A step that gives nothing: at most, acknowledgement or a collection begins.
Passes ==
    /\ Given' = Given /\ Accepted(journal.batch)' = Accepted(journal.batch)
    /\ co'.pc \in {"collect", "derive"} =>
           co.pc \in {"collect", "derive"} \/ co'.unread = Runs
    /\ co'.pc = "ack" => \/ co'.unacked = journal'.batch.members
                         \/ co.pc = "ack" /\ co'.unacked = co.unacked

LEMMA PassFrame ==
    ASSUME MemoryOK, NEW c, co' = c, UNCHANGED <<stopping, taken>>,
           host'.up = host.up, journal'.batch = journal.batch,
           \/ co.pc \notin {"idle", "teardown"} \/ ~OwnStopping
           \/ c.pc \in {"idle", "teardown"},
           c.pc \notin {"collect", "derive"},
           c.pc = "ack" => c.unacked = journal.batch.members
    PROVE  MemoryOK' /\ Passes
<1>1. QuietOK'
  BY DEF MemoryOK, QuietOK, OwnStopping
<1>2. ReadOK'
  BY DEF ReadOK
<1>3. Passes
  BY DEF Passes, Given, Accepted
<1> QED
  BY <1>1, <1>2, <1>3 DEF MemoryOK

LEMMA PassHost ==
    ASSUME IInv, HandoverInv, MemoryOK,
           \/ Launch \/ Reload \/ Update \/ TimerFlush \/ AnimationTick
           \/ HostWork \/ HostCommitMessage \/ HostContext \/ HostTurnEnd
           \/ HostDropProposal \/ HostSettle
    PROVE  MemoryOK' /\ Passes
<1>1. /\ co \in CoordinatorState /\ host \in HostState
      /\ Free => co.pc = "idle" /\ ~OwnStopping
  BY HandlerFacts DEF Free
<1>2. CASE Launch
  <2>1. co' = Started(co) /\ host'.up /\ ~OwnStopping
        /\ UNCHANGED <<stopping, taken, journal>>
    BY <1>1, <1>2 DEF Launch, HostState, MemoryOK, QuietOK, ghosts, runVars
  <2>2. co'.pc = "recoverBatch"
    BY <1>1, <2>1, StartedFields
  <2>3. ~OwnStopping'
    BY <2>1 DEF OwnStopping
  <2> QED
    BY <2>1, <2>2, <2>3 DEF MemoryOK, QuietOK, ReadOK, Passes, Given, Accepted
<1>3. CASE Reload
  <2>1. co'.pc = "teardown"
    BY <1>1, <1>3, ReturnOK DEF Reload, CoordinatorState
  <2> QED
    BY <1>1, <1>3, <2>1, PassFrame DEF Reload, ghosts, runVars
<1>4. CASE Update \/ HostContext \/ HostTurnEnd
  <2>1. co'.pc \in {"observe", "context", "flush"}
    BY <1>1, <1>4, EnterFields DEF Update, HostContext, HostTurnEnd, Coordinator
  <2> QED
    BY <1>1, <1>4, <2>1, PassFrame
       DEF Update, HostContext, HostTurnEnd, Coordinator, ghosts, runVars
<1>5. CASE TimerFlush
  <2> DEFINE c == [co EXCEPT !.armed = FALSE]
  <2>1. c \in CoordinatorState
    BY <1>1 DEF CoordinatorState
  <2>2. co' = Enter(c, "timer", "flush") /\ Free
        /\ UNCHANGED <<stopping, taken, journal, host>>
    BY <1>5 DEF TimerFlush, Coordinator, ghosts, runVars
  <2> HIDE DEF c
  <2>3. co'.pc = "flush"
    BY <2>1, <2>2, EnterFields
  <2> QED
    BY <1>1, <2>2, <2>3, PassFrame
<1>6. CASE AnimationTick
  <2>1. co'.pc = co.pc
    BY <1>1, <1>6 DEF AnimationTick, Coordinator, CoordinatorState
  <2> QED
    BY <1>1, <1>6, <2>1, PassFrame DEF AnimationTick, Coordinator, ghosts, runVars
<1>7. CASE HostWork \/ HostCommitMessage \/ HostDropProposal
  <2>1. co' = co /\ host'.up = host.up
    BY <1>1, <1>7 DEF HostWork, HostCommitMessage, HostDropProposal, Hosts, HostState
  <2> QED
    BY <1>1, <1>7, <2>1, PassFrame
       DEF HostWork, HostCommitMessage, HostDropProposal, Hosts, ghosts, runVars
<1>8. CASE HostSettle
  <2>1. PICK again \in BOOLEAN : Settle(again)
    BY <1>8 DEF HostSettle
  <2> DEFINE c == IF co.open THEN Enter(co, "settled", "flush") ELSE co
  <2>2. c.pc \in {"idle", "flush"}
    BY <1>1, <2>1, EnterFields DEF Settle
  <2>3. Free /\ co' = c /\ host'.up = host.up /\ UNCHANGED <<stopping, taken, journal>>
    BY <1>1, <2>1 DEF Settle, Hosts, HostState, ghosts, runVars
  <2> HIDE DEF c
  <2> QED
    BY <1>1, <2>2, <2>3, PassFrame
<1> QED
  BY <1>2, <1>3, <1>4, <1>5, <1>6, <1>7, <1>8

LEMMA PassAccepts ==
    ASSUME IInv, HandoverInv, MemoryOK, HostCommitProposal \/ HostCrash
    PROVE  MemoryOK' /\ Passes
<1>1. /\ co \in CoordinatorState /\ host \in HostState
      /\ Free => co.pc = "idle" /\ ~OwnStopping
  BY HandlerFacts DEF Free
<1>2. CASE HostCommitProposal
  <2>1. /\ co' = co /\ co.pc = "idle" /\ host'.up = host.up
        /\ UNCHANGED <<stopping, journal>>
        /\ taken' = taken \cup Accepted(journal.batch)
    BY <1>1, <1>2 DEF HostCommitProposal, HostState, runVars
  <2>2. Passes
    BY <2>1 DEF Passes, Given, Accepted
  <2> QED
    BY <2>1, <2>2 DEF MemoryOK, QuietOK, ReadOK, OwnStopping
<1>3. CASE HostCrash
  <2>1. /\ co'.pc = "idle" /\ UNCHANGED <<taken, journal>>
        /\ \A r \in Runs : Parent[r] = NoRun => stopping'[r] = "none"
    BY <1>3 DEF HostCrash, Closed, ghosts
  <2>2. MemoryOK'
    BY <2>1 DEF MemoryOK, QuietOK, ReadOK, OwnStopping
  <2> QED
    BY <2>1, <2>2 DEF Passes, Given, Accepted
<1> QED
  BY <1>2, <1>3

LEMMA PassWalks ==
    ASSUME IInv, HandoverInv, MemoryOK,
           RecoverBatch \/ RecoverSteers \/ MarkSteer \/ FinalizeSteerStep \/ Observe
    PROVE  MemoryOK' /\ Passes
<1>1. co \in CoordinatorState /\ journal \in Journals
  BY HandlerFacts DEF IInv, TypeOK
<1>2. CASE RecoverBatch
  <2>1. /\ co.pc = "recoverBatch" /\ UNCHANGED <<host, stopping, taken, journal>>
        /\ co' \in {Acknowledge(co, "recoverSteers"), Goto(co, "recoverSteers")}
    BY <1>2 DEF RecoverBatch, At, Coordinator, ghosts, runVars
  <2>2. /\ co'.pc \in {"ack", "recoverSteers"}
        /\ co'.pc = "ack" => co'.unacked = journal.batch.members
    <3>1. Acknowledge(co, "recoverSteers").unacked = journal.batch.members
      BY <1>1 DEF Acknowledge, CoordinatorState
    <3> QED
      BY <1>1, <2>1, <3>1, CallFields, GotoFields
  <2> QED
    BY <2>1, <2>2, PassFrame
<1>3. CASE RecoverSteers
  <2>1. /\ co.pc = "recoverSteers" /\ UNCHANGED <<host, stopping, taken, journal>>
        /\ co' = Goto(co, "observe") \/ \E s : co' = FinishSteer(co, s, "recoverSteers")
    BY <1>3 DEF RecoverSteers, At, Coordinator, ghosts, runVars
  <2>2. co'.pc \in {"observe", "mark"}
    BY <1>1, <2>1, CallFields, GotoFields
  <2> QED
    BY <2>1, <2>2, PassFrame
<1>4. CASE MarkSteer
  <2>1. /\ co.pc = "mark" /\ UNCHANGED <<host, stopping, taken, journal>>
        /\ co' \in {Goto(co, "finish"), Abort(co)}
    BY <1>4 DEF MarkSteer, At, Fails, ghosts, runVars
  <2>2. co'.pc \in {"finish", "idle"}
    BY <1>1, <2>1, GotoFields, ReturnFields
  <2> QED
    BY <2>1, <2>2, PassFrame
<1>5. CASE FinalizeSteerStep
  <2>1. /\ co.pc = "finish" /\ UNCHANGED <<host, stopping, taken>>
        /\ journal'.batch = journal.batch /\ co' = Goto(co, co.back)
    <3>1. co.cur \in Steer
      BY <1>5, SteerLocals DEF FinalizeSteerStep, At
    <3> QED
      BY <1>5, <3>1, SteerCallBatch
         DEF FinalizeSteerStep, At, Writes, ghosts, runVars
  <2>2. co.back \in {"idle", "recoverSteers", "flush", "recollect", "context"}
    BY <1>1 DEF CoordinatorState
  <2>3. co'.pc \in {"idle", "recoverSteers", "flush", "recollect", "context"}
    BY <1>1, <2>1, <2>2, GotoFields, ReturnFields
  <2> QED
    BY <2>1, <2>3, PassFrame
<1>6. CASE Observe
  <2>1. /\ co.pc = "observe" /\ UNCHANGED <<host, stopping, taken, journal>>
        /\ co'.pc = "admit"
    BY <1>1, <1>6 DEF Observe, At, Coordinator, ghosts, runVars, CoordinatorState
  <2> QED
    BY <2>1, PassFrame
<1> QED
  BY <1>2, <1>3, <1>4, <1>5, <1>6

LEMMA PassSteers ==
    ASSUME IInv, HandoverInv, MemoryOK,
           \/ AdmitSteers \/ FlushSteers \/ SendSteer \/ SteerSent
           \/ ContextNext \/ ContextQueue \/ ContextPresent
    PROVE  MemoryOK' /\ Passes
<1>1. co \in CoordinatorState /\ journal \in Journals /\ host \in HostState
  BY HandlerFacts DEF IInv, TypeOK
<1>2. \A s \in co.todo : s \in Steer
  BY <1>1 DEF CoordinatorState
<1>3. CASE AdmitSteers
  <2>1. co.pc = "admit" /\ UNCHANGED <<host, stopping, taken>>
    BY <1>3 DEF AdmitSteers, AdmitOne, At, Coordinator, Writes, ghosts, runVars
  <2>2. journal'.batch = journal.batch
    <3>1. ASSUME NEW s \in co.todo, AdmitOne(s) PROVE journal'.batch = journal.batch
      BY <1>2, <3>1, SteerCallBatch DEF AdmitOne, Coordinator, Writes
    <3> QED
      BY <1>3, <3>1 DEF AdmitSteers, Coordinator
  <2>3. co'.pc \in {"admit", "flush"}
    BY <1>1, <1>3, <2>1
       DEF AdmitSteers, AdmitOne, Coordinator, Writes, CoordinatorState
  <2> QED
    BY <2>1, <2>2, <2>3, PassFrame
<1>4. CASE FlushSteers /\ ~FlushDone
  <2>1. PICK s \in co.todo : FlushOne(s)
    BY <1>4 DEF FlushSteers
  <2>2. co.pc = "flush" /\ UNCHANGED <<host, stopping, taken>>
    BY <1>4, <2>1 DEF FlushSteers, FlushOne, At, Coordinator, Writes, ghosts, runVars
  <2>3. journal'.batch = journal.batch
    BY <1>2, <2>1, SteerCallBatch DEF FlushOne, Coordinator, Writes
  <2> DEFINE rest == [co EXCEPT !.todo = @ \ {s}]
             toSend == [rest EXCEPT !.pc = "send", !.cur = s]
  <2>4. co' \in {rest, toSend, FinishSteer(co, s, "flush")}
    BY <2>1 DEF FlushOne, Coordinator, Writes
  <2>5. rest.pc = "flush" /\ toSend.pc = "send"
    BY <1>1, <2>2 DEF CoordinatorState
  <2> HIDE DEF rest, toSend
  <2>6. co'.pc \in {"flush", "send", "mark"}
    BY <1>1, <2>4, <2>5, CallFields
  <2> QED
    BY <2>2, <2>3, <2>6, PassFrame
<1>5. CASE FlushSteers /\ FlushDone
  <2> DEFINE done == [co EXCEPT !.recover = FALSE]
             armed == [Idle(done) EXCEPT !.armed = @ \/ (co.want /\ ~host.busy)]
  <2>1. done \in CoordinatorState
    BY <1>1 DEF CoordinatorState
  <2>2. co.pc = "flush" /\ UNCHANGED <<host, stopping, taken, journal>>
        /\ co' \in {armed, Idle(done), Goto(done, "reconcile")}
    BY <1>5 DEF FlushSteers, FlushDone, At, Coordinator, ghosts, runVars
  <2>3. armed.pc = Idle(done).pc
    BY <2>1, ReturnOK DEF CoordinatorState
  <2> HIDE DEF done, armed
  <2>4. co'.pc \in {"idle", "reconcile"}
    BY <2>1, <2>2, <2>3, ReturnFields, GotoFields
  <2> QED
    BY <2>2, <2>4, PassFrame
<1>6. CASE SendSteer
  <2>1. /\ co.pc = "send" /\ UNCHANGED <<stopping, taken, journal>>
        /\ host'.up = host.up
        /\ co' \in {Goto(co, "flush"), Goto(co, "sent")}
    BY <1>1, <1>6 DEF SendSteer, Fails, At, HostState, ghosts, runVars
  <2>2. co'.pc \in {"flush", "sent"}
    BY <1>1, <2>1, GotoFields
  <2> QED
    BY <2>1, <2>2, PassFrame
<1>7. CASE SteerSent \/ ContextQueue
  <2>1. co.cur \in Steer
    BY <1>7, SteerLocals DEF SteerSent, ContextQueue, At
  <2>2. /\ co.pc \in {"sent", "ctxQueue"} /\ UNCHANGED <<host, stopping, taken>>
        /\ journal'.batch = journal.batch
        /\ co' \in {Goto(co, "flush"), Goto(co, "ctxPresent")}
    BY <1>7, <2>1, SteerCallBatch DEF SteerSent, ContextQueue, At, Writes, ghosts, runVars
  <2>3. co'.pc \in {"flush", "ctxPresent"}
    BY <1>1, <2>2, GotoFields
  <2> QED
    BY <2>2, <2>3, PassFrame
<1>8. CASE ContextPresent
  <2>1. co.cur \in Steer
    BY <1>8, SteerLocals DEF ContextPresent, At
  <2>2. /\ co.pc = "ctxPresent" /\ UNCHANGED <<host, stopping, taken>>
        /\ journal'.batch = journal.batch /\ co'.pc = "mark"
    BY <1>1, <1>8, <2>1, SteerCallBatch DEF ContextPresent, At, CoordinatorState, runVars
  <2> QED
    BY <2>2, PassFrame
<1>9. CASE ContextNext
  <2>1. co.pc = "context" /\ UNCHANGED <<host, stopping, taken, journal>>
    BY <1>9 DEF ContextNext, ContextSteer, At, Coordinator, ghosts, runVars
  <2>2. CASE \E s : ContextSteer(s)
    <3>1. co'.pc = "ctxQueue"
      BY <1>1, <2>2 DEF ContextSteer, Coordinator, CoordinatorState
    <3> QED
      BY <2>1, <3>1, PassFrame
  <2>3. CASE co' \in {Accept(co, "idle"), Idle(co)}
    <3>1. co'.pc \in {"queueBatch", "idle"}
      BY <1>1, <2>3, CallFields, ReturnFields
    <3> QED
      BY <2>1, <3>1, PassFrame
  <2> QED
    BY <1>9, <2>2, <2>3 DEF ContextNext, Coordinator
<1> QED
  BY <1>3, <1>4, <1>5, <1>6, <1>7, <1>8, <1>9

LEMMA PassDeliver ==
    ASSUME IInv, HandoverInv, MemoryOK, SendBatch \/ HoldBatch \/ ProposeBatch
    PROVE  MemoryOK' /\ Passes
<1>1. /\ co \in CoordinatorState /\ host \in HostState /\ co.pc = "deliver"
  BY HandlerFacts DEF SendBatch, HoldBatch, ProposeBatch, At
<1>2. /\ host'.up = host.up /\ UNCHANGED <<stopping, journal>>
      /\ co' \in {Abort(co), Idle(co), Accept(co, "idle")}
      /\ taken' \in {taken, taken \cup Accepted(journal.batch)}
  BY <1>1 DEF SendBatch, HoldBatch, ProposeBatch, Fails, Coordinator, HostState,
              ghosts, runVars
<1>3. co'.pc \in {"idle", "queueBatch"}
  BY <1>1, <1>2, ReturnFields, CallFields
<1>4. Given' = Given /\ Accepted(journal.batch)' = Accepted(journal.batch)
  BY <1>2 DEF Given, Accepted
<1>5. MemoryOK'
  BY <1>1, <1>2, <1>3 DEF MemoryOK, QuietOK, ReadOK, OwnStopping
<1> QED
  BY <1>3, <1>4, <1>5 DEF Passes

LEMMA PassTeardown ==
    ASSUME IInv, HandoverInv, MemoryOK, Teardown
    PROVE  MemoryOK' /\ Passes
<1>1. co \in CoordinatorState /\ co.pc = "teardown" /\ ~OwnStopping /\ host.up
  BY HandlerFacts DEF Teardown, At
<1>2. ASSUME NEW r \in co.unread, TeardownOne(r) PROVE MemoryOK' /\ Passes
  <2>1. co'.pc = "teardown" /\ UNCHANGED <<taken, journal, host>>
    BY <1>1, <1>2 DEF TeardownOne, Coordinator, ghosts, CoordinatorState
  <2> QED
    BY <1>1, <2>1 DEF MemoryOK, QuietOK, ReadOK, Passes, Given, Accepted
<1>3. ASSUME NEW memory \in {co, Closed}, Coordinator(Started(memory))
      PROVE  MemoryOK' /\ Passes
  <2>1. memory \in CoordinatorState
    BY <1>1, <1>3, ClosedOK
  <2>2. Started(memory).pc = "recoverBatch"
    BY <2>1, StartedFields
  <2> QED
    BY <1>1, <1>3, <2>2, PassFrame DEF Coordinator, ghosts, runVars
<1> QED
  BY <1>2, <1>3 DEF Teardown

LEMMA PassBatch ==
    ASSUME IInv, HandoverInv, MemoryOK,
           ReconcileBatch \/ MarkBatchQueued \/ MarkBatchPresented \/ Recollect
    PROVE  MemoryOK' /\ Passes
<1>1. /\ co \in CoordinatorState /\ journal \in Journals /\ journal.batch \in Batch
  BY HandlerFacts DEF IInv, TypeOK, Journals
<1>2. ASSUME co' = StartCollect(co), co.pc \in {"reconcile", "recollect"},
             UNCHANGED <<stopping, taken, host, journal>>
      PROVE  MemoryOK' /\ Passes
  <2>1. co'.pc = "collect" /\ co'.unread = Runs
    BY <1>1, <1>2 DEF StartCollect, CoordinatorState
  <2> QED
    BY <1>2, <2>1 DEF MemoryOK, QuietOK, OwnStopping, ReadOK, Passes, Given, Accepted
<1>3. CASE Recollect
  BY <1>2, <1>3 DEF Recollect, At, Coordinator, ghosts, runVars
<1>4. CASE ReconcileBatch
  <2>1. co.pc = "reconcile" /\ UNCHANGED <<stopping, taken, host, journal>>
    BY <1>4 DEF ReconcileBatch, At, Coordinator, ghosts, runVars
  <2>2. co' \in {StartCollect(co), Accept(co, "recollect"), Goto(co, "deliver"), Idle(co)}
    <3>1. ASSUME NEW e \in Evidence(BatchDelivery(journal.batch.id)),
                 Coordinator(CASE e = "absent" -> Goto(co, "deliver")
                               [] e = "present" -> Accept(co, "recollect")
                               [] e = "unknown" -> Idle(co))
          PROVE  co' \in {Accept(co, "recollect"), Goto(co, "deliver"), Idle(co)}
      <4>1. e \in {"absent", "present", "unknown"}
        BY DEF Evidence
      <4> QED
        BY <3>1, <4>1 DEF Coordinator
    <3> QED
      BY <1>4, <3>1 DEF ReconcileBatch, Coordinator
  <2>3. CASE co' # StartCollect(co)
    <3>1. co'.pc \in {"queueBatch", "deliver", "idle"}
      BY <1>1, <2>2, <2>3, CallFields, GotoFields, ReturnFields
    <3> QED
      BY <2>1, <3>1, PassFrame
  <2> QED
    BY <1>2, <2>1, <2>3
<1>5. CASE MarkBatchQueued \/ MarkBatchPresented
  <2>1. /\ co.pc \in {"queueBatch", "presentBatch"} /\ UNCHANGED <<stopping, taken, host>>
        /\ co' \in {Goto(co, "presentBatch"), Acknowledge(co, co.back)}
        /\ journal' \in {QueueBatch(journal, journal.batch.id),
                         PresentBatch(journal, journal.batch.id)}
    BY <1>5 DEF MarkBatchQueued, MarkBatchPresented, At, Writes, ghosts, runVars
  <2>2. journal'.batch.id = journal.batch.id /\ journal'.batch.members = journal.batch.members
    BY <1>1, <2>1 DEF QueueBatch, PresentBatch, Journals, Batch
  <2>3. \/ co'.pc = "presentBatch"
        \/ co'.pc = "ack" /\ co'.unacked = journal.batch.members
    <3>1. /\ Acknowledge(co, co.back).pc = "ack"
          /\ Acknowledge(co, co.back).unacked = journal.batch.members
      BY <1>1 DEF Acknowledge, CoordinatorState
    <3> QED
      BY <1>1, <2>1, <3>1, GotoFields
  <2>4. Passes
    BY <2>1, <2>2, <2>3 DEF Passes, Given, Accepted
  <2> QED
    BY <2>1, <2>3, <2>4 DEF MemoryOK, QuietOK, OwnStopping, ReadOK
<1> QED
  BY <1>3, <1>4, <1>5

\* Acknowledging gives up no record, and moves no Run.
LEMMA AckGives ==
    ASSUME IInv, HandoverInv, MemoryOK, AckMembers
    PROVE  /\ MemoryOK' /\ co.pc = "ack" /\ Given' = Given
           /\ co'.pc \notin {"collect", "derive"}
           /\ \/ Passes
              \/ /\ journal' = journal
                 /\ \E m \in co.unacked :
                        /\ co'.unacked = co.unacked \ {m}
                        /\ handled' = [handled EXCEPT ![m.run] = @ \/ SameRecord(m)]
              \/ co.unacked = {} /\ Accepted(journal.batch)' = {} /\ co'.pc # "ack"
<1>1. /\ co \in CoordinatorState /\ journal \in Journals /\ co.pc = "ack"
  BY HandlerFacts DEF IInv, TypeOK, AckMembers, At
<1>2. /\ journal.batch.phase = "presented" /\ Accepted(journal.batch) \subseteq taken
      /\ journal.batch # NoBatch
  BY <1>1 DEF IInv, LocalOK, BatchOK, NoBatch
<1>3. ASSUME NEW m \in co.unacked, AckOne(m), ~Fails(Abort(co))
      PROVE  /\ MemoryOK' /\ UNCHANGED <<taken, journal>>
             /\ co'.pc = "ack" /\ co'.unacked = co.unacked \ {m}
             /\ handled' = [handled EXCEPT ![m.run] = @ \/ SameRecord(m)]
  <2>1. /\ UNCHANGED <<taken, journal, stopping, host>>
        /\ co' = [co EXCEPT !.unacked = @ \ {m}]
        /\ handled' = [handled EXCEPT ![m.run] = @ \/ SameRecord(m)]
    BY <1>3 DEF AckOne
  <2>2. co'.pc = "ack" /\ co'.unacked = co.unacked \ {m}
    BY <1>1, <2>1 DEF CoordinatorState
  <2>3. MemoryOK'
    BY <1>1, <2>1, <2>2 DEF MemoryOK, QuietOK, OwnStopping, ReadOK
  <2> QED
    BY <2>1, <2>2, <2>3
<1>4. CASE Fails(Abort(co))
  <2>1. co' = Abort(co) /\ co'.pc = "idle" /\ UNCHANGED <<stopping, taken, host, journal>>
    BY <1>1, <1>4, ReturnFields DEF Fails, ghosts, runVars
  <2> QED
    BY <1>1, <2>1, PassFrame DEF Passes
<1>5. CASE co.unacked = {} /\ Writes(FinalizeBatch(journal, journal.batch.id),
                                     Goto(co, co.back))
  <2>1. /\ UNCHANGED <<stopping, taken, host>> /\ co' = Goto(co, co.back)
        /\ journal' = FinalizeBatch(journal, journal.batch.id)
    BY <1>5 DEF Writes, ghosts, runVars
  <2>2. co.back \in {"idle", "recoverSteers", "flush", "recollect", "context"}
    BY <1>1 DEF CoordinatorState
  <2>3. co'.pc \in {"idle", "recoverSteers", "flush", "recollect", "context"}
    BY <1>1, <2>1, <2>2, GotoFields, ReturnFields
  <2>4. Accepted(journal.batch)' = {}
    <3>1. journal'.batch = NoBatch
      BY <1>1, <1>2, <2>1 DEF FinalizeBatch, IsActive, Journals
    <3> QED
      BY <3>1 DEF Accepted, NoBatch
  <2>5. Given' = Given
    BY <1>2, <2>1, <2>4 DEF Given
  <2>6. MemoryOK'
    BY <1>1, <2>1, <2>3 DEF MemoryOK, QuietOK, OwnStopping, ReadOK
  <2> QED
    BY <1>1, <1>5, <2>3, <2>4, <2>5, <2>6
<1>6. CASE \E m \in co.unacked : AckOne(m) /\ ~Fails(Abort(co))
  BY <1>1, <1>3, <1>6 DEF Given, Accepted
<1> QED
  BY <1>4, <1>5, <1>6 DEF AckMembers, AckOne

LEMMA PassReads ==
    ASSUME IInv, HandoverInv, MemoryOK,
           (\E r \in co.unread : ReadResult(r)) \/ DeriveRead
    PROVE  MemoryOK' /\ Passes
<1>1. co \in CoordinatorState /\ RunsTypeOK
  BY HandlerFacts DEF IInv, TypeOK
<1>2. ASSUME NEW r \in co.unread, ReadResult(r) PROVE MemoryOK' /\ Passes
  <2> DEFINE record == [present |-> present[r], generation |-> generation[r],
                        parentGeneration |-> parentGeneration[r],
                        pid |-> process[r] # "unborn",
                        status |-> result[r], handled |-> FALSE]
  <2>1. /\ UNCHANGED <<runVars, journal, host, taken>> /\ co.pc = "collect" /\ r \in Runs
        /\ co'.pc = "derive" /\ co'.cur = r /\ co'.unread = co.unread \ {r}
        /\ co'.view = [co.view EXCEPT ![r] = record]
    BY <1>1, <1>2 DEF ReadResult, At, Coordinator, CoordinatorState, ghosts
  <2>2. co'.view[r] = record /\ \A x \in Runs \ {r} : co'.view[x] = co.view[x]
    BY <1>1, <2>1 DEF CoordinatorState
  <2>3. QuietOK' /\ Passes
    BY <2>1 DEF MemoryOK, QuietOK, OwnStopping, Passes, Given, Accepted, runVars
  <2>4. ASSUME ReadOK PROVE ReadOK'
    <3>1. \A x \in Runs \ co'.unread : x = r \/ x \in Runs \ co.unread
      BY <2>1
    <3>2. /\ record.present = present[r] /\ record.generation = generation[r]
          /\ record.parentGeneration = parentGeneration[r]
          /\ record.status = result[r] /\ (record.pid <=> process[r] # "unborn")
      OBVIOUS
    <3> HIDE DEF record
    <3>3. \A x \in Runs \ co'.unread : x # r =>
             /\ co'.view[x].present = present[x] /\ co'.view[x].generation = generation[x]
             /\ co'.view[x].parentGeneration = parentGeneration[x]
             /\ co'.view[x].status = Status(x) /\ co'.view[x].handled = handled[x]
      BY <2>1, <2>2, <2>4, <3>1 DEF ReadOK
    <3> QED
      BY <2>1, <2>2, <3>2, <3>3 DEF ReadOK, Status, runVars
  <2> QED
    BY <2>3, <2>4 DEF MemoryOK
<1>3. CASE DeriveRead
  <2> DEFINE r == co.cur
             v == co.view[r]
             live == v.pid /\ process[r] = "live" /\ generation[r] = v.generation
             record == [v EXCEPT !.status = DeriveStatus(v.status, live, cut[r]),
                                 !.handled = handled[r]]
  <2>1. /\ UNCHANGED <<runVars, journal, host, taken>> /\ co.pc = "derive" /\ r \in Runs
        /\ co'.pc = "collect" /\ co'.unread = co.unread
        /\ co'.view = [co.view EXCEPT ![r] = record]
    <3>1. co.pc = "derive" /\ r \in Runs
      BY <1>3 DEF DeriveRead, At, IInv, LocalOK
    <3> QED
      BY <1>1, <1>3, <3>1 DEF DeriveRead, At, Coordinator, CoordinatorState, ghosts
  <2>2. co'.view[r] = record /\ \A x \in Runs \ {r} : co'.view[x] = co.view[x]
    BY <1>1, <2>1 DEF CoordinatorState
  <2>3. /\ record.present = v.present /\ record.generation = v.generation
        /\ record.parentGeneration = v.parentGeneration
        /\ record.handled = handled[r]
        /\ record.status = DeriveStatus(v.status, live, cut[r])
    BY <1>1, <2>1 DEF CoordinatorState
  <2>4. QuietOK' /\ Passes
    BY <2>1 DEF MemoryOK, QuietOK, OwnStopping, Passes, Given, Accepted, runVars
  <2>5. ASSUME ReadOK PROVE ReadOK'
    <3>1. r \in Runs \ co.unread /\ v.generation = generation[r] /\ v.status = result[r]
          /\ (v.pid <=> process[r] # "unborn")
          /\ v.present = present[r] /\ v.parentGeneration = parentGeneration[r]
      BY <2>1, <2>5 DEF ReadOK
    <3>2. record.status = Status(r)
      BY <2>3, <3>1 DEF Status, DeriveStatus
    <3> HIDE DEF record, live, v
    <3>3. \A x \in Runs \ {r} : x \notin co.unread =>
             /\ co'.view[x].present = present[x] /\ co'.view[x].generation = generation[x]
             /\ co'.view[x].parentGeneration = parentGeneration[x]
             /\ co'.view[x].status = Status(x) /\ co'.view[x].handled = handled[x]
      BY <2>1, <2>2, <2>5 DEF ReadOK
    <3>4. /\ co'.view[r].present = present[r] /\ co'.view[r].generation = generation[r]
          /\ co'.view[r].parentGeneration = parentGeneration[r]
          /\ co'.view[r].status = Status(r) /\ co'.view[r].handled = handled[r]
      BY <2>2, <2>3, <3>1, <3>2
    <3> QED
      BY <2>1, <3>3, <3>4 DEF ReadOK, Status, runVars
  <2> QED
    BY <2>4, <2>5 DEF MemoryOK
<1> QED
  BY <1>2, <1>3

LEMMA PassMoves ==
    ASSUME IInv, HandoverInv, MemoryOK, OwnMoves \/ NestedMoves \/ RunnerMoves
    PROVE  MemoryOK' /\ Passes
<1>1. /\ co \in CoordinatorState /\ RunsTypeOK /\ UNCHANGED <<journal, host, co, taken>>
      /\ Free => co.pc = "idle" /\ host.up
  BY HandlerFacts
     DEF IInv, TypeOK, OwnMoves, NestedMoves, RunnerMoves, RunsMove, ghosts, Free
<1>2. Passes
  BY <1>1 DEF Passes, Given, Accepted
<1>3. CASE OwnMoves
  <2>1. PICK r \in Runs :
            /\ Parent[r] = NoRun
            /\ \/ Free
               \/ stopping[r] # "none" /\ stopping'[r] \in {stopping[r], "none"}
                  /\ \A x \in Runs \ {r} : stopping'[x] = stopping[x]
    <3>1. PICK r \in Runs :
            /\ Parent[r] = NoRun
            /\ Free \/ StopRecord(r) \/ StopAbandoned(r) \/ StopHandled(r)
      BY <1>3 DEF OwnMoves, RunsMove
    <3> QED
      BY <1>1, <3>1 DEF RunsTypeOK, StopRecord, StopAbandoned, StopHandled
  <2>2. CASE Free
    BY <1>1, <1>2, <2>2 DEF MemoryOK, QuietOK, ReadOK
  <2>3. CASE ~Free
    <3>1. OwnStopping
      BY <2>1, <2>3 DEF OwnStopping
    <3> QED
      BY <1>1, <1>2, <3>1 DEF MemoryOK, QuietOK, ReadOK
  <2> QED
    BY <2>2, <2>3
<1>4. CASE NestedMoves \/ RunnerMoves
  <2>1. \A x \in Runs : Parent[x] = NoRun => stopping'[x] = stopping[x]
    <3>1. CASE NestedMoves
      <4>1. PICK r \in Runs :
                /\ Parent[r] # NoRun
                /\ \/ StartNested(r) \/ SpawnNested(r) \/ StopRecord(r) \/ StopHandled(r)
                   \/ RetainRun(r) \/ StopAbandoned(r)
                   \/ \E how \in Interruptions : StopSignal(r, how)
        BY <3>1 DEF NestedMoves, RunsMove, ActorWorks
      <4>2. \A x \in Runs \ {r} : stopping'[x] = stopping[x]
        BY <1>1, <4>1
           DEF StartNested, FreshGeneration, SpawnNested, StopRecord, StopHandled,
               RetainRun, StopAbandoned, StopSignal, RunsTypeOK
      <4> QED
        BY <4>1, <4>2
    <3>2. CASE RunnerMoves
      BY <3>2 DEF RunnerMoves, RunsMove, RunnerPublishSteer, RunnerFinish, RunnerExit
    <3> QED
      BY <1>4, <3>1, <3>2
  <2>2. QuietOK'
    BY <1>1, <2>1 DEF MemoryOK, QuietOK, OwnStopping
  <2>3. SyncReads => co.pc \notin {"collect", "derive"}
    BY <1>4 DEF NestedMoves, RunnerMoves, NotReading, At
  <2> QED
    BY <1>1, <1>2, <2>2, <2>3 DEF MemoryOK, ReadOK
<1> QED
  BY <1>2, <1>3, <1>4

\* A step of the specification, as far as what it gives is concerned.
LEMMA NextGives ==
    ASSUME IInv, HandoverInv, MemoryOK, [Next]_vars
    PROVE  \/ MemoryOK' /\ Passes
           \/ AckMembers
           \/ AdmitCompletions
<1>1. CASE UNCHANGED vars
  <2>1. UNCHANGED <<runVars, co, journal, host, taken>>
    BY <1>1 DEF vars, ghosts
  <2>2. Passes
    BY <2>1 DEF Passes, Given, Accepted
  <2> QED
    BY <2>1, <2>2 DEF MemoryOK, QuietOK, OwnStopping, ReadOK, Status, runVars
<1>2. CASE Next
  BY <1>2, PassHost, PassAccepts, PassWalks, PassSteers, PassDeliver, PassTeardown,
     PassBatch, PassReads, PassMoves
     DEF Next, Handler, HostMoves, CollectCompletions
<1> QED
  BY <1>1, <1>2

-----------------------------------------------------------------------------
(* Collecting: what the view says of the Runs is true of them.             *)

ViewIsTrue ==
    \A r \in Runs :
        /\ co.view[r].present = present[r]
        /\ co.view[r].generation = generation[r]
        /\ co.view[r].parentGeneration = parentGeneration[r]
        /\ co.view[r].status = Status(r) /\ co.view[r].handled = handled[r]

LEMMA LinkedIsLinked ==
    ASSUME ViewIsTrue, NEW r \in Runs
    PROVE  LinkedIn(co.view, r) =>
               /\ ~Unlinked(r)
               /\ \A a \in Line(r) : a # r => present[a] /\ a \notin Silent
<1> SUFFICES ASSUME LinkedIn(co.view, r)
             PROVE  /\ ~Unlinked(r)
                    /\ \A a \in Line(r) : a # r => present[a] /\ a \notin Silent
  OBVIOUS
<1>1. \A a \in Line(r) : a \in Runs /\ (Parent[a] # NoRun => Parent[a] \in Runs)
  BY LineFacts
<1>2. ~Unlinked(r)
  BY <1>1 DEF LinkedIn, ViewIsTrue, Unlinked
<1>3. ASSUME NEW a \in Line(r), a # r PROVE present[a] /\ a \notin Silent
  <2>1. PICK b \in Line(r) : Parent[b] = a
    BY <1>3, LineChild
  <2>2. a \in Runs /\ a # NoRun
    BY <1>1, RunsAssumption
  <2> QED
    BY <2>1, <2>2 DEF LinkedIn, ViewIsTrue
<1> QED
  BY <1>2, <1>3

LEMMA CandidateFacts ==
    ASSUME IInv, HandoverInv, QuietOK, ViewIsTrue, co.pc = "collect",
           NEW m \in Candidates(co.view)
    PROVE  /\ m \in Member /\ m.generation = generation[m.run] /\ m.status = Status(m.run)
           /\ Deliverable(co.view, m.run)
           /\ Settled(m) /\ ~Spent(m) /\ ~Mute(m.run)
<1>1. /\ m.run \in Runs /\ Deliverable(co.view, m.run)
      /\ m.generation = co.view[m.run].generation /\ m.status = co.view[m.run].status
  BY DEF Candidates
<1>2. m \in Member
  <2>1. /\ \A r \in Runs : co.view[r].generation \in 0 .. MaxGeneration
        /\ ViewOK(co)
    BY LocalFacts DEF IInv, CoordinatorState
  <2> QED
    BY <2>1, CandidateType DEF ViewOK
<1>3. /\ present[m.run] /\ ~handled[m.run] /\ Status(m.run) \in NotifiedStatuses
      /\ m.run \notin Silent /\ LinkedIn(co.view, m.run) /\ ~TreeRunning(co.view, m.run)
      /\ m.generation = generation[m.run] /\ m.status = Status(m.run)
  BY <1>1 DEF Deliverable, Reportable, ViewIsTrue
<1>4. ~OwnStopping
  BY DEF QuietOK
<1>5. AtRest(m.run)
  <2> SUFFICES ASSUME NEW a \in Line(m.run)
               PROVE  Terminal(a) /\ (Parent[a] = NoRun => stopping[a] = "none")
    BY DEF AtRest
  <2>1. a \in Runs /\ Line(a) \subseteq Line(m.run) /\ TreeRoot(a) = TreeRoot(m.run)
    BY <1>1, LineUpwards, SameTreeRoot
  <2>2. present[a]
    BY <1>1, <1>3, LinkedIsLinked
  <2>3. LinkedIn(co.view, a)
    BY <1>3, <2>1 DEF LinkedIn
  <2>4. Status(a) # "running"
    BY <1>3, <2>1, <2>2, <2>3 DEF TreeRunning, ViewIsTrue
  <2> QED
    BY <1>4, <2>1, <2>2, <2>4 DEF OwnStopping, Terminal
<1>6. ~Unlinked(m.run)
  BY <1>1, <1>3, LinkedIsLinked
<1>7. Status(m.run) # "cancelled"
  BY <1>3 DEF NotifiedStatuses
<1> QED
  BY <1>1, <1>2, <1>3, <1>5, <1>6, <1>7 DEF Settled, SameRecord, Spent, Past, Mute

LEMMA DeliverableRecord ==
    ASSUME ViewIsTrue, NEW r \in Runs, Deliverable(co.view, r)
    PROVE  \E n \in Candidates(co.view) : n.run = r /\ n.generation = generation[r]
<1> DEFINE n == [run |-> r, generation |-> co.view[r].generation, status |-> co.view[r].status]
<1>1. n \in Candidates(co.view)
  BY DEF Candidates
<1>2. n.run = r /\ n.generation = generation[r]
  BY DEF ViewIsTrue
<1> QED
  BY <1>1, <1>2

\* The parent and the children of a candidate that can report are candidates.
LEMMA CandidateTree ==
    ASSUME IInv, HandoverInv, QuietOK, ViewIsTrue, co.pc = "collect",
           NEW m \in Candidates(co.view), NEW r \in Runs, ~Mute(r),
           \/ Parent[r] = m.run /\ parentGeneration[r] = m.generation
           \/ Parent[m.run] = r
    PROVE  \E n \in Candidates(co.view) : n.run = r /\ n.generation = generation[r]
<1>1. /\ m.run \in Runs /\ m.generation = generation[m.run]
      /\ present[m.run] /\ m.run \notin Silent /\ AtRest(m.run)
      /\ LinkedIn(co.view, m.run) /\ ~TreeRunning(co.view, m.run)
  BY CandidateFacts DEF Deliverable, Reportable, Member, Settled, SameRecord
<1>2. present[r] /\ ~handled[r] /\ r \notin Silent
      /\ (AtRest(r) => Status(r) # "cancelled")
  BY DEF Mute
<1>3. CASE Parent[r] = m.run /\ parentGeneration[r] = m.generation
  <2>1. Parent[r] # NoRun /\ Line(r) = {r} \cup Line(m.run) /\ m.run \in Line(r)
    BY <1>1, <1>3, RunsAssumption, LineOfChild, LineFacts
  <2>2. LinkedIn(co.view, r)
    BY <1>1, <1>3, <2>1 DEF LinkedIn, ViewIsTrue
  <2>3. TreeRoot(r) = TreeRoot(m.run)
    BY <2>1, SameTreeRoot
  <2>4. Status(r) # "running"
    BY <1>1, <1>2, <2>2, <2>3 DEF TreeRunning, ViewIsTrue
  <2>5. AtRest(r)
    BY <1>1, <1>2, <2>1, <2>4 DEF AtRest, Terminal
  <2> QED
    <3>1. Status(r) \in Statuses
      BY DEF IInv, TypeOK, RunsTypeOK, Status, DeriveStatus, Statuses, TerminalStatuses
    <3>2. Status(r) \in NotifiedStatuses
      BY <1>2, <2>4, <2>5, <3>1 DEF Statuses, TerminalStatuses, NotifiedStatuses
    <3>3. ~TreeRunning(co.view, r)
      BY <1>1, <2>3 DEF TreeRunning
    <3>4. Deliverable(co.view, r)
      BY <1>2, <2>2, <3>2, <3>3 DEF Deliverable, Reportable, ViewIsTrue
    <3> QED
      BY <3>4, DeliverableRecord
<1>4. CASE Parent[m.run] = r
  <2>1. r # NoRun /\ r \in Line(m.run) /\ Line(r) \subseteq Line(m.run)
    BY <1>1, <1>4, RunsAssumption, LineOfChild, LineFacts
  <2>2. LinkedIn(co.view, r)
    BY <1>1, <2>1 DEF LinkedIn
  <2>3. TreeRoot(r) = TreeRoot(m.run)
    BY <1>1, <2>1, SameTreeRoot
  <2>4. AtRest(r) /\ Status(r) # "running"
    BY <1>1, <2>1 DEF AtRest, Terminal
  <2> QED
    <3>1. Status(r) \in Statuses
      BY DEF IInv, TypeOK, RunsTypeOK, Status, DeriveStatus, Statuses, TerminalStatuses
    <3>2. Status(r) \in NotifiedStatuses
      BY <1>2, <2>4, <3>1 DEF Statuses, TerminalStatuses, NotifiedStatuses
    <3>3. ~TreeRunning(co.view, r)
      BY <1>1, <2>3 DEF TreeRunning
    <3>4. Deliverable(co.view, r)
      BY <1>2, <2>2, <3>2, <3>3 DEF Deliverable, Reportable, ViewIsTrue
    <3> QED
      BY <3>4, DeliverableRecord
<1> QED
  BY <1>3, <1>4

-----------------------------------------------------------------------------
(* The records that are given.                                             *)

\* A given record is one the directory still holds, at rest, or one that is
\* past; it is the only one of its generation; and once it is not in the batch
\* any more, nothing names that generation again.
GivenOK ==
    /\ \A t \in Given : /\ t[2].generation <= generation[t[2].run]
                        /\ Past(t[2]) \/ Settled(t[2])
                        /\ t \in Accepted(journal.batch) \/ Spent(t[2])
    /\ co.pc = "ack" => \A m \in journal.batch.members \ co.unacked : Spent(m)
    /\ \A t, u \in Given :
           t[2].run = u[2].run /\ t[2].generation = u[2].generation => t = u

\* The Runs right below and right above a given record that it was started with
\* are given in the same batch, or have nothing to report.
TreesOK ==
    /\ \A t \in Given : \A d \in Runs :
           Parent[d] = t[2].run /\ parentGeneration[d] = t[2].generation =>
               Mute(d) \/ GaveIn(t[1], d, generation[d])
    /\ \A t \in Given : LET r == t[2].run IN
           /\ generation[r] = t[2].generation /\ Parent[r] # NoRun
           /\ generation[Parent[r]] = parentGeneration[r]
           => Mute(Parent[r]) \/ GaveIn(t[1], Parent[r], parentGeneration[r])
    /\ \A t, u \in Given :
           /\ Parent[t[2].run] = u[2].run
           /\ generation[t[2].run] = t[2].generation
           /\ parentGeneration[t[2].run] = u[2].generation
           => t[1] = u[1]

\* One batch has room for every Run.
Room == Cardinality(Runs) <= BatchMax

DeliveryInv == MemoryOK /\ OriginOK /\ GivenOK /\ (Room => TreesOK)

LEMMA GivenTypes ==
    ASSUME IInv
    PROVE  /\ RunsTypeOK
           /\ \A t \in Given : /\ t = <<t[1], t[2]>> /\ t[2] \in Member
                               /\ t[2].run \in Runs /\ t[2].generation \in Nat
           /\ Accepted(journal.batch) \subseteq Given
           /\ \A m \in journal.batch.members : <<journal.batch.id, m>> \in Given
<1>1. journal.batch \in Batch /\ taken \subseteq (1 .. lastId) \X Member
  BY DEF IInv, TypeOK, Journals
<1>2. \A t \in Given : t = <<t[1], t[2]>> /\ t[2] \in Member
  BY <1>1 DEF Given, Accepted, Batch
<1>3. \A m \in Member : m.run \in Runs /\ m.generation \in Nat
  BY RunsAssumption DEF Member
<1> QED
  BY <1>2, <1>3 DEF Given, Accepted, IInv, TypeOK

\* Nothing is given, and Runs move.
LEMMA GivenKept ==
    ASSUME IInv, OriginOK, GivenOK, RunsStepOK, Given' = Given,
           \A t \in Given : t \in Accepted(journal.batch)' \/ Spent(t[2])',
           co'.pc = "ack" => \A m \in journal'.batch.members \ co'.unacked : Spent(m)'
    PROVE  GivenOK'
<1>1. \A t \in Given : /\ t[2] \in Member /\ t[2].generation <= generation[t[2].run]
                       /\ Past(t[2]) \/ Settled(t[2])
  BY GivenTypes DEF GivenOK
<1>2. RunsTypeOK
  BY GivenTypes
<1>3. \A t \in Given : t[2].generation <= generation'[t[2].run]
  BY <1>1, <1>2, SpentStays
<1>4. \A t \in Given : Past(t[2])' \/ Settled(t[2])'
  BY <1>1, <1>2, SpentStays, SettledStays
<1>5. \A t, u \in Given :
          t[2].run = u[2].run /\ t[2].generation = u[2].generation => t = u
  BY DEF GivenOK
<1> QED
  BY <1>3, <1>4, <1>5 DEF GivenOK

LEMMA TreesKept ==
    ASSUME IInv, OriginOK, GivenOK, TreesOK, RunsStepOK, Given' = Given
    PROVE  TreesOK'
<1>1. /\ RunsTypeOK
      /\ \A t \in Given : /\ t[2] \in Member /\ t[2].run \in Runs /\ t[2].generation \in Nat
                          /\ t[2].generation <= generation[t[2].run]
                          /\ Past(t[2]) \/ Settled(t[2])
                          /\ Starts(t[2].run) => generation'[t[2].run] # t[2].generation
  BY GivenTypes, SpentStays DEF GivenOK
<1>2. \A k, x, g : GaveIn(k, x, g)' = GaveIn(k, x, g)
  BY DEF GaveIn
<1>3. ASSUME NEW r \in Runs, ~Starts(r)
      PROVE  generation'[r] = generation[r] /\ parentGeneration'[r] = parentGeneration[r]
  BY <1>1, <1>3, OneChanges DEF RunsStepOK, Drifts
<1>4. ASSUME NEW t \in Given, NEW d \in Runs, Parent[d] = t[2].run,
             parentGeneration'[d] = t[2].generation
      PROVE  Mute(d)' \/ GaveIn(t[1], d, generation'[d])
  <2>1. CASE ~Starts(d)
    BY <1>1, <1>3, <1>4, <2>1, MuteStays DEF TreesOK
  <2>2. CASE Starts(d)
    <3>1. Parent[d] # NoRun /\ ActorWorks(d) /\ Parent[d] = t[2].run
      BY <1>1, <1>4, <2>2, RunsAssumption DEF Starts
    <3>2. generation[Parent[d]] = t[2].generation
      BY <1>1, <1>4, <2>2, <3>1, OneChanges
    <3>3. ~Settled(t[2])
      BY <1>1, <3>1, LineFacts
         DEF Settled, AtRest, Terminal, ActorWorks, Status, DeriveStatus
    <3>4. ~present[Parent[d]] \/ Unlinked(Parent[d])
      BY <1>1, <3>1, <3>2, <3>3 DEF Past
    <3> QED
      BY <1>1, <2>2, <3>1, <3>4, StartsUnlinked DEF Mute
  <2> QED
    BY <2>1, <2>2
<1>5. ASSUME NEW t \in Given, NEW r, r = t[2].run,
             generation'[r] = t[2].generation, Parent[r] # NoRun,
             generation'[Parent[r]] = parentGeneration'[r]
      PROVE  Mute(Parent[r])' \/ GaveIn(t[1], Parent[r], parentGeneration'[r])
  <2>1. r \in Runs /\ Parent[r] \in Runs /\ ~Starts(r)
    BY <1>1, <1>5, RunsAssumption
  <2>2. generation[r] = t[2].generation /\ parentGeneration'[r] = parentGeneration[r]
    BY <1>3, <1>5, <2>1
  <2>3. ~Starts(Parent[r])
    <3> SUFFICES ASSUME Starts(Parent[r]) PROVE FALSE
      OBVIOUS
    <3>1. generation'[Parent[r]] = generation[Parent[r]] + 1
      BY <1>1, <2>1, OneChanges
    <3>2. parentGeneration[r] <= generation[Parent[r]]
      BY <1>5, <2>1 DEF OriginOK
    <3>3. generation[Parent[r]] \in Nat
      BY <1>1, <2>1, RunsAssumption DEF RunsTypeOK
    <3> QED
      BY <1>5, <2>2, <3>1, <3>2, <3>3
  <2>4. generation[Parent[r]] = parentGeneration[r]
    BY <1>3, <1>5, <2>1, <2>2, <2>3
  <2>5. Mute(Parent[r]) \/ GaveIn(t[1], Parent[r], parentGeneration[r])
    BY <1>5, <2>2, <2>4 DEF TreesOK
  <2> QED
    BY <1>1, <2>1, <2>2, <2>3, <2>5, MuteStays
<1>6. ASSUME NEW t \in Given, NEW u \in Given, Parent[t[2].run] = u[2].run,
             generation'[t[2].run] = t[2].generation,
             parentGeneration'[t[2].run] = u[2].generation
      PROVE  t[1] = u[1]
  <2>1. t[2].run \in Runs /\ ~Starts(t[2].run)
    BY <1>1, <1>6
  <2> QED
    BY <1>3, <1>6, <2>1 DEF TreesOK
<1> QED
  BY <1>2, <1>4, <1>5, <1>6 DEF TreesOK

LEMMA AdmitGives ==
    ASSUME IInv, HandoverInv, DeliveryInv, SyncReads, AdmitCompletions,
           ~Coordinator(Idle(co))
    PROVE  DeliveryInv'
<1> DEFINE C == Candidates(co.view)
           k == lastId + 1
<1>1. /\ co \in CoordinatorState /\ journal \in Journals /\ lastId \in Nat
      /\ co.pc = "collect" /\ co.unread = {} /\ RunsTypeOK /\ taken \subseteq (1 .. lastId) \X Member
  BY HandlerFacts DEF IInv, TypeOK, AdmitCompletions, At
<1>2. PICK M \in Slices(C) :
          /\ CanAdmitBatch(journal, k, M) /\ journal' = AdmitBatch(journal, k, M)
          /\ co' = [Goto(co, "deliver") EXCEPT !.view = UnreadView]
          /\ UNCHANGED <<runVars, host, ghosts>>
  BY DEF AdmitCompletions
<1>3. ViewIsTrue /\ QuietOK
  BY <1>1 DEF DeliveryInv, MemoryOK, ReadOK, ViewIsTrue
<1>4. \A m \in M : /\ m \in C /\ m \in Member /\ m.run \in Runs
                   /\ m.generation = generation[m.run] /\ m.status = Status(m.run)
                   /\ Settled(m) /\ ~Spent(m) /\ ~Mute(m.run)
  <2>1. M \subseteq C
    BY DEF Slices
  <2> QED
    BY <1>1, <1>3, <2>1, CandidateFacts DEF Member
<1>5. /\ co'.pc = "deliver" /\ Accepted(journal.batch) = {} /\ Given = taken
      /\ Accepted(journal.batch)' = {<<k, m>> : m \in M}
      /\ Given' = taken \cup {<<k, m>> : m \in M}
  <2>1. co'.pc = "deliver"
    BY <1>1, <1>2, GotoFields DEF Goto, CoordinatorState
  <2>2. journal.batch = NoBatch
    BY <1>2 DEF CanAdmitBatch
  <2>3. journal'.batch = [id |-> k, members |-> M, phase |-> "pending"]
    BY <1>1, <1>2 DEF AdmitBatch, Journals
  <2> QED
    BY <1>2, <2>1, <2>2, <2>3 DEF Given, Accepted, NoBatch, ghosts
<1>6. \A t \in Given : /\ t[2] \in Member /\ t[2].run \in Runs
                       /\ t[2].generation <= generation[t[2].run]
                       /\ Past(t[2]) \/ Settled(t[2])
                       /\ Spent(t[2])
  BY <1>5, GivenTypes DEF DeliveryInv, GivenOK
<1>7. \A t \in Given' : \/ t \in Given
                        \/ t[1] = k /\ t[2] \in M /\ t = <<k, t[2]>>
  BY <1>5
\* The Runs are as they were.
<1>8. /\ \A m : (Past(m)' <=> Past(m)) /\ (Settled(m)' <=> Settled(m))
                /\ (Spent(m)' <=> Spent(m))
      /\ \A r : Mute(r)' <=> Mute(r)
      /\ UNCHANGED <<generation, parentGeneration>> /\ OriginOK'
  BY <1>2
     DEF DeliveryInv, runVars, Past, Settled, Spent, Mute, AtRest, Terminal, Unlinked,
         SameRecord, OriginOK, Status
<1>9. MemoryOK'
  BY <1>1, <1>2, <1>5
     DEF DeliveryInv, MemoryOK, QuietOK, ReadOK, OwnStopping, runVars
\* No generation of the new batch was given before.
<1>10. ASSUME NEW m \in M, NEW t \in Given, t[2].run = m.run,
              t[2].generation = m.generation
       PROVE  FALSE
  <2>1. Spent(t[2]) /\ ~Spent(m)
    BY <1>4, <1>6, <1>10
  <2> QED
    BY <1>10, <2>1 DEF Spent, Past
<1>11. GivenOK'
  <2>1. \A t \in Given' : /\ t[2].generation <= generation[t[2].run]
                          /\ Past(t[2]) \/ Settled(t[2])
                          /\ t \in Accepted(journal.batch)' \/ Spent(t[2])
    <3>1. \A m \in M : m.generation <= generation[m.run]
      BY <1>1, <1>4, RunsAssumption DEF Member, RunsTypeOK
    <3> QED
      BY <1>4, <1>5, <1>6, <1>7, <3>1
  <2>2. ASSUME NEW t \in Given', NEW u \in Given',
               t[2].run = u[2].run, t[2].generation = u[2].generation
        PROVE  t = u
    <3>1. CASE t \in Given /\ u \in Given
      BY <2>2, <3>1 DEF DeliveryInv, GivenOK
    <3>2. CASE t \notin Given /\ u \notin Given
      <4>1. t = <<k, t[2]>> /\ u = <<k, u[2]>> /\ t[2] \in M /\ u[2] \in M
        BY <1>7, <3>2
      <4>2. t[2] = u[2]
        BY <1>4, <2>2, <4>1 DEF Member
      <4> QED
        BY <4>1, <4>2
    <3>3. CASE ~(t \in Given <=> u \in Given)
      BY <1>7, <1>10, <2>2, <3>3
    <3> QED
      BY <3>1, <3>2, <3>3
  <2> QED
    BY <1>5, <1>8, <2>1, <2>2 DEF GivenOK
<1>12. ASSUME Room PROVE TreesOK'
  <2>1. M = C
    <3>1. IsFiniteSet(C) /\ Cardinality(C) <= BatchMax
      <4> DEFINE f == [r \in {x \in Runs : Deliverable(co.view, x)} |->
                          [run |-> r, generation |-> co.view[r].generation,
                           status |-> co.view[r].status]]
                 D == {x \in Runs : Deliverable(co.view, x)}
      <4>1. IsFiniteSet(D) /\ Cardinality(D) <= Cardinality(Runs)
        BY RunsAssumption, FS_Subset
      <4>2. C = {f[r] : r \in D}
        BY DEF Candidates
      <4>3. f \in [D -> C] /\ \A c \in C : \E r \in D : f[r] = c
        BY <4>2
      <4>4. f \in Surjection(D, C)
        BY <4>3 DEF Surjection
      <4>5. IsFiniteSet(C) /\ Cardinality(C) <= Cardinality(D)
        BY <4>1, <4>4, FS_Surjection
      <4>6. Cardinality(C) \in Nat /\ Cardinality(D) \in Nat /\ Cardinality(Runs) \in Nat
            /\ BatchMax \in Nat
        BY <4>1, <4>5, RunsAssumption, DeliveryAssumption, FS_CardinalityType
      <4> QED
        BY <1>12, <4>1, <4>5, <4>6 DEF Room
    <3>2. M \subseteq C /\ Cardinality(M) = Cardinality(C)
      BY <3>1 DEF Slices
    <3> QED
      BY <3>1, <3>2, FS_Subset
  <2>2. TreesOK
    BY <1>12 DEF DeliveryInv
  <2>3. \A j, x, g : GaveIn(j, x, g) => GaveIn(j, x, g)'
    BY <1>5 DEF GaveIn
  <2>4. ASSUME NEW m \in M, NEW r \in Runs, ~Mute(r),
               \/ Parent[r] = m.run /\ parentGeneration[r] = m.generation
               \/ Parent[m.run] = r
        PROVE  \E w \in Given' : w[1] = k /\ w[2].run = r /\ w[2].generation = generation[r]
    <3>1. PICK n \in M : n.run = r /\ n.generation = generation[r]
      BY <1>1, <1>3, <2>1, <2>4, CandidateTree
    <3>2. <<k, n>> \in Given'
      BY <1>5
    <3> QED
      BY <3>1, <3>2
  <2>5. ASSUME NEW t \in Given', NEW d \in Runs, Parent[d] = t[2].run,
               parentGeneration[d] = t[2].generation
        PROVE  Mute(d) \/ GaveIn(t[1], d, generation[d])'
    <3>1. CASE t \in Given
      BY <1>8, <2>2, <2>3, <2>5, <3>1 DEF TreesOK
    <3>2. CASE t \notin Given
      BY <1>7, <1>8, <2>4, <2>5, <3>2 DEF GaveIn
    <3> QED
      BY <3>1, <3>2
  <2>6. ASSUME NEW t \in Given', NEW r, r = t[2].run,
               generation[r] = t[2].generation, Parent[r] # NoRun,
               generation[Parent[r]] = parentGeneration[r]
        PROVE  Mute(Parent[r]) \/ GaveIn(t[1], Parent[r], parentGeneration[r])'
    <3>1. CASE t \in Given
      BY <1>8, <2>2, <2>3, <2>6, <3>1 DEF TreesOK
    <3>2. CASE t \notin Given
      <4>1. t[2] \in M /\ t[1] = k /\ Parent[r] \in Runs
        BY <1>4, <1>7, <2>6, <3>2, RunsAssumption
      <4> QED
        BY <1>8, <2>4, <2>6, <4>1 DEF GaveIn
    <3> QED
      BY <3>1, <3>2
  <2>7. ASSUME NEW t \in Given', NEW u \in Given', Parent[t[2].run] = u[2].run,
               generation[t[2].run] = t[2].generation,
               parentGeneration[t[2].run] = u[2].generation
        PROVE  t[1] = u[1]
    <3>1. CASE t \in Given /\ u \in Given
      BY <2>2, <2>7, <3>1 DEF TreesOK
    <3>2. CASE t \notin Given /\ u \notin Given
      BY <1>7, <3>2
    <3>3. CASE t \notin Given /\ u \in Given
      <4>1. t[2] \in M /\ ~Mute(t[2].run) /\ t[2].run \in Runs
        BY <1>4, <1>7, <3>3
      <4>2. PICK w \in Given : w[2].run = t[2].run /\ w[2].generation = t[2].generation
        BY <2>2, <2>7, <3>3, <4>1 DEF TreesOK, GaveIn
      <4> QED
        BY <1>10, <4>1, <4>2
    <3>4. CASE t \in Given /\ u \notin Given
      <4>1. /\ u[2] \in M /\ ~Mute(u[2].run) /\ u[2].run \in Runs
            /\ u[2].generation = generation[u[2].run]
        BY <1>4, <1>7, <3>4
      <4>2. u[2].run # NoRun
        BY <4>1, RunsAssumption
      <4>3. PICK w \in Given : w[2].run = u[2].run /\ w[2].generation = u[2].generation
        BY <2>2, <2>7, <3>4, <4>1, <4>2 DEF TreesOK, GaveIn
      <4> QED
        BY <1>10, <4>1, <4>3
    <3> QED
      BY <3>1, <3>2, <3>3, <3>4
  <2> QED
    BY <1>8, <2>5, <2>6, <2>7 DEF TreesOK
<1> QED
  BY <1>8, <1>9, <1>11, <1>12 DEF DeliveryInv, Room

LEMMA DeliveryNext ==
    ASSUME SyncReads, IInv, HandoverInv, DeliveryInv, [Next]_vars
    PROVE  DeliveryInv'
<1>1. RunsStepOK /\ OriginOK' /\ RunsTypeOK
  BY NextDrifts, OriginStays, GivenTypes DEF DeliveryInv
<1>2. \A t \in Given : Spent(t[2]) => Spent(t[2])'
  BY <1>1, GivenTypes, SpentStays DEF DeliveryInv, GivenOK
<1>3. \A m \in journal.batch.members :
          /\ <<journal.batch.id, m>> \in Given /\ m \in Member
          /\ m.generation <= generation[m.run]
          /\ Past(m) \/ Settled(m)
          /\ Past(m) => Past(m)'
          /\ Spent(m) => Spent(m)'
  <2>1. ASSUME NEW m \in journal.batch.members
        PROVE  /\ <<journal.batch.id, m>> \in Given /\ m \in Member
               /\ m.generation <= generation[m.run]
               /\ Past(m) \/ Settled(m)
    <3> DEFINE t == <<journal.batch.id, m>>
    <3>1. t \in Given /\ t[2] = m
      BY GivenTypes
    <3> QED
      BY <3>1, GivenTypes DEF DeliveryInv, GivenOK
  <2> QED
    BY <1>1, <2>1, SpentStays DEF DeliveryInv
<1>4. CASE MemoryOK' /\ Passes
  <2>1. \A t \in Given : t \in Accepted(journal.batch)' \/ Spent(t[2])'
    BY <1>2, <1>4 DEF Passes, DeliveryInv, GivenOK
  <2>2. co'.pc = "ack" => \A m \in journal'.batch.members \ co'.unacked : Spent(m)'
    <3>1. journal'.batch.members \subseteq journal.batch.members
      <4> SUFFICES ASSUME NEW m \in journal'.batch.members
                   PROVE  m \in journal.batch.members
        OBVIOUS
      <4>1. <<journal'.batch.id, m>> \in Accepted(journal.batch)
        BY <1>4 DEF Passes, Accepted
      <4> QED
        BY <4>1 DEF Accepted
    <3> QED
      BY <1>3, <1>4, <3>1 DEF Passes, DeliveryInv, GivenOK
  <2>3. GivenOK'
    BY <1>1, <1>4, <2>1, <2>2, GivenKept DEF Passes, DeliveryInv
  <2> QED
    BY <1>1, <1>4, <2>3, TreesKept DEF Passes, DeliveryInv, Room
<1>5. CASE AckMembers /\ ~Passes
  <2>1. MemoryOK' /\ co.pc = "ack" /\ Given' = Given
    BY <1>5, AckGives DEF DeliveryInv
  <2>2. CASE co.unacked = {} /\ Accepted(journal.batch)' = {} /\ co'.pc # "ack"
    <3>1. \A t \in Given : Spent(t[2])'
      <4>1. \A t \in Accepted(journal.batch) : t[2] \in journal.batch.members
        BY DEF Accepted
      <4> QED
        BY <1>2, <2>1, <2>2, <4>1 DEF DeliveryInv, GivenOK
    <3> QED
      BY <1>1, <2>1, <2>2, <3>1, GivenKept, TreesKept DEF DeliveryInv, Room
  <2>3. ASSUME NEW m \in co.unacked, journal' = journal,
               co'.unacked = co.unacked \ {m},
               handled' = [handled EXCEPT ![m.run] = @ \/ SameRecord(m)]
        PROVE  DeliveryInv'
    <3>1. m \in journal.batch.members /\ m.run \in Runs
      BY <1>3, <2>1 DEF IInv, LocalOK, Member
    <3>2. Spent(m)'
      <4>1. CASE Past(m)
        BY <1>3, <3>1, <4>1 DEF Spent
      <4>2. CASE Settled(m)
        <5>1. handled'[m.run]
          BY <1>1, <2>3, <3>1, <4>2 DEF Settled, RunsTypeOK
        <5> QED
          BY <5>1 DEF Spent
      <4> QED
        BY <1>3, <3>1, <4>1, <4>2
    <3>3. \A n \in journal'.batch.members \ co'.unacked : Spent(n)'
      BY <1>3, <2>1, <2>3, <3>2 DEF DeliveryInv, GivenOK
    <3>4. \A t \in Given : t \in Accepted(journal.batch)' \/ Spent(t[2])'
      BY <1>2, <2>3 DEF DeliveryInv, GivenOK, Accepted
    <3> QED
      BY <1>1, <2>1, <3>3, <3>4, GivenKept, TreesKept DEF DeliveryInv, Room
  <2> QED
    BY <1>5, <2>2, <2>3, AckGives DEF DeliveryInv
<1>6. CASE AdmitCompletions
  <2>1. CASE Coordinator(Idle(co))
    <3>1. /\ co \in CoordinatorState /\ co.pc = "collect" /\ co' = Idle(co)
          /\ UNCHANGED <<stopping, taken, host, journal>>
      BY <1>6, <2>1, HandlerFacts DEF AdmitCompletions, At, Coordinator, ghosts, runVars
    <3>2. co'.pc = "idle"
      BY <3>1, ReturnFields
    <3> QED
      BY <1>4, <3>1, <3>2, PassFrame DEF DeliveryInv
  <2> QED
    BY <1>6, <2>1, AdmitGives
<1> QED
  BY <1>4, <1>5, <1>6, NextGives, AckGives DEF DeliveryInv

LEMMA DeliveryInit ==
    ASSUME Init
    PROVE  DeliveryInv
<1>1. Given = {} /\ co.pc = "idle" /\ ~OwnStopping
  BY DEF Init, RunsInit, Given, Accepted, EmptyJournal, NoBatch, Closed, OwnStopping
<1>2. OriginOK
  BY RunsAssumption DEF Init, RunsInit, OriginOK
<1> QED
  BY <1>1, <1>2 DEF DeliveryInv, MemoryOK, QuietOK, ReadOK, GivenOK, TreesOK

LEMMA DeliveryHolds ==
    ASSUME SyncReads
    PROVE  Spec => [](IInv /\ HandoverInv /\ DeliveryInv)
<1>1. Init => IInv /\ HandoverInv /\ DeliveryInv
  BY InvariantInit, HandoverInit, DeliveryInit
<1>2. IInv /\ HandoverInv /\ DeliveryInv /\ [Next]_vars
          => (IInv /\ HandoverInv /\ DeliveryInv)'
  BY InvariantNext, HandoverNext, DeliveryNext
<1> QED
  BY <1>1, <1>2, PTL DEF Spec

(* Where no other process moves while a collection reads the Runs, no      *)
(* generation is given to Pi twice: not after a crash, a reload or a       *)
(* failed send, not when the acknowledgement never came to its end, and    *)
(* not because a Run above or below it ended, restarted or was retained    *)
(* since (observability.ts collectRunCompletionBatchMembers, run-ui-       *)
(* runtime.ts).                                                            *)
THEOREM GenerationsGivenOnce == ASSUME SyncReads PROVE Spec => []GenerationsOnce
<1>1. DeliveryInv => GenerationsOnce
  BY DEF DeliveryInv, GivenOK, GenerationsOnce, Given
<1> QED
  BY <1>1, DeliveryHolds, PTL

(* A Run and the Runs it started are given in one batch, with room in it   *)
(* for all of them and no other process moving while a collection reads    *)
(* the Runs: nothing of a tree comes early, while a member still runs, and *)
(* nothing comes later, in a second batch (observability.ts                *)
(* deliveryTreePosition, collectRunCompletionBatchMembers).                *)
THEOREM TreesComeTogether ==
    ASSUME SyncReads, Cardinality(Runs) <= BatchMax
    PROVE  Spec => []TreesTogether
<1>1. DeliveryInv => TreesTogether
  BY DEF DeliveryInv, Room, TreesOK, TreesTogether, Given
<1> QED
  BY <1>1, DeliveryHolds, PTL

-----------------------------------------------------------------------------
(* Top-level Runs, whose runners may move while they are read: what is     *)
(* given may misstate how a Run ended, and is still given once.                  *)

TopLevel == {r \in Runs : Parent[r] = NoRun}

\* The read saw no result where there is one.
Misread(m) == result[m.run] # "none" /\ m.status # result[m.run]

\* m is what the directory says, or what a read made of it before the result.
Held(m) ==
    /\ present[m.run] /\ generation[m.run] = m.generation
    /\ Status(m.run) # "running" /\ stopping[m.run] = "none"
    /\ m.status = Status(m.run) \/ Misread(m)

\* The generation of m is not in the directory any more.
Gone(m) == generation[m.run] # m.generation \/ ~present[m.run]

\* No read from now on makes m of its directory.
Unreadable(m) == handled[m.run] \/ Gone(m) \/ Misread(m)

\* Records of top-level Runs.
TopGiven == {t \in Given : t[2].run \in TopLevel}

\* What the view says of a top-level Run read since the collection began: its
\* end, or a result that was missed; and no record already given.
TopReadOK ==
    co.pc \in {"collect", "derive"} => \A r \in TopLevel \ co.unread :
        /\ co.view[r].present = present[r] /\ co.view[r].generation = generation[r]
        /\ IF co.pc = "derive" /\ r = co.cur
           THEN co.view[r].pid /\ co.view[r].status \in {"none", result[r]}
           ELSE /\ co.view[r].handled = handled[r]
                /\ \/ co.view[r].status = "running"
                   \/ /\ Status(r) # "running"
                      /\ \/ co.view[r].status = Status(r)
                         \/ result[r] # "none" /\ co.view[r].status # result[r]
        /\ \A t \in TopGiven \ Accepted(journal.batch) :
               present[r] /\ t[2].run = r /\ t[2].generation = generation[r] =>
                   handled[r] \/ co.view[r].status = result[r]

TopInv ==
    /\ MemoryOK
    /\ \A r \in TopLevel : process[r] # "unborn"
    /\ TopReadOK
    /\ \A t \in TopGiven : /\ t[2].generation <= generation[t[2].run]
                           /\ Gone(t[2]) \/ Held(t[2])
                           /\ t \in Accepted(journal.batch) \/ Unreadable(t[2])
    /\ co.pc = "ack" => \A m \in journal.batch.members \ co.unacked :
           m.run \in TopLevel => Unreadable(m)
    /\ \A t, u \in TopGiven : t[2] = u[2] => t[1] = u[1]

LEMMA TopSteps ==
    ASSUME IInv, [Next]_vars, NEW r \in TopLevel
    PROVE  \/ /\ generation'[r] = generation[r] + 1
           \/ generation'[r] = generation[r] /\ ~present'[r]
           \/ /\ generation'[r] = generation[r] /\ present'[r] = present[r]
              /\ handled[r] => handled'[r]
              /\ result[r] # "none" => result'[r] = result[r]
              /\ (Status(r) # "running" /\ stopping[r] = "none") =>
                     Status(r)' = Status(r) /\ stopping'[r] = "none"
<1>1. r \in Runs /\ RunsTypeOK /\ RunsStepOK
  BY NextDrifts, GivenTypes DEF TopLevel
<1>2. CASE Drifts
  BY <1>1, <1>2 DEF Drifts, Moving, TopLevel
<1>3. ASSUME NEW x \in Runs, Starts(x) \/ RetainRun(x), x # r
      PROVE  /\ generation'[r] = generation[r] /\ present'[r] = present[r]
             /\ handled'[r] = handled[r] /\ Status(r)' = Status(r)
             /\ result'[r] = result[r] /\ stopping' = stopping
  <2>1. result'[r] = result[r]
    BY <1>1, <1>3 DEF Starts, FreshGeneration, RetainRun, RunsTypeOK
  <2> QED
    BY <1>1, <1>3, <2>1, OneChanges
<1>4. CASE Starts(r) \/ RetainRun(r)
  BY <1>1, <1>4, OneChanges
<1> QED
  BY <1>1, <1>2, <1>3, <1>4 DEF RunsStepOK

\* While Runs are read, the owned ones only end.
LEMMA ReadingStill ==
    ASSUME IInv, HandoverInv, QuietOK, co.pc \in {"collect", "derive"},
           co'.pc \in {"collect", "derive"}, [Next]_vars
    PROVE  /\ \/ UNCHANGED <<co, journal>>
              \/ UNCHANGED runVars /\ (CollectCompletions \/ DeriveRead)
           /\ \A r \in TopLevel :
                  /\ generation'[r] = generation[r] /\ present'[r] = present[r]
                  /\ handled'[r] = handled[r]
                  /\ result[r] # "none" => result'[r] = result[r]
                  /\ Status(r) # "running" => Status(r)' = Status(r)
<1>1. co \in CoordinatorState /\ host.up /\ ~Free /\ RunsTypeOK
  BY HandlerFacts, GivenTypes
<1>2. ASSUME UNCHANGED runVars
      PROVE  \A r \in TopLevel :
                  /\ generation'[r] = generation[r] /\ present'[r] = present[r]
                  /\ handled'[r] = handled[r]
                  /\ result[r] # "none" => result'[r] = result[r]
                  /\ Status(r) # "running" => Status(r)' = Status(r)
  BY <1>2 DEF runVars, Status
<1>3. CASE CollectCompletions \/ DeriveRead
  <2>1. UNCHANGED runVars
    BY <1>3 DEF CollectCompletions, ReadResult, AdmitCompletions, DeriveRead, Coordinator
  <2> QED
    BY <1>2, <1>3, <2>1
<1>4. CASE UNCHANGED vars
  BY <1>2, <1>4 DEF vars
<1>5. CASE OwnMoves
  <2> SUFFICES FALSE
    OBVIOUS
  <2>1. PICK r \in Runs : Parent[r] = NoRun
                          /\ (StopRecord(r) \/ StopAbandoned(r) \/ StopHandled(r))
    BY <1>1, <1>5 DEF OwnMoves, RunsMove
  <2> QED
    BY <2>1 DEF QuietOK, OwnStopping, StopRecord, StopAbandoned, StopHandled
<1>6. CASE NestedMoves
  <2>1. /\ UNCHANGED <<co, journal>>
        /\ \E x \in Runs :
              /\ Parent[x] # NoRun
              /\ \/ StartNested(x) \/ SpawnNested(x) \/ StopRecord(x) \/ StopHandled(x)
                 \/ RetainRun(x) \/ StopAbandoned(x)
                 \/ \E how \in Interruptions : StopSignal(x, how)
    BY <1>6 DEF NestedMoves, RunsMove, ActorWorks
  <2>2. PICK x \in Runs :
            /\ Parent[x] # NoRun
            /\ \/ StartNested(x) \/ SpawnNested(x) \/ StopRecord(x) \/ StopHandled(x)
               \/ RetainRun(x) \/ StopAbandoned(x)
               \/ \E how \in Interruptions : StopSignal(x, how)
    BY <2>1
  <2>3. \A r \in Runs \ {x} :
            /\ generation'[r] = generation[r] /\ present'[r] = present[r]
            /\ handled'[r] = handled[r] /\ result'[r] = result[r]
            /\ process'[r] = process[r] /\ cut'[r] = cut[r]
    BY <1>1, <2>2
       DEF StartNested, FreshGeneration, SpawnNested, StopRecord, StopHandled,
           RetainRun, StopAbandoned, StopSignal, RunsTypeOK
  <2> QED
    BY <2>1, <2>2, <2>3 DEF TopLevel, Status
<1>7. CASE RunnerMoves
  <2>1. UNCHANGED <<co, journal>>
    BY <1>7 DEF RunnerMoves, RunsMove
  <2>2. PICK x \in Runs : \/ \E e \in Events : RunnerPublishSteer(x, e)
                          \/ \E code \in Codes : RunnerFinish(x, code)
                          \/ RunnerExit(x)
    BY <1>7 DEF RunnerMoves, RunsMove
  <2>3. CASE \E e \in Events : RunnerPublishSteer(x, e)
    BY <2>1, <2>3 DEF RunnerPublishSteer, Status
  <2>4. CASE \E code \in Codes : RunnerFinish(x, code)
    BY <1>1, <2>1, <2>4 DEF RunnerFinish, Status, DeriveStatus, RunsTypeOK, TopLevel
  <2>5. CASE RunnerExit(x)
    BY <1>1, <2>1, <2>5 DEF RunnerExit, Status, DeriveStatus, RunsTypeOK, TopLevel
  <2> QED
    BY <2>2, <2>3, <2>4, <2>5
<1>8. CASE HostMoves
  <2>1. HostCrash
    BY <1>1, <1>8 DEF HostMoves, HostWork, HostCommitMessage, HostContext, HostTurnEnd,
                      HostCommitProposal, HostDropProposal, HostSettle, Settle
  <2> QED
    BY <2>1 DEF HostCrash, Closed
<1>9. CASE Launch \/ Reload \/ Update \/ TimerFlush \/ AnimationTick
  BY <1>1, <1>9 DEF Launch, Reload, Update, TimerFlush, AnimationTick
<1>10. CASE Handler
  <2>1. CollectCompletions \/ DeriveRead
    BY <1>10
       DEF Handler, Teardown, RecoverBatch, RecoverSteers, MarkSteer, FinalizeSteerStep,
           Observe, AdmitSteers, FlushSteers, SendSteer, SteerSent, ReconcileBatch,
           MarkBatchQueued, MarkBatchPresented, AckMembers, Recollect, SendBatch,
           HoldBatch, ProposeBatch, ContextNext, ContextQueue, ContextPresent, At
  <2> QED
    BY <1>3, <2>1
<1> QED
  BY <1>4, <1>5, <1>6, <1>7, <1>8, <1>9, <1>10 DEF Next

LEMMA TopReads ==
    ASSUME IInv, HandoverInv, TopInv, [Next]_vars, Passes
    PROVE  TopReadOK'
<1> SUFFICES ASSUME co'.pc \in {"collect", "derive"}, co'.unread # Runs PROVE TopReadOK'
  BY DEF TopReadOK, TopLevel
<1>1. /\ co \in CoordinatorState /\ RunsTypeOK /\ co.pc \in {"collect", "derive"}
      /\ TopGiven' = TopGiven /\ Accepted(journal.batch)' = Accepted(journal.batch)
  BY HandlerFacts, GivenTypes DEF Passes, TopGiven
<1>2. /\ \/ UNCHANGED <<co, journal>>
         \/ UNCHANGED runVars /\ (CollectCompletions \/ DeriveRead)
      /\ \A r \in TopLevel :
             /\ generation'[r] = generation[r] /\ present'[r] = present[r]
             /\ handled'[r] = handled[r]
             /\ result[r] # "none" => result'[r] = result[r]
             /\ Status(r) # "running" => Status(r)' = Status(r)
  BY <1>1, ReadingStill DEF TopInv, MemoryOK
<1>3. \A t \in TopGiven \ Accepted(journal.batch) :
          /\ present[t[2].run] /\ t[2].generation = generation[t[2].run]
          => handled[t[2].run] \/ result[t[2].run] # "none"
  BY DEF TopInv, Unreadable, Gone, Misread
<1>4. CASE UNCHANGED <<co, journal>>
  <2> SUFFICES ASSUME NEW r \in TopLevel \ co.unread
               PROVE  /\ co.view[r].present = present'[r]
                      /\ co.view[r].generation = generation'[r]
                      /\ IF co.pc = "derive" /\ r = co.cur
                         THEN co.view[r].pid /\ co.view[r].status \in {"none", result'[r]}
                         ELSE /\ co.view[r].handled = handled'[r]
                              /\ \/ co.view[r].status = "running"
                                 \/ /\ Status(r)' # "running"
                                    /\ \/ co.view[r].status = Status(r)'
                                       \/ /\ result'[r] # "none"
                                          /\ co.view[r].status # result'[r]
                      /\ \A t \in TopGiven \ Accepted(journal.batch) :
                             /\ present'[r] /\ t[2].run = r
                             /\ t[2].generation = generation'[r]
                             => handled'[r] \/ co.view[r].status = result'[r]
    BY <1>1, <1>4 DEF TopReadOK
  <2>1. /\ co.view[r].present = present[r] /\ co.view[r].generation = generation[r]
        /\ IF co.pc = "derive" /\ r = co.cur
           THEN co.view[r].pid /\ co.view[r].status \in {"none", result[r]}
           ELSE /\ co.view[r].handled = handled[r]
                /\ \/ co.view[r].status = "running"
                   \/ /\ Status(r) # "running"
                      /\ \/ co.view[r].status = Status(r)
                         \/ result[r] # "none" /\ co.view[r].status # result[r]
        /\ \A t \in TopGiven \ Accepted(journal.batch) :
               present[r] /\ t[2].run = r /\ t[2].generation = generation[r] =>
                   handled[r] \/ co.view[r].status = result[r]
    BY <1>1 DEF TopInv, TopReadOK
  <2> QED
    BY <1>2, <1>3, <2>1
<1>5. ASSUME NEW x \in co.unread, ReadResult(x) PROVE TopReadOK'
  <2>1. /\ UNCHANGED <<runVars, journal>> /\ co.pc = "collect" /\ x \in Runs
        /\ co'.pc = "derive" /\ co'.cur = x /\ co'.unread = co.unread \ {x}
        /\ co'.view[x].present = present[x] /\ co'.view[x].generation = generation[x]
        /\ co'.view[x].status = result[x] /\ co'.view[x].pid = (process[x] # "unborn")
        /\ \A r \in Runs \ {x} : co'.view[r] = co.view[r]
    BY <1>1, <1>5 DEF ReadResult, At, Coordinator, CoordinatorState
  <2>2. x \in TopLevel => co'.view[x].pid
    BY <2>1 DEF TopInv
  <2>3. \A r \in TopLevel \ co'.unread : r = x \/ r \in (TopLevel \ co.unread) \ {x}
    BY <2>1 DEF TopLevel
  <2>4. UNCHANGED <<present, generation, handled, result>>
        /\ \A r \in Runs : Status(r)' = Status(r)
    BY <2>1 DEF runVars, Status
  <2>5. TopReadOK
    BY DEF TopInv
  <2>6. TopLevel \subseteq Runs
    BY DEF TopLevel
  <2> QED
    BY <1>1, <2>1, <2>2, <2>3, <2>4, <2>5, <2>6 DEF TopReadOK
<1>6. CASE DeriveRead
  <2> DEFINE x == co.cur
             v == co.view[x]
             live == v.pid /\ process[x] = "live" /\ generation[x] = v.generation
  <2>1. /\ UNCHANGED <<runVars, journal>> /\ co.pc = "derive" /\ x \in Runs
        /\ co'.pc = "collect" /\ co'.unread = co.unread
        /\ co'.view[x].present = v.present /\ co'.view[x].generation = v.generation
        /\ co'.view[x].status = DeriveStatus(v.status, live, cut[x])
        /\ co'.view[x].handled = handled[x]
        /\ \A r \in Runs \ {x} : co'.view[r] = co.view[r]
    <3>1. co.pc = "derive" /\ x \in Runs
      BY <1>6 DEF DeriveRead, At, IInv, LocalOK
    <3>2. /\ UNCHANGED <<runVars, journal>>
          /\ co' = [co EXCEPT !.pc = "collect", !.cur = Nothing,
                              !.view[x].status = DeriveStatus(v.status, live, cut[x]),
                              !.view[x].handled = handled[x]]
      BY <1>6 DEF DeriveRead, Coordinator
    <3>3. co \in CoordinatorState /\ DOMAIN co.view = Runs
          /\ {"present", "generation", "status", "handled"} \subseteq DOMAIN co.view[x]
      BY <1>1, <3>1 DEF CoordinatorState
    <3>4. /\ co'.pc = "collect" /\ co'.unread = co.unread
          /\ co'.view = [co.view EXCEPT ![x].status = DeriveStatus(v.status, live, cut[x]),
                                       ![x].handled = handled[x]]
      BY <3>2, <3>3 DEF CoordinatorState
    <3> HIDE DEF live
    <3> QED
      BY <3>1, <3>2, <3>3, <3>4
  <2>2. UNCHANGED <<present, generation, handled, result>>
        /\ \A r \in Runs : Status(r)' = Status(r)
    BY <2>1 DEF runVars, Status
  <2>3. TopReadOK /\ TopLevel \subseteq Runs
    BY DEF TopInv, TopLevel
  <2>4. ASSUME x \in TopLevel \ co.unread
        PROVE  /\ \/ co'.view[x].status = "running"
                  \/ /\ Status(x) # "running"
                     /\ \/ co'.view[x].status = Status(x)
                        \/ result[x] # "none" /\ co'.view[x].status # result[x]
               /\ co'.view[x].present = present[x] /\ co'.view[x].generation = generation[x]
               /\ result[x] # "none" /\ v.status = result[x]
                      => co'.view[x].status = result[x]
    <3>1. /\ v.present = present[x] /\ v.generation = generation[x]
          /\ v.pid /\ v.status \in {"none", result[x]}
      BY <2>1, <2>3, <2>4 DEF TopReadOK
    <3>2. /\ result[x] \in {"none", "done", "failed"}
          /\ cut[x] \in {"none", "killed", "cancelled"}
      BY <1>1, <2>1 DEF RunsTypeOK
    <3>3. live <=> process[x] = "live"
      BY <3>1
    <3> HIDE DEF live, v, x
    <3> QED
      BY <2>1, <3>1, <3>2, <3>3 DEF DeriveStatus, Status
  <2>5. \A t \in TopGiven \ Accepted(journal.batch) :
            /\ present[x] /\ t[2].run = x /\ t[2].generation = generation[x]
            => handled[x] \/ (result[x] # "none" /\ (x \in TopLevel \ co.unread
                                                       => v.status = result[x]))
    BY <1>3, <2>1, <2>3 DEF TopReadOK
  <2> HIDE DEF v, live
  <2> QED
    BY <1>1, <2>1, <2>2, <2>3, <2>4, <2>5 DEF TopReadOK
<1>7. CASE AdmitCompletions
  <2>1. co'.pc \in {"idle", "deliver"}
    BY <1>1, <1>7, ReturnFields, GotoFields
       DEF AdmitCompletions, Coordinator, Goto, CoordinatorState
  <2> QED
    BY <2>1
<1> QED
  BY <1>2, <1>4, <1>5, <1>6, <1>7 DEF CollectCompletions

LEMMA UnreadableStays ==
    ASSUME IInv, [Next]_vars, NEW m \in Member, m.run \in TopLevel,
           m.generation <= generation[m.run]
    PROVE  /\ m.generation <= generation'[m.run]
           /\ Gone(m) => Gone(m)'
           /\ Gone(m) \/ Held(m) => Gone(m)' \/ Held(m)'
           /\ Gone(m) \/ Held(m) => (Unreadable(m) => Unreadable(m)')
<1> DEFINE r == m.run
<1>1. r \in TopLevel /\ m.generation \in Nat /\ generation[r] \in Nat /\ RunsTypeOK
  BY GivenTypes, RunsAssumption DEF Member, RunsTypeOK, TopLevel
<1>2. CASE generation'[r] = generation[r] + 1
  BY <1>1, <1>2 DEF Gone, Unreadable
<1>3. CASE generation'[r] = generation[r] /\ ~present'[r]
  BY <1>1, <1>3 DEF Gone, Unreadable
<1>4. CASE /\ generation'[r] = generation[r] /\ present'[r] = present[r]
           /\ handled[r] => handled'[r]
           /\ result[r] # "none" => result'[r] = result[r]
           /\ (Status(r) # "running" /\ stopping[r] = "none") =>
                  Status(r)' = Status(r) /\ stopping'[r] = "none"
  BY <1>1, <1>4 DEF Gone, Held, Unreadable, Misread
<1> QED
  BY <1>1, <1>2, <1>3, <1>4, TopSteps

LEMMA TopTypes ==
    ASSUME IInv, TopInv
    PROVE  /\ \A t \in TopGiven : /\ t \in Given /\ t[2] \in Member /\ t[2].run \in TopLevel
                                  /\ t[2].generation <= generation[t[2].run]
                                  /\ Gone(t[2]) \/ Held(t[2])
                                  /\ t \in Accepted(journal.batch) \/ Unreadable(t[2])
           /\ \A m \in journal.batch.members : m.run \in TopLevel =>
                  /\ m \in Member /\ m.generation <= generation[m.run]
                  /\ Gone(m) \/ Held(m)
<1>1. \A t \in TopGiven : t \in Given /\ t[2] \in Member
  BY GivenTypes DEF TopGiven
<1>2. ASSUME NEW m \in journal.batch.members, m.run \in TopLevel
      PROVE  /\ m \in Member /\ m.generation <= generation[m.run]
             /\ Gone(m) \/ Held(m)
  <2> DEFINE t == <<journal.batch.id, m>>
  <2>1. t \in TopGiven /\ t[2] = m
    BY <1>2, GivenTypes DEF TopGiven
  <2> QED
    BY <1>1, <2>1 DEF TopInv
<1> QED
  BY <1>1, <1>2 DEF TopInv, TopGiven

LEMMA TopProcesses ==
    ASSUME IInv, TopInv, [Next]_vars, NEW r \in TopLevel
    PROVE  process'[r] # "unborn"
<1>1. r \in Runs /\ Parent[r] = NoRun /\ process[r] # "unborn" /\ RunsTypeOK
  BY GivenTypes DEF TopLevel, TopInv
<1>2. CASE process' = process
  BY <1>1, <1>2
<1>3. CASE OwnMoves
  BY <1>1, <1>3
     DEF OwnMoves, RunsMove, StartTopLevel, FreshGeneration, StopSignal, StopRecord,
         StopAbandoned, StopHandled, RetainRun, RunsTypeOK
<1>4. CASE NestedMoves
  BY <1>1, <1>4
     DEF NestedMoves, RunsMove, ActorWorks, StartNested, SpawnNested, FreshGeneration,
         StopSignal, StopRecord, StopAbandoned, StopHandled, RetainRun, RunsTypeOK
<1>5. CASE RunnerMoves
  BY <1>1, <1>5
     DEF RunnerMoves, RunsMove, RunnerPublishSteer, RunnerFinish, RunnerExit, RunsTypeOK
<1>6. CASE Teardown
  BY <1>1, <1>6 DEF Teardown, TeardownOne, StopSignal, Coordinator, runVars
<1>7. ASSUME NEW m, AckOne(m) PROVE process' = process
  BY <1>7 DEF AckOne, Fails, runVars
<1>8. CASE MarkSteer \/ AckMembers \/ HostCrash
  BY <1>2, <1>7, <1>8 DEF MarkSteer, AckMembers, HostCrash, Writes, Fails, runVars
<1>9. ASSUME ~(OwnMoves \/ NestedMoves \/ RunnerMoves \/ Teardown \/ MarkSteer
               \/ AckMembers \/ HostCrash)
      PROVE  process' = process
  <2> USE DEF runVars, Coordinator, Writes, Fails, Hosts
  <2>1. CASE Launch \/ Reload \/ Update \/ TimerFlush \/ AnimationTick
    BY <2>1 DEF Launch, Reload, Update, TimerFlush, AnimationTick
  <2>2. CASE RecoverBatch \/ RecoverSteers \/ FinalizeSteerStep \/ Observe
    BY <2>2 DEF RecoverBatch, RecoverSteers, FinalizeSteerStep, Observe
  <2>3. CASE AdmitSteers \/ FlushSteers \/ SendSteer \/ SteerSent
    BY <2>3 DEF AdmitSteers, AdmitOne, FlushSteers, FlushOne, FlushDone, SendSteer, SteerSent
  <2>4. CASE ReconcileBatch \/ MarkBatchQueued \/ MarkBatchPresented \/ Recollect
    BY <2>4 DEF ReconcileBatch, MarkBatchQueued, MarkBatchPresented, Recollect
  <2>5. CASE CollectCompletions \/ DeriveRead
    BY <2>5 DEF CollectCompletions, ReadResult, AdmitCompletions, DeriveRead
  <2>6. CASE SendBatch \/ HoldBatch \/ ProposeBatch
    BY <2>6 DEF SendBatch, HoldBatch, ProposeBatch
  <2>7. CASE ContextNext \/ ContextQueue \/ ContextPresent
    BY <2>7 DEF ContextNext, ContextSteer, ContextQueue, ContextPresent
  <2>8. CASE HostMoves
    BY <1>9, <2>8 DEF HostMoves, HostWork, HostCommitMessage, HostContext, HostTurnEnd,
                      HostCommitProposal, HostDropProposal, HostSettle, Settle
  <2>9. CASE UNCHANGED vars
    BY <2>9 DEF vars
  <2> QED
    BY <1>9, <2>1, <2>2, <2>3, <2>4, <2>5, <2>6, <2>7, <2>8, <2>9 DEF Next, Handler
<1> QED
  BY <1>2, <1>3, <1>4, <1>5, <1>6, <1>8, <1>9

\* Nothing is given.
LEMMA TopKept ==
    ASSUME IInv, HandoverInv, TopInv, [Next]_vars, MemoryOK', TopReadOK', Given' = Given,
           \A t \in TopGiven : t \in Accepted(journal.batch)' \/ Unreadable(t[2])',
           co'.pc = "ack" => \A m \in journal'.batch.members \ co'.unacked :
                                 m.run \in TopLevel => Unreadable(m)'
    PROVE  TopInv'
<1>1. TopGiven' = TopGiven
  BY DEF TopGiven
<1>2. \A t \in TopGiven : /\ t[2].generation <= generation'[t[2].run]
                          /\ Gone(t[2])' \/ Held(t[2])'
  BY TopTypes, UnreadableStays
<1>3. \A r \in TopLevel : process'[r] # "unborn"
  BY TopProcesses
<1>4. \A t, u \in TopGiven : t[2] = u[2] => t[1] = u[1]
  BY DEF TopInv
<1> QED
  BY <1>1, <1>2, <1>3, <1>4 DEF TopInv

\* What is collected of a top-level Run was not given, whatever was read of it.
LEMMA TopAdmits ==
    ASSUME IInv, HandoverInv, TopInv, AdmitCompletions, ~Coordinator(Idle(co))
    PROVE  TopInv'
<1> DEFINE C == Candidates(co.view)
           k == lastId + 1
<1>1. /\ co \in CoordinatorState /\ journal \in Journals
      /\ co.pc = "collect" /\ co.unread = {} /\ RunsTypeOK
  BY HandlerFacts DEF IInv, TypeOK, AdmitCompletions, At
<1>2. PICK M \in Slices(C) :
          /\ CanAdmitBatch(journal, k, M) /\ journal' = AdmitBatch(journal, k, M)
          /\ co' = [Goto(co, "deliver") EXCEPT !.view = UnreadView]
          /\ UNCHANGED <<runVars, host, ghosts>>
  BY DEF AdmitCompletions
<1>3. /\ co'.pc = "deliver" /\ Accepted(journal.batch) = {} /\ Given = taken
      /\ Accepted(journal.batch)' = {<<k, m>> : m \in M}
      /\ Given' = taken \cup {<<k, m>> : m \in M}
  <2>1. co'.pc = "deliver"
    BY <1>1, <1>2, GotoFields DEF Goto, CoordinatorState
  <2>2. journal.batch = NoBatch
    BY <1>2 DEF CanAdmitBatch
  <2>3. journal'.batch = [id |-> k, members |-> M, phase |-> "pending"]
    BY <1>1, <1>2 DEF AdmitBatch, Journals
  <2> QED
    BY <1>2, <2>1, <2>2, <2>3 DEF Given, Accepted, NoBatch, ghosts
<1>4. ASSUME NEW m \in M, m.run \in TopLevel
      PROVE  /\ m.generation = generation[m.run] /\ Held(m) /\ ~handled[m.run]
             /\ \A t \in TopGiven :
                    t[2].run = m.run /\ t[2].generation = m.generation =>
                        m.status = result[m.run]
  <2>1. /\ m.run \in Runs /\ Deliverable(co.view, m.run)
        /\ m.generation = co.view[m.run].generation /\ m.status = co.view[m.run].status
    BY <1>2 DEF Slices, Candidates
  <2>2. /\ co.view[m.run].present /\ ~co.view[m.run].handled /\ m.status # "running"
    BY <2>1 DEF Deliverable, Reportable, NotifiedStatuses
  <2>3. /\ co.view[m.run].present = present[m.run]
        /\ co.view[m.run].generation = generation[m.run]
        /\ co.view[m.run].handled = handled[m.run]
        /\ Status(m.run) # "running"
        /\ m.status = Status(m.run) \/ Misread(m)
        /\ \A t \in TopGiven \ Accepted(journal.batch) :
               /\ present[m.run] /\ t[2].run = m.run /\ t[2].generation = generation[m.run]
               => handled[m.run] \/ m.status = result[m.run]
    <3>1. m.run \in TopLevel \ co.unread /\ co.pc \in {"collect", "derive"} /\ TopReadOK
      BY <1>1, <1>4 DEF TopInv
    <3>2. ~(co.pc = "derive" /\ m.run = co.cur)
      BY <1>1
    <3>3. /\ co.view[m.run].present = present[m.run]
          /\ co.view[m.run].generation = generation[m.run]
          /\ co.view[m.run].handled = handled[m.run]
          /\ \/ co.view[m.run].status = "running"
             \/ /\ Status(m.run) # "running"
                /\ \/ co.view[m.run].status = Status(m.run)
                   \/ result[m.run] # "none" /\ co.view[m.run].status # result[m.run]
      BY <3>1, <3>2 DEF TopReadOK
    <3>4. \A t \in TopGiven \ Accepted(journal.batch) :
             present[m.run] /\ t[2].run = m.run /\ t[2].generation = generation[m.run] =>
                 handled[m.run] \/ co.view[m.run].status = result[m.run]
      BY <3>1 DEF TopReadOK
    <3> QED
      BY <2>1, <2>2, <3>3, <3>4 DEF Misread
  <2>4. stopping[m.run] = "none"
    BY <1>1, <1>4 DEF TopInv, MemoryOK, QuietOK, OwnStopping, TopLevel
  <2> QED
    BY <1>3, <2>1, <2>2, <2>3, <2>4 DEF Held
<1>5. TopGiven' = TopGiven \cup {<<k, m>> : m \in {n \in M : n.run \in TopLevel}}
  BY <1>3 DEF TopGiven
<1>6. \A t \in TopGiven' : \/ t \in TopGiven
                           \/ t = <<k, t[2]>> /\ t[2] \in M /\ t[2].run \in TopLevel
  BY <1>5
<1>7. \A m : /\ Gone(m)' <=> Gone(m)
             /\ Held(m)' <=> Held(m)
             /\ Unreadable(m)' <=> Unreadable(m)
  BY <1>2 DEF runVars, Gone, Held, Unreadable, Misread, Status
<1>8. UNCHANGED <<generation, process, stopping, host>>
  BY <1>2 DEF runVars
<1>9. MemoryOK' /\ TopReadOK'
  BY <1>1, <1>3, <1>8 DEF TopInv, MemoryOK, QuietOK, ReadOK, TopReadOK, OwnStopping
<1>10. ASSUME NEW m \in M, m.run \in TopLevel, NEW t \in TopGiven, t[2] = m
       PROVE  FALSE
  <2>1. Unreadable(m)
    BY <1>3, <1>10, TopTypes
  <2>2. m.status = result[m.run] /\ Held(m) /\ ~handled[m.run]
    BY <1>4, <1>10
  <2> QED
    BY <2>1, <2>2 DEF Unreadable, Gone, Misread, Held
<1>11. \A t \in TopGiven' : /\ t[2].generation <= generation[t[2].run]
                            /\ Gone(t[2]) \/ Held(t[2])
                            /\ t \in Accepted(journal.batch)' \/ Unreadable(t[2])
  <2>1. \A r \in TopLevel : generation[r] \in Nat
    BY <1>1, RunsAssumption DEF RunsTypeOK, TopLevel
  <2>2. \A t \in TopGiven : Unreadable(t[2])
    BY <1>3, TopTypes
  <2> QED
    BY <1>3, <1>4, <1>6, <2>1, <2>2, TopTypes
<1>12. \A t, u \in TopGiven' : t[2] = u[2] => t[1] = u[1]
  BY <1>6, <1>10 DEF TopInv
<1> QED
  BY <1>3, <1>7, <1>8, <1>9, <1>11, <1>12 DEF TopInv

LEMMA TopNext ==
    ASSUME IInv, HandoverInv, TopInv, [Next]_vars
    PROVE  TopInv'
<1>1. /\ \A t \in TopGiven : Unreadable(t[2]) => Unreadable(t[2])'
      /\ \A m \in journal.batch.members : m.run \in TopLevel =>
             /\ m \in Member /\ m.generation <= generation[m.run]
             /\ Gone(m) \/ Held(m)
             /\ Gone(m) => Gone(m)'
             /\ Unreadable(m) => Unreadable(m)'
  BY TopTypes, UnreadableStays
<1>2. CASE MemoryOK' /\ Passes
  <2>1. \A t \in TopGiven : t \in Accepted(journal.batch)' \/ Unreadable(t[2])'
    BY <1>1, <1>2, TopTypes DEF Passes
  <2>2. co'.pc = "ack" => \A m \in journal'.batch.members \ co'.unacked :
                              m.run \in TopLevel => Unreadable(m)'
    <3>1. journal'.batch.members \subseteq journal.batch.members
      <4> SUFFICES ASSUME NEW m \in journal'.batch.members
                   PROVE  m \in journal.batch.members
        OBVIOUS
      <4>1. <<journal'.batch.id, m>> \in Accepted(journal.batch)
        BY <1>2 DEF Passes, Accepted
      <4> QED
        BY <4>1 DEF Accepted
    <3> QED
      BY <1>1, <1>2, <3>1 DEF Passes, TopInv
  <2>3. TopReadOK'
    BY <1>2, TopReads
  <2> QED
    BY <1>2, <2>1, <2>2, <2>3, TopKept DEF Passes
<1>3. CASE AckMembers /\ ~Passes
  <2>1. /\ MemoryOK' /\ TopReadOK' /\ co.pc = "ack" /\ Given' = Given
    BY <1>3, AckGives DEF TopInv, TopReadOK
  <2>2. CASE co.unacked = {} /\ Accepted(journal.batch)' = {} /\ co'.pc # "ack"
    <3>1. \A t \in TopGiven : Unreadable(t[2])
      <4>1. \A t \in Accepted(journal.batch) : t[2] \in journal.batch.members
        BY DEF Accepted
      <4> QED
        BY <2>1, <2>2, <4>1, TopTypes DEF TopInv
    <3> QED
      BY <1>1, <2>1, <2>2, <3>1, TopKept
  <2>3. ASSUME NEW m \in co.unacked, journal' = journal,
               co'.unacked = co.unacked \ {m},
               handled' = [handled EXCEPT ![m.run] = @ \/ SameRecord(m)]
        PROVE  TopInv'
    <3>1. m \in journal.batch.members /\ RunsTypeOK
      BY <2>1, GivenTypes DEF IInv, LocalOK
    <3>2. ASSUME m.run \in TopLevel PROVE Unreadable(m)'
      <4>1. CASE Gone(m) \/ Misread(m)
        BY <1>1, <3>1, <3>2, <4>1 DEF Unreadable
      <4>2. CASE Held(m) /\ ~Misread(m)
        <5>1. handled'[m.run]
          BY <2>3, <3>1, <3>2, <4>2 DEF Held, SameRecord, RunsTypeOK, TopLevel
        <5> QED
          BY <5>1 DEF Unreadable
      <4> QED
        BY <1>1, <3>1, <3>2, <4>1, <4>2
    <3>3. \A n \in journal'.batch.members \ co'.unacked :
              n.run \in TopLevel => Unreadable(n)'
      BY <1>1, <2>1, <2>3, <3>2 DEF TopInv
    <3>4. \A t \in TopGiven : t \in Accepted(journal.batch)' \/ Unreadable(t[2])'
      BY <1>1, <2>3, TopTypes DEF Accepted
    <3> QED
      BY <2>1, <3>3, <3>4, TopKept
  <2> QED
    BY <1>3, <2>2, <2>3, AckGives DEF TopInv
<1>4. CASE AdmitCompletions
  <2>1. CASE Coordinator(Idle(co))
    <3>1. /\ co \in CoordinatorState /\ co.pc = "collect" /\ co' = Idle(co)
          /\ UNCHANGED <<stopping, taken, host, journal>>
      BY <1>4, <2>1, HandlerFacts DEF AdmitCompletions, At, Coordinator, ghosts, runVars
    <3>2. co'.pc = "idle"
      BY <3>1, ReturnFields
    <3> QED
      BY <1>2, <3>1, <3>2, PassFrame DEF TopInv
  <2> QED
    BY <1>4, <2>1, TopAdmits
<1> QED
  BY <1>2, <1>3, <1>4, NextGives, AckGives DEF TopInv

LEMMA TopInit ==
    ASSUME Init
    PROVE  TopInv
<1>1. Given = {} /\ co.pc = "idle" /\ ~OwnStopping
  BY DEF Init, RunsInit, Given, Accepted, EmptyJournal, NoBatch, Closed, OwnStopping
<1>2. \A r \in TopLevel : process[r] # "unborn"
  BY DEF Init, RunsInit, TopLevel
<1> QED
  BY <1>1, <1>2 DEF TopInv, MemoryOK, QuietOK, ReadOK, TopReadOK, TopGiven

LEMMA TopHolds == Spec => [](IInv /\ HandoverInv /\ TopInv)
<1>1. Init => IInv /\ HandoverInv /\ TopInv
  BY InvariantInit, HandoverInit, TopInit
<1>2. IInv /\ HandoverInv /\ TopInv /\ [Next]_vars
          => (IInv /\ HandoverInv /\ TopInv)'
  BY InvariantNext, HandoverNext, TopNext
<1> QED
  BY <1>1, <1>2, PTL DEF Spec

(* One exact terminal record (generation and status) is given in one batch *)
(* only: of a top-level Run even when its status is read while its runner  *)
(* writes the result, and of every Run that stands still while it is read  *)
(* (runs-status.ts buildRunStatus, observability.ts, run-ui-runtime.ts).   *)
THEOREM RecordsGivenOnce ==
    ASSUME SyncReads \/ \A r \in Runs : Parent[r] = NoRun
    PROVE  Spec => []RecordsOnce
<1>1. CASE SyncReads
  <2>1. GenerationsOnce => RecordsOnce
    BY DEF GenerationsOnce, RecordsOnce
  <2> QED
    BY <1>1, <2>1, GenerationsGivenOnce, PTL
<1>2. CASE \A r \in Runs : Parent[r] = NoRun
  <2>1. IInv /\ TopInv => RecordsOnce
    <3> SUFFICES ASSUME IInv, TopInv PROVE RecordsOnce
      OBVIOUS
    <3>1. taken \subseteq TopGiven
      BY <1>2, GivenTypes DEF TopGiven, TopLevel, Given
    <3> QED
      BY <3>1 DEF TopInv, RecordsOnce
  <2> QED
    BY <2>1, TopHolds, PTL
<1> QED
  BY <1>1, <1>2
=============================================================================
