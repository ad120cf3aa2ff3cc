------------------------- MODULE RunDeliveryProofs -------------------------
(***************************************************************************)
(* TLAPS proofs about RunDelivery: its type invariant, that delivery       *)
(* marks a Run handled only for a record that Pi accepted, and that it     *)
(* implements DeliveryJournalMachine - for any number of Runs,             *)
(* generations, urgent events, crashes, reloads and failures.              *)
(***************************************************************************)
EXTENDS RunDelivery, TLAPS

-----------------------------------------------------------------------------
(* The inductive invariant.                                                *)

\* The coordinator's memory c is well typed; a step that works on one steer or
\* one directory has it at hand; what it read of a present directory names a
\* generation; and where it is about to accept or acknowledge the batch there
\* is one, Pi has accepted all of it, and only its members are acknowledged.
LocalOK(c) ==
    /\ c \in CoordinatorState
    /\ c.pc \in {"mark", "finish", "send", "sent", "ctxQueue", "ctxPresent"}
           => c.cur \in Steer
    /\ c.pc = "derive" => c.cur \in Runs
    /\ \A r \in Runs : c.view[r].present => c.view[r].generation # 0
    /\ c.pc \in {"queueBatch", "presentBatch", "deliver"} => journal.batch # NoBatch
    /\ c.pc \in {"queueBatch", "presentBatch"} => Accepted(journal.batch) \subseteq taken
    /\ c.pc = "presentBatch" => journal.batch.phase \in {"queued", "presented"}
    /\ c.pc = "ack" => /\ journal.batch.phase = "presented"
                       /\ c.unacked \subseteq journal.batch.members

\* A directory with a run.json has been started.
StartedOK == \A r \in Runs : present[r] => generation[r] # 0

\* Where the journal or the host treats the batch as accepted, it is.
BatchOK ==
    /\ journal.batch.phase = "none" => journal.batch = NoBatch
    /\ journal.batch # NoBatch => journal.batch.id \in 1 .. lastId
    /\ \/ journal.batch.phase \in {"queued", "presented"}
       \/ BatchDelivery(journal.batch.id) \in host.queue \cup host.session
       => Accepted(journal.batch) \subseteq taken

IInv == TypeOK /\ LocalOK(co) /\ StartedOK /\ BatchOK /\ AckedWasAccepted

-----------------------------------------------------------------------------
(* The coordinator's memory.                                               *)

\* Labels at which nothing is claimed of the batch or of cur.
Plain == {"idle", "teardown", "recoverBatch", "recoverSteers", "observe", "admit", "flush",
          "reconcile", "recollect", "collect", "context"}

LEMMA PlainOK ==
    ASSUME NEW c \in CoordinatorState, c.pc \in Plain,
           \A r \in Runs : c.view[r].present => c.view[r].generation # 0
    PROVE  LocalOK(c)
BY DEF LocalOK, Plain

LEMMA UnreadViewOK ==
    /\ UnreadView \in [Runs -> [present : BOOLEAN, generation : 0 .. MaxGeneration,
                                parentGeneration : Nat, pid : BOOLEAN,
                                status : Statuses \cup {"none"}, handled : BOOLEAN]]
    /\ \A r \in Runs : UnreadView[r].present = FALSE
BY RunsAssumption DEF UnreadView, Unread, Statuses, TerminalStatuses

LEMMA ClosedOK == Closed \in CoordinatorState /\ LocalOK(Closed)
<1>1. Closed \in CoordinatorState
  BY UnreadViewOK DEF Closed, CoordinatorState, Handlers, Nothing
<1> QED
  BY <1>1, UnreadViewOK, PlainOK DEF Closed, Plain

LEMMA ReturnOK ==
    ASSUME NEW c \in CoordinatorState
    PROVE  /\ Idle(c) \in CoordinatorState /\ LocalOK(Idle(c))
           /\ Shut(c) \in CoordinatorState /\ LocalOK(Shut(c))
           /\ Abort(c) \in CoordinatorState /\ LocalOK(Abort(c))
<1>1. Idle(c) \in CoordinatorState /\ Idle(c).pc = "idle" /\ Idle(c).view = UnreadView
  BY ClosedOK DEF Idle, Closed, CoordinatorState
<1>2. Shut(c) \in CoordinatorState /\ Shut(c).pc = "idle" /\ Shut(c).view = UnreadView
  BY ClosedOK DEF Shut, Closed, CoordinatorState
<1>3. LocalOK(Idle(c)) /\ LocalOK(Shut(c))
  BY <1>1, <1>2, UnreadViewOK, PlainOK DEF Plain
<1> QED
  BY <1>1, <1>2, <1>3 DEF Abort

-----------------------------------------------------------------------------
(* Frames: a step that changes only the coordinator's memory preserves the *)
(* invariant if the new memory is OK.                                      *)

LEMMA MemoryStep ==
    ASSUME IInv, NEW c, LocalOK(c), co' = c,
           UNCHANGED <<runVars, journal, lastId, host, ghosts>>,
           budget' \in [crashes : Nat, reloads : Nat, failures : Nat]
    PROVE  IInv'
<1> USE DEF IInv, runVars, ghosts
<1>1. TypeOK'
  BY DEF TypeOK, RunsTypeOK, HostState, Messages, LocalOK
<1>2. LocalOK(co)'
  BY DEF LocalOK, Accepted, CoordinatorState
<1>3. StartedOK' /\ BatchOK' /\ AckedWasAccepted'
  BY DEF StartedOK, BatchOK, AckedWasAccepted, Accepted
<1> QED
  BY <1>1, <1>2, <1>3

LEMMA CoordinatorStep ==
    ASSUME IInv, NEW c, LocalOK(c), Coordinator(c)
    PROVE  IInv'
BY MemoryStep DEF Coordinator, IInv, TypeOK

LEMMA FailsStep ==
    ASSUME IInv, NEW c, LocalOK(c), Fails(c)
    PROVE  IInv'
<1>1. budget' \in [crashes : Nat, reloads : Nat, failures : Nat]
  BY DEF Fails, IInv, TypeOK
<1> QED
  BY <1>1, MemoryStep DEF Fails

-----------------------------------------------------------------------------
(* Memories the handlers build.                                            *)

ViewOK(c) == \A r \in Runs : c.view[r].present => c.view[r].generation # 0

LEMMA LocalFacts ==
    ASSUME NEW c, LocalOK(c)
    PROVE  c \in CoordinatorState /\ ViewOK(c)
BY DEF LocalOK, ViewOK

LEMMA EnterOK ==
    ASSUME NEW c \in CoordinatorState, ViewOK(c),
           NEW handler \in Handlers, NEW label \in Plain
    PROVE  LocalOK(Enter(c, handler, label))
<1>1. Enter(c, handler, label) \in CoordinatorState
  BY DEF Enter, CoordinatorState, ActiveSteers, Plain
<1> QED
  BY <1>1, PlainOK, ZenonT(40) DEF Enter, ViewOK, CoordinatorState

LEMMA StartedMemoryOK ==
    ASSUME NEW c \in CoordinatorState
    PROVE  LocalOK(Started(c))
<1> DEFINE d == [Shut(c) EXCEPT !.open = TRUE, !.recover = TRUE]
<1>1. Shut(c) \in CoordinatorState /\ ViewOK(Shut(c))
  BY ReturnOK, LocalFacts
<1>2. d \in CoordinatorState /\ d.view = Shut(c).view
  BY <1>1 DEF CoordinatorState
<1>3. ViewOK(d)
  BY <1>1, <1>2 DEF ViewOK
<1> QED
  BY <1>2, <1>3, EnterOK DEF Started, Handlers, Plain

LEMMA GotoOK ==
    ASSUME NEW c \in CoordinatorState, ViewOK(c), NEW label \in Plain
    PROVE  LocalOK(Goto(c, label))
<1>1. CASE label = "idle"
  BY <1>1, ReturnOK DEF Goto
<1>2. CASE label # "idle"
  <2>1. /\ Goto(c, label) \in CoordinatorState /\ Goto(c, label).pc \in Plain
        /\ Goto(c, label).view = c.view
    BY <1>2 DEF Goto, CoordinatorState, Plain
  <2> QED
    BY <2>1, PlainOK DEF ViewOK
<1> QED
  BY <1>1, <1>2

LEMMA FinishSteerOK ==
    ASSUME NEW c \in CoordinatorState, ViewOK(c), NEW s \in Steer,
           NEW next \in {"recoverSteers", "flush", "context"}
    PROVE  LocalOK(FinishSteer(c, s, next))
BY DEF FinishSteer, CoordinatorState, LocalOK, ViewOK

LEMMA AcknowledgeOK ==
    ASSUME NEW c \in CoordinatorState, ViewOK(c), journal \in Journals,
           journal.batch.phase = "presented",
           NEW next \in {"idle", "recoverSteers", "flush", "recollect", "context"}
    PROVE  LocalOK(Acknowledge(c, next))
BY DEF Acknowledge, CoordinatorState, LocalOK, ViewOK, Journals, Batch

LEMMA AcceptOK ==
    ASSUME NEW c \in CoordinatorState, ViewOK(c), journal.batch # NoBatch,
           Accepted(journal.batch) \subseteq taken,
           NEW next \in {"idle", "recollect"}
    PROVE  LocalOK(Accept(c, next))
BY DEF Accept, CoordinatorState, LocalOK, ViewOK

LEMMA StartCollectOK ==
    ASSUME NEW c \in CoordinatorState
    PROVE  LocalOK(StartCollect(c))
<1>1. /\ StartCollect(c) \in CoordinatorState /\ StartCollect(c).pc = "collect"
      /\ StartCollect(c).view = UnreadView
  BY UnreadViewOK DEF StartCollect, CoordinatorState
<1> QED
  BY <1>1, UnreadViewOK, PlainOK DEF Plain

-----------------------------------------------------------------------------
(* Steps that only move the coordinator.                                   *)

LEMMA HandlerStarts ==
    ASSUME IInv, Update \/ TimerFlush \/ HostContext \/ HostTurnEnd
    PROVE  IInv'
<1>1. co \in CoordinatorState /\ ViewOK(co)
  BY LocalFacts DEF IInv
<1>2. CASE Update
  BY <1>1, <1>2, EnterOK, CoordinatorStep DEF Update, Handlers, Plain
<1>3. CASE TimerFlush
  <2>1. [co EXCEPT !.armed = FALSE] \in CoordinatorState /\ ViewOK([co EXCEPT !.armed = FALSE])
    BY <1>1 DEF CoordinatorState, ViewOK
  <2> QED
    BY <1>3, <2>1, EnterOK, CoordinatorStep DEF TimerFlush, Handlers, Plain
<1>4. CASE HostContext
  BY <1>1, <1>4, EnterOK, CoordinatorStep DEF HostContext, Handlers, Plain
<1>5. CASE HostTurnEnd
  BY <1>1, <1>5, EnterOK, CoordinatorStep DEF HostTurnEnd, Handlers, Plain
<1> QED
  BY <1>2, <1>3, <1>4, <1>5

LEMMA ReloadStep ==
    ASSUME IInv, Reload
    PROVE  IInv'
<1> DEFINE c == [Shut(co) EXCEPT !.fn = "shutdown", !.pc = "teardown",
                                 !.unread = OwnRunning]
<1>1. Shut(co) \in CoordinatorState /\ ViewOK(Shut(co))
  BY LocalFacts, ReturnOK DEF IInv
<1>2. c \in CoordinatorState /\ c.pc = "teardown" /\ c.view = Shut(co).view
  BY <1>1 DEF CoordinatorState, Handlers, OwnRunning
<1>3. LocalOK(c)
  BY <1>1, <1>2, PlainOK DEF Plain, ViewOK
<1>4. budget' \in [crashes : Nat, reloads : Nat, failures : Nat]
  BY DEF Reload, IInv, TypeOK
<1> QED
  BY <1>3, <1>4, MemoryStep DEF Reload

LEMMA RecoveryWalks ==
    ASSUME IInv, RecoverBatch \/ RecoverSteers
    PROVE  IInv'
<1>1. co \in CoordinatorState /\ ViewOK(co) /\ journal \in Journals
  BY LocalFacts DEF IInv, TypeOK
<1>2. CASE RecoverBatch
  BY <1>1, <1>2, AcknowledgeOK, GotoOK, CoordinatorStep DEF RecoverBatch, Plain
<1>3. CASE RecoverSteers
  <2>1. co.todo \subseteq Steer
    BY <1>1 DEF CoordinatorState
  <2> QED
    BY <1>1, <1>3, <2>1, FinishSteerOK, GotoOK, CoordinatorStep DEF RecoverSteers, Plain
<1> QED
  BY <1>2, <1>3

LEMMA ObserveStep ==
    ASSUME IInv, Observe
    PROVE  IInv'
<1> DEFINE c == [co EXCEPT
                    !.pc = "admit", !.seen = RetainedSteers,
                    !.todo = RetainedSteers \ (co.seen \cup MarkedSteers),
                    !.want = journal.batch # NoBatch \/ Candidates(CurrentView) # {}]
<1>1. co \in CoordinatorState /\ ViewOK(co)
  BY LocalFacts DEF IInv
<1>2. (journal.batch # NoBatch \/ Candidates(CurrentView) # {}) \in BOOLEAN
  OBVIOUS
<1>3. c \in CoordinatorState /\ c.pc = "admit" /\ c.view = co.view
  BY <1>1, <1>2 DEF CoordinatorState, RetainedSteers
<1>4. LocalOK(c)
  BY <1>1, <1>3, PlainOK DEF Plain, ViewOK
<1> QED
  BY <1>4, CoordinatorStep DEF Observe

LEMMA AnimationStep ==
    ASSUME IInv, AnimationTick
    PROVE  IInv'
<1> DEFINE c == [co EXCEPT !.seen = RetainedSteers]
<1>1. co \in CoordinatorState /\ LocalOK(co)
  BY LocalFacts DEF IInv
<1>2. RetainedSteers \in SUBSET Steer
  BY DEF RetainedSteers
<1>3. c \in CoordinatorState
  BY <1>1, <1>2 DEF CoordinatorState
<1>4. c.pc = co.pc /\ c.cur = co.cur /\ c.view = co.view /\ c.unacked = co.unacked
  BY <1>1 DEF CoordinatorState
<1>5. LocalOK(c)
  BY <1>1, <1>3, <1>4 DEF LocalOK
<1> QED
  BY <1>5, CoordinatorStep DEF AnimationTick

LEMMA FlushDoneStep ==
    ASSUME IInv, FlushDone
    PROVE  IInv'
<1> DEFINE done == [co EXCEPT !.recover = FALSE]
           armed == [Idle(done) EXCEPT !.armed = @ \/ (co.want /\ ~host.busy)]
<1>1. co \in CoordinatorState /\ ViewOK(co)
  BY LocalFacts DEF IInv
<1>2. done \in CoordinatorState /\ ViewOK(done)
  BY <1>1 DEF CoordinatorState, ViewOK
<1>3. LocalOK(armed)
  <2>1. Idle(done) \in CoordinatorState /\ ViewOK(Idle(done)) /\ Idle(done).pc = "idle"
    BY <1>2, ReturnOK, LocalFacts DEF Idle, Closed
  <2>2. (Idle(done).armed \/ (co.want /\ ~host.busy)) \in BOOLEAN
    OBVIOUS
  <2>3. armed \in CoordinatorState /\ armed.pc = "idle" /\ armed.view = Idle(done).view
    BY <2>1, <2>2 DEF CoordinatorState
  <2> QED
    BY <2>1, <2>3, PlainOK DEF Plain, ViewOK
<1>4. LocalOK(Idle(done)) /\ LocalOK(Goto(done, "reconcile"))
  BY <1>2, ReturnOK, GotoOK DEF Plain
<1> QED
  BY <1>3, <1>4, CoordinatorStep DEF FlushDone

LEMMA ReconcileStep ==
    ASSUME IInv, ReconcileBatch \/ Recollect
    PROVE  IInv'
<1>1. co \in CoordinatorState /\ ViewOK(co)
  BY LocalFacts DEF IInv
<1>2. LocalOK(StartCollect(co)) /\ LocalOK(Idle(co))
  BY <1>1, StartCollectOK, ReturnOK
<1>3. ASSUME journal.batch.phase = "pending" PROVE LocalOK(Goto(co, "deliver"))
  <2>1. journal.batch # NoBatch
    BY <1>3 DEF NoBatch
  <2> QED
    BY <1>1, <2>1 DEF Goto, LocalOK, CoordinatorState, ViewOK
<1>4. ASSUME \/ journal.batch.phase \in {"queued", "presented"}
             \/ BatchDelivery(journal.batch.id) \in host.session
                /\ journal.batch.phase = "pending"
      PROVE  LocalOK(Accept(co, "recollect"))
  <2>1. journal.batch # NoBatch
    BY <1>4 DEF NoBatch
  <2>2. Accepted(journal.batch) \subseteq taken
    BY <1>4 DEF IInv, BatchOK
  <2> QED
    BY <1>1, <2>1, <2>2, AcceptOK
<1>5. CASE Recollect
  BY <1>2, <1>5, CoordinatorStep DEF Recollect
<1>6. CASE journal.batch = NoBatch /\ Coordinator(StartCollect(co))
  BY <1>2, <1>6, CoordinatorStep
<1>7. CASE /\ journal.batch.phase \in {"queued", "presented"}
           /\ Coordinator(Accept(co, "recollect"))
  BY <1>4, <1>7, CoordinatorStep
<1>8. ASSUME journal.batch.phase = "pending",
             NEW e \in Evidence(BatchDelivery(journal.batch.id)),
             Coordinator(CASE e = "absent" -> Goto(co, "deliver")
                           [] e = "present" -> Accept(co, "recollect")
                           [] e = "unknown" -> Idle(co))
      PROVE  IInv'
  <2>1. e \in {"absent", "present", "unknown"}
        /\ (e = "present" => BatchDelivery(journal.batch.id) \in host.session)
    BY <1>8 DEF Evidence
  <2>2. CASE e = "absent"
    BY <1>3, <1>8, <2>2, CoordinatorStep
  <2>3. CASE e = "present"
    BY <1>4, <1>8, <2>1, <2>3, CoordinatorStep
  <2>4. CASE e = "unknown"
    BY <1>2, <1>8, <2>4, CoordinatorStep
  <2> QED
    BY <2>1, <2>2, <2>3, <2>4
<1> QED
  BY <1>5, <1>6, <1>7, <1>8 DEF ReconcileBatch

LEMMA ReadStep ==
    ASSUME IInv, NEW r \in Runs, ReadResult(r)
    PROVE  IInv'
<1> DEFINE v == [present |-> present[r], generation |-> generation[r],
                 parentGeneration |-> parentGeneration[r],
                 pid |-> process[r] # "unborn",
                 status |-> result[r], handled |-> FALSE]
           c == [co EXCEPT !.pc = "derive", !.cur = r, !.unread = @ \ {r},
                           !.view[r] = v]
<1>1. co \in CoordinatorState /\ ViewOK(co)
  BY LocalFacts DEF IInv
<1>2. v \in [present : BOOLEAN, generation : 0 .. MaxGeneration,
             parentGeneration : Nat, pid : BOOLEAN,
             status : Statuses \cup {"none"}, handled : BOOLEAN]
      /\ (v.present => v.generation # 0)
  BY DEF IInv, TypeOK, RunsTypeOK, StartedOK, Statuses, TerminalStatuses
<1> HIDE DEF v
<1>3. LocalOK(c)
  BY <1>1, <1>2 DEF LocalOK, CoordinatorState, ViewOK
<1> QED
  BY <1>3, CoordinatorStep DEF ReadResult, v

LEMMA DeriveStep ==
    ASSUME IInv, DeriveRead
    PROVE  IInv'
<1> DEFINE r == co.cur
           v == co.view[r]
           live == v.pid /\ process[r] = "live" /\ generation[r] = v.generation
           st == DeriveStatus(v.status, live, cut[r])
           c == [co EXCEPT !.pc = "collect", !.cur = Nothing,
                           !.view[r].status = st, !.view[r].handled = handled[r]]
<1>1. co \in CoordinatorState /\ ViewOK(co)
  BY LocalFacts DEF IInv
<1>2. r \in Runs
  BY DEF DeriveRead, At, IInv, LocalOK
<1>3. st \in Statuses \cup {"none"} /\ handled[r] \in BOOLEAN
  BY <1>1, <1>2 DEF IInv, TypeOK, RunsTypeOK, DeriveStatus, Statuses,
                    TerminalStatuses, CoordinatorState
<1> HIDE DEF st, r
<1>4. c \in CoordinatorState /\ c.pc = "collect"
  <2> DEFINE w == [co.view[r] EXCEPT !.status = st, !.handled = handled[r]]
  <2>1. w \in [present : BOOLEAN, generation : 0 .. MaxGeneration,
               parentGeneration : Nat, pid : BOOLEAN,
               status : Statuses \cup {"none"}, handled : BOOLEAN]
    <3>1. co.view[r] \in [present : BOOLEAN, generation : 0 .. MaxGeneration,
                          parentGeneration : Nat, pid : BOOLEAN,
                          status : Statuses \cup {"none"}, handled : BOOLEAN]
      BY <1>1, <1>2 DEF CoordinatorState
    <3> QED
      BY <1>3, <3>1
  <2>2. c = [co EXCEPT !.pc = "collect", !.cur = Nothing,
                       !.view = [co.view EXCEPT ![r] = w]]
    BY <1>1, <1>2 DEF CoordinatorState
  <2> HIDE DEF w, c
  <2> QED
    BY <1>1, <1>2, <2>1, <2>2 DEF CoordinatorState, Nothing
<1>5. ViewOK(c)
  BY <1>1, <1>2 DEF CoordinatorState, ViewOK
<1>6. LocalOK(c)
  BY <1>4, <1>5, PlainOK DEF Plain, ViewOK
<1> QED
  BY <1>6, CoordinatorStep DEF DeriveRead, r, st

LEMMA ContextNextStep ==
    ASSUME IInv, ContextNext
    PROVE  IInv'
<1>1. co \in CoordinatorState /\ ViewOK(co)
  BY LocalFacts DEF IInv
<1>2. ASSUME NEW s \in Steer, ContextSteer(s) PROVE IInv'
  <2> DEFINE c == [co EXCEPT !.pc = "ctxQueue", !.cur = s, !.todo = @ \ {s}]
  <2>1. LocalOK(c)
    BY <1>1 DEF LocalOK, CoordinatorState, ViewOK
  <2> QED
    BY <1>2, <2>1, CoordinatorStep DEF ContextSteer
<1>3. CASE Coordinator(Idle(co))
  BY <1>1, <1>3, ReturnOK, CoordinatorStep
<1>4. CASE /\ journal.batch # NoBatch
           /\ BatchDelivery(journal.batch.id) \in host.session
           /\ Coordinator(Accept(co, "idle"))
  <2>1. Accepted(journal.batch) \subseteq taken
    BY <1>4 DEF IInv, BatchOK
  <2> QED
    BY <1>1, <1>4, <2>1, AcceptOK, CoordinatorStep
<1>5. CASE Coordinator(IF journal.batch # NoBatch
                          /\ BatchDelivery(journal.batch.id) \in host.session
                       THEN Accept(co, "idle") ELSE Idle(co))
  BY <1>3, <1>4, <1>5
<1>6. co.todo \cap SessionSteers \subseteq Steer
  BY DEF SessionSteers
<1> QED
  BY <1>2, <1>5, <1>6 DEF ContextNext

LEMMA HoldStep ==
    ASSUME IInv, HoldBatch
    PROVE  IInv'
BY LocalFacts, ReturnOK, CoordinatorStep DEF HoldBatch, IInv

-----------------------------------------------------------------------------
(* Steps that write the journal.                                           *)

LEMMA RememberType ==
    ASSUME NEW q \in Seq(Deliveries), NEW d \in Deliveries
    PROVE  Remember(q, d) \in Seq(Deliveries)
<1> DEFINE w == Without(q, d)
           a == Append(w, d)
<1>1. w \in Seq(Deliveries)
  <2>1. CASE \E i \in DOMAIN q : q[i] = d
    <3> DEFINE at == CHOOSE i \in DOMAIN q : q[i] = d
               f == [k \in 1 .. Len(q) - 1 |-> IF k < at THEN q[k] ELSE q[k + 1]]
    <3>1. at \in 1 .. Len(q)
      BY <2>1
    <3>2. w = f
      BY <2>1 DEF Without
    <3> HIDE DEF at
    <3>3. f \in Seq(Deliveries)
      BY <3>1
    <3> QED
      BY <3>2, <3>3
  <2> QED
    BY <2>1 DEF Without
<1> HIDE DEF w
<1>2. a \in Seq(Deliveries)
  BY <1>1
<1> HIDE DEF a
<1>3. NewestReceipts(a) \in Seq(Deliveries)
  BY <1>2, DeliveryAssumption DEF NewestReceipts
<1> QED
  BY <1>3 DEF Remember, a, w

LEMMA SteerCallType ==
    ASSUME NEW j \in Journals, NEW s \in Steer,
           NEW k \in {AdmitSteer(j, s), QueueSteer(j, s), ResetSteer(j, s),
                      PresentSteer(j, s), FinalizeSteer(j, s)}
    PROVE  k \in Journals /\ k.batch = j.batch
<1>1. SteerDelivery(s) \in Deliveries
  BY DEF SteerDelivery, Deliveries
<1>2. Remember(j.receipts, SteerDelivery(s)) \in Seq(Deliveries)
  BY <1>1, RememberType DEF Journals
<1>3. ASSUME NEW ph \in Phases PROVE [j EXCEPT !.steers[s] = ph] \in Journals
  BY DEF Journals, Phases
<1>4. CASE k \in {AdmitSteer(j, s), QueueSteer(j, s), ResetSteer(j, s), PresentSteer(j, s)}
  <2>1. k = j \/ \E ph \in Phases : k = [j EXCEPT !.steers[s] = ph]
    BY <1>4 DEF AdmitSteer, QueueSteer, ResetSteer, PresentSteer, Phases
  <2> QED
    BY <1>3, <2>1 DEF Journals
<1>5. CASE k = FinalizeSteer(j, s)
  BY <1>2, <1>5 DEF FinalizeSteer, Journals
<1> QED
  BY <1>4, <1>5

LEMMA SteerWrite ==
    ASSUME IInv, NEW k \in Journals, k.batch = journal.batch,
           NEW c, LocalOK(c), journal' = k, co' = c,
           UNCHANGED <<runVars, lastId, host, taken, acked, resent, budget>>,
           shown' \subseteq Steer
    PROVE  IInv'
<1> USE DEF IInv, runVars
<1>1. TypeOK'
  BY DEF TypeOK, RunsTypeOK, HostState, Messages, LocalOK
<1>2. LocalOK(co)'
  BY DEF LocalOK, Accepted, CoordinatorState
<1>3. StartedOK' /\ BatchOK' /\ AckedWasAccepted'
  BY DEF StartedOK, BatchOK, AckedWasAccepted, Accepted
<1> QED
  BY <1>1, <1>2, <1>3

LEMMA SteerWrites ==
    ASSUME IInv, NEW s \in Steer, NEW c, LocalOK(c),
           NEW k \in {AdmitSteer(journal, s), QueueSteer(journal, s),
                      ResetSteer(journal, s), FinalizeSteer(journal, s)},
           Writes(k, c)
    PROVE  IInv'
<1>1. k \in Journals /\ k.batch = journal.batch
  <2>1. journal \in Journals
    BY DEF IInv, TypeOK
  <2>2. k \in {AdmitSteer(journal, s), QueueSteer(journal, s), ResetSteer(journal, s),
               PresentSteer(journal, s), FinalizeSteer(journal, s)}
    OBVIOUS
  <2> QED
    BY <2>1, <2>2, SteerCallType
<1> QED
  BY <1>1, SteerWrite DEF Writes, ghosts, IInv, TypeOK

LEMMA AdmitSteersStep ==
    ASSUME IInv, AdmitSteers
    PROVE  IInv'
<1>1. co \in CoordinatorState /\ ViewOK(co) /\ co.pc = "admit"
  BY LocalFacts DEF IInv, AdmitSteers, At
<1>2. ASSUME NEW s \in co.todo, AdmitOne(s) PROVE IInv'
  <2> DEFINE rest == [co EXCEPT !.todo = @ \ {s}]
             again == [rest EXCEPT !.seen = @ \ {s}]
  <2>1. s \in Steer
    BY <1>1 DEF CoordinatorState
  <2>2. /\ rest \in CoordinatorState /\ rest.pc = "admit" /\ rest.view = co.view
        /\ again \in CoordinatorState /\ again.pc = "admit" /\ again.view = co.view
    BY <1>1 DEF CoordinatorState
  <2> HIDE DEF rest, again
  <2>3. LocalOK(rest) /\ LocalOK(again)
    BY <1>1, <2>2, PlainOK DEF Plain, ViewOK
  <2>4. CASE Writes(AdmitSteer(journal, s), rest)
    BY <2>1, <2>3, <2>4, SteerWrites
  <2>5. CASE Coordinator(rest) \/ Coordinator(again)
    BY <2>3, <2>5, CoordinatorStep
  <2> QED
    BY <1>2, <2>4, <2>5 DEF AdmitOne, rest, again
<1>3. CASE Coordinator([co EXCEPT !.pc = "flush", !.todo = ActiveSteers(journal)])
  <2> DEFINE c == [co EXCEPT !.pc = "flush", !.todo = ActiveSteers(journal)]
  <2>1. c \in CoordinatorState /\ c.pc = "flush" /\ c.view = co.view
    BY <1>1 DEF CoordinatorState, ActiveSteers
  <2>2. LocalOK(c)
    BY <1>1, <2>1, PlainOK DEF Plain, ViewOK
  <2> QED
    BY <1>3, <2>2, CoordinatorStep
<1> QED
  BY <1>2, <1>3 DEF AdmitSteers

LEMMA FlushOneStep ==
    ASSUME IInv, At("flush"), NEW s \in co.todo, FlushOne(s)
    PROVE  IInv'
<1> DEFINE rest == [co EXCEPT !.todo = @ \ {s}]
           toSend == [rest EXCEPT !.pc = "send", !.cur = s]
<1>1. co \in CoordinatorState /\ ViewOK(co) /\ co.pc = "flush"
  BY LocalFacts DEF IInv, At
<1>2. s \in Steer
  BY <1>1 DEF CoordinatorState
<1>3. LocalOK(rest)
  <2>1. rest \in CoordinatorState /\ rest.pc = "flush" /\ rest.view = co.view
    BY <1>1 DEF CoordinatorState
  <2> QED
    BY <1>1, <2>1, PlainOK DEF Plain, ViewOK
<1>4. LocalOK(toSend)
  BY <1>1, <1>2 DEF LocalOK, CoordinatorState, ViewOK
<1>5. LocalOK(FinishSteer(co, s, "flush"))
  BY <1>1, <1>2, FinishSteerOK
<1> HIDE DEF rest, toSend
<1>6. CASE Coordinator(FinishSteer(co, s, "flush"))
  BY <1>5, <1>6, CoordinatorStep
<1>7. CASE Coordinator(rest) \/ Coordinator(toSend)
  BY <1>3, <1>4, <1>7, CoordinatorStep
<1>8. CASE Writes(ResetSteer(journal, s), toSend)
  BY <1>2, <1>4, <1>8, SteerWrites
<1> QED
  BY <1>6, <1>7, <1>8 DEF FlushOne, rest, toSend

LEMMA SteerLocals ==
    ASSUME IInv
    PROVE  /\ co \in CoordinatorState /\ ViewOK(co)
           /\ co.pc \in {"mark", "finish", "send", "sent", "ctxQueue", "ctxPresent"}
                  => co.cur \in Steer
BY LocalFacts DEF IInv, LocalOK

LEMMA SteerSteps ==
    ASSUME IInv, FinalizeSteerStep \/ SteerSent \/ ContextQueue
    PROVE  IInv'
<1>1. CASE FinalizeSteerStep
  <2>1. co.cur \in Steer /\ co.back \in Plain
    BY <1>1, SteerLocals DEF FinalizeSteerStep, At, CoordinatorState, Plain
  <2> QED
    BY <1>1, <2>1, SteerLocals, GotoOK, SteerWrites DEF FinalizeSteerStep
<1>2. CASE SteerSent
  <2>1. co.cur \in Steer
    BY <1>2, SteerLocals DEF SteerSent, At
  <2> QED
    BY <1>2, <2>1, SteerLocals, GotoOK, SteerWrites DEF SteerSent, Plain
<1>3. CASE ContextQueue
  <2>1. co.cur \in Steer
    BY <1>3, SteerLocals DEF ContextQueue, At
  <2>2. LocalOK(Goto(co, "ctxPresent"))
    BY <2>1, SteerLocals DEF LocalOK, Goto, CoordinatorState, ViewOK
  <2> QED
    BY <1>3, <2>1, <2>2, SteerWrites DEF ContextQueue
<1> QED
  BY <1>1, <1>2, <1>3

LEMMA ContextPresentStep ==
    ASSUME IInv, ContextPresent
    PROVE  IInv'
<1> DEFINE c == [co EXCEPT !.pc = "mark", !.back = "context"]
<1>1. co.cur \in Steer
  BY SteerLocals DEF ContextPresent, At
<1>2. LocalOK(c)
  BY <1>1, SteerLocals DEF LocalOK, CoordinatorState, ViewOK
<1>3. /\ PresentSteer(journal, co.cur) \in Journals
      /\ PresentSteer(journal, co.cur).batch = journal.batch
  BY <1>1, SteerCallType DEF IInv, TypeOK
<1>4. shown' \subseteq Steer
  BY <1>1 DEF ContextPresent, IInv, TypeOK
<1> QED
  BY <1>2, <1>3, <1>4, SteerWrite DEF ContextPresent

-----------------------------------------------------------------------------
(* Steps about the completion batch.                                       *)

\* The batch is finalized, or it stays the batch that Pi accepted.
LEMMA BatchWrite ==
    ASSUME IInv, NEW k \in Journals, NEW c \in CoordinatorState, ViewOK(c),
           Writes(k, c),
           \/ k.batch = NoBatch
           \/ /\ journal.batch # NoBatch
              /\ k.batch = [journal.batch EXCEPT !.phase = k.batch.phase]
              /\ k.batch.phase \in {"queued", "presented"}
              /\ Accepted(journal.batch) \subseteq taken,
           \/ c.pc \in Plain
           \/ c.pc = "presentBatch" /\ k.batch # NoBatch
           \/ /\ c.pc = "ack" /\ k.batch.phase = "presented"
              /\ c.unacked = k.batch.members
    PROVE  IInv'
<1> USE DEF IInv, runVars, Writes, ghosts
<1>1. TypeOK'
  BY DEF TypeOK, RunsTypeOK, HostState, Messages
<1>2. journal.batch \in Batch /\ k.batch \in Batch
  BY DEF TypeOK, Journals
<1>3. Accepted(NoBatch) = {}
  BY DEF Accepted, NoBatch
<1>4. k.batch # NoBatch => /\ k.batch.id = journal.batch.id
                           /\ k.batch.phase \in {"queued", "presented"}
                           /\ Accepted(k.batch) \subseteq taken
  BY <1>2 DEF Batch, Accepted
<1>5. LocalOK(co)'
  BY <1>4 DEF LocalOK, ViewOK, Plain, Accepted, NoBatch
<1>6. BatchOK'
  BY <1>3, <1>4 DEF BatchOK, Accepted, NoBatch
<1>7. StartedOK' /\ AckedWasAccepted'
  BY DEF StartedOK, AckedWasAccepted
<1> QED
  BY <1>1, <1>5, <1>6, <1>7

LEMMA MarkBatchSteps ==
    ASSUME IInv, MarkBatchQueued \/ MarkBatchPresented
    PROVE  IInv'
<1>1. /\ co \in CoordinatorState /\ ViewOK(co) /\ journal \in Journals
      /\ journal.batch \in Batch
  BY LocalFacts DEF IInv, TypeOK, Journals
<1>2. /\ journal.batch # NoBatch /\ Accepted(journal.batch) \subseteq taken
      /\ journal.batch.phase \in Phases
  BY <1>1 DEF MarkBatchQueued, MarkBatchPresented, At, IInv, LocalOK, BatchOK, Batch
<1>3. CASE MarkBatchQueued
  <2> DEFINE k == QueueBatch(journal, journal.batch.id)
             c == Goto(co, "presentBatch")
  <2>1. /\ k \in Journals
        /\ k.batch = [journal.batch EXCEPT !.phase = k.batch.phase]
        /\ k.batch.phase \in {"queued", "presented"}
    BY <1>1, <1>2 DEF QueueBatch, IsActive, Journals, Batch, Phases
  <2>2. c \in CoordinatorState /\ ViewOK(c) /\ c.pc = "presentBatch"
    BY <1>1 DEF Goto, CoordinatorState, ViewOK
  <2>3. k.batch # NoBatch
    BY <2>1 DEF NoBatch
  <2> QED
    BY <1>2, <1>3, <2>1, <2>2, <2>3, BatchWrite DEF MarkBatchQueued
<1>4. CASE MarkBatchPresented
  <2> DEFINE k == PresentBatch(journal, journal.batch.id)
             c == Acknowledge(co, co.back)
  <2>1. journal.batch.phase \in {"queued", "presented"}
    BY <1>4 DEF MarkBatchPresented, At, IInv, LocalOK
  <2>2. /\ k \in Journals
        /\ k.batch = [journal.batch EXCEPT !.phase = k.batch.phase]
        /\ k.batch.phase = "presented"
        /\ k.batch.members = journal.batch.members
    BY <1>1, <1>2, <2>1 DEF PresentBatch, IsActive, Journals, Batch, Phases
  <2>3. /\ c \in CoordinatorState /\ ViewOK(c) /\ c.pc = "ack"
        /\ c.unacked = journal.batch.members
    BY <1>1 DEF Acknowledge, CoordinatorState, ViewOK, Batch
  <2> QED
    BY <1>2, <1>4, <2>2, <2>3, BatchWrite DEF MarkBatchPresented
<1> QED
  BY <1>3, <1>4

LEMMA AckStep ==
    ASSUME IInv, AckMembers
    PROVE  IInv'
<1>1. /\ co \in CoordinatorState /\ ViewOK(co) /\ journal \in Journals
      /\ journal.batch \in Batch
      /\ journal.batch.phase = "presented" /\ co.unacked \subseteq journal.batch.members
  BY LocalFacts DEF IInv, TypeOK, Journals, AckMembers, At, LocalOK
<1>2. journal.batch # NoBatch
  BY <1>1 DEF NoBatch
<1>3. ASSUME NEW m \in co.unacked, AckOne(m) PROVE IInv'
  <2>1. m \in Member /\ m.run \in Runs
    BY <1>1 DEF CoordinatorState, Member
  <2>2. journal.batch.id \in 1 .. lastId /\ <<journal.batch.id, m>> \in taken
    BY <1>1, <1>2 DEF IInv, BatchOK, Accepted
  <2>3. CASE Fails(Abort(co))
    BY <1>1, <2>3, ReturnOK, FailsStep
  <2>4. CASE ~Fails(Abort(co))
    <3> DEFINE c == [co EXCEPT !.unacked = @ \ {m}]
               same == SameRecord(m)
    <3>1. /\ handled' = [handled EXCEPT ![m.run] = @ \/ same]
          /\ acked' = acked \/ acked' = acked \cup {m}
          /\ co' = c
          /\ UNCHANGED <<generation, present, process, result, cut, stopping,
                         parentGeneration, trace, published,
                         journal, lastId, host, taken, resent, shown, budget>>
      BY <1>3, <2>4 DEF AckOne
    <3>2. c \in CoordinatorState
      BY <1>1 DEF CoordinatorState
    <3>3. (handled[m.run] \/ same) \in BOOLEAN
      OBVIOUS
    <3> HIDE DEF same
    <3>4. handled' \in [Runs -> BOOLEAN]
      BY <2>1, <3>1, <3>3 DEF IInv, TypeOK, RunsTypeOK
    <3>5. acked' \subseteq Member
      BY <2>1, <3>1 DEF IInv, TypeOK
    <3>6. TypeOK'
      BY <3>1, <3>2, <3>4, <3>5 DEF IInv, TypeOK, RunsTypeOK, HostState, Messages
    <3>7. LocalOK(co)'
      BY <1>1, <3>1, <3>2 DEF IInv, LocalOK, Accepted, CoordinatorState
    <3>8. StartedOK' /\ BatchOK'
      BY <3>1 DEF IInv, StartedOK, BatchOK, Accepted
    <3>9. AckedWasAccepted'
      BY <2>2, <3>1 DEF IInv, AckedWasAccepted
    <3> QED
      BY <3>6, <3>7, <3>8, <3>9 DEF IInv
  <2> QED
    BY <2>3, <2>4
<1>4. CASE Writes(FinalizeBatch(journal, journal.batch.id), Goto(co, co.back))
  <2> DEFINE k == FinalizeBatch(journal, journal.batch.id)
  <2>1. BatchDelivery(journal.batch.id) \in Deliveries
    BY <1>1 DEF BatchDelivery, Deliveries, Batch
  <2>2. Remember(journal.receipts, BatchDelivery(journal.batch.id)) \in Seq(Deliveries)
    BY <1>1, <2>1, RememberType DEF Journals
  <2>3. NoBatch \in Batch
    BY DEF NoBatch, Batch
  <2>4. k \in Journals /\ k.batch = NoBatch
    BY <1>1, <1>2, <2>2, <2>3 DEF FinalizeBatch, IsActive, Journals
  <2>5. co.back \in Plain
    BY <1>1 DEF CoordinatorState, Plain
  <2>6. /\ Goto(co, co.back) \in CoordinatorState /\ ViewOK(Goto(co, co.back))
        /\ Goto(co, co.back).pc \in Plain
    <3>1. Goto(co, co.back) \in CoordinatorState /\ ViewOK(Goto(co, co.back))
      BY <1>1, <2>5, GotoOK, LocalFacts
    <3> QED
      BY <1>1, <2>5, <3>1 DEF Goto, Idle, Closed, CoordinatorState, Plain
  <2> QED
    BY <1>4, <2>4, <2>6, BatchWrite
<1> QED
  BY <1>3, <1>4 DEF AckMembers

LEMMA CandidateType ==
    ASSUME NEW view, \A r \in Runs : /\ view[r].generation \in 0 .. MaxGeneration
                                     /\ view[r].present => view[r].generation # 0
    PROVE  Candidates(view) \subseteq Member
BY RunsAssumption DEF Candidates, Deliverable, Reportable, Member

LEMMA AdmitCompletionsStep ==
    ASSUME IInv, AdmitCompletions
    PROVE  IInv'
<1> DEFINE C == Candidates(co.view)
           c == [Goto(co, "deliver") EXCEPT !.view = UnreadView]
<1>1. /\ co \in CoordinatorState /\ ViewOK(co) /\ journal \in Journals
      /\ lastId \in Nat /\ host \in HostState
  BY LocalFacts DEF IInv, TypeOK
<1>2. CASE Coordinator(Idle(co))
  BY <1>1, <1>2, ReturnOK, CoordinatorStep
<1>3. ASSUME NEW M \in Slices(C),
             journal' = AdmitBatch(journal, lastId + 1, M),
             lastId' = lastId + 1, co' = c,
             UNCHANGED <<runVars, host, ghosts, budget>>
      PROVE  IInv'
  <2>1. M \subseteq Member
    <3>1. C \subseteq Member
      BY <1>1, CandidateType DEF CoordinatorState, ViewOK
    <3> QED
      BY <3>1 DEF Slices
  <2>2. /\ journal' \in Journals
        /\ journal'.batch = [id |-> lastId + 1, members |-> M, phase |-> "pending"]
    BY <1>1, <1>3, <2>1 DEF AdmitBatch, Journals, Batch, Phases
  <2>3. c \in CoordinatorState /\ c.pc = "deliver" /\ c.view = UnreadView
    BY <1>1, UnreadViewOK DEF Goto, CoordinatorState
  <2>4. Messages \subseteq Messages'
    BY <1>1, <1>3 DEF Messages
  <2>5. /\ host.queue \subseteq Messages /\ host.session \subseteq Messages
        /\ host.proposal \in Messages \cup {Nothing}
    BY <1>1 DEF HostState
  <2>6. TypeOK'
    <3>1. host' \in [up : BOOLEAN, busy : BOOLEAN, queue : SUBSET Messages',
                     session : SUBSET Messages', proposal : Messages' \cup {Nothing}]
      BY <1>1, <1>3, <2>4 DEF HostState
    <3>2. taken' \subseteq (1 .. lastId') \X Member /\ resent' \subseteq Messages'
      BY <1>1, <1>3, <2>4 DEF IInv, TypeOK, ghosts
    <3> QED
      BY <1>1, <1>3, <2>2, <2>3, <3>1, <3>2
         DEF IInv, TypeOK, RunsTypeOK, runVars, ghosts, HostState
  <2>7. LocalOK(co)'
    BY <1>3, <2>2, <2>3, UnreadViewOK DEF LocalOK, NoBatch
  <2>8. BatchDelivery(lastId + 1) \notin host.queue \cup host.session
    BY <1>1, <2>5 DEF Messages, BatchDelivery, SteerDelivery
  <2>9. BatchOK'
    BY <1>1, <1>3, <2>2, <2>8 DEF BatchOK
  <2>10. StartedOK' /\ AckedWasAccepted'
    BY <1>1, <1>3 DEF IInv, StartedOK, AckedWasAccepted, runVars, ghosts
  <2> QED
    BY <2>6, <2>7, <2>9, <2>10 DEF IInv
<1> QED
  BY <1>2, <1>3 DEF AdmitCompletions

LEMMA CollectStep ==
    ASSUME IInv, CollectCompletions
    PROVE  IInv'
<1>1. co.unread \subseteq Runs
  BY LocalFacts DEF IInv, CoordinatorState
<1> QED
  BY <1>1, ReadStep, AdmitCompletionsStep DEF CollectCompletions

LEMMA FlushStep ==
    ASSUME IInv, FlushSteers
    PROVE  IInv'
BY FlushOneStep, FlushDoneStep DEF FlushSteers

\* Where a handler hands the batch over, there is one to hand over.
LEMMA DeliverFacts ==
    ASSUME IInv, At("deliver")
    PROVE  /\ co \in CoordinatorState /\ ViewOK(co)
           /\ journal.batch \in Batch /\ journal.batch # NoBatch
           /\ journal.batch.id \in 1 .. lastId
           /\ BatchDelivery(journal.batch.id) \in Messages
           /\ Accepted(journal.batch) \subseteq (1 .. lastId) \X Member
<1>1. /\ co \in CoordinatorState /\ ViewOK(co) /\ journal.batch \in Batch
      /\ journal.batch # NoBatch /\ journal.batch.id \in 1 .. lastId
  BY LocalFacts DEF IInv, At, TypeOK, Journals, LocalOK, BatchOK
<1> QED
  BY <1>1 DEF Messages, Accepted, Batch

LEMMA ResendType ==
    ASSUME resent \subseteq Messages, NEW d \in Messages
    PROVE  Resend(d) \subseteq Messages
BY DEF Resend

\* Frame of the host's steps: what it commits or queues it has accepted.
LEMMA HostStep ==
    ASSUME IInv, NEW c, c \in CoordinatorState, co' = c, host' \in HostState,
           UNCHANGED <<runVars, journal, lastId, acked, shown>>,
           taken \subseteq taken', taken' \subseteq (1 .. lastId) \X Member,
           resent' \subseteq Messages,
           budget' \in [crashes : Nat, reloads : Nat, failures : Nat],
           LocalOK(c) \/ (LocalOK(co) /\ c.pc = "queueBatch" /\ c.view = co.view
                          /\ journal.batch # NoBatch
                          /\ Accepted(journal.batch) \subseteq taken'),
           BatchDelivery(journal.batch.id) \in host'.queue \cup host'.session
               => \/ BatchDelivery(journal.batch.id) \in host.queue \cup host.session
                  \/ Accepted(journal.batch) \subseteq taken'
    PROVE  IInv'
<1> USE DEF IInv, runVars
<1>1. TypeOK'
  BY DEF TypeOK, RunsTypeOK, HostState, Messages
<1>2. LocalOK(co)'
  BY DEF LocalOK, Accepted
<1>3. BatchOK'
  BY DEF BatchOK, Accepted
<1>4. StartedOK' /\ AckedWasAccepted'
  BY DEF StartedOK, AckedWasAccepted
<1> QED
  BY <1>1, <1>2, <1>3, <1>4

LEMMA SendBatchStep ==
    ASSUME IInv, SendBatch
    PROVE  IInv'
<1> DEFINE d == BatchDelivery(journal.batch.id)
           c == Accept(co, "idle")
<1>1. /\ co \in CoordinatorState /\ ViewOK(co)
      /\ journal.batch # NoBatch /\ d \in Messages
      /\ Accepted(journal.batch) \subseteq (1 .. lastId) \X Member
  BY DeliverFacts DEF SendBatch
<1>2. CASE Fails(Abort(co))
  BY <1>1, <1>2, ReturnOK, FailsStep
<1>3. CASE ~Fails(Abort(co))
  <2>1. /\ host' = [host EXCEPT !.queue = @ \cup {d}]
        /\ taken' = taken \cup Accepted(journal.batch)
        /\ resent' = Resend(d)
        /\ co' = c
        /\ UNCHANGED <<runVars, journal, lastId, acked, shown, budget>>
    BY <1>3 DEF SendBatch
  <2>2. /\ c \in CoordinatorState /\ c.pc = "queueBatch" /\ c.view = co.view
    BY <1>1 DEF Accept, CoordinatorState
  <2>3. host' \in HostState
    BY <1>1, <2>1 DEF IInv, TypeOK, HostState
  <2>4. taken' \subseteq (1 .. lastId) \X Member /\ resent' \subseteq Messages
    BY <1>1, <2>1, ResendType DEF IInv, TypeOK
  <2> QED
    BY <1>1, <2>1, <2>2, <2>3, <2>4, HostStep DEF IInv, TypeOK
<1> QED
  BY <1>2, <1>3

LEMMA ProposeBatchStep ==
    ASSUME IInv, ProposeBatch
    PROVE  IInv'
<1> DEFINE d == BatchDelivery(journal.batch.id)
<1>1. co \in CoordinatorState /\ d \in Messages
  BY DeliverFacts DEF ProposeBatch
<1>2. LocalOK(Idle(co)) /\ Idle(co) \in CoordinatorState
  BY <1>1, ReturnOK
<1>3. host' \in HostState /\ host'.queue = host.queue /\ host'.session = host.session
  BY <1>1 DEF ProposeBatch, IInv, TypeOK, HostState
<1>4. resent' \subseteq Messages
  BY <1>1, ResendType DEF ProposeBatch, IInv, TypeOK
<1> QED
  BY <1>2, <1>3, <1>4, HostStep DEF ProposeBatch, IInv, TypeOK

-----------------------------------------------------------------------------
(* The other steps of the host.                                            *)

LEMMA SendSteerStep ==
    ASSUME IInv, SendSteer
    PROVE  IInv'
<1>1. co \in CoordinatorState /\ ViewOK(co) /\ co.cur \in Steer
  BY SteerLocals DEF SendSteer, At
<1>2. CASE Fails(Goto(co, "flush"))
  BY <1>1, <1>2, GotoOK, FailsStep DEF Plain
<1>3. CASE ~Fails(Goto(co, "flush"))
  <2>1. /\ host' = [host EXCEPT !.queue = @ \cup {SteerDelivery(co.cur)}]
        /\ co' = Goto(co, "sent")
        /\ UNCHANGED <<runVars, journal, lastId, ghosts, budget>>
    BY <1>3 DEF SendSteer
  <2>2. LocalOK(Goto(co, "sent")) /\ Goto(co, "sent") \in CoordinatorState
    BY <1>1 DEF Goto, LocalOK, CoordinatorState, ViewOK
  <2>3. SteerDelivery(co.cur) \in Messages
    BY <1>1 DEF Messages
  <2>4. host' \in HostState /\ host'.queue = host.queue \cup {SteerDelivery(co.cur)}
        /\ host'.session = host.session
    BY <2>1, <2>3 DEF IInv, TypeOK, HostState
  <2>5. BatchDelivery(journal.batch.id) # SteerDelivery(co.cur)
    BY DEF BatchDelivery, SteerDelivery
  <2> QED
    BY <2>1, <2>2, <2>4, <2>5, HostStep DEF IInv, TypeOK, ghosts
<1> QED
  BY <1>2, <1>3

LEMMA LaunchStep ==
    ASSUME IInv, Launch
    PROVE  IInv'
<1>1. LocalOK(Started(co)) /\ Started(co) \in CoordinatorState
  BY LocalFacts, StartedMemoryOK DEF IInv
<1>2. host' \in HostState /\ host'.queue = host.queue /\ host'.session = host.session
  BY DEF Launch, IInv, TypeOK, HostState
<1> QED
  BY <1>1, <1>2, HostStep DEF Launch, IInv, TypeOK, ghosts

LEMMA QuietHostStep ==
    ASSUME IInv, HostWork \/ HostDropProposal \/ HostCommitMessage
    PROVE  IInv'
<1>1. co' = co /\ UNCHANGED <<runVars, journal, lastId, ghosts, budget>>
  BY DEF HostWork, HostDropProposal, HostCommitMessage, Hosts
<1>2. host' \in HostState /\ host'.queue \cup host'.session \subseteq host.queue \cup host.session
  <2>1. CASE HostWork
    BY <2>1 DEF HostWork, Hosts, IInv, TypeOK, HostState
  <2>2. CASE HostDropProposal
    BY <2>2 DEF HostDropProposal, Hosts, IInv, TypeOK, HostState, Nothing
  <2>3. ASSUME NEW d \in host.queue,
               Hosts([host EXCEPT !.queue = @ \ {d}, !.session = @ \cup {d},
                                  !.busy = TRUE], co)
        PROVE  host' \in HostState
               /\ host'.queue \cup host'.session \subseteq host.queue \cup host.session
    BY <2>3 DEF Hosts, IInv, TypeOK, HostState
  <2> QED
    BY <2>1, <2>2, <2>3 DEF HostCommitMessage
<1> QED
  BY <1>1, <1>2, HostStep, LocalFacts DEF IInv, TypeOK, ghosts

LEMMA CommitProposalStep ==
    ASSUME IInv, HostCommitProposal
    PROVE  IInv'
<1>1. host.proposal \in Messages
  BY DEF HostCommitProposal, IInv, TypeOK, HostState
<1>2. host' \in HostState
  BY <1>1 DEF HostCommitProposal, IInv, TypeOK, HostState
<1>3. Accepted(journal.batch) \subseteq (1 .. lastId) \X Member
  <2>1. CASE journal.batch = NoBatch
    BY <2>1 DEF Accepted, NoBatch
  <2>2. CASE journal.batch # NoBatch
    BY <2>2 DEF Accepted, IInv, TypeOK, BatchOK, Journals, Batch
  <2> QED
    BY <2>1, <2>2
<1>4. taken' \subseteq (1 .. lastId) \X Member
  BY <1>3 DEF HostCommitProposal, IInv, TypeOK
<1> QED
  BY <1>2, <1>4, HostStep, LocalFacts DEF HostCommitProposal, IInv, TypeOK

LEMMA SettleStep ==
    ASSUME IInv, HostSettle
    PROVE  IInv'
<1>1. PICK again \in BOOLEAN : Settle(again)
  BY DEF HostSettle
<1> DEFINE c == IF co.open THEN Enter(co, "settled", "flush") ELSE co
<1>2. co' = c /\ UNCHANGED <<runVars, journal, lastId, ghosts, budget>>
      /\ host' = [host EXCEPT !.busy = again]
  BY <1>1 DEF Settle, Hosts
<1>3. LocalOK(c) /\ c \in CoordinatorState
  BY LocalFacts, EnterOK DEF IInv, Handlers, Plain
<1>4. host' \in HostState /\ host'.queue = host.queue /\ host'.session = host.session
  BY <1>2 DEF IInv, TypeOK, HostState
<1> QED
  BY <1>2, <1>3, <1>4, HostStep DEF IInv, TypeOK, ghosts

LEMMA CrashStep ==
    ASSUME IInv, HostCrash
    PROVE  IInv'
<1>1. LocalOK(Closed) /\ Closed \in CoordinatorState
  BY ClosedOK
<1>2. host' \in HostState /\ host'.queue = {} /\ host'.session = host.session
  BY DEF HostCrash, HostInit, Nothing, IInv, TypeOK, HostState
<1>3. stopping' \in [Runs -> {"none", "killed", "cancelled"}]
  BY DEF HostCrash, IInv, TypeOK, RunsTypeOK
<1>4. budget' \in [crashes : Nat, reloads : Nat, failures : Nat]
  BY DEF HostCrash, IInv, TypeOK
<1>5. TypeOK'
  BY <1>1, <1>2, <1>3, <1>4 DEF HostCrash, IInv, TypeOK, RunsTypeOK, HostState, Messages, ghosts
<1>6. LocalOK(co)'
  BY <1>1 DEF HostCrash, LocalOK, Closed, UnreadView, Unread
<1>7. StartedOK' /\ BatchOK' /\ AckedWasAccepted'
  BY <1>2 DEF HostCrash, IInv, StartedOK, BatchOK, AckedWasAccepted, Accepted, ghosts
<1> QED
  BY <1>5, <1>6, <1>7 DEF IInv

-----------------------------------------------------------------------------
(* Runs.                                                                   *)

LEMMA AppendTraceType ==
    ASSUME RunsTypeOK, NEW r \in Runs, NEW item \in TraceItem
    PROVE  AppendTrace(r, item) \in [Runs -> Seq(TraceItem)]
<1> DEFINE a == Append(trace[r], item)
<1>1. a \in Seq(TraceItem)
  BY DEF RunsTypeOK
<1> HIDE DEF a
<1>2. Newest(a) \in Seq(TraceItem)
  BY <1>1, RunsAssumption DEF Newest
<1> QED
  BY <1>2 DEF AppendTrace, RunsTypeOK, a

LEMMA MarkSteerStep ==
    ASSUME IInv, MarkSteer
    PROVE  IInv'
<1>1. co \in CoordinatorState /\ ViewOK(co) /\ co.cur \in Steer
  BY SteerLocals DEF MarkSteer, At
<1>2. CASE Fails(Abort(co))
  BY <1>1, <1>2, ReturnOK, FailsStep
<1>3. CASE ~Fails(Abort(co))
  <2> DEFINE s == co.cur
             item == [kind |-> "presented", event |-> s.event]
  <2>1. /\ trace' \in {trace, AppendTrace(s.run, item)}
        /\ co' = Goto(co, "finish")
        /\ UNCHANGED <<generation, present, process, result, cut, handled,
                       stopping, parentGeneration, published,
                       journal, lastId, host, ghosts, budget>>
    BY <1>3 DEF MarkSteer
  <2>2. s.run \in Runs /\ item \in TraceItem
    BY <1>1 DEF Steer, TraceItem
  <2> HIDE DEF item
  <2>3. trace' \in [Runs -> Seq(TraceItem)]
    BY <2>1, <2>2, AppendTraceType DEF IInv, TypeOK, RunsTypeOK
  <2>4. LocalOK(Goto(co, "finish")) /\ Goto(co, "finish") \in CoordinatorState
    BY <1>1 DEF Goto, LocalOK, CoordinatorState, ViewOK
  <2>5. TypeOK'
    BY <2>1, <2>3, <2>4 DEF IInv, TypeOK, RunsTypeOK, HostState, Messages, ghosts
  <2>6. LocalOK(co)'
    BY <2>1, <2>4 DEF LocalOK, Accepted, ghosts
  <2>7. StartedOK' /\ BatchOK' /\ AckedWasAccepted'
    BY <2>1 DEF IInv, StartedOK, BatchOK, AckedWasAccepted, Accepted, ghosts
  <2> QED
    BY <2>5, <2>6, <2>7 DEF IInv
<1> QED
  BY <1>2, <1>3

LEMMA RunsStep ==
    ASSUME IInv, RunsTypeOK', StartedOK', NEW c, LocalOK(c), co' = c,
           UNCHANGED <<journal, lastId, host, ghosts, budget>>
    PROVE  IInv'
<1> USE DEF IInv, ghosts
<1>1. TypeOK'
  BY DEF TypeOK, HostState, Messages, LocalOK
<1>2. LocalOK(co)'
  BY DEF LocalOK, Accepted
<1>3. BatchOK' /\ AckedWasAccepted'
  BY DEF BatchOK, AckedWasAccepted, Accepted
<1> QED
  BY <1>1, <1>2, <1>3

LEMMA StartsKeep ==
    ASSUME RunsTypeOK, StartedOK, NEW r \in Runs,
           StartTopLevel(r) \/ StartNested(r) \/ SpawnNested(r)
    PROVE  RunsTypeOK' /\ StartedOK'
<1>1. ASSUME NEW proc \in {"live", "unborn"}, Startable(r), FreshGeneration(r, proc)
      PROVE  RunsTypeOK' /\ StartedOK'
  <2>1. generation[r] + 1 \in 1 .. MaxGeneration
    BY <1>1, RunsAssumption DEF Startable, RunsTypeOK
  <2>2. (IF Parent[r] = NoRun THEN 0 ELSE generation[Parent[r]]) \in Nat
    BY RunsAssumption DEF RunsTypeOK
  <2>3. /\ generation' \in [Runs -> 0 .. MaxGeneration]
        /\ parentGeneration' \in [Runs -> Nat]
    BY <1>1, <2>1, <2>2, RunsAssumption DEF FreshGeneration, RunsTypeOK
  <2>4. RunsTypeOK'
    BY <1>1, <2>3 DEF FreshGeneration, RunsTypeOK
  <2>5. StartedOK'
    BY <1>1, <2>1 DEF FreshGeneration, RunsTypeOK, StartedOK
  <2> QED
    BY <2>4, <2>5
<1>2. CASE SpawnNested(r)
  BY <1>2 DEF SpawnNested, RunsTypeOK, StartedOK
<1> QED
  BY <1>1, <1>2 DEF StartTopLevel, StartNested

LEMMA StopsKeep ==
    ASSUME RunsTypeOK, StartedOK, NEW r \in Runs,
           \/ \E how \in {"killed", "cancelled"} : StopSignal(r, how)
           \/ StopRecord(r) \/ StopHandled(r) \/ StopAbandoned(r) \/ RetainRun(r)
    PROVE  RunsTypeOK' /\ StartedOK'
<1>1. ASSUME NEW how \in {"killed", "cancelled"}, StopSignal(r, how)
      PROVE  RunsTypeOK' /\ StartedOK'
  BY <1>1 DEF StopSignal, RunsTypeOK, StartedOK
<1>2. CASE StopRecord(r)
  <2>1. /\ cut' \in [Runs -> {"none", "killed", "cancelled"}]
        /\ process' \in [Runs -> {"unborn", "live", "dead"}]
    BY <1>2 DEF StopRecord, RunsTypeOK
  <2> QED
    BY <1>2, <2>1 DEF StopRecord, RunsTypeOK, StartedOK
<1>5. CASE StopHandled(r)
  <2>1. /\ handled' \in [Runs -> BOOLEAN]
        /\ stopping' \in [Runs -> {"none", "killed", "cancelled"}]
    BY <1>5 DEF StopHandled, RunsTypeOK
  <2> QED
    BY <1>5, <2>1 DEF StopHandled, RunsTypeOK, StartedOK
<1>3. CASE StopAbandoned(r)
  BY <1>3 DEF StopAbandoned, RunsTypeOK, StartedOK
<1>4. CASE RetainRun(r)
  BY <1>4 DEF RetainRun, RunsTypeOK, StartedOK
<1> QED
  BY <1>1, <1>2, <1>3, <1>4, <1>5

LEMMA RunnerKeeps ==
    ASSUME RunsTypeOK, StartedOK, NEW r \in Runs,
           \/ \E e \in Events : RunnerPublishSteer(r, e)
           \/ \E code \in Codes : RunnerFinish(r, code)
           \/ RunnerExit(r)
    PROVE  RunsTypeOK' /\ StartedOK'
<1>1. ASSUME NEW e \in Events, RunnerPublishSteer(r, e)
      PROVE  RunsTypeOK' /\ StartedOK'
  <2>1. [kind |-> "steer", event |-> e] \in TraceItem
    BY DEF TraceItem
  <2>2. trace' \in [Runs -> Seq(TraceItem)]
    BY <1>1, <2>1, AppendTraceType DEF RunnerPublishSteer
  <2> QED
    BY <1>1, <2>2 DEF RunnerPublishSteer, RunsTypeOK, StartedOK
<1>2. ASSUME NEW code \in Codes, RunnerFinish(r, code)
      PROVE  RunsTypeOK' /\ StartedOK'
  BY <1>2, RunsAssumption DEF RunnerFinish, RunsTypeOK, StartedOK
<1>3. CASE RunnerExit(r)
  BY <1>3 DEF RunnerExit, RunsTypeOK, StartedOK
<1> QED
  BY <1>1, <1>2, <1>3

LEMMA RunMoves ==
    ASSUME IInv, OwnMoves \/ NestedMoves \/ RunnerMoves
    PROVE  IInv'
<1>1. RunsTypeOK /\ StartedOK
  BY DEF IInv, TypeOK
<1>2. UNCHANGED <<journal, lastId, host, co, ghosts, budget>>
  BY DEF OwnMoves, NestedMoves, RunnerMoves, RunsMove
<1>3. RunsTypeOK' /\ StartedOK'
  <2>1. CASE OwnMoves
    BY <1>1, <2>1, StartsKeep, StopsKeep, RunsAssumption DEF OwnMoves, RunsMove
  <2>2. CASE NestedMoves
    BY <1>1, <2>2, StartsKeep, StopsKeep, RunsAssumption DEF NestedMoves, RunsMove
  <2>3. CASE RunnerMoves
    BY <1>1, <2>3, RunnerKeeps DEF RunnerMoves, RunsMove
  <2> QED
    BY <2>1, <2>2, <2>3
<1> QED
  BY <1>2, <1>3, RunsStep DEF IInv

LEMMA TeardownStep ==
    ASSUME IInv, Teardown
    PROVE  IInv'
<1>1. co \in CoordinatorState /\ ViewOK(co) /\ co.pc = "teardown"
  BY LocalFacts DEF IInv, Teardown, At
<1>2. ASSUME NEW r \in co.unread, TeardownOne(r) PROVE IInv'
  <2> DEFINE rest == [co EXCEPT !.unread = @ \ {r}]
  <2>1. r \in Runs
    BY <1>1 DEF CoordinatorState
  <2>2. rest \in CoordinatorState /\ rest.pc = "teardown" /\ rest.view = co.view
    BY <1>1 DEF CoordinatorState
  <2>3. LocalOK(rest)
    BY <1>1, <2>2, PlainOK DEF Plain, ViewOK
  <2> HIDE DEF rest
  <2>4. CASE Coordinator(rest)
    BY <2>3, <2>4, CoordinatorStep
  <2>5. CASE /\ StopSignal(r, "killed") /\ co' = rest
             /\ UNCHANGED <<journal, lastId, host, ghosts, budget>>
    <3>1. RunsTypeOK' /\ StartedOK'
      BY <2>1, <2>5, StopsKeep DEF IInv, TypeOK
    <3> QED
      BY <2>3, <2>5, <3>1, RunsStep
  <2> QED
    BY <1>2, <2>4, <2>5 DEF TeardownOne, rest
<1>3. ASSUME NEW memory \in {co, Closed}, Coordinator(Started(memory)) PROVE IInv'
  BY <1>1, <1>3, ClosedOK, StartedMemoryOK, CoordinatorStep
<1> QED
  BY <1>2, <1>3 DEF Teardown

-----------------------------------------------------------------------------
(* The invariant holds of every behaviour.                                 *)

LEMMA InvariantInit ==
    ASSUME Init
    PROVE  IInv
<1>1. RunsTypeOK /\ StartedOK
  BY RunsAssumption DEF Init, RunsInit, RunsTypeOK, StartedOK
<1>2. journal \in Journals
  BY DEF Init, EmptyJournal, NoBatch, Journals, Batch
<1>3. co \in CoordinatorState /\ LocalOK(co)
  BY ClosedOK DEF Init
<1>4. host \in HostState
  BY DEF Init, HostInit, HostState, Nothing
<1>5. TypeOK
  BY <1>1, <1>2, <1>3, <1>4, DeliveryAssumption DEF Init, TypeOK
<1>6. BatchOK
  BY DEF Init, BatchOK, EmptyJournal, NoBatch, HostInit
<1>7. AckedWasAccepted
  BY DEF Init, AckedWasAccepted
<1> QED
  BY <1>1, <1>3, <1>5, <1>6, <1>7 DEF IInv

LEMMA HandlerKeeps ==
    ASSUME IInv, Handler
    PROVE  IInv'
BY TeardownStep, RecoveryWalks, MarkSteerStep, SteerSteps, ObserveStep, AdmitSteersStep,
   FlushStep, SendSteerStep, ReconcileStep, MarkBatchSteps, AckStep,
   CollectStep, DeriveStep, SendBatchStep, HoldStep, ProposeBatchStep,
   ContextNextStep, ContextPresentStep
   DEF Handler

LEMMA HostKeeps ==
    ASSUME IInv, HostMoves
    PROVE  IInv'
BY HandlerStarts, QuietHostStep, CommitProposalStep, SettleStep, CrashStep
   DEF HostMoves

LEMMA InvariantNext ==
    ASSUME IInv, [Next]_vars
    PROVE  IInv'
<1>1. CASE UNCHANGED vars
  <2>1. UNCHANGED <<runVars, journal, lastId, host, ghosts>> /\ co' = co /\ budget' = budget
    BY <1>1 DEF vars
  <2> QED
    BY <2>1, MemoryStep DEF IInv, TypeOK
<1>2. CASE Launch \/ Reload \/ Update \/ TimerFlush \/ AnimationTick
  BY <1>2, LaunchStep, ReloadStep, HandlerStarts, AnimationStep
<1>3. CASE Handler
  BY <1>3, HandlerKeeps
<1>4. CASE HostMoves
  BY <1>4, HostKeeps
<1>5. CASE OwnMoves \/ NestedMoves \/ RunnerMoves
  BY <1>5, RunMoves
<1> QED
  BY <1>1, <1>2, <1>3, <1>4, <1>5 DEF Next

LEMMA InvariantHolds == Spec => []IInv
<1>1. Init => IInv
  BY InvariantInit
<1>2. IInv /\ [Next]_vars => IInv'
  BY InvariantNext
<1> QED
  BY <1>1, <1>2, PTL DEF Spec

(* Every reachable state is well typed: the journal, the coordinator's     *)
(* memory, the host's queue and session name only deliveries that were     *)
(* issued (run-delivery.ts parseJournal, run-ui-runtime.ts).               *)
THEOREM TypeCorrect == Spec => []TypeOK
<1>1. IInv => TypeOK
  BY DEF IInv
<1> QED
  BY <1>1, InvariantHolds, PTL

(* Whatever crashes, reloads, lock timeouts and failed sends come between, *)
(* finishPresentedBatch marks a Run handled only for a record that Pi has  *)
(* accepted (run-ui-runtime.ts).                                           *)
THEOREM AcknowledgedWasAccepted == Spec => []AckedWasAccepted
<1>1. IInv => AckedWasAccepted
  BY DEF IInv
<1> QED
  BY <1>1, InvariantHolds, PTL

-----------------------------------------------------------------------------
(* RunDelivery implements DeliveryJournalMachine: every step of the        *)
(* coordinator, of the host and of the Runs is one call of the journal or  *)
(* leaves it alone.  What DeliveryJournalProofs proves of the machine      *)
(* therefore holds of the whole system.                                    *)

Journal == INSTANCE DeliveryJournalProofs WITH Members <- Member, Steers <- Steer

\* What one step of the system may do to the journal and the id counter.
JournalStep == [MachineNext]_machineVars

-----------------------------------------------------------------------------
(* The steps of the machine the coordinator takes.                         *)

LEMMA KeptStep ==
    ASSUME UNCHANGED <<journal, lastId>> PROVE JournalStep
BY DEF JournalStep, machineVars

LEMMA FrameStep ==
    ASSUME NEW c, Coordinator(c) \/ Fails(c) PROVE JournalStep
BY KeptStep DEF Coordinator, Fails

LEMMA SteerStep ==
    ASSUME NEW s \in Steer, NEW c,
           NEW j \in {QueueSteer(journal, s), ResetSteer(journal, s),
                      PresentSteer(journal, s), FinalizeSteer(journal, s)},
           journal' = j, UNCHANGED lastId
    PROVE  JournalStep
BY DEF JournalStep, MachineNext, LaterCalls, SteerCall

LEMMA BatchStep ==
    ASSUME IInv,
           NEW j \in {QueueBatch(journal, journal.batch.id),
                      PresentBatch(journal, journal.batch.id),
                      FinalizeBatch(journal, journal.batch.id)},
           journal' = j, UNCHANGED lastId
    PROVE  JournalStep
<1>1. CASE journal.batch = NoBatch
  BY <1>1, KeptStep DEF QueueBatch, PresentBatch, FinalizeBatch, IsActive
<1>2. CASE journal.batch # NoBatch
  <2>1. journal.batch.id \in 1 .. lastId
    BY <1>2 DEF IInv, BatchOK
  <2>2. BatchCall(journal.batch.id)
    BY DEF BatchCall
  <2> QED
    BY <2>1, <2>2 DEF JournalStep, MachineNext, LaterCalls
<1> QED
  BY <1>1, <1>2

LEMMA AdmitSteersImplements ==
    ASSUME IInv, AdmitSteers PROVE JournalStep
<1>1. ASSUME NEW s \in co.todo, AdmitOne(s) PROVE JournalStep
  <2>1. s \in Steer
    BY DEF IInv, LocalOK, CoordinatorState
  <2>2. CASE ~CanAdmitSteer(journal, s)
    BY <1>1, <2>2, FrameStep DEF AdmitOne
  <2>3. CASE CanAdmitSteer(journal, s)
    <3>1. AdmitSteerCall(s)
      BY <1>1, <2>3 DEF AdmitOne, AdmitSteerCall, Writes
    <3> QED
      BY <2>1, <3>1 DEF JournalStep, MachineNext, LaterCalls
  <2> QED
    BY <2>2, <2>3
<1> QED
  BY <1>1, FrameStep DEF AdmitSteers

LEMMA FlushSteersImplements ==
    ASSUME IInv, FlushSteers PROVE JournalStep
<1>1. ASSUME NEW s \in co.todo, FlushOne(s) PROVE JournalStep
  <2>1. s \in Steer
    BY DEF IInv, LocalOK, CoordinatorState
  <2>2. \/ \E c : Coordinator(c)
        \/ journal' = ResetSteer(journal, s) /\ UNCHANGED lastId
    BY <1>1 DEF FlushOne, Writes
  <2> QED
    BY <2>1, <2>2, FrameStep, SteerStep
<1>2. CASE FlushDone
  BY <1>2, FrameStep DEF FlushDone
<1> QED
  BY <1>1, <1>2 DEF FlushSteers

LEMMA AdmitBatchImplements ==
    ASSUME IInv, AdmitCompletions PROVE JournalStep
<1>1. CASE Coordinator(Idle(co))
  BY <1>1, FrameStep
<1>2. ASSUME NEW M \in Slices(Candidates(co.view)),
             CanAdmitBatch(journal, lastId + 1, M),
             journal' = AdmitBatch(journal, lastId + 1, M), lastId' = lastId + 1
      PROVE  JournalStep
  <2>1. M \in SUBSET Member
    <3>1. co \in CoordinatorState /\ ViewOK(co)
      BY SteerLocals
    <3>2. Candidates(co.view) \subseteq Member
      BY <3>1, CandidateType DEF CoordinatorState, ViewOK
    <3> QED
      BY <3>2 DEF Slices
  <2>2. Admit(M)
    BY <1>2 DEF Admit
  <2> QED
    BY <2>1, <2>2 DEF JournalStep, MachineNext
<1> QED
  BY <1>1, <1>2 DEF AdmitCompletions

-----------------------------------------------------------------------------
(* Every step.                                                             *)

LEMMA SteerHandlersImplement ==
    ASSUME IInv,
           FinalizeSteerStep \/ SteerSent \/ ContextQueue \/ ContextPresent
    PROVE  JournalStep
<1>1. co.cur \in Steer
  BY SteerLocals DEF FinalizeSteerStep, SteerSent, ContextQueue, ContextPresent, At, IInv, LocalOK
<1> QED
  BY <1>1, SteerStep DEF FinalizeSteerStep, SteerSent, ContextQueue, ContextPresent, Writes

LEMMA BatchHandlersImplement ==
    ASSUME IInv, MarkBatchQueued \/ MarkBatchPresented \/ AckMembers
    PROVE  JournalStep
<1>1. CASE MarkBatchQueued \/ MarkBatchPresented
  BY <1>1, BatchStep DEF MarkBatchQueued, MarkBatchPresented, Writes
<1>2. CASE AckMembers
  <2>1. \/ UNCHANGED <<journal, lastId>>
        \/ journal' = FinalizeBatch(journal, journal.batch.id) /\ UNCHANGED lastId
    BY <1>2 DEF AckMembers, AckOne, Fails, Writes
  <2> QED
    BY <2>1, BatchStep, KeptStep
<1> QED
  BY <1>1, <1>2

LEMMA HandlerImplements ==
    ASSUME IInv, Handler PROVE JournalStep
<1>1. CASE \/ Teardown \/ RecoverBatch \/ RecoverSteers \/ MarkSteer \/ Observe
           \/ SendSteer \/ ReconcileBatch \/ Recollect \/ DeriveRead
           \/ SendBatch \/ HoldBatch \/ ProposeBatch \/ ContextNext
  <2>1. UNCHANGED <<journal, lastId>>
    BY <1>1 DEF Teardown, TeardownOne, RecoverBatch, RecoverSteers, MarkSteer, Observe,
                SendSteer, ReconcileBatch, Recollect, DeriveRead, SendBatch, HoldBatch,
                ProposeBatch, ContextNext, ContextSteer, Coordinator, Fails
  <2> QED
    BY <2>1, KeptStep
<1>2. CASE CollectCompletions
  BY <1>2, AdmitBatchImplements, FrameStep DEF CollectCompletions, ReadResult
<1> QED
  BY <1>1, <1>2, AdmitSteersImplements, FlushSteersImplements, SteerHandlersImplement,
     BatchHandlersImplement DEF Handler

LEMMA OthersImplement ==
    ASSUME \/ Launch \/ Reload \/ Update \/ TimerFlush \/ AnimationTick
           \/ HostMoves \/ OwnMoves \/ NestedMoves \/ RunnerMoves
    PROVE  JournalStep
<1>1. CASE Launch \/ Reload \/ Update \/ TimerFlush \/ AnimationTick
  BY <1>1, KeptStep DEF Launch, Reload, Update, TimerFlush, AnimationTick, Coordinator
<1>2. CASE HostMoves
  BY <1>2, KeptStep DEF HostMoves, HostWork, HostCommitMessage, HostContext, HostTurnEnd,
     HostCommitProposal, HostDropProposal, HostSettle, Settle, HostCrash, Hosts, Coordinator
<1>3. CASE OwnMoves \/ NestedMoves \/ RunnerMoves
  BY <1>3, KeptStep DEF OwnMoves, NestedMoves, RunnerMoves, RunsMove
<1> QED
  BY <1>1, <1>2, <1>3

(* The coordinator implements the journal machine: each of its steps, and  *)
(* each step around it, is one call the journal accepts or no call         *)
(* (run-ui-runtime.ts over run-delivery.ts).                               *)
THEOREM ImplementsJournal == Spec => JournalImplemented
<1>1. Init => MachineInit
  BY DEF Init, MachineInit
<1>2. IInv /\ [Next]_vars => [MachineNext]_machineVars
  <2>1. ASSUME IInv, Next PROVE JournalStep
    BY <2>1, HandlerImplements, OthersImplement DEF Next
  <2>2. ASSUME UNCHANGED vars PROVE JournalStep
    BY <2>2, KeptStep DEF vars
  <2> QED
    BY <2>1, <2>2 DEF JournalStep
<1> QED
  BY <1>1, <1>2, InvariantHolds, PTL DEF Spec, JournalImplemented, MachineSpec

-----------------------------------------------------------------------------
(* DeliveryJournalProofs, instantiated here, names the operators a second  *)
(* time.                                                                   *)

LEMMA SameCardinality == \A S : Journal!Cardinality(S) = Cardinality(S)
BY Zenon DEF Journal!Cardinality, Cardinality

LEMMA SameOperators ==
    /\ \A q, d : Journal!Remember(q, d) = Remember(q, d)
    /\ Journal!NoBatch = NoBatch
    /\ \A id : Journal!BatchDelivery(id) = BatchDelivery(id)
    /\ \A s : Journal!SteerDelivery(s) = SteerDelivery(s)
    /\ \A j, d : Journal!HasReceipt(j, d) <=> HasReceipt(j, d)
    /\ \A j : Journal!ActiveSteers(j) = ActiveSteers(j)
    /\ \A M : Journal!OneGenerationEach(M) <=> OneGenerationEach(M)
    /\ \A j, id : Journal!IsActive(j, id) <=> IsActive(j, id)
<1>1. Journal!NoBatch = NoBatch
  BY DEF Journal!NoBatch, NoBatch
<1>2. \A q, d : Journal!Remember(q, d) = Remember(q, d)
  BY DEF Journal!Remember, Journal!Without, Journal!NewestReceipts,
         Remember, Without, NewestReceipts
<1>3. /\ \A id : Journal!BatchDelivery(id) = BatchDelivery(id)
      /\ \A s : Journal!SteerDelivery(s) = SteerDelivery(s)
  BY DEF Journal!BatchDelivery, BatchDelivery, Journal!SteerDelivery, SteerDelivery
<1>4. /\ \A j, d : Journal!HasReceipt(j, d) <=> HasReceipt(j, d)
      /\ \A j : Journal!ActiveSteers(j) = ActiveSteers(j)
      /\ \A M : Journal!OneGenerationEach(M) <=> OneGenerationEach(M)
  BY DEF Journal!HasReceipt, HasReceipt, Journal!ActiveSteers, ActiveSteers,
         Journal!OneGenerationEach, OneGenerationEach
<1>5. \A j, id : Journal!IsActive(j, id) <=> IsActive(j, id)
  BY <1>1 DEF Journal!IsActive, IsActive
<1> QED
  BY <1>1, <1>2, <1>3, <1>4, <1>5

LEMMA SameTransitions ==
    ASSUME NEW j, NEW id, NEW s, NEW M
    PROVE  /\ Journal!CanAdmitBatch(j, id, M) <=> CanAdmitBatch(j, id, M)
           /\ Journal!AdmitBatch(j, id, M) = AdmitBatch(j, id, M)
           /\ Journal!QueueBatch(j, id) = QueueBatch(j, id)
           /\ Journal!ResetBatch(j, id) = ResetBatch(j, id)
           /\ Journal!PresentBatch(j, id) = PresentBatch(j, id)
           /\ Journal!FinalizeBatch(j, id) = FinalizeBatch(j, id)
           /\ Journal!CanAdmitSteer(j, s) <=> CanAdmitSteer(j, s)
           /\ Journal!AdmitSteer(j, s) = AdmitSteer(j, s)
           /\ Journal!QueueSteer(j, s) = QueueSteer(j, s)
           /\ Journal!ResetSteer(j, s) = ResetSteer(j, s)
           /\ Journal!PresentSteer(j, s) = PresentSteer(j, s)
           /\ Journal!FinalizeSteer(j, s) = FinalizeSteer(j, s)
<1>1. /\ Journal!CanAdmitBatch(j, id, M) <=> CanAdmitBatch(j, id, M)
      /\ Journal!CanAdmitSteer(j, s) <=> CanAdmitSteer(j, s)
  BY SameOperators, SameCardinality
     DEF Journal!CanAdmitBatch, CanAdmitBatch, Journal!CanAdmitSteer, CanAdmitSteer
<1>2. /\ Journal!AdmitBatch(j, id, M) = AdmitBatch(j, id, M)
      /\ Journal!AdmitSteer(j, s) = AdmitSteer(j, s)
  BY DEF Journal!AdmitBatch, AdmitBatch, Journal!AdmitSteer, AdmitSteer
<1>3. /\ Journal!QueueBatch(j, id) = QueueBatch(j, id)
      /\ Journal!ResetBatch(j, id) = ResetBatch(j, id)
      /\ Journal!PresentBatch(j, id) = PresentBatch(j, id)
  BY SameOperators DEF Journal!QueueBatch, QueueBatch, Journal!ResetBatch, ResetBatch,
                       Journal!PresentBatch, PresentBatch
<1>4. Journal!FinalizeBatch(j, id) = FinalizeBatch(j, id)
  BY SameOperators DEF Journal!FinalizeBatch, FinalizeBatch
<1>5. /\ Journal!QueueSteer(j, s) = QueueSteer(j, s)
      /\ Journal!ResetSteer(j, s) = ResetSteer(j, s)
      /\ Journal!PresentSteer(j, s) = PresentSteer(j, s)
  BY DEF Journal!QueueSteer, QueueSteer, Journal!ResetSteer, ResetSteer,
         Journal!PresentSteer, PresentSteer
<1>6. Journal!FinalizeSteer(j, s) = FinalizeSteer(j, s)
  BY SameOperators DEF Journal!FinalizeSteer, FinalizeSteer
<1> QED
  BY <1>1, <1>2, <1>3, <1>4, <1>5, <1>6

LEMMA SameMachine == MachineSpec => Journal!MachineSpec
<1>1. MachineInit => Journal!MachineInit
  BY SameOperators DEF MachineInit, Journal!MachineInit, EmptyJournal, Journal!EmptyJournal
<1>2. [MachineNext]_machineVars => [Journal!MachineNext]_(Journal!machineVars)
  <2>1. ASSUME NEW M \in SUBSET Member, Admit(M) PROVE Journal!Admit(M)
    BY <2>1, SameTransitions DEF Admit, Journal!Admit
  <2>2. ASSUME NEW id \in 1 .. lastId, BatchCall(id) PROVE Journal!BatchCall(id)
    BY <2>2, SameTransitions DEF BatchCall, Journal!BatchCall
  <2>3. ASSUME NEW s \in Steer, AdmitSteerCall(s) PROVE Journal!AdmitSteerCall(s)
    BY <2>3, SameTransitions DEF AdmitSteerCall, Journal!AdmitSteerCall
  <2>4. ASSUME NEW s \in Steer, SteerCall(s) PROVE Journal!SteerCall(s)
    BY <2>4, SameTransitions DEF SteerCall, Journal!SteerCall
  <2> QED
    BY <2>1, <2>2, <2>3, <2>4
       DEF MachineNext, LaterCalls, machineVars,
           Journal!MachineNext, Journal!LaterCalls, Journal!machineVars
<1> QED
  BY <1>1, <1>2, PTL DEF MachineSpec, Journal!MachineSpec

(* The journal of a coordinator that crashes, reloads and fails at any     *)
(* point is always one that parseJournal accepts.                          *)
THEOREM JournalParses == Spec => []JournalStaysValid
<1>1. Journal!MachineSpec => []Journal!JournalStaysValid
  BY Journal!JournalAlwaysValid, DeliveryAssumption DEF Journal!JournalAssumption
<1>2. Journal!JournalStaysValid => JournalStaysValid
  BY SameOperators, SameCardinality
     DEF Journal!JournalStaysValid, JournalStaysValid, Journal!ValidJournal, ValidJournal
<1> QED
  BY <1>1, <1>2, SameMachine, ImplementsJournal, PTL DEF JournalImplemented

(* Through every crash and recovery, no delivery is owed and acknowledged  *)
(* at once.                                                                *)
THEOREM JournalOwesOrAcknowledges == Spec => []OwedOrAcknowledged
<1>1. Journal!MachineSpec => []Journal!OwedOrAcknowledged
  BY Journal!NeverBothOwedAndAcknowledged, DeliveryAssumption DEF Journal!JournalAssumption
<1>2. Journal!OwedOrAcknowledged => OwedOrAcknowledged
  BY SameOperators
     DEF Journal!OwedOrAcknowledged, OwedOrAcknowledged, Journal!Unreceipted, Unreceipted
<1> QED
  BY <1>1, <1>2, SameMachine, ImplementsJournal, PTL DEF JournalImplemented

\* One step of PresentedOnlyAcknowledged.
PresentedStep ==
    /\ journal.batch.phase = "presented" =>
          \/ journal'.batch = journal.batch
          \/ /\ journal'.batch = NoBatch
             /\ journal'.receipts[Len(journal'.receipts)] = BatchDelivery(journal.batch.id)
    /\ \A s \in Steer : journal.steers[s] = "presented" =>
          \/ journal'.steers[s] = "presented"
          \/ /\ journal'.steers[s] = "absent"
             /\ journal'.receipts[Len(journal'.receipts)] = SteerDelivery(s)

(* No recovery takes a presented batch or steer back to be sent again: it  *)
(* leaves the journal only with its receipt.                               *)
THEOREM PresentedNeverTakenBack == Spec => PresentedOnlyAcknowledged
<1> DEFINE Step == Journal!PresentedStep
<1>1. Journal!MachineSpec => [][Step]_(Journal!machineVars)
  BY Journal!PresentedIsFinal, DeliveryAssumption
     DEF Journal!JournalAssumption, Journal!PresentedOnlyAcknowledged, Journal!PresentedStep
<1>2. [Step]_(Journal!machineVars) => [PresentedStep]_machineVars
  BY SameOperators DEF Journal!PresentedStep, PresentedStep, machineVars, Journal!machineVars
<1> QED
  BY <1>1, <1>2, SameMachine, ImplementsJournal, PTL
     DEF JournalImplemented, PresentedOnlyAcknowledged, PresentedStep
=============================================================================
