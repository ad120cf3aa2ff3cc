----------------------- MODULE DeliveryJournalProofs -----------------------
(***************************************************************************)
(* What TLAPS proves of the delivery journal, for every set of members and *)
(* steers and every limit: whatever calls are made, in whatever order, the *)
(* file stays one that parseJournal accepts, owes nothing it has           *)
(* acknowledged and takes back nothing it has presented.                   *)
(***************************************************************************)
EXTENDS DeliveryJournalMachine, TLAPS, FiniteSetTheorems

Distinct(q) == \A i, k \in DOMAIN q : q[i] = q[k] => i = k

-----------------------------------------------------------------------------
(* Receipts.                                                               *)

\* Without drops d and only d (run-delivery.ts, appendReceipt).
LEMMA WithoutFacts ==
    ASSUME NEW S, NEW q \in Seq(S), NEW d, Distinct(q)
    PROVE  /\ Without(q, d) \in Seq(S)
           /\ Len(Without(q, d)) <= Len(q)
           /\ Distinct(Without(q, d))
           /\ \A i \in DOMAIN Without(q, d) :
                  /\ Without(q, d)[i] # d
                  /\ \E k \in DOMAIN q : Without(q, d)[i] = q[k]
<1>1. CASE ~ \E i \in DOMAIN q : q[i] = d
  BY <1>1 DEF Without, Distinct
<1>2. CASE \E i \in DOMAIN q : q[i] = d
  <2> DEFINE at == CHOOSE i \in DOMAIN q : q[i] = d
             w == [k \in 1 .. Len(q) - 1 |-> IF k < at THEN q[k] ELSE q[k + 1]]
  <2>1. at \in 1 .. Len(q) /\ q[at] = d
    BY <1>2
  <2>2. Without(q, d) = w
    BY <1>2 DEF Without
  <2> HIDE DEF at
  <2>3. w \in Seq(S) /\ Len(w) = Len(q) - 1 /\ DOMAIN w = 1 .. Len(q) - 1
    BY <2>1
  <2>4. \A i \in DOMAIN w : \E k \in DOMAIN q : k # at /\ w[i] = q[k]
    BY <2>1, <2>3
  <2>5. Distinct(w)
    BY <2>1, <2>3 DEF Distinct
  <2>6. \A i \in DOMAIN w : w[i] # d
    BY <2>1, <2>4 DEF Distinct
  <2> HIDE DEF w
  <2>7. Len(q) \in Nat /\ Len(w) <= Len(q)
    BY <2>3
  <2> QED
    BY <2>2, <2>3, <2>4, <2>5, <2>6, <2>7
<1> QED
  BY <1>1, <1>2

\* Remember keeps the receipts few and distinct and puts d last.
LEMMA RememberFacts ==
    ASSUME NEW S, NEW q \in Seq(S), NEW d \in S, Distinct(q)
    PROVE  /\ Remember(q, d) \in Seq(S)
           /\ Len(Remember(q, d)) <= ReceiptLimit
           /\ Distinct(Remember(q, d))
           /\ Remember(q, d)[Len(Remember(q, d))] = d
           /\ \A i \in DOMAIN Remember(q, d) :
                  \/ Remember(q, d)[i] = d
                  \/ \E k \in DOMAIN q : Remember(q, d)[i] = q[k]
<1> DEFINE w == Without(q, d)
           a == Append(w, d)
           n == Len(a)
<1>1. /\ w \in Seq(S) /\ Distinct(w)
      /\ \A i \in DOMAIN w : w[i] # d /\ \E k \in DOMAIN q : w[i] = q[k]
  BY WithoutFacts
<1> HIDE DEF w
<1>2. /\ a \in Seq(S) /\ n = Len(w) + 1 /\ n \in Nat \ {0} /\ DOMAIN a = 1 .. n
      /\ a[n] = d /\ \A i \in 1 .. Len(w) : a[i] = w[i]
  BY <1>1
<1>3. Distinct(a)
  BY <1>1, <1>2 DEF Distinct
<1>4. \A i \in DOMAIN a : a[i] = d \/ \E k \in DOMAIN q : a[i] = q[k]
  BY <1>1, <1>2
<1>5. Remember(q, d) = NewestReceipts(a)
  BY DEF Remember, w
<1> HIDE DEF a
<1>6. CASE n <= ReceiptLimit
  BY <1>2, <1>3, <1>4, <1>5, <1>6 DEF NewestReceipts
<1>7. CASE n > ReceiptLimit
  <2> DEFINE s == SubSeq(a, n - ReceiptLimit + 1, n)
  <2>1. Remember(q, d) = s
    BY <1>2, <1>5, <1>7, JournalAssumption DEF NewestReceipts
  <2>2. /\ s \in Seq(S) /\ Len(s) = ReceiptLimit /\ DOMAIN s = 1 .. ReceiptLimit
        /\ \A i \in 1 .. ReceiptLimit : s[i] = a[i + n - ReceiptLimit]
    BY <1>2, <1>7, JournalAssumption
  <2> HIDE DEF s, n
  <2> DEFINE from(i) == i + n - ReceiptLimit
  <2>3. \A i \in DOMAIN s : from(i) \in DOMAIN a /\ s[i] = a[from(i)]
    BY <1>2, <1>7, <2>2, JournalAssumption
  <2>4. \A i, k \in DOMAIN s : from(i) = from(k) => i = k
    BY <1>2, <2>2, JournalAssumption
  <2>5. s[Len(s)] = d
    BY <1>2, <1>7, <2>2, JournalAssumption
  <2> HIDE DEF from
  <2>6. Distinct(s)
    BY <1>3, <2>3, <2>4 DEF Distinct
  <2>7. \A i \in DOMAIN s : s[i] = d \/ \E k \in DOMAIN q : s[i] = q[k]
    BY <1>4, <2>3
  <2> QED
    BY <2>1, <2>2, <2>5, <2>6, <2>7, JournalAssumption
<1> QED
  BY <1>2, <1>6, <1>7, JournalAssumption

-----------------------------------------------------------------------------
(* The calls.  A call leaves the batch and the steers of the journal in    *)
(* one of few ways; what follows is all the invariants need to know.       *)

\* A call on the batch keeps the steers and either moves the batch between
\* phases with its receipts untouched, or acknowledges it.
BatchMoved(j, k) ==
    /\ k.steers = j.steers
    /\ \/ k = j
       \/ /\ k.batch # NoBatch /\ k.batch.phase \in Phases
          /\ k.batch.id = j.batch.id /\ k.batch.members = j.batch.members
          /\ k.receipts = j.receipts
          /\ j.batch.phase \in {"pending", "queued"}
       \/ /\ j.batch.phase = "presented" /\ j.batch # NoBatch
          /\ k.batch = NoBatch
          /\ k.receipts = Remember(j.receipts, BatchDelivery(j.batch.id))

\* A call on steer s keeps the batch and the other steers.
SteerMoved(j, k, s) ==
    /\ k.batch = j.batch
    /\ \A t \in Steers \ {s} : k.steers[t] = j.steers[t]
    /\ \/ k = j
       \/ /\ k.steers[s] \in Phases /\ k.receipts = j.receipts
          /\ j.steers[s] \in {"pending", "queued"}
       \/ /\ j.steers[s] = "presented" /\ k.steers[s] = "absent"
          /\ k.receipts = Remember(j.receipts, SteerDelivery(s))

LEMMA NoBatchType == NoBatch \in Batch
BY DEF NoBatch, Batch, Phases

LEMMA BatchCallMoves ==
    ASSUME NEW j \in Journals, NEW id \in Nat, ValidJournal(j),
           NEW k \in {QueueBatch(j, id), ResetBatch(j, id),
                      PresentBatch(j, id), FinalizeBatch(j, id)}
    PROVE  BatchMoved(j, k) /\ k \in Journals
<1>2. CASE k = j
  BY <1>2 DEF BatchMoved
<1>3. CASE k # j /\ k \in {QueueBatch(j, id), ResetBatch(j, id), PresentBatch(j, id)}
  <2>1. \E ph \in Phases : /\ k = [j EXCEPT !.batch.phase = ph]
                           /\ j.batch.phase \in {"pending", "queued"}
    BY <1>3 DEF QueueBatch, ResetBatch, PresentBatch, Phases
  <2> QED
    BY <2>1 DEF BatchMoved, Journals, Batch, Phases, NoBatch
<1>4. CASE k # j /\ k = FinalizeBatch(j, id)
  <2>1. /\ j.batch.phase = "presented" /\ j.batch # NoBatch /\ j.batch.id = id
        /\ k = [j EXCEPT !.batch = NoBatch,
                         !.receipts = Remember(@, BatchDelivery(id))]
    BY <1>4 DEF FinalizeBatch, IsActive
  <2>2. BatchDelivery(id) \in Deliveries
    BY DEF BatchDelivery, Deliveries
  <2>3. Remember(j.receipts, BatchDelivery(id)) \in Seq(Deliveries)
    BY <2>2, RememberFacts DEF Journals, ValidJournal, Distinct
  <2> QED
    BY <2>1, <2>3, NoBatchType DEF BatchMoved, Journals
<1> QED
  BY <1>2, <1>3, <1>4

LEMMA SteerCallMoves ==
    ASSUME NEW j \in Journals, NEW s \in Steers, ValidJournal(j),
           NEW k \in {QueueSteer(j, s), ResetSteer(j, s),
                      PresentSteer(j, s), FinalizeSteer(j, s)}
    PROVE  SteerMoved(j, k, s) /\ k \in Journals
<1>1. CASE k = j
  BY <1>1 DEF SteerMoved
<1>2. CASE k # j /\ k \in {QueueSteer(j, s), ResetSteer(j, s), PresentSteer(j, s)}
  <2>1. \E ph \in Phases : /\ k = [j EXCEPT !.steers[s] = ph]
                           /\ j.steers[s] \in {"pending", "queued"}
    BY <1>2 DEF QueueSteer, ResetSteer, PresentSteer, Phases
  <2> QED
    BY <2>1 DEF SteerMoved, Journals, Phases
<1>3. CASE k # j /\ k = FinalizeSteer(j, s)
  <2>1. /\ j.steers[s] = "presented"
        /\ k = [j EXCEPT !.steers[s] = "absent",
                         !.receipts = Remember(@, SteerDelivery(s))]
    BY <1>3 DEF FinalizeSteer
  <2>2. SteerDelivery(s) \in Deliveries
    BY DEF SteerDelivery, Deliveries
  <2>3. Remember(j.receipts, SteerDelivery(s)) \in Seq(Deliveries)
    BY <2>2, RememberFacts DEF Journals, ValidJournal, Distinct
  <2> QED
    BY <2>1, <2>3 DEF SteerMoved, Journals, Phases
<1> QED
  BY <1>1, <1>2, <1>3

-----------------------------------------------------------------------------
(* Every call preserves what makes a journal sound.                        *)

\* The inductive strengthening: a capacity counts only if the set is finite.
Sound(j) == ValidJournal(j) /\ Unreceipted(j) /\ IsFiniteSet(ActiveSteers(j))

LEMMA ReceiptsOf ==
    ASSUME NEW j \in Journals, Sound(j), NEW d \in Deliveries
    PROVE  /\ Len(Remember(j.receipts, d)) <= ReceiptLimit
           /\ Distinct(Remember(j.receipts, d))
           /\ Remember(j.receipts, d)[Len(Remember(j.receipts, d))] = d
           /\ \A i \in DOMAIN Remember(j.receipts, d) :
                  \/ Remember(j.receipts, d)[i] = d
                  \/ HasReceipt(j, Remember(j.receipts, d)[i])
<1>1. j.receipts \in Seq(Deliveries) /\ Distinct(j.receipts)
  BY DEF Journals, Sound, ValidJournal, Distinct
<1> QED
  BY <1>1, RememberFacts DEF HasReceipt

LEMMA BatchMovedSound ==
    ASSUME NEW j \in Journals, NEW k \in Journals, Sound(j), BatchMoved(j, k)
    PROVE  Sound(k)
<1>1. ActiveSteers(k) = ActiveSteers(j)
  BY DEF BatchMoved, ActiveSteers
<1>2. CASE k.receipts = j.receipts
  <2>1. \A d : HasReceipt(k, d) <=> HasReceipt(j, d)
    BY <1>2 DEF HasReceipt
  <2>2. \/ k.batch = NoBatch
        \/ /\ k.batch # NoBatch /\ k.batch.phase # "none"
           /\ j.batch # NoBatch /\ j.batch.phase # "none"
           /\ k.batch.id = j.batch.id /\ k.batch.members = j.batch.members
    BY DEF BatchMoved, Phases, NoBatch, Sound, ValidJournal
  <2>3. ValidJournal(k)
    BY <1>1, <1>2, <2>2 DEF Sound, ValidJournal, NoBatch
  <2>4. Unreceipted(k)
    BY <1>1, <2>1, <2>2 DEF Sound, Unreceipted
  <2> QED
    BY <1>1, <2>3, <2>4 DEF Sound
<1>3. CASE /\ j.batch # NoBatch /\ k.batch = NoBatch
           /\ k.receipts = Remember(j.receipts, BatchDelivery(j.batch.id))
  <2> DEFINE d == BatchDelivery(j.batch.id)
  <2>1. d \in Deliveries /\ \A s \in Steers : SteerDelivery(s) # d
    BY DEF Journals, Batch, BatchDelivery, SteerDelivery, Deliveries
  <2>2. /\ Len(k.receipts) <= ReceiptLimit /\ Distinct(k.receipts)
        /\ \A i \in DOMAIN k.receipts :
               k.receipts[i] = d \/ HasReceipt(j, k.receipts[i])
    BY <1>3, <2>1, ReceiptsOf
  <2>3. ValidJournal(k)
    BY <1>1, <1>3, <2>2 DEF Sound, ValidJournal, Distinct, NoBatch
  <2>4. Unreceipted(k)
    BY <1>1, <1>3, <2>1, <2>2 DEF Sound, Unreceipted, HasReceipt, ActiveSteers
  <2> QED
    BY <1>1, <2>3, <2>4 DEF Sound
<1> QED
  BY <1>2, <1>3 DEF BatchMoved

LEMMA SteerMovedSound ==
    ASSUME NEW j \in Journals, NEW k \in Journals, NEW s \in Steers,
           Sound(j), SteerMoved(j, k, s)
    PROVE  Sound(k)
<1>1. /\ ActiveSteers(k) \subseteq ActiveSteers(j)
      /\ k.steers[s] = "absent" => s \notin ActiveSteers(k)
  BY DEF SteerMoved, ActiveSteers
<1>2. /\ IsFiniteSet(ActiveSteers(k))
      /\ Cardinality(ActiveSteers(k)) <= Cardinality(ActiveSteers(j))
  BY <1>1, FS_Subset DEF Sound
<1>3. Cardinality(ActiveSteers(k)) <= SteerMax
  BY <1>2, FS_CardinalityType, JournalAssumption DEF Sound, ValidJournal
<1>4. CASE k.receipts = j.receipts
  BY <1>1, <1>2, <1>3, <1>4
     DEF Sound, ValidJournal, Unreceipted, HasReceipt, SteerMoved
<1>5. CASE /\ k.steers[s] = "absent"
           /\ k.receipts = Remember(j.receipts, SteerDelivery(s))
  <2> DEFINE d == SteerDelivery(s)
  <2>1. /\ d \in Deliveries /\ \A id : BatchDelivery(id) # d
        /\ \A t \in Steers : SteerDelivery(t) = d => t = s
    BY DEF BatchDelivery, SteerDelivery, Deliveries
  <2>2. /\ Len(k.receipts) <= ReceiptLimit /\ Distinct(k.receipts)
        /\ \A i \in DOMAIN k.receipts :
               k.receipts[i] = d \/ HasReceipt(j, k.receipts[i])
    BY <1>5, <2>1, ReceiptsOf
  <2>3. ValidJournal(k)
    BY <1>3, <2>2 DEF Sound, ValidJournal, Distinct, SteerMoved
  <2>4. Unreceipted(k)
    <3>1. k.batch # NoBatch => ~HasReceipt(k, BatchDelivery(k.batch.id))
      BY <2>1, <2>2 DEF Sound, Unreceipted, HasReceipt, SteerMoved
    <3>2. ASSUME NEW t \in ActiveSteers(k) PROVE ~HasReceipt(k, SteerDelivery(t))
      <4>1. t \in Steers /\ t # s /\ t \in ActiveSteers(j)
        BY <1>1, <1>5, <3>2 DEF ActiveSteers
      <4> QED
        BY <2>1, <2>2, <4>1 DEF Sound, Unreceipted, HasReceipt
    <3> QED
      BY <3>1, <3>2 DEF Unreceipted
  <2> QED
    BY <1>2, <2>3, <2>4 DEF Sound
<1> QED
  BY <1>4, <1>5 DEF SteerMoved

LEMMA AdmitBatchSound ==
    ASSUME NEW j \in Journals, Sound(j), NEW id \in Nat,
           NEW M \in SUBSET Members, CanAdmitBatch(j, id, M)
    PROVE  AdmitBatch(j, id, M) \in Journals /\ Sound(AdmitBatch(j, id, M))
<1> DEFINE b == [id |-> id, members |-> M, phase |-> "pending"]
           k == AdmitBatch(j, id, M)
<1>1. /\ b \in Batch /\ b # NoBatch /\ b.phase # "none"
      /\ b.id = id /\ b.members = M
  BY DEF Batch, Phases, NoBatch
<1>2. k \in Journals /\ k.batch = b /\ k.steers = j.steers /\ k.receipts = j.receipts
  BY <1>1 DEF Journals, AdmitBatch
<1>3. ActiveSteers(k) = ActiveSteers(j) /\ \A d : HasReceipt(k, d) <=> HasReceipt(j, d)
  BY <1>2 DEF ActiveSteers, HasReceipt
<1>4. ValidJournal(k)
  BY <1>1, <1>2, <1>3 DEF Sound, ValidJournal, CanAdmitBatch
<1>5. Unreceipted(k)
  BY <1>1, <1>2, <1>3 DEF Sound, Unreceipted, CanAdmitBatch
<1> QED
  BY <1>2, <1>3, <1>4, <1>5 DEF Sound

LEMMA AdmitSteerSound ==
    ASSUME NEW j \in Journals, Sound(j), NEW s \in Steers, CanAdmitSteer(j, s)
    PROVE  AdmitSteer(j, s) \in Journals /\ Sound(AdmitSteer(j, s))
<1> DEFINE k == AdmitSteer(j, s)
<1>1. /\ k \in Journals /\ k.batch = j.batch /\ k.receipts = j.receipts
      /\ \A t \in Steers : k.steers[t] = IF t = s THEN "pending" ELSE j.steers[t]
  BY DEF Journals, AdmitSteer, Phases
<1>2. ActiveSteers(k) = ActiveSteers(j) \cup {s} /\ s \notin ActiveSteers(j)
  BY <1>1 DEF ActiveSteers, CanAdmitSteer
<1>3. /\ IsFiniteSet(ActiveSteers(k))
      /\ Cardinality(ActiveSteers(k)) = Cardinality(ActiveSteers(j)) + 1
  BY <1>2, FS_AddElement DEF Sound
<1>4. Cardinality(ActiveSteers(k)) <= SteerMax
  BY <1>3, FS_CardinalityType, JournalAssumption DEF Sound, CanAdmitSteer
<1>5. \A d : HasReceipt(k, d) <=> HasReceipt(j, d)
  BY <1>1 DEF HasReceipt
<1>6. ValidJournal(k)
  BY <1>1, <1>4 DEF Sound, ValidJournal
<1>7. Unreceipted(k)
  BY <1>1, <1>2, <1>5 DEF Sound, Unreceipted, CanAdmitSteer
<1> QED
  BY <1>1, <1>3, <1>6, <1>7 DEF Sound

-----------------------------------------------------------------------------
(* The machine.                                                            *)

MachineInv == MachineTypeOK /\ Sound(journal)

LEMMA MachineInvInit == MachineInit => MachineInv
<1> SUFFICES ASSUME MachineInit PROVE MachineInv
  OBVIOUS
<1>1. EmptyJournal \in Journals
  BY NoBatchType DEF EmptyJournal, Journals
<1>2. ActiveSteers(EmptyJournal) = {}
  BY DEF ActiveSteers, EmptyJournal
<1>3. ValidJournal(EmptyJournal)
  <2>1. /\ EmptyJournal.batch = NoBatch /\ NoBatch.phase = "none"
        /\ EmptyJournal.receipts = <<>> /\ Len(<<>>) = 0 /\ DOMAIN <<>> = {}
    BY DEF EmptyJournal, NoBatch
  <2>2. Cardinality(ActiveSteers(EmptyJournal)) = 0
    BY <1>2, FS_EmptySet
  <2> QED
    BY <2>1, <2>2, JournalAssumption DEF ValidJournal
<1>4. Unreceipted(EmptyJournal)
  BY <1>2 DEF Unreceipted, EmptyJournal
<1> QED
  BY <1>1, <1>2, <1>3, <1>4, FS_EmptySet DEF MachineInit, MachineInv, MachineTypeOK, Sound

LEMMA MachineInvNext == MachineInv /\ [MachineNext]_machineVars => MachineInv'
<1> SUFFICES ASSUME MachineInv, [MachineNext]_machineVars PROVE MachineInv'
  OBVIOUS
<1> USE DEF MachineInv, MachineTypeOK
<1>1. ASSUME NEW M \in SUBSET Members, Admit(M) PROVE MachineInv'
  BY <1>1, AdmitBatchSound DEF Admit
<1>2. ASSUME NEW id \in 1 .. lastId, BatchCall(id) PROVE MachineInv'
  <2>1. BatchMoved(journal, journal') /\ journal' \in Journals
    BY <1>2, BatchCallMoves DEF BatchCall, Sound
  <2> QED
    BY <1>2, <2>1, BatchMovedSound DEF BatchCall
<1>3. ASSUME NEW s \in Steers, AdmitSteerCall(s) PROVE MachineInv'
  BY <1>3, AdmitSteerSound DEF AdmitSteerCall
<1>4. ASSUME NEW s \in Steers, SteerCall(s) PROVE MachineInv'
  <2>1. SteerMoved(journal, journal', s) /\ journal' \in Journals
    BY <1>4, SteerCallMoves DEF SteerCall, Sound
  <2> QED
    BY <1>4, <2>1, SteerMovedSound DEF SteerCall
<1>5. CASE UNCHANGED machineVars
  BY <1>5 DEF machineVars
<1> QED
  BY <1>1, <1>2, <1>3, <1>4, <1>5 DEF MachineNext, LaterCalls

(* Every value the journal and the id counter take is well typed.          *)
THEOREM MachineTypeCorrect == MachineSpec => []MachineTypeOK
<1>1. MachineInv => MachineTypeOK
  BY DEF MachineInv
<1> QED
  BY <1>1, MachineInvInit, MachineInvNext, PTL DEF MachineSpec

(* No sequence of calls leads to a journal that parseJournal refuses.      *)
THEOREM JournalAlwaysValid == MachineSpec => []JournalStaysValid
<1>1. MachineInv => JournalStaysValid
  BY DEF MachineInv, Sound, JournalStaysValid
<1> QED
  BY <1>1, MachineInvInit, MachineInvNext, PTL DEF MachineSpec

(* No delivery is at once active and acknowledged.                         *)
THEOREM NeverBothOwedAndAcknowledged == MachineSpec => []OwedOrAcknowledged
<1>1. MachineInv => OwedOrAcknowledged
  BY DEF MachineInv, Sound, OwedOrAcknowledged
<1> QED
  BY <1>1, MachineInvInit, MachineInvNext, PTL DEF MachineSpec

-----------------------------------------------------------------------------
(* What was presented leaves only with its receipt.                        *)

PresentedStep ==
    /\ journal.batch.phase = "presented" =>
          \/ journal'.batch = journal.batch
          \/ /\ journal'.batch = NoBatch
             /\ journal'.receipts[Len(journal'.receipts)] = BatchDelivery(journal.batch.id)
    /\ \A s \in Steers : journal.steers[s] = "presented" =>
          \/ journal'.steers[s] = "presented"
          \/ /\ journal'.steers[s] = "absent"
             /\ journal'.receipts[Len(journal'.receipts)] = SteerDelivery(s)

LEMMA PresentedStepNext ==
    MachineInv /\ [MachineNext]_machineVars => [PresentedStep]_machineVars
<1> SUFFICES ASSUME MachineInv, MachineNext PROVE PresentedStep
  BY DEF machineVars
<1> USE DEF MachineInv, MachineTypeOK
<1>1. ASSUME NEW M \in SUBSET Members, Admit(M) PROVE PresentedStep
  BY <1>1 DEF Admit, CanAdmitBatch, AdmitBatch, PresentedStep, NoBatch, Journals
<1>2. ASSUME NEW id \in 1 .. lastId, BatchCall(id) PROVE PresentedStep
  <2>1. BatchMoved(journal, journal')
    BY <1>2, BatchCallMoves DEF BatchCall, Sound
  <2>2. BatchDelivery(journal.batch.id) \in Deliveries
    BY DEF Journals, Batch, BatchDelivery, Deliveries
  <2> QED
    BY <2>1, <2>2, ReceiptsOf DEF BatchMoved, PresentedStep
<1>3. ASSUME NEW s \in Steers, AdmitSteerCall(s) PROVE PresentedStep
  BY <1>3 DEF AdmitSteerCall, CanAdmitSteer, AdmitSteer, PresentedStep, Journals
<1>4. ASSUME NEW s \in Steers, SteerCall(s) PROVE PresentedStep
  <2>1. SteerMoved(journal, journal', s)
    BY <1>4, SteerCallMoves DEF SteerCall, Sound
  <2>2. SteerDelivery(s) \in Deliveries
    BY DEF SteerDelivery, Deliveries
  <2> QED
    BY <2>1, <2>2, ReceiptsOf DEF SteerMoved, PresentedStep
<1> QED
  BY <1>1, <1>2, <1>3, <1>4 DEF MachineNext, LaterCalls

(* A presented batch or steer is never taken back, and it leaves the       *)
(* journal only in the step that leaves its receipt as the newest.         *)
THEOREM PresentedIsFinal == MachineSpec => PresentedOnlyAcknowledged
<1>1. MachineInv /\ [MachineNext]_machineVars => [PresentedStep]_machineVars
  BY PresentedStepNext
<1> QED
  BY <1>1, MachineInvInit, MachineInvNext, PTL
     DEF MachineSpec, PresentedOnlyAcknowledged, PresentedStep
=============================================================================
