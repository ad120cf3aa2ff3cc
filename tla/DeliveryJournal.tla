--------------------------- MODULE DeliveryJournal ---------------------------
(***************************************************************************)
(* The owner-scoped delivery journal, lib/run-delivery.ts: at most one     *)
(* active completion batch, the urgent steers not yet presented, and a     *)
(* bounded tail of receipts.  Every mutation runs under the journal's file *)
(* lock and replaces the file atomically, so a mutation is a function from *)
(* a journal to the next journal; a call that throws or returns false      *)
(* leaves the journal as it was.                                           *)
(*                                                                         *)
(* DeliveryJournalMachine lets any caller make any call in any order, which *)
(* is what the journal must survive; RunDelivery uses the operators in the *)
(* order the coordinator calls them.  Timestamps, attempt counts and error *)
(* texts are left out: no guard reads them, except presented_at, which the *)
(* phase determines.                                                       *)
(***************************************************************************)
EXTENDS Naturals, Sequences, FiniteSets

CONSTANTS
    Members,        \* completion members: records with run and generation
    Steers,         \* urgent steer ids
    BatchMax,       \* RUN_DELIVERY_BATCH_MAX_MEMBERS
    SteerMax,       \* RUN_DELIVERY_STEER_MAX_ENVELOPES
    ReceiptLimit    \* RUN_DELIVERY_RECEIPT_LIMIT

ASSUME JournalAssumption ==
    /\ BatchMax \in Nat \ {0}
    /\ SteerMax \in Nat
    /\ ReceiptLimit \in Nat \ {0}

Phases == {"pending", "queued", "presented"}

\* The journal without a completion_batch field.
NoBatch == [id |-> 0, members |-> {}, phase |-> "none"]

Batch == [id : Nat, members : SUBSET Members, phase : Phases \cup {"none"}]

\* What a receipt remembers: the kind and the delivery id.
BatchDelivery(id) == <<"completion_batch", id>>
SteerDelivery(s) == <<"urgent_steer", s>>
Deliveries == ({"completion_batch"} \X Nat) \cup ({"urgent_steer"} \X Steers)

Journals == [batch : Batch,
             steers : [Steers -> Phases \cup {"absent"}],
             receipts : Seq(Deliveries)]

EmptyJournal == [batch |-> NoBatch,
                 steers |-> [s \in Steers |-> "absent"],
                 receipts |-> <<>>]

ActiveSteers(j) == {s \in Steers : j.steers[s] # "absent"}

HasReceipt(j, d) == \E i \in DOMAIN j.receipts : j.receipts[i] = d

OneGenerationEach(M) ==
    \A m, n \in M : m.run = n.run /\ m.generation = n.generation => m = n

\* What parseJournal demands of a journal it reads or is about to write.
ValidJournal(j) ==
    /\ j.batch.phase = "none" => j.batch = NoBatch
    /\ j.batch.phase # "none" =>
           /\ j.batch.members # {}
           /\ Cardinality(j.batch.members) <= BatchMax
           /\ OneGenerationEach(j.batch.members)
    /\ Cardinality(ActiveSteers(j)) <= SteerMax
    /\ Len(j.receipts) <= ReceiptLimit
    /\ \A i, k \in DOMAIN j.receipts : j.receipts[i] = j.receipts[k] => i = k

\* No active delivery has a receipt.
Unreceipted(j) ==
    /\ j.batch # NoBatch => ~HasReceipt(j, BatchDelivery(j.batch.id))
    /\ \A s \in ActiveSteers(j) : ~HasReceipt(j, SteerDelivery(s))

-----------------------------------------------------------------------------
(* Receipts: append at the end, at most once, keep the newest.             *)

\* A valid journal holds d at most once, so one element is dropped at most.
Without(receipts, d) ==
    IF \E i \in DOMAIN receipts : receipts[i] = d
    THEN LET at == CHOOSE i \in DOMAIN receipts : receipts[i] = d
         IN  [k \in 1 .. Len(receipts) - 1 |->
                 IF k < at THEN receipts[k] ELSE receipts[k + 1]]
    ELSE receipts

NewestReceipts(receipts) ==
    IF Len(receipts) <= ReceiptLimit THEN receipts
    ELSE SubSeq(receipts, Len(receipts) - ReceiptLimit + 1, Len(receipts))

Remember(receipts, d) == NewestReceipts(Append(Without(receipts, d), d))

-----------------------------------------------------------------------------
(* The completion batch.                                                   *)

CanAdmitBatch(j, id, M) ==
    /\ j.batch = NoBatch
    /\ ~HasReceipt(j, BatchDelivery(id))
    /\ M # {} /\ Cardinality(M) <= BatchMax /\ OneGenerationEach(M)

AdmitBatch(j, id, M) ==
    [j EXCEPT !.batch = [id |-> id, members |-> M, phase |-> "pending"]]

IsActive(j, id) == j.batch # NoBatch /\ j.batch.id = id

QueueBatch(j, id) ==
    IF IsActive(j, id) /\ j.batch.phase = "pending"
    THEN [j EXCEPT !.batch.phase = "queued"] ELSE j

\* Mutant: a presented batch can be taken back.
ResetBatchAlways(j, id) ==
    IF IsActive(j, id) THEN [j EXCEPT !.batch.phase = "pending"] ELSE j

ResetBatch(j, id) ==
    IF IsActive(j, id) /\ j.batch.phase = "queued"
    THEN [j EXCEPT !.batch.phase = "pending"] ELSE j

PresentBatch(j, id) ==
    IF IsActive(j, id) /\ j.batch.phase = "queued"
    THEN [j EXCEPT !.batch.phase = "presented"] ELSE j

FinalizeBatch(j, id) ==
    IF IsActive(j, id) /\ j.batch.phase = "presented"
    THEN [j EXCEPT !.batch = NoBatch,
                   !.receipts = Remember(@, BatchDelivery(id))]
    ELSE j

-----------------------------------------------------------------------------
(* Urgent steers.                                                          *)

\* Mutant: one steer too many.
CanAdmitSteerOver(j, s) ==
    /\ j.steers[s] = "absent"
    /\ ~HasReceipt(j, SteerDelivery(s))
    /\ Cardinality(ActiveSteers(j)) <= SteerMax

\* Mutant: receipts are not looked at.
CanAdmitSteerAgain(j, s) ==
    j.steers[s] = "absent" /\ Cardinality(ActiveSteers(j)) < SteerMax

CanAdmitSteer(j, s) ==
    /\ j.steers[s] = "absent"
    /\ ~HasReceipt(j, SteerDelivery(s))
    /\ Cardinality(ActiveSteers(j)) < SteerMax

AdmitSteer(j, s) == [j EXCEPT !.steers[s] = "pending"]

QueueSteer(j, s) ==
    IF j.steers[s] = "pending" THEN [j EXCEPT !.steers[s] = "queued"] ELSE j

ResetSteer(j, s) ==
    IF j.steers[s] = "queued" THEN [j EXCEPT !.steers[s] = "pending"] ELSE j

PresentSteer(j, s) ==
    IF j.steers[s] = "queued" THEN [j EXCEPT !.steers[s] = "presented"] ELSE j

FinalizeSteer(j, s) ==
    IF j.steers[s] = "presented"
    THEN [j EXCEPT !.steers[s] = "absent",
                   !.receipts = Remember(@, SteerDelivery(s))]
    ELSE j
=============================================================================
