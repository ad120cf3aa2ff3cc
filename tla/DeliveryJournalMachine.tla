----------------------- MODULE DeliveryJournalMachine -----------------------
(***************************************************************************)
(* The delivery journal under any interleaving of its exported operations, *)
(* lib/run-delivery.ts: what holds here holds whatever the coordinator     *)
(* (run-ui-runtime.ts) does with it.                                       *)
(***************************************************************************)
EXTENDS DeliveryJournal

VARIABLES
    journal,    \* the file
    lastId      \* batch ids are fresh (randomUUID): 1, 2, ...

machineVars == <<journal, lastId>>

MachineTypeOK ==
    /\ journal \in Journals
    /\ lastId \in Nat

MachineInit ==
    /\ journal = EmptyJournal
    /\ lastId = 0

Admit(M) ==
    /\ CanAdmitBatch(journal, lastId + 1, M)
    /\ lastId' = lastId + 1
    /\ journal' = AdmitBatch(journal, lastId + 1, M)

\* Any transition call, with any id issued so far: a late or repeated call for
\* a batch that is no longer active changes nothing.
BatchCall(id) ==
    /\ journal' \in {QueueBatch(journal, id), ResetBatch(journal, id),
                     PresentBatch(journal, id), FinalizeBatch(journal, id)}
    /\ UNCHANGED lastId

AdmitSteerCall(s) ==
    /\ CanAdmitSteer(journal, s)
    /\ journal' = AdmitSteer(journal, s)
    /\ UNCHANGED lastId

SteerCall(s) ==
    /\ journal' \in {QueueSteer(journal, s), ResetSteer(journal, s),
                     PresentSteer(journal, s), FinalizeSteer(journal, s)}
    /\ UNCHANGED lastId

LaterCalls ==
    \/ \E id \in 1 .. lastId : BatchCall(id)
    \/ \E s \in Steers : AdmitSteerCall(s)
    \/ \E s \in Steers : SteerCall(s)

MachineNext == (\E M \in SUBSET Members : Admit(M)) \/ LaterCalls

MachineSpec == MachineInit /\ [][MachineNext]_machineVars

-----------------------------------------------------------------------------
(* The journal is re-parsed before it is written and every time it is      *)
(* read, and a journal that does not parse stops delivery for good: no     *)
(* sequence of calls may lead to one (parseJournal, mutateJournal).        *)
JournalStaysValid == ValidJournal(journal)

(* A delivery is either owed or acknowledged: an active batch or steer     *)
(* never has a receipt, so a crash between a receipt and the removal it    *)
(* acknowledges cannot be represented (finalizeRunCompletionBatch and      *)
(* finalizeRunSteer do both in one replacement).                           *)
OwedOrAcknowledged == Unreceipted(journal)

(* What was presented is never taken back: a presented delivery stays      *)
(* presented until the same step that removes it leaves its receipt last   *)
(* (no call resets it to pending, so nothing can resend it).               *)
PresentedOnlyAcknowledged ==
    [][ /\ journal.batch.phase = "presented" =>
              \/ journal'.batch = journal.batch
              \/ /\ journal'.batch = NoBatch
                 /\ journal'.receipts[Len(journal'.receipts)] = BatchDelivery(journal.batch.id)
        /\ \A s \in Steers : journal.steers[s] = "presented" =>
              \/ journal'.steers[s] = "presented"
              \/ /\ journal'.steers[s] = "absent"
                 /\ journal'.receipts[Len(journal'.receipts)] = SteerDelivery(s)
      ]_machineVars
=============================================================================
